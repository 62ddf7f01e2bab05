\* One room, three connections, requests in any order: several seats, restarts.
SPECIFICATION Spec
CONSTANTS
  A = A  B = B  C = C
  Client = {c1, c2, c3}
  Nick = {n1, n2}
  Letter = {A, B}
  Words <- OneLetterWord
  Blank = Blank  Hidden = Hidden
  NoClient = NoClient  NoNick = NoNick
  MaxErrors = 1
  Duration = 2
  StartPlayers = 1
  AnyOrder = TRUE
  MaxRooms = 1
  MaxSeats = 4
SYMMETRY ClientSymmetry
INVARIANTS
  TypeOK
  NoDanglingRoom
  BoardsConsistent
PROPERTIES
  LostPlayersAreFound
  ProgressIsNeverLost
\* A crash of the process is final.
CHECK_DEADLOCK FALSE
