\* A player who has finished loses the connection and comes back.
SPECIFICATION Spec
CONSTANTS
  A = A  B = B  C = C
  Client = {c1, c2, c3}
  Nick = {n1, n2}
  Letter = {A, B}
  Words <- OneLetterWord
  Blank = Blank  Hidden = Hidden
  NoClient = NoClient  NoNick = NoNick
  MaxErrors = 1
  Duration = 3
  StartPlayers = 2
  AnyOrder = FALSE
  MaxRooms = 1
  MaxSeats = 3
SYMMETRY ClientSymmetry
PROPERTIES
  RoundEndsWhenAllAreDone
\* A crash of the process is final.
CHECK_DEADLOCK FALSE
