\* A third player joins a room whose round is running.
SPECIFICATION Spec
CONSTANTS
  A = A  B = B  C = C
  Client = {c1, c2, c3}
  Nick = {n1, n2, n3}
  Letter = {A, B}
  Words <- OneLetterWord
  Blank = Blank  Hidden = Hidden
  NoClient = NoClient  NoNick = NoNick
  MaxErrors = 1
  Duration = 2
  StartPlayers = 2
  AnyOrder = FALSE
  MaxRooms = 1
  MaxSeats = 3
SYMMETRY ClientSymmetry
INVARIANTS
  EveryMemberHasARow
\* A crash of the process is final.
CHECK_DEADLOCK FALSE
