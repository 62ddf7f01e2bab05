\* Two rooms, one created after the other is erased or beside it; no symmetry,
\* RoundEnds is a liveness property.
SPECIFICATION FairSpec
CONSTANTS
  A = A  B = B  C = C
  Client = {c1, c2}
  Nick = {n1, n2}
  Letter = {A}
  Words <- OneLetterWord
  Blank = Blank  Hidden = Hidden
  NoClient = NoClient  NoNick = NoNick
  MaxErrors = 1
  Duration = 2
  StartPlayers = 1
  AnyOrder = FALSE
  MaxRooms = 2
  MaxSeats = 2
INVARIANTS
  NoDanglingRoom
  SeatsMatchRooms
  NobodyFinishesEarly
PROPERTIES
  RoundEnds
\* A crash of the process is final.
CHECK_DEADLOCK FALSE
