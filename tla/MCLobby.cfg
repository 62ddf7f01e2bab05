\* Two players, three connections: one may be open on one side only.
SPECIFICATION Spec
CONSTANTS
  A = A
  Client = {c1, c2, c3}
  Player = {p1, p2}
  Letter = {A}
  Words <- OneLetterWord
  Blank = Blank  Hidden = Hidden
  NoClient = NoClient  NoNick = NoNick
  MaxErrors = 1
  Duration = 1
  MaxRooms = 2
  MaxSeats = 3
  MaxActs = 6
  MaxUnderWay = 3
SYMMETRY ClientSymmetry
INVARIANTS
  TypeOK
  ScreenMatchesServer
  StartIsOffered
  RoundIsShown
  ListIsCurrent
PROPERTIES
  RequestsInOrder
\* A crash of the process is final.
CHECK_DEADLOCK FALSE
