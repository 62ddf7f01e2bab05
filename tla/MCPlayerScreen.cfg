\* One player, rounds after rounds; two tries, a third letter that is always wrong.
SPECIFICATION Spec
CONSTANTS
  a = a  b = b  c = c
  Letter <- MCLetter
  Words <- MCWords
  Blank = Blank  Hidden = Hidden
  MaxErrors = 2
  Calm = TRUE
  MaxInFlight = 4
INVARIANTS
  TypeOK
  ScreenShowsBoard
  PlayerCanGuess
  GuessesAreAnswerable
PROPERTIES
  WaitingEnds
