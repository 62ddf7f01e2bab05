\* The same player; what becomes of the board after the end of the round.
SPECIFICATION Spec
CONSTANTS
  a = a  b = b  c = c
  Letter <- MCLetter
  Words <- MCWords
  Blank = Blank  Hidden = Hidden
  MaxErrors = 2
  Calm = TRUE
  MaxInFlight = 4
PROPERTIES
  FinishedBoardIsFinal
