\* The same player; does the program survive the way back into a round?
SPECIFICATION Spec
CONSTANTS
  a = a  b = b  c = c
  Letter <- MCLetter
  Words <- MCWords
  Blank = Blank  Hidden = Hidden
  MaxErrors = 2
  Calm = TRUE
  MaxInFlight = 4
INVARIANTS
  ProgramSurvives
