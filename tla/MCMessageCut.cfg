\* Two messages; writes and reads may end anywhere.
SPECIFICATION Spec
CONSTANTS
  Message = {m1, m2}
  LoginOK = LoginOK
  None = None
INVARIANTS
  PayloadsFit
