\* Four messages; writes and reads may end anywhere.
SPECIFICATION Spec
CONSTANTS
  Message = {m1, m2, m3, m4}
  LoginOK = LoginOK
  None = None
INVARIANTS
  TypeOK
  NewestInBufferFirst
PROPERTIES
  ImplementsDelivery
