\* Two connections, a request without a payload and one with a payload of one byte.
SPECIFICATION Spec
CONSTANTS
  Client = {c1, c2}
  Leave = Leave  Guess = Guess
  Request <- MCRequest
  PayloadSize <- MCPayloadSize
  Reply = Reply
  None = None
  MaxRequests = 3
INVARIANTS
  TypeOK
  PollSetMatchesClients
  OnlyInterferenceMisreads
PROPERTIES
  RequestsAreHandled
\* When the Parser has taken bytes for what they are not, the model stops.
CHECK_DEADLOCK FALSE
