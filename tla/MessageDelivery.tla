-------------------------- MODULE MessageDelivery ---------------------------
(***************************************************************************)
(* What a handler of the server may count on when it gives a message to a  *)
(* client: the message arrives whole and once, unless the connection ends  *)
(* or the stream is broken.  Nothing is promised about the order.  Outbox  *)
(* is shown to implement this specification.                               *)
(***************************************************************************)
EXTENDS Naturals, Sequences

CONSTANT Message    \* one value per message given to the connection

VARIABLES pending,  \* messages on their way
          received, \* messages handed to the client's program, in that order
          broken    \* a message was cut on its way

vars == <<pending, received, broken>>

Init == pending = {} /\ received = <<>> /\ broken = FALSE

Send(m) ==
  /\ ~broken
  /\ m \notin pending /\ \A i \in 1..Len(received) : received[i] # m
  /\ pending' = pending \cup {m}
  /\ UNCHANGED <<received, broken>>

Deliver(m) ==
  /\ ~broken
  /\ m \in pending
  /\ pending' = pending \ {m}
  /\ received' = Append(received, m)
  /\ UNCHANGED broken

\* Nothing is promised of a broken stream.
Break == broken' = TRUE

\* A new connection begins with nothing on its way.
Reconnect == pending' = {} /\ received' = <<>> /\ broken' = FALSE

Next == Break \/ Reconnect \/ \E m \in Message : Send(m) \/ Deliver(m)

Spec == Init /\ [][Next]_vars /\ \A m \in Message : WF_vars(Deliver(m))
=============================================================================
