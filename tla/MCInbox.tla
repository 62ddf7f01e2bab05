------------------------------- MODULE MCInbox -------------------------------
(***************************************************************************)
(* Requests for TLC: one without a payload, one with a payload of a byte.  *)
(***************************************************************************)
EXTENDS Inbox

CONSTANTS Leave, Guess

MCRequest     == {Leave, Guess}
MCPayloadSize == [r \in MCRequest |-> IF r = Guess THEN 1 ELSE 0]
=============================================================================
