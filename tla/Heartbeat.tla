----------------------------- MODULE Heartbeat ------------------------------
(***************************************************************************)
(* The heartbeat of one connection: Client::tick and Client::pongReceived  *)
(* on the server, the PING case of TcpClient::onReadyRead on the player's  *)
(* side.  TCP neither loses nor duplicates, and the player's program       *)
(* answers each PING once, so what the network does is to delay: the pings *)
(* on their way, and their answers on their way back, are "unanswered".    *)
(***************************************************************************)
EXTENDS Integers, Sequences

CONSTANTS
  PING_INTERVAL_SECONDS,  \* Constants.h:10 (1)
  PONG_TIMEOUT,           \* Constants.h:11 (3)
  MaxUnanswered           \* bound: pings that wait for their PONG at one time

\* A timeout of one second would expire in the tick that sends the ping.
ASSUME HeartbeatAssumption ==
  /\ PING_INTERVAL_SECONDS \in Nat \ {0}
  /\ PONG_TIMEOUT \in Nat \ {0, 1}
  /\ MaxUnanswered \in Nat

VARIABLES
  pingIntervalCounterSeconds, pongTimeoutCountersSeconds,
  receivedPong, isConnected,
  inRoom,      \* Client::room is not null
  unanswered,  \* ages, in ticks, of the pings without a PONG, oldest first
  silence      \* ticks since the last PONG, or since the connection was accepted

vars == <<pingIntervalCounterSeconds, pongTimeoutCountersSeconds,
          receivedPong, isConnected, inRoom, unanswered, silence>>

Init ==
  /\ pingIntervalCounterSeconds = PING_INTERVAL_SECONDS
  /\ pongTimeoutCountersSeconds = <<>>
  /\ receivedPong = FALSE
  /\ isConnected = TRUE
  /\ inRoom = FALSE
  /\ unanswered = <<>>
  /\ silence = 0

-----------------------------------------------------------------------------

\* Mutant: one second too late.
PingOverdue == pingIntervalCounterSeconds - 1 < 0

PingDue == pingIntervalCounterSeconds - 1 <= 0

\* Mutant: only the counter that is looked at is decremented.
FirstDecremented ==
  LET pushed == IF PingDue THEN Append(pongTimeoutCountersSeconds, PONG_TIMEOUT)
                           ELSE pongTimeoutCountersSeconds
  IN [i \in 1..Len(pushed) |-> IF i = 1 THEN pushed[i] - 1 ELSE pushed[i]]

\* The counters after the push_back and the decrement of every one of them.
Decremented ==
  LET pushed == IF PingDue THEN Append(pongTimeoutCountersSeconds, PONG_TIMEOUT)
                           ELSE pongTimeoutCountersSeconds
  IN [i \in 1..Len(pushed) |-> pushed[i] - 1]

\* Mutants: one second too late, one second too early.
FirstOverdue(counters) == counters # <<>> /\ counters[1] < 0
FirstNearlyExpired(counters) == counters # <<>> /\ counters[1] <= 1

\* Only the first counter is looked at.
FirstExpired(counters) == counters # <<>> /\ counters[1] <= 0

Aged == [i \in 1..Len(unanswered) |-> unanswered[i] + 1]

Tick ==
  /\ Len(unanswered) < MaxUnanswered
  /\ pingIntervalCounterSeconds' =
       IF PingDue THEN PING_INTERVAL_SECONDS ELSE pingIntervalCounterSeconds - 1
  /\ unanswered' = IF PingDue THEN Append(Aged, 0) ELSE Aged
  /\ pongTimeoutCountersSeconds' =
       IF FirstExpired(Decremented) THEN Tail(Decremented) ELSE Decremented
  /\ receivedPong' = (receivedPong /\ ~FirstExpired(Decremented))
  /\ isConnected' = IF inRoom THEN receivedPong' ELSE isConnected
  /\ silence' = silence + 1
  /\ UNCHANGED inRoom

\* Mutant: the PONG takes the youngest counter.
PongTakesLast ==
  /\ unanswered # <<>>
  /\ unanswered' = Tail(unanswered)
  /\ receivedPong' = TRUE
  /\ pongTimeoutCountersSeconds' =
       IF ~isConnected \/ pongTimeoutCountersSeconds = <<>>
       THEN <<>>
       ELSE SubSeq(pongTimeoutCountersSeconds, 1, Len(pongTimeoutCountersSeconds) - 1)
  /\ silence' = 0
  /\ UNCHANGED <<pingIntervalCounterSeconds, isConnected, inRoom>>

\* Mutant: the PONG takes a counter only from a peer that was given up.
PongTakesNone ==
  /\ unanswered # <<>>
  /\ unanswered' = Tail(unanswered)
  /\ receivedPong' = TRUE
  /\ pongTimeoutCountersSeconds' = IF ~isConnected THEN <<>> ELSE pongTimeoutCountersSeconds
  /\ silence' = 0
  /\ UNCHANGED <<pingIntervalCounterSeconds, isConnected, inRoom>>

PongReceived ==
  /\ unanswered # <<>>
  /\ unanswered' = Tail(unanswered)
  /\ receivedPong' = TRUE
  /\ pongTimeoutCountersSeconds' =
       IF ~isConnected \/ pongTimeoutCountersSeconds = <<>>
       THEN <<>> ELSE Tail(pongTimeoutCountersSeconds)
  /\ silence' = 0
  /\ UNCHANGED <<pingIntervalCounterSeconds, isConnected, inRoom>>

\* Room::Room, Room::join and Room::leave set Client::room.
EnterRoom ==
  /\ ~inRoom /\ inRoom' = TRUE
  /\ UNCHANGED <<pingIntervalCounterSeconds, pongTimeoutCountersSeconds,
                 receivedPong, isConnected, unanswered, silence>>

ExitRoom ==
  /\ inRoom /\ inRoom' = FALSE
  /\ UNCHANGED <<pingIntervalCounterSeconds, pongTimeoutCountersSeconds,
                 receivedPong, isConnected, unanswered, silence>>

Next == Tick \/ PongReceived \/ EnterRoom \/ ExitRoom

Spec == Init /\ [][Next]_vars

-----------------------------------------------------------------------------

\* Every variable has its type, and a counter is never left at zero or below:
\* the tick that brings it there removes it (Client.cpp:48-57).
TypeOK ==
  /\ pingIntervalCounterSeconds \in 1..PING_INTERVAL_SECONDS
  /\ pongTimeoutCountersSeconds \in Seq(1..(PONG_TIMEOUT - 1))
  /\ receivedPong \in BOOLEAN /\ isConnected \in BOOLEAN /\ inRoom \in BOOLEAN
  /\ unanswered \in Seq(Nat)
  /\ silence \in Nat

\* The counters belong to the youngest pings, one each and in order, so that a
\* PONG, which says nothing of the ping it answers, never takes the counter of
\* a ping sent after the one it was meant for was still counted (Client.cpp:48-57,
\* 77-84).
CountersFollowPings ==
  LET n == Len(pongTimeoutCountersSeconds)
      older == Len(unanswered) - n
  IN /\ older >= 0
     /\ \A i \in 1..n :
          pongTimeoutCountersSeconds[i] = PONG_TIMEOUT - 1 - unanswered[older + i]

\* tick looks at the first counter only and removes at most one; that is enough
\* because no two counters ever expire in the same tick (Client.cpp:53-57).
CountersIncrease ==
  \A i, j \in 1..Len(pongTimeoutCountersSeconds) :
    i < j => pongTimeoutCountersSeconds[i] < pongTimeoutCountersSeconds[j]

\* The server gives up a connection only when a ping has really waited that
\* long: a peer that answers each ping in time is never lost (Client.cpp:53-57).
OnlyLatePeersAreLost ==
  [][Tick /\ receivedPong /\ ~receivedPong' =>
       /\ unanswered' # <<>>
       /\ unanswered'[1] >= PONG_TIMEOUT - 1]_vars

\* A peer that stays silent is shown as disconnected at the latest when one
\* interval and one timeout have passed, however many of its earlier answers
\* were late and whenever it entered the room (Client.cpp:37-72).
SilenceIsShown ==
  [][Tick /\ inRoom /\ silence' >= PING_INTERVAL_SECONDS + PONG_TIMEOUT - 1
       => ~isConnected']_vars

\* One PONG since the last tick is enough to be shown as connected by the next
\* one, even when older pings are still unanswered (Client.cpp:59-61, 74-84).
AnswerIsShown ==
  [][Tick /\ inRoom /\ silence = 0 /\ receivedPong => isConnected']_vars
=============================================================================
