-------------------------- MODULE HeartbeatProofs ---------------------------
(***************************************************************************)
(* Theorems about Heartbeat for every interval, timeout and number of      *)
(* pings on their way.                                                     *)
(***************************************************************************)
EXTENDS Heartbeat, SequenceTheorems, TLAPS

\* Pings are answered in the order they were sent.
AgesDecrease ==
  \A i, j \in 1..Len(unanswered) : i < j => unanswered[i] > unanswered[j]

\* While the peer counts as alive, the wait for the next ping or for the oldest
\* counted one ends before the silence exceeds an interval and a timeout.
SilenceBounded ==
  receivedPong =>
    IF pongTimeoutCountersSeconds = <<>>
    THEN pingIntervalCounterSeconds + silence <= PING_INTERVAL_SECONDS
    ELSE pongTimeoutCountersSeconds[1] + silence
           <= PING_INTERVAL_SECONDS + PONG_TIMEOUT - 1

\* A PONG takes the counter that would have expired next with it.
FreshAfterPong ==
  receivedPong /\ silence = 0 /\ pongTimeoutCountersSeconds # <<>>
    => pongTimeoutCountersSeconds[1] >= 2

IInv == /\ TypeOK /\ CountersFollowPings /\ AgesDecrease
        /\ SilenceBounded /\ FreshAfterPong

-----------------------------------------------------------------------------

\* A function on 1..n with values in S is a sequence over S.
LEMMA BuiltSeq ==
  ASSUME NEW S, NEW n \in Nat, NEW f, f = [i \in 1..n |-> f[i]], \A i \in 1..n : f[i] \in S
  PROVE  f \in Seq(S) /\ Len(f) = n
OBVIOUS

\* The type invariant, entry by entry.
LEMMA TypedEntries ==
  ASSUME TypeOK
  PROVE  /\ Len(pongTimeoutCountersSeconds) \in Nat /\ Len(unanswered) \in Nat
         /\ \A i \in 1..Len(pongTimeoutCountersSeconds) :
              pongTimeoutCountersSeconds[i] \in 1..(PONG_TIMEOUT - 1)
         /\ \A i \in 1..Len(unanswered) : unanswered[i] \in Nat
<1>1. PICK S : S = 1..(PONG_TIMEOUT - 1)
  OBVIOUS
<1>2. pongTimeoutCountersSeconds \in Seq(S) /\ unanswered \in Seq(Nat)
  BY <1>1 DEF TypeOK
<1>3. \A i \in 1..Len(pongTimeoutCountersSeconds) : pongTimeoutCountersSeconds[i] \in S
  BY <1>2, ElementOfSeq
<1> QED BY <1>1, <1>2, <1>3, ElementOfSeq, LenProperties

\* The counters are as distinct as the ages of the pings they belong to.
LEMMA AgesOrderCounters == TypeOK /\ CountersFollowPings /\ AgesDecrease => CountersIncrease
<1> SUFFICES ASSUME TypeOK, CountersFollowPings, AgesDecrease,
                    NEW i \in 1..Len(pongTimeoutCountersSeconds),
                    NEW j \in 1..Len(pongTimeoutCountersSeconds), i < j
             PROVE  pongTimeoutCountersSeconds[i] < pongTimeoutCountersSeconds[j]
  BY DEF CountersIncrease
<1> DEFINE older == Len(unanswered) - Len(pongTimeoutCountersSeconds)
<1>1. /\ older \in Nat /\ Len(pongTimeoutCountersSeconds) \in Nat /\ Len(unanswered) \in Nat
      /\ older + i \in 1..Len(unanswered) /\ older + j \in 1..Len(unanswered)
  BY DEF CountersFollowPings, TypeOK
<1>2. /\ pongTimeoutCountersSeconds[i] = PONG_TIMEOUT - 1 - unanswered[older + i]
      /\ pongTimeoutCountersSeconds[j] = PONG_TIMEOUT - 1 - unanswered[older + j]
  BY DEF CountersFollowPings
<1>3. unanswered[older + i] > unanswered[older + j]
  BY <1>1 DEF AgesDecrease
<1>4. unanswered[older + i] \in Nat /\ unanswered[older + j] \in Nat
  BY <1>1 DEF TypeOK
<1> QED BY <1>2, <1>3, <1>4, HeartbeatAssumption

\* Client's constructor.
LEMMA InitIInv == Init => IInv
<1> SUFFICES ASSUME Init PROVE IInv
  OBVIOUS
<1> USE DEF Init
<1>1. TypeOK
  <2>1. PICK S : S = 1..(PONG_TIMEOUT - 1)
    OBVIOUS
  <2>2. <<>> \in Seq(S) /\ <<>> \in Seq(Nat)
    BY EmptySeq
  <2>3. pongTimeoutCountersSeconds \in Seq(1..(PONG_TIMEOUT - 1)) /\ unanswered \in Seq(Nat)
    BY <2>1, <2>2
  <2>4. PING_INTERVAL_SECONDS \in 1..PING_INTERVAL_SECONDS
    BY HeartbeatAssumption
  <2> QED BY <2>3, <2>4 DEF TypeOK
<1>2. CountersFollowPings /\ AgesDecrease
  BY DEF CountersFollowPings, AgesDecrease
<1>3. SilenceBounded /\ FreshAfterPong
  BY DEF SilenceBounded, FreshAfterPong
<1> QED BY <1>1, <1>2, <1>3 DEF IInv

\* What one tick makes of the counters and of the ages, entry by entry.
LEMMA TickEffect ==
  ASSUME TypeOK, Tick
  PROVE  LET n == Len(pongTimeoutCountersSeconds)
             u == Len(unanswered)
             pushed == IF PingDue THEN 1 ELSE 0
         IN /\ n \in Nat /\ u \in Nat
            /\ Len(Decremented) = n + pushed
            /\ \A i \in 1..n : Decremented[i] = pongTimeoutCountersSeconds[i] - 1
            /\ PingDue => Decremented[n + 1] = PONG_TIMEOUT - 1
            /\ Decremented \in Seq(0..(PONG_TIMEOUT - 1))
            /\ unanswered' \in Seq(Nat)
            /\ Len(unanswered') = u + pushed
            /\ \A i \in 1..u : unanswered'[i] = unanswered[i] + 1
            /\ PingDue => unanswered'[u + 1] = 0
<1> DEFINE n == Len(pongTimeoutCountersSeconds)
           u == Len(unanswered)
<1>1. /\ pongTimeoutCountersSeconds \in Seq(1..(PONG_TIMEOUT - 1)) /\ n \in Nat
      /\ unanswered \in Seq(Nat) /\ u \in Nat
      /\ \A i \in 1..n : pongTimeoutCountersSeconds[i] \in 1..(PONG_TIMEOUT - 1)
      /\ \A i \in 1..u : unanswered[i] \in Nat
  BY TypedEntries DEF TypeOK
<1>2. CASE PingDue
  <2>1. Decremented = [i \in 1..(n + 1) |->
                         Append(pongTimeoutCountersSeconds, PONG_TIMEOUT)[i] - 1]
    BY <1>1, <1>2, HeartbeatAssumption DEF Decremented
  <2>2. /\ Len(Decremented) = n + 1
        /\ \A i \in 1..n : Decremented[i] = pongTimeoutCountersSeconds[i] - 1
        /\ Decremented[n + 1] = PONG_TIMEOUT - 1
    BY <1>1, <2>1, HeartbeatAssumption
  <2>3. Decremented \in Seq(0..(PONG_TIMEOUT - 1))
    <3>1. ASSUME NEW i \in 1..(n + 1) PROVE Decremented[i] \in 0..(PONG_TIMEOUT - 1)
      <4>1. CASE i = n + 1
        BY <2>2, <4>1, HeartbeatAssumption
      <4>2. CASE i # n + 1
        <5>1. i \in 1..n
          BY <1>1, <4>2
        <5>2. pongTimeoutCountersSeconds[i] \in 1..(PONG_TIMEOUT - 1)
              /\ Decremented[i] = pongTimeoutCountersSeconds[i] - 1
          BY <1>1, <2>2, <5>1
        <5> QED BY <5>2, HeartbeatAssumption
      <4> QED BY <4>1, <4>2
    <3>2. n + 1 \in Nat /\ Decremented = [i \in 1..(n + 1) |-> Decremented[i]]
      BY <1>1, <2>1
    <3> QED BY <3>1, <3>2, BuiltSeq
  <2>4. Aged \in Seq(Nat) /\ Len(Aged) = u /\ \A i \in 1..u : Aged[i] = unanswered[i] + 1
    BY <1>1 DEF Aged
  <2>5. unanswered' = Append(Aged, 0)
    BY <1>2 DEF Tick
  <2> QED BY <1>1, <1>2, <2>2, <2>3, <2>4, <2>5
<1>3. CASE ~PingDue
  <2>1. Decremented = [i \in 1..n |-> pongTimeoutCountersSeconds[i] - 1]
    BY <1>3 DEF Decremented
  <2>2. \A i \in 1..n : Decremented[i] \in 0..(PONG_TIMEOUT - 1)
    BY <1>1, <2>1, HeartbeatAssumption
  <2>3. Decremented \in Seq(0..(PONG_TIMEOUT - 1)) /\ Len(Decremented) = n
    BY <1>1, <2>1, <2>2
  <2>4. unanswered' = [i \in 1..u |-> unanswered[i] + 1]
    BY <1>3 DEF Tick, Aged
  <2> QED BY <1>1, <1>3, <2>1, <2>3, <2>4
<1> QED BY <1>2, <1>3

\* Only one counter can expire in a tick, so what tick leaves is positive.
LEMMA TickCounters ==
  ASSUME TypeOK, CountersIncrease, Tick
  PROVE  LET next == pongTimeoutCountersSeconds'
             gone == IF FirstExpired(Decremented) THEN 1 ELSE 0
         IN /\ next \in Seq(1..(PONG_TIMEOUT - 1))
            /\ Len(next) = Len(Decremented) - gone
            /\ \A i \in 1..Len(next) : next[i] = Decremented[i + gone]
            /\ FirstExpired(Decremented) <=> Decremented # <<>> /\ Decremented[1] <= 0
<1> DEFINE n == Len(pongTimeoutCountersSeconds)
<1>1. /\ n \in Nat
      /\ \A i \in 1..n : pongTimeoutCountersSeconds[i] \in 1..(PONG_TIMEOUT - 1)
      /\ \A i, j \in 1..n : i < j => pongTimeoutCountersSeconds[i] < pongTimeoutCountersSeconds[j]
  BY TypedEntries DEF CountersIncrease
<1>2. /\ Decremented \in Seq(0..(PONG_TIMEOUT - 1))
      /\ Len(Decremented) = n + (IF PingDue THEN 1 ELSE 0)
      /\ \A i \in 1..n : Decremented[i] = pongTimeoutCountersSeconds[i] - 1
      /\ PingDue => Decremented[n + 1] = PONG_TIMEOUT - 1
  BY TickEffect
<1> HIDE DEF n
<1>3. PICK d : d = Decremented
  OBVIOUS
<1>4. \A i \in 1..Len(d) : i # 1 => d[i] \in 1..(PONG_TIMEOUT - 1)
  <2> SUFFICES ASSUME NEW i \in 1..Len(d), i # 1 PROVE d[i] \in 1..(PONG_TIMEOUT - 1)
    OBVIOUS
  <2>1. CASE i \in 1..n
    <3>1. 1 \in 1..n /\ 1 < i
      BY <1>1, <2>1
    <3>2. pongTimeoutCountersSeconds[1] < pongTimeoutCountersSeconds[i]
      BY <1>1, <2>1, <3>1
    <3> QED BY <1>1, <1>2, <1>3, <2>1, <3>1, <3>2, HeartbeatAssumption
  <2>2. CASE i \notin 1..n
    BY <1>1, <1>2, <1>3, <2>2, HeartbeatAssumption
  <2> QED BY <2>1, <2>2
<1>5. /\ FirstExpired(Decremented) <=> d # <<>> /\ d[1] <= 0
      /\ pongTimeoutCountersSeconds' = IF FirstExpired(Decremented) THEN Tail(d) ELSE d
      /\ d \in Seq(0..(PONG_TIMEOUT - 1))
  BY <1>2, <1>3 DEF FirstExpired, Tick
<1>6. CASE FirstExpired(Decremented)
  <2>1. /\ Len(Tail(d)) = Len(d) - 1
        /\ \A i \in 1..Len(Tail(d)) : Tail(d)[i] = d[i + 1]
    BY <1>5, <1>6, HeadTailProperties
  <2>2. \A i \in 1..Len(Tail(d)) : Tail(d)[i] \in 1..(PONG_TIMEOUT - 1)
    BY <1>4, <1>5, <1>6, <2>1
  <2>3. Tail(d) \in Seq(1..(PONG_TIMEOUT - 1))
    <3>1. Len(Tail(d)) \in Nat /\ Tail(d) = [i \in 1..Len(Tail(d)) |-> Tail(d)[i]]
      BY <1>5, <1>6, HeadTailProperties, LenProperties
    <3> QED BY <2>2, <3>1, BuiltSeq
  <2> QED BY <1>3, <1>5, <1>6, <2>1, <2>3
<1>7. CASE ~FirstExpired(Decremented)
  <2>1. \A i \in 1..Len(d) : d[i] \in 1..(PONG_TIMEOUT - 1)
    BY <1>4, <1>5, <1>7, HeartbeatAssumption
  <2>2. d \in Seq(1..(PONG_TIMEOUT - 1))
    <3>1. Len(d) \in Nat /\ d = [i \in 1..Len(d) |-> d[i]]
      BY <1>5, LenProperties
    <3> QED BY <2>1, <3>1, BuiltSeq
  <2> QED BY <1>3, <1>5, <1>7, <2>2
<1> QED BY <1>6, <1>7

-----------------------------------------------------------------------------
(***************************************************************************)
(* Each part of the invariant under a tick.                                *)
(***************************************************************************)

\* Every counter and the ping it belongs to move together.
LEMMA TickKeepsOrder ==
  ASSUME IInv, Tick
  PROVE  CountersFollowPings' /\ AgesDecrease'
<1> DEFINE n == Len(pongTimeoutCountersSeconds)
           u == Len(unanswered)
           pushed == IF PingDue THEN 1 ELSE 0
           gone == IF FirstExpired(Decremented) THEN 1 ELSE 0
<1>1. TypeOK /\ CountersIncrease
  BY AgesOrderCounters DEF IInv
<1>2. /\ n \in Nat /\ u \in Nat /\ u - n >= 0
      /\ \A i \in 1..n : pongTimeoutCountersSeconds[i] = PONG_TIMEOUT - 1 - unanswered[(u - n) + i]
      /\ \A i, j \in 1..u : i < j => unanswered[i] > unanswered[j]
      /\ \A i \in 1..u : unanswered[i] \in Nat
  BY <1>1, TypedEntries DEF IInv, CountersFollowPings, AgesDecrease
<1>3. /\ Len(Decremented) = n + pushed
      /\ \A i \in 1..n : Decremented[i] = pongTimeoutCountersSeconds[i] - 1
      /\ PingDue => Decremented[n + 1] = PONG_TIMEOUT - 1
      /\ Len(unanswered') = u + pushed
      /\ \A i \in 1..u : unanswered'[i] = unanswered[i] + 1
      /\ PingDue => unanswered'[u + 1] = 0
  BY <1>1, TickEffect
<1>4. /\ pongTimeoutCountersSeconds' \in Seq(1..(PONG_TIMEOUT - 1))
      /\ Len(pongTimeoutCountersSeconds') = Len(Decremented) - gone
      /\ \A i \in 1..Len(pongTimeoutCountersSeconds') :
           pongTimeoutCountersSeconds'[i] = Decremented[i + gone]
  BY <1>1, TickCounters
<1> HIDE DEF n, u
<1>5. \A i \in 1..(n + pushed) : Decremented[i] = PONG_TIMEOUT - 1 - unanswered'[(u - n) + i]
  <2> SUFFICES ASSUME NEW i \in 1..(n + pushed)
               PROVE  Decremented[i] = PONG_TIMEOUT - 1 - unanswered'[(u - n) + i]
    OBVIOUS
  <2>1. CASE i \in 1..n
    <3>1. (u - n) + i \in 1..u
      BY <1>2, <2>1
    <3>2. Decremented[i] = pongTimeoutCountersSeconds[i] - 1
          /\ pongTimeoutCountersSeconds[i] = PONG_TIMEOUT - 1 - unanswered[(u - n) + i]
          /\ unanswered'[(u - n) + i] = unanswered[(u - n) + i] + 1
          /\ unanswered[(u - n) + i] \in Nat
      BY <1>2, <1>3, <2>1, <3>1
    <3> QED BY <3>2, HeartbeatAssumption
  <2>2. CASE i \notin 1..n
    <3>1. PingDue /\ i = n + 1 /\ (u - n) + i = u + 1
      BY <1>2, <2>2
    <3> QED BY <1>3, <3>1, HeartbeatAssumption
  <2> QED BY <2>1, <2>2
<1>6. CountersFollowPings'
  <2>1. Len(unanswered') - Len(pongTimeoutCountersSeconds') = (u - n) + gone
    BY <1>2, <1>3, <1>4
  <2>2. ASSUME NEW i \in 1..Len(pongTimeoutCountersSeconds')
        PROVE  pongTimeoutCountersSeconds'[i] = PONG_TIMEOUT - 1 - unanswered'[((u - n) + gone) + i]
    <3>1. i + gone \in 1..(n + pushed) /\ (u - n) + (i + gone) = ((u - n) + gone) + i
      BY <1>2, <1>3, <1>4
    <3> QED BY <1>4, <1>5, <3>1
  <2> QED BY <1>2, <2>1, <2>2 DEF CountersFollowPings
<1>7. AgesDecrease'
  BY <1>2, <1>3 DEF AgesDecrease
<1> QED BY <1>6, <1>7

\* What tick does to the state besides the two lists.
LEMMA TickKeepsIInv ==
  ASSUME IInv, Tick
  PROVE  IInv'
<1> DEFINE n == Len(pongTimeoutCountersSeconds)
<1>1. TypeOK /\ CountersIncrease
  BY AgesOrderCounters DEF IInv
<1>2. /\ n \in Nat
      /\ Len(Decremented) = n + (IF PingDue THEN 1 ELSE 0)
      /\ \A i \in 1..n : Decremented[i] = pongTimeoutCountersSeconds[i] - 1
      /\ PingDue => Decremented[n + 1] = PONG_TIMEOUT - 1
      /\ Decremented \in Seq(0..(PONG_TIMEOUT - 1))
      /\ unanswered' \in Seq(Nat)
  BY <1>1, TickEffect
<1>3. /\ pongTimeoutCountersSeconds' \in Seq(1..(PONG_TIMEOUT - 1))
      /\ ~FirstExpired(Decremented) => pongTimeoutCountersSeconds' = Decremented
  BY <1>1, TickCounters DEF Tick
<1>4. /\ pingIntervalCounterSeconds' =
           (IF PingDue THEN PING_INTERVAL_SECONDS ELSE pingIntervalCounterSeconds - 1)
      /\ receivedPong' = (receivedPong /\ ~FirstExpired(Decremented))
      /\ isConnected' = (IF inRoom THEN receivedPong' ELSE isConnected)
      /\ silence' = silence + 1 /\ inRoom' = inRoom
      /\ PingDue <=> pingIntervalCounterSeconds - 1 <= 0
  BY DEF Tick, PingDue
<1>5. /\ pingIntervalCounterSeconds \in 1..PING_INTERVAL_SECONDS
      /\ silence \in Nat
      /\ receivedPong \in BOOLEAN /\ isConnected \in BOOLEAN /\ inRoom \in BOOLEAN
  BY <1>1 DEF TypeOK
<1>6. TypeOK'
  <2>1. pingIntervalCounterSeconds' \in 1..PING_INTERVAL_SECONDS /\ silence' \in Nat
    BY <1>4, <1>5, HeartbeatAssumption
  <2>2. receivedPong' \in BOOLEAN /\ isConnected' \in BOOLEAN /\ inRoom' \in BOOLEAN
    BY <1>4, <1>5
  <2> QED BY <1>2, <1>3, <2>1, <2>2 DEF TypeOK
<1>7. SilenceBounded'
  <2> SUFFICES ASSUME receivedPong'
               PROVE  IF Decremented = <<>>
                      THEN pingIntervalCounterSeconds' + silence' <= PING_INTERVAL_SECONDS
                      ELSE Decremented[1] + silence' <= PING_INTERVAL_SECONDS + PONG_TIMEOUT - 1
    BY <1>3, <1>4 DEF SilenceBounded
  <2>1. receivedPong
    BY <1>4
  <2>2. CASE pongTimeoutCountersSeconds = <<>>
    <3>1. pingIntervalCounterSeconds + silence <= PING_INTERVAL_SECONDS
      BY <2>1, <2>2 DEF IInv, SilenceBounded
    <3>2. n = 0
      BY <2>2
    <3>3. CASE PingDue
      <4>1. Len(Decremented) = 1 /\ Decremented[1] = PONG_TIMEOUT - 1
        BY <1>2, <3>2, <3>3
      <4>2. Decremented # <<>>
        BY <4>1
      <4> QED BY <1>4, <1>5, <3>1, <3>3, <4>1, <4>2, HeartbeatAssumption
    <3>4. CASE ~PingDue
      <4>1. Decremented = <<>>
        BY <1>2, <3>2, <3>4
      <4> QED BY <1>4, <1>5, <3>1, <3>4, <4>1, HeartbeatAssumption
    <3> QED BY <3>3, <3>4
  <2>3. CASE pongTimeoutCountersSeconds # <<>>
    <3>1. pongTimeoutCountersSeconds[1] + silence <= PING_INTERVAL_SECONDS + PONG_TIMEOUT - 1
      BY <2>1, <2>3 DEF IInv, SilenceBounded
    <3>2. 1 \in 1..n
      BY <1>1, <1>2, <2>3 DEF TypeOK
    <3>3. Decremented # <<>> /\ Decremented[1] = pongTimeoutCountersSeconds[1] - 1
      BY <1>2, <3>2
    <3>4. pongTimeoutCountersSeconds[1] \in Nat
      BY <1>1, <3>2, TypedEntries
    <3> QED BY <1>4, <1>5, <3>1, <3>3, <3>4, HeartbeatAssumption
  <2> QED BY <2>2, <2>3
<1>8. FreshAfterPong'
  BY <1>4, <1>5 DEF FreshAfterPong
<1>9. CountersFollowPings' /\ AgesDecrease'
  BY TickKeepsOrder
<1> QED BY <1>6, <1>7, <1>8, <1>9 DEF IInv

\* A PONG takes the oldest ping and the first counter.
LEMMA PongKeepsIInv ==
  ASSUME IInv, PongReceived
  PROVE  IInv'
<1> DEFINE n == Len(pongTimeoutCountersSeconds)
           u == Len(unanswered)
<1>1. TypeOK /\ CountersIncrease
  BY AgesOrderCounters DEF IInv
<1>2. /\ n \in Nat /\ u \in Nat /\ u - n >= 0
      /\ \A i \in 1..n : pongTimeoutCountersSeconds[i] \in 1..(PONG_TIMEOUT - 1)
      /\ \A i \in 1..n : pongTimeoutCountersSeconds[i] = PONG_TIMEOUT - 1 - unanswered[(u - n) + i]
      /\ \A i, j \in 1..u : i < j => unanswered[i] > unanswered[j]
      /\ \A i, j \in 1..n : i < j => pongTimeoutCountersSeconds[i] < pongTimeoutCountersSeconds[j]
  BY <1>1, TypedEntries DEF IInv, CountersFollowPings, AgesDecrease, CountersIncrease
<1>3. /\ unanswered \in Seq(Nat) /\ unanswered # <<>>
      /\ unanswered' = Tail(unanswered)
      /\ receivedPong' = TRUE /\ silence' = 0
      /\ UNCHANGED <<pingIntervalCounterSeconds, isConnected, inRoom>>
  BY <1>1 DEF PongReceived, TypeOK
<1>4. /\ unanswered' \in Seq(Nat) /\ Len(unanswered') = u - 1
      /\ \A i \in 1..(u - 1) : unanswered'[i] = unanswered[i + 1]
  BY <1>3, HeadTailProperties
<1>5. AgesDecrease'
  <2>1. ASSUME NEW i \in 1..(u - 1), NEW j \in 1..(u - 1), i < j
        PROVE  unanswered'[i] > unanswered'[j]
    <3>1. i + 1 \in 1..u /\ j + 1 \in 1..u /\ i + 1 < j + 1
      BY <1>2, <2>1
    <3>2. unanswered[i + 1] > unanswered[j + 1]
      BY <1>2, <3>1
    <3> QED BY <1>4, <3>2
  <2> QED BY <1>4, <2>1 DEF AgesDecrease
<1>6. \/ pongTimeoutCountersSeconds' = <<>>
      \/ /\ pongTimeoutCountersSeconds # <<>>
         /\ pongTimeoutCountersSeconds' = Tail(pongTimeoutCountersSeconds)
  BY DEF PongReceived
<1>7. PICK S : S = 1..(PONG_TIMEOUT - 1)
  OBVIOUS
<1>8. CASE pongTimeoutCountersSeconds' = <<>>
  <2>1. pongTimeoutCountersSeconds' \in Seq(S) /\ Len(pongTimeoutCountersSeconds') = 0
    BY <1>8, EmptySeq
  <2>2. u >= 1
    BY <1>3, EmptySeq
  <2>3. CountersFollowPings'
    BY <1>2, <1>4, <2>1, <2>2 DEF CountersFollowPings
  <2>4. TypeOK'
    BY <1>1, <1>3, <1>4, <1>7, <2>1 DEF TypeOK
  <2>5. SilenceBounded' /\ FreshAfterPong'
    <3>1. pingIntervalCounterSeconds \in 1..PING_INTERVAL_SECONDS
      BY <1>1 DEF TypeOK
    <3>2. pingIntervalCounterSeconds' + silence' <= PING_INTERVAL_SECONDS
      BY <1>3, <3>1, HeartbeatAssumption
    <3> QED BY <1>8, <3>2 DEF SilenceBounded, FreshAfterPong
  <2> QED BY <1>5, <2>3, <2>4, <2>5 DEF IInv
<1>9. CASE pongTimeoutCountersSeconds # <<>>
           /\ pongTimeoutCountersSeconds' = Tail(pongTimeoutCountersSeconds)
  <2>1. pongTimeoutCountersSeconds \in Seq(S)
    BY <1>1, <1>7 DEF TypeOK
  <2>2. /\ pongTimeoutCountersSeconds' \in Seq(S)
        /\ Len(pongTimeoutCountersSeconds') = n - 1
        /\ \A i \in 1..(n - 1) :
             pongTimeoutCountersSeconds'[i] = pongTimeoutCountersSeconds[i + 1]
    BY <1>9, <2>1, HeadTailProperties
  <2>3. CountersFollowPings'
    <3>1. Len(unanswered') - Len(pongTimeoutCountersSeconds') = u - n
      BY <1>2, <1>4, <2>2
    <3>2. ASSUME NEW i \in 1..(n - 1)
          PROVE  pongTimeoutCountersSeconds'[i] = PONG_TIMEOUT - 1 - unanswered'[(u - n) + i]
      <4>1. /\ i + 1 \in 1..n /\ (u - n) + i \in 1..(u - 1)
            /\ (u - n) + (i + 1) = ((u - n) + i) + 1
        BY <1>2
      <4> QED BY <1>2, <1>4, <2>2, <4>1
    <3> QED BY <1>2, <2>2, <3>1, <3>2 DEF CountersFollowPings
  <2>4. TypeOK'
    BY <1>1, <1>3, <1>4, <1>7, <2>2 DEF TypeOK
  <2>6. pongTimeoutCountersSeconds' # <<>> => pongTimeoutCountersSeconds'[1] \in 2..(PONG_TIMEOUT - 1)
    <3> SUFFICES ASSUME pongTimeoutCountersSeconds' # <<>>
                 PROVE  pongTimeoutCountersSeconds'[1] \in 2..(PONG_TIMEOUT - 1)
      OBVIOUS
    <3>1. n - 1 >= 1
      BY <1>2, <2>2, EmptySeq
    <3>2. 1 \in 1..n /\ 2 \in 1..n /\ 1 \in 1..(n - 1)
      BY <1>2, <3>1
    <3>3. /\ pongTimeoutCountersSeconds'[1] = pongTimeoutCountersSeconds[2]
          /\ pongTimeoutCountersSeconds[1] < pongTimeoutCountersSeconds[2]
          /\ pongTimeoutCountersSeconds[1] \in 1..(PONG_TIMEOUT - 1)
          /\ pongTimeoutCountersSeconds[2] \in 1..(PONG_TIMEOUT - 1)
      BY <1>2, <2>2, <3>2
    <3> QED BY <3>3, HeartbeatAssumption
  <2>7. SilenceBounded' /\ FreshAfterPong'
    BY <1>1, <1>3, <2>6, HeartbeatAssumption DEF SilenceBounded, FreshAfterPong, TypeOK
  <2> QED BY <1>5, <2>3, <2>4, <2>7 DEF IInv
<1> QED BY <1>6, <1>8, <1>9

\* Entering or leaving a room and stuttering leave everything the invariant
\* speaks of but the type of inRoom.
LEMMA NextIInv == IInv /\ [Next]_vars => IInv'
<1> SUFFICES ASSUME IInv, [Next]_vars PROVE IInv'
  OBVIOUS
<1>1. CASE EnterRoom \/ ExitRoom \/ UNCHANGED vars
  <2>1. /\ UNCHANGED <<pingIntervalCounterSeconds, pongTimeoutCountersSeconds,
                       receivedPong, isConnected, unanswered, silence>>
        /\ inRoom' \in BOOLEAN
    BY <1>1 DEF EnterRoom, ExitRoom, vars, IInv, TypeOK
  <2> QED BY <2>1 DEF IInv, TypeOK, CountersFollowPings, AgesDecrease,
                       SilenceBounded, FreshAfterPong
<1> QED BY <1>1, TickKeepsIInv, PongKeepsIInv DEF Next

\* The invariant holds in every state.
LEMMA IInvHolds == Spec => []IInv
BY InitIInv, NextIInv, PTL DEF Spec

-----------------------------------------------------------------------------

\* The counters keep their type, none of them ever reaching zero between ticks
\* (Client.cpp:37-57).
THEOREM TypeCorrect == Spec => []TypeOK
<1>1. IInv => TypeOK
  BY DEF IInv
<1> QED BY <1>1, IInvHolds, PTL

\* Each counter belongs to the ping its place says, whatever the delays
\* (Client.cpp:48-57, 77-84).
THEOREM CountersFollowPingsHolds == Spec => []CountersFollowPings
<1>1. IInv => CountersFollowPings
  BY DEF IInv
<1> QED BY <1>1, IInvHolds, PTL

\* No two counters expire in one tick, for any interval and timeout, so looking
\* at the first one is enough (Client.cpp:53-57).
THEOREM CountersIncreaseHolds == Spec => []CountersIncrease
<1>1. IInv => CountersIncrease
  BY AgesOrderCounters DEF IInv
<1> QED BY <1>1, IInvHolds, PTL

\* A peer counts as lost only when one of its answers is really late
\* (Client.cpp:53-57).
THEOREM OnlyLatePeersAreLostHolds == Spec => OnlyLatePeersAreLost
<1>1. ASSUME IInv, Tick, receivedPong, ~receivedPong'
      PROVE  unanswered' # <<>> /\ unanswered'[1] >= PONG_TIMEOUT - 1
  <2> DEFINE n == Len(pongTimeoutCountersSeconds)
             u == Len(unanswered)
  <2>1. TypeOK /\ CountersIncrease
    BY <1>1, AgesOrderCounters DEF IInv
  <2>2. Decremented # <<>> /\ Decremented[1] <= 0
    BY <1>1 DEF Tick, FirstExpired
  <2>3. /\ n \in Nat /\ u \in Nat /\ u - n >= 0
        /\ Len(Decremented) = n + (IF PingDue THEN 1 ELSE 0)
        /\ \A i \in 1..n : Decremented[i] = pongTimeoutCountersSeconds[i] - 1
        /\ PingDue => Decremented[n + 1] = PONG_TIMEOUT - 1
        /\ Decremented \in Seq(0..(PONG_TIMEOUT - 1))
        /\ Len(unanswered') = u + (IF PingDue THEN 1 ELSE 0)
        /\ \A i \in 1..u : unanswered'[i] = unanswered[i] + 1
        /\ \A i \in 1..u : unanswered[i] \in Nat
        /\ \A i \in 1..n : pongTimeoutCountersSeconds[i] = PONG_TIMEOUT - 1 - unanswered[(u - n) + i]
        /\ \A i, j \in 1..u : i < j => unanswered[i] > unanswered[j]
    BY <1>1, <2>1, TickEffect, TypedEntries DEF IInv, CountersFollowPings, AgesDecrease
  <2>4. 1 \in 1..n
    <3>1. CASE n = 0
      <4>1. PingDue
        BY <2>2, <2>3, <3>1, EmptySeq
      <4> QED BY <2>2, <2>3, <3>1, <4>1, HeartbeatAssumption
    <3> QED BY <2>3, <3>1
  <2> DEFINE k == (u - n) + 1
  <2>5. k \in 1..u /\ 1 \in 1..u
    BY <2>3, <2>4
  <2>6. unanswered[1] \in Nat /\ unanswered[k] \in Nat /\ unanswered[1] >= unanswered[k]
    <3>1. unanswered[1] \in Nat /\ unanswered[k] \in Nat
      BY <2>3, <2>5
    <3>2. k # 1 => 1 < k
      BY <2>5
    <3>3. k # 1 => unanswered[1] > unanswered[k]
      BY <2>3, <2>5, <3>2
    <3> QED BY <3>1, <3>3
  <2>7. unanswered[k] + 1 >= PONG_TIMEOUT - 1
    <3>1. /\ Decremented[1] = pongTimeoutCountersSeconds[1] - 1
          /\ pongTimeoutCountersSeconds[1] = PONG_TIMEOUT - 1 - unanswered[k]
      BY <2>3, <2>4
    <3> QED BY <2>2, <2>6, <3>1, HeartbeatAssumption
  <2>8. unanswered'[1] = unanswered[1] + 1 /\ Len(unanswered') >= 1
    BY <2>3, <2>5
  <2>9. unanswered' # <<>>
    BY <2>8
  <2> HIDE DEF k
  <2> QED BY <2>6, <2>7, <2>8, <2>9, HeartbeatAssumption
<1>2. IInv /\ [Next]_vars =>
        [Tick /\ receivedPong /\ ~receivedPong' =>
           /\ unanswered' # <<>>
           /\ unanswered'[1] >= PONG_TIMEOUT - 1]_vars
  BY <1>1
<1> QED BY <1>2, IInvHolds, PTL DEF Spec, OnlyLatePeersAreLost

\* A silent peer in a room is shown as disconnected within one interval and one
\* timeout, whatever happened before (Client.cpp:37-72).
THEOREM SilenceIsShownHolds == Spec => SilenceIsShown
<1>1. ASSUME IInv, Tick, inRoom, silence' >= PING_INTERVAL_SECONDS + PONG_TIMEOUT - 1
      PROVE  ~isConnected'
  <2>1. IInv'
    BY <1>1, TickKeepsIInv
  <2>2. isConnected' = receivedPong' /\ silence' \in Nat
    BY <1>1, <2>1 DEF Tick, IInv, TypeOK
  <2>3. ASSUME receivedPong' PROVE FALSE
    <3>1. CASE pongTimeoutCountersSeconds' = <<>>
      <4>1. pingIntervalCounterSeconds' + silence' <= PING_INTERVAL_SECONDS
        BY <2>1, <2>3, <3>1 DEF IInv, SilenceBounded
      <4>2. pingIntervalCounterSeconds' \in 1..PING_INTERVAL_SECONDS
        BY <2>1 DEF IInv, TypeOK
      <4>3. PICK p, t : p = pingIntervalCounterSeconds' /\ t = silence'
        OBVIOUS
      <4>4. /\ p \in 1..PING_INTERVAL_SECONDS /\ t \in Nat
            /\ p + t <= PING_INTERVAL_SECONDS
            /\ t >= PING_INTERVAL_SECONDS + PONG_TIMEOUT - 1
        BY <1>1, <2>2, <4>1, <4>2, <4>3
      <4> QED BY <4>4, HeartbeatAssumption
    <3>2. CASE pongTimeoutCountersSeconds' # <<>>
      <4>1. PICK S : S = 1..(PONG_TIMEOUT - 1)
        OBVIOUS
      <4>2. pongTimeoutCountersSeconds' \in Seq(S)
        BY <2>1, <4>1 DEF IInv, TypeOK
      <4>3. pongTimeoutCountersSeconds'[1] \in S
        BY <3>2, <4>2
      <4>4. pongTimeoutCountersSeconds'[1] + silence' <= PING_INTERVAL_SECONDS + PONG_TIMEOUT - 1
        BY <2>1, <2>3, <3>2 DEF IInv, SilenceBounded
      <4> QED BY <1>1, <2>2, <4>1, <4>3, <4>4, HeartbeatAssumption
    <3> QED BY <3>1, <3>2
  <2> QED BY <2>2, <2>3
<1>2. IInv /\ [Next]_vars =>
        [Tick /\ inRoom /\ silence' >= PING_INTERVAL_SECONDS + PONG_TIMEOUT - 1
           => ~isConnected']_vars
  BY <1>1
<1> QED BY <1>2, IInvHolds, PTL DEF Spec, SilenceIsShown

\* A peer that answered since the last tick is shown as connected by the next
\* (Client.cpp:53-61, 74-84).
THEOREM AnswerIsShownHolds == Spec => AnswerIsShown
<1>1. ASSUME IInv, Tick, inRoom, silence = 0, receivedPong
      PROVE  isConnected'
  <2> DEFINE n == Len(pongTimeoutCountersSeconds)
  <2>1. /\ n \in Nat
        /\ Len(Decremented) = n + (IF PingDue THEN 1 ELSE 0)
        /\ \A i \in 1..n : Decremented[i] = pongTimeoutCountersSeconds[i] - 1
        /\ PingDue => Decremented[n + 1] = PONG_TIMEOUT - 1
        /\ Decremented \in Seq(0..(PONG_TIMEOUT - 1))
        /\ \A i \in 1..n : pongTimeoutCountersSeconds[i] \in 1..(PONG_TIMEOUT - 1)
    BY <1>1, TickEffect, TypedEntries DEF IInv
  <2>2. ~FirstExpired(Decremented)
    <3> SUFFICES ASSUME Decremented # <<>> PROVE Decremented[1] > 0
      BY <2>1, HeartbeatAssumption DEF FirstExpired
    <3>1. CASE n = 0
      <4>1. PingDue
        BY <2>1, <3>1, EmptySeq
      <4> QED BY <2>1, <3>1, <4>1, HeartbeatAssumption
    <3>2. CASE n # 0
      <4>1. 1 \in 1..n /\ pongTimeoutCountersSeconds # <<>>
        BY <2>1, <3>2
      <4>2. pongTimeoutCountersSeconds[1] >= 2
        BY <1>1, <4>1 DEF IInv, FreshAfterPong
      <4> QED BY <2>1, <4>1, <4>2, HeartbeatAssumption
    <3> QED BY <3>1, <3>2
  <2> QED BY <1>1, <2>2 DEF Tick, IInv, TypeOK
<1>2. IInv /\ [Next]_vars =>
        [Tick /\ inRoom /\ silence = 0 /\ receivedPong => isConnected']_vars
  BY <1>1
<1> QED BY <1>2, IInvHolds, PTL DEF Spec, AnswerIsShown
=============================================================================
