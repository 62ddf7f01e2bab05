----------------------------- MODULE InboxProofs -----------------------------
(***************************************************************************)
(* Proofs about Inbox, for any number of connections and any requests: the *)
(* poll set and the list of clients stay in step; the types; and, that     *)
(* requests are handled as they were sent as long as nothing interferes    *)
(* with the one Parser.                                                    *)
(***************************************************************************)
EXTENDS Inbox, SequenceLemmas

Entry == [fd : Client, revents : BOOLEAN]

\* The lists of Server, and the connections that wait to be put on them.
ListsOK ==
  /\ pending \subseteq Client /\ cursor \in Nat
  /\ clients \in Seq(Client) /\ pfds \in Seq(Entry)

PollInv == ListsOK /\ PollSetMatchesClients

-----------------------------------------------------------------------------

LEMMA InitPollInv == Init => PollInv
BY DEF Init, PollInv, ListsOK, PollSetMatchesClients

\* Programs do not touch the server's lists.
LEMMA ProgramsKeepLists ==
  ASSUME PollInv, NEW c \in Client, Connect(c) \/ Close(c) \/ \E r \in Request : Send(c, r)
  PROVE  PollInv'
<1>1. UNCHANGED <<cursor, clients, pfds>>
  BY DEF Connect, Close, Send, server
<1>2. pending' \subseteq Client
  BY DEF Connect, Close, Send, PollInv, ListsOK
<1> QED BY <1>1, <1>2 DEF PollInv, ListsOK, PollSetMatchesClients

\* One turn begins: at most one connection is pushed to both lists, and poll
\* changes nothing of an entry but its events.
LEMMA PollKeepsLists ==
  ASSUME PollInv, Poll
  PROVE  PollInv'
<1>1. PICK new \in Arrivals :
        /\ clients' = clients \o new
        /\ pfds' = [i \in DOMAIN clients' |->
                      IF i \in DOMAIN clients
                      THEN [fd |-> pfds[i].fd, revents |-> Readable(pfds[i].fd)]
                      ELSE [fd |-> clients'[i], revents |-> FALSE]]
        /\ pending' = pending \ Range(new)
  BY DEF Poll
<1>2. cursor' = 1
  BY DEF Poll
<1>3. new \in Seq(Client)
  <2>1. pending \subseteq Client
    BY DEF PollInv, ListsOK
  <2>2. CASE new = <<>>
    BY <2>2
  <2>3. CASE new # <<>>
    <3>1. PICK c \in pending : new = <<c>>
      BY <2>3 DEF Arrivals
    <3> QED BY <2>1, <3>1
  <2> QED BY <2>2, <2>3
<1>4. clients \in Seq(Client) /\ pfds \in Seq(Entry)
  BY DEF PollInv, ListsOK
<1>5. /\ clients' \in Seq(Client) /\ DOMAIN clients' = 1..Len(clients')
      /\ \A i \in DOMAIN clients : i \in DOMAIN clients' /\ clients'[i] = clients[i]
      /\ \A i \in DOMAIN clients' : clients'[i] \in Client
  <2>1. /\ clients \o new \in Seq(Client) /\ Len(clients \o new) = Len(clients) + Len(new)
        /\ \A i \in 1..(Len(clients) + Len(new)) :
             (clients \o new)[i] = IF i <= Len(clients) THEN clients[i] ELSE new[i - Len(clients)]
    BY <1>3, <1>4, ConcatProperties
  <2>2. clients' \in Seq(Client)
    BY <1>1, <2>1
  <2>3. DOMAIN clients' = 1..Len(clients') /\ \A i \in DOMAIN clients' : clients'[i] \in Client
    BY <2>2
  <2>4. ASSUME NEW i \in DOMAIN clients PROVE i \in DOMAIN clients' /\ clients'[i] = clients[i]
    <3>1. i \in 1..Len(clients) /\ Len(new) \in Nat /\ Len(clients) \in Nat
      BY <1>3, <1>4
    <3>2. i \in 1..(Len(clients) + Len(new)) /\ Len(clients') = Len(clients) + Len(new)
      BY <1>1, <2>1, <3>1
    <3> QED BY <1>1, <2>1, <2>3, <3>1, <3>2
  <2> QED BY <2>2, <2>3, <2>4
<1>6. \A i \in DOMAIN clients : pfds[i].fd = clients[i]
  BY DEF PollInv, PollSetMatchesClients
<1>7. \A i \in DOMAIN clients' : pfds'[i].fd = clients'[i] /\ pfds'[i] \in Entry
  <2> SUFFICES ASSUME NEW i \in DOMAIN clients'
               PROVE  pfds'[i].fd = clients'[i] /\ pfds'[i] \in Entry
    OBVIOUS
  <2>1. \A c : Readable(c) \in BOOLEAN
    BY DEF Readable
  <2>2. CASE i \in DOMAIN clients
    <3>1. pfds'[i] = [fd |-> pfds[i].fd, revents |-> Readable(pfds[i].fd)]
      BY <1>1, <2>2
    <3>2. pfds[i].fd = clients'[i] /\ clients'[i] \in Client
      BY <1>5, <1>6, <2>2
    <3> QED BY <2>1, <3>1, <3>2 DEF Entry
  <2>3. CASE i \notin DOMAIN clients
    BY <1>1, <1>5, <2>3 DEF Entry
  <2> QED BY <2>2, <2>3
<1>8. pfds' \in Seq(Entry) /\ Len(pfds') = Len(clients')
  <2>1. pfds' = [i \in 1..Len(clients') |-> pfds'[i]]
    BY <1>1, <1>5
  <2>2. Len(clients') \in Nat
    BY <1>5
  <2> QED BY <1>5, <1>7, <2>1, <2>2
<1> QED BY <1>1, <1>2, <1>5, <1>7, <1>8 DEF PollInv, ListsOK, PollSetMatchesClients

\* The client and its entry are erased at one index.
LEMMA EraseKeepsLists ==
  ASSUME PollInv, EraseClient
  PROVE  PollInv'
<1>1. /\ cursor \in DOMAIN clients
      /\ clients' = RemoveAt(clients, cursor)
      /\ pfds' = RemoveAt(pfds, cursor)
      /\ cursor' = cursor + 1 /\ pending' = pending
  BY DEF EraseClient, program
<1>2. /\ clients \in Seq(Client) /\ pfds \in Seq(Entry) /\ Len(pfds) = Len(clients)
      /\ \A i \in 1..Len(clients) : pfds[i].fd = clients[i]
  BY DEF PollInv, ListsOK, PollSetMatchesClients
<1>3. cursor \in 1..Len(clients) /\ cursor \in 1..Len(pfds)
  BY <1>1, <1>2
<1>4. /\ clients' \in Seq(Client) /\ Len(clients') = Len(clients) - 1
      /\ \A j \in 1..(Len(clients) - 1) :
           clients'[j] = IF j < cursor THEN clients[j] ELSE clients[j + 1]
  BY <1>1, <1>2, <1>3, RemoveAtShape
<1>5. /\ pfds' \in Seq(Entry) /\ Len(pfds') = Len(pfds) - 1
      /\ \A j \in 1..(Len(pfds) - 1) :
           pfds'[j] = IF j < cursor THEN pfds[j] ELSE pfds[j + 1]
  BY <1>1, <1>2, <1>3, RemoveAtShape
<1>6. Len(pfds') = Len(clients') /\ \A j \in 1..Len(clients') : pfds'[j].fd = clients'[j]
  <2>1. Len(pfds') = Len(clients')
    BY <1>2, <1>4, <1>5
  <2>2. ASSUME NEW j \in 1..Len(clients') PROVE pfds'[j].fd = clients'[j]
    <3>1. /\ j \in 1..(Len(clients) - 1) /\ j \in 1..(Len(pfds) - 1)
          /\ j \in 1..Len(clients) /\ j + 1 \in 1..Len(clients)
      BY <1>2, <1>3, <1>4
    <3>2. CASE j < cursor
      BY <1>2, <1>4, <1>5, <3>1, <3>2
    <3>3. CASE ~(j < cursor)
      <4>1. pfds'[j] = pfds[j + 1] /\ clients'[j] = clients[j + 1]
        BY <1>4, <1>5, <3>1, <3>3
      <4> QED BY <1>2, <3>1, <4>1
    <3> QED BY <3>2, <3>3
  <2> QED BY <2>1, <2>2
<1>7. ListsOK'
  BY <1>1, <1>4, <1>5 DEF PollInv, ListsOK
<1>8. DOMAIN clients' = 1..Len(clients')
  BY <1>4
<1> QED BY <1>6, <1>7, <1>8 DEF PollInv, PollSetMatchesClients

LEMMA NextPollInv == PollInv /\ [Next]_vars => PollInv'
<1> SUFFICES ASSUME PollInv, [Next]_vars PROVE PollInv'
  OBVIOUS
<1>1. CASE PassOver \/ EndOfLoop \/ ReadClient
  <2>1. UNCHANGED <<pending, clients, pfds>> /\ cursor' \in Nat
    BY <1>1 DEF PassOver, EndOfLoop, ReadClient, program, PollInv, ListsOK
  <2> QED BY <2>1 DEF PollInv, ListsOK, PollSetMatchesClients
<1>2. CASE UNCHANGED vars
  BY <1>2 DEF vars, program, PollInv, ListsOK, PollSetMatchesClients
<1> QED
  BY <1>1, <1>2, PollKeepsLists, EraseKeepsLists, ProgramsKeepLists DEF Next, Loop

\* Whenever the loop looks at client i, the entry of the poll set it looks at is
\* that client's (Server.cpp:116-117, 126, 139-140, 374-382).
THEOREM PollSetMatchesClientsHolds == Spec => []PollSetMatchesClients
<1>1. PollInv => PollSetMatchesClients
  BY DEF PollInv
<1> QED BY <1>1, InitPollInv, NextPollInv, PTL DEF Spec

-----------------------------------------------------------------------------
(***************************************************************************)
(* The types.                                                              *)
(***************************************************************************)

Step    == {"type", "length", "payload"}
Parts   == [of : Request, part : Step]
Handled == [type : Request \cup {Reply}, payload : Request]

\* What Parser::parse and the loop around it work on.
ParserState == [next : Step, expected : Request \cup {None}, type : Request \cup {Reply},
                handled : Seq(Handled), rest : Seq(Parts), garbled : BOOLEAN]

\* What the Parser has after each part, as a function of the number of parts.
LEMMA ParsedIs ==
  ASSUME NEW c, NEW b, Len(b) \in Nat
  PROVE  \E f : /\ f[0] = Unparsed(c) /\ Parsed(c, b) = f[Len(b)]
                /\ \A i \in 1..Len(b) : f[i] = ParsePart(f[i - 1], b[i])
<1> DEFINE n == Len(b)
           Good(g, m) == g = [i \in 0..m |-> IF i = 0 THEN Unparsed(c)
                                             ELSE ParsePart(g[i - 1], b[i])]
           S == {m \in 0..n : \E g : Good(g, m)}
<1>1. 0 \in S
  <2> DEFINE g == [i \in 0..0 |-> Unparsed(c)]
  <2>1. Good(g, 0)
    OBVIOUS
  <2> HIDE DEF g, Good
  <2> QED BY <2>1
<1>2. ASSUME NEW m \in 1..n, m - 1 \in S PROVE m \in S
  <2>1. PICK g : Good(g, m - 1)
    BY <1>2
  <2> DEFINE h == [i \in 0..m |-> IF i = m THEN ParsePart(g[m - 1], b[m]) ELSE g[i]]
  <2>2. m \in Nat /\ m # 0 /\ m - 1 \in 0..(m - 1)
    OBVIOUS
  <2>3. ASSUME NEW i \in 0..m
        PROVE  h[i] = IF i = 0 THEN Unparsed(c) ELSE ParsePart(h[i - 1], b[i])
    <3>1. CASE i = m
      <4>1. h[i] = ParsePart(g[m - 1], b[m]) /\ h[m - 1] = g[m - 1]
        BY <2>2, <3>1
      <4> QED BY <2>2, <3>1, <4>1
    <3>2. CASE i # m
      <4>1. i \in 0..(m - 1) /\ h[i] = g[i]
        BY <2>2, <3>2
      <4>2. CASE i = 0
        BY <2>1, <4>1, <4>2
      <4>3. CASE i # 0
        <5>1. i - 1 \in 0..m /\ i - 1 # m /\ h[i - 1] = g[i - 1]
          BY <2>2, <4>1, <4>3
        <5>2. g[i] = ParsePart(g[i - 1], b[i])
          BY <2>1, <4>1, <4>3
        <5> QED BY <4>1, <4>3, <5>1, <5>2
      <4> QED BY <4>2, <4>3
    <3> QED BY <3>1, <3>2
  <2>4. h = [i \in 0..m |-> h[i]]
    OBVIOUS
  <2> HIDE DEF h
  <2>5. Good(h, m)
    BY <2>3, <2>4
  <2> HIDE DEF Good
  <2> QED BY <2>2, <2>5
<1>3. n \in S
  <2> HIDE DEF S
  <2>1. 0..n \subseteq S
    BY <1>1, <1>2, UpTo
  <2> QED BY <2>1
<1> DEFINE after[i \in 0..n] == IF i = 0 THEN Unparsed(c) ELSE ParsePart(after[i - 1], b[i])
<1>4. Good(after, n)
  BY <1>3
<1>5. Parsed(c, b) = after[n]
  BY DEF Parsed
<1> HIDE DEF after
<1>6. after[0] = Unparsed(c) /\ \A i \in 1..n : after[i] = ParsePart(after[i - 1], b[i])
  BY <1>4
<1> QED BY <1>5, <1>6

\* Only one part: as many bytes as it has.
LEMMA BytesInOne == ASSUME NEW p, Bytes(p) \in Nat PROVE BytesIn(<<p>>) = Bytes(p)
<1> DEFINE sum[i \in 0..Len(<<p>>)] == IF i = 0 THEN 0 ELSE sum[i - 1] + Bytes(<<p>>[i])
           g == [i \in 0..1 |-> IF i = 0 THEN 0 ELSE 0 + Bytes(p)]
<1>1. BytesIn(<<p>>) = sum[1]
  BY DEF BytesIn
<1>2. g = [i \in 0..Len(<<p>>) |-> IF i = 0 THEN 0 ELSE g[i - 1] + Bytes(<<p>>[i])]
  OBVIOUS
<1> HIDE DEF g
<1>3. sum = [i \in 0..Len(<<p>>) |-> IF i = 0 THEN 0 ELSE sum[i - 1] + Bytes(<<p>>[i])]
  BY <1>2
<1> HIDE DEF sum
<1>4. sum[0] = 0 /\ sum[1] = sum[0] + Bytes(p)
  BY <1>3
<1> QED BY <1>1, <1>4

\* What the Parser does with each part of a request.
LEMMA TakePartIs ==
  ASSUME NEW s, NEW p
  PROVE  /\ p.part = "type" => TakePart(s, p) = [s EXCEPT !.next = "length", !.type = p.of]
         /\ p.part = "length" /\ PayloadSize[p.of] = 0 => TakePart(s, p) = Complete(s, p.of)
         /\ p.part = "length" /\ PayloadSize[p.of] # 0
              => TakePart(s, p) = [s EXCEPT !.next = "payload", !.expected = p.of]
         /\ p.part = "payload" => TakePart(s, p) = Complete(s, p.of)
<1> DEFINE typed == [s EXCEPT !.next = "length", !.type = p.of]
           sized == [s EXCEPT !.next = "payload", !.expected = p.of]
           complete == Complete(s, p.of)
<1>1. TakePart(s, p) = [type |-> typed,
                        length |-> IF PayloadSize[p.of] = 0 THEN complete ELSE sized,
                        payload |-> complete][p.part]
  BY DEF TakePart
<1> HIDE DEF typed, sized, complete
<1>2. /\ p.part = "type" => TakePart(s, p) = typed
      /\ p.part = "length" /\ PayloadSize[p.of] = 0 => TakePart(s, p) = complete
      /\ p.part = "length" /\ PayloadSize[p.of] # 0 => TakePart(s, p) = sized
      /\ p.part = "payload" => TakePart(s, p) = complete
  BY <1>1
<1> QED BY <1>2 DEF typed, sized, complete

\* Whatever is taken for whatever, the Parser's variables keep their types.
LEMMA ParsePartTyped ==
  ASSUME NEW s \in ParserState, NEW p \in Parts
  PROVE  ParsePart(s, p) \in ParserState
<1> DEFINE buffer == Append(s.rest, p)
<1>1. s.rest \in Seq(Parts) /\ s.handled \in Seq(Handled)
  BY DEF ParserState
<1>2. buffer \in Seq(Parts)
  BY <1>1
<1> HIDE DEF buffer
<1>3. [s EXCEPT !.rest = buffer] \in ParserState
  BY <1>2 DEF ParserState
<1>4. [s EXCEPT !.garbled = TRUE] \in ParserState
  BY DEF ParserState
<1>5. p.of \in Request /\ p.part \in Step
  BY DEF Parts
<1>6. Complete(s, p.of) \in ParserState
  <2> DEFINE h == Append(s.handled, [type |-> s.type, payload |-> p.of])
  <2>1. [type |-> s.type, payload |-> p.of] \in Handled
    BY <1>5 DEF ParserState, Handled
  <2>2. h \in Seq(Handled)
    BY <1>1, <2>1
  <2> HIDE DEF h
  <2>3. Complete(s, p.of) = [s EXCEPT !.next = "type", !.expected = None,
                                      !.type = Reply, !.handled = h]
    BY DEF Complete, h
  <2> QED BY <2>2, <2>3 DEF ParserState, Step
<1>7. TakePart(s, p) \in ParserState
  <2>1. CASE p.part = "type"
    <3>1. TakePart(s, p) = [s EXCEPT !.next = "length", !.type = p.of]
      BY <2>1, TakePartIs
    <3> QED BY <1>5, <3>1 DEF ParserState, Step
  <2>2. CASE p.part = "length" /\ PayloadSize[p.of] = 0
    BY <1>6, <2>2, TakePartIs
  <2>3. CASE p.part = "length" /\ PayloadSize[p.of] # 0
    <3>1. TakePart(s, p) = [s EXCEPT !.next = "payload", !.expected = p.of]
      BY <2>3, TakePartIs
    <3> QED BY <1>5, <3>1 DEF ParserState, Step
  <2>4. CASE p.part = "payload"
    BY <1>6, <2>4, TakePartIs
  <2> QED BY <1>5, <2>1, <2>2, <2>3, <2>4 DEF Step
<1> QED BY <1>3, <1>4, <1>7 DEF ParsePart, buffer

LEMMA ParsedTyped ==
  ASSUME NEW c, Unparsed(c) \in ParserState, NEW b \in Seq(Parts)
  PROVE  Parsed(c, b) \in ParserState
<1>1. Len(b) \in Nat /\ \A i \in 1..Len(b) : b[i] \in Parts
  OBVIOUS
<1>2. PICK f : /\ f[0] = Unparsed(c) /\ Parsed(c, b) = f[Len(b)]
               /\ \A i \in 1..Len(b) : f[i] = ParsePart(f[i - 1], b[i])
  BY <1>1, ParsedIs
<1> DEFINE S == {i \in 0..Len(b) : f[i] \in ParserState}
<1>3. 0 \in S
  BY <1>1, <1>2
<1>4. ASSUME NEW i \in 1..Len(b), i - 1 \in S PROVE i \in S
  BY <1>1, <1>2, <1>4, ParsePartTyped
<1>5. 0..Len(b) \subseteq S
  <2> HIDE DEF S
  <2> QED BY <1>1, <1>3, <1>4, UpTo
<1>6. Len(b) \in 0..Len(b)
  BY <1>1
<1> QED BY <1>2, <1>5, <1>6

LEMMA SerializeTyped ==
  ASSUME NEW r \in Request
  PROVE  /\ Serialize(r) \in Seq(Parts)
         /\ Len(Serialize(r)) = IF PayloadSize[r] = 0 THEN 2 ELSE 3
         /\ Serialize(r)[1] = Part(r, "type") /\ Serialize(r)[2] = Part(r, "length")
         /\ PayloadSize[r] # 0 => Serialize(r)[3] = Part(r, "payload")
<1>1. \A x \in Step : Part(r, x) \in Parts
  BY DEF Part, Parts
<1>2. CASE PayloadSize[r] = 0
  <2>1. Serialize(r) = <<Part(r, "type"), Part(r, "length")>>
    BY <1>2 DEF Serialize
  <2> QED BY <1>1, <1>2, <2>1 DEF Step
<1>3. CASE PayloadSize[r] # 0
  <2> DEFINE two == <<Part(r, "type"), Part(r, "length")>>
             one == <<Part(r, "payload")>>
  <2>1. Serialize(r) = two \o one
    BY <1>3 DEF Serialize
  <2>2. /\ two \in Seq(Parts) /\ Len(two) = 2 /\ one \in Seq(Parts) /\ Len(one) = 1
        /\ two[1] = Part(r, "type") /\ two[2] = Part(r, "length")
        /\ one[1] = Part(r, "payload")
    BY <1>1 DEF Step
  <2> HIDE DEF two, one
  <2>3. /\ two \o one \in Seq(Parts) /\ Len(two \o one) = Len(two) + Len(one)
        /\ \A i \in 1..(Len(two) + Len(one)) :
             (two \o one)[i] = IF i <= Len(two) THEN two[i] ELSE one[i - Len(two)]
    BY <2>2, ConcatProperties
  <2> DEFINE u == two \o one
  <2> HIDE DEF u
  <2>4. /\ u \in Seq(Parts) /\ Len(u) = 3
        /\ \A i \in 1..3 : u[i] = IF i <= 2 THEN two[i] ELSE one[i - 2]
    BY <2>2, <2>3 DEF u
  <2>5. u[1] = two[1] /\ u[2] = two[2] /\ u[3] = one[1]
    BY <2>4
  <2> QED BY <1>3, <2>1, <2>2, <2>4, <2>5 DEF u
<1> QED BY <1>2, <1>3

\* TypeOK in parts: the programs', the lists of Server, and the Parser's.
ProgramTyped ==
  /\ sent \in [Client -> Seq(Request)] /\ wire \in [Client -> Seq(Parts)]
  /\ pending \subseteq Client /\ closed \subseteq Client

ListsTyped ==
  /\ clients \in Seq(Client) /\ pfds \in Seq(Entry) /\ cursor \in 0..(Len(clients) + 2)

ParserTyped ==
  /\ receivingBuffer \in [Client -> Seq(Parts)]
  /\ message \in [Client -> Request \cup {Reply}]
  /\ nextState \in Step /\ expected \in Request \cup {None}
  /\ garbled \in BOOLEAN /\ interfered \in BOOLEAN
  /\ handled \in [Client -> Seq(Handled)]
  /\ reading \in Client \cup {None}

LEMMA TypeOKIs == TypeOK <=> ProgramTyped /\ ListsTyped /\ ParserTyped
BY DEF TypeOK, ProgramTyped, ListsTyped, ParserTyped, Entry, Parts, Step, Handled

LEMMA TypeOKIsNext == TypeOK' <=> ProgramTyped' /\ ListsTyped' /\ ParserTyped'
BY TypeOKIs, PTL

TInv == TypeOK /\ PollInv

LEMMA InitTyped == ASSUME Init PROVE TInv
<1>1. ProgramTyped
  BY DEF Init, ProgramTyped
<1>2. ListsTyped
  BY DEF Init, ListsTyped
<1>3. ParserTyped
  <2>1. /\ nextState \in Step /\ expected \in {None} /\ garbled = FALSE
        /\ interfered = FALSE /\ reading = None
    BY DEF Init, Step
  <2>2. /\ receivingBuffer \in [Client -> Seq(Parts)]
        /\ handled \in [Client -> Seq(Handled)]
    BY DEF Init
  <2>3. message \in [Client -> Request \cup {Reply}]
    BY DEF Init
  <2> QED BY <2>1, <2>2, <2>3 DEF ParserTyped
<1> QED BY <1>1, <1>2, <1>3, TypeOKIs, InitPollInv DEF TInv

LEMMA ProgramsTyped ==
  ASSUME TypeOK, NEW c \in Client, Connect(c) \/ Close(c) \/ \E r \in Request : Send(c, r)
  PROVE  TypeOK'
<1>1. ProgramTyped /\ ListsTyped /\ ParserTyped
  BY TypeOKIs
<1>2. ListsTyped' /\ ParserTyped'
  <2>1. UNCHANGED server
    BY DEF Connect, Close, Send
  <2> QED BY <1>1, <2>1 DEF server, parser, ListsTyped, ParserTyped
<1>3. ProgramTyped'
  <2>1. CASE Connect(c) \/ Close(c)
    BY <1>1, <2>1 DEF Connect, Close, ProgramTyped
  <2>2. CASE \E r \in Request : Send(c, r)
    <3>1. PICK r \in Request : Send(c, r)
      BY <2>2
    <3>2. Append(sent[c], r) \in Seq(Request) /\ wire[c] \o Serialize(r) \in Seq(Parts)
      BY <1>1, SerializeTyped DEF ProgramTyped
    <3>3. /\ sent' = [sent EXCEPT ![c] = Append(sent[c], r)]
          /\ wire' = [wire EXCEPT ![c] = wire[c] \o Serialize(r)]
          /\ UNCHANGED <<pending, closed>>
      BY <3>1 DEF Send
    <3> QED BY <1>1, <3>2, <3>3 DEF ProgramTyped
  <2> QED BY <2>1, <2>2
<1> QED BY <1>2, <1>3, TypeOKIsNext

\* A message to a client changes the type kept for it, to one of the server's.
LEMMA AddMessagesTyped ==
  ASSUME ParserTyped, NEW told, AddMessages(told)
  PROVE  message' \in [Client -> Request \cup {Reply}] /\ interfered' \in BOOLEAN
BY DEF AddMessages, ParserTyped

\* What ReadClient does when read returns k parts for connection c.
ReadParts(c, k) ==
  LET s == Parsed(c, receivingBuffer[c] \o SubSeq(wire[c], 1, k))
  IN /\ wire' = [wire EXCEPT ![c] = SubSeq(@, k + 1, Len(@))]
     /\ receivingBuffer' = [receivingBuffer EXCEPT ![c] = s.rest]
     /\ \E told \in IF s.handled = handled[c] THEN {{}} ELSE Audience(c) :
          message' = [d \in Client |-> IF d = c THEN s.type
                                       ELSE IF d \in told THEN Reply
                                       ELSE message[d]]
     /\ nextState' = s.next /\ expected' = s.expected
     /\ garbled' = s.garbled
     /\ handled' = [handled EXCEPT ![c] = s.handled]
     /\ reading' = IF s.next = "type" THEN None
                   ELSE IF reading = None THEN c ELSE reading
     /\ interfered' = (interfered \/ reading \notin {None, c})

LEMMA ReadClientReads ==
  ASSUME ReadClient
  PROVE  \E k \in 1..Len(wire[clients[cursor]]) : ReadParts(clients[cursor], k)
BY DEF ReadClient, ReadParts

LEMMA LoopTyped == ASSUME TInv, Loop PROVE TypeOK'
<1>1. ProgramTyped /\ ListsTyped /\ ParserTyped /\ PollInv
  BY TypeOKIs DEF TInv
<1>2. CASE Poll
  <2>1. ListsTyped'
    <3>1. clients' \in Seq(Client) /\ pfds' \in Seq(Entry) /\ cursor' = 1
      BY <1>1, <1>2, PollKeepsLists DEF PollInv, ListsOK, Poll
    <3> QED BY <3>1 DEF ListsTyped
  <2>2. ProgramTyped'
    BY <1>1, <1>2 DEF Poll, ProgramTyped
  <2>3. ParserTyped'
    <3>1. \E told : AddMessages(told)
      BY <1>2 DEF Poll
    <3>2. message' \in [Client -> Request \cup {Reply}] /\ interfered' \in BOOLEAN
      BY <1>1, <3>1, AddMessagesTyped
    <3> QED BY <1>1, <1>2, <3>2 DEF Poll, parser, ParserTyped
  <2> QED BY <2>1, <2>2, <2>3, TypeOKIsNext
<1>3. CASE EraseClient
  <2>1. ListsTyped'
    <3>1. clients' \in Seq(Client) /\ pfds' \in Seq(Entry)
      BY <1>1, <1>3, EraseKeepsLists DEF PollInv, ListsOK
    <3>2. /\ cursor \in 1..Len(clients) /\ cursor' = cursor + 1
          /\ clients' = RemoveAt(clients, cursor)
      BY <1>1, <1>3 DEF EraseClient, ListsTyped
    <3>3. Len(clients') = Len(clients) - 1
      BY <1>1, <3>2, RemoveAtShape DEF ListsTyped
    <3>4. Len(clients) \in Nat
      BY <1>1 DEF ListsTyped
    <3> QED BY <3>1, <3>2, <3>3, <3>4 DEF ListsTyped
  <2>2. ProgramTyped'
    BY <1>1, <1>3 DEF EraseClient, program, ProgramTyped
  <2>3. ParserTyped'
    <3>1. \E told : AddMessages(told)
      BY <1>3 DEF EraseClient
    <3>2. message' \in [Client -> Request \cup {Reply}] /\ interfered' \in BOOLEAN
      BY <1>1, <3>1, AddMessagesTyped
    <3> QED BY <1>1, <1>3, <3>2 DEF EraseClient, parser, ParserTyped
  <2> QED BY <2>1, <2>2, <2>3, TypeOKIsNext
<1>4. CASE PassOver \/ EndOfLoop
  <2>1. ListsTyped'
    <3>1. /\ UNCHANGED <<clients, pfds>>
          /\ \/ cursor' = 0
             \/ cursor \in DOMAIN clients /\ cursor' = cursor + 1
      BY <1>4 DEF PassOver, EndOfLoop
    <3>2. Len(clients) \in Nat
      BY <1>1 DEF ListsTyped
    <3>3. DOMAIN clients = 1..Len(clients)
      BY <1>1 DEF ListsTyped
    <3> QED BY <1>1, <3>1, <3>2, <3>3 DEF ListsTyped
  <2>2. ProgramTyped' /\ ParserTyped'
    BY <1>1, <1>4 DEF PassOver, EndOfLoop, program, parser, ProgramTyped, ParserTyped
  <2> QED BY <2>1, <2>2, TypeOKIsNext
<1>5. CASE ReadClient
  <2> DEFINE c == clients[cursor]
  <2>1. cursor \in 1..Len(clients) /\ c \in Client
    BY <1>1, <1>5 DEF ReadClient, ListsTyped
  <2>2. PICK k \in 1..Len(wire[c]) : ReadParts(c, k)
    BY <1>5, ReadClientReads
  <2> DEFINE b == receivingBuffer[c] \o SubSeq(wire[c], 1, k)
             s == Parsed(c, b)
  <2> HIDE DEF c
  <2>3. /\ wire[c] \in Seq(Parts) /\ receivingBuffer[c] \in Seq(Parts)
        /\ SubSeq(wire[c], 1, k) \in Seq(Parts)
        /\ SubSeq(wire[c], k + 1, Len(wire[c])) \in Seq(Parts)
    BY <1>1, <2>1 DEF ProgramTyped, ParserTyped
  <2>4. b \in Seq(Parts)
    BY <2>3
  <2>5. Unparsed(c) \in ParserState
    BY <1>1, <2>1 DEF Unparsed, ParserState, ParserTyped
  <2> HIDE DEF b
  <2>6. s \in ParserState
    BY <2>4, <2>5, ParsedTyped
  <2>7. /\ wire' = [wire EXCEPT ![c] = SubSeq(wire[c], k + 1, Len(wire[c]))]
        /\ receivingBuffer' = [receivingBuffer EXCEPT ![c] = s.rest]
        /\ \E told : message' = [d \in Client |-> IF d = c THEN s.type
                                                  ELSE IF d \in told THEN Reply
                                                  ELSE message[d]]
        /\ nextState' = s.next /\ expected' = s.expected /\ garbled' = s.garbled
        /\ handled' = [handled EXCEPT ![c] = s.handled]
        /\ reading' \in {None, c, reading} /\ interfered' \in BOOLEAN
    BY <1>1, <2>2 DEF b, ReadParts, ParserTyped
  <2> HIDE DEF s
  <2>8. ParserTyped'
    BY <1>1, <2>1, <2>6, <2>7 DEF ParserState, ParserTyped
  <2>9. UNCHANGED <<sent, pending, closed, clients, pfds>> /\ cursor' = cursor + 1
    BY <1>5 DEF ReadClient
  <2>10. ProgramTyped'
    BY <1>1, <2>3, <2>7, <2>9 DEF ProgramTyped
  <2>11. ListsTyped'
    <3>1. Len(clients) \in Nat
      BY <1>1 DEF ListsTyped
    <3> QED BY <1>1, <2>1, <2>9, <3>1 DEF ListsTyped
  <2> QED BY <2>8, <2>10, <2>11, TypeOKIsNext
<1> QED BY <1>2, <1>3, <1>4, <1>5 DEF Loop

LEMMA NextTyped == ASSUME TInv, [Next]_vars PROVE TInv'
<1>1. CASE UNCHANGED vars
  BY <1>1 DEF vars, program, parser, TypeOK, TInv, PollInv, ListsOK, PollSetMatchesClients
<1>2. CASE Next
  <2>1. TypeOK'
    BY <1>2, LoopTyped, ProgramsTyped DEF Next, TInv
  <2> QED BY <1>2, <2>1, NextPollInv DEF TInv
<1> QED BY <1>1, <1>2

LEMMA TInvHolds == Spec => []TInv
<1>1. Init => TInv
  BY InitTyped
<1>2. TInv /\ [Next]_vars => TInv'
  BY NextTyped
<1> QED BY <1>1, <1>2, PTL DEF Spec

\* Every variable of the server's side keeps its type, whatever is taken for
\* whatever when requests interfere (Parser.cpp:10-54): the loop's index is at most two
\* past the list it shortens (Server.cpp:126-142, 400-403), and what handleMessage
\* is given is the type of a request or of an answer, and a request's payload.
THEOREM TypeCorrect == Spec => []TypeOK
<1>1. TInv => TypeOK
  BY DEF TInv
<1> QED BY <1>1, TInvHolds, PTL

-----------------------------------------------------------------------------
(***************************************************************************)
(* Requests as they were sent.  A place is a part of a client's n-th       *)
(* request: where the Parser is, or what a position of the wire carries.   *)
(***************************************************************************)

Place(n, part) == [n |-> n, part |-> part]

\* The place after a place, in what a program has sent.
NextPlace(rs, x) ==
  IF x.part = "type" THEN Place(x.n, "length")
  ELSE IF x.part = "length" /\ PayloadSize[rs[x.n]] # 0 THEN Place(x.n, "payload")
  ELSE Place(x.n + 1, "type")

\* The list w of parts is what follows the place x in the requests rs: "at" gives
\* the place of each position.
InOrder(w, rs, at) ==
  /\ at \in [1..(Len(w) + 1) -> [n : 1..(Len(rs) + 1), part : Step]]
  /\ at[Len(w) + 1] = Place(Len(rs) + 1, "type")
  /\ \A i \in 1..Len(w) : /\ at[i].n <= Len(rs)
                          /\ w[i] = Part(rs[at[i].n], at[i].part)
                          /\ at[i + 1] = NextPlace(rs, at[i])

Carries(w, rs, x) == \E at : InOrder(w, rs, at) /\ at[1] = x

\* h is how the first of the requests rs should be handled.
HandledAsSent(h, rs) ==
  \A j \in 1..Len(h) : j <= Len(rs) /\ h[j] = [type |-> rs[j], payload |-> rs[j]]

\* The Parser, with what it has of the requests rs before the place x.
Matches(s, rs, x) ==
  /\ ~s.garbled /\ s.rest = <<>> /\ s.next = x.part
  /\ Len(s.handled) = x.n - 1 /\ HandledAsSent(s.handled, rs)
  /\ x.part # "type" => s.type = rs[x.n]
  /\ x.part = "payload" => s.expected = rs[x.n]

Reached(c) == Place(Len(handled[c]) + 1, IF reading = c THEN nextState ELSE "type")

\* As long as nothing interfered: each connection's bytes are what is left of the
\* requests of its program, and the Parser is inside a request of "reading", whose
\* type is where Parser::parse put it.
StreamsSound ==
  ~interfered =>
    /\ ~garbled
    /\ nextState = "type" <=> reading = None
    /\ \A c \in Client : /\ receivingBuffer[c] = <<>>
                         /\ HandledAsSent(handled[c], sent[c])
                         /\ Carries(wire[c], sent[c], Reached(c))
    /\ reading # None =>
         LET n == Len(handled[reading]) + 1
         IN /\ message[reading] = sent[reading][n]
            /\ nextState = "payload" => expected = sent[reading][n]

-----------------------------------------------------------------------------

\* A part the Parser waits for suffices, is taken, and brings it to the next place.
LEMMA MatchingPart ==
  ASSUME NEW rs \in Seq(Request), NEW x \in [n : 1..Len(rs), part : Step],
         NEW s \in ParserState, Matches(s, rs, x)
  PROVE  /\ ParsePart(s, Part(rs[x.n], x.part)) \in ParserState
         /\ Matches(ParsePart(s, Part(rs[x.n], x.part)), rs, NextPlace(rs, x))
<1> DEFINE r == rs[x.n]
           p == Part(r, x.part)
           t == TakePart(s, p)
<1>1. /\ r \in Request /\ p.of = r /\ p.part = x.part /\ p.part = s.next
      /\ p.part \in Step /\ PayloadSize[r] \in Nat /\ p \in Parts
      /\ x.n \in Nat /\ x.n >= 1 /\ x.n <= Len(rs) /\ Len(rs) \in Nat
  BY InboxAssumption DEF Part, Matches, Parts
<1>2. /\ s.rest = <<>> /\ ~s.garbled /\ s.handled \in Seq(Handled)
      /\ Len(s.handled) = x.n - 1 /\ HandledAsSent(s.handled, rs)
  BY DEF Matches, ParserState
<1> HIDE DEF p, r
<1>3. Append(s.rest, p) = <<p>>
  BY <1>2
<1>4. Bytes(p) \in Nat /\ BytesNeeded(s) = Bytes(p)
  BY <1>1 DEF Bytes, BytesNeeded, Matches, Step, r
<1>5. ParsePart(s, p) = t
  <2>1. BytesIn(<<p>>) = Bytes(p)
    BY <1>4, BytesInOne
  <2>2. ~(BytesIn(Append(s.rest, p)) < BytesNeeded(s))
    BY <1>3, <1>4, <2>1
  <2> QED BY <1>1, <1>2, <1>3, <2>2 DEF ParsePart
<1>6. ParsePart(s, p) \in ParserState
  BY <1>1, ParsePartTyped
<1>7. ASSUME s.type = r
      PROVE  Matches(Complete(s, r), rs, Place(x.n + 1, "type"))
  <2> DEFINE e == [type |-> s.type, payload |-> r]
             h == Append(s.handled, e)
             y == Place(x.n + 1, "type")
  <2>1. /\ Len(h) = x.n /\ \A j \in 1..(x.n - 1) : h[j] = s.handled[j]
        /\ h[x.n] = e
    <3>1. e \in Handled
      BY <1>1 DEF Handled, ParserState
    <3> HIDE DEF e
    <3> QED BY <1>1, <1>2, <3>1
  <2> HIDE DEF h
  <2>2. HandledAsSent(h, rs)
    <3> SUFFICES ASSUME NEW j \in 1..Len(h)
                 PROVE  j <= Len(rs) /\ h[j] = [type |-> rs[j], payload |-> rs[j]]
      BY DEF HandledAsSent
    <3>1. CASE j = x.n
      BY <1>1, <1>7, <2>1, <3>1 DEF r
    <3>2. CASE j # x.n
      <4>1. j \in 1..(x.n - 1) /\ j \in 1..Len(s.handled)
        BY <1>1, <1>2, <2>1, <3>2
      <4> QED BY <1>2, <2>1, <4>1 DEF HandledAsSent
    <3> QED BY <3>1, <3>2
  <2>3. Complete(s, r) = [s EXCEPT !.next = "type", !.expected = None,
                                   !.type = Reply, !.handled = h]
    BY DEF Complete, h
  <2>4. /\ Complete(s, r).next = "type" /\ Complete(s, r).handled = h
        /\ Complete(s, r).rest = <<>> /\ ~Complete(s, r).garbled
    BY <1>2, <2>3 DEF ParserState
  <2>5. y.part = "type" /\ Len(h) = y.n - 1
    BY <1>1, <2>1 DEF Place
  <2> QED BY <2>2, <2>4, <2>5 DEF Matches
<1>8. CASE x.part = "type"
  <2>1. t = [s EXCEPT !.next = "length", !.type = r]
    BY <1>1, <1>8, TakePartIs
  <2>2. NextPlace(rs, x) = Place(x.n, "length")
    BY <1>8 DEF NextPlace
  <2>3. Matches(t, rs, Place(x.n, "length"))
    BY <1>2, <2>1 DEF Matches, Place, ParserState, r
  <2> QED BY <1>5, <1>6, <2>2, <2>3 DEF p, r
<1>9. CASE x.part = "length" /\ PayloadSize[r] # 0
  <2>1. p.part = "length" /\ PayloadSize[p.of] # 0 /\ p.of = r
    BY <1>1, <1>9
  <2>2. t = [s EXCEPT !.next = "payload", !.expected = r]
    BY <2>1, TakePartIs
  <2>3. NextPlace(rs, x) = Place(x.n, "payload")
    BY <1>9 DEF NextPlace, r
  <2>4. s.type = r
    BY <1>9 DEF Matches, r
  <2>5. Matches(t, rs, Place(x.n, "payload"))
    BY <1>2, <2>2, <2>4 DEF Matches, Place, ParserState, r
  <2> QED BY <1>5, <1>6, <2>3, <2>5 DEF p, r
<1>10. CASE (x.part = "length" /\ PayloadSize[r] = 0) \/ x.part = "payload"
  <2>1. t = Complete(s, r)
    BY <1>1, <1>10, TakePartIs
  <2>2. NextPlace(rs, x) = Place(x.n + 1, "type")
    BY <1>10 DEF NextPlace, r
  <2>3. s.type = r
    BY <1>10 DEF Matches, r
  <2> QED BY <1>5, <1>6, <1>7, <2>1, <2>2, <2>3 DEF p, r
<1> QED BY <1>8, <1>9, <1>10 DEF Step

\* Reading a part of what the wire carries brings the Parser to the place behind it.
LEMMA ReadStream ==
  ASSUME NEW c, NEW rs \in Seq(Request), NEW w \in Seq(Parts), NEW x,
         Carries(w, rs, x), Unparsed(c) \in ParserState, Matches(Unparsed(c), rs, x),
         NEW k \in 1..Len(w)
  PROVE  LET s == Parsed(c, SubSeq(w, 1, k))
         IN /\ s \in ParserState
            /\ \E y \in [n : 1..(Len(rs) + 1), part : Step] :
                 Matches(s, rs, y) /\ Carries(SubSeq(w, k + 1, Len(w)), rs, y)
<1> DEFINE b == SubSeq(w, 1, k)
           v == SubSeq(w, k + 1, Len(w))
<1>1. /\ b \in Seq(Parts) /\ Len(b) = k /\ \A i \in 1..k : b[i] = w[i]
      /\ v \in Seq(Parts) /\ Len(v) = Len(w) - k /\ \A i \in 1..(Len(w) - k) : v[i] = w[k + i]
      /\ Len(w) \in Nat /\ k \in Nat /\ Len(rs) \in Nat
  OBVIOUS
<1> HIDE DEF b, v
<1>2. PICK at : InOrder(w, rs, at) /\ at[1] = x
  BY DEF Carries
<1>3. /\ \A i \in 1..(Len(w) + 1) : at[i] \in [n : 1..(Len(rs) + 1), part : Step]
      /\ at[Len(w) + 1] = Place(Len(rs) + 1, "type")
      /\ \A i \in 1..Len(w) : /\ at[i].n <= Len(rs)
                              /\ w[i] = Part(rs[at[i].n], at[i].part)
                              /\ at[i + 1] = NextPlace(rs, at[i])
  BY <1>2 DEF InOrder
<1>4. PICK f : /\ f[0] = Unparsed(c) /\ Parsed(c, b) = f[Len(b)]
               /\ \A i \in 1..Len(b) : f[i] = ParsePart(f[i - 1], b[i])
  <2>1. Len(b) \in Nat
    BY <1>1
  <2> QED BY <2>1, ParsedIs
<1> DEFINE S == {i \in 0..k : f[i] \in ParserState /\ Matches(f[i], rs, at[i + 1])}
<1>5. 0 \in S
  BY <1>1, <1>2, <1>4
<1>6. ASSUME NEW i \in 1..k, i - 1 \in S PROVE i \in S
  <2>1. i \in 1..Len(w) /\ i \in 1..(Len(w) + 1) /\ i - 1 + 1 = i
    BY <1>1
  <2>2. f[i - 1] \in ParserState /\ Matches(f[i - 1], rs, at[i])
    BY <1>6, <2>1
  <2>3. at[i] \in [n : 1..Len(rs), part : Step]
    BY <1>1, <1>3, <2>1
  <2>4. f[i] = ParsePart(f[i - 1], Part(rs[at[i].n], at[i].part))
    BY <1>1, <1>3, <1>4, <2>1
  <2>5. f[i] \in ParserState /\ Matches(f[i], rs, NextPlace(rs, at[i]))
    BY <2>2, <2>3, <2>4, MatchingPart
  <2> QED BY <1>3, <2>1, <2>5
<1>7. k \in S
  <2> HIDE DEF S
  <2>1. 0..k \subseteq S
    BY <1>1, <1>5, <1>6, UpTo
  <2> QED BY <1>1, <2>1
<1> DEFINE y == at[k + 1]
           at2 == [i \in 1..(Len(v) + 1) |-> at[k + i]]
<1>8. Matches(Parsed(c, b), rs, y) /\ Parsed(c, b) \in ParserState
  BY <1>1, <1>4, <1>7
<1>9. y \in [n : 1..(Len(rs) + 1), part : Step]
  <2>1. k + 1 \in 1..(Len(w) + 1)
    BY <1>1
  <2> QED BY <1>3, <2>1
<1>10. InOrder(v, rs, at2) /\ at2[1] = y
  <2>1. \A i \in 1..(Len(v) + 1) : k + i \in 1..(Len(w) + 1) /\ at2[i] = at[k + i]
    BY <1>1
  <2>2. \A i \in 1..Len(v) : /\ k + i \in 1..Len(w) /\ i \in 1..(Len(v) + 1)
                             /\ i + 1 \in 1..(Len(v) + 1) /\ k + (i + 1) = k + i + 1
    BY <1>1
  <2>3. Len(v) + 1 \in 1..(Len(v) + 1) /\ 1 \in 1..(Len(v) + 1) /\ k + (Len(v) + 1) = Len(w) + 1
    BY <1>1
  <2>4. at2 \in [1..(Len(v) + 1) -> [n : 1..(Len(rs) + 1), part : Step]]
    BY <1>3, <2>1
  <2>5. at2[Len(v) + 1] = Place(Len(rs) + 1, "type")
    BY <1>3, <2>1, <2>3
  <2>6. ASSUME NEW i \in 1..Len(v)
        PROVE  /\ at2[i].n <= Len(rs)
               /\ v[i] = Part(rs[at2[i].n], at2[i].part)
               /\ at2[i + 1] = NextPlace(rs, at2[i])
    <3>1. at2[i] = at[k + i] /\ at2[i + 1] = at[k + i + 1] /\ v[i] = w[k + i]
      BY <1>1, <2>1, <2>2
    <3> QED BY <1>3, <2>2, <3>1
  <2>7. at2[1] = y
    BY <2>1, <2>3
  <2> HIDE DEF at2
  <2> QED BY <2>4, <2>5, <2>6, <2>7 DEF InOrder
<1> HIDE DEF y, at2
<1> QED BY <1>8, <1>9, <1>10 DEF Carries, b, v

\* A program sends a request behind those it has sent.
LEMMA SendStream ==
  ASSUME NEW rs \in Seq(Request), NEW w \in Seq(Parts), NEW x, Carries(w, rs, x),
         NEW r \in Request
  PROVE  Carries(w \o Serialize(r), Append(rs, r), x)
<1> DEFINE t == Serialize(r)
           u == w \o t
           rs2 == Append(rs, r)
           n == Len(rs) + 1
           l == Len(w)
<1>1. /\ t \in Seq(Parts) /\ Len(t) \in {2, 3} /\ (Len(t) = 3 <=> PayloadSize[r] # 0)
      /\ t[1] = Part(r, "type") /\ t[2] = Part(r, "length")
      /\ Len(t) = 3 => t[3] = Part(r, "payload")
  <2>1. /\ t \in Seq(Parts) /\ Len(t) = IF PayloadSize[r] = 0 THEN 2 ELSE 3
        /\ t[1] = Part(r, "type") /\ t[2] = Part(r, "length")
        /\ PayloadSize[r] # 0 => t[3] = Part(r, "payload")
    BY SerializeTyped
  <2> HIDE DEF t
  <2> QED BY <2>1
<1> HIDE DEF t
<1>2. /\ Len(u) = l + Len(t)
      /\ \A i \in 1..(l + Len(t)) : u[i] = IF i <= l THEN w[i] ELSE t[i - l]
  BY <1>1, ConcatProperties
<1>3. /\ l \in Nat /\ n \in Nat /\ Len(rs) \in Nat /\ Len(rs2) = n
      /\ \A i \in 1..Len(rs) : rs2[i] = rs[i]
      /\ rs2[n] = r
  OBVIOUS
<1>4. PICK at : InOrder(w, rs, at) /\ at[1] = x
  BY DEF Carries
<1>5. /\ \A i \in 1..(l + 1) : at[i] \in [n : 1..(Len(rs) + 1), part : Step]
      /\ at[l + 1] = Place(n, "type")
      /\ \A i \in 1..l : /\ at[i].n <= Len(rs)
                         /\ w[i] = Part(rs[at[i].n], at[i].part)
                         /\ at[i + 1] = NextPlace(rs, at[i])
  BY <1>4 DEF InOrder
<1> HIDE DEF u, rs2, n, l
<1> DEFINE at2 == [i \in 1..(l + Len(t) + 1) |->
                     IF i <= l + 1 THEN at[i]
                     ELSE IF i = l + 2 THEN Place(n, "length")
                     ELSE IF i = l + 3 /\ Len(t) = 3 THEN Place(n, "payload")
                     ELSE Place(n + 1, "type")]
<1>6. /\ \A i \in 1..(l + 1) : at2[i] = at[i]
      /\ at2[l + 2] = Place(n, "length")
      /\ Len(t) = 3 => at2[l + 3] = Place(n, "payload")
      /\ at2[l + Len(t) + 1] = Place(n + 1, "type")
  BY <1>1, <1>3
<1>7. at2 \in [1..(Len(u) + 1) -> [n : 1..(Len(rs2) + 1), part : Step]]
  <2>1. \A i \in 1..(l + 1) : at[i] \in [n : 1..(Len(rs2) + 1), part : Step]
    BY <1>3, <1>5 DEF n
  <2>2. /\ Place(n, "length") \in [n : 1..(Len(rs2) + 1), part : Step]
        /\ Place(n, "payload") \in [n : 1..(Len(rs2) + 1), part : Step]
        /\ Place(n + 1, "type") \in [n : 1..(Len(rs2) + 1), part : Step]
    BY <1>3 DEF Place, Step, n
  <2>3. ASSUME NEW i \in 1..(l + Len(t) + 1)
        PROVE  at2[i] \in [n : 1..(Len(rs2) + 1), part : Step]
    <3>1. i <= l + 1 => i \in 1..(l + 1)
      BY <1>3
    <3> QED BY <2>1, <2>2, <3>1
  <2>4. at2 = [i \in 1..(l + Len(t) + 1) |-> at2[i]]
    OBVIOUS
  <2> HIDE DEF at2
  <2> QED BY <1>2, <2>3, <2>4
<1> HIDE DEF at2
<1>8. ASSUME NEW i \in 1..Len(u)
      PROVE  /\ at2[i].n <= Len(rs2)
             /\ u[i] = Part(rs2[at2[i].n], at2[i].part)
             /\ at2[i + 1] = NextPlace(rs2, at2[i])
  <2>1. CASE i <= l
    <3>1. /\ i \in 1..l /\ i \in 1..(l + 1) /\ i + 1 \in 1..(l + 1)
          /\ at2[i] = at[i] /\ at2[i + 1] = at[i + 1] /\ u[i] = w[i]
      BY <1>1, <1>2, <1>3, <1>6, <2>1
    <3>2. at[i].n \in 1..Len(rs)
      BY <1>3, <1>5, <3>1 DEF n
    <3>3. rs2[at[i].n] = rs[at[i].n] /\ at[i].n <= Len(rs2)
      BY <1>3, <3>2 DEF n
    <3>4. NextPlace(rs2, at[i]) = NextPlace(rs, at[i])
      BY <3>3 DEF NextPlace
    <3> QED BY <1>5, <3>1, <3>3, <3>4
  <2>2. CASE i = l + 1
    <3>1. i \in 1..(l + 1) /\ i - l = 1 /\ ~(i <= l) /\ i + 1 = l + 2
      BY <1>3, <2>2
    <3>2. at2[i] = Place(n, "type") /\ at2[i + 1] = Place(n, "length") /\ u[i] = t[1]
      BY <1>2, <1>5, <1>6, <2>2, <3>1
    <3> QED BY <1>1, <1>3, <3>2 DEF Place, NextPlace
  <2>3. CASE i = l + 2
    <3>1. i - l = 2 /\ ~(i <= l) /\ i + 1 = l + 3
      BY <1>3, <2>3
    <3>2. at2[i] = Place(n, "length") /\ u[i] = t[2]
      BY <1>2, <1>6, <2>3, <3>1
    <3>3. at2[i + 1] = IF PayloadSize[r] # 0 THEN Place(n, "payload") ELSE Place(n + 1, "type")
      <4>1. CASE Len(t) = 3
        BY <1>1, <1>6, <3>1, <4>1
      <4>2. CASE Len(t) = 2
        <5>1. l + Len(t) + 1 = l + 3
          BY <1>3, <4>2
        <5> QED BY <1>1, <1>6, <3>1, <4>2, <5>1
      <4> QED BY <1>1, <4>1, <4>2
    <3> QED BY <1>1, <1>3, <3>2, <3>3 DEF Place, NextPlace
  <2>4. CASE i > l + 2
    <3> DEFINE m == Len(t)
    <3>1. i \in 1..(l + m) /\ m \in {2, 3} /\ l \in Nat /\ i > l + 2
      BY <1>1, <1>2, <1>3, <2>4
    <3> HIDE DEF m
    <3>2. m = 3 /\ i = l + 3 /\ i - l = 3 /\ ~(i <= l) /\ i + 1 = l + m + 1
      BY <3>1
    <3>3. at2[i] = Place(n, "payload") /\ at2[i + 1] = Place(n + 1, "type") /\ u[i] = t[3]
      BY <1>2, <1>6, <3>2 DEF m
    <3> QED BY <1>1, <1>3, <3>2, <3>3 DEF m, Place, NextPlace
  <2> QED BY <1>2, <1>3, <2>1, <2>2, <2>3, <2>4
<1>9. at2[Len(u) + 1] = Place(Len(rs2) + 1, "type")
  BY <1>2, <1>3, <1>6
<1>10. at2[1] = x
  <2>1. 1 \in 1..(l + 1)
    BY <1>3
  <2> QED BY <1>4, <1>6, <2>1
<1>11. InOrder(u, rs2, at2)
  BY <1>7, <1>8, <1>9 DEF InOrder
<1> QED BY <1>10, <1>11 DEF Carries, u, rs2, t

\* Before anything is sent, every connection is at the beginning.
LEMMA NothingSent == Carries(<<>>, <<>>, Place(1, "type"))
<1> DEFINE at == [i \in 1..1 |-> Place(1, "type")]
<1>1. at \in [1..1 -> [n : 1..1, part : Step]] /\ at[1] = Place(1, "type")
  BY DEF Place, Step
<1> HIDE DEF at
<1>2. Len(<<>>) = 0
  OBVIOUS
<1>3. InOrder(<<>>, <<>>, at)
  BY <1>1, <1>2 DEF InOrder
<1> QED BY <1>1, <1>3 DEF Carries

\* Inside a request there is a request.
LEMMA InsideRequest ==
  ASSUME NEW rs \in Seq(Request), NEW w \in Seq(Parts), NEW x, Carries(w, rs, x),
         x.part # "type"
  PROVE  x.n \in 1..Len(rs)
<1>1. PICK at : InOrder(w, rs, at) /\ at[1] = x
  BY DEF Carries
<1>2. Len(w) \in Nat /\ Len(rs) \in Nat
  OBVIOUS
<1>3. x.n \in 1..(Len(rs) + 1)
  <2>1. 1 \in 1..(Len(w) + 1)
    BY <1>2
  <2> QED BY <1>1, <2>1 DEF InOrder
<1>4. Len(w) # 0
  BY <1>1 DEF InOrder, Place
<1>5. x.n <= Len(rs)
  <2>1. 1 \in 1..Len(w)
    BY <1>2, <1>4
  <2> QED BY <1>1, <2>1 DEF InOrder
<1> QED BY <1>2, <1>3, <1>5

LEMMA InitStreams == ASSUME Init PROVE StreamsSound
<1>1. ASSUME NEW c \in Client
      PROVE  /\ receivingBuffer[c] = <<>> /\ HandledAsSent(handled[c], sent[c])
             /\ Carries(wire[c], sent[c], Reached(c))
  <2>1. /\ receivingBuffer[c] = <<>> /\ handled[c] = <<>> /\ sent[c] = <<>>
        /\ wire[c] = <<>> /\ reading # c
    BY InboxAssumption DEF Init
  <2>2. Reached(c) = Place(1, "type")
    BY <2>1 DEF Reached
  <2>3. HandledAsSent(<<>>, <<>>)
    BY DEF HandledAsSent
  <2> QED BY <2>1, <2>2, <2>3, NothingSent
<1> QED BY <1>1 DEF Init, StreamsSound

\* Steps that touch neither the streams nor the Parser, nor the type kept for the
\* request it is inside.
LEMMA StreamsKept ==
  ASSUME StreamsSound,
         UNCHANGED <<sent, wire, receivingBuffer, nextState, expected, garbled, handled,
                     reading>>,
         ~interfered' => ~interfered /\ (reading # None => message'[reading] = message[reading])
  PROVE  StreamsSound'
BY DEF StreamsSound, Reached

LEMMA SendKeepsStreams ==
  ASSUME TInv, StreamsSound, NEW c \in Client, NEW r \in Request, Send(c, r)
  PROVE  StreamsSound'
<1> SUFFICES ASSUME ~interfered' PROVE StreamsSound'
  BY DEF StreamsSound
<1>1. ProgramTyped /\ ParserTyped
  BY TypeOKIs DEF TInv
<1>2. /\ sent' = [sent EXCEPT ![c] = Append(sent[c], r)]
      /\ wire' = [wire EXCEPT ![c] = wire[c] \o Serialize(r)]
      /\ UNCHANGED <<receivingBuffer, message, nextState, expected, garbled, handled,
                     reading, interfered>>
  BY DEF Send, server, parser
<1>3. /\ sent[c] \in Seq(Request) /\ wire[c] \in Seq(Parts) /\ handled[c] \in Seq(Handled)
      /\ sent'[c] = Append(sent[c], r) /\ wire'[c] = wire[c] \o Serialize(r)
      /\ \A d \in Client \ {c} : sent'[d] = sent[d] /\ wire'[d] = wire[d]
  BY <1>1, <1>2 DEF ProgramTyped, ParserTyped
<1>4. \A i \in 1..Len(sent[c]) : sent'[c][i] = sent[c][i] /\ i <= Len(sent'[c])
  BY <1>3
<1>5. \A d \in Client : Reached(d)' = Reached(d)
  BY <1>2 DEF Reached
<1>6. /\ ~garbled /\ (nextState = "type" <=> reading = None)
      /\ \A d \in Client : /\ receivingBuffer[d] = <<>> /\ HandledAsSent(handled[d], sent[d])
                           /\ Carries(wire[d], sent[d], Reached(d))
      /\ reading # None =>
           LET n == Len(handled[reading]) + 1
           IN /\ message[reading] = sent[reading][n]
              /\ nextState = "payload" => expected = sent[reading][n]
  BY <1>2 DEF StreamsSound
<1>7. ASSUME NEW d \in Client
      PROVE  /\ HandledAsSent(handled[d], sent'[d])
             /\ Carries(wire'[d], sent'[d], Reached(d))
  <2>1. CASE d = c
    <3>1. Carries(wire'[c], sent'[c], Reached(c))
      BY <1>3, <1>6, SendStream
    <3>2. ASSUME NEW j \in 1..Len(handled[c])
          PROVE  j <= Len(sent'[c]) /\ handled[c][j] = [type |-> sent'[c][j], payload |-> sent'[c][j]]
      <4>1. j <= Len(sent[c]) /\ handled[c][j] = [type |-> sent[c][j], payload |-> sent[c][j]]
        BY <1>6 DEF HandledAsSent
      <4>2. j \in 1..Len(sent[c])
        BY <1>3, <4>1
      <4> QED BY <1>4, <4>1, <4>2
    <3> QED BY <2>1, <3>1, <3>2 DEF HandledAsSent
  <2>2. CASE d # c
    BY <1>3, <1>6, <2>2
  <2> QED BY <2>1, <2>2
<1>8. ASSUME reading # None
      PROVE  sent'[reading][Len(handled[reading]) + 1] = sent[reading][Len(handled[reading]) + 1]
  <2>1. CASE reading = c
    <3>1. Reached(c).part # "type" /\ Reached(c).n = Len(handled[c]) + 1
      BY <1>6, <1>8, <2>1 DEF Reached, Place
    <3>2. Len(handled[c]) + 1 \in 1..Len(sent[c])
      BY <1>3, <1>6, <3>1, InsideRequest
    <3> QED BY <1>4, <2>1, <3>2
  <2>2. CASE reading # c
    BY <1>1, <1>3, <1>8, <2>2 DEF ParserTyped
  <2> QED BY <2>1, <2>2
<1> QED BY <1>2, <1>5, <1>6, <1>7, <1>8 DEF StreamsSound

\* One read of a connection: the Parser goes on where it is inside that client's
\* request, or begins one.
LEMMA ReadKeepsStreams ==
  ASSUME TInv, StreamsSound, ReadClient
  PROVE  StreamsSound'
<1> SUFFICES ASSUME ~interfered' PROVE StreamsSound'
  BY DEF StreamsSound
<1>1. ProgramTyped /\ ListsTyped /\ ParserTyped
  BY TypeOKIs DEF TInv
<1>2. PICK c \in Client : c = clients[cursor] /\ c # None
  <2>1. clients[cursor] \in Client
    BY <1>1 DEF ReadClient, ListsTyped
  <2> QED BY <2>1, InboxAssumption
<1>3. PICK k \in 1..Len(wire[c]) : ReadParts(c, k)
  BY <1>2, ReadClientReads
<1>4. sent' = sent
  BY DEF ReadClient
<1> DEFINE s == Parsed(c, SubSeq(wire[c], 1, k))
<1>5. ~interfered /\ reading \in {None, c}
  BY <1>1, <1>3 DEF ParserTyped, ReadParts
<1>6. /\ ~garbled /\ (nextState = "type" <=> reading = None)
      /\ \A d \in Client : /\ receivingBuffer[d] = <<>> /\ HandledAsSent(handled[d], sent[d])
                           /\ Carries(wire[d], sent[d], Reached(d))
      /\ reading # None =>
           LET n == Len(handled[reading]) + 1
           IN /\ message[reading] = sent[reading][n]
              /\ nextState = "payload" => expected = sent[reading][n]
  BY <1>5 DEF StreamsSound
<1>7. /\ sent[c] \in Seq(Request) /\ wire[c] \in Seq(Parts) /\ handled[c] \in Seq(Handled)
      /\ SubSeq(wire[c], 1, k) \in Seq(Parts)
  BY <1>1, <1>2 DEF ProgramTyped, ParserTyped
<1>8. receivingBuffer[c] \o SubSeq(wire[c], 1, k) = SubSeq(wire[c], 1, k)
  <2>1. receivingBuffer[c] = <<>>
    BY <1>2, <1>6
  <2> QED BY <1>7, <2>1
<1>9. /\ wire' = [wire EXCEPT ![c] = SubSeq(wire[c], k + 1, Len(wire[c]))]
      /\ receivingBuffer' = [receivingBuffer EXCEPT ![c] = s.rest]
      /\ message'[c] = s.type /\ nextState' = s.next /\ expected' = s.expected
      /\ garbled' = s.garbled /\ handled' = [handled EXCEPT ![c] = s.handled]
      /\ reading' = IF s.next = "type" THEN None ELSE c
  BY <1>2, <1>3, <1>5, <1>8 DEF ReadParts
<1>10. Unparsed(c) \in ParserState
  BY <1>1, <1>2 DEF Unparsed, ParserState, ParserTyped
<1>11. Matches(Unparsed(c), sent[c], Reached(c))
  <2>1. /\ Reached(c).part = nextState /\ Reached(c).n = Len(handled[c]) + 1
    BY <1>5, <1>6 DEF Reached, Place
  <2>2. Len(handled[c]) = Reached(c).n - 1
    BY <1>7, <2>1
  <2>3. nextState # "type" => reading = c
    BY <1>5, <1>6
  <2> QED BY <1>2, <1>6, <2>1, <2>2, <2>3 DEF Matches, Unparsed
<1>12. /\ s \in ParserState
       /\ \E y \in [n : 1..(Len(sent[c]) + 1), part : Step] :
            Matches(s, sent[c], y) /\ Carries(SubSeq(wire[c], k + 1, Len(wire[c])), sent[c], y)
  BY <1>2, <1>6, <1>7, <1>10, <1>11, ReadStream
<1> HIDE DEF s
<1>13. PICK y \in [n : 1..(Len(sent[c]) + 1), part : Step] :
         Matches(s, sent[c], y) /\ Carries(SubSeq(wire[c], k + 1, Len(wire[c])), sent[c], y)
  BY <1>12
<1>14. /\ ~s.garbled /\ s.rest = <<>> /\ s.next = y.part
       /\ Len(s.handled) = y.n - 1 /\ HandledAsSent(s.handled, sent[c])
       /\ y.part # "type" => s.type = sent[c][y.n]
       /\ y.part = "payload" => s.expected = sent[c][y.n]
  BY <1>13 DEF Matches
<1>15. /\ handled'[c] = s.handled /\ receivingBuffer'[c] = <<>>
       /\ wire'[c] = SubSeq(wire[c], k + 1, Len(wire[c]))
       /\ \A d \in Client \ {c} : /\ handled'[d] = handled[d] /\ wire'[d] = wire[d]
                                  /\ receivingBuffer'[d] = receivingBuffer[d]
  BY <1>1, <1>2, <1>9, <1>14 DEF ProgramTyped, ParserTyped
<1>16. Len(s.handled) + 1 = y.n
  <2>1. y.n \in Nat
    BY <1>7, <1>13
  <2> QED BY <1>14, <2>1
<1>17. Reached(c)' = y
  <2>1. Reached(c)' = Place(y.n, IF reading' = c THEN s.next ELSE "type")
    <3>1. Reached(c)' = Place(Len(handled'[c]) + 1, IF reading' = c THEN nextState' ELSE "type")
      BY DEF Reached
    <3> QED BY <1>9, <1>15, <1>16, <3>1
  <2>2. (IF reading' = c THEN s.next ELSE "type") = y.part
    BY <1>2, <1>9, <1>14
  <2>3. y = [n |-> y.n, part |-> y.part]
    BY <1>13
  <2> QED BY <2>1, <2>2, <2>3 DEF Place
<1>18. ASSUME NEW d \in Client
       PROVE  /\ receivingBuffer'[d] = <<>> /\ HandledAsSent(handled'[d], sent'[d])
              /\ Carries(wire'[d], sent'[d], Reached(d)')
  <2>1. CASE d = c
    BY <1>4, <1>13, <1>14, <1>15, <1>17, <2>1
  <2>2. CASE d # c
    <3>1. reading # d /\ reading' # d
      BY <1>2, <1>5, <1>9, <2>2, InboxAssumption
    <3>2. Reached(d)' = Reached(d)
      BY <1>15, <2>2, <3>1 DEF Reached
    <3> QED BY <1>4, <1>6, <1>15, <2>2, <3>2
  <2> QED BY <2>1, <2>2
<1>19. nextState' = "type" <=> reading' = None
  BY <1>2, <1>9
<1>20. ASSUME reading' # None
       PROVE  /\ message'[reading'] = sent'[reading'][Len(handled'[reading']) + 1]
              /\ nextState' = "payload" => expected' = sent'[reading'][Len(handled'[reading']) + 1]
  <2>1. reading' = c /\ y.part # "type"
    BY <1>9, <1>14, <1>20
  <2>2. Len(handled'[c]) + 1 = y.n
    BY <1>15, <1>16
  <2>3. message'[c] = sent[c][y.n] /\ (nextState' = "payload" => expected' = sent[c][y.n])
    BY <1>9, <1>14, <2>1
  <2> QED BY <1>4, <2>1, <2>2, <2>3
<1> QED BY <1>9, <1>14, <1>18, <1>19, <1>20 DEF StreamsSound

\* A message to a client whose request the Parser is inside is interference.
LEMMA NextStreams ==
  ASSUME TInv, StreamsSound, [Next]_vars
  PROVE  StreamsSound'
<1>1. ParserTyped
  BY TypeOKIs DEF TInv
<1>2. ASSUME NEW told, AddMessages(told),
             UNCHANGED <<sent, wire, receivingBuffer, parser, handled, reading>>
      PROVE  StreamsSound'
  <2>1. ~interfered' => ~interfered /\ reading \notin told
    BY <1>1, <1>2 DEF AddMessages, ParserTyped
  <2>2. (reading # None /\ reading \notin told) => message'[reading] = message[reading]
    BY <1>1, <1>2 DEF AddMessages, ParserTyped
  <2>3. UNCHANGED <<sent, wire, receivingBuffer, nextState, expected, garbled, handled, reading>>
    BY <1>2 DEF parser
  <2> QED BY <2>1, <2>2, <2>3, StreamsKept
<1>3. CASE Poll
  <2>1. PICK told : AddMessages(told)
    BY <1>3 DEF Poll
  <2> QED BY <1>2, <1>3, <2>1 DEF Poll
<1>4. CASE EraseClient
  <2>1. PICK told : AddMessages(told)
    BY <1>4 DEF EraseClient
  <2> QED BY <1>2, <1>4, <2>1 DEF EraseClient, program
<1>5. CASE PassOver \/ EndOfLoop \/ UNCHANGED vars \/ \E c \in Client : Connect(c) \/ Close(c)
  <2>1. UNCHANGED <<sent, wire, receivingBuffer, message, parser, handled, reading, interfered>>
    BY <1>5 DEF PassOver, EndOfLoop, vars, program, Connect, Close, server
  <2> QED BY <2>1, StreamsKept DEF parser
<1> QED
  BY <1>3, <1>4, <1>5, ReadKeepsStreams, SendKeepsStreams DEF Next, Loop

\* What was handled is the beginning of what was sent.
LEMMA StreamsSuffice == ASSUME TInv, StreamsSound PROVE OnlyInterferenceMisreads
<1> SUFFICES ASSUME ~interfered, NEW c \in Client
             PROVE  ~garbled /\ IsPrefix(handled[c], AsSent(sent[c]))
  BY DEF OnlyInterferenceMisreads, StreamsSound
<1> DEFINE rs == sent[c]
<1>1. handled[c] \in Seq(Handled) /\ rs \in Seq(Request)
  BY TypeOKIs DEF TInv, ProgramTyped, ParserTyped
<1>2. HandledAsSent(handled[c], rs) /\ ~garbled
  BY DEF StreamsSound
<1> HIDE DEF rs
<1>3. ASSUME NEW h \in Seq(Handled), HandledAsSent(h, rs)
      PROVE  IsPrefix(h, AsSent(rs))
  <2>1. /\ Len(rs) \in Nat
        /\ AsSent(rs) = [i \in 1..Len(rs) |-> [type |-> rs[i], payload |-> rs[i]]]
        /\ \A i \in 1..Len(rs) : [type |-> rs[i], payload |-> rs[i]] \in Handled
    BY <1>1 DEF AsSent, Handled
  <2>2. AsSent(rs) \in Seq(Handled) /\ Len(AsSent(rs)) = Len(rs)
    BY <2>1
  <2>3. \A i \in 1..Len(h) : i <= Len(rs) /\ h[i] = [type |-> rs[i], payload |-> rs[i]]
    BY <1>3 DEF HandledAsSent
  <2>4. ASSUME NEW i \in 1..Len(h) PROVE i <= Len(AsSent(rs)) /\ h[i] = AsSent(rs)[i]
    <3>1. i \in Nat /\ 1 <= i
      OBVIOUS
    <3>2. i \in 1..Len(rs) /\ h[i] = [type |-> rs[i], payload |-> rs[i]]
      BY <2>1, <2>3, <3>1
    <3>3. AsSent(rs)[i] = [type |-> rs[i], payload |-> rs[i]]
      BY <2>1, <3>2
    <3> QED BY <2>2, <2>3, <3>2, <3>3
  <2> QED BY <1>3, <2>2, <2>4, AgreeingPrefix
<1> QED BY <1>1, <1>2, <1>3 DEF rs

\* However the reads cut the stream of a connection, and however many connections
\* share the one Parser: as long as no other connection's bytes and no message for the
\* sender come between two parts of a request, the Parser takes every byte for what it
\* is, and each client's requests reach handleMessage in order, once, with the type and
\* the payload they were sent with (Parser.cpp:10-54, Server.cpp:127-154,
\* Client.cpp:24-26).
THEOREM OnlyInterferenceMisreadsHolds == Spec => []OnlyInterferenceMisreads
<1>1. Init => StreamsSound
  BY InitStreams
<1>2. TInv /\ StreamsSound /\ [Next]_vars => StreamsSound'
  BY NextStreams
<1>3. TInv /\ StreamsSound => OnlyInterferenceMisreads
  BY StreamsSuffice
<1> QED BY <1>1, <1>2, <1>3, TInvHolds, PTL DEF Spec
=============================================================================
