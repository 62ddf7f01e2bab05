-------------------------------- MODULE Inbox --------------------------------
(***************************************************************************)
(* The way of a request from a player's program to its handler: the poll   *)
(* loop of Server::run, Client::receivingBuffer, and the one Parser that   *)
(* serves all connections.                                                 *)
(*                                                                         *)
(* A request is three parts, as the Parser takes them: the type, the       *)
(* length and, unless it is empty, the payload.  A read may end between    *)
(* any two of them; one that ends inside a part leaves the Parser waiting  *)
(* for that part, like one that ends before it.                            *)
(*                                                                         *)
(* Parser::parse stores the type in Client::message, the object in which   *)
(* Client::addMessageToBuffer composes the messages for that client.       *)
(***************************************************************************)
EXTENDS Integers, SequencesExt

CONSTANTS
  Client,      \* the connections, each of which lasts once
  Request,     \* what a program may send, each request once
  PayloadSize, \* the number of bytes of each request's payload
  Reply,       \* the type of any message of the server
  None,        \* no connection, no request
  MaxRequests  \* bound: requests of all programs together

ASSUME InboxAssumption ==
  /\ PayloadSize \in [Request -> Nat]
  /\ Reply \notin Request
  /\ None \notin Client \cup Request
  /\ MaxRequests \in Nat

VARIABLES
  sent,            \* history: the requests each program has sent
  wire,            \* what the server has not read of them
  pending, closed, \* connections not yet accepted; closed by the program
  clients,         \* Server::clients
  pfds,            \* Server::pfds without the listening socket and the pipe
  cursor,          \* i - 1 in the loop of run; 0: about to poll
  receivingBuffer, \* Client::receivingBuffer
  message,         \* the type in Client::message
  nextState,       \* Parser::nextState
  expected,        \* the request whose length is Parser::expectedLength
  garbled,         \* the Parser has taken bytes for what they are not
  handled,         \* history: type and payload given to handleMessage
  reading,         \* history: whose request the Parser has begun, or None
  interfered       \* history: something came between two parts of a request

program == <<sent, wire, pending, closed>>
parser  == <<nextState, expected, garbled>>
vars == <<program, clients, pfds, cursor, receivingBuffer, message, parser,
          handled, reading, interfered>>

Part(r, part) == [of |-> r, part |-> part]

Serialize(r) ==
  <<Part(r, "type"), Part(r, "length")>>
    \o IF PayloadSize[r] = 0 THEN <<>> ELSE <<Part(r, "payload")>>

Bytes(p) == [type |-> 1, length |-> 4, payload |-> PayloadSize[p.of]][p.part]

Init ==
  /\ sent = [c \in Client |-> <<>>] /\ wire = [c \in Client |-> <<>>]
  /\ pending = {} /\ closed = {}
  /\ clients = <<>> /\ pfds = <<>> /\ cursor = 0
  /\ receivingBuffer = [c \in Client |-> <<>>]
  /\ message = [c \in Client |-> Reply]
  /\ nextState = "type" /\ expected = None /\ garbled = FALSE
  /\ handled = [c \in Client |-> <<>>]
  /\ reading = None /\ interfered = FALSE

-----------------------------------------------------------------------------
(***************************************************************************)
(* The programs.                                                           *)
(***************************************************************************)

server == <<clients, pfds, cursor, receivingBuffer, message, parser, handled,
            reading, interfered>>

Known(c) == c \in pending \/ c \in Range(clients) \/ c \in closed

Connect(c) ==
  /\ ~Known(c)
  /\ pending' = pending \cup {c}
  /\ UNCHANGED <<sent, wire, closed, server>>

Send(c, r) ==
  /\ Known(c) /\ c \notin closed
  /\ r \notin Range(sent[c])
  /\ FoldFunction(LAMBDA rs, n : Len(rs) + n, 0, sent) < MaxRequests
  /\ sent' = [sent EXCEPT ![c] = Append(@, r)]
  /\ wire' = [wire EXCEPT ![c] = @ \o Serialize(r)]
  /\ UNCHANGED <<pending, closed, server>>

Close(c) ==
  /\ Known(c) /\ c \notin closed
  /\ closed' = closed \cup {c}
  /\ UNCHANGED <<sent, wire, pending, server>>

-----------------------------------------------------------------------------
(***************************************************************************)
(* One turn of the loop of Server::run: poll, accept one connection, the   *)
(* work of a second, then handleClient for each index.                     *)
(***************************************************************************)

\* Mutant: a connection the program has closed is not read any more.
HungUpIsSkipped(c) == wire[c] # <<>> /\ c \notin closed

\* What poll reports for a connection: bytes to read, or the end of them.
Readable(c) == wire[c] # <<>> \/ c \in closed

\* Mutant: a connection is added although accept has failed.
FailedArrivals == {<<>>, <<None>>}

\* accept takes one of the connections that wait; pushed to both lists at once.
Arrivals == IF pending = {} THEN {<<>>} ELSE {<<c>> : c \in pending}

\* addMessageToBuffer overwrites the type that Parser::parse may just have
\* stored there.  secondElapsed gives every client a PING.
AddMessages(told) ==
  /\ message' = [c \in Client |-> IF c \in told THEN Reply ELSE message[c]]
  /\ interfered' = (interfered \/ reading \in told)

\* What is done for c may address others too.  It leaves a trace only with the
\* client whose request the Parser has begun: a type that is yet to come
\* overwrites it in turn.
Audience(c) == SUBSET ({reading} \ {None, c})

Poll ==
  /\ cursor = 0 /\ ~garbled
  /\ \E new \in Arrivals, second \in BOOLEAN :
       /\ new # <<>> \/ second \/ \E c \in Range(clients) : Readable(c)
       /\ clients' = clients \o new
       /\ pfds' = [i \in DOMAIN clients' |->
                     IF i \in DOMAIN clients
                     THEN [fd |-> pfds[i].fd, revents |-> Readable(pfds[i].fd)]
                     ELSE [fd |-> clients'[i], revents |-> FALSE]]
       /\ pending' = pending \ Range(new)
       /\ AddMessages(IF second THEN Range(clients') ELSE {})
  /\ cursor' = 1
  /\ UNCHANGED <<sent, wire, closed, receivingBuffer, parser, handled, reading>>

\* Nothing was reported for this connection.
PassOver ==
  /\ cursor \in DOMAIN clients /\ ~garbled
  /\ ~pfds[cursor].revents
  /\ cursor' = cursor + 1
  /\ UNCHANGED <<program, clients, pfds, receivingBuffer, message, parser,
                 handled, reading, interfered>>

EndOfLoop ==
  /\ cursor > Len(clients)
  /\ cursor' = 0
  /\ UNCHANGED <<program, clients, pfds, receivingBuffer, message, parser,
                 handled, reading, interfered>>

\* Mutant: the last entry of the poll set is erased instead of the client's.
ErasesLastEntry ==
  LET c == clients[cursor]
  IN /\ cursor \in DOMAIN clients /\ ~garbled
     /\ pfds[cursor].revents /\ wire[c] = <<>>
     /\ clients' = RemoveAt(clients, cursor)
     /\ pfds' = Front(pfds)
     /\ cursor' = cursor + 1
     /\ \E told \in Audience(c) : AddMessages(told)
     /\ UNCHANGED <<program, receivingBuffer, parser, handled, reading>>

(***************************************************************************)
(* read returned 0: the player leaves the room, whose members are told.    *)
(* The connection that moves to this index is passed over in this turn.    *)
(* The Parser keeps its state.                                             *)
(***************************************************************************)
EraseClient ==
  LET c == clients[cursor]
  IN /\ cursor \in DOMAIN clients /\ ~garbled
     /\ pfds[cursor].revents /\ wire[c] = <<>>
     /\ clients' = RemoveAt(clients, cursor)
     /\ pfds' = RemoveAt(pfds, cursor)
     /\ cursor' = cursor + 1
     /\ \E told \in Audience(c) : AddMessages(told)
     /\ UNCHANGED <<program, receivingBuffer, parser, handled, reading>>

-----------------------------------------------------------------------------
(***************************************************************************)
(* Parser::parse and the loop around it, part by part.  "s" is what they   *)
(* work on; "rest" are the bytes that do not suffice yet.                  *)
(***************************************************************************)

BytesNeeded(s) ==
  IF s.next = "payload" THEN PayloadSize[s.expected] ELSE [type |-> 1, length |-> 4][s.next]

BytesIn(parts) ==
  LET sum[i \in 0..Len(parts)] == IF i = 0 THEN 0 ELSE sum[i - 1] + Bytes(parts[i])
  IN sum[Len(parts)]

\* The request is complete: handleMessage, whose answer overwrites the type.
Complete(s, r) ==
  [s EXCEPT !.next = "type", !.expected = None, !.type = Reply,
            !.handled = Append(@, [type |-> s.type, payload |-> r])]

\* Mutant: the state READ_TYPE is not set again after a payload.
StaysInPayload(s, p) ==
  LET taken ==
        [type |-> [s EXCEPT !.next = "length", !.type = p.of],
         length |-> IF PayloadSize[p.of] = 0
                    THEN Complete(s, p.of)
                    ELSE [s EXCEPT !.next = "payload", !.expected = p.of],
         payload |-> [Complete(s, p.of) EXCEPT !.next = "payload", !.expected = p.of]]
  IN taken[p.part]

TakePart(s, p) ==
  LET taken ==
        [type |-> [s EXCEPT !.next = "length", !.type = p.of],
         length |-> IF PayloadSize[p.of] = 0
                    THEN Complete(s, p.of)
                    ELSE [s EXCEPT !.next = "payload", !.expected = p.of],
         payload |-> Complete(s, p.of)]
  IN taken[p.part]

\* Enough bytes are taken for what the Parser waits for, whatever they are.
ParsePart(s, p) ==
  LET buffer == Append(s.rest, p)
  IN IF s.garbled THEN s
     ELSE IF BytesIn(buffer) < BytesNeeded(s) THEN [s EXCEPT !.rest = buffer]
     ELSE IF buffer = <<p>> /\ p.part = s.next THEN TakePart(s, p)
     ELSE [s EXCEPT !.garbled = TRUE]

Unparsed(c) ==
  [next |-> nextState, expected |-> expected, type |-> message[c],
   handled |-> handled[c], rest |-> <<>>, garbled |-> FALSE]

Parsed(c, buffer) ==
  LET after[i \in 0..Len(buffer)] ==
        IF i = 0 THEN Unparsed(c) ELSE ParsePart(after[i - 1], buffer[i])
  IN after[Len(buffer)]

ReadClient ==
  LET c == clients[cursor]
  IN /\ cursor \in DOMAIN clients /\ ~garbled
     /\ pfds[cursor].revents
     /\ \E k \in 1..Len(wire[c]) :
          LET s == Parsed(c, receivingBuffer[c] \o SubSeq(wire[c], 1, k))
          IN /\ wire' = [wire EXCEPT ![c] = SubSeq(@, k + 1, Len(@))]
             /\ receivingBuffer' = [receivingBuffer EXCEPT ![c] = s.rest]
             /\ \E told \in IF s.handled = handled[c] THEN {{}} ELSE Audience(c) :
                  message' = [d \in Client |-> IF d = c THEN s.type
                                               ELSE IF d \in told THEN Reply
                                               ELSE message[d]]
             /\ nextState' = s.next /\ expected' = s.expected
             /\ garbled' = s.garbled
             /\ handled' = [handled EXCEPT ![c] = s.handled]
             /\ reading' = IF s.next = "type" THEN None
                           ELSE IF reading = None THEN c ELSE reading
             /\ interfered' = (interfered \/ reading \notin {None, c})
     /\ cursor' = cursor + 1
     /\ UNCHANGED <<sent, pending, closed, clients, pfds>>

Loop == Poll \/ PassOver \/ EraseClient \/ ReadClient \/ EndOfLoop

Next == \/ Loop
        \/ \E c \in Client : Connect(c) \/ Close(c) \/ \E r \in Request : Send(c, r)

\* The server's thread does nothing but run the loop.
Spec == Init /\ [][Next]_vars /\ WF_vars(Loop)

-----------------------------------------------------------------------------

\* Every variable has its type (Client.h, Server.h, Parser.h).
TypeOK ==
  LET Parts == [of : Request, part : {"type", "length", "payload"}]
  IN /\ sent \in [Client -> Seq(Request)]
     /\ wire \in [Client -> Seq(Parts)]
     /\ pending \subseteq Client /\ closed \subseteq Client
     /\ clients \in Seq(Client)
     /\ pfds \in Seq([fd : Client, revents : BOOLEAN])
     /\ cursor \in 0..(Len(clients) + 2)
     /\ receivingBuffer \in [Client -> Seq(Parts)]
     /\ message \in [Client -> Request \cup {Reply}]
     /\ nextState \in {"type", "length", "payload"}
     /\ expected \in Request \cup {None}
     /\ {garbled, interfered} \subseteq BOOLEAN
     /\ handled \in [Client -> Seq([type : Request \cup {Reply}, payload : Request])]
     /\ reading \in Client \cup {None}

\* Entry i of the poll set is client i - 2, though the two lists are changed in
\* the middle of the loop over them: no client's events are taken for another's
\* (Server.cpp:116-117, 126, 139-140, 374-382).
PollSetMatchesClients ==
  /\ Len(pfds) = Len(clients)
  /\ \A i \in DOMAIN clients : pfds[i].fd = clients[i]

AsSent(rs) == [i \in DOMAIN rs |-> [type |-> rs[i], payload |-> rs[i]]]

\* Each client's requests are handled in order, once, with the type and payload
\* they were sent with, however the network cuts them, unless something came
\* between two parts of one: another client's bytes, or a message for its sender
\* (Parser.cpp:10-54, Server.cpp:127-154, Client.cpp:24-26).
OnlyInterferenceMisreads ==
  ~interfered => /\ ~garbled
                 /\ \A c \in Client : IsPrefix(handled[c], AsSent(sent[c]))

\* A request that was sent is handled, also of a client that is passed over
\* because another was erased, unless something interfered (Server.cpp:400-403).
RequestsAreHandled ==
  \A c \in Client, r \in Request :
    r \in Range(sent[c]) ~> (interfered \/ \E h \in Range(handled[c]) : h.payload = r)
=============================================================================
