------------------------------- MODULE Outbox -------------------------------
(***************************************************************************)
(* The way of a message from a handler of the server to the client's       *)
(* program: Client::sendingBuffer, the socket, and TcpClient with its      *)
(* Parser, over any number of connections of the program.                  *)
(*                                                                         *)
(* A message is two pieces: the byte of its type, and its body, which is   *)
(* the length and the payload.  A write or a read may end between any two  *)
(* pieces; one that ends inside a body breaks what one that ends before it *)
(* breaks.  The buffers hold pieces, not bytes.                            *)
(***************************************************************************)
EXTENDS Integers, SequencesExt

CONSTANTS
  Message, \* the messages given to one connection, each one once
  LoginOK, \* what a message is taken for when its type was lost: type 0
  None     \* the Parser is between two messages

ASSUME OutboxAssumption == {LoginOK, None} \cap Message = {} /\ LoginOK # None

VARIABLES
  added,         \* history: the messages given to this connection
  overtaken,     \* history: <<m, n>>: m was put in front of n in the buffer
  sendingBuffer, \* Client::sendingBuffer
  wire,          \* written and not yet parsed
  expecting,     \* the message whose type the Parser has taken, or None
  typed,         \* Message::type of this onReadyRead is that message's
  garbled,       \* the Parser has taken a piece for what it is not
  received,      \* history: the messages onReadyRead has handled
  hurt           \* history: a message of this connection was cut

history == <<added, overtaken, hurt>>
parser  == <<expecting, typed, garbled>>
vars    == <<history, sendingBuffer, wire, parser, received>>

TypeOf(m) == [of |-> m, part |-> "type"]
Body(m)   == [of |-> m, part |-> "body"]

Serialize(m) == <<TypeOf(m), Body(m)>>

Init ==
  /\ added = <<>> /\ overtaken = {} /\ hurt = FALSE
  /\ sendingBuffer = <<>> /\ wire = <<>>
  /\ expecting = None /\ typed = FALSE /\ garbled = FALSE
  /\ received = <<>>

-----------------------------------------------------------------------------
(***************************************************************************)
(* The server.                                                             *)
(***************************************************************************)

\* A write has taken the type of a message and left its body in the buffer.
Split == sendingBuffer # <<>> /\ Head(sendingBuffer).part = "body"

\* Mutant: the message is put behind the others.
AppendsMessage(m) ==
  /\ m \notin Range(added)
  /\ sendingBuffer' = sendingBuffer \o Serialize(m)
  /\ added' = Append(added, m)
  /\ overtaken' = overtaken \cup {<<m, p.of>> : p \in Range(sendingBuffer)}
  /\ hurt' = (hurt \/ Split)
  /\ UNCHANGED <<wire, parser, received>>

\* The message is inserted in front of what the buffer already holds.
AddMessageToBuffer(m) ==
  /\ m \notin Range(added)
  /\ sendingBuffer' = Serialize(m) \o sendingBuffer
  /\ added' = Append(added, m)
  /\ overtaken' = overtaken \cup {<<m, p.of>> : p \in Range(sendingBuffer)}
  /\ hurt' = (hurt \/ Split)
  /\ UNCHANGED <<wire, parser, received>>

\* Mutant: what was written is not removed from the buffer.
WritesTwice ==
  \E k \in 1..Len(sendingBuffer) :
    /\ wire' = wire \o SubSeq(sendingBuffer, 1, k)
    /\ UNCHANGED <<sendingBuffer, history, parser, received>>

\* MSG_SIZE bytes at most, and as many of them as the socket takes.
SendBufferData ==
  \E k \in 1..Len(sendingBuffer) :
    /\ wire' = wire \o SubSeq(sendingBuffer, 1, k)
    /\ sendingBuffer' = SubSeq(sendingBuffer, k + 1, Len(sendingBuffer))
    /\ UNCHANGED <<history, parser, received>>

-----------------------------------------------------------------------------
(***************************************************************************)
(* The player's program: Parser::parse and the loop of onReadyRead around  *)
(* it.  Whatever stands where a type should be is taken for one, and what  *)
(* comes next for its body.                                                *)
(***************************************************************************)

Take(piece) ==
  /\ wire # <<>> /\ Head(wire) = piece /\ ~garbled
  /\ wire' = Tail(wire)
  /\ UNCHANGED <<history, sendingBuffer>>

ParseType ==
  \E m \in Message :
    /\ expecting = None /\ Take(TypeOf(m))
    /\ expecting' = m /\ typed' = TRUE
    /\ UNCHANGED <<garbled, received>>

\* Mutant: the Parser stays in READ_PAYLOAD after a payload.
ForgetsNextState ==
  /\ expecting # None /\ Take(Body(expecting))
  /\ received' = Append(received, IF typed THEN expecting ELSE LoginOK)
  /\ UNCHANGED parser

\* Each onReadyRead makes a Message of its own, the type of which is 0 until the
\* Parser stores one: a body whose type an earlier read took is a LOGIN_OK.
ParseBody ==
  /\ expecting # None /\ Take(Body(expecting))
  /\ received' = Append(received, IF typed THEN expecting ELSE LoginOK)
  /\ expecting' = None /\ typed' = FALSE
  /\ UNCHANGED garbled

ParseGarbage ==
  \E m \in Message :
    /\ \/ expecting = None /\ Take(Body(m))
       \/ expecting # None /\ (Take(TypeOf(m)) \/ (m # expecting /\ Take(Body(m))))
    /\ garbled' = TRUE
    /\ UNCHANGED <<expecting, typed, received>>

Parse == ParseType \/ ParseBody \/ ParseGarbage

\* The bytes of this read are used up in the middle of a message.
ReadEnds ==
  /\ typed
  /\ typed' = FALSE
  /\ hurt' = TRUE
  /\ UNCHANGED <<added, overtaken, sendingBuffer, wire, expecting, garbled, received>>

(***************************************************************************)
(* The connection ends, and the program makes a new one.  TcpClient keeps  *)
(* its buffer and its Parser, unless the program was started again.        *)
(***************************************************************************)
Reconnect ==
  /\ added' = <<>> /\ overtaken' = {} /\ received' = <<>>
  /\ sendingBuffer' = <<>> /\ wire' = <<>>
  /\ typed' = FALSE
  /\ \/ UNCHANGED <<expecting, garbled>>
     \/ expecting' = None /\ garbled' = FALSE
  /\ hurt' = (expecting' # None \/ garbled')

Next == \/ SendBufferData \/ Parse \/ ReadEnds \/ Reconnect
        \/ \E m \in Message : AddMessageToBuffer(m)

(***************************************************************************)
(* A buffer with something in it makes Server::run poll for POLLOUT, and   *)
(* the event loop of the player's program reads what arrives.              *)
(***************************************************************************)
Spec == Init /\ [][Next]_vars /\ WF_vars(SendBufferData) /\ WF_vars(Parse)

-----------------------------------------------------------------------------

InTransit == wire \o sendingBuffer

\* Every variable has its type, and no piece is ever in two places or written
\* twice (Client.h:23, Parser.h:9-14, Server.cpp:422-426).
TypeOK ==
  LET Piece == [of : Message, part : {"type", "body"}]
  IN /\ added \in Seq(Message) /\ overtaken \subseteq Message \X Message
     /\ sendingBuffer \in Seq(Piece) /\ wire \in Seq(Piece)
     /\ expecting \in Message \cup {None}
     /\ {typed, garbled, hurt} \subseteq BOOLEAN
     /\ received \in Seq(Message \cup {LoginOK})
     /\ IsInjective(InTransit)

Handled(m) == m \in Range(received)
Before(m, n) == \E i, j \in DOMAIN received : i < j /\ received[i] = m /\ received[j] = n

\* Of two messages the older is handled first, unless the newer was added before
\* the older was written: then the newer is.  The scenes rely on it, as a client
\* that rejoins must handle ROOM_OK before GAME_STARTED (Client.cpp:29,
\* Server.cpp:374-381, Room.cpp:239, Server.cpp:260).
NewestInBufferFirst ==
  ~hurt =>
    \A i, j \in DOMAIN added : i < j =>
      LET old == added[i]
          new == added[j]
      IN IF <<new, old>> \in overtaken THEN Handled(old) => Before(new, old)
                                       ELSE Handled(new) => Before(old, new)

\* Each message arrives, whole and once, unless one is cut: by the end of a read,
\* by a message added after a write that ended in another, or by the end of the
\* connection before, for a program that goes on (TcpClient.cpp:56-62, 155,
\* Server.cpp:407-429).
Pending == {m \in Message : Body(m) \in Range(InTransit)}
Channel == INSTANCE MessageDelivery WITH pending <- Pending, broken <- hurt
ImplementsDelivery == Channel!Spec

\* MessageType.h:25: "LOGIN_OK = 0,            // *empty*", and other payloads for
\* other types: what the client handles has the type it was sent with.
PayloadsFit == LoginOK \notin Range(received)
=============================================================================
