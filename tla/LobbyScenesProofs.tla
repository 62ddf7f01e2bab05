------------------------- MODULE LobbyScenesProofs --------------------------
(***************************************************************************)
(* Proofs about LobbyScenes.                                               *)
(*                                                                         *)
(* Whatever the players do with their programs, the server they are        *)
(* composed with takes steps of HangmanServer only: what is proved of      *)
(* HangmanServer for any order of requests holds in the composition.       *)
(*                                                                         *)
(* The scene a program shows matches the state of its client, by an        *)
(* invariant (LInv) of what lies between the two: the order of the         *)
(* requests not handled yet (RequestsFollow), the answers under way        *)
(* (ScenesFit), and that a client has one seat at most (SeatInv).          *)
(*                                                                         *)
(* What a program knows of its room is true, by a second invariant (NInv)  *)
(* on top: the newest list under way, or the list read last, names who is  *)
(* in the room (ListKnown), and the owner of the room is the player who    *)
(* holds it to be his or has word of it under way (OwnerKnown).            *)
(*                                                                         *)
(* A program shows a round exactly while one runs, and asks the server for *)
(* nothing its player has no right to, by a third invariant (RInv): who    *)
(* plays in the rounds that run (Rounds), the right to what has been asked *)
(* (AskRight), and the word of a round's start or end that is under way    *)
(* (RoundFits).                                                            *)
(***************************************************************************)
EXTENDS LobbyScenes, SequenceLemmas, FiniteSetTheorems

Request ==
  [type : {"LOGIN"}, arg : Player] \cup [type : {"JOIN_ROOM"}, arg : Server!RoomId]
    \cup [type : {"GUESS"}, arg : Letter]
    \cup [type : {"CREATE_ROOM", "START_GAME", "LEAVE_ROOM"}, arg : {0}]

\* What has been sent to the server has the argument its type calls for, and a
\* program's connection is one of the connections.
RequestsFit ==
  /\ requests \in [Client -> Seq(Request)]
  /\ conn \in [Player -> Client \cup {NoClient}]

-----------------------------------------------------------------------------

LEMMA RequestFacts ==
  ASSUME NEW q \in Request
  PROVE  /\ q.type = "LOGIN" => q.arg \in Player
         /\ q.type = "JOIN_ROOM" => q.arg \in Server!RoomId
         /\ q.type = "GUESS" => q.arg \in Letter
BY DEF Request

LEMMA HeadOfRequests ==
  ASSUME RequestsFit, NEW c \in Client, requests[c] # <<>>
  PROVE  Head(requests[c]) \in Request /\ Tail(requests[c]) \in Seq(Request)
BY DEF RequestsFit

LEMMA SameServer ==
  ASSUME UNCHANGED server
  PROVE  UNCHANGED Server!vars
BY DEF server, Server!vars, Server!clientVars, Server!seatVars, Server!roundVars

\* Every handler of the composition is a handler of HangmanServer, or changes
\* nothing of the server.
LEMMA ServerStep ==
  ASSUME RequestsFit, ServerNext
  PROVE  [Server!Next]_Server!vars
<1>1. ASSUME NEW c \in Client, Login(c) PROVE Server!Next \/ UNCHANGED server
  <2>1. Handles(c, "LOGIN")
    BY <1>1 DEF Login
  <2>2. Head(requests[c]).arg \in Player
    BY <2>1, HeadOfRequests, RequestFacts DEF Handles
  <2> QED BY <1>1, <2>2 DEF Login, Server!Next
<1>2. ASSUME NEW c \in Client, CreateRoom(c) PROVE Server!Next
  BY <1>2 DEF CreateRoom, Server!Next
<1>3. ASSUME NEW c \in Client, JoinRoom(c) PROVE Server!Next \/ UNCHANGED server
  <2>1. Handles(c, "JOIN_ROOM")
    BY <1>3 DEF JoinRoom
  <2>2. Head(requests[c]).arg \in Server!RoomId
    BY <2>1, HeadOfRequests, RequestFacts DEF Handles
  <2> QED BY <1>3, <2>2 DEF JoinRoom, Server!Next
<1>4. ASSUME NEW c \in Client, LeaveRoom(c) PROVE Server!Next \/ UNCHANGED server
  BY <1>4 DEF LeaveRoom, Server!Next
<1>5. ASSUME NEW c \in Client, StartGame(c) PROVE Server!Next \/ UNCHANGED server
  BY <1>5 DEF StartGame, Server!Next
<1>6. ASSUME NEW c \in Client, Guess(c) PROVE Server!Next \/ UNCHANGED server
  <2>1. Handles(c, "GUESS")
    BY <1>6 DEF Guess
  <2>2. Head(requests[c]).arg \in Letter
    BY <2>1, HeadOfRequests, RequestFacts DEF Handles
  <2> QED BY <1>6, <2>2 DEF Guess, Server!Next
<1>7. ASSUME NEW c \in Client, Disconnect(c) PROVE Server!Next
  BY <1>7 DEF Disconnect, Server!Next
<1>8. ASSUME NEW due \in SUBSET Server!RoomId, SecondElapsed(due) PROVE Server!Next
  BY <1>8 DEF SecondElapsed, Server!Next
<1> QED
  BY <1>1, <1>2, <1>3, <1>4, <1>5, <1>6, <1>7, <1>8, SameServer DEF ServerNext

\* A program touches the server by a new connection only.
LEMMA ProgramStep ==
  ASSUME NEW p \in Player, ProgramNext(p)
  PROVE  [Server!Next]_Server!vars
<1>1. ASSUME NEW c \in Client, Connected(p, c) PROVE Server!Next
  BY <1>1 DEF Connected, Server!Next
<1>2. CASE ConnectFails(p) \/ ConnectionTimedOut(p) \/ LoseConnection(p)
  BY <1>2, SameServer DEF ConnectFails, ConnectionTimedOut, LoseConnection
<1>3. CASE ReadyRead(p) \/ LeaveGame(p) \/ CloseResultWindow(p) \/ RestartProgram(p)
  BY <1>3, SameServer DEF ReadyRead, LeaveGame, CloseResultWindow, RestartProgram
<1>4. CASE ConnectButtonHit(p) \/ LeaveRoomButtonHit(p) \/ \E l \in Letter : LetterButtonHit(p, l)
  BY <1>4, SameServer DEF ConnectButtonHit, LeaveRoomButtonHit, LetterButtonHit
<1>5. CASE \/ LoginButtonHit(p) \/ CreateRoomButtonHit(p) \/ StartGameButtonHit(p)
           \/ \E r \in Server!RoomId : JoinRoomButtonHit(p, r)
  BY <1>5, SameServer
     DEF LoginButtonHit, CreateRoomButtonHit, StartGameButtonHit, JoinRoomButtonHit, Ask
<1> QED BY <1>1, <1>2, <1>3, <1>4, <1>5 DEF ProgramNext

-----------------------------------------------------------------------------
(***************************************************************************)
(* RequestsFit is inductive.                                               *)
(***************************************************************************)

LEMMA InitRequestsFit == Init => RequestsFit
BY DEF Init, RequestsFit

\* A request with the right argument may be sent, on a connection or on none.
LEMMA SendFits ==
  ASSUME RequestsFit, NEW p \in Player, NEW type, NEW arg,
         [type |-> type, arg |-> arg] \in Request, Send(p, type, arg)
  PROVE  requests' \in [Client -> Seq(Request)]
<1>1. CASE conn[p] = NoClient
  BY <1>1 DEF Send, network, RequestsFit
<1>2. CASE conn[p] # NoClient
  <2>1. conn[p] \in Client
    BY <1>2 DEF RequestsFit
  <2>2. Append(requests[conn[p]], [type |-> type, arg |-> arg]) \in Seq(Request)
    BY <2>1, AppendRange DEF RequestsFit
  <2> QED BY <1>2, <2>1, <2>2 DEF Send, RequestsFit
<1> QED BY <1>1, <1>2

LEMMA AskFits ==
  ASSUME RequestsFit, NEW p \in Player, NEW type, NEW arg,
         [type |-> type, arg |-> arg] \in Request, Ask(p, type, arg)
  PROVE  RequestsFit'
BY SendFits DEF Ask, RequestsFit

\* What is cut off with a connection is the end of a list.
LEMMA HangsFits ==
  ASSUME RequestsFit, NEW p \in Player, Hangs(p)
  PROVE  RequestsFit'
<1>1. conn' = [conn EXCEPT ![p] = NoClient]
  BY DEF Hangs
<1>2. requests' \in [Client -> Seq(Request)]
  <2>1. CASE conn[p] = NoClient
    BY <2>1 DEF Hangs, network, RequestsFit
  <2>2. CASE conn[p] # NoClient
    <3>1. conn[p] \in Client /\ requests[conn[p]] \in Seq(Request)
      BY <2>2 DEF RequestsFit
    <3>2. PICK k \in 0..Len(requests[conn[p]]) :
            requests' = [requests EXCEPT ![conn[p]] = SubSeq(@, 1, k)]
      BY <2>2 DEF Hangs
    <3>3. SubSeq(requests[conn[p]], 1, k) \in Seq(Request)
      BY <3>1
    <3> QED BY <3>1, <3>2, <3>3 DEF RequestsFit
  <2> QED BY <2>1, <2>2
<1> QED BY <1>1, <1>2 DEF RequestsFit

LEMMA HandlesFits ==
  ASSUME RequestsFit, NEW c \in Client, NEW type, Handles(c, type)
  PROVE  RequestsFit'
<1>1. requests' = [requests EXCEPT ![c] = Tail(@)] /\ conn' = conn
  BY DEF Handles, program
<1>2. Tail(requests[c]) \in Seq(Request)
  BY HeadOfRequests DEF Handles
<1> QED BY <1>1, <1>2 DEF RequestsFit

LEMMA ServerFits ==
  ASSUME RequestsFit, ServerNext
  PROVE  RequestsFit'
<1>1. ASSUME NEW c \in Client, Disconnect(c) PROVE RequestsFit'
  BY <1>1 DEF Disconnect, program, RequestsFit
<1>2. ASSUME NEW due, SecondElapsed(due) PROVE RequestsFit'
  BY <1>2 DEF SecondElapsed, program, RequestsFit
<1>3. ASSUME NEW c \in Client,
             \/ Login(c) \/ CreateRoom(c) \/ JoinRoom(c) \/ LeaveRoom(c)
             \/ StartGame(c) \/ Guess(c)
      PROVE  RequestsFit'
  BY <1>3, HandlesFits DEF Login, CreateRoom, JoinRoom, LeaveRoom, StartGame, Guess
<1> QED BY <1>1, <1>2, <1>3 DEF ServerNext

LEMMA ProgramFits ==
  ASSUME RequestsFit, NEW p \in Player, ProgramNext(p)
  PROVE  RequestsFit'
<1>1. ASSUME NEW c \in Client, Connected(p, c) PROVE RequestsFit'
  BY <1>1 DEF Connected, RequestsFit
<1>2. CASE \/ ConnectFails(p) \/ ConnectionTimedOut(p) \/ ConnectButtonHit(p)
           \/ LeaveGame(p) \/ CloseResultWindow(p)
  BY <1>2 DEF ConnectFails, ConnectionTimedOut, ConnectButtonHit, LeaveGame, CloseResultWindow,
              network, RequestsFit
<1>3. CASE ReadyRead(p)
  BY <1>3 DEF ReadyRead, RequestsFit
<1>4. CASE LoseConnection(p) \/ RestartProgram(p)
  BY <1>4, HangsFits DEF LoseConnection, RestartProgram
<1>5. CASE LoginButtonHit(p)
  <2>1. [type |-> "LOGIN", arg |-> p] \in Request
    BY DEF Request
  <2> QED BY <1>5, <2>1, AskFits DEF LoginButtonHit
<1>6. CASE CreateRoomButtonHit(p)
  <2>1. [type |-> "CREATE_ROOM", arg |-> 0] \in Request
    BY DEF Request
  <2> QED BY <1>6, <2>1, AskFits DEF CreateRoomButtonHit
<1>7. CASE StartGameButtonHit(p)
  <2>1. [type |-> "START_GAME", arg |-> 0] \in Request
    BY DEF Request
  <2> QED BY <1>7, <2>1, AskFits DEF StartGameButtonHit
<1>8. ASSUME NEW r \in Server!RoomId, JoinRoomButtonHit(p, r) PROVE RequestsFit'
  <2>1. [type |-> "JOIN_ROOM", arg |-> r] \in Request
    BY DEF Request
  <2> QED BY <1>8, <2>1, AskFits DEF JoinRoomButtonHit
<1>9. CASE LeaveRoomButtonHit(p)
  <2>1. [type |-> "LEAVE_ROOM", arg |-> 0] \in Request
    BY DEF Request
  <2> QED BY <1>9, <2>1, SendFits DEF LeaveRoomButtonHit, RequestsFit
<1>10. ASSUME NEW l \in Letter, LetterButtonHit(p, l) PROVE RequestsFit'
  <2>1. [type |-> "GUESS", arg |-> l] \in Request
    BY DEF Request
  <2>2. requests' \in [Client -> Seq(Request)]
    BY <1>10, <2>1, SendFits DEF LetterButtonHit
  <2> QED BY <1>10, <2>2 DEF LetterButtonHit, program, RequestsFit
<1> QED
  BY <1>1, <1>2, <1>3, <1>4, <1>5, <1>6, <1>7, <1>8, <1>9, <1>10 DEF ProgramNext

LEMMA NextRequestsFit == RequestsFit /\ [Next]_vars => RequestsFit'
<1>1. CASE UNCHANGED vars
  BY <1>1 DEF vars, network, program, RequestsFit
<1> QED BY <1>1, ServerFits, ProgramFits DEF Next

-----------------------------------------------------------------------------

\* The programs and the server together do nothing to the server's state that
\* HangmanServer does not do for some order of requests (Server.cpp:157-334).
THEOREM ImplementsServer == Spec => Server!Spec
<1>1. Init => Server!Init
  BY DEF Init
<1>2. RequestsFit /\ [Next]_vars => [Server!Next]_Server!vars
  <2> SUFFICES ASSUME RequestsFit, [Next]_vars PROVE [Server!Next]_Server!vars
    OBVIOUS
  <2>1. CASE UNCHANGED vars
    BY <2>1, SameServer DEF vars
  <2> QED BY <2>1, ServerStep, ProgramStep DEF Next
<1> QED BY <1>1, <1>2, InitRequestsFit, NextRequestsFit, PTL DEF Spec, Server!Spec

-----------------------------------------------------------------------------
(***************************************************************************)
(* The seats.  HangmanServer lets a client that asks twice take two seats; *)
(* here nobody has two, because of the order in which the scenes ask.      *)
(***************************************************************************)

RoomId == Server!RoomId
NoRoom == Server!NoRoom

LEMMA RoomFacts == RoomId = 1..MaxRooms /\ NoRoom = 0 /\ NoRoom \notin RoomId
BY LobbyAssumption DEF RoomId, NoRoom, Server!RoomId, Server!NoRoom

\* No entry twice.
Self == [c \in Client |-> c]
NoneTwice(s) == DistinctBy(s, Self)

SeatsTyped ==
  /\ clients \subseteq Client /\ nickname \in [Client -> Player \cup {NoNick}]
  /\ room \in [Client -> RoomId \cup {NoRoom}]
  /\ rooms \subseteq RoomId /\ roomCounter \in Nat \ {0}
  /\ roomClients \in [RoomId -> Seq(Client)]

\* A room lists exactly the clients that point to it, each once; they have logged in.
OneSeat ==
  /\ \A r \in RoomId : r \notin rooms => roomClients[r] = <<>>
  /\ \A r \in rooms : r < roomCounter
  /\ \A c \in Client, r \in RoomId : c \in Range(roomClients[r]) <=> room[c] = r
  /\ \A r \in RoomId : NoneTwice(roomClients[r])
  /\ \A c \in Client : room[c] # NoRoom => nickname[c] # NoNick /\ c \in clients

SeatInv == SeatsTyped /\ OneSeat

LEMMA MembersAre == \A r : Server!Members(r) = Range(roomClients[r])
BY DEF Server!Members, Server!Range, Range

LEMMA RemainingAre == \A c : Server!Remaining(c) = RemoveFirst(roomClients[room[c]], c)
BY DEF Server!Remaining, Server!RemoveFirst, RemoveFirst, Server!RemoveAt, RemoveAt,
       Server!SelectInSeq, SelectInSeq, Server!Min, Min

LEMMA InitSeats == ASSUME Server!Init PROVE SeatInv
<1>1. SeatsTyped
  BY RoomFacts DEF Server!Init, SeatsTyped, RoomId, NoRoom
<1>2. \A r \in RoomId : roomClients[r] = <<>>
  BY DEF Server!Init, RoomId
<1>3. \A c \in Client : room[c] = NoRoom
  BY DEF Server!Init, NoRoom
<1>4. \A r \in RoomId : Range(roomClients[r]) = {} /\ NoneTwice(roomClients[r])
  BY <1>2 DEF Range, NoneTwice, DistinctBy
<1> QED BY <1>1, <1>2, <1>3, <1>4, RoomFacts DEF SeatInv, OneSeat, Server!Init

\* A seat and a room pointer are one.
LEMMA SeatedIs ==
  ASSUME SeatInv, NEW c \in Client
  PROVE  Server!Seated(c) <=> room[c] # NoRoom
BY MembersAre DEF SeatInv, SeatsTyped, OneSeat, Server!Seated, NoRoom

LEMMA SeatsUntouched ==
  ASSUME SeatInv, UNCHANGED <<clients, nickname, room, rooms, roomCounter, roomClients>>
  PROVE  SeatInv'
BY DEF SeatInv, SeatsTyped, OneSeat

\* An accepted connection had no seat, and keeps none.
LEMMA AcceptKeepsSeats ==
  ASSUME SeatInv, NEW c \in Client, Server!Accept(c)
  PROVE  /\ SeatInv' /\ room' = room /\ room[c] = NoRoom
         /\ nickname' = [nickname EXCEPT ![c] = NoNick] /\ clients' = clients \cup {c}
<1>1. /\ clients' = clients \cup {c} /\ nickname' = [nickname EXCEPT ![c] = NoNick]
      /\ room' = [room EXCEPT ![c] = NoRoom] /\ c \notin clients
      /\ UNCHANGED <<rooms, roomCounter, roomClients>>
  BY DEF Server!Accept, Server!seatVars, NoRoom
<1>2. room[c] = NoRoom
  BY <1>1 DEF SeatInv, OneSeat
<1>3. room' = room
  BY <1>1, <1>2 DEF SeatInv, SeatsTyped
<1>4. SeatsTyped'
  BY <1>1, <1>3 DEF SeatInv, SeatsTyped
<1>6. OneSeat'
  BY <1>1, <1>2, <1>3 DEF SeatInv, SeatsTyped, OneSeat
<1> QED BY <1>1, <1>2, <1>3, <1>4, <1>6 DEF SeatInv

LEMMA LoginKeepsSeats ==
  ASSUME SeatInv, NEW c \in Client, NEW n \in Player, Server!Login(c, n)
  PROVE  /\ SeatInv' /\ room' = room /\ clients' = clients
         /\ nickname' = [nickname EXCEPT ![c] = n]
<1>1. /\ nickname' = [nickname EXCEPT ![c] = n]
      /\ UNCHANGED <<clients, room, rooms, roomCounter, roomClients>>
  BY DEF Server!Login, Server!seatVars
<1>2. SeatsTyped'
  BY <1>1 DEF SeatInv, SeatsTyped
<1>4. OneSeat'
  BY <1>1, LobbyAssumption DEF SeatInv, SeatsTyped, OneSeat
<1> QED BY <1>1, <1>2, <1>4 DEF SeatInv

\* Whoever had no seat may take one.
LEMMA SeatTaken ==
  ASSUME SeatInv, NEW c \in clients, NEW r \in RoomId, room[c] = NoRoom, nickname[c] # NoNick,
         room' = [room EXCEPT ![c] = r], UNCHANGED <<clients, nickname>>,
         rooms' = rooms \cup {r}, roomCounter' \in Nat \ {0}, \A q \in rooms' : q < roomCounter',
         roomClients' = [roomClients EXCEPT ![r] = Append(roomClients[r], c)]
  PROVE  SeatInv'
<1>1. c \in Client /\ roomClients[r] \in Seq(Client) /\ c \notin Range(roomClients[r])
  BY RoomFacts DEF SeatInv, SeatsTyped, OneSeat
<1>2. /\ Append(roomClients[r], c) \in Seq(Client)
      /\ Range(Append(roomClients[r], c)) = Range(roomClients[r]) \cup {c}
  BY <1>1, AppendRange
<1>3. NoneTwice(Append(roomClients[r], c))
  <2>1. \A x \in Range(roomClients[r]) : Self[x] # Self[c]
    BY <1>1 DEF Self, Range
  <2>2. DistinctBy(roomClients[r], Self)
    BY DEF SeatInv, OneSeat, NoneTwice
  <2> QED BY <1>1, <2>1, <2>2, AppendDistinct DEF NoneTwice
<1>4. SeatsTyped'
  BY <1>1, <1>2 DEF SeatInv, SeatsTyped
<1>5. /\ roomClients'[r] = Append(roomClients[r], c)
      /\ \A q \in RoomId \ {r} : roomClients'[q] = roomClients[q]
      /\ room'[c] = r /\ \A d \in Client \ {c} : room'[d] = room[d]
  BY <1>1 DEF SeatInv, SeatsTyped
<1>6. ASSUME NEW d \in Client, NEW q \in RoomId
      PROVE  d \in Range(roomClients'[q]) <=> room'[d] = q
  <2>1. d \in Range(roomClients[q]) <=> room[d] = q
    BY DEF SeatInv, OneSeat
  <2>2. c \in Client /\ room[c] # q
    BY <1>1, RoomFacts
  <2> QED BY <1>2, <1>5, <2>1, <2>2
<1>7. OneSeat'
  <2>1. \A q \in RoomId : q \notin rooms' => roomClients'[q] = <<>>
    BY <1>5 DEF SeatInv, OneSeat
  <2>2. \A q \in RoomId : NoneTwice(roomClients'[q])
    BY <1>3, <1>5 DEF SeatInv, OneSeat
  <2>3. \A d \in Client : room'[d] # NoRoom => nickname'[d] # NoNick /\ d \in clients'
    BY <1>5 DEF SeatInv, OneSeat
  <2> QED BY <1>6, <2>1, <2>2, <2>3 DEF OneSeat, NoneTwice, DistinctBy
<1> QED BY <1>4, <1>7 DEF SeatInv

LEMMA CreateKeepsSeats ==
  ASSUME SeatInv, NEW c \in Client, Server!CreateRoom(c), room[c] = NoRoom
  PROVE  /\ SeatInv' /\ room' = [room EXCEPT ![c] = roomCounter] /\ roomCounter \in RoomId
         /\ UNCHANGED <<up, clients, nickname>>
<1>1. /\ c \in clients /\ nickname[c] # NoNick /\ roomCounter <= MaxRooms
      /\ room' = [room EXCEPT ![c] = roomCounter] /\ rooms' = rooms \cup {roomCounter}
      /\ roomCounter' = roomCounter + 1
      /\ roomClients' = [roomClients EXCEPT ![roomCounter] = <<c>>]
      /\ UNCHANGED <<up, clients, nickname>>
  BY DEF Server!CreateRoom, Server!MayAskForRoom
<1>2. roomCounter \in RoomId /\ roomCounter' \in Nat \ {0}
  BY <1>1, RoomFacts, LobbyAssumption DEF SeatInv, SeatsTyped
<1>3. \A q \in rooms : q < roomCounter /\ q \in Nat
  BY RoomFacts DEF SeatInv, SeatsTyped, OneSeat
<1>4. roomCounter \notin rooms /\ \A q \in rooms' : q < roomCounter'
  BY <1>1, <1>2, <1>3, RoomFacts
<1>5. roomClients[roomCounter] = <<>>
  BY <1>2, <1>4 DEF SeatInv, OneSeat
<1>6. <<c>> = Append(roomClients[roomCounter], c)
  BY <1>5
<1>7. SeatInv'
  BY <1>1, <1>2, <1>4, <1>6, SeatTaken
<1> QED BY <1>1, <1>2, <1>7

LEMMA JoinKeepsSeats ==
  ASSUME SeatInv, NEW c \in Client, NEW r \in RoomId, room[c] = NoRoom,
         Server!JoinRoom(c, r) \/ Server!RejoinRoom(c, r)
  PROVE  /\ SeatInv' /\ room' = [room EXCEPT ![c] = r] /\ nickname[c] # NoNick
         /\ UNCHANGED <<up, clients, nickname>>
<1>1. /\ c \in clients /\ nickname[c] # NoNick /\ r \in rooms
      /\ room' = [room EXCEPT ![c] = r] /\ UNCHANGED <<up, clients, nickname, rooms, roomCounter>>
      /\ roomClients' = [roomClients EXCEPT ![r] = Append(roomClients[r], c)]
  <2>1. Server!MayJoin(c, r) /\ Server!TakeSeat(c, r)
        /\ UNCHANGED <<up, clients, nickname, rooms, roomCounter>>
    BY DEF Server!JoinRoom, Server!RejoinRoom
  <2> QED BY <2>1 DEF Server!MayJoin, Server!MayAskForRoom, Server!TakeSeat
<1>2. rooms' = rooms \cup {r} /\ roomCounter' \in Nat \ {0} /\ \A q \in rooms' : q < roomCounter'
  BY <1>1 DEF SeatInv, SeatsTyped, OneSeat
<1>3. SeatInv'
  BY <1>1, <1>2, SeatTaken
<1> QED BY <1>1, <1>3

\* Whoever leaves is nowhere on the list, and nobody else is taken off it.
LEMMA RemainingSeats ==
  ASSUME SeatInv, NEW c \in Client, room[c] # NoRoom
  PROVE  /\ room[c] \in RoomId /\ Server!Remaining(c) \in Seq(Client)
         /\ Range(Server!Remaining(c)) = Range(roomClients[room[c]]) \ {c}
         /\ NoneTwice(Server!Remaining(c))
<1>1. /\ room[c] \in RoomId /\ roomClients[room[c]] \in Seq(Client)
      /\ c \in Range(roomClients[room[c]]) /\ NoneTwice(roomClients[room[c]])
  BY DEF SeatInv, SeatsTyped, OneSeat
<1> DEFINE s == roomClients[room[c]]
<1>2. s \in Seq(Client) /\ c \in Range(s) /\ DistinctBy(s, Self)
  BY <1>1 DEF NoneTwice
<1>3. Server!Remaining(c) = RemoveFirst(s, c)
  BY RemainingAre
<1> HIDE DEF s
<1>4. PICK k \in 1..Len(s) : s[k] = c /\ RemoveFirst(s, c) = RemoveAt(s, k)
  BY <1>2, RemoveFirstShape
<1>5. RemoveAt(s, k) \in Seq(Client)
  BY <1>2, RemoveAtShape
<1>6. /\ DistinctBy(RemoveAt(s, k), Self)
      /\ Range(RemoveAt(s, k)) = {x \in Range(s) : Self[x] # Self[s[k]]}
  BY <1>2, RemoveAtDistinct
<1>7. {x \in Range(s) : Self[x] # Self[s[k]]} = Range(s) \ {c}
  <2>1. Range(s) \subseteq Client
    BY <1>2 DEF Range
  <2> QED BY <1>4, <2>1 DEF Self
<1> QED BY <1>1, <1>3, <1>4, <1>5, <1>6, <1>7 DEF NoneTwice, s

LEMMA VacateKeepsSeats ==
  ASSUME SeatInv, NEW c \in Client, Server!Vacate(c), room[c] # NoRoom,
         clients' = clients \/ clients' = clients \ {c}
  PROVE  SeatInv' /\ room' = [room EXCEPT ![c] = NoRoom] /\ UNCHANGED <<up, nickname>>
<1> DEFINE r == room[c]
           rest == Server!Remaining(c)
<1>1. /\ roomClients' = [roomClients EXCEPT ![r] = rest]
      /\ room' = [room EXCEPT ![c] = NoRoom]
      /\ UNCHANGED <<up, nickname, rooms, roomCounter>>
  BY DEF Server!Vacate, NoRoom
<1>2. /\ r \in RoomId /\ rest \in Seq(Client) /\ Range(rest) = Range(roomClients[r]) \ {c}
      /\ NoneTwice(rest)
  BY RemainingSeats
<1>3. r \in rooms
  BY <1>2 DEF SeatInv, OneSeat, Range
<1> HIDE DEF rest
<1>4. SeatsTyped'
  BY <1>1, <1>2 DEF SeatInv, SeatsTyped
<1>5. /\ roomClients'[r] = rest /\ \A q \in RoomId \ {r} : roomClients'[q] = roomClients[q]
      /\ room'[c] = NoRoom /\ \A d \in Client \ {c} : room'[d] = room[d]
  BY <1>1, <1>2 DEF SeatInv, SeatsTyped
<1>6. ASSUME NEW d \in Client, NEW q \in RoomId
      PROVE  d \in Range(roomClients'[q]) <=> room'[d] = q
  <2>1. d \in Range(roomClients[q]) <=> room[d] = q
    BY DEF SeatInv, OneSeat
  <2>2. q # NoRoom
    BY RoomFacts
  <2>3. CASE q = r
    BY <1>2, <1>5, <2>1, <2>2, <2>3
  <2>4. CASE q # r
    BY <1>5, <2>1, <2>2, <2>4
  <2> QED BY <2>3, <2>4
<1>7. OneSeat'
  <2>1. \A q \in RoomId : q \notin rooms' => roomClients'[q] = <<>>
    BY <1>1, <1>3, <1>5 DEF SeatInv, OneSeat
  <2>2. \A q \in RoomId : NoneTwice(roomClients'[q])
    BY <1>2, <1>5 DEF SeatInv, OneSeat
  <2>3. \A d \in Client : room'[d] # NoRoom => nickname'[d] # NoNick /\ d \in clients'
    BY <1>1, <1>5 DEF SeatInv, OneSeat
  <2>4. \A q \in rooms' : q < roomCounter'
    BY <1>1 DEF SeatInv, OneSeat
  <2> QED BY <1>6, <2>1, <2>2, <2>3, <2>4 DEF OneSeat, NoneTwice, DistinctBy
<1> QED BY <1>1, <1>4, <1>7 DEF SeatInv

LEMMA TickKeepsSeats ==
  ASSUME SeatInv, NEW due, Server!Tick(due)
  PROVE  SeatInv' /\ UNCHANGED <<up, clients, nickname, room>>
<1>1. /\ rooms' = {r \in rooms : roomClients[r] # <<>>}
      /\ UNCHANGED <<up, clients, nickname, room, roomCounter, roomClients>>
  BY DEF Server!Tick, Server!RoomsKept, Server!clientVars
<1> QED BY <1>1 DEF SeatInv, SeatsTyped, OneSeat

-----------------------------------------------------------------------------
(***************************************************************************)
(* What the program of a connected player may show, given what is known of *)
(* the connection on the server (nickname n, room r), the requests q that  *)
(* are under way to it and the types T of the messages under way back.     *)
(* waits says whether the player waits for an answer.                      *)
(***************************************************************************)

Asks == {"LOGIN", "CREATE_ROOM", "JOIN_ROOM", "START_GAME", "GUESS", "LEAVE_ROOM"}
RoomAsks == {"CREATE_ROOM", "JOIN_ROOM"}
RoundAsks == {"START_GAME", "GUESS"}
RoomAnswers == {"ROOM_CREATED", "ROOM_OK"}
\* What the server tells a member of a room unasked, or all of them.
Broadcast == {"ROOM_USERS_LIST", "ROOM_OWNERSHIP_TRANSFER", "GAME_STARTED", "RESULT"}

\* LOGIN comes alone and once, a request for a room last and only from who has
\* none or leaves it, everything else from a member of a room before LEAVE_ROOM.
Follow(q, n, r) ==
  \A i \in 1..Len(q) :
    /\ q[i].type \in Asks
    /\ q[i].type = "LOGIN" => n = NoNick /\ Len(q) = 1
    /\ q[i].type \in RoomAsks =>
         /\ n # NoNick /\ i = Len(q)
         /\ IF i = 1 THEN r = NoRoom ELSE q[i - 1].type = "LEAVE_ROOM"
    /\ q[i].type \in RoundAsks \cup {"LEAVE_ROOM"} =>
         n # NoNick /\ r # NoRoom /\ (i # 1 => q[i - 1].type \in RoundAsks)

Asked(q, types) == \E i \in 1..Len(q) : q[i].type \in types

AtLogin(waits, n, r, q, T) ==
  /\ r = NoRoom
  /\ IF n = NoNick THEN T \subseteq {"LOGIN_FAILED"} ELSE T = {"LOGIN_OK"}
  /\ q # <<>> => T = {} /\ n = NoNick
  /\ waits \/ (q = <<>> /\ T = {})

\* The seat of a player in the menu is about to be given up, or news to it.
AtMenu(waits, n, r, q, T) ==
  /\ n # NoNick /\ "LOGIN_OK" \notin T /\ "LOGIN_FAILED" \notin T
  /\ r # NoRoom => Asked(q, {"LEAVE_ROOM"}) \/ T \cap RoomAnswers # {}
  /\ T \cap RoomAnswers # {} => r # NoRoom
  /\ T \cap (RoomAnswers \cup {"ROOM_FAILED"}) # {} => waits /\ q = <<>>
  /\ Asked(q, RoomAsks) => waits

AtRoom(n, r, q, T) ==
  /\ n # NoNick /\ r # NoRoom
  /\ \A i \in 1..Len(q) : q[i].type \in RoundAsks
  /\ T \subseteq Broadcast

Fits(s, waits, n, r, q, T) ==
  \/ s = "login" /\ AtLogin(waits, n, r, q, T)
  \/ s = "menu" /\ AtMenu(waits, n, r, q, T)
  \/ s \in {"lobby", "game"} /\ AtRoom(n, r, q, T)

\* Requests cut off with the connection leave the others in their order.
LEMMA FollowCut ==
  ASSUME NEW q \in Seq(Request), NEW n, NEW r, Follow(q, n, r), NEW k \in 0..Len(q)
  PROVE  Follow(SubSeq(q, 1, k), n, r)
<1> DEFINE t == SubSeq(q, 1, k)
<1>1. Len(t) = k /\ \A i \in 1..k : t[i] = q[i]
  OBVIOUS
<1>2. Len(q) \in Nat
  OBVIOUS
<1> HIDE DEF t
<1>3. Follow(t, n, r)
  <2> SUFFICES ASSUME NEW i \in 1..k
               PROVE  /\ t[i].type \in Asks
                      /\ t[i].type = "LOGIN" => n = NoNick /\ k = 1
                      /\ t[i].type \in RoomAsks =>
                           /\ n # NoNick /\ i = k
                           /\ IF i = 1 THEN r = NoRoom ELSE t[i - 1].type = "LEAVE_ROOM"
                      /\ t[i].type \in RoundAsks \cup {"LEAVE_ROOM"} =>
                           n # NoNick /\ r # NoRoom /\ (i # 1 => t[i - 1].type \in RoundAsks)
    BY <1>1 DEF Follow
  <2>1. i \in 1..Len(q) /\ t[i] = q[i] /\ (i # 1 => t[i - 1] = q[i - 1])
    BY <1>1, <1>2
  <2> QED BY <1>2, <2>1 DEF Follow
<1> QED BY <1>3 DEF t

LEMMA FollowNone == \A n, r : Follow(<<>>, n, r)
BY DEF Follow

\* The server handles a LOGIN or a request for a room when nothing else is under way.
LEMMA HeadAlone ==
  ASSUME NEW q \in Seq(Request), q # <<>>, NEW n, NEW r, Follow(q, n, r),
         Head(q).type \in {"LOGIN"} \cup RoomAsks
  PROVE  /\ Len(q) = 1 /\ Tail(q) = <<>>
         /\ Head(q).type = "LOGIN" => n = NoNick
         /\ Head(q).type \in RoomAsks => n # NoNick /\ r = NoRoom
<1>1. Len(q) \in Nat \ {0} /\ Head(q) = q[1] /\ 1 \in 1..Len(q)
  BY TailShape
<1>2. Len(q) = 1
  BY <1>1 DEF Follow
<1>3. Tail(q) = <<>>
  <2>1. Tail(q) \in Seq(Request) /\ Len(Tail(q)) = 0
    BY <1>2, TailShape
  <2> QED BY <2>1, EmptySeq
<1> QED BY <1>1, <1>2, <1>3 DEF Follow, RoomAsks

\* Whoever leaves may only have asked for the next room.
LEMMA HeadLeaves ==
  ASSUME NEW q \in Seq(Request), q # <<>>, NEW n, NEW r, Follow(q, n, r),
         Head(q).type = "LEAVE_ROOM"
  PROVE  n # NoNick /\ r # NoRoom /\ Follow(Tail(q), n, NoRoom)
<1> DEFINE t == Tail(q)
<1>1. Len(q) \in Nat \ {0} /\ Head(q) = q[1] /\ 1 \in 1..Len(q)
  BY TailShape
<1>2. Len(t) = Len(q) - 1 /\ \A i \in 1..(Len(q) - 1) : t[i] = q[i + 1]
  BY TailShape
<1> HIDE DEF t
<1>3. n # NoNick /\ r # NoRoom
  BY <1>1 DEF Follow
<1>4. ASSUME NEW i \in 1..Len(t)
      PROVE  t[i].type \in RoomAsks /\ i = Len(t) /\ i = 1
  <2>1. 2 \in 1..Len(q) /\ q[2].type \in RoomAsks
    BY <1>1, <1>2 DEF Follow, Asks, RoomAsks, RoundAsks
  <2>2. Len(q) = 2
    BY <2>1 DEF Follow
  <2>3. i = 1 /\ Len(t) = 1 /\ t[1] = q[2]
    BY <1>2, <2>2
  <2> QED BY <2>1, <2>3
<1>5. Follow(t, n, NoRoom)
  BY <1>3, <1>4 DEF Follow, Asks, RoomAsks, RoundAsks
<1> QED BY <1>3, <1>5 DEF t

\* A start or a guess is from a member of a room, and leaves the order as it was.
LEMMA HeadPlays ==
  ASSUME NEW q \in Seq(Request), q # <<>>, NEW n, NEW r, Follow(q, n, r),
         Head(q).type \in RoundAsks
  PROVE  n # NoNick /\ r # NoRoom /\ Follow(Tail(q), n, r)
<1> DEFINE t == Tail(q)
<1>1. Len(q) \in Nat \ {0} /\ Head(q) = q[1] /\ 1 \in 1..Len(q)
  BY TailShape
<1>2. Len(t) = Len(q) - 1 /\ \A i \in 1..(Len(q) - 1) : t[i] = q[i + 1]
  BY TailShape
<1> HIDE DEF t
<1>3. n # NoNick /\ r # NoRoom
  BY <1>1 DEF Follow
<1>4. ASSUME NEW i \in 1..Len(t)
      PROVE  /\ i + 1 \in 1..Len(q) /\ t[i] = q[i + 1] /\ i + 1 # 1
             /\ q[i + 1 - 1] = IF i = 1 THEN Head(q) ELSE t[i - 1]
             /\ i + 1 = Len(q) <=> i = Len(t)
  BY <1>1, <1>2
<1>5. ASSUME NEW i \in 1..Len(t)
      PROVE  /\ t[i].type \in Asks
             /\ t[i].type # "LOGIN"
             /\ t[i].type \in RoomAsks => i = Len(t) /\ i # 1 /\ t[i - 1].type = "LEAVE_ROOM"
             /\ t[i].type \in RoundAsks \cup {"LEAVE_ROOM"} => (i # 1 => t[i - 1].type \in RoundAsks)
  <2>1. Head(q).type # "LEAVE_ROOM"
    BY DEF RoundAsks
  <2>2. i + 1 \in 1..Len(q) /\ t[i] = q[i + 1] /\ i + 1 # 1 /\ (i + 1 = Len(q) => i = Len(t))
        /\ q[i + 1 - 1] = IF i = 1 THEN Head(q) ELSE t[i - 1]
    BY <1>4
  <2>3. /\ q[i + 1].type \in Asks
        /\ q[i + 1].type = "LOGIN" => Len(q) = 1
        /\ q[i + 1].type \in RoomAsks => i + 1 = Len(q) /\ q[i + 1 - 1].type = "LEAVE_ROOM"
        /\ q[i + 1].type \in RoundAsks \cup {"LEAVE_ROOM"} => q[i + 1 - 1].type \in RoundAsks
    BY <2>2 DEF Follow
  <2>4. Len(q) # 1
    BY <1>1, <1>2
  <2> QED BY <2>1, <2>2, <2>3, <2>4
<1>6. Follow(t, n, r)
  BY <1>3, <1>5 DEF Follow
<1> QED BY <1>3, <1>6 DEF t

LEMMA AppendShape ==
  ASSUME NEW q \in Seq(Request), NEW x \in Request, NEW u, u = Append(q, x)
  PROVE  /\ u \in Seq(Request) /\ Len(u) = Len(q) + 1 /\ Len(q) \in Nat
         /\ \A i \in 1..Len(q) : u[i] = q[i]
         /\ u[Len(q) + 1] = x /\ u # <<>>
BY AppendProperties

\* The login scene asks once.
LEMMA AskLogin ==
  ASSUME NEW q \in Seq(Request), NEW x \in Request, x.type = "LOGIN", NEW u, u = Append(q, x),
         NEW n, NEW r, NEW T, AtLogin(FALSE, n, r, q, T)
  PROVE  Follow(u, n, r) /\ AtLogin(TRUE, n, r, u, T)
<1>1. q = <<>> /\ T = {} /\ n = NoNick /\ r = NoRoom
  BY DEF AtLogin
<1>2. Len(u) = 1 /\ u[1] = x
  BY <1>1, AppendShape
<1>3. Follow(u, n, r)
  BY <1>1, <1>2 DEF Follow, Asks, RoomAsks, RoundAsks
<1> QED BY <1>1, <1>3 DEF AtLogin

\* A player in the menu who waits for nothing has no seat, or gives it up with
\* the last request.
LEMMA NobodyAsked ==
  ASSUME NEW q \in Seq(Request), NEW n, NEW r, Follow(q, n, r), NEW T, AtMenu(FALSE, n, r, q, T)
  PROVE  /\ IF q = <<>> THEN r = NoRoom ELSE q[Len(q)].type = "LEAVE_ROOM"
         /\ \A i \in 1..Len(q) : q[i].type \in RoundAsks \cup {"LEAVE_ROOM"}
         /\ T \cap (RoomAnswers \cup {"ROOM_FAILED"}) = {}
<1>1. /\ n # NoNick /\ ~Asked(q, RoomAsks)
      /\ T \cap (RoomAnswers \cup {"ROOM_FAILED"}) = {} /\ T \cap RoomAnswers = {}
      /\ r # NoRoom => Asked(q, {"LEAVE_ROOM"})
  BY DEF AtMenu
<1>2. ASSUME NEW i \in 1..Len(q) PROVE q[i].type \in RoundAsks \cup {"LEAVE_ROOM"} /\ r # NoRoom
  <2>1. q[i].type \in RoundAsks \cup {"LEAVE_ROOM"}
    BY <1>1 DEF Follow, Asked, Asks, RoomAsks, RoundAsks
  <2> QED BY <2>1 DEF Follow
<1>3. CASE q = <<>>
  BY <1>1, <1>2, <1>3 DEF Asked
<1>4. CASE q # <<>>
  <2>1. Len(q) \in Nat \ {0} /\ 1 \in 1..Len(q)
    BY <1>4, TailShape
  <2>2. PICK i \in 1..Len(q) : q[i].type = "LEAVE_ROOM"
    BY <1>1, <1>2, <2>1 DEF Asked
  <2>3. ASSUME i # Len(q) PROVE FALSE
    <3>1. i + 1 \in 1..Len(q) /\ i + 1 # 1 /\ i + 1 - 1 = i
      BY <2>1, <2>3
    <3>2. q[i + 1 - 1].type \in RoundAsks
      BY <1>2, <3>1 DEF Follow
    <3> QED BY <2>2, <3>1, <3>2 DEF RoundAsks
  <2> QED BY <1>1, <1>2, <1>4, <2>2, <2>3
<1> QED BY <1>3, <1>4

\* The menu scene asks for a room only then.
LEMMA AskForRoom ==
  ASSUME NEW q \in Seq(Request), NEW x \in Request, x.type \in RoomAsks,
         NEW u, u = Append(q, x), NEW n, NEW r, Follow(q, n, r), NEW T, AtMenu(FALSE, n, r, q, T)
  PROVE  Follow(u, n, r) /\ AtMenu(TRUE, n, r, u, T)
<1>1. /\ Len(u) = Len(q) + 1 /\ Len(q) \in Nat /\ u[Len(q) + 1] = x /\ u # <<>>
      /\ \A i \in 1..Len(q) : u[i] = q[i]
  BY AppendShape
<1>2. /\ IF q = <<>> THEN r = NoRoom ELSE q[Len(q)].type = "LEAVE_ROOM"
      /\ \A i \in 1..Len(q) : q[i].type \in RoundAsks \cup {"LEAVE_ROOM"}
      /\ T \cap (RoomAnswers \cup {"ROOM_FAILED"}) = {}
  BY NobodyAsked
<1>3. /\ n # NoNick /\ "LOGIN_OK" \notin T /\ "LOGIN_FAILED" \notin T
      /\ r # NoRoom => Asked(q, {"LEAVE_ROOM"}) \/ T \cap RoomAnswers # {}
  BY DEF AtMenu
<1>4. Follow(u, n, r)
  <2>1. ASSUME NEW i \in 1..Len(q)
        PROVE  /\ u[i].type \in RoundAsks \cup {"LEAVE_ROOM"}
               /\ n # NoNick /\ r # NoRoom /\ (i # 1 => u[i - 1].type \in RoundAsks)
    <3>1. u[i] = q[i] /\ (i # 1 => i - 1 \in 1..Len(q) /\ u[i - 1] = q[i - 1])
      BY <1>1
    <3>2. q[i].type \in RoundAsks \cup {"LEAVE_ROOM"}
      BY <1>2
    <3> QED BY <3>1, <3>2 DEF Follow
  <2>2. IF Len(q) + 1 = 1 THEN r = NoRoom ELSE u[Len(q) + 1 - 1].type = "LEAVE_ROOM"
    <3>1. CASE q = <<>>
      BY <1>2, <3>1
    <3>2. CASE q # <<>>
      <4>1. Len(q) \in Nat \ {0} /\ Len(q) \in 1..Len(q)
        BY <3>2, TailShape
      <4>2. u[Len(q)] = q[Len(q)]
        BY <1>1, <4>1
      <4> QED BY <1>2, <3>2, <4>1, <4>2
    <3> QED BY <3>1, <3>2
  <2>3. \A i \in 1..Len(u) : i \in 1..Len(q) \/ i = Len(q) + 1
    BY <1>1
  <2> QED BY <1>1, <1>3, <2>1, <2>2, <2>3 DEF Follow, Asks, RoomAsks, RoundAsks
<1>5. Asked(q, {"LEAVE_ROOM"}) => Asked(u, {"LEAVE_ROOM"})
  <2>1. \A i \in 1..Len(q) : i \in 1..Len(u)
    BY <1>1
  <2> QED BY <1>1, <2>1 DEF Asked
<1>6. AtMenu(TRUE, n, r, u, T)
  BY <1>2, <1>3, <1>5 DEF AtMenu
<1> QED BY <1>4, <1>6

\* In a room the player may start, guess or leave: who leaves is in the menu.
LEMMA AskInRoom ==
  ASSUME NEW q \in Seq(Request), NEW x \in Request, x.type \in RoundAsks \cup {"LEAVE_ROOM"},
         NEW u, u = Append(q, x), NEW n, NEW r, Follow(q, n, r), NEW T, AtRoom(n, r, q, T)
  PROVE  /\ Follow(u, n, r)
         /\ x.type \in RoundAsks => AtRoom(n, r, u, T)
         /\ x.type = "LEAVE_ROOM" => \A waits : AtMenu(waits, n, r, u, T)
<1>1. /\ Len(u) = Len(q) + 1 /\ Len(q) \in Nat /\ u[Len(q) + 1] = x /\ u # <<>>
      /\ \A i \in 1..Len(q) : u[i] = q[i]
  BY AppendShape
<1>2. /\ n # NoNick /\ r # NoRoom /\ \A i \in 1..Len(q) : q[i].type \in RoundAsks
      /\ T \subseteq Broadcast
  BY DEF AtRoom
<1>3. ASSUME NEW i \in 1..Len(u)
      PROVE  /\ i \in 1..Len(q) => u[i].type \in RoundAsks
             /\ i \notin 1..Len(q) => u[i] = x
             /\ i # 1 => u[i - 1].type \in RoundAsks
  <2>1. i \in 1..Len(q) \/ i = Len(q) + 1
    BY <1>1
  <2>2. i # 1 => i - 1 \in 1..Len(q)
    BY <1>1
  <2> QED BY <1>1, <1>2, <2>1, <2>2
<1>4. Follow(u, n, r)
  BY <1>2, <1>3 DEF Follow, Asks, RoomAsks, RoundAsks
<1>5. x.type \in RoundAsks => AtRoom(n, r, u, T)
  BY <1>2, <1>3 DEF AtRoom
<1>6. ASSUME x.type = "LEAVE_ROOM", NEW waits PROVE AtMenu(waits, n, r, u, T)
  <2>1. Len(q) + 1 \in 1..Len(u)
    BY <1>1
  <2>2. Asked(u, {"LEAVE_ROOM"})
    BY <1>1, <1>6, <2>1 DEF Asked
  <2>3. ~Asked(u, RoomAsks)
    BY <1>3, <1>6 DEF Asked, RoomAsks, RoundAsks
  <2>4. /\ "LOGIN_OK" \notin T /\ "LOGIN_FAILED" \notin T
        /\ T \cap (RoomAnswers \cup {"ROOM_FAILED"}) = {} /\ T \cap RoomAnswers = {}
    BY <1>2 DEF Broadcast, RoomAnswers
  <2> QED BY <1>2, <2>2, <2>3, <2>4 DEF AtMenu
<1> QED BY <1>4, <1>5, <1>6

-----------------------------------------------------------------------------
(***************************************************************************)
(* The server's handlers, as the scenes see them.                          *)
(***************************************************************************)

\* What a room tells its members changes no scene.
LEMMA BroadcastFits ==
  ASSUME NEW s, NEW waits, NEW n, NEW r, NEW q, NEW T, Fits(s, waits, n, r, q, T),
         NEW X, X \subseteq Broadcast, r = NoRoom => X = {}
  PROVE  Fits(s, waits, n, r, q, T \cup X)
<1>1. ASSUME AtLogin(waits, n, r, q, T) PROVE T \cup X = T
  BY <1>1 DEF AtLogin
<1>2. ASSUME AtMenu(waits, n, r, q, T) PROVE AtMenu(waits, n, r, q, T \cup X)
  BY <1>2 DEF AtMenu, Broadcast, RoomAnswers
<1>3. ASSUME AtRoom(n, r, q, T) PROVE AtRoom(n, r, q, T \cup X)
  BY <1>3 DEF AtRoom
<1> QED BY <1>1, <1>2, <1>3 DEF Fits

\* The scene of a player whose request the server handles.
LEMMA AskersScene ==
  ASSUME NEW q \in Seq(Request), q # <<>>, NEW s, NEW waits, NEW n, NEW r, NEW T,
         Fits(s, waits, n, r, q, T)
  PROVE  /\ s = "login" => n = NoNick /\ r = NoRoom /\ T = {} /\ waits
         /\ s = "menu" => /\ n # NoNick
                          /\ Head(q).type \in RoomAsks => waits
                          /\ T \cap (RoomAnswers \cup {"ROOM_FAILED"}) = {}
         /\ s \in {"lobby", "game"} => Head(q).type \in RoundAsks /\ n # NoNick
<1>1. Len(q) \in Nat \ {0} /\ Head(q) = q[1] /\ 1 \in 1..Len(q)
  BY TailShape
<1> QED BY <1>1 DEF Fits, AtLogin, AtMenu, AtRoom, Asked

LEMMA LoginFits ==
  ASSUME NEW q \in Seq(Request), q # <<>>, Head(q).type = "LOGIN", Tail(q) = <<>>,
         NEW s, NEW waits, NEW n, n = NoNick, NEW r, NEW T, Fits(s, waits, n, r, q, T), NEW m
  PROVE  /\ Fits(s, waits, n, r, <<>>, T \cup {"LOGIN_FAILED"})
         /\ m # NoNick => Fits(s, waits, m, r, <<>>, T \cup {"LOGIN_OK"})
<1>1. s = "login" /\ r = NoRoom /\ T = {} /\ waits
  BY AskersScene DEF Fits, RoundAsks
<1> QED BY <1>1 DEF Fits, AtLogin

LEMMA RoomAskFits ==
  ASSUME NEW q \in Seq(Request), q # <<>>, Head(q).type \in RoomAsks, Tail(q) = <<>>,
         NEW s, NEW waits, NEW n, NEW r, r = NoRoom, n # NoNick, NEW T, Fits(s, waits, n, r, q, T),
         NEW X
  PROVE  /\ Fits(s, waits, n, r, <<>>, T \cup {"ROOM_FAILED"})
         /\ X \subseteq RoomAnswers \cup Broadcast /\ X \cap RoomAnswers # {} =>
              \A seat : seat # NoRoom => Fits(s, waits, n, seat, <<>>, T \cup X)
<1>1. s = "menu" /\ waits /\ T \cap (RoomAnswers \cup {"ROOM_FAILED"}) = {}
  BY AskersScene DEF Fits, RoomAsks, RoundAsks
<1>2. "LOGIN_OK" \notin T /\ "LOGIN_FAILED" \notin T
  BY <1>1 DEF Fits, AtMenu
<1>3. AtMenu(waits, n, r, <<>>, T \cup {"ROOM_FAILED"})
  BY <1>1, <1>2 DEF AtMenu, Asked, RoomAnswers
<1>4. ASSUME X \subseteq RoomAnswers \cup Broadcast, X \cap RoomAnswers # {}, NEW seat, seat # NoRoom
      PROVE  AtMenu(waits, n, seat, <<>>, T \cup X)
  BY <1>1, <1>2, <1>4 DEF AtMenu, Asked, RoomAnswers, Broadcast
<1> QED BY <1>1, <1>3, <1>4 DEF Fits

\* Asked of the requests that are left.
LEMMA AskedOfTail ==
  ASSUME NEW q \in Seq(Request), q # <<>>, NEW types
  PROVE  /\ Asked(Tail(q), types) => Asked(q, types)
         /\ Asked(q, types) => Head(q).type \in types \/ Asked(Tail(q), types)
<1> DEFINE t == Tail(q)
<1>1. Len(q) \in Nat \ {0} /\ Head(q) = q[1]
  BY TailShape
<1>2. Len(t) = Len(q) - 1 /\ \A i \in 1..(Len(q) - 1) : t[i] = q[i + 1]
  BY TailShape
<1> HIDE DEF t
<1>3. ASSUME NEW i \in 1..Len(t), t[i].type \in types PROVE Asked(q, types)
  <2>1. i + 1 \in 1..Len(q) /\ q[i + 1] = t[i]
    BY <1>1, <1>2
  <2> QED BY <1>3, <2>1 DEF Asked
<1>4. ASSUME NEW i \in 1..Len(q), q[i].type \in types, i # 1 PROVE Asked(t, types)
  <2>1. i - 1 \in 1..Len(t) /\ t[i - 1] = q[i - 1 + 1] /\ i - 1 + 1 = i
    BY <1>1, <1>2, <1>4
  <2> QED BY <1>4, <2>1 DEF Asked
<1> QED BY <1>1, <1>3, <1>4 DEF Asked, t

LEMMA LeaveFits ==
  ASSUME NEW q \in Seq(Request), q # <<>>, Head(q).type = "LEAVE_ROOM",
         NEW s, NEW waits, NEW n, n # NoNick, NEW r, NEW T, Fits(s, waits, n, r, q, T)
  PROVE  Fits(s, waits, n, NoRoom, Tail(q), T)
<1>1. s = "menu" /\ T \cap (RoomAnswers \cup {"ROOM_FAILED"}) = {}
  BY AskersScene DEF Fits, RoundAsks
<1>2. Asked(Tail(q), RoomAsks) => Asked(q, RoomAsks)
  BY AskedOfTail
<1>3. AtMenu(waits, n, r, q, T)
  BY <1>1 DEF Fits
<1>4. AtMenu(waits, n, NoRoom, Tail(q), T)
  BY <1>1, <1>2, <1>3 DEF AtMenu
<1> QED BY <1>1, <1>4 DEF Fits

LEMMA PlayFits ==
  ASSUME NEW q \in Seq(Request), q # <<>>, Head(q).type \in RoundAsks,
         NEW s, NEW waits, NEW n, n # NoNick, NEW r, NEW T, Fits(s, waits, n, r, q, T)
  PROVE  Fits(s, waits, n, r, Tail(q), T)
<1>1. s # "login"
  BY AskersScene
<1>2. Asked(Tail(q), RoomAsks) => Asked(q, RoomAsks)
  BY AskedOfTail
<1>3. Asked(q, {"LEAVE_ROOM"}) => Asked(Tail(q), {"LEAVE_ROOM"})
  BY AskedOfTail DEF RoundAsks
<1>4. ASSUME AtMenu(waits, n, r, q, T) PROVE AtMenu(waits, n, r, Tail(q), T)
  <2>1. T \cap (RoomAnswers \cup {"ROOM_FAILED"}) = {}
    BY <1>4 DEF AtMenu
  <2> QED BY <1>2, <1>3, <1>4, <2>1 DEF AtMenu
<1>5. ASSUME AtRoom(n, r, q, T) PROVE AtRoom(n, r, Tail(q), T)
  <2>1. Len(q) \in Nat \ {0}
    BY TailShape
  <2>2. Len(Tail(q)) = Len(q) - 1 /\ \A i \in 1..(Len(q) - 1) : Tail(q)[i] = q[i + 1]
    BY TailShape
  <2>3. \A i \in 1..Len(Tail(q)) : i + 1 \in 1..Len(q) /\ Tail(q)[i] = q[i + 1]
    BY <2>1, <2>2
  <2> QED BY <1>5, <2>3 DEF AtRoom
<1> QED BY <1>1, <1>4, <1>5 DEF Fits

-----------------------------------------------------------------------------
(***************************************************************************)
(* What the reading of a write does to a program.                          *)
(***************************************************************************)

MessageTypes == {"LOGIN_OK", "LOGIN_FAILED", "ROOM_CREATED", "ROOM_OK", "ROOM_FAILED",
                 "ROOM_USERS_LIST", "GAME_STARTED", "RESULT", "ROOM_OWNERSHIP_TRANSFER"}
Messages == [type : MessageTypes, list : Seq(Player)]
Scenes == {"connect", "login", "menu", "lobby", "game"}
ProgramState == [scene : Scenes, isRoomOwner : BOOLEAN, roomPlayers : Seq(Player),
                 resultBoxes : Nat, waiting : BOOLEAN, astray : BOOLEAN]

Types(msgs) == {m.type : m \in Range(msgs)}

\* What makes a player the owner of a room.
OwnerNews == {"ROOM_CREATED", "ROOM_OWNERSHIP_TRANSFER"}

\* What the player waits for.
Answers == RoomAnswers \cup {"LOGIN_OK", "LOGIN_FAILED", "ROOM_FAILED", "GAME_STARTED"}

\* What the handling of message m, which turns a program s into h, may change.
TurnsInto(p, s, m, h) ==
  /\ h \in ProgramState
  /\ s.astray => h.astray
  /\ h.scene = IF m.type = "LOGIN_OK" THEN "menu"
               ELSE IF m.type \in RoomAnswers THEN "lobby"
               ELSE IF m.type = "GAME_STARTED" THEN "game" ELSE s.scene
  /\ m.type \notin Answers => h.waiting = s.waiting
  /\ m.type = "GAME_STARTED" /\ s.scene = "menu" => h.astray
  /\ m.type = "ROOM_OWNERSHIP_TRANSFER" /\ scene[p] = "menu" => h.astray
  /\ h.isRoomOwner <=> s.isRoomOwner \/ m.type \in OwnerNews
  /\ h.roomPlayers = IF m.type = "ROOM_USERS_LIST" THEN m.list ELSE s.roomPlayers
  /\ h.resultBoxes = IF m.type = "RESULT" THEN s.resultBoxes + 1 ELSE s.resultBoxes
  /\ m.type = "GAME_STARTED" /\ (s.resultBoxes > 0 \/ ~InRound(conn[p])) => h.astray
  /\ m.type = "RESULT" /\ InRound(conn[p]) => h.astray

LEMMA HandleEffect ==
  ASSUME NEW p, NEW s \in ProgramState, NEW m \in Messages, NEW h, h = Handle(p, s, m)
  PROVE  TurnsInto(p, s, m, h)
<1> USE DEF TurnsInto
<1> DEFINE round == InRound(conn[p])
           left == scene[p] = "menu"
           answered == [s EXCEPT !.waiting = FALSE]
           menu == [answered EXCEPT !.scene = "menu"]
           created == [answered EXCEPT !.scene = "lobby", !.isRoomOwner = TRUE]
           joined == [answered EXCEPT !.scene = "lobby"]
           listed == [s EXCEPT !.roomPlayers = m.list]
           owns == [s EXCEPT !.isRoomOwner = TRUE, !.astray = @ \/ left]
           started == [answered EXCEPT !.scene = "game",
                                       !.astray = @ \/ s.scene = "menu" \/ s.resultBoxes > 0
                                                    \/ ~round]
           ended == [s EXCEPT !.resultBoxes = @ + 1, !.astray = @ \/ round]
<1>1. round \in BOOLEAN /\ left \in BOOLEAN
  BY DEF InRound
<1>2. h = [LOGIN_OK |-> menu, LOGIN_FAILED |-> answered, ROOM_FAILED |-> answered,
           ROOM_CREATED |-> created, ROOM_OK |-> joined, ROOM_USERS_LIST |-> listed,
           ROOM_OWNERSHIP_TRANSFER |-> owns, GAME_STARTED |-> started,
           RESULT |-> ended][m.type]
  BY DEF Handle, UpdateLobbyPlayerList, LobbyOwnershipReceived
<1>3. m.type \in MessageTypes /\ m.list \in Seq(Player)
  BY DEF Messages
<1> HIDE DEF round, left, answered, menu, created, joined, listed, owns, started, ended
<1>4. /\ m.type = "LOGIN_OK" => h = menu
      /\ m.type \in {"LOGIN_FAILED", "ROOM_FAILED"} => h = answered
      /\ m.type = "ROOM_CREATED" => h = created
      /\ m.type = "ROOM_OK" => h = joined
      /\ m.type = "ROOM_USERS_LIST" => h = listed
      /\ m.type = "ROOM_OWNERSHIP_TRANSFER" => h = owns
      /\ m.type = "GAME_STARTED" => h = started
      /\ m.type = "RESULT" => h = ended
  BY <1>2
<1>5. CASE m.type = "LOGIN_OK"
  BY <1>4, <1>5 DEF menu, answered, ProgramState, Scenes, RoomAnswers, Answers, OwnerNews
<1>6. CASE m.type \in {"LOGIN_FAILED", "ROOM_FAILED"}
  BY <1>4, <1>6 DEF answered, ProgramState, Scenes, RoomAnswers, Answers, OwnerNews
<1>7. CASE m.type = "ROOM_CREATED"
  BY <1>4, <1>7 DEF created, answered, ProgramState, Scenes, RoomAnswers, Answers, OwnerNews
<1>8. CASE m.type = "ROOM_OK"
  BY <1>4, <1>8 DEF joined, answered, ProgramState, Scenes, RoomAnswers, Answers, OwnerNews
<1>9. CASE m.type = "ROOM_USERS_LIST"
  BY <1>3, <1>4, <1>9 DEF listed, ProgramState, Scenes, RoomAnswers, Answers, OwnerNews
<1>10. CASE m.type = "ROOM_OWNERSHIP_TRANSFER"
  BY <1>1, <1>4, <1>10 DEF owns, left, ProgramState, Scenes, RoomAnswers, Answers, OwnerNews
<1>11. CASE m.type = "GAME_STARTED"
  <2>1. InRound(conn[p]) = round
    BY DEF round
  <2> QED BY <1>1, <1>4, <1>11, <2>1
          DEF started, answered, ProgramState, Scenes, RoomAnswers, Answers, OwnerNews
<1>12. CASE m.type = "RESULT"
  <2> DEFINE boxes == s.resultBoxes + 1
             lost == s.astray \/ round
  <2>1. boxes \in Nat /\ lost \in BOOLEAN /\ (s.astray => lost) /\ (InRound(conn[p]) => lost)
        /\ boxes = s.resultBoxes + 1
    BY <1>1 DEF ProgramState, round
  <2>2. h = [s EXCEPT !.resultBoxes = boxes, !.astray = lost]
    BY <1>4, <1>12 DEF ended
  <2> HIDE DEF boxes, lost
  <2> QED BY <1>12, <2>1, <2>2 DEF ProgramState, RoomAnswers, OwnerNews
<1> QED BY <1>3, <1>5, <1>6, <1>7, <1>8, <1>9, <1>10, <1>11, <1>12 DEF MessageTypes

\* How a program that was before has got to after by messages of the types T.
Outcome(before, T, after) ==
  /\ after \in ProgramState
  /\ T \cap (RoomAnswers \cup {"LOGIN_OK", "GAME_STARTED"}) = {} => after.scene = before.scene
  /\ T \cap Answers = {} => after.waiting = before.waiting
  /\ T # {} /\ T \subseteq {"LOGIN_OK"} => after.scene = "menu"
  /\ "LOGIN_OK" \notin T /\ (before.scene \in {"lobby", "game"} \/ T \cap RoomAnswers # {})
       => after.scene \in {"lobby", "game"}
  /\ "GAME_STARTED" \in T /\ "LOGIN_OK" \notin T /\ T \cap RoomAnswers = {}
       /\ before.scene = "menu" => after.astray

LEMMA NoOutcome == \A s \in ProgramState : Outcome(s, {}, s)
BY DEF Outcome

LEMMA OutcomeGrows ==
  ASSUME NEW before, NEW T, NEW s, Outcome(before, T, s), NEW m \in Messages, NEW p,
         NEW h, h = Handle(p, s, m), NEW U, U = T \cup {m.type}
  PROVE  Outcome(before, U, h)
<1>1. /\ h \in ProgramState
      /\ s.astray => h.astray
      /\ h.scene = IF m.type = "LOGIN_OK" THEN "menu"
                   ELSE IF m.type \in RoomAnswers THEN "lobby"
                   ELSE IF m.type = "GAME_STARTED" THEN "game" ELSE s.scene
      /\ m.type \notin Answers => h.waiting = s.waiting
      /\ m.type = "GAME_STARTED" /\ s.scene = "menu" => h.astray
  <2>1. s \in ProgramState
    BY DEF Outcome
  <2>2. TurnsInto(p, s, m, h)
    BY <2>1, HandleEffect
  <2> QED BY <2>2 DEF TurnsInto
<1>2. U \cap (RoomAnswers \cup {"LOGIN_OK", "GAME_STARTED"}) = {} => h.scene = before.scene
  BY <1>1 DEF Outcome
<1>3. U \cap Answers = {} => h.waiting = before.waiting
  BY <1>1 DEF Outcome
<1>4. U # {} /\ U \subseteq {"LOGIN_OK"} => h.scene = "menu"
  BY <1>1 DEF Outcome
<1>5. "LOGIN_OK" \notin U /\ (before.scene \in {"lobby", "game"} \/ U \cap RoomAnswers # {})
        => h.scene \in {"lobby", "game"}
  BY <1>1 DEF Outcome
<1>6. ASSUME "GAME_STARTED" \in U, "LOGIN_OK" \notin U, U \cap RoomAnswers = {},
             before.scene = "menu"
      PROVE  h.astray
  <2>1. CASE "GAME_STARTED" \in T
    BY <1>1, <1>6, <2>1 DEF Outcome
  <2>2. CASE "GAME_STARTED" \notin T
    <3>1. m.type = "GAME_STARTED"
      BY <1>6, <2>2
    <3>2. s.scene = "menu"
      BY <1>6, <2>2 DEF Outcome
    <3> QED BY <1>1, <3>1, <3>2
  <2> QED BY <2>1, <2>2
<1> QED BY <1>1, <1>2, <1>3, <1>4, <1>5, <1>6 DEF Outcome

\* AfterReading handles the messages one after the other.
LEMMA AfterReadingIs ==
  ASSUME NEW p, NEW b, Len(b) \in Nat
  PROVE  \E f : /\ f[0] = BeforeReading(p) /\ AfterReading(p, b) = f[Len(b)]
                /\ \A i \in 1..Len(b) : f[i] = Handle(p, f[i - 1], b[i])
<1> DEFINE n == Len(b)
           Good(g, m) == g = [i \in 0..m |-> IF i = 0 THEN BeforeReading(p)
                                             ELSE Handle(p, g[i - 1], b[i])]
           S == {m \in 0..n : \E g : Good(g, m)}
<1>1. 0 \in S
  <2> DEFINE g == [i \in 0..0 |-> BeforeReading(p)]
  <2>1. Good(g, 0)
    OBVIOUS
  <2> HIDE DEF g, Good
  <2> QED BY <2>1
<1>2. ASSUME NEW m \in 1..n, m - 1 \in S PROVE m \in S
  <2>1. PICK g : Good(g, m - 1)
    BY <1>2
  <2> DEFINE h == [i \in 0..m |-> IF i = m THEN Handle(p, g[m - 1], b[m]) ELSE g[i]]
  <2>2. m \in Nat /\ m # 0 /\ m - 1 \in 0..(m - 1)
    OBVIOUS
  <2>3. ASSUME NEW i \in 0..m
        PROVE  h[i] = IF i = 0 THEN BeforeReading(p) ELSE Handle(p, h[i - 1], b[i])
    <3>1. CASE i = m
      <4>1. h[i] = Handle(p, g[m - 1], b[m]) /\ h[m - 1] = g[m - 1]
        BY <2>2, <3>1
      <4> QED BY <2>2, <3>1, <4>1
    <3>2. CASE i # m
      <4>1. i \in 0..(m - 1) /\ h[i] = g[i]
        BY <2>2, <3>2
      <4>2. CASE i = 0
        BY <2>1, <4>1, <4>2
      <4>3. CASE i # 0
        <5>1. i - 1 \in 0..m /\ i - 1 # m /\ h[i - 1] = g[i - 1]
          BY <2>2, <4>1, <4>3
        <5>2. g[i] = Handle(p, g[i - 1], b[i])
          BY <2>1, <4>1, <4>3
        <5> QED BY <4>1, <4>3, <5>1, <5>2
      <4> QED BY <4>2, <4>3
    <3> QED BY <3>1, <3>2
  <2>4. h = [i \in 0..m |-> h[i]]
    OBVIOUS
  <2> HIDE DEF h
  <2>5. Good(h, m)
    BY <2>3, <2>4
  <2> HIDE DEF Good
  <2> QED BY <2>2, <2>5
<1>3. n \in S
  <2> HIDE DEF S
  <2>1. 0..n \subseteq S
    BY <1>1, <1>2, UpTo
  <2> QED BY <2>1
<1> DEFINE after[i \in 0..n] == IF i = 0 THEN BeforeReading(p) ELSE Handle(p, after[i - 1], b[i])
<1>4. Good(after, n)
  BY <1>3
<1>5. AfterReading(p, b) = after[n]
  BY DEF AfterReading
<1> HIDE DEF after
<1>6. /\ after[0] = BeforeReading(p)
      /\ \A i \in 1..n : after[i] = Handle(p, after[i - 1], b[i])
  BY <1>4
<1> QED BY <1>5, <1>6

LEMMA ReadingOutcome ==
  ASSUME NEW p, BeforeReading(p) \in ProgramState, NEW b \in Seq(Messages)
  PROVE  Outcome(BeforeReading(p), Types(b), AfterReading(p, b))
<1>1. Len(b) \in Nat /\ \A i \in 1..Len(b) : b[i] \in Messages
  OBVIOUS
<1>2. PICK f : /\ f[0] = BeforeReading(p) /\ AfterReading(p, b) = f[Len(b)]
               /\ \A i \in 1..Len(b) : f[i] = Handle(p, f[i - 1], b[i])
  BY <1>1, AfterReadingIs
<1> DEFINE T(i) == {b[j].type : j \in 1..i}
           S == {i \in 0..Len(b) : Outcome(f[0], T(i), f[i])}
<1>3. 0 \in S
  <2>1. T(0) = {} /\ 0 \in 0..Len(b)
    BY <1>1
  <2> HIDE DEF T
  <2> QED BY <1>2, <2>1, NoOutcome
<1>4. ASSUME NEW i \in 1..Len(b), i - 1 \in S PROVE i \in S
  <2>1. T(i) = T(i - 1) \cup {b[i].type}
    <3>1. 1..i = (1..(i - 1)) \cup {i}
      BY <1>1
    <3> QED BY <3>1
  <2>2. i \in 0..Len(b) /\ b[i] \in Messages /\ f[i] = Handle(p, f[i - 1], b[i])
    BY <1>1, <1>2
  <2> HIDE DEF T
  <2>3. Outcome(f[0], T(i - 1), f[i - 1])
    BY <1>4
  <2>4. Outcome(f[0], T(i), f[i])
    BY <2>1, <2>2, <2>3, OutcomeGrows
  <2> QED BY <2>2, <2>4
<1>5. Len(b) \in S
  <2> HIDE DEF S
  <2>1. 0..Len(b) \subseteq S
    BY <1>1, <1>3, <1>4, UpTo
  <2> QED BY <1>1, <2>1
<1>6. T(Len(b)) = Types(b)
  BY <1>1 DEF Types, Range
<1> HIDE DEF T
<1> QED BY <1>2, <1>5, <1>6

\* Unless it goes astray, a program shows the scene it should after a reading.
LEMMA ReadingFits ==
  ASSUME NEW before \in ProgramState, NEW T, NEW after, Outcome(before, T, after), T # {},
         NEW n, NEW r, NEW q \in Seq(Request), Fits(before.scene, before.waiting, n, r, q, T)
  PROVE  after.astray \/ Fits(after.scene, after.waiting, n, r, q, {})
<1>1. CASE before.scene = "login" /\ AtLogin(before.waiting, n, r, q, T)
  <2>1. q = <<>> /\ r = NoRoom
    BY <1>1 DEF AtLogin
  <2>2. CASE n = NoNick
    <3>1. T \cap (RoomAnswers \cup {"LOGIN_OK", "GAME_STARTED"}) = {}
      BY <1>1, <2>2 DEF AtLogin, RoomAnswers
    <3>2. after.scene = "login"
      BY <1>1, <3>1 DEF Outcome
    <3> QED BY <2>1, <2>2, <3>2 DEF Fits, AtLogin
  <2>3. CASE n # NoNick
    <3>1. after.scene = "menu"
      BY <1>1, <2>3 DEF AtLogin, Outcome
    <3> QED BY <2>1, <2>3, <3>1 DEF Fits, AtMenu, Asked
  <2> QED BY <2>2, <2>3
<1>2. CASE before.scene = "menu" /\ AtMenu(before.waiting, n, r, q, T)
  <2>1. CASE T \cap RoomAnswers # {}
    <3>1. q = <<>> /\ r # NoRoom /\ n # NoNick /\ "LOGIN_OK" \notin T
      BY <1>2, <2>1 DEF AtMenu
    <3>2. after.scene \in {"lobby", "game"}
      BY <2>1, <3>1 DEF Outcome
    <3> QED BY <3>1, <3>2 DEF Fits, AtRoom, Broadcast
  <2>2. CASE T \cap RoomAnswers = {} /\ "GAME_STARTED" \in T
    BY <1>2, <2>2 DEF AtMenu, Outcome
  <2>3. CASE T \cap RoomAnswers = {} /\ "GAME_STARTED" \notin T
    <3>1. T \cap (RoomAnswers \cup {"LOGIN_OK", "GAME_STARTED"}) = {}
      BY <1>2, <2>3 DEF AtMenu
    <3>2. after.scene = "menu"
      BY <1>2, <3>1 DEF Outcome
    <3>3. Asked(q, RoomAsks) => after.waiting
      <4>1. CASE "ROOM_FAILED" \in T
        <5>1. q = <<>>
          BY <1>2, <4>1 DEF AtMenu
        <5> QED BY <5>1 DEF Asked
      <4>2. CASE "ROOM_FAILED" \notin T
        <5>1. T \cap Answers = {}
          BY <1>2, <2>3, <4>2 DEF AtMenu, Answers
        <5> QED BY <1>2, <5>1 DEF AtMenu, Outcome
      <4> QED BY <4>1, <4>2
    <3> QED BY <1>2, <2>3, <3>2, <3>3 DEF Fits, AtMenu
  <2> QED BY <2>1, <2>2, <2>3
<1>3. CASE before.scene \in {"lobby", "game"} /\ AtRoom(n, r, q, T)
  <2>1. "LOGIN_OK" \notin T
    BY <1>3 DEF AtRoom, Broadcast
  <2>2. after.scene \in {"lobby", "game"}
    BY <1>3, <2>1 DEF Outcome
  <2> QED BY <1>3, <2>2 DEF Fits, AtRoom
<1> QED BY <1>1, <1>2, <1>3 DEF Fits

-----------------------------------------------------------------------------
(***************************************************************************)
(* The inductive invariant.  A server that has died owes nobody anything:  *)
(* it may have taken a request and not answered.                           *)
(***************************************************************************)

Typed ==
  /\ sendingBuffer \in [Client -> Seq(Messages)]
  /\ conn \in [Player -> Client \cup {NoClient}]
  /\ scene \in [Player -> Scenes]
  /\ isRoomOwner \in [Player -> BOOLEAN] /\ waiting \in [Player -> BOOLEAN]
  /\ canConnect \in [Player -> BOOLEAN] /\ timer \in [Player -> BOOLEAN]
  /\ connecting \in [Player -> BOOLEAN]
  /\ roomPlayers \in [Player -> Seq(Player)]
  /\ resultBoxes \in [Player -> Nat]
  /\ mixed \subseteq Client /\ silent \subseteq RoomId /\ astray \subseteq Player

LEMMA TypedIs == TypeOK <=> Typed /\ dismissed \subseteq Player
BY DEF TypeOK, Typed, Messages, MessageTypes, Scenes, RoomId

\* No two programs have one connection, and nothing is under way on none.
Connections ==
  /\ \A p, q \in Player : conn[p] = conn[q] /\ conn[p] # NoClient => p = q
  /\ \A p \in Player : IF conn[p] = NoClient THEN ~waiting[p] ELSE conn[p] \in clients
  /\ \A c \in Client : ~Held(c) => sendingBuffer[c] = <<>>

RequestsFollow == \A c \in Client : Follow(requests[c], nickname[c], room[c])

SceneFits(p) ==
  IF conn[p] = NoClient THEN scene[p] = "connect" /\ (canConnect[p] \/ timer[p])
  ELSE Fits(scene[p], waiting[p], nickname[conn[p]], room[conn[p]], requests[conn[p]],
            Types(sendingBuffer[conn[p]]))

ScenesFit == \A p \in Player : p \notin astray => SceneFits(p)

LInv ==
  /\ Typed /\ RequestsFit /\ SeatInv /\ Connections
  /\ up => RequestsFollow /\ ScenesFit

LEMMA InitLInv == ASSUME Init PROVE LInv
<1>1. Typed
  BY DEF Init, Typed, Scenes
<1>2. RequestsFit /\ SeatInv
  BY InitRequestsFit, InitSeats DEF Init
<1>3. Connections
  BY DEF Init, Connections
<1>4. RequestsFollow
  BY FollowNone DEF Init, RequestsFollow
<1>5. ScenesFit
  BY DEF Init, ScenesFit, SceneFits
<1> QED BY <1>1, <1>2, <1>3, <1>4, <1>5 DEF LInv

-----------------------------------------------------------------------------
(***************************************************************************)
(* What the server tells.                                                  *)
(***************************************************************************)

LEMMA TypesNone == Types(<<>>) = {}
BY DEF Types, Range

LEMMA TypesOne == \A m : Types(<<m>>) = {m.type}
<1> TAKE m
<1>1. Range(<<m>>) = {m}
  BY DEF Range
<1> QED BY <1>1 DEF Types

LEMMA TypesTogether ==
  ASSUME NEW a \in Seq(Messages), NEW b \in Seq(Messages)
  PROVE  a \o b \in Seq(Messages) /\ Types(a \o b) = Types(a) \cup Types(b)
<1> DEFINE u == a \o b
<1>1. u \in Seq(Messages) /\ Range(u) = Range(a) \cup Range(b)
  BY ConcatRange
<1> HIDE DEF u
<1>2. Types(u) = Types(a) \cup Types(b)
  BY <1>1 DEF Types
<1> QED BY <1>1, <1>2 DEF u

LEMMA MsgTyped ==
  ASSUME NEW type \in MessageTypes
  PROVE  Msg(type) \in Messages /\ Msg(type).type = type /\ <<Msg(type)>> \in Seq(Messages)
BY DEF Msg, Messages

LEMMA ListTyped ==
  ASSUME SeatInv, NEW seats \in Seq(Client), \A d \in Range(seats) : nickname[d] # NoNick
  PROVE  List(seats) \in Messages /\ List(seats).type = "ROOM_USERS_LIST"
<1> DEFINE names == [i \in DOMAIN seats |-> nickname[seats[i]]]
<1>1. DOMAIN seats = 1..Len(seats) /\ Len(seats) \in Nat
  OBVIOUS
<1>2. ASSUME NEW i \in 1..Len(seats) PROVE nickname[seats[i]] \in Player
  <2>1. seats[i] \in Client /\ seats[i] \in Range(seats)
    BY DEF Range
  <2> QED BY <2>1 DEF SeatInv, SeatsTyped
<1>3. names = [i \in 1..Len(seats) |-> nickname[seats[i]]]
  BY <1>1
<1>4. names \in Seq(Player)
  BY <1>1, <1>2, <1>3
<1>5. List(seats) = [type |-> "ROOM_USERS_LIST", list |-> names]
  BY DEF List
<1> HIDE DEF names
<1> QED BY <1>4, <1>5 DEF Messages, MessageTypes

\* The members of a room are those whose pointer is to it.
LEMMA MembersHere ==
  ASSUME SeatInv, NEW r \in RoomId
  PROVE  /\ roomClients[r] \in Seq(Client)
         /\ \A d \in Client : d \in Range(roomClients[r]) <=> room[d] = r
         /\ \A d \in Range(roomClients[r]) : d \in Client /\ nickname[d] # NoNick
<1>1. roomClients[r] \in Seq(Client)
  BY DEF SeatInv, SeatsTyped
<1>2. Range(roomClients[r]) \subseteq Client
  BY <1>1 DEF Range
<1>3. r # NoRoom
  BY RoomFacts
<1> QED BY <1>1, <1>2, <1>3 DEF SeatInv, OneSeat

\* Of what the server tells no program is untyped, and nobody hears without a connection.
LEMMA QueueKeeps ==
  ASSUME Typed, Connections, NEW told \in [Client -> Seq(Messages)], Queue(told),
         UNCHANGED <<program, mixed>>, silent' \subseteq RoomId,
         \A p \in Player : conn[p] # NoClient => conn[p] \in clients'
  PROVE  /\ Typed' /\ Connections'
         /\ \A c \in Client : Held(c) =>
              Types(sendingBuffer'[c]) = Types(sendingBuffer[c]) \cup Types(told[c])
<1>1. sendingBuffer' = [c \in Client |-> IF Held(c) THEN Reverse(told[c]) \o sendingBuffer[c]
                                         ELSE <<>>]
  BY DEF Queue
<1>2. UNCHANGED <<conn, scene, isRoomOwner, roomPlayers, resultBoxes, waiting, canConnect, timer,
                  connecting, astray, mixed>>
  BY DEF program, lobby, dialog
<1>3. ASSUME NEW c \in Client
      PROVE  /\ Reverse(told[c]) \o sendingBuffer[c] \in Seq(Messages)
             /\ Types(Reverse(told[c]) \o sendingBuffer[c])
                  = Types(sendingBuffer[c]) \cup Types(told[c])
  <2> DEFINE s == Reverse(told[c])
  <2>1. s \in Seq(Messages) /\ Range(s) = Range(told[c])
    BY ReverseRange
  <2>2. sendingBuffer[c] \in Seq(Messages)
    BY DEF Typed
  <2> HIDE DEF s
  <2>3. /\ s \o sendingBuffer[c] \in Seq(Messages)
        /\ Types(s \o sendingBuffer[c]) = Types(s) \cup Types(sendingBuffer[c])
    BY <2>1, <2>2, TypesTogether
  <2>4. Types(s) = Types(told[c])
    BY <2>1 DEF Types
  <2> QED BY <2>3, <2>4 DEF s
<1>4. sendingBuffer' \in [Client -> Seq(Messages)]
  BY <1>1, <1>3
<1>5. Typed'
  BY <1>2, <1>4 DEF Typed
<1>6. \A c \in Client : Held(c)' <=> Held(c)
  BY <1>2 DEF Held
<1>7. Connections'
  BY <1>1, <1>2, <1>6 DEF Connections
<1> QED BY <1>1, <1>3, <1>5, <1>7

\* The scene of whoever has the connection d still fits.
Keeps(d) ==
  \A s, waits :
    Fits(s, waits, nickname[d], room[d], requests[d], Types(sendingBuffer[d]))
      => Fits(s, waits, nickname'[d], room'[d], requests'[d], Types(sendingBuffer'[d]))

LEMMA HandlerKeeps ==
  ASSUME LInv, up, UNCHANGED <<program, mixed>>, Typed', Connections', RequestsFit', SeatInv',
         \A d \in Client : Follow(requests'[d], nickname'[d], room'[d]) /\ (Held(d) => Keeps(d))
  PROVE  LInv'
<1>1. UNCHANGED <<conn, scene, waiting, canConnect, timer, astray>>
  BY DEF program, lobby, dialog
<1>2. RequestsFollow'
  BY DEF RequestsFollow
<1>3. ASSUME NEW p \in Player, p \notin astray PROVE SceneFits(p)'
  <2>1. SceneFits(p)
    BY <1>3 DEF LInv, ScenesFit
  <2>2. CASE conn[p] = NoClient
    BY <1>1, <2>1, <2>2 DEF SceneFits
  <2>3. CASE conn[p] # NoClient
    <3>1. conn[p] \in Client /\ Held(conn[p])
      BY <2>3 DEF LInv, Typed, Held
    <3>2. Keeps(conn[p])
      BY <3>1
    <3> QED BY <1>1, <2>1, <2>3, <3>2 DEF SceneFits, Keeps
  <2> QED BY <2>2, <2>3
<1>4. ScenesFit'
  BY <1>1, <1>3 DEF ScenesFit
<1> QED BY <1>2, <1>4 DEF LInv

\* Whoever is told what a room tells its members, or nothing, keeps the scene.
LEMMA OthersKeep ==
  ASSUME NEW d \in Client, NEW told,
         Types(sendingBuffer'[d]) = Types(sendingBuffer[d]) \cup Types(told[d]),
         nickname'[d] = nickname[d], room'[d] = room[d], requests'[d] = requests[d],
         Types(told[d]) \subseteq Broadcast, room[d] = NoRoom => Types(told[d]) = {}
  PROVE  Keeps(d)
BY BroadcastFits DEF Keeps

LEMMA Handled ==
  ASSUME LInv, NEW c \in Client, NEW type, Handles(c, type)
  PROVE  /\ up /\ c \in clients /\ requests[c] \in Seq(Request) /\ requests[c] # <<>>
         /\ Head(requests[c]).type = type /\ Head(requests[c]) \in Request
         /\ Follow(requests[c], nickname[c], room[c])
         /\ requests'[c] = Tail(requests[c])
         /\ \A d \in Client \ {c} : requests'[d] = requests[d]
         /\ UNCHANGED <<program, mixed>> /\ RequestsFit'
<1>1. /\ up /\ c \in clients /\ requests[c] # <<>> /\ Head(requests[c]).type = type
      /\ requests' = [requests EXCEPT ![c] = Tail(@)] /\ UNCHANGED <<program, mixed>>
  BY DEF Handles
<1>2. RequestsFit /\ RequestsFit'
  BY HandlesFits DEF LInv
<1>3. requests[c] \in Seq(Request) /\ Head(requests[c]) \in Request
  BY <1>1, <1>2, HeadOfRequests DEF RequestsFit
<1>4. Follow(requests[c], nickname[c], room[c])
  BY <1>1 DEF LInv, RequestsFollow
<1> QED BY <1>1, <1>2, <1>3, <1>4 DEF RequestsFit

LEMMA AnswerKeeps ==
  ASSUME LInv, NEW c \in Client, NEW type, Handles(c, type),
         NEW told \in [Client -> Seq(Messages)], Queue(told), silent' \subseteq RoomId,
         SeatInv', clients' = clients,
         \A d \in Client \ {c} : /\ room'[d] = room[d] /\ nickname'[d] = nickname[d]
                                 /\ Types(told[d]) \subseteq Broadcast
                                 /\ room[d] = NoRoom => Types(told[d]) = {},
         Follow(Tail(requests[c]), nickname'[c], room'[c]),
         \A s, waits :
           Fits(s, waits, nickname[c], room[c], requests[c], Types(sendingBuffer[c]))
             => Fits(s, waits, nickname'[c], room'[c], Tail(requests[c]),
                     Types(sendingBuffer[c]) \cup Types(told[c]))
  PROVE  LInv'
<1>1. /\ up /\ requests'[c] = Tail(requests[c]) /\ UNCHANGED <<program, mixed>> /\ RequestsFit'
      /\ \A d \in Client \ {c} : requests'[d] = requests[d]
  BY Handled
<1>2. Typed /\ Connections /\ \A p \in Player : conn[p] # NoClient => conn[p] \in clients'
  BY DEF LInv, Connections
<1>3. /\ Typed' /\ Connections'
      /\ \A d \in Client : Held(d) =>
           Types(sendingBuffer'[d]) = Types(sendingBuffer[d]) \cup Types(told[d])
  BY <1>1, <1>2, QueueKeeps
<1>4. ASSUME NEW d \in Client, d # c
      PROVE  Follow(requests'[d], nickname'[d], room'[d]) /\ (Held(d) => Keeps(d))
  <2>1. Follow(requests'[d], nickname'[d], room'[d])
    BY <1>1, <1>4 DEF LInv, RequestsFollow
  <2>2. ASSUME Held(d) PROVE Keeps(d)
    BY <1>1, <1>3, <1>4, <2>2, OthersKeep
  <2> QED BY <2>1, <2>2
<1>5. Follow(requests'[c], nickname'[c], room'[c])
  BY <1>1
<1>6. ASSUME Held(c) PROVE Keeps(c)
  BY <1>1, <1>3, <1>6 DEF Keeps
<1>7. \A d \in Client : Follow(requests'[d], nickname'[d], room'[d]) /\ (Held(d) => Keeps(d))
  BY <1>4, <1>5, <1>6
<1> QED BY <1>1, <1>3, <1>7, HandlerKeeps

LEMMA NothingTyped ==
  Nothing \in [Client -> Seq(Messages)] /\ \A c \in Client : Types(Nothing[c]) = {}
BY TypesNone DEF Nothing

LEMMA ToTyped ==
  ASSUME NEW c \in Client, NEW msgs \in Seq(Messages)
  PROVE  /\ To(c, msgs) \in [Client -> Seq(Messages)] /\ To(c, msgs)[c] = msgs
         /\ \A d \in Client \ {c} : Types(To(c, msgs)[d]) = {}
<1>1. Nothing \in [Client -> Seq(Messages)] /\ \A d \in Client : Types(Nothing[d]) = {}
  BY NothingTyped
<1>2. To(c, msgs) = [Nothing EXCEPT ![c] = msgs]
  BY DEF To
<1> QED BY <1>1, <1>2

\* One message to one client.
LEMMA ToldOne ==
  ASSUME NEW c \in Client, NEW type \in MessageTypes
  PROVE  /\ To(c, <<Msg(type)>>) \in [Client -> Seq(Messages)]
         /\ Types(To(c, <<Msg(type)>>)[c]) = {type}
         /\ \A d \in Client \ {c} : Types(To(c, <<Msg(type)>>)[d]) = {}
<1> DEFINE msgs == <<Msg(type)>>
<1>1. msgs \in Seq(Messages) /\ Types(msgs) = {type}
  <2>1. Types(msgs) = {Msg(type).type}
    BY TypesOne
  <2> QED BY <2>1, MsgTyped
<1> HIDE DEF msgs
<1>2. /\ To(c, msgs) \in [Client -> Seq(Messages)] /\ To(c, msgs)[c] = msgs
      /\ \A d \in Client \ {c} : Types(To(c, msgs)[d]) = {}
  BY <1>1, ToTyped
<1> QED BY <1>1, <1>2 DEF msgs

\* A handler that throws ends the server.
LEMMA CrashKeeps ==
  ASSUME LInv, Server!Crash, Queue(Nothing), UNCHANGED <<program, mixed>>,
         silent' \subseteq RoomId, RequestsFit'
  PROVE  LInv'
<1>1. /\ up' = FALSE
      /\ UNCHANGED <<clients, nickname, room, rooms, roomCounter, roomClients>>
  BY DEF Server!Crash, Server!clientVars, Server!seatVars
<1>2. Typed /\ Connections
  BY DEF LInv
<1>3. \A p \in Player : conn[p] # NoClient => conn[p] \in clients'
  BY <1>1, <1>2 DEF Connections
<1>4. Typed' /\ Connections'
  BY <1>2, <1>3, NothingTyped, QueueKeeps
<1>5. SeatInv'
  BY <1>1, SeatsUntouched DEF LInv
<1> QED BY <1>1, <1>4, <1>5 DEF LInv

LEMMA LoginKeeps == ASSUME LInv, NEW c \in Client, Login(c) PROVE LInv'
<1>1. Handles(c, "LOGIN") /\ UNCHANGED silent
  BY DEF Login
<1>2. /\ requests[c] \in Seq(Request) /\ requests[c] # <<>> /\ Head(requests[c]).type = "LOGIN"
      /\ Head(requests[c]) \in Request /\ Follow(requests[c], nickname[c], room[c])
  BY <1>1, Handled
<1>3. /\ Tail(requests[c]) = <<>> /\ nickname[c] = NoNick
      /\ Head(requests[c]).arg \in Player /\ Head(requests[c]).arg # NoNick
  BY <1>2, HeadAlone, RequestFacts, LobbyAssumption
<1>4. silent' \subseteq RoomId /\ SeatInv
  BY <1>1 DEF LInv, Typed
<1>5. CASE Server!Login(c, Head(requests[c]).arg) /\ Queue(To(c, <<Msg("LOGIN_OK")>>))
  <2> DEFINE told == To(c, <<Msg("LOGIN_OK")>>)
  <2>1. /\ SeatInv' /\ room' = room /\ clients' = clients
        /\ nickname' = [nickname EXCEPT ![c] = Head(requests[c]).arg]
    BY <1>3, <1>4, <1>5, LoginKeepsSeats
  <2>2. nickname'[c] # NoNick /\ \A d \in Client \ {c} : nickname'[d] = nickname[d]
    BY <1>3, <1>4, <2>1 DEF SeatInv, SeatsTyped
  <2>3. /\ told \in [Client -> Seq(Messages)] /\ Types(told[c]) = {"LOGIN_OK"}
        /\ \A d \in Client \ {c} : Types(told[d]) = {}
    BY ToldOne DEF MessageTypes
  <2>4. Queue(told)
    BY <1>5
  <2> HIDE DEF told
  <2>5. Follow(Tail(requests[c]), nickname'[c], room'[c])
    BY <1>3, FollowNone
  <2>6. ASSUME NEW s, NEW waits,
               Fits(s, waits, nickname[c], room[c], requests[c], Types(sendingBuffer[c]))
        PROVE  Fits(s, waits, nickname'[c], room'[c], Tail(requests[c]),
                    Types(sendingBuffer[c]) \cup Types(told[c]))
    <3>1. Fits(s, waits, nickname'[c], room[c], <<>>, Types(sendingBuffer[c]) \cup {"LOGIN_OK"})
      BY <1>2, <1>3, <2>2, <2>6, LoginFits
    <3> QED BY <1>3, <2>1, <2>3, <3>1
  <2> QED BY <1>1, <1>4, <2>1, <2>2, <2>3, <2>4, <2>5, <2>6, AnswerKeeps
<1>6. CASE Queue(To(c, <<Msg("LOGIN_FAILED")>>)) /\ UNCHANGED server
  <2> DEFINE told == To(c, <<Msg("LOGIN_FAILED")>>)
  <2>1. UNCHANGED <<clients, nickname, room, rooms, roomCounter, roomClients>>
    BY <1>6 DEF server
  <2>2. SeatInv'
    BY <1>4, <2>1, SeatsUntouched
  <2>3. /\ told \in [Client -> Seq(Messages)] /\ Types(told[c]) = {"LOGIN_FAILED"}
        /\ \A d \in Client \ {c} : Types(told[d]) = {}
    BY ToldOne DEF MessageTypes
  <2>4. Queue(told)
    BY <1>6
  <2> HIDE DEF told
  <2>5. Follow(Tail(requests[c]), nickname'[c], room'[c])
    BY <1>3, FollowNone
  <2>6. ASSUME NEW s, NEW waits,
               Fits(s, waits, nickname[c], room[c], requests[c], Types(sendingBuffer[c]))
        PROVE  Fits(s, waits, nickname'[c], room'[c], Tail(requests[c]),
                    Types(sendingBuffer[c]) \cup Types(told[c]))
    <3>1. Fits(s, waits, nickname[c], room[c], <<>>,
               Types(sendingBuffer[c]) \cup {"LOGIN_FAILED"})
      BY <1>2, <1>3, <2>6, LoginFits
    <3> QED BY <1>3, <2>1, <2>3, <3>1
  <2> QED BY <1>1, <1>4, <2>1, <2>2, <2>3, <2>4, <2>5, <2>6, AnswerKeeps
<1> QED BY <1>5, <1>6 DEF Login

LEMMA CreateKeeps == ASSUME LInv, NEW c \in Client, CreateRoom(c) PROVE LInv'
<1> DEFINE msgs == <<Msg("ROOM_CREATED"), List(<<c>>)>>
           told == To(c, msgs)
<1>1. /\ Handles(c, "CREATE_ROOM") /\ UNCHANGED silent /\ Server!CreateRoom(c)
      /\ Queue(told)
  BY DEF CreateRoom
<1>2. /\ requests[c] \in Seq(Request) /\ requests[c] # <<>>
      /\ Head(requests[c]).type \in RoomAsks /\ Follow(requests[c], nickname[c], room[c])
  BY <1>1, Handled DEF RoomAsks
<1>3. Tail(requests[c]) = <<>> /\ nickname[c] # NoNick /\ room[c] = NoRoom
  BY <1>2, HeadAlone
<1>4. silent' \subseteq RoomId /\ SeatInv
  BY <1>1 DEF LInv, Typed
<1>5. /\ SeatInv' /\ room' = [room EXCEPT ![c] = roomCounter] /\ roomCounter \in RoomId
      /\ UNCHANGED <<clients, nickname>>
  BY <1>1, <1>3, <1>4, CreateKeepsSeats
<1>6. room'[c] # NoRoom /\ \A d \in Client \ {c} : room'[d] = room[d]
  BY <1>4, <1>5, RoomFacts DEF SeatInv, SeatsTyped
<1>7. msgs \in Seq(Messages) /\ Types(msgs) = {"ROOM_CREATED", "ROOM_USERS_LIST"}
  <2>1. <<c>> \in Seq(Client) /\ \A d \in Range(<<c>>) : nickname[d] # NoNick
    BY <1>3 DEF Range
  <2>2. List(<<c>>) \in Messages /\ List(<<c>>).type = "ROOM_USERS_LIST"
    BY <1>4, <2>1, ListTyped
  <2>3. Msg("ROOM_CREATED") \in Messages /\ Msg("ROOM_CREATED").type = "ROOM_CREATED"
    BY MsgTyped DEF MessageTypes
  <2>4. Range(msgs) = {Msg("ROOM_CREATED"), List(<<c>>)}
    BY DEF Range
  <2> QED BY <2>2, <2>3, <2>4 DEF Types
<1> HIDE DEF msgs
<1>8. /\ told \in [Client -> Seq(Messages)] /\ told[c] = msgs
      /\ \A d \in Client \ {c} : Types(told[d]) = {}
  BY <1>7, ToTyped
<1> HIDE DEF told
<1>9. Follow(Tail(requests[c]), nickname'[c], room'[c])
  BY <1>3, FollowNone
<1>10. Types(told[c]) \subseteq RoomAnswers \cup Broadcast /\ Types(told[c]) \cap RoomAnswers # {}
  BY <1>7, <1>8 DEF RoomAnswers, Broadcast
<1>11. ASSUME NEW s, NEW waits,
              Fits(s, waits, nickname[c], room[c], requests[c], Types(sendingBuffer[c]))
       PROVE  Fits(s, waits, nickname'[c], room'[c], Tail(requests[c]),
                   Types(sendingBuffer[c]) \cup Types(told[c]))
  <2>1. Fits(s, waits, nickname[c], room'[c], <<>>, Types(sendingBuffer[c]) \cup Types(told[c]))
    BY <1>2, <1>3, <1>6, <1>10, <1>11, RoomAskFits
  <2> QED BY <1>3, <1>5, <2>1
<1> QED BY <1>1, <1>4, <1>5, <1>6, <1>8, <1>9, <1>11, AnswerKeeps

\* Short lists of messages.
LEMMA FewMessages ==
  ASSUME NEW x \in Messages, NEW y \in Messages
  PROVE  /\ <<>> \in Seq(Messages) /\ Range(<<>>) = {}
         /\ <<x>> \in Seq(Messages) /\ Range(<<x>>) = {x}
         /\ <<x, y>> \in Seq(Messages) /\ Range(<<x, y>>) = {x, y}
BY DEF Range

\* Who is in room r once c has joined.
JoinedList(c, r) == List(Append(roomClients[r], c))

\* Room::join and Server::joinRoom tell the members and the new one the list with the
\* new one in it, and nothing of ownership.
JoinIsTold(c, r, told) ==
  /\ told \in [Client -> Seq(Messages)]
  /\ JoinedList(c, r) \in Messages /\ JoinedList(c, r).type = "ROOM_USERS_LIST"
  /\ {Msg("ROOM_OK"), JoinedList(c, r)} \subseteq Range(told[c])
  /\ Range(told[c]) \subseteq {JoinedList(c, r), Msg("ROOM_OK"), Msg("GAME_STARTED")}
  /\ \A d \in Client \ {c} : Range(told[d]) = IF room[d] = r THEN {JoinedList(c, r)} ELSE {}

LEMMA JoinRange ==
  ASSUME SeatInv, NEW c \in Client, NEW r \in RoomId, nickname[c] # NoNick,
         NEW resumed \in BOOLEAN, NEW told, told = JoinMessages(c, r, resumed)
  PROVE  JoinIsTold(c, r, told)
<1> DEFINE members == Append(roomClients[r], c)
           list == List(members)
           ok == Msg("ROOM_OK")
           started == Msg("GAME_STARTED")
           more == IF resumed THEN <<list>> ELSE <<>>
           lists == <<list, list>> \o more
           back == IF resumed THEN <<started, list>> ELSE <<>>
           own == <<list>> \o back \o <<ok, list>>
<1>1. told = [d \in Client |-> IF d # c THEN ToMembers(members, lists)[d] ELSE own]
  BY DEF JoinMessages
<1>2. /\ roomClients[r] \in Seq(Client)
      /\ \A d \in Client : d \in Range(roomClients[r]) <=> room[d] = r
      /\ \A d \in Range(roomClients[r]) : d \in Client /\ nickname[d] # NoNick
  BY MembersHere
<1>3. members \in Seq(Client) /\ Range(members) = Range(roomClients[r]) \cup {c}
  BY <1>2, AppendRange
<1>4. ToMembers(members, lists) = [d \in Client |-> IF d \in Range(members) THEN lists ELSE <<>>]
  BY DEF ToMembers
<1> HIDE DEF members
<1>5. list = JoinedList(c, r)
  BY DEF JoinedList, members
<1>6. list \in Messages /\ list.type = "ROOM_USERS_LIST"
  BY <1>2, <1>3, ListTyped
<1> HIDE DEF list
<1>7. ok \in Messages /\ started \in Messages
  BY MsgTyped DEF MessageTypes
<1> HIDE DEF ok, started
<1>8. /\ <<>> \in Seq(Messages) /\ Range(<<>>) = {}
      /\ <<list>> \in Seq(Messages) /\ Range(<<list>>) = {list}
      /\ <<list, list>> \in Seq(Messages) /\ Range(<<list, list>>) = {list}
      /\ <<started, list>> \in Seq(Messages) /\ Range(<<started, list>>) = {started, list}
      /\ <<ok, list>> \in Seq(Messages) /\ Range(<<ok, list>>) = {ok, list}
  BY <1>6, <1>7, FewMessages
<1>9. lists \in Seq(Messages) /\ Range(lists) = {list}
  <2> DEFINE two == <<list, list>>
  <2>1. two \in Seq(Messages) /\ Range(two) = {list}
    BY <1>8
  <2>2. more \in Seq(Messages) /\ Range(more) \subseteq {list}
    BY <1>8
  <2> HIDE DEF two, more
  <2>3. two \o more \in Seq(Messages) /\ Range(two \o more) = Range(two) \cup Range(more)
    BY <2>1, <2>2, ConcatRange
  <2> QED BY <2>1, <2>2, <2>3 DEF two
<1>10. own \in Seq(Messages) /\ {ok, list} \subseteq Range(own) /\ Range(own) \subseteq {list, ok, started}
  <2> DEFINE one == <<list>>
             last == <<ok, list>>
  <2>1. /\ one \in Seq(Messages) /\ Range(one) = {list}
        /\ last \in Seq(Messages) /\ Range(last) = {ok, list}
    BY <1>8
  <2>2. back \in Seq(Messages) /\ Range(back) \subseteq {started, list}
    BY <1>8
  <2>3. own = one \o back \o last
    OBVIOUS
  <2> HIDE DEF one, back, last, own
  <2> DEFINE first == one \o back
  <2>4. first \in Seq(Messages) /\ Range(first) = Range(one) \cup Range(back)
    BY <2>1, <2>2, ConcatRange
  <2>5. own = first \o last
    BY <2>3
  <2> HIDE DEF first
  <2>6. own \in Seq(Messages) /\ Range(own) = Range(first) \cup Range(last)
    BY <2>1, <2>4, <2>5, ConcatRange
  <2> QED BY <2>1, <2>2, <2>4, <2>6
<1> HIDE DEF lists, own, more, back
<1>11. told[c] = own
  BY <1>1
<1>12. ASSUME NEW d \in Client, d # c
       PROVE  told[d] = IF room[d] = r THEN lists ELSE <<>>
  <2>1. d \in Range(members) <=> room[d] = r
    BY <1>2, <1>3, <1>12
  <2> QED BY <1>1, <1>4, <1>12, <2>1
<1>13. told \in [Client -> Seq(Messages)]
  BY <1>1, <1>4, <1>8, <1>9, <1>10
<1>14. \A d \in Client \ {c} : Range(told[d]) = IF room[d] = r THEN {list} ELSE {}
  BY <1>8, <1>9, <1>12
<1> QED BY <1>5, <1>6, <1>10, <1>11, <1>13, <1>14 DEF ok, started, JoinIsTold

\* The same, as the scenes see it.
LEMMA JoinTold ==
  ASSUME SeatInv, NEW c \in Client, NEW r \in RoomId, nickname[c] # NoNick,
         NEW resumed \in BOOLEAN, NEW told, told = JoinMessages(c, r, resumed)
  PROVE  /\ told \in [Client -> Seq(Messages)]
         /\ Types(told[c]) \subseteq RoomAnswers \cup Broadcast
         /\ Types(told[c]) \cap RoomAnswers # {}
         /\ \A d \in Client \ {c} : /\ Types(told[d]) \subseteq Broadcast
                                    /\ room[d] = NoRoom => Types(told[d]) = {}
<1>1. JoinIsTold(c, r, told)
  BY JoinRange
<1>3. Msg("ROOM_OK").type = "ROOM_OK" /\ Msg("GAME_STARTED").type = "GAME_STARTED"
  BY MsgTyped DEF MessageTypes
<1>4. {"ROOM_OK"} \subseteq Types(told[c])
      /\ Types(told[c]) \subseteq {"ROOM_USERS_LIST", "ROOM_OK", "GAME_STARTED"}
  BY <1>1, <1>3 DEF Types, JoinIsTold
<1>5. ASSUME NEW d \in Client, d # c
      PROVE  Types(told[d]) = IF room[d] = r THEN {"ROOM_USERS_LIST"} ELSE {}
  BY <1>1, <1>5 DEF Types, JoinIsTold
<1> QED BY <1>1, <1>4, <1>5, RoomFacts DEF RoomAnswers, Broadcast, JoinIsTold

LEMMA JoinKeeps == ASSUME LInv, NEW c \in Client, JoinRoom(c) PROVE LInv'
<1> DEFINE r == Head(requests[c]).arg
<1>1. /\ Handles(c, "JOIN_ROOM")
      /\ silent' = IF r \in rooms /\ owner[r] = c THEN silent \cup {r} ELSE silent
  BY DEF JoinRoom
<1>2. /\ requests[c] \in Seq(Request) /\ requests[c] # <<>> /\ Head(requests[c]) \in Request
      /\ Head(requests[c]).type = "JOIN_ROOM" /\ Follow(requests[c], nickname[c], room[c])
      /\ UNCHANGED <<program, mixed>> /\ RequestsFit'
  BY <1>1, Handled
<1>3. Tail(requests[c]) = <<>> /\ nickname[c] # NoNick /\ room[c] = NoRoom
  BY <1>2, HeadAlone DEF RoomAsks
<1>4. r \in RoomId /\ SeatInv /\ silent' \subseteq RoomId
  BY <1>1, <1>2, RequestFacts DEF LInv, Typed, RoomId
<1>5. Follow(Tail(requests[c]), nickname[c], room'[c])
  BY <1>3, FollowNone
<1> HIDE DEF r
<1>6. ASSUME NEW resumed \in BOOLEAN, Server!JoinRoom(c, r) \/ Server!RejoinRoom(c, r),
             Queue(JoinMessages(c, r, resumed))
      PROVE  LInv'
  <2>1. PICK told : told = JoinMessages(c, r, resumed)
    OBVIOUS
  <2>2. /\ SeatInv' /\ room' = [room EXCEPT ![c] = r] /\ UNCHANGED <<clients, nickname>>
    BY <1>3, <1>4, <1>6, JoinKeepsSeats
  <2>3. room'[c] = r /\ room'[c] # NoRoom /\ \A d \in Client \ {c} : room'[d] = room[d]
    BY <1>4, <2>2, RoomFacts DEF SeatInv, SeatsTyped
  <2>4. /\ told \in [Client -> Seq(Messages)]
        /\ Types(told[c]) \subseteq RoomAnswers \cup Broadcast
        /\ Types(told[c]) \cap RoomAnswers # {}
        /\ \A d \in Client \ {c} : /\ Types(told[d]) \subseteq Broadcast
                                   /\ room[d] = NoRoom => Types(told[d]) = {}
    BY <1>3, <1>4, <2>1, JoinTold
  <2>5. Queue(told)
    BY <1>6, <2>1
  <2>6. ASSUME NEW s, NEW waits,
               Fits(s, waits, nickname[c], room[c], requests[c], Types(sendingBuffer[c]))
        PROVE  Fits(s, waits, nickname'[c], room'[c], Tail(requests[c]),
                    Types(sendingBuffer[c]) \cup Types(told[c]))
    <3>1. Head(requests[c]).type \in RoomAsks
      BY <1>2 DEF RoomAsks
    <3>2. Fits(s, waits, nickname[c], room'[c], <<>>,
               Types(sendingBuffer[c]) \cup Types(told[c]))
      BY <1>2, <1>3, <2>3, <2>4, <2>6, <3>1, RoomAskFits
    <3> QED BY <1>3, <2>2, <3>2
  <2>7. Follow(Tail(requests[c]), nickname'[c], room'[c])
    BY <1>5, <2>2
  <2> QED BY <1>1, <1>4, <2>2, <2>3, <2>4, <2>5, <2>6, <2>7, AnswerKeeps
<1>7. CASE Server!RejoinThrows(c, r) /\ Queue(Nothing)
  <2>1. Server!Crash
    BY <1>7 DEF Server!RejoinThrows
  <2> QED BY <1>2, <1>4, <1>7, <2>1, CrashKeeps
<1>8. CASE Queue(To(c, <<Msg("ROOM_FAILED")>>)) /\ UNCHANGED server
  <2> DEFINE told == To(c, <<Msg("ROOM_FAILED")>>)
  <2>1. UNCHANGED <<clients, nickname, room, rooms, roomCounter, roomClients>>
    BY <1>8 DEF server
  <2>2. SeatInv'
    BY <1>4, <2>1, SeatsUntouched
  <2>3. /\ told \in [Client -> Seq(Messages)] /\ Types(told[c]) = {"ROOM_FAILED"}
        /\ \A d \in Client \ {c} : Types(told[d]) = {}
    BY ToldOne DEF MessageTypes
  <2>4. Queue(told)
    BY <1>8
  <2> HIDE DEF told
  <2>5. Follow(Tail(requests[c]), nickname'[c], room'[c])
    BY <1>5, <2>1
  <2>6. ASSUME NEW s, NEW waits,
               Fits(s, waits, nickname[c], room[c], requests[c], Types(sendingBuffer[c]))
        PROVE  Fits(s, waits, nickname'[c], room'[c], Tail(requests[c]),
                    Types(sendingBuffer[c]) \cup Types(told[c]))
    <3>1. Head(requests[c]).type \in RoomAsks
      BY <1>2 DEF RoomAsks
    <3>2. Fits(s, waits, nickname[c], room[c], <<>>,
               Types(sendingBuffer[c]) \cup {"ROOM_FAILED"})
      BY <1>2, <1>3, <2>6, <3>1, RoomAskFits
    <3> QED BY <1>3, <2>1, <2>3, <3>2
  <2> QED BY <1>1, <1>4, <2>1, <2>2, <2>3, <2>4, <2>5, <2>6, AnswerKeeps
<1>9. \/ Server!JoinRoom(c, r) /\ Queue(JoinMessages(c, r, FALSE))
      \/ Server!RejoinRoom(c, r) /\ Queue(JoinMessages(c, r, TRUE))
      \/ Server!RejoinThrows(c, r) /\ Queue(Nothing)
      \/ Queue(To(c, <<Msg("ROOM_FAILED")>>)) /\ UNCHANGED server
  BY DEF JoinRoom, r
<1> QED BY <1>6, <1>7, <1>8, <1>9

\* Who is told when c leaves that the room is now the player's.
BecomesOwner(c, d) ==
  owner[room[c]] = c /\ Server!Remaining(c) # <<>> /\ d = Head(Server!Remaining(c))

\* Those who stay are told the list without c, and the next owner that he is, unless
\* he plays.
LeaveIsTold(c, told) ==
  /\ told \in [Client -> Seq(Messages)]
  /\ ListAfterLeave(c) \in Messages /\ ListAfterLeave(c).type = "ROOM_USERS_LIST"
  /\ \A d \in Client :
       Range(told[d]) =
         IF d \in Range(Server!Remaining(c))
         THEN {ListAfterLeave(c)}
                \cup IF BecomesOwner(c, d) /\ ~inGame[d] THEN {Msg("ROOM_OWNERSHIP_TRANSFER")}
                     ELSE {}
         ELSE {}

LEMMA LeaveRange ==
  ASSUME SeatInv, NEW c \in Client, room[c] # NoRoom, Leave(c)
  PROVE  \E told : Queue(told) /\ LeaveIsTold(c, told)
<1> DEFINE r == room[c]
           rest == Server!Remaining(c)
           list == ListAfterLeave(c)
           passed == Msg("ROOM_OWNERSHIP_TRANSFER")
           transfer(d) == IF owner[r] = c /\ rest # <<>> /\ d = Head(rest) /\ ~inGame[Head(rest)]
                          THEN <<passed>> ELSE <<>>
           told == [d \in Client |-> ToMembers(rest, <<list>>)[d] \o transfer(d)]
<1>1. r \in RoomId /\ rest \in Seq(Client) /\ Range(rest) = Range(roomClients[r]) \ {c}
  BY RemainingSeats
<1>2. \A d \in Range(roomClients[r]) : d \in Client /\ nickname[d] # NoNick
  BY <1>1, MembersHere
<1>3. Queue(told)
  BY SeatedIs DEF Leave
<1>4. list \in Messages /\ list.type = "ROOM_USERS_LIST"
  <2>1. list = List(rest)
    BY DEF ListAfterLeave
  <2> HIDE DEF list, rest
  <2> QED BY <1>1, <1>2, <2>1, ListTyped
<1>5. passed \in Messages
  BY MsgTyped DEF MessageTypes
<1> HIDE DEF list, passed
<1>6. /\ <<list>> \in Seq(Messages) /\ Range(<<list>>) = {list}
      /\ <<passed>> \in Seq(Messages) /\ Range(<<passed>>) = {passed}
      /\ <<>> \in Seq(Messages) /\ Range(<<>>) = {}
  BY <1>4, <1>5, FewMessages
<1>7. rest # <<>> => Head(rest) \in Range(rest)
  <2> HIDE DEF rest
  <2> QED BY <1>1 DEF Range
<1>8. ASSUME NEW d \in Client
      PROVE  /\ transfer(d) \in Seq(Messages)
             /\ Range(transfer(d)) = IF BecomesOwner(c, d) /\ ~inGame[d] THEN {passed} ELSE {}
             /\ d \notin Range(rest) => Range(transfer(d)) = {}
  <2>1. BecomesOwner(c, d) <=> owner[r] = c /\ rest # <<>> /\ d = Head(rest)
    BY DEF BecomesOwner
  <2> HIDE DEF rest, r
  <2> QED BY <1>6, <1>7, <2>1
<1>9. ASSUME NEW d \in Client
      PROVE  /\ ToMembers(rest, <<list>>)[d] \in Seq(Messages)
             /\ Range(ToMembers(rest, <<list>>)[d]) = IF d \in Range(rest) THEN {list} ELSE {}
  <2> HIDE DEF rest
  <2>1. ToMembers(rest, <<list>>)[d] = IF d \in Range(rest) THEN <<list>> ELSE <<>>
    BY DEF ToMembers
  <2> QED BY <1>6, <2>1
<1> HIDE DEF rest, transfer
<1>10. ASSUME NEW d \in Client
       PROVE  /\ told[d] \in Seq(Messages)
              /\ Range(told[d]) =
                   IF d \in Range(rest)
                   THEN {list} \cup IF BecomesOwner(c, d) /\ ~inGame[d] THEN {passed} ELSE {}
                   ELSE {}
  <2> DEFINE a == ToMembers(rest, <<list>>)[d]
             b == transfer(d)
  <2>1. told[d] = a \o b
    OBVIOUS
  <2>2. a \in Seq(Messages) /\ b \in Seq(Messages)
    BY <1>8, <1>9
  <2>3. /\ Range(a) = IF d \in Range(rest) THEN {list} ELSE {}
        /\ Range(b) = IF BecomesOwner(c, d) /\ ~inGame[d] THEN {passed} ELSE {}
        /\ d \notin Range(rest) => Range(b) = {}
    BY <1>8, <1>9
  <2> HIDE DEF a, b, told
  <2>4. a \o b \in Seq(Messages) /\ Range(a \o b) = Range(a) \cup Range(b)
    BY <2>2, ConcatRange
  <2> QED BY <2>1, <2>3, <2>4
<1>11. told = [d \in Client |-> told[d]]
  OBVIOUS
<1> HIDE DEF told
<1>12. told \in [Client -> Seq(Messages)]
  BY <1>10, <1>11
<1>13. LeaveIsTold(c, told)
  BY <1>4, <1>10, <1>12 DEF LeaveIsTold, list, rest, passed
<1> QED BY <1>3, <1>13

\* The same, as the scenes see it.
LEMMA LeaveTold ==
  ASSUME SeatInv, NEW c \in Client, room[c] # NoRoom, Leave(c), silent \subseteq RoomId
  PROVE  /\ silent' \subseteq RoomId
         /\ \E told \in [Client -> Seq(Messages)] :
              /\ Queue(told) /\ Types(told[c]) = {}
              /\ \A d \in Client : /\ Types(told[d]) \subseteq Broadcast
                                   /\ room[d] = NoRoom => Types(told[d]) = {}
<1>1. PICK told : Queue(told) /\ LeaveIsTold(c, told)
  BY LeaveRange
<1>2. silent' \subseteq RoomId
  BY SeatedIs DEF Leave, SeatInv, SeatsTyped
<1>3. /\ room[c] \in RoomId
      /\ Range(Server!Remaining(c)) = Range(roomClients[room[c]]) \ {c}
  BY RemainingSeats
<1>4. \A d \in Client : d \in Range(Server!Remaining(c)) => room[d] = room[c] /\ d # c
  BY <1>3, MembersHere
<1>5. Msg("ROOM_OWNERSHIP_TRANSFER").type = "ROOM_OWNERSHIP_TRANSFER"
  BY MsgTyped DEF MessageTypes
<1>6. ASSUME NEW d \in Client
      PROVE  /\ Types(told[d]) \subseteq Broadcast
             /\ d \notin Range(Server!Remaining(c)) => Types(told[d]) = {}
  <2>1. Range(told[d]) \subseteq {ListAfterLeave(c), Msg("ROOM_OWNERSHIP_TRANSFER")}
        /\ (d \notin Range(Server!Remaining(c)) => Range(told[d]) = {})
    BY <1>1 DEF LeaveIsTold
  <2>2. ListAfterLeave(c).type = "ROOM_USERS_LIST"
    BY <1>1 DEF LeaveIsTold
  <2> QED BY <1>5, <2>1, <2>2 DEF Types, Broadcast
<1>7. told \in [Client -> Seq(Messages)]
  BY <1>1 DEF LeaveIsTold
<1> QED BY <1>1, <1>2, <1>4, <1>6, <1>7

LEMMA LeaveKeeps == ASSUME LInv, NEW c \in Client, LeaveRoom(c) PROVE LInv'
<1>1. Handles(c, "LEAVE_ROOM")
  BY DEF LeaveRoom
<1>2. /\ requests[c] \in Seq(Request) /\ requests[c] # <<>>
      /\ Head(requests[c]).type = "LEAVE_ROOM" /\ Follow(requests[c], nickname[c], room[c])
      /\ UNCHANGED <<program, mixed>> /\ RequestsFit'
  BY <1>1, Handled
<1>3. nickname[c] # NoNick /\ room[c] # NoRoom /\ Follow(Tail(requests[c]), nickname[c], NoRoom)
  BY <1>2, HeadLeaves
<1>4. SeatInv /\ silent \subseteq RoomId
  BY DEF LInv, Typed
<1>5. CASE Server!LeaveRoom(c) /\ Leave(c)
  <2>1. Server!Vacate(c) /\ clients' = clients
    BY <1>5 DEF Server!LeaveRoom
  <2>2. SeatInv' /\ room' = [room EXCEPT ![c] = NoRoom] /\ UNCHANGED nickname
    BY <1>3, <1>4, <2>1, VacateKeepsSeats
  <2>3. room'[c] = NoRoom /\ \A d \in Client \ {c} : room'[d] = room[d]
    BY <1>4, <2>2 DEF SeatInv, SeatsTyped
  <2>4. silent' \subseteq RoomId
    BY <1>3, <1>4, <1>5, LeaveTold
  <2>5. PICK told \in [Client -> Seq(Messages)] :
          /\ Queue(told) /\ Types(told[c]) = {}
          /\ \A d \in Client : /\ Types(told[d]) \subseteq Broadcast
                               /\ room[d] = NoRoom => Types(told[d]) = {}
    BY <1>3, <1>4, <1>5, LeaveTold
  <2>6. Follow(Tail(requests[c]), nickname'[c], room'[c])
    BY <1>3, <2>2, <2>3
  <2>7. ASSUME NEW s, NEW waits,
               Fits(s, waits, nickname[c], room[c], requests[c], Types(sendingBuffer[c]))
        PROVE  Fits(s, waits, nickname'[c], room'[c], Tail(requests[c]),
                    Types(sendingBuffer[c]) \cup Types(told[c]))
    <3>1. Fits(s, waits, nickname[c], NoRoom, Tail(requests[c]), Types(sendingBuffer[c]))
      BY <1>2, <1>3, <2>7, LeaveFits
    <3>2. Types(sendingBuffer[c]) \cup Types(told[c]) = Types(sendingBuffer[c])
      BY <2>5
    <3> QED BY <2>2, <2>3, <3>1, <3>2
  <2> QED BY <1>1, <2>1, <2>2, <2>3, <2>4, <2>5, <2>6, <2>7, AnswerKeeps
<1>6. CASE Server!LeaveThrows(c) /\ Queue(Nothing) /\ UNCHANGED silent
  <2>1. Server!Crash /\ silent' \subseteq RoomId
    BY <1>4, <1>6 DEF Server!LeaveThrows
  <2> QED BY <1>2, <1>6, <2>1, CrashKeeps
<1> QED BY <1>3, <1>5, <1>6 DEF LeaveRoom, NoRoom

\* The end of a connection no program has.
LEMMA DisconnectKeeps == ASSUME LInv, NEW c \in Client, Disconnect(c) PROVE LInv'
<1>1. /\ ~Held(c) /\ requests[c] = <<>> /\ UNCHANGED <<requests, mixed, program>>
  BY DEF Disconnect
<1>2. SeatInv /\ silent \subseteq RoomId /\ Typed /\ Connections
  BY DEF LInv, Typed
<1>3. conn' = conn /\ RequestsFit'
  BY <1>1 DEF LInv, RequestsFit, program
<1>4. CASE Server!Disconnect(c) /\ Leave(c)
  <2>1. /\ up /\ clients' = clients \ {c}
        /\ IF Server!Seated(c) THEN Server!Vacate(c)
           ELSE UNCHANGED <<nickname, room, rooms, roomCounter, roomClients>>
    BY <1>4 DEF Server!Disconnect, Server!clientVars, Server!seatVars
  <2>2. ASSUME NEW p \in Player, conn[p] # NoClient PROVE conn[p] \in clients'
    BY <1>1, <1>2, <2>1, <2>2 DEF Connections, Held
  <2>3. /\ SeatInv' /\ UNCHANGED nickname /\ \A d \in Client \ {c} : room'[d] = room[d]
        /\ silent' \subseteq RoomId
        /\ \E told \in [Client -> Seq(Messages)] :
             /\ Queue(told)
             /\ \A d \in Client : /\ Types(told[d]) \subseteq Broadcast
                                  /\ room[d] = NoRoom => Types(told[d]) = {}
    <3>1. CASE room[c] # NoRoom
      <4>1. Server!Vacate(c)
        BY <1>2, <2>1, <3>1, SeatedIs
      <4>2. SeatInv' /\ room' = [room EXCEPT ![c] = NoRoom] /\ UNCHANGED nickname
        BY <1>2, <2>1, <3>1, <4>1, VacateKeepsSeats
      <4>3. \A d \in Client \ {c} : room'[d] = room[d]
        BY <1>2, <4>2 DEF SeatInv, SeatsTyped
      <4> QED BY <1>2, <1>4, <3>1, <4>2, <4>3, LeaveTold
    <3>2. CASE room[c] = NoRoom
      <4>1. ~Server!Seated(c)
        BY <1>2, <3>2, SeatedIs
      <4>2. UNCHANGED <<nickname, room, rooms, roomCounter, roomClients>>
        BY <2>1, <4>1
      <4>3. SeatInv'
        BY <1>2, <2>1, <3>2, <4>2 DEF SeatInv, SeatsTyped, OneSeat
      <4>4. Queue(Nothing) /\ UNCHANGED silent
        BY <1>4, <4>1 DEF Leave
      <4>5. \A d \in Client : Types(Nothing[d]) \subseteq Broadcast
        BY NothingTyped
      <4> QED BY <1>2, <4>2, <4>3, <4>4, <4>5, NothingTyped
    <3> QED BY <3>1, <3>2
  <2>4. PICK told \in [Client -> Seq(Messages)] :
          /\ Queue(told)
          /\ \A d \in Client : /\ Types(told[d]) \subseteq Broadcast
                               /\ room[d] = NoRoom => Types(told[d]) = {}
    BY <2>3
  <2>5. /\ Typed' /\ Connections'
        /\ \A d \in Client : Held(d) =>
             Types(sendingBuffer'[d]) = Types(sendingBuffer[d]) \cup Types(told[d])
    BY <1>1, <1>2, <2>2, <2>3, <2>4, QueueKeeps
  <2>6. ASSUME NEW d \in Client
        PROVE  Follow(requests'[d], nickname'[d], room'[d]) /\ (Held(d) => Keeps(d))
    <3>1. CASE d = c
      <4>1. requests'[d] = <<>> /\ ~Held(d)
        BY <1>1, <3>1
      <4> QED BY <4>1, FollowNone
    <3>2. CASE d # c
      <4>1. nickname'[d] = nickname[d] /\ room'[d] = room[d] /\ requests'[d] = requests[d]
        BY <1>1, <2>3, <3>2
      <4>2. Follow(requests'[d], nickname'[d], room'[d])
        BY <2>1, <4>1 DEF LInv, RequestsFollow
      <4>3. ASSUME Held(d) PROVE Keeps(d)
        BY <2>4, <2>5, <4>1, <4>3, OthersKeep
      <4> QED BY <4>2, <4>3
    <3> QED BY <3>1, <3>2
  <2> QED BY <1>1, <1>3, <2>1, <2>3, <2>5, <2>6, HandlerKeeps
<1>5. CASE Server!LeaveThrows(c) /\ Queue(Nothing) /\ UNCHANGED silent
  <2>1. Server!Crash /\ silent' \subseteq RoomId
    BY <1>2, <1>5 DEF Server!LeaveThrows
  <2> QED BY <1>1, <1>3, <1>5, <2>1, CrashKeeps
<1> QED BY <1>4, <1>5 DEF Disconnect

\* A start or a guess that seats and names nobody.
LEMMA PlayKeeps ==
  ASSUME LInv, NEW c \in Client, NEW type \in RoundAsks, Handles(c, type),
         NEW told \in [Client -> Seq(Messages)], Queue(told), UNCHANGED silent,
         \A d \in Client : /\ Types(told[d]) \subseteq Broadcast
                           /\ room[d] = NoRoom => Types(told[d]) = {},
         UNCHANGED <<clients, nickname, room, rooms, roomCounter, roomClients>>
  PROVE  LInv'
<1>1. /\ requests[c] \in Seq(Request) /\ requests[c] # <<>>
      /\ Head(requests[c]).type \in RoundAsks /\ Follow(requests[c], nickname[c], room[c])
  BY Handled
<1>2. nickname[c] # NoNick /\ room[c] # NoRoom /\ Follow(Tail(requests[c]), nickname[c], room[c])
  BY <1>1, HeadPlays
<1>3. SeatInv' /\ silent' \subseteq RoomId
  BY SeatsUntouched DEF LInv, Typed
<1>4. ASSUME NEW s, NEW waits,
             Fits(s, waits, nickname[c], room[c], requests[c], Types(sendingBuffer[c]))
      PROVE  Fits(s, waits, nickname'[c], room'[c], Tail(requests[c]),
                  Types(sendingBuffer[c]) \cup Types(told[c]))
  <2>1. Fits(s, waits, nickname[c], room[c], Tail(requests[c]), Types(sendingBuffer[c]))
    BY <1>1, <1>2, <1>4, PlayFits
  <2>2. Types(told[c]) \subseteq Broadcast
    OBVIOUS
  <2>3. Fits(s, waits, nickname[c], room[c], Tail(requests[c]),
             Types(sendingBuffer[c]) \cup Types(told[c]))
    BY <1>2, <2>1, <2>2, BroadcastFits
  <2> QED BY <2>3
<1> QED BY <1>2, <1>3, <1>4, AnswerKeeps

LEMMA StartKeeps == ASSUME LInv, NEW c \in Client, StartGame(c) PROVE LInv'
<1>1. Handles(c, "START_GAME") /\ UNCHANGED silent
  BY DEF StartGame
<1>2. /\ requests[c] \in Seq(Request) /\ requests[c] # <<>>
      /\ Head(requests[c]).type \in RoundAsks /\ Follow(requests[c], nickname[c], room[c])
  BY <1>1, Handled DEF RoundAsks
<1>3. room[c] # NoRoom
  BY <1>2, HeadPlays
<1> DEFINE r == room[c]
           msgs == <<Msg("GAME_STARTED")>>
           told == ToMembers(roomClients[r], msgs)
<1>4. Queue(told) /\ \E w \in Words : Server!StartGame(c, w)
  BY <1>3 DEF StartGame, NoRoom
<1>5. UNCHANGED <<clients, nickname, room, rooms, roomCounter, roomClients>>
  BY <1>4 DEF Server!StartGame
<1>6. SeatInv /\ r \in RoomId
  BY <1>3 DEF LInv, SeatInv, SeatsTyped
<1>7. \A d \in Client : d \in Range(roomClients[r]) <=> room[d] = r
  BY <1>6, MembersHere
<1>8. msgs \in Seq(Messages) /\ Types(msgs) \subseteq Broadcast
  BY MsgTyped, TypesOne DEF MessageTypes, Broadcast
<1> HIDE DEF msgs
<1>9. told = [d \in Client |-> IF d \in Range(roomClients[r]) THEN msgs ELSE <<>>]
  BY DEF ToMembers
<1> HIDE DEF told
<1>10. told \in [Client -> Seq(Messages)]
  BY <1>8, <1>9
<1>11. ASSUME NEW d \in Client
       PROVE  Types(told[d]) \subseteq Broadcast /\ (room[d] = NoRoom => Types(told[d]) = {})
  BY <1>6, <1>7, <1>8, <1>9, TypesNone, RoomFacts
<1> QED BY <1>1, <1>4, <1>5, <1>10, <1>11, PlayKeeps DEF RoundAsks

LEMMA GuessKeeps == ASSUME LInv, NEW c \in Client, Guess(c) PROVE LInv'
<1>1. Handles(c, "GUESS") /\ Queue(Nothing) /\ UNCHANGED silent
  BY DEF Guess
<1>2. UNCHANGED <<program, mixed>> /\ RequestsFit' /\ silent' \subseteq RoomId
  BY <1>1, Handled DEF LInv, Typed
<1>3. \/ UNCHANGED server
      \/ \E l : Server!Guess(c, l)
      \/ \E l : Server!GuessThrows(c, l)
  BY DEF Guess
<1>4. CASE UNCHANGED server \/ \E l : Server!Guess(c, l)
  <2>1. UNCHANGED <<clients, nickname, room, rooms, roomCounter, roomClients>>
    BY <1>4 DEF server, Server!Guess, Server!seatVars
  <2>2. \A d \in Client : Types(Nothing[d]) \subseteq Broadcast
    BY NothingTyped
  <2> QED BY <1>1, <2>1, <2>2, NothingTyped, PlayKeeps DEF RoundAsks
<1>5. CASE \E l : Server!GuessThrows(c, l)
  <2>1. Server!Crash
    BY <1>5 DEF Server!GuessThrows
  <2> QED BY <1>1, <1>2, <2>1, CrashKeeps
<1> QED BY <1>3, <1>4, <1>5

LEMMA ResultsTyped ==
  ASSUME NEW r
  PROVE  /\ Results(r) \in Seq(Messages)
         /\ Types(Results(r)) \subseteq {"RESULT"} /\ Types(Results(r)) \subseteq Broadcast
<1> DEFINE a == IF Server!TimedOut(r) THEN <<Msg("RESULT")>> ELSE <<>>
           b == IF Server!AllClientsFinished(r) THEN <<Msg("RESULT")>> ELSE <<>>
<1>1. /\ <<Msg("RESULT")>> \in Seq(Messages) /\ Types(<<Msg("RESULT")>>) \subseteq {"RESULT"}
      /\ <<>> \in Seq(Messages) /\ Types(<<>>) = {}
  BY MsgTyped, TypesOne, TypesNone DEF MessageTypes
<1>2. a \in Seq(Messages) /\ Types(a) \subseteq {"RESULT"}
  BY <1>1
<1>3. b \in Seq(Messages) /\ Types(b) \subseteq {"RESULT"}
  BY <1>1
<1>4. Results(r) = a \o b
  BY DEF Results
<1> HIDE DEF a, b
<1>5. a \o b \in Seq(Messages) /\ Types(a \o b) = Types(a) \cup Types(b)
  BY <1>2, <1>3, TypesTogether
<1> QED BY <1>2, <1>3, <1>4, <1>5 DEF Broadcast

LEMMA SecondKeeps == ASSUME LInv, NEW due \in SUBSET RoomId, SecondElapsed(due) PROVE LInv'
<1>1. UNCHANGED <<requests, mixed, program, silent>>
  BY DEF SecondElapsed
<1>2. SeatInv /\ silent' \subseteq RoomId /\ Typed /\ Connections
  BY <1>1 DEF LInv, Typed
<1>3. conn' = conn /\ RequestsFit'
  BY <1>1 DEF LInv, RequestsFit, program
<1> DEFINE told == [c \in Client |-> IF room[c] \in due /\ c \in Server!Members(room[c])
                                     THEN Results(room[c]) ELSE <<>>]
<1>4. CASE Server!Tick(due) /\ Queue(told)
  <2>1. SeatInv' /\ UNCHANGED <<up, clients, nickname, room>>
    BY <1>2, <1>4, TickKeepsSeats
  <2>2. up
    BY <1>4 DEF Server!Tick
  <2>3. \A d \in Client : told[d] \in Seq(Messages) /\ Types(told[d]) \subseteq Broadcast
    BY ResultsTyped, TypesNone
  <2>4. \A d \in Client : room[d] = NoRoom => Types(told[d]) = {}
    BY TypesNone, RoomFacts
  <2>5. told \in [Client -> Seq(Messages)]
    BY <2>3
  <2>6. Queue(told)
    BY <1>4
  <2> HIDE DEF told
  <2>7. \A p \in Player : conn[p] # NoClient => conn[p] \in clients'
    BY <1>2, <2>1 DEF Connections
  <2>8. /\ Typed' /\ Connections'
        /\ \A d \in Client : Held(d) =>
             Types(sendingBuffer'[d]) = Types(sendingBuffer[d]) \cup Types(told[d])
    BY <1>1, <1>2, <2>5, <2>6, <2>7, QueueKeeps
  <2>9. ASSUME NEW d \in Client
        PROVE  Follow(requests'[d], nickname'[d], room'[d]) /\ (Held(d) => Keeps(d))
    <3>1. nickname'[d] = nickname[d] /\ room'[d] = room[d] /\ requests'[d] = requests[d]
      BY <1>1, <2>1
    <3>2. Follow(requests'[d], nickname'[d], room'[d])
      BY <2>2, <3>1 DEF LInv, RequestsFollow
    <3>3. ASSUME Held(d) PROVE Keeps(d)
      BY <2>3, <2>4, <2>8, <3>1, <3>3, OthersKeep
    <3> QED BY <3>2, <3>3
  <2> QED BY <1>1, <1>3, <2>1, <2>2, <2>8, <2>9, HandlerKeeps
<1>5. CASE Server!TickOverruns(due) /\ Queue(Nothing)
  <2>1. Server!Crash
    BY <1>5 DEF Server!TickOverruns
  <2> QED BY <1>1, <1>2, <1>3, <1>5, <2>1, CrashKeeps
<1> QED BY <1>4, <1>5 DEF SecondElapsed

LEMMA ServerKeeps == ASSUME LInv, ServerNext PROVE LInv'
<1>1. ASSUME NEW due \in SUBSET Server!RoomId, SecondElapsed(due) PROVE LInv'
  BY <1>1, SecondKeeps DEF RoomId
<1> QED BY <1>1, LoginKeeps, CreateKeeps, JoinKeeps, LeaveKeeps, StartKeeps, GuessKeeps,
           DisconnectKeeps DEF ServerNext

-----------------------------------------------------------------------------
(***************************************************************************)
(* The programs' own steps.                                                *)
(***************************************************************************)

\* A step of p's program is no business of other programs and their connections.
LEMMA OwnStepKeeps ==
  ASSUME LInv, NEW p \in Player, Typed', RequestsFit', SeatInv', Connections', up' = up,
         \A q \in Player \ {p} :
           /\ conn'[q] = conn[q] /\ scene'[q] = scene[q] /\ waiting'[q] = waiting[q]
           /\ canConnect'[q] = canConnect[q] /\ timer'[q] = timer[q]
           /\ q \in astray => q \in astray',
         \A c \in Client : c # conn[p] /\ c # conn'[p] =>
           /\ requests'[c] = requests[c] /\ sendingBuffer'[c] = sendingBuffer[c]
           /\ nickname'[c] = nickname[c] /\ room'[c] = room[c],
         up => \A c \in Client : c = conn[p] \/ c = conn'[p] =>
                 Follow(requests'[c], nickname'[c], room'[c]),
         up /\ p \notin astray' => SceneFits(p)'
  PROVE  LInv'
<1>1. CASE ~up
  BY <1>1 DEF LInv
<1>2. CASE up
  <2>1. RequestsFollow'
    BY <1>2 DEF LInv, RequestsFollow
  <2>2. ASSUME NEW q \in Player, q # p, q \notin astray' PROVE SceneFits(q)'
    <3>1. SceneFits(q)
      BY <1>2, <2>2 DEF LInv, ScenesFit
    <3>2. CASE conn[q] = NoClient
      BY <2>2, <3>1, <3>2 DEF SceneFits
    <3>3. CASE conn[q] # NoClient
      <4>1. conn[q] \in Client /\ conn[q] # conn[p]
        BY <2>2, <3>3 DEF LInv, Typed, Connections
      <4>2. conn'[q] = conn[q]
        BY <2>2
      <4>3. conn[q] # conn'[p]
        BY <2>2, <3>3, <4>2 DEF Connections
      <4> QED BY <2>2, <3>1, <3>3, <4>1, <4>2, <4>3 DEF SceneFits
    <3> QED BY <3>2, <3>3
  <2>3. ScenesFit'
    BY <1>2, <2>2 DEF ScenesFit
  <2> QED BY <2>1, <2>3 DEF LInv
<1> QED BY <1>1, <1>2

LEMMA ServerSame ==
  ASSUME SeatInv, UNCHANGED server
  PROVE  SeatInv' /\ UNCHANGED <<up, clients, nickname, room>>
<1>1. UNCHANGED <<up, clients, nickname, room, rooms, roomCounter, roomClients>>
  BY DEF server
<1> QED BY <1>1, SeatsUntouched

\* The connect scene, and a box that closes.
LEMMA LocalStepKeeps ==
  ASSUME LInv, NEW p \in Player, RequestsFit',
         \/ p \notin astray /\ ConnectButtonHit(p)
         \/ ConnectFails(p) \/ ConnectionTimedOut(p) \/ LeaveGame(p) \/ CloseResultWindow(p)
  PROVE  LInv'
<1>1. /\ UNCHANGED <<server, network, conn, waiting, roomPlayers, isRoomOwner>>
      /\ silent' = silent /\ astray \subseteq astray' /\ astray' \subseteq astray \cup {p}
  BY DEF ConnectButtonHit, ConnectFails, ConnectionTimedOut, LeaveGame, CloseResultWindow, lobby,
         AstrayIf
<1>2. UNCHANGED <<requests, sendingBuffer, mixed>>
  BY <1>1 DEF network
<1>3. Typed /\ SeatInv /\ Connections
  BY DEF LInv
<1>4. SeatInv' /\ UNCHANGED <<up, clients, nickname, room>>
  BY <1>1, <1>3, ServerSame
<1>5. Connections'
  BY <1>1, <1>2, <1>3, <1>4 DEF Connections, Held
<1>6. up => \A c \in Client : Follow(requests'[c], nickname'[c], room'[c])
  BY <1>2, <1>4 DEF LInv, RequestsFollow
<1>7. astray' \subseteq Player
  BY <1>1, <1>3 DEF Typed
<1>8. CASE p \notin astray /\ ConnectButtonHit(p)
  <2>1. /\ scene[p] = "connect" /\ astray' = astray
        /\ canConnect' = [canConnect EXCEPT ![p] = FALSE]
        /\ timer' = [timer EXCEPT ![p] = TRUE] /\ connecting' = [connecting EXCEPT ![p] = TRUE]
        /\ UNCHANGED <<scene, resultBoxes>>
    BY <1>8 DEF ConnectButtonHit, Shows
  <2>2. Typed'
    BY <1>1, <1>2, <1>3, <2>1 DEF Typed
  <2>3. ASSUME up PROVE SceneFits(p)'
    <3>1. SceneFits(p)
      BY <1>8, <2>3 DEF LInv, ScenesFit
    <3>2. conn[p] = NoClient
      BY <2>1, <3>1 DEF SceneFits, Fits
    <3>3. timer'[p]
      BY <1>3, <2>1 DEF Typed
    <3> QED BY <1>1, <2>1, <3>2, <3>3 DEF SceneFits
  <2>4. \A q \in Player \ {p} : canConnect'[q] = canConnect[q] /\ timer'[q] = timer[q]
    BY <1>3, <2>1 DEF Typed
  <2> QED BY <1>1, <1>2, <1>4, <1>5, <1>6, <2>1, <2>2, <2>3, <2>4, OwnStepKeeps
<1>9. CASE ConnectFails(p)
  <2>1. /\ connecting' = [connecting EXCEPT ![p] = FALSE]
        /\ UNCHANGED <<scene, resultBoxes, canConnect, timer, astray>>
    BY <1>9 DEF ConnectFails
  <2>2. Typed'
    BY <1>1, <1>2, <1>3, <2>1 DEF Typed
  <2>3. ASSUME up, p \notin astray' PROVE SceneFits(p)'
    BY <1>1, <1>2, <1>4, <2>1, <2>3 DEF LInv, ScenesFit, SceneFits
  <2> QED BY <1>1, <1>2, <1>4, <1>5, <1>6, <2>1, <2>2, <2>3, OwnStepKeeps
<1>10. CASE ConnectionTimedOut(p)
  <2>1. /\ timer' = [timer EXCEPT ![p] = FALSE] /\ canConnect' = [canConnect EXCEPT ![p] = TRUE]
        /\ UNCHANGED <<scene, resultBoxes, connecting, astray>>
    BY <1>10 DEF ConnectionTimedOut
  <2>2. Typed'
    BY <1>1, <1>2, <1>3, <2>1 DEF Typed
  <2>3. canConnect'[p] /\ \A q \in Player \ {p} : canConnect'[q] = canConnect[q] /\ timer'[q] = timer[q]
    BY <1>3, <2>1 DEF Typed
  <2>4. ASSUME up, p \notin astray' PROVE SceneFits(p)'
    BY <1>1, <1>2, <1>4, <2>1, <2>3, <2>4 DEF LInv, ScenesFit, SceneFits
  <2> QED BY <1>1, <1>2, <1>4, <1>5, <1>6, <2>1, <2>2, <2>3, <2>4, OwnStepKeeps
<1>11. CASE LeaveGame(p)
  <2>1. /\ resultBoxes[p] > 0 /\ resultBoxes' = [resultBoxes EXCEPT ![p] = @ - 1]
        /\ scene' = [scene EXCEPT ![p] = "lobby"]
        /\ scene[p] \notin {"lobby", "game"} => p \in astray'
        /\ UNCHANGED <<canConnect, timer, connecting>>
    BY <1>11 DEF LeaveGame, AstrayIf, dialog
  <2>2. resultBoxes' \in [Player -> Nat]
    BY <1>3, <2>1 DEF Typed
  <2>3. scene' \in [Player -> Scenes]
    BY <1>3, <2>1 DEF Typed, Scenes
  <2>4. Typed'
    BY <1>1, <1>2, <1>3, <1>7, <2>1, <2>2, <2>3 DEF Typed
  <2>5. scene'[p] = "lobby" /\ \A q \in Player \ {p} : scene'[q] = scene[q]
    BY <1>3, <2>1 DEF Typed
  <2>6. ASSUME up, p \notin astray' PROVE SceneFits(p)'
    <3>1. SceneFits(p) /\ scene[p] \in {"lobby", "game"}
      BY <1>1, <2>1, <2>6 DEF LInv, ScenesFit
    <3>2. conn[p] # NoClient /\ AtRoom(nickname[conn[p]], room[conn[p]], requests[conn[p]],
                                        Types(sendingBuffer[conn[p]]))
      BY <3>1 DEF SceneFits, Fits
    <3> QED BY <1>1, <1>2, <1>4, <2>5, <3>2 DEF SceneFits, Fits
  <2> QED BY <1>1, <1>2, <1>4, <1>5, <1>6, <2>1, <2>4, <2>5, <2>6, OwnStepKeeps
<1>12. CASE CloseResultWindow(p)
  <2>1. /\ resultBoxes[p] > 0 /\ resultBoxes' = [resultBoxes EXCEPT ![p] = @ - 1]
        /\ UNCHANGED <<scene, canConnect, timer, connecting, astray>>
    BY <1>12 DEF CloseResultWindow, dialog
  <2>2. resultBoxes' \in [Player -> Nat]
    BY <1>3, <2>1 DEF Typed
  <2>3. Typed'
    BY <1>1, <1>2, <1>3, <2>1, <2>2 DEF Typed
  <2>4. ASSUME up, p \notin astray' PROVE SceneFits(p)'
    BY <1>1, <1>2, <1>4, <2>1, <2>4 DEF LInv, ScenesFit, SceneFits
  <2> QED BY <1>1, <1>2, <1>4, <1>5, <1>6, <2>1, <2>3, <2>4, OwnStepKeeps
<1> QED BY <1>8, <1>9, <1>10, <1>11, <1>12

\* The program has a new connection, on which nothing is under way.
LEMMA ConnectedKeeps ==
  ASSUME LInv, NEW p \in Player, NEW c \in Client, Connected(p, c), RequestsFit'
  PROVE  LInv'
<1>1. /\ conn[p] = NoClient /\ Server!Accept(c) /\ ~Held(c)
      /\ conn' = [conn EXCEPT ![p] = c] /\ scene' = [scene EXCEPT ![p] = "login"]
      /\ timer' = [timer EXCEPT ![p] = FALSE] /\ connecting' = [connecting EXCEPT ![p] = FALSE]
      /\ requests' = [requests EXCEPT ![c] = <<>>] /\ mixed' = mixed \ {c}
      /\ UNCHANGED <<sendingBuffer, isRoomOwner, roomPlayers, resultBoxes, waiting, canConnect,
                     astray, silent>>
  BY DEF Connected, lobby
<1>2. Typed /\ RequestsFit /\ SeatInv /\ Connections
  BY DEF LInv
<1>3. /\ SeatInv' /\ room' = room /\ room[c] = NoRoom
      /\ nickname' = [nickname EXCEPT ![c] = NoNick] /\ clients' = clients \cup {c}
  BY <1>1, <1>2, AcceptKeepsSeats
<1>4. up' = up
  BY <1>1 DEF Server!Accept
<1>5. Typed'
  BY <1>1, <1>2 DEF Typed, Scenes
<1>6. /\ conn'[p] = c /\ scene'[p] = "login" /\ requests'[c] = <<>> /\ nickname'[c] = NoNick
      /\ \A q \in Player \ {p} : /\ conn'[q] = conn[q] /\ scene'[q] = scene[q]
                                 /\ timer'[q] = timer[q]
      /\ \A d \in Client \ {c} : requests'[d] = requests[d] /\ nickname'[d] = nickname[d]
  BY <1>1, <1>2, <1>3 DEF Typed, RequestsFit, SeatInv, SeatsTyped
<1>7. c # NoClient
  BY LobbyAssumption
<1>8. ~waiting[p] /\ sendingBuffer[c] = <<>> /\ \A q \in Player : conn[q] # c
  BY <1>1, <1>2 DEF Connections, Held
<1>9. Connections'
  <2>1. \A q1, q2 \in Player : conn'[q1] = conn'[q2] /\ conn'[q1] # NoClient => q1 = q2
    BY <1>2, <1>6, <1>8 DEF Connections
  <2>2. \A q \in Player : IF conn'[q] = NoClient THEN ~waiting'[q] ELSE conn'[q] \in clients'
    BY <1>1, <1>2, <1>3, <1>6, <1>7 DEF Connections
  <2>3. ASSUME NEW d \in Client, ~Held(d)' PROVE sendingBuffer'[d] = <<>>
    <3>1. \A q \in Player : conn'[q] # d
      BY <2>3 DEF Held
    <3>2. ~Held(d)
      BY <1>1, <1>6, <3>1, LobbyAssumption DEF Held
    <3> QED BY <1>1, <1>2, <3>2 DEF Connections
  <2> QED BY <2>1, <2>2, <2>3 DEF Connections
<1>10. Follow(requests'[c], nickname'[c], room'[c])
  BY <1>6, FollowNone
<1>11. SceneFits(p)'
  <2>1. Types(sendingBuffer'[c]) = {}
    BY <1>1, <1>8, TypesNone
  <2>2. Fits("login", waiting'[p], NoNick, NoRoom, <<>>, {})
    BY DEF Fits, AtLogin
  <2> QED BY <1>3, <1>6, <1>7, <2>1, <2>2 DEF SceneFits
<1>12. \A d \in Client : d = conn[p] \/ d = conn'[p] => d = c
  BY <1>1, <1>6, LobbyAssumption
<1> QED BY <1>1, <1>2, <1>3, <1>4, <1>5, <1>6, <1>9, <1>10, <1>11, <1>12, OwnStepKeeps

\* The connection is gone: part of what was asked is still in order, nothing is
\* under way back.
LEMMA HangsKeeps ==
  ASSUME LInv, NEW p \in Player, RequestsFit', LoseConnection(p) \/ RestartProgram(p)
  PROVE  LInv'
<1> DEFINE c == conn[p]
<1>1. /\ Hangs(p) /\ UNCHANGED <<server, silent>>
      /\ \A q \in Player \ {p} : q \in astray => q \in astray'
      /\ astray' \subseteq astray
  BY DEF LoseConnection, RestartProgram
<1>2. /\ conn' = [conn EXCEPT ![p] = NoClient] /\ scene' = [scene EXCEPT ![p] = "connect"]
      /\ canConnect' = [canConnect EXCEPT ![p] = TRUE] /\ waiting' = [waiting EXCEPT ![p] = FALSE]
      /\ roomPlayers' = [roomPlayers EXCEPT ![p] = <<>>]
      /\ IF c = NoClient THEN UNCHANGED network
         ELSE /\ \E k \in 0..Len(requests[c]) :
                   requests' = [requests EXCEPT ![c] = SubSeq(@, 1, k)]
              /\ sendingBuffer' = [sendingBuffer EXCEPT ![c] = <<>>]
              /\ UNCHANGED mixed
  BY <1>1 DEF Hangs
<1>3. Typed /\ RequestsFit /\ SeatInv /\ Connections
  BY DEF LInv
<1>4. SeatInv' /\ UNCHANGED <<up, clients, nickname, room>>
  BY <1>1, <1>3, ServerSame
<1>5. mixed' = mixed
  BY <1>2 DEF network
<1>6. /\ isRoomOwner' \in [Player -> BOOLEAN] /\ resultBoxes' \in [Player -> Nat]
      /\ timer' \in [Player -> BOOLEAN] /\ connecting' \in [Player -> BOOLEAN]
      /\ \A q \in Player \ {p} : timer'[q] = timer[q]
  <2>1. CASE LoseConnection(p)
    <3>1. UNCHANGED <<isRoomOwner, resultBoxes, timer, connecting>>
      BY <2>1 DEF LoseConnection
    <3> QED BY <1>3, <3>1 DEF Typed
  <2>2. CASE RestartProgram(p)
    <3>1. /\ isRoomOwner' = [isRoomOwner EXCEPT ![p] = FALSE]
          /\ resultBoxes' = [resultBoxes EXCEPT ![p] = 0]
          /\ timer' = [timer EXCEPT ![p] = FALSE]
          /\ connecting' = [connecting EXCEPT ![p] = FALSE]
      BY <2>2 DEF RestartProgram
    <3> QED BY <1>3, <3>1 DEF Typed
  <2> QED BY <2>1, <2>2
<1>7. c # NoClient => c \in Client
  BY <1>3 DEF Typed
<1>8. sendingBuffer' \in [Client -> Seq(Messages)]
  <2>1. sendingBuffer \in [Client -> Seq(Messages)] /\ <<>> \in Seq(Messages)
    BY <1>3 DEF Typed
  <2>2. sendingBuffer' = sendingBuffer \/ sendingBuffer' = [sendingBuffer EXCEPT ![c] = <<>>]
    BY <1>2 DEF network
  <2> HIDE DEF c
  <2> QED BY <2>1, <2>2
<1>9. /\ conn' \in [Player -> Client \cup {NoClient}] /\ scene' \in [Player -> Scenes]
      /\ canConnect' \in [Player -> BOOLEAN] /\ waiting' \in [Player -> BOOLEAN]
      /\ roomPlayers' \in [Player -> Seq(Player)]
  BY <1>2, <1>3 DEF Typed, Scenes
<1>10. Typed'
  BY <1>1, <1>3, <1>5, <1>6, <1>8, <1>9 DEF Typed
<1>11. /\ conn'[p] = NoClient /\ scene'[p] = "connect" /\ canConnect'[p] /\ ~waiting'[p]
       /\ \A q \in Player \ {p} : /\ conn'[q] = conn[q] /\ scene'[q] = scene[q]
                                  /\ waiting'[q] = waiting[q] /\ canConnect'[q] = canConnect[q]
  BY <1>2, <1>3 DEF Typed
<1>12. \A d \in Client : d # c => requests'[d] = requests[d] /\ sendingBuffer'[d] = sendingBuffer[d]
  BY <1>2, <1>3, <1>7 DEF network, Typed, RequestsFit
<1>13. c # NoClient => sendingBuffer'[c] = <<>>
  BY <1>2, <1>3, <1>7 DEF Typed
<1>14. Connections'
  <2>1. \A q1, q2 \in Player : conn'[q1] = conn'[q2] /\ conn'[q1] # NoClient => q1 = q2
    BY <1>3, <1>11 DEF Connections
  <2>2. \A q \in Player : IF conn'[q] = NoClient THEN ~waiting'[q] ELSE conn'[q] \in clients'
    BY <1>3, <1>4, <1>11 DEF Connections
  <2>3. ASSUME NEW d \in Client, ~Held(d)' PROVE sendingBuffer'[d] = <<>>
    <3>1. CASE d = c
      BY <1>13, <3>1, LobbyAssumption
    <3>2. CASE d # c
      <4>1. \A q \in Player : conn'[q] # d
        BY <2>3 DEF Held
      <4>2. ~Held(d)
        BY <1>11, <3>2, <4>1 DEF Held
      <4> QED BY <1>3, <1>12, <3>2, <4>2 DEF Connections
    <3> QED BY <3>1, <3>2
  <2> QED BY <2>1, <2>2, <2>3 DEF Connections
<1>15. ASSUME up, c \in Client PROVE Follow(requests'[c], nickname'[c], room'[c])
  <2>1. Follow(requests[c], nickname[c], room[c]) /\ requests[c] \in Seq(Request)
    BY <1>3, <1>15 DEF LInv, RequestsFollow, RequestsFit
  <2>2. c # NoClient
    BY <1>15, LobbyAssumption
  <2>3. PICK k \in 0..Len(requests[c]) : requests' = [requests EXCEPT ![c] = SubSeq(@, 1, k)]
    BY <1>2, <2>2
  <2>4. requests'[c] = SubSeq(requests[c], 1, k)
    BY <1>3, <1>15, <2>3 DEF RequestsFit
  <2>5. Follow(SubSeq(requests[c], 1, k), nickname[c], room[c])
    BY <2>1, FollowCut
  <2> QED BY <1>4, <2>4, <2>5
<1>16. SceneFits(p)'
  BY <1>11 DEF SceneFits
<1>17. \A d \in Client : d = conn[p] \/ d = conn'[p] => d = c
  BY <1>11, LobbyAssumption
<1>18. \A d \in Client : nickname'[d] = nickname[d] /\ room'[d] = room[d]
  BY <1>4
<1>19. up => \A d \in Client : d = conn[p] \/ d = conn'[p] =>
               Follow(requests'[d], nickname'[d], room'[d])
  BY <1>15, <1>17
<1> HIDE DEF c
<1>20. \A d \in Client : d # conn[p] /\ d # conn'[p] =>
         /\ requests'[d] = requests[d] /\ sendingBuffer'[d] = sendingBuffer[d]
         /\ nickname'[d] = nickname[d] /\ room'[d] = room[d]
  BY <1>12, <1>18 DEF c
<1> QED BY <1>1, <1>4, <1>6, <1>10, <1>11, <1>14, <1>16, <1>19, <1>20, OwnStepKeeps

\* With x sent, p's requests are in order and the scene s fits.
MaySend(p, x, s, waits) ==
  LET c == conn[p]
      u == Append(requests[c], x)
  IN /\ Follow(u, nickname[c], room[c])
     /\ p \notin astray => Fits(s, waits, nickname[c], room[c], u, Types(sendingBuffer[c]))

\* A request is sent: the scene that sends it is one that may.
LEMMA SendKeeps ==
  ASSUME LInv, NEW p \in Player, conn[p] # NoClient, RequestsFit',
         NEW x \in Request, requests' = [requests EXCEPT ![conn[p]] = Append(@, x)],
         UNCHANGED <<server, conn, sendingBuffer, mixed, silent, astray, resultBoxes, dialog>>,
         isRoomOwner' \in [Player -> BOOLEAN], roomPlayers' \in [Player -> Seq(Player)],
         NEW s \in Scenes, scene' = [scene EXCEPT ![p] = s],
         NEW w \in BOOLEAN, waiting' = [waiting EXCEPT ![p] = w],
         up => MaySend(p, x, s, w)
  PROVE  LInv'
<1> DEFINE c == conn[p]
           u == Append(requests[c], x)
<1>1. Typed /\ RequestsFit /\ SeatInv /\ Connections
  BY DEF LInv
<1>2. SeatInv' /\ UNCHANGED <<up, clients, nickname, room>>
  BY <1>1, ServerSame
<1>3. c \in Client
  BY <1>1 DEF Typed
<1>4. /\ requests'[c] = u /\ \A d \in Client : d # c => requests'[d] = requests[d]
      /\ scene'[p] = s /\ waiting'[p] = w
      /\ \A q \in Player \ {p} : scene'[q] = scene[q] /\ waiting'[q] = waiting[q]
  BY <1>1, <1>3 DEF RequestsFit, Typed
<1>5. UNCHANGED <<canConnect, timer, connecting>>
  BY DEF dialog
<1>6. Typed'
  BY <1>1, <1>5 DEF Typed
<1>7. Connections'
  BY <1>1, <1>2, <1>4 DEF Connections, Held
<1>8. up => Follow(requests'[c], nickname'[c], room'[c])
  BY <1>2, <1>4 DEF MaySend
<1>9. up /\ p \notin astray' => SceneFits(p)'
  BY <1>2, <1>4 DEF MaySend, SceneFits
<1>10. \A d \in Client : d # conn[p] /\ d # conn'[p] =>
         /\ requests'[d] = requests[d] /\ sendingBuffer'[d] = sendingBuffer[d]
         /\ nickname'[d] = nickname[d] /\ room'[d] = room[d]
  BY <1>2, <1>4
<1>11. up => \A d \in Client : d = conn[p] \/ d = conn'[p] =>
               Follow(requests'[d], nickname'[d], room'[d])
  BY <1>8
<1> QED BY <1>2, <1>4, <1>5, <1>6, <1>7, <1>9, <1>10, <1>11, OwnStepKeeps

LEMMA SendIs ==
  ASSUME NEW p \in Player, NEW type, NEW arg, Send(p, type, arg), conn[p] # NoClient
  PROVE  /\ requests' = [requests EXCEPT ![conn[p]] = Append(@, [type |-> type, arg |-> arg])]
         /\ UNCHANGED <<sendingBuffer, mixed>>
BY DEF Send

\* The scene of a player who clicks fits: only that of a program in use is left.
LEMMA ClickersScene ==
  ASSUME LInv, up, NEW p \in Player, p \notin astray
  PROVE  /\ conn[p] = NoClient => scene[p] = "connect"
         /\ conn[p] # NoClient =>
              /\ Follow(requests[conn[p]], nickname[conn[p]], room[conn[p]])
              /\ Fits(scene[p], waiting[p], nickname[conn[p]], room[conn[p]], requests[conn[p]],
                      Types(sendingBuffer[conn[p]]))
<1>1. SceneFits(p) /\ (conn[p] # NoClient => conn[p] \in Client)
  BY DEF LInv, ScenesFit, Typed
<1> QED BY <1>1 DEF SceneFits, LInv, RequestsFollow

LEMMA AskKeeps ==
  ASSUME LInv, NEW p \in Player, p \notin astray, RequestsFit', NEW type, NEW arg,
         NEW x \in Request, x = [type |-> type, arg |-> arg], Ask(p, type, arg),
         isRoomOwner' \in [Player -> BOOLEAN],
         \/ scene[p] = "login" /\ type = "LOGIN"
         \/ scene[p] = "menu" /\ type \in RoomAsks
         \/ scene[p] = "lobby" /\ type \in RoundAsks
  PROVE  LInv'
<1>1. /\ conn[p] # NoClient /\ ~waiting[p] /\ Send(p, type, arg)
      /\ waiting' = [waiting EXCEPT ![p] = TRUE]
      /\ UNCHANGED <<server, conn, scene, roomPlayers, resultBoxes, dialog, astray, silent>>
  BY DEF Ask
<1>2. /\ requests' = [requests EXCEPT ![conn[p]] = Append(@, x)]
      /\ UNCHANGED <<sendingBuffer, mixed>>
  BY <1>1, SendIs
<1>3. scene[p] \in Scenes /\ scene' = [scene EXCEPT ![p] = scene[p]] /\ waiting[p] = FALSE
      /\ roomPlayers' \in [Player -> Seq(Player)] /\ requests[conn[p]] \in Seq(Request)
  BY <1>1 DEF LInv, Typed, RequestsFit
<1>4. x.type = type
  OBVIOUS
<1>5. ASSUME up
      PROVE  MaySend(p, x, scene[p], TRUE)
  <2> DEFINE c == conn[p]
             u == Append(requests[c], x)
             T == Types(sendingBuffer[c])
  <2>1. /\ Follow(requests[c], nickname[c], room[c])
        /\ Fits(scene[p], FALSE, nickname[c], room[c], requests[c], T)
    BY <1>1, <1>3, <1>5, ClickersScene
  <2>2. requests[c] \in Seq(Request) /\ u = Append(requests[c], x)
    BY <1>3
  <2> HIDE DEF c, u, T
  <2>3. CASE scene[p] = "login" /\ type = "LOGIN"
    <3>1. AtLogin(FALSE, nickname[c], room[c], requests[c], T)
      BY <2>1, <2>3 DEF Fits
    <3>2. Follow(u, nickname[c], room[c]) /\ AtLogin(TRUE, nickname[c], room[c], u, T)
      BY <1>4, <2>2, <2>3, <3>1, AskLogin
    <3> QED BY <2>3, <3>2 DEF Fits, MaySend, c, u, T
  <2>4. CASE scene[p] = "menu" /\ type \in RoomAsks
    <3>1. AtMenu(FALSE, nickname[c], room[c], requests[c], T)
      BY <2>1, <2>4 DEF Fits
    <3>2. Follow(u, nickname[c], room[c]) /\ AtMenu(TRUE, nickname[c], room[c], u, T)
      BY <1>4, <2>1, <2>2, <2>4, <3>1, AskForRoom
    <3> QED BY <2>4, <3>2 DEF Fits, MaySend, c, u, T
  <2>5. CASE scene[p] = "lobby" /\ type \in RoundAsks
    <3>1. AtRoom(nickname[c], room[c], requests[c], T)
      BY <2>1, <2>5 DEF Fits
    <3>2. Follow(u, nickname[c], room[c]) /\ AtRoom(nickname[c], room[c], u, T)
      BY <1>4, <2>1, <2>2, <2>5, <3>1, AskInRoom
    <3> QED BY <2>5, <3>2 DEF Fits, MaySend, c, u, T
  <2> QED BY <2>3, <2>4, <2>5
<1> QED BY <1>1, <1>2, <1>3, <1>5, SendKeeps

\* To leave is to be in the menu at once; a letter changes nothing but the requests.
LEMMA LeaveButtonKeeps ==
  ASSUME LInv, NEW p \in Player, p \notin astray, RequestsFit', LeaveRoomButtonHit(p)
  PROVE  LInv'
<1> DEFINE x == [type |-> "LEAVE_ROOM", arg |-> 0]
<1>1. /\ scene[p] = "lobby" /\ Send(p, "LEAVE_ROOM", 0)
      /\ isRoomOwner' = [isRoomOwner EXCEPT ![p] = FALSE]
      /\ roomPlayers' = [roomPlayers EXCEPT ![p] = <<>>]
      /\ scene' = [scene EXCEPT ![p] = "menu"]
      /\ UNCHANGED <<server, conn, resultBoxes, waiting, dialog, astray, silent>>
  BY DEF LeaveRoomButtonHit, Shows
<1>2. Typed /\ RequestsFit /\ SeatInv /\ Connections
  BY DEF LInv
<1>3. isRoomOwner' \in [Player -> BOOLEAN] /\ roomPlayers' \in [Player -> Seq(Player)]
  BY <1>1, <1>2 DEF Typed
<1>4. CASE conn[p] = NoClient
  <2>1. UNCHANGED <<sendingBuffer, mixed>>
    BY <1>1, <1>4 DEF Send, network
  <2>2. SeatInv' /\ UNCHANGED <<up, clients>>
    BY <1>1, <1>2, ServerSame
  <2>3. Typed'
    BY <1>1, <1>2, <1>3, <2>1 DEF Typed, Scenes, dialog
  <2>4. Connections'
    BY <1>1, <1>2, <2>1, <2>2 DEF Connections, Held
  <2>5. ~up
    BY <1>1, <1>4, ClickersScene
  <2> QED BY <2>2, <2>3, <2>4, <2>5 DEF LInv
<1>5. CASE conn[p] # NoClient
  <2>1. /\ x \in Request /\ requests' = [requests EXCEPT ![conn[p]] = Append(@, x)]
        /\ UNCHANGED <<sendingBuffer, mixed>>
    BY <1>1, <1>5, SendIs DEF Request
  <2>2. /\ waiting[p] \in BOOLEAN /\ waiting' = [waiting EXCEPT ![p] = waiting[p]]
        /\ "menu" \in Scenes /\ requests[conn[p]] \in Seq(Request)
    BY <1>1, <1>2, <1>5 DEF Typed, Scenes, RequestsFit
  <2>3. x.type = "LEAVE_ROOM"
    OBVIOUS
  <2> HIDE DEF x
  <2>4. ASSUME up
        PROVE  MaySend(p, x, "menu", waiting[p])
    <3> DEFINE c == conn[p]
               u == Append(requests[c], x)
               T == Types(sendingBuffer[c])
    <3>1. /\ Follow(requests[c], nickname[c], room[c])
          /\ Fits(scene[p], waiting[p], nickname[c], room[c], requests[c], T)
      BY <1>5, <2>4, ClickersScene
    <3>2. AtRoom(nickname[c], room[c], requests[c], T)
      BY <1>1, <3>1 DEF Fits
    <3>3. requests[c] \in Seq(Request) /\ u = Append(requests[c], x)
      BY <2>2
    <3> HIDE DEF c, u, T
    <3>4. Follow(u, nickname[c], room[c]) /\ AtMenu(waiting[p], nickname[c], room[c], u, T)
      BY <2>1, <2>3, <3>1, <3>2, <3>3, AskInRoom
    <3> QED BY <3>4 DEF Fits, MaySend, c, u, T
  <2>5. PICK w \in BOOLEAN, y \in Request : w = waiting[p] /\ y = x
    BY <2>1, <2>2
  <2>6. /\ waiting' = [waiting EXCEPT ![p] = w]
        /\ requests' = [requests EXCEPT ![conn[p]] = Append(@, y)]
    BY <2>1, <2>2, <2>5
  <2>7. (up => MaySend(p, y, "menu", w)) /\ "menu" \in Scenes
    BY <2>2, <2>4, <2>5
  <2>8. UNCHANGED <<server, conn, sendingBuffer, mixed, silent, astray, resultBoxes, dialog>>
    BY <1>1, <2>1
  <2>9. scene' = [scene EXCEPT ![p] = "menu"]
    BY <1>1
  <2> QED BY <1>3, <1>5, <2>6, <2>7, <2>8, <2>9, SendKeeps
<1> QED BY <1>4, <1>5

LEMMA LetterButtonKeeps ==
  ASSUME LInv, NEW p \in Player, p \notin astray, RequestsFit', NEW l \in Letter,
         LetterButtonHit(p, l)
  PROVE  LInv'
<1> DEFINE x == [type |-> "GUESS", arg |-> l]
<1>1. /\ scene[p] = "game" /\ conn[p] # NoClient /\ Send(p, "GUESS", l)
      /\ UNCHANGED <<server, program, silent>>
  BY DEF LetterButtonHit, Shows
<1>2. UNCHANGED <<conn, scene, isRoomOwner, roomPlayers, resultBoxes, waiting, dialog, astray>>
  BY <1>1 DEF program, lobby
<1>3. x \in Request /\ requests' = [requests EXCEPT ![conn[p]] = Append(@, x)]
      /\ UNCHANGED <<sendingBuffer, mixed>>
  BY <1>1, SendIs DEF Request
<1>4. /\ waiting[p] \in BOOLEAN /\ waiting' = [waiting EXCEPT ![p] = waiting[p]]
      /\ scene[p] \in Scenes /\ scene' = [scene EXCEPT ![p] = scene[p]]
      /\ isRoomOwner' \in [Player -> BOOLEAN] /\ roomPlayers' \in [Player -> Seq(Player)]
      /\ requests[conn[p]] \in Seq(Request)
  BY <1>1, <1>2 DEF LInv, Typed, RequestsFit
<1>5. x.type \in RoundAsks
  BY DEF RoundAsks
<1> HIDE DEF x
<1>6. ASSUME up
      PROVE  MaySend(p, x, scene[p], waiting[p])
  <2> DEFINE c == conn[p]
             u == Append(requests[c], x)
             T == Types(sendingBuffer[c])
  <2>1. /\ Follow(requests[c], nickname[c], room[c])
        /\ Fits(scene[p], waiting[p], nickname[c], room[c], requests[c], T)
    BY <1>1, <1>6, ClickersScene
  <2>2. AtRoom(nickname[c], room[c], requests[c], T)
    BY <1>1, <2>1 DEF Fits
  <2>3. requests[c] \in Seq(Request) /\ u = Append(requests[c], x)
    BY <1>4
  <2> HIDE DEF c, u, T
  <2>4. Follow(u, nickname[c], room[c]) /\ AtRoom(nickname[c], room[c], u, T)
    BY <1>3, <1>5, <2>1, <2>2, <2>3, AskInRoom
  <2> QED BY <1>1, <2>4 DEF Fits, MaySend, c, u, T
<1>7. PICK s \in Scenes, w \in BOOLEAN, y \in Request : s = scene[p] /\ w = waiting[p] /\ y = x
  BY <1>3, <1>4
<1>8. /\ scene' = [scene EXCEPT ![p] = s] /\ waiting' = [waiting EXCEPT ![p] = w]
      /\ requests' = [requests EXCEPT ![conn[p]] = Append(@, y)]
  BY <1>3, <1>4, <1>7
<1>9. (up => MaySend(p, y, s, w)) /\ isRoomOwner' \in [Player -> BOOLEAN]
      /\ roomPlayers' \in [Player -> Seq(Player)]
  BY <1>4, <1>6, <1>7
<1>10. UNCHANGED <<server, conn, sendingBuffer, mixed, silent, astray, resultBoxes, dialog>>
  BY <1>1, <1>2, <1>3
<1>11. conn[p] # NoClient
  BY <1>1
<1> QED BY <1>8, <1>9, <1>10, <1>11, SendKeeps

LEMMA ReadyReadKeeps ==
  ASSUME LInv, NEW p \in Player, RequestsFit', ReadyRead(p)
  PROVE  LInv'
<1>1. PICK c, s, T : /\ c = conn[p] /\ s = AfterReading(p, sendingBuffer[c])
                     /\ T = Types(sendingBuffer[c])
  OBVIOUS
<1>2. /\ c # NoClient /\ sendingBuffer[c] # <<>>
      /\ sendingBuffer' = [sendingBuffer EXCEPT ![c] = <<>>]
      /\ mixed' \subseteq mixed \cup {c}
      /\ scene' = [scene EXCEPT ![p] = s.scene]
      /\ isRoomOwner' = [isRoomOwner EXCEPT ![p] = s.isRoomOwner]
      /\ roomPlayers' = [roomPlayers EXCEPT ![p] = s.roomPlayers]
      /\ resultBoxes' = [resultBoxes EXCEPT ![p] = s.resultBoxes]
      /\ waiting' = [waiting EXCEPT ![p] = s.waiting]
      /\ astray' = IF s.astray THEN astray \cup {p} ELSE astray
      /\ UNCHANGED <<server, requests, silent, conn, dialog>>
  BY <1>1 DEF ReadyRead, AstrayIf
<1>3. Typed /\ RequestsFit /\ SeatInv /\ Connections
  BY DEF LInv
<1>4. SeatInv' /\ UNCHANGED <<up, clients, nickname, room>>
  BY <1>2, <1>3, ServerSame
<1>5. c \in Client /\ sendingBuffer[c] \in Seq(Messages) /\ requests[c] \in Seq(Request)
  BY <1>1, <1>2, <1>3 DEF Typed, RequestsFit
<1>6. /\ BeforeReading(p) \in ProgramState
      /\ BeforeReading(p).scene = scene[p] /\ BeforeReading(p).waiting = waiting[p]
  BY <1>3 DEF BeforeReading, ProgramState, Typed
<1>7. Outcome(BeforeReading(p), T, s)
  BY <1>1, <1>5, <1>6, ReadingOutcome
<1>8. /\ s.scene \in Scenes /\ s.isRoomOwner \in BOOLEAN /\ s.roomPlayers \in Seq(Player)
      /\ s.resultBoxes \in Nat /\ s.waiting \in BOOLEAN
  BY <1>7 DEF Outcome, ProgramState
<1>9. T # {}
  <2>1. 1 \in 1..Len(sendingBuffer[c])
    BY <1>2, <1>5
  <2>2. sendingBuffer[c][1] \in Range(sendingBuffer[c])
    BY <1>5, <2>1 DEF Range
  <2> QED BY <1>1, <2>2 DEF Types
<1>10. sendingBuffer' \in [Client -> Seq(Messages)]
  <2>1. <<>> \in Seq(Messages)
    OBVIOUS
  <2> QED BY <1>2, <1>3, <2>1 DEF Typed
<1>11. Typed'
  <2>1. /\ scene' \in [Player -> Scenes] /\ isRoomOwner' \in [Player -> BOOLEAN]
        /\ roomPlayers' \in [Player -> Seq(Player)] /\ resultBoxes' \in [Player -> Nat]
        /\ waiting' \in [Player -> BOOLEAN]
    BY <1>2, <1>3, <1>8 DEF Typed
  <2>2. mixed' \subseteq Client /\ astray' \subseteq Player /\ silent' \subseteq RoomId
    BY <1>2, <1>3, <1>5 DEF Typed
  <2>3. /\ conn' \in [Player -> Client \cup {NoClient}] /\ canConnect' \in [Player -> BOOLEAN]
        /\ timer' \in [Player -> BOOLEAN] /\ connecting' \in [Player -> BOOLEAN]
    BY <1>2, <1>3 DEF Typed, dialog
  <2> QED BY <1>10, <2>1, <2>2, <2>3 DEF Typed
<1>12. /\ scene'[p] = s.scene /\ waiting'[p] = s.waiting /\ sendingBuffer'[c] = <<>>
       /\ \A q \in Player \ {p} : scene'[q] = scene[q] /\ waiting'[q] = waiting[q]
       /\ \A d \in Client : d # c => sendingBuffer'[d] = sendingBuffer[d]
  BY <1>2, <1>3, <1>5 DEF Typed
<1>13. Connections'
  BY <1>1, <1>2, <1>3, <1>4, <1>12 DEF Connections, Held
<1>14. UNCHANGED <<canConnect, timer>>
  BY <1>2 DEF dialog
<1>15. ASSUME up, p \notin astray' PROVE SceneFits(p)'
  <2>1. p \notin astray /\ ~s.astray
    BY <1>2, <1>15
  <2>2. Fits(scene[p], waiting[p], nickname[c], room[c], requests[c], T)
    BY <1>1, <1>2, <1>15, <2>1, ClickersScene
  <2>3. Fits(s.scene, s.waiting, nickname[c], room[c], requests[c], {})
    BY <1>5, <1>6, <1>7, <1>9, <2>1, <2>2, ReadingFits
  <2>4. Types(sendingBuffer'[c]) = {}
    BY <1>12, TypesNone
  <2> QED BY <1>1, <1>2, <1>4, <1>12, <2>3, <2>4 DEF SceneFits
<1>16. up => \A d \in Client : Follow(requests'[d], nickname'[d], room'[d])
  BY <1>2, <1>4 DEF LInv, RequestsFollow
<1>17. \A d \in Client : d # conn[p] /\ d # conn'[p] =>
         /\ requests'[d] = requests[d] /\ sendingBuffer'[d] = sendingBuffer[d]
         /\ nickname'[d] = nickname[d] /\ room'[d] = room[d]
  BY <1>1, <1>2, <1>4, <1>12
<1>18. \A q \in Player \ {p} : conn'[q] = conn[q] /\ (q \in astray => q \in astray')
  BY <1>2
<1> QED BY <1>4, <1>11, <1>12, <1>13, <1>14, <1>15, <1>16, <1>17, <1>18, OwnStepKeeps

LEMMA ProgramKeeps == ASSUME LInv, NEW p \in Player, ProgramNext(p) PROVE LInv'
<1>1. RequestsFit' /\ Typed
  BY ProgramFits DEF LInv
<1>2. ASSUME NEW type, NEW arg, [type |-> type, arg |-> arg] \in Request, p \notin astray,
             Ask(p, type, arg), isRoomOwner' \in [Player -> BOOLEAN],
             \/ scene[p] = "login" /\ type = "LOGIN"
             \/ scene[p] = "menu" /\ type \in RoomAsks
             \/ scene[p] = "lobby" /\ type \in RoundAsks
      PROVE  LInv'
  BY <1>1, <1>2, AskKeeps
<1>3. CASE p \notin astray /\ LoginButtonHit(p)
  <2>1. [type |-> "LOGIN", arg |-> p] \in Request
    BY DEF Request
  <2> QED BY <1>1, <1>2, <1>3, <2>1 DEF LoginButtonHit, Shows, Typed
<1>4. CASE p \notin astray /\ CreateRoomButtonHit(p)
  <2>1. [type |-> "CREATE_ROOM", arg |-> 0] \in Request /\ "CREATE_ROOM" \in RoomAsks
    BY DEF Request, RoomAsks
  <2> QED BY <1>1, <1>2, <1>4, <2>1 DEF CreateRoomButtonHit, Shows, Typed
<1>5. ASSUME p \notin astray, NEW r \in Server!RoomId, JoinRoomButtonHit(p, r) PROVE LInv'
  <2>1. [type |-> "JOIN_ROOM", arg |-> r] \in Request /\ "JOIN_ROOM" \in RoomAsks
    BY DEF Request, RoomAsks
  <2>2. isRoomOwner' \in [Player -> BOOLEAN]
    BY <1>1, <1>5 DEF JoinRoomButtonHit, Typed
  <2> QED BY <1>2, <1>5, <2>1, <2>2 DEF JoinRoomButtonHit, Shows
<1>6. CASE p \notin astray /\ StartGameButtonHit(p)
  <2>1. [type |-> "START_GAME", arg |-> 0] \in Request /\ "START_GAME" \in RoundAsks
    BY DEF Request, RoundAsks
  <2> QED BY <1>1, <1>2, <1>6, <2>1 DEF StartGameButtonHit, Shows, Typed
<1> QED
  BY <1>1, <1>3, <1>4, <1>5, <1>6, ReadyReadKeeps, HangsKeeps, ConnectedKeeps, LocalStepKeeps,
     LeaveButtonKeeps, LetterButtonKeeps DEF ProgramNext

LEMMA NextLInv == LInv /\ [Next]_vars => LInv'
<1>1. ASSUME LInv, UNCHANGED vars PROVE LInv'
  <2>1. /\ UNCHANGED <<server, requests, sendingBuffer, mixed, conn, scene, isRoomOwner,
                       roomPlayers, resultBoxes, waiting, canConnect, timer, connecting, astray,
                       silent>>
    BY <1>1 DEF vars, network, program, dialog, lobby
  <2>2. SeatInv' /\ UNCHANGED <<up, clients, nickname, room>>
    BY <1>1, <2>1, ServerSame DEF LInv
  <2>3. Typed' /\ RequestsFit'
    BY <1>1, <2>1 DEF LInv, Typed, RequestsFit
  <2>4. Connections'
    BY <1>1, <2>1, <2>2 DEF LInv, Connections, Held
  <2>5. RequestsFollow' <=> RequestsFollow
    BY <2>1, <2>2 DEF RequestsFollow
  <2>6. ScenesFit' <=> ScenesFit
    BY <2>1, <2>2 DEF ScenesFit, SceneFits
  <2> QED BY <1>1, <2>2, <2>3, <2>4, <2>5, <2>6 DEF LInv
<1> QED BY <1>1, ServerKeeps, ProgramKeeps DEF Next

DismissedTyped == dismissed \subseteq Player

LEMMA DismissedKeeps == ASSUME DismissedTyped, [Next]_vars PROVE DismissedTyped'
<1> USE DEF DismissedTyped
<1>1. ASSUME ServerNext PROVE UNCHANGED dismissed
  <2>1. ASSUME NEW c \in Client, NEW type, Handles(c, type) PROVE UNCHANGED dismissed
    BY <2>1 DEF Handles, program
  <2> QED
    BY <1>1, <2>1 DEF ServerNext, Login, CreateRoom, JoinRoom, LeaveRoom, StartGame, Guess,
                      Disconnect, SecondElapsed, program
<1>2. ASSUME NEW p \in Player, ProgramNext(p) PROVE DismissedTyped'
  <2>1. CASE \/ ReadyRead(p) \/ LeaveGame(p) \/ CloseResultWindow(p)
             \/ LoseConnection(p) \/ RestartProgram(p)
    BY <2>1 DEF ReadyRead, LeaveGame, CloseResultWindow, LoseConnection, RestartProgram, Hangs
  <2>2. CASE \/ ConnectFails(p) \/ ConnectionTimedOut(p) \/ ConnectButtonHit(p)
             \/ \E c \in Client : Connected(p, c)
    BY <2>2 DEF ConnectFails, ConnectionTimedOut, ConnectButtonHit, Connected
  <2>3. CASE \/ LoginButtonHit(p) \/ CreateRoomButtonHit(p) \/ StartGameButtonHit(p)
             \/ \E r \in Server!RoomId : JoinRoomButtonHit(p, r)
    BY <2>3 DEF LoginButtonHit, CreateRoomButtonHit, StartGameButtonHit, JoinRoomButtonHit, Ask
  <2>4. CASE LeaveRoomButtonHit(p) \/ \E l \in Letter : LetterButtonHit(p, l)
    BY <2>4 DEF LeaveRoomButtonHit, LetterButtonHit, program
  <2> QED BY <1>2, <2>1, <2>2, <2>3, <2>4 DEF ProgramNext
<1>3. ASSUME UNCHANGED vars PROVE UNCHANGED dismissed
  BY <1>3 DEF vars, program
<1> QED BY <1>1, <1>2, <1>3 DEF Next

LEMMA LInvHolds == Spec => []LInv
<1>1. Init => LInv
  BY InitLInv
<1> QED BY <1>1, NextLInv, PTL DEF Spec

\* Every variable of the programs and the network has its type: what the server
\* sends is a message of Msg.h and a list of nicknames (GameState.h, TcpClient.h).
THEOREM TypeCorrect == Spec => []TypeOK
<1>1. Init => DismissedTyped
  BY DEF Init, DismissedTyped
<1>2. DismissedTyped /\ [Next]_vars => DismissedTyped'
  BY DismissedKeeps
<1>3. LInv /\ DismissedTyped => TypeOK
  BY TypedIs DEF LInv, DismissedTyped
<1> QED BY <1>1, <1>2, <1>3, LInvHolds, PTL DEF Spec

\* Once nothing is under way between a program and the server, the program shows
\* the scene of the player's state on the server, and without a connection one from
\* which it can get a new one, for every number of players, connections and rooms
\* (MainWindow.cpp:30-61, 71-78, 109, ConnectWidget.cpp:20-46, Server.cpp:232-288).
THEOREM ScreenMatchesServerHolds == Spec => []ScreenMatchesServer
<1>1. ASSUME LInv, NEW p \in Player, Settled(p), p \notin astray
      PROVE  LET c == conn[p]
             IN \/ c = NoClient /\ scene[p] = "connect" /\ (canConnect[p] \/ timer[p])
                \/ c # NoClient /\ nickname[c] = NoNick /\ scene[p] = "login"
                \/ c # NoClient /\ nickname[c] # NoNick /\ ~Server!Seated(c)
                     /\ scene[p] = "menu"
                \/ c # NoClient /\ nickname[c] # NoNick /\ Server!Seated(c)
                     /\ scene[p] \in {"lobby", "game"}
  <2>1. SceneFits(p)
    BY <1>1 DEF LInv, ScenesFit, Settled
  <2>2. CASE conn[p] = NoClient
    BY <2>1, <2>2 DEF SceneFits
  <2>3. CASE conn[p] # NoClient
    <3> DEFINE c == conn[p]
    <3>1. requests[c] = <<>> /\ sendingBuffer[c] = <<>> /\ c \in Client
      BY <1>1, <2>3 DEF Settled, LInv, Typed
    <3>2. Fits(scene[p], waiting[p], nickname[c], room[c], <<>>, {})
      BY <2>1, <2>3, <3>1, TypesNone DEF SceneFits
    <3>3. \/ scene[p] = "login" /\ nickname[c] = NoNick /\ room[c] = NoRoom
          \/ scene[p] = "menu" /\ nickname[c] # NoNick /\ room[c] = NoRoom
          \/ scene[p] \in {"lobby", "game"} /\ nickname[c] # NoNick /\ room[c] # NoRoom
      BY <3>2 DEF Fits, AtLogin, AtMenu, AtRoom, Asked
    <3>4. Server!Seated(c) <=> room[c] # NoRoom
      BY <1>1, <3>1, SeatedIs DEF LInv
    <3> HIDE DEF c
    <3>5. c # NoClient
      BY <2>3 DEF c
    <3> QED BY <3>3, <3>4, <3>5 DEF c
  <2> QED BY <2>2, <2>3
<1>2. LInv => ScreenMatchesServer
  BY <1>1 DEF ScreenMatchesServer
<1> QED BY <1>2, LInvHolds, PTL

-----------------------------------------------------------------------------
(***************************************************************************)
(* What a program knows of its room: who is in it, and whether it is the   *)
(* player's.                                                               *)
(***************************************************************************)

\* The list of the players in room r.
Names(r) == List(roomClients[r]).list

\* Whoever has the connection c keeps the seat it has.
Stays(c) == room[c] # NoRoom /\ ~Asked(requests[c], {"LEAVE_ROOM"})

\* The newest list among the messages b is the list L.  With none under way old is
\* L, unless the last write held several.
ListKnown(b, L, old, several) ==
  /\ \A i \in 1..Len(b) :
       b[i].type = "ROOM_USERS_LIST" /\ (\A j \in 1..(i - 1) : b[j].type # "ROOM_USERS_LIST")
         => b[i].list = L
  /\ "ROOM_USERS_LIST" \notin Types(b) => several \/ old = L

\* A program that owns its room by what it knows (owns) or is about to hear (T) does
\* own it, and the owner knows, unless he was not told (quiet).  A transfer that
\* finds the player in the menu is not about the room of the client.
OwnerKnown(s, owns, T, isOwner, quiet) ==
  \/ s = "menu" /\ "ROOM_OWNERSHIP_TRANSFER" \in T
  \/ /\ owns \/ T \cap OwnerNews # {} => isOwner
     /\ isOwner => owns \/ T \cap OwnerNews # {} \/ quiet

NewsFits(p) ==
  LET c == conn[p]
  IN /\ Asked(requests[c], {"JOIN_ROOM"}) => ~isRoomOwner[p]
     /\ Stays(c) =>
          /\ ListKnown(sendingBuffer[c], Names(room[c]), roomPlayers[p], c \in mixed)
          /\ OwnerKnown(scene[p], isRoomOwner[p], Types(sendingBuffer[c]), owner[room[c]] = c,
                        room[c] \in silent)

NewsInv == up => \A p \in Player : p \notin astray /\ conn[p] # NoClient => NewsFits(p)

-----------------------------------------------------------------------------

\* Where all new lists are one list, the newest is that one.
LEMMA ListTold ==
  ASSUME NEW b \in Seq(Messages), NEW t \in Seq(Messages), NEW L, NEW old, NEW several,
         \A m \in Range(t) : m.type = "ROOM_USERS_LIST" => m.list = L,
         "ROOM_USERS_LIST" \in Types(t) \/ ListKnown(b, L, old, several)
  PROVE  ListKnown(Reverse(t) \o b, L, old, several)
<1> DEFINE s == Reverse(t)
<1>1. s \in Seq(Messages) /\ Range(s) = Range(t)
  BY ReverseRange
<1>2. Types(s) = Types(t)
  BY <1>1 DEF Types
<1> HIDE DEF s
<1> DEFINE u == s \o b
<1>3. /\ u \in Seq(Messages) /\ Len(u) = Len(s) + Len(b)
      /\ \A i \in 1..(Len(s) + Len(b)) : u[i] = IF i <= Len(s) THEN s[i] ELSE b[i - Len(s)]
      /\ Len(s) \in Nat /\ Len(b) \in Nat
  BY <1>1, ConcatProperties
<1>4. Types(u) = Types(s) \cup Types(b)
  BY <1>1, TypesTogether
<1> HIDE DEF u
<1>5. "ROOM_USERS_LIST" \in Types(s) =>
        \E k \in 1..Len(s) : s[k].type = "ROOM_USERS_LIST"
  BY <1>1 DEF Types, Range
<1>6. ASSUME NEW i \in 1..Len(u), u[i].type = "ROOM_USERS_LIST",
             \A j \in 1..(i - 1) : u[j].type # "ROOM_USERS_LIST"
      PROVE  u[i].list = L
  <2>1. CASE i <= Len(s)
    <3>1. i \in 1..Len(s) /\ u[i] = s[i]
      BY <1>3, <2>1
    <3>2. s[i] \in Range(s)
      BY <1>1, <3>1 DEF Range
    <3>3. s[i] \in Range(t)
      BY <1>1, <3>2
    <3> QED BY <1>6, <3>1, <3>3
  <2>2. CASE ~(i <= Len(s))
    <3> DEFINE k == i - Len(s)
    <3>1. k \in 1..Len(b) /\ u[i] = b[k]
      BY <1>3, <2>2
    <3>2. \A j \in 1..Len(s) : j \in 1..(i - 1) /\ u[j] = s[j]
      BY <1>3, <2>2
    <3>3. ListKnown(b, L, old, several)
      BY <1>2, <1>5, <1>6, <3>2
    <3>4. ASSUME NEW j \in 1..(k - 1) PROVE b[j].type # "ROOM_USERS_LIST"
      <4>1. j + Len(s) \in 1..(i - 1) /\ j + Len(s) \in 1..(Len(s) + Len(b))
            /\ ~(j + Len(s) <= Len(s)) /\ j + Len(s) - Len(s) = j
        BY <1>3, <2>2, <3>1
      <4>2. u[j + Len(s)] = b[j]
        BY <1>3, <4>1
      <4> QED BY <1>6, <4>1, <4>2
    <3> HIDE DEF k
    <3> QED BY <1>6, <3>1, <3>3, <3>4 DEF ListKnown
  <2> QED BY <2>1, <2>2
<1>7. "ROOM_USERS_LIST" \notin Types(u) => several \/ old = L
  BY <1>2, <1>4 DEF ListKnown
<1> QED BY <1>6, <1>7 DEF ListKnown, u, s

\* What a program knows of the owner stays true when d hears messages of the types T
\* in a step of the server, whatever it shows.
OwnerHears(d, T) ==
  \A s, waits, owns :
    /\ Fits(s, waits, nickname[d], room[d], requests[d], Types(sendingBuffer[d]))
    /\ Asked(requests[d], {"JOIN_ROOM"}) => ~owns
    /\ Stays(d) => OwnerKnown(s, owns, Types(sendingBuffer[d]), owner[room[d]] = d,
                              room[d] \in silent)
    => OwnerKnown(s, owns, Types(sendingBuffer[d]) \cup T, owner'[room'[d]] = d,
                  room'[d] \in silent')

\* So does all that it knows when d hears the messages t.
Hears(d, t) ==
  /\ Asked(requests'[d], {"JOIN_ROOM"}) => Asked(requests[d], {"JOIN_ROOM"})
  /\ Stays(d)' =>
       /\ \A m \in Range(t) : m.type = "ROOM_USERS_LIST" => m.list = Names(room[d])'
       /\ "ROOM_USERS_LIST" \in Types(t) \/ (Stays(d) /\ Names(room[d])' = Names(room[d]))
       /\ OwnerHears(d, Types(t))

LEMMA ToldKeepsNews ==
  ASSUME LInv, up, NewsInv, UNCHANGED <<program, mixed>>,
         NEW told \in [Client -> Seq(Messages)], Queue(told),
         \A d \in Client : Held(d) => Hears(d, told[d])
  PROVE  NewsInv'
<1>1. UNCHANGED <<conn, scene, isRoomOwner, roomPlayers, waiting, astray, mixed>>
  BY DEF program, lobby
<1>2. sendingBuffer' = [c \in Client |-> IF Held(c) THEN Reverse(told[c]) \o sendingBuffer[c]
                                         ELSE <<>>]
  BY DEF Queue
<1>3. ASSUME NEW p \in Player, p \notin astray, conn[p] # NoClient PROVE NewsFits(p)'
  <2> DEFINE c == conn[p]
             b == sendingBuffer[c]
             t == told[c]
  <2>1. c \in Client /\ Held(c) /\ NewsFits(p) /\ c' = c
    BY <1>1, <1>3 DEF LInv, Typed, Held, NewsInv
  <2>2. Fits(scene[p], waiting[p], nickname[c], room[c], requests[c], Types(b))
    BY <1>3, <2>1 DEF LInv, ScenesFit, SceneFits
  <2>3. Hears(c, t)
    BY <2>1
  <2>4. b \in Seq(Messages) /\ t \in Seq(Messages) /\ sendingBuffer'[c] = Reverse(t) \o b
    BY <1>2, <2>1 DEF LInv, Typed
  <2>5. Types(sendingBuffer'[c]) = Types(b) \cup Types(t)
    <3> DEFINE s == Reverse(t)
    <3>1. s \in Seq(Messages) /\ Range(s) = Range(t)
      BY <2>4, ReverseRange
    <3> HIDE DEF s
    <3>2. Types(s \o b) = Types(s) \cup Types(b) /\ Types(s) = Types(t)
      BY <2>4, <3>1, TypesTogether DEF Types
    <3> QED BY <2>4, <3>2 DEF s
  <2>6. Asked(requests[c], {"JOIN_ROOM"}) => ~isRoomOwner[p]
    BY <2>1 DEF NewsFits
  <2>7. Asked(requests'[c], {"JOIN_ROOM"}) => ~isRoomOwner[p]
    BY <2>3, <2>6 DEF Hears
  <2>8. ASSUME Stays(c)'
        PROVE  /\ ListKnown(sendingBuffer'[c], Names(room[c])', roomPlayers[p], c \in mixed)
               /\ OwnerKnown(scene[p], isRoomOwner[p], Types(sendingBuffer'[c]),
                             owner'[room'[c]] = c, room'[c] \in silent')
    <3>1. PICK L : L = Names(room[c])'
      OBVIOUS
    <3>2. Stays(c) => ListKnown(b, Names(room[c]), roomPlayers[p], c \in mixed)
      BY <2>1 DEF NewsFits
    <3>3. Stays(c) => OwnerKnown(scene[p], isRoomOwner[p], Types(b), owner[room[c]] = c,
                                 room[c] \in silent)
      BY <2>1 DEF NewsFits
    <3>4. /\ \A m \in Range(t) : m.type = "ROOM_USERS_LIST" => m.list = L
          /\ "ROOM_USERS_LIST" \in Types(t) \/ (Stays(c) /\ L = Names(room[c]))
          /\ OwnerKnown(scene[p], isRoomOwner[p], Types(b) \cup Types(t), owner'[room'[c]] = c,
                        room'[c] \in silent')
      <4> HIDE DEF c, b, t
      <4>1. OwnerHears(c, Types(t))
        BY <2>3, <2>8 DEF Hears
      <4>2. b = sendingBuffer[c]
        BY DEF b
      <4>3. OwnerKnown(scene[p], isRoomOwner[p], Types(b) \cup Types(t), owner'[room'[c]] = c,
                        room'[c] \in silent')
        BY <2>2, <2>6, <3>3, <4>1, <4>2 DEF OwnerHears
      <4>4. /\ \A m \in Range(t) : m.type = "ROOM_USERS_LIST" => m.list = Names(room[c])'
            /\ "ROOM_USERS_LIST" \in Types(t) \/ (Stays(c) /\ Names(room[c])' = Names(room[c]))
        BY <2>3, <2>8 DEF Hears
      <4> QED BY <3>1, <4>3, <4>4
    <3>5. "ROOM_USERS_LIST" \in Types(t) \/ ListKnown(b, L, roomPlayers[p], c \in mixed)
      BY <3>2, <3>4
    <3> HIDE DEF b, t, c
    <3>6. ListKnown(Reverse(t) \o b, L, roomPlayers[p], c \in mixed)
      BY <2>4, <3>4, <3>5, ListTold
    <3> QED BY <2>4, <2>5, <3>1, <3>4, <3>6
  <2> QED BY <1>1, <2>1, <2>7, <2>8 DEF NewsFits
<1>4. ASSUME up' PROVE NewsInv'
  BY <1>1, <1>3 DEF NewsInv
<1> QED BY <1>4 DEF NewsInv

-----------------------------------------------------------------------------

\* The list of a room is the same if its seats and the names in them are.
LEMMA NamesKept ==
  ASSUME SeatInv, NEW r \in RoomId, roomClients'[r] = roomClients[r],
         \A e \in Client : room[e] # NoRoom => nickname'[e] = nickname[e]
  PROVE  Names(r)' = Names(r)
<1>1. roomClients[r] \in Seq(Client) /\ r # NoRoom
  BY RoomFacts DEF SeatInv, SeatsTyped
<1>2. ASSUME NEW i \in DOMAIN roomClients[r]
      PROVE  nickname'[roomClients[r][i]] = nickname[roomClients[r][i]]
  <2>1. roomClients[r][i] \in Client /\ roomClients[r][i] \in Range(roomClients[r])
    BY <1>1 DEF Range
  <2>2. room[roomClients[r][i]] = r
    BY <2>1 DEF SeatInv, OneSeat
  <2> QED BY <1>1, <2>1, <2>2
<1> QED BY <1>2 DEF Names, List

LEMMA OwnerSame ==
  ASSUME NEW d \in Client, NEW T, T \cap OwnerNews = {}, Stays(d), room'[d] = room[d],
         owner'[room[d]] = d <=> owner[room[d]] = d,
         room[d] \in silent => owner[room[d]] # d \/ room[d] \in silent'
  PROVE  OwnerHears(d, T)
<1> SUFFICES ASSUME NEW s, NEW owns,
                    OwnerKnown(s, owns, Types(sendingBuffer[d]), owner[room[d]] = d,
                               room[d] \in silent)
             PROVE  OwnerKnown(s, owns, Types(sendingBuffer[d]) \cup T, owner'[room'[d]] = d,
                               room'[d] \in silent')
  BY DEF OwnerHears
<1>1. PICK U : U = Types(sendingBuffer[d])
  OBVIOUS
<1>2. (U \cup T) \cap OwnerNews = U \cap OwnerNews
  OBVIOUS
<1> QED BY <1>1, <1>2 DEF OwnerKnown

\* What is news to a program that stays in its room.
News == OwnerNews \cup {"ROOM_USERS_LIST"}

\* The handled request is not LEAVE_ROOM: what is asked yet was asked.
Asking(d) ==
  /\ Asked(requests'[d], {"JOIN_ROOM"}) => Asked(requests[d], {"JOIN_ROOM"})
  /\ Asked(requests[d], {"LEAVE_ROOM"}) => Asked(requests'[d], {"LEAVE_ROOM"})

\* The seats of d's room, its owner and their names are the same.
LEMMA QuietHears ==
  ASSUME SeatInv, NEW d \in Client, NEW t, Types(t) \cap News = {}, Asking(d), room'[d] = room[d],
         \A e \in Client : room[e] # NoRoom => nickname'[e] = nickname[e],
         room[d] # NoRoom =>
           /\ roomClients'[room[d]] = roomClients[room[d]] /\ owner'[room[d]] = owner[room[d]]
           /\ room[d] \in silent => owner[room[d]] # d \/ room[d] \in silent'
  PROVE  Hears(d, t)
<1> SUFFICES ASSUME Stays(d)'
             PROVE  /\ \A m \in Range(t) : m.type # "ROOM_USERS_LIST"
                    /\ Stays(d) /\ Names(room[d])' = Names(room[d])
                    /\ OwnerHears(d, Types(t))
  BY DEF Hears, Asking
<1>1. \A m \in Range(t) : m.type # "ROOM_USERS_LIST"
  BY DEF Types, News
<1>2. Stays(d)
  BY DEF Stays, Asking
<1>3. PICK r \in RoomId : r = room[d]
  BY <1>2 DEF Stays, SeatInv, SeatsTyped
<1>4. Names(r)' = Names(r)
  BY <1>2, <1>3, NamesKept DEF Stays
<1>5. Names(room[d])' = Names(room[d])
  BY <1>3, <1>4 DEF Names, List
<1>6. Types(t) \cap OwnerNews = {}
  BY DEF News
<1>7. OwnerHears(d, Types(t))
  BY <1>2, <1>6, OwnerSame DEF Stays
<1> QED BY <1>1, <1>2, <1>5, <1>7

\* The request that is handled is gone; only a LEAVE_ROOM is missed.
LEMMA HandledAsks ==
  ASSUME LInv, NEW c \in Client, NEW type, Handles(c, type), NEW d \in Client,
         d # c \/ type # "LEAVE_ROOM"
  PROVE  Asking(d)
<1>1. /\ requests[c] \in Seq(Request) /\ requests[c] # <<>> /\ Head(requests[c]).type = type
      /\ requests'[c] = Tail(requests[c]) /\ \A e \in Client \ {c} : requests'[e] = requests[e]
  BY Handled
<1>2. CASE d # c
  BY <1>1, <1>2 DEF Asking
<1>3. CASE d = c
  <2>1. Asked(Tail(requests[c]), {"JOIN_ROOM"}) => Asked(requests[c], {"JOIN_ROOM"})
    BY <1>1, AskedOfTail
  <2>2. Asked(requests[c], {"LEAVE_ROOM"}) => Asked(Tail(requests[c]), {"LEAVE_ROOM"})
    BY <1>1, <1>3, AskedOfTail
  <2> QED BY <1>1, <1>3, <2>1, <2>2 DEF Asking
<1> QED BY <1>2, <1>3

\* A step that seats nobody, names nobody in a room and tells no news.
LEMMA QuietNews ==
  ASSUME LInv, up, NewsInv, UNCHANGED <<program, mixed, room>>,
         NEW told \in [Client -> Seq(Messages)], Queue(told),
         \A d \in Client : Types(told[d]) \cap News = {} /\ Asking(d),
         \A e \in Client : room[e] # NoRoom => nickname'[e] = nickname[e],
         \A d \in Client : room[d] # NoRoom =>
           /\ roomClients'[room[d]] = roomClients[room[d]] /\ owner'[room[d]] = owner[room[d]]
           /\ room[d] \in silent => owner[room[d]] # d \/ room[d] \in silent'
  PROVE  NewsInv'
<1>1. ASSUME NEW d \in Client PROVE Hears(d, told[d])
  <2>1. PICK t : t = told[d]
    OBVIOUS
  <2>2. Types(t) \cap News = {} /\ Asking(d)
    BY <2>1
  <2>3. SeatInv /\ room'[d] = room[d]
    BY DEF LInv
  <2>4. room[d] # NoRoom =>
          /\ roomClients'[room[d]] = roomClients[room[d]] /\ owner'[room[d]] = owner[room[d]]
          /\ room[d] \in silent => owner[room[d]] # d \/ room[d] \in silent'
    OBVIOUS
  <2>5. Hears(d, t)
    BY <2>2, <2>3, <2>4, QuietHears
  <2> QED BY <2>1, <2>5
<1> QED BY <1>1, ToldKeepsNews

LEMMA LoginNews == ASSUME LInv, NewsInv, NEW c \in Client, Login(c) PROVE NewsInv'
<1>1. Handles(c, "LOGIN") /\ UNCHANGED silent
  BY DEF Login
<1>2. /\ up /\ UNCHANGED <<program, mixed>> /\ \A d \in Client : Asking(d)
      /\ requests[c] \in Seq(Request) /\ requests[c] # <<>> /\ Head(requests[c]).type = "LOGIN"
      /\ Head(requests[c]) \in Request /\ Follow(requests[c], nickname[c], room[c])
  BY <1>1, Handled, HandledAsks
<1>3. nickname[c] = NoNick /\ Head(requests[c]).arg \in Player /\ room[c] = NoRoom
  <2>1. nickname[c] = NoNick
    BY <1>2, HeadAlone
  <2> QED BY <1>2, <2>1, RequestFacts DEF LInv, SeatInv, OneSeat
<1>4. ASSUME NEW type \in {"LOGIN_OK", "LOGIN_FAILED"}, NEW told, told = To(c, <<Msg(type)>>)
      PROVE  /\ told \in [Client -> Seq(Messages)]
             /\ \A d \in Client : Types(told[d]) \cap News = {}
  <2>1. type \in MessageTypes /\ type \notin News
    BY DEF MessageTypes, News, OwnerNews
  <2>2. /\ told \in [Client -> Seq(Messages)] /\ Types(told[c]) = {type}
        /\ \A d \in Client \ {c} : Types(told[d]) = {}
    BY <1>4, <2>1, ToldOne
  <2> QED BY <2>1, <2>2
<1>5. CASE Server!Login(c, Head(requests[c]).arg) /\ Queue(To(c, <<Msg("LOGIN_OK")>>))
  <2>1. PICK told : told = To(c, <<Msg("LOGIN_OK")>>)
    OBVIOUS
  <2>2. /\ nickname' = [nickname EXCEPT ![c] = Head(requests[c]).arg]
        /\ UNCHANGED <<room, roomClients, owner>>
    BY <1>5 DEF Server!Login, Server!seatVars
  <2>3. \A e \in Client : room[e] # NoRoom => nickname'[e] = nickname[e]
    BY <1>3, <2>2 DEF LInv, SeatInv, SeatsTyped
  <2>4. Queue(told)
    BY <1>5, <2>1
  <2>5. told \in [Client -> Seq(Messages)] /\ \A d \in Client : Types(told[d]) \cap News = {}
    BY <1>4, <2>1
  <2> QED BY <1>1, <1>2, <2>2, <2>3, <2>4, <2>5, QuietNews
<1>6. CASE Queue(To(c, <<Msg("LOGIN_FAILED")>>)) /\ UNCHANGED server
  <2>1. PICK told : told = To(c, <<Msg("LOGIN_FAILED")>>)
    OBVIOUS
  <2>2. UNCHANGED <<nickname, room, roomClients, owner>>
    BY <1>6 DEF server
  <2>4. Queue(told)
    BY <1>6, <2>1
  <2>5. told \in [Client -> Seq(Messages)] /\ \A d \in Client : Types(told[d]) \cap News = {}
    BY <1>4, <2>1
  <2> QED BY <1>1, <1>2, <2>2, <2>4, <2>5, QuietNews
<1> QED BY <1>5, <1>6 DEF Login

LEMMA CrashNews == ASSUME Server!Crash PROVE NewsInv'
BY DEF Server!Crash, NewsInv

\* A start, a guess and a tick tell nothing about the room itself.
LEMMA NotNews == ASSUME NEW T, T \subseteq {"GAME_STARTED", "RESULT"} PROVE T \cap News = {}
BY DEF News, OwnerNews

LEMMA StartNews == ASSUME LInv, NewsInv, NEW c \in Client, StartGame(c) PROVE NewsInv'
<1>1. Handles(c, "START_GAME") /\ UNCHANGED silent
  BY DEF StartGame
<1>2. up /\ UNCHANGED <<program, mixed>> /\ \A d \in Client : Asking(d)
  BY <1>1, Handled, HandledAsks
<1>3. CASE room[c] = NoRoom
  <2>1. Queue(Nothing) /\ UNCHANGED <<nickname, room, roomClients, owner>>
    BY <1>3 DEF StartGame, NoRoom, server
  <2>2. Nothing \in [Client -> Seq(Messages)] /\ \A d \in Client : Types(Nothing[d]) \cap News = {}
    BY NothingTyped
  <2> QED BY <1>1, <1>2, <2>1, <2>2, QuietNews
<1>4. CASE room[c] # NoRoom
  <2>1. PICK msgs, told : msgs = <<Msg("GAME_STARTED")>> /\ told = ToMembers(roomClients[room[c]], msgs)
    OBVIOUS
  <2>2. Queue(told) /\ UNCHANGED <<nickname, room, roomClients, owner>>
    BY <1>4, <2>1 DEF StartGame, NoRoom, Server!StartGame
  <2>3. msgs \in Seq(Messages) /\ Types(msgs) = {"GAME_STARTED"}
    <3>1. Types(msgs) = {Msg("GAME_STARTED").type}
      BY <2>1, TypesOne
    <3> QED BY <2>1, <3>1, MsgTyped DEF MessageTypes
  <2>4. /\ told \in [Client -> Seq(Messages)]
        /\ \A d \in Client : Types(told[d]) \subseteq {"GAME_STARTED", "RESULT"}
    BY <2>1, <2>3, TypesNone DEF ToMembers
  <2>5. \A d \in Client : Types(told[d]) \cap News = {}
    BY <2>4, NotNews
  <2> QED BY <1>1, <1>2, <2>2, <2>4, <2>5, QuietNews
<1> QED BY <1>3, <1>4

LEMMA GuessNews == ASSUME LInv, NewsInv, NEW c \in Client, Guess(c) PROVE NewsInv'
<1>1. Handles(c, "GUESS") /\ Queue(Nothing) /\ UNCHANGED silent
  BY DEF Guess
<1>2. up /\ UNCHANGED <<program, mixed>> /\ \A d \in Client : Asking(d)
  BY <1>1, Handled, HandledAsks
<1>3. CASE UNCHANGED server \/ \E l : Server!Guess(c, l)
  <2>1. UNCHANGED <<nickname, room, roomClients, owner>>
    BY <1>3 DEF server, Server!Guess, Server!seatVars
  <2>2. Nothing \in [Client -> Seq(Messages)] /\ \A d \in Client : Types(Nothing[d]) \cap News = {}
    BY NothingTyped
  <2> QED BY <1>1, <1>2, <2>1, <2>2, QuietNews
<1>4. CASE \E l : Server!GuessThrows(c, l)
  BY <1>4, CrashNews DEF Server!GuessThrows
<1> QED BY <1>3, <1>4 DEF Guess

LEMMA SecondNews == ASSUME LInv, NewsInv, NEW due \in SUBSET RoomId, SecondElapsed(due) PROVE NewsInv'
<1>1. UNCHANGED <<requests, mixed, program, silent>> /\ \A d \in Client : Asking(d)
  BY DEF SecondElapsed, Asking
<1>2. PICK told : told = [c \in Client |-> IF room[c] \in due /\ c \in Server!Members(room[c])
                                           THEN Results(room[c]) ELSE <<>>]
  OBVIOUS
<1>3. CASE Server!Tick(due) /\ Queue(told)
  <2>1. /\ up /\ UNCHANGED <<nickname, room, roomClients>>
        /\ owner' = [r \in RoomId |-> IF r \in rooms /\ roomClients[r] # <<>> THEN owner[r]
                                      ELSE NoClient]
    BY <1>3 DEF Server!Tick, Server!RoomsKept, Server!clientVars, RoomId
  <2>2. ASSUME NEW d \in Client, room[d] # NoRoom
        PROVE  owner'[room[d]] = owner[room[d]]
    <3>1. room[d] \in RoomId /\ d \in Range(roomClients[room[d]])
      BY <2>2 DEF LInv, SeatInv, SeatsTyped, OneSeat
    <3>2. roomClients[room[d]] # <<>>
      BY <3>1 DEF Range
    <3>3. room[d] \in rooms
      BY <3>1, <3>2 DEF LInv, SeatInv, OneSeat
    <3> QED BY <2>1, <3>1, <3>2, <3>3
  <2>3. ASSUME NEW r PROVE Results(r) \in Seq(Messages) /\ Types(Results(r)) \cap News = {}
    BY ResultsTyped, NotNews
  <2>4. \A d \in Client : told[d] \in Seq(Messages) /\ Types(told[d]) \cap News = {}
    BY <1>2, <2>3, TypesNone
  <2>5. told \in [Client -> Seq(Messages)]
    BY <1>2, <2>4
  <2> QED BY <1>1, <1>3, <2>1, <2>2, <2>4, <2>5, QuietNews
<1>4. CASE Server!TickOverruns(due)
  BY <1>4, CrashNews DEF Server!TickOverruns
<1> QED BY <1>2, <1>3, <1>4 DEF SecondElapsed

-----------------------------------------------------------------------------

\* An owner is a client, or the place of one.
OwnerTyped == owner \in [RoomId -> Client \cup {NoClient}]

LEMMA OwnerStays ==
  ASSUME SeatInv, OwnerTyped, [Server!Next]_Server!vars
  PROVE  OwnerTyped'
<1>1. CASE UNCHANGED Server!vars
  BY <1>1 DEF Server!vars, Server!seatVars, OwnerTyped
<1>2. ASSUME NEW c \in Client, Server!Accept(c) \/ \E n \in Player : Server!Login(c, n) PROVE OwnerTyped'
  BY <1>2 DEF Server!Accept, Server!Login, Server!seatVars, OwnerTyped
<1>3. ASSUME NEW c \in Client, Server!CreateRoom(c) PROVE OwnerTyped'
  BY <1>3 DEF Server!CreateRoom, OwnerTyped
<1>4. ASSUME Server!Crash PROVE OwnerTyped'
  BY <1>4 DEF Server!Crash, Server!seatVars, OwnerTyped
<1>5. ASSUME NEW c \in Client, NEW r \in RoomId,
             Server!JoinRoom(c, r) \/ Server!RejoinRoom(c, r) \/ Server!RejoinThrows(c, r)
      PROVE  OwnerTyped'
  BY <1>4, <1>5 DEF Server!JoinRoom, Server!RejoinRoom, Server!RejoinThrows, OwnerTyped
<1>6. ASSUME NEW c \in Client, Server!Seated(c), Server!Vacate(c) PROVE OwnerTyped'
  <2>1. Server!Remaining(c) \in Seq(Client) /\ room[c] \in RoomId
    BY <1>6, SeatedIs, RemainingSeats
  <2>2. Server!Remaining(c) # <<>> => Head(Server!Remaining(c)) \in Client
    BY <2>1, TailShape
  <2> QED BY <1>6, <2>1, <2>2 DEF Server!Vacate, OwnerTyped
<1>7. ASSUME NEW c \in Client,
             Server!LeaveRoom(c) \/ Server!Disconnect(c) \/ Server!LeaveThrows(c)
      PROVE  OwnerTyped'
  BY <1>4, <1>6, <1>7
     DEF Server!LeaveRoom, Server!Disconnect, Server!LeaveThrows, Server!seatVars, OwnerTyped
<1>8. ASSUME NEW c \in Client,
             \/ \E w \in Words : Server!StartGame(c, w)
             \/ \E l \in Letter : Server!Guess(c, l) \/ Server!GuessThrows(c, l)
      PROVE  OwnerTyped'
  BY <1>4, <1>8 DEF Server!StartGame, Server!Guess, Server!GuessThrows, Server!seatVars, OwnerTyped
<1>9. ASSUME NEW due, Server!Tick(due) \/ Server!TickOverruns(due) PROVE OwnerTyped'
  BY <1>4, <1>9 DEF Server!Tick, Server!TickOverruns, Server!RoomsKept, OwnerTyped, RoomId
<1> QED BY <1>1, <1>2, <1>3, <1>5, <1>7, <1>8, <1>9 DEF Server!Next, RoomId

LEMMA CreateNews == ASSUME LInv, OwnerTyped, NewsInv, NEW c \in Client, CreateRoom(c) PROVE NewsInv'
<1>1. PICK list, msgs, told : /\ list = List(<<c>>) /\ msgs = <<Msg("ROOM_CREATED"), list>>
                              /\ told = To(c, msgs)
  OBVIOUS
<1>2. /\ Handles(c, "CREATE_ROOM") /\ UNCHANGED silent /\ Server!CreateRoom(c) /\ Queue(told)
  BY <1>1 DEF CreateRoom
<1>3. /\ up /\ UNCHANGED <<program, mixed>> /\ \A d \in Client : Asking(d)
      /\ requests[c] \in Seq(Request) /\ requests[c] # <<>>
      /\ Head(requests[c]).type \in RoomAsks /\ Follow(requests[c], nickname[c], room[c])
  BY <1>2, Handled, HandledAsks DEF RoomAsks
<1>4. nickname[c] # NoNick /\ room[c] = NoRoom /\ SeatInv
  BY <1>3, HeadAlone DEF LInv
<1>5. PICK r \in RoomId :
        /\ r = roomCounter /\ room' = [room EXCEPT ![c] = r]
        /\ roomClients' = [roomClients EXCEPT ![r] = <<c>>]
        /\ owner' = [owner EXCEPT ![r] = c] /\ UNCHANGED nickname
  <2>1. room' = [room EXCEPT ![c] = roomCounter] /\ roomCounter \in RoomId /\ UNCHANGED nickname
    BY <1>2, <1>4, CreateKeepsSeats
  <2> QED BY <1>2, <2>1 DEF Server!CreateRoom
<1>6. /\ room'[c] = r /\ \A d \in Client \ {c} : room'[d] = room[d]
      /\ roomClients'[r] = <<c>> /\ \A q \in RoomId \ {r} : roomClients'[q] = roomClients[q]
  BY <1>4, <1>5 DEF SeatInv, SeatsTyped
<1>7. /\ list \in Messages /\ list.type = "ROOM_USERS_LIST"
      /\ Msg("ROOM_CREATED") \in Messages /\ Msg("ROOM_CREATED").type = "ROOM_CREATED"
  <2>1. <<c>> \in Seq(Client) /\ \A d \in Range(<<c>>) : nickname[d] # NoNick
    BY <1>4 DEF Range
  <2> QED BY <1>1, <1>4, <2>1, ListTyped, MsgTyped DEF MessageTypes
<1>8. msgs \in Seq(Messages) /\ Range(msgs) = {Msg("ROOM_CREATED"), list}
  BY <1>1, <1>7, FewMessages
<1>9. Types(msgs) = {"ROOM_CREATED", "ROOM_USERS_LIST"}
  BY <1>7, <1>8 DEF Types
<1>10. /\ told \in [Client -> Seq(Messages)] /\ told[c] = msgs
       /\ \A d \in Client \ {c} : Types(told[d]) = {}
  BY <1>1, <1>8, ToTyped
<1>11. ASSUME NEW d \in Client, d # c PROVE Hears(d, told[d])
  <2>1. PICK t : t = told[d] /\ Types(t) \cap News = {}
    BY <1>10, <1>11
  <2>2. ASSUME room[d] # NoRoom
        PROVE  /\ roomClients'[room[d]] = roomClients[room[d]] /\ owner'[room[d]] = owner[room[d]]
               /\ room[d] \in silent => owner[room[d]] # d \/ room[d] \in silent'
    <3>1. room[d] \in RoomId /\ d \in Range(roomClients[room[d]])
      BY <1>4, <2>2 DEF SeatInv, SeatsTyped, OneSeat
    <3>2. room[d] \in rooms
      BY <1>4, <3>1 DEF SeatInv, OneSeat, Range
    <3>3. room[d] # r
      BY <1>4, <1>5, <3>2, RoomFacts DEF SeatInv, SeatsTyped, OneSeat
    <3> QED BY <1>2, <1>5, <1>6, <3>1, <3>3
  <2>3. Asking(d) /\ room'[d] = room[d] /\ \A e \in Client : nickname'[e] = nickname[e]
    BY <1>3, <1>5, <1>6, <1>11
  <2>4. Hears(d, t)
    BY <1>4, <2>1, <2>2, <2>3, QuietHears
  <2> QED BY <2>1, <2>4
<1>12. Hears(c, told[c])
  <2>1. Names(room[c])' = list.list
    BY <1>1, <1>5, <1>6 DEF Names, List
  <2>2. \A m \in Range(msgs) : m.type = "ROOM_USERS_LIST" => m.list = Names(room[c])'
    BY <1>7, <1>8, <2>1
  <2>3. owner'[room'[c]] = c
    <3>1. owner'[r] = c
      BY <1>2, <1>5 DEF Server!CreateRoom, OwnerTyped
    <3> QED BY <1>6, <3>1
  <2>4. OwnerHears(c, Types(msgs))
    BY <1>9, <2>3 DEF OwnerHears, OwnerKnown, OwnerNews
  <2> QED BY <1>3, <1>9, <1>10, <2>2, <2>4 DEF Hears, Asking
<1> QED BY <1>2, <1>3, <1>10, <1>11, <1>12, ToldKeepsNews
\* Who joins hears who is in the room, and so do the others.
LEMMA SeatedNews ==
  ASSUME LInv, NewsInv, NEW c \in Client, NEW r \in RoomId, Handles(c, "JOIN_ROOM"),
         NEW resumed \in BOOLEAN, Server!JoinRoom(c, r) \/ Server!RejoinRoom(c, r),
         Queue(JoinMessages(c, r, resumed)),
         silent \subseteq silent', owner[r] = c => r \in silent'
  PROVE  NewsInv'
<1>1. /\ up /\ UNCHANGED <<program, mixed>> /\ \A d \in Client : Asking(d)
      /\ requests[c] \in Seq(Request) /\ requests[c] # <<>>
      /\ Head(requests[c]).type = "JOIN_ROOM" /\ Follow(requests[c], nickname[c], room[c])
  BY Handled, HandledAsks
<1>2. nickname[c] # NoNick /\ room[c] = NoRoom /\ SeatInv
  BY <1>1, HeadAlone DEF LInv, RoomAsks
<1>3. room' = [room EXCEPT ![c] = r] /\ UNCHANGED nickname
  BY <1>2, JoinKeepsSeats
<1>4. roomClients' = [roomClients EXCEPT ![r] = Append(roomClients[r], c)] /\ UNCHANGED owner
  BY DEF Server!JoinRoom, Server!RejoinRoom, Server!TakeSeat
<1>5. /\ room'[c] = r /\ \A d \in Client \ {c} : room'[d] = room[d]
      /\ roomClients'[r] = Append(roomClients[r], c)
      /\ \A q \in RoomId \ {r} : roomClients'[q] = roomClients[q]
  BY <1>2, <1>3, <1>4 DEF SeatInv, SeatsTyped
<1>6. PICK told : told = JoinMessages(c, r, resumed)
  OBVIOUS
<1>7. JoinIsTold(c, r, told)
  BY <1>2, <1>6, JoinRange
<1>8. PICK list : list = JoinedList(c, r)
  OBVIOUS
<1>9. /\ told \in [Client -> Seq(Messages)]
      /\ list \in Messages /\ list.type = "ROOM_USERS_LIST"
      /\ {Msg("ROOM_OK"), list} \subseteq Range(told[c])
      /\ Range(told[c]) \subseteq {list, Msg("ROOM_OK"), Msg("GAME_STARTED")}
      /\ \A d \in Client \ {c} : Range(told[d]) = IF room[d] = r THEN {list} ELSE {}
  BY <1>7, <1>8 DEF JoinIsTold
<1>10. Names(r)' = list.list
  BY <1>3, <1>5, <1>8 DEF Names, JoinedList, List
<1>11. Msg("ROOM_OK").type = "ROOM_OK" /\ Msg("GAME_STARTED").type = "GAME_STARTED"
  BY MsgTyped DEF MessageTypes
<1>12. ASSUME NEW d \in Client, d # c PROVE Hears(d, told[d])
  <2>1. PICK t : t = told[d]
    OBVIOUS
  <2>2. Range(t) = IF room[d] = r THEN {list} ELSE {}
    BY <1>9, <1>12, <2>1
  <2>3. Asking(d) /\ room'[d] = room[d] /\ \A e \in Client : nickname'[e] = nickname[e]
    BY <1>1, <1>3, <1>5, <1>12
  <2>4. CASE room[d] # r
    <3>1. Types(t) = {}
      BY <2>2, <2>4 DEF Types
    <3>2. ASSUME room[d] # NoRoom
          PROVE  /\ roomClients'[room[d]] = roomClients[room[d]] /\ owner'[room[d]] = owner[room[d]]
                 /\ room[d] \in silent => owner[room[d]] # d \/ room[d] \in silent'
      <4>1. room[d] \in RoomId
        BY <1>2, <3>2 DEF SeatInv, SeatsTyped
      <4> QED BY <1>4, <1>5, <2>4, <4>1
    <3>3. Types(t) \cap News = {}
      BY <3>1
    <3>4. Hears(d, t)
      BY <1>2, <2>3, <3>2, <3>3, QuietHears
    <3> QED BY <2>1, <3>4
  <2>5. CASE room[d] = r
    <3>1. Types(t) = {"ROOM_USERS_LIST"}
      BY <1>9, <2>2, <2>5 DEF Types
    <3>2. \A m \in Range(t) : m.list = Names(room[d])'
      BY <1>10, <2>2, <2>3, <2>5 DEF Names, List
    <3>3. ASSUME Stays(d)' PROVE OwnerHears(d, Types(t))
      <4>1. Stays(d)
        BY <2>3, <3>3 DEF Stays, Asking
      <4>2. Types(t) \cap OwnerNews = {}
        BY <3>1 DEF OwnerNews
      <4>3. owner'[room[d]] = owner[room[d]] /\ (room[d] \in silent => room[d] \in silent')
        BY <1>4
      <4> QED BY <2>3, <4>1, <4>2, <4>3, OwnerSame
    <3>4. Hears(d, t)
      BY <2>3, <3>1, <3>2, <3>3 DEF Hears, Asking
    <3> QED BY <2>1, <3>4
  <2> QED BY <2>4, <2>5
<1>13. Hears(c, told[c])
  <2>1. PICK t : t = told[c]
    OBVIOUS
  <2>2. Types(t) \subseteq {"ROOM_USERS_LIST", "ROOM_OK", "GAME_STARTED"}
        /\ "ROOM_USERS_LIST" \in Types(t)
    BY <1>9, <1>11, <2>1 DEF Types
  <2>3. \A m \in Range(t) : m.type = "ROOM_USERS_LIST" => m.list = Names(room[c])'
    BY <1>5, <1>9, <1>10, <1>11, <2>1 DEF Names, List
  <2>4. ASSUME NEW s, NEW waits, NEW owns,
               Fits(s, waits, nickname[c], room[c], requests[c], Types(sendingBuffer[c])), ~owns
        PROVE  OwnerKnown(s, owns, Types(sendingBuffer[c]) \cup Types(t), owner'[room'[c]] = c,
                          room'[c] \in silent')
    <3>1. PICK U : U = Types(sendingBuffer[c])
      OBVIOUS
    <3>2. Fits(s, waits, nickname[c], room[c], requests[c], U)
      BY <2>4, <3>1
    <3>3. s \notin {"login", "lobby", "game"} /\ (s = "menu" => U \cap (RoomAnswers \cup {"ROOM_FAILED"}) = {})
      BY <1>1, <1>2, <3>2, AskersScene DEF RoundAsks
    <3>4. s = "menu" /\ U \cap (RoomAnswers \cup {"ROOM_FAILED"}) = {}
      BY <3>2, <3>3 DEF Fits
    <3>5. CASE "ROOM_OWNERSHIP_TRANSFER" \in U
      BY <3>1, <3>4, <3>5 DEF OwnerKnown
    <3>6. CASE "ROOM_OWNERSHIP_TRANSFER" \notin U
      <4>1. (U \cup Types(t)) \cap OwnerNews = {}
        BY <2>2, <3>4, <3>6 DEF OwnerNews, RoomAnswers
      <4>2. owner'[room'[c]] = c => room'[c] \in silent'
        BY <1>4, <1>5
      <4> QED BY <2>4, <3>1, <4>1, <4>2 DEF OwnerKnown
    <3> QED BY <3>5, <3>6
  <2>5. Asked(requests[c], {"JOIN_ROOM"})
    <3>1. Asked(requests[c], {"JOIN_ROOM"}) \/ Head(requests[c]).type # "JOIN_ROOM"
      BY <1>1, TailShape DEF Asked
    <3> QED BY <1>1, <3>1
  <2>6. OwnerHears(c, Types(t))
    BY <2>4, <2>5 DEF OwnerHears
  <2>7. Hears(c, t)
    BY <1>1, <2>2, <2>3, <2>6 DEF Hears, Asking
  <2> QED BY <2>1, <2>7
<1>14. \A d \in Client : Hears(d, told[d])
  BY <1>12, <1>13
<1>15. Queue(told)
  BY <1>6
<1> QED BY <1>1, <1>9, <1>14, <1>15, ToldKeepsNews

LEMMA JoinNews == ASSUME LInv, NewsInv, NEW c \in Client, JoinRoom(c) PROVE NewsInv'
<1> DEFINE r == Head(requests[c]).arg
<1>1. /\ Handles(c, "JOIN_ROOM")
      /\ silent' = IF r \in rooms /\ owner[r] = c THEN silent \cup {r} ELSE silent
      /\ \/ Server!JoinRoom(c, r) /\ Queue(JoinMessages(c, r, FALSE))
         \/ Server!RejoinRoom(c, r) /\ Queue(JoinMessages(c, r, TRUE))
         \/ Server!RejoinThrows(c, r)
         \/ r \notin rooms /\ Queue(To(c, <<Msg("ROOM_FAILED")>>)) /\ UNCHANGED server
  BY DEF JoinRoom
<1>2. /\ up /\ UNCHANGED <<program, mixed>> /\ \A d \in Client : Asking(d)
      /\ Head(requests[c]) \in Request /\ Head(requests[c]).type = "JOIN_ROOM"
  BY <1>1, Handled, HandledAsks
<1>3. r \in RoomId
  BY <1>2, RequestFacts DEF RoomId
<1> HIDE DEF r
<1>4. ASSUME NEW resumed \in BOOLEAN, Server!JoinRoom(c, r) \/ Server!RejoinRoom(c, r),
             Queue(JoinMessages(c, r, resumed))
      PROVE  NewsInv'
  <2>1. r \in rooms
    BY <1>4 DEF Server!JoinRoom, Server!RejoinRoom, Server!MayJoin
  <2>2. silent \subseteq silent' /\ (owner[r] = c => r \in silent')
    BY <1>1, <2>1
  <2> QED BY <1>1, <1>3, <1>4, <2>2, SeatedNews
<1>5. CASE Server!RejoinThrows(c, r)
  BY <1>5, CrashNews DEF Server!RejoinThrows
<1>6. CASE r \notin rooms /\ Queue(To(c, <<Msg("ROOM_FAILED")>>)) /\ UNCHANGED server
  <2>1. PICK told : told = To(c, <<Msg("ROOM_FAILED")>>)
    OBVIOUS
  <2>2. UNCHANGED <<nickname, room, roomClients, owner, silent>>
    BY <1>1, <1>6 DEF server
  <2>3. "ROOM_FAILED" \in MessageTypes /\ "ROOM_FAILED" \notin News
    BY DEF MessageTypes, News, OwnerNews
  <2>4. /\ told \in [Client -> Seq(Messages)] /\ Types(told[c]) = {"ROOM_FAILED"}
        /\ \A d \in Client \ {c} : Types(told[d]) = {}
    BY <2>1, <2>3, ToldOne
  <2>5. \A d \in Client : Types(told[d]) \cap News = {}
    BY <2>3, <2>4
  <2>6. Queue(told)
    BY <1>6, <2>1
  <2> QED BY <1>2, <2>2, <2>4, <2>5, <2>6, QuietNews
<1> QED BY <1>1, <1>4, <1>5, <1>6

-----------------------------------------------------------------------------

\* Who stays when c gives up its seat hears who is left and who owns the room now.
LEMMA VacatedNews ==
  ASSUME LInv, OwnerTyped, up, NewsInv, NEW c \in Client, room[c] # NoRoom,
         Server!Vacate(c), Leave(c), clients' = clients \/ clients' = clients \ {c},
         UNCHANGED <<program, mixed>>, \A d \in Client \ {c} : Asking(d),
         Asked(requests'[c], {"JOIN_ROOM"}) => Asked(requests[c], {"JOIN_ROOM"})
  PROVE  NewsInv'
<1>0. PICK r : r = room[c]
  OBVIOUS
<1> DEFINE rest == Server!Remaining(c)
<1>1. SeatInv /\ r \in RoomId /\ rest \in Seq(Client) /\ Range(rest) = Range(roomClients[r]) \ {c}
  BY <1>0, RemainingSeats DEF LInv
<1>2. room' = [room EXCEPT ![c] = NoRoom] /\ UNCHANGED nickname
  BY <1>1, VacateKeepsSeats
<1>3. /\ roomClients' = [roomClients EXCEPT ![r] = rest]
      /\ owner' = IF owner[r] = c /\ rest # <<>> THEN [owner EXCEPT ![r] = Head(rest)] ELSE owner
  BY <1>0 DEF Server!Vacate
<1>4. /\ room'[c] = NoRoom /\ \A d \in Client \ {c} : room'[d] = room[d]
      /\ roomClients'[r] = rest /\ \A q \in RoomId \ {r} : roomClients'[q] = roomClients[q]
  BY <1>1, <1>2, <1>3 DEF SeatInv, SeatsTyped
<1>5. silent' = IF ~(owner[r] = c /\ rest # <<>>) THEN silent
                ELSE IF inGame[Head(rest)] THEN silent \cup {r} ELSE silent \ {r}
  BY <1>0, <1>1, SeatedIs DEF Leave
<1>6. PICK told : Queue(told) /\ LeaveIsTold(c, told)
  BY <1>1, LeaveRange
<1>7. PICK list, passed : list = ListAfterLeave(c) /\ passed = Msg("ROOM_OWNERSHIP_TRANSFER")
  OBVIOUS
<1>8. passed.type = "ROOM_OWNERSHIP_TRANSFER"
  BY <1>7, MsgTyped DEF MessageTypes
<1>9. /\ told \in [Client -> Seq(Messages)] /\ list.type = "ROOM_USERS_LIST"
      /\ \A d \in Client :
           Range(told[d]) =
             IF d \in Range(rest)
             THEN {list} \cup IF BecomesOwner(c, d) /\ ~inGame[d] THEN {passed} ELSE {}
             ELSE {}
  BY <1>6, <1>7 DEF LeaveIsTold
<1>10. Names(r)' = list.list
  <2>1. list = List(rest)
    BY <1>7 DEF ListAfterLeave
  <2> HIDE DEF rest
  <2> QED BY <1>2, <1>4, <2>1 DEF Names, List
<1>11. \A d \in Client : d \in Range(rest) <=> room[d] = r /\ d # c
  BY <1>0, <1>1, MembersHere
<1>12. \A d : BecomesOwner(c, d) <=> owner[r] = c /\ rest # <<>> /\ d = Head(rest)
  BY <1>0 DEF BecomesOwner
<1> HIDE DEF rest
<1>13. ASSUME NEW d \in Client, d # c PROVE Hears(d, told[d])
  <2>1. PICK t : t = told[d]
    OBVIOUS
  <2>2. Asking(d) /\ room'[d] = room[d] /\ \A e \in Client : nickname'[e] = nickname[e]
    BY <1>2, <1>4, <1>13
  <2>3. CASE room[d] # r
    <3>1. Types(t) \cap News = {}
      BY <1>9, <1>11, <2>1, <2>3 DEF Types
    <3>2. ASSUME room[d] # NoRoom
          PROVE  /\ roomClients'[room[d]] = roomClients[room[d]] /\ owner'[room[d]] = owner[room[d]]
                 /\ room[d] \in silent => owner[room[d]] # d \/ room[d] \in silent'
      <4>1. room[d] \in RoomId /\ room[d] # r
        BY <1>1, <2>3, <3>2 DEF SeatInv, SeatsTyped
      <4> QED BY <1>3, <1>4, <1>5, <4>1 DEF OwnerTyped
    <3>3. Hears(d, t)
      BY <1>1, <2>2, <3>1, <3>2, QuietHears
    <3> QED BY <2>1, <3>3
  <2>4. CASE room[d] = r
    <3>1. Range(t) = {list} \cup IF BecomesOwner(c, d) /\ ~inGame[d] THEN {passed} ELSE {}
      BY <1>9, <1>11, <1>13, <2>1, <2>4
    <3>2. Types(t) = {"ROOM_USERS_LIST"} \cup IF BecomesOwner(c, d) /\ ~inGame[d]
                                             THEN {"ROOM_OWNERSHIP_TRANSFER"} ELSE {}
      BY <1>8, <1>9, <3>1 DEF Types
    <3>3. \A m \in Range(t) : m.type = "ROOM_USERS_LIST" => m.list = Names(room[d])'
      <4>1. Names(room[d])' = list.list
        BY <1>10, <2>2, <2>4 DEF Names, List
      <4> QED BY <1>8, <3>1, <4>1
    <3>4. ASSUME Stays(d)' PROVE OwnerHears(d, Types(t))
      <4>1. Stays(d)
        BY <2>2, <3>4 DEF Stays, Asking
      <4>2. d \in Range(rest) /\ rest # <<>>
        BY <1>11, <1>13, <2>4 DEF Range
      <4>3. CASE owner[r] # c
        <5>1. ~BecomesOwner(c, d) /\ owner' = owner /\ silent' = silent
          BY <1>3, <1>5, <1>12, <4>3
        <5>2. Types(t) \cap OwnerNews = {}
          BY <3>2, <5>1 DEF OwnerNews
        <5> QED BY <2>2, <4>1, <5>1, <5>2, OwnerSame
      <4>4. CASE owner[r] = c /\ d # Head(rest)
        <5>1. ~BecomesOwner(c, d)
          BY <1>12, <4>4
        <5>2. Types(t) \cap OwnerNews = {}
          BY <3>2, <5>1 DEF OwnerNews
        <5>3. owner'[r] = Head(rest)
          BY <1>1, <1>3, <4>2, <4>4 DEF OwnerTyped
        <5>4. owner[room[d]] # d /\ owner'[room[d]] # d
          BY <1>13, <2>4, <4>4, <5>3
        <5> QED BY <2>2, <4>1, <5>2, <5>4, OwnerSame
      <4>5. CASE owner[r] = c /\ d = Head(rest)
        <5>1. owner'[room'[d]] = d
          BY <1>1, <1>3, <2>2, <2>4, <4>2, <4>5 DEF OwnerTyped
        <5>2. IF inGame[d] THEN room'[d] \in silent' ELSE "ROOM_OWNERSHIP_TRANSFER" \in Types(t)
          BY <1>5, <1>12, <2>2, <2>4, <3>2, <4>2, <4>5
        <5>3. \A U : "ROOM_OWNERSHIP_TRANSFER" \in Types(t) => (U \cup Types(t)) \cap OwnerNews # {}
          BY DEF OwnerNews
        <5> QED BY <5>1, <5>2, <5>3 DEF OwnerHears, OwnerKnown
      <4> QED BY <4>3, <4>4, <4>5
    <3>5. Hears(d, t)
      BY <2>2, <3>2, <3>3, <3>4 DEF Hears, Asking
    <3> QED BY <2>1, <3>5
  <2> QED BY <2>3, <2>4
<1>14. Hears(c, told[c])
  BY <1>4 DEF Hears, Stays
<1> QED BY <1>6, <1>9, <1>13, <1>14, ToldKeepsNews

LEMMA LeaveNews == ASSUME LInv, OwnerTyped, NewsInv, NEW c \in Client, LeaveRoom(c) PROVE NewsInv'
<1>1. Handles(c, "LEAVE_ROOM")
  BY DEF LeaveRoom
<1>2. /\ up /\ UNCHANGED <<program, mixed>> /\ \A d \in Client \ {c} : Asking(d)
      /\ requests[c] \in Seq(Request) /\ requests[c] # <<>>
      /\ Head(requests[c]).type = "LEAVE_ROOM" /\ Follow(requests[c], nickname[c], room[c])
      /\ requests'[c] = Tail(requests[c])
  BY <1>1, Handled, HandledAsks
<1>3. room[c] # NoRoom
  BY <1>2, HeadLeaves
<1>4. Asked(requests'[c], {"JOIN_ROOM"}) => Asked(requests[c], {"JOIN_ROOM"})
  BY <1>2, AskedOfTail
<1>5. CASE Server!LeaveRoom(c) /\ Leave(c)
  <2>1. Server!Vacate(c) /\ clients' = clients
    BY <1>5 DEF Server!LeaveRoom
  <2> QED BY <1>2, <1>3, <1>4, <1>5, <2>1, VacatedNews
<1>6. CASE Server!LeaveThrows(c)
  BY <1>6, CrashNews DEF Server!LeaveThrows
<1> QED BY <1>3, <1>5, <1>6 DEF LeaveRoom, NoRoom

LEMMA DisconnectNews ==
  ASSUME LInv, OwnerTyped, NewsInv, NEW c \in Client, Disconnect(c)
  PROVE  NewsInv'
<1>1. UNCHANGED <<requests, mixed, program>> /\ \A d \in Client : Asking(d)
  BY DEF Disconnect, Asking
<1>2. CASE Server!Disconnect(c) /\ Leave(c)
  <2>1. /\ up /\ clients' = clients \ {c}
        /\ IF Server!Seated(c) THEN Server!Vacate(c) ELSE UNCHANGED <<nickname, room, roomClients, owner>>
    BY <1>2 DEF Server!Disconnect, Server!clientVars, Server!seatVars
  <2>2. Server!Seated(c) <=> room[c] # NoRoom
    BY SeatedIs DEF LInv
  <2>3. CASE room[c] # NoRoom
    BY <1>1, <1>2, <2>1, <2>2, <2>3, VacatedNews
  <2>4. CASE room[c] = NoRoom
    <3>1. Queue(Nothing) /\ UNCHANGED silent
      BY <1>2, <2>2, <2>4 DEF Leave
    <3>2. Nothing \in [Client -> Seq(Messages)] /\ \A d \in Client : Types(Nothing[d]) \cap News = {}
      BY NothingTyped
    <3> QED BY <1>1, <2>1, <2>2, <2>4, <3>1, <3>2, QuietNews
  <2> QED BY <2>3, <2>4
<1>3. CASE Server!LeaveThrows(c)
  BY <1>3, CrashNews DEF Server!LeaveThrows
<1> QED BY <1>2, <1>3 DEF Disconnect

LEMMA ServerNews == ASSUME LInv, OwnerTyped, NewsInv, ServerNext PROVE NewsInv'
BY LoginNews, CreateNews, JoinNews, LeaveNews, StartNews, GuessNews, DisconnectNews, SecondNews
   DEF ServerNext, RoomId

-----------------------------------------------------------------------------
(***************************************************************************)
(* What the reading of a write tells a program of its room.                *)
(***************************************************************************)

Lists(R) == {m.list : m \in {x \in R : x.type = "ROOM_USERS_LIST"}}

\* How a program that was before has got to after by the messages R.
Learns(p, before, R, after) ==
  /\ after \in ProgramState
  /\ after.isRoomOwner <=> before.isRoomOwner \/ \E m \in R : m.type \in OwnerNews
  /\ scene[p] = "menu" /\ (\E m \in R : m.type = "ROOM_OWNERSHIP_TRANSFER") => after.astray
  /\ IF Lists(R) = {} THEN after.roomPlayers = before.roomPlayers
     ELSE after.roomPlayers \in Lists(R)

LEMMA NothingLearned == \A p : \A s \in ProgramState : Learns(p, s, {}, s)
BY DEF Learns, Lists

LEMMA LearnsMore ==
  ASSUME NEW p, NEW before, NEW R, NEW s, Learns(p, before, R, s), NEW m \in Messages,
         NEW h, h = Handle(p, s, m), NEW U, U = R \cup {m}
  PROVE  Learns(p, before, U, h)
<1>1. /\ h \in ProgramState /\ (s.astray => h.astray)
      /\ m.type = "ROOM_OWNERSHIP_TRANSFER" /\ scene[p] = "menu" => h.astray
      /\ h.isRoomOwner <=> s.isRoomOwner \/ m.type \in OwnerNews
      /\ h.roomPlayers = IF m.type = "ROOM_USERS_LIST" THEN m.list ELSE s.roomPlayers
  <2>1. s \in ProgramState
    BY DEF Learns
  <2>2. TurnsInto(p, s, m, h)
    BY <2>1, HandleEffect
  <2> QED BY <2>2 DEF TurnsInto
<1>2. h.isRoomOwner <=> before.isRoomOwner \/ \E x \in U : x.type \in OwnerNews
  BY <1>1 DEF Learns
<1>3. scene[p] = "menu" /\ (\E x \in U : x.type = "ROOM_OWNERSHIP_TRANSFER") => h.astray
  BY <1>1 DEF Learns
<1>4. IF Lists(U) = {} THEN h.roomPlayers = before.roomPlayers ELSE h.roomPlayers \in Lists(U)
  <2>1. Lists(U) = Lists(R) \cup IF m.type = "ROOM_USERS_LIST" THEN {m.list} ELSE {}
    BY DEF Lists
  <2> QED BY <1>1, <2>1 DEF Learns
<1> QED BY <1>1, <1>2, <1>3, <1>4 DEF Learns

LEMMA ReadingLearns ==
  ASSUME NEW p, BeforeReading(p) \in ProgramState, NEW b \in Seq(Messages)
  PROVE  Learns(p, BeforeReading(p), Range(b), AfterReading(p, b))
<1>1. Len(b) \in Nat /\ \A i \in 1..Len(b) : b[i] \in Messages
  OBVIOUS
<1>2. PICK f : /\ f[0] = BeforeReading(p) /\ AfterReading(p, b) = f[Len(b)]
               /\ \A i \in 1..Len(b) : f[i] = Handle(p, f[i - 1], b[i])
  BY <1>1, AfterReadingIs
<1> DEFINE R(i) == {b[j] : j \in 1..i}
           S == {i \in 0..Len(b) : Learns(p, f[0], R(i), f[i])}
<1>3. 0 \in S
  <2>1. R(0) = {} /\ 0 \in 0..Len(b)
    BY <1>1
  <2> HIDE DEF R
  <2> QED BY <1>2, <2>1, NothingLearned
<1>4. ASSUME NEW i \in 1..Len(b), i - 1 \in S PROVE i \in S
  <2>1. R(i) = R(i - 1) \cup {b[i]}
    <3>1. 1..i = (1..(i - 1)) \cup {i}
      BY <1>1
    <3> QED BY <3>1
  <2>2. i \in 0..Len(b) /\ b[i] \in Messages /\ f[i] = Handle(p, f[i - 1], b[i])
    BY <1>1, <1>2
  <2> HIDE DEF R
  <2>3. Learns(p, f[0], R(i - 1), f[i - 1])
    BY <1>4
  <2>4. Learns(p, f[0], R(i), f[i])
    BY <2>1, <2>2, <2>3, LearnsMore
  <2> QED BY <2>2, <2>4
<1>5. Len(b) \in S
  <2> HIDE DEF S
  <2>1. 0..Len(b) \subseteq S
    BY <1>1, <1>3, <1>4, UpTo
  <2> QED BY <1>1, <2>1
<1>6. R(Len(b)) = Range(b)
  BY <1>1 DEF Range
<1> HIDE DEF R
<1> QED BY <1>2, <1>5, <1>6

\* Lists that are not several are one.
LEMMA OneList ==
  ASSUME NEW b \in Seq(Messages), ~(Cardinality(Lists(Range(b))) > 1),
         NEW x \in Lists(Range(b)), NEW y \in Lists(Range(b))
  PROVE  x = y
<1> DEFINE I == {i \in 1..Len(b) : b[i].type = "ROOM_USERS_LIST"}
           f == [i \in I |-> b[i].list]
           L == Lists(Range(b))
<1>1. Len(b) \in Nat /\ IsFiniteSet(1..Len(b))
  BY FS_Interval
<1>2. IsFiniteSet(I)
  BY <1>1, FS_Subset
<1>3. f \in Surjection(I, L)
  BY DEF Lists, Range, Surjection
<1> HIDE DEF I, f, L
<1>4. IsFiniteSet(L)
  BY <1>2, <1>3, FS_Surjection
<1>5. Cardinality(L) \in Nat
  BY <1>4, FS_CardinalityType
<1>6. ASSUME x # y PROVE FALSE
  <2> DEFINE one == {x}
             two == one \cup {y}
  <2>1. IsFiniteSet(one) /\ Cardinality(one) = 1
    BY FS_Singleton
  <2>2. y \notin one
    BY <1>6
  <2> HIDE DEF one
  <2>3. IsFiniteSet(two) /\ Cardinality(two) = 2
    BY <2>1, <2>2, FS_AddElement
  <2>4. two \in SUBSET L
    BY DEF one, L
  <2> HIDE DEF two
  <2>5. Cardinality(two) <= Cardinality(L)
    BY <1>4, <2>4, FS_Subset
  <2> QED BY <1>5, <2>3, <2>5 DEF L
<1> QED BY <1>6

\* If there are lists, one of them is the newest.
LEMMA NewestList ==
  ASSUME NEW b \in Seq(Messages), Lists(Range(b)) # {}
  PROVE  \E i \in 1..Len(b) :
           /\ b[i].type = "ROOM_USERS_LIST" /\ b[i].list \in Lists(Range(b))
           /\ \A j \in 1..(i - 1) : b[j].type # "ROOM_USERS_LIST"
<1> DEFINE I == {i \in 1..Len(b) : b[i].type = "ROOM_USERS_LIST"}
           k == Min(I)
<1>1. Len(b) \in Nat
  OBVIOUS
<1>2. I # {} /\ I \subseteq Nat
  BY DEF Lists, Range
<1>3. k \in I /\ \A y \in I : k <= y
  <2> HIDE DEF I
  <2> QED BY <1>2, MinOfNats
<1> HIDE DEF k
<1>4. k \in 1..Len(b) /\ b[k].type = "ROOM_USERS_LIST"
  BY <1>3
<1>5. b[k].list \in Lists(Range(b))
  <2>1. b[k] \in Range(b)
    BY <1>4 DEF Range
  <2> QED BY <1>4, <2>1 DEF Lists
<1>6. ASSUME NEW j \in 1..(k - 1), b[j].type = "ROOM_USERS_LIST" PROVE FALSE
  <2>1. j \in 1..Len(b) /\ ~(k <= j)
    BY <1>1, <1>4
  <2> QED BY <1>3, <1>6, <2>1
<1> QED BY <1>4, <1>5, <1>6

-----------------------------------------------------------------------------
(***************************************************************************)
(* The programs' own steps.                                                *)
(***************************************************************************)

\* A step of p's program is no news to the others.
LEMMA OwnStepNews ==
  ASSUME LInv, LInv', NewsInv, NEW p \in Player,
         UNCHANGED <<up, room, roomClients, owner, silent>>,
         \A e \in Client : room[e] # NoRoom => nickname'[e] = nickname[e],
         \A q \in Player \ {p} :
           /\ conn'[q] = conn[q] /\ scene'[q] = scene[q] /\ isRoomOwner'[q] = isRoomOwner[q]
           /\ roomPlayers'[q] = roomPlayers[q] /\ (q \in astray => q \in astray'),
         \A c \in Client : c # conn[p] /\ c # conn'[p] =>
           /\ requests'[c] = requests[c] /\ sendingBuffer'[c] = sendingBuffer[c]
           /\ c \in mixed' <=> c \in mixed,
         up /\ p \notin astray' /\ conn'[p] # NoClient => NewsFits(p)'
  PROVE  NewsInv'
<1>1. ASSUME up, NEW q \in Player, q # p, q \notin astray', conn'[q] # NoClient PROVE NewsFits(q)'
  <2>1. PICK c : c = conn[q]
    OBVIOUS
  <2>2. conn'[q] = c /\ q \notin astray /\ c # NoClient
    BY <1>1, <2>1
  <2>3. c \in Client /\ c # conn[p] /\ c # conn'[p]
    BY <1>1, <2>1, <2>2 DEF LInv, Typed, Connections
  <2>4. /\ requests'[c] = requests[c] /\ sendingBuffer'[c] = sendingBuffer[c]
        /\ c \in mixed' <=> c \in mixed
    BY <2>3
  <2>5. NewsFits(q)
    BY <1>1, <2>1, <2>2 DEF NewsInv
  <2>6. Stays(c)' <=> Stays(c)
    BY <2>4 DEF Stays
  <2>7. ASSUME Stays(c) PROVE Names(room[c])' = Names(room[c])
    <3>1. PICK r \in RoomId : r = room[c]
      BY <2>3, <2>7 DEF Stays, LInv, SeatInv, SeatsTyped
    <3>2. Names(r)' = Names(r)
      BY NamesKept DEF LInv
    <3> QED BY <3>1, <3>2 DEF Names, List
  <2>8. ASSUME Stays(c)'
        PROVE  /\ ListKnown(sendingBuffer'[c], Names(room[c])', roomPlayers'[q], c \in mixed')
               /\ OwnerKnown(scene'[q], isRoomOwner'[q], Types(sendingBuffer'[c]), owner'[room'[c]] = c,
                             room'[c] \in silent')
    <3>1. PICK L : L = Names(room[c])
      OBVIOUS
    <3>2. /\ ListKnown(sendingBuffer[c], L, roomPlayers[q], c \in mixed)
          /\ OwnerKnown(scene[q], isRoomOwner[q], Types(sendingBuffer[c]), owner[room[c]] = c,
                        room[c] \in silent)
      BY <2>1, <2>5, <2>6, <2>8, <3>1 DEF NewsFits
    <3>3. Names(room[c])' = L
      BY <2>6, <2>7, <2>8, <3>1
    <3>4. ListKnown(sendingBuffer'[c], L, roomPlayers'[q], c \in mixed')
      BY <1>1, <2>4, <3>2 DEF ListKnown
    <3> QED BY <1>1, <2>4, <3>2, <3>3, <3>4
  <2>9. Asked(requests'[c], {"JOIN_ROOM"}) => ~isRoomOwner'[q]
    BY <1>1, <2>1, <2>4, <2>5 DEF NewsFits
  <2> QED BY <2>2, <2>8, <2>9 DEF NewsFits
<1> QED BY <1>1 DEF NewsInv

\* A program that is the same but for the scene, which was not the menu, or for what
\* it has asked.
LEMMA SameProgramNews ==
  ASSUME LInv, NewsInv, NEW p \in Player, up, p \notin astray, conn[p] # NoClient,
         UNCHANGED <<nickname, room, roomClients, owner, silent, mixed>>,
         conn'[p] = conn[p], isRoomOwner'[p] = isRoomOwner[p], roomPlayers'[p] = roomPlayers[p],
         sendingBuffer'[conn[p]] = sendingBuffer[conn[p]], Asking(conn[p]),
         scene'[p] = scene[p] \/ scene[p] # "menu"
  PROVE  NewsFits(p)'
<1>1. PICK c : c = conn[p]
  OBVIOUS
<1>2. NewsFits(p) /\ c \in Client
  BY <1>1 DEF NewsInv, LInv, Typed
<1>3. Asked(requests'[c], {"JOIN_ROOM"}) => ~isRoomOwner'[p]
  BY <1>1, <1>2 DEF NewsFits, Asking
<1>4. ASSUME Stays(c)'
      PROVE  /\ ListKnown(sendingBuffer'[c], Names(room[c])', roomPlayers'[p], c \in mixed')
             /\ OwnerKnown(scene'[p], isRoomOwner'[p], Types(sendingBuffer'[c]), owner'[room'[c]] = c,
                           room'[c] \in silent')
  <2>1. Stays(c)
    BY <1>1, <1>4 DEF Stays, Asking
  <2>2. /\ ListKnown(sendingBuffer[c], Names(room[c]), roomPlayers[p], c \in mixed)
        /\ OwnerKnown(scene[p], isRoomOwner[p], Types(sendingBuffer[c]), owner[room[c]] = c,
                      room[c] \in silent)
    BY <1>1, <1>2, <2>1 DEF NewsFits
  <2>3. Names(room[c])' = Names(room[c])
    BY DEF Names, List
  <2>4. OwnerKnown(scene'[p], isRoomOwner[p], Types(sendingBuffer[c]), owner[room[c]] = c,
                   room[c] \in silent)
    BY <2>2 DEF OwnerKnown
  <2> QED BY <1>1, <2>2, <2>3, <2>4
<1> QED BY <1>1, <1>3, <1>4 DEF NewsFits

\* The requests with one more.
LEMMA AskedMore ==
  ASSUME NEW q \in Seq(Request), NEW x \in Request, NEW u, u = Append(q, x), NEW types
  PROVE  Asked(u, types) <=> Asked(q, types) \/ x.type \in types
<1>1. /\ Len(u) = Len(q) + 1 /\ Len(q) \in Nat /\ u[Len(q) + 1] = x
      /\ \A i \in 1..Len(q) : u[i] = q[i]
  BY AppendShape
<1>2. \A i \in 1..Len(u) : i \in 1..Len(q) \/ i = Len(q) + 1
  BY <1>1
<1>3. Len(q) + 1 \in 1..Len(u) /\ \A i \in 1..Len(q) : i \in 1..Len(u)
  BY <1>1
<1> QED BY <1>1, <1>2, <1>3 DEF Asked

LEMMA LocalNews ==
  ASSUME LInv, LInv', NewsInv, NEW p \in Player,
         \/ p \notin astray /\ ConnectButtonHit(p)
         \/ ConnectFails(p) \/ ConnectionTimedOut(p) \/ LeaveGame(p) \/ CloseResultWindow(p)
  PROVE  NewsInv'
<1>1. /\ UNCHANGED <<server, network, conn, roomPlayers, isRoomOwner, silent>>
      /\ astray \subseteq astray' /\ astray' \subseteq astray \cup {p}
  BY DEF ConnectButtonHit, ConnectFails, ConnectionTimedOut, LeaveGame, CloseResultWindow, lobby,
         AstrayIf
<1>2. UNCHANGED <<up, nickname, room, roomClients, owner, requests, sendingBuffer, mixed>>
  BY <1>1 DEF server, network
<1>3. \/ scene' = scene
      \/ /\ scene' = [scene EXCEPT ![p] = "lobby"]
         /\ scene[p] \notin {"lobby", "game"} => p \in astray'
  BY DEF ConnectButtonHit, ConnectFails, ConnectionTimedOut, LeaveGame, CloseResultWindow, AstrayIf
<1>4. \A q \in Player \ {p} : scene'[q] = scene[q]
  BY <1>3 DEF LInv, Typed
<1>5. ASSUME up, p \notin astray', conn'[p] # NoClient PROVE NewsFits(p)'
  <2>1. p \notin astray /\ (scene'[p] = scene[p] \/ scene[p] # "menu")
    BY <1>1, <1>3, <1>5
  <2> QED BY <1>1, <1>2, <1>5, <2>1, SameProgramNews DEF Asking
<1> QED BY <1>1, <1>2, <1>4, <1>5, OwnStepNews

LEMMA ConnectedNews ==
  ASSUME LInv, LInv', NewsInv, NEW p \in Player, NEW c \in Client, Connected(p, c)
  PROVE  NewsInv'
<1>1. /\ conn[p] = NoClient /\ Server!Accept(c)
      /\ conn' = [conn EXCEPT ![p] = c] /\ scene' = [scene EXCEPT ![p] = "login"]
      /\ requests' = [requests EXCEPT ![c] = <<>>] /\ mixed' = mixed \ {c}
      /\ UNCHANGED <<sendingBuffer, isRoomOwner, roomPlayers, astray, silent>>
  BY DEF Connected, lobby
<1>2. /\ room' = room /\ room[c] = NoRoom /\ nickname' = [nickname EXCEPT ![c] = NoNick]
      /\ UNCHANGED <<up, roomClients, owner>>
  BY <1>1, AcceptKeepsSeats DEF LInv, Server!Accept, Server!seatVars
<1>3. /\ conn'[p] = c /\ requests'[c] = <<>>
      /\ \A q \in Player \ {p} : conn'[q] = conn[q] /\ scene'[q] = scene[q]
      /\ \A d \in Client \ {c} : requests'[d] = requests[d] /\ nickname'[d] = nickname[d]
  BY <1>1, <1>2 DEF LInv, Typed, RequestsFit, SeatInv, SeatsTyped
<1>4. \A e \in Client : room[e] # NoRoom => nickname'[e] = nickname[e]
  BY <1>2, <1>3
<1>5. NewsFits(p)'
  <2>1. ~Asked(requests'[c], {"JOIN_ROOM"}) /\ room'[c] = NoRoom
    BY <1>2, <1>3 DEF Asked
  <2> QED BY <1>3, <2>1 DEF NewsFits, Stays
<1> QED BY <1>1, <1>2, <1>3, <1>4, <1>5, OwnStepNews

LEMMA HangsNews ==
  ASSUME LInv, LInv', NewsInv, NEW p \in Player, LoseConnection(p) \/ RestartProgram(p)
  PROVE  NewsInv'
<1>0. PICK c : c = conn[p]
  OBVIOUS
<1>1. /\ Hangs(p) /\ UNCHANGED <<server, silent>>
      /\ isRoomOwner' = isRoomOwner \/ isRoomOwner' = [isRoomOwner EXCEPT ![p] = FALSE]
      /\ \A q \in Player \ {p} : q \in astray => q \in astray'
  BY DEF LoseConnection, RestartProgram
<1>2. UNCHANGED <<up, nickname, room, roomClients, owner>>
  BY <1>1 DEF server
<1>3. /\ conn' = [conn EXCEPT ![p] = NoClient] /\ scene' = [scene EXCEPT ![p] = "connect"]
      /\ roomPlayers' = [roomPlayers EXCEPT ![p] = <<>>]
      /\ IF c = NoClient THEN UNCHANGED network
         ELSE /\ \E k \in 0..Len(requests[c]) :
                   requests' = [requests EXCEPT ![c] = SubSeq(@, 1, k)]
              /\ sendingBuffer' = [sendingBuffer EXCEPT ![c] = <<>>]
              /\ UNCHANGED mixed
  BY <1>0, <1>1 DEF Hangs
<1>4. /\ conn'[p] = NoClient
      /\ \A q \in Player \ {p} : /\ conn'[q] = conn[q] /\ scene'[q] = scene[q]
                                 /\ roomPlayers'[q] = roomPlayers[q]
                                 /\ isRoomOwner'[q] = isRoomOwner[q]
  BY <1>1, <1>3 DEF LInv, Typed
<1>5. mixed' = mixed /\ \A d \in Client : d # c => requests'[d] = requests[d] /\ sendingBuffer'[d] = sendingBuffer[d]
  BY <1>3 DEF network, LInv, Typed, RequestsFit
<1> QED BY <1>0, <1>1, <1>2, <1>4, <1>5, OwnStepNews

\* A click that asks the server something.
LEMMA AskNews ==
  ASSUME LInv, LInv', NewsInv, NEW p \in Player, p \notin astray,
         NEW type, NEW arg, [type |-> type, arg |-> arg] \in Request,
         Send(p, type, arg), conn[p] # NoClient,
         UNCHANGED <<server, conn, silent, astray>>,
         \A q \in Player \ {p} : /\ scene'[q] = scene[q] /\ isRoomOwner'[q] = isRoomOwner[q]
                                 /\ roomPlayers'[q] = roomPlayers[q],
         \/ /\ type \notin {"JOIN_ROOM", "LEAVE_ROOM"}
            /\ UNCHANGED <<scene, isRoomOwner, roomPlayers>>
         \/ ~isRoomOwner'[p] /\ type = "LEAVE_ROOM"
         \/ ~isRoomOwner'[p] /\ type = "JOIN_ROOM" /\ scene[p] = "menu" /\ ~waiting[p]
  PROVE  NewsInv'
<1>1. PICK c, x : c = conn[p] /\ x = [type |-> type, arg |-> arg]
  OBVIOUS
<1>2. c \in Client /\ c # NoClient /\ requests[c] \in Seq(Request) /\ x \in Request /\ x.type = type
  BY <1>1 DEF LInv, Typed, RequestsFit
<1>3. /\ requests' = [requests EXCEPT ![c] = Append(@, x)] /\ UNCHANGED <<sendingBuffer, mixed>>
      /\ UNCHANGED <<up, nickname, room, roomClients, owner>>
  BY <1>1, SendIs DEF server
<1>4. requests'[c] = Append(requests[c], x) /\ \A d \in Client : d # c => requests'[d] = requests[d]
  BY <1>2, <1>3 DEF LInv, RequestsFit
<1>5. \A types : Asked(requests'[c], types) <=> Asked(requests[c], types) \/ type \in types
  BY <1>2, <1>4, AskedMore
<1>6. ASSUME up PROVE NewsFits(p)'
  <2>1. CASE type \notin {"JOIN_ROOM", "LEAVE_ROOM"} /\ UNCHANGED <<scene, isRoomOwner, roomPlayers>>
    <3>1. Asking(c)
      BY <1>5, <2>1 DEF Asking
    <3> QED BY <1>1, <1>2, <1>3, <1>6, <2>1, <3>1, SameProgramNews
  <2>2. CASE ~isRoomOwner'[p] /\ type = "LEAVE_ROOM"
    <3>1. Asked(requests'[c], {"LEAVE_ROOM"})
      BY <1>5, <2>2
    <3> QED BY <1>1, <2>2, <3>1 DEF NewsFits, Stays
  <2>3. CASE ~isRoomOwner'[p] /\ type = "JOIN_ROOM" /\ scene[p] = "menu" /\ ~waiting[p]
    <3>1. PICK T : T = Types(sendingBuffer[c])
      OBVIOUS
    <3>2. /\ Follow(requests[c], nickname[c], room[c])
          /\ Fits("menu", FALSE, nickname[c], room[c], requests[c], T)
      <4>1. waiting[p] = FALSE
        BY <2>3 DEF LInv, Typed
      <4> QED BY <1>1, <1>2, <1>6, <2>3, <3>1, <4>1, ClickersScene
    <3>3. AtMenu(FALSE, nickname[c], room[c], requests[c], T)
      BY <3>2 DEF Fits
    <3>4. IF requests[c] = <<>> THEN room[c] = NoRoom
          ELSE requests[c][Len(requests[c])].type = "LEAVE_ROOM"
      BY <1>2, <3>2, <3>3, NobodyAsked
    <3>5. room[c] # NoRoom => Asked(requests[c], {"LEAVE_ROOM"})
      BY <1>2, <3>4, TailShape DEF Asked
    <3>6. ~Stays(c)'
      BY <1>3, <1>5, <3>5 DEF Stays
    <3> QED BY <1>1, <2>3, <3>6 DEF NewsFits
  <2> QED BY <2>1, <2>2, <2>3
<1> QED BY <1>1, <1>3, <1>4, <1>6, OwnStepNews

LEMMA ReadyReadNews ==
  ASSUME LInv, LInv', NewsInv, NEW p \in Player, ReadyRead(p)
  PROVE  NewsInv'
<1>1. PICK c, b, s, lists : /\ c = conn[p] /\ b = sendingBuffer[c] /\ s = AfterReading(p, b)
                            /\ lists = Lists(Range(b))
  OBVIOUS
<1>2. /\ c # NoClient /\ b # <<>>
      /\ sendingBuffer' = [sendingBuffer EXCEPT ![c] = <<>>]
      /\ mixed' = IF Cardinality(lists) > 1 THEN mixed \cup {c}
                  ELSE IF lists # {} THEN mixed \ {c} ELSE mixed
      /\ scene' = [scene EXCEPT ![p] = s.scene]
      /\ isRoomOwner' = [isRoomOwner EXCEPT ![p] = s.isRoomOwner]
      /\ roomPlayers' = [roomPlayers EXCEPT ![p] = s.roomPlayers]
      /\ astray' = IF s.astray THEN astray \cup {p} ELSE astray
      /\ UNCHANGED <<server, requests, silent, conn>>
  BY <1>1 DEF ReadyRead, AstrayIf, Lists
<1>3. UNCHANGED <<up, nickname, room, roomClients, owner>>
  BY <1>2 DEF server
<1>4. c \in Client /\ b \in Seq(Messages) /\ requests[c] \in Seq(Request)
  BY <1>1, <1>2 DEF LInv, Typed, RequestsFit
<1>5. /\ BeforeReading(p) \in ProgramState /\ BeforeReading(p).isRoomOwner = isRoomOwner[p]
      /\ BeforeReading(p).roomPlayers = roomPlayers[p]
  BY DEF LInv, BeforeReading, ProgramState, Typed
<1>6. Learns(p, BeforeReading(p), Range(b), s)
  BY <1>1, <1>4, <1>5, ReadingLearns
<1>7. /\ isRoomOwner'[p] = s.isRoomOwner /\ roomPlayers'[p] = s.roomPlayers
      /\ sendingBuffer'[c] = <<>>
      /\ \A q \in Player \ {p} : /\ scene'[q] = scene[q] /\ isRoomOwner'[q] = isRoomOwner[q]
                                 /\ roomPlayers'[q] = roomPlayers[q]
      /\ \A d \in Client \ {c} : sendingBuffer'[d] = sendingBuffer[d] /\ (d \in mixed' <=> d \in mixed)
  BY <1>2, <1>4 DEF LInv, Typed
<1>8. ASSUME up, p \notin astray' PROVE NewsFits(p)'
  <2>1. p \notin astray /\ ~s.astray
    BY <1>2, <1>8
  <2>2. NewsFits(p)
    BY <1>1, <1>2, <1>8, <2>1 DEF NewsInv
  <2>3. PICK T : T = Types(b)
    OBVIOUS
  <2>4. Fits(scene[p], waiting[p], nickname[c], room[c], requests[c], T)
    BY <1>1, <1>2, <1>8, <2>1, <2>3, ClickersScene
  <2>5. /\ s.isRoomOwner <=> isRoomOwner[p] \/ T \cap OwnerNews # {}
        /\ scene[p] = "menu" => "ROOM_OWNERSHIP_TRANSFER" \notin T
        /\ IF lists = {} THEN s.roomPlayers = roomPlayers[p] ELSE s.roomPlayers \in lists
        /\ "ROOM_USERS_LIST" \in T <=> lists # {}
    <3>1. /\ T \cap OwnerNews # {} <=> \E m \in Range(b) : m.type \in OwnerNews
          /\ "ROOM_OWNERSHIP_TRANSFER" \in T
               <=> \E m \in Range(b) : m.type = "ROOM_OWNERSHIP_TRANSFER"
      BY <2>3 DEF Types
    <3>2. "ROOM_USERS_LIST" \in T <=> lists # {}
      BY <1>1, <2>3 DEF Types, Lists
    <3> QED BY <1>1, <1>5, <1>6, <2>1, <3>1, <3>2 DEF Learns
  <2>6. ASSUME Asked(requests[c], {"JOIN_ROOM"}) PROVE ~s.isRoomOwner
    <3>1. ~isRoomOwner[p]
      BY <1>1, <2>2, <2>6 DEF NewsFits
    <3>2. T # {}
      <4>1. b[1] \in Range(b)
        BY <1>2, <1>4, TailShape DEF Range
      <4> QED BY <2>3, <4>1 DEF Types
    <3>3. requests[c] # <<>> /\ \E i \in 1..Len(requests[c]) : requests[c][i].type \notin RoundAsks
      BY <2>6 DEF Asked, RoundAsks
    <3>4. scene[p] = "menu" /\ T \cap RoomAnswers = {}
      BY <1>4, <2>4, <3>2, <3>3 DEF Fits, AtLogin, AtMenu, AtRoom
    <3>5. T \cap OwnerNews = {}
      BY <2>5, <3>4 DEF OwnerNews, RoomAnswers
    <3> QED BY <2>5, <3>1, <3>5
  <2>7. ASSUME Stays(c)
        PROVE  /\ ListKnown(<<>>, Names(room[c]), s.roomPlayers, c \in mixed')
               /\ OwnerKnown(s.scene, s.isRoomOwner, {}, owner[room[c]] = c, room[c] \in silent)
    <3>1. PICK L : L = Names(room[c])
      OBVIOUS
    <3>2. /\ ListKnown(b, L, roomPlayers[p], c \in mixed)
          /\ OwnerKnown(scene[p], isRoomOwner[p], T, owner[room[c]] = c, room[c] \in silent)
      BY <1>1, <2>2, <2>3, <2>7, <3>1 DEF NewsFits
    <3>3. c \in mixed' \/ s.roomPlayers = L
      <4>1. CASE lists = {}
        BY <1>2, <2>3, <2>5, <3>2, <4>1 DEF ListKnown, Types
      <4>2. CASE lists # {} /\ Cardinality(lists) > 1
        BY <1>2, <4>2
      <4>3. CASE lists # {} /\ ~(Cardinality(lists) > 1)
        <5>1. PICK i \in 1..Len(b) :
                /\ b[i].type = "ROOM_USERS_LIST" /\ b[i].list \in lists
                /\ \A j \in 1..(i - 1) : b[j].type # "ROOM_USERS_LIST"
          BY <1>1, <1>4, <4>3, NewestList
        <5>2. b[i].list = L
          BY <3>2, <5>1 DEF ListKnown
        <5>3. s.roomPlayers \in lists
          BY <2>5, <4>3
        <5> QED BY <1>1, <1>4, <4>3, <5>1, <5>2, <5>3, OneList
      <4> QED BY <4>1, <4>2, <4>3
    <3>4. ListKnown(<<>>, L, s.roomPlayers, c \in mixed')
      BY <3>3 DEF ListKnown
    <3>5. OwnerKnown(s.scene, s.isRoomOwner, {}, owner[room[c]] = c, room[c] \in silent)
      BY <2>5, <3>2 DEF OwnerKnown
    <3> QED BY <3>1, <3>4, <3>5
  <2>8. Types(sendingBuffer'[c]) = {}
    BY <1>7, TypesNone
  <2>9. Names(room[c])' = Names(room[c]) /\ (Stays(c)' <=> Stays(c))
    BY <1>2, <1>3 DEF Names, List, Stays
  <2>10. scene'[p] = s.scene
    BY <1>2 DEF LInv, Typed
  <2> QED BY <1>1, <1>2, <1>3, <1>7, <2>6, <2>7, <2>8, <2>9, <2>10 DEF NewsFits
<1> QED BY <1>1, <1>2, <1>3, <1>7, <1>8, OwnStepNews

LEMMA ProgramNews ==
  ASSUME LInv, LInv', NewsInv, NEW p \in Player, ProgramNext(p)
  PROVE  NewsInv'
<1>1. Typed
  BY DEF LInv
<1>2. ASSUME p \notin astray, NEW type \in {"LOGIN", "CREATE_ROOM", "START_GAME"}, NEW arg,
             [type |-> type, arg |-> arg] \in Request, Ask(p, type, arg), UNCHANGED isRoomOwner
      PROVE  NewsInv'
  <2>1. /\ conn[p] # NoClient /\ Send(p, type, arg)
        /\ UNCHANGED <<server, conn, scene, roomPlayers, silent, astray>>
    BY <1>2 DEF Ask
  <2> QED BY <1>2, <2>1, AskNews
<1>3. CASE p \notin astray /\ LoginButtonHit(p)
  <2>1. [type |-> "LOGIN", arg |-> p] \in Request
    BY DEF Request
  <2> QED BY <1>2, <1>3, <2>1 DEF LoginButtonHit
<1>4. CASE p \notin astray /\ CreateRoomButtonHit(p)
  <2>1. [type |-> "CREATE_ROOM", arg |-> 0] \in Request
    BY DEF Request
  <2> QED BY <1>2, <1>4, <2>1 DEF CreateRoomButtonHit
<1>5. CASE p \notin astray /\ StartGameButtonHit(p)
  <2>1. [type |-> "START_GAME", arg |-> 0] \in Request
    BY DEF Request
  <2> QED BY <1>2, <1>5, <2>1 DEF StartGameButtonHit
<1>6. ASSUME p \notin astray, NEW r \in Server!RoomId, JoinRoomButtonHit(p, r) PROVE NewsInv'
  <2>1. [type |-> "JOIN_ROOM", arg |-> r] \in Request
    BY DEF Request
  <2>2. /\ scene[p] = "menu" /\ conn[p] # NoClient /\ ~waiting[p] /\ Send(p, "JOIN_ROOM", r)
        /\ isRoomOwner' = [isRoomOwner EXCEPT ![p] = FALSE]
        /\ UNCHANGED <<server, conn, scene, roomPlayers, silent, astray>>
    BY <1>6 DEF JoinRoomButtonHit, Shows, Ask
  <2>3. ~isRoomOwner'[p] /\ \A q \in Player \ {p} : isRoomOwner'[q] = isRoomOwner[q]
    BY <1>1, <2>2 DEF Typed
  <2> QED BY <1>6, <2>1, <2>2, <2>3, AskNews
<1>7. CASE p \notin astray /\ LeaveRoomButtonHit(p)
  <2>1. [type |-> "LEAVE_ROOM", arg |-> 0] \in Request
    BY DEF Request
  <2>2. /\ scene[p] = "lobby" /\ Send(p, "LEAVE_ROOM", 0)
        /\ isRoomOwner' = [isRoomOwner EXCEPT ![p] = FALSE]
        /\ roomPlayers' = [roomPlayers EXCEPT ![p] = <<>>]
        /\ scene' = [scene EXCEPT ![p] = "menu"]
        /\ UNCHANGED <<server, conn, silent, astray>>
    BY <1>7 DEF LeaveRoomButtonHit, Shows
  <2>3. /\ ~isRoomOwner'[p]
        /\ \A q \in Player \ {p} : /\ scene'[q] = scene[q] /\ isRoomOwner'[q] = isRoomOwner[q]
                                   /\ roomPlayers'[q] = roomPlayers[q]
    BY <1>1, <2>2 DEF Typed
  <2>4. CASE conn[p] # NoClient
    BY <1>7, <2>1, <2>2, <2>3, <2>4, AskNews
  <2>5. CASE conn[p] = NoClient
    <3>1. ~up /\ up' = up
      BY <1>7, <2>2, <2>5, ClickersScene DEF server
    <3> QED BY <3>1 DEF NewsInv
  <2> QED BY <2>4, <2>5
<1>8. ASSUME p \notin astray, NEW l \in Letter, LetterButtonHit(p, l) PROVE NewsInv'
  <2>1. [type |-> "GUESS", arg |-> l] \in Request
    BY DEF Request
  <2>2. conn[p] # NoClient /\ Send(p, "GUESS", l) /\ UNCHANGED <<server, program, silent>>
    BY <1>8 DEF LetterButtonHit
  <2>3. UNCHANGED <<conn, scene, isRoomOwner, roomPlayers, astray>>
    BY <2>2 DEF program, lobby
  <2> QED BY <1>8, <2>1, <2>2, <2>3, AskNews
<1> QED
  BY <1>3, <1>4, <1>5, <1>6, <1>7, <1>8, ReadyReadNews, HangsNews, ConnectedNews, LocalNews
     DEF ProgramNext

NInv == LInv /\ OwnerTyped /\ NewsInv

LEMMA InitNInv == Init => NInv
<1> SUFFICES ASSUME Init PROVE NInv
  OBVIOUS
<1>1. OwnerTyped
  BY DEF Init, Server!Init, OwnerTyped, RoomId
<1>2. NewsInv
  BY DEF Init, NewsInv
<1> QED BY <1>1, <1>2, InitLInv DEF NInv

LEMMA NextNInv == NInv /\ [Next]_vars => NInv'
<1> SUFFICES ASSUME NInv, [Next]_vars PROVE NInv'
  OBVIOUS
<1>1. LInv /\ OwnerTyped /\ NewsInv /\ SeatInv /\ RequestsFit
  BY DEF NInv, LInv
<1>2. LInv'
  BY <1>1, NextLInv
<1>3. OwnerTyped'
  <2>1. [Server!Next]_Server!vars
    BY <1>1, ServerStep, ProgramStep, SameServer DEF Next, vars
  <2> QED BY <1>1, <2>1, OwnerStays
<1>4. NewsInv'
  <2>1. CASE UNCHANGED vars
    <3>1. UNCHANGED <<nickname, room, roomClients, owner, up, requests, sendingBuffer, mixed, conn,
                      scene, isRoomOwner, roomPlayers, astray, silent>>
      BY <2>1 DEF vars, server, network, program, lobby
    <3>2. NewsInv' <=> NewsInv
      BY <3>1 DEF NewsInv, NewsFits, Stays, Names, List
    <3> QED BY <1>1, <3>2
  <2>2. CASE ServerNext
    BY <1>1, <2>2, ServerNews
  <2>3. CASE \E p \in Player : ProgramNext(p)
    BY <1>1, <1>2, <2>3, ProgramNews
  <2> QED BY <2>1, <2>2, <2>3 DEF Next
<1> QED BY <1>2, <1>3, <1>4 DEF NInv

LEMMA NInvHolds == Spec => []NInv
BY InitNInv, NextNInv, PTL DEF Spec

\* What a program knows that has nothing under way and shows a room.
LEMMA KnowsRoom ==
  ASSUME NInv, NEW p \in Player, InRoom(p)
  PROVE  LET c == conn[p]
         IN /\ ListKnown(<<>>, Names(room[c]), roomPlayers[p], c \in mixed)
            /\ OwnerKnown(scene[p], isRoomOwner[p], {}, owner[room[c]] = c, room[c] \in silent)
<1>1. PICK c \in Client : c = conn[p] /\ c # NoClient
  BY DEF NInv, LInv, Typed, InRoom
<1>2. /\ up /\ p \notin astray /\ requests[c] = <<>> /\ sendingBuffer[c] = <<>>
      /\ room[c] # NoRoom
  BY <1>1, SeatedIs DEF InRoom, Settled, NInv, LInv
<1>3. Stays(c)
  BY <1>2 DEF Stays, Asked
<1>4. NewsFits(p)
  BY <1>1, <1>2 DEF NInv, NewsInv
<1> QED BY <1>1, <1>2, <1>3, <1>4, TypesNone DEF NewsFits

\* Once nothing is under way, the lobby lists who is in the room, whoever came and went
\* in between, unless one write held different lists (Room.cpp:104-160, 216, 240,
\* 274-282, Server.cpp:262, LobbyWidget.cpp:46-58).
THEOREM ListIsCurrentHolds == Spec => []ListIsCurrent
<1>1. NInv => ListIsCurrent
  BY KnowsRoom DEF ListIsCurrent, ListKnown, Names, Types, Range
<1> QED BY <1>1, NInvHolds, PTL

\* Once nothing is under way, Start is offered to the owner of the room and to nobody
\* else, except that an owner who was not told does not see it (MainWindow.cpp:56, 74,
\* MenuWidget.cpp:41, LobbyWidget.cpp:33-41, Server.cpp:277-287).
THEOREM StartIsOfferedHolds == Spec => []StartIsOffered
<1>1. NInv => StartIsOffered
  BY KnowsRoom DEF StartIsOffered, StartVisible, OwnerKnown
<1> QED BY <1>1, NInvHolds, PTL

-----------------------------------------------------------------------------
(***************************************************************************)
(* The rounds on the server, as far as the players see them: whether the   *)
(* round of a room runs, and who plays in it.                              *)
(***************************************************************************)

Runs(r) == r \in rooms /\ game[r] = "inProgress"
Plays(c, r) == c \in DOMAIN gameStats[r]

GamesTyped ==
  /\ game \in [RoomId -> Server!GameState] /\ DOMAIN gameStats = RoomId
  /\ disconnectedClients \in [RoomId -> Seq(Client)]
  /\ \A r \in RoomId \ rooms : game[r] # "inProgress"

\* Two connections never have one nickname.
UniqueNames ==
  \A c, d \in clients : nickname[c] = nickname[d] /\ nickname[c] # NoNick => c = d

\* While a round runs, the owner of the room plays in it, unless disconnected.
OwnerPlays == \A r \in RoomId : Runs(r) /\ owner[r] \in clients => Plays(owner[r], r)

Away(r) == Range(disconnectedClients[r])

\* The lists of leavers: no name is there twice, or sits in the room as well.
LeaversApart ==
  /\ \A r \in RoomId \ rooms : disconnectedClients[r] = <<>>
  /\ \A r \in rooms : DistinctBy(disconnectedClients[r], nickname)
  /\ \A r \in rooms, c \in clients : room[c] = r => \A d \in Away(r) : nickname[d] # nickname[c]

\* A connected player of a running round sits in the room or is on its list of leavers.
PlayersFound ==
  \A r \in RoomId, c \in clients : Runs(r) /\ Plays(c, r) => room[c] = r \/ c \in Away(r)

Rounds == GamesTyped /\ UniqueNames /\ OwnerPlays /\ LeaversApart /\ PlayersFound

\* In a step of the server d's round starts if T holds the start and ends if T
\* holds the result; d plays on in it, and stays the owner of the room.
RoundKept(d, T) ==
  \A r \in RoomId : room[d] = r =>
    /\ Plays(d, r) => Plays(d, r)'
    /\ Runs(r)' => Runs(r) \/ "GAME_STARTED" \in T
    /\ Runs(r)' /\ Plays(d, r)' => Plays(d, r) \/ "GAME_STARTED" \in T
    /\ Runs(r) => Runs(r)' \/ "RESULT" \in T
    /\ owner[r] = d /\ room'[d] = r => owner'[r] = d

LEMMA KeptBesides == \A d, T : RoundKept(d, {}) => RoundKept(d, T)
BY DEF RoundKept

LEMMA RoundIs ==
  /\ \A c : InRound(c) <=> Runs(room[c]) /\ Plays(c, room[c])
  /\ \A r : Server!Running(r) <=> Runs(r)
  /\ \A c, r : c \in Server!Players(r) <=> Plays(c, r)
BY DEF InRound, Runs, Plays, Server!Running, Server!Players

LEMMA InitRounds == ASSUME Server!Init PROVE Rounds
BY DEF Server!Init, Rounds, GamesTyped, UniqueNames, OwnerPlays, Runs, RoomId, Server!GameState,
       LeaversApart, PlayersFound

\* The rounds are the same, and so are the rooms.
LEMMA RoundsUntouched ==
  ASSUME SeatInv, Rounds, UniqueNames', LeaversApart', PlayersFound', clients' = clients,
         UNCHANGED <<rooms, owner, disconnectedClients, game, gameStats>>
  PROVE  Rounds' /\ \A d \in Client : RoundKept(d, {})
<1>1. \A r \in RoomId : (Runs(r)' <=> Runs(r)) /\ \A c : Plays(c, r)' <=> Plays(c, r)
  BY DEF Runs, Plays
<1>2. GamesTyped' /\ OwnerPlays'
  BY <1>1 DEF Rounds, GamesTyped, OwnerPlays
<1>3. \A d \in Client : RoundKept(d, {})
  BY <1>1 DEF RoundKept
<1> QED BY <1>2, <1>3 DEF Rounds

\* A client that no room refers to gets another name.
LEMMA NamesOfLeavers ==
  ASSUME SeatInv, Rounds, NEW c \in Client, ~Server!Referenced(c), clients' = clients \cup {c},
         UNCHANGED <<rooms, disconnectedClients, game, gameStats>>,
         room' = room \/ room' = [room EXCEPT ![c] = NoRoom],
         NEW n, nickname' = [nickname EXCEPT ![c] = n]
  PROVE  LeaversApart' /\ PlayersFound'
<1>1. \A r \in rooms : c \notin Range(roomClients[r]) /\ c \notin Away(r) /\ ~Plays(c, r)
  BY MembersAre DEF Server!Referenced, Server!Gone, Server!Range, Range, Away, Server!Players, Plays
<1>2. room'[c] = NoRoom
  <2>1. room[c] = NoRoom
    BY <1>1 DEF SeatInv, SeatsTyped, OneSeat, Range
  <2> QED BY <2>1 DEF SeatInv, SeatsTyped
<1>3. \A r \in rooms : r \in RoomId /\ r # NoRoom
  BY RoomFacts DEF SeatInv, SeatsTyped
<1>4. \A d \in Client \ {c} : nickname'[d] = nickname[d] /\ room'[d] = room[d]
  BY DEF SeatInv, SeatsTyped
<1>5. ASSUME NEW r \in rooms
      PROVE  /\ Away(r) \subseteq Client \ {c}
             /\ DistinctBy(disconnectedClients[r], nickname')
  <2>1. disconnectedClients[r] \in Seq(Client) /\ DistinctBy(disconnectedClients[r], nickname)
    BY <1>3 DEF Rounds, GamesTyped, LeaversApart
  <2>2. Away(r) \subseteq Client \ {c}
    BY <1>1, <2>1 DEF Away, Range
  <2>3. \A i \in 1..Len(disconnectedClients[r]) : disconnectedClients[r][i] \in Away(r)
    BY DEF Away, Range
  <2> QED BY <1>4, <2>1, <2>2, <2>3 DEF DistinctBy
<1>6. LeaversApart'
  <2>1. ASSUME NEW r \in rooms, NEW d \in clients', room'[d] = r, NEW e \in Away(r)
        PROVE  nickname'[e] # nickname'[d]
    <3>1. d \in clients \ {c} /\ d \in Client /\ room[d] = r
      BY <1>2, <1>3, <1>4, <2>1 DEF SeatInv, SeatsTyped
    <3> QED BY <1>4, <1>5, <2>1, <3>1 DEF Rounds, LeaversApart
  <2> QED BY <1>5, <2>1 DEF LeaversApart, Rounds, Away
<1>7. PlayersFound'
  <2>1. ASSUME NEW r \in RoomId, NEW d \in clients', Runs(r), Plays(d, r)
        PROVE  room'[d] = r \/ d \in Away(r)
    <3>1. d \in clients \ {c} /\ d \in Client
      BY <1>1, <2>1 DEF SeatInv, SeatsTyped, Runs
    <3> QED BY <1>4, <2>1, <3>1 DEF Rounds, PlayersFound
  <2> QED BY <2>1 DEF PlayersFound, Runs, Plays, Away
<1> QED BY <1>6, <1>7

LEMMA AcceptRounds ==
  ASSUME SeatInv, Rounds, NEW c \in Client, Server!Accept(c)
  PROVE  Rounds' /\ \A d \in Client : RoundKept(d, {})
<1>1. /\ clients' = clients \cup {c} /\ nickname' = [nickname EXCEPT ![c] = NoNick]
      /\ room' = [room EXCEPT ![c] = NoRoom]
      /\ UNCHANGED <<rooms, owner, disconnectedClients, game, gameStats>>
      /\ c \notin clients /\ ~Server!Referenced(c)
  BY DEF Server!Accept, Server!seatVars, Server!roundVars, NoRoom
<1>2. \A r \in RoomId : (Runs(r)' <=> Runs(r)) /\ \A e : Plays(e, r)' <=> Plays(e, r)
  BY <1>1 DEF Runs, Plays
<1>3. \A r \in rooms : owner[r] # c
  BY <1>1 DEF Server!Referenced
<1>4. OwnerPlays'
  BY <1>1, <1>2, <1>3 DEF Rounds, OwnerPlays, Runs
<1>5. UniqueNames'
  BY <1>1 DEF Rounds, UniqueNames, SeatInv, SeatsTyped
<1>6. GamesTyped'
  BY <1>1 DEF Rounds, GamesTyped
<1>7. \A d \in Client : RoundKept(d, {})
  BY <1>1, <1>2 DEF RoundKept
<1>8. LeaversApart' /\ PlayersFound'
  BY <1>1, NamesOfLeavers
<1> QED BY <1>4, <1>5, <1>6, <1>7, <1>8 DEF Rounds

LEMMA LoginRounds ==
  ASSUME SeatInv, Rounds, NEW c \in Client, NEW n \in Player, Server!Login(c, n)
  PROVE  Rounds' /\ \A d \in Client : RoundKept(d, {})
<1>1. /\ nickname' = [nickname EXCEPT ![c] = n] /\ \A d \in clients : nickname[d] # n
      /\ UNCHANGED <<clients, room, rooms, owner, disconnectedClients, game, gameStats>>
      /\ ~Server!Referenced(c) /\ c \in clients
  BY DEF Server!Login, Server!seatVars, Server!roundVars
<1>2. UniqueNames'
  BY <1>1 DEF Rounds, UniqueNames, SeatInv, SeatsTyped
<1>3. LeaversApart' /\ PlayersFound'
  <2>1. clients' = clients \cup {c}
    BY <1>1
  <2> QED BY <1>1, <2>1, NamesOfLeavers
<1> QED BY <1>1, <1>2, <1>3, RoundsUntouched

LEMMA CreateRounds ==
  ASSUME SeatInv, OwnerTyped, Rounds, NEW c \in Client, Server!CreateRoom(c), room[c] = NoRoom
  PROVE  /\ Rounds' /\ \A d \in Client : room[d] # NoRoom => RoundKept(d, {})
         /\ \A r \in RoomId : r = roomCounter => ~Runs(r)'
<1>1. /\ rooms' = rooms \cup {roomCounter} /\ owner' = [owner EXCEPT ![roomCounter] = c]
      /\ UNCHANGED <<clients, nickname, disconnectedClients, game, gameStats>>
  BY DEF Server!CreateRoom, Server!roundVars
<1>2. roomCounter \in RoomId
  BY CreateKeepsSeats
<1>3. roomCounter \notin rooms
  BY RoomFacts DEF SeatInv, SeatsTyped, OneSeat
<1>4. game[roomCounter] # "inProgress"
  BY <1>2, <1>3 DEF Rounds, GamesTyped
<1>5. \A r \in RoomId : (Runs(r)' <=> Runs(r)) /\ \A e : Plays(e, r)' <=> Plays(e, r)
  BY <1>1, <1>4 DEF Runs, Plays
<1>6. \A r \in RoomId \ {roomCounter} : owner'[r] = owner[r]
  BY <1>1 DEF OwnerTyped
<1>7. \A r \in RoomId : r = roomCounter => ~Runs(r)'
  BY <1>1, <1>4 DEF Runs
<1>8. ~Runs(roomCounter)
  BY <1>3 DEF Runs
<1>9. OwnerPlays'
  BY <1>1, <1>5, <1>6, <1>8 DEF Rounds, OwnerPlays
<1>10. UniqueNames' /\ GamesTyped'
  BY <1>1 DEF Rounds, GamesTyped, UniqueNames
<1>12. room' = [room EXCEPT ![c] = roomCounter] /\ disconnectedClients[roomCounter] = <<>>
  BY <1>2, <1>3 DEF Server!CreateRoom, Rounds, LeaversApart
<1>13. \A d \in clients, r \in RoomId :
         (room[d] = r => room'[d] = r) /\ (room'[d] = r => room[d] = r \/ r = roomCounter)
  BY <1>12, RoomFacts DEF SeatInv, SeatsTyped
<1>14. LeaversApart'
  <2>1. DistinctBy(disconnectedClients[roomCounter], nickname) /\ Away(roomCounter) = {}
    BY <1>12 DEF DistinctBy, Away, Range
  <2>2. ASSUME NEW r \in rooms', NEW d \in clients, room'[d] = r, NEW e \in Away(r)
        PROVE  nickname[e] # nickname[d]
    <3>1. r \in rooms /\ r # roomCounter /\ r \in RoomId
      BY <1>1, <1>3, <2>1, <2>2 DEF SeatInv, SeatsTyped
    <3> QED BY <1>13, <2>2, <3>1 DEF Rounds, LeaversApart
  <2>3. \A r \in rooms' : DistinctBy(disconnectedClients[r], nickname)
    BY <1>1, <2>1 DEF Rounds, LeaversApart
  <2>4. \A r \in RoomId \ rooms' : disconnectedClients[r] = <<>>
    BY <1>1 DEF Rounds, LeaversApart
  <2> QED BY <1>1, <2>2, <2>3, <2>4 DEF LeaversApart, Away
<1>15. PlayersFound'
  <2>1. ASSUME NEW r \in RoomId, NEW d \in clients, Runs(r)', Plays(d, r)'
        PROVE  room'[d] = r \/ d \in Away(r)
    BY <1>5, <1>13, <2>1 DEF Rounds, PlayersFound
  <2> QED BY <1>1, <2>1 DEF PlayersFound, Away
<1>11. ASSUME NEW d \in Client, room[d] # NoRoom PROVE RoundKept(d, {})
  <2>1. room[d] # roomCounter
    <3>1. d \in Range(roomClients[room[d]]) /\ room[d] \in RoomId
      BY <1>11 DEF SeatInv, SeatsTyped, OneSeat
    <3>2. room[d] \in rooms
      BY <3>1 DEF SeatInv, OneSeat, Range
    <3> QED BY <1>3, <3>2
  <2> QED BY <1>5, <1>6, <2>1 DEF RoundKept
<1> QED BY <1>7, <1>9, <1>10, <1>11, <1>14, <1>15 DEF Rounds

\* Where Room::join finds the seat is an entry of disconnectedClients of the name.
LEMMA FormerSelfIs ==
  ASSUME GamesTyped, NEW c \in Client, NEW r \in RoomId, Server!FormerSeats(c, r) # {}
  PROVE  /\ Server!Min(Server!FormerSeats(c, r)) \in 1..Len(disconnectedClients[r])
         /\ Server!FormerSelf(c, r) \in Client
         /\ nickname[Server!FormerSelf(c, r)] = nickname[c]
<1> DEFINE S == Server!FormerSeats(c, r)
           m == Server!Min(S)
<1>1. disconnectedClients[r] \in Seq(Client)
  BY DEF GamesTyped
<1>2. S = {i \in 1..Len(disconnectedClients[r]) :
             nickname[disconnectedClients[r][i]] = nickname[c]}
  BY DEF Server!FormerSeats
<1>3. S \subseteq Nat
  BY <1>1, <1>2
<1>4. Server!Min(S) = Min(S)
  BY DEF Server!Min, Min
<1> HIDE DEF S
<1>5. m \in S
  BY <1>3, <1>4, MinOfNats DEF S
<1>6. Server!FormerSelf(c, r) = disconnectedClients[r][m]
  BY DEF Server!FormerSelf, S
<1> HIDE DEF m
<1>7. m \in 1..Len(disconnectedClients[r]) /\ nickname[disconnectedClients[r][m]] = nickname[c]
  BY <1>2, <1>5
<1>8. disconnectedClients[r][m] \in Client
  BY <1>1, <1>7
<1> QED BY <1>6, <1>7, <1>8 DEF m, S

\* Room::join: of the leavers exactly the namesake is taken off the list.
LEMMA AwayAfterJoin ==
  ASSUME SeatInv, Rounds, NEW c \in clients, NEW r \in rooms, Server!TakeSeat(c, r)
  PROVE  /\ disconnectedClients' \in [RoomId -> Seq(Client)]
         /\ \A q \in RoomId \ {r} : disconnectedClients'[q] = disconnectedClients[q]
         /\ DistinctBy(disconnectedClients'[r], nickname)
         /\ Away(r)' = {d \in Away(r) : nickname[d] # nickname[c]}
<1> DEFINE S == Server!FormerSeats(c, r)
           b == disconnectedClients[r]
<1>0. c \in Client /\ r \in RoomId
  BY DEF SeatInv, SeatsTyped
<1>1. /\ disconnectedClients' = [disconnectedClients EXCEPT ![r] =
                                    IF S = {} THEN b ELSE Server!RemoveAt(b, Server!Min(S))]
      /\ S = {i \in 1..Len(b) : nickname[b[i]] = nickname[c]}
  BY DEF Server!TakeSeat, Server!FormerSeats
<1>2. b \in Seq(Client) /\ DistinctBy(b, nickname) /\ GamesTyped
  BY <1>0 DEF Rounds, GamesTyped, LeaversApart
<1> HIDE DEF S
<1>3. CASE S = {}
  <2>1. disconnectedClients' = disconnectedClients
    BY <1>0, <1>1, <1>3, <1>2 DEF GamesTyped
  <2>2. \A d \in Away(r) : nickname[d] # nickname[c]
    BY <1>1, <1>3 DEF Away, Range
  <2>3. Away(r)' = Away(r)
    BY <2>1 DEF Away
  <2> QED BY <1>2, <2>1, <2>2, <2>3 DEF GamesTyped
<1>4. CASE S # {}
  <2>1. PICK k : k = Server!Min(S)
    OBVIOUS
  <2>2. k \in 1..Len(b) /\ nickname[b[k]] = nickname[c]
    <3>1. k \in 1..Len(b)
      BY <1>0, <1>2, <1>4, <2>1, FormerSelfIs DEF S
    <3>2. nickname[Server!FormerSelf(c, r)] = nickname[c]
      BY <1>0, <1>2, <1>4, FormerSelfIs DEF S
    <3> QED BY <2>1, <3>1, <3>2 DEF Server!FormerSelf, S
  <2>3. Server!RemoveAt(b, k) = RemoveAt(b, k)
    BY DEF Server!RemoveAt, RemoveAt
  <2>4. /\ RemoveAt(b, k) \in Seq(Client) /\ DistinctBy(RemoveAt(b, k), nickname)
        /\ Range(RemoveAt(b, k)) = {x \in Range(b) : nickname[x] # nickname[b[k]]}
    BY <1>2, <2>2, RemoveAtShape, RemoveAtDistinct
  <2>5. PICK u : u = RemoveAt(b, k)
    OBVIOUS
  <2>6. disconnectedClients' = [disconnectedClients EXCEPT ![r] = u]
    BY <1>1, <1>4, <2>1, <2>3, <2>5
  <2>7. disconnectedClients'[r] = u
    BY <1>0, <1>2, <2>6 DEF GamesTyped
  <2>8. Away(r)' = Range(u)
    BY <2>7 DEF Away
  <2> QED BY <1>0, <1>2, <2>2, <2>4, <2>5, <2>6, <2>7, <2>8 DEF GamesTyped, Away
<1> QED BY <1>3, <1>4

\* Who has taken a seat is no leaver of this room any more.
LEMMA LeaversAfterJoin ==
  ASSUME SeatInv, Rounds, NEW c \in clients, NEW r \in rooms, Server!TakeSeat(c, r),
         UNCHANGED <<clients, nickname, rooms>>, room[c] = NoRoom, nickname[c] # NoNick
  PROVE  LeaversApart' /\ \A d \in clients, q \in RoomId :
           /\ room'[d] = q <=> room[d] = q \/ (d = c /\ q = r)
           /\ d \in Away(q) => d \in Away(q)' \/ (d = c /\ q = r)
<1>0. c \in Client /\ r \in RoomId /\ clients \subseteq Client /\ rooms \subseteq RoomId
  BY DEF SeatInv, SeatsTyped
<1>1. /\ \A q \in RoomId \ {r} : disconnectedClients'[q] = disconnectedClients[q]
      /\ DistinctBy(disconnectedClients'[r], nickname)
      /\ Away(r)' = {d \in Away(r) : nickname[d] # nickname[c]}
  BY AwayAfterJoin
<1>2. \A q \in RoomId \ {r} : Away(q)' = Away(q)
  BY <1>1 DEF Away
<1>3. room' = [room EXCEPT ![c] = r]
  BY DEF Server!TakeSeat
<1>4. \A d \in clients, q \in RoomId : room'[d] = q <=> room[d] = q \/ (d = c /\ q = r)
  BY <1>0, <1>3, RoomFacts DEF SeatInv, SeatsTyped
<1>5. LeaversApart'
  <2>1. ASSUME NEW q \in rooms, NEW d \in clients, room'[d] = q, NEW e \in Away(q)'
        PROVE  nickname[e] # nickname[d]
    <3>1. CASE q = r /\ d = c
      BY <1>1, <2>1, <3>1
    <3>2. CASE ~(q = r /\ d = c)
      <4>1. room[d] = q /\ e \in Away(q)
        BY <1>0, <1>1, <1>2, <1>4, <2>1, <3>2
      <4> QED BY <2>1, <4>1 DEF Rounds, LeaversApart
    <3> QED BY <3>1, <3>2
  <2>2. \A q \in rooms : DistinctBy(disconnectedClients'[q], nickname)
    BY <1>0, <1>1 DEF Rounds, LeaversApart
  <2>3. \A q \in RoomId \ rooms : disconnectedClients'[q] = <<>>
    BY <1>0, <1>1 DEF Rounds, LeaversApart
  <2> QED BY <2>1, <2>2, <2>3 DEF LeaversApart
<1>6. ASSUME NEW d \in clients, NEW q \in RoomId, d \in Away(q)
      PROVE  d \in Away(q)' \/ (d = c /\ q = r)
  <2>1. CASE q = r /\ nickname[d] = nickname[c]
    BY <2>1 DEF Rounds, UniqueNames
  <2>2. CASE ~(q = r /\ nickname[d] = nickname[c])
    BY <1>1, <1>2, <1>6, <2>2
  <2> QED BY <2>1, <2>2
<1> QED BY <1>4, <1>5, <1>6

\* Who takes a seat without a former self has no row in the round of the room: a
\* player of the round who is away is found under the nickname.
LEMMA JoinerHasNoRow ==
  ASSUME SeatInv, Rounds, NEW c \in clients, NEW r \in RoomId, room[c] = NoRoom,
         Runs(r), Plays(c, r)
  PROVE  Server!Resumes(c, r)
<1> DEFINE S == Server!FormerSeats(c, r)
           b == disconnectedClients[r]
<1>1. c \in Away(r) /\ r \in rooms
  BY RoomFacts DEF Rounds, PlayersFound, Runs
<1>2. S = {i \in 1..Len(b) : nickname[b[i]] = nickname[c]}
  BY DEF Server!FormerSeats
<1>3. PICK i \in 1..Len(b) : b[i] = c
  <2>1. b \in Seq(Client)
    BY DEF Rounds, GamesTyped
  <2> QED BY <1>1, <2>1 DEF Away, Range
<1>4. i \in S
  BY <1>2, <1>3
<1>5. PICK k : k = Server!Min(S)
  OBVIOUS
<1>6. k \in 1..Len(b) /\ nickname[Server!FormerSelf(c, r)] = nickname[c]
  <2>1. Server!FormerSeats(c, r) # {} /\ c \in Client /\ GamesTyped
    BY <1>4 DEF SeatInv, SeatsTyped, Rounds
  <2> QED BY <1>5, <2>1, FormerSelfIs
<1>7. Server!FormerSelf(c, r) = b[k]
  BY <1>5 DEF Server!FormerSelf
<1>8. k = i
  BY <1>1, <1>3, <1>6, <1>7 DEF Rounds, LeaversApart, DistinctBy
<1> QED BY <1>1, <1>3, <1>4, <1>7, <1>8, RoundIs DEF Server!Resumes, Runs

LEMMA JoinRounds ==
  ASSUME SeatInv, Rounds, NEW c \in Client, NEW r \in RoomId, Server!JoinRoom(c, r),
         room[c] = NoRoom
  PROVE  /\ Rounds' /\ \A d \in Client : RoundKept(d, {})
         /\ ~(Runs(r)' /\ Plays(c, r)')
<1>1. /\ Server!TakeSeat(c, r) /\ c \in clients /\ r \in rooms /\ nickname[c] # NoNick
      /\ UNCHANGED <<clients, nickname, rooms, owner, game, gameStats>>
      /\ ~Server!Resumes(c, r)
  BY DEF Server!JoinRoom, Server!roundVars, Server!MayJoin, Server!MayAskForRoom
<1>2. \A q \in RoomId : (Runs(q)' <=> Runs(q)) /\ \A e : Plays(e, q)' <=> Plays(e, q)
  BY <1>1 DEF Runs, Plays
<1>3. GamesTyped'
  BY <1>1, AwayAfterJoin DEF Rounds, GamesTyped
<1>4. UniqueNames' /\ OwnerPlays'
  BY <1>1, <1>2 DEF Rounds, UniqueNames, OwnerPlays
<1>5. \A d \in Client : RoundKept(d, {})
  BY <1>1, <1>2 DEF RoundKept
<1>6. LeaversApart' /\ \A d \in clients, q \in RoomId :
        /\ room'[d] = q <=> room[d] = q \/ (d = c /\ q = r)
        /\ d \in Away(q) => d \in Away(q)' \/ (d = c /\ q = r)
  BY <1>1, LeaversAfterJoin
<1>7. PlayersFound'
  BY <1>1, <1>2, <1>6 DEF Rounds, PlayersFound
<1>8. ~(Runs(r)' /\ Plays(c, r)')
  BY <1>1, <1>2, JoinerHasNoRow
<1> QED BY <1>3, <1>4, <1>5, <1>6, <1>7, <1>8 DEF Rounds

LEMMA RejoinRounds ==
  ASSUME SeatInv, Rounds, NEW c \in Client, NEW r \in RoomId, Server!RejoinRoom(c, r),
         room[c] = NoRoom
  PROVE  Rounds' /\ \A d \in Client : room[d] # NoRoom => RoundKept(d, {})
<1> DEFINE f == Server!FormerSelf(c, r)
           stats == Server!StatsAfterRejoin(c, r)
<1>1. /\ Server!TakeSeat(c, r) /\ c \in clients /\ nickname[c] # NoNick
      /\ Server!FormerSeats(c, r) # {}
      /\ Server!HaveRows(Server!Members(r) \cup {c}, stats)
      /\ gameStats' = [gameStats EXCEPT ![r] = stats]
      /\ UNCHANGED <<clients, nickname, rooms, owner, game>>
  BY DEF Server!RejoinRoom, Server!MayJoin, Server!MayAskForRoom, Server!Resumes
<1>0. r \in rooms
  BY DEF Server!RejoinRoom, Server!MayJoin
<1>2. DOMAIN stats = (DOMAIN gameStats[r] \cup {c}) \ {f}
  BY DEF Server!StatsAfterRejoin, Server!Players
<1>3. f \in Client /\ nickname[f] = nickname[c]
  BY <1>1, FormerSelfIs DEF Rounds
<1> HIDE DEF f, stats
<1>4. /\ \A e : Plays(e, r)' <=> (Plays(e, r) \/ e = c) /\ e # f
      /\ \A q \in RoomId \ {r} : \A e : Plays(e, q)' <=> Plays(e, q)
      /\ \A q \in RoomId : Runs(q)' <=> Runs(q)
  BY <1>1, <1>2 DEF Runs, Plays, Rounds, GamesTyped
<1>5. f # c /\ f \notin Range(roomClients[r])
  BY <1>1, <1>2, MembersAre DEF Server!HaveRows
<1>6. f \notin clients
  BY <1>1, <1>3, <1>5 DEF Rounds, UniqueNames
<1>7. OwnerPlays'
  BY <1>1, <1>4, <1>6 DEF Rounds, OwnerPlays
<1>8. UniqueNames' /\ GamesTyped'
  BY <1>0, <1>1, AwayAfterJoin DEF Rounds, UniqueNames, GamesTyped
<1>10. LeaversApart' /\ \A d \in clients, q \in RoomId :
         /\ room'[d] = q <=> room[d] = q \/ (d = c /\ q = r)
         /\ d \in Away(q) => d \in Away(q)' \/ (d = c /\ q = r)
  BY <1>0, <1>1, LeaversAfterJoin
<1>11. PlayersFound'
  <2>1. ASSUME NEW q \in RoomId, NEW d \in clients, Runs(q)', Plays(d, q)'
        PROVE  room'[d] = q \/ d \in Away(q)'
    <3>1. Runs(q) /\ (Plays(d, q) \/ (d = c /\ q = r))
      BY <1>4, <2>1
    <3> QED BY <1>10, <2>1, <3>1 DEF Rounds, PlayersFound
  <2> QED BY <1>1, <2>1 DEF PlayersFound
<1>9. ASSUME NEW d \in Client, room[d] # NoRoom PROVE RoundKept(d, {})
  <2>1. d \in clients /\ d # f /\ d # c
    BY <1>6, <1>9 DEF SeatInv, OneSeat
  <2>2. ASSUME room[d] = r PROVE Plays(d, r)'
    <3>1. d \in Range(roomClients[r])
      BY <2>2 DEF SeatInv, OneSeat
    <3> QED BY <1>1, <3>1, MembersAre DEF Server!HaveRows, Plays, Rounds, GamesTyped
  <2> QED BY <1>1, <1>4, <2>1, <2>2 DEF RoundKept
<1> QED BY <1>7, <1>8, <1>9, <1>10, <1>11 DEF Rounds

\* An heir of the room plays in the round: else the process ends (Room.cpp:267-282).
LEMMA VacateRounds ==
  ASSUME SeatInv, OwnerTyped, Rounds, NEW c \in Client, room[c] # NoRoom, Server!Vacate(c),
         ~Server!LeaveBroadcastThrows(c), clients' \subseteq clients
  PROVE  Rounds' /\ \A d \in Client : RoundKept(d, {})
<1> DEFINE rest == Server!Remaining(c)
<1>1. PICK r \in RoomId : r = room[c]
  BY DEF SeatInv, SeatsTyped
<1>2. /\ disconnectedClients' = [disconnectedClients EXCEPT ![r] = Append(@, c)]
      /\ owner' = IF owner[r] = c /\ rest # <<>> THEN [owner EXCEPT ![r] = Head(rest)] ELSE owner
      /\ room' = [room EXCEPT ![c] = NoRoom]
      /\ UNCHANGED <<nickname, rooms, game, gameStats>>
  BY <1>1 DEF Server!Vacate, Server!roundVars, NoRoom
<1>3. rest \in Seq(Client)
  BY RemainingSeats
<1>4. Runs(r) => Range(rest) \subseteq DOMAIN gameStats[r]
  BY <1>1 DEF Server!LeaveBroadcastThrows, Server!HaveRows, Server!Running, Runs,
             Server!Range, Range
<1> HIDE DEF rest
<1>5. rest # <<>> => Head(rest) \in Range(rest)
  BY <1>3 DEF Range
<1>6. \A q \in RoomId : (Runs(q)' <=> Runs(q)) /\ \A e : Plays(e, q)' <=> Plays(e, q)
  BY <1>2 DEF Runs, Plays
<1>7. OwnerPlays'
  <2>1. ASSUME NEW q \in RoomId, NEW e, e = owner'[q], Runs(q)', e \in clients'
        PROVE  Plays(e, q)'
    <3>1. CASE e = owner[q]
      BY <1>6, <2>1, <3>1 DEF Rounds, OwnerPlays
    <3>2. CASE e # owner[q]
      <4>1. q = r /\ e = Head(rest) /\ rest # <<>>
        BY <1>2, <2>1, <3>2 DEF OwnerTyped
      <4> QED BY <1>2, <1>4, <1>5, <1>6, <2>1, <4>1 DEF Plays
    <3> QED BY <3>1, <3>2
  <2> QED BY <2>1 DEF OwnerPlays
<1>8. disconnectedClients' \in [RoomId -> Seq(Client)]
  BY <1>2 DEF Rounds, GamesTyped
<1>9. UniqueNames' /\ GamesTyped'
  BY <1>2, <1>8 DEF Rounds, UniqueNames, GamesTyped
<1>10. ASSUME NEW d \in Client PROVE RoundKept(d, {})
  <2>1. ASSUME NEW q \in RoomId, room[d] = q, owner[q] = d, room'[d] = q PROVE owner'[q] = d
    <3>1. d # c
      BY <1>2, <2>1, RoomFacts DEF SeatInv, SeatsTyped
    <3> QED BY <1>2, <2>1, <3>1 DEF OwnerTyped
  <2> QED BY <1>6, <2>1 DEF RoundKept
<1>11. /\ c \in clients /\ r \in rooms /\ disconnectedClients[r] \in Seq(Client)
       /\ disconnectedClients'[r] = Append(disconnectedClients[r], c)
       /\ \A q \in RoomId \ {r} : disconnectedClients'[q] = disconnectedClients[q]
  BY <1>1, <1>2 DEF SeatInv, OneSeat, Range, Rounds, GamesTyped
<1>12. Away(r)' = Away(r) \cup {c} /\ \A q \in RoomId \ {r} : Away(q)' = Away(q)
  BY <1>11, AppendRange DEF Away
<1>13. \A d \in clients', q \in RoomId : room'[d] = q <=> room[d] = q /\ d # c
  BY <1>2, RoomFacts DEF SeatInv, SeatsTyped
<1>14. LeaversApart'
  <2>1. DistinctBy(disconnectedClients'[r], nickname)
    <3>1. \A d \in Range(disconnectedClients[r]) : nickname[d] # nickname[c]
      BY <1>1, <1>11 DEF Rounds, LeaversApart, Away
    <3>2. DistinctBy(disconnectedClients[r], nickname)
      BY <1>11 DEF Rounds, LeaversApart
    <3> QED BY <1>11, <3>1, <3>2, AppendDistinct
  <2>2. \A q \in rooms : DistinctBy(disconnectedClients'[q], nickname)
    BY <1>11, <2>1 DEF Rounds, LeaversApart, SeatInv, SeatsTyped
  <2>3. ASSUME NEW q \in rooms, NEW d \in clients', room'[d] = q, NEW e \in Away(q)'
        PROVE  nickname[e] # nickname[d]
    <3>1. q \in RoomId /\ d \in clients /\ d # c /\ room[d] = q
      BY <1>13, <2>3 DEF SeatInv, SeatsTyped
    <3>2. CASE e \in Away(q)
      BY <2>3, <3>1, <3>2 DEF Rounds, LeaversApart
    <3>3. CASE e = c
      <4>1. nickname[c] # NoNick
        BY <1>1 DEF SeatInv, OneSeat
      <4> QED BY <1>11, <3>1, <3>3, <4>1 DEF Rounds, UniqueNames
    <3> QED BY <1>12, <2>3, <3>1, <3>2, <3>3
  <2>4. \A q \in RoomId \ rooms : disconnectedClients'[q] = <<>>
    BY <1>11 DEF Rounds, LeaversApart
  <2> QED BY <1>2, <2>2, <2>3, <2>4 DEF LeaversApart
<1>15. PlayersFound'
  <2>1. ASSUME NEW q \in RoomId, NEW d \in clients', Runs(q)', Plays(d, q)'
        PROVE  room'[d] = q \/ d \in Away(q)'
    <3>1. room[d] = q \/ d \in Away(q)
      BY <1>6, <2>1 DEF Rounds, PlayersFound
    <3> QED BY <1>1, <1>12, <1>13, <2>1, <3>1
  <2> QED BY <2>1 DEF PlayersFound
<1> QED BY <1>7, <1>9, <1>10, <1>14, <1>15 DEF Rounds

LEMMA DisconnectRounds ==
  ASSUME SeatInv, Rounds, NEW c \in Client, Server!Disconnect(c), room[c] = NoRoom
  PROVE  Rounds' /\ \A d \in Client : RoundKept(d, {})
<1>1. /\ clients' \subseteq clients
      /\ UNCHANGED <<nickname, room, rooms, owner, disconnectedClients, game, gameStats>>
  <2>1. ~Server!Seated(c)
    BY SeatedIs
  <2> QED BY <2>1 DEF Server!Disconnect, Server!clientVars, Server!seatVars, Server!roundVars
<1>2. \A r \in RoomId : (Runs(r)' <=> Runs(r)) /\ \A e : Plays(e, r)' <=> Plays(e, r)
  BY <1>1 DEF Runs, Plays
<1>3. GamesTyped' /\ OwnerPlays' /\ UniqueNames'
  BY <1>1, <1>2 DEF Rounds, GamesTyped, OwnerPlays, UniqueNames
<1>4. \A d \in Client : RoundKept(d, {})
  BY <1>1, <1>2 DEF RoundKept
<1>5. LeaversApart' /\ PlayersFound'
  BY <1>1, <1>2 DEF Rounds, LeaversApart, PlayersFound, Away
<1> QED BY <1>3, <1>4, <1>5 DEF Rounds

\* The owner starts a round for all members of the room, and for nobody else.
LEMMA StartRounds ==
  ASSUME SeatInv, Rounds, NEW c \in Client, NEW w, Server!StartGame(c, w),
         owner[room[c]] = c
  PROVE  /\ Rounds' /\ room[c] # NoRoom /\ owner' = owner
         /\ \A d \in Client : IF room[d] = room[c] THEN RoundKept(d, {"GAME_STARTED"})
                              ELSE RoundKept(d, {})
<1>1. room[c] # NoRoom
  BY DEF Server!StartGame, NoRoom
<1>2. PICK r \in RoomId : r = room[c]
  BY <1>1 DEF SeatInv, SeatsTyped
<1> DEFINE rows == [d \in Server!Members(r) |-> Server!NewStats(w)]
<1>3. /\ disconnectedClients' = [disconnectedClients EXCEPT ![r] = <<>>]
      /\ game' = [game EXCEPT ![r] = "inProgress"]
      /\ gameStats' = [gameStats EXCEPT ![r] = rows]
      /\ UNCHANGED <<clients, nickname, room, rooms, owner>>
  BY <1>2 DEF Server!StartGame, Server!NewGame
<1>4. DOMAIN rows = Range(roomClients[r])
  BY MembersAre
<1> HIDE DEF rows
<1>5. c \in Range(roomClients[r])
  BY <1>2 DEF SeatInv, OneSeat
<1>6. r \in rooms
  BY <1>5 DEF SeatInv, OneSeat, Range
<1>7. /\ Runs(r)' /\ \A e : Plays(e, r)' <=> e \in Range(roomClients[r])
      /\ \A q \in RoomId \ {r} : Runs(q)' <=> Runs(q)
      /\ \A q \in RoomId \ {r} : \A e : Plays(e, q)' <=> Plays(e, q)
  BY <1>3, <1>4, <1>6 DEF Runs, Plays, Rounds, GamesTyped
<1>8. OwnerPlays'
  BY <1>2, <1>3, <1>5, <1>7 DEF Rounds, OwnerPlays
<1>9. UniqueNames'
  BY <1>3 DEF Rounds, UniqueNames
<1>10. GamesTyped'
  <2>1. <<>> \in Seq(Client)
    OBVIOUS
  <2>2. disconnectedClients' \in [RoomId -> Seq(Client)]
    BY <1>3, <2>1 DEF Rounds, GamesTyped
  <2>3. DOMAIN gameStats' = RoomId
    BY <1>3 DEF Rounds, GamesTyped
  <2>4. game' \in [RoomId -> Server!GameState]
    BY <1>3 DEF Rounds, GamesTyped, Server!GameState
  <2>5. \A q \in RoomId \ rooms' : game'[q] # "inProgress"
    BY <1>3, <1>6 DEF Rounds, GamesTyped
  <2> QED BY <2>2, <2>3, <2>4, <2>5 DEF GamesTyped
<1>11. ASSUME NEW d \in Client
       PROVE  IF room[d] = room[c] THEN RoundKept(d, {"GAME_STARTED"}) ELSE RoundKept(d, {})
  <2>1. CASE room[d] = room[c]
    <3>1. d \in Range(roomClients[r])
      BY <1>2, <2>1 DEF SeatInv, OneSeat
    <3> QED BY <1>2, <1>3, <1>7, <2>1, <3>1 DEF RoundKept
  <2>2. CASE room[d] # room[c]
    BY <1>2, <1>3, <1>7, <2>2 DEF RoundKept
  <2> QED BY <2>1, <2>2
<1>12. LeaversApart'
  <2>1. \A q \in RoomId : disconnectedClients'[q] = IF q = r THEN <<>> ELSE disconnectedClients[q]
    BY <1>3 DEF Rounds, GamesTyped
  <2>2. DistinctBy(disconnectedClients'[r], nickname) /\ Away(r)' = {}
    BY <2>1 DEF DistinctBy, Away, Range
  <2>3. \A q \in RoomId \ {r} : Away(q)' = Away(q)
    BY <2>1 DEF Away
  <2>4. rooms \subseteq RoomId
    BY DEF SeatInv, SeatsTyped
  <2> QED BY <1>3, <1>6, <2>1, <2>2, <2>3, <2>4 DEF Rounds, LeaversApart
<1>13. PlayersFound'
  <2>1. \A q \in RoomId \ {r} : Away(q)' = Away(q)
    BY <1>3 DEF Rounds, GamesTyped, Away
  <2>2. \A e \in Range(roomClients[r]) : room[e] = r
    BY DEF SeatInv, SeatsTyped, OneSeat, Range
  <2> QED BY <1>3, <1>7, <2>1, <2>2 DEF Rounds, PlayersFound
<1> QED BY <1>1, <1>3, <1>8, <1>9, <1>10, <1>11, <1>12, <1>13 DEF Rounds

\* A guess changes a row that is there.
LEMMA GuessRounds ==
  ASSUME SeatInv, Rounds, NEW c \in Client, NEW l, Server!Guess(c, l)
  PROVE  Rounds' /\ \A d \in Client : RoundKept(d, {})
<1>1. PICK r \in RoomId : r = room[c]
  BY DEF Server!Guess, SeatInv, SeatsTyped, NoRoom
<1>2. PICK board : gameStats' = [gameStats EXCEPT ![r][c] = board]
  BY <1>1 DEF Server!Guess
<1>3. UNCHANGED <<clients, nickname, room, rooms, owner, disconnectedClients, game>>
  BY DEF Server!Guess, Server!seatVars
<1>4. \A q \in RoomId : (Runs(q)' <=> Runs(q)) /\ \A e : Plays(e, q)' <=> Plays(e, q)
  BY <1>2, <1>3 DEF Runs, Plays, Rounds, GamesTyped
<1>5. DOMAIN gameStats' = RoomId
  BY <1>2 DEF Rounds, GamesTyped
<1>6. Rounds'
  <2>1. LeaversApart' /\ PlayersFound'
    BY <1>3, <1>4 DEF Rounds, LeaversApart, PlayersFound, Away
  <2> QED BY <1>3, <1>4, <1>5, <2>1 DEF Rounds, GamesTyped, UniqueNames, OwnerPlays
<1>7. \A d \in Client : RoundKept(d, {})
  BY <1>3, <1>4 DEF RoundKept
<1> QED BY <1>6, <1>7

\* The tick stops the rounds whose members hear of the result.
LEMMA TickRounds ==
  ASSUME SeatInv, OwnerTyped, Rounds, NEW due \in SUBSET RoomId, Server!Tick(due)
  PROVE  /\ Rounds'
         /\ \A d \in Client :
              room[d] # NoRoom =>
                RoundKept(d, IF room[d] \in due THEN Types(Results(room[d])) ELSE {})
<1>1. /\ rooms' = {r \in rooms : roomClients[r] # <<>>}
      /\ game' = [r \in RoomId |-> IF r \notin rooms' THEN "none"
                                   ELSE IF r \in due /\ Server!RoundOver(r) THEN "stopped"
                                   ELSE game[r]]
      /\ gameStats' = [r \in RoomId |-> IF r \in rooms' THEN gameStats[r] ELSE Server!NoStats]
      /\ disconnectedClients' =
           [r \in RoomId |-> IF r \in rooms' THEN disconnectedClients[r] ELSE <<>>]
      /\ owner' = [r \in RoomId |-> IF r \in rooms' THEN owner[r] ELSE NoClient]
      /\ UNCHANGED <<clients, nickname, room>>
  BY DEF Server!Tick, Server!RoomsKept, Server!clientVars, RoomId
<1>2. /\ \A r \in rooms' : \A e : Plays(e, r)' <=> Plays(e, r)
      /\ \A r \in RoomId : Runs(r)' => Runs(r)
      /\ \A r \in RoomId : Runs(r) /\ r \in rooms' /\ ~(r \in due /\ Server!RoundOver(r)) => Runs(r)'
  BY <1>1 DEF Runs, Plays, SeatInv, SeatsTyped
<1>3. GamesTyped'
  <2>1. game' \in [RoomId -> Server!GameState]
    <3>1. \A r \in RoomId : game[r] \in Server!GameState
      BY DEF Rounds, GamesTyped
    <3> QED BY <1>1, <3>1 DEF Server!GameState
  <2>2. \A r \in RoomId \ rooms' : game'[r] # "inProgress"
    BY <1>1
  <2>3. DOMAIN gameStats' = RoomId
    BY <1>1
  <2>4. disconnectedClients' \in [RoomId -> Seq(Client)]
    <3>1. \A r \in RoomId : disconnectedClients[r] \in Seq(Client)
      BY DEF Rounds, GamesTyped
    <3>2. <<>> \in Seq(Client)
      OBVIOUS
    <3> QED BY <1>1, <3>1, <3>2
  <2> QED BY <2>1, <2>2, <2>3, <2>4 DEF GamesTyped
<1>4. UniqueNames'
  BY <1>1 DEF Rounds, UniqueNames
<1>5. OwnerPlays'
  <2>1. ASSUME NEW r \in RoomId, NEW e, e = owner'[r], Runs(r)', e \in clients'
        PROVE  Plays(e, r)'
    <3>1. r \in rooms' /\ e = owner[r] /\ Runs(r) /\ e \in clients
      BY <1>1, <1>2, <2>1 DEF Runs
    <3>2. Plays(e, r)
      BY <3>1 DEF Rounds, OwnerPlays
    <3> QED BY <1>2, <3>1, <3>2
  <2> QED BY <2>1 DEF OwnerPlays
<1>6. ASSUME NEW d \in Client, room[d] # NoRoom
      PROVE  RoundKept(d, IF room[d] \in due THEN Types(Results(room[d])) ELSE {})
  <2>1. PICK r \in RoomId : r = room[d]
    BY <1>6 DEF SeatInv, SeatsTyped
  <2>2. d \in Range(roomClients[r])
    BY <2>1 DEF SeatInv, OneSeat
  <2>3. r \in rooms'
    BY <1>1, <2>2 DEF SeatInv, OneSeat, Range
  <2>4. Server!RoundOver(r) => "RESULT" \in Types(Results(r))
    <3>1. Server!RoundOver(r) <=> Server!TimedOut(r) \/ Server!AllClientsFinished(r)
      BY DEF Server!RoundOver
    <3>2. /\ Msg("RESULT").type = "RESULT" /\ Types(<<Msg("RESULT")>>) = {"RESULT"}
          /\ <<Msg("RESULT")>> \in Seq(Messages) /\ <<>> \in Seq(Messages)
      BY TypesOne, MsgTyped DEF MessageTypes
    <3>3. Server!RoundOver(r) =>
            \/ Results(r) = <<Msg("RESULT")>> \o <<>> \/ Results(r) = <<>> \o <<Msg("RESULT")>>
            \/ Results(r) = <<Msg("RESULT")>> \o <<Msg("RESULT")>>
      BY <3>1 DEF Results
    <3>4. /\ Types(<<Msg("RESULT")>> \o <<>>) = {"RESULT"} /\ Types(<<>> \o <<Msg("RESULT")>>) = {"RESULT"}
          /\ Types(<<Msg("RESULT")>> \o <<Msg("RESULT")>>) = {"RESULT"}
      BY <3>2, TypesTogether, TypesNone
    <3> QED BY <3>3, <3>4
  <2> QED BY <1>1, <1>2, <2>1, <2>3, <2>4 DEF RoundKept
<1>7. LeaversApart' /\ PlayersFound'
  <2>1. rooms' \subseteq rooms /\ rooms \subseteq RoomId
    BY <1>1 DEF SeatInv, SeatsTyped
  <2>2. \A r \in rooms' : Away(r)' = Away(r) /\ disconnectedClients'[r] = disconnectedClients[r]
    BY <1>1, <2>1 DEF Away
  <2>3. \A r \in RoomId \ rooms' : disconnectedClients'[r] = <<>>
    BY <1>1
  <2>4. LeaversApart'
    BY <1>1, <2>1, <2>2, <2>3 DEF Rounds, LeaversApart
  <2>5. PlayersFound'
    <3>1. ASSUME NEW r \in RoomId, NEW c \in clients, Runs(r)', Plays(c, r)'
          PROVE  room[c] = r \/ c \in Away(r)'
      <4>1. r \in rooms' /\ Runs(r) /\ Plays(c, r)
        BY <1>2, <3>1 DEF Runs
      <4> QED BY <2>2, <4>1 DEF Rounds, PlayersFound
    <3> QED BY <1>1, <3>1 DEF PlayersFound
  <2> QED BY <2>4, <2>5
<1> QED BY <1>3, <1>4, <1>5, <1>6, <1>7 DEF Rounds

-----------------------------------------------------------------------------
(***************************************************************************)
(* What a program knows of the round of its room, and what it may ask.     *)
(***************************************************************************)

\* At most one entry of q has one of the types.
OneOf(q, types) ==
  \A i, j \in 1..Len(q) : q[i].type \in types /\ q[j].type \in types => i = j

\* Asked-for starts come from the owner of a room without a round, one at a time, and
\* letters from who has a row in the room.
AskRight(c) ==
  /\ OneOf(requests[c], {"START_GAME"})
  /\ \A r \in RoomId : room[c] = r =>
       /\ Asked(requests[c], {"START_GAME"}) => owner[r] = c /\ ~Runs(r)
       /\ Asked(requests[c], {"GUESS"}) => Plays(c, r)

\* Who plays in a running round is in the game scene or hears of the start; who is in
\* the game scene has a row, and the round runs, or a result shows, is under way or was
\* shown in a box that is gone.
RoundKnown(s, boxes, gone, runs, plays, T) ==
  /\ runs /\ plays => "GAME_STARTED" \in T \/ (s = "game" /\ boxes = 0)
  /\ s = "game" => plays /\ (runs \/ boxes > 0 \/ gone \/ "RESULT" \in T)

RoundFits(p) ==
  LET c == conn[p]
      T == Types(sendingBuffer[c])
  IN /\ Stays(c) => \A r \in RoomId : room[c] = r =>
           RoundKnown(scene[p], resultBoxes[p], p \in dismissed, Runs(r), Plays(c, r), T)
     /\ OneOf(sendingBuffer[c], RoomAnswers)
     /\ isRoomOwner[p] /\ "GAME_STARTED" \in T => waiting[p]
     /\ Asked(requests[c], {"START_GAME"}) /\ scene[p] \in {"lobby", "game"} => waiting[p]
     /\ Asked(requests[c], {"LEAVE_ROOM"}) => ~isRoomOwner[p]

RoundsFit == \A p \in Player : p \notin astray /\ conn[p] # NoClient => RoundFits(p)

RInv == NInv /\ (up => Rounds /\ (\A c \in Client : AskRight(c)) /\ RoundsFit)

-----------------------------------------------------------------------------

LEMMA OneOfNone == \A q, types : ~Asked(q, types) => OneOf(q, types)
BY DEF OneOf, Asked

LEMMA OneOfTail ==
  ASSUME NEW q \in Seq(Request), q # <<>>, NEW types, OneOf(q, types)
  PROVE  OneOf(Tail(q), types) /\ (Head(q).type \in types => ~Asked(Tail(q), types))
<1> DEFINE t == Tail(q)
<1>1. /\ Len(q) \in Nat \ {0} /\ Head(q) = q[1]
      /\ Len(t) = Len(q) - 1 /\ \A i \in 1..(Len(q) - 1) : t[i] = q[i + 1]
  BY TailShape
<1> HIDE DEF t
<1>2. \A i \in 1..Len(t) : i + 1 \in 1..Len(q) /\ i + 1 # 1 /\ t[i] = q[i + 1] /\ i \in Int
  BY <1>1
<1>3. 1 \in 1..Len(q)
  BY <1>1
<1>4. OneOf(t, types)
  <2>1. ASSUME NEW i \in 1..Len(t), NEW j \in 1..Len(t), t[i].type \in types, t[j].type \in types
        PROVE  i = j
    <3>1. i + 1 = j + 1
      BY <1>2, <2>1 DEF OneOf
    <3> QED BY <1>2, <3>1
  <2> QED BY <2>1 DEF OneOf
<1>5. Head(q).type \in types => ~Asked(t, types)
  BY <1>1, <1>2, <1>3 DEF OneOf, Asked
<1> QED BY <1>4, <1>5 DEF t

LEMMA AskedCut ==
  ASSUME NEW q \in Seq(Request), NEW k \in 0..Len(q), NEW types
  PROVE  /\ Asked(SubSeq(q, 1, k), types) => Asked(q, types)
         /\ OneOf(q, types) => OneOf(SubSeq(q, 1, k), types)
<1> DEFINE t == SubSeq(q, 1, k)
<1>1. Len(t) = k /\ \A i \in 1..k : t[i] = q[i]
  OBVIOUS
<1>2. \A i \in 1..k : i \in 1..Len(q)
  OBVIOUS
<1> HIDE DEF t
<1>3. /\ Asked(t, types) => Asked(q, types)
      /\ OneOf(q, types) => OneOf(t, types)
  BY <1>1, <1>2 DEF Asked, OneOf
<1> QED BY <1>3 DEF t

LEMMA OneOfAppend ==
  ASSUME NEW q \in Seq(Request), NEW x \in Request, NEW u, u = Append(q, x), NEW types,
         OneOf(q, types), x.type \in types => ~Asked(q, types)
  PROVE  OneOf(u, types)
<1>1. /\ Len(u) = Len(q) + 1 /\ Len(q) \in Nat /\ u[Len(q) + 1] = x
      /\ \A i \in 1..Len(q) : u[i] = q[i]
  BY AppendShape
<1>2. \A i \in 1..Len(u) : i \in 1..Len(q) \/ i = Len(q) + 1
  BY <1>1
<1> QED BY <1>1, <1>2 DEF Asked, OneOf

LEMMA OneOfConcat ==
  ASSUME NEW s \in Seq(Messages), NEW b \in Seq(Messages), NEW types, OneOf(s, types),
         OneOf(b, types), ~Asked(s, types) \/ ~Asked(b, types)
  PROVE  OneOf(s \o b, types)
<1> DEFINE u == s \o b
<1>1. /\ u \in Seq(Messages) /\ Len(u) = Len(s) + Len(b)
      /\ \A i \in 1..(Len(s) + Len(b)) : u[i] = IF i <= Len(s) THEN s[i] ELSE b[i - Len(s)]
      /\ Len(s) \in Nat /\ Len(b) \in Nat
  BY ConcatProperties
<1> HIDE DEF u
<1>2. ASSUME NEW i \in 1..Len(u)
      PROVE  \/ i \in 1..Len(s) /\ u[i] = s[i]
             \/ i - Len(s) \in 1..Len(b) /\ u[i] = b[i - Len(s)]
  BY <1>1
<1>3. ASSUME NEW i \in 1..Len(u), NEW j \in 1..Len(u), u[i].type \in types, u[j].type \in types
      PROVE  i = j
  <2>1. i \in Int /\ j \in Int
    BY <1>1
  <2>2. CASE i \in 1..Len(s) /\ u[i] = s[i]
    <3>1. j \in 1..Len(s) /\ u[j] = s[j]
      BY <1>2, <1>3, <2>2 DEF Asked
    <3> QED BY <1>3, <2>2, <3>1 DEF OneOf
  <2>3. CASE i - Len(s) \in 1..Len(b) /\ u[i] = b[i - Len(s)]
    <3>1. j - Len(s) \in 1..Len(b) /\ u[j] = b[j - Len(s)]
      BY <1>2, <1>3, <2>3 DEF Asked
    <3>2. i - Len(s) = j - Len(s)
      BY <1>3, <2>3, <3>1 DEF OneOf
    <3> QED BY <1>1, <2>1, <3>2
  <2> QED BY <1>2, <2>2, <2>3
<1> QED BY <1>3 DEF OneOf, u

LEMMA OneOfReverse ==
  ASSUME NEW t \in Seq(Messages), NEW types, OneOf(t, types)
  PROVE  OneOf(Reverse(t), types)
<1> DEFINE s == Reverse(t)
<1>1. Len(t) \in Nat /\ Len(s) = Len(t) /\ \A i \in 1..Len(t) : s[i] = t[Len(t) - i + 1]
  BY DEF Reverse
<1> HIDE DEF s
<1>2. \A i \in 1..Len(t) : Len(t) - i + 1 \in 1..Len(t)
  BY <1>1
<1>3. ASSUME NEW i \in 1..Len(s), NEW j \in 1..Len(s), s[i].type \in types, s[j].type \in types
      PROVE  i = j
  <2>1. Len(t) - i + 1 = Len(t) - j + 1
    BY <1>1, <1>2, <1>3 DEF OneOf
  <2> QED BY <1>1, <2>1
<1> QED BY <1>3 DEF OneOf, s

LEMMA AskedTypes ==
  ASSUME NEW b \in Seq(Messages), NEW types
  PROVE  Asked(b, types) <=> Types(b) \cap types # {}
BY DEF Asked, Types, Range

-----------------------------------------------------------------------------
(***************************************************************************)
(* A step of the server that tells.                                        *)
(***************************************************************************)

\* No request is new.
Fewer(d) ==
  /\ OneOf(requests'[d], {"START_GAME"})
  /\ \A types : Asked(requests'[d], types) => Asked(requests[d], types)

\* d keeps its seat, and hears the messages t of what happens to its round.
GoesOn(d, t) ==
  /\ Fewer(d) /\ Asking(d) /\ room'[d] = room[d]
  /\ Types(t) \cap RoomAnswers = {}
  /\ room[d] # NoRoom => RoundKept(d, Types(t))
  /\ "GAME_STARTED" \in Types(t) =>
       /\ ~Asked(requests'[d], {"START_GAME"})
       /\ \A p \in Player : p \notin astray /\ conn[p] = d => (isRoomOwner[p] => waiting[p])

\* The program p, on the connection c, knows of its round after it is told t what it
\* has to know.
RoundTold(p, c, t) ==
  /\ Fewer(c)
  /\ OneOf(t, RoomAnswers)
  /\ Types(t) \cap RoomAnswers = {} \/ Types(sendingBuffer[c]) \cap RoomAnswers = {}
  /\ "GAME_STARTED" \in Types(t) => (isRoomOwner[p] => waiting[p])
  /\ Stays(c)' => \A r \in RoomId : room'[c] = r =>
       \/ Stays(c) /\ room[c] = r /\ RoundKept(c, Types(t))
       \/ scene[p] # "game" /\ (Runs(r)' /\ Plays(c, r)' => "GAME_STARTED" \in Types(t))

\* d takes or gives up a seat, or goes on.
Settles(d, t) ==
  AskRight(d)' /\ \A p \in Player : p \notin astray /\ conn[p] = d => RoundTold(p, d, t)

LEMMA GoesOnSettles ==
  ASSUME NEW d \in Client, AskRight(d), NEW t \in Seq(Messages), GoesOn(d, t)
  PROVE  Settles(d, t)
<1>1. AskRight(d)'
  <2>1. ASSUME NEW r \in RoomId, room'[d] = r
        PROVE  /\ Asked(requests'[d], {"START_GAME"}) => owner'[r] = d /\ ~Runs(r)'
               /\ Asked(requests'[d], {"GUESS"}) => Plays(d, r)'
    <3>1. room[d] = r /\ RoundKept(d, Types(t))
      BY <2>1, RoomFacts DEF GoesOn
    <3> QED BY <2>1, <3>1 DEF GoesOn, Fewer, AskRight, RoundKept
  <2> QED BY <2>1 DEF AskRight, GoesOn, Fewer
<1>2. ASSUME NEW p \in Player, p \notin astray, conn[p] = d PROVE RoundTold(p, d, t)
  <2>1. OneOf(t, RoomAnswers)
    BY AskedTypes, OneOfNone DEF GoesOn
  <2>2. "GAME_STARTED" \in Types(t) => (isRoomOwner[p] => waiting[p])
    BY <1>2 DEF GoesOn
  <2>3. ASSUME Stays(d)', NEW r \in RoomId, room'[d] = r
        PROVE  Stays(d) /\ room[d] = r /\ RoundKept(d, Types(t))
    BY <2>3, RoomFacts DEF GoesOn, Stays, Asking
  <2> QED BY <1>2, <2>1, <2>2, <2>3 DEF RoundTold, GoesOn
<1> QED BY <1>1, <1>2 DEF Settles

LEMMA ToldKeepsRound ==
  ASSUME LInv, NEW p \in Player, RoundFits(p), UNCHANGED program,
         NEW told \in [Client -> Seq(Messages)], Queue(told), NEW c \in Client, c = conn[p],
         RoundTold(p, c, told[c])
  PROVE  RoundFits(p)'
<1>1. UNCHANGED <<conn, scene, isRoomOwner, waiting, resultBoxes, dismissed>>
  BY DEF program, lobby
<1>2. Held(c)
  BY DEF Held
<1>3. PICK b, t : b = sendingBuffer[c] /\ t = told[c]
  OBVIOUS
<1>4. b \in Seq(Messages) /\ t \in Seq(Messages) /\ sendingBuffer'[c] = Reverse(t) \o b
  BY <1>2, <1>3 DEF Queue, LInv, Typed
<1> DEFINE s == Reverse(t)
<1>5. s \in Seq(Messages) /\ Types(s) = Types(t)
  <2>1. s \in Seq(Messages) /\ Range(s) = Range(t)
    BY <1>4, ReverseRange
  <2> QED BY <2>1 DEF Types
<1>6. OneOf(b, RoomAnswers) /\ OneOf(t, RoomAnswers)
      /\ (Types(t) \cap RoomAnswers = {} \/ Types(b) \cap RoomAnswers = {})
  BY <1>3 DEF RoundFits, RoundTold
<1>7. OneOf(s, RoomAnswers)
  BY <1>4, <1>6, OneOfReverse
<1> HIDE DEF s
<1>8. ~Asked(s, RoomAnswers) \/ ~Asked(b, RoomAnswers)
  BY <1>4, <1>5, <1>6, AskedTypes
<1>9. /\ sendingBuffer'[c] = s \o b /\ OneOf(sendingBuffer'[c], RoomAnswers)
      /\ Types(sendingBuffer'[c]) = Types(b) \cup Types(t)
  <2>1. OneOf(s \o b, RoomAnswers)
    BY <1>4, <1>5, <1>6, <1>7, <1>8, OneOfConcat
  <2>2. Types(s \o b) = Types(s) \cup Types(b)
    BY <1>4, <1>5, TypesTogether
  <2> QED BY <1>4, <1>5, <2>1, <2>2 DEF s
<1>10. ASSUME Stays(c)', NEW r \in RoomId, room'[c] = r
       PROVE  RoundKnown(scene[p], resultBoxes[p], p \in dismissed, Runs(r)', Plays(c, r)',
                         Types(b) \cup Types(t))
  <2>1. CASE Stays(c) /\ room[c] = r /\ RoundKept(c, Types(t))
    <3>1. RoundKnown(scene[p], resultBoxes[p], p \in dismissed, Runs(r), Plays(c, r), Types(b))
      BY <1>3, <2>1 DEF RoundFits
    <3>2. /\ Plays(c, r) => Plays(c, r)'
          /\ Runs(r)' => Runs(r) \/ "GAME_STARTED" \in Types(t)
          /\ Runs(r)' /\ Plays(c, r)' => Plays(c, r) \/ "GAME_STARTED" \in Types(t)
          /\ Runs(r) => Runs(r)' \/ "RESULT" \in Types(t)
      BY <2>1 DEF RoundKept
    <3> QED BY <3>1, <3>2 DEF RoundKnown
  <2>2. CASE scene[p] # "game" /\ (Runs(r)' /\ Plays(c, r)' => "GAME_STARTED" \in Types(t))
    BY <2>2 DEF RoundKnown
  <2>3. \/ Stays(c) /\ room[c] = r /\ RoundKept(c, Types(t))
        \/ scene[p] # "game" /\ (Runs(r)' /\ Plays(c, r)' => "GAME_STARTED" \in Types(t))
    BY <1>3, <1>10 DEF RoundTold
  <2> QED BY <2>1, <2>2, <2>3
<1>11. /\ isRoomOwner[p] /\ "GAME_STARTED" \in Types(b) \cup Types(t) => waiting[p]
       /\ Asked(requests'[c], {"START_GAME"}) /\ scene[p] \in {"lobby", "game"} => waiting[p]
       /\ Asked(requests'[c], {"LEAVE_ROOM"}) => ~isRoomOwner[p]
  BY <1>3 DEF RoundFits, RoundTold, Fewer
<1>12. conn'[p] = c
  BY <1>1
<1> QED BY <1>1, <1>9, <1>10, <1>11, <1>12 DEF RoundFits, Stays

LEMMA HandlerRounds ==
  ASSUME RInv, NInv', up, UNCHANGED program,
         NEW told \in [Client -> Seq(Messages)], Queue(told), Rounds',
         \A d \in Client : Settles(d, told[d])
  PROVE  RInv'
<1>1. UNCHANGED <<conn, astray>>
  BY DEF program
<1>2. ASSUME NEW p \in Player, p \notin astray, conn[p] # NoClient PROVE RoundFits(p)'
  <2>1. PICK c \in Client : c = conn[p]
    BY <1>2 DEF RInv, NInv, LInv, Typed
  <2>2. RoundFits(p) /\ RoundTold(p, c, told[c])
    BY <1>2, <2>1 DEF RInv, RoundsFit, Settles
  <2> QED BY <2>1, <2>2, ToldKeepsRound DEF RInv, NInv
<1>3. RoundsFit'
  BY <1>1, <1>2 DEF RoundsFit
<1>4. \A d \in Client : AskRight(d)'
  BY DEF Settles
<1> QED BY <1>3, <1>4 DEF RInv

\* Nobody takes or gives up a seat.
LEMMA GoneOnRounds ==
  ASSUME RInv, NInv', up, UNCHANGED program,
         NEW told \in [Client -> Seq(Messages)], Queue(told), Rounds',
         \A d \in Client : GoesOn(d, told[d])
  PROVE  RInv'
<1>1. ASSUME NEW d \in Client PROVE Settles(d, told[d])
  <2>1. PICK t \in Seq(Messages) : t = told[d]
    OBVIOUS
  <2>2. AskRight(d) /\ GoesOn(d, t)
    BY <2>1 DEF RInv
  <2>3. Settles(d, t)
    BY <2>2, GoesOnSettles
  <2> QED BY <2>1, <2>3
<1> QED BY <1>1, HandlerRounds

-----------------------------------------------------------------------------

LEMMA HandledFewer ==
  ASSUME RInv, NEW c \in Client, NEW type, Handles(c, type)
  PROVE  /\ \A d \in Client : Fewer(d)
         /\ type = "START_GAME" => ~Asked(requests'[c], {"START_GAME"})
<1>1. /\ up /\ requests[c] \in Seq(Request) /\ requests[c] # <<>> /\ Head(requests[c]).type = type
      /\ requests'[c] = Tail(requests[c]) /\ \A d \in Client \ {c} : requests'[d] = requests[d]
  BY Handled DEF RInv, NInv
<1>2. \A d \in Client : OneOf(requests[d], {"START_GAME"})
  BY <1>1 DEF RInv, AskRight
<1>3. /\ OneOf(Tail(requests[c]), {"START_GAME"})
      /\ type = "START_GAME" => ~Asked(Tail(requests[c]), {"START_GAME"})
  BY <1>1, <1>2, OneOfTail
<1>4. \A types : Asked(Tail(requests[c]), types) => Asked(requests[c], types)
  BY <1>1, AskedOfTail
<1> QED BY <1>1, <1>2, <1>3, <1>4 DEF Fewer

\* A crash ends what is promised.
LEMMA CrashRounds == ASSUME NInv', Server!Crash PROVE RInv'
BY DEF Server!Crash, RInv

\* A step that tells no start and no seat.
LEMMA QuietRounds ==
  ASSUME RInv, NInv', up, UNCHANGED <<program, room>>, Rounds',
         NEW told \in [Client -> Seq(Messages)], Queue(told),
         \A d \in Client : /\ Fewer(d) /\ Asking(d)
                           /\ Types(told[d]) \cap (RoomAnswers \cup {"GAME_STARTED"}) = {}
                           /\ room[d] # NoRoom => RoundKept(d, Types(told[d]))
  PROVE  RInv'
<1>1. \A d \in Client : GoesOn(d, told[d])
  BY DEF GoesOn
<1> QED BY <1>1, GoneOnRounds

LEMMA SameRounds ==
  ASSUME RInv, up, UNCHANGED server
  PROVE  Rounds' /\ (\A d \in Client : RoundKept(d, {})) /\ UNCHANGED room
<1>1. UNCHANGED <<clients, nickname, rooms, owner, disconnectedClients, game, gameStats, room>>
  BY DEF server
<1>2. Rounds /\ SeatInv
  BY DEF RInv, NInv, LInv
<1>3. UniqueNames' /\ LeaversApart' /\ PlayersFound'
  BY <1>1, <1>2 DEF Rounds, UniqueNames, LeaversApart, PlayersFound, Away, Runs, Plays
<1> QED BY <1>1, <1>2, <1>3, RoundsUntouched

LEMMA LoginKeepsRounds == ASSUME RInv, NInv', NEW c \in Client, Login(c) PROVE RInv'
<1>1. Handles(c, "LOGIN")
  BY DEF Login
<1>2. /\ up /\ UNCHANGED program /\ \A d \in Client : Asking(d) /\ Fewer(d)
      /\ Head(requests[c]) \in Request /\ Head(requests[c]).type = "LOGIN"
  BY <1>1, Handled, HandledAsks, HandledFewer DEF RInv, NInv
<1>3. Head(requests[c]).arg \in Player /\ SeatInv /\ Rounds
  BY <1>2, RequestFacts DEF RInv, NInv, LInv
<1>4. PICK type, told :
        /\ type \in {"LOGIN_OK", "LOGIN_FAILED"}
        /\ told = To(c, <<Msg(type)>>) /\ Queue(told)
        /\ Server!Login(c, Head(requests[c]).arg) \/ UNCHANGED server
  BY DEF Login
<1>5. type \in MessageTypes /\ type \notin RoomAnswers \cup {"GAME_STARTED"}
  BY <1>4 DEF MessageTypes, RoomAnswers
<1>6. /\ told \in [Client -> Seq(Messages)] /\ Types(told[c]) = {type}
      /\ \A d \in Client \ {c} : Types(told[d]) = {}
  BY <1>4, <1>5, ToldOne
<1>7. Rounds' /\ (\A d \in Client : RoundKept(d, {})) /\ UNCHANGED room
  BY <1>2, <1>3, <1>4, SameRounds, LoginRounds, LoginKeepsSeats
<1>8. \A d \in Client : /\ Types(told[d]) \cap (RoomAnswers \cup {"GAME_STARTED"}) = {}
                        /\ RoundKept(d, Types(told[d]))
  BY <1>5, <1>6, <1>7, KeptBesides
<1> QED BY <1>2, <1>4, <1>6, <1>7, <1>8, QuietRounds

LEMMA GuessKeepsRounds == ASSUME RInv, NInv', NEW c \in Client, Guess(c) PROVE RInv'
<1>1. Handles(c, "GUESS") /\ Queue(Nothing)
  BY DEF Guess
<1>2. /\ up /\ UNCHANGED program /\ \A d \in Client : Asking(d) /\ Fewer(d)
      /\ SeatInv /\ Rounds
  BY <1>1, Handled, HandledAsks, HandledFewer DEF RInv, NInv, LInv
<1>3. CASE UNCHANGED server \/ \E l : Server!Guess(c, l)
  <2>1. Rounds' /\ (\A d \in Client : RoundKept(d, {})) /\ UNCHANGED room
    <3>1. ASSUME NEW l, Server!Guess(c, l) PROVE UNCHANGED room
      BY <3>1 DEF Server!Guess
    <3> QED BY <1>2, <1>3, <3>1, SameRounds, GuessRounds
  <2>2. Nothing \in [Client -> Seq(Messages)] /\ \A d \in Client : Types(Nothing[d]) = {}
    BY NothingTyped
  <2> QED BY <1>1, <1>2, <2>1, <2>2, KeptBesides, QuietRounds
<1>4. CASE \E l : Server!GuessThrows(c, l)
  BY <1>4, CrashRounds DEF Server!GuessThrows
<1> QED BY <1>3, <1>4 DEF Guess

LEMMA SecondKeepsRounds ==
  ASSUME RInv, NInv', NEW due \in SUBSET RoomId, SecondElapsed(due)
  PROVE  RInv'
<1>1. UNCHANGED <<requests, program>>
  BY DEF SecondElapsed
<1>2. PICK told : told = [c \in Client |-> IF room[c] \in due /\ c \in Server!Members(room[c])
                                           THEN Results(room[c]) ELSE <<>>]
  OBVIOUS
<1>3. CASE Server!Tick(due) /\ Queue(told)
  <2>1. /\ up /\ UNCHANGED room /\ SeatInv /\ OwnerTyped /\ Rounds
        /\ \A d \in Client : AskRight(d)
    BY <1>3, TickKeepsSeats DEF Server!Tick, RInv, NInv, LInv
  <2>2. /\ Rounds'
        /\ \A d \in Client : room[d] # NoRoom =>
             RoundKept(d, IF room[d] \in due THEN Types(Results(room[d])) ELSE {})
    BY <1>3, <2>1, TickRounds
  <2>3. ASSUME NEW r PROVE Results(r) \in Seq(Messages) /\ Types(Results(r)) \subseteq {"RESULT"}
    BY ResultsTyped
  <2>4. told \in [Client -> Seq(Messages)]
    BY <1>2, <2>3
  <2>5. ASSUME NEW d \in Client
        PROVE  /\ Types(told[d]) \cap (RoomAnswers \cup {"GAME_STARTED"}) = {}
               /\ room[d] # NoRoom => RoundKept(d, Types(told[d]))
    <3>1. Types(told[d]) \subseteq {"RESULT"}
      BY <1>2, <2>3, TypesNone
    <3>2. ASSUME room[d] # NoRoom PROVE RoundKept(d, Types(told[d]))
      <4>1. room[d] \in RoomId /\ d \in Server!Members(room[d])
        BY <2>1, <3>2, MembersAre DEF SeatInv, SeatsTyped, OneSeat
      <4>2. Types(told[d]) = IF room[d] \in due THEN Types(Results(room[d])) ELSE {}
        BY <1>2, <4>1, TypesNone
      <4> QED BY <2>2, <3>2, <4>2
    <3> QED BY <3>1, <3>2 DEF RoomAnswers
  <2>6. \A d \in Client : Fewer(d) /\ Asking(d)
    BY <1>1, <2>1 DEF Fewer, Asking, AskRight
  <2> QED BY <1>1, <1>3, <2>1, <2>2, <2>4, <2>5, <2>6, QuietRounds
<1>4. CASE Server!TickOverruns(due)
  BY <1>4, CrashRounds DEF Server!TickOverruns
<1> QED BY <1>2, <1>3, <1>4 DEF SecondElapsed

\* Who holds the room to be his, and does not wait, is its owner and shows it.
LEMMA OwnerWaits ==
  ASSUME RInv, up, NEW p \in Player, p \notin astray, NEW c \in Client, c = conn[p],
         c # NoClient, isRoomOwner[p], ~waiting[p], room[c] # NoRoom
  PROVE  scene[p] \in {"lobby", "game"} /\ owner[room[c]] = c
<1> DEFINE T == Types(sendingBuffer[c])
<1>1. RoundFits(p) /\ NewsFits(p)
  BY DEF RInv, RoundsFit, NInv, NewsInv
<1>2. Fits(scene[p], waiting[p], nickname[c], room[c], requests[c], T)
  BY DEF RInv, NInv, LInv, ScenesFit, SceneFits
<1>3. ~Asked(requests[c], {"LEAVE_ROOM"})
  BY <1>1 DEF RoundFits
<1>4. OwnerKnown(scene[p], isRoomOwner[p], T, owner[room[c]] = c, room[c] \in silent)
  BY <1>1, <1>3 DEF NewsFits, Stays
<1> HIDE DEF T
<1>5. scene[p] \in {"lobby", "game"}
  BY <1>2, <1>3 DEF Fits, AtLogin, AtMenu
<1> QED BY <1>4, <1>5 DEF OwnerKnown

LEMMA StartKeepsRounds == ASSUME RInv, NInv', NEW c \in Client, StartGame(c) PROVE RInv'
<1>1. Handles(c, "START_GAME")
  BY DEF StartGame
<1>2. /\ up /\ UNCHANGED program /\ \A d \in Client : Asking(d) /\ Fewer(d)
      /\ ~Asked(requests'[c], {"START_GAME"})
      /\ requests[c] \in Seq(Request) /\ requests[c] # <<>> /\ Head(requests[c]).type = "START_GAME"
  BY <1>1, Handled, HandledAsks, HandledFewer DEF RInv, NInv, LInv
<1>3. SeatInv /\ Rounds /\ \A d \in Client : AskRight(d)
  BY <1>2 DEF RInv, NInv, LInv
<1>4. Asked(requests[c], {"START_GAME"})
  BY <1>2 DEF Asked
<1>5. CASE room[c] = NoRoom
  <2>1. Queue(Nothing) /\ UNCHANGED server
    BY <1>5 DEF StartGame, NoRoom
  <2>2. Nothing \in [Client -> Seq(Messages)] /\ \A d \in Client : Types(Nothing[d]) = {}
    BY NothingTyped
  <2> QED BY <1>2, <2>1, <2>2, SameRounds, KeptBesides, QuietRounds
<1>6. CASE room[c] # NoRoom
  <2>1. PICK r \in RoomId : r = room[c]
    BY <1>3, <1>6 DEF SeatInv, SeatsTyped
  <2>2. owner[r] = c
    BY <1>3, <1>4, <2>1 DEF AskRight
  <2>3. PICK msgs, told : msgs = <<Msg("GAME_STARTED")>> /\ told = ToMembers(roomClients[r], msgs)
    OBVIOUS
  <2>4. PICK w : Server!StartGame(c, w)
    BY <1>6 DEF StartGame, NoRoom
  <2>5. Queue(told) /\ UNCHANGED room
    BY <1>6, <2>1, <2>3, <2>4 DEF StartGame, NoRoom, Server!StartGame
  <2>6. msgs \in Seq(Messages) /\ Types(msgs) = {"GAME_STARTED"}
    <3>1. Types(msgs) = {Msg("GAME_STARTED").type}
      BY <2>3, TypesOne
    <3> QED BY <2>3, <3>1, MsgTyped DEF MessageTypes
  <2>7. /\ told \in [Client -> Seq(Messages)]
        /\ \A d \in Client : Types(told[d]) = IF room[d] = r THEN {"GAME_STARTED"} ELSE {}
    <3>1. \A d \in Client : d \in Range(roomClients[r]) <=> room[d] = r
      BY <1>3, <2>1 DEF SeatInv, OneSeat
    <3>2. told = [d \in Client |-> IF d \in Range(roomClients[r]) THEN msgs ELSE <<>>]
      BY <2>3 DEF ToMembers
    <3>3. \A d \in Client : told[d] = IF room[d] = r THEN msgs ELSE <<>>
      BY <3>1, <3>2
    <3>4. <<>> \in Seq(Messages)
      OBVIOUS
    <3> QED BY <2>6, <3>2, <3>3, <3>4, TypesNone
  <2>8. /\ Rounds'
        /\ \A d \in Client : IF room[d] = room[c] THEN RoundKept(d, {"GAME_STARTED"})
                             ELSE RoundKept(d, {})
    BY <1>3, <2>1, <2>2, <2>4, StartRounds
  <2>9. ASSUME NEW d \in Client PROVE GoesOn(d, told[d])
    <3>1. RoundKept(d, Types(told[d]))
      BY <2>1, <2>7, <2>8
    <3>2. Types(told[d]) \cap RoomAnswers = {}
      BY <2>7 DEF RoomAnswers
    <3>3. ASSUME room[d] = r, Asked(requests'[d], {"START_GAME"}) PROVE FALSE
      <4>1. d = c
        BY <1>2, <1>3, <2>1, <2>2, <3>3 DEF Fewer, AskRight
      <4> QED BY <1>2, <3>3, <4>1
    <3>4. ASSUME room[d] = r, NEW p \in Player, p \notin astray, conn[p] = d, isRoomOwner[p], ~waiting[p]
          PROVE  FALSE
      <4>1. d # NoClient
        BY LobbyAssumption
      <4>2. scene[p] \in {"lobby", "game"} /\ owner[r] = d
        BY <1>2, <1>6, <2>1, <3>4, <4>1, OwnerWaits
      <4>3. RoundFits(p)
        BY <1>2, <3>4, <4>1 DEF RInv, RoundsFit
      <4> QED BY <1>4, <2>2, <3>4, <4>2, <4>3 DEF RoundFits
    <3> QED BY <1>2, <2>5, <2>7, <3>1, <3>2, <3>3, <3>4 DEF GoesOn
  <2> QED BY <1>2, <2>5, <2>7, <2>8, <2>9, GoneOnRounds
<1> QED BY <1>5, <1>6

-----------------------------------------------------------------------------

\* Who asks for a room, and has a nickname, is in the menu.
LEMMA RoomAskersScene ==
  ASSUME NEW q \in Seq(Request), q # <<>>, Head(q).type \in RoomAsks,
         NEW s, NEW waits, NEW n, n # NoNick, NEW r, NEW T, Fits(s, waits, n, r, q, T)
  PROVE  s = "menu" /\ T \cap RoomAnswers = {}
<1>1. s = "menu"
  BY AskersScene DEF Fits, RoomAsks, RoundAsks
<1> QED BY <1>1, AskersScene

LEMMA CreateKeepsRounds == ASSUME RInv, NInv', NEW c \in Client, CreateRoom(c) PROVE RInv'
<1>1. PICK list, msgs, told : /\ list = List(<<c>>) /\ msgs = <<Msg("ROOM_CREATED"), list>>
                              /\ told = To(c, msgs)
  OBVIOUS
<1>2. Handles(c, "CREATE_ROOM") /\ Server!CreateRoom(c) /\ Queue(told)
  BY <1>1 DEF CreateRoom
<1>3. /\ up /\ UNCHANGED program /\ \A d \in Client : Asking(d) /\ Fewer(d)
      /\ requests[c] \in Seq(Request) /\ requests[c] # <<>>
      /\ Head(requests[c]).type = "CREATE_ROOM" /\ Follow(requests[c], nickname[c], room[c])
      /\ requests'[c] = Tail(requests[c])
  BY <1>2, Handled, HandledAsks, HandledFewer DEF RInv, NInv
<1>4. /\ nickname[c] # NoNick /\ room[c] = NoRoom /\ requests'[c] = <<>>
      /\ SeatInv /\ OwnerTyped /\ Rounds
  BY <1>3, HeadAlone DEF RInv, NInv, LInv, RoomAsks
<1>5. PICK r \in RoomId : r = roomCounter /\ room' = [room EXCEPT ![c] = r]
  BY <1>2, <1>4, CreateKeepsSeats
<1>6. /\ Rounds' /\ ~Runs(r)'
      /\ \A d \in Client : room[d] # NoRoom => RoundKept(d, {})
  BY <1>2, <1>4, <1>5, CreateRounds
<1>7. /\ list \in Messages /\ list.type = "ROOM_USERS_LIST"
      /\ Msg("ROOM_CREATED") \in Messages /\ Msg("ROOM_CREATED").type = "ROOM_CREATED"
  <2>1. <<c>> \in Seq(Client) /\ \A d \in Range(<<c>>) : nickname[d] # NoNick
    BY <1>4 DEF Range
  <2> QED BY <1>1, <1>4, <2>1, ListTyped, MsgTyped DEF MessageTypes
<1>8. /\ msgs \in Seq(Messages) /\ Types(msgs) = {"ROOM_CREATED", "ROOM_USERS_LIST"}
      /\ OneOf(msgs, RoomAnswers)
  <2>1. msgs \in Seq(Messages) /\ Range(msgs) = {Msg("ROOM_CREATED"), list}
    BY <1>1, <1>7, FewMessages
  <2>2. Len(msgs) = 2 /\ msgs[2] = list
    BY <1>1
  <2>3. OneOf(msgs, RoomAnswers)
    BY <1>7, <2>2 DEF OneOf, RoomAnswers
  <2> QED BY <1>7, <2>1, <2>3 DEF Types
<1>9. /\ told \in [Client -> Seq(Messages)] /\ told[c] = msgs
      /\ \A d \in Client \ {c} : Types(told[d]) = {}
  BY <1>1, <1>8, ToTyped
<1>10. ASSUME NEW d \in Client, d # c PROVE Settles(d, told[d])
  <2>1. PICK t \in Seq(Messages) : t = told[d]
    BY <1>9
  <2>2. GoesOn(d, t)
    BY <1>3, <1>5, <1>6, <1>9, <1>10, <2>1, KeptBesides DEF GoesOn
  <2>3. AskRight(d)
    BY <1>3 DEF RInv
  <2>4. Settles(d, t)
    BY <2>2, <2>3, GoesOnSettles
  <2> QED BY <2>1, <2>4
<1>11. Settles(c, msgs)
  <2>1. AskRight(c)'
    BY <1>4 DEF AskRight, OneOf, Asked
  <2>2. ASSUME NEW p \in Player, p \notin astray, conn[p] = c PROVE RoundTold(p, c, msgs)
    <3>1. Fits(scene[p], waiting[p], nickname[c], room[c], requests[c], Types(sendingBuffer[c]))
      BY <1>3, <2>2, LobbyAssumption DEF RInv, NInv, LInv, ScenesFit, SceneFits
    <3>2. scene[p] # "game" /\ Types(sendingBuffer[c]) \cap RoomAnswers = {}
      BY <1>3, <1>4, <3>1, RoomAskersScene DEF RoomAsks
    <3>3. \A q \in RoomId : room'[c] = q => q = r
      BY <1>4, <1>5 DEF SeatInv, SeatsTyped
    <3> QED BY <1>3, <1>6, <1>8, <3>2, <3>3 DEF RoundTold
  <2> QED BY <2>1, <2>2 DEF Settles
<1>12. \A d \in Client : Settles(d, told[d])
  BY <1>9, <1>10, <1>11
<1> QED BY <1>2, <1>3, <1>6, <1>9, <1>12, HandlerRounds

\* One answer among what who joins is told, and the start if the round goes on.
LEMMA JoinersNews ==
  ASSUME SeatInv, NEW c \in Client, NEW r \in RoomId, nickname[c] # NoNick,
         NEW resumed \in BOOLEAN, NEW t, t = JoinMessages(c, r, resumed)[c]
  PROVE  /\ t \in Seq(Messages) /\ OneOf(t, RoomAnswers)
         /\ "GAME_STARTED" \in Types(t) <=> resumed
<1>1. PICK list, ok, started :
        /\ list = List(Append(roomClients[r], c))
        /\ ok = Msg("ROOM_OK") /\ started = Msg("GAME_STARTED")
  OBVIOUS
<1>2. list \in Messages /\ list.type = "ROOM_USERS_LIST"
  <2> DEFINE members == Append(roomClients[r], c)
  <2>1. /\ roomClients[r] \in Seq(Client)
        /\ \A d \in Range(roomClients[r]) : d \in Client /\ nickname[d] # NoNick
    BY MembersHere
  <2>2. members \in Seq(Client) /\ Range(members) = Range(roomClients[r]) \cup {c}
    BY <2>1, AppendRange
  <2>3. list = List(members)
    BY <1>1
  <2> HIDE DEF members
  <2> QED BY <2>1, <2>2, <2>3, ListTyped
<1>3. /\ ok \in Messages /\ ok.type = "ROOM_OK"
      /\ started \in Messages /\ started.type = "GAME_STARTED"
  BY <1>1, MsgTyped DEF MessageTypes
<1>4. PICK one, two, last : one = <<list>> /\ two = <<started, list>> /\ last = <<ok, list>>
  OBVIOUS
<1>5. /\ one \in Seq(Messages) /\ Types(one) = {"ROOM_USERS_LIST"}
      /\ two \in Seq(Messages) /\ Types(two) = {"ROOM_USERS_LIST", "GAME_STARTED"}
      /\ last \in Seq(Messages) /\ Types(last) = {"ROOM_USERS_LIST", "ROOM_OK"}
      /\ <<>> \in Seq(Messages) /\ Types(<<>>) = {}
  <2>1. /\ one \in Seq(Messages) /\ Range(one) = {list}
        /\ two \in Seq(Messages) /\ Range(two) = {started, list}
        /\ last \in Seq(Messages) /\ Range(last) = {ok, list}
    BY <1>2, <1>3, <1>4, FewMessages
  <2>2. Types(one) = {list.type} /\ Types(last) = {ok.type, list.type}
    BY <2>1 DEF Types
  <2>3. Types(two) = {started.type, list.type}
    BY <2>1 DEF Types
  <2>4. <<>> \in Seq(Messages)
    OBVIOUS
  <2> QED BY <1>2, <1>3, <2>1, <2>2, <2>3, <2>4, TypesNone
<1>6. OneOf(last, RoomAnswers)
  <2>1. Len(last) = 2 /\ last[2] = list
    BY <1>4
  <2> QED BY <1>2, <2>1 DEF OneOf, RoomAnswers
<1>7. PICK back \in Seq(Messages) : back = IF resumed THEN two ELSE <<>>
  BY <1>5
<1>8. t = (one \o back) \o last
  BY <1>1, <1>4, <1>7 DEF JoinMessages
<1>9. PICK u : u = one \o back
  OBVIOUS
<1>10. u \in Seq(Messages) /\ Types(u) = Types(one) \cup Types(back)
  BY <1>5, <1>9, TypesTogether
<1>11. Types(back) = IF resumed THEN {"ROOM_USERS_LIST", "GAME_STARTED"} ELSE {}
  BY <1>5, <1>7
<1>12. ~Asked(u, RoomAnswers)
  BY <1>5, <1>10, <1>11, AskedTypes DEF RoomAnswers
<1>13. t \in Seq(Messages) /\ Types(t) = Types(u) \cup Types(last)
  <2>1. t = u \o last
    BY <1>8, <1>9
  <2> QED BY <1>5, <1>10, <2>1, TypesTogether
<1>14. OneOf(t, RoomAnswers)
  BY <1>5, <1>6, <1>8, <1>9, <1>10, <1>12, OneOfNone, OneOfConcat
<1> QED BY <1>5, <1>10, <1>11, <1>13, <1>14

\* The others in the room hear the list; who joins has a row if the start comes.
LEMMA SeatedRounds ==
  ASSUME RInv, NInv', NEW c \in Client, NEW r \in RoomId, Handles(c, "JOIN_ROOM"),
         NEW resumed \in BOOLEAN,
         IF resumed THEN Server!RejoinRoom(c, r) ELSE Server!JoinRoom(c, r),
         Queue(JoinMessages(c, r, resumed))
  PROVE  RInv'
<1>1. /\ up /\ UNCHANGED program /\ \A d \in Client : Asking(d) /\ Fewer(d)
      /\ requests[c] \in Seq(Request) /\ requests[c] # <<>> /\ requests'[c] = Tail(requests[c])
      /\ Head(requests[c]).type = "JOIN_ROOM" /\ Follow(requests[c], nickname[c], room[c])
  BY Handled, HandledAsks, HandledFewer DEF RInv, NInv
<1>2. /\ nickname[c] # NoNick /\ room[c] = NoRoom /\ requests'[c] = <<>> /\ SeatInv /\ Rounds
  BY <1>1, HeadAlone DEF RInv, NInv, LInv, RoomAsks
<1>3. room' = [room EXCEPT ![c] = r]
  BY <1>2, JoinKeepsSeats
<1>4. room'[c] = r /\ \A d \in Client \ {c} : room'[d] = room[d]
  BY <1>2, <1>3 DEF SeatInv, SeatsTyped
<1>5. /\ Rounds' /\ \A d \in Client : room[d] # NoRoom => RoundKept(d, {})
      /\ Runs(r)' /\ Plays(c, r)' => resumed
  <2>1. CASE resumed
    BY <1>2, <2>1, RejoinRounds
  <2>2. CASE ~resumed
    BY <1>2, <2>2, JoinRounds
  <2> QED BY <2>1, <2>2
<1>6. PICK told : told = JoinMessages(c, r, resumed)
  OBVIOUS
<1>7. PICK t : t = told[c]
  OBVIOUS
<1>8. /\ t \in Seq(Messages) /\ OneOf(t, RoomAnswers)
      /\ "GAME_STARTED" \in Types(t) <=> resumed
  BY <1>2, <1>6, <1>7, JoinersNews
<1>9. told \in [Client -> Seq(Messages)] /\ Queue(told)
  BY <1>2, <1>6, JoinTold
<1>10. \A d \in Client \ {c} : Types(told[d]) \subseteq {"ROOM_USERS_LIST"}
  <2>1. JoinIsTold(c, r, told)
    BY <1>2, <1>6, JoinRange
  <2> QED BY <2>1 DEF JoinIsTold, Types
<1>11. ASSUME NEW d \in Client, d # c PROVE Settles(d, told[d])
  <2>1. PICK u \in Seq(Messages) : u = told[d]
    BY <1>9
  <2>2. Types(u) \cap RoomAnswers = {} /\ "GAME_STARTED" \notin Types(u)
    <3>1. Types(u) \subseteq {"ROOM_USERS_LIST"}
      BY <1>10, <1>11, <2>1
    <3> QED BY <3>1 DEF RoomAnswers
  <2>3. room'[d] = room[d] /\ (room[d] # NoRoom => RoundKept(d, Types(u)))
    BY <1>4, <1>5, <1>11, KeptBesides
  <2>4. GoesOn(d, u)
    BY <1>1, <2>2, <2>3 DEF GoesOn
  <2>5. Settles(d, u)
    BY <1>1, <2>4, GoesOnSettles DEF RInv
  <2> QED BY <2>1, <2>5
<1>12. Settles(c, t)
  <2>1. AskRight(c)'
    BY <1>2 DEF AskRight, OneOf, Asked
  <2>2. ASSUME NEW p \in Player, p \notin astray, conn[p] = c PROVE RoundTold(p, c, t)
    <3>1. Fits(scene[p], waiting[p], nickname[c], room[c], requests[c], Types(sendingBuffer[c]))
          /\ NewsFits(p)
      BY <1>1, <2>2, LobbyAssumption DEF RInv, NInv, LInv, ScenesFit, SceneFits, NewsInv
    <3>2. scene[p] # "game" /\ Types(sendingBuffer[c]) \cap RoomAnswers = {}
      BY <1>1, <1>2, <3>1, RoomAskersScene DEF RoomAsks
    <3>3. ~isRoomOwner[p]
      <4>1. Asked(requests[c], {"JOIN_ROOM"})
        <5>1. Len(requests[c]) \in Nat \ {0} /\ Head(requests[c]) = requests[c][1]
          BY <1>1, TailShape
        <5> QED BY <1>1, <5>1 DEF Asked
      <4> QED BY <2>2, <3>1, <4>1 DEF NewsFits
    <3>4. \A q \in RoomId : room'[c] = q => q = r
      BY <1>4
    <3> QED BY <1>1, <1>5, <1>8, <3>2, <3>3, <3>4 DEF RoundTold
  <2> QED BY <2>1, <2>2 DEF Settles
<1>13. \A d \in Client : Settles(d, told[d])
  BY <1>7, <1>11, <1>12
<1> QED BY <1>1, <1>5, <1>9, <1>13, HandlerRounds

LEMMA JoinKeepsRounds == ASSUME RInv, NInv', NEW c \in Client, JoinRoom(c) PROVE RInv'
<1> DEFINE r == Head(requests[c]).arg
<1>1. /\ Handles(c, "JOIN_ROOM")
      /\ \/ Server!JoinRoom(c, r) /\ Queue(JoinMessages(c, r, FALSE))
         \/ Server!RejoinRoom(c, r) /\ Queue(JoinMessages(c, r, TRUE))
         \/ Server!RejoinThrows(c, r)
         \/ Queue(To(c, <<Msg("ROOM_FAILED")>>)) /\ UNCHANGED server
  BY DEF JoinRoom
<1>2. /\ up /\ UNCHANGED program /\ \A d \in Client : Asking(d) /\ Fewer(d)
      /\ Head(requests[c]) \in Request /\ Head(requests[c]).type = "JOIN_ROOM"
  BY <1>1, Handled, HandledAsks, HandledFewer DEF RInv, NInv
<1>3. r \in RoomId
  BY <1>2, RequestFacts DEF RoomId
<1> HIDE DEF r
<1>4. CASE Server!JoinRoom(c, r) /\ Queue(JoinMessages(c, r, FALSE))
  BY <1>1, <1>3, <1>4, SeatedRounds
<1>5. CASE Server!RejoinRoom(c, r) /\ Queue(JoinMessages(c, r, TRUE))
  BY <1>1, <1>3, <1>5, SeatedRounds
<1>6. CASE Server!RejoinThrows(c, r)
  BY <1>6, CrashRounds DEF Server!RejoinThrows
<1>7. CASE Queue(To(c, <<Msg("ROOM_FAILED")>>)) /\ UNCHANGED server
  <2>1. PICK told : told = To(c, <<Msg("ROOM_FAILED")>>)
    OBVIOUS
  <2>2. /\ told \in [Client -> Seq(Messages)] /\ Types(told[c]) = {"ROOM_FAILED"}
        /\ \A d \in Client \ {c} : Types(told[d]) = {}
    BY <2>1, ToldOne DEF MessageTypes
  <2>3. Rounds' /\ (\A d \in Client : RoundKept(d, {})) /\ UNCHANGED room
    BY <1>2, <1>7, SameRounds
  <2>4. \A d \in Client : /\ Types(told[d]) \cap (RoomAnswers \cup {"GAME_STARTED"}) = {}
                          /\ RoundKept(d, Types(told[d]))
    BY <2>2, <2>3, KeptBesides DEF RoomAnswers
  <2>5. Queue(told)
    BY <1>7, <2>1
  <2> QED BY <1>2, <2>2, <2>3, <2>4, <2>5, QuietRounds
<1> QED BY <1>1, <1>4, <1>5, <1>6, <1>7

\* Who stays when c gives up its seat plays on.
LEMMA VacatedRounds ==
  ASSUME RInv, NInv', up, NEW c \in Client, room[c] # NoRoom, Server!Vacate(c), Leave(c),
         ~Server!LeaveBroadcastThrows(c), clients' \subseteq clients, UNCHANGED program,
         \A d \in Client : Fewer(d), \A d \in Client \ {c} : Asking(d)
  PROVE  RInv'
<1>1. SeatInv /\ OwnerTyped /\ Rounds
  BY DEF RInv, NInv, LInv
<1>2. Rounds' /\ \A d \in Client : RoundKept(d, {})
  BY <1>1, VacateRounds
<1>3. room' = [room EXCEPT ![c] = NoRoom]
  BY DEF Server!Vacate, NoRoom
<1>4. room'[c] = NoRoom /\ \A d \in Client \ {c} : room'[d] = room[d]
  BY <1>1, <1>3 DEF SeatInv, SeatsTyped
<1>5. PICK told : Queue(told) /\ LeaveIsTold(c, told)
  BY <1>1, LeaveRange
<1>6. told \in [Client -> Seq(Messages)]
  BY <1>5 DEF LeaveIsTold
<1>7. \A d \in Client : Types(told[d]) \subseteq {"ROOM_USERS_LIST", "ROOM_OWNERSHIP_TRANSFER"}
  <2>1. Msg("ROOM_OWNERSHIP_TRANSFER").type = "ROOM_OWNERSHIP_TRANSFER"
    BY MsgTyped DEF MessageTypes
  <2>2. \A d \in Client : Range(told[d]) \subseteq {ListAfterLeave(c), Msg("ROOM_OWNERSHIP_TRANSFER")}
    BY <1>5 DEF LeaveIsTold
  <2>3. ListAfterLeave(c).type = "ROOM_USERS_LIST"
    BY <1>5 DEF LeaveIsTold
  <2> QED BY <2>1, <2>2, <2>3 DEF Types
<1>8. ASSUME NEW d \in Client PROVE Settles(d, told[d])
  <2>1. PICK t \in Seq(Messages) : t = told[d]
    BY <1>6
  <2>2. Types(t) \cap RoomAnswers = {} /\ "GAME_STARTED" \notin Types(t)
    BY <1>7, <2>1 DEF RoomAnswers
  <2>3. CASE d # c
    <3>1. GoesOn(d, t)
      BY <1>2, <1>4, <2>2, <2>3, KeptBesides DEF GoesOn
    <3> QED BY <2>1, <3>1, GoesOnSettles DEF RInv
  <2>4. CASE d = c
    <3>1. AskRight(c)'
      BY <1>4, RoomFacts DEF AskRight, Fewer
    <3>2. OneOf(t, RoomAnswers)
      BY <2>2, AskedTypes, OneOfNone
    <3>3. ~Stays(c)'
      BY <1>4 DEF Stays
    <3>4. Settles(d, t)
      BY <2>2, <2>4, <3>1, <3>2, <3>3 DEF Settles, RoundTold
    <3> QED BY <2>1, <3>4
  <2> QED BY <2>3, <2>4
<1> QED BY <1>2, <1>5, <1>6, <1>8, HandlerRounds

LEMMA LeaveKeepsRounds == ASSUME RInv, NInv', NEW c \in Client, LeaveRoom(c) PROVE RInv'
<1>1. Handles(c, "LEAVE_ROOM")
  BY DEF LeaveRoom
<1>2. /\ up /\ UNCHANGED program
      /\ (\A d \in Client : Fewer(d)) /\ (\A d \in Client \ {c} : Asking(d))
      /\ requests[c] \in Seq(Request) /\ requests[c] # <<>>
      /\ Head(requests[c]).type = "LEAVE_ROOM" /\ Follow(requests[c], nickname[c], room[c])
  BY <1>1, Handled, HandledAsks, HandledFewer DEF RInv, NInv
<1>3. room[c] # NoRoom
  BY <1>2, HeadLeaves
<1>4. CASE Server!LeaveRoom(c) /\ Leave(c)
  <2>1. Server!Vacate(c) /\ clients' \subseteq clients /\ ~Server!LeaveBroadcastThrows(c)
    BY <1>4 DEF Server!LeaveRoom
  <2> QED BY <1>2, <1>3, <1>4, <2>1, VacatedRounds
<1>5. CASE Server!LeaveThrows(c)
  BY <1>5, CrashRounds DEF Server!LeaveThrows
<1> QED BY <1>3, <1>4, <1>5 DEF LeaveRoom, NoRoom

LEMMA DisconnectKeepsRounds == ASSUME RInv, NInv', NEW c \in Client, Disconnect(c) PROVE RInv'
<1>1. UNCHANGED <<requests, program>>
  BY DEF Disconnect
<1>2. CASE Server!Disconnect(c) /\ Leave(c)
  <2>1. /\ up /\ clients' \subseteq clients
        /\ IF Server!Seated(c) THEN ~Server!LeaveBroadcastThrows(c) /\ Server!Vacate(c)
           ELSE UNCHANGED room
    BY <1>2 DEF Server!Disconnect, Server!clientVars
  <2>2. SeatInv /\ Rounds /\ \A d \in Client : AskRight(d)
    BY <2>1 DEF RInv, NInv, LInv
  <2>3. \A d \in Client : Fewer(d) /\ Asking(d)
    BY <1>1, <2>2 DEF Fewer, Asking, AskRight
  <2>4. Server!Seated(c) <=> room[c] # NoRoom
    BY <2>2, SeatedIs
  <2>5. CASE room[c] # NoRoom
    BY <1>1, <1>2, <2>1, <2>3, <2>4, <2>5, VacatedRounds
  <2>6. CASE room[c] = NoRoom
    <3>1. Queue(Nothing)
      BY <1>2, <2>4, <2>6 DEF Leave
    <3>2. Nothing \in [Client -> Seq(Messages)] /\ \A d \in Client : Types(Nothing[d]) = {}
      BY NothingTyped
    <3>3. Rounds' /\ \A d \in Client : RoundKept(d, {})
      BY <1>2, <2>2, <2>6, DisconnectRounds
    <3> QED BY <1>1, <2>1, <2>3, <2>4, <2>6, <3>1, <3>2, <3>3, KeptBesides, QuietRounds
  <2> QED BY <2>5, <2>6
<1>3. CASE Server!LeaveThrows(c)
  BY <1>3, CrashRounds DEF Server!LeaveThrows
<1> QED BY <1>2, <1>3 DEF Disconnect

LEMMA ServerKeepsRounds == ASSUME RInv, NInv', ServerNext PROVE RInv'
BY LoginKeepsRounds, CreateKeepsRounds, JoinKeepsRounds, LeaveKeepsRounds, StartKeepsRounds,
   GuessKeepsRounds, DisconnectKeepsRounds, SecondKeepsRounds DEF ServerNext, RoomId

-----------------------------------------------------------------------------
(***************************************************************************)
(* The programs' own steps.                                                *)
(***************************************************************************)

LEMMA SameRights ==
  ASSUME NEW c \in Client, AskRight(c), requests'[c] = requests[c],
         UNCHANGED <<room, rooms, owner, game, gameStats>>
  PROVE  AskRight(c)'
<1>1. \A r \in RoomId : (Runs(r)' <=> Runs(r)) /\ (Plays(c, r)' <=> Plays(c, r))
  BY DEF Runs, Plays
<1> QED BY <1>1 DEF AskRight

\* A step of p's program leaves to the others what they know and ask.
LEMMA OwnStepRounds ==
  ASSUME RInv, NInv', NEW p \in Player,
         UNCHANGED <<up, room, rooms, owner, game, gameStats>>,
         \A q \in Player \ {p} :
           /\ conn'[q] = conn[q] /\ scene'[q] = scene[q] /\ isRoomOwner'[q] = isRoomOwner[q]
           /\ waiting'[q] = waiting[q] /\ resultBoxes'[q] = resultBoxes[q]
           /\ q \in dismissed' <=> q \in dismissed
           /\ q \in astray => q \in astray',
         \A c \in Client : c # conn[p] /\ c # conn'[p] =>
           requests'[c] = requests[c] /\ sendingBuffer'[c] = sendingBuffer[c],
         up => Rounds',
         up => \A c \in Client : c = conn[p] \/ c = conn'[p] => AskRight(c)',
         up /\ p \notin astray' /\ conn'[p] # NoClient => RoundFits(p)'
  PROVE  RInv'
<1>1. ASSUME up, NEW q \in Player, q # p, q \notin astray', conn'[q] # NoClient PROVE RoundFits(q)'
  <2>1. PICK c : c = conn[q]
    OBVIOUS
  <2>2. conn'[q] = c /\ q \notin astray /\ c # NoClient
    BY <1>1, <2>1
  <2>3. c \in Client /\ c # conn[p] /\ c # conn'[p]
    BY <1>1, <2>1, <2>2 DEF RInv, NInv, LInv, Typed, Connections
  <2>4. requests'[c] = requests[c] /\ sendingBuffer'[c] = sendingBuffer[c]
    BY <2>3
  <2>5. RoundFits(q)
    BY <1>1, <2>1, <2>2 DEF RInv, RoundsFit
  <2>6. /\ scene'[q] = scene[q] /\ isRoomOwner'[q] = isRoomOwner[q] /\ waiting'[q] = waiting[q]
        /\ resultBoxes'[q] = resultBoxes[q] /\ (q \in dismissed' <=> q \in dismissed)
    BY <1>1
  <2>7. \A r \in RoomId : (Runs(r)' <=> Runs(r)) /\ (Plays(c, r)' <=> Plays(c, r))
    BY DEF Runs, Plays
  <2>8. PICK T : T = Types(sendingBuffer[c])
    OBVIOUS
  <2>9. Types(sendingBuffer'[c]) = T
    BY <2>4, <2>8
  <2>10. ASSUME Stays(c)', NEW r \in RoomId, room'[c] = r
         PROVE  RoundKnown(scene'[q], resultBoxes'[q], q \in dismissed', Runs(r)', Plays(c, r)', T)
    <3>1. Stays(c)
      BY <2>4, <2>10 DEF Stays
    <3>2. RoundKnown(scene[q], resultBoxes[q], q \in dismissed, Runs(r), Plays(c, r), T)
      BY <2>1, <2>5, <2>8, <2>10, <3>1 DEF RoundFits
    <3> QED BY <2>6, <2>7, <3>2 DEF RoundKnown
  <2>11. /\ OneOf(sendingBuffer'[c], RoomAnswers)
         /\ isRoomOwner'[q] /\ "GAME_STARTED" \in T => waiting'[q]
         /\ Asked(requests'[c], {"START_GAME"}) /\ scene'[q] \in {"lobby", "game"} => waiting'[q]
         /\ Asked(requests'[c], {"LEAVE_ROOM"}) => ~isRoomOwner'[q]
    BY <2>1, <2>4, <2>5, <2>6, <2>8 DEF RoundFits
  <2> QED BY <2>2, <2>9, <2>10, <2>11 DEF RoundFits
<1>2. up => RoundsFit'
  BY <1>1 DEF RoundsFit
<1>3. ASSUME up, NEW c \in Client PROVE AskRight(c)'
  <2>1. CASE c = conn[p] \/ c = conn'[p]
    BY <1>3, <2>1
  <2>2. CASE c # conn[p] /\ c # conn'[p]
    BY <1>3, <2>2, SameRights DEF RInv
  <2> QED BY <2>1, <2>2
<1> QED BY <1>2, <1>3 DEF RInv

\* The server does nothing.
LEMMA ServerRests ==
  ASSUME UNCHANGED server
  PROVE  /\ UNCHANGED <<up, room, rooms, owner, game, gameStats, nickname, clients>>
         /\ \A r : Runs(r)' <=> Runs(r)
         /\ \A c, r : Plays(c, r)' <=> Plays(c, r)
<1>1. UNCHANGED <<up, room, rooms, owner, game, gameStats, nickname, clients>>
  BY DEF server
<1> QED BY <1>1 DEF Runs, Plays

LEMMA LocalRounds ==
  ASSUME RInv, NInv', NEW p \in Player,
         \/ p \notin astray /\ ConnectButtonHit(p)
         \/ ConnectFails(p) \/ ConnectionTimedOut(p) \/ LeaveGame(p) \/ CloseResultWindow(p)
  PROVE  RInv'
<1>1. /\ UNCHANGED <<server, network, conn, isRoomOwner, waiting>>
      /\ astray \subseteq astray' /\ astray' \subseteq astray \cup {p}
  BY DEF ConnectButtonHit, ConnectFails, ConnectionTimedOut, LeaveGame, CloseResultWindow, lobby,
         AstrayIf
<1>2. UNCHANGED <<up, room, rooms, owner, game, gameStats, requests, sendingBuffer>>
  BY <1>1, ServerRests DEF network
<1>3. \/ scene' = scene /\ resultBoxes' = resultBoxes /\ dismissed' = dismissed
      \/ /\ scene' = [scene EXCEPT ![p] = "lobby"]
         /\ resultBoxes' = [resultBoxes EXCEPT ![p] = @ - 1] /\ resultBoxes[p] > 0
         /\ dismissed' = dismissed \ {p}
         /\ scene[p] \notin {"lobby", "game"} => p \in astray'
      \/ /\ scene' = scene
         /\ resultBoxes' = [resultBoxes EXCEPT ![p] = @ - 1] /\ resultBoxes[p] > 0
         /\ dismissed' = IF scene[p] = "game" THEN dismissed \cup {p} ELSE dismissed
  BY DEF ConnectButtonHit, ConnectFails, ConnectionTimedOut, LeaveGame, CloseResultWindow, AstrayIf
<1>4. \A q \in Player \ {p} : /\ scene'[q] = scene[q] /\ resultBoxes'[q] = resultBoxes[q]
                              /\ q \in dismissed' <=> q \in dismissed
  BY <1>3 DEF RInv, NInv, LInv, Typed
<1>5. ASSUME up PROVE Rounds' /\ \A c \in Client : AskRight(c)'
  BY <1>1, <1>2, <1>5, SameRounds, SameRights DEF RInv
<1>6. ASSUME up, p \notin astray', conn'[p] # NoClient PROVE RoundFits(p)'
  <2>1. PICK c, T : c = conn[p] /\ T = Types(sendingBuffer[c])
    OBVIOUS
  <2>2. conn'[p] = c /\ RoundFits(p) /\ c \in Client
    BY <1>1, <1>6, <2>1 DEF RInv, RoundsFit, NInv, LInv, Typed
  <2>3. \A r \in RoomId : (Runs(r)' <=> Runs(r)) /\ (Plays(c, r)' <=> Plays(c, r))
    BY <1>2 DEF Runs, Plays
  <2>4. (Stays(c)' <=> Stays(c)) /\ Types(sendingBuffer'[c]) = T
    BY <1>2, <2>1 DEF Stays
  <2>5. \/ /\ scene'[p] = scene[p] /\ resultBoxes'[p] = resultBoxes[p]
           /\ p \in dismissed' <=> p \in dismissed
        \/ scene'[p] = "lobby" /\ resultBoxes[p] > 0 /\ scene[p] \in {"lobby", "game"}
        \/ /\ scene'[p] = scene[p] /\ resultBoxes[p] > 0
           /\ scene[p] = "game" => p \in dismissed'
    BY <1>3, <1>6 DEF RInv, NInv, LInv, Typed
  <2>6. ASSUME Stays(c)', NEW r \in RoomId, room'[c] = r
        PROVE  RoundKnown(scene'[p], resultBoxes'[p], p \in dismissed', Runs(r)', Plays(c, r)', T)
    <3>1. RoundKnown(scene[p], resultBoxes[p], p \in dismissed, Runs(r), Plays(c, r), T)
      BY <1>2, <2>1, <2>2, <2>4, <2>6 DEF RoundFits
    <3>2. resultBoxes[p] \in Nat
      BY DEF RInv, NInv, LInv, Typed
    <3> QED BY <2>3, <2>5, <3>1, <3>2 DEF RoundKnown
  <2>7. /\ OneOf(sendingBuffer'[c], RoomAnswers)
        /\ isRoomOwner'[p] /\ "GAME_STARTED" \in T => waiting'[p]
        /\ Asked(requests'[c], {"START_GAME"}) /\ scene'[p] \in {"lobby", "game"} => waiting'[p]
        /\ Asked(requests'[c], {"LEAVE_ROOM"}) => ~isRoomOwner'[p]
    BY <1>1, <1>2, <2>1, <2>2, <2>5 DEF RoundFits
  <2> QED BY <2>2, <2>4, <2>6, <2>7 DEF RoundFits
<1> QED BY <1>1, <1>2, <1>4, <1>5, <1>6, OwnStepRounds

\* What was asked and is not lost with the connection was right before.
LEMMA HangsRounds ==
  ASSUME RInv, NInv', NEW p \in Player, LoseConnection(p) \/ RestartProgram(p)
  PROVE  RInv'
<1>0. PICK c : c = conn[p]
  OBVIOUS
<1>1. /\ Hangs(p) /\ UNCHANGED server
      /\ isRoomOwner' = isRoomOwner \/ isRoomOwner' = [isRoomOwner EXCEPT ![p] = FALSE]
      /\ resultBoxes' = resultBoxes \/ resultBoxes' = [resultBoxes EXCEPT ![p] = 0]
      /\ \A q \in Player \ {p} : /\ q \in astray => q \in astray'
                                 /\ q \in dismissed' <=> q \in dismissed
  BY DEF LoseConnection, RestartProgram, Hangs
<1>2. UNCHANGED <<up, room, rooms, owner, game, gameStats>>
  BY <1>1, ServerRests
<1>3. /\ conn' = [conn EXCEPT ![p] = NoClient] /\ scene' = [scene EXCEPT ![p] = "connect"]
      /\ waiting' = [waiting EXCEPT ![p] = FALSE]
      /\ IF c = NoClient THEN UNCHANGED network
         ELSE /\ \E k \in 0..Len(requests[c]) :
                   requests' = [requests EXCEPT ![c] = SubSeq(@, 1, k)]
              /\ sendingBuffer' = [sendingBuffer EXCEPT ![c] = <<>>]
  BY <1>0, <1>1 DEF Hangs
<1>4. Typed /\ RequestsFit
  BY DEF RInv, NInv, LInv
<1>5. /\ conn'[p] = NoClient
      /\ \A q \in Player \ {p} : /\ conn'[q] = conn[q] /\ scene'[q] = scene[q]
                                 /\ waiting'[q] = waiting[q] /\ resultBoxes'[q] = resultBoxes[q]
                                 /\ isRoomOwner'[q] = isRoomOwner[q]
  BY <1>1, <1>3, <1>4 DEF Typed
<1>6. \A d \in Client : d # c => requests'[d] = requests[d] /\ sendingBuffer'[d] = sendingBuffer[d]
  BY <1>3, <1>4 DEF network, Typed, RequestsFit
<1>7. up => Rounds'
  BY <1>1, SameRounds
<1>8. ASSUME up, NEW d \in Client PROVE AskRight(d)'
  <2>1. AskRight(d)
    BY <1>8 DEF RInv
  <2>2. CASE d # c
    BY <1>2, <1>6, <2>1, <2>2, SameRights
  <2>3. CASE d = c
    <3>1. PICK k \in 0..Len(requests[d]) : requests' = [requests EXCEPT ![d] = SubSeq(@, 1, k)]
      BY <1>3, <2>3, LobbyAssumption
    <3>2. requests[d] \in Seq(Request) /\ requests'[d] = SubSeq(requests[d], 1, k)
      BY <1>4, <3>1 DEF RequestsFit
    <3>3. /\ OneOf(requests'[d], {"START_GAME"})
          /\ \A types : Asked(requests'[d], types) => Asked(requests[d], types)
      BY <2>1, <3>2, AskedCut DEF AskRight
    <3>4. \A r \in RoomId : (Runs(r)' <=> Runs(r)) /\ (Plays(d, r)' <=> Plays(d, r))
      BY <1>2 DEF Runs, Plays
    <3> QED BY <1>2, <2>1, <3>3, <3>4 DEF AskRight
  <2> QED BY <2>2, <2>3
<1> QED BY <1>0, <1>1, <1>2, <1>5, <1>6, <1>7, <1>8, OwnStepRounds

\* A new connection has no room, and nothing is asked or under way.
LEMMA ConnectedRounds ==
  ASSUME RInv, NInv', NEW p \in Player, NEW c \in Client, Connected(p, c)
  PROVE  RInv'
<1>1. /\ conn[p] = NoClient /\ Server!Accept(c) /\ ~Held(c)
      /\ conn' = [conn EXCEPT ![p] = c] /\ scene' = [scene EXCEPT ![p] = "login"]
      /\ requests' = [requests EXCEPT ![c] = <<>>]
      /\ UNCHANGED <<sendingBuffer, isRoomOwner, resultBoxes, waiting, astray, dismissed>>
  BY DEF Connected, lobby
<1>2. SeatInv /\ Typed /\ RequestsFit /\ Connections
  BY DEF RInv, NInv, LInv
<1>3. /\ room' = room /\ room[c] = NoRoom
      /\ UNCHANGED <<up, rooms, owner, game, gameStats>>
  BY <1>1, <1>2, AcceptKeepsSeats DEF Server!Accept, Server!seatVars, Server!roundVars
<1>4. /\ conn'[p] = c /\ requests'[c] = <<>>
      /\ \A q \in Player \ {p} : conn'[q] = conn[q] /\ scene'[q] = scene[q]
      /\ \A d \in Client \ {c} : requests'[d] = requests[d]
  BY <1>1, <1>2 DEF Typed, RequestsFit
<1>5. up => Rounds'
  BY <1>1, <1>2, AcceptRounds DEF RInv
<1>6. \A types : ~Asked(requests'[c], types)
  BY <1>4 DEF Asked
<1>7. AskRight(c)'
  BY <1>6, OneOfNone DEF AskRight
<1>8. RoundFits(p)'
  <2>1. ~Stays(c)'
    BY <1>3 DEF Stays
  <2>2. sendingBuffer'[c] = <<>> /\ Types(sendingBuffer'[c]) = {}
    BY <1>1, <1>2, TypesNone DEF Connections
  <2>3. OneOf(sendingBuffer'[c], RoomAnswers)
    BY <2>2 DEF OneOf
  <2> QED BY <1>4, <1>6, <2>1, <2>2, <2>3 DEF RoundFits
<1>9. \A d \in Client : d = conn[p] \/ d = conn'[p] => d = c
  BY <1>1, <1>4, LobbyAssumption
<1> QED BY <1>1, <1>3, <1>4, <1>5, <1>7, <1>8, <1>9, OwnStepRounds

\* A click that asks for what is the player's to ask.
LEMMA ClickRounds ==
  ASSUME RInv, NInv', NEW p \in Player, p \notin astray, NEW c \in Client, c = conn[p],
         NEW type, NEW arg, [type |-> type, arg |-> arg] \in Request,
         Send(p, type, arg), c # NoClient,
         UNCHANGED <<server, conn, astray, resultBoxes, dismissed>>,
         \A q \in Player \ {p} : /\ scene'[q] = scene[q] /\ isRoomOwner'[q] = isRoomOwner[q]
                                 /\ waiting'[q] = waiting[q],
         isRoomOwner'[p] => isRoomOwner[p],
         \/ type # "LEAVE_ROOM" /\ scene'[p] = scene[p]
         \/ type = "LEAVE_ROOM" /\ scene'[p] = "menu" /\ ~isRoomOwner'[p],
         waiting'[p] \/ (type # "START_GAME" /\ waiting'[p] = waiting[p]),
         up /\ type = "START_GAME" =>
           /\ ~Asked(requests[c], {"START_GAME"})
           /\ \A r \in RoomId : room[c] = r => owner[r] = c /\ ~Runs(r),
         up /\ type = "GUESS" => \A r \in RoomId : room[c] = r => Plays(c, r)
  PROVE  RInv'
<1>1. PICK x : x = [type |-> type, arg |-> arg]
  OBVIOUS
<1>2. requests[c] \in Seq(Request) /\ x \in Request /\ x.type = type
  BY <1>1 DEF RInv, NInv, LInv, RequestsFit
<1>3. /\ requests' = [requests EXCEPT ![c] = Append(@, x)] /\ UNCHANGED sendingBuffer
      /\ UNCHANGED <<up, room, rooms, owner, game, gameStats>>
  BY <1>1, SendIs, ServerRests
<1>4. requests'[c] = Append(requests[c], x) /\ \A d \in Client : d # c => requests'[d] = requests[d]
  BY <1>2, <1>3 DEF RInv, NInv, LInv, RequestsFit
<1>5. \A types : Asked(requests'[c], types) <=> Asked(requests[c], types) \/ type \in types
  BY <1>2, <1>4, AskedMore
<1>6. up => Rounds'
  BY SameRounds
<1>7. \A r \in RoomId : (Runs(r)' <=> Runs(r)) /\ (Plays(c, r)' <=> Plays(c, r))
  BY <1>3 DEF Runs, Plays
<1>8. ASSUME up PROVE AskRight(c)'
  <2>1. AskRight(c)
    BY <1>8 DEF RInv
  <2>2. OneOf(requests'[c], {"START_GAME"})
    BY <1>2, <1>4, <1>8, <2>1, OneOfAppend DEF AskRight
  <2>3. ASSUME NEW r \in RoomId, room'[c] = r
        PROVE  /\ Asked(requests'[c], {"START_GAME"}) => owner'[r] = c /\ ~Runs(r)'
               /\ Asked(requests'[c], {"GUESS"}) => Plays(c, r)'
    BY <1>3, <1>5, <1>7, <1>8, <2>1, <2>3 DEF AskRight
  <2> QED BY <2>2, <2>3 DEF AskRight
<1>9. ASSUME up PROVE RoundFits(p)'
  <2>1. PICK T : T = Types(sendingBuffer[c])
    OBVIOUS
  <2>2. RoundFits(p) /\ conn'[p] = c
    BY <1>9 DEF RInv, RoundsFit
  <2>3. Types(sendingBuffer'[c]) = T /\ OneOf(sendingBuffer'[c], RoomAnswers)
    BY <1>3, <2>1, <2>2 DEF RoundFits
  <2>4. ASSUME Stays(c)', NEW r \in RoomId, room'[c] = r
        PROVE  RoundKnown(scene'[p], resultBoxes'[p], p \in dismissed', Runs(r)', Plays(c, r)', T)
    <3>1. Stays(c) /\ type # "LEAVE_ROOM"
      BY <1>3, <1>5, <2>4 DEF Stays
    <3>2. RoundKnown(scene[p], resultBoxes[p], p \in dismissed, Runs(r), Plays(c, r), T)
      BY <1>3, <2>1, <2>2, <2>4, <3>1 DEF RoundFits
    <3>3. scene'[p] = scene[p] /\ resultBoxes'[p] = resultBoxes[p] /\ dismissed' = dismissed
      BY <3>1
    <3>4. (Runs(r)' <=> Runs(r)) /\ (Plays(c, r)' <=> Plays(c, r))
      BY <1>7
    <3> QED BY <3>2, <3>3, <3>4 DEF RoundKnown
  <2>5. isRoomOwner'[p] /\ "GAME_STARTED" \in T => waiting'[p]
    BY <2>1, <2>2 DEF RoundFits
  <2>6. Asked(requests'[c], {"START_GAME"}) /\ scene'[p] \in {"lobby", "game"} => waiting'[p]
    BY <1>5, <2>2 DEF RoundFits
  <2>7. Asked(requests'[c], {"LEAVE_ROOM"}) => ~isRoomOwner'[p]
    BY <1>5, <2>2 DEF RoundFits
  <2> QED BY <2>2, <2>3, <2>4, <2>5, <2>6, <2>7 DEF RoundFits
<1>10. \A d \in Client : d = conn[p] \/ d = conn'[p] => d = c
  OBVIOUS
<1> QED BY <1>3, <1>4, <1>6, <1>8, <1>9, <1>10, OwnStepRounds

\* Only the owner of a room without a round sees the Start button and does not wait.
LEMMA StartersRight ==
  ASSUME RInv, up, NEW p \in Player, p \notin astray, NEW c \in Client, c = conn[p], c # NoClient,
         scene[p] = "lobby", isRoomOwner[p], ~waiting[p]
  PROVE  /\ ~Asked(requests[c], {"START_GAME"})
         /\ \A r \in RoomId : room[c] = r => owner[r] = c /\ ~Runs(r)
<1>1. PICK T : T = Types(sendingBuffer[c])
  OBVIOUS
<1>2. RoundFits(p) /\ c \in clients
  BY DEF RInv, RoundsFit, NInv, LInv, Connections
<1>3. AtRoom(nickname[c], room[c], requests[c], T)
  BY <1>1, ClickersScene DEF RInv, NInv, Fits
<1>4. Stays(c)
  BY <1>3 DEF AtRoom, Stays, Asked, RoundAsks
<1>5. ~Asked(requests[c], {"START_GAME"})
  BY <1>2 DEF RoundFits
<1>6. ASSUME NEW r \in RoomId, room[c] = r PROVE owner[r] = c /\ ~Runs(r)
  <2>1. owner[r] = c
    BY <1>3, <1>6, OwnerWaits DEF AtRoom
  <2>2. ASSUME Runs(r) PROVE FALSE
    <3>1. Plays(c, r)
      BY <1>2, <2>1, <2>2 DEF RInv, Rounds, OwnerPlays
    <3>2. RoundKnown(scene[p], resultBoxes[p], p \in dismissed, Runs(r), Plays(c, r), T)
      BY <1>1, <1>2, <1>4, <1>6 DEF RoundFits
    <3>3. "GAME_STARTED" \in T
      BY <2>2, <3>1, <3>2 DEF RoundKnown
    <3> QED BY <1>1, <1>2, <3>3 DEF RoundFits
  <2> QED BY <2>1, <2>2
<1> QED BY <1>5, <1>6

\* Who sees the letters has a row.
LEMMA GuessersRow ==
  ASSUME RInv, up, NEW p \in Player, p \notin astray, NEW c \in Client, c = conn[p], c # NoClient,
         scene[p] = "game", NEW r \in RoomId, room[c] = r
  PROVE  Plays(c, r)
<1>1. PICK T : T = Types(sendingBuffer[c])
  OBVIOUS
<1>2. RoundFits(p)
  BY DEF RInv, RoundsFit
<1>3. AtRoom(nickname[c], room[c], requests[c], T)
  BY <1>1, ClickersScene DEF RInv, NInv, Fits
<1>4. Stays(c)
  BY <1>3 DEF AtRoom, Stays, Asked, RoundAsks
<1>5. RoundKnown(scene[p], resultBoxes[p], p \in dismissed, Runs(r), Plays(c, r), T)
  BY <1>1, <1>2, <1>4 DEF RoundFits
<1> QED BY <1>5 DEF RoundKnown

LEMMA ButtonRounds ==
  ASSUME RInv, NInv', NEW p \in Player, p \notin astray,
         \/ LoginButtonHit(p) \/ CreateRoomButtonHit(p) \/ StartGameButtonHit(p)
         \/ LeaveRoomButtonHit(p)
         \/ \E r \in Server!RoomId : JoinRoomButtonHit(p, r)
         \/ \E l \in Letter : LetterButtonHit(p, l)
  PROVE  RInv'
<1>1. Typed
  BY DEF RInv, NInv, LInv
<1>2. PICK c : c = conn[p]
  OBVIOUS
<1>3. c # NoClient => c \in Client
  BY <1>1, <1>2 DEF Typed
<1>4. ASSUME NEW type \in {"LOGIN", "CREATE_ROOM", "JOIN_ROOM", "START_GAME"}, NEW arg,
             [type |-> type, arg |-> arg] \in Request, Ask(p, type, arg),
             isRoomOwner' = isRoomOwner \/ isRoomOwner' = [isRoomOwner EXCEPT ![p] = FALSE],
             type = "START_GAME" => scene[p] = "lobby" /\ isRoomOwner[p]
      PROVE  RInv'
  <2>1. /\ c # NoClient /\ ~waiting[p] /\ Send(p, type, arg)
        /\ waiting' = [waiting EXCEPT ![p] = TRUE]
        /\ UNCHANGED <<server, conn, scene, resultBoxes, astray, dismissed>>
    BY <1>2, <1>4 DEF Ask
  <2>2. /\ waiting'[p] /\ (isRoomOwner'[p] => isRoomOwner[p])
        /\ \A q \in Player \ {p} : waiting'[q] = waiting[q] /\ isRoomOwner'[q] = isRoomOwner[q]
    BY <1>1, <1>4, <2>1 DEF Typed
  <2>3. up /\ type = "START_GAME" =>
           /\ ~Asked(requests[c], {"START_GAME"})
           /\ \A r \in RoomId : room[c] = r => owner[r] = c /\ ~Runs(r)
    BY <1>2, <1>3, <1>4, <2>1, StartersRight
  <2>4. type # "LEAVE_ROOM" /\ type # "GUESS" /\ scene'[p] = scene[p]
    BY <2>1
  <2> QED BY <1>2, <1>3, <1>4, <2>1, <2>2, <2>3, <2>4, ClickRounds
<1>5. CASE LoginButtonHit(p)
  <2>1. [type |-> "LOGIN", arg |-> p] \in Request
    BY DEF Request
  <2> QED BY <1>4, <1>5, <2>1 DEF LoginButtonHit
<1>6. CASE CreateRoomButtonHit(p)
  <2>1. [type |-> "CREATE_ROOM", arg |-> 0] \in Request
    BY DEF Request
  <2> QED BY <1>4, <1>6, <2>1 DEF CreateRoomButtonHit
<1>7. CASE StartGameButtonHit(p)
  <2>1. [type |-> "START_GAME", arg |-> 0] \in Request
    BY DEF Request
  <2>2. scene[p] = "lobby" /\ isRoomOwner[p]
    BY <1>7 DEF StartGameButtonHit, Shows, StartVisible
  <2> QED BY <1>4, <1>7, <2>1, <2>2 DEF StartGameButtonHit
<1>8. ASSUME NEW r \in Server!RoomId, JoinRoomButtonHit(p, r) PROVE RInv'
  <2>1. [type |-> "JOIN_ROOM", arg |-> r] \in Request
    BY DEF Request
  <2> QED BY <1>4, <1>8, <2>1 DEF JoinRoomButtonHit
<1>9. CASE LeaveRoomButtonHit(p)
  <2>1. [type |-> "LEAVE_ROOM", arg |-> 0] \in Request
    BY DEF Request
  <2>2. /\ scene[p] = "lobby" /\ Send(p, "LEAVE_ROOM", 0)
        /\ isRoomOwner' = [isRoomOwner EXCEPT ![p] = FALSE]
        /\ scene' = [scene EXCEPT ![p] = "menu"]
        /\ UNCHANGED <<server, conn, waiting, resultBoxes, astray, dismissed>>
    BY <1>9 DEF LeaveRoomButtonHit, Shows
  <2>3. /\ ~isRoomOwner'[p] /\ scene'[p] = "menu"
        /\ \A q \in Player \ {p} : scene'[q] = scene[q] /\ isRoomOwner'[q] = isRoomOwner[q]
    BY <1>1, <2>2 DEF Typed
  <2>4. CASE c # NoClient
    <3>1. \A q \in Player : waiting'[q] = waiting[q]
      BY <2>2
    <3> QED BY <1>2, <1>3, <2>1, <2>2, <2>3, <2>4, <3>1, ClickRounds
  <2>5. CASE c = NoClient
    <3>1. ~up /\ up' = up
      BY <1>2, <2>2, <2>5, ClickersScene DEF server, RInv, NInv
    <3> QED BY <3>1 DEF RInv
  <2> QED BY <2>4, <2>5
<1>10. ASSUME NEW l \in Letter, LetterButtonHit(p, l) PROVE RInv'
  <2>1. [type |-> "GUESS", arg |-> l] \in Request
    BY DEF Request
  <2>2. c # NoClient /\ scene[p] = "game" /\ Send(p, "GUESS", l) /\ UNCHANGED <<server, program>>
    BY <1>2, <1>10 DEF LetterButtonHit, Shows
  <2>3. UNCHANGED <<conn, scene, isRoomOwner, waiting, resultBoxes, astray, dismissed>>
    BY <2>2 DEF program, lobby
  <2>4. up => \A r \in RoomId : room[c] = r => Plays(c, r)
    BY <1>2, <1>3, <2>2, GuessersRow
  <2>5. /\ scene'[p] = scene[p] /\ waiting'[p] = waiting[p] /\ isRoomOwner'[p] = isRoomOwner[p]
        /\ \A q \in Player \ {p} : /\ scene'[q] = scene[q] /\ isRoomOwner'[q] = isRoomOwner[q]
                                   /\ waiting'[q] = waiting[q]
    BY <2>3
  <2> QED BY <1>2, <1>3, <2>1, <2>2, <2>3, <2>4, <2>5, ClickRounds
<1> QED BY <1>5, <1>6, <1>7, <1>8, <1>9, <1>10

-----------------------------------------------------------------------------
(***************************************************************************)
(* What the reading of a write tells a program of its round.               *)
(***************************************************************************)

\* How a program that was before has got to after by messages of the types T, none of
\* them an answer to a login, and by no more than one answer that gives it a room.
Watches(p, before, T, after) ==
  LET round == InRound(conn[p])
      started == "GAME_STARTED" \in T
      seated == T \cap RoomAnswers # {}
  IN /\ after \in ProgramState
     /\ after.astray \/
          /\ after.resultBoxes > 0 <=> before.resultBoxes > 0 \/ "RESULT" \in T
          /\ "RESULT" \in T => ~round
          /\ started => round /\ before.resultBoxes = 0
          /\ before.scene = "menu" =>
               IF seated THEN /\ after.scene \in {"lobby", "game"}
                              /\ after.scene = "game" <=> started
                         ELSE after.scene = "menu" /\ ~started
          /\ before.scene \in {"lobby", "game"} /\ ~seated =>
               after.scene = IF started THEN "game" ELSE before.scene

LEMMA NothingWatched ==
  \A p : \A s \in ProgramState : Watches(p, s, {}, s)
BY DEF Watches

LEMMA WatchesMore ==
  ASSUME NEW p, NEW before \in ProgramState, NEW T, NEW s, Watches(p, before, T, s),
         NEW m \in Messages, m.type # "LOGIN_OK", m.type \in RoomAnswers => T \cap RoomAnswers = {},
         NEW h, h = Handle(p, s, m), NEW U, U = T \cup {m.type}
  PROVE  Watches(p, before, U, h)
<1> DEFINE seated == T \cap RoomAnswers # {}
           seats == U \cap RoomAnswers # {}
<1>1. PICK t, round : t = m.type /\ round = InRound(conn[p])
  OBVIOUS
<1>2. s \in ProgramState
  BY DEF Watches
<1>3. /\ h \in ProgramState /\ (s.astray => h.astray)
      /\ h.scene = IF t \in RoomAnswers THEN "lobby" ELSE IF t = "GAME_STARTED" THEN "game" ELSE s.scene
      /\ t = "GAME_STARTED" /\ (s.scene = "menu" \/ s.resultBoxes > 0 \/ ~round) => h.astray
      /\ h.resultBoxes = IF t = "RESULT" THEN s.resultBoxes + 1 ELSE s.resultBoxes
      /\ t = "RESULT" /\ round => h.astray
  <2>1. TurnsInto(p, s, m, h)
    BY <1>2, HandleEffect
  <2> QED BY <1>1, <2>1 DEF TurnsInto
<1>4. /\ s.resultBoxes \in Nat /\ before.resultBoxes \in Nat
      /\ U = T \cup {t}
      /\ seats <=> seated \/ t \in RoomAnswers
      /\ "GAME_STARTED" \notin RoomAnswers /\ (t \in RoomAnswers => ~seated)
  BY <1>1, <1>2 DEF ProgramState, RoomAnswers
<1> HIDE DEF seated, seats
<1>5. ASSUME ~h.astray
      PROVE  /\ h.resultBoxes > 0 <=> before.resultBoxes > 0 \/ "RESULT" \in U
             /\ "RESULT" \in U => ~round
             /\ "GAME_STARTED" \in U => round /\ before.resultBoxes = 0
             /\ before.scene = "menu" =>
                  IF seats THEN /\ h.scene \in {"lobby", "game"}
                                /\ h.scene = "game" <=> "GAME_STARTED" \in U
                           ELSE h.scene = "menu" /\ "GAME_STARTED" \notin U
             /\ before.scene \in {"lobby", "game"} /\ ~seats =>
                  h.scene = IF "GAME_STARTED" \in U THEN "game" ELSE before.scene
  <2>1. /\ s.resultBoxes > 0 <=> before.resultBoxes > 0 \/ "RESULT" \in T
        /\ "RESULT" \in T => ~round
        /\ "GAME_STARTED" \in T => round /\ before.resultBoxes = 0
        /\ before.scene = "menu" =>
             IF seated THEN /\ s.scene \in {"lobby", "game"}
                            /\ s.scene = "game" <=> "GAME_STARTED" \in T
                       ELSE s.scene = "menu" /\ "GAME_STARTED" \notin T
        /\ before.scene \in {"lobby", "game"} /\ ~seated =>
             s.scene = IF "GAME_STARTED" \in T THEN "game" ELSE before.scene
    BY <1>1, <1>3, <1>5 DEF Watches, seated
  <2>2. h.resultBoxes > 0 <=> before.resultBoxes > 0 \/ "RESULT" \in U
    BY <1>3, <1>4, <2>1
  <2>3. "RESULT" \in U => ~round
    BY <1>3, <1>4, <1>5, <2>1
  <2>4. "GAME_STARTED" \in U => round /\ before.resultBoxes = 0
    BY <1>3, <1>4, <1>5, <2>1
  <2>5. before.scene = "menu" =>
          IF seats THEN /\ h.scene \in {"lobby", "game"}
                        /\ h.scene = "game" <=> "GAME_STARTED" \in U
                   ELSE h.scene = "menu" /\ "GAME_STARTED" \notin U
    BY <1>3, <1>4, <1>5, <2>1
  <2>6. before.scene \in {"lobby", "game"} /\ ~seats =>
          h.scene = IF "GAME_STARTED" \in U THEN "game" ELSE before.scene
    BY <1>3, <1>4, <2>1
  <2> QED BY <2>2, <2>3, <2>4, <2>5, <2>6
<1> QED BY <1>1, <1>3, <1>5 DEF Watches, seats

LEMMA ReadingWatches ==
  ASSUME NEW p, BeforeReading(p) \in ProgramState, NEW b \in Seq(Messages),
         "LOGIN_OK" \notin Types(b), OneOf(b, RoomAnswers)
  PROVE  Watches(p, BeforeReading(p), Types(b), AfterReading(p, b))
<1>1. Len(b) \in Nat /\ \A i \in 1..Len(b) : b[i] \in Messages
  OBVIOUS
<1>2. PICK f : /\ f[0] = BeforeReading(p) /\ AfterReading(p, b) = f[Len(b)]
               /\ \A i \in 1..Len(b) : f[i] = Handle(p, f[i - 1], b[i])
  BY <1>1, AfterReadingIs
<1> DEFINE T(i) == {b[j].type : j \in 1..i}
           S == {i \in 0..Len(b) : Watches(p, f[0], T(i), f[i])}
<1>3. 0 \in S
  <2>1. T(0) = {} /\ 0 \in 0..Len(b)
    BY <1>1
  <2> HIDE DEF T
  <2> QED BY <1>2, <2>1, NothingWatched
<1>4. ASSUME NEW i \in 1..Len(b), i - 1 \in S PROVE i \in S
  <2>1. T(i) = T(i - 1) \cup {b[i].type}
    <3>1. 1..i = (1..(i - 1)) \cup {i}
      BY <1>1
    <3> QED BY <3>1
  <2>2. i \in 0..Len(b) /\ b[i] \in Messages /\ f[i] = Handle(p, f[i - 1], b[i])
    BY <1>1, <1>2
  <2>3. b[i].type # "LOGIN_OK"
    BY <1>1 DEF Types, Range
  <2>4. b[i].type \in RoomAnswers => T(i - 1) \cap RoomAnswers = {}
    <3>1. ASSUME b[i].type \in RoomAnswers, NEW j \in 1..(i - 1), b[j].type \in RoomAnswers
          PROVE  FALSE
      <4>1. j \in 1..Len(b) /\ j # i
        BY <1>1
      <4> QED BY <3>1, <4>1 DEF OneOf
    <3> QED BY <3>1
  <2> HIDE DEF T
  <2>5. Watches(p, f[0], T(i - 1), f[i - 1])
    BY <1>4
  <2>6. Watches(p, f[0], T(i), f[i])
    BY <1>2, <2>1, <2>2, <2>3, <2>4, <2>5, WatchesMore
  <2> QED BY <2>2, <2>6
<1>5. Len(b) \in S
  <2> HIDE DEF S
  <2>1. 0..Len(b) \subseteq S
    BY <1>1, <1>3, <1>4, UpTo
  <2> QED BY <1>1, <2>1
<1>6. T(Len(b)) = Types(b)
  BY <1>1 DEF Types, Range
<1> HIDE DEF T
<1> QED BY <1>2, <1>5, <1>6

\* A program that reads a write, and does not go astray, knows of its round after it.
LEMMA ReadersRound ==
  ASSUME RInv, NInv', up, NEW p \in Player, ReadyRead(p), p \notin astray',
         NEW c \in Client, c = conn[p]
  PROVE  RoundFits(p)'
<1>1. PICK b, s, T, q : /\ b = sendingBuffer[c] /\ s = AfterReading(p, b) /\ T = Types(b)
                        /\ q = requests[c]
  OBVIOUS
<1>2. /\ c # NoClient /\ b # <<>>
      /\ sendingBuffer' = [sendingBuffer EXCEPT ![c] = <<>>]
      /\ scene' = [scene EXCEPT ![p] = s.scene]
      /\ isRoomOwner' = [isRoomOwner EXCEPT ![p] = s.isRoomOwner]
      /\ resultBoxes' = [resultBoxes EXCEPT ![p] = s.resultBoxes]
      /\ waiting' = [waiting EXCEPT ![p] = s.waiting]
      /\ astray' = IF s.astray THEN astray \cup {p} ELSE astray
      /\ "GAME_STARTED" \notin T => dismissed' = dismissed
      /\ UNCHANGED <<server, requests, conn>>
  BY <1>1 DEF ReadyRead, AstrayIf, Types
<1>3. Typed /\ RequestsFit /\ LInv
  BY DEF RInv, NInv, LInv
<1>4. b \in Seq(Messages) /\ q \in Seq(Request)
  BY <1>1, <1>3 DEF Typed, RequestsFit
<1>5. /\ BeforeReading(p) \in ProgramState /\ BeforeReading(p).scene = scene[p]
      /\ BeforeReading(p).waiting = waiting[p] /\ BeforeReading(p).isRoomOwner = isRoomOwner[p]
      /\ BeforeReading(p).resultBoxes = resultBoxes[p]
  BY <1>3 DEF BeforeReading, ProgramState, Typed
<1>6. /\ scene'[p] = s.scene /\ isRoomOwner'[p] = s.isRoomOwner /\ waiting'[p] = s.waiting
      /\ resultBoxes'[p] = s.resultBoxes /\ sendingBuffer'[c] = <<>> /\ requests'[c] = q
      /\ conn'[p] = c
  BY <1>1, <1>2, <1>3 DEF Typed
<1>7. p \notin astray /\ ~s.astray
  BY <1>2
<1>8. Fits(scene[p], waiting[p], nickname[c], room[c], q, T) /\ RoundFits(p) /\ AskRight(c)
  BY <1>1, <1>2, <1>3, <1>7, ClickersScene DEF RInv, RoundsFit
<1>9. T # {}
  <2>1. b[1] \in Range(b)
    BY <1>2, <1>4, TailShape DEF Range
  <2> QED BY <1>1, <2>1 DEF Types
<1>10. UNCHANGED room /\ (\A r \in RoomId : (Runs(r)' <=> Runs(r)) /\ (Plays(c, r)' <=> Plays(c, r)))
  BY <1>2, ServerRests
<1>11. Stays(c)' <=> Stays(c)
  BY <1>1, <1>6, <1>10 DEF Stays
<1>12. Types(sendingBuffer'[c]) = {} /\ OneOf(sendingBuffer'[c], RoomAnswers)
  BY <1>6, TypesNone DEF OneOf
<1>13. SUFFICES
         /\ Stays(c) => \A r \in RoomId : room[c] = r =>
              RoundKnown(s.scene, s.resultBoxes, p \in dismissed', Runs(r), Plays(c, r), {})
         /\ Asked(q, {"START_GAME"}) /\ s.scene \in {"lobby", "game"} => s.waiting
         /\ Asked(q, {"LEAVE_ROOM"}) => ~s.isRoomOwner
  <2>1. ASSUME NEW r \in RoomId,
               RoundKnown(s.scene, s.resultBoxes, p \in dismissed', Runs(r), Plays(c, r), {})
        PROVE  RoundKnown(scene'[p], resultBoxes'[p], p \in dismissed', Runs(r)', Plays(c, r)', {})
    BY <1>6, <1>10, <2>1 DEF RoundKnown
  <2> QED BY <1>6, <1>10, <1>11, <1>12, <2>1 DEF RoundFits
<1>14. Outcome(BeforeReading(p), T, s) /\ Learns(p, BeforeReading(p), Range(b), s)
  BY <1>1, <1>4, <1>5, ReadingOutcome, ReadingLearns
<1>15. ASSUME "LOGIN_OK" \notin T
       PROVE  /\ s.resultBoxes > 0 <=> resultBoxes[p] > 0 \/ "RESULT" \in T
              /\ "RESULT" \in T => ~InRound(c)
              /\ "GAME_STARTED" \in T => InRound(c) /\ resultBoxes[p] = 0
              /\ scene[p] = "menu" =>
                   IF T \cap RoomAnswers # {}
                   THEN /\ s.scene \in {"lobby", "game"}
                        /\ s.scene = "game" <=> "GAME_STARTED" \in T
                   ELSE s.scene = "menu" /\ "GAME_STARTED" \notin T
              /\ scene[p] \in {"lobby", "game"} /\ T \cap RoomAnswers = {} =>
                   s.scene = IF "GAME_STARTED" \in T THEN "game" ELSE scene[p]
  <2>1. OneOf(b, RoomAnswers)
    BY <1>1, <1>8 DEF RoundFits
  <2>2. Watches(p, BeforeReading(p), T, s)
    BY <1>1, <1>4, <1>5, <1>15, <2>1, ReadingWatches
  <2> QED BY <1>5, <1>7, <2>2 DEF Watches
<1>16. /\ s.resultBoxes \in Nat /\ resultBoxes[p] \in Nat
       /\ \A r \in RoomId : room[c] = r => (InRound(c) <=> Runs(r) /\ Plays(c, r))
  BY <1>3, <1>14, RoundIs DEF Outcome, ProgramState, Typed
<1>17. ASSUME Stays(c), NEW r \in RoomId, room[c] = r
       PROVE  RoundKnown(scene[p], resultBoxes[p], p \in dismissed, Runs(r), Plays(c, r), T)
  BY <1>1, <1>8, <1>17 DEF RoundFits
<1>18. CASE scene[p] = "login" /\ AtLogin(waiting[p], nickname[c], room[c], q, T)
  <2>1. q = <<>> /\ room[c] = NoRoom
    BY <1>9, <1>18 DEF AtLogin
  <2> QED BY <1>1, <2>1 DEF Stays, Asked
<1>19. CASE scene[p] = "menu" /\ AtMenu(waiting[p], nickname[c], room[c], q, T)
  <2>1. "LOGIN_OK" \notin T
    BY <1>19 DEF AtMenu
  <2>2. ASSUME q # <<>> PROVE T \cap RoomAnswers = {} /\ s.scene = "menu"
    <3>1. T \cap RoomAnswers = {}
      BY <1>19, <2>2 DEF AtMenu
    <3> QED BY <1>15, <1>19, <2>1, <3>1
  <2>3. \A types : Asked(q, types) => q # <<>>
    BY DEF Asked
  <2>4. ASSUME Asked(q, {"LEAVE_ROOM"}) PROVE ~s.isRoomOwner
    <3>1. ~isRoomOwner[p] /\ T \cap RoomAnswers = {}
      BY <1>1, <1>8, <2>2, <2>3, <2>4 DEF RoundFits
    <3>2. ASSUME NEW m \in Range(b), m.type \in OwnerNews PROVE FALSE
      <4>1. m.type \in T
        BY <1>1 DEF Types
      <4>2. m.type = "ROOM_OWNERSHIP_TRANSFER"
        BY <3>1, <3>2, <4>1 DEF OwnerNews, RoomAnswers
      <4> QED BY <1>7, <1>14, <1>19, <4>2 DEF Learns
    <3> QED BY <1>5, <1>14, <3>1, <3>2 DEF Learns
  <2>5. ASSUME Stays(c), NEW r \in RoomId, room[c] = r
        PROVE  RoundKnown(s.scene, s.resultBoxes, p \in dismissed', Runs(r), Plays(c, r), {})
    <3>1. T \cap RoomAnswers # {}
      BY <1>1, <1>19, <2>5 DEF AtMenu, Stays
    <3>2. RoundKnown(scene[p], resultBoxes[p], p \in dismissed, Runs(r), Plays(c, r), T)
      BY <1>17, <2>5
    <3>3. Runs(r) /\ Plays(c, r) => "GAME_STARTED" \in T
      BY <1>19, <3>2 DEF RoundKnown
    <3> QED BY <1>15, <1>16, <1>19, <2>1, <2>5, <3>1, <3>3 DEF RoundKnown
  <2>6. Asked(q, {"START_GAME"}) /\ s.scene \in {"lobby", "game"} => s.waiting
    BY <2>2, <2>3
  <2> QED BY <2>4, <2>5, <2>6
<1>20. CASE scene[p] \in {"lobby", "game"} /\ AtRoom(nickname[c], room[c], q, T)
  <2>1. "LOGIN_OK" \notin T /\ T \cap RoomAnswers = {} /\ room[c] # NoRoom
        /\ "LOGIN_FAILED" \notin T /\ "ROOM_FAILED" \notin T
    BY <1>20 DEF AtRoom, Broadcast, RoomAnswers
  <2>2. ~Asked(q, {"LEAVE_ROOM"})
    BY <1>20 DEF AtRoom, Asked, RoundAsks
  <2>3. ASSUME Asked(q, {"START_GAME"}) PROVE s.waiting
    <3>1. waiting[p]
      BY <1>1, <1>8, <1>20, <2>3 DEF RoundFits
    <3>2. PICK r \in RoomId : r = room[c]
      BY <2>1, <1>3 DEF LInv, SeatInv, SeatsTyped
    <3>3. ~InRound(c)
      BY <1>1, <1>8, <1>16, <2>3, <3>2 DEF AskRight
    <3>4. T \cap Answers = {}
      BY <1>15, <2>1, <3>3 DEF Answers
    <3> QED BY <1>5, <1>14, <3>1, <3>4 DEF Outcome
  <2>4. ASSUME Stays(c), NEW r \in RoomId, room[c] = r
        PROVE  RoundKnown(s.scene, s.resultBoxes, p \in dismissed', Runs(r), Plays(c, r), {})
    <3>1. RoundKnown(scene[p], resultBoxes[p], p \in dismissed, Runs(r), Plays(c, r), T)
      BY <1>17, <2>4
    <3> QED BY <1>2, <1>15, <1>16, <1>20, <2>1, <2>4, <3>1 DEF RoundKnown
  <2> QED BY <2>2, <2>3, <2>4
<1> QED BY <1>8, <1>18, <1>19, <1>20 DEF Fits

LEMMA ReadyReadRounds ==
  ASSUME RInv, NInv', NEW p \in Player, ReadyRead(p)
  PROVE  RInv'
<1>1. PICK c \in Client : c = conn[p]
  BY DEF ReadyRead, RInv, NInv, LInv, Typed
<1>2. /\ sendingBuffer' = [sendingBuffer EXCEPT ![c] = <<>>] /\ astray \subseteq astray'
      /\ UNCHANGED <<server, requests, conn>>
  BY <1>1 DEF ReadyRead, AstrayIf
<1>3. \A q \in Player \ {p} : /\ scene'[q] = scene[q] /\ isRoomOwner'[q] = isRoomOwner[q]
                              /\ waiting'[q] = waiting[q] /\ resultBoxes'[q] = resultBoxes[q]
                              /\ q \in dismissed' <=> q \in dismissed
  BY DEF ReadyRead, RInv, NInv, LInv, Typed
<1>4. \A d \in Client : d # c => sendingBuffer'[d] = sendingBuffer[d]
  BY <1>2 DEF RInv, NInv, LInv, Typed
<1>5. UNCHANGED <<up, room, rooms, owner, game, gameStats>>
  BY <1>2, ServerRests
<1>6. up => Rounds' /\ \A d \in Client : AskRight(d)'
  BY <1>2, <1>5, SameRounds, SameRights DEF RInv
<1>7. up /\ p \notin astray' => RoundFits(p)'
  BY <1>1, ReadersRound
<1> QED BY <1>1, <1>2, <1>3, <1>4, <1>5, <1>6, <1>7, OwnStepRounds

LEMMA ProgramKeepsRounds ==
  ASSUME RInv, NInv', NEW p \in Player, ProgramNext(p)
  PROVE  RInv'
BY LocalRounds, HangsRounds, ConnectedRounds, ButtonRounds, ReadyReadRounds DEF ProgramNext

LEMMA InitRInv == Init => RInv
<1> SUFFICES ASSUME Init PROVE RInv
  OBVIOUS
<1>1. Rounds
  BY InitRounds DEF Init
<1>2. \A c \in Client : AskRight(c)
  BY DEF Init, AskRight, OneOf, Asked
<1>3. RoundsFit
  BY DEF Init, RoundsFit
<1> QED BY <1>1, <1>2, <1>3, InitNInv DEF RInv

LEMMA NextRInv == RInv /\ [Next]_vars => RInv'
<1> SUFFICES ASSUME RInv, [Next]_vars PROVE RInv'
  OBVIOUS
<1>1. NInv'
  BY NextNInv DEF RInv
<1>2. CASE UNCHANGED vars
  <2>1. UNCHANGED <<server, requests, sendingBuffer, conn, scene, isRoomOwner, waiting,
                    resultBoxes, astray, dismissed>>
    BY <1>2 DEF vars, network, program, lobby
  <2>2. up' = up /\ room' = room
    BY <2>1, ServerRests
  <2>3. ASSUME up PROVE Rounds' /\ \A c \in Client : AskRight(c)'
    BY <2>1, <2>3, ServerRests, SameRounds, SameRights DEF RInv
  <2>4. ASSUME up PROVE RoundsFit'
    <3>1. RoundsFit
      BY <2>4 DEF RInv
    <3>2. \A c, r : (Runs(r)' <=> Runs(r)) /\ (Plays(c, r)' <=> Plays(c, r))
      BY <2>1, ServerRests
    <3>3. ASSUME NEW p \in Player, RoundFits(p) PROVE RoundFits(p)'
      <4>1. ASSUME NEW c, NEW r, NEW T,
                   RoundKnown(scene[p], resultBoxes[p], p \in dismissed, Runs(r), Plays(c, r), T)
            PROVE  RoundKnown(scene'[p], resultBoxes'[p], p \in dismissed', Runs(r)', Plays(c, r)', T)
        BY <2>1, <3>2, <4>1 DEF RoundKnown
      <4>2. \A c : Stays(c)' <=> Stays(c)
        BY <2>1, <2>2 DEF Stays
      <4> QED BY <2>1, <2>2, <3>3, <4>1, <4>2 DEF RoundFits
    <3> QED BY <2>1, <3>1, <3>3 DEF RoundsFit
  <2> QED BY <1>1, <2>2, <2>3, <2>4 DEF RInv
<1>3. CASE ServerNext
  BY <1>1, <1>3, ServerKeepsRounds
<1>4. CASE \E p \in Player : ProgramNext(p)
  BY <1>1, <1>4, ProgramKeepsRounds
<1> QED BY <1>2, <1>3, <1>4 DEF Next

LEMMA RInvHolds == Spec => []RInv
BY InitRInv, NextRInv, PTL DEF Spec

\* Once nothing is under way, a player of a running round sees it, and nobody stays in
\* the game scene of a round that is over without a box to leave it, except who closed
\* the box with the X of its window (MainWindow.cpp:83-110, GameWidget.cpp:250-282,
\* Room.cpp:234-246, 314, 334-343).
THEOREM RoundIsShownHolds == Spec => []RoundIsShown
<1>1. ASSUME RInv, NEW p \in Player, InRoom(p)
      PROVE  /\ InRound(conn[p]) => scene[p] = "game"
             /\ scene[p] = "game" =>
                  InRound(conn[p]) \/ resultBoxes[p] > 0 \/ p \in dismissed
  <2>1. PICK c \in Client : c = conn[p] /\ c # NoClient
    BY <1>1 DEF RInv, NInv, LInv, Typed, InRoom
  <2>2. /\ up /\ p \notin astray /\ requests[c] = <<>> /\ sendingBuffer[c] = <<>>
        /\ room[c] # NoRoom
    BY <1>1, <2>1, SeatedIs DEF InRoom, Settled, RInv, NInv, LInv
  <2>3. PICK r \in RoomId : r = room[c]
    BY <1>1, <2>2 DEF RInv, NInv, LInv, SeatInv, SeatsTyped
  <2>4. Stays(c) /\ RoundFits(p)
    BY <1>1, <2>1, <2>2 DEF Stays, Asked, RInv, RoundsFit
  <2>5. RoundKnown(scene[p], resultBoxes[p], p \in dismissed, Runs(r), Plays(c, r), {})
    BY <2>1, <2>2, <2>3, <2>4, TypesNone DEF RoundFits
  <2> QED BY <2>1, <2>3, <2>5, RoundIs DEF RoundKnown
<1>2. RInv => RoundIsShown
  BY <1>1 DEF RoundIsShown
<1> QED BY <1>2, RInvHolds, PTL

-----------------------------------------------------------------------------
(***************************************************************************)
(* The order of the requests.  Server and Ordered differ by what they take *)
(* for granted when a request is handled; the rest is one and the same.    *)
(***************************************************************************)

LEMMA OneServer ==
  /\ \A r : /\ Ordered!Members(r) = Server!Members(r) /\ Ordered!Gone(r) = Server!Gone(r)
            /\ Ordered!Players(r) = Server!Players(r)
            /\ Ordered!Running(r) <=> Server!Running(r)
            /\ Ordered!SeatFree(r) <=> Server!SeatFree(r)
            /\ Ordered!RoundOver(r) <=> Server!RoundOver(r)
            /\ Ordered!ResultReadable(r) <=> Server!ResultReadable(r)
            /\ Ordered!SecondCounted(r) = Server!SecondCounted(r)
  /\ \A c : /\ Ordered!Referenced(c) <=> Server!Referenced(c)
            /\ Ordered!Seated(c) <=> Server!Seated(c)
            /\ Ordered!Remaining(c) = Server!Remaining(c)
            /\ Ordered!LeaveBroadcastThrows(c) <=> Server!LeaveBroadcastThrows(c)
  /\ \A members, stats : Ordered!HaveRows(members, stats) <=> Server!HaveRows(members, stats)
  /\ \A w : Ordered!NewStats(w) = Server!NewStats(w)
  /\ Ordered!RoomId = RoomId /\ Ordered!NoRoom = NoRoom /\ Ordered!RoomsKept = Server!RoomsKept
  /\ Ordered!Crash <=> Server!Crash
<1>1. \A r : /\ Ordered!Members(r) = Server!Members(r) /\ Ordered!Gone(r) = Server!Gone(r)
             /\ Ordered!Players(r) = Server!Players(r)
  BY DEF Ordered!Members, Server!Members, Ordered!Range, Server!Range, Ordered!Gone, Server!Gone,
         Ordered!Players, Server!Players
<1>2. \A r : /\ Ordered!Running(r) <=> Server!Running(r)
             /\ Ordered!SeatFree(r) <=> Server!SeatFree(r)
  BY DEF Ordered!Running, Server!Running, Ordered!SeatFree, Server!SeatFree
<1>3. \A r : /\ Ordered!SecondCounted(r) = Server!SecondCounted(r)
             /\ Ordered!RoundOver(r) <=> Server!RoundOver(r)
             /\ Ordered!ResultReadable(r) <=> Server!ResultReadable(r)
  <2>1. \A r : /\ Ordered!SecondCounted(r) = Server!SecondCounted(r)
               /\ Ordered!TimedOut(r) <=> Server!TimedOut(r)
    BY DEF Ordered!SecondCounted, Server!SecondCounted, Ordered!TimedOut, Server!TimedOut
  <2>2. \A r : Ordered!AllClientsFinished(r) <=> Server!AllClientsFinished(r)
    BY <1>1 DEF Ordered!AllClientsFinished, Server!AllClientsFinished
  <2>3. \A r : Ordered!ResultReadable(r) <=> Server!ResultReadable(r)
    BY <1>1 DEF Ordered!ResultReadable, Server!ResultReadable, Ordered!Cardinality,
       Server!Cardinality
  <2> QED BY <2>1, <2>2, <2>3 DEF Ordered!RoundOver, Server!RoundOver
<1>4. \A c : Ordered!Referenced(c) <=> Server!Referenced(c)
  BY <1>1 DEF Ordered!Referenced, Server!Referenced
<1>5. Ordered!RoomId = RoomId /\ Ordered!NoRoom = NoRoom /\ Ordered!RoomsKept = Server!RoomsKept
  BY DEF Ordered!RoomId, Server!RoomId, RoomId, Ordered!NoRoom, Server!NoRoom, NoRoom,
         Ordered!RoomsKept, Server!RoomsKept
<1>6. \A c : /\ Ordered!Seated(c) <=> Server!Seated(c)
             /\ Ordered!Remaining(c) = Server!Remaining(c)
  BY <1>1, <1>5 DEF Ordered!Seated, Server!Seated, NoRoom, Ordered!Remaining, Server!Remaining,
     Ordered!RemoveFirst, Server!RemoveFirst, Ordered!RemoveAt, Server!RemoveAt,
     Ordered!SelectInSeq, Server!SelectInSeq, Ordered!Min, Server!Min
<1>7. \A members, stats : Ordered!HaveRows(members, stats) <=> Server!HaveRows(members, stats)
  BY DEF Ordered!HaveRows, Server!HaveRows
<1>8. \A c : Ordered!LeaveBroadcastThrows(c) <=> Server!LeaveBroadcastThrows(c)
  BY <1>2, <1>6, <1>7 DEF Ordered!LeaveBroadcastThrows, Server!LeaveBroadcastThrows,
     Ordered!Range, Server!Range
<1>9. \A w : Ordered!NewStats(w) = Server!NewStats(w)
  BY DEF Ordered!NewStats, Server!NewStats
<1>10. Ordered!Crash <=> Server!Crash
  BY DEF Ordered!Crash, Server!Crash, Ordered!clientVars, Server!clientVars, Ordered!seatVars,
     Server!seatVars, Ordered!roundVars, Server!roundVars
<1> QED BY <1>1, <1>2, <1>3, <1>4, <1>5, <1>6, <1>7, <1>8, <1>9, <1>10

\* Whatever the order, these are the same.
LEMMA OrderedSame ==
  /\ Server!Init => Ordered!Init
  /\ \A c \in Client :
       /\ Server!Accept(c) => Ordered!Accept(c)
       /\ Server!LeaveRoom(c) => Ordered!LeaveRoom(c)
       /\ Server!Disconnect(c) => Ordered!Disconnect(c)
       /\ Server!LeaveThrows(c) => Ordered!LeaveThrows(c)
       /\ \A l : Server!Guess(c, l) => Ordered!Guess(c, l)
  /\ \A due : /\ Server!Tick(due) => Ordered!Tick(due)
              /\ Server!TickOverruns(due) => Ordered!TickOverruns(due)
<1>1. Server!Init => Ordered!Init
  BY OneServer DEF Server!Init, Ordered!Init, Server!NoStats, Ordered!NoStats, RoomId, NoRoom
<1>2. \A c \in Client : Server!Accept(c) => Ordered!Accept(c)
  BY OneServer DEF Server!Accept, Ordered!Accept, NoRoom, Ordered!seatVars, Server!seatVars,
     Ordered!roundVars, Server!roundVars
<1>3. \A c : Server!Vacate(c) => Ordered!Vacate(c)
  BY OneServer DEF Server!Vacate, Ordered!Vacate, NoRoom, Ordered!roundVars, Server!roundVars
<1>4. \A c \in Client :
       /\ Server!LeaveRoom(c) => Ordered!LeaveRoom(c)
       /\ Server!Disconnect(c) => Ordered!Disconnect(c)
       /\ Server!LeaveThrows(c) => Ordered!LeaveThrows(c)
  BY <1>3, OneServer DEF Server!LeaveRoom, Ordered!LeaveRoom, Server!Disconnect, Ordered!Disconnect,
     Server!LeaveThrows, Ordered!LeaveThrows, Ordered!clientVars, Server!clientVars,
     Ordered!seatVars, Server!seatVars, Ordered!roundVars, Server!roundVars
<1>5. /\ \A s, l : Ordered!GuessIgnored(s, l) <=> Server!GuessIgnored(s, l)
      /\ \A s : Ordered!RoundFinished(s) <=> Server!RoundFinished(s)
  BY DEF Ordered!GuessIgnored, Server!GuessIgnored, Ordered!RoundFinished, Server!RoundFinished
<1>6. \A s, w, l : Ordered!PlayGuess(s, w, l) = Server!PlayGuess(s, w, l)
  <2>1. \A w, l : /\ Ordered!PositionsOf(w, l) = Server!PositionsOf(w, l)
                  /\ Ordered!CountLettersInWord(w, l) = Server!CountLettersInWord(w, l)
                  /\ Ordered!IsLetterCorrect(w, l) <=> Server!IsLetterCorrect(w, l)
                  /\ \A s : Ordered!UncoverLetters(s, w, l) = Server!UncoverLetters(s, w, l)
    <3>1. \A w, l : Ordered!PositionsOf(w, l) = Server!PositionsOf(w, l)
      BY DEF Ordered!PositionsOf, Server!PositionsOf
    <3>2. \A w, l : Ordered!CountLettersInWord(w, l) = Server!CountLettersInWord(w, l)
      BY <3>1 DEF Ordered!CountLettersInWord, Server!CountLettersInWord, Ordered!Cardinality,
         Server!Cardinality
    <3> QED BY <3>1, <3>2 DEF Ordered!IsLetterCorrect, Server!IsLetterCorrect,
              Ordered!UncoverLetters, Server!UncoverLetters
  <2>2. \A s, w, l : Ordered!LetterGuessed(s, w, l) = Server!LetterGuessed(s, w, l)
    BY <2>1 DEF Ordered!LetterGuessed, Server!LetterGuessed
  <2>3. \A s, w : Ordered!RecalculateScore(s, w) = Server!RecalculateScore(s, w)
    BY DEF Ordered!RecalculateScore, Server!RecalculateScore, Ordered!ScoreOf, Server!ScoreOf
  <2> QED BY <1>5, <2>1, <2>2, <2>3 DEF Ordered!PlayGuess, Server!PlayGuess
<1>7. \A c \in Client : \A l : Server!Guess(c, l) => Ordered!Guess(c, l)
  BY <1>5, <1>6, OneServer DEF Server!Guess, Ordered!Guess, NoRoom, Ordered!seatVars, Server!seatVars
<1>8. \A due : /\ Server!Tick(due) => Ordered!Tick(due)
               /\ Server!TickOverruns(due) => Ordered!TickOverruns(due)
  BY OneServer DEF Server!Tick, Ordered!Tick, Server!TickOverruns, Ordered!TickOverruns, RoomId,
     Ordered!clientVars, Server!clientVars, Server!NoStats, Ordered!NoStats
<1> QED BY <1>1, <1>2, <1>4, <1>7, <1>8

\* What Ordered takes for granted: a nickname is asked for once, a room by who has none,
\* a start while no round runs, and a letter comes from a player with a row.
LEMMA OrderedAsks ==
  ASSUME NEW c \in Client
  PROVE  /\ \A n : nickname[c] = NoNick /\ Server!Login(c, n) => Ordered!Login(c, n)
         /\ room[c] = NoRoom /\ Server!CreateRoom(c) => Ordered!CreateRoom(c)
         /\ \A r : room[c] = NoRoom =>
              /\ Server!JoinRoom(c, r) => Ordered!JoinRoom(c, r)
              /\ Server!RejoinRoom(c, r) => Ordered!RejoinRoom(c, r)
              /\ Server!RejoinThrows(c, r) => Ordered!RejoinThrows(c, r)
         /\ \A w : ~Runs(room[c]) /\ Server!StartGame(c, w) => Ordered!StartGame(c, w)
         /\ \A l : Plays(c, room[c]) /\ Server!GuessThrows(c, l) => Ordered!GuessThrows(c, l)
<1>1. \A n : nickname[c] = NoNick /\ Server!Login(c, n) => Ordered!Login(c, n)
  BY OneServer DEF Server!Login, Ordered!Login, Ordered!seatVars, Server!seatVars,
     Ordered!roundVars, Server!roundVars
<1>2. room[c] = NoRoom => (Server!MayAskForRoom(c) => Ordered!MayAskForRoom(c))
  BY OneServer DEF Server!MayAskForRoom, Ordered!MayAskForRoom
<1>3. room[c] = NoRoom /\ Server!CreateRoom(c) => Ordered!CreateRoom(c)
  BY <1>2 DEF Server!CreateRoom, Ordered!CreateRoom, Ordered!roundVars, Server!roundVars
<1>4. \A r : /\ Ordered!FormerSeats(c, r) = Server!FormerSeats(c, r)
             /\ Ordered!Min(Ordered!FormerSeats(c, r)) = Server!Min(Server!FormerSeats(c, r))
             /\ Ordered!FormerSelf(c, r) = Server!FormerSelf(c, r)
  BY DEF Ordered!FormerSeats, Server!FormerSeats, Ordered!FormerSelf, Server!FormerSelf,
         Ordered!Min, Server!Min
<1>5. \A r : /\ Ordered!Resumes(c, r) <=> Server!Resumes(c, r)
             /\ Ordered!StatsAfterRejoin(c, r) = Server!StatsAfterRejoin(c, r)
  BY <1>4, OneServer DEF Ordered!Resumes, Server!Resumes, Ordered!StatsAfterRejoin,
     Server!StatsAfterRejoin
<1>6. \A s, i : Ordered!RemoveAt(s, i) = Server!RemoveAt(s, i)
  BY DEF Ordered!RemoveAt, Server!RemoveAt
<1>7. \A r : Server!TakeSeat(c, r) => Ordered!TakeSeat(c, r)
  <2> SUFFICES ASSUME NEW r, Server!TakeSeat(c, r) PROVE Ordered!TakeSeat(c, r)
    OBVIOUS
  <2> DEFINE left == disconnectedClients[r]
  <2>1. (IF Ordered!FormerSeats(c, r) = {} THEN left
         ELSE Ordered!RemoveAt(left, Ordered!Min(Ordered!FormerSeats(c, r))))
        = IF Server!FormerSeats(c, r) = {} THEN left
          ELSE Server!RemoveAt(left, Server!Min(Server!FormerSeats(c, r)))
    BY <1>4, <1>6
  <2> QED BY <2>1 DEF Ordered!TakeSeat, Server!TakeSeat
<1>8. \A r : room[c] = NoRoom => (Server!MayJoin(c, r) => Ordered!MayJoin(c, r))
  BY <1>2, OneServer DEF Ordered!MayJoin, Server!MayJoin
<1>9. \A r : room[c] = NoRoom =>
        /\ Server!JoinRoom(c, r) => Ordered!JoinRoom(c, r)
        /\ Server!RejoinRoom(c, r) => Ordered!RejoinRoom(c, r)
        /\ Server!RejoinThrows(c, r) => Ordered!RejoinThrows(c, r)
  BY <1>5, <1>7, <1>8, OneServer DEF Ordered!JoinRoom, Server!JoinRoom, Ordered!RejoinRoom,
     Server!RejoinRoom, Ordered!RejoinThrows, Server!RejoinThrows, Ordered!roundVars, Server!roundVars
<1>10. \A w : ~Runs(room[c]) /\ Server!StartGame(c, w) => Ordered!StartGame(c, w)
  BY OneServer, RoundIs DEF Server!StartGame, Ordered!StartGame, NoRoom, Ordered!NewGame,
     Server!NewGame, Ordered!PutInGame, Server!PutInGame
<1>11. \A s, l : Ordered!GuessIgnored(s, l) <=> Server!GuessIgnored(s, l)
  BY DEF Ordered!GuessIgnored, Server!GuessIgnored
<1>12. \A l : Plays(c, room[c]) /\ Server!GuessThrows(c, l) => Ordered!GuessThrows(c, l)
  BY <1>11, OneServer, RoundIs DEF Server!GuessThrows, Ordered!GuessThrows, NoRoom
<1> QED BY <1>1, <1>3, <1>9, <1>10, <1>12

\* The server handles what it may, since the scenes ask for it in order.
LEMMA ServerOrdered ==
  ASSUME RInv, ServerNext
  PROVE  Ordered!Next \/ UNCHANGED server
<1>1. ASSUME NEW c \in Client, NEW type, Handles(c, type)
      PROVE  /\ Head(requests[c]) \in Request /\ Head(requests[c]).type = type
             /\ type = "LOGIN" => nickname[c] = NoNick
             /\ type \in RoomAsks => room[c] = NoRoom
             /\ type \in RoundAsks => room[c] \in RoomId
             /\ type = "START_GAME" => ~Runs(room[c])
             /\ type = "GUESS" => Plays(c, room[c])
  <2>1. /\ up /\ requests[c] \in Seq(Request) /\ requests[c] # <<>> /\ Head(requests[c]).type = type
        /\ Follow(requests[c], nickname[c], room[c]) /\ AskRight(c)
    BY <1>1, Handled DEF RInv, NInv
  <2>2. Head(requests[c]) \in Request
    BY <2>1
  <2>3. /\ type = "LOGIN" => nickname[c] = NoNick
        /\ type \in RoomAsks => room[c] = NoRoom
    BY <2>1, HeadAlone
  <2>4. type \in RoundAsks => room[c] \in RoomId
    BY <2>1, HeadPlays DEF RInv, NInv, LInv, SeatInv, SeatsTyped
  <2>5. \A types : type \in types => Asked(requests[c], types)
    <3>1. 1 \in 1..Len(requests[c]) /\ requests[c][1].type = type
      BY <2>1, TailShape
    <3> QED BY <3>1 DEF Asked
  <2>6. /\ type = "START_GAME" => ~Runs(room[c])
        /\ type = "GUESS" => Plays(c, room[c])
    BY <2>1, <2>4, <2>5 DEF AskRight, RoundAsks
  <2> QED BY <2>1, <2>2, <2>3, <2>4, <2>6
<1>2. ASSUME NEW c \in Client, Login(c) PROVE Ordered!Next \/ UNCHANGED server
  <2>1. Handles(c, "LOGIN")
    BY <1>2 DEF Login
  <2>2. Head(requests[c]).arg \in Player /\ nickname[c] = NoNick
    BY <1>1, <2>1, RequestFacts
  <2> QED BY <1>2, <2>2, OrderedAsks DEF Login, Ordered!Next
<1>3. ASSUME NEW c \in Client, CreateRoom(c) PROVE Ordered!Next
  <2>1. room[c] = NoRoom
    BY <1>1, <1>3 DEF CreateRoom, RoomAsks
  <2> QED BY <1>3, <2>1, OrderedAsks DEF CreateRoom, Ordered!Next
<1>4. ASSUME NEW c \in Client, JoinRoom(c) PROVE Ordered!Next \/ UNCHANGED server
  <2>1. Handles(c, "JOIN_ROOM")
    BY <1>4 DEF JoinRoom
  <2>2. room[c] = NoRoom /\ Head(requests[c]).arg \in Ordered!RoomId
    BY <1>1, <2>1, RequestFacts, OneServer DEF RoomAsks, RoomId
  <2> QED BY <1>4, <2>2, OrderedAsks DEF JoinRoom, Ordered!Next
<1>5. ASSUME NEW c \in Client, LeaveRoom(c) PROVE Ordered!Next \/ UNCHANGED server
  BY <1>5, OrderedSame DEF LeaveRoom, Ordered!Next
<1>6. ASSUME NEW c \in Client, StartGame(c) PROVE Ordered!Next \/ UNCHANGED server
  <2>1. ~Runs(room[c])
    BY <1>1, <1>6 DEF StartGame
  <2> QED BY <1>6, <2>1, OrderedAsks DEF StartGame, Ordered!Next
<1>7. ASSUME NEW c \in Client, Guess(c) PROVE Ordered!Next \/ UNCHANGED server
  <2>1. Handles(c, "GUESS")
    BY <1>7 DEF Guess
  <2>2. Plays(c, room[c]) /\ Head(requests[c]).arg \in Letter
    BY <1>1, <2>1, RequestFacts
  <2> QED BY <1>7, <2>2, OrderedAsks, OrderedSame DEF Guess, Ordered!Next
<1>8. ASSUME NEW c \in Client, Disconnect(c) PROVE Ordered!Next
  BY <1>8, OrderedSame DEF Disconnect, Ordered!Next
<1>9. ASSUME NEW due \in SUBSET Server!RoomId, SecondElapsed(due) PROVE Ordered!Next
  BY <1>9, OrderedSame, OneServer DEF SecondElapsed, Ordered!Next, RoomId
<1> QED BY <1>2, <1>3, <1>4, <1>5, <1>6, <1>7, <1>8, <1>9 DEF ServerNext

LEMMA ProgramOrdered ==
  ASSUME NEW p \in Player, ProgramNext(p)
  PROVE  Ordered!Next \/ UNCHANGED server
<1>1. ASSUME NEW c \in Client, Connected(p, c) PROVE Ordered!Next
  BY <1>1, OrderedSame DEF Connected, Ordered!Next
<1>2. CASE \/ ConnectFails(p) \/ ConnectionTimedOut(p) \/ LoseConnection(p)
           \/ ReadyRead(p) \/ LeaveGame(p) \/ CloseResultWindow(p) \/ RestartProgram(p)
  BY <1>2 DEF ConnectFails, ConnectionTimedOut, LoseConnection, ReadyRead, LeaveGame,
              CloseResultWindow, RestartProgram
<1>3. CASE ConnectButtonHit(p) \/ LeaveRoomButtonHit(p) \/ \E l \in Letter : LetterButtonHit(p, l)
  BY <1>3 DEF ConnectButtonHit, LeaveRoomButtonHit, LetterButtonHit
<1>4. CASE \/ LoginButtonHit(p) \/ CreateRoomButtonHit(p) \/ StartGameButtonHit(p)
           \/ \E r \in Server!RoomId : JoinRoomButtonHit(p, r)
  BY <1>4 DEF LoginButtonHit, CreateRoomButtonHit, StartGameButtonHit, JoinRoomButtonHit, Ask
<1> QED BY <1>1, <1>2, <1>3, <1>4 DEF ProgramNext

\* The scenes send requests in the order HangmanServer takes for granted with AnyOrder =
\* FALSE: nobody asks for a second seat, starts a round in a running one, or guesses
\* without a row, nor did a program before it was led astray (MainWindow.cpp:29-110,
\* Server.cpp:290-334).
THEOREM RequestsInOrderHolds == Spec => RequestsInOrder
<1>1. Init => Ordered!Init
  BY OrderedSame DEF Init
<1>2. RInv /\ [Next]_vars => [Ordered!Next]_server
  <2> SUFFICES ASSUME RInv, [Next]_vars PROVE [Ordered!Next]_server
    OBVIOUS
  <2>1. CASE UNCHANGED vars
    BY <2>1 DEF vars
  <2> QED BY <2>1, ServerOrdered, ProgramOrdered DEF Next
<1> QED BY <1>1, <1>2, RInvHolds, PTL DEF Spec, RequestsInOrder

-----------------------------------------------------------------------------

\* A step after which the server does not run was the end of the process, which leaves
\* clients and nicknames as they were.
LEMMA EndOfProcess ==
  ASSUME Server!Next, ~up'
  PROVE  UNCHANGED <<clients, nickname>>
<1>1. \A c : ~Server!Accept(c) /\ ~Server!CreateRoom(c) /\ \A n : ~Server!Login(c, n)
  BY DEF Server!Accept, Server!CreateRoom, Server!MayAskForRoom, Server!Login
<1>2. \A c : ~Server!LeaveRoom(c) /\ ~Server!Disconnect(c)
  BY DEF Server!LeaveRoom, Server!Disconnect, Server!Vacate
<1>3. \A c, r : ~Server!JoinRoom(c, r) /\ ~Server!RejoinRoom(c, r)
  BY DEF Server!JoinRoom, Server!RejoinRoom, Server!MayJoin, Server!MayAskForRoom
<1>4. \A c : (\A w : ~Server!StartGame(c, w)) /\ (\A l : ~Server!Guess(c, l))
  BY DEF Server!StartGame, Server!Guess
<1>5. \A due : ~Server!Tick(due)
  BY DEF Server!Tick
<1>6. Server!Crash
  <2>1. \/ \E c : Server!LeaveThrows(c) \/ \E l : Server!GuessThrows(c, l)
        \/ \E c, r : Server!RejoinThrows(c, r)
        \/ \E due : Server!TickOverruns(due)
    BY <1>1, <1>2, <1>3, <1>4, <1>5 DEF Server!Next
  <2> QED BY <2>1 DEF Server!LeaveThrows, Server!GuessThrows, Server!RejoinThrows,
                      Server!TickOverruns
<1> QED BY <1>6 DEF Server!Crash, Server!clientVars

\* What HangmanServer promises of seats when requests come in order holds of the
\* composition: a room lists exactly the connected clients that point to it, and no
\* nickname twice, whatever is clicked, lost or reconnected (Room.cpp:214-215,
\* 252-263, Server.cpp:234-288).
THEOREM SeatsMatchHolds == Spec => []Ordered!SeatsMatchRooms
<1>1. Init => UniqueNames
  BY DEF Init, Server!Init, UniqueNames
<1>2. RInv /\ UniqueNames /\ [Next]_vars => UniqueNames'
  <2> SUFFICES ASSUME RInv, UniqueNames, [Next]_vars PROVE UniqueNames'
    OBVIOUS
  <2>1. CASE up'
    BY <2>1, NextRInv DEF RInv, Rounds
  <2>2. CASE ~up'
    <3>1. Server!Next \/ UNCHANGED <<clients, nickname>>
      <4>1. CASE UNCHANGED vars
        BY <4>1 DEF vars, server
      <4>2. CASE Next
        BY <4>2, ServerStep, ProgramStep DEF Next, RInv, NInv, LInv, Server!vars, Server!clientVars
      <4> QED BY <4>1, <4>2
    <3>2. UNCHANGED <<clients, nickname>>
      BY <2>2, <3>1, EndOfProcess
    <3> QED BY <3>2 DEF UniqueNames
  <2> QED BY <2>1, <2>2
<1>3. RInv /\ UniqueNames => Ordered!SeatsMatchRooms
  <2> SUFFICES ASSUME RInv, UniqueNames PROVE Ordered!SeatsMatchRooms
    OBVIOUS
  <2>1. SeatInv
    BY DEF RInv, NInv, LInv
  <2>2. ASSUME NEW r \in rooms
        PROVE  /\ \A c \in Client : c \in Ordered!Members(r) <=> c \in clients /\ room[c] = r
               /\ \A i, j \in 1..Len(roomClients[r]) :
                    i # j => nickname[roomClients[r][i]] # nickname[roomClients[r][j]]
    <3>1. r \in RoomId /\ r # NoRoom /\ Ordered!Members(r) = Range(roomClients[r])
      BY <2>1, OneServer, MembersAre, RoomFacts DEF SeatInv, SeatsTyped
    <3>2. ASSUME NEW i \in 1..Len(roomClients[r]), NEW j \in 1..Len(roomClients[r]), i # j
          PROVE  nickname[roomClients[r][i]] # nickname[roomClients[r][j]]
      <4>1. PICK s : s = roomClients[r]
        OBVIOUS
      <4>2. s[i] \in Range(s) /\ s[j] \in Range(s) /\ s \in Seq(Client)
        BY <2>1, <3>1, <4>1 DEF SeatInv, SeatsTyped, Range
      <4>3. s[i] \in Client /\ s[j] \in Client /\ room[s[i]] = r /\ room[s[j]] = r
        BY <2>1, <3>1, <4>1, <4>2 DEF SeatInv, OneSeat
      <4>4. /\ s[i] \in clients /\ s[j] \in clients
            /\ nickname[s[i]] # NoNick
        BY <2>1, <3>1, <4>3 DEF SeatInv, OneSeat
      <4>5. s[i] # s[j]
        <5>1. NoneTwice(s)
          BY <2>1, <3>1, <4>1 DEF SeatInv, OneSeat
        <5>2. Self[s[i]] # Self[s[j]]
          BY <3>2, <4>1, <5>1 DEF NoneTwice, DistinctBy
        <5> QED BY <5>2
      <4> QED BY <4>1, <4>4, <4>5 DEF UniqueNames
    <3> QED BY <2>1, <3>1, <3>2 DEF SeatInv, OneSeat
  <2> QED BY <2>2 DEF Ordered!SeatsMatchRooms
<1> QED BY <1>1, <1>2, <1>3, RInvHolds, PTL DEF Spec
=============================================================================
