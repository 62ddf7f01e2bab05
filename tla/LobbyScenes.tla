----------------------------- MODULE LobbyScenes -----------------------------
(***************************************************************************)
(* The players' programs around the round, composed with the server: the   *)
(* connect, login, menu and lobby scenes, the connections MainWindow makes *)
(* between them and TcpClient, the requests that go to HangmanServer and   *)
(* the messages that come back.                                            *)
(*                                                                         *)
(* The server's part of an action is an action of HangmanServer, taken     *)
(* without its assumption on the order of requests: that the scenes ask in *)
(* that order is a property here.  A client's sending buffer is written    *)
(* whole, newest message first (see Outbox).  Messages that no scene but   *)
(* the game scene uses are left out, and so are the message boxes that     *)
(* lead nowhere.  Player p always logs in under the nickname p.            *)
(***************************************************************************)
EXTENDS Integers, SequencesExt

CONSTANTS
  Client, NoClient, NoNick, Duration, MaxRooms, MaxSeats, \* as in HangmanServer
  Letter, Blank, Hidden, Words, MaxErrors,                \* as in GameStats
  Player,      \* the players, and their nicknames
  MaxActs,     \* bound: clicks, but for those to log in, and failures
  MaxUnderWay  \* bound: messages to a program under way when one is added

ASSUME LobbyAssumption ==
  /\ NoClient \notin Client /\ NoNick \notin Player
  /\ MaxRooms \in Nat /\ MaxActs \in Nat /\ MaxUnderWay \in Nat

VARIABLES
  up, clients, nickname, room, inGame, rooms, roomCounter, roomClients, owner,
  disconnectedClients, game, word, elapsed, gameStats, \* as in HangmanServer
  requests,      \* what a program has sent and the server has not handled
  sendingBuffer, \* Client::sendingBuffer
  conn,          \* the connection a program has, or NoClient
  scene,         \* MainWindow::stack's current widget
  isRoomOwner, roomPlayers, \* GameState; the Start button depends on them
  resultBoxes,   \* open boxes of ROUND_ALL_FINISHED and ROUND_TIMEOUT
  waiting,       \* the player waits for the answer to a click
  canConnect,    \* the connect button is enabled
  timer,         \* TcpClient::timer is active
  connecting,    \* the socket tries to connect
  acts,          \* history: how many clicks and failures there were
  mixed,         \* history: clients whose last write with lists held different ones
  silent,        \* history: rooms whose owner was not told
  astray,        \* history: programs that took something for what it was not
  dismissed      \* history: programs in the game scene whose box only vanished

Server  == INSTANCE HangmanServer
             WITH Nick <- Player, StartPlayers <- 1, AnyOrder <- TRUE
Ordered == INSTANCE HangmanServer
             WITH Nick <- Player, StartPlayers <- 1, AnyOrder <- FALSE

server  == <<up, clients, nickname, room, inGame, rooms, roomCounter, roomClients, owner,
             disconnectedClients, game, word, elapsed, gameStats>>
network == <<requests, sendingBuffer, mixed>>
dialog  == <<canConnect, timer, connecting>>
lobby   == <<isRoomOwner, roomPlayers>>
program == <<conn, scene, lobby, resultBoxes, waiting, dialog, astray, dismissed>>
vars    == <<server, network, program, silent, acts>>

Held(c) == \E p \in Player : conn[p] = c

Msg(type) == [type |-> type, list |-> <<>>]

List(seats) ==
  [type |-> "ROOM_USERS_LIST", list |-> [i \in DOMAIN seats |-> nickname[seats[i]]]]

\* The client plays in the round of its room.
InRound(c) == Server!Running(room[c]) /\ c \in Server!Players(room[c])

Init ==
  /\ Server!Init
  /\ requests = [c \in Client |-> <<>>] /\ sendingBuffer = [c \in Client |-> <<>>]
  /\ mixed = {} /\ silent = {} /\ astray = {} /\ dismissed = {} /\ acts = 0
  /\ conn = [p \in Player |-> NoClient] /\ scene = [p \in Player |-> "connect"]
  /\ isRoomOwner = [p \in Player |-> FALSE] /\ roomPlayers = [p \in Player |-> <<>>]
  /\ resultBoxes = [p \in Player |-> 0] /\ waiting = [p \in Player |-> FALSE]
  /\ canConnect = [p \in Player |-> TRUE] /\ timer = [p \in Player |-> FALSE]
  /\ connecting = [p \in Player |-> FALSE]

-----------------------------------------------------------------------------
(***************************************************************************)
(* The connect scene and the connection.                                   *)
(***************************************************************************)

Counted == acts < MaxActs /\ acts' = acts + 1

\* A result box is modal: nothing else is clicked while one is open.
Shows(p, s) == scene[p] = s /\ resultBoxes[p] = 0

ConnectButtonHit(p) ==
  /\ Shows(p, "connect") /\ canConnect[p]
  /\ canConnect' = [canConnect EXCEPT ![p] = FALSE]
  /\ timer' = [timer EXCEPT ![p] = TRUE]
  /\ connecting' = [connecting EXCEPT ![p] = TRUE]
  /\ UNCHANGED <<server, network, conn, scene, lobby, resultBoxes, waiting,
                 astray, dismissed, silent, acts>>

\* The socket is connected and the server accepts.  Bound: a Client object
\* that had a nickname does not serve a second time.
Connected(p, c) ==
  /\ connecting[p] /\ conn[p] = NoClient
  /\ Server!Accept(c) /\ ~Held(c)
  /\ nickname[c] = NoNick
  /\ conn' = [conn EXCEPT ![p] = c]
  /\ connecting' = [connecting EXCEPT ![p] = FALSE]
  /\ timer' = [timer EXCEPT ![p] = FALSE]
  /\ scene' = [scene EXCEPT ![p] = "login"]
  /\ requests' = [requests EXCEPT ![c] = <<>>]
  /\ mixed' = mixed \ {c}
  /\ UNCHANGED <<sendingBuffer, acts, lobby, resultBoxes, waiting, canConnect,
                 astray, dismissed, silent>>

\* The attempt fails: nobody is told.
ConnectFails(p) ==
  /\ connecting[p] /\ Counted
  /\ connecting' = [connecting EXCEPT ![p] = FALSE]
  /\ UNCHANGED <<server, network, conn, scene, lobby, resultBoxes, waiting,
                 canConnect, timer, astray, dismissed, silent>>

\* Mutant: the box says so, but the button stays disabled.
TimesOutDisabled(p) ==
  /\ timer[p] /\ Counted
  /\ timer' = [timer EXCEPT ![p] = FALSE]
  /\ UNCHANGED <<server, network, conn, scene, lobby, resultBoxes, waiting,
                 canConnect, connecting, astray, dismissed, silent>>

\* The attempt is reported to have timed out, but not aborted.
ConnectionTimedOut(p) ==
  /\ timer[p] /\ Counted
  /\ timer' = [timer EXCEPT ![p] = FALSE]
  /\ canConnect' = [canConnect EXCEPT ![p] = TRUE]
  /\ UNCHANGED <<server, network, conn, scene, lobby, resultBoxes, waiting,
                 connecting, astray, dismissed, silent>>

\* The socket is gone: of what was sent, the server still reads a part.  The
\* old list, which the first write in the next room replaces, is forgotten here.
Hangs(p) ==
  LET c == conn[p]
  IN /\ conn' = [conn EXCEPT ![p] = NoClient]
     /\ IF c = NoClient THEN UNCHANGED network
        ELSE /\ \E k \in 0..Len(requests[c]) :
                  requests' = [requests EXCEPT ![c] = SubSeq(@, 1, k)]
             /\ sendingBuffer' = [sendingBuffer EXCEPT ![c] = <<>>]
             /\ UNCHANGED mixed
     /\ scene' = [scene EXCEPT ![p] = "connect"]
     /\ canConnect' = [canConnect EXCEPT ![p] = TRUE]
     /\ waiting' = [waiting EXCEPT ![p] = FALSE]
     /\ roomPlayers' = [roomPlayers EXCEPT ![p] = <<>>]
     /\ dismissed' = dismissed \ {p}

AstrayIf(p, cond) == astray' = IF cond THEN astray \cup {p} ELSE astray

LoseConnection(p) ==
  /\ conn[p] # NoClient /\ Counted
  /\ Hangs(p)
  /\ UNCHANGED <<server, isRoomOwner, resultBoxes, timer, connecting, astray, silent>>

\* The player ends a program that is astray, and starts it again.
RestartProgram(p) ==
  /\ p \in astray /\ Counted
  /\ Hangs(p)
  /\ isRoomOwner' = [isRoomOwner EXCEPT ![p] = FALSE]
  /\ resultBoxes' = [resultBoxes EXCEPT ![p] = 0]
  /\ timer' = [timer EXCEPT ![p] = FALSE]
  /\ connecting' = [connecting EXCEPT ![p] = FALSE]
  /\ astray' = astray \ {p}
  /\ UNCHANGED <<server, silent>>

-----------------------------------------------------------------------------
(***************************************************************************)
(* The buttons.  A player who waits for an answer does not click again; to *)
(* leave takes no answer.                                                  *)
(***************************************************************************)

Send(p, type, arg) ==
  IF conn[p] = NoClient THEN UNCHANGED network
  ELSE /\ requests' = [requests EXCEPT ![conn[p]] = Append(@, [type |-> type, arg |-> arg])]
       /\ UNCHANGED <<sendingBuffer, mixed>>

Ask(p, type, arg) ==
  /\ conn[p] # NoClient /\ ~waiting[p]
  /\ Send(p, type, arg)
  /\ waiting' = [waiting EXCEPT ![p] = TRUE]
  /\ UNCHANGED <<server, conn, scene, roomPlayers, resultBoxes, dialog,
                 astray, dismissed, silent>>

LoginButtonHit(p) ==
  /\ Shows(p, "login")
  /\ Ask(p, "LOGIN", p)
  /\ UNCHANGED <<isRoomOwner, acts>>

\* Bound: rooms to be created are counted as created.
CreateRoomButtonHit(p) ==
  /\ Shows(p, "menu") /\ Counted
  /\ LET asked == {c \in Client : \E q \in Range(requests[c]) : q.type = "CREATE_ROOM"}
     IN roomCounter + Cardinality(asked) <= MaxRooms
  /\ Ask(p, "CREATE_ROOM", 0)
  /\ UNCHANGED isRoomOwner

\* Mutant: the program stays the owner it was in another room.
JoinsAsOwner(p, r) ==
  /\ Shows(p, "menu") /\ Counted
  /\ Ask(p, "JOIN_ROOM", r)
  /\ UNCHANGED isRoomOwner

JoinRoomButtonHit(p, r) ==
  /\ Shows(p, "menu") /\ Counted
  /\ Ask(p, "JOIN_ROOM", r)
  /\ isRoomOwner' = [isRoomOwner EXCEPT ![p] = FALSE]

\* The Start button of the lobby scene.
StartVisible(p) == isRoomOwner[p]
StartEnabled(p) == Len(roomPlayers[p]) >= 2

StartGameButtonHit(p) ==
  /\ Shows(p, "lobby") /\ StartVisible(p) /\ StartEnabled(p) /\ Counted
  /\ Ask(p, "START_GAME", 0)
  /\ UNCHANGED isRoomOwner

\* Mutant: leaveRoomRequested is not connected to the TcpClient.
LeavesUnheard(p) ==
  /\ Shows(p, "lobby") /\ Counted
  /\ isRoomOwner' = [isRoomOwner EXCEPT ![p] = FALSE]
  /\ roomPlayers' = [roomPlayers EXCEPT ![p] = <<>>]
  /\ scene' = [scene EXCEPT ![p] = "menu"]
  /\ UNCHANGED <<server, network, conn, resultBoxes, waiting, dialog, astray,
                 dismissed, silent>>

LeaveRoomButtonHit(p) ==
  /\ Shows(p, "lobby") /\ Counted
  /\ Send(p, "LEAVE_ROOM", 0)
  /\ isRoomOwner' = [isRoomOwner EXCEPT ![p] = FALSE]
  /\ roomPlayers' = [roomPlayers EXCEPT ![p] = <<>>]
  /\ scene' = [scene EXCEPT ![p] = "menu"]
  /\ UNCHANGED <<server, conn, resultBoxes, waiting, dialog, astray, dismissed, silent>>

\* A letter; which ones the game scene offers is the subject of PlayerScreen.
LetterButtonHit(p, l) ==
  /\ Shows(p, "game") /\ Counted
  /\ conn[p] # NoClient /\ requests[conn[p]] = <<>>
  /\ Send(p, "GUESS", l)
  /\ UNCHANGED <<server, program, silent>>

-----------------------------------------------------------------------------
(***************************************************************************)
(* The server's handlers and what they tell.  Each adds its messages in    *)
(* the given order; addMessageToBuffer puts every one in front.            *)
(***************************************************************************)

Nothing == [c \in Client |-> <<>>]

To(c, msgs) == [Nothing EXCEPT ![c] = msgs]

\* broadcastMessage for each of the messages.
ToMembers(seats, msgs) ==
  [c \in Client |-> IF c \in Range(seats) THEN msgs ELSE <<>>]

Queue(told) ==
  /\ \A c \in Client : Held(c) /\ told[c] # <<>> =>
                           Len(sendingBuffer[c]) < MaxUnderWay
  /\ sendingBuffer' = [c \in Client |-> IF Held(c)
                                         THEN Reverse(told[c]) \o sendingBuffer[c]
                                         ELSE <<>>]

Handles(c, type) ==
  /\ up /\ c \in clients
  /\ requests[c] # <<>> /\ Head(requests[c]).type = type
  /\ requests' = [requests EXCEPT ![c] = Tail(@)]
  /\ UNCHANGED <<mixed, acts, program>>

Login(c) ==
  LET p == Head(requests[c]).arg
  IN /\ Handles(c, "LOGIN")
     /\ \/ Server!Login(c, p) /\ Queue(To(c, <<Msg("LOGIN_OK")>>))
        \/ /\ \E d \in clients : nickname[d] = p
           /\ Queue(To(c, <<Msg("LOGIN_FAILED")>>))
           /\ UNCHANGED server
     /\ UNCHANGED silent

CreateRoom(c) ==
  /\ Handles(c, "CREATE_ROOM")
  /\ Server!CreateRoom(c)
  /\ Queue(To(c, <<Msg("ROOM_CREATED"), List(<<c>>)>>))
  /\ UNCHANGED silent

\* Mutant: Room::join resumes the game without a word to the player.
ResumesSilently(c, r, resumed) ==
  LET members == Append(roomClients[r], c)
      list == List(members)
      lists == <<list, list>> \o IF resumed THEN <<list>> ELSE <<>>
  IN [d \in Client |-> IF d = c THEN <<list, Msg("ROOM_OK"), list>>
                       ELSE ToMembers(members, lists)[d]]

\* Room::join, then ROOM_OK and the list once more from Server::joinRoom.
JoinMessages(c, r, resumed) ==
  LET members == Append(roomClients[r], c)
      list == List(members)
      lists == <<list, list>> \o IF resumed THEN <<list>> ELSE <<>>
  IN [d \in Client |->
        IF d # c THEN ToMembers(members, lists)[d]
        ELSE <<list>> \o (IF resumed THEN <<Msg("GAME_STARTED"), list>> ELSE <<>>)
               \o <<Msg("ROOM_OK"), list>>]

\* A room left empty keeps its owner: who comes back to it is not told.
JoinRoom(c) ==
  LET r == Head(requests[c]).arg
  IN /\ Handles(c, "JOIN_ROOM")
     /\ \/ Server!JoinRoom(c, r) /\ Queue(JoinMessages(c, r, FALSE))
        \/ Server!RejoinRoom(c, r) /\ Queue(JoinMessages(c, r, TRUE))
        \/ Server!RejoinThrows(c, r) /\ Queue(Nothing)
        \/ r \notin rooms /\ Queue(To(c, <<Msg("ROOM_FAILED")>>)) /\ UNCHANGED server
     /\ silent' = IF r \in rooms /\ owner[r] = c THEN silent \cup {r} ELSE silent

\* Mutant: the list is sent before the client is erased from it.
ListsLeaver(c) == List(roomClients[room[c]])

ListAfterLeave(c) == List(Server!Remaining(c))

(***************************************************************************)
(* Server::leaveRoom: the list for those who stay, and word to the next    *)
(* owner unless that player is in a game.                                  *)
(***************************************************************************)
Leave(c) ==
  LET r == room[c]
      rest == Server!Remaining(c)
      next == Head(rest)
      passes == owner[r] = c /\ rest # <<>>
  IN IF ~Server!Seated(c)
     THEN Queue(Nothing) /\ UNCHANGED silent
     ELSE /\ Queue([d \in Client |->
                      ToMembers(rest, <<ListAfterLeave(c)>>)[d]
                        \o IF passes /\ d = next /\ ~inGame[next]
                           THEN <<Msg("ROOM_OWNERSHIP_TRANSFER")>> ELSE <<>>])
          /\ silent' = IF ~passes THEN silent
                       ELSE IF inGame[next] THEN silent \cup {r} ELSE silent \ {r}

LeaveRoom(c) ==
  /\ Handles(c, "LEAVE_ROOM")
  /\ \/ Server!LeaveRoom(c) /\ Leave(c)
     \/ Server!LeaveThrows(c) /\ Queue(Nothing) /\ UNCHANGED silent
     \/ room[c] = Server!NoRoom /\ Leave(c) /\ UNCHANGED server

\* The end of the connection, after everything sent before it.
Disconnect(c) ==
  /\ ~Held(c) /\ requests[c] = <<>>
  /\ \/ Server!Disconnect(c) /\ Leave(c)
     \/ Server!LeaveThrows(c) /\ Queue(Nothing) /\ UNCHANGED silent
  /\ UNCHANGED <<requests, mixed, acts, program>>

StartGame(c) ==
  /\ Handles(c, "START_GAME")
  /\ IF room[c] = Server!NoRoom
     THEN Queue(Nothing) /\ UNCHANGED server
     ELSE /\ \E w \in Words : Server!StartGame(c, w)
          /\ Queue(ToMembers(roomClients[room[c]], <<Msg("GAME_STARTED")>>))
  /\ UNCHANGED silent

Guess(c) ==
  LET l == Head(requests[c]).arg
      r == room[c]
  IN /\ Handles(c, "GUESS")
     /\ IF r = Server!NoRoom
        THEN UNCHANGED server
        ELSE \/ Server!Guess(c, l) \/ Server!GuessThrows(c, l)
             \/ /\ c \in Server!Players(r) /\ Server!GuessIgnored(gameStats[r][c], l)
                /\ UNCHANGED server
     /\ Queue(Nothing)
     /\ UNCHANGED silent

\* A room may find the time over and everybody finished in one update.
Results(r) ==
  (IF Server!TimedOut(r) THEN <<Msg("RESULT")>> ELSE <<>>)
    \o (IF Server!AllClientsFinished(r) THEN <<Msg("RESULT")>> ELSE <<>>)

SecondElapsed(due) ==
  /\ \/ /\ Server!Tick(due)
        /\ Queue([c \in Client |-> IF room[c] \in due /\ c \in Server!Members(room[c])
                                   THEN Results(room[c]) ELSE <<>>])
     \/ Server!TickOverruns(due) /\ Queue(Nothing)
  /\ UNCHANGED <<requests, mixed, acts, program, silent>>

-----------------------------------------------------------------------------
(***************************************************************************)
(* TcpClient::onReadyRead handles all messages that have arrived, in the   *)
(* order of the bytes; MainWindow hands each to a scene.  "s" is what they *)
(* change of a program.  A program goes astray when it takes               *)
(*   - a transfer or a start while it shows the menu, or a transfer in one *)
(*     read with the ROOM_OK that ends the menu: it has left the room this *)
(*     is about, or the ROOM_OK for that room comes later;                 *)
(*   - a start when a result box is open, which will show the lobby, or    *)
(*     when that round is over already;                                    *)
(*   - a result when the room is in its next round already.                *)
(***************************************************************************)

UpdateLobbyPlayerList(s, list) == [s EXCEPT !.roomPlayers = list]

LobbyOwnershipReceived(p, s) ==
  [s EXCEPT !.isRoomOwner = TRUE, !.astray = @ \/ scene[p] = "menu"]

Handle(p, s, m) ==
  LET answered == [s EXCEPT !.waiting = FALSE]
      after ==
        [LOGIN_OK |-> [answered EXCEPT !.scene = "menu"],
         LOGIN_FAILED |-> answered,
         ROOM_FAILED |-> answered,
         ROOM_CREATED |-> [answered EXCEPT !.scene = "lobby", !.isRoomOwner = TRUE],
         ROOM_OK |-> [answered EXCEPT !.scene = "lobby"],
         ROOM_USERS_LIST |-> UpdateLobbyPlayerList(s, m.list),
         ROOM_OWNERSHIP_TRANSFER |-> LobbyOwnershipReceived(p, s),
         GAME_STARTED |->
           [answered EXCEPT !.scene = "game",
                            !.astray = @ \/ s.scene = "menu" \/ s.resultBoxes > 0
                                         \/ ~InRound(conn[p])],
         RESULT |-> [s EXCEPT !.resultBoxes = @ + 1, !.astray = @ \/ InRound(conn[p])]]
  IN after[m.type]

BeforeReading(p) ==
  [scene |-> scene[p], isRoomOwner |-> isRoomOwner[p], roomPlayers |-> roomPlayers[p],
   resultBoxes |-> resultBoxes[p], waiting |-> waiting[p], astray |-> FALSE]

AfterReading(p, msgs) ==
  LET after[i \in 0..Len(msgs)] ==
        IF i = 0 THEN BeforeReading(p) ELSE Handle(p, after[i - 1], msgs[i])
  IN after[Len(msgs)]

(***************************************************************************)
(* Server::sendBufferData and the reading of what it wrote.  A write that  *)
(* arrives later is the same to everybody: nothing the server does in      *)
(* between depends on it.  The oldest list of a write is handled last.     *)
(***************************************************************************)
ReadyRead(p) ==
  LET c == conn[p]
      s == AfterReading(p, sendingBuffer[c])
      lists == {m.list : m \in {x \in Range(sendingBuffer[c]) : x.type = "ROOM_USERS_LIST"}}
  IN /\ c # NoClient /\ sendingBuffer[c] # <<>>
     /\ sendingBuffer' = [sendingBuffer EXCEPT ![c] = <<>>]
     /\ mixed' = IF Cardinality(lists) > 1 THEN mixed \cup {c}
                 ELSE IF lists # {} THEN mixed \ {c} ELSE mixed
     /\ scene' = [scene EXCEPT ![p] = s.scene]
     /\ isRoomOwner' = [isRoomOwner EXCEPT ![p] = s.isRoomOwner]
     /\ roomPlayers' = [roomPlayers EXCEPT ![p] = s.roomPlayers]
     /\ resultBoxes' = [resultBoxes EXCEPT ![p] = s.resultBoxes]
     /\ waiting' = [waiting EXCEPT ![p] = s.waiting]
     /\ AstrayIf(p, s.astray)
     /\ dismissed' = IF \E m \in Range(sendingBuffer[c]) : m.type = "GAME_STARTED"
                     THEN dismissed \ {p} ELSE dismissed
     /\ UNCHANGED <<server, requests, acts, silent, conn, dialog>>

\* Mutant: the timer of a box that was closed is not stopped.
ClosesAgain(p) ==
  /\ scene[p] = "game" \/ resultBoxes[p] > 0
  /\ resultBoxes' = [resultBoxes EXCEPT ![p] = @ - 1]
  /\ scene' = [scene EXCEPT ![p] = "lobby"]
  /\ UNCHANGED <<server, network, conn, lobby, waiting, dialog, astray, dismissed,
                 silent, acts>>

\* The box is closed with its button, or by its timer, and shows the lobby
\* whatever the scene.  Astray: the connection it was about is gone.
LeaveGame(p) ==
  /\ resultBoxes[p] > 0
  /\ resultBoxes' = [resultBoxes EXCEPT ![p] = @ - 1]
  /\ scene' = [scene EXCEPT ![p] = "lobby"]
  /\ AstrayIf(p, scene[p] \notin {"lobby", "game"})
  /\ dismissed' = dismissed \ {p}
  /\ UNCHANGED <<server, network, conn, lobby, waiting, dialog, silent, acts>>

\* Closed with the X of its window the box goes, its timer with it: neither
\* buttonClicked nor timedOut is emitted, so the scene stays.
CloseResultWindow(p) ==
  /\ resultBoxes[p] > 0
  /\ resultBoxes' = [resultBoxes EXCEPT ![p] = @ - 1]
  /\ dismissed' = IF scene[p] = "game" THEN dismissed \cup {p} ELSE dismissed
  /\ UNCHANGED <<server, network, conn, scene, lobby, waiting, dialog, astray,
                 silent, acts>>

-----------------------------------------------------------------------------

\* Of a program that has gone astray the player ends the use.
ProgramNext(p) ==
  \/ ReadyRead(p) \/ LoseConnection(p) \/ RestartProgram(p)
  \/ \E c \in Client : Connected(p, c)
  \/ ConnectFails(p) \/ ConnectionTimedOut(p)
  \/ LeaveGame(p) \/ CloseResultWindow(p)
  \/ /\ p \notin astray
     /\ \/ ConnectButtonHit(p) \/ LoginButtonHit(p)
        \/ CreateRoomButtonHit(p) \/ StartGameButtonHit(p) \/ LeaveRoomButtonHit(p)
        \/ \E r \in Server!RoomId : JoinRoomButtonHit(p, r)
        \/ \E l \in Letter : LetterButtonHit(p, l)

ServerNext ==
  \/ \E c \in Client :
       \/ Login(c) \/ CreateRoom(c) \/ JoinRoom(c) \/ LeaveRoom(c)
       \/ StartGame(c) \/ Guess(c) \/ Disconnect(c)
  \/ \E due \in SUBSET Server!RoomId : SecondElapsed(due)

Next == ServerNext \/ \E p \in Player : ProgramNext(p)

Spec == Init /\ [][Next]_vars

-----------------------------------------------------------------------------

\* Every variable of the programs and the network has its type (GameState.h,
\* TcpClient.h, MainWindow.h).
TypeOK ==
  LET Messages == [type : {"LOGIN_OK", "LOGIN_FAILED", "ROOM_CREATED", "ROOM_OK",
                           "ROOM_FAILED", "ROOM_USERS_LIST", "GAME_STARTED", "RESULT",
                           "ROOM_OWNERSHIP_TRANSFER"},
                   list : Seq(Player)]
      Flags == [Player -> BOOLEAN]
  IN /\ sendingBuffer \in [Client -> Seq(Messages)]
     /\ conn \in [Player -> Client \cup {NoClient}]
     /\ scene \in [Player -> {"connect", "login", "menu", "lobby", "game"}]
     /\ {isRoomOwner, waiting, canConnect, timer, connecting} \subseteq Flags
     /\ roomPlayers \in [Player -> Seq(Player)]
     /\ resultBoxes \in [Player -> Nat]
     /\ mixed \subseteq Client /\ silent \subseteq Server!RoomId
     /\ astray \subseteq Player /\ dismissed \subseteq Player

\* The scenes send requests in the order HangmanServer takes for granted with
\* AnyOrder = FALSE: nobody asks for a second seat, starts a round in a running
\* one, or guesses without a row, nor did a program before it was led astray
\* (MainWindow.cpp:29-110, Server.cpp:290-334).
RequestsInOrder ==
  /\ Ordered!Init
  /\ [][Ordered!Next]_server

\* Nothing is under way between a program and the server.
Settled(p) ==
  LET c == conn[p]
  IN up /\ (c # NoClient => requests[c] = <<>> /\ sendingBuffer[c] = <<>>)

InRoom(p) == Settled(p) /\ p \notin astray /\ conn[p] # NoClient /\ Server!Seated(conn[p])

\* Once nothing is under way the program shows the scene of the player's state
\* on the server; without a connection, one from which it can get a new one
\* (MainWindow.cpp:30-61, 71-78, 109, ConnectWidget.cpp:20-46, Server.cpp:232-288).
ScreenMatchesServer ==
  \A p \in Player :
    LET c == conn[p]
    IN Settled(p) /\ p \notin astray =>
         \/ c = NoClient /\ scene[p] = "connect" /\ (canConnect[p] \/ timer[p])
         \/ c # NoClient /\ nickname[c] = NoNick /\ scene[p] = "login"
         \/ c # NoClient /\ nickname[c] # NoNick /\ ~Server!Seated(c) /\ scene[p] = "menu"
         \/ c # NoClient /\ nickname[c] # NoNick /\ Server!Seated(c)
              /\ scene[p] \in {"lobby", "game"}

\* Start is offered to the owner of the room and to nobody else, except that an
\* owner in a game or back in an empty room was not told
\* (MainWindow.cpp:56, 74, MenuWidget.cpp:41, LobbyWidget.cpp:33-41, Server.cpp:277-287).
StartIsOffered ==
  \A p \in Player : InRoom(p) =>
    LET r == room[conn[p]]
    IN /\ StartVisible(p) => owner[r] = conn[p]
       /\ owner[r] = conn[p] => StartVisible(p) \/ r \in silent

\* A player of a running round sees it, whoever was left behind in the game scene
\* before included, and when the round is over nobody stays in the game scene
\* without a box to leave it, except who closed the box with the X of its window
\* (MainWindow.cpp:83-110, GameWidget.cpp:250-282, Room.cpp:234-246, 314, 334-343).
RoundIsShown ==
  \A p \in Player : InRoom(p) =>
    /\ InRound(conn[p]) => scene[p] = "game"
    /\ scene[p] = "game" =>
         InRound(conn[p]) \/ resultBoxes[p] > 0 \/ p \in dismissed

\* The lobby lists who is in the room, unless one write held different lists
\* (Room.cpp:104-160, 216, 240, 274-282, Server.cpp:262, LobbyWidget.cpp:46-58).
ListIsCurrent ==
  \A p \in Player : InRoom(p) /\ conn[p] \notin mixed =>
    roomPlayers[p] = List(roomClients[room[conn[p]]]).list
=============================================================================
