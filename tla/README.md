# Hangman online in TLA+

TLA+ models, TLC configurations and TLAPS proofs for the networked hangman game in
`src/` (a C++ server with a poll loop, a Qt client). Paths below are relative to the
repository; `README.md:n` means the repository's own README.

## 1. The system

| Part | State | Operations | Interacts with |
|---|---|---|---|
| Board and scoring (`server/GameStats.*`) | errors, score, letters tried and hit, shown word, per player and round | `letterGuessed`, `markLetterAsUsed`, `recalculateScore` | called by `Server::checkGuess` |
| Rooms and rounds (`server/Room.*`, `server/Game.*`) | members, owner, those who left, the game, a board per player | constructor, `join`, `leave`, `startGame`, `updateGame` | `Server`'s handlers; raw pointer from `Client::room` |
| Connections and dispatch (`server/Server.*`) | clients, poll set, rooms | `run`, `acceptNewClient`, `handleClient`, `handleMessage`, `secondElapsed` | sockets, the timer thread's pipe |
| Heartbeat (`server/Client.cpp`) | ping counter, one timeout counter per ping, `receivedPong`, `isConnected` | `tick`, `pongReceived` | the client's answer to PING |
| Delivery to the player (`Client::addMessageToBuffer`, `Server::sendBufferData`, `common/Serializer`, `common/Parser`, `TcpClient::onReadyRead`) | `sendingBuffer`, socket, parser state and buffer of the program | insert in front, write, read, parse, reconnect | every handler; the scenes |
| Requests from the player (`Client::receivingBuffer`, `Server::parser`) | one parser for all connections, one `Message` per client that is also used to send | read, parse, dispatch | every client |
| Game scene (`client/GameWidget`, `client/MainWindow`, `client/NonBlockingMessagebox`) | current scene, shown board, used letters, enabled buttons, open boxes, a 100 ms timer | one slot per message type, click, box closed | messages in, GUESS out |
| Connect, login, menu and lobby scenes (`client/*Widget`, `client/MainWindow`, `client/TcpClient`) | scene, ownership, player list, connect button and timer | buttons, boxes, timeout, reconnect | requests out, replies in |
| Word list, `main`, `.ui` files, CMake | | start-up only | |

The server is one thread around `poll`, and a second thread that writes a byte into
a pipe each second. A handler therefore runs to its end before the next one starts.
What is hard here is not shared memory but:

- **Order.** `addMessageToBuffer` puts each message *in front of* the buffer, so a client
  handles the messages of one write newest first. Some code depends on that (rejoin),
  some is broken by it (the end of a player's round, lists of players).
- **Framing.** A message that is cut between two reads loses its type in the program
  (a new zeroed `Message` for each read) and may lose it in the server (the client's
  `Message` is overwritten by what is sent to that client); one parser serves all connections.
- **Identity.** A player is a nickname to the room and a `Client` object to the server;
  a reconnect makes a new object that must take over the board of the old one.
- **Stale state.** `Client::room` is a raw pointer; `inGame` flags are kept apart from the
  boards they summarise; the client's screen is a copy of the board; boxes and timers
  of the client outlive the scene they belong to; the program's parser outlives the connection.
- **Exceptions.** `unordered_map::at` and reads beyond a vector end a process.
- **Time.** Late answers to pings, a round's clock, the 100 ms of a rejoin, a connect timeout
  that does not abort the attempt, boxes that close themselves after five seconds.

What makes each part correct:

- board: the fields kept incrementally agree with the letters tried, always;
- rooms: members, room pointers and nicknames agree; who lost the connection can be found again;
  progress is never lost; a round ends, and not before every member is done;
- dispatch: the events of one connection are never taken for another's; each request is
  handled once, in order, as it was sent;
- heartbeat: only late peers are given up, silence and a return are shown in time;
- delivery: every message arrives whole and once, in an order the scenes can rely on;
- game scene: it shows the board the server has, and the buttons come back;
- other scenes: each shows the state the player has on the server, and asks only for what
  the server expects next.

`PROJECT.json` lists the parts with their status and, under `hazards`, where each of these
things can go wrong and which property watches it.

## 2. The modules

| Module | Models |
|---|---|
| `GameStats` | one player's board: pure operators, no state |
| `HangmanServer` (EXTENDS `GameStats`) | clients, rooms, rounds and every request handler |
| `Inbox` | requests on their way: the poll loop, the poll set, reads, the server's parser |
| `Heartbeat` | PING and PONG of one connection |
| `MessageDelivery` | abstract: what a handler may count on when it sends a message |
| `Outbox` | sending buffer, socket and the program's parser; implements `MessageDelivery` |
| `LobbyScenes` (INSTANCE `HangmanServer`) | the players' programs around the round, composed with the server |
| `PlayerScreen` (EXTENDS `GameStats`) | one player's board, messages and game scene together |
| `MCHangmanServer`, `MCInbox`, `MCLobbyScenes`, `MCPlayerScreen` | words, requests and symmetry for TLC |
| `GameStatsProofs`, `HangmanServerProofs`, `HeartbeatProofs`, `InboxProofs`, `OutboxProofs`, `LobbyScenesProofs`, `PlayerScreenProofs`, `SequenceLemmas` | theorems |

**GameStats.** A board is a record with the fields of the class. `usedLetters` and
`guessedLetters` are sets, because nothing depends on their order. `ScoreOf` uses integer
division where the code truncates a `float`; the two agree for words of up to 30 letters
and up to 10 errors. `PlayGuess` is the part of `checkGuess` that works on the board.

**HangmanServer.** One action per handler, each with everything the handler changes. A
request that is refused (nickname taken, no such room, ignored letter) changes nothing here
and is a stuttering step. `join` is two actions, `JoinRoom` and `RejoinRoom`, because the code
branches after the seat is taken. Whatever would throw or read beyond a vector is an action
of its own that ends the process (`RejoinThrows`, `LeaveThrows`, `GuessThrows`,
`TickOverruns`); both programs are built with AddressSanitizer, so such reads end the
process too. `Tick(due)` is `secondElapsed`; `due` are the rooms whose last update is at least
a second old. `AnyOrder` chooses between requests as the scenes order them and room and
game requests in any order. A LOGIN is accepted by the model only from a client no room
refers to, in both cases: the login scene is not reachable later.
`elapsed` counts a room's updates, not wall-clock time, so a skipped tick moves the
model's end of the round by one.

**Inbox.** A request is the parts `Parser::parse` takes: type, length and payload. `cursor` is
the index of the loop in `run`, so that accepting and erasing happen between the steps of
the loop, as in the code. `ReadClient` is `handleClient` with the parser's loop: it reads any number of
parts, because a read may end anywhere. Parts carry their size in bytes, since the parser
counts bytes: it takes whatever is there when there is enough of it, and then the model stops
(`garbled`). `message` holds the type stored in `Client::message`; `AddMessages` overwrites it
as `addMessageToBuffer` does. `interfered` is history: something came between two parts of one request.
What the handlers do with a request is `HangmanServer`'s subject.

**Heartbeat.** TCP does not lose messages, so the network only delays: `unanswered` holds the
ages of the pings that wait for their PONG, `silence` the ticks since the last PONG.

**Outbox.** A message is two pieces, its type and its body (length and payload). A write or a
read may end between any two pieces. `AddMessageToBuffer` inserts in front of the buffer, also
between the pieces of a message whose first was written already. `ReadEnds` is the end of an
`onReadyRead` inside a message: the next one has a new `Message`, and the type is 0. `Reconnect` ends the
connection and makes a new one of the same program, which keeps its parser, or of a program
started again. Two variables are history: `hurt`, a message of this connection was cut in one of these
three ways, and `overtaken`, which message was put in front of which.

**LobbyScenes.** The variables of the server are those of `HangmanServer`, and the server's part
of an action *is* an action of `HangmanServer`, instantiated with `AnyOrder = TRUE`; around it
are the requests on their way, the sending buffers, and what `MainWindow`, `TcpClient` and the
scenes keep of each program. `ReadyRead` handles all messages of a write in the order of the bytes; a
write and the read of it are one step, because nothing the server does in between depends on
it. What the model leaves out: players wait for an answer before they click again (to
leave needs none); the input checks for PIN and nickname; boxes that lead nowhere; requests of
clients without a nickname, which no scene sends. A lost connection loses what is under way, apart
from the requests the server has received. `roomPlayers` is cleared when the connection is lost: the
program does that only with the first list of the next room, which arrives with the
scene. A program that took a message for what it was not (a result box or a
start that crosses a leave, a transfer written together with the ROOM_OK of the next room, a result that
crosses a start) is *astray*; what such a program shows is
not specified, its player can restart it, and the properties hold for the others. A result box is closed with
its button or by its timer, which shows the lobby (`LeaveGame`), or with the X of its window, which emits nothing
and leaves the scene as it is (`CloseResultWindow`). Four more variables are history: `dismissed` (programs left in
the game scene by the X), `mixed` (clients whose last write with lists held two different ones), `silent` (rooms
whose owner was not told), `acts` (clicks and failures).

**PlayerScreen.** The server side is one player's row, the client side the state of
`GameWidget`, between them the messages in order. Other players are the environment. The
client handles each message in a step of its own, although one `onReadyRead` may handle
several: this allows more clicks in between than the program does, and TCP may cut the stream
between messages. `Calm = TRUE` states that messages are faster than people: nobody starts a
round while this player has messages under way or a box open, nobody clicks on a screen that is
about to be replaced, and the 100 ms of a rejoin are enough for GAME_STARTED to be handled.
Rounds that start without the player are `HangmanServer`'s subject. A lost connection is noticed
by both ends at once. `CloseResult` and `CloseResultWindow` are the two ways a result box goes, as in `LobbyScenes`.

Models of one subject do not repeat each other: `HangmanServer` has no messages, `LobbyScenes`
and `PlayerScreen` take from `Outbox` that the buffer reverses what it holds, and assume that no
message is cut; what a cut does is `Inbox` and `Outbox`.

## 3. What TLC checks

| Run | Properties | Distinct states | Result |
|---|---|---|---|
| `any_order` | `TypeOK`, `NoDanglingRoom`, `BoardsConsistent`, `LostPlayersAreFound`, `ProgressIsNeverLost` | 283,393 | holds |
| `two_rooms` | `NoDanglingRoom`, `SeatsMatchRooms`, `NobodyFinishesEarly`, `RoundEnds` | 202,774 | holds |
| `inbox` | `TypeOK`, `PollSetMatchesClients`, `OnlyInterferenceMisreads`, `RequestsAreHandled` | 65,001 | holds |
| `heartbeat` | six, see below | 154 | holds |
| `outbox` | `TypeOK`, `NewestInBufferFirst`, `ImplementsDelivery` | 209,597 | holds |
| `lobby` | `TypeOK`, `ScreenMatchesServer`, `StartIsOffered`, `RoundIsShown`, `ListIsCurrent`, `RequestsInOrder` | 430,698 | holds |
| `player_screen` | `TypeOK`, `ScreenShowsBoard`, `PlayerCanGuess`, `GuessesAreAnswerable`, `WaitingEnds` | 9,417 | holds |
| `late_joiner` | `EveryMemberHasARow` | | violated |
| `finished_rejoins` | `RoundEndsWhenAllAreDone` | | violated |
| `message_cut` | `PayloadsFit` | | violated |
| `player_finished` | `FinishedBoardIsFinal` | | violated |
| `player_rejoins` | `ProgramSurvives` | | violated |

What the passing runs show:

- `two_rooms`: as long as a client waits for the answer to its room request, seats and room
  pointers agree, no nickname sits twice, a member counts as finished in a round only with a
  finished board, through any mixture of lost connections, rejoins, late guesses and rooms that are
  erased and replaced; and every round ends, or the process does.
- `any_order`: without that assumption room pointers stay valid and boards consistent; who loses
  the connection in a running round is the first namesake `Room::join` finds, and stays so whoever else comes and
  goes, until the round is over or the player is back (`LostPlayersAreFound`, which says nothing of who
  leaves on purpose); no step but a new start, or the end of an abandoned room, takes progress away. (`SeatsMatchRooms` is really
  false here: a client may hold two seats, and gives up one of them.)
- `inbox`: entry *i* of the poll set is client *i*, although both lists change inside the loop over
  them; the client that is passed over after an erasure is handled in the next turn. A request is
  handled once, in order, with its type and payload, exactly as long as nothing comes between its
  parts; what comes between them is recorded in `interfered`, so that the property names the exact condition.
- `heartbeat`: counters are those of the youngest pings (`CountersFollowPings`), no two expire
  together (`CountersIncrease`), a peer is given up only if a ping waited long enough
  (`OnlyLatePeersAreLost`), silence is shown after an interval and a timeout
  (`SilenceIsShown`), and one answer is enough to be shown again (`AnswerIsShown`).
- `outbox`: `Outbox` implements `MessageDelivery`, its liveness included: a message arrives whole and
  once, unless one of its connection is cut (`broken` is mapped to `hurt`, `pending` to the messages
  whose body is in the buffer or on the wire). Of two messages the older is handled first, unless the newer
  was added before the older was written.
- `lobby`: the scene, the Start button, the game scene and the list of players agree with the server once
  nothing is under way, through reconnects, late connects, transfers of ownership, rounds that end
  and boxes that are closed late, by button, timer or X. Nobody is in the game scene when no round is played and no
  box is open, except who closed the box with the X; the next start reaches that player too. `RequestsInOrder` discharges what `HangmanServer` assumes with
  `AnyOrder = FALSE`: the composition implements `HangmanServer` with requests in order. Requests that a
  program sent before it was led astray are in order too; afterwards its player only restarts it.
- `player_screen`: once everything is handled the screen shows the server's board, also after a
  rejoin; each guess under way will be answered; disabled buttons come back.

What the violated runs show (quotes in `PROJECT.json`, `findings`):

- `late_joiner`: who joins during a round has no row of statistics; the next guess in that room
  throws and ends the server.
- `finished_rejoins`: a finished player who reconnects counts as playing, so the round lasts until
  its time is over.
- `message_cut`: a message that two reads of the program share is handled as a LOGIN_OK.
- `player_finished`: the answer to the last letter is handled after the end of the player's round and
  enables the buttons again; the next click costs the finished player points.
- `player_rejoins`: who reconnects before trying a letter receives a message with an empty last
  field, which the client reads out of bounds.

What the conditions of the passing properties take away is real: `Calm`, `interfered`, `mixed`, `silent`, `astray` and
`dismissed` each stand for a way the program goes wrong, and `hazards` in `PROJECT.json` names each, with a note
on what the properties leave out. With a condition removed TLC finds the property violated:

- `Calm = FALSE`: `ScreenShowsBoard` (two starts in one write: the screen keeps the word of the first),
  `GuessesAreAnswerable` (a guess that crosses a start is offered again and then ignored), `PlayerCanGuess` and
  `WaitingEnds` (a result handled after the next start disables the buttons for good).
- `interfered`: a PING is composed in the `Message` that holds the type of a LEAVE_ROOM half read, and the request
  is handled as something no handler knows.
- `mixed`: who has not read the first list of the new room when another player joins goes on seeing nobody else.
- `silent`: an owner leaves and comes back before the empty room is erased, a second player joins, and neither has Start;
  or the owner leaves after a round that timed out, and the heir, whose `inGame` is still set, is not told.
- `astray`: a result box is closed, or closes itself, when the owner has already started the next round, and the
  player sits in the lobby of a running round.
- `dismissed`: a result box is closed with the X, and the player stays in the game scene of a round that is over; while the owner
  sits there nobody can start.

Three other differences from the repository's README have no run. Who leaves a running round on purpose can
come back, although `README.md:97-98` says not: `Vacate` puts both kinds of leavers into `disconnectedClients`
(Room.cpp:258), so after `LeaveRoom`, `Disconnect`, `Accept` and `Login` under the same nickname `RejoinRoom` is enabled
(without a new connection it is `RejoinThrows`). A LEAVE_ROOM meets a running round when it crosses GAME_STARTED, or comes
from a program led astray into the lobby. `LostPlayersAreFound` therefore speaks of lost connections only. The other two need no model: the client does not reconnect by
itself (`README.md:100`), and a player whose connection has ended is not on any list
(`README.md:107`; the lists are made of `Room::clients`, Room.cpp:146-156).

**Bounds.** `MaxRooms`, `MaxSeats` (entries of a room's two lists), `MaxUnanswered`, `MaxInFlight`,
`MaxRequests`, `MaxActs` and `MaxUnderWay` cap what would grow for ever and appear only in guards.
Three connections and two nicknames are the least with which a player is away, a namesake is
tried and a third observes; with three nicknames in `late_joiner`. `two_rooms` does with two connections, as
`any_order` has three, and two lists of two entries: its subject is what a change of rooms leaves behind.
Four entries of the two lists in `any_order` let one nickname leave, come back and leave again. Words
repeat a letter and need one or two guesses, there is a letter outside each word, and `MaxErrors` is 1 or 2,
so both ways to finish occur. `Duration` of 2 or 3 updates leaves room for a guess, a loss and a rejoin
before the end. `StartPlayers = 1` in the passing runs: the server does not check the lobby's minimum of
two, and a round with one player is part of the model. Six unanswered pings are twice the timeout, so
counters expire while older answers are still due. Two connections and three requests in `inbox` let one
request be begun, another connection come between, and a third follow; the payload of one byte is the size at
which a type and a payload can be mistaken for each other. Four messages in `outbox` let two be in a write and
two be added around it. In `lobby` six clicks or failures (those to log in are free) are enough for a player to
create a room, the other to join, a start, a loss, a rejoin and a leave; three connections serve two players,
so that one may be open on the server's side only; a nickname's `Client` object is not used again, which
loses nothing, as the code makes a new object each time. `MaxUnderWay = 3` lets the messages of one room wait
in the buffer until those of the next are put in front of them. Renaming clients, nicknames and players is a symmetry; runs
with a liveness property do without.

**Deadlock** is off where the system may stop: after the end of the process in `HangmanServer` and
`LobbyScenes`, and in `Inbox`, which stops when the parser has taken bytes for what they are not. `Outbox` can
always make a new connection, and is checked.

**Fairness.** `HangmanServer!FairSpec`: weak fairness of each running room's update, because the
timer thread writes a byte every second, `run` polls the pipe, and a room passes a byte over only
when its last update is younger than a second. `Inbox`: of `Loop`, the only thing the server's
thread does. `Outbox`: of `SendBufferData` and `Parse`, because a non-empty buffer makes `run` poll
for POLLOUT and Qt reports readable bytes. `PlayerScreen`: of the server handling what arrives, of
writes, of the client handling messages and of its timer. No player is ever obliged to do anything.

## 4. What is proved

TLAPS proves the following for all values of the constants allowed by the named
assumptions (`WordsAssumption`, `LetterAssumption`, `MaxErrorsAssumption`, `ServerAssumption`,
`InboxAssumption`, `OutboxAssumption`, `LobbyAssumption`, `HeartbeatAssumption`,
`PlayerScreenAssumption`), which TLC evaluates in the runs.

- `GameStatsProofs!PlayGuessSound`: a guess keeps a board typed and consistent. Hits and misses are
  separate lemmas; they rest on cardinalities: the positions of a new letter are disjoint
  from those solved before.
- `HangmanServerProofs`: `TypeCorrect`, `NoDanglingRoomHolds`, `BoardsConsistentHolds`, for
  `Spec` with either value of `AnyOrder`. The inductive invariant `IInv` adds to the two properties
  and `TypeOK` that rooms have ids below `roomCounter` (`IdsHandedOut`: else a new room could
  take over the seats of a live one) and that the boards of a room were made for its word
  (`BoardsSound`: consistency alone says nothing of the type of a row, and a board without its
  word cannot be continued). There is one lemma per handler, and effect lemmas
  (`TakeSeatEffect`, `VacateEffect`) for what the handlers share.
- `HangmanServerProofs`, about players: `SeatsMatchRoomsHolds`, `NobodyFinishesEarlyHolds`,
  `LostPlayersAreFoundHolds`, `ProgressIsNeverLostHolds`. On top of `IInv` the invariant `PInv` says what
  ties a player's nickname to seats and rows: connected clients have different nicknames
  (`UniqueNicknames`), so do the leavers of a room (`LeaversDiffer`), the players of a running round are
  members or leavers of its room (`PlayersRemembered`), with one row per nickname (`OneRowPerPlayer`), and with
  requests in order a seat belongs to the client that points to the room (`SeatsTaken`). The heart of it is
  that `join` takes exactly the namesake off the leavers, so that a later `leave` under that name adds one
  who is not there; without `LeaversDiffer` the first namesake found could be another than the one with the board.
  `LostPlayersAreFound` speaks of lost connections only, as the README does; the invariant behind it (`AwayAreFound`)
  holds of all who are away, because the server does not tell the two kinds of leavers apart.
  `ProgressIsNeverLost` is an action property and is proved by cases of the step: a guess lets a
  board grow, a rejoin hands it on unchanged, and whatever else touches rows is a new start or an erased room.
- `HeartbeatProofs`: `TypeCorrect` and the five other properties of the run. `IInv` adds that
  pings are answered in order (`AgesDecrease`), that the next expiry comes before the silence
  exceeds an interval and a timeout (`SilenceBounded`), and that a PONG leaves the following
  counter at least two ticks (`FreshAfterPong`). The action properties follow from `IInv` and one
  unfolded `Tick`.
- `OutboxProofs`: `TypeCorrect`, `DeliversWholeAndOnce` (every step is a step of `MessageDelivery` or
  none, the safety part of `ImplementsDelivery`) and `NewestInBufferFirstHolds`. The invariant `OInv` says that as
  long as nothing was cut types and bodies alternate on the way, beginning with what the parser
  expects (`Framed`): it is why the parser finds each body behind its type. `InsertFramed` is the step that
  matters, a message put in front of the buffer comes between two others. For the order,
  `OrderInv` follows each pair of messages from the buffer to the program (`Ahead`).
- `InboxProofs`: `PollSetMatchesClientsHolds` (the two lists of `Server` stay in step through arrivals
  and erasures inside the loop), `TypeCorrect` and `OnlyInterferenceMisreadsHolds`. The last one rests on
  `StreamsSound`: as long as nothing interfered, what is left of a connection's bytes is what follows the
  place the parser has reached in the requests of that program (`Carries`), the requests before that place were
  handled as sent, and the type of the one the parser is inside is in `Client::message`. A *place* is a
  part of the n-th request. `ReadStream` is the heart: each part the parser takes brings it from a place to the next
  one (`MatchingPart`), for any number of parts in one read. The parser's loop is a recursive function, so this is an
  induction over its arguments; `SequenceLemmas!UpTo` gives it for a set in place of a predicate.
- `PlayerScreenProofs`: `TypeCorrect` for every player; `ScreenShowsBoardHolds`, `PlayerCanGuessHolds` and
  `GuessesAreAnswerableHolds` under `Calm`, the hypothesis the run has too: the runs with `Calm = FALSE` refute
  what the documents say of hasty players. Types need `BoardSound` (the board was made for the word).
  `SInv` says what is between the server and the screen: a round that runs has sent no result
  (`RoundOpen`), one guess or one answer is under way (`OneGuess`), a screen that is coming carries the board as it is
  (`NextScreen`), the game scene comes after ROOM_OK (`GameShown`: messages overtake each other in the
  sending buffer, and this says which never do), and what is shown differs from the board by exactly the answer
  under way (`ShownRight`). None of these is inductive without the others: an answer may only be
  applied to a screen no new screen overtakes.
- `LobbyScenesProofs!ImplementsServer`: `Spec => Server!Spec`, with the invariant that each request under way
  has the argument its type calls for. By it the theorems about `HangmanServer` that do not need
  `AnyOrder = FALSE` (no dangling pointer, consistent boards, lost players found, progress kept) are theorems
  about the composition.
- `LobbyScenesProofs`: `TypeCorrect` and `ScreenMatchesServerHolds`, by the invariant `LInv`. Between a click and
  its answer the scene and the server disagree, so the property is not inductive: `ScenesFit` says for each scene
  which disagreements there may be, given the requests and the messages under way (`AtLogin`, `AtMenu`,
  `AtRoom`: a menu whose client still has a seat has its LEAVE_ROOM or the ROOM_OK under way). `RequestsFollow` is
  the order of the requests not handled yet, without which the answer to one could meet the scene of another; the
  server keeps the order only while it runs (a handler that throws has taken its request and answers nothing), hence
  `up =>`. `SeatInv` says that a room lists exactly the clients that point to it, each once: the handlers tell *members*,
  `ScenesFit` speaks of clients. `HangmanServer` has this only with requests in order; here it follows from the scenes.
  `ReadyRead` handles a whole write, so the lemma about it is an induction over the messages of the buffer.
- `LobbyScenesProofs`, about what a program knows of its room: `ListIsCurrentHolds` and `StartIsOfferedHolds`, by the
  invariant `NInv` on top of `LInv`. What the program shows lags behind the room, so the invariant speaks of what will be
  shown when everything under way has been read. For a client that keeps its seat (`Stays`: no LEAVE_ROOM asked),
  the *newest* list in the sending buffer names who is in the room, and with none there the list shown does, unless
  the last write held several (`ListKnown`; `mixed`, because the program ends up with any of those of one write). The owner
  of the room holds it to be his or has ROOM_CREATED or a transfer under way, or was not told (`OwnerKnown`, `silent`); a
  transfer that finds the menu leads the program astray. One conjunct looks unrelated: while a JOIN_ROOM waits the
  program is no owner, by MenuWidget.cpp:41, without which a player would keep Start from the last room. Every
  handler is followed by what those who stay hear (`JoinRange`, `LeaveRange`, `VacatedNews`), `LeaveRoom` with the
  heir `BecomesOwner` names. With a wrong step in place of the code the proofs fail where that step is followed: the
  list with the leaver in it (`ListsLeaver`) at `LeaveRange` and `VacatedNews`, an heir in a game who is not noted in
  `silent` at `VacatedNews`, `isRoomOwner` kept when joining (`JoinsAsOwner`) at `ProgramNews`.
- `LobbyScenesProofs`, about rounds and requests: `RoundIsShownHolds` and `RequestsInOrderHolds`, by the invariant `RInv`
  on top of `NInv`. The two lean on each other: a guess is in order only if its sender has a row, and
  a row lasts only while starts are in order. `Rounds` is the server's part: while a round runs the
  owner of the room plays in it (`OwnerPlays`: Start is the owner's button, and who inherits a room in a round must
  not be able to start over it), a player of the round is a member or a leaver of the room (`PlayersFound`), and
  no leaver has the name of another or of a member (`LeaversApart`), so that a rejoin takes over the row of the
  player it names and of nobody else. `AskRight` is about requests under way: START_GAME comes once, from the
  owner of a room whose round does not run, GUESS from who has a row. It speaks of every client, those of
  programs astray too, because no step of the server takes the right away before it handles the request.
  `RoundFits` is what is under way to a program: who plays in a running round is in the game scene with no
  box open or has GAME_STARTED under way, and who is in the game scene has a row, and the round runs or its
  result is shown, under way, or was dismissed with the X. `OneServer` says that the instances of `HangmanServer` with requests in any order and in order
  differ in their guards only; `ServerOrdered` then lets each step of the one be a step of the other, given
  `AskRight`. Hence the composition implements `HangmanServer` with `AnyOrder = FALSE` as well. Of what that promises,
  `SeatsMatchHolds` proves the seats (`SeatsMatchRooms`) for the composition itself, from `SeatInv` and the names in `Rounds`;
  for `NobodyFinishesEarly` the reader has to combine `RequestsInOrderHolds` with the theorem of
  `HangmanServerProofs` for the constants `ServerAssumption` allows, because tlapm cannot cite a theorem through an INSTANCE.
- `SequenceLemmas`: what `RemoveAt`, `RemoveFirst`, `Append`, `Min`, `Reverse` and concatenation return, and the
  induction over positions of a list, cited by the above.

Only model-checked: all liveness (`RoundEnds`, `RequestsAreHandled`, `WaitingEnds`, the fairness in
`ImplementsDelivery`), which is out of the prover's reach.

## 5. What is not modelled

- Reads and writes that fail, and SIGPIPE (Server.cpp:407-429): the models' connections end in order.
- The word list and process start: file input and operating system calls without state of the game.
- Texts, layout, images and the clock shown on the screen.
- Several game scenes at once against one room: `HangmanServer` has all players' boards, `PlayerScreen`
  one player's screen, and `LobbyScenes` all scenes but not what the game scene shows.

`PROJECT.json` gives the reason for each part, and for the hazards no property covers.

## 6. Plan

Done: 1 `GameStats`, 2 `HangmanServer`, 3 `Heartbeat`, 4 `Outbox` and `MessageDelivery`, 5 `PlayerScreen`,
6 `Inbox`, 7 `LobbyScenes`; proofs for 1 to 7. Left:

8. `HangmanSystem`: several `PlayerScreen`s over one room of `HangmanServer`, and `PlayerScreen`'s
   server side shown to be implemented by `HangmanServer`.
