---------------------------- MODULE HangmanServer ---------------------------
(***************************************************************************)
(* The state the server keeps about its players and rooms, and every       *)
(* handler that changes it: Server.cpp, Room.cpp, Game.cpp and the         *)
(* GameStats records of module GameStats.                                  *)
(*                                                                         *)
(* Server::run is a single poll loop, so one handler runs to its end       *)
(* before the next begins: an action below is one whole handler.  What is  *)
(* nondeterministic is which request, end of file or timer byte comes next.*)
(* The failure replies (LOGIN_FAILED, ROOM_FAILED, an ignored guess, a     *)
(* request from a client without a room) change nothing and are stutters.  *)
(* The messages sent to the clients are not in this module.                *)
(*                                                                         *)
(* An exception nobody catches (unordered_map::at) and an out-of-bounds    *)
(* read in the AddressSanitizer build end the process: Crash.              *)
(***************************************************************************)
EXTENDS GameStats, SequencesExt

CONSTANTS
  Client,       \* Client objects; one is reused only after its last shared_ptr
  Nick,         \* nicknames the players choose from
  NoClient,     \* the null shared_ptr
  NoNick,       \* the nickname before LOGIN
  Duration,     \* Game::duration, in timer ticks
  StartPlayers, \* how many members a room has, at least, when START_GAME comes
  AnyOrder,     \* TRUE: requests come in any order; FALSE: as the scenes order them
  MaxRooms,     \* bound: rooms created in one behaviour
  MaxSeats      \* bound: entries of a room's two client lists together

ASSUME ServerAssumption ==
  /\ NoClient \notin Client
  /\ NoNick \notin Nick
  /\ Duration \in Nat \ {0}
  /\ StartPlayers \in Nat \ {0}
  /\ AnyOrder \in BOOLEAN
  /\ MaxRooms \in Nat /\ MaxSeats \in Nat

RoomId == 1..MaxRooms
NoRoom == 0

\* No game yet, Game::inProgress, and a game that was stopped but not replaced.
GameState == {"none", "inProgress", "stopped"}

VARIABLES
  up,                  \* FALSE once the process has died
  clients,             \* Server::clients
  nickname,            \* Client::nickname
  room,                \* Client::room
  inGame,              \* Client::inGame
  rooms,               \* Server::rooms, as the set of their ids
  roomCounter,         \* Room::roomCounter
  roomClients,         \* Room::clients
  owner,               \* Room::owner
  disconnectedClients, \* Room::disconnectedClients
  game,                \* Room::game and Game::inProgress
  word,                \* Game::word
  elapsed,             \* timer ticks counted since Game::startTime
  gameStats            \* Room::gameStats; its keys are the DOMAIN

clientVars == <<nickname, room, inGame>>
seatVars   == <<roomClients, owner, disconnectedClients>>
roundVars  == <<game, word, elapsed, gameStats>>
vars == <<up, clients, clientVars, rooms, roomCounter, seatVars, roundVars>>

-----------------------------------------------------------------------------

Members(r) == Range(roomClients[r])
Gone(r)    == Range(disconnectedClients[r])
Players(r) == DOMAIN gameStats[r]
Running(r) == r \in rooms /\ game[r] = "inProgress"

\* Somebody still holds a shared_ptr to this Client object.
Referenced(c) ==
  \E r \in rooms : c \in Members(r) \cup Gone(r) \cup Players(r) \cup {owner[r]}

SeatFree(r) == Len(roomClients[r]) + Len(disconnectedClients[r]) < MaxSeats

NoStats == [c \in {} |-> NewStats(<<>>)]

Init ==
  /\ up = TRUE
  /\ clients = {}
  /\ nickname = [c \in Client |-> NoNick]
  /\ room = [c \in Client |-> NoRoom]
  /\ inGame = [c \in Client |-> FALSE]
  /\ rooms = {}
  /\ roomCounter = 1
  /\ roomClients = [r \in RoomId |-> <<>>]
  /\ owner = [r \in RoomId |-> NoClient]
  /\ disconnectedClients = [r \in RoomId |-> <<>>]
  /\ game = [r \in RoomId |-> "none"]
  /\ word = [r \in RoomId |-> <<>>]
  /\ elapsed = [r \in RoomId |-> 0]
  /\ gameStats = [r \in RoomId |-> NoStats]

Crash ==
  /\ up' = FALSE
  /\ UNCHANGED <<clients, clientVars, rooms, roomCounter, seatVars, roundVars>>

-----------------------------------------------------------------------------
(***************************************************************************)
(* Connections and nicknames                                               *)
(***************************************************************************)

Accept(c) ==
  /\ up
  /\ c \notin clients /\ ~Referenced(c)
  /\ clients' = clients \cup {c}
  /\ nickname' = [nickname EXCEPT ![c] = NoNick]
  /\ room' = [room EXCEPT ![c] = NoRoom]
  /\ inGame' = [inGame EXCEPT ![c] = FALSE]
  /\ UNCHANGED <<up, rooms, roomCounter, seatVars, roundVars>>

\* The login scene cannot be reached again once a room was entered.
Login(c, n) ==
  /\ up
  /\ c \in clients /\ ~Referenced(c)
  /\ AnyOrder \/ nickname[c] = NoNick
  /\ \A d \in clients : nickname[d] # n
  /\ nickname' = [nickname EXCEPT ![c] = n]
  /\ UNCHANGED <<up, clients, room, inGame, rooms, roomCounter, seatVars, roundVars>>

-----------------------------------------------------------------------------
(***************************************************************************)
(* Taking a seat.  Neither handler looks at Client::room first, so with    *)
(* AnyOrder a client may hold several seats; the menu scene sends one      *)
(* request, unless its button is clicked again before the answer arrives.  *)
(***************************************************************************)

MayAskForRoom(c) ==
  /\ up
  /\ c \in clients /\ nickname[c] # NoNick
  /\ AnyOrder \/ room[c] = NoRoom

CreateRoom(c) ==
  LET r == roomCounter
  IN /\ MayAskForRoom(c)
     /\ r <= MaxRooms
     /\ roomCounter' = r + 1
     /\ rooms' = rooms \cup {r}
     /\ roomClients' = [roomClients EXCEPT ![r] = <<c>>]
     /\ owner' = [owner EXCEPT ![r] = c]
     /\ room' = [room EXCEPT ![c] = r]
     /\ UNCHANGED <<up, clients, nickname, inGame, disconnectedClients, roundVars>>

\* Where Room::join finds the seat this nickname left.
FormerSeats(c, r) ==
  {i \in 1..Len(disconnectedClients[r]) : nickname[disconnectedClients[r][i]] = nickname[c]}

FormerSelf(c, r) == disconnectedClients[r][Min(FormerSeats(c, r))]

Resumes(c, r) ==
  /\ FormerSeats(c, r) # {}
  /\ FormerSelf(c, r) \in Players(r)
  /\ game[r] = "inProgress"

MayJoin(c, r) == MayAskForRoom(c) /\ r \in rooms /\ SeatFree(r)

\* Mutant: the first seat left is forgotten, not the one this nickname left.
ForgetsFirst(c, r) ==
  /\ roomClients' = [roomClients EXCEPT ![r] = Append(@, c)]
  /\ room' = [room EXCEPT ![c] = r]
  /\ disconnectedClients' =
       [disconnectedClients EXCEPT ![r] =
          IF FormerSeats(c, r) = {} THEN @ ELSE RemoveAt(@, 1)]

TakeSeat(c, r) ==
  /\ roomClients' = [roomClients EXCEPT ![r] = Append(@, c)]
  /\ room' = [room EXCEPT ![c] = r]
  /\ disconnectedClients' =
       [disconnectedClients EXCEPT ![r] =
          IF FormerSeats(c, r) = {} THEN @ ELSE RemoveAt(@, Min(FormerSeats(c, r)))]

JoinRoom(c, r) ==
  /\ MayJoin(c, r) /\ ~Resumes(c, r)
  /\ TakeSeat(c, r)
  /\ UNCHANGED <<up, clients, nickname, inGame, rooms, roomCounter, owner, roundVars>>

\* Mutant: the player who comes back starts with an empty board.
FreshBoardAfterRejoin(c, r) ==
  [d \in (Players(r) \cup {c}) \ {FormerSelf(c, r)} |->
     IF d = c THEN NewStats(word[r]) ELSE gameStats[r][d]]

(***************************************************************************)
(* gameStats[client] = gameStats[former]; gameStats.erase(former).  When   *)
(* the two are one object, the entry that was just kept is erased.         *)
(***************************************************************************)
StatsAfterRejoin(c, r) ==
  [d \in (Players(r) \cup {c}) \ {FormerSelf(c, r)} |->
     IF d = c THEN gameStats[r][FormerSelf(c, r)] ELSE gameStats[r][d]]

\* broadcastPlayersGameStats reads gameStats.at(member) for every member.
HaveRows(members, stats) == members \subseteq DOMAIN stats

RejoinRoom(c, r) ==
  /\ MayJoin(c, r) /\ Resumes(c, r)
  /\ HaveRows(Members(r) \cup {c}, StatsAfterRejoin(c, r))
  /\ TakeSeat(c, r)
  /\ inGame' = [inGame EXCEPT ![c] = TRUE]
  /\ gameStats' = [gameStats EXCEPT ![r] = StatsAfterRejoin(c, r)]
  /\ UNCHANGED <<up, clients, nickname, rooms, roomCounter, owner, game, word, elapsed>>

RejoinThrows(c, r) ==
  /\ MayJoin(c, r) /\ Resumes(c, r)
  /\ ~HaveRows(Members(r) \cup {c}, StatsAfterRejoin(c, r))
  /\ Crash

-----------------------------------------------------------------------------
(***************************************************************************)
(* Giving up a seat: LEAVE_ROOM, or the end of the connection.  The list   *)
(* disconnectedClients takes both kinds of leavers.                        *)
(***************************************************************************)

Seated(c) == room[c] # NoRoom /\ c \in Members(room[c])

\* Mutant: Room::leave erases the first client instead of the one found.
FirstClientErased(c) == Tail(roomClients[room[c]])

Remaining(c) == RemoveFirst(roomClients[room[c]], c)

LeaveBroadcastThrows(c) ==
  LET r == room[c]
  IN Running(r) /\ ~HaveRows(Range(Remaining(c)), gameStats[r])

\* Mutant: Room::leave keeps client->room.
KeepsRoomPointer(c) ==
  LET r == room[c]
      rest == Remaining(c)
  IN /\ roomClients' = [roomClients EXCEPT ![r] = rest]
     /\ disconnectedClients' = [disconnectedClients EXCEPT ![r] = Append(@, c)]
     /\ owner' = IF owner[r] = c /\ rest # <<>>
                 THEN [owner EXCEPT ![r] = Head(rest)] ELSE owner
     /\ UNCHANGED <<up, clientVars, rooms, roomCounter, roundVars>>

Vacate(c) ==
  LET r == room[c]
      rest == Remaining(c)
  IN /\ roomClients' = [roomClients EXCEPT ![r] = rest]
     /\ disconnectedClients' = [disconnectedClients EXCEPT ![r] = Append(@, c)]
     /\ room' = [room EXCEPT ![c] = NoRoom]
     /\ owner' = IF owner[r] = c /\ rest # <<>>
                 THEN [owner EXCEPT ![r] = Head(rest)] ELSE owner
     /\ UNCHANGED <<up, nickname, inGame, rooms, roomCounter, roundVars>>

LeaveRoom(c) ==
  /\ up
  /\ c \in clients /\ Seated(c)
  /\ ~LeaveBroadcastThrows(c)
  /\ Vacate(c)
  /\ UNCHANGED clients

\* read() returned 0: the client object leaves Server::clients as well.
Disconnect(c) ==
  /\ up
  /\ c \in clients
  /\ clients' = clients \ {c}
  /\ IF Seated(c)
     THEN ~LeaveBroadcastThrows(c) /\ Vacate(c)
     ELSE UNCHANGED <<up, clientVars, rooms, roomCounter, seatVars, roundVars>>

LeaveThrows(c) ==
  /\ up
  /\ c \in clients /\ Seated(c)
  /\ LeaveBroadcastThrows(c)
  /\ Crash

-----------------------------------------------------------------------------
(***************************************************************************)
(* The round.  The server starts one for any member of a room, however     *)
(* many members it has and whether or not a game is in progress.           *)
(***************************************************************************)

\* Mutant: only the owner's flag is set when the round starts.
PutsOwnerInGame(r) == [inGame EXCEPT ![owner[r]] = TRUE]

\* Game's constructor and Game::start.
NewGame(r, w) ==
  /\ game' = [game EXCEPT ![r] = "inProgress"]
  /\ word' = [word EXCEPT ![r] = w]
  /\ elapsed' = [elapsed EXCEPT ![r] = 0]

PutInGame(r) == [d \in Client |-> d \in Members(r) \/ inGame[d]]

StartGame(c, w) ==
  LET r == room[c]
  IN /\ up
     /\ c \in clients /\ r # NoRoom
     /\ Len(roomClients[r]) >= StartPlayers
     /\ AnyOrder \/ ~Running(r)
     /\ disconnectedClients' = [disconnectedClients EXCEPT ![r] = <<>>]
     /\ NewGame(r, w)
     /\ gameStats' = [gameStats EXCEPT ![r] = [d \in Members(r) |-> NewStats(w)]]
     /\ inGame' = PutInGame(r)
     /\ UNCHANGED <<up, clients, nickname, room, rooms, roomCounter, roomClients, owner>>

(***************************************************************************)
(* Server::checkGuess.  It asks neither whether the game is in progress    *)
(* nor whether the word is already full.                                   *)
(***************************************************************************)
Guess(c, l) ==
  LET r == room[c]
      board == PlayGuess(gameStats[r][c], word[r], l)
  IN /\ up
     /\ c \in clients /\ r # NoRoom
     /\ c \in Players(r) /\ ~GuessIgnored(gameStats[r][c], l)
     /\ HaveRows(Members(r), gameStats[r])
     /\ gameStats' = [gameStats EXCEPT ![r][c] = board]
     /\ inGame' = [inGame EXCEPT ![c] = @ /\ ~RoundFinished(board)]
     /\ UNCHANGED <<up, clients, nickname, room, rooms, roomCounter, seatVars,
                    game, word, elapsed>>

GuessThrows(c, l) ==
  LET r == room[c]
  IN /\ up
     /\ c \in clients /\ r # NoRoom
     /\ \/ AnyOrder /\ c \notin Players(r)
        \/ /\ c \in Players(r) /\ ~GuessIgnored(gameStats[r][c], l)
           /\ ~HaveRows(Members(r), gameStats[r])
     /\ Crash

-----------------------------------------------------------------------------
(***************************************************************************)
(* Server::secondElapsed.  "due" are the running rooms whose lastUpdate is *)
(* at least a second old; the others skip this tick.                       *)
(***************************************************************************)

\* Mutant: each update sets startTime to the present.
SecondForgotten(r) == elapsed[r]

SecondCounted(r) == elapsed[r] + 1

TimedOut(r) == SecondCounted(r) >= Duration

AllClientsFinished(r) == \A c \in Members(r) : ~inGame[c]

RoundOver(r) == TimedOut(r) \/ AllClientsFinished(r)

\* getGameResult reads two entries if there are two, three otherwise.
ResultReadable(r) == Cardinality(Players(r)) >= 2

\* Mutant: rooms are erased when their game is over.
RoomsInPlay == {r \in rooms : game[r] # "stopped"}

\* Empty rooms are erased, whether or not a game is in progress there.
RoomsKept == {r \in rooms : roomClients[r] # <<>>}

Tick(due) ==
  LET kept == RoomsKept
  IN /\ up
     /\ \A r \in due : Running(r) /\ (RoundOver(r) => ResultReadable(r))
     /\ rooms' = kept
     /\ game' = [r \in RoomId |-> IF r \notin kept THEN "none"
                                  ELSE IF r \in due /\ RoundOver(r) THEN "stopped"
                                  ELSE game[r]]
     /\ elapsed' = [r \in RoomId |-> IF r \notin kept THEN 0
                                     ELSE IF r \in due THEN SecondCounted(r)
                                     ELSE elapsed[r]]
     /\ word' = [r \in RoomId |-> IF r \in kept THEN word[r] ELSE <<>>]
     /\ gameStats' = [r \in RoomId |-> IF r \in kept THEN gameStats[r] ELSE NoStats]
     /\ disconnectedClients' =
          [r \in RoomId |-> IF r \in kept THEN disconnectedClients[r] ELSE <<>>]
     /\ owner' = [r \in RoomId |-> IF r \in kept THEN owner[r] ELSE NoClient]
     /\ UNCHANGED <<up, clients, clientVars, roomCounter, roomClients>>

TickOverruns(due) ==
  /\ up
  /\ \A r \in due : Running(r)
  /\ \E r \in due : RoundOver(r) /\ ~ResultReadable(r)
  /\ Crash

-----------------------------------------------------------------------------

Next ==
  \/ \E c \in Client :
       \/ Accept(c) \/ CreateRoom(c)
       \/ LeaveRoom(c) \/ Disconnect(c) \/ LeaveThrows(c)
       \/ \E n \in Nick : Login(c, n)
       \/ \E r \in RoomId : JoinRoom(c, r) \/ RejoinRoom(c, r) \/ RejoinThrows(c, r)
       \/ \E w \in Words : StartGame(c, w)
       \/ \E l \in Letter : Guess(c, l) \/ GuessThrows(c, l)
  \/ \E due \in SUBSET RoomId : Tick(due) \/ TickOverruns(due)

Spec == Init /\ [][Next]_vars

(***************************************************************************)
(* The timer thread writes a byte every second and the poll loop reads it; *)
(* a running room skips a byte only if its last update is younger than a   *)
(* second, so none is passed over for ever.  Nothing obliges a player.     *)
(***************************************************************************)
RoomIsUpdated(r) ==
  \E due \in SUBSET RoomId : r \in due /\ (Tick(due) \/ TickOverruns(due))

FairSpec == Spec /\ \A r \in RoomId : WF_vars(RoomIsUpdated(r))
-----------------------------------------------------------------------------
(***************************************************************************)
(* Properties                                                              *)
(***************************************************************************)

\* Every variable has its type; the keys of gameStats are clients, its values
\* boards (the declarations of Server.h, Client.h, Room.h, Game.h).
TypeOK ==
  /\ up \in BOOLEAN
  /\ clients \subseteq Client
  /\ nickname \in [Client -> Nick \cup {NoNick}]
  /\ room \in [Client -> RoomId \cup {NoRoom}]
  /\ inGame \in [Client -> BOOLEAN]
  /\ rooms \subseteq RoomId
  /\ roomCounter \in 1..(MaxRooms + 1)
  /\ roomClients \in [RoomId -> Seq(Client)]
  /\ owner \in [RoomId -> Client \cup {NoClient}]
  /\ disconnectedClients \in [RoomId -> Seq(Client)]
  /\ game \in [RoomId -> GameState]
  /\ word \in [RoomId -> Words \cup {<<>>}]
  /\ elapsed \in [RoomId -> Nat]
  /\ gameStats = [r \in RoomId |-> gameStats[r]]
  /\ \A r \in RoomId : Players(r) \subseteq Client /\ gameStats[r] \in [Players(r) -> Stats]

\* Client::room is a raw pointer.  Whatever clients send, it points to a room
\* that exists and that lists the client, so secondElapsed never destroys a
\* room somebody still points to (Server.cpp:364, Room.cpp:263).
NoDanglingRoom ==
  \A c \in clients : room[c] # NoRoom => room[c] \in rooms /\ c \in Members(room[c])

\* When clients do one thing at a time, the two views of who sits where agree:
\* a seat belongs to a connected client that points back, and nobody has two
\* seats (Room.cpp:214-215 against Room.cpp:252-263).
SeatsMatchRooms ==
  ~AnyOrder =>
    \A r \in rooms :
      /\ \A c \in Client : c \in Members(r) <=> c \in clients /\ room[c] = r
      /\ \A i, j \in 1..Len(roomClients[r]) :
           i # j => nickname[roomClients[r][i]] # nickname[roomClients[r][j]]

\* Room::join takes d for the former self of a client with d's nickname.
FoundAgain(d, r) ==
  \E i \in 1..Len(disconnectedClients[r]) :
    /\ disconnectedClients[r][i] = d
    /\ \A j \in 1..(i - 1) : nickname[disconnectedClients[r][j]] # nickname[d]

AwayOffline(d, r) == Running(r) /\ d \in Players(r) \ Members(r) /\ d \notin clients

\* README.md:100-101: who loses the connection in a running round is found by
\* Room::join, ahead of any namesake, and stays so, whoever else comes and goes,
\* until the round is over or the player is back (Room.cpp:203-212, 258, 301).
\* Who has left on purpose is not spoken of.
LostPlayersAreFound ==
  [][\A r \in RoomId, d \in Client :
       /\ AwayOffline(d, r)'
       /\ \/ d \in clients /\ d \in Members(r)
          \/ AwayOffline(d, r) /\ FoundAgain(d, r)
       => FoundAgain(d, r)']_vars

\* The counters, flags and shown letters of every board agree with the set of
\* letters tried, through late guesses, rejoins and restarts
\* (GameStats.cpp:24-103, Server.cpp:187-227).
BoardsConsistent ==
  \A r \in RoomId : \A c \in Players(r) : ConsistentStats(gameStats[r][c], word[r])

\* A member counts as finished during a round only when the member's own board
\* is finished; otherwise ROUND_ALL_FINISHED would cut the others off
\* (Server.cpp:213-222, Room.cpp:234, 308, 348-358).
NobodyFinishesEarly ==
  ~AnyOrder =>
    \A r \in RoomId : Running(r) =>
      \A c \in Members(r) \cap Players(r) :
        ~inGame[c] => RoundFinished(gameStats[r][c])

Restarted(r) == \E c \in Client, w \in Words : room[c] = r /\ StartGame(c, w)

BoardKept(b, next) ==
  /\ b.usedLetters \subseteq next.usedLetters
  /\ b.errors <= next.errors
  /\ b.numberOfGuessedLettersInWord <= next.numberOfGuessedLettersInWord

\* No step of a running round loses a player's progress: the board stays, only
\* growing, or moves unchanged to a client of the same nickname; only a new
\* START_GAME or the end of an abandoned room drops it (Room.cpp:200-285).
ProgressIsNeverLost ==
  [][\A r \in RoomId : Running(r) /\ r \in rooms' /\ ~Restarted(r) =>
       \A d \in Players(r) :
         \/ d \in Players(r)' /\ BoardKept(gameStats[r][d], gameStats'[r][d])
         \/ \E c \in Players(r)' \ Players(r) :
              nickname[c] = nickname[d] /\ gameStats'[r][c] = gameStats[r][d]]_vars

\* README.md:92: "Gdy wszyscy gracze zakoncza swoje rundy ... gra sie konczy":
\* the tick that finds every member's board finished ends the round.
RoundEndsWhenAllAreDone ==
  [][\A r \in RoomId :
       /\ Running(r) /\ elapsed'[r] = elapsed[r] + 1
       /\ Members(r) \subseteq Players(r)
       /\ \A c \in Members(r) : RoundFinished(gameStats[r][c])
       => game'[r] # "inProgress"]_vars

\* README.md:79: "Serwer na biezaco informuje wszystkich graczy o aktualnych
\* statystykach uczestnikow": while a round runs every member has a row to show.
EveryMemberHasARow ==
  \A r \in RoomId : Running(r) => HaveRows(Members(r), gameStats[r])

\* Every round that is started is brought to an end by the clock, whatever the
\* players do, unless the process dies (Room.cpp:321-346, Game.cpp:19-25).
RoundEnds ==
  \A r \in RoomId : Running(r) ~> (~Running(r) \/ ~up)
=============================================================================
