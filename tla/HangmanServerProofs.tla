------------------------ MODULE HangmanServerProofs -------------------------
(***************************************************************************)
(* Theorems about HangmanServer for every number of clients, nicknames,    *)
(* rooms, words and letters: first what holds for clients that send        *)
(* requests in any order, then who a player is, a nickname to the room and *)
(* a Client object to the server.                                          *)
(***************************************************************************)
EXTENDS HangmanServer, GameStatsProofs, SequenceLemmas

\* Room ids come from a counter, so a new room never takes over a live one
\* (Room.cpp:15).
IdsHandedOut == \A r \in rooms : r < roomCounter

\* Every board was made for the word of its room and is consistent with it.
BoardsSound ==
  \A r \in RoomId : \A c \in Players(r) :
    word[r] \in Words /\ Sound(gameStats[r][c], word[r])

IInv == TypeOK /\ IdsHandedOut /\ NoDanglingRoom /\ BoardsSound

-----------------------------------------------------------------------------

\* The server starts without clients, rooms or boards (Server.cpp:31-86).
LEMMA InitIInv == Init => IInv
<1> SUFFICES ASSUME Init PROVE IInv
  OBVIOUS
<1> USE DEF Init
<1>1. TypeOK
  BY ServerAssumption DEF TypeOK, RoomId, NoRoom, GameState, Players, NoStats
<1>2. IdsHandedOut /\ NoDanglingRoom
  BY DEF IdsHandedOut, NoDanglingRoom
<1>3. BoardsSound
  BY DEF BoardsSound, Players, NoStats
<1> QED BY <1>1, <1>2, <1>3 DEF IInv

\* The seat Room::join takes over is an entry of disconnectedClients.
LEMMA FormerSeatIsASeat ==
  ASSUME TypeOK, NEW c \in Client, NEW r \in RoomId, FormerSeats(c, r) # {}
  PROVE  /\ Min(FormerSeats(c, r)) \in 1..Len(disconnectedClients[r])
         /\ Min(FormerSeats(c, r)) \in FormerSeats(c, r)
         /\ FormerSelf(c, r) \in Client
         /\ nickname[FormerSelf(c, r)] = nickname[c]
<1>1. FormerSeats(c, r) \subseteq 1..Len(disconnectedClients[r])
  BY DEF FormerSeats
<1>2. disconnectedClients[r] \in Seq(Client)
  BY DEF TypeOK
<1>3. Min(FormerSeats(c, r)) \in FormerSeats(c, r)
  <2>1. FormerSeats(c, r) \subseteq Nat
    BY <1>1
  <2> QED BY <2>1, MinOfNats
<1> DEFINE m == Min(FormerSeats(c, r))
<1>4. FormerSelf(c, r) = disconnectedClients[r][m]
  BY DEF FormerSelf
<1>5. m \in FormerSeats(c, r)
  BY <1>3
<1> HIDE DEF m
<1>6. m \in 1..Len(disconnectedClients[r]) /\ nickname[disconnectedClients[r][m]] = nickname[c]
  BY <1>5 DEF FormerSeats
<1>7. disconnectedClients[r][m] \in Client
  BY <1>2, <1>6
<1> QED BY <1>3, <1>4, <1>6, <1>7 DEF m

\* TakeSeat, the common part of joining and rejoining.
LEMMA TakeSeatEffect ==
  ASSUME TypeOK, NEW c \in Client, NEW r \in RoomId, TakeSeat(c, r)
  PROVE  /\ roomClients' \in [RoomId -> Seq(Client)]
         /\ disconnectedClients' \in [RoomId -> Seq(Client)]
         /\ room' \in [Client -> RoomId \cup {NoRoom}]
         /\ room' = [room EXCEPT ![c] = r]
         /\ c \in Members(r)'
         /\ \A q \in RoomId : Members(q) \subseteq Members(q)'
<1>1. roomClients[r] \in Seq(Client) /\ disconnectedClients[r] \in Seq(Client)
  BY DEF TypeOK
<1>2. Append(roomClients[r], c) \in Seq(Client)
      /\ Range(Append(roomClients[r], c)) = Range(roomClients[r]) \cup {c}
  BY <1>1, AppendRange
<1>3. roomClients' = [roomClients EXCEPT ![r] = Append(roomClients[r], c)]
  BY DEF TakeSeat
<1>4. (IF FormerSeats(c, r) = {} THEN disconnectedClients[r]
       ELSE RemoveAt(disconnectedClients[r], Min(FormerSeats(c, r)))) \in Seq(Client)
  BY <1>1, FormerSeatIsASeat, RemoveAtShape
<1>5. disconnectedClients' \in [RoomId -> Seq(Client)]
  BY <1>4 DEF TakeSeat, TypeOK
<1>6. roomClients' \in [RoomId -> Seq(Client)]
      /\ c \in Members(r)'
      /\ \A q \in RoomId : Members(q) \subseteq Members(q)'
  BY <1>2, <1>3 DEF TypeOK, Members
<1>7. room' \in [Client -> RoomId \cup {NoRoom}] /\ room' = [room EXCEPT ![c] = r]
  BY DEF TakeSeat, TypeOK
<1> QED BY <1>5, <1>6, <1>7

\* Vacate, the common part of LEAVE_ROOM and of a lost connection.
LEMMA VacateEffect ==
  ASSUME TypeOK, NEW c \in Client, Seated(c), Vacate(c)
  PROVE  /\ roomClients' \in [RoomId -> Seq(Client)]
         /\ disconnectedClients' \in [RoomId -> Seq(Client)]
         /\ owner' \in [RoomId -> Client \cup {NoClient}]
         /\ room' \in [Client -> RoomId \cup {NoRoom}]
         /\ room' = [room EXCEPT ![c] = NoRoom]
         /\ \A q \in RoomId : Members(q) \ {c} \subseteq Members(q)'
<1> DEFINE r == room[c]
           rest == Remaining(c)
<1>1. r \in RoomId /\ roomClients[r] \in Seq(Client)
      /\ disconnectedClients[r] \in Seq(Client) /\ c \in Range(roomClients[r])
  BY DEF TypeOK, Seated, Members
<1>2. rest \in Seq(Client) /\ Range(roomClients[r]) \ {c} \subseteq Range(rest)
  BY <1>1, RemoveFirstKeeps DEF Remaining
<1>3. Append(disconnectedClients[r], c) \in Seq(Client)
  BY <1>1
<1>4. rest # <<>> => Head(rest) \in Client
  BY <1>2
<1>5. /\ roomClients' = [roomClients EXCEPT ![r] = rest]
      /\ disconnectedClients' =
           [disconnectedClients EXCEPT ![r] = Append(disconnectedClients[r], c)]
      /\ room' = [room EXCEPT ![c] = NoRoom]
      /\ owner' = IF owner[r] = c /\ rest # <<>>
                  THEN [owner EXCEPT ![r] = Head(rest)] ELSE owner
  BY DEF Vacate
<1> HIDE DEF r, rest
<1>6. /\ roomClients' \in [RoomId -> Seq(Client)]
      /\ disconnectedClients' \in [RoomId -> Seq(Client)]
  BY <1>1, <1>2, <1>3, <1>5 DEF TypeOK
<1>7. owner' \in [RoomId -> Client \cup {NoClient}]
  BY <1>4, <1>5 DEF TypeOK
<1>8. room' \in [Client -> RoomId \cup {NoRoom}]
  BY <1>5 DEF TypeOK
<1>9. \A q \in RoomId : Members(q) \ {c} \subseteq Members(q)'
  BY <1>1, <1>2, <1>5 DEF TypeOK, Members
<1> QED BY <1>5, <1>6, <1>7, <1>8, <1>9

-----------------------------------------------------------------------------
(***************************************************************************)
(* What happens to the boards: most actions leave them, a guess and a      *)
(* rejoin change one room's.                                               *)
(***************************************************************************)

\* A handler that touches neither words nor boards keeps every board sound.
LEMMA BoardsUntouched ==
  ASSUME BoardsSound, UNCHANGED <<gameStats, word>>
  PROVE  BoardsSound'
BY DEF BoardsSound, Players

\* Boards keep their type because they stay sound.
LEMMA GuessedBoard ==
  ASSUME IInv, NEW r \in RoomId, NEW c \in Players(r), NEW l \in Letter
  PROVE  /\ PlayGuess(gameStats[r][c], word[r], l) \in Stats
         /\ Sound(PlayGuess(gameStats[r][c], word[r], l), word[r])
<1>1. word[r] \in Words /\ Sound(gameStats[r][c], word[r])
  BY DEF IInv, BoardsSound
<1>2. AWord(word[r])
  BY <1>1, WordsAreWords
<1>3. Sound(PlayGuess(gameStats[r][c], word[r], l), word[r])
  BY <1>1, <1>2, PlayGuessSound
<1> QED BY <1>3 DEF Sound

\* What RejoinRoom puts into gameStats: the former self's board under the new
\* client, the others where they were.
LEMMA RejoinedBoards ==
  ASSUME IInv, NEW c \in Client, NEW r \in RoomId, Resumes(c, r)
  PROVE  /\ DOMAIN StatsAfterRejoin(c, r) = (Players(r) \cup {c}) \ {FormerSelf(c, r)}
         /\ \A d \in DOMAIN StatsAfterRejoin(c, r) :
              \E e \in Players(r) : StatsAfterRejoin(c, r)[d] = gameStats[r][e]
         /\ StatsAfterRejoin(c, r) \in [DOMAIN StatsAfterRejoin(c, r) -> Stats]
<1> DEFINE t == StatsAfterRejoin(c, r)
           f == FormerSelf(c, r)
<1>1. f \in Players(r)
  BY DEF Resumes
<1>2. t = [d \in (Players(r) \cup {c}) \ {f} |->
             IF d = c THEN gameStats[r][f] ELSE gameStats[r][d]]
  BY DEF StatsAfterRejoin
<1> HIDE DEF t, f
<1>3. DOMAIN t = (Players(r) \cup {c}) \ {f}
  BY <1>2
<1>4. \A d \in DOMAIN t : \E e \in Players(r) : t[d] = gameStats[r][e]
  BY <1>1, <1>2, <1>3
<1>5. \A e \in Players(r) : gameStats[r][e] \in Stats
  BY DEF IInv, TypeOK
<1>6. t \in [DOMAIN t -> Stats]
  BY <1>2, <1>3, <1>4, <1>5
<1> QED BY <1>3, <1>4, <1>6 DEF t, f

-----------------------------------------------------------------------------
(***************************************************************************)
(* IInv is inductive: one lemma per kind of action.                        *)
(***************************************************************************)

\* A new client has no room, and only clients without a room log in
\* (Server.cpp:97-119, 302-312).
LEMMA AcceptAndLoginKeepIInv ==
  ASSUME IInv, NEW c \in Client, Accept(c) \/ \E n \in Nick : Login(c, n)
  PROVE  IInv'
<1> USE DEF IInv
<1>1. TypeOK'
  BY DEF TypeOK, Accept, Login, seatVars, roundVars, Players
<1>2. IdsHandedOut'
  BY DEF IdsHandedOut, Accept, Login
<1>3. NoDanglingRoom'
  <2>1. rooms' = rooms /\ \A q : Members(q)' = Members(q)
    BY DEF Accept, Login, seatVars, Members
  <2>2. \A d \in clients' : room'[d] # NoRoom => d \in clients /\ room'[d] = room[d]
    BY DEF Accept, Login, TypeOK
  <2> QED BY <2>1, <2>2 DEF NoDanglingRoom
<1>4. BoardsSound'
  BY BoardsUntouched DEF Accept, Login, roundVars
<1> QED BY <1>1, <1>2, <1>3, <1>4

\* The new room's id is fresh and its only member points to it (Room.cpp:10-17).
LEMMA CreateRoomKeepsIInv ==
  ASSUME IInv, NEW c \in Client, CreateRoom(c)
  PROVE  IInv'
<1> USE DEF IInv
<1>0. PICK r \in RoomId : r = roomCounter
  BY ServerAssumption DEF CreateRoom, TypeOK, RoomId
<1>1. /\ roomCounter' = r + 1 /\ rooms' = rooms \cup {r}
      /\ roomClients' = [roomClients EXCEPT ![r] = <<c>>]
      /\ owner' = [owner EXCEPT ![r] = c]
      /\ room' = [room EXCEPT ![c] = r]
  BY <1>0 DEF CreateRoom
<1>2. UNCHANGED <<up, clients, nickname, inGame, disconnectedClients, game, word, elapsed, gameStats>>
  BY DEF CreateRoom, roundVars
<1>3. r \notin rooms
  BY <1>0 DEF IdsHandedOut, RoomId
<1>4. roomCounter' \in 1..(MaxRooms + 1)
  BY <1>1, ServerAssumption DEF RoomId
<1>5. IdsHandedOut'
  BY <1>0, <1>1, ServerAssumption DEF IdsHandedOut, TypeOK, RoomId
<1>6. TypeOK'
  BY <1>1, <1>2, <1>4 DEF TypeOK, Players
<1>7. NoDanglingRoom'
  <2>1. c \in Members(r)'
    <3>1. roomClients'[r] = <<c>>
      BY <1>1 DEF TypeOK
    <3> QED BY <3>1 DEF Members, Range
  <2>2. \A q \in rooms : Members(q)' = Members(q)
    BY <1>1, <1>3 DEF TypeOK, Members
  <2>3. \A d \in clients' : d \in clients /\ room'[d] = IF d = c THEN r ELSE room[d]
    BY <1>1, <1>2 DEF TypeOK
  <2> QED BY <1>1, <2>1, <2>2, <2>3 DEF NoDanglingRoom
<1>8. BoardsSound'
  BY <1>2, BoardsUntouched
<1> QED BY <1>5, <1>6, <1>7, <1>8

\* Joining adds a member and moves a board as it is (Room.cpp:200-248).
LEMMA JoinKeepsIInv ==
  ASSUME IInv, NEW c \in Client, NEW r \in RoomId, JoinRoom(c, r) \/ RejoinRoom(c, r)
  PROVE  IInv'
<1> USE DEF IInv
<1>1. TakeSeat(c, r) /\ r \in rooms
      /\ UNCHANGED <<up, clients, nickname, rooms, roomCounter, owner, game, word, elapsed>>
  BY DEF JoinRoom, RejoinRoom, MayJoin, roundVars
<1>2. /\ roomClients' \in [RoomId -> Seq(Client)]
      /\ disconnectedClients' \in [RoomId -> Seq(Client)]
      /\ room' \in [Client -> RoomId \cup {NoRoom}]
      /\ room' = [room EXCEPT ![c] = r]
      /\ c \in Members(r)'
      /\ \A q \in RoomId : Members(q) \subseteq Members(q)'
  BY <1>1, TakeSeatEffect
<1>3. IdsHandedOut'
  BY <1>1 DEF IdsHandedOut
<1>4. NoDanglingRoom'
  BY <1>1, <1>2 DEF NoDanglingRoom, TypeOK
<1>5. inGame' \in [Client -> BOOLEAN]
  BY DEF JoinRoom, RejoinRoom, TypeOK
<1>6. CASE JoinRoom(c, r)
  <2>1. gameStats' = gameStats
    BY <1>6 DEF JoinRoom, roundVars
  <2>2. TypeOK'
    BY <1>1, <1>2, <1>5, <2>1 DEF TypeOK, Players
  <2> QED BY <1>1, <1>3, <1>4, <2>1, <2>2, BoardsUntouched
<1>7. CASE RejoinRoom(c, r)
  <2> DEFINE t == StatsAfterRejoin(c, r)
  <2>1. Resumes(c, r) /\ gameStats' = [gameStats EXCEPT ![r] = t]
    BY <1>7 DEF RejoinRoom
  <2>2. /\ DOMAIN t \subseteq Players(r) \cup {c} /\ t \in [DOMAIN t -> Stats]
        /\ \A d \in DOMAIN t : \E e \in Players(r) : t[d] = gameStats[r][e]
    BY <2>1, RejoinedBoards
  <2> HIDE DEF t
  <2>3. /\ gameStats' = [q \in RoomId |-> gameStats'[q]]
        /\ Players(r)' = DOMAIN t /\ gameStats'[r] = t
        /\ \A q \in RoomId \ {r} : gameStats'[q] = gameStats[q] /\ Players(q)' = Players(q)
    BY <2>1 DEF TypeOK, Players
  <2>4. TypeOK'
    <3>1. \A q \in RoomId :
            Players(q)' \subseteq Client /\ gameStats'[q] \in [Players(q)' -> Stats]
      BY <2>2, <2>3 DEF TypeOK
    <3> QED BY <1>1, <1>2, <1>5, <2>3, <3>1 DEF TypeOK
  <2>5. BoardsSound'
    BY <1>1, <2>2, <2>3 DEF BoardsSound
  <2> QED BY <1>3, <1>4, <2>4, <2>5
<1> QED BY <1>6, <1>7

\* A client that gives up its seat points to no room (Room.cpp:250-285).
LEMMA LeaveKeepsIInv ==
  ASSUME IInv, NEW c \in Client, LeaveRoom(c) \/ Disconnect(c)
  PROVE  IInv'
<1> USE DEF IInv
<1>1. /\ UNCHANGED <<up, nickname, inGame, rooms, roomCounter, game, word, elapsed, gameStats>>
      /\ clients' \subseteq clients
  BY DEF LeaveRoom, Disconnect, Vacate, clientVars, roundVars
<1>2. IdsHandedOut' /\ BoardsSound'
  BY <1>1, BoardsUntouched DEF IdsHandedOut
<1>3. CASE Seated(c)
  <2>1. Vacate(c)
    BY <1>3 DEF LeaveRoom, Disconnect
  <2>2. /\ roomClients' \in [RoomId -> Seq(Client)]
        /\ disconnectedClients' \in [RoomId -> Seq(Client)]
        /\ owner' \in [RoomId -> Client \cup {NoClient}]
        /\ room' \in [Client -> RoomId \cup {NoRoom}]
        /\ room' = [room EXCEPT ![c] = NoRoom]
        /\ \A q \in RoomId : Members(q) \ {c} \subseteq Members(q)'
    BY <1>3, <2>1, VacateEffect
  <2>3. TypeOK'
    BY <1>1, <2>2 DEF TypeOK, Players
  <2>4. NoDanglingRoom'
    BY <1>1, <2>2 DEF NoDanglingRoom, TypeOK
  <2> QED BY <1>2, <2>3, <2>4
<1>4. CASE ~Seated(c)
  <2>1. UNCHANGED <<room, roomClients, owner, disconnectedClients>>
    BY <1>4 DEF LeaveRoom, Disconnect, clientVars, seatVars
  <2>2. TypeOK'
    BY <1>1, <2>1 DEF TypeOK, Players
  <2>3. NoDanglingRoom'
    BY <1>1, <2>1 DEF NoDanglingRoom, Members
  <2> QED BY <1>2, <2>2, <2>3
<1> QED BY <1>3, <1>4

\* The boards of a round are new and made for its word (Room.cpp:299-319).
LEMMA StartGameKeepsIInv ==
  ASSUME IInv, NEW c \in Client, NEW w \in Words, StartGame(c, w)
  PROVE  IInv'
<1> USE DEF IInv
<1>0. PICK r \in RoomId : r = room[c]
  BY DEF StartGame, TypeOK
<1>1. /\ UNCHANGED <<up, clients, nickname, room, rooms, roomCounter, roomClients, owner>>
      /\ disconnectedClients' = [disconnectedClients EXCEPT ![r] = <<>>]
      /\ game' = [game EXCEPT ![r] = "inProgress"]
      /\ word' = [word EXCEPT ![r] = w]
      /\ elapsed' = [elapsed EXCEPT ![r] = 0]
      /\ gameStats' = [gameStats EXCEPT ![r] = [d \in Members(r) |-> NewStats(w)]]
      /\ inGame' = [d \in Client |-> d \in Members(r) \/ inGame[d]]
  BY <1>0 DEF StartGame, NewGame, PutInGame
<1>2. Members(r) \subseteq Client
  BY DEF TypeOK, Members, Range
<1>3. Sound(NewStats(w), w) /\ NewStats(w) \in Stats
  BY WordsAreWords, NewStatsSound DEF Sound
<1>4. /\ gameStats' = [q \in RoomId |-> gameStats'[q]]
      /\ Players(r)' = Members(r)
      /\ \A d \in Members(r) : gameStats'[r][d] = NewStats(w)
      /\ gameStats'[r] \in [Members(r) -> Stats]
      /\ \A q \in RoomId \ {r} : gameStats'[q] = gameStats[q] /\ Players(q)' = Players(q)
  <2> DEFINE fresh == [d \in Members(r) |-> NewStats(w)]
  <2>1. /\ fresh \in [Members(r) -> Stats] /\ DOMAIN fresh = Members(r)
        /\ \A d \in Members(r) : fresh[d] = NewStats(w)
    BY <1>3
  <2>2. gameStats' = [gameStats EXCEPT ![r] = fresh]
    BY <1>1
  <2> HIDE DEF fresh
  <2>3. /\ gameStats' = [q \in RoomId |-> gameStats'[q]]
        /\ gameStats'[r] = fresh
        /\ \A q \in RoomId \ {r} : gameStats'[q] = gameStats[q]
    BY <1>2, <2>2 DEF TypeOK
  <2> QED BY <2>1, <2>3 DEF Players
<1>5. word' \in [RoomId -> Words \cup {<<>>}] /\ word'[r] = w
      /\ \A q \in RoomId \ {r} : word'[q] = word[q]
  BY <1>1, <1>2 DEF TypeOK
<1>6. /\ inGame' \in [Client -> BOOLEAN]
      /\ disconnectedClients' \in [RoomId -> Seq(Client)]
      /\ game' \in [RoomId -> GameState] /\ elapsed' \in [RoomId -> Nat]
  <2>1. inGame' \in [Client -> BOOLEAN]
    BY <1>1
  <2>2. disconnectedClients' \in [RoomId -> Seq(Client)]
    BY <1>1 DEF TypeOK
  <2>3. game' \in [RoomId -> GameState] /\ elapsed' \in [RoomId -> Nat]
    BY <1>1 DEF TypeOK, GameState
  <2> QED BY <2>1, <2>2, <2>3
<1>7. TypeOK'
  <2>1. ASSUME NEW q \in RoomId
        PROVE  Players(q)' \subseteq Client /\ gameStats'[q] \in [Players(q)' -> Stats]
    <3>1. CASE q = r
      BY <1>2, <1>4, <3>1
    <3>2. CASE q # r
      BY <1>4, <3>2 DEF TypeOK
    <3> QED BY <3>1, <3>2
  <2> QED BY <1>1, <1>4, <1>5, <1>6, <2>1 DEF TypeOK
<1>8. IdsHandedOut' /\ NoDanglingRoom'
  BY <1>1 DEF IdsHandedOut, NoDanglingRoom, Members
<1>9. BoardsSound'
  <2> SUFFICES ASSUME NEW q \in RoomId, NEW d \in Players(q)'
               PROVE  word'[q] \in Words /\ Sound(gameStats'[q][d], word'[q])
    BY DEF BoardsSound
  <2>1. CASE q = r
    BY <1>3, <1>4, <1>5, <2>1
  <2>2. CASE q # r
    BY <1>4, <1>5, <2>2 DEF BoardsSound
  <2> QED BY <2>1, <2>2
<1> QED BY <1>7, <1>8, <1>9

\* A guess changes one board, and keeps it sound (Server.cpp:177-230).
LEMMA GuessKeepsIInv ==
  ASSUME IInv, NEW c \in Client, NEW l \in Letter, Guess(c, l)
  PROVE  IInv'
<1> USE DEF IInv
<1>0. PICK r \in RoomId : r = room[c]
  BY DEF Guess, TypeOK
<1>1. PICK board : board = PlayGuess(gameStats[r][c], word[r], l)
  OBVIOUS
<1>2. /\ UNCHANGED <<up, clients, nickname, room, rooms, roomCounter, game, word, elapsed>>
      /\ UNCHANGED <<roomClients, owner, disconnectedClients>>
      /\ gameStats' = [gameStats EXCEPT ![r][c] = board]
      /\ inGame' = [inGame EXCEPT ![c] = inGame[c] /\ ~RoundFinished(board)]
  BY <1>0, <1>1 DEF Guess, seatVars
<1>3. c \in Players(r)
  BY <1>0 DEF Guess
<1>4. board \in Stats /\ Sound(board, word[r])
  BY <1>1, <1>3, GuessedBoard
<1>5. /\ gameStats' = [q \in RoomId |-> gameStats'[q]]
      /\ gameStats'[r] = [gameStats[r] EXCEPT ![c] = board]
      /\ \A q \in RoomId \ {r} : gameStats'[q] = gameStats[q]
  BY <1>2, <1>3 DEF TypeOK
<1>6. /\ \A q \in RoomId : Players(q)' = Players(q)
      /\ gameStats'[r][c] = board
      /\ \A d \in Players(r) \ {c} : gameStats'[r][d] = gameStats[r][d]
  BY <1>3, <1>5 DEF TypeOK, Players
<1>7. ASSUME NEW q \in RoomId PROVE gameStats'[q] \in [Players(q) -> Stats]
  <2>1. gameStats[q] \in [Players(q) -> Stats]
    BY DEF TypeOK
  <2>2. CASE q = r
    BY <1>4, <1>5, <2>1, <2>2
  <2>3. CASE q # r
    BY <1>5, <2>1, <2>3
  <2> QED BY <2>2, <2>3
<1>8. inGame' \in [Client -> BOOLEAN]
  BY <1>2 DEF TypeOK
<1>9. TypeOK'
  BY <1>2, <1>5, <1>6, <1>7, <1>8 DEF TypeOK
<1>10. IdsHandedOut' /\ NoDanglingRoom'
  BY <1>2 DEF IdsHandedOut, NoDanglingRoom, Members
<1>11. BoardsSound'
  BY <1>2, <1>3, <1>4, <1>5, <1>6 DEF BoardsSound
<1> QED BY <1>9, <1>10, <1>11

\* Only rooms without members are erased, and with all they hold
\* (Server.cpp:349-368).
LEMMA TickKeepsIInv ==
  ASSUME IInv, NEW due \in SUBSET RoomId, Tick(due)
  PROVE  IInv'
<1> USE DEF IInv
<1>0. PICK kept : kept = {r \in rooms : roomClients[r] # <<>>}
  OBVIOUS
<1>1. /\ UNCHANGED <<up, clients, nickname, room, inGame, roomCounter, roomClients>>
      /\ rooms' = kept /\ kept \subseteq rooms
  BY <1>0 DEF Tick, RoomsKept, clientVars
<1>2. /\ game' \in [RoomId -> GameState]
      /\ elapsed' \in [RoomId -> Nat]
      /\ word' = [r \in RoomId |-> IF r \in kept THEN word[r] ELSE <<>>]
      /\ gameStats' = [r \in RoomId |-> IF r \in kept THEN gameStats[r] ELSE NoStats]
      /\ disconnectedClients' \in [RoomId -> Seq(Client)]
      /\ owner' \in [RoomId -> Client \cup {NoClient}]
  BY <1>0 DEF Tick, RoomsKept, SecondCounted, TypeOK, GameState
<1>3. \A r \in RoomId : (gameStats'[r] = gameStats[r] /\ word'[r] = word[r])
                          \/ gameStats'[r] = NoStats
  BY <1>2
<1>4. NoStats \in [DOMAIN NoStats -> Stats] /\ DOMAIN NoStats = {}
  BY DEF NoStats
<1>5. \A r \in RoomId :
        Players(r)' \subseteq Client /\ gameStats'[r] \in [Players(r)' -> Stats]
  BY <1>3, <1>4 DEF TypeOK, Players
<1>6. word' \in [RoomId -> Words \cup {<<>>}]
      /\ gameStats' = [r \in RoomId |-> gameStats'[r]]
  BY <1>2 DEF TypeOK
<1>7. TypeOK'
  BY <1>1, <1>2, <1>5, <1>6 DEF TypeOK
<1>8. IdsHandedOut'
  BY <1>1 DEF IdsHandedOut
<1>9. NoDanglingRoom'
  <2> SUFFICES ASSUME NEW c \in clients, room[c] # NoRoom
               PROVE  room[c] \in kept /\ c \in Members(room[c])
    BY <1>1 DEF NoDanglingRoom, Members
  <2>1. room[c] \in rooms /\ c \in Members(room[c])
    BY DEF NoDanglingRoom
  <2>2. roomClients[room[c]] # <<>>
    BY <2>1 DEF Members, Range
  <2> QED BY <1>0, <2>1, <2>2
<1>10. BoardsSound'
  BY <1>3, <1>4 DEF BoardsSound, Players
<1> QED BY <1>7, <1>8, <1>9, <1>10

\* The last step of a process that dies leaves its state as it was.
LEMMA CrashKeepsIInv ==
  ASSUME IInv, Crash
  PROVE  IInv'
<1> USE DEF IInv, Crash, clientVars, seatVars, roundVars
<1>1. TypeOK'
  BY DEF TypeOK, Players
<1>2. IdsHandedOut' /\ NoDanglingRoom'
  BY DEF IdsHandedOut, NoDanglingRoom, Members
<1>3. BoardsSound'
  BY BoardsUntouched
<1> QED BY <1>1, <1>2, <1>3

\* Every step keeps the invariant: one step of the proof per action.
LEMMA NextIInv == IInv /\ [Next]_vars => IInv'
<1> SUFFICES ASSUME IInv, [Next]_vars PROVE IInv'
  OBVIOUS
<1>1. ASSUME NEW c \in Client, Accept(c) \/ \E n \in Nick : Login(c, n) PROVE IInv'
  BY <1>1, AcceptAndLoginKeepIInv
<1>2. ASSUME NEW c \in Client, CreateRoom(c) PROVE IInv'
  BY <1>2, CreateRoomKeepsIInv
<1>3. ASSUME NEW c \in Client, NEW r \in RoomId, JoinRoom(c, r) \/ RejoinRoom(c, r) PROVE IInv'
  BY <1>3, JoinKeepsIInv
<1>4. ASSUME NEW c \in Client, LeaveRoom(c) \/ Disconnect(c) PROVE IInv'
  BY <1>4, LeaveKeepsIInv
<1>5. ASSUME NEW c \in Client, NEW w \in Words, StartGame(c, w) PROVE IInv'
  BY <1>5, StartGameKeepsIInv
<1>6. ASSUME NEW c \in Client, NEW l \in Letter, Guess(c, l) PROVE IInv'
  BY <1>6, GuessKeepsIInv
<1>7. ASSUME NEW due \in SUBSET RoomId, Tick(due) PROVE IInv'
  BY <1>7, TickKeepsIInv
<1>8. ASSUME Crash PROVE IInv'
  BY <1>8, CrashKeepsIInv
<1>9. CASE \/ \E c \in Client : LeaveThrows(c) \/ \E r \in RoomId : RejoinThrows(c, r)
           \/ \E c \in Client, l \in Letter : GuessThrows(c, l)
           \/ \E due \in SUBSET RoomId : TickOverruns(due)
  BY <1>8, <1>9 DEF LeaveThrows, RejoinThrows, GuessThrows, TickOverruns
<1>10. CASE UNCHANGED vars
  <2>1. TypeOK'
    BY <1>10 DEF IInv, TypeOK, Players, vars, clientVars, seatVars, roundVars
  <2>2. IdsHandedOut' /\ NoDanglingRoom'
    BY <1>10 DEF IInv, IdsHandedOut, NoDanglingRoom, Members, vars, clientVars, seatVars
  <2>3. BoardsSound'
    BY <1>10, BoardsUntouched DEF IInv, vars, roundVars
  <2> QED BY <2>1, <2>2, <2>3 DEF IInv
<1> QED BY <1>1, <1>2, <1>3, <1>4, <1>5, <1>6, <1>7, <1>9, <1>10 DEF Next

-----------------------------------------------------------------------------

\* The invariant holds in every state.
LEMMA IInvHolds == Spec => []IInv
<1> QED BY InitIInv, NextIInv, PTL DEF Spec

\* Every variable keeps its type, for any numbers of clients, rooms and words
\* (Server.h, Client.h, Room.h, Game.h).
THEOREM TypeCorrect == Spec => []TypeOK
<1>1. IInv => TypeOK
  BY DEF IInv
<1> QED BY <1>1, IInvHolds, PTL

\* No client ever points to a room that was destroyed or that does not list it,
\* whatever requests the clients send (Server.cpp:364, Room.cpp:214, 261-263).
THEOREM NoDanglingRoomHolds == Spec => []NoDanglingRoom
<1>1. IInv => NoDanglingRoom
  BY DEF IInv
<1> QED BY <1>1, IInvHolds, PTL

\* Every board agrees with the letters tried on it, for any word, through late
\* guesses, rejoins and restarts (GameStats.cpp:24-103, Server.cpp:187-227).
THEOREM BoardsConsistentHolds == Spec => []BoardsConsistent
<1>1. IInv => BoardsConsistent
  BY DEF IInv, BoardsSound, BoardsConsistent, Sound
<1> QED BY <1>1, IInvHolds, PTL

-----------------------------------------------------------------------------
(***************************************************************************)
(* Players: seats, absent players, progress, and the flags that end a      *)
(* round.                                                                  *)
(***************************************************************************)

\* What a room that does not exist yet, or any more, looks like (Room.h:15-49).
UnusedRooms ==
  \A r \in RoomId \ rooms :
    /\ game[r] = "none"
    /\ roomClients[r] = <<>> /\ disconnectedClients[r] = <<>> /\ Players(r) = {}

\* A nickname belongs to one client, and only a client that has one takes seats
\* (Server.cpp:336-347).
UniqueNicknames ==
  \A c \in clients :
    /\ room[c] # NoRoom => nickname[c] # NoNick
    /\ nickname[c] # NoNick => \A d \in clients \ {c} : nickname[d] # nickname[c]

\* Those who left a room have different nicknames, and nobody who has one of
\* these sits there: Room::join takes the namesake off the list, and only who
\* has joined can leave (Room.cpp:203-212, 258).
LeaversDiffer ==
  \A r \in RoomId :
    /\ DistinctBy(disconnectedClients[r], nickname)
    /\ \A c \in clients : room[c] = r => \A d \in Gone(r) : nickname[d] # nickname[c]

\* A player of a running round sits in the room or is on the list of leavers.
PlayersRemembered == \A r \in RoomId : Running(r) => Players(r) \subseteq Members(r) \cup Gone(r)

\* Nobody who is connected has a row besides that of an absent namesake.
OneRowPerPlayer ==
  \A r \in RoomId : \A c \in clients \cap Players(r) : \A d \in Players(r) \cap Gone(r) :
    nickname[c] = nickname[d] => c = d

\* The seats of clients that do one thing at a time, for rooms of any state.
SeatsTaken ==
  ~AnyOrder =>
    \A r \in RoomId : /\ DistinctBy(roomClients[r], nickname)
                      /\ \A c \in Members(r) : c \in clients /\ room[c] = r

PInv == /\ UnusedRooms /\ UniqueNicknames /\ LeaversDiffer
        /\ PlayersRemembered /\ OneRowPerPlayer /\ SeatsTaken /\ NobodyFinishesEarly

-----------------------------------------------------------------------------

\* The first state has neither clients nor rooms.
LEMMA InitPInv == Init => PInv
<1> SUFFICES ASSUME Init PROVE PInv
  OBVIOUS
<1> USE DEF Init
<1>1. UnusedRooms /\ UniqueNicknames
  BY DEF UnusedRooms, UniqueNicknames, Players, NoStats
<1>2. LeaversDiffer /\ SeatsTaken
  BY DEF LeaversDiffer, SeatsTaken, DistinctBy, Gone, Members, Range
<1>3. PlayersRemembered /\ OneRowPerPlayer /\ NobodyFinishesEarly
  BY DEF PlayersRemembered, OneRowPerPlayer, NobodyFinishesEarly, Running
<1> QED BY <1>1, <1>2, <1>3 DEF PInv

\* A client no room refers to is on no list, of any room.
LEMMA UnreferencedIsNowhere ==
  ASSUME PInv, NEW c \in Client, ~Referenced(c), NEW r \in RoomId
  PROVE  c \notin Members(r) /\ c \notin Gone(r) /\ c \notin Players(r)
<1>1. CASE r \in rooms
  BY <1>1 DEF Referenced
<1>2. CASE r \notin rooms
  BY <1>2 DEF PInv, UnusedRooms, Members, Gone, Range
<1> QED BY <1>1, <1>2

\* A list whose entries keep their nicknames keeps its entries apart.
LEMMA NamesKept ==
  ASSUME NEW X, NEW s \in Seq(X), NEW f, NEW g, DistinctBy(s, f),
         \A x \in Range(s) : g[x] = f[x]
  PROVE  DistinctBy(s, g)
<1>1. \A i \in 1..Len(s) : g[s[i]] = f[s[i]]
  BY DEF Range
<1> QED BY <1>1 DEF DistinctBy

\* Room::join: of the leavers exactly the namesake is taken off the list.
LEMMA TakeSeatNames ==
  ASSUME IInv, PInv, NEW c \in clients, NEW r \in rooms, TakeSeat(c, r)
  PROVE  /\ Members(r)' = Members(r) \cup {c}
         /\ roomClients'[r] = Append(roomClients[r], c)
         /\ \A q \in RoomId \ {r} : /\ roomClients'[q] = roomClients[q]
                                    /\ disconnectedClients'[q] = disconnectedClients[q]
         /\ Gone(r)' = {d \in Gone(r) : nickname[d] # nickname[c]}
         /\ DistinctBy(disconnectedClients'[r], nickname)
         /\ \A d \in Gone(r) : nickname[d] = nickname[c] =>
                                 FormerSeats(c, r) # {} /\ FormerSelf(c, r) = d
         /\ FormerSeats(c, r) # {} => /\ FormerSelf(c, r) \in Gone(r)
                                      /\ nickname[FormerSelf(c, r)] = nickname[c]
<1>0. r \in RoomId /\ c \in Client /\ TypeOK
  BY DEF IInv, TypeOK
<1>1. roomClients[r] \in Seq(Client) /\ disconnectedClients[r] \in Seq(Client)
  BY <1>0 DEF TypeOK
<1>2. roomClients'[r] = Append(roomClients[r], c) /\ Members(r)' = Members(r) \cup {c}
  <2>1. roomClients'[r] = Append(roomClients[r], c)
    BY <1>0 DEF TakeSeat, TypeOK
  <2> QED BY <1>0, <1>1, <2>1, AppendRange DEF Members
<1>3. \A q \in RoomId \ {r} : /\ roomClients'[q] = roomClients[q]
                              /\ disconnectedClients'[q] = disconnectedClients[q]
  BY <1>0 DEF TakeSeat, TypeOK
<1> DEFINE s == disconnectedClients[r]
<1>4. DistinctBy(s, nickname)
  BY <1>0 DEF PInv, LeaversDiffer
<1>5. \A d \in Gone(r) : nickname[d] = nickname[c] => FormerSeats(c, r) # {}
  BY DEF Gone, Range, FormerSeats
<1>6. CASE FormerSeats(c, r) = {}
  <2>1. disconnectedClients'[r] = s
    BY <1>0, <1>6 DEF TakeSeat, TypeOK
  <2>2. Gone(r)' = Gone(r) /\ \A d \in Gone(r) : nickname[d] # nickname[c]
    BY <1>5, <1>6, <2>1 DEF Gone
  <2> QED BY <1>2, <1>3, <1>4, <1>6, <2>1, <2>2
<1>7. CASE FormerSeats(c, r) # {}
  <2> DEFINE m == Min(FormerSeats(c, r))
  <2>1. m \in 1..Len(s) /\ FormerSelf(c, r) \in Client
        /\ nickname[FormerSelf(c, r)] = nickname[c]
    BY <1>0, <1>7, FormerSeatIsASeat
  <2>2. FormerSelf(c, r) = s[m]
    BY DEF FormerSelf
  <2>3. disconnectedClients'[r] = RemoveAt(s, m)
    BY <1>0, <1>7 DEF TakeSeat, TypeOK
  <2> HIDE DEF m
  <2>4. /\ DistinctBy(RemoveAt(s, m), nickname)
        /\ Range(RemoveAt(s, m)) = {x \in Range(s) : nickname[x] # nickname[s[m]]}
    BY <1>1, <1>4, <2>1, RemoveAtDistinct
  <2>5. \A d \in Gone(r) : nickname[d] = nickname[c] => d = FormerSelf(c, r)
    BY <1>1, <1>4, <2>1, <2>2 DEF Gone, Range, DistinctBy
  <2>6. FormerSelf(c, r) \in Gone(r)
    BY <1>1, <2>1, <2>2 DEF Gone, Range
  <2>7. Gone(r)' = {d \in Gone(r) : nickname[d] # nickname[c]}
    BY <2>1, <2>2, <2>3, <2>4 DEF Gone
  <2> QED BY <1>2, <1>3, <1>7, <2>1, <2>3, <2>4, <2>5, <2>6, <2>7
<1> QED BY <1>6, <1>7

\* Room::leave: the leaver, whose name was not there, is added to the leavers.
LEMMA VacateNames ==
  ASSUME IInv, PInv, NEW c \in clients, Seated(c), Vacate(c), NEW r, r = room[c]
  PROVE  /\ r \in rooms /\ r \in RoomId
         /\ Members(r) \ {c} \subseteq Members(r)' /\ Members(r)' \subseteq Members(r)
         /\ Gone(r)' = Gone(r) \cup {c}
         /\ DistinctBy(disconnectedClients'[r], nickname)
         /\ \A q \in RoomId \ {r} : /\ roomClients'[q] = roomClients[q]
                                    /\ disconnectedClients'[q] = disconnectedClients[q]
         /\ ~AnyOrder => /\ DistinctBy(roomClients'[r], nickname)
                         /\ c \notin Members(r)'
<1>0. TypeOK /\ r \in rooms /\ r \in RoomId /\ c \in Client /\ c \in Members(r)
  BY DEF IInv, TypeOK, NoDanglingRoom, Seated
<1>1. roomClients[r] \in Seq(Client) /\ disconnectedClients[r] \in Seq(Client)
  BY <1>0 DEF TypeOK
<1>2. /\ roomClients' = [roomClients EXCEPT ![r] = RemoveFirst(roomClients[r], c)]
      /\ disconnectedClients' =
           [disconnectedClients EXCEPT ![r] = Append(disconnectedClients[r], c)]
  BY DEF Vacate, Remaining
<1>3. /\ roomClients'[r] = RemoveFirst(roomClients[r], c)
      /\ disconnectedClients'[r] = Append(disconnectedClients[r], c)
      /\ \A q \in RoomId \ {r} : /\ roomClients'[q] = roomClients[q]
                                 /\ disconnectedClients'[q] = disconnectedClients[q]
  BY <1>0, <1>2 DEF TypeOK
<1>4. Members(r) \ {c} \subseteq Members(r)' /\ Members(r)' \subseteq Members(r)
  BY <1>0, <1>1, <1>3, RemoveFirstKeeps DEF Members
<1>5. Gone(r)' = Gone(r) \cup {c}
  BY <1>0, <1>1, <1>3, AppendRange DEF Gone
<1>6. DistinctBy(disconnectedClients'[r], nickname)
  <2>1. /\ DistinctBy(disconnectedClients[r], nickname)
        /\ \A d \in Range(disconnectedClients[r]) : nickname[d] # nickname[c]
    BY <1>0 DEF PInv, LeaversDiffer, Gone
  <2> QED BY <1>0, <1>1, <1>3, <2>1, AppendDistinct
<1>7. ASSUME ~AnyOrder PROVE DistinctBy(roomClients'[r], nickname) /\ c \notin Members(r)'
  <2>1. DistinctBy(roomClients[r], nickname)
    BY <1>0, <1>7 DEF PInv, SeatsTaken
  <2>2. PICK k \in 1..Len(roomClients[r]) :
          roomClients[r][k] = c /\ RemoveFirst(roomClients[r], c) = RemoveAt(roomClients[r], k)
    BY <1>0, <1>1, RemoveFirstShape DEF Members
  <2>3. /\ DistinctBy(RemoveAt(roomClients[r], k), nickname)
        /\ Range(RemoveAt(roomClients[r], k))
             = {x \in Range(roomClients[r]) : nickname[x] # nickname[roomClients[r][k]]}
    BY <1>1, <2>1, RemoveAtDistinct
  <2> QED BY <1>3, <2>2, <2>3 DEF Members
<1> QED BY <1>0, <1>3, <1>4, <1>5, <1>6, <1>7

\* A guess takes nothing from a board, and a finished board stays finished.
LEMMA GuessKeepsProgress ==
  ASSUME NEW b \in Stats, NEW w, AWord(w), NEW l \in Letter
  PROVE  /\ BoardKept(b, PlayGuess(b, w, l))
         /\ RoundFinished(b) => RoundFinished(PlayGuess(b, w, l))
<1>1. CountLettersInWord(w, l) \in Nat
  <2>1. IsFiniteSet(PositionsOf(w, l))
    BY PositionsFinite
  <2> QED BY <2>1, FS_CardinalityType DEF CountLettersInWord
<1>2. CASE GuessIgnored(b, l)
  BY <1>2 DEF PlayGuess, BoardKept, Stats
<1>3. CASE ~GuessIgnored(b, l)
  <2> DEFINE marked == [b EXCEPT !.usedLetters = @ \cup {l}]
             next == IF IsLetterCorrect(w, l) THEN LetterGuessed(marked, w, l)
                     ELSE [marked EXCEPT !.errors = @ + 1]
  <2>1. PlayGuess(b, w, l) = RecalculateScore(next, w)
    BY <1>3 DEF PlayGuess
  <2>2. /\ next.usedLetters = b.usedLetters \cup {l}
        /\ next.errors = IF IsLetterCorrect(w, l) THEN b.errors ELSE b.errors + 1
        /\ b.numberOfGuessedLettersInWord <= next.numberOfGuessedLettersInWord
        /\ b.fullWordGuessed => next.fullWordGuessed
    <3>1. CASE ~IsLetterCorrect(w, l)
      BY <3>1 DEF Stats
    <3>2. CASE IsLetterCorrect(w, l) /\ l \in marked.guessedLetters
      BY <3>2 DEF LetterGuessed, Stats
    <3>3. CASE IsLetterCorrect(w, l) /\ l \notin marked.guessedLetters
      BY <1>1, <3>3 DEF LetterGuessed, Stats
    <3> QED BY <3>1, <3>2, <3>3
  <2> HIDE DEF next, marked
  <2>3. LET p == PlayGuess(b, w, l)
        IN /\ p.usedLetters = next.usedLetters /\ p.errors = next.errors
           /\ p.numberOfGuessedLettersInWord = next.numberOfGuessedLettersInWord
           /\ p.fullWordGuessed = next.fullWordGuessed
    BY <2>1 DEF RecalculateScore
  <2>4. b.errors \in Nat /\ b.errors < MaxErrors
    BY <1>3, MaxErrorsAssumption DEF GuessIgnored, Stats
  <2> QED BY <2>2, <2>3, <2>4 DEF BoardKept, RoundFinished
<1> QED BY <1>2, <1>3

-----------------------------------------------------------------------------
(***************************************************************************)
(* PInv is inductive: one lemma per kind of action.                        *)
(***************************************************************************)

\* The name of a client changes only while no list refers to it
\* (Server.cpp:97-119, 336-347).
LEMMA AcceptAndLoginKeepPInv ==
  ASSUME IInv, PInv, NEW c \in Client, Accept(c) \/ \E n \in Nick : Login(c, n)
  PROVE  PInv'
<1> USE DEF PInv
<1>1. /\ UNCHANGED <<rooms, roomClients, disconnectedClients, game, gameStats>>
      /\ \A r : /\ Members(r)' = Members(r) /\ Gone(r)' = Gone(r)
               /\ Players(r)' = Players(r) /\ Running(r)' = Running(r)
      /\ ~Referenced(c) /\ clients' = clients \cup {c}
      /\ \A d \in Client \ {c} : /\ nickname'[d] = nickname[d] /\ room'[d] = room[d]
                                 /\ inGame'[d] = inGame[d]
  <2>1. UNCHANGED <<rooms, roomClients, disconnectedClients, game, gameStats>>
    BY DEF Accept, Login, seatVars, roundVars
  <2>2. \A r : /\ Members(r)' = Members(r) /\ Gone(r)' = Gone(r)
              /\ Players(r)' = Players(r) /\ Running(r)' = Running(r)
    BY <2>1 DEF Members, Gone, Players, Running
  <2>3. ~Referenced(c) /\ clients' = clients \cup {c}
    BY DEF Accept, Login
  <2>4. \A d \in Client \ {c} : /\ nickname'[d] = nickname[d] /\ room'[d] = room[d]
                              /\ inGame'[d] = inGame[d]
    BY DEF Accept, Login, IInv, TypeOK
  <2> QED BY <2>1, <2>2, <2>3, <2>4
<1>2. \A r \in RoomId : c \notin Members(r) /\ c \notin Gone(r) /\ c \notin Players(r)
  BY <1>1, UnreferencedIsNowhere
<1>3. room'[c] = NoRoom
  <2>1. CASE Accept(c)
    BY <2>1 DEF Accept, IInv, TypeOK
  <2>2. CASE \E n \in Nick : Login(c, n)
    <3>1. room' = room /\ c \in clients
      BY <2>2 DEF Login
    <3>2. room[c] # NoRoom => c \in Members(room[c]) /\ room[c] \in RoomId
      BY <3>1 DEF IInv, NoDanglingRoom, TypeOK
    <3> QED BY <1>2, <3>1, <3>2
  <2> QED BY <2>1, <2>2
<1>4. \A r \in RoomId : /\ \A d \in Members(r) : d \in Client \ {c}
                        /\ \A d \in Gone(r) : d \in Client \ {c}
  BY <1>2 DEF Members, Gone, Range, IInv, TypeOK
<1>5. UnusedRooms'
  BY <1>1 DEF UnusedRooms
<1>6. UniqueNicknames'
  <2>1. clients \subseteq Client /\ NoNick \notin Nick
    BY ServerAssumption DEF IInv, TypeOK
  <2>2. CASE Accept(c)
    <3>1. nickname'[c] = NoNick
      BY <2>2 DEF Accept, IInv, TypeOK
    <3> QED BY <1>1, <1>3, <2>1, <3>1 DEF UniqueNicknames
  <2>3. CASE \E n \in Nick : Login(c, n)
    <3>1. PICK n \in Nick : Login(c, n)
      BY <2>3
    <3>2. nickname'[c] = n /\ \A d \in clients : nickname[d] # n
      BY <3>1 DEF Login, IInv, TypeOK
    <3> QED BY <1>1, <1>3, <2>1, <3>2 DEF UniqueNicknames
  <2> QED BY <2>2, <2>3
<1>7. LeaversDiffer'
  <2> SUFFICES ASSUME NEW r \in RoomId
               PROVE  /\ DistinctBy(disconnectedClients[r], nickname')
                      /\ \A d \in clients' : room'[d] = r =>
                           \A e \in Gone(r) : nickname'[e] # nickname'[d]
    BY <1>1 DEF LeaversDiffer
  <2>1. disconnectedClients[r] \in Seq(Client) /\ r # NoRoom
    BY DEF IInv, TypeOK, RoomId, NoRoom
  <2>2. DistinctBy(disconnectedClients[r], nickname')
    <3>1. DistinctBy(disconnectedClients[r], nickname)
          /\ \A x \in Range(disconnectedClients[r]) : nickname'[x] = nickname[x]
      BY <1>1, <1>4 DEF LeaversDiffer, Gone
    <3> QED BY <2>1, <3>1, NamesKept
  <2> QED BY <1>1, <1>3, <1>4, <2>1, <2>2 DEF LeaversDiffer, IInv, TypeOK
<1>8. PlayersRemembered' /\ OneRowPerPlayer'
  <2>1. PlayersRemembered'
    BY <1>1 DEF PlayersRemembered
  <2>2. OneRowPerPlayer'
    BY <1>1, <1>2, <1>4 DEF OneRowPerPlayer, IInv, TypeOK
  <2> QED BY <2>1, <2>2
<1>9. SeatsTaken'
  <2> SUFFICES ASSUME ~AnyOrder, NEW r \in RoomId
               PROVE  /\ DistinctBy(roomClients[r], nickname')
                      /\ \A d \in Members(r) : d \in clients' /\ room'[d] = r
    BY <1>1 DEF SeatsTaken
  <2>1. DistinctBy(roomClients[r], nickname')
    <3>1. roomClients[r] \in Seq(Client)
      BY DEF IInv, TypeOK
    <3>2. DistinctBy(roomClients[r], nickname)
          /\ \A x \in Range(roomClients[r]) : nickname'[x] = nickname[x]
      BY <1>1, <1>4 DEF SeatsTaken, Members
    <3> QED BY <3>1, <3>2, NamesKept
  <2> QED BY <1>1, <1>4, <2>1 DEF SeatsTaken
<1>10. NobodyFinishesEarly'
  BY <1>1, <1>4 DEF NobodyFinishesEarly
<1> QED BY <1>5, <1>6, <1>7, <1>8, <1>9, <1>10

\* A new room finds its place unused and gets one member (Room.cpp:10-17).
LEMMA CreateRoomKeepsPInv ==
  ASSUME IInv, PInv, NEW c \in Client, CreateRoom(c)
  PROVE  PInv'
<1> USE DEF PInv
<1>0. PICK r \in RoomId : r = roomCounter
  BY ServerAssumption DEF CreateRoom, IInv, TypeOK, RoomId
<1>1. /\ UNCHANGED <<clients, nickname, inGame, disconnectedClients, game, word, gameStats>>
      /\ c \in clients /\ nickname[c] # NoNick /\ (AnyOrder \/ room[c] = NoRoom)
      /\ rooms' = rooms \cup {r} /\ r \notin rooms
  BY <1>0 DEF CreateRoom, MayAskForRoom, roundVars, IInv, IdsHandedOut, RoomId
<1>2. /\ roomClients'[r] = <<c>> /\ room'[c] = r /\ Members(r)' = {c}
      /\ \A q \in RoomId \ {r} : roomClients'[q] = roomClients[q] /\ Members(q)' = Members(q)
      /\ \A d \in Client \ {c} : room'[d] = room[d]
  <2>1. /\ roomClients'[r] = <<c>> /\ room'[c] = r
        /\ \A q \in RoomId \ {r} : roomClients'[q] = roomClients[q]
        /\ \A d \in Client \ {c} : room'[d] = room[d]
    BY <1>0, <1>1 DEF CreateRoom, IInv, TypeOK
  <2>2. Range(<<c>>) = {c}
    BY DEF Range
  <2> QED BY <2>1, <2>2 DEF Members
<1>3. \A q : Gone(q)' = Gone(q) /\ Players(q)' = Players(q)
  BY <1>1 DEF Gone, Players
<1>4. game[r] = "none" /\ Gone(r) = {} /\ Players(r) = {}
  BY <1>1 DEF UnusedRooms, Gone, Range
<1>5. \A q \in RoomId : Running(q)' => q # r /\ Running(q)
  BY <1>1, <1>4 DEF Running
<1>6. UnusedRooms' /\ UniqueNicknames'
  <2>1. UnusedRooms'
    BY <1>1, <1>2, <1>3 DEF UnusedRooms
  <2>2. UniqueNicknames'
    BY <1>1, <1>2 DEF UniqueNicknames, IInv, TypeOK
  <2> QED BY <2>1, <2>2
<1>7. LeaversDiffer'
  <2>1. \A q \in RoomId : DistinctBy(disconnectedClients[q], nickname)
    BY DEF LeaversDiffer
  <2>2. ASSUME NEW q \in RoomId, NEW d \in clients, room'[d] = q, NEW e \in Gone(q)
        PROVE  nickname[e] # nickname[d]
    <3>1. q # r
      BY <1>4, <2>2
    <3>2. d \in Client /\ room[d] = q
      BY <1>2, <2>2, <3>1 DEF IInv, TypeOK
    <3> QED BY <2>2, <3>2 DEF LeaversDiffer
  <2> QED BY <1>1, <1>3, <2>1, <2>2 DEF LeaversDiffer
<1>8. PlayersRemembered' /\ OneRowPerPlayer' /\ NobodyFinishesEarly'
  <2>1. PlayersRemembered'
    BY <1>2, <1>3, <1>5 DEF PlayersRemembered
  <2>2. OneRowPerPlayer'
    BY <1>1, <1>3 DEF OneRowPerPlayer
  <2>3. NobodyFinishesEarly'
    BY <1>1, <1>2, <1>3, <1>5 DEF NobodyFinishesEarly
  <2> QED BY <2>1, <2>2, <2>3
<1>9. SeatsTaken'
  <2> SUFFICES ASSUME ~AnyOrder, NEW q \in RoomId
               PROVE  /\ DistinctBy(roomClients'[q], nickname)
                      /\ \A d \in Members(q)' : d \in clients /\ room'[d] = q
    BY <1>1 DEF SeatsTaken
  <2>1. CASE q = r
    BY <1>1, <1>2, <2>1 DEF DistinctBy
  <2>2. CASE q # r
    <3>1. c \notin Members(q)
      BY <1>1 DEF SeatsTaken, NoRoom, RoomId
    <3> QED BY <1>2, <2>2, <3>1 DEF SeatsTaken, IInv, TypeOK
  <2> QED BY <2>1, <2>2
<1> QED BY <1>6, <1>7, <1>8, <1>9

\* A player who is away cannot take a new seat beside the old row: the row comes
\* back with the player (Room.cpp:202-237).
LEMMA AbsentPlayerResumes ==
  ASSUME IInv, PInv, NEW c \in clients, NEW r \in rooms, TakeSeat(c, r), Running(r),
         NEW d \in Players(r) \cap Gone(r), nickname[d] = nickname[c]
  PROVE  Resumes(c, r) /\ FormerSelf(c, r) = d
<1>1. FormerSeats(c, r) # {} /\ FormerSelf(c, r) = d
  BY TakeSeatNames
<1> QED BY <1>1 DEF Resumes, Running

\* What a rejoin does to the rows: the former self is another client, whose row
\* the new one takes over; the others keep theirs (Room.cpp:236-241).
LEMMA RejoinRows ==
  ASSUME IInv, PInv, NEW c \in clients, NEW r \in rooms, RejoinRoom(c, r),
         NEW f, f = FormerSelf(c, r)
  PROVE  /\ f # c /\ f \in Players(r) /\ f \in Gone(r) /\ nickname[f] = nickname[c]
         /\ c \notin Players(r)
         /\ Players(r)' = (Players(r) \ {f}) \cup {c}
         /\ gameStats'[r][c] = gameStats[r][f]
         /\ \A d \in Players(r) \ {f} : gameStats'[r][d] = gameStats[r][d]
         /\ \A q \in RoomId \ {r} : gameStats'[q] = gameStats[q] /\ Players(q)' = Players(q)
<1>0. r \in RoomId /\ TakeSeat(c, r)
  BY DEF RejoinRoom, IInv, TypeOK
<1>1. Resumes(c, r) /\ HaveRows(Members(r) \cup {c}, StatsAfterRejoin(c, r))
      /\ gameStats' = [gameStats EXCEPT ![r] = StatsAfterRejoin(c, r)]
  BY DEF RejoinRoom
<1>2. f \in Players(r) /\ f \in Gone(r) /\ nickname[f] = nickname[c]
  BY <1>0, <1>1, TakeSeatNames DEF Resumes
<1>3. StatsAfterRejoin(c, r) = [d \in (Players(r) \cup {c}) \ {f} |->
                                 IF d = c THEN gameStats[r][f] ELSE gameStats[r][d]]
  BY DEF StatsAfterRejoin
<1>4. f # c
  BY <1>1, <1>3 DEF HaveRows
<1>5. c \notin Players(r)
  BY <1>0, <1>2, <1>4 DEF PInv, OneRowPerPlayer
<1>6. /\ gameStats'[r] = StatsAfterRejoin(c, r)
      /\ \A q \in RoomId \ {r} : gameStats'[q] = gameStats[q]
  BY <1>0, <1>1 DEF IInv, TypeOK
<1>7. Players(r)' = (Players(r) \ {f}) \cup {c}
  BY <1>3, <1>4, <1>6 DEF Players
<1> QED BY <1>2, <1>3, <1>4, <1>5, <1>6, <1>7 DEF Players

\* Joining takes the namesake off the list of leavers and never leaves a player
\* of a running round without a place in it (Room.cpp:200-248).
LEMMA JoinKeepsPInv ==
  ASSUME IInv, PInv, NEW c \in Client, NEW r \in RoomId, JoinRoom(c, r) \/ RejoinRoom(c, r)
  PROVE  PInv'
<1> USE DEF PInv
<1>1. /\ UNCHANGED <<clients, nickname, rooms, game, word>>
      /\ TakeSeat(c, r) /\ r \in rooms
      /\ c \in clients /\ nickname[c] # NoNick /\ (AnyOrder \/ room[c] = NoRoom)
  BY DEF JoinRoom, RejoinRoom, MayJoin, MayAskForRoom, roundVars
<1>2. /\ Members(r)' = Members(r) \cup {c}
      /\ roomClients'[r] = Append(roomClients[r], c)
      /\ \A q \in RoomId \ {r} : /\ roomClients'[q] = roomClients[q]
                                 /\ disconnectedClients'[q] = disconnectedClients[q]
      /\ Gone(r)' = {d \in Gone(r) : nickname[d] # nickname[c]}
      /\ DistinctBy(disconnectedClients'[r], nickname)
  BY <1>1, TakeSeatNames
<1>3. \A q \in RoomId \ {r} : Members(q)' = Members(q) /\ Gone(q)' = Gone(q)
  BY <1>2 DEF Members, Gone
<1>4. room'[c] = r /\ \A d \in Client \ {c} : room'[d] = room[d]
  BY <1>1 DEF TakeSeat, IInv, TypeOK
<1>5. \A q : Running(q)' = Running(q)
  BY <1>1 DEF Running
<1>6. \A q \in RoomId \ {r} : gameStats'[q] = gameStats[q] /\ Players(q)' = Players(q)
  <2>1. CASE JoinRoom(c, r)
    BY <2>1 DEF JoinRoom, roundVars, Players
  <2>2. CASE RejoinRoom(c, r)
    BY <1>1, <2>2, RejoinRows
  <2> QED BY <2>1, <2>2
<1>7. UnusedRooms' /\ UniqueNicknames'
  <2>1. UnusedRooms'
    BY <1>1, <1>2, <1>6 DEF UnusedRooms
  <2>2. UniqueNicknames'
    BY <1>1, <1>4 DEF UniqueNicknames, IInv, TypeOK
  <2> QED BY <2>1, <2>2
<1>8. LeaversDiffer'
  <2>1. \A q \in RoomId : DistinctBy(disconnectedClients'[q], nickname)
    BY <1>2 DEF LeaversDiffer
  <2>2. ASSUME NEW q \in RoomId, NEW d \in clients, room'[d] = q, NEW e \in Gone(q)'
        PROVE  nickname[e] # nickname[d]
    <3>1. CASE q # r
      <4>1. d \in Client /\ room[d] = q /\ e \in Gone(q)
        BY <1>3, <1>4, <2>2, <3>1 DEF IInv, TypeOK
      <4> QED BY <2>2, <4>1 DEF LeaversDiffer
    <3>2. CASE q = r /\ d = c
      BY <1>2, <2>2, <3>2
    <3>3. CASE q = r /\ d # c
      <4>1. d \in Client /\ room[d] = r /\ e \in Gone(r)
        BY <1>2, <1>4, <2>2, <3>3 DEF IInv, TypeOK
      <4> QED BY <2>2, <4>1 DEF LeaversDiffer
    <3> QED BY <3>1, <3>2, <3>3
  <2> QED BY <1>1, <2>1, <2>2 DEF LeaversDiffer
<1>9. SeatsTaken'
  <2> SUFFICES ASSUME ~AnyOrder, NEW q \in RoomId
               PROVE  /\ DistinctBy(roomClients'[q], nickname)
                      /\ \A d \in Members(q)' : d \in clients /\ room'[d] = q
    BY <1>1 DEF SeatsTaken
  <2>1. \A d \in Members(q) : d \in clients /\ room[d] = q /\ d # c
    BY <1>1 DEF SeatsTaken, NoRoom, RoomId
  <2>2. CASE q = r
    <3>1. \A d \in Range(roomClients[r]) : nickname[d] # nickname[c]
      BY <1>1, <2>1, <2>2 DEF Members, UniqueNicknames
    <3>2. roomClients[r] \in Seq(Client)
      BY DEF IInv, TypeOK
    <3>3. DistinctBy(roomClients[r], nickname)
      BY DEF SeatsTaken
    <3>4. DistinctBy(roomClients'[r], nickname)
      BY <1>2, <3>1, <3>2, <3>3, AppendDistinct
    <3> QED BY <1>1, <1>2, <1>4, <2>1, <2>2, <3>4 DEF IInv, TypeOK
  <2>3. CASE q # r
    BY <1>2, <1>3, <1>4, <2>1, <2>3 DEF SeatsTaken, IInv, TypeOK
  <2> QED BY <2>2, <2>3
<1>10. CASE JoinRoom(c, r)
  <2>1. UNCHANGED <<gameStats, inGame>> /\ ~Resumes(c, r) /\ \A q : Players(q)' = Players(q)
    BY <1>10 DEF JoinRoom, roundVars, Players
  <2>2. Running(r) => \A d \in Players(r) \cap Gone(r) : nickname[d] # nickname[c]
    BY <1>1, <2>1, AbsentPlayerResumes
  <2>3. PlayersRemembered'
    BY <1>2, <1>3, <1>5, <2>1, <2>2 DEF PlayersRemembered
  <2>4. OneRowPerPlayer'
    BY <1>1, <1>2, <1>3, <2>1 DEF OneRowPerPlayer
  <2>5. NobodyFinishesEarly'
    <3> SUFFICES ASSUME ~AnyOrder, NEW q \in RoomId, Running(q),
                        NEW d \in Members(q)' \cap Players(q), ~inGame[d]
                 PROVE  RoundFinished(gameStats[q][d])
      BY <1>5, <2>1 DEF NobodyFinishesEarly
    <3>1. c \notin Members(r)
      BY <1>1 DEF SeatsTaken, NoRoom, RoomId
    <3>2. Running(r) => c \notin Players(r)
      BY <2>2, <3>1 DEF PlayersRemembered
    <3>3. d \in Members(q)
      BY <1>2, <1>3, <3>2
    <3> QED BY <3>3 DEF NobodyFinishesEarly
  <2> QED BY <1>7, <1>8, <1>9, <2>3, <2>4, <2>5
<1>11. CASE RejoinRoom(c, r)
  <2> DEFINE f == FormerSelf(c, r)
  <2>1. /\ f # c /\ f \in Players(r) /\ nickname[f] = nickname[c]
        /\ Players(r)' = (Players(r) \ {f}) \cup {c}
        /\ \A d \in Players(r) \ {f} : gameStats'[r][d] = gameStats[r][d]
    BY <1>1, <1>11, RejoinRows
  <2>2. inGame'[c] = TRUE /\ \A d \in Client \ {c} : inGame'[d] = inGame[d]
    BY <1>11 DEF RejoinRoom, IInv, TypeOK
  <2>3. f \in Gone(r) /\ \A d \in Gone(r) : nickname[d] = nickname[c] => d = f
    BY <1>1, <1>11, RejoinRows, TakeSeatNames
  <2> HIDE DEF f
  <2>4. PlayersRemembered'
    BY <1>2, <1>3, <1>5, <1>6, <2>1, <2>3 DEF PlayersRemembered
  <2>5. OneRowPerPlayer'
    <3> SUFFICES ASSUME NEW q \in RoomId, NEW d \in clients \cap Players(q)',
                        NEW e \in Players(q)' \cap Gone(q)', nickname[d] = nickname[e]
                 PROVE  d = e
      BY <1>1 DEF OneRowPerPlayer
    <3>1. CASE q # r
      BY <1>3, <1>6, <3>1 DEF OneRowPerPlayer
    <3>2. CASE q = r
      <4>1. e \in Gone(r) /\ nickname[e] # nickname[c] /\ d # c
        BY <1>2, <3>2
      <4>2. e \in Players(r) /\ d \in Players(r)
        BY <2>1, <3>2, <4>1
      <4> QED BY <4>1, <4>2 DEF OneRowPerPlayer
    <3> QED BY <3>1, <3>2
  <2>6. NobodyFinishesEarly'
    <3> SUFFICES ASSUME ~AnyOrder, NEW q \in RoomId, Running(q),
                        NEW d \in Members(q)' \cap Players(q)', ~inGame'[d]
                 PROVE  RoundFinished(gameStats'[q][d])
      BY <1>5 DEF NobodyFinishesEarly
    <3>1. d # c
      BY <2>2
    <3>2. d \in Members(q) \cap Players(q) /\ gameStats'[q][d] = gameStats[q][d]
      BY <1>2, <1>3, <1>6, <2>1, <3>1
    <3>3. d \in Client
      BY <3>2 DEF Members, Range, IInv, TypeOK
    <3> QED BY <2>2, <3>1, <3>2, <3>3 DEF NobodyFinishesEarly
  <2> QED BY <1>7, <1>8, <1>9, <2>4, <2>5, <2>6
<1> QED BY <1>10, <1>11

\* A client that leaves was the only one of its name, so it joins leavers of
\* other names (Room.cpp:250-285, Server.cpp:302-327).
LEMMA LeaveKeepsPInv ==
  ASSUME IInv, PInv, NEW c \in Client, LeaveRoom(c) \/ Disconnect(c)
  PROVE  PInv'
<1> USE DEF PInv
<1>1. /\ UNCHANGED <<nickname, inGame, rooms, game, gameStats>>
      /\ c \in clients /\ clients \ {c} \subseteq clients' /\ clients' \subseteq clients
  BY DEF LeaveRoom, Disconnect, Vacate, clientVars, roundVars
<1>2. \A q : Running(q)' = Running(q) /\ Players(q)' = Players(q)
  BY <1>1 DEF Running, Players
<1>3. CASE Seated(c)
  <2>0. PICK r : r = room[c]
    OBVIOUS
  <2>1. Vacate(c)
    BY <1>3 DEF LeaveRoom, Disconnect
  <2>2. /\ r \in rooms /\ r \in RoomId
        /\ Members(r) \ {c} \subseteq Members(r)' /\ Members(r)' \subseteq Members(r)
        /\ Gone(r)' = Gone(r) \cup {c}
        /\ DistinctBy(disconnectedClients'[r], nickname)
        /\ \A q \in RoomId \ {r} : /\ roomClients'[q] = roomClients[q]
                                   /\ disconnectedClients'[q] = disconnectedClients[q]
        /\ ~AnyOrder => /\ DistinctBy(roomClients'[r], nickname)
                        /\ c \notin Members(r)'
    BY <1>1, <1>3, <2>0, <2>1, VacateNames
  <2>3. \A q \in RoomId \ {r} : Members(q)' = Members(q) /\ Gone(q)' = Gone(q)
    BY <2>2 DEF Members, Gone
  <2>4. room'[c] = NoRoom /\ \A d \in Client \ {c} : room'[d] = room[d]
    BY <2>1 DEF Vacate, IInv, TypeOK
  <2>5. clients \subseteq Client /\ NoRoom \notin RoomId
    BY DEF IInv, TypeOK, NoRoom, RoomId
  <2>6. \A d \in clients \ {c} : nickname[d] # nickname[c]
    <3>1. room[c] # NoRoom
      BY <1>3 DEF Seated
    <3> QED BY <1>1, <3>1 DEF UniqueNicknames
  <2>7. UnusedRooms'
    BY <1>1, <1>2, <2>2 DEF UnusedRooms
  <2>8. UniqueNicknames'
    BY <1>1, <2>4, <2>5 DEF UniqueNicknames
  <2>9. LeaversDiffer'
    <3>1. \A q \in RoomId : DistinctBy(disconnectedClients'[q], nickname)
      BY <2>2 DEF LeaversDiffer
    <3>2. ASSUME NEW q \in RoomId, NEW d \in clients, room'[d] = q, NEW e \in Gone(q)'
          PROVE  nickname[e] # nickname[d]
      <4>1. d # c /\ room[d] = q
        BY <2>4, <2>5, <3>2
      <4>2. e \in Gone(q) \/ e = c
        BY <2>2, <2>3
      <4> QED BY <2>6, <3>2, <4>1, <4>2 DEF LeaversDiffer
    <3> QED BY <1>1, <3>1, <3>2 DEF LeaversDiffer
  <2>10. PlayersRemembered' /\ NobodyFinishesEarly'
    <3>1. PlayersRemembered'
      BY <1>2, <2>2, <2>3 DEF PlayersRemembered
    <3>2. NobodyFinishesEarly'
      BY <1>1, <1>2, <2>2, <2>3 DEF NobodyFinishesEarly
    <3> QED BY <3>1, <3>2
  <2>11. OneRowPerPlayer'
    BY <1>1, <1>2, <2>2, <2>3, <2>6 DEF OneRowPerPlayer
  <2>12. SeatsTaken'
    <3> SUFFICES ASSUME ~AnyOrder, NEW q \in RoomId
                 PROVE  /\ DistinctBy(roomClients'[q], nickname)
                        /\ \A d \in Members(q)' : d \in clients' /\ room'[d] = q
      BY <1>1 DEF SeatsTaken
    <3>1. \A d \in Members(q)' : d \in Members(q) /\ d # c
      BY <2>0, <2>2, <2>3 DEF SeatsTaken
    <3>2. DistinctBy(roomClients'[q], nickname)
      BY <2>2 DEF SeatsTaken
    <3> QED BY <1>1, <2>4, <2>5, <3>1, <3>2 DEF SeatsTaken
  <2> QED BY <2>7, <2>8, <2>9, <2>10, <2>11, <2>12
<1>4. CASE ~Seated(c)
  <2>1. UNCHANGED <<room, roomClients, disconnectedClients>>
    BY <1>4 DEF LeaveRoom, Disconnect, clientVars, seatVars
  <2>2. \A q : Members(q)' = Members(q) /\ Gone(q)' = Gone(q)
    BY <2>1 DEF Members, Gone
  <2>3. UnusedRooms' /\ UniqueNicknames' /\ LeaversDiffer'
    BY <1>1, <1>2, <2>1, <2>2 DEF UnusedRooms, UniqueNicknames, LeaversDiffer
  <2>4. PlayersRemembered' /\ OneRowPerPlayer' /\ NobodyFinishesEarly'
    BY <1>1, <1>2, <2>2 DEF PlayersRemembered, OneRowPerPlayer, NobodyFinishesEarly
  <2>5. SeatsTaken'
    <3>1. ~AnyOrder => \A q \in RoomId : c \notin Members(q)
      BY <1>4 DEF SeatsTaken, Seated, NoRoom, RoomId
    <3> QED BY <1>1, <2>1, <2>2, <3>1 DEF SeatsTaken
  <2> QED BY <2>3, <2>4, <2>5
<1> QED BY <1>3, <1>4

\* A new round forgets who left, makes a row for each member and puts the
\* members in the game (Room.cpp:299-319).
LEMMA StartGameKeepsPInv ==
  ASSUME IInv, PInv, NEW c \in Client, NEW w \in Words, StartGame(c, w)
  PROVE  PInv'
<1> USE DEF PInv
<1>0. PICK r \in RoomId : r = room[c]
  BY DEF StartGame, IInv, TypeOK
<1>1. /\ UNCHANGED <<clients, nickname, room, rooms, roomClients>>
      /\ c \in clients /\ r # NoRoom
      /\ disconnectedClients' = [disconnectedClients EXCEPT ![r] = <<>>]
      /\ game' = [game EXCEPT ![r] = "inProgress"]
      /\ gameStats' = [gameStats EXCEPT ![r] = [d \in Members(r) |-> NewStats(w)]]
      /\ inGame' = [d \in Client |-> d \in Members(r) \/ inGame[d]]
  BY <1>0 DEF StartGame, NewGame, PutInGame
<1>2. r \in rooms
  BY <1>0, <1>1 DEF IInv, NoDanglingRoom
<1>3. /\ disconnectedClients'[r] = <<>> /\ Gone(r)' = {} /\ Players(r)' = Members(r)
      /\ \A q \in RoomId \ {r} :
           /\ disconnectedClients'[q] = disconnectedClients[q] /\ Gone(q)' = Gone(q)
           /\ gameStats'[q] = gameStats[q] /\ Players(q)' = Players(q)
           /\ game'[q] = game[q] /\ Running(q)' = Running(q)
      /\ \A q : Members(q)' = Members(q)
  <2>1. /\ disconnectedClients'[r] = <<>>
        /\ gameStats'[r] = [d \in Members(r) |-> NewStats(w)]
        /\ \A q \in RoomId \ {r} :
             /\ disconnectedClients'[q] = disconnectedClients[q]
             /\ gameStats'[q] = gameStats[q] /\ game'[q] = game[q]
    BY <1>1 DEF IInv, TypeOK
  <2> QED BY <1>1, <2>1 DEF Gone, Players, Running, Members, Range
<1>4. UnusedRooms' /\ UniqueNicknames'
  BY <1>1, <1>2, <1>3 DEF UnusedRooms, UniqueNicknames
<1>5. LeaversDiffer'
  BY <1>1, <1>3 DEF LeaversDiffer, DistinctBy
<1>6. PlayersRemembered' /\ OneRowPerPlayer'
  BY <1>1, <1>3 DEF PlayersRemembered, OneRowPerPlayer
<1>7. SeatsTaken'
  BY <1>1, <1>3 DEF SeatsTaken
<1>8. NobodyFinishesEarly'
  <2> SUFFICES ASSUME ~AnyOrder, NEW q \in RoomId, Running(q)',
                      NEW d \in Members(q) \cap Players(q)', ~inGame'[d]
               PROVE  RoundFinished(gameStats'[q][d])
    BY <1>3 DEF NobodyFinishesEarly
  <2>1. d \in Client
    BY DEF Members, Range, IInv, TypeOK
  <2>2. q # r /\ ~inGame[d]
    BY <1>1, <2>1
  <2> QED BY <1>3, <2>2 DEF NobodyFinishesEarly
<1> QED BY <1>4, <1>5, <1>6, <1>7, <1>8

\* A guess clears the flag of a player whose board it finishes, and no other
\* (Server.cpp:213-222).
LEMMA GuessKeepsPInv ==
  ASSUME IInv, PInv, NEW c \in Client, NEW l \in Letter, Guess(c, l)
  PROVE  PInv'
<1> USE DEF PInv
<1>0. PICK r \in RoomId : r = room[c]
  BY DEF Guess, IInv, TypeOK
<1>1. PICK board : board = PlayGuess(gameStats[r][c], word[r], l)
  OBVIOUS
<1>2. /\ UNCHANGED <<clients, nickname, room, rooms, roomClients, disconnectedClients, game>>
      /\ gameStats' = [gameStats EXCEPT ![r][c] = board]
      /\ inGame' = [inGame EXCEPT ![c] = inGame[c] /\ ~RoundFinished(board)]
      /\ c \in Players(r)
  BY <1>0, <1>1 DEF Guess, seatVars
<1>3. /\ \A q : /\ Members(q)' = Members(q) /\ Gone(q)' = Gone(q)
               /\ Running(q)' = Running(q)
      /\ \A q \in RoomId : Players(q)' = Players(q)
      /\ gameStats'[r][c] = board
      /\ \A q \in RoomId : \A d \in Players(q) :
           q # r \/ d # c => gameStats'[q][d] = gameStats[q][d]
  <2>1. \A q : /\ Members(q)' = Members(q) /\ Gone(q)' = Gone(q)
              /\ Running(q)' = Running(q)
    BY <1>2 DEF Members, Gone, Running
  <2>2. /\ gameStats'[r] = [gameStats[r] EXCEPT ![c] = board]
        /\ \A q \in RoomId \ {r} : gameStats'[q] = gameStats[q]
    BY <1>2 DEF IInv, TypeOK
  <2> QED BY <1>2, <2>1, <2>2 DEF Players, IInv, TypeOK
<1>4. UnusedRooms' /\ UniqueNicknames' /\ LeaversDiffer' /\ SeatsTaken'
  BY <1>2, <1>3 DEF UnusedRooms, UniqueNicknames, LeaversDiffer, SeatsTaken
<1>5. PlayersRemembered' /\ OneRowPerPlayer'
  BY <1>2, <1>3 DEF PlayersRemembered, OneRowPerPlayer
<1>6. NobodyFinishesEarly'
  <2> SUFFICES ASSUME ~AnyOrder, NEW q \in RoomId, Running(q),
                      NEW d \in Members(q) \cap Players(q), ~inGame'[d]
               PROVE  RoundFinished(gameStats'[q][d])
    BY <1>3 DEF NobodyFinishesEarly
  <2>1. d \in Client
    BY DEF Members, Range, IInv, TypeOK
  <2>2. CASE d # c
    BY <1>2, <1>3, <2>1, <2>2 DEF NobodyFinishesEarly, IInv, TypeOK
  <2>3. CASE d = c
    <3>1. q = r
      BY <1>0, <2>3 DEF SeatsTaken
    <3>2. ~inGame[c] \/ RoundFinished(board)
      BY <1>2, <2>3 DEF IInv, TypeOK
    <3>3. gameStats[r][c] \in Stats /\ AWord(word[r])
      BY <1>2, WordsAreWords DEF IInv, BoardsSound, Sound
    <3>4. RoundFinished(gameStats[r][c]) => RoundFinished(board)
      BY <1>1, <3>3, GuessKeepsProgress
    <3>5. ~inGame[c] => RoundFinished(gameStats[r][c])
      BY <2>3, <3>1 DEF NobodyFinishesEarly
    <3> QED BY <1>3, <2>3, <3>1, <3>2, <3>4, <3>5
  <2> QED BY <2>2, <2>3
<1> QED BY <1>4, <1>5, <1>6

\* A tick ends rounds and erases rooms without members; it touches no seat and
\* no row of a room that stays (Server.cpp:349-368, Room.cpp:321-346).
LEMMA TickKeepsPInv ==
  ASSUME IInv, PInv, NEW due \in SUBSET RoomId, Tick(due)
  PROVE  PInv'
<1> USE DEF PInv
<1>0. PICK kept : kept = {r \in rooms : roomClients[r] # <<>>}
  OBVIOUS
<1>1. /\ UNCHANGED <<clients, nickname, room, inGame, roomClients>>
      /\ rooms' = kept /\ kept \subseteq rooms
      /\ \A q \in RoomId \ kept :
           /\ game'[q] = "none" /\ gameStats'[q] = NoStats /\ disconnectedClients'[q] = <<>>
      /\ \A q \in kept : /\ gameStats'[q] = gameStats[q]
                         /\ disconnectedClients'[q] = disconnectedClients[q]
                         /\ game'[q] \in {game[q], "stopped"}
  BY <1>0 DEF Tick, RoomsKept, clientVars, IInv, TypeOK
<1>2. \A q \in RoomId : Running(q)' => q \in kept /\ Running(q)
  BY <1>1 DEF Running
<1>3. /\ \A q : Members(q)' = Members(q)
      /\ \A q \in kept : Gone(q)' = Gone(q) /\ Players(q)' = Players(q)
      /\ \A q \in RoomId \ kept : Gone(q)' = {} /\ Players(q)' = {}
  BY <1>1 DEF Members, Gone, Players, NoStats, Range
<1>4. \A q \in RoomId \ kept : roomClients[q] = <<>>
  BY <1>0 DEF UnusedRooms
<1>5. UnusedRooms' /\ UniqueNicknames' /\ SeatsTaken'
  BY <1>1, <1>3, <1>4 DEF UnusedRooms, UniqueNicknames, SeatsTaken
<1>6. LeaversDiffer'
  <2>1. \A q \in RoomId : DistinctBy(disconnectedClients'[q], nickname)
    BY <1>1 DEF LeaversDiffer, DistinctBy
  <2> QED BY <1>1, <1>3, <2>1 DEF LeaversDiffer
<1>7. PlayersRemembered' /\ OneRowPerPlayer'
  BY <1>1, <1>2, <1>3 DEF PlayersRemembered, OneRowPerPlayer
<1>8. NobodyFinishesEarly'
  BY <1>1, <1>2, <1>3 DEF NobodyFinishesEarly
<1> QED BY <1>5, <1>6, <1>7, <1>8

\* A step that leaves seats, names, rounds and boards alone.
LEMMA PInvUntouched ==
  ASSUME PInv, UNCHANGED <<clients, clientVars, rooms, seatVars, game, gameStats>>
  PROVE  PInv'
BY DEF PInv, UnusedRooms, UniqueNicknames, LeaversDiffer, PlayersRemembered, OneRowPerPlayer,
       SeatsTaken, NobodyFinishesEarly, Members, Gone, Players, Running, clientVars, seatVars

\* Every step keeps PInv: one step of the proof per action.
LEMMA NextPInv == IInv /\ PInv /\ [Next]_vars => PInv'
<1> SUFFICES ASSUME IInv, PInv, [Next]_vars PROVE PInv'
  OBVIOUS
<1>1. ASSUME NEW c \in Client, Accept(c) \/ \E n \in Nick : Login(c, n) PROVE PInv'
  BY <1>1, AcceptAndLoginKeepPInv
<1>2. ASSUME NEW c \in Client, CreateRoom(c) PROVE PInv'
  BY <1>2, CreateRoomKeepsPInv
<1>3. ASSUME NEW c \in Client, NEW r \in RoomId, JoinRoom(c, r) \/ RejoinRoom(c, r) PROVE PInv'
  BY <1>3, JoinKeepsPInv
<1>4. ASSUME NEW c \in Client, LeaveRoom(c) \/ Disconnect(c) PROVE PInv'
  BY <1>4, LeaveKeepsPInv
<1>5. ASSUME NEW c \in Client, NEW w \in Words, StartGame(c, w) PROVE PInv'
  BY <1>5, StartGameKeepsPInv
<1>6. ASSUME NEW c \in Client, NEW l \in Letter, Guess(c, l) PROVE PInv'
  BY <1>6, GuessKeepsPInv
<1>7. ASSUME NEW due \in SUBSET RoomId, Tick(due) PROVE PInv'
  BY <1>7, TickKeepsPInv
<1>8. ASSUME Crash PROVE PInv'
  BY <1>8, PInvUntouched DEF Crash, roundVars
<1>9. CASE \/ \E c \in Client : LeaveThrows(c) \/ \E r \in RoomId : RejoinThrows(c, r)
           \/ \E c \in Client, l \in Letter : GuessThrows(c, l)
           \/ \E due \in SUBSET RoomId : TickOverruns(due)
  BY <1>8, <1>9 DEF LeaveThrows, RejoinThrows, GuessThrows, TickOverruns
<1>10. CASE UNCHANGED vars
  BY <1>10, PInvUntouched DEF vars, roundVars
<1> QED BY <1>1, <1>2, <1>3, <1>4, <1>5, <1>6, <1>7, <1>9, <1>10 DEF Next

-----------------------------------------------------------------------------

\* Both invariants hold in every state.
LEMMA PInvHolds == Spec => [](IInv /\ PInv)
<1>1. Init => IInv /\ PInv
  BY InitIInv, InitPInv
<1>2. IInv /\ PInv /\ [Next]_vars => (IInv /\ PInv)'
  BY NextIInv, NextPInv
<1> QED BY <1>1, <1>2, PTL DEF Spec

\* When clients do one thing at a time, a room lists exactly the connected
\* clients that point to it, each under a name of its own (Room.cpp:200-285).
THEOREM SeatsMatchRoomsHolds == Spec => []SeatsMatchRooms
<1>1. IInv /\ PInv => SeatsMatchRooms
  <2> SUFFICES ASSUME IInv, PInv, ~AnyOrder, NEW r \in rooms
               PROVE  /\ \A c \in Client : c \in Members(r) <=> c \in clients /\ room[c] = r
                      /\ DistinctBy(roomClients[r], nickname)
    BY DEF SeatsMatchRooms, DistinctBy
  <2>1. r \in RoomId /\ r # NoRoom
    BY DEF IInv, TypeOK, RoomId, NoRoom
  <2> QED BY <2>1 DEF PInv, SeatsTaken, IInv, NoDanglingRoom
<1> QED BY <1>1, PInvHolds, PTL

\* A member counts as finished only when the member's own board is, so that
\* ROUND_ALL_FINISHED cuts nobody off (Server.cpp:213-222, Room.cpp:348-358).
THEOREM NobodyFinishesEarlyHolds == Spec => []NobodyFinishesEarly
<1>1. PInv => NobodyFinishesEarly
  BY DEF PInv
<1> QED BY <1>1, PInvHolds, PTL

\* Whoever is away in a running round, for whatever reason, is found by Room::join.
LEMMA AwayAreFound ==
  ASSUME IInv, PInv, NEW r \in RoomId, Running(r), NEW d \in Players(r) \ Members(r)
  PROVE  FoundAgain(d, r)
<1>1. d \in Range(disconnectedClients[r]) /\ DistinctBy(disconnectedClients[r], nickname)
  BY DEF PInv, PlayersRemembered, LeaversDiffer, Gone
<1>2. PICK i \in 1..Len(disconnectedClients[r]) : disconnectedClients[r][i] = d
  BY <1>1 DEF Range
<1>3. Len(disconnectedClients[r]) \in Nat
  BY DEF IInv, TypeOK
<1>4. \A j \in 1..(i - 1) : j \in 1..Len(disconnectedClients[r]) /\ j # i
  BY <1>3
<1> QED BY <1>1, <1>2, <1>4 DEF DistinctBy, FoundAgain

\* Who loses the connection in a running round is found by Room::join under the
\* nickname until the round is over or the player is back, in any order of requests
\* (Room.cpp:203-212, 258, 301).  The code grants it to everybody who is away
\* (AwayAreFound), so what the lists were before the step does not matter.
THEOREM LostPlayersAreFoundHolds == Spec => LostPlayersAreFound
<1> DEFINE Found == \A r \in RoomId : Running(r) =>
                      \A d \in Players(r) \ Members(r) : FoundAgain(d, r)
<1>1. IInv /\ PInv => Found
  BY AwayAreFound
<1>2. Found' =>
        [\A r \in RoomId, d \in Client :
           /\ AwayOffline(d, r)'
           /\ \/ d \in clients /\ d \in Members(r)
              \/ AwayOffline(d, r) /\ FoundAgain(d, r)
           => FoundAgain(d, r)']_vars
  BY DEF AwayOffline
<1> HIDE DEF Found
<1> QED BY <1>1, <1>2, PInvHolds, PTL DEF LostPlayersAreFound

-----------------------------------------------------------------------------

\* What becomes of the row of d in a room r whose round goes on: the sentence
\* of ProgressIsNeverLost about one player.
RowLivesOn(r, d) ==
  \/ d \in Players(r)' /\ BoardKept(gameStats[r][d], gameStats'[r][d])
  \/ \E c \in Players(r)' \ Players(r) :
       nickname[c] = nickname[d] /\ gameStats'[r][c] = gameStats[r][d]

\* A row nobody touches lives on.
LEMMA SameRowsLiveOn ==
  ASSUME IInv, NEW r \in RoomId, gameStats'[r] = gameStats[r], NEW d \in Players(r)
  PROVE  RowLivesOn(r, d)
<1>1. gameStats[r][d] \in Stats
  BY DEF IInv, TypeOK
<1>2. BoardKept(gameStats[r][d], gameStats[r][d])
  BY <1>1 DEF BoardKept, Stats
<1> QED BY <1>2 DEF RowLivesOn, Players

\* In every step a row lives on, unless its room is erased or starts again.
LEMMA StepKeepsRows ==
  ASSUME IInv, PInv, [Next]_vars, NEW r \in RoomId, Running(r), r \in rooms', ~Restarted(r),
         NEW d \in Players(r)
  PROVE  RowLivesOn(r, d)
<1>1. ASSUME NEW c \in Client, NEW q \in RoomId, RejoinRoom(c, q) PROVE RowLivesOn(r, d)
  <2> DEFINE f == FormerSelf(c, q)
  <2>1. c \in clients /\ q \in rooms
    BY <1>1 DEF RejoinRoom, MayJoin, MayAskForRoom
  <2>2. /\ nickname[f] = nickname[c] /\ c \notin Players(q)
        /\ Players(q)' = (Players(q) \ {f}) \cup {c}
        /\ gameStats'[q][c] = gameStats[q][f]
        /\ \A e \in Players(q) \ {f} : gameStats'[q][e] = gameStats[q][e]
        /\ \A p \in RoomId \ {q} : gameStats'[p] = gameStats[p]
    BY <1>1, <2>1, RejoinRows
  <2> HIDE DEF f
  <2>3. CASE r # q
    BY <2>2, <2>3, SameRowsLiveOn
  <2>4. CASE r = q /\ d = f
    BY <2>2, <2>4 DEF RowLivesOn
  <2>5. CASE r = q /\ d # f
    <3>1. gameStats[r][d] \in Stats
      BY DEF IInv, TypeOK
    <3>2. BoardKept(gameStats[r][d], gameStats[r][d])
      BY <3>1 DEF BoardKept, Stats
    <3> QED BY <2>2, <2>5, <3>2 DEF RowLivesOn
  <2> QED BY <2>3, <2>4, <2>5
<1>2. ASSUME NEW c \in Client, NEW l \in Letter, Guess(c, l) PROVE RowLivesOn(r, d)
  <2>1. PICK q \in RoomId : q = room[c]
    BY <1>2 DEF Guess, IInv, TypeOK
  <2>2. PICK board : board = PlayGuess(gameStats[q][c], word[q], l)
    OBVIOUS
  <2>3. gameStats' = [gameStats EXCEPT ![q][c] = board] /\ c \in Players(q)
    BY <1>2, <2>1, <2>2 DEF Guess
  <2>4. /\ gameStats'[q] = [gameStats[q] EXCEPT ![c] = board]
        /\ \A p \in RoomId \ {q} : gameStats'[p] = gameStats[p]
    BY <2>3 DEF IInv, TypeOK
  <2>5. CASE r # q
    BY <2>4, <2>5, SameRowsLiveOn
  <2>6. CASE r = q
    <3>1. Players(r)' = Players(r) /\ gameStats[r][d] \in Stats
      BY <2>4, <2>6 DEF Players, IInv, TypeOK
    <3>2. gameStats'[r][d] = IF d = c THEN board ELSE gameStats[r][d]
      BY <2>3, <2>4, <2>6 DEF Players, IInv, TypeOK
    <3>3. AWord(word[r])
      BY WordsAreWords DEF IInv, BoardsSound
    <3>4. BoardKept(gameStats[r][d], gameStats[r][d])
      BY <3>1 DEF BoardKept, Stats
    <3>5. d = c => BoardKept(gameStats[r][d], board)
      BY <2>2, <2>6, <3>1, <3>3, GuessKeepsProgress
    <3> QED BY <3>1, <3>2, <3>4, <3>5 DEF RowLivesOn
  <2> QED BY <2>5, <2>6
<1>3. ASSUME NEW c \in Client, NEW w \in Words, StartGame(c, w) PROVE RowLivesOn(r, d)
  <2>1. room[c] # r
    BY <1>3 DEF Restarted
  <2>2. gameStats'[r] = gameStats[r]
    BY <1>3, <2>1 DEF StartGame, IInv, TypeOK
  <2> QED BY <2>2, SameRowsLiveOn
<1>4. ASSUME NEW due \in SUBSET RoomId, Tick(due) PROVE RowLivesOn(r, d)
  <2>1. gameStats'[r] = gameStats[r]
    BY <1>4 DEF Tick
  <2> QED BY <2>1, SameRowsLiveOn
<1>5. CASE UNCHANGED gameStats
  BY <1>5, SameRowsLiveOn
<1>6. ASSUME NEW c \in Client,
             \/ Accept(c) \/ CreateRoom(c) \/ LeaveRoom(c) \/ Disconnect(c) \/ LeaveThrows(c)
             \/ \E n \in Nick : Login(c, n)
             \/ \E q \in RoomId : JoinRoom(c, q) \/ RejoinThrows(c, q)
             \/ \E l \in Letter : GuessThrows(c, l)
      PROVE  UNCHANGED gameStats
  BY <1>6 DEF Accept, CreateRoom, LeaveRoom, Disconnect, Vacate, LeaveThrows, Login, JoinRoom,
              RejoinThrows, GuessThrows, Crash, roundVars
<1>7. ASSUME NEW due \in SUBSET RoomId, TickOverruns(due) PROVE UNCHANGED gameStats
  BY <1>7 DEF TickOverruns, Crash, roundVars
<1>8. CASE UNCHANGED vars
  BY <1>5, <1>8 DEF vars, roundVars
<1> QED BY <1>1, <1>2, <1>3, <1>4, <1>5, <1>6, <1>7, <1>8 DEF Next

\* No step of a running round loses a player's progress, whatever the clients
\* send: the board stays and only grows, or a client of the same nickname takes
\* it over unchanged (Room.cpp:200-285, Server.cpp:187-227).
THEOREM ProgressIsNeverLostHolds == Spec => ProgressIsNeverLost
<1>1. IInv /\ PInv /\ [Next]_vars =>
        [\A r \in RoomId : Running(r) /\ r \in rooms' /\ ~Restarted(r) =>
           \A d \in Players(r) :
             \/ d \in Players(r)' /\ BoardKept(gameStats[r][d], gameStats'[r][d])
             \/ \E c \in Players(r)' \ Players(r) :
                  nickname[c] = nickname[d] /\ gameStats'[r][c] = gameStats[r][d]]_vars
  BY StepKeepsRows DEF RowLivesOn
<1> QED BY <1>1, PInvHolds, PTL DEF Spec, ProgressIsNeverLost
=============================================================================
