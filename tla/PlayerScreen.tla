---------------------------- MODULE PlayerScreen ----------------------------
(***************************************************************************)
(* One player of a room: the player's board on the server, the answers and *)
(* guesses under way, and the game scene of the player's program           *)
(* (GameWidget and the connections MainWindow makes).                      *)
(*                                                                         *)
(* The other players of the room are the environment: they keep the room   *)
(* open, start rounds and finish them at any time.  Messages whose         *)
(* handling touches none of these variables (lists, clock, PING) are left  *)
(* out.  Each write empties the sending buffer (see Outbox).               *)
(***************************************************************************)
EXTENDS GameStats, SequencesExt

CONSTANTS
  Calm,        \* TRUE: messages are faster than people, as stated below
  MaxInFlight  \* bound: answers under way and open boxes at a START_GAME

ASSUME PlayerScreenAssumption == Calm \in BOOLEAN /\ MaxInFlight \in Nat

VARIABLES
  word, board,        \* Game::word and the player's row of Room::gameStats
  hasRow,             \* there is such a row for the player's Client object
  running,            \* Game::inProgress
  inGame,             \* Client::inGame
  outbox, wire,       \* messages in Client::sendingBuffer and in the socket
  guesses,            \* GUESS letters on their way to the server
  connected,          \* both ends have the connection
  scene,              \* the current widget, or "closed": the program has died
  shown,              \* what the scene shows: word, errors and score
  used, enabled,      \* isCharacterUsed; the letter buttons are enabled
  infoBoxes,          \* open boxes of ROUND_SINGLE_FINISHED/_OVER
  resultBoxes,        \* open boxes of ROUND_ALL_FINISHED/_TIMEOUT
  rejoins             \* GAME_REJOINED payloads waiting for their 100 ms

server == <<word, board, hasRow, running, inGame>>
boxes  == <<infoBoxes, resultBoxes>>
widget == <<scene, shown, used, enabled, infoBoxes, resultBoxes, rejoins>>
vars   == <<server, outbox, wire, guesses, connected, widget>>

\* Nothing is under way between the server and the player's program.
Settled == outbox = <<>> /\ wire = <<>> /\ guesses = <<>> /\ rejoins = <<>>

View(s) == [word |-> s.wordWithHiddenChars, errors |-> s.errors, score |-> s.score]

Msg(type, s) == [type |-> type, board |-> s]

Init ==
  /\ word = <<>> /\ board = NewStats(<<>>)
  /\ hasRow = FALSE /\ running = FALSE /\ inGame = FALSE
  /\ outbox = <<>> /\ wire = <<>> /\ guesses = <<>>
  /\ connected = TRUE /\ scene = "lobby" /\ shown = View(board)
  /\ used = {} /\ enabled = FALSE
  /\ infoBoxes = 0 /\ resultBoxes = 0 /\ rejoins = <<>>

-----------------------------------------------------------------------------
(***************************************************************************)
(* The server.  Queue adds messages in the order the handler gives them:   *)
(* Client::addMessageToBuffer puts each in front of the others.            *)
(***************************************************************************)

\* Mutant: each message is put behind the others.
QueuesBehind(msgs) == outbox' = outbox \o msgs

Queue(msgs) == outbox' = Reverse(msgs) \o outbox

(***************************************************************************)
(* Somebody presses Start.  When Calm, nobody does while this player has   *)
(* messages under way or a box to close.  A round that starts without the  *)
(* player is left to HangmanServer.                                        *)
(***************************************************************************)
StartRound ==
  /\ connected
  /\ Calm => Settled /\ boxes = <<0, 0>>
  /\ Len(outbox) + Len(wire) + infoBoxes + resultBoxes < MaxInFlight
  /\ word' \in Words
  /\ board' = NewStats(word')
  /\ hasRow' = TRUE /\ running' = TRUE /\ inGame' = TRUE
  /\ Queue(<<Msg("GAME_STARTED", board')>>)
  /\ UNCHANGED <<wire, guesses, connected, widget>>

\* What checkGuess answers; othersDone: every other player of the room finished.
Answers(before, after, letter, othersDone) ==
  IF GuessIgnored(before, letter) THEN <<>>
  ELSE IF IsLetterCorrect(word, letter)
       THEN <<Msg("GUESS_OK", after)>>
              \o IF after.fullWordGuessed /\ ~othersDone
                 THEN <<Msg("ROUND_SINGLE_FINISHED", after)>> ELSE <<>>
       ELSE <<Msg("GUESS_WRONG", after)>>
              \o (IF after.errors = MaxErrors
                  THEN <<Msg("ROUND_SINGLE_OVER", after)>> ELSE <<>>)
              \o (IF after.fullWordGuessed /\ ~othersDone
                  THEN <<Msg("ROUND_SINGLE_FINISHED", after)>> ELSE <<>>)

HandleGuess ==
  LET letter == Head(guesses)
      after  == PlayGuess(board, word, letter)
  IN /\ guesses # <<>> /\ hasRow
     /\ guesses' = Tail(guesses)
     /\ board' = after
     /\ inGame' = (inGame /\ (GuessIgnored(board, letter) \/ ~RoundFinished(after)))
     /\ \E othersDone \in BOOLEAN : Queue(Answers(board, after, letter, othersDone))
     /\ UNCHANGED <<word, hasRow, running, wire, connected, widget>>

\* Room::updateGame finds the time over, or nobody in the game, or both.
EndRound ==
  \E timedOut, allFinished \in BOOLEAN :
    /\ running /\ (timedOut \/ allFinished)
    /\ allFinished => ~inGame \/ ~connected
    /\ running' = FALSE
    /\ IF connected
       THEN Queue((IF timedOut THEN <<Msg("ROUND_TIMEOUT", board)>> ELSE <<>>)
               \o (IF allFinished THEN <<Msg("ROUND_ALL_FINISHED", board)>> ELSE <<>>))
       ELSE UNCHANGED outbox
    /\ UNCHANGED <<word, board, hasRow, inGame, wire, guesses, connected, widget>>

WriteOut ==
  /\ outbox # <<>>
  /\ wire' = wire \o outbox
  /\ outbox' = <<>>
  /\ UNCHANGED <<server, guesses, connected, widget>>

BackInRoom ==
  /\ ~connected /\ connected' = TRUE
  /\ scene = "connect" /\ boxes = <<0, 0>> /\ scene' = "menu"
  /\ Calm => rejoins = <<>>
  /\ hasRow' = running /\ inGame' = running
  /\ UNCHANGED <<word, board, running, wire, guesses, shown, used, enabled,
                 boxes, rejoins>>

\* Mutant: a round is resumed although it is over.
ResumesEndedRound ==
  /\ BackInRoom
  /\ Queue(<<Msg("GAME_STARTED", NewStats(word)), Msg("GAME_REJOINED", board),
             Msg("ROOM_OK", board)>>)

(***************************************************************************)
(* The player has connected, logged in and asked to join: the part of      *)
(* Server::joinRoom for a nickname whose seat was lost.                    *)
(***************************************************************************)
Rejoin ==
  /\ BackInRoom
  /\ Queue((IF running THEN <<Msg("GAME_STARTED", NewStats(word)),
                              Msg("GAME_REJOINED", board)>>
                       ELSE <<>>)
           \o <<Msg("ROOM_OK", board)>>)

\* The connection ends and whatever is under way is lost.  The program shows the
\* connect scene; its boxes and timers stay.
LoseConnection ==
  /\ connected /\ connected' = FALSE
  /\ outbox' = <<>> /\ wire' = <<>> /\ guesses' = <<>>
  /\ scene' = "connect"
  /\ UNCHANGED <<server, shown, used, enabled, boxes, rejoins>>

ProgramEnds(next) ==
  /\ connected' = FALSE /\ scene' = next
  /\ outbox' = <<>> /\ wire' = <<>> /\ guesses' = <<>>
  /\ shown' = View(NewStats(<<>>)) /\ used' = {} /\ enabled' = FALSE
  /\ infoBoxes' = 0 /\ resultBoxes' = 0 /\ rejoins' = <<>>
  /\ UNCHANGED server

\* The player ends the program, or finds it dead, and starts it again.
RestartProgram == ProgramEnds("connect")

-----------------------------------------------------------------------------
(***************************************************************************)
(* The player's program.  One action per message type TcpClient hands to a *)
(* scene, then the timers and the player.                                  *)
(***************************************************************************)

Received(types) ==
  /\ wire # <<>> /\ Head(wire).type \in types
  /\ wire' = Tail(wire)
  /\ UNCHANGED <<server, outbox, guesses, connected>>

RoomOK ==
  /\ Received({"ROOM_OK"})
  /\ scene' = "lobby"
  /\ UNCHANGED <<shown, used, enabled, boxes, rejoins>>

GameStarted ==
  /\ Received({"GAME_STARTED"})
  /\ scene' = "game"
  /\ shown' = View(Head(wire).board)
  /\ used' = {} /\ enabled' = TRUE
  /\ UNCHANGED <<boxes, rejoins>>

GameRejoined ==
  /\ Received({"GAME_REJOINED"})
  /\ Head(wire).board.usedLetters # {}
  /\ rejoins' = Append(rejoins, Head(wire).board)
  /\ UNCHANGED <<scene, shown, used, enabled, boxes>>

(***************************************************************************)
(* splitMessage drops an empty last field, so a payload without a used     *)
(* letter has three fields and result[3] is read beyond them: a string of  *)
(* uninitialised memory, which the AddressSanitizer build dies of.         *)
(***************************************************************************)
GameRejoinedUnreadable ==
  /\ wire # <<>> /\ Head(wire).type = "GAME_REJOINED"
  /\ Head(wire).board.usedLetters = {}
  /\ ProgramEnds("closed")

\* Mutant: the buttons stay disabled.
StaysDisabled ==
  /\ Received({"GUESS_OK"})
  /\ shown' = [shown EXCEPT !.word  = Head(wire).board.wordWithHiddenChars,
                            !.score = Head(wire).board.score]
  /\ UNCHANGED <<scene, used, enabled, boxes, rejoins>>

GuessCorrect ==
  /\ Received({"GUESS_OK"})
  /\ shown' = [shown EXCEPT !.word  = Head(wire).board.wordWithHiddenChars,
                            !.score = Head(wire).board.score]
  /\ enabled' = TRUE
  /\ UNCHANGED <<scene, used, boxes, rejoins>>

\* Mutant: the buttons stay disabled after a wrong letter.
StaysDisabledWhenWrong ==
  /\ Received({"GUESS_WRONG"})
  /\ shown' = [shown EXCEPT !.errors = @ + 1, !.score = Head(wire).board.score]
  /\ UNCHANGED <<scene, used, enabled, boxes, rejoins>>

GuessIncorrect ==
  /\ Received({"GUESS_WRONG"})
  /\ shown' = [shown EXCEPT !.errors = @ + 1, !.score = Head(wire).board.score]
  /\ enabled' = TRUE
  /\ UNCHANGED <<scene, used, boxes, rejoins>>

SingleRoundOver ==
  /\ Received({"ROUND_SINGLE_FINISHED", "ROUND_SINGLE_OVER"})
  /\ enabled' = FALSE
  /\ infoBoxes' = infoBoxes + 1
  /\ UNCHANGED <<scene, shown, used, resultBoxes, rejoins>>

RoundOver ==
  /\ Received({"ROUND_ALL_FINISHED", "ROUND_TIMEOUT"})
  /\ enabled' = FALSE
  /\ resultBoxes' = resultBoxes + 1
  /\ UNCHANGED <<scene, shown, used, infoBoxes, rejoins>>

Receive == \/ RoomOK \/ GameStarted \/ GameRejoined \/ GameRejoinedUnreadable
           \/ GuessCorrect \/ GuessIncorrect \/ SingleRoundOver \/ RoundOver

\* Mutant: the letters used before are offered again.
OffersUsedLetters ==
  /\ rejoins # <<>>
  /\ Calm => outbox = <<>> /\ wire = <<>>
  /\ shown' = View(Head(rejoins))
  /\ enabled' = TRUE
  /\ rejoins' = Tail(rejoins)
  /\ UNCHANGED <<server, outbox, wire, guesses, connected, scene, used, boxes>>

(***************************************************************************)
(* The 100 ms after GAME_REJOINED are over.  When Calm, GAME_STARTED,      *)
(* which follows GAME_REJOINED, has been handled by then.  The buttons are *)
(* made anew, so they are enabled.                                         *)
(***************************************************************************)
RejoinTimer ==
  /\ rejoins # <<>>
  /\ Calm => outbox = <<>> /\ wire = <<>>
  /\ shown' = View(Head(rejoins))
  /\ used' = used \cup Head(rejoins).usedLetters
  /\ enabled' = TRUE
  /\ rejoins' = Tail(rejoins)
  /\ UNCHANGED <<server, outbox, wire, guesses, connected, scene, boxes>>

\* The player, or the box's own timer, closes a box.
CloseInfo ==
  /\ infoBoxes > 0
  /\ infoBoxes' = infoBoxes - 1
  /\ UNCHANGED <<server, outbox, wire, guesses, connected, scene, shown, used,
                 enabled, resultBoxes, rejoins>>

\* Its button and its timer also bring the player back to the lobby.
CloseResult ==
  /\ resultBoxes > 0
  /\ resultBoxes' = resultBoxes - 1
  /\ scene' = "lobby"
  /\ UNCHANGED <<server, outbox, wire, guesses, connected, shown, used, enabled,
                 infoBoxes, rejoins>>

\* Closed with the X of its window the box emits nothing, and its timer goes too.
CloseResultWindow ==
  /\ resultBoxes > 0
  /\ resultBoxes' = resultBoxes - 1
  /\ UNCHANGED <<server, outbox, wire, guesses, connected, scene, shown, used,
                 enabled, infoBoxes, rejoins>>

\* A screen that replaces what the player looks at is under way.
ScreenComing ==
  \/ rejoins # <<>>
  \/ \E m \in Range(outbox \o wire) : m.type \in {"GAME_STARTED", "GAME_REJOINED"}

\* The boxes are modal, and a used letter's button is hidden.  When Calm, nobody
\* is quick enough to click on a screen that is about to be replaced.
Click(letter) ==
  /\ connected /\ scene = "game" /\ enabled /\ boxes = <<0, 0>>
  /\ letter \notin used
  /\ Calm => ~ScreenComing
  /\ used' = used \cup {letter}
  /\ enabled' = FALSE
  /\ guesses' = Append(guesses, letter)
  /\ UNCHANGED <<server, outbox, wire, connected, scene, shown, boxes, rejoins>>

Next ==
  \/ StartRound \/ HandleGuess \/ EndRound \/ WriteOut
  \/ Rejoin \/ LoseConnection \/ RestartProgram
  \/ Receive \/ RejoinTimer
  \/ CloseInfo \/ CloseResult \/ CloseResultWindow
  \/ \E letter \in Letter : Click(letter)

(***************************************************************************)
(* Fair: what the server's loop and the event loop of the player's program *)
(* do by themselves.  Nobody has to play, to rejoin or to start a round.   *)
(***************************************************************************)
Spec == /\ Init /\ [][Next]_vars
        /\ WF_vars(HandleGuess) /\ WF_vars(WriteOut)
        /\ WF_vars(Receive) /\ WF_vars(RejoinTimer)

-----------------------------------------------------------------------------

\* Every variable has its type; the score, an int in GameStats.h, is not negative.
TypeOK ==
  LET Message == [type : {"GAME_STARTED", "GAME_REJOINED", "ROOM_OK", "GUESS_OK",
                          "GUESS_WRONG", "ROUND_SINGLE_FINISHED",
                          "ROUND_SINGLE_OVER", "ROUND_ALL_FINISHED", "ROUND_TIMEOUT"},
                  board : Stats]
  IN /\ word \in Words \cup {<<>>} /\ board \in Stats
     /\ {hasRow, running, inGame, enabled} \subseteq BOOLEAN
     /\ outbox \in Seq(Message) /\ wire \in Seq(Message)
     /\ guesses \in Seq(Letter) /\ used \subseteq Letter
     /\ scene \in {"connect", "menu", "lobby", "game", "closed"} /\ connected \in BOOLEAN
     /\ infoBoxes \in Nat /\ resultBoxes \in Nat
     /\ rejoins \in Seq(Stats)

Playing == connected /\ running /\ Settled

\* README.md:101: the player continues with the previous board.  Once every
\* message is handled, the scene of a player of a running round is the game, and
\* it shows the word, the errors and the score the server has, and, until the
\* player is done, offers exactly the letters the server still accepts.  It holds
\* although ROOM_OK is given last and the client counts the errors itself.
ScreenShowsBoard ==
  Playing => /\ scene = "game"
             /\ shown = View(board)
             /\ ~RoundFinished(board) => used = board.usedLetters

\* A player who is not done can try another letter (GameWidget.cpp:177, 205).
PlayerCanGuess == Playing /\ ~RoundFinished(board) => enabled

\* A guess under way finds a row in Room::gameStats, for which checkGuess asks
\* with at() (Server.cpp:187), and a letter the row does not have: one it has
\* would get no answer, and the buttons would stay disabled (Server.cpp:194-197).
GuessesAreAnswerable ==
  \A i \in 1..Len(guesses) : hasRow /\ guesses[i] \notin board.usedLetters

\* Disabled buttons come back: a player of a running round does not wait for ever.
Waiting == /\ connected /\ running /\ scene = "game"
           /\ ~enabled /\ ~RoundFinished(board)
WaitingEnds == Waiting ~> ~Waiting

\* README.md:82-90: a player who has guessed the whole word or has no tries left
\* ends the round and gets the result; so no later guess changes the board.
FinishedBoardIsFinal ==
  [][HandleGuess /\ RoundFinished(board) => board' = board]_vars

\* README.md:101: after coming back the player continues with the previous board;
\* so the program survives the messages that bring the board back.
ProgramSurvives == scene # "closed"
=============================================================================
