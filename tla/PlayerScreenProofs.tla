-------------------------- MODULE PlayerScreenProofs -------------------------
(***************************************************************************)
(* Proofs about PlayerScreen: the types for any player, the screen and the *)
(* guesses for one whose messages are faster than people (Calm), for any   *)
(* words, letters and number of tries.                                     *)
(***************************************************************************)
EXTENDS PlayerScreen, GameStatsProofs, SequenceLemmas

Types == {"GAME_STARTED", "GAME_REJOINED", "ROOM_OK", "GUESS_OK", "GUESS_WRONG",
          "ROUND_SINGLE_FINISHED", "ROUND_SINGLE_OVER", "ROUND_ALL_FINISHED",
          "ROUND_TIMEOUT"}

Answer  == {"GUESS_OK", "GUESS_WRONG"}
Single  == {"ROUND_SINGLE_FINISHED", "ROUND_SINGLE_OVER"}
Result  == {"ROUND_ALL_FINISHED", "ROUND_TIMEOUT"}
Started == {"GAME_STARTED"}
Resumed == {"GAME_REJOINED"}
Entered == {"ROOM_OK"}

Message == [type : Types, board : Stats]
Screen  == [word : Seq(Letter \cup {Blank, Hidden}), errors : Nat, score : Nat]

\* The messages on their way to the program, and those of some types.
Coming == Range(wire) \cup Range(outbox)

OnItsWay(types) == {m \in Coming : m.type \in types}

\* In a list of messages none of the types T comes before one of the types U.
Never(s, T, U) ==
  \A i, j \in 1..Len(s) : i < j => ~(s[i].type \in T /\ s[j].type \in U)

\* The board belongs to the word, once there is one.
BoardSound ==
  \/ word \in Words /\ Sound(board, word)
  \/ word = <<>> /\ board = NewStats(<<>>) /\ hasRow = FALSE /\ running = FALSE

TInv == TypeOK /\ BoardSound /\ shown \in Screen

-----------------------------------------------------------------------------
(***************************************************************************)
(* What holds between the messages of a calm player.                       *)
(***************************************************************************)

\* Nothing is under way on a connection that has ended.
Ended ==
  ~connected => outbox = <<>> /\ wire = <<>> /\ guesses = <<>> /\ scene # "game"

\* The result of a round that is running has not been sent.
RoundOpen == running => resultBoxes = 0 /\ OnItsWay(Result) = {}

\* One guess or one answer is under way at a time; the buttons are disabled, and
\* no new screen comes meanwhile.
OneGuess ==
  /\ Len(guesses) <= 1
  /\ guesses # <<>> => /\ hasRow /\ guesses[1] \in used \ board.usedLetters
                       /\ OnItsWay(Answer) = {}
  /\ guesses # <<>> \/ OnItsWay(Answer) # {} => ~enabled /\ ~ScreenComing
  /\ Never(wire \o outbox, Answer, Answer)
  /\ OnItsWay(Single) # {} => RoundFinished(board)

\* A screen that is coming is a new round's, or the board as it is now: no
\* guess changes it before the screen is there.
NextScreen ==
  connected /\ ScreenComing =>
    /\ hasRow
    /\ \A m \in OnItsWay(Started) : m.board = NewStats(word)
    /\ \A m \in OnItsWay(Resumed) : m.board = board
    /\ \A s \in Range(rejoins) : s = board
    /\ rejoins = <<>> /\ OnItsWay(Resumed) = {} => board = NewStats(word)
    /\ OnItsWay(Started) = {} => used \subseteq board.usedLetters

\* The game scene of a running round is shown, or comes after ROOM_OK.
GameShown ==
  /\ running /\ connected =>
       \/ scene = "game" /\ OnItsWay(Entered) = {}
       \/ OnItsWay(Started) # {}
  /\ Never(wire \o outbox, Started, Entered)

\* What the game scene shows is the board, but for an answer under way.
ShownRight ==
  connected /\ scene = "game" /\ ~ScreenComing =>
    /\ hasRow /\ board.usedLetters \subseteq used
    /\ ~RoundFinished(board) => used = board.usedLetters \cup Range(guesses)
    /\ OnItsWay(Answer) = {} => shown = View(board)
    /\ \A m \in OnItsWay(Answer) :
         /\ m.board = board
         /\ IF m.type = "GUESS_OK" THEN shown.errors = board.errors
            ELSE /\ shown.errors + 1 = board.errors
                 /\ shown.word = board.wordWithHiddenChars
    /\ running /\ ~RoundFinished(board) /\ guesses = <<>> /\ OnItsWay(Answer) = {}
         => enabled

SInv == TInv /\ Ended /\ RoundOpen /\ OneGuess /\ NextScreen /\ GameShown /\ ShownRight

-----------------------------------------------------------------------------
(***************************************************************************)
(* Lists of messages.                                                      *)
(***************************************************************************)

LEMMA RangeConcat ==
  ASSUME NEW X, NEW s \in Seq(X), NEW t \in Seq(X)
  PROVE  s \o t \in Seq(X) /\ Range(s \o t) = Range(s) \cup Range(t)
<1> DEFINE u == s \o t
<1>1. /\ u \in Seq(X) /\ Len(u) = Len(s) + Len(t)
      /\ \A i \in 1..(Len(s) + Len(t)) :
           u[i] = IF i <= Len(s) THEN s[i] ELSE t[i - Len(s)]
  BY ConcatProperties
<1>2. Len(s) \in Nat /\ Len(t) \in Nat
  OBVIOUS
<1> HIDE DEF u
<1>3. ASSUME NEW i \in 1..Len(s) PROVE i \in 1..Len(u) /\ u[i] = s[i]
  BY <1>1, <1>2
<1>4. ASSUME NEW i \in 1..Len(t)
      PROVE  Len(s) + i \in 1..Len(u) /\ u[Len(s) + i] = t[i]
  <2>1. Len(s) + i \in 1..(Len(s) + Len(t)) /\ ~(Len(s) + i <= Len(s))
    BY <1>2
  <2>2. Len(s) + i - Len(s) = i
    BY <1>2
  <2> QED BY <1>1, <2>1, <2>2
<1>5. ASSUME NEW i \in 1..Len(u)
      PROVE  (\E j \in 1..Len(s) : u[i] = s[j]) \/ (\E j \in 1..Len(t) : u[i] = t[j])
  <2>1. CASE i <= Len(s)
    BY <1>1, <1>2, <2>1
  <2>2. CASE ~(i <= Len(s))
    <3>1. i - Len(s) \in 1..Len(t)
      BY <1>1, <1>2, <2>2
    <3> QED BY <1>1, <2>2, <3>1
  <2> QED BY <2>1, <2>2
<1>6. /\ Range(u) = {u[i] : i \in 1..Len(u)} /\ Range(s) = {s[i] : i \in 1..Len(s)}
      /\ Range(t) = {t[i] : i \in 1..Len(t)}
  BY <1>1 DEF Range
<1>7. Range(u) \subseteq Range(s) \cup Range(t)
  BY <1>5, <1>6
<1>8. Range(s) \subseteq Range(u) /\ Range(t) \subseteq Range(u)
  BY <1>3, <1>4, <1>6
<1> QED BY <1>1, <1>7, <1>8 DEF u

\* Queue's list is the handler's in reverse.
LEMMA ReverseFacts ==
  ASSUME NEW X, NEW s \in Seq(X), NEW T, NEW U
  PROVE  /\ Reverse(s) \in Seq(X) /\ Range(Reverse(s)) = Range(s)
         /\ Never(s, U, T) => Never(Reverse(s), T, U)
<1> DEFINE r == Reverse(s)
           n == Len(s)
<1>1. n \in Nat /\ \A i \in 1..n : n - i + 1 \in 1..n /\ s[i] \in X
  OBVIOUS
<1>2. r = [i \in 1..n |-> s[n - i + 1]]
  BY DEF Reverse
<1> HIDE DEF n, r
<1>3. r \in Seq(X) /\ Len(r) = n
  BY <1>1, <1>2
<1>4. \A i \in 1..n : r[i] = s[n - i + 1] /\ s[i] = r[n - i + 1]
  <2> TAKE i \in 1..n
  <2>1. n - (n - i + 1) + 1 = i
    BY <1>1
  <2> QED BY <1>1, <1>2, <2>1
<1>5. Range(r) = {r[i] : i \in 1..n} /\ Range(s) = {s[i] : i \in 1..n}
  BY <1>3 DEF Range, n
<1>6. Range(r) = Range(s)
  BY <1>1, <1>4, <1>5
<1>7. ASSUME Never(s, U, T), NEW i \in 1..n, NEW j \in 1..n, i < j
      PROVE  ~(r[i].type \in T /\ r[j].type \in U)
  <2>1. n - j + 1 < n - i + 1 /\ n - j + 1 \in 1..n /\ n - i + 1 \in 1..n
    BY <1>1, <1>7
  <2>2. r[i] = s[n - i + 1] /\ r[j] = s[n - j + 1]
    BY <1>4
  <2> QED BY <1>7, <2>1, <2>2 DEF Never, n
<1> QED BY <1>3, <1>6, <1>7 DEF Never, r

\* Of two lists behind each other each is in order, and so are the two.
LEMMA NeverConcat ==
  ASSUME NEW X, NEW s \in Seq(X), NEW t \in Seq(X), NEW T, NEW U
  PROVE  Never(s \o t, T, U) <=>
           /\ Never(s, T, U) /\ Never(t, T, U)
           /\ \A x \in Range(s), y \in Range(t) : ~(x.type \in T /\ y.type \in U)
<1> DEFINE u == s \o t
           n == Len(s)
<1>1. /\ Len(u) = n + Len(t) /\ n \in Nat /\ Len(t) \in Nat
      /\ \A i \in 1..(n + Len(t)) : u[i] = IF i <= n THEN s[i] ELSE t[i - n]
  BY ConcatProperties
<1>2. Range(s) = {s[i] : i \in 1..n} /\ Range(t) = {t[i] : i \in 1..Len(t)}
  BY DEF Range
<1>3. \A i \in 1..n : i \in 1..Len(u) /\ u[i] = s[i]
  <2> HIDE DEF u, n
  <2> QED BY <1>1
<1>4. ASSUME NEW i \in 1..Len(t) PROVE n + i \in 1..Len(u) /\ u[n + i] = t[i] /\ n < n + i
  <2> HIDE DEF u, n
  <2>1. n + i \in 1..(n + Len(t)) /\ ~(n + i <= n) /\ n + i - n = i
    BY <1>1
  <2> QED BY <1>1, <2>1
<1>5. ASSUME NEW i \in 1..Len(u)
      PROVE  \/ i \in 1..n /\ u[i] = s[i]
             \/ i > n /\ i - n \in 1..Len(t) /\ u[i] = t[i - n]
  <2> HIDE DEF u, n
  <2> QED BY <1>1
<1> HIDE DEF u
<1>6. ASSUME Never(u, T, U)
      PROVE  /\ Never(s, T, U) /\ Never(t, T, U)
             /\ \A x \in Range(s), y \in Range(t) : ~(x.type \in T /\ y.type \in U)
  <2>1. Never(s, T, U)
    BY <1>3, <1>6 DEF Never
  <2>2. ASSUME NEW i \in 1..Len(t), NEW j \in 1..Len(t), i < j
        PROVE  ~(t[i].type \in T /\ t[j].type \in U)
    <3>1. n + i < n + j
      BY <1>1, <2>2
    <3> QED BY <1>4, <1>6, <3>1 DEF Never
  <2>3. ASSUME NEW i \in 1..n, NEW j \in 1..Len(t)
        PROVE  ~(s[i].type \in T /\ t[j].type \in U)
    <3>1. i < n + j
      BY <1>1
    <3> QED BY <1>3, <1>4, <1>6, <3>1 DEF Never
  <2> QED BY <1>2, <2>1, <2>2, <2>3 DEF Never
<1>7. ASSUME Never(s, T, U), Never(t, T, U),
             \A x \in Range(s), y \in Range(t) : ~(x.type \in T /\ y.type \in U),
             NEW i \in 1..Len(u), NEW j \in 1..Len(u), i < j
      PROVE  ~(u[i].type \in T /\ u[j].type \in U)
  <2>1. CASE i > n
    <3>1. j > n
      BY <1>1, <1>7, <2>1
    <3>2. /\ i - n \in 1..Len(t) /\ j - n \in 1..Len(t) /\ u[i] = t[i - n] /\ u[j] = t[j - n]
      BY <1>1, <1>5, <2>1, <3>1
    <3>3. i - n < j - n
      BY <1>1, <1>7
    <3> QED BY <1>7, <3>2, <3>3 DEF Never
  <2>2. CASE ~(i > n) /\ j > n
    <3>1. i \in 1..n /\ u[i] = s[i]
      BY <1>5, <2>2
    <3>2. j - n \in 1..Len(t) /\ u[j] = t[j - n]
      BY <1>1, <1>5, <2>2
    <3>3. u[i] \in Range(s) /\ u[j] \in Range(t)
      BY <1>2, <3>1, <3>2
    <3> QED BY <1>7, <3>3
  <2>3. CASE ~(i > n) /\ ~(j > n)
    BY <1>1, <1>5, <1>7, <2>3 DEF Never
  <2> QED BY <2>1, <2>2, <2>3
<1> QED BY <1>6, <1>7 DEF Never, u

\* What is left of a list when its first message is taken.
LEMMA TailFacts ==
  ASSUME NEW X, NEW s \in Seq(X), s # <<>>
  PROVE  /\ Tail(s) \in Seq(X) /\ Head(s) \in X
         /\ Range(s) = Range(Tail(s)) \cup {Head(s)}
         /\ \A T, U : Never(s, T, U) =>
              /\ Never(Tail(s), T, U)
              /\ Head(s).type \in T => \A y \in Range(Tail(s)) : y.type \notin U
<1> DEFINE t == Tail(s)
           n == Len(s)
<1>1. /\ t \in Seq(X) /\ Len(t) = n - 1 /\ n \in Nat /\ n > 0 /\ Head(s) = s[1]
      /\ \A i \in 1..(n - 1) : t[i] = s[i + 1]
      /\ s[1] \in X
  BY HeadTailProperties
<1> HIDE DEF t
<1>2. Range(s) = {s[i] : i \in 1..n} /\ Range(t) = {t[i] : i \in 1..Len(t)}
  <2>1. Range(s) = {s[i] : i \in 1..n}
    BY DEF Range
  <2>2. t \in Seq(X)
    BY <1>1
  <2> QED BY <2>1, <2>2 DEF Range
<1>3. Range(s) = Range(t) \cup {Head(s)}
  <2>1. ASSUME NEW i \in 1..n PROVE s[i] = Head(s) \/ \E j \in 1..Len(t) : s[i] = t[j]
    <3>1. CASE i = 1
      BY <1>1, <3>1
    <3>2. CASE i # 1
      <4>1. i - 1 \in 1..(n - 1) /\ i - 1 + 1 = i
        BY <1>1, <3>2
      <4> QED BY <1>1, <4>1
    <3> QED BY <3>1, <3>2
  <2>2. ASSUME NEW j \in 1..Len(t) PROVE \E i \in 1..n : t[j] = s[i]
    <3>1. j \in 1..(n - 1) /\ j + 1 \in 1..n
      BY <1>1
    <3> QED BY <1>1, <3>1
  <2>3. \E i \in 1..n : Head(s) = s[i]
    BY <1>1
  <2> HIDE DEF n
  <2> QED BY <1>2, <2>1, <2>2, <2>3
<1>4. ASSUME NEW T, NEW U, Never(s, T, U)
      PROVE  /\ Never(t, T, U)
             /\ Head(s).type \in T => \A y \in Range(t) : y.type \notin U
  <2>1. ASSUME NEW i \in 1..Len(t), NEW j \in 1..Len(t), i < j
        PROVE  ~(t[i].type \in T /\ t[j].type \in U)
    <3>1. /\ i + 1 \in 1..n /\ j + 1 \in 1..n /\ i + 1 < j + 1
          /\ t[i] = s[i + 1] /\ t[j] = s[j + 1]
      BY <1>1, <2>1
    <3> QED BY <1>4, <3>1 DEF Never, n
  <2>2. ASSUME Head(s).type \in T, NEW j \in 1..Len(t) PROVE t[j].type \notin U
    <3>1. 1 \in 1..n /\ j + 1 \in 1..n /\ 1 < j + 1 /\ t[j] = s[j + 1]
      BY <1>1
    <3> QED BY <1>1, <1>4, <2>2, <3>1 DEF Never, n
  <2> QED BY <1>2, <2>1, <2>2 DEF Never
<1> QED BY <1>1, <1>3, <1>4 DEF t

LEMMA OneMessage ==
  ASSUME NEW X, NEW m \in X
  PROVE  /\ <<m>> \in Seq(X) /\ Range(<<m>>) = {m}
         /\ \A T, U : Never(<<m>>, T, U)
<1>1. <<m>> \in Seq(X) /\ Len(<<m>>) = 1 /\ <<m>>[1] = m
  OBVIOUS
<1>2. Range(<<m>>) = {m}
  BY <1>1 DEF Range
<1>3. \A i, j \in 1..Len(<<m>>) : ~(i < j)
  BY <1>1
<1> QED BY <1>1, <1>2, <1>3 DEF Never

LEMMA NoMessage ==
  ASSUME NEW X
  PROVE  /\ <<>> \in Seq(X) /\ Range(<<>>) = {}
         /\ \A T, U : Never(<<>>, T, U)
BY DEF Range, Never

-----------------------------------------------------------------------------
(***************************************************************************)
(* Boards and answers.                                                     *)
(***************************************************************************)

LEMMA BoardFacts ==
  /\ NewStats(<<>>) \in Stats
  /\ \A w \in Words : NewStats(w) \in Stats /\ Sound(NewStats(w), w)
  /\ \A w : NewStats(w).usedLetters = {} /\ ~NewStats(w).fullWordGuessed
            /\ NewStats(w).errors = 0
  /\ \A s \in Stats : View(s) \in Screen
<1>1. NewStats(<<>>) \in Stats
  <2>1. NewStats(<<>>).wordWithHiddenChars \in Seq(Letter \cup {Blank, Hidden})
    BY DEF NewStats
  <2> QED BY <2>1 DEF NewStats, Stats
<1>2. \A w \in Words : NewStats(w) \in Stats /\ Sound(NewStats(w), w)
  BY WordsAreWords, NewStatsSound DEF Sound
<1>3. \A w : NewStats(w).usedLetters = {} /\ ~NewStats(w).fullWordGuessed
             /\ NewStats(w).errors = 0
  BY DEF NewStats
<1>4. \A s \in Stats : View(s) \in Screen
  BY DEF View, Screen, Stats
<1> QED BY <1>1, <1>2, <1>3, <1>4

\* What a guess does to the board, as far as the screen can tell.
LEMMA GuessFacts ==
  ASSUME NEW w \in Words, NEW s, Sound(s, w), NEW l \in Letter
  PROVE  LET b == PlayGuess(s, w, l)
         IN /\ Sound(b, w) /\ b \in Stats
            /\ GuessIgnored(s, l) => b = s
            /\ GuessIgnored(s, l) /\ l \notin s.usedLetters => RoundFinished(s)
            /\ ~GuessIgnored(s, l) =>
                 /\ b.usedLetters = s.usedLetters \cup {l}
                 /\ RoundFinished(s) => RoundFinished(b)
                 /\ IsLetterCorrect(w, l) => b.errors = s.errors
                 /\ ~IsLetterCorrect(w, l) =>
                      /\ b.errors = s.errors + 1
                      /\ b.wordWithHiddenChars = s.wordWithHiddenChars
<1> DEFINE b == PlayGuess(s, w, l)
<1>1. Sound(b, w)
  BY WordsAreWords, PlayGuessSound
<1>2. b \in Stats /\ s \in Stats /\ s.errors <= MaxErrors /\ MaxErrors \in Nat
  BY <1>1, MaxErrorsAssumption DEF Sound, ConsistentStats
<1>3. GuessIgnored(s, l) => b = s
  BY DEF PlayGuess
<1>4. GuessIgnored(s, l) /\ l \notin s.usedLetters => RoundFinished(s)
  BY <1>2 DEF GuessIgnored, RoundFinished, Stats
<1>5. ASSUME ~GuessIgnored(s, l), IsLetterCorrect(w, l)
      PROVE  /\ b.usedLetters = s.usedLetters \cup {l} /\ b.errors = s.errors
             /\ s.fullWordGuessed => b.fullWordGuessed
  BY <1>2, <1>5 DEF PlayGuess, RecalculateScore, LetterGuessed, Stats
<1>6. ASSUME ~GuessIgnored(s, l), ~IsLetterCorrect(w, l)
      PROVE  /\ b.usedLetters = s.usedLetters \cup {l} /\ b.errors = s.errors + 1
             /\ b.wordWithHiddenChars = s.wordWithHiddenChars
             /\ s.fullWordGuessed => b.fullWordGuessed
  BY <1>2, <1>6 DEF PlayGuess, RecalculateScore, Stats
<1>7. ~GuessIgnored(s, l) => s.errors # MaxErrors
  BY <1>2 DEF GuessIgnored, Stats
<1> HIDE DEF b
<1> QED BY <1>1, <1>2, <1>3, <1>4, <1>5, <1>6, <1>7 DEF RoundFinished, b

\* checkGuess answers a guess it does not ignore once, with the new board, and
\* says besides that the round is over only if it is.
LEMMA AnswersFacts ==
  ASSUME NEW before, NEW after \in Stats, NEW l, NEW othersDone
  PROVE  LET q == Answers(before, after, l, othersDone)
         IN /\ q \in Seq(Message)
            /\ GuessIgnored(before, l) => q = <<>>
            /\ ~GuessIgnored(before, l) => \E m \in Range(q) : m.type \in Answer
            /\ \A m \in Range(q) :
                 /\ m.board = after /\ m.type \in Answer \cup Single
                 /\ m.type = "GUESS_OK" => IsLetterCorrect(word, l)
                 /\ m.type = "GUESS_WRONG" => ~IsLetterCorrect(word, l)
                 /\ m.type \in Single => RoundFinished(after)
            /\ Never(q, Answer, Answer)
<1> DEFINE ok == Msg("GUESS_OK", after)
           no == Msg("GUESS_WRONG", after)
           fin == Msg("ROUND_SINGLE_FINISHED", after)
           over == Msg("ROUND_SINGLE_OVER", after)
           f == IF after.fullWordGuessed /\ ~othersDone THEN <<fin>> ELSE <<>>
           o == IF after.errors = MaxErrors THEN <<over>> ELSE <<>>
           q == Answers(before, after, l, othersDone)
           one == <<ok>>
           two == <<no>>
           both == two \o o
<1>1. /\ {ok, no, fin, over} \subseteq Message
      /\ \A m \in {ok, no, fin, over} : m.board = after
      /\ ok.type = "GUESS_OK" /\ no.type = "GUESS_WRONG"
      /\ fin.type = "ROUND_SINGLE_FINISHED" /\ over.type = "ROUND_SINGLE_OVER"
  BY DEF Msg, Message, Types
<1>2. CASE GuessIgnored(before, l)
  BY <1>2, NoMessage DEF Answers
<1> HIDE DEF ok, no, fin, over
<1>3. /\ f \in Seq(Message) /\ \A T, U : Never(f, T, U)
      /\ \A m \in Range(f) : m = fin /\ RoundFinished(after)
  <2>1. CASE after.fullWordGuessed /\ ~othersDone
    BY <1>1, <2>1, OneMessage DEF RoundFinished
  <2>2. CASE ~(after.fullWordGuessed /\ ~othersDone)
    BY <2>2, NoMessage
  <2> QED BY <2>1, <2>2
<1>4. /\ o \in Seq(Message) /\ \A T, U : Never(o, T, U)
      /\ \A m \in Range(o) : m = over /\ RoundFinished(after)
  <2>1. CASE after.errors = MaxErrors
    BY <1>1, <2>1, OneMessage DEF RoundFinished
  <2>2. CASE after.errors # MaxErrors
    BY <2>2, NoMessage
  <2> QED BY <2>1, <2>2
<1>5. CASE ~GuessIgnored(before, l) /\ IsLetterCorrect(word, l)
  <2>1. q = one \o f
    BY <1>5 DEF Answers, ok, fin
  <2>2. /\ one \in Seq(Message) /\ Range(one) = {ok} /\ \A T, U : Never(one, T, U)
    BY <1>1, OneMessage
  <2> HIDE DEF q, f, o, one, two
  <2>3. q \in Seq(Message) /\ Range(q) = {ok} \cup Range(f)
    BY <1>3, <2>1, <2>2, RangeConcat
  <2>4. Never(q, Answer, Answer)
    <3>1. \A x \in Range(one), y \in Range(f) : ~(x.type \in Answer /\ y.type \in Answer)
      BY <1>1, <1>3, <2>2 DEF Answer
    <3> QED BY <1>3, <2>1, <2>2, <3>1, NeverConcat
  <2> QED BY <1>1, <1>3, <1>5, <2>3, <2>4 DEF Answer, Single, q
<1>6. CASE ~GuessIgnored(before, l) /\ ~IsLetterCorrect(word, l)
  <2>1. q = both \o f
    BY <1>6 DEF Answers, no, fin, over
  <2>2. /\ two \in Seq(Message) /\ Range(two) = {no} /\ \A T, U : Never(two, T, U)
    BY <1>1, OneMessage
  <2> HIDE DEF q, f, o, one, two, both
  <2>3. both \in Seq(Message) /\ Range(both) = {no} \cup Range(o)
    BY <1>4, <2>2, RangeConcat DEF both
  <2>4. q \in Seq(Message) /\ Range(q) = {no} \cup Range(o) \cup Range(f)
    BY <1>3, <2>1, <2>3, RangeConcat
  <2>5. Never(both, Answer, Answer)
    <3>1. \A x \in Range(two), y \in Range(o) : ~(x.type \in Answer /\ y.type \in Answer)
      BY <1>1, <1>4, <2>2 DEF Answer
    <3> QED BY <1>4, <2>2, <3>1, NeverConcat DEF both
  <2>6. Never(q, Answer, Answer)
    <3>1. \A x \in Range(both), y \in Range(f) :
            ~(x.type \in Answer /\ y.type \in Answer)
      BY <1>1, <1>3 DEF Answer
    <3> QED BY <1>3, <2>1, <2>3, <2>5, <3>1, NeverConcat
  <2> QED BY <1>1, <1>3, <1>4, <1>6, <2>4, <2>6 DEF Answer, Single, q
<1> QED BY <1>2, <1>5, <1>6

-----------------------------------------------------------------------------
(***************************************************************************)
(* What the steps do to the messages under way.                            *)
(***************************************************************************)

\* ScreenComing, by the types of the messages under way.
NewScreen == rejoins # <<>> \/ OnItsWay(Started) # {} \/ OnItsWay(Resumed) # {}

LEMMA ScreenComingIs ==
  ASSUME wire \in Seq(Message), outbox \in Seq(Message)
  PROVE  ScreenComing <=> NewScreen
<1>1. Range(outbox \o wire) = Coming
  BY RangeConcat DEF Coming
<1> QED BY <1>1 DEF ScreenComing, NewScreen, OnItsWay, Started, Resumed

LEMMA ScreenComingIsNext ==
  ASSUME wire' \in Seq(Message), outbox' \in Seq(Message)
  PROVE  ScreenComing' <=> NewScreen'
<1>1. Range(outbox' \o wire') = Coming'
  BY RangeConcat DEF Coming
<1> QED BY <1>1 DEF ScreenComing, NewScreen, OnItsWay, Started, Resumed

\* A handler puts its messages, the last one first, before the others.
LEMMA QueueEffect ==
  ASSUME wire \in Seq(Message), outbox \in Seq(Message), wire' = wire,
         NEW q \in Seq(Message), Queue(q)
  PROVE  /\ outbox' \in Seq(Message) /\ wire' \in Seq(Message)
         /\ Coming' = Coming \cup Range(q)
         /\ \A T, U :
              /\ Never(wire \o outbox, T, U) /\ Never(q, U, T)
              /\ \A x \in Coming, y \in Range(q) :
                   ~(x.type \in T /\ y.type \in U) /\ ~(y.type \in T /\ x.type \in U)
              => Never(wire \o outbox, T, U)'
<1> DEFINE r == Reverse(q)
           o == r \o outbox
<1>1. r \in Seq(Message) /\ Range(r) = Range(q) /\ outbox' = o
  BY ReverseFacts DEF Queue
<1>2. \A T, U : Never(q, U, T) => Never(r, T, U)
  BY ReverseFacts
<1> HIDE DEF r
<1>3. o \in Seq(Message) /\ Range(o) = Range(q) \cup Range(outbox)
  BY <1>1, RangeConcat
<1>4. \A T, U : Never(o, T, U) <=>
        /\ Never(r, T, U) /\ Never(outbox, T, U)
        /\ \A x \in Range(r), y \in Range(outbox) : ~(x.type \in T /\ y.type \in U)
  BY <1>1, NeverConcat
<1> HIDE DEF o
<1>5. Coming' = Coming \cup Range(q)
  BY <1>1, <1>3 DEF Coming
<1>6. ASSUME NEW T, NEW U, Never(wire \o outbox, T, U), Never(q, U, T),
             \A x \in Coming, y \in Range(q) :
               ~(x.type \in T /\ y.type \in U) /\ ~(y.type \in T /\ x.type \in U)
      PROVE  Never(wire \o o, T, U)
  <2>1. /\ Never(wire, T, U) /\ Never(outbox, T, U)
        /\ \A x \in Range(wire), y \in Range(outbox) : ~(x.type \in T /\ y.type \in U)
    BY <1>6, NeverConcat
  <2>2. Never(o, T, U)
    BY <1>1, <1>2, <1>4, <1>6, <2>1 DEF Coming
  <2>3. \A x \in Range(wire), y \in Range(o) : ~(x.type \in T /\ y.type \in U)
    BY <1>3, <1>6, <2>1 DEF Coming
  <2> QED BY <1>3, <2>1, <2>2, <2>3, NeverConcat
<1>7. wire' \in Seq(Message) /\ outbox' \in Seq(Message)
  BY <1>1, <1>3
<1>8. \A T, U : Never(wire \o o, T, U) => Never(wire' \o outbox', T, U)
  BY <1>1
<1> QED BY <1>5, <1>6, <1>7, <1>8

\* A scene takes the first message.
LEMMA ReceivedEffect ==
  ASSUME wire \in Seq(Message), outbox \in Seq(Message), NEW types, Received(types)
  PROVE  /\ Head(wire) \in Message /\ Head(wire).type \in types
         /\ wire' \in Seq(Message) /\ outbox' \in Seq(Message)
         /\ Coming = Coming' \cup {Head(wire)}
         /\ \A T, U : Never(wire \o outbox, T, U) =>
              /\ Never(wire \o outbox, T, U)'
              /\ Head(wire).type \in T => \A y \in Coming' : y.type \notin U
<1>1. /\ wire # <<>> /\ wire' = Tail(wire) /\ outbox' = outbox
      /\ Head(wire).type \in types
  BY DEF Received
<1> DEFINE t == Tail(wire)
           m == Head(wire)
<1>2. t \in Seq(Message) /\ m \in Message /\ Range(wire) = Range(t) \cup {m}
  BY <1>1, TailFacts
<1>3. \A T, U : Never(wire, T, U) =>
        Never(t, T, U) /\ (m.type \in T => \A y \in Range(t) : y.type \notin U)
  BY <1>1, TailFacts
<1>4. wire' = t
  BY <1>1
<1> HIDE DEF t, m
<1>5. Coming = Coming' \cup {m}
  BY <1>1, <1>2, <1>4 DEF Coming
<1>6. ASSUME NEW T, NEW U, Never(wire \o outbox, T, U)
      PROVE  /\ Never(t \o outbox, T, U)
             /\ m.type \in T => \A y \in Coming' : y.type \notin U
  <2>1. /\ Never(wire, T, U) /\ Never(outbox, T, U)
        /\ \A x \in Range(wire), y \in Range(outbox) : ~(x.type \in T /\ y.type \in U)
    BY <1>6, NeverConcat
  <2>2. \A x \in Range(t), y \in Range(outbox) : ~(x.type \in T /\ y.type \in U)
    BY <1>2, <2>1
  <2>3. Never(t \o outbox, T, U)
    BY <1>2, <1>3, <2>1, <2>2, NeverConcat
  <2> QED BY <1>1, <1>2, <1>3, <1>4, <2>1, <2>3 DEF Coming
<1>7. \A T, U : Never(t \o outbox, T, U) => Never(wire' \o outbox', T, U)
  BY <1>1, <1>4
<1> QED BY <1>1, <1>2, <1>4, <1>5, <1>6, <1>7 DEF m

\* The buffer is written behind what is on the wire.
LEMMA WriteOutEffect ==
  ASSUME wire \in Seq(Message), outbox \in Seq(Message), WriteOut
  PROVE  /\ wire' \in Seq(Message) /\ outbox' \in Seq(Message)
         /\ Coming' = Coming
         /\ \A T, U : Never(wire \o outbox, T, U) => Never(wire \o outbox, T, U)'
<1> DEFINE w == wire \o outbox
<1>1. w \in Seq(Message) /\ Range(w) = Coming
  BY RangeConcat DEF Coming
<1>2. wire' = w /\ outbox' = <<>>
  BY DEF WriteOut
<1> HIDE DEF w
<1>3. w \o <<>> = w
  BY <1>1
<1>4. Coming' = Coming
  BY <1>1, <1>2, NoMessage DEF Coming
<1>5. <<>> \in Seq(Message)
  OBVIOUS
<1>6. \A T, U : Never(w, T, U) => Never(wire' \o outbox', T, U)
  BY <1>2, <1>3
<1> QED BY <1>1, <1>2, <1>4, <1>5, <1>6 DEF w

\* Nothing is under way.
LEMMA NothingComing ==
  /\ wire = <<>> /\ outbox = <<>> => Coming = {}
  /\ wire' = <<>> /\ outbox' = <<>> =>
       /\ Coming' = {} /\ wire' \in Seq(Message) /\ outbox' \in Seq(Message)
       /\ \A T, U : Never(wire \o outbox, T, U)'
<1>1. ASSUME wire' = <<>>, outbox' = <<>> PROVE \A T, U : Never(wire' \o outbox', T, U)
  <2>1. <<>> \o <<>> = <<>>
    OBVIOUS
  <2> QED BY <1>1, <2>1 DEF Never
<1> QED BY <1>1, NoMessage DEF Coming

-----------------------------------------------------------------------------
(***************************************************************************)
(* The types, for any player.                                              *)
(***************************************************************************)

\* TypeOK in parts: the server's, the messages', and the program's.
ServerTyped ==
  /\ word \in Words \cup {<<>>} /\ board \in Stats
  /\ {hasRow, running, inGame} \subseteq BOOLEAN /\ BoardSound

MessagesTyped ==
  /\ outbox \in Seq(Message) /\ wire \in Seq(Message) /\ guesses \in Seq(Letter)
  /\ connected \in BOOLEAN

WidgetTyped ==
  /\ scene \in {"connect", "menu", "lobby", "game", "closed"} /\ shown \in Screen
  /\ used \subseteq Letter /\ enabled \in BOOLEAN
  /\ infoBoxes \in Nat /\ resultBoxes \in Nat /\ rejoins \in Seq(Stats)

LEMMA TInvIs == TInv <=> ServerTyped /\ MessagesTyped /\ WidgetTyped
BY DEF TInv, TypeOK, ServerTyped, MessagesTyped, WidgetTyped, Message, Types

LEMMA TInvIsNext == TInv' <=> ServerTyped' /\ MessagesTyped' /\ WidgetTyped'
BY TInvIs, PTL

LEMMA InitTyped == ASSUME Init PROVE TInv
<1>1. ServerTyped
  BY BoardFacts DEF Init, ServerTyped, BoardSound
<1>2. MessagesTyped
  BY DEF Init, MessagesTyped
<1>3. WidgetTyped
  <2>1. shown \in Screen
    BY BoardFacts DEF Init
  <2>2. /\ used = {} /\ enabled = FALSE /\ rejoins = <<>> /\ scene = "lobby"
        /\ infoBoxes = 0 /\ resultBoxes = 0
    BY DEF Init
  <2> QED BY NoMessage, <2>1, <2>2 DEF WidgetTyped
<1> QED BY <1>1, <1>2, <1>3, TInvIs

LEMMA StartRoundTyped == ASSUME TInv, StartRound PROVE TInv'
<1> USE DEF ServerTyped, MessagesTyped, WidgetTyped
<1>1. ServerTyped /\ MessagesTyped /\ WidgetTyped
  BY TInvIs
<1>2. word' \in Words /\ board' \in Stats /\ Sound(board', word')
  BY BoardFacts DEF StartRound
<1>3. ServerTyped'
  BY <1>2 DEF StartRound, BoardSound
<1>4. MessagesTyped'
  <2>1. Msg("GAME_STARTED", board') \in Message
    BY <1>2 DEF Msg, Message, Types
  <2>2. <<Msg("GAME_STARTED", board')>> \in Seq(Message)
    BY <2>1, OneMessage
  <2>3. outbox' \in Seq(Message)
    BY <1>1, <2>2, QueueEffect DEF StartRound
  <2> QED BY <1>1, <2>3 DEF StartRound
<1>5. WidgetTyped'
  BY <1>1 DEF StartRound, widget
<1> QED BY <1>3, <1>4, <1>5, TInvIsNext

\* A guess is made of a letter, and the row it finds belongs to the word.
LEMMA GuessTaken ==
  ASSUME TInv, HandleGuess
  PROVE  /\ word \in Words /\ Sound(board, word)
         /\ Head(guesses) \in Letter /\ Tail(guesses) \in Seq(Letter)
         /\ board' = PlayGuess(board, word, Head(guesses))
         /\ Sound(board', word) /\ board' \in Stats
<1>1. guesses # <<>> /\ guesses \in Seq(Letter) /\ hasRow
  BY DEF HandleGuess, TInv, TypeOK
<1>2. word \in Words /\ Sound(board, word)
  BY <1>1 DEF TInv, BoardSound
<1>3. Head(guesses) \in Letter /\ Tail(guesses) \in Seq(Letter)
  BY <1>1, TailFacts
<1>4. board' = PlayGuess(board, word, Head(guesses))
  BY DEF HandleGuess
<1> QED BY <1>2, <1>3, <1>4, GuessFacts

LEMMA HandleGuessTyped == ASSUME TInv, HandleGuess PROVE TInv'
<1> USE DEF ServerTyped, MessagesTyped, WidgetTyped
<1>1. ServerTyped /\ MessagesTyped /\ WidgetTyped
  BY TInvIs
<1>2. ServerTyped'
  <2>1. UNCHANGED <<word, hasRow, running>> /\ inGame' \in BOOLEAN
    BY <1>1 DEF HandleGuess
  <2> QED BY <1>1, <2>1, GuessTaken DEF BoardSound
<1>3. MessagesTyped'
  <2>1. PICK othersDone \in BOOLEAN :
          Queue(Answers(board, board', Head(guesses), othersDone))
    BY DEF HandleGuess
  <2>2. Answers(board, board', Head(guesses), othersDone) \in Seq(Message)
    BY GuessTaken, AnswersFacts
  <2>3. UNCHANGED <<wire, connected>> /\ guesses' = Tail(guesses)
    BY DEF HandleGuess
  <2>4. outbox' \in Seq(Message)
    BY <1>1, <2>1, <2>2, <2>3, QueueEffect
  <2> QED BY <1>1, <2>3, <2>4, GuessTaken
<1>4. WidgetTyped'
  BY <1>1 DEF HandleGuess, widget
<1> QED BY <1>2, <1>3, <1>4, TInvIsNext

\* updateGame sends nothing but the result, with the board.
LEMMA ResultsFacts ==
  ASSUME NEW b \in Stats, NEW timedOut \in BOOLEAN, NEW allFinished \in BOOLEAN
  PROVE  LET q == (IF timedOut THEN <<Msg("ROUND_TIMEOUT", b)>> ELSE <<>>)
                  \o (IF allFinished THEN <<Msg("ROUND_ALL_FINISHED", b)>> ELSE <<>>)
         IN q \in Seq(Message) /\ \A m \in Range(q) : m.type \in Result
<1> DEFINE t == Msg("ROUND_TIMEOUT", b)
           f == Msg("ROUND_ALL_FINISHED", b)
           p == IF timedOut THEN <<t>> ELSE <<>>
           r == IF allFinished THEN <<f>> ELSE <<>>
<1>1. t \in Message /\ f \in Message /\ t.type \in Result /\ f.type \in Result
  BY DEF Msg, Message, Types, Result
<1> HIDE DEF t, f
<1>2. p \in Seq(Message) /\ \A m \in Range(p) : m.type \in Result
  BY <1>1, OneMessage, NoMessage
<1>3. r \in Seq(Message) /\ \A m \in Range(r) : m.type \in Result
  BY <1>1, OneMessage, NoMessage
<1> HIDE DEF p, r
<1>4. p \o r \in Seq(Message) /\ Range(p \o r) = Range(p) \cup Range(r)
  BY <1>2, <1>3, RangeConcat
<1>5. p \o r \in Seq(Message) /\ \A m \in Range(p \o r) : m.type \in Result
  BY <1>2, <1>3, <1>4
<1> QED BY <1>5 DEF p, r, t, f

LEMMA EndRoundTyped == ASSUME TInv, EndRound PROVE TInv'
<1> USE DEF ServerTyped, MessagesTyped, WidgetTyped
<1>1. ServerTyped /\ MessagesTyped /\ WidgetTyped
  BY TInvIs
<1>2. ServerTyped'
  BY <1>1 DEF EndRound, BoardSound
<1>3. MessagesTyped'
  <2>1. UNCHANGED <<wire, guesses, connected>>
    BY DEF EndRound
  <2>2. CASE UNCHANGED outbox
    BY <1>1, <2>1, <2>2
  <2>3. CASE ~UNCHANGED outbox
    <3>1. PICK timedOut, allFinished \in BOOLEAN :
            Queue((IF timedOut THEN <<Msg("ROUND_TIMEOUT", board)>> ELSE <<>>)
               \o (IF allFinished THEN <<Msg("ROUND_ALL_FINISHED", board)>> ELSE <<>>))
      BY <2>3 DEF EndRound
    <3>2. outbox' \in Seq(Message)
      BY <1>1, <2>1, <3>1, ResultsFacts, QueueEffect
    <3> QED BY <1>1, <2>1, <3>2
  <2> QED BY <2>2, <2>3
<1>4. WidgetTyped'
  BY <1>1 DEF EndRound, widget
<1> QED BY <1>2, <1>3, <1>4, TInvIsNext

\* What joinRoom queues for a player who comes back, in the order of the handler.
LEMMA RejoinFacts ==
  ASSUME TInv, Rejoin
  PROVE  \E q \in Seq(Message) :
           /\ Queue(q)
           /\ \A m \in Range(q) :
                \/ m.type \in Entered
                \/ m.type \in Started /\ m.board = NewStats(word) /\ running
                \/ m.type \in Resumed /\ m.board = board /\ running
           /\ running => \E m \in Range(q) : m.type \in Started
           /\ running => \E m \in Range(q) : m.type \in Resumed
           /\ Never(q, Entered, Started)
<1> DEFINE g == Msg("GAME_STARTED", NewStats(word))
           j == Msg("GAME_REJOINED", board)
           k == Msg("ROOM_OK", board)
           gj == <<g, j>>
           p == IF running THEN gj ELSE <<>>
           r == <<k>>
           q == p \o r
<1>1. /\ g \in Message /\ j \in Message /\ k \in Message
      /\ g.type = "GAME_STARTED" /\ g.board = NewStats(word)
      /\ j.type = "GAME_REJOINED" /\ j.board = board /\ k.type = "ROOM_OK"
  <2>1. NewStats(word) \in Stats /\ board \in Stats
    BY BoardFacts DEF TInv, TypeOK
  <2> QED BY <2>1 DEF Msg, Message, Types
<1>2. Queue(q)
  BY DEF Rejoin
<1> HIDE DEF g, j, k
<1>3. gj \in Seq(Message) /\ Range(gj) = {g, j} /\ Never(gj, Entered, Started)
  <2>1. gj \in Seq(Message) /\ Len(gj) = 2 /\ gj[1] = g /\ gj[2] = j
    BY <1>1
  <2> HIDE DEF gj
  <2>2. Range(gj) = {g, j}
    BY <2>1 DEF Range
  <2>3. Never(gj, Entered, Started)
    BY <1>1, <2>1 DEF Never, Entered
  <2> QED BY <2>1, <2>2, <2>3
<1>4. r \in Seq(Message) /\ Range(r) = {k} /\ Never(r, Entered, Started)
  BY <1>1, OneMessage
<1> HIDE DEF gj, r
<1>5. /\ p \in Seq(Message) /\ Never(p, Entered, Started)
      /\ running => Range(p) = {g, j}
      /\ ~running => Range(p) = {}
  BY <1>3, NoMessage
<1> HIDE DEF p
<1>6. q \in Seq(Message) /\ Range(q) = Range(p) \cup {k}
  BY <1>4, <1>5, RangeConcat
<1>7. Never(q, Entered, Started)
  <2>1. \A x \in Range(p), y \in Range(r) : ~(x.type \in Entered /\ y.type \in Started)
    BY <1>1, <1>4 DEF Started
  <2> QED BY <1>4, <1>5, <2>1, NeverConcat
<1> HIDE DEF q
<1>8. \A m \in Range(q) :
        \/ m = k
        \/ m = g /\ running
        \/ m = j /\ running
  BY <1>5, <1>6
<1>9. running => g \in Range(q) /\ j \in Range(q)
  BY <1>5, <1>6
<1> QED BY <1>1, <1>2, <1>6, <1>7, <1>8, <1>9 DEF Entered, Started, Resumed

LEMMA RejoinTyped == ASSUME TInv, Rejoin PROVE TInv'
<1> USE DEF ServerTyped, MessagesTyped, WidgetTyped
<1>1. ServerTyped /\ MessagesTyped /\ WidgetTyped
  BY TInvIs
<1>2. ServerTyped'
  <2>1. UNCHANGED <<word, board, running>> /\ hasRow' = running /\ inGame' = running
    BY DEF Rejoin, BackInRoom
  <2> QED BY <1>1, <2>1 DEF BoardSound
<1>3. MessagesTyped'
  <2>1. UNCHANGED <<wire, guesses>> /\ connected' = TRUE
    BY DEF Rejoin, BackInRoom
  <2>2. outbox' \in Seq(Message)
    BY <1>1, <2>1, RejoinFacts, QueueEffect
  <2> QED BY <1>1, <2>1, <2>2
<1>4. WidgetTyped'
  BY <1>1 DEF Rejoin, BackInRoom, boxes
<1> QED BY <1>2, <1>3, <1>4, TInvIsNext

\* The end of a connection, and of the program.
LEMMA EndTyped ==
  ASSUME TInv,
         \/ LoseConnection
         \/ \E next \in {"connect", "closed"} : ProgramEnds(next)
  PROVE  TInv'
<1> USE DEF ServerTyped, MessagesTyped, WidgetTyped
<1>1. ServerTyped /\ MessagesTyped /\ WidgetTyped
  BY TInvIs
<1>2. ServerTyped'
  BY <1>1 DEF LoseConnection, ProgramEnds, server, BoardSound
<1>3. MessagesTyped'
  <2>1. outbox' = <<>> /\ wire' = <<>> /\ guesses' = <<>> /\ connected' = FALSE
    BY DEF LoseConnection, ProgramEnds
  <2> QED BY NoMessage, <2>1
<1>4. WidgetTyped'
  <2>1. CASE LoseConnection
    BY <1>1, <2>1 DEF LoseConnection, boxes
  <2>2. CASE \E next \in {"connect", "closed"} : ProgramEnds(next)
    <3>1. shown' \in Screen
      BY <2>2, BoardFacts DEF ProgramEnds
    <3>2. /\ used' = {} /\ enabled' = FALSE /\ rejoins' = <<>>
          /\ infoBoxes' = 0 /\ resultBoxes' = 0 /\ scene' \in {"connect", "closed"}
      BY <2>2 DEF ProgramEnds
    <3> QED BY NoMessage, <3>1, <3>2
  <2> QED BY <2>1, <2>2
<1> QED BY <1>2, <1>3, <1>4, TInvIsNext

LEMMA WriteOutTyped == ASSUME TInv, WriteOut PROVE TInv'
<1> USE DEF ServerTyped, MessagesTyped, WidgetTyped
<1>1. ServerTyped /\ MessagesTyped /\ WidgetTyped
  BY TInvIs
<1>2. ServerTyped'
  BY <1>1 DEF WriteOut, server, BoardSound
<1>3. MessagesTyped'
  BY <1>1, WriteOutEffect DEF WriteOut
<1>4. WidgetTyped'
  BY <1>1 DEF WriteOut, widget
<1> QED BY <1>2, <1>3, <1>4, TInvIsNext

\* Receiving touches neither the server nor the guesses.
LEMMA ReceivedTyped ==
  ASSUME TInv, NEW types, Received(types)
  PROVE  ServerTyped' /\ MessagesTyped'
<1>1. ServerTyped /\ MessagesTyped /\ WidgetTyped
  BY TInvIs
<1>2. ServerTyped'
  BY <1>1 DEF Received, server, BoardSound, ServerTyped
<1>3. MessagesTyped'
  BY <1>1, ReceivedEffect DEF Received, MessagesTyped
<1> QED BY <1>2, <1>3

LEMMA ReceiveTyped == ASSUME TInv, Receive PROVE TInv'
<1>1. ServerTyped /\ MessagesTyped /\ WidgetTyped
  BY TInvIs
<1>2. ASSUME NEW types, Received(types)
      PROVE  Head(wire).board \in Stats /\ View(Head(wire).board) \in Screen
  BY <1>1, <1>2, ReceivedEffect, BoardFacts DEF MessagesTyped, Message
<1> DEFINE b == Head(wire).board
<1>3. CASE RoomOK
  <2>1. WidgetTyped'
    BY <1>1, <1>3 DEF RoomOK, boxes, WidgetTyped
  <2> QED BY <1>3, <2>1, ReceivedTyped, TInvIsNext DEF RoomOK
<1>4. CASE GameStarted
  <2>1. WidgetTyped'
    BY <1>1, <1>2, <1>4 DEF GameStarted, boxes, WidgetTyped
  <2> QED BY <1>4, <2>1, ReceivedTyped, TInvIsNext DEF GameStarted
<1>5. CASE GameRejoined
  <2>1. WidgetTyped'
    BY <1>1, <1>2, <1>5 DEF GameRejoined, boxes, WidgetTyped
  <2> QED BY <1>5, <2>1, ReceivedTyped, TInvIsNext DEF GameRejoined
<1>6. CASE GameRejoinedUnreadable
  BY <1>6, EndTyped DEF GameRejoinedUnreadable
<1>7. CASE GuessCorrect
  <2>1. b.wordWithHiddenChars \in Seq(Letter \cup {Blank, Hidden}) /\ b.score \in Nat
    BY <1>2, <1>7 DEF GuessCorrect, Stats
  <2>2. shown' \in Screen
    BY <1>1, <1>7, <2>1 DEF GuessCorrect, WidgetTyped, Screen
  <2>3. WidgetTyped'
    BY <1>1, <1>7, <2>2 DEF GuessCorrect, boxes, WidgetTyped
  <2> QED BY <1>7, <2>3, ReceivedTyped, TInvIsNext DEF GuessCorrect
<1>8. CASE GuessIncorrect
  <2>1. b.score \in Nat /\ shown \in Screen /\ shown.errors + 1 \in Nat
    BY <1>1, <1>2, <1>8 DEF GuessIncorrect, Stats, WidgetTyped, Screen
  <2>2. shown' \in Screen
    BY <1>8, <2>1 DEF GuessIncorrect, Screen
  <2>3. WidgetTyped'
    BY <1>1, <1>8, <2>2 DEF GuessIncorrect, boxes, WidgetTyped
  <2> QED BY <1>8, <2>3, ReceivedTyped, TInvIsNext DEF GuessIncorrect
<1>9. CASE SingleRoundOver
  <2>1. /\ infoBoxes' \in Nat /\ enabled' = FALSE
        /\ UNCHANGED <<scene, shown, used, resultBoxes, rejoins>>
    BY <1>1, <1>9 DEF SingleRoundOver, WidgetTyped
  <2>2. WidgetTyped'
    BY <1>1, <2>1 DEF WidgetTyped
  <2> QED BY <1>9, <2>2, ReceivedTyped, TInvIsNext DEF SingleRoundOver
<1>10. CASE RoundOver
  <2>1. /\ resultBoxes' \in Nat /\ enabled' = FALSE
        /\ UNCHANGED <<scene, shown, used, infoBoxes, rejoins>>
    BY <1>1, <1>10 DEF RoundOver, WidgetTyped
  <2>2. WidgetTyped'
    BY <1>1, <2>1 DEF WidgetTyped
  <2> QED BY <1>10, <2>2, ReceivedTyped, TInvIsNext DEF RoundOver
<1> QED BY <1>3, <1>4, <1>5, <1>6, <1>7, <1>8, <1>9, <1>10 DEF Receive

LEMMA PlayerTyped ==
  ASSUME TInv,
         \/ RejoinTimer \/ CloseInfo \/ CloseResult \/ CloseResultWindow
         \/ \E letter \in Letter : Click(letter)
         \/ UNCHANGED vars
  PROVE  TInv'
<1>1. ServerTyped /\ MessagesTyped /\ WidgetTyped
  BY TInvIs
<1>2. ServerTyped'
  <2>1. UNCHANGED server
    BY DEF RejoinTimer, CloseInfo, CloseResult, CloseResultWindow, Click, vars
  <2> QED BY <1>1, <2>1 DEF server, ServerTyped, BoardSound
<1>3. MessagesTyped'
  <2>1. UNCHANGED <<outbox, wire, connected>>
    BY DEF RejoinTimer, CloseInfo, CloseResult, CloseResultWindow, Click, vars
  <2>2. \/ UNCHANGED guesses
        \/ \E letter \in Letter : guesses' = Append(guesses, letter)
    BY DEF RejoinTimer, CloseInfo, CloseResult, CloseResultWindow, Click, vars
  <2>3. guesses' \in Seq(Letter)
    BY <1>1, <2>2 DEF MessagesTyped
  <2> QED BY <1>1, <2>1, <2>3 DEF MessagesTyped
<1>4. CASE RejoinTimer
  <2>1. Head(rejoins) \in Stats /\ Tail(rejoins) \in Seq(Stats)
    BY <1>1, <1>4, TailFacts DEF RejoinTimer, WidgetTyped
  <2>2. View(Head(rejoins)) \in Screen /\ Head(rejoins).usedLetters \subseteq Letter
    BY <2>1, BoardFacts DEF Stats
  <2>3. WidgetTyped'
    BY <1>1, <1>4, <2>1, <2>2 DEF RejoinTimer, boxes, WidgetTyped
  <2> QED BY <1>2, <1>3, <2>3, TInvIsNext
<1>5. CASE CloseInfo
  <2>1. WidgetTyped'
    BY <1>1, <1>5 DEF CloseInfo, WidgetTyped
  <2> QED BY <1>2, <1>3, <2>1, TInvIsNext
<1>6. CASE CloseResult \/ CloseResultWindow
  <2>1. WidgetTyped'
    BY <1>1, <1>6 DEF CloseResult, CloseResultWindow, WidgetTyped
  <2> QED BY <1>2, <1>3, <2>1, TInvIsNext
<1>7. CASE \E letter \in Letter : Click(letter)
  <2>1. WidgetTyped'
    BY <1>1, <1>7 DEF Click, boxes, WidgetTyped
  <2> QED BY <1>2, <1>3, <2>1, TInvIsNext
<1>8. CASE UNCHANGED vars
  <2>1. WidgetTyped'
    BY <1>1, <1>8 DEF vars, widget, WidgetTyped
  <2> QED BY <1>2, <1>3, <2>1, TInvIsNext
<1> QED BY <1>4, <1>5, <1>6, <1>7, <1>8

LEMMA NextTyped == ASSUME TInv, [Next]_vars PROVE TInv'
BY StartRoundTyped, HandleGuessTyped, EndRoundTyped, WriteOutTyped, RejoinTyped,
   EndTyped, ReceiveTyped, PlayerTyped DEF Next, RestartProgram

\* Every variable keeps its type, whatever the order in which messages, guesses,
\* rounds and lost connections come.  The board under a guess belongs to the word
\* of the round (BoardSound), so scores and errors stay what GameStats makes them,
\* and the program's own count of errors (GameWidget.cpp:204) stays a number.
THEOREM TypeCorrect == Spec => []TypeOK
<1>1. Init => TInv
  BY InitTyped
<1>2. TInv /\ [Next]_vars => TInv'
  BY NextTyped
<1>3. TInv => TypeOK
  BY DEF TInv
<1> QED BY <1>1, <1>2, <1>3, PTL DEF Spec

-----------------------------------------------------------------------------
(***************************************************************************)
(* A calm player: one lemma per step.  ScreenComing is taken as NewScreen. *)
(***************************************************************************)

CalmInv == Ended /\ RoundOpen /\ OneGuess /\ NextScreen /\ GameShown /\ ShownRight

LEMMA InitCalm == ASSUME Init PROVE CalmInv
<1>1. /\ outbox = <<>> /\ wire = <<>> /\ guesses = <<>> /\ rejoins = <<>>
      /\ connected = TRUE /\ running = FALSE /\ scene = "lobby" /\ Coming = {}
  BY NothingComing DEF Init
<1>2. ~ScreenComing
  <2>1. wire \in Seq(Message) /\ outbox \in Seq(Message)
    BY <1>1, NoMessage
  <2> QED BY <1>1, <2>1, ScreenComingIs DEF NewScreen, OnItsWay
<1>3. \A T, U : Never(wire \o outbox, T, U)
  <2>1. <<>> \o <<>> = <<>>
    OBVIOUS
  <2> QED BY <1>1, <2>1, NoMessage
<1>4. Ended /\ RoundOpen /\ NextScreen /\ GameShown /\ ShownRight
  BY <1>1, <1>2, <1>3 DEF Ended, RoundOpen, NextScreen, GameShown, ShownRight
<1>5. OneGuess
  BY <1>1, <1>2, <1>3 DEF OneGuess, OnItsWay
<1> QED BY <1>4, <1>5 DEF CalmInv

LEMMA StartRoundCalm == ASSUME Calm, SInv, StartRound PROVE CalmInv'
<1> DEFINE g == Msg("GAME_STARTED", board')
           q == <<g>>
<1>1. /\ outbox = <<>> /\ wire = <<>> /\ guesses = <<>> /\ rejoins = <<>>
      /\ resultBoxes = 0 /\ connected
  BY DEF StartRound, Settled, boxes
<1>2. /\ word' \in Words /\ board' = NewStats(word') /\ hasRow' = TRUE /\ Queue(q)
      /\ UNCHANGED <<wire, guesses, connected, resultBoxes, rejoins>>
  BY DEF StartRound, widget
<1>3. g \in Message /\ g.type = "GAME_STARTED" /\ g.board = NewStats(word')
  BY <1>2, BoardFacts DEF Msg, Message, Types
<1> HIDE DEF g
<1>4. q \in Seq(Message) /\ Range(q) = {g} /\ \A T, U : Never(q, T, U)
  BY <1>3, OneMessage
<1>5. Coming = {} /\ \A T, U : Never(wire \o outbox, T, U)
  <2>1. <<>> \o <<>> = <<>>
    OBVIOUS
  <2> QED BY <1>1, <2>1, NothingComing, NoMessage
<1>6. wire \in Seq(Message) /\ outbox \in Seq(Message)
  BY <1>1, NoMessage
<1> HIDE DEF q
<1>7. /\ Coming' = {g} /\ \A T, U : Never(wire \o outbox, T, U)'
      /\ wire' \in Seq(Message) /\ outbox' \in Seq(Message)
  BY <1>2, <1>4, <1>5, <1>6, QueueEffect
<1>8. ScreenComing' /\ OnItsWay(Started)' = {g}
  BY <1>3, <1>7, ScreenComingIsNext DEF NewScreen, OnItsWay, Started
<1>9. \A T \in {Answer, Single, Result, Resumed} : OnItsWay(T)' = {}
  BY <1>3, <1>7 DEF OnItsWay, Answer, Single, Result, Resumed
<1>10. Ended' /\ RoundOpen'
  BY <1>1, <1>2, <1>9 DEF Ended, RoundOpen
<1>11. OneGuess'
  BY <1>1, <1>2, <1>7, <1>9 DEF OneGuess
<1>12. NextScreen'
  BY <1>1, <1>2, <1>3, <1>8, <1>9, NoMessage DEF NextScreen
<1>13. GameShown' /\ ShownRight'
  BY <1>7, <1>8 DEF GameShown, ShownRight
<1> QED BY <1>10, <1>11, <1>12, <1>13 DEF CalmInv

LEMMA WriteOutCalm == ASSUME SInv, WriteOut PROVE CalmInv'
<1>1. wire \in Seq(Message) /\ outbox \in Seq(Message)
  BY TInvIs DEF SInv, MessagesTyped
<1>2. /\ wire' \in Seq(Message) /\ outbox' \in Seq(Message) /\ Coming' = Coming
      /\ \A T, U : Never(wire \o outbox, T, U) => Never(wire \o outbox, T, U)'
  BY <1>1, WriteOutEffect
<1>3. UNCHANGED <<word, board, hasRow, running, guesses, connected, scene, shown,
                  used, enabled, infoBoxes, resultBoxes, rejoins>>
  BY DEF WriteOut, server, widget
<1>4. ScreenComing' <=> ScreenComing
  BY <1>1, <1>2, <1>3, ScreenComingIs, ScreenComingIsNext DEF NewScreen, OnItsWay
<1>5. \A T : OnItsWay(T)' = OnItsWay(T)
  BY <1>2 DEF OnItsWay
<1>6. connected
  BY DEF SInv, Ended, WriteOut
<1>7. Ended' /\ RoundOpen' /\ OneGuess'
  BY <1>2, <1>3, <1>4, <1>5, <1>6 DEF SInv, Ended, RoundOpen, OneGuess
<1>8. NextScreen' /\ GameShown'
  BY <1>2, <1>3, <1>4, <1>5 DEF SInv, NextScreen, GameShown
<1>9. ShownRight'
  BY <1>3, <1>4, <1>5 DEF SInv, ShownRight, View
<1> QED BY <1>7, <1>8, <1>9 DEF CalmInv

LEMMA HandleGuessCalm == ASSUME SInv, HandleGuess PROVE CalmInv'
<1> DEFINE l == Head(guesses)
<1>1. wire \in Seq(Message) /\ outbox \in Seq(Message) /\ guesses \in Seq(Letter)
  BY TInvIs DEF SInv, MessagesTyped
<1>2. /\ guesses # <<>> /\ guesses' = Tail(guesses)
      /\ UNCHANGED <<word, hasRow, running, wire, connected, scene, shown, used,
                     enabled, infoBoxes, resultBoxes, rejoins>>
  BY DEF HandleGuess, widget
<1>3. /\ guesses' = <<>> /\ l = guesses[1] /\ Range(guesses) = {l}
  <2>1. Len(guesses) = 1
    <3>1. Len(guesses) <= 1
      BY DEF SInv, OneGuess
    <3>2. Len(guesses) \in Nat /\ Len(guesses) # 0
      BY <1>1, <1>2
    <3>3. \A n \in Nat : n <= 1 /\ n # 0 => n = 1
      OBVIOUS
    <3> QED BY <3>1, <3>2, <3>3
  <2>2. guesses = <<l>>
    BY <1>1, <2>1
  <2> QED BY <1>1, <1>2, <2>2 DEF Range
<1>4. /\ word \in Words /\ Sound(board, word) /\ l \in Letter
      /\ board' = PlayGuess(board, word, l) /\ board' \in Stats
  BY GuessTaken DEF SInv
<1>5. /\ hasRow /\ l \in used /\ l \notin board.usedLetters
      /\ OnItsWay(Answer) = {} /\ ~enabled /\ ~ScreenComing
  BY <1>2, <1>3 DEF SInv, OneGuess
<1>6. PICK othersDone \in BOOLEAN : Queue(Answers(board, board', l, othersDone))
  BY DEF HandleGuess
<1> DEFINE q == Answers(board, board', l, othersDone)
<1>7. /\ q \in Seq(Message)
      /\ GuessIgnored(board, l) => q = <<>>
      /\ ~GuessIgnored(board, l) => \E m \in Range(q) : m.type \in Answer
      /\ \A m \in Range(q) :
           /\ m.board = board' /\ m.type \in Answer \cup Single
           /\ m.type = "GUESS_OK" => IsLetterCorrect(word, l)
           /\ m.type = "GUESS_WRONG" => ~IsLetterCorrect(word, l)
           /\ m.type \in Single => RoundFinished(board')
      /\ Never(q, Answer, Answer)
  BY <1>4, AnswersFacts
<1>8. /\ GuessIgnored(board, l) => board' = board
      /\ GuessIgnored(board, l) => RoundFinished(board)
      /\ ~GuessIgnored(board, l) =>
           /\ board'.usedLetters = board.usedLetters \cup {l}
           /\ RoundFinished(board) => RoundFinished(board')
           /\ IsLetterCorrect(word, l) => board'.errors = board.errors
           /\ ~IsLetterCorrect(word, l) =>
                /\ board'.errors = board.errors + 1
                /\ board'.wordWithHiddenChars = board.wordWithHiddenChars
  BY <1>4, <1>5, GuessFacts
<1> HIDE DEF q, l
<1>9. Queue(q)
  BY <1>6 DEF q
<1>10. /\ wire' \in Seq(Message) /\ outbox' \in Seq(Message)
       /\ Coming' = Coming \cup Range(q)
  BY <1>1, <1>2, <1>7, <1>9, QueueEffect
<1>11. Never(wire \o outbox, Answer, Answer)'
  <2>1. \A x \in Coming : x.type \notin Answer
    BY <1>5 DEF OnItsWay
  <2>2. Never(wire \o outbox, Answer, Answer)
    BY DEF SInv, OneGuess
  <2> QED BY <1>1, <1>2, <1>7, <1>9, <2>1, <2>2, QueueEffect
<1>12. Never(wire \o outbox, Started, Entered)'
  <2>1. \A y \in Range(q) : y.type \notin Started /\ y.type \notin Entered
    BY <1>7 DEF Answer, Single, Started, Entered
  <2>2. Never(wire \o outbox, Started, Entered)
    BY DEF SInv, GameShown
  <2>3. Never(q, Entered, Started)
    <3>1. \A i \in 1..Len(q) : q[i] \in Range(q)
      BY <1>7 DEF Range
    <3> QED BY <2>1, <3>1 DEF Never
  <2> QED BY <1>1, <1>2, <1>7, <1>9, <2>1, <2>2, <2>3, QueueEffect
<1>13. \A T \in {Result, Started, Resumed, Entered} : OnItsWay(T)' = OnItsWay(T)
  BY <1>7, <1>10 DEF OnItsWay, Answer, Single, Result, Started, Resumed, Entered
<1>14. OnItsWay(Answer)' = {m \in Range(q) : m.type \in Answer}
  BY <1>5, <1>10 DEF OnItsWay
<1>15. ~ScreenComing'
  BY <1>1, <1>2, <1>5, <1>10, <1>13, ScreenComingIs, ScreenComingIsNext DEF NewScreen
<1>16. connected
  BY <1>2 DEF SInv, Ended
<1>17. Ended' /\ RoundOpen' /\ NextScreen' /\ GameShown'
  BY <1>2, <1>12, <1>13, <1>15, <1>16
  DEF SInv, Ended, RoundOpen, NextScreen, GameShown
<1>18. OneGuess'
  <2>1. ASSUME OnItsWay(Single)' # {} PROVE RoundFinished(board')
    <3>1. CASE OnItsWay(Single) # {}
      BY <1>8, <3>1 DEF SInv, OneGuess
    <3>2. CASE OnItsWay(Single) = {}
      BY <1>7, <1>10, <2>1, <3>2 DEF OnItsWay
    <3> QED BY <3>1, <3>2
  <2>2. guesses' = <<>> /\ Len(guesses') <= 1
    BY <1>3
  <2> QED BY <1>2, <1>5, <1>11, <1>15, <2>1, <2>2 DEF OneGuess
<1>19. ShownRight'
  <2> SUFFICES ASSUME connected', scene' = "game", ~ScreenComing'
      PROVE /\ hasRow' /\ board'.usedLetters \subseteq used'
            /\ ~RoundFinished(board') => used' = board'.usedLetters \cup Range(guesses')
            /\ OnItsWay(Answer)' = {} => shown' = View(board')
            /\ \A m \in OnItsWay(Answer)' :
                 /\ m.board = board'
                 /\ IF m.type = "GUESS_OK" THEN shown'.errors = board'.errors
                    ELSE /\ shown'.errors + 1 = board'.errors
                         /\ shown'.word = board'.wordWithHiddenChars
            /\ running' /\ ~RoundFinished(board') /\ guesses' = <<>>
                 /\ OnItsWay(Answer)' = {} => enabled'
    BY DEF ShownRight
  <2>1. /\ board.usedLetters \subseteq used /\ shown = View(board)
        /\ ~RoundFinished(board) => used = board.usedLetters \cup {l}
    BY <1>2, <1>3, <1>5 DEF SInv, ShownRight
  <2>2. board'.usedLetters \subseteq used'
    BY <1>2, <1>5, <1>8, <2>1
  <2>3. ~RoundFinished(board') => used' = board'.usedLetters \cup Range(guesses')
    BY <1>2, <1>3, <1>8, <2>1, NoMessage
  <2>4. OnItsWay(Answer)' = {} => shown' = View(board')
    BY <1>2, <1>7, <1>8, <1>14, <2>1
  <2>5. ASSUME NEW m \in OnItsWay(Answer)'
        PROVE  /\ m.board = board'
               /\ IF m.type = "GUESS_OK" THEN shown'.errors = board'.errors
                  ELSE /\ shown'.errors + 1 = board'.errors
                       /\ shown'.word = board'.wordWithHiddenChars
    <3>1. m \in Range(q) /\ m.type \in {"GUESS_OK", "GUESS_WRONG"}
      BY <1>14 DEF Answer
    <3>2. ~GuessIgnored(board, l)
      BY <1>7, <3>1, NoMessage
    <3>3. shown.errors = board.errors /\ shown.word = board.wordWithHiddenChars
      BY <2>1 DEF View
    <3> QED BY <1>2, <1>7, <1>8, <3>1, <3>2, <3>3
  <2>6. ~RoundFinished(board') => OnItsWay(Answer)' # {}
    BY <1>7, <1>8, <1>14
  <2> QED BY <1>2, <1>5, <2>2, <2>3, <2>4, <2>5, <2>6
<1> QED BY <1>17, <1>18, <1>19 DEF CalmInv

LEMMA EndRoundCalm == ASSUME SInv, EndRound PROVE CalmInv'
<1>1. wire \in Seq(Message) /\ outbox \in Seq(Message)
  BY TInvIs DEF SInv, MessagesTyped
<1>2. /\ running /\ running' = FALSE
      /\ UNCHANGED <<word, board, hasRow, wire, guesses, connected, scene, shown,
                     used, enabled, infoBoxes, resultBoxes, rejoins>>
  BY DEF EndRound, widget
<1>3. PICK q \in Seq(Message) :
        /\ IF connected THEN Queue(q) ELSE UNCHANGED outbox
        /\ \A m \in Range(q) : m.type \in Result
  <2>1. PICK timedOut, allFinished \in BOOLEAN :
          IF connected
          THEN Queue((IF timedOut THEN <<Msg("ROUND_TIMEOUT", board)>> ELSE <<>>)
             \o (IF allFinished THEN <<Msg("ROUND_ALL_FINISHED", board)>> ELSE <<>>))
          ELSE UNCHANGED outbox
    BY DEF EndRound
  <2>2. board \in Stats
    BY DEF SInv, TInv, TypeOK
  <2> QED BY <2>1, <2>2, ResultsFacts
<1>4. /\ wire' \in Seq(Message) /\ outbox' \in Seq(Message)
      /\ Coming \subseteq Coming' /\ \A m \in Coming' : m \in Coming \/ m.type \in Result
  <2>1. CASE connected
    BY <1>1, <1>2, <1>3, <2>1, QueueEffect
  <2>2. CASE ~connected
    BY <1>1, <1>2, <1>3, <2>2 DEF Coming
  <2> QED BY <2>1, <2>2
<1>5. ASSUME NEW T, NEW U, T \cap Result = {}, U \cap Result = {},
             Never(wire \o outbox, T, U)
      PROVE  Never(wire \o outbox, T, U)'
  <2>1. CASE connected
    <3>1. \A y \in Range(q) : y.type \notin T /\ y.type \notin U
      BY <1>3, <1>5
    <3>2. Never(q, U, T)
      <4>1. \A i \in 1..Len(q) : q[i] \in Range(q)
        BY <1>3 DEF Range
      <4> QED BY <3>1, <4>1 DEF Never
    <3> QED BY <1>1, <1>2, <1>3, <1>5, <2>1, <3>1, <3>2, QueueEffect
  <2>2. CASE ~connected
    BY <1>2, <1>3, <1>5, <2>2
  <2> QED BY <2>1, <2>2
<1>6. /\ Never(wire \o outbox, Answer, Answer)'
      /\ Never(wire \o outbox, Started, Entered)'
  <2>1. /\ Answer \cap Result = {} /\ Started \cap Result = {} /\ Entered \cap Result = {}
    BY DEF Answer, Result, Started, Entered
  <2>2. Never(wire \o outbox, Answer, Answer) /\ Never(wire \o outbox, Started, Entered)
    BY DEF SInv, OneGuess, GameShown
  <2> QED BY <1>5, <2>1, <2>2
<1>7. \A T \in {Answer, Single, Started, Resumed, Entered} : OnItsWay(T)' = OnItsWay(T)
  BY <1>4 DEF OnItsWay, Answer, Single, Result, Started, Resumed, Entered
<1>8. ScreenComing' <=> ScreenComing
  BY <1>1, <1>2, <1>4, <1>7, ScreenComingIs, ScreenComingIsNext DEF NewScreen
<1>9. Ended' /\ RoundOpen'
  BY <1>2, <1>3 DEF SInv, Ended, RoundOpen
<1>10. OneGuess'
  BY <1>2, <1>6, <1>7, <1>8 DEF SInv, OneGuess
<1>11. NextScreen' /\ GameShown'
  BY <1>2, <1>6, <1>7, <1>8 DEF SInv, NextScreen, GameShown
<1>12. ShownRight'
  BY <1>2, <1>7, <1>8 DEF SInv, ShownRight, View
<1> QED BY <1>9, <1>10, <1>11, <1>12 DEF CalmInv

LEMMA RejoinCalm == ASSUME Calm, SInv, Rejoin PROVE CalmInv'
<1>1. /\ ~connected /\ connected' = TRUE /\ scene' = "menu" /\ resultBoxes = 0
      /\ hasRow' = running /\ rejoins = <<>>
      /\ UNCHANGED <<word, board, running, wire, guesses, resultBoxes, rejoins>>
  BY DEF Rejoin, BackInRoom, boxes
<1>2. outbox = <<>> /\ wire = <<>> /\ guesses = <<>>
  BY <1>1 DEF SInv, Ended
<1>3. PICK q \in Seq(Message) :
           /\ Queue(q)
           /\ \A m \in Range(q) :
                \/ m.type \in Entered
                \/ m.type \in Started /\ m.board = NewStats(word) /\ running
                \/ m.type \in Resumed /\ m.board = board /\ running
           /\ running => \E m \in Range(q) : m.type \in Started
           /\ running => \E m \in Range(q) : m.type \in Resumed
           /\ Never(q, Entered, Started)
  BY RejoinFacts DEF SInv
<1>4. /\ Coming = {} /\ wire \in Seq(Message) /\ outbox \in Seq(Message)
      /\ \A T, U : Never(wire \o outbox, T, U)
  <2>1. <<>> \o <<>> = <<>>
    OBVIOUS
  <2> QED BY <1>2, <2>1, NothingComing, NoMessage
<1>5. /\ wire' \in Seq(Message) /\ outbox' \in Seq(Message) /\ Coming' = Range(q)
  BY <1>1, <1>3, <1>4, QueueEffect
<1>6. Never(wire \o outbox, Started, Entered)'
  BY <1>1, <1>3, <1>4, QueueEffect
<1>7. \A T \in {Answer, Single, Result} : OnItsWay(T)' = {}
  BY <1>3, <1>5 DEF OnItsWay, Answer, Single, Result, Started, Resumed, Entered
<1>8. Never(wire \o outbox, Answer, Answer)'
  <2>1. \A y \in Range(q) : y.type \notin Answer
    BY <1>5, <1>7 DEF OnItsWay
  <2>2. Never(q, Answer, Answer)
    <3>1. \A i \in 1..Len(q) : q[i] \in Range(q)
      BY <1>3 DEF Range
    <3> QED BY <2>1, <3>1 DEF Never
  <2> QED BY <1>1, <1>3, <1>4, <2>1, <2>2, QueueEffect
<1>9. /\ ScreenComing' => running
      /\ running => OnItsWay(Started)' # {} /\ OnItsWay(Resumed)' # {}
      /\ \A m \in OnItsWay(Started)' : m.board = NewStats(word)
      /\ \A m \in OnItsWay(Resumed)' : m.board = board
  <2>1. ScreenComing' <=> OnItsWay(Started)' # {} \/ OnItsWay(Resumed)' # {}
    BY <1>1, <1>5, ScreenComingIsNext DEF NewScreen
  <2> QED BY <1>3, <1>5, <2>1 DEF OnItsWay, Started, Resumed, Entered
<1>10. Ended' /\ RoundOpen'
  BY <1>1, <1>2, <1>7 DEF Ended, RoundOpen
<1>11. OneGuess'
  BY <1>1, <1>2, <1>7, <1>8 DEF OneGuess
<1>12. NextScreen'
  BY <1>1, <1>9, NoMessage DEF NextScreen
<1>13. GameShown' /\ ShownRight'
  BY <1>1, <1>6, <1>9 DEF GameShown, ShownRight
<1> QED BY <1>10, <1>11, <1>12, <1>13 DEF CalmInv

LEMMA EndCalm ==
  ASSUME SInv,
         \/ LoseConnection
         \/ \E next \in {"connect", "closed"} : ProgramEnds(next)
  PROVE  CalmInv'
<1>1. /\ connected' = FALSE /\ scene' # "game"
      /\ outbox' = <<>> /\ wire' = <<>> /\ guesses' = <<>>
      /\ UNCHANGED running /\ (resultBoxes' = resultBoxes \/ resultBoxes' = 0)
  BY DEF LoseConnection, ProgramEnds, server, boxes
<1>2. /\ Coming' = {} /\ \A T, U : Never(wire \o outbox, T, U)'
  BY <1>1, NothingComing
<1>3. \A T : OnItsWay(T)' = {}
  BY <1>2 DEF OnItsWay
<1>4. Ended' /\ RoundOpen'
  BY <1>1, <1>3 DEF SInv, Ended, RoundOpen
<1>5. OneGuess'
  BY <1>1, <1>2, <1>3 DEF OneGuess
<1>6. NextScreen' /\ GameShown' /\ ShownRight'
  BY <1>1, <1>2 DEF NextScreen, GameShown, ShownRight
<1> QED BY <1>4, <1>5, <1>6 DEF CalmInv

\* What every message that is handled leaves as it was, and what it tells.
LEMMA ReceivedCalm ==
  ASSUME SInv, NEW types, Received(types)
  PROVE  /\ Head(wire) \in Coming /\ Head(wire).type \in types
         /\ \A T : /\ Head(wire).type \in T => Head(wire) \in OnItsWay(T)
                   /\ OnItsWay(T)' \subseteq OnItsWay(T)
                   /\ Head(wire).type \notin T => OnItsWay(T)' = OnItsWay(T)
         /\ wire' \in Seq(Message) /\ outbox' \in Seq(Message)
         /\ ScreenComing <=> NewScreen
         /\ Never(wire \o outbox, Answer, Answer)'
         /\ Never(wire \o outbox, Started, Entered)'
         /\ Head(wire).type \in Answer => OnItsWay(Answer)' = {}
         /\ Head(wire).type \in Started => OnItsWay(Entered)' = {}
         /\ connected /\ UNCHANGED <<word, board, hasRow, running, guesses, connected>>
<1>1. wire \in Seq(Message) /\ outbox \in Seq(Message)
  BY TInvIs DEF SInv, MessagesTyped
<1> DEFINE m == Head(wire)
<1>2. /\ m.type \in types
      /\ wire' \in Seq(Message) /\ outbox' \in Seq(Message)
      /\ Coming = Coming' \cup {m}
      /\ \A T, U : Never(wire \o outbox, T, U) =>
              /\ Never(wire \o outbox, T, U)'
              /\ m.type \in T => \A y \in Coming' : y.type \notin U
  BY <1>1, ReceivedEffect
<1> HIDE DEF m
<1>3. Never(wire \o outbox, Answer, Answer) /\ Never(wire \o outbox, Started, Entered)
  BY DEF SInv, OneGuess, GameShown
<1>4. /\ Never(wire \o outbox, Answer, Answer)'
      /\ Never(wire \o outbox, Started, Entered)'
      /\ m.type \in Answer => OnItsWay(Answer)' = {}
      /\ m.type \in Started => OnItsWay(Entered)' = {}
  BY <1>2, <1>3 DEF OnItsWay
<1>5. \A T : /\ m.type \in T => m \in OnItsWay(T)
             /\ OnItsWay(T)' \subseteq OnItsWay(T)
             /\ m.type \notin T => OnItsWay(T)' = OnItsWay(T)
  BY <1>2 DEF OnItsWay
<1>6. connected /\ UNCHANGED <<word, board, hasRow, running, guesses, connected>>
  BY DEF SInv, Ended, Received, server
<1> QED BY <1>1, <1>2, <1>4, <1>5, <1>6, ScreenComingIs DEF m

LEMMA RoomOKCalm == ASSUME SInv, RoomOK PROVE CalmInv'
<1> DEFINE m == Head(wire)
<1>1. Received({"ROOM_OK"}) /\ m.type = "ROOM_OK"
  BY DEF RoomOK, Received
<1>2. /\ scene' = "lobby"
      /\ UNCHANGED <<shown, used, enabled, infoBoxes, resultBoxes, rejoins>>
  BY DEF RoomOK, boxes
<1>3. /\ \A T : OnItsWay(T)' \subseteq OnItsWay(T)
      /\ \A T \in {Answer, Single, Result, Started, Resumed} : OnItsWay(T)' = OnItsWay(T)
      /\ OnItsWay(Entered) # {}
  BY <1>1, ReceivedCalm DEF Answer, Single, Result, Started, Resumed, Entered
<1>4. ScreenComing' <=> ScreenComing
  BY <1>1, <1>2, <1>3, ReceivedCalm, ScreenComingIsNext DEF NewScreen
<1>5. /\ Never(wire \o outbox, Answer, Answer)'
      /\ Never(wire \o outbox, Started, Entered)'
      /\ connected /\ UNCHANGED <<word, board, hasRow, running, guesses, connected>>
  BY <1>1, ReceivedCalm
<1> HIDE DEF m
<1>6. Ended' /\ RoundOpen' /\ OneGuess'
  BY <1>2, <1>3, <1>4, <1>5 DEF SInv, Ended, RoundOpen, OneGuess
<1>7. NextScreen' /\ GameShown' /\ ShownRight'
  BY <1>2, <1>3, <1>4, <1>5 DEF SInv, NextScreen, GameShown, ShownRight
<1> QED BY <1>6, <1>7 DEF CalmInv

LEMMA GameStartedCalm == ASSUME SInv, GameStarted PROVE CalmInv'
<1> DEFINE m == Head(wire)
<1>1. Received(Started) /\ m.type \in Started
  BY DEF GameStarted, Received, Started
<1>2. /\ scene' = "game" /\ shown' = View(m.board) /\ used' = {} /\ enabled' = TRUE
      /\ UNCHANGED <<infoBoxes, resultBoxes, rejoins>>
  BY DEF GameStarted, boxes
<1>3. /\ OnItsWay(Started)' \subseteq OnItsWay(Started) /\ m \in OnItsWay(Started)
      /\ \A T \in {Answer, Single, Result, Resumed} : OnItsWay(T)' = OnItsWay(T)
      /\ OnItsWay(Entered)' = {}
  BY <1>1, ReceivedCalm DEF Answer, Single, Result, Started, Resumed
<1>4. /\ Never(wire \o outbox, Answer, Answer)'
      /\ Never(wire \o outbox, Started, Entered)'
      /\ connected /\ UNCHANGED <<word, board, hasRow, running, guesses, connected>>
      /\ ScreenComing
      /\ ScreenComing' <=> NewScreen'
  BY <1>1, <1>3, ReceivedCalm, ScreenComingIsNext DEF NewScreen
<1> HIDE DEF m
<1>5. /\ hasRow /\ m.board = NewStats(word)
      /\ rejoins = <<>> /\ OnItsWay(Resumed) = {} => board = NewStats(word)
  BY <1>3, <1>4 DEF SInv, NextScreen
<1>6. guesses = <<>> /\ OnItsWay(Answer)' = {} /\ Range(guesses) = {}
  BY <1>3, <1>4, NoMessage DEF SInv, OneGuess
<1>7. Ended' /\ RoundOpen' /\ GameShown'
  BY <1>2, <1>3, <1>4 DEF SInv, Ended, RoundOpen, GameShown
<1>8. OneGuess'
  BY <1>3, <1>4, <1>6 DEF SInv, OneGuess
<1>9. NextScreen'
  BY <1>2, <1>3, <1>4 DEF SInv, NextScreen
<1>10. ShownRight'
  <2>1. ASSUME ~ScreenComing' PROVE board = NewStats(word) /\ board.usedLetters = {}
    BY <1>2, <1>3, <1>4, <1>5, <2>1, BoardFacts DEF NewScreen
  <2> QED BY <1>2, <1>4, <1>5, <1>6, <2>1 DEF ShownRight
<1> QED BY <1>7, <1>8, <1>9, <1>10 DEF CalmInv

LEMMA GameRejoinedCalm == ASSUME SInv, GameRejoined PROVE CalmInv'
<1> DEFINE m == Head(wire)
<1>1. Received(Resumed) /\ m.type \in Resumed
  BY DEF GameRejoined, Received, Resumed
<1>2. /\ rejoins' = Append(rejoins, m.board)
      /\ UNCHANGED <<scene, shown, used, enabled, infoBoxes, resultBoxes>>
  BY DEF GameRejoined, boxes
<1>3. /\ OnItsWay(Resumed)' \subseteq OnItsWay(Resumed) /\ m \in OnItsWay(Resumed)
      /\ \A T \in {Answer, Single, Result, Started, Entered} : OnItsWay(T)' = OnItsWay(T)
  BY <1>1, ReceivedCalm DEF Answer, Single, Result, Started, Resumed, Entered
<1>4. /\ rejoins' # <<>> /\ Range(rejoins') = Range(rejoins) \cup {m.board}
  <2>1. rejoins \in Seq(Stats) /\ m.board \in Stats
    <3>1. wire \in Seq(Message) /\ outbox \in Seq(Message) /\ rejoins \in Seq(Stats)
      BY TInvIs DEF SInv, MessagesTyped, WidgetTyped
    <3>2. m \in Message
      BY <1>1, <3>1, ReceivedEffect
    <3> QED BY <3>1, <3>2 DEF Message
  <2> DEFINE b == m.board
             one == <<b>>
  <2>2. one \in Seq(Stats) /\ Range(one) = {b} /\ Append(rejoins, b) = rejoins \o one
    BY <2>1, OneMessage
  <2>3. Len(Append(rejoins, b)) # 0
    BY <2>1
  <2> HIDE DEF b, one
  <2>4. rejoins' = rejoins \o one
    BY <1>2, <2>2 DEF b
  <2>5. Range(rejoins') = Range(rejoins) \cup {b}
    BY <2>1, <2>2, <2>4, RangeConcat
  <2>6. rejoins' # <<>>
    BY <1>2, <2>3 DEF b
  <2> QED BY <2>5, <2>6 DEF b
<1>5. /\ Never(wire \o outbox, Answer, Answer)'
      /\ Never(wire \o outbox, Started, Entered)'
      /\ connected /\ UNCHANGED <<word, board, hasRow, running, guesses, connected>>
      /\ ScreenComing /\ ScreenComing'
  BY <1>1, <1>3, <1>4, ReceivedCalm, ScreenComingIsNext DEF NewScreen
<1> HIDE DEF m
<1>6. m.board = board
  BY <1>3, <1>5 DEF SInv, NextScreen
<1>7. Ended' /\ RoundOpen' /\ GameShown' /\ ShownRight'
  BY <1>2, <1>3, <1>5 DEF SInv, Ended, RoundOpen, GameShown, ShownRight
<1>8. OneGuess'
  BY <1>2, <1>3, <1>5 DEF SInv, OneGuess
<1>9. NextScreen'
  BY <1>2, <1>3, <1>4, <1>5, <1>6 DEF SInv, NextScreen
<1> QED BY <1>7, <1>8, <1>9 DEF CalmInv

\* An answer is the only one; the board it brings is the board there is.
LEMMA AnswerCalm ==
  ASSUME SInv, GuessCorrect \/ GuessIncorrect
  PROVE  CalmInv'
<1> DEFINE m == Head(wire)
<1>1. Received(Answer) /\ m.type \in Answer
  BY DEF GuessCorrect, GuessIncorrect, Received, Answer
<1>2. /\ enabled' = TRUE
      /\ UNCHANGED <<scene, used, infoBoxes, resultBoxes, rejoins>>
  BY DEF GuessCorrect, GuessIncorrect, boxes
<1>3. \/ /\ m.type = "GUESS_OK"
         /\ shown' = [shown EXCEPT !.word = m.board.wordWithHiddenChars,
                                   !.score = m.board.score]
      \/ /\ m.type = "GUESS_WRONG"
         /\ shown' = [shown EXCEPT !.errors = @ + 1, !.score = m.board.score]
  BY DEF GuessCorrect, GuessIncorrect, Received
<1>4. /\ m \in OnItsWay(Answer) /\ OnItsWay(Answer)' = {}
      /\ \A T \in {Single, Result, Started, Resumed, Entered} : OnItsWay(T)' = OnItsWay(T)
  BY <1>1, ReceivedCalm DEF Answer, Single, Result, Started, Resumed, Entered
<1>5. /\ Never(wire \o outbox, Answer, Answer)'
      /\ Never(wire \o outbox, Started, Entered)'
      /\ connected /\ UNCHANGED <<word, board, hasRow, running, guesses, connected>>
      /\ ScreenComing' <=> ScreenComing
  BY <1>1, <1>2, <1>4, ReceivedCalm, ScreenComingIsNext DEF NewScreen
<1> HIDE DEF m
<1>6. guesses = <<>> /\ ~ScreenComing
  BY <1>4 DEF SInv, OneGuess
<1>7. Ended' /\ RoundOpen' /\ NextScreen' /\ GameShown'
  BY <1>2, <1>4, <1>5, <1>6 DEF SInv, Ended, RoundOpen, NextScreen, GameShown
<1>8. OneGuess'
  BY <1>2, <1>4, <1>5, <1>6 DEF SInv, OneGuess
<1>9. ShownRight'
  <2> SUFFICES ASSUME scene = "game" PROVE ShownRight'
    BY <1>2 DEF ShownRight
  <2>1. /\ hasRow /\ board.usedLetters \subseteq used
        /\ ~RoundFinished(board) => used = board.usedLetters \cup Range(guesses)
        /\ m.board = board
        /\ IF m.type = "GUESS_OK" THEN shown.errors = board.errors
            ELSE /\ shown.errors + 1 = board.errors
                 /\ shown.word = board.wordWithHiddenChars
    BY <1>4, <1>5, <1>6 DEF SInv, ShownRight
  <2>2. shown \in Screen
    BY DEF SInv, TInv
  <2>3. shown' = [word |-> board.wordWithHiddenChars, errors |-> board.errors,
                  score |-> board.score]
    BY <1>3, <2>1, <2>2 DEF Screen
  <2> QED BY <1>2, <1>4, <1>5, <2>1, <2>3 DEF ShownRight, View
<1> QED BY <1>7, <1>8, <1>9 DEF CalmInv

LEMMA SingleRoundOverCalm == ASSUME SInv, SingleRoundOver PROVE CalmInv'
<1> DEFINE m == Head(wire)
<1>1. Received(Single) /\ m.type \in Single
  BY DEF SingleRoundOver, Received, Single
<1>2. /\ enabled' = FALSE
      /\ UNCHANGED <<scene, shown, used, resultBoxes, rejoins>>
  BY DEF SingleRoundOver
<1>3. /\ m \in OnItsWay(Single) /\ OnItsWay(Single)' \subseteq OnItsWay(Single)
      /\ \A T \in {Answer, Result, Started, Resumed, Entered} : OnItsWay(T)' = OnItsWay(T)
  BY <1>1, ReceivedCalm DEF Answer, Single, Result, Started, Resumed, Entered
<1>4. /\ Never(wire \o outbox, Answer, Answer)'
      /\ Never(wire \o outbox, Started, Entered)'
      /\ connected /\ UNCHANGED <<word, board, hasRow, running, guesses, connected>>
      /\ ScreenComing' <=> ScreenComing
  BY <1>1, <1>2, <1>3, ReceivedCalm, ScreenComingIsNext DEF NewScreen
<1> HIDE DEF m
<1>5. RoundFinished(board)
  BY <1>3 DEF SInv, OneGuess
<1>6. Ended' /\ RoundOpen' /\ GameShown'
  BY <1>2, <1>3, <1>4 DEF SInv, Ended, RoundOpen, GameShown
<1>7. OneGuess'
  BY <1>2, <1>3, <1>4, <1>5 DEF SInv, OneGuess
<1>8. NextScreen'
  BY <1>2, <1>3, <1>4 DEF SInv, NextScreen
<1>9. ShownRight'
  BY <1>2, <1>3, <1>4, <1>5 DEF SInv, ShownRight, View
<1> QED BY <1>6, <1>7, <1>8, <1>9 DEF CalmInv

LEMMA RoundOverCalm == ASSUME SInv, RoundOver PROVE CalmInv'
<1> DEFINE m == Head(wire)
<1>1. Received(Result) /\ m.type \in Result
  BY DEF RoundOver, Received, Result
<1>2. /\ enabled' = FALSE
      /\ UNCHANGED <<scene, shown, used, infoBoxes, rejoins>>
  BY DEF RoundOver
<1>3. /\ m \in OnItsWay(Result)
      /\ \A T \in {Answer, Single, Started, Resumed, Entered} : OnItsWay(T)' = OnItsWay(T)
  BY <1>1, ReceivedCalm DEF Answer, Single, Result, Started, Resumed, Entered
<1>4. /\ Never(wire \o outbox, Answer, Answer)'
      /\ Never(wire \o outbox, Started, Entered)'
      /\ connected /\ UNCHANGED <<word, board, hasRow, running, guesses, connected>>
      /\ ScreenComing' <=> ScreenComing
  BY <1>1, <1>2, <1>3, ReceivedCalm, ScreenComingIsNext DEF NewScreen
<1> HIDE DEF m
<1>5. ~running
  BY <1>3 DEF SInv, RoundOpen
<1>6. Ended' /\ RoundOpen' /\ GameShown'
  BY <1>2, <1>3, <1>4, <1>5 DEF SInv, Ended, RoundOpen, GameShown
<1>7. OneGuess'
  BY <1>2, <1>3, <1>4 DEF SInv, OneGuess
<1>8. NextScreen'
  BY <1>2, <1>3, <1>4 DEF SInv, NextScreen
<1>9. ShownRight'
  BY <1>2, <1>3, <1>4, <1>5 DEF SInv, ShownRight, View
<1> QED BY <1>6, <1>7, <1>8, <1>9 DEF CalmInv

LEMMA ReceiveCalm == ASSUME SInv, Receive PROVE CalmInv'
BY RoomOKCalm, GameStartedCalm, GameRejoinedCalm, EndCalm, AnswerCalm,
   SingleRoundOverCalm, RoundOverCalm DEF Receive, GameRejoinedUnreadable

\* The timer of a rejoin brings the board as it is: nothing else is under way.
LEMMA RejoinTimerCalm == ASSUME Calm, SInv, RejoinTimer PROVE CalmInv'
<1> DEFINE s == Head(rejoins)
<1>1. /\ rejoins # <<>> /\ outbox = <<>> /\ wire = <<>>
      /\ shown' = View(s) /\ used' = used \cup s.usedLetters
      /\ enabled' = TRUE /\ rejoins' = Tail(rejoins)
      /\ UNCHANGED <<word, board, hasRow, running, outbox, wire, guesses, connected,
                     scene, infoBoxes, resultBoxes>>
  BY DEF RejoinTimer, server, boxes
<1>2. Range(rejoins) = Range(Tail(rejoins)) \cup {s}
  <2>1. rejoins \in Seq(Stats)
    BY TInvIs DEF SInv, WidgetTyped
  <2> QED BY <1>1, <2>1, TailFacts
<1> HIDE DEF s
<1>3. /\ Coming = {} /\ Coming' = {} /\ \A T, U : Never(wire \o outbox, T, U)'
      /\ wire \in Seq(Message) /\ outbox \in Seq(Message)
      /\ wire' \in Seq(Message) /\ outbox' \in Seq(Message)
  BY <1>1, NothingComing, NoMessage
<1>4. \A T : OnItsWay(T) = {} /\ OnItsWay(T)' = {}
  BY <1>3 DEF OnItsWay
<1>5. ScreenComing /\ (ScreenComing' <=> rejoins' # <<>>)
  BY <1>1, <1>3, <1>4, ScreenComingIs, ScreenComingIsNext DEF NewScreen
<1>6. ASSUME connected
      PROVE  /\ hasRow /\ s = board /\ used' = board.usedLetters
             /\ \A x \in Range(rejoins') : x = board
  BY <1>1, <1>2, <1>4, <1>5, <1>6 DEF SInv, NextScreen
<1>7. guesses = <<>> /\ Range(guesses) = {}
  BY <1>5, NoMessage DEF SInv, OneGuess
<1>8. Ended' /\ RoundOpen' /\ GameShown'
  BY <1>1, <1>3, <1>4 DEF SInv, Ended, RoundOpen, GameShown
<1>9. OneGuess'
  BY <1>1, <1>3, <1>4, <1>7 DEF SInv, OneGuess
<1>10. NextScreen'
  BY <1>1, <1>4, <1>5, <1>6 DEF NextScreen
<1>11. ShownRight'
  BY <1>1, <1>4, <1>6, <1>7 DEF ShownRight
<1> QED BY <1>8, <1>9, <1>10, <1>11 DEF CalmInv

\* What neither receives nor sends leaves the messages as they are.
LEMMA SameMessages ==
  ASSUME UNCHANGED <<outbox, wire, rejoins>>
  PROVE  /\ \A T : OnItsWay(T)' = OnItsWay(T)
         /\ \A T, U : Never(wire \o outbox, T, U) => Never(wire \o outbox, T, U)'
         /\ ScreenComing' <=> ScreenComing
BY DEF OnItsWay, Coming, Never, ScreenComing

LEMMA CloseCalm ==
  ASSUME SInv, CloseInfo \/ CloseResult \/ CloseResultWindow \/ UNCHANGED vars
  PROVE  CalmInv'
<1>1. UNCHANGED <<word, board, hasRow, running, outbox, wire, guesses, connected,
                  shown, used, enabled, rejoins>>
  BY DEF CloseInfo, CloseResult, CloseResultWindow, vars, widget, server
<1>2. \/ UNCHANGED <<scene, resultBoxes>>
      \/ scene' \in {scene, "lobby"} /\ resultBoxes > 0 /\ resultBoxes' = resultBoxes - 1
  BY DEF CloseInfo, CloseResult, CloseResultWindow, vars, widget
<1>3. /\ \A T : OnItsWay(T)' = OnItsWay(T)
      /\ \A T, U : Never(wire \o outbox, T, U) => Never(wire \o outbox, T, U)'
      /\ ScreenComing' <=> ScreenComing
  BY <1>1, SameMessages
<1>4. resultBoxes > 0 => ~running
  BY DEF SInv, RoundOpen
<1>5. Ended' /\ RoundOpen'
  BY <1>1, <1>2, <1>3, <1>4 DEF SInv, Ended, RoundOpen
<1>6. OneGuess' /\ NextScreen'
  BY <1>1, <1>3 DEF SInv, OneGuess, NextScreen
<1>7. GameShown' /\ ShownRight'
  BY <1>1, <1>2, <1>3, <1>4 DEF SInv, GameShown, ShownRight, View
<1> QED BY <1>5, <1>6, <1>7 DEF CalmInv

\* The letter clicked is one the server accepts: the screen offers no other.
LEMMA ClickCalm ==
  ASSUME Calm, SInv, NEW letter \in Letter, Click(letter)
  PROVE  CalmInv'
<1>1. /\ connected /\ scene = "game" /\ enabled /\ letter \notin used /\ ~ScreenComing
      /\ used' = used \cup {letter} /\ enabled' = FALSE
      /\ guesses' = Append(guesses, letter)
      /\ UNCHANGED <<word, board, hasRow, running, outbox, wire, connected, scene, shown,
                     infoBoxes, resultBoxes, rejoins>>
  BY DEF Click, server, boxes
<1>2. /\ \A T : OnItsWay(T)' = OnItsWay(T)
      /\ \A T, U : Never(wire \o outbox, T, U) => Never(wire \o outbox, T, U)'
      /\ ScreenComing' <=> ScreenComing
  BY <1>1, SameMessages
<1>3. guesses = <<>> /\ OnItsWay(Answer) = {} /\ Range(guesses) = {}
  BY <1>1, NoMessage DEF SInv, OneGuess
<1> DEFINE one == <<letter>>
<1>4. guesses' = one /\ Len(one) = 1 /\ one[1] = letter /\ one # <<>> /\ Range(one) = {letter}
  BY <1>1, <1>3, OneMessage
<1> HIDE DEF one
<1>5. /\ hasRow /\ board.usedLetters \subseteq used /\ shown = View(board)
      /\ ~RoundFinished(board) => used = board.usedLetters
  BY <1>1, <1>3 DEF SInv, ShownRight
<1>6. Ended' /\ RoundOpen' /\ NextScreen' /\ GameShown'
  BY <1>1, <1>2 DEF SInv, Ended, RoundOpen, NextScreen, GameShown
<1>7. OneGuess'
  BY <1>1, <1>2, <1>3, <1>4, <1>5 DEF SInv, OneGuess
<1>8. ShownRight'
  BY <1>1, <1>2, <1>3, <1>4, <1>5 DEF ShownRight, View
<1> QED BY <1>6, <1>7, <1>8 DEF CalmInv

LEMMA NextCalm == ASSUME Calm, SInv, [Next]_vars PROVE SInv'
<1>1. TInv'
  BY NextTyped DEF SInv
<1>2. CalmInv'
  BY StartRoundCalm, HandleGuessCalm, EndRoundCalm, WriteOutCalm, RejoinCalm, EndCalm,
     ReceiveCalm, RejoinTimerCalm, CloseCalm, ClickCalm DEF Next, RestartProgram
<1> QED BY <1>1, <1>2 DEF SInv, CalmInv

LEMMA Calmness == ASSUME Calm PROVE Spec => []SInv
<1>1. Init => SInv
  BY InitTyped, InitCalm DEF SInv, CalmInv
<1>2. SInv /\ [Next]_vars => SInv'
  BY NextCalm
<1> QED BY <1>1, <1>2, PTL DEF Spec

\* With nothing under way no screen is coming, so the scene of a player of a
\* running round is the game (GameShown), and it shows the board (ShownRight).
LEMMA SettledScreen ==
  ASSUME SInv, Playing
  PROVE  /\ scene = "game" /\ shown = View(board)
         /\ ~RoundFinished(board) => used = board.usedLetters /\ enabled
<1>1. /\ connected /\ running /\ outbox = <<>> /\ wire = <<>>
      /\ guesses = <<>> /\ rejoins = <<>>
  BY DEF Playing, Settled
<1>2. /\ Coming = {} /\ wire \in Seq(Message) /\ outbox \in Seq(Message)
      /\ Range(guesses) = {}
  BY <1>1, NothingComing, NoMessage
<1>3. \A T : OnItsWay(T) = {}
  BY <1>2 DEF OnItsWay
<1>4. ~ScreenComing
  BY <1>1, <1>2, <1>3, ScreenComingIs DEF NewScreen
<1>5. scene = "game"
  BY <1>1, <1>3 DEF SInv, GameShown
<1> QED BY <1>1, <1>2, <1>3, <1>4, <1>5 DEF SInv, ShownRight

\* README.md:101, for every word: what Room::join and Server::joinRoom
\* (Room.cpp:200-246, Server.cpp:241-265) and checkGuess (Server.cpp:177-230) send
\* is enough for the program of a calm player to show the word, the errors and the
\* score of the server and to offer the letters it accepts, after any number of
\* rounds, lost connections and rejoins.  A player who is not calm may get two starts
\* in one write, of which the screen keeps the word of the first.
THEOREM ScreenShowsBoardHolds == ASSUME Calm PROVE Spec => []ScreenShowsBoard
<1>1. SInv => ScreenShowsBoard
  BY SettledScreen DEF ScreenShowsBoard
<1> QED BY <1>1, Calmness, PTL

\* The buttons of a calm player who is not done are enabled once every answer is
\* handled (GameWidget.cpp:177, 205): no end of a round overtakes its start.
THEOREM PlayerCanGuessHolds == ASSUME Calm PROVE Spec => []PlayerCanGuess
<1>1. SInv => PlayerCanGuess
  BY SettledScreen DEF PlayerCanGuess
<1> QED BY <1>1, Calmness, PTL

\* The at() of checkGuess (Server.cpp:187) finds the row of a calm player, and no
\* guess is one of the letters that get no answer (Server.cpp:194-197).
THEOREM GuessesAreAnswerableHolds == ASSUME Calm PROVE Spec => []GuessesAreAnswerable
<1>1. ASSUME SInv PROVE GuessesAreAnswerable
  <2>1. Len(guesses) \in Nat /\ Len(guesses) <= 1
    <3>1. guesses \in Seq(Letter)
      BY <1>1, TInvIs DEF SInv, MessagesTyped
    <3>2. Len(guesses) <= 1
      BY <1>1 DEF SInv, OneGuess
    <3> QED BY <3>1, <3>2
  <2>2. ASSUME NEW i \in 1..Len(guesses) PROVE i = 1 /\ guesses # <<>>
    BY <2>1
  <2>3. guesses # <<>> => hasRow /\ guesses[1] \notin board.usedLetters
    BY <1>1 DEF SInv, OneGuess
  <2> QED BY <2>2, <2>3 DEF GuessesAreAnswerable
<1> QED BY <1>1, Calmness, PTL
=============================================================================
