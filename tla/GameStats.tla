----------------------------- MODULE GameStats ------------------------------
(***************************************************************************)
(* One player's board in one round: the GameStats object of                *)
(* src/server/GameStats.cpp and the arithmetic Server::checkGuess does on  *)
(* it.  There is no state here: HangmanServer keeps one such record per    *)
(* player of a running room and replaces it with PlayGuess.                *)
(*                                                                         *)
(* Letters are values of Letter; the order of usedLetters and              *)
(* guessedLetters matters to nobody, so both vectors are sets.             *)
(***************************************************************************)
EXTENDS Integers, Sequences, FiniteSets

CONSTANTS
  Letter,     \* the keys of the on-screen keyboard (A..Z)
  Blank,      \* ' ', the only character a board shows from the start
  Hidden,     \* '_'
  Words,      \* the lines of words.txt, upper-cased (Game::availableWords)
  MaxErrors   \* Game::maxErrors (10)

ASSUME WordsAssumption ==
  /\ Words \subseteq Seq(Letter \cup {Blank})
  /\ Words # {}
  /\ <<>> \notin Words

ASSUME LetterAssumption == Blank \notin Letter /\ Hidden \notin Letter \cup {Blank}

ASSUME MaxErrorsAssumption == MaxErrors \in Nat \ {0}

-----------------------------------------------------------------------------

Stats == [errors : Nat, score : Nat,
          numberOfGuessedLettersInWord : Nat, fullWordGuessed : BOOLEAN,
          guessedLetters : SUBSET Letter, usedLetters : SUBSET Letter,
          wordWithHiddenChars : Seq(Letter \cup {Blank, Hidden})]

NewStats(word) ==
  [errors |-> 0, score |-> 0,
   numberOfGuessedLettersInWord |-> 0, fullWordGuessed |-> FALSE,
   guessedLetters |-> {}, usedLetters |-> {},
   wordWithHiddenChars |->
     [i \in 1..Len(word) |-> IF word[i] = Blank THEN Blank ELSE Hidden]]

PositionsOf(word, letter) == {i \in 1..Len(word) : word[i] = letter}

\* Mutant: a letter that occurs twice is counted once.
CountsOccurrenceOnce(word, letter) == IF PositionsOf(word, letter) = {} THEN 0 ELSE 1

CountLettersInWord(word, letter) == Cardinality(PositionsOf(word, letter))

IsLetterCorrect(word, letter) == \E i \in 1..Len(word) : word[i] = letter

UncoverLetters(shown, word, letter) ==
  [i \in 1..Len(word) |-> IF word[i] = letter THEN letter ELSE shown[i]]

(***************************************************************************)
(* GameStats::letterGuessed.  A blank counts towards word.length() but is  *)
(* never guessed, which is why WordsAssumption alone does not make every   *)
(* word solvable.                                                          *)
(***************************************************************************)
LetterGuessed(s, word, letter) ==
  IF letter \in s.guessedLetters
  THEN s
  ELSE LET hits == s.numberOfGuessedLettersInWord + CountLettersInWord(word, letter)
       IN [s EXCEPT !.numberOfGuessedLettersInWord = hits,
                    !.guessedLetters = @ \cup {letter},
                    !.fullWordGuessed = @ \/ hits = Len(word),
                    !.wordWithHiddenChars = UncoverLetters(@, word, letter)]

\* Mutant: the score is not cut off at zero.
ScoreGoesNegative(hits, errors, length) == (100 * hits) \div length - 2 * errors

(***************************************************************************)
(* GameStats::recalculateScore computes in float and truncates to int; for *)
(* every word of up to 30 letters and up to 10 errors the result is the    *)
(* integer quotient below, cut off at zero.                                *)
(***************************************************************************)
ScoreOf(hits, errors, length) ==
  LET value == (100 * hits) \div length - 2 * errors
  IN IF value > 0 THEN value ELSE 0

RecalculateScore(s, word) ==
  [s EXCEPT !.score = ScoreOf(s.numberOfGuessedLettersInWord, s.errors, Len(word))]

(***************************************************************************)
(* The part of Server::checkGuess that works on the player's board, its    *)
(* two early returns included.                                             *)
(***************************************************************************)
GuessIgnored(s, letter) == s.errors >= MaxErrors \/ letter \in s.usedLetters

PlayGuess(s, word, letter) ==
  LET marked == [s EXCEPT !.usedLetters = @ \cup {letter}]
  IN IF GuessIgnored(s, letter)
     THEN s
     ELSE RecalculateScore(IF IsLetterCorrect(word, letter)
                           THEN LetterGuessed(marked, word, letter)
                           ELSE [marked EXCEPT !.errors = @ + 1], word)

\* A player whose round is over: out of tries, or the whole word guessed.
RoundFinished(s) == s.errors = MaxErrors \/ s.fullWordGuessed

-----------------------------------------------------------------------------
(***************************************************************************)
(* What a board must satisfy at every moment: the incrementally maintained *)
(* fields agree with the set of letters tried so far.                      *)
(***************************************************************************)
LettersOf(word) == {word[i] : i \in 1..Len(word)}

Solved(word, used) == {i \in 1..Len(word) : word[i] \in used}

ConsistentStats(s, word) ==
  /\ s.guessedLetters = s.usedLetters \cap LettersOf(word)
  /\ s.errors = Cardinality(s.usedLetters \ LettersOf(word))
  /\ s.errors <= MaxErrors
  /\ s.numberOfGuessedLettersInWord = Cardinality(Solved(word, s.usedLetters))
  /\ s.fullWordGuessed <=> Solved(word, s.usedLetters) = 1..Len(word)
  /\ s.wordWithHiddenChars =
       [i \in 1..Len(word) |-> IF word[i] \in s.usedLetters \cup {Blank}
                               THEN word[i] ELSE Hidden]
  /\ s.score = ScoreOf(s.numberOfGuessedLettersInWord, s.errors, Len(word))
=============================================================================
