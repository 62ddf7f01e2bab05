--------------------------- MODULE GameStatsProofs --------------------------
(***************************************************************************)
(* A board stays consistent with the letters tried on it, whatever the     *)
(* word and the order of the guesses.  The invariant needs, beside         *)
(* ConsistentStats, that the set of used letters is finite: the code       *)
(* counts hits and misses one at a time, the invariant by cardinality.     *)
(***************************************************************************)
EXTENDS GameStats, FiniteSetTheorems, TLAPS

Sound(s, w) == s \in Stats /\ ConsistentStats(s, w) /\ IsFiniteSet(s.usedLetters)

AWord(w) == w \in Seq(Letter \cup {Blank}) /\ w # <<>>

\* Every word of words.txt is a word.
LEMMA WordsAreWords == \A w \in Words : AWord(w)
  BY WordsAssumption DEF AWord

\* The positions of a word are finitely many, so are those of one letter or of
\* the letters tried.
LEMMA PositionsFinite ==
  ASSUME NEW w, AWord(w), NEW U, NEW l
  PROVE  /\ Len(w) \in Nat \ {0}
         /\ IsFiniteSet(1..Len(w)) /\ Cardinality(1..Len(w)) = Len(w)
         /\ IsFiniteSet(Solved(w, U)) /\ Cardinality(Solved(w, U)) \in 0..Len(w)
         /\ IsFiniteSet(PositionsOf(w, l)) /\ CountLettersInWord(w, l) \in Nat
         /\ Cardinality(Solved(w, U)) = Len(w) <=> Solved(w, U) = 1..Len(w)
<1>1. Len(w) \in Nat \ {0}
  BY DEF AWord
<1>2. IsFiniteSet(1..Len(w)) /\ Cardinality(1..Len(w)) = Len(w)
  BY <1>1, FS_Interval
<1>3. Solved(w, U) \in SUBSET (1..Len(w)) /\ PositionsOf(w, l) \in SUBSET (1..Len(w))
  BY DEF Solved, PositionsOf
<1>4. /\ IsFiniteSet(Solved(w, U)) /\ Cardinality(Solved(w, U)) <= Len(w)
      /\ Cardinality(1..Len(w)) = Cardinality(Solved(w, U)) => 1..Len(w) = Solved(w, U)
  BY <1>2, <1>3, FS_Subset
<1>5. IsFiniteSet(PositionsOf(w, l))
  BY <1>2, <1>3, FS_Subset
<1>6. Cardinality(Solved(w, U)) \in Nat /\ Cardinality(PositionsOf(w, l)) \in Nat
  BY <1>4, <1>5, FS_CardinalityType
<1> QED BY <1>1, <1>2, <1>4, <1>5, <1>6 DEF CountLettersInWord

\* Trying a letter for the first time solves its positions and no other, so the
\* counter of GameStats::letterGuessed stays the number of solved positions.
LEMMA SolvedGrows ==
  ASSUME NEW w, AWord(w), NEW U, NEW l, l \notin U
  PROVE  /\ Solved(w, U \cup {l}) = Solved(w, U) \cup PositionsOf(w, l)
         /\ Cardinality(Solved(w, U \cup {l})) =
              Cardinality(Solved(w, U)) + CountLettersInWord(w, l)
<1>1. Solved(w, U \cup {l}) = Solved(w, U) \cup PositionsOf(w, l)
  BY DEF Solved, PositionsOf
<1>2. Solved(w, U) \cap PositionsOf(w, l) = {}
  BY DEF Solved, PositionsOf
<1>3. IsFiniteSet(Solved(w, U)) /\ IsFiniteSet(PositionsOf(w, l))
      /\ Cardinality(Solved(w, U)) \in Nat /\ CountLettersInWord(w, l) \in Nat
  BY PositionsFinite
<1>4. Cardinality(Solved(w, U) \cup PositionsOf(w, l)) =
        Cardinality(Solved(w, U)) + Cardinality(PositionsOf(w, l))
          - Cardinality(Solved(w, U) \cap PositionsOf(w, l))
  BY <1>3, FS_Union
<1>5. Cardinality(Solved(w, U) \cap PositionsOf(w, l)) = 0
  BY <1>2, FS_EmptySet
<1>6. Cardinality(Solved(w, U) \cup PositionsOf(w, l)) =
        Cardinality(Solved(w, U)) + CountLettersInWord(w, l)
  BY <1>3, <1>4, <1>5, SMT DEF CountLettersInWord
<1> QED BY <1>1, <1>6

\* The score is a natural number for every number of hits and errors.
LEMMA ScoreType ==
  ASSUME NEW h \in Nat, NEW e \in Nat, NEW n \in Nat \ {0}
  PROVE  ScoreOf(h, e, n) \in Nat
<1>1. (100 * h) \div n \in Int
  OBVIOUS
<1> DEFINE v == (100 * h) \div n - 2 * e
<1>2. v \in Int
  BY <1>1
<1> HIDE DEF v
<1>3. (IF v > 0 THEN v ELSE 0) \in Nat
  BY <1>2
<1> QED BY <1>3 DEF ScoreOf, v

\* GameStats::GameStats: the board a round starts with is consistent.
LEMMA NewStatsSound ==
  ASSUME NEW w, AWord(w)
  PROVE  Sound(NewStats(w), w)
<1> DEFINE s == NewStats(w)
<1>1. Len(w) \in Nat \ {0} /\ Solved(w, {}) = {}
  BY DEF AWord, Solved
<1>2. s.wordWithHiddenChars \in Seq(Letter \cup {Blank, Hidden})
  BY <1>1 DEF NewStats
<1>3. s \in Stats
  BY <1>2 DEF NewStats, Stats
<1>4. s.errors = Cardinality(s.usedLetters \ LettersOf(w))
      /\ s.numberOfGuessedLettersInWord = Cardinality(Solved(w, s.usedLetters))
      /\ IsFiniteSet(s.usedLetters)
  BY <1>1, FS_EmptySet DEF NewStats
<1>5. s.fullWordGuessed <=> Solved(w, s.usedLetters) = 1..Len(w)
  <2>1. 1 \in 1..Len(w)
    BY <1>1
  <2>2. s.fullWordGuessed = FALSE /\ s.usedLetters = {}
    BY DEF NewStats
  <2> QED BY <1>1, <2>1, <2>2
<1>6. s.wordWithHiddenChars =
        [i \in 1..Len(w) |-> IF w[i] \in s.usedLetters \cup {Blank} THEN w[i] ELSE Hidden]
  BY DEF NewStats
<1>7. s.score = ScoreOf(s.numberOfGuessedLettersInWord, s.errors, Len(w))
  BY <1>1 DEF NewStats, ScoreOf
<1>8. s.guessedLetters = s.usedLetters \cap LettersOf(w) /\ s.errors <= MaxErrors
  BY MaxErrorsAssumption DEF NewStats
<1> QED BY <1>3, <1>4, <1>5, <1>6, <1>7, <1>8 DEF Sound, ConsistentStats

\* A hit: letterGuessed adds the letter's positions to the counter, uncovers
\* exactly them, and raises fullWordGuessed exactly when none is left.
LEMMA HitSound ==
  ASSUME NEW w, AWord(w), NEW s, Sound(s, w), NEW l \in Letter,
         ~GuessIgnored(s, l), IsLetterCorrect(w, l)
  PROVE  Sound(PlayGuess(s, w, l), w)
<1> DEFINE used == s.usedLetters \cup {l}
           hits == s.numberOfGuessedLettersInWord + CountLettersInWord(w, l)
           b == PlayGuess(s, w, l)
<1>1. s \in Stats /\ ConsistentStats(s, w) /\ IsFiniteSet(s.usedLetters)
      /\ l \notin s.usedLetters /\ l \notin s.guessedLetters
      /\ l \in LettersOf(w)
  BY DEF Sound, ConsistentStats, GuessIgnored, IsLetterCorrect, LettersOf
<1>2. b = [errors |-> s.errors, score |-> ScoreOf(hits, s.errors, Len(w)),
           numberOfGuessedLettersInWord |-> hits,
           fullWordGuessed |-> s.fullWordGuessed \/ hits = Len(w),
           guessedLetters |-> s.guessedLetters \cup {l}, usedLetters |-> used,
           wordWithHiddenChars |-> UncoverLetters(s.wordWithHiddenChars, w, l)]
  BY <1>1 DEF PlayGuess, LetterGuessed, RecalculateScore, Stats
<1>3. /\ hits = Cardinality(Solved(w, used)) /\ hits \in Nat
      /\ Len(w) \in Nat \ {0}
      /\ hits = Len(w) <=> Solved(w, used) = 1..Len(w)
      /\ Solved(w, s.usedLetters) \subseteq Solved(w, used)
      /\ Solved(w, used) \subseteq 1..Len(w)
  <2>1. hits = Cardinality(Solved(w, used))
    BY <1>1, SolvedGrows DEF ConsistentStats
  <2>2. /\ Len(w) \in Nat \ {0}
        /\ Cardinality(Solved(w, used)) \in 0..Len(w)
        /\ Cardinality(Solved(w, used)) = Len(w) <=> Solved(w, used) = 1..Len(w)
    BY PositionsFinite
  <2>3. /\ Solved(w, s.usedLetters) \subseteq Solved(w, used)
        /\ Solved(w, used) \subseteq 1..Len(w)
    BY DEF Solved
  <2> HIDE DEF hits, used
  <2> QED BY <2>1, <2>2, <2>3
<1>4. (s.fullWordGuessed \/ hits = Len(w)) <=> Solved(w, used) = 1..Len(w)
  BY <1>1, <1>3 DEF ConsistentStats
<1>5. UncoverLetters(s.wordWithHiddenChars, w, l) =
        [i \in 1..Len(w) |-> IF w[i] \in used \cup {Blank} THEN w[i] ELSE Hidden]
  BY <1>1 DEF UncoverLetters, ConsistentStats
<1>6. UncoverLetters(s.wordWithHiddenChars, w, l) \in Seq(Letter \cup {Blank, Hidden})
  BY <1>5, <1>3 DEF AWord
<1>7. used \ LettersOf(w) = s.usedLetters \ LettersOf(w)
  BY <1>1
<1>8. IsFiniteSet(used)
  BY <1>1, FS_AddElement
<1> HIDE DEF b, hits, used
<1>9. b \in Stats
  <2>1. ScoreOf(hits, s.errors, Len(w)) \in Nat
    BY <1>1, <1>3, ScoreType DEF Stats
  <2>2. used \subseteq Letter /\ s.guessedLetters \cup {l} \subseteq Letter
    BY <1>1 DEF Stats, used
  <2> QED BY <1>1, <1>2, <1>3, <1>6, <2>1, <2>2 DEF Stats
<1>10. ConsistentStats(b, w)
  <2>1. b.guessedLetters = b.usedLetters \cap LettersOf(w)
    BY <1>1, <1>2 DEF ConsistentStats, used
  <2>2. b.errors = Cardinality(b.usedLetters \ LettersOf(w)) /\ b.errors <= MaxErrors
    BY <1>1, <1>2, <1>7 DEF ConsistentStats
  <2>3. /\ b.numberOfGuessedLettersInWord = Cardinality(Solved(w, b.usedLetters))
        /\ b.fullWordGuessed <=> Solved(w, b.usedLetters) = 1..Len(w)
        /\ b.score = ScoreOf(b.numberOfGuessedLettersInWord, b.errors, Len(w))
    BY <1>2, <1>3, <1>4
  <2>4. b.wordWithHiddenChars =
          [i \in 1..Len(w) |-> IF w[i] \in b.usedLetters \cup {Blank} THEN w[i] ELSE Hidden]
    BY <1>2, <1>5
  <2> QED BY <2>1, <2>2, <2>3, <2>4 DEF ConsistentStats
<1>11. b.usedLetters = used
  BY <1>2
<1> QED BY <1>8, <1>9, <1>10, <1>11 DEF Sound, b

\* A miss: one error more, and nothing else of the board moves.
LEMMA MissSound ==
  ASSUME NEW w, AWord(w), NEW s, Sound(s, w), NEW l \in Letter,
         ~GuessIgnored(s, l), ~IsLetterCorrect(w, l)
  PROVE  Sound(PlayGuess(s, w, l), w)
<1> DEFINE used == s.usedLetters \cup {l}
           b == PlayGuess(s, w, l)
<1>1. s \in Stats /\ ConsistentStats(s, w) /\ IsFiniteSet(s.usedLetters)
      /\ l \notin s.usedLetters /\ l \notin LettersOf(w)
      /\ s.errors < MaxErrors /\ MaxErrors \in Nat
  BY MaxErrorsAssumption
  DEF Sound, ConsistentStats, GuessIgnored, IsLetterCorrect, LettersOf, Stats
<1>2. b = [errors |-> s.errors + 1,
           score |-> ScoreOf(s.numberOfGuessedLettersInWord, s.errors + 1, Len(w)),
           numberOfGuessedLettersInWord |-> s.numberOfGuessedLettersInWord,
           fullWordGuessed |-> s.fullWordGuessed,
           guessedLetters |-> s.guessedLetters, usedLetters |-> used,
           wordWithHiddenChars |-> s.wordWithHiddenChars]
  BY <1>1 DEF PlayGuess, RecalculateScore, Stats
<1>3. Solved(w, used) = Solved(w, s.usedLetters)
  BY <1>1 DEF Solved, LettersOf
<1>4. s.errors + 1 = Cardinality(used \ LettersOf(w)) /\ IsFiniteSet(used)
  <2>1. used \ LettersOf(w) = (s.usedLetters \ LettersOf(w)) \cup {l}
    BY <1>1
  <2>2. IsFiniteSet(s.usedLetters \ LettersOf(w))
    BY <1>1, FS_Subset
  <2> QED BY <1>1, <2>1, <2>2, FS_AddElement DEF ConsistentStats
<1>5. [i \in 1..Len(w) |-> IF w[i] \in used \cup {Blank} THEN w[i] ELSE Hidden] =
      [i \in 1..Len(w) |-> IF w[i] \in s.usedLetters \cup {Blank} THEN w[i] ELSE Hidden]
  BY <1>1 DEF LettersOf
<1> HIDE DEF b
<1>6. b \in Stats
  <2>1. Len(w) \in Nat \ {0}
    BY DEF AWord
  <2>2. ScoreOf(s.numberOfGuessedLettersInWord, s.errors + 1, Len(w)) \in Nat
    <3>1. s.numberOfGuessedLettersInWord \in Nat /\ s.errors + 1 \in Nat
      BY <1>1 DEF Stats
    <3> QED BY <2>1, <3>1, ScoreType
  <2> QED BY <1>1, <1>2, <2>2 DEF Stats
<1>7. b.guessedLetters = b.usedLetters \cap LettersOf(w) /\ b.errors <= MaxErrors
  BY <1>1, <1>2 DEF ConsistentStats, Stats
<1>8. ConsistentStats(b, w)
  BY <1>1, <1>2, <1>3, <1>4, <1>5, <1>7 DEF ConsistentStats
<1>9. IsFiniteSet(b.usedLetters)
  BY <1>2, <1>4
<1> QED BY <1>6, <1>8, <1>9 DEF Sound, b

\* Server::checkGuess keeps a board consistent, for every word and letter.
THEOREM PlayGuessSound ==
  ASSUME NEW w, AWord(w), NEW s, Sound(s, w), NEW l \in Letter
  PROVE  Sound(PlayGuess(s, w, l), w)
<1>1. CASE GuessIgnored(s, l)
  BY <1>1 DEF PlayGuess
<1> QED BY <1>1, HitSound, MissSound
=============================================================================
