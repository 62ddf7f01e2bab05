--------------------------- MODULE SequenceLemmas ---------------------------
(***************************************************************************)
(* What the operators on lists return, as lemmas for the proofs: Min,      *)
(* RemoveAt and RemoveFirst of the community modules and Append, for the   *)
(* client lists of HangmanServer; concatenation, for the buffers of        *)
(* Outbox; prefixes and induction up to a number, for the parser of Inbox; *)
(* the range of a reversal and of a concatenation, for the messages of     *)
(* LobbyScenes.                                                            *)
(***************************************************************************)
EXTENDS SequencesExt, SequenceTheorems, NaturalsInduction, WellFoundedInduction, TLAPS

\* A nonempty set of natural numbers has the minimum that Min chooses: it is
\* how "the first entry" of a std::vector is found in the models.
LEMMA MinOfNats ==
  ASSUME NEW S, S \subseteq Nat, S # {}
  PROVE  Min(S) \in S /\ \A y \in S : Min(S) <= y
<1>1. PICK x \in S : \A y \in S : ~(<<y, x>> \in OpToRel(<, Nat))
  BY WFMin, NatLessThanWellFounded
<1>2. ASSUME NEW y \in S, ~(x <= y) PROVE FALSE
  <2>1. x \in Nat /\ y \in Nat /\ y < x
    BY <1>2
  <2>2. <<y, x>> \in OpToRel(<, Nat)
    BY <2>1 DEF OpToRel
  <2> QED BY <2>2, <1>1
<1> QED BY <1>2 DEF Min

\* vector::erase of one position: shorter by one, the entries behind it move up.
LEMMA RemoveAtShape ==
  ASSUME NEW X, NEW s \in Seq(X), NEW k \in 1..Len(s)
  PROVE  /\ RemoveAt(s, k) \in Seq(X)
         /\ Len(RemoveAt(s, k)) = Len(s) - 1
         /\ \A j \in 1..(Len(s) - 1) :
              RemoveAt(s, k)[j] = IF j < k THEN s[j] ELSE s[j + 1]
<1> DEFINE p == SubSeq(s, 1, k - 1)
           q == SubSeq(s, k + 1, Len(s))
<1>1. p \in Seq(X) /\ Len(p) = k - 1 /\ \A j \in 1..(k - 1) : p[j] = s[j]
  OBVIOUS
<1>2. q \in Seq(X) /\ Len(q) = Len(s) - k /\ \A j \in 1..(Len(s) - k) : q[j] = s[k + j]
  OBVIOUS
<1> HIDE DEF p, q
<1>3. /\ p \o q \in Seq(X)
      /\ Len(p \o q) = Len(s) - 1
      /\ \A j \in 1..(Len(s) - 1) : (p \o q)[j] = IF j < k THEN p[j] ELSE q[j - k + 1]
  <2>1. /\ p \o q \in Seq(X)
        /\ Len(p \o q) = Len(p) + Len(q)
        /\ \A j \in 1..(Len(p) + Len(q)) :
             (p \o q)[j] = IF j <= Len(p) THEN p[j] ELSE q[j - Len(p)]
    BY <1>1, <1>2, ConcatProperties
  <2>2. Len(p) + Len(q) = Len(s) - 1
    BY <1>1, <1>2
  <2>3. ASSUME NEW j \in 1..(Len(s) - 1)
        PROVE (p \o q)[j] = IF j < k THEN p[j] ELSE q[j - k + 1]
    <3>1. j <= Len(p) <=> j < k
      BY <1>1
    <3>2. j - Len(p) = j - k + 1
      BY <1>1
    <3> QED BY <2>1, <2>2, <3>1, <3>2
  <2> QED BY <2>1, <2>2, <2>3
<1>4. \A j \in 1..(Len(s) - 1) : (p \o q)[j] = IF j < k THEN s[j] ELSE s[j + 1]
  BY <1>1, <1>2, <1>3
<1> QED BY <1>3, <1>4 DEF RemoveAt, p, q

\* Erasing one position drops at most the value that stood there.
LEMMA RemoveAtKeeps ==
  ASSUME NEW X, NEW s \in Seq(X), NEW k \in 1..Len(s)
  PROVE  /\ Range(RemoveAt(s, k)) \subseteq Range(s)
         /\ Range(s) \ {s[k]} \subseteq Range(RemoveAt(s, k))
<1> DEFINE t == RemoveAt(s, k)
<1>1. /\ t \in Seq(X) /\ Len(t) = Len(s) - 1
      /\ \A j \in 1..(Len(s) - 1) : t[j] = IF j < k THEN s[j] ELSE s[j + 1]
  BY RemoveAtShape
<1> HIDE DEF t
<1>2. Range(t) \subseteq Range(s)
  BY <1>1 DEF Range
<1>3. ASSUME NEW x \in Range(s), x # s[k] PROVE x \in Range(t)
  <2>1. PICK j \in 1..Len(s) : s[j] = x
    BY DEF Range
  <2>2. CASE j < k
    BY <1>1, <2>1, <2>2 DEF Range
  <2>3. CASE j > k
    <3>1. j - 1 \in 1..Len(t) /\ t[j - 1] = x
      BY <1>1, <2>1, <2>3
    <3> QED BY <1>1, <3>1 DEF Range
  <2> QED BY <1>3, <2>1, <2>2, <2>3
<1> QED BY <1>2, <1>3 DEF t

\* std::find and erase: RemoveFirst erases one position that holds the value.
LEMMA RemoveFirstShape ==
  ASSUME NEW X, NEW s \in Seq(X), NEW e, e \in Range(s)
  PROVE  \E k \in 1..Len(s) : s[k] = e /\ RemoveFirst(s, e) = RemoveAt(s, k)
<1> DEFINE I == {i \in 1..Len(s) : s[i] = e}
<1>1. I # {}
  BY DEF Range
<1>2. SelectInSeq(s, LAMBDA v : v = e) = Min(I)
  BY <1>1 DEF SelectInSeq
<1>3. Min(I) \in I
  <2>1. I \subseteq Nat
    OBVIOUS
  <2> HIDE DEF I
  <2> QED BY <1>1, <2>1, MinOfNats
<1> QED BY <1>1, <1>2, <1>3 DEF RemoveFirst

\* Everybody but the leaver is still on the list after a leave.
LEMMA RemoveFirstKeeps ==
  ASSUME NEW X, NEW s \in Seq(X), NEW e, e \in Range(s)
  PROVE  /\ RemoveFirst(s, e) \in Seq(X)
         /\ Range(RemoveFirst(s, e)) \subseteq Range(s)
         /\ Range(s) \ {e} \subseteq Range(RemoveFirst(s, e))
<1>1. PICK k \in 1..Len(s) : s[k] = e /\ RemoveFirst(s, e) = RemoveAt(s, k)
  BY RemoveFirstShape
<1>2. RemoveAt(s, k) \in Seq(X)
  BY RemoveAtShape
<1> QED BY <1>1, <1>2, RemoveAtKeeps

\* push_back adds its argument and loses nobody.
LEMMA AppendRange ==
  ASSUME NEW X, NEW s \in Seq(X), NEW e \in X
  PROVE  /\ Append(s, e) \in Seq(X)
         /\ Range(Append(s, e)) = Range(s) \cup {e}
<1>1. /\ Append(s, e) \in Seq(X)
      /\ Len(Append(s, e)) = Len(s) + 1
      /\ \A i \in 1..Len(s) : Append(s, e)[i] = s[i]
      /\ Append(s, e)[Len(s) + 1] = e
  BY AppendProperties
<1> DEFINE t == Append(s, e)
<1> HIDE DEF t
<1>2. /\ t \in Seq(X) /\ Len(t) = Len(s) + 1
      /\ \A i \in 1..Len(s) : t[i] = s[i]
      /\ t[Len(s) + 1] = e
  BY <1>1 DEF t
<1>3. Range(t) \subseteq Range(s) \cup {e}
  BY <1>2 DEF Range
<1>4. Range(s) \subseteq Range(t) /\ e \in Range(t)
  BY <1>2 DEF Range
<1> QED BY <1>1, <1>3, <1>4 DEF t

\* No two entries agree on the field f: a list of clients under different names.
DistinctBy(s, f) == \A i, j \in 1..Len(s) : i # j => f[s[i]] # f[s[j]]

\* Erasing an entry of such a list erases everybody of that name.
LEMMA RemoveAtDistinct ==
  ASSUME NEW X, NEW s \in Seq(X), NEW k \in 1..Len(s), NEW f, DistinctBy(s, f)
  PROVE  /\ DistinctBy(RemoveAt(s, k), f)
         /\ Range(RemoveAt(s, k)) = {x \in Range(s) : f[x] # f[s[k]]}
<1> DEFINE t == RemoveAt(s, k)
<1>1. /\ t \in Seq(X) /\ Len(t) = Len(s) - 1
      /\ \A j \in 1..(Len(s) - 1) : t[j] = IF j < k THEN s[j] ELSE s[j + 1]
  BY RemoveAtShape
<1>2. Range(t) \subseteq Range(s) /\ Range(s) \ {s[k]} \subseteq Range(t)
  BY RemoveAtKeeps
<1> HIDE DEF t
<1>3. ASSUME NEW j \in 1..Len(t) PROVE \E i \in (1..Len(s)) \ {k} :
        t[j] = s[i] /\ i = IF j < k THEN j ELSE j + 1
  BY <1>1
<1>4. ASSUME NEW i \in 1..Len(t), NEW j \in 1..Len(t), i # j PROVE f[t[i]] # f[t[j]]
  <2>1. PICK m \in (1..Len(s)) \ {k} : t[i] = s[m] /\ m = IF i < k THEN i ELSE i + 1
    BY <1>3
  <2>2. PICK n \in (1..Len(s)) \ {k} : t[j] = s[n] /\ n = IF j < k THEN j ELSE j + 1
    BY <1>3
  <2>3. m # n
    BY <1>4, <2>1, <2>2
  <2> QED BY <2>1, <2>2, <2>3 DEF DistinctBy
<1>5. ASSUME NEW x \in Range(t) PROVE x \in Range(s) /\ f[x] # f[s[k]]
  <2>1. PICK j \in 1..Len(t) : x = t[j]
    BY DEF Range
  <2>2. PICK i \in (1..Len(s)) \ {k} : t[j] = s[i]
    BY <1>3
  <2> QED BY <1>2, <2>1, <2>2 DEF DistinctBy
<1> QED BY <1>2, <1>4, <1>5 DEF DistinctBy, t

\* A new name may be added behind such a list.
LEMMA AppendDistinct ==
  ASSUME NEW X, NEW s \in Seq(X), NEW e \in X, NEW f, DistinctBy(s, f),
         \A x \in Range(s) : f[x] # f[e]
  PROVE  DistinctBy(Append(s, e), f)
<1> DEFINE t == Append(s, e)
<1>1. /\ t \in Seq(X) /\ Len(t) = Len(s) + 1
      /\ \A i \in 1..Len(s) : t[i] = s[i]
      /\ t[Len(s) + 1] = e
  BY AppendProperties
<1> HIDE DEF t
<1>2. ASSUME NEW i \in 1..Len(s) PROVE f[s[i]] # f[e]
  BY DEF Range
<1>3. ASSUME NEW i \in 1..Len(t), NEW j \in 1..Len(t), i # j PROVE f[t[i]] # f[t[j]]
  <2>1. CASE i \in 1..Len(s) /\ j \in 1..Len(s)
    BY <1>1, <1>3, <2>1 DEF DistinctBy
  <2>2. CASE i = Len(s) + 1 \/ j = Len(s) + 1
    BY <1>1, <1>2, <1>3, <2>2
  <2> QED BY <1>1, <2>1, <2>2
<1> QED BY <1>3 DEF DistinctBy, t

-----------------------------------------------------------------------------

\* Three lists behind each other are one list, whichever two come first.
LEMMA ConcatInTurn ==
  ASSUME NEW X, NEW a \in Seq(X), NEW b \in Seq(X), NEW c \in Seq(X),
         NEW l, l = a \o b, NEW r, r = b \o c
  PROVE  l \o c = a \o r
<1>1. /\ a \o b \in Seq(X) /\ b \o c \in Seq(X)
      /\ (a \o b) \o c \in Seq(X) /\ a \o (b \o c) \in Seq(X)
  OBVIOUS
<1>2. Len((a \o b) \o c) = Len(a \o (b \o c))
  BY <1>1
<1>3. ASSUME NEW i \in 1..Len((a \o b) \o c)
      PROVE  ((a \o b) \o c)[i] = (a \o (b \o c))[i]
  BY <1>1
<1> QED BY <1>1, <1>2, <1>3, SeqEqual

\* Moving the first entries of one list behind another leaves both together.
LEMMA MoveFront ==
  ASSUME NEW X, NEW s \in Seq(X), NEW t \in Seq(X), NEW k \in 1..Len(t)
  PROVE  /\ s \o SubSeq(t, 1, k) \in Seq(X) /\ SubSeq(t, k + 1, Len(t)) \in Seq(X)
         /\ (s \o SubSeq(t, 1, k)) \o SubSeq(t, k + 1, Len(t)) = s \o t
<1> DEFINE p == SubSeq(t, 1, k)
           q == SubSeq(t, k + 1, Len(t))
<1>1. p \in Seq(X) /\ Len(p) = k /\ \A i \in 1..k : p[i] = t[i]
  BY SubSeqProperties
<1>2. q \in Seq(X) /\ Len(q) = Len(t) - k /\ \A i \in 1..(Len(t) - k) : q[i] = t[k + i]
  <2>1. \A i \in (k + 1)..Len(t) : t[i] \in X
    OBVIOUS
  <2>2. /\ q \in Seq(X)
        /\ Len(q) = IF k + 1 <= Len(t) THEN Len(t) - (k + 1) + 1 ELSE 0
        /\ \A i \in 1..(Len(t) - (k + 1) + 1) : q[i] = t[k + 1 + i - 1]
    BY <2>1, SubSeqProperties
  <2> QED BY <2>2
<1> HIDE DEF p, q
<1>3. /\ p \o q \in Seq(X) /\ Len(p \o q) = Len(t)
      /\ \A i \in 1..Len(t) : (p \o q)[i] = IF i <= k THEN p[i] ELSE q[i - k]
  <2>1. /\ p \o q \in Seq(X) /\ Len(p \o q) = Len(p) + Len(q)
        /\ \A i \in 1..(Len(p) + Len(q)) :
             (p \o q)[i] = IF i <= Len(p) THEN p[i] ELSE q[i - Len(p)]
    BY <1>1, <1>2, ConcatProperties
  <2>2. Len(p) = k /\ Len(p) + Len(q) = Len(t)
    BY <1>1, <1>2
  <2> QED BY <2>1, <2>2
<1>4. p \o q = t
  <2>1. \A i \in 1..Len(t) : (p \o q)[i] = t[i]
    BY <1>1, <1>2, <1>3
  <2> QED BY <1>3, <2>1, SeqEqual
<1>5. ASSUME NEW l, l = s \o p PROVE l \o q = s \o t
  <2>1. p \in Seq(X) /\ q \in Seq(X) /\ t = p \o q
    BY <1>1, <1>2, <1>4
  <2> QED BY <1>5, <2>1, ConcatInTurn
<1>6. s \o p \in Seq(X)
  BY <1>1, ConcatProperties
<1> QED BY <1>2, <1>5, <1>6 DEF p, q

\* The first entry of two lists together is that of the first list.
LEMMA TakeFront ==
  ASSUME NEW X, NEW s \in Seq(X), s # <<>>, NEW t \in Seq(X)
  PROVE  /\ s \o t \in Seq(X) /\ Len(s \o t) > 0 /\ Head(s) = (s \o t)[1]
         /\ Tail(s) \in Seq(X) /\ Tail(s) \o t \in Seq(X)
         /\ Len(Tail(s) \o t) = Len(s \o t) - 1
         /\ \A i \in 1..(Len(s \o t) - 1) : (Tail(s) \o t)[i] = (s \o t)[i + 1]
<1>1. /\ Tail(s) \in Seq(X) /\ Len(Tail(s)) = Len(s) - 1
      /\ \A i \in 1..(Len(s) - 1) : Tail(s)[i] = s[i + 1]
  BY HeadTailProperties
<1>2. /\ s \o t \in Seq(X) /\ Len(s \o t) = Len(s) + Len(t)
      /\ \A i \in 1..(Len(s) + Len(t)) :
           (s \o t)[i] = IF i <= Len(s) THEN s[i] ELSE t[i - Len(s)]
  BY ConcatProperties
<1>3. /\ Tail(s) \o t \in Seq(X) /\ Len(Tail(s) \o t) = Len(s) - 1 + Len(t)
      /\ \A i \in 1..(Len(s) - 1 + Len(t)) :
           (Tail(s) \o t)[i] = IF i <= Len(s) - 1 THEN Tail(s)[i] ELSE t[i - (Len(s) - 1)]
  BY <1>1, ConcatProperties
<1>4. Len(s) > 0 /\ Head(s) = s[1] /\ Len(t) \in Nat /\ Len(s) \in Nat
  OBVIOUS
<1>5. \A i \in 1..(Len(s \o t) - 1) : (Tail(s) \o t)[i] = (s \o t)[i + 1]
  <2> TAKE i \in 1..(Len(s \o t) - 1)
  <2>1. CASE i <= Len(s) - 1
    BY <1>1, <1>2, <1>3, <1>4, <2>1
  <2>2. CASE i > Len(s) - 1
    <3>1. (Tail(s) \o t)[i] = t[i - (Len(s) - 1)]
      BY <1>2, <1>3, <1>4, <2>2
    <3>2. (s \o t)[i + 1] = t[i + 1 - Len(s)]
      BY <1>2, <1>4, <2>2
    <3>3. i - (Len(s) - 1) = i + 1 - Len(s)
      BY <1>4
    <3> QED BY <3>1, <3>2, <3>3
  <2> QED BY <1>4, <2>1, <2>2
<1> QED BY <1>1, <1>2, <1>3, <1>4, <1>5

\* Two entries put between two lists: who stands where.
LEMMA InsertPair ==
  ASSUME NEW X, NEW s \in Seq(X), NEW t \in Seq(X), NEW x \in X, NEW y \in X
  PROVE  LET u == s \o (<<x, y>> \o t)
             n == Len(s)
         IN /\ <<x, y>> \o t \in Seq(X) /\ u \in Seq(X) /\ Len(u) = Len(s \o t) + 2
            /\ \A i \in 1..n : u[i] = (s \o t)[i]
            /\ u[n + 1] = x /\ u[n + 2] = y
            /\ \A i \in (n + 3)..(Len(s \o t) + 2) : u[i] = (s \o t)[i - 2]
<1> DEFINE p == <<x, y>> \o t
           n == Len(s)
<1>1. <<x, y>> \in Seq(X) /\ Len(<<x, y>>) = 2
  OBVIOUS
<1>2. /\ p \in Seq(X) /\ Len(p) = 2 + Len(t)
      /\ \A i \in 1..(2 + Len(t)) : p[i] = IF i <= 2 THEN <<x, y>>[i] ELSE t[i - 2]
  <2> DEFINE h == <<x, y>>
  <2>1. h \in Seq(X) /\ Len(h) = 2
    BY <1>1
  <2>2. \A i \in 1..2 : h[i] = <<x, y>>[i]
    OBVIOUS
  <2> HIDE DEF h
  <2>3. /\ h \o t \in Seq(X) /\ Len(h \o t) = Len(h) + Len(t)
        /\ \A i \in 1..(Len(h) + Len(t)) :
             (h \o t)[i] = IF i <= Len(h) THEN h[i] ELSE t[i - Len(h)]
    BY <2>1, ConcatProperties
  <2>4. \A i \in 1..(2 + Len(t)) : (h \o t)[i] = IF i <= 2 THEN h[i] ELSE t[i - 2]
    BY <2>1, <2>3
  <2>5. ASSUME NEW i \in 1..(2 + Len(t))
        PROVE  (h \o t)[i] = IF i <= 2 THEN <<x, y>>[i] ELSE t[i - 2]
    <3>1. CASE i <= 2
      <4>1. i \in 1..2
        BY <3>1
      <4> QED BY <2>2, <2>4, <3>1, <4>1
    <3>2. CASE ~(i <= 2)
      BY <2>4, <3>2
    <3> QED BY <3>1, <3>2
  <2> QED BY <2>1, <2>3, <2>5 DEF h
<1> HIDE DEF p
<1>3. /\ s \o p \in Seq(X) /\ Len(s \o p) = n + 2 + Len(t)
      /\ \A i \in 1..(n + (2 + Len(t))) : (s \o p)[i] = IF i <= n THEN s[i] ELSE p[i - n]
  <2>1. /\ s \o p \in Seq(X) /\ Len(s \o p) = Len(s) + Len(p)
        /\ \A i \in 1..(Len(s) + Len(p)) :
             (s \o p)[i] = IF i <= Len(s) THEN s[i] ELSE p[i - Len(s)]
    BY <1>2, ConcatProperties
  <2>2. Len(s) + Len(p) = n + (2 + Len(t)) /\ n + (2 + Len(t)) = n + 2 + Len(t)
    BY <1>2
  <2> QED BY <2>1, <2>2
<1>4. /\ s \o t \in Seq(X) /\ Len(s \o t) = n + Len(t)
      /\ \A i \in 1..(n + Len(t)) : (s \o t)[i] = IF i <= n THEN s[i] ELSE t[i - n]
  BY ConcatProperties
<1>5. n \in Nat /\ Len(t) \in Nat
  OBVIOUS
<1> HIDE DEF n
<1>6. \A i \in 1..n : (s \o p)[i] = (s \o t)[i]
  BY <1>3, <1>4, <1>5
<1>7. (s \o p)[n + 1] = x /\ (s \o p)[n + 2] = y
  BY <1>2, <1>3, <1>5
<1>8. ASSUME NEW i \in (n + 3)..(n + Len(t) + 2) PROVE (s \o p)[i] = (s \o t)[i - 2]
  <2>1. (s \o p)[i] = p[i - n] /\ p[i - n] = t[i - n - 2]
    BY <1>2, <1>3, <1>5
  <2>2. (s \o t)[i - 2] = t[i - 2 - n]
    BY <1>4, <1>5
  <2>3. i - n - 2 = i - 2 - n
    BY <1>5
  <2> QED BY <2>1, <2>2, <2>3
<1> QED BY <1>2, <1>3, <1>4, <1>5, <1>6, <1>7, <1>8 DEF n, p

\* Induction up to n, for a set instead of a predicate: what holds of 0, and of i
\* whenever of i - 1, holds up to n.
LEMMA UpTo ==
  ASSUME NEW n \in Nat, NEW S, 0 \in S, \A i \in 1..n : i - 1 \in S => i \in S
  PROVE  0..n \subseteq S
<1> DEFINE out == {i \in 0..n : i \notin S}
           k == Min(out)
<1>1. CASE out = {}
  BY <1>1
<1>2. CASE out # {}
  <2>1. out \subseteq Nat
    OBVIOUS
  <2>2. k \in out /\ \A y \in out : k <= y
    BY <1>2, <2>1, MinOfNats
  <2> HIDE DEF k
  <2>3. k \in 1..n /\ k \notin S /\ k - 1 \in 0..n /\ ~(k <= k - 1)
    BY <2>2
  <2>4. k - 1 \in S
    BY <2>2, <2>3
  <2> QED BY <2>3, <2>4
<1> QED BY <1>1, <1>2

\* A list that agrees with another as far as it goes is a prefix of it.
LEMMA AgreeingPrefix ==
  ASSUME NEW X, NEW s \in Seq(X), NEW t \in Seq(X),
         \A i \in 1..Len(s) : i <= Len(t) /\ s[i] = t[i]
  PROVE  IsPrefix(s, t)
<1> DEFINE p == SubSeq(t, 1, Len(s))
<1>1. Len(s) <= Len(t)
  OBVIOUS
<1>2. p \in Seq(X) /\ Len(p) = Len(s) /\ \A i \in 1..Len(s) : p[i] = t[i]
  BY <1>1
<1>3. SubSeq(s, 1, Len(s)) = s
  OBVIOUS
<1> HIDE DEF p
<1>4. p = s
  BY <1>2, SeqEqual
<1> QED BY <1>1, <1>3, <1>4 DEF IsPrefix, p

-----------------------------------------------------------------------------

\* Reversed, a list has the same entries.
LEMMA ReverseRange ==
  ASSUME NEW X, NEW s \in Seq(X)
  PROVE  Reverse(s) \in Seq(X) /\ Range(Reverse(s)) = Range(s)
<1> DEFINE t == Reverse(s)
<1>1. t \in Seq(X) /\ Len(t) = Len(s) /\ \A i \in 1..Len(s) : t[i] = s[Len(s) - i + 1]
  BY DEF Reverse
<1> HIDE DEF t
<1>2. ASSUME NEW i \in 1..Len(t) PROVE t[i] \in Range(s)
  <2>1. Len(s) - i + 1 \in 1..Len(s) /\ t[i] = s[Len(s) - i + 1]
    BY <1>1
  <2> QED BY <2>1 DEF Range
<1>3. ASSUME NEW i \in 1..Len(s) PROVE s[i] \in Range(t)
  <2>1. Len(s) - i + 1 \in 1..Len(t) /\ t[Len(s) - i + 1] = s[Len(s) - (Len(s) - i + 1) + 1]
    BY <1>1
  <2>2. Len(s) - (Len(s) - i + 1) + 1 = i
    OBVIOUS
  <2> QED BY <1>1, <2>1, <2>2 DEF Range
<1>4. Range(s) = Range(t)
  BY <1>1, <1>2, <1>3 DEF Range
<1> QED BY <1>1, <1>4 DEF t

\* Two lists behind each other have the entries of both.
LEMMA ConcatRange ==
  ASSUME NEW X, NEW s \in Seq(X), NEW t \in Seq(X)
  PROVE  s \o t \in Seq(X) /\ Range(s \o t) = Range(s) \cup Range(t)
<1> DEFINE u == s \o t
<1>1. /\ u \in Seq(X) /\ Len(u) = Len(s) + Len(t)
      /\ \A i \in 1..(Len(s) + Len(t)) : u[i] = IF i <= Len(s) THEN s[i] ELSE t[i - Len(s)]
  BY ConcatProperties
<1> HIDE DEF u
<1>2. ASSUME NEW i \in 1..Len(u) PROVE u[i] \in Range(s) \cup Range(t)
  <2>1. CASE i <= Len(s)
    BY <1>1, <2>1 DEF Range
  <2>2. CASE ~(i <= Len(s))
    <3>1. i - Len(s) \in 1..Len(t) /\ u[i] = t[i - Len(s)]
      BY <1>1, <2>2
    <3> QED BY <3>1 DEF Range
  <2> QED BY <2>1, <2>2
<1>3. ASSUME NEW i \in 1..Len(s) PROVE s[i] \in Range(u)
  <2>1. i \in 1..Len(u) /\ u[i] = s[i]
    BY <1>1
  <2> QED BY <2>1 DEF Range
<1>4. ASSUME NEW i \in 1..Len(t) PROVE t[i] \in Range(u)
  <2>1. Len(s) + i \in 1..Len(u) /\ ~(Len(s) + i <= Len(s)) /\ Len(s) + i - Len(s) = i
    BY <1>1
  <2>2. u[Len(s) + i] = t[i]
    BY <1>1, <2>1
  <2> QED BY <1>1, <2>1, <2>2 DEF Range
<1>5. Range(u) = Range(s) \cup Range(t)
  <2>1. /\ Range(u) = {u[i] : i \in 1..Len(u)} /\ Range(s) = {s[i] : i \in 1..Len(s)}
        /\ Range(t) = {t[i] : i \in 1..Len(t)}
    BY <1>1 DEF Range
  <2> QED BY <1>2, <1>3, <1>4, <2>1
<1> QED BY <1>1, <1>5 DEF u

\* A list without its first entry.
LEMMA TailShape ==
  ASSUME NEW X, NEW s \in Seq(X), s # <<>>
  PROVE  /\ Tail(s) \in Seq(X) /\ Len(Tail(s)) = Len(s) - 1
         /\ \A i \in 1..(Len(s) - 1) : Tail(s)[i] = s[i + 1]
         /\ Len(s) \in Nat \ {0} /\ Head(s) = s[1] /\ s[1] \in X
BY HeadTailProperties
=============================================================================
