---------------------------- MODULE OutboxProofs ----------------------------
(***************************************************************************)
(* Proofs about Outbox, for any set of messages: what is on its way holds  *)
(* no piece twice, and every step is a step of MessageDelivery.            *)
(***************************************************************************)
EXTENDS Outbox, SequenceLemmas

Piece == [of : Message, part : {"type", "body"}]

Types ==
  /\ added \in Seq(Message) /\ overtaken \subseteq Message \X Message
  /\ sendingBuffer \in Seq(Piece) /\ wire \in Seq(Piece)
  /\ expecting \in Message \cup {None}
  /\ {typed, garbled, hurt} \subseteq BOOLEAN
  /\ received \in Seq(Message \cup {LoginOK})

\* Types and bodies alternate, and what comes first is what the Parser expects.
Framed(T, e) ==
  /\ Len(T) = 0 => e = None
  /\ Len(T) > 0 => IF e = None THEN T[1].part = "type" ELSE T[1] = Body(e)
  /\ \A i \in 1..Len(T) :
       T[i].part = "type" => i < Len(T) /\ T[i + 1] = Body(T[i].of)
  /\ \A i \in 2..Len(T) : T[i].part = "body" => T[i - 1] = TypeOf(T[i].of)

\* Every piece on its way is of a message that was given to the connection.
FromAdded(T, a) == \A i \in 1..Len(T) : T[i].of \in Range(a)

\* A connection on which no message was cut.
Sound ==
  /\ ~garbled
  /\ expecting # None => typed
  /\ Range(received) \subseteq Range(added)
  /\ Framed(InTransit, expecting)

OInv == /\ Types
        /\ IsInjective(InTransit)
        /\ FromAdded(InTransit, added)
        /\ ~hurt => Sound

-----------------------------------------------------------------------------
(***************************************************************************)
(* Lemmas about lists of pieces.                                           *)
(***************************************************************************)

LEMMA ListFacts ==
  ASSUME NEW X, NEW T \in Seq(X)
  PROVE  /\ Len(T) \in Nat
         /\ \A i \in 1..Len(T) : T[i] \in X /\ T[i] \in Range(T)
         /\ \A x \in Range(T) : \E i \in 1..Len(T) : T[i] = x
         /\ IsInjective(T) <=> \A i, j \in 1..Len(T) : T[i] = T[j] => i = j
BY DEF Range, IsInjective

LEMMA PieceFacts ==
  ASSUME NEW m \in Message
  PROVE  /\ TypeOf(m) \in Piece /\ Body(m) \in Piece /\ TypeOf(m) # Body(m)
         /\ TypeOf(m).of = m /\ TypeOf(m).part = "type"
         /\ Body(m).of = m /\ Body(m).part = "body"
BY DEF TypeOf, Body, Piece

LEMMA PieceIs ==
  ASSUME NEW p \in Piece
  PROVE  /\ p.of \in Message /\ p.part \in {"type", "body"}
         /\ p.part = "type" => p = TypeOf(p.of)
         /\ p.part = "body" => p = Body(p.of)
BY DEF TypeOf, Body, Piece

\* The pieces of a message that was not given before, put between two others.
LEMMA InsertSerialized ==
  ASSUME NEW w \in Seq(Piece), NEW s \in Seq(Piece), NEW m \in Message
  PROVE  LET U == w \o (Serialize(m) \o s)
             T == w \o s
             n == Len(w)
         IN /\ Serialize(m) \o s \in Seq(Piece) /\ T \in Seq(Piece) /\ U \in Seq(Piece)
            /\ Len(U) = Len(T) + 2 /\ Len(T) = n + Len(s) /\ n \in Nat /\ Len(s) \in Nat
            /\ \A i \in 1..n : U[i] = T[i]
            /\ U[n + 1] = TypeOf(m) /\ U[n + 2] = Body(m)
            /\ \A i \in (n + 3)..(Len(T) + 2) : U[i] = T[i - 2]
            /\ s # <<>> => T[n + 1] = Head(s)
<1>1. TypeOf(m) \in Piece /\ Body(m) \in Piece
  BY PieceFacts
<1>2. /\ w \o s \in Seq(Piece) /\ Len(w \o s) = Len(w) + Len(s)
      /\ \A i \in 1..(Len(w) + Len(s)) :
           (w \o s)[i] = IF i <= Len(w) THEN w[i] ELSE s[i - Len(w)]
  BY ConcatProperties
<1>3. s # <<>> => (w \o s)[Len(w) + 1] = Head(s)
  BY <1>2
<1> QED BY <1>1, <1>2, <1>3, InsertPair DEF Serialize

LEMMA InsertInjective ==
  ASSUME NEW w \in Seq(Piece), NEW s \in Seq(Piece), NEW m \in Message,
         IsInjective(w \o s), \A i \in 1..Len(w \o s) : (w \o s)[i].of # m
  PROVE  /\ IsInjective(w \o (Serialize(m) \o s))
         /\ Range(w \o (Serialize(m) \o s)) = Range(w \o s) \cup {TypeOf(m), Body(m)}
<1> DEFINE U == w \o (Serialize(m) \o s)
           T == w \o s
           n == Len(w)
<1>1. /\ T \in Seq(Piece) /\ U \in Seq(Piece)
      /\ Len(U) = Len(T) + 2 /\ n \in Nat /\ n <= Len(T) /\ Len(T) \in Nat
      /\ \A i \in 1..n : U[i] = T[i]
      /\ U[n + 1] = TypeOf(m) /\ U[n + 2] = Body(m)
      /\ \A i \in (n + 3)..(Len(T) + 2) : U[i] = T[i - 2]
  <2>1. /\ T \in Seq(Piece) /\ U \in Seq(Piece)
        /\ Len(T) = n + Len(s) /\ n \in Nat /\ Len(s) \in Nat
    BY InsertSerialized
  <2>2. /\ Len(U) = Len(T) + 2
        /\ \A i \in 1..n : U[i] = T[i]
    BY InsertSerialized, Zenon
  <2>3. U[n + 1] = TypeOf(m) /\ U[n + 2] = Body(m)
    BY InsertSerialized, Zenon
  <2>4. \A i \in (n + 3)..(Len(T) + 2) : U[i] = T[i - 2]
    BY InsertSerialized, Zenon
  <2> HIDE DEF U, T, n
  <2> QED BY <2>1, <2>2, <2>3, <2>4
<1>2. \A i \in 1..Len(T) : T[i] # TypeOf(m) /\ T[i] # Body(m)
  BY PieceFacts
<1>3. \A i, j \in 1..Len(T) : T[i] = T[j] => i = j
  BY <1>1, ListFacts
<1>4. TypeOf(m) # Body(m)
  BY PieceFacts
<1> HIDE DEF U, T, n
<1>5. ASSUME NEW i \in 1..Len(U) PROVE
        \/ i <= n /\ U[i] = T[i] /\ i \in 1..Len(T)
        \/ i = n + 1 /\ U[i] = TypeOf(m)
        \/ i = n + 2 /\ U[i] = Body(m)
        \/ i > n + 2 /\ U[i] = T[i - 2] /\ i - 2 \in 1..Len(T)
  BY <1>1
<1>6. ASSUME NEW i \in 1..Len(U), NEW j \in 1..Len(U), U[i] = U[j] PROVE i = j
  <2>1. CASE i <= n
    BY <1>1, <1>2, <1>3, <1>5, <1>6, <2>1
  <2>2. CASE i = n + 1 \/ i = n + 2
    BY <1>1, <1>2, <1>4, <1>5, <1>6, <2>2
  <2>3. CASE i > n + 2
    <3>1. U[i] = T[i - 2] /\ i - 2 \in 1..Len(T)
      <4>1. n \in Nat /\ i \in Int
        BY <1>1
      <4>2. ~ (i <= n \/ i = n + 1 \/ i = n + 2)
        BY <2>3, <4>1
      <4> QED BY <1>5, <4>2
    <3>2. CASE j <= n
      <4>1. U[j] = T[j] /\ j \in 1..Len(T)
        BY <1>1, <1>5, <3>2
      <4>2. j = i - 2
        BY <1>3, <1>6, <3>1, <4>1
      <4> QED BY <1>1, <2>3, <3>2, <4>2
    <3>3. CASE j = n + 1 \/ j = n + 2
      BY <1>1, <1>2, <1>5, <1>6, <3>1, <3>3
    <3>4. CASE j > n + 2
      <4>1. U[j] = T[j - 2] /\ j - 2 \in 1..Len(T)
        BY <1>1, <1>5, <3>4
      <4>2. j - 2 = i - 2
        BY <1>3, <1>6, <3>1, <4>1
      <4> QED BY <1>1, <4>2
    <3> QED BY <1>1, <3>2, <3>3, <3>4
  <2> QED BY <1>1, <2>1, <2>2, <2>3
<1>7. IsInjective(U)
  BY <1>1, <1>6, ListFacts
<1>8. ASSUME NEW x \in Range(U) PROVE x \in Range(T) \cup {TypeOf(m), Body(m)}
  <2>1. PICK i \in 1..Len(U) : U[i] = x
    BY <1>1, ListFacts
  <2>2. \A j \in 1..Len(T) : T[j] \in Range(T)
    BY <1>1, ListFacts
  <2> QED BY <1>5, <2>1, <2>2
<1>9. \A i \in 1..Len(U) : U[i] \in Range(U)
  BY <1>1, ListFacts
<1>10. ASSUME NEW x \in Range(T) PROVE x \in Range(U)
  <2>1. PICK i \in 1..Len(T) : T[i] = x
    BY <1>1, ListFacts
  <2>2. CASE i <= n
    <3>1. i \in 1..Len(U) /\ U[i] = x
      BY <1>1, <2>1, <2>2
    <3> QED BY <1>9, <3>1
  <2>3. CASE i > n
    <3>1. i + 2 \in (n + 3)..(Len(T) + 2) /\ i + 2 - 2 = i /\ i + 2 \in 1..Len(U)
      BY <1>1, <2>3
    <3>2. U[i + 2] = T[i + 2 - 2]
      <4>1. \A j \in (n + 3)..(Len(T) + 2) : U[j] = T[j - 2]
        BY <1>1
      <4> QED BY <3>1, <4>1
    <3>3. U[i + 2] = x
      BY <2>1, <3>1, <3>2
    <3> QED BY <1>9, <3>1, <3>3
  <2> QED BY <1>1, <2>2, <2>3
<1>11. TypeOf(m) \in Range(U) /\ Body(m) \in Range(U)
  <2>1. n + 1 \in 1..Len(U) /\ n + 2 \in 1..Len(U)
    BY <1>1
  <2> QED BY <1>1, <1>9, <2>1
<1> QED BY <1>7, <1>8, <1>10, <1>11 DEF U, T

\* A message that is put in front of another message, not into one, keeps the
\* pieces of each together.
LEMMA InsertFramed ==
  ASSUME NEW w \in Seq(Piece), NEW s \in Seq(Piece), NEW m \in Message,
         NEW e \in Message \cup {None}, Framed(w \o s, e),
         s # <<>> => Head(s).part # "body"
  PROVE  Framed(w \o (Serialize(m) \o s), e)
<1> DEFINE U == w \o (Serialize(m) \o s)
           T == w \o s
           n == Len(w)
<1>1. /\ Len(U) = Len(T) + 2 /\ n \in Nat /\ n <= Len(T) /\ Len(T) \in Nat
      /\ \A i \in 1..n : U[i] = T[i]
      /\ U[n + 1] = TypeOf(m) /\ U[n + 2] = Body(m)
      /\ \A i \in (n + 3)..(Len(T) + 2) : U[i] = T[i - 2]
  <2>1. Len(T) = n + Len(s) /\ n \in Nat /\ Len(s) \in Nat
    BY InsertSerialized
  <2>2. /\ Len(U) = Len(T) + 2
        /\ \A i \in 1..n : U[i] = T[i]
    BY InsertSerialized, Zenon
  <2>3. U[n + 1] = TypeOf(m) /\ U[n + 2] = Body(m)
    BY InsertSerialized, Zenon
  <2>4. \A i \in (n + 3)..(Len(T) + 2) : U[i] = T[i - 2]
    BY InsertSerialized, Zenon
  <2> HIDE DEF U, T, n
  <2> QED BY <2>1, <2>2, <2>3, <2>4
<1>2. n < Len(T) => T[n + 1].part # "body" /\ T[n + 1] \in Piece
  <2>1. /\ T \in Seq(Piece) /\ Len(T) = n + Len(s) /\ Len(s) \in Nat
        /\ s # <<>> => T[n + 1] = Head(s)
    BY InsertSerialized
  <2>2. n < Len(T) => s # <<>>
    BY <1>1, <2>1
  <2>3. n < Len(T) => T[n + 1] \in Piece
    <3>1. n < Len(T) => n + 1 \in 1..Len(T)
      BY <1>1
    <3> QED BY <2>1, <3>1, ListFacts
  <2> QED BY <2>1, <2>2, <2>3
<1>3. /\ Len(T) = 0 => e = None
      /\ Len(T) > 0 => IF e = None THEN T[1].part = "type" ELSE T[1] = Body(e)
      /\ \A i \in 1..Len(T) :
           T[i].part = "type" => i < Len(T) /\ T[i + 1] = Body(T[i].of)
      /\ \A i \in 2..Len(T) : T[i].part = "body" => T[i - 1] = TypeOf(T[i].of)
  BY DEF Framed
<1>4. /\ TypeOf(m).of = m /\ TypeOf(m).part = "type"
      /\ Body(m).of = m /\ Body(m).part = "body"
      /\ \A x : Body(x).part = "body" /\ TypeOf(x).part = "type"
  BY DEF TypeOf, Body
<1> HIDE DEF U, T, n
<1>5. IF e = None THEN U[1].part = "type" ELSE U[1] = Body(e)
  <2>1. CASE n = 0
    <3>1. e = None
      BY <1>1, <1>2, <1>3, <1>4, <2>1
    <3> QED BY <1>1, <1>4, <2>1, <3>1
  <2>2. CASE n > 0
    <3>1. U[1] = T[1]
      BY <1>1, <2>2
    <3> QED BY <1>1, <1>3, <2>2, <3>1
  <2> QED BY <1>1, <2>1, <2>2
<1>6. ASSUME NEW i \in 1..Len(U), U[i].part = "type"
      PROVE  i < Len(U) /\ U[i + 1] = Body(U[i].of)
  <2>1. CASE i <= n
    <3>1. U[i] = T[i] /\ i < Len(T) /\ T[i + 1] = Body(T[i].of)
      BY <1>1, <1>3, <1>6, <2>1
    <3>2. i # n
      BY <1>2, <1>4, <3>1
    <3>3. i + 1 \in 1..n
      BY <1>1, <2>1, <3>2
    <3>4. U[i + 1] = T[i + 1]
      BY <1>1, <3>3
    <3> QED BY <1>1, <3>1, <3>4
  <2>2. CASE i = n + 1
    <3>1. i + 1 = n + 2 /\ U[i + 1] = Body(m) /\ U[i] = TypeOf(m)
      BY <1>1, <2>2
    <3> QED BY <1>1, <1>4, <2>2, <3>1
  <2>3. CASE i = n + 2
    BY <1>1, <1>4, <1>6, <2>3
  <2>4. CASE i > n + 2
    <3>1. U[i] = T[i - 2] /\ i - 2 \in 1..Len(T)
      BY <1>1, <2>4
    <3>2. i - 2 < Len(T) /\ T[i - 2 + 1] = Body(T[i - 2].of)
      BY <1>3, <1>6, <3>1
    <3>3. U[i + 1] = T[i + 1 - 2] /\ i + 1 - 2 = i - 2 + 1
      BY <1>1, <2>4, <3>2
    <3> QED BY <1>1, <3>1, <3>2, <3>3
  <2> QED BY <1>1, <2>1, <2>2, <2>3, <2>4
<1>7. ASSUME NEW i \in 2..Len(U), U[i].part = "body"
      PROVE  U[i - 1] = TypeOf(U[i].of)
  <2>1. CASE i <= n
    <3>1. i \in 1..n /\ i - 1 \in 1..n /\ i \in 2..Len(T)
      BY <1>1, <2>1
    <3>2. U[i] = T[i] /\ U[i - 1] = T[i - 1]
      BY <1>1, <3>1
    <3> QED BY <1>3, <1>7, <3>1, <3>2
  <2>2. CASE i = n + 1
    BY <1>1, <1>4, <1>7, <2>2
  <2>3. CASE i = n + 2
    <3>1. i - 1 = n + 1
      BY <1>1, <2>3
    <3> QED BY <1>1, <1>4, <2>3, <3>1
  <2>4. CASE i > n + 2
    <3>1. U[i] = T[i - 2] /\ i - 2 \in 1..Len(T) /\ i - 2 > n
      BY <1>1, <2>4
    <3>2. i - 2 # n + 1
      BY <1>1, <1>2, <1>7, <3>1
    <3>3. i - 1 \in (n + 3)..(Len(T) + 2) /\ i - 1 - 2 = i - 2 - 1 /\ i - 2 \in 2..Len(T)
      BY <1>1, <2>4, <3>1, <3>2
    <3>4. T[i - 2 - 1] = TypeOf(T[i - 2].of)
      BY <1>3, <1>7, <3>1, <3>3
    <3>5. U[i - 1] = T[i - 1 - 2]
      BY <1>1, <3>3
    <3> QED BY <3>1, <3>3, <3>4, <3>5
  <2> QED BY <1>1, <2>1, <2>2, <2>3, <2>4
<1>8. Len(U) > 0 /\ Len(U) # 0
  BY <1>1
<1> QED BY <1>5, <1>6, <1>7, <1>8 DEF Framed, U

\* The first piece is taken off the wire.
LEMMA TakeSerialized ==
  ASSUME NEW w \in Seq(Piece), w # <<>>, NEW s \in Seq(Piece)
  PROVE  LET T == w \o s
             U == Tail(w) \o s
         IN /\ T \in Seq(Piece) /\ Len(T) > 0 /\ Head(w) = T[1] /\ T[1] \in Piece
            /\ Tail(w) \in Seq(Piece) /\ U \in Seq(Piece) /\ Len(U) = Len(T) - 1
            /\ \A i \in 1..(Len(T) - 1) : U[i] = T[i + 1]
            /\ Range(U) \subseteq Range(T) /\ Range(T) \subseteq Range(U) \cup {T[1]}
            /\ IsInjective(T) => IsInjective(U) /\ T[1] \notin Range(U)
<1> DEFINE T == w \o s
           U == Tail(w) \o s
<1>1. /\ T \in Seq(Piece) /\ Len(T) > 0 /\ Head(w) = T[1]
      /\ Tail(w) \in Seq(Piece) /\ U \in Seq(Piece) /\ Len(U) = Len(T) - 1
      /\ \A i \in 1..(Len(T) - 1) : U[i] = T[i + 1]
  BY TakeFront
<1> HIDE DEF T, U
<1>2. Len(T) \in Nat /\ T[1] \in Piece /\ \A i \in 1..Len(T) : T[i] \in Range(T)
  BY <1>1, ListFacts
<1>3. \A i \in 1..Len(U) : U[i] \in Range(U)
  BY <1>1, ListFacts
<1>4. ASSUME NEW x \in Range(U) PROVE \E i \in 2..Len(T) : x = T[i]
  <2>1. PICK i \in 1..Len(U) : U[i] = x
    BY <1>1, ListFacts
  <2>2. i + 1 \in 2..Len(T) /\ x = T[i + 1]
    BY <1>1, <1>2, <2>1
  <2> QED BY <2>2
<1>5. ASSUME NEW x \in Range(T) PROVE x \in Range(U) \/ x = T[1]
  <2>1. PICK i \in 1..Len(T) : T[i] = x
    BY <1>1, ListFacts
  <2>2. CASE i = 1
    BY <2>1, <2>2
  <2>3. CASE i > 1
    <3>1. i - 1 \in 1..Len(U) /\ U[i - 1] = x
      BY <1>1, <1>2, <2>1, <2>3
    <3> QED BY <1>3, <3>1
  <2> QED BY <1>2, <2>2, <2>3
<1>6. ASSUME IsInjective(T) PROVE IsInjective(U) /\ T[1] \notin Range(U)
  <2>1. \A i, j \in 1..Len(T) : T[i] = T[j] => i = j
    BY <1>1, <1>6, ListFacts
  <2>2. \A i, j \in 1..Len(U) : U[i] = U[j] => i = j
    <3> SUFFICES ASSUME NEW i \in 1..Len(U), NEW j \in 1..Len(U), U[i] = U[j] PROVE i = j
      OBVIOUS
    <3>1. i + 1 \in 1..Len(T) /\ j + 1 \in 1..Len(T) /\ T[i + 1] = T[j + 1]
      BY <1>1, <1>2
    <3> QED BY <2>1, <3>1
  <2>3. \A i \in 2..Len(T) : T[i] # T[1]
    BY <1>2, <2>1
  <2> QED BY <1>1, <1>4, <2>2, <2>3, ListFacts
<1>7. Range(U) \subseteq Range(T)
  BY <1>2, <1>4
<1>8. Range(T) \subseteq Range(U) \cup {T[1]}
  BY <1>5
<1> QED BY <1>1, <1>2, <1>6, <1>7, <1>8 DEF T, U

\* The Parser of a sound connection finds the piece it looks for, and so it does
\* after that piece.
LEMMA TakeFramed ==
  ASSUME NEW T \in Seq(Piece), NEW U \in Seq(Piece), Len(T) > 0, Len(U) = Len(T) - 1,
         \A i \in 1..(Len(T) - 1) : U[i] = T[i + 1],
         NEW e \in Message \cup {None}, Framed(T, e)
  PROVE  /\ e = None => T[1].part = "type" /\ Framed(U, T[1].of)
         /\ e # None => T[1] = Body(e) /\ Framed(U, None)
<1>1. Len(T) \in Nat /\ \A i \in 1..Len(T) : T[i] \in Piece
  BY ListFacts
<1>2. /\ IF e = None THEN T[1].part = "type" ELSE T[1] = Body(e)
      /\ \A i \in 1..Len(T) :
           T[i].part = "type" => i < Len(T) /\ T[i + 1] = Body(T[i].of)
      /\ \A i \in 2..Len(T) : T[i].part = "body" => T[i - 1] = TypeOf(T[i].of)
  BY DEF Framed
<1>3. \A x : Body(x).part = "body" /\ TypeOf(x).part = "type"
  BY DEF TypeOf, Body
<1>4. ASSUME NEW i \in 1..Len(U), U[i].part = "type"
      PROVE  i < Len(U) /\ U[i + 1] = Body(U[i].of)
  <2>1. i + 1 \in 1..Len(T) /\ U[i] = T[i + 1]
    BY <1>1
  <2>2. i + 1 < Len(T) /\ T[i + 1 + 1] = Body(T[i + 1].of)
    BY <1>2, <1>4, <2>1
  <2>3. i + 1 \in 1..(Len(T) - 1)
    BY <1>1, <2>2
  <2> QED BY <1>1, <2>1, <2>2, <2>3
<1>5. ASSUME NEW i \in 2..Len(U), U[i].part = "body"
      PROVE  U[i - 1] = TypeOf(U[i].of)
  <2>1. i + 1 \in 2..Len(T) /\ U[i] = T[i + 1] /\ U[i - 1] = T[i - 1 + 1] /\ i - 1 + 1 = i + 1 - 1
    BY <1>1
  <2> QED BY <1>2, <1>5, <2>1
<1>6. ASSUME Len(U) > 0 PROVE U[1] = T[2] /\ U[1] \in Piece /\ 2 \in 2..Len(T)
  BY <1>1, <1>6
<1>7. CASE e = None
  <2>1. T[1].part = "type" /\ 1 < Len(T) /\ T[2] = Body(T[1].of)
    BY <1>1, <1>2, <1>7
  <2>2. T[1].of # None
    BY <1>1, PieceIs, OutboxAssumption
  <2> QED BY <1>1, <1>4, <1>5, <1>6, <1>7, <2>1, <2>2 DEF Framed
<1>8. CASE e # None
  <2>1. T[1] = Body(e)
    BY <1>2, <1>8
  <2>2. Len(U) > 0 => U[1].part = "type"
    <3> HAVE Len(U) > 0
    <3>1. U[1].part # "body"
      BY <1>2, <1>3, <1>6, <2>1
    <3> QED BY <1>6, <3>1, PieceIs
  <2> QED BY <1>4, <1>5, <1>8, <2>1, <2>2 DEF Framed
<1> QED BY <1>7, <1>8

-----------------------------------------------------------------------------
(***************************************************************************)
(* The steps.  Of each, what it does to the pieces on their way.           *)
(***************************************************************************)

\* On a connection the server has not cut, the new message is put between two
\* messages, and it is the only one that is new.
LEMMA AddStep ==
  ASSUME OInv, NEW m \in Message, AddMessageToBuffer(m)
  PROVE  /\ OInv'
         /\ Range(InTransit') = Range(InTransit) \cup {TypeOf(m), Body(m)}
         /\ m \notin Range(added) /\ Body(m) \notin Range(InTransit)
<1>1. /\ m \notin Range(added)
      /\ sendingBuffer' = Serialize(m) \o sendingBuffer
      /\ added' = Append(added, m)
      /\ overtaken' = overtaken \cup {<<m, p.of>> : p \in Range(sendingBuffer)}
      /\ hurt' = (hurt \/ Split)
      /\ UNCHANGED <<wire, parser, received>>
  BY DEF AddMessageToBuffer
<1>2. wire \in Seq(Piece) /\ sendingBuffer \in Seq(Piece)
  BY DEF OInv, Types
<1>3. /\ InTransit \in Seq(Piece) /\ sendingBuffer' \in Seq(Piece)
      /\ InTransit' \in Seq(Piece) /\ InTransit' = wire \o (Serialize(m) \o sendingBuffer)
  BY <1>1, <1>2, InsertSerialized DEF InTransit
<1>4. \A i \in 1..Len(InTransit) : InTransit[i].of # m
  BY <1>1 DEF OInv, FromAdded
<1>5. IsInjective(InTransit') /\ Range(InTransit') = Range(InTransit) \cup {TypeOf(m), Body(m)}
  BY <1>2, <1>3, <1>4, InsertInjective DEF OInv, InTransit
<1>6. /\ added' \in Seq(Message) /\ Range(added') = Range(added) \cup {m}
  BY <1>1, AppendRange DEF OInv, Types
<1>7. Types'
  <2>1. \A p \in Range(sendingBuffer) : p.of \in Message
    BY <1>2, ListFacts, PieceIs
  <2>2. hurt' \in BOOLEAN
    BY <1>1 DEF OInv, Types, Split
  <2> QED BY <1>1, <1>3, <1>6, <2>1, <2>2 DEF OInv, Types, parser
<1>8. FromAdded(InTransit', added')
  <2> SUFFICES ASSUME NEW i \in 1..Len(InTransit') PROVE InTransit'[i].of \in Range(added')
    BY DEF FromAdded
  <2>1. InTransit'[i] \in Range(InTransit) \/ InTransit'[i] \in {TypeOf(m), Body(m)}
    BY <1>3, <1>5, ListFacts
  <2>2. ASSUME NEW p \in Range(InTransit) PROVE p.of \in Range(added)
    <3>1. PICK k \in 1..Len(InTransit) : InTransit[k] = p
      BY <1>3, ListFacts
    <3> QED BY <3>1 DEF OInv, FromAdded
  <2> QED BY <1>6, <2>1, <2>2, PieceFacts
<1>9. ASSUME ~hurt' PROVE Sound'
  <2>1. ~hurt /\ ~Split
    BY <1>1, <1>9 DEF OInv, Types, Split
  <2>2. Sound
    BY <2>1 DEF OInv
  <2>3. sendingBuffer # <<>> => Head(sendingBuffer).part # "body"
    BY <2>1 DEF Split
  <2>4. Framed(InTransit', expecting)
    BY <1>2, <1>3, <2>2, <2>3, InsertFramed DEF Sound, InTransit, OInv, Types
  <2> QED BY <1>1, <1>6, <2>2, <2>4 DEF Sound, parser
<1>10. Body(m) \notin Range(InTransit)
  <2>1. ASSUME NEW x \in Range(InTransit) PROVE x.of # m
    <3>1. PICK i \in 1..Len(InTransit) : InTransit[i] = x
      BY <1>3, ListFacts
    <3> QED BY <1>4, <3>1
  <2> QED BY <2>1, PieceFacts
<1> QED BY <1>1, <1>5, <1>7, <1>8, <1>9, <1>10 DEF OInv

\* A write moves pieces from the buffer to the wire.
LEMMA WriteStep ==
  ASSUME OInv, SendBufferData
  PROVE  OInv' /\ InTransit' = InTransit
<1>1. PICK k \in 1..Len(sendingBuffer) :
        /\ wire' = wire \o SubSeq(sendingBuffer, 1, k)
        /\ sendingBuffer' = SubSeq(sendingBuffer, k + 1, Len(sendingBuffer))
        /\ UNCHANGED <<history, parser, received>>
  BY DEF SendBufferData
<1>2. wire \in Seq(Piece) /\ sendingBuffer \in Seq(Piece)
  BY DEF OInv, Types
<1>3. /\ wire' \in Seq(Piece) /\ sendingBuffer' \in Seq(Piece)
      /\ wire' \o sendingBuffer' = wire \o sendingBuffer
  <2>1. k \in 1..Len(sendingBuffer)
    BY <1>1
  <2>2. /\ wire \o SubSeq(sendingBuffer, 1, k) \in Seq(Piece)
        /\ SubSeq(sendingBuffer, k + 1, Len(sendingBuffer)) \in Seq(Piece)
    BY <1>2, <2>1, MoveFront, ZenonT(30)
  <2>3. (wire \o SubSeq(sendingBuffer, 1, k))
           \o SubSeq(sendingBuffer, k + 1, Len(sendingBuffer)) = wire \o sendingBuffer
    BY <1>2, <2>1, MoveFront, ZenonT(30)
  <2> QED BY <1>1, <2>2, <2>3
<1>4. Types'
  BY <1>1, <1>3 DEF OInv, Types, history, parser
<1> QED BY <1>1, <1>3, <1>4 DEF OInv, Sound, InTransit, history, parser

\* The Parser takes the first piece.
LEMMA TakeStep ==
  ASSUME OInv, NEW piece, Take(piece)
  PROVE  /\ wire' \in Seq(Piece) /\ InTransit \in Seq(Piece) /\ InTransit' \in Seq(Piece)
         /\ Len(InTransit) > 0 /\ InTransit[1] = piece /\ piece \in Piece
         /\ Len(InTransit') = Len(InTransit) - 1
         /\ \A i \in 1..(Len(InTransit) - 1) : InTransit'[i] = InTransit[i + 1]
         /\ Range(InTransit') = Range(InTransit) \ {piece} /\ piece \in Range(InTransit)
         /\ IsInjective(InTransit') /\ FromAdded(InTransit', added)
         /\ UNCHANGED <<history, sendingBuffer>>
<1>1. /\ wire # <<>> /\ Head(wire) = piece
      /\ wire' = Tail(wire) /\ sendingBuffer' = sendingBuffer
      /\ UNCHANGED <<history, sendingBuffer>>
  BY DEF Take
<1>2. wire \in Seq(Piece) /\ sendingBuffer \in Seq(Piece) /\ IsInjective(wire \o sendingBuffer)
  BY DEF OInv, Types, InTransit
<1> DEFINE T == wire \o sendingBuffer
           U == Tail(wire) \o sendingBuffer
<1>3. /\ T \in Seq(Piece) /\ Len(T) > 0 /\ Head(wire) = T[1] /\ T[1] \in Piece
      /\ Tail(wire) \in Seq(Piece) /\ U \in Seq(Piece) /\ Len(U) = Len(T) - 1
      /\ \A i \in 1..(Len(T) - 1) : U[i] = T[i + 1]
      /\ Range(U) \subseteq Range(T) /\ Range(T) \subseteq Range(U) \cup {T[1]}
      /\ IsInjective(T) => IsInjective(U) /\ T[1] \notin Range(U)
  BY <1>1, <1>2, TakeSerialized
<1>4. InTransit = T /\ InTransit' = U
  BY <1>1 DEF InTransit
<1> HIDE DEF T, U
<1>5. IsInjective(U) /\ T[1] \notin Range(U)
  BY <1>2, <1>3 DEF T
<1>6. T[1] \in Range(T)
  BY <1>3, ListFacts
<1>7. FromAdded(U, added)
  <2>1. \A i \in 1..Len(T) : T[i].of \in Range(added)
    BY <1>4 DEF OInv, FromAdded
  <2>2. ASSUME NEW i \in 1..Len(U) PROVE U[i].of \in Range(added)
    <3>1. i \in 1..(Len(T) - 1) /\ i + 1 \in 1..Len(T)
      BY <1>3, ListFacts
    <3> QED BY <1>3, <2>1, <3>1
  <2> QED BY <2>2 DEF FromAdded
<1> QED BY <1>1, <1>3, <1>4, <1>5, <1>6, <1>7

LEMMA ParseTypeStep ==
  ASSUME OInv, ParseType
  PROVE  /\ OInv' /\ UNCHANGED <<received, hurt>>
         /\ \A m \in Message : Body(m) \in Range(InTransit') <=> Body(m) \in Range(InTransit)
<1>1. PICK m \in Message : /\ expecting = None /\ Take(TypeOf(m))
                           /\ expecting' = m /\ typed' = TRUE
                           /\ UNCHANGED <<garbled, received>>
  BY DEF ParseType
<1> DEFINE T == InTransit
           U == InTransit'
<1>2. /\ wire' \in Seq(Piece) /\ T \in Seq(Piece) /\ U \in Seq(Piece)
      /\ Len(T) > 0 /\ T[1] = TypeOf(m) /\ Len(U) = Len(T) - 1
      /\ \A i \in 1..(Len(T) - 1) : U[i] = T[i + 1]
      /\ Range(U) = Range(T) \ {TypeOf(m)}
      /\ IsInjective(U) /\ FromAdded(U, added) /\ UNCHANGED <<history, sendingBuffer>>
  BY <1>1, TakeStep
<1>3. \A n \in Message : Body(n) # TypeOf(m)
  BY DEF Body, TypeOf
<1>4. Types'
  BY <1>1, <1>2 DEF OInv, Types, history
<1>5. ASSUME ~hurt' PROVE Sound'
  <2>1. Sound
    BY <1>2, <1>5 DEF OInv, history
  <2>2. Framed(U, T[1].of)
    <3> HIDE DEF T, U
    <3>1. Framed(T, expecting) /\ expecting \in Message \cup {None}
      BY <2>1 DEF Sound, OInv, Types, T
    <3> QED BY <1>1, <1>2, <3>1, TakeFramed
  <2>3. T[1].of = m
    BY <1>2, PieceFacts
  <2> QED BY <1>1, <1>2, <2>1, <2>2, <2>3 DEF Sound, history
<1> QED BY <1>1, <1>2, <1>3, <1>4, <1>5 DEF OInv, history

LEMMA ParseBodyStep ==
  ASSUME OInv, ParseBody
  PROVE  /\ OInv' /\ UNCHANGED hurt
         /\ ~hurt => /\ expecting \in Message /\ Body(expecting) \in Range(InTransit)
                     /\ Range(InTransit') = Range(InTransit) \ {Body(expecting)}
                     /\ received' = Append(received, expecting)
<1>1. /\ expecting # None /\ Take(Body(expecting))
      /\ received' = Append(received, IF typed THEN expecting ELSE LoginOK)
      /\ expecting' = None /\ typed' = FALSE
      /\ UNCHANGED garbled
  BY DEF ParseBody
<1> DEFINE T == InTransit
           U == InTransit'
<1>2. /\ wire' \in Seq(Piece) /\ T \in Seq(Piece) /\ U \in Seq(Piece)
      /\ Len(T) > 0 /\ T[1] = Body(expecting) /\ Len(U) = Len(T) - 1
      /\ \A i \in 1..(Len(T) - 1) : U[i] = T[i + 1]
      /\ Range(U) = Range(T) \ {Body(expecting)} /\ Body(expecting) \in Range(T)
      /\ IsInjective(U) /\ FromAdded(U, added) /\ UNCHANGED <<history, sendingBuffer>>
  BY <1>1, TakeStep
<1>3. expecting \in Message
  BY <1>1 DEF OInv, Types
<1>4. /\ received' \in Seq(Message \cup {LoginOK})
      /\ Range(received') = Range(received) \cup {IF typed THEN expecting ELSE LoginOK}
  <2>1. (IF typed THEN expecting ELSE LoginOK) \in Message \cup {LoginOK}
    BY <1>3
  <2>2. received \in Seq(Message \cup {LoginOK})
    BY DEF OInv, Types
  <2> QED BY <1>1, <2>1, <2>2, AppendRange
<1>5. Types'
  BY <1>1, <1>2, <1>4 DEF OInv, Types, history
<1>6. ASSUME ~hurt PROVE Sound /\ typed
  BY <1>1, <1>6 DEF OInv, Sound
<1>7. ASSUME ~hurt' PROVE Sound'
  <2>1. ~hurt /\ added' = added
    BY <1>2, <1>7 DEF history
  <2>2. Sound /\ typed
    BY <1>6, <2>1
  <2>3. Framed(U, None)
    <3> HIDE DEF T, U
    <3>1. Framed(T, expecting) /\ expecting \in Message \cup {None}
      BY <2>2 DEF Sound, OInv, Types, T
    <3> QED BY <1>1, <1>2, <3>1, TakeFramed
  <2>4. expecting \in Range(added)
    <3>1. T[1].of \in Range(added)
      <4>1. 1 \in 1..Len(T)
        BY <1>2, ListFacts
      <4> QED BY <4>1 DEF OInv, FromAdded
    <3> QED BY <1>2, <1>3, <3>1, PieceFacts
  <2> QED BY <1>1, <1>4, <2>1, <2>2, <2>3, <2>4 DEF Sound
<1> QED BY <1>1, <1>2, <1>3, <1>5, <1>6, <1>7 DEF OInv, history

\* Only on a connection where a message was cut is a piece taken for another.
LEMMA GarbageStep ==
  ASSUME OInv, ParseGarbage
  PROVE  OInv' /\ hurt'
<1>1. PICK m \in Message :
        /\ \/ expecting = None /\ Take(Body(m))
           \/ expecting # None /\ (Take(TypeOf(m)) \/ (m # expecting /\ Take(Body(m))))
        /\ garbled' = TRUE
        /\ UNCHANGED <<expecting, typed, received>>
  BY DEF ParseGarbage
<1>2. PICK piece \in {TypeOf(m), Body(m)} :
        /\ Take(piece)
        /\ expecting = None => piece = Body(m)
        /\ expecting # None => piece # Body(expecting)
  <2>1. CASE expecting = None
    BY <1>1, <2>1
  <2>2. CASE expecting # None /\ Take(TypeOf(m))
    BY <2>2 DEF TypeOf, Body
  <2>3. CASE expecting # None /\ m # expecting /\ Take(Body(m))
    BY <2>3 DEF Body
  <2> QED BY <1>1, <2>1, <2>2, <2>3
<1> DEFINE T == InTransit
<1>3. /\ wire' \in Seq(Piece) /\ T \in Seq(Piece) /\ Len(T) > 0 /\ T[1] = piece
      /\ IsInjective(InTransit') /\ FromAdded(InTransit', added)
      /\ UNCHANGED <<history, sendingBuffer>>
  BY <1>2, TakeStep
<1>4. hurt
  <2> SUFFICES ASSUME ~hurt PROVE FALSE
    OBVIOUS
  <2>1. Framed(T, expecting)
    BY DEF OInv, Sound
  <2> HIDE DEF T
  <2>2. IF expecting = None THEN T[1].part = "type" ELSE T[1] = Body(expecting)
    BY <1>3, <2>1 DEF Framed
  <2> QED BY <1>2, <1>3, <2>2, PieceFacts
<1>5. Types'
  BY <1>1, <1>3 DEF OInv, Types, history
<1> QED BY <1>3, <1>4, <1>5 DEF OInv, history

LEMMA ReadEndsStep ==
  ASSUME OInv, ReadEnds
  PROVE  OInv' /\ hurt'
BY DEF OInv, Types, InTransit, ReadEnds

LEMMA EmptyIsSound ==
  ASSUME NEW T \in Seq(Piece), T = <<>>, NEW a
  PROVE  IsInjective(T) /\ FromAdded(T, a) /\ Framed(T, None) /\ Range(T) = {}
BY DEF IsInjective, FromAdded, Framed, Range

LEMMA ReconnectStep ==
  ASSUME OInv, Reconnect
  PROVE  /\ OInv' /\ InTransit' = <<>> /\ received' = <<>>
<1>1. /\ added' = <<>> /\ overtaken' = {} /\ received' = <<>>
      /\ sendingBuffer' = <<>> /\ wire' = <<>>
      /\ typed' = FALSE
      /\ \/ UNCHANGED <<expecting, garbled>>
         \/ expecting' = None /\ garbled' = FALSE
      /\ hurt' = (expecting' # None \/ garbled')
  BY DEF Reconnect
<1>2. InTransit' = <<>> /\ <<>> \in Seq(Piece)
  BY <1>1 DEF InTransit
<1>3. Types'
  <2>1. garbled' \in BOOLEAN /\ typed' \in BOOLEAN /\ expecting' \in Message \cup {None}
    BY <1>1 DEF OInv, Types
  <2>2. hurt' \in BOOLEAN
    BY <1>1, <2>1
  <2>3. added' \in Seq(Message) /\ received' \in Seq(Message \cup {LoginOK})
    BY <1>1
  <2> QED BY <1>1, <1>2, <2>1, <2>2, <2>3 DEF Types
<1>4. Range(received') = {}
  BY <1>1 DEF Range
<1>5. ASSUME ~hurt' PROVE Sound'
  BY <1>1, <1>2, <1>3, <1>4, <1>5, EmptyIsSound DEF Sound, Types
<1> QED BY <1>1, <1>2, <1>3, <1>5, EmptyIsSound DEF OInv

-----------------------------------------------------------------------------
(***************************************************************************)
(* The theorems.                                                           *)
(***************************************************************************)

LEMMA InitOInv == Init => OInv
<1> SUFFICES ASSUME Init PROVE OInv
  OBVIOUS
<1>1. /\ added = <<>> /\ overtaken = {} /\ hurt = FALSE
      /\ sendingBuffer = <<>> /\ wire = <<>>
      /\ expecting = None /\ typed = FALSE /\ garbled = FALSE
      /\ received = <<>>
  BY DEF Init
<1>2. InTransit = <<>> /\ <<>> \in Seq(Piece)
  BY <1>1 DEF InTransit
<1>3. Types
  <2>1. added \in Seq(Message) /\ received \in Seq(Message \cup {LoginOK})
    BY <1>1
  <2>2. {typed, garbled, hurt} \subseteq BOOLEAN
    BY <1>1
  <2> QED BY <1>1, <1>2, <2>1, <2>2 DEF Types
<1>4. Range(received) = {}
  BY <1>1 DEF Range
<1>5. Sound
  BY <1>1, <1>2, <1>4, EmptyIsSound DEF Sound
<1> QED BY <1>2, <1>3, <1>5, EmptyIsSound DEF OInv

LEMMA NextOInv == OInv /\ [Next]_vars => OInv'
<1> SUFFICES ASSUME OInv, [Next]_vars PROVE OInv'
  OBVIOUS
<1>1. CASE SendBufferData
  BY <1>1, WriteStep
<1>2. CASE Parse
  BY <1>2, ParseTypeStep, ParseBodyStep, GarbageStep DEF Parse
<1>3. CASE ReadEnds
  BY <1>3, ReadEndsStep
<1>4. CASE Reconnect
  BY <1>4, ReconnectStep
<1>5. CASE \E m \in Message : AddMessageToBuffer(m)
  BY <1>5, AddStep
<1>6. CASE UNCHANGED vars
  BY <1>6 DEF vars, history, parser, OInv, Types, Sound, InTransit
<1> QED BY <1>1, <1>2, <1>3, <1>4, <1>5, <1>6 DEF Next

\* No piece of a message is written twice, however writes, reads, new messages
\* and new connections follow each other (Client.h:23, Server.cpp:422-426).
THEOREM TypeCorrect == Spec => []TypeOK
<1>1. OInv => TypeOK
  BY DEF OInv, Types, Piece, TypeOK
<1> QED BY <1>1, InitOInv, NextOInv, PTL DEF Spec

LEMMA ChannelInit == Init => Channel!Init
<1> SUFFICES ASSUME Init PROVE Channel!Init
  OBVIOUS
<1>1. InTransit = <<>> /\ received = <<>> /\ hurt = FALSE
  BY DEF Init, InTransit
<1>2. Range(InTransit) = {}
  BY <1>1 DEF Range
<1> QED BY <1>1, <1>2 DEF Channel!Init, Pending

\* What every step of the buffers and the Parser is to the messages.
LEMMA ChannelNext == OInv /\ [Next]_vars => [Channel!Next]_Channel!vars
<1> SUFFICES ASSUME OInv, [Next]_vars PROVE [Channel!Next]_Channel!vars
  OBVIOUS
<1>1. hurt' = TRUE => Channel!Break
  BY DEF Channel!Break
<1>2. OInv'
  BY NextOInv
<1>3. hurt' = TRUE \/ ~hurt'
  BY <1>2 DEF OInv, Types
<1>4. CASE SendBufferData
  <2>1. InTransit' = InTransit /\ received' = received /\ hurt' = hurt
    BY <1>4, WriteStep DEF SendBufferData, history
  <2> QED BY <2>1 DEF Channel!vars, Pending
<1>5. CASE ParseType
  BY <1>5, ParseTypeStep DEF Channel!vars, Pending
<1>6. CASE ParseBody /\ ~hurt'
  <2>1. /\ ~hurt /\ UNCHANGED hurt
        /\ expecting \in Message /\ Body(expecting) \in Range(InTransit)
        /\ Range(InTransit') = Range(InTransit) \ {Body(expecting)}
        /\ received' = Append(received, expecting)
    BY <1>6, ParseBodyStep
  <2>2. \A m, n \in Message : Body(m) = Body(n) => m = n
    BY DEF Body
  <2>3. expecting \in Pending /\ Pending' = Pending \ {expecting}
    BY <2>1, <2>2 DEF Pending
  <2>4. Channel!Deliver(expecting)
    BY <2>1, <2>3 DEF Channel!Deliver
  <2> QED BY <2>1, <2>4 DEF Channel!Next
<1>7. CASE Reconnect /\ ~hurt'
  <2>1. InTransit' = <<>> /\ received' = <<>> /\ hurt' = FALSE
    BY <1>2, <1>7, ReconnectStep DEF OInv, Types
  <2>2. Pending' = {}
    BY <2>1 DEF Pending, Range
  <2> QED BY <2>1, <2>2 DEF Channel!Reconnect, Channel!Next
<1>8. ASSUME NEW m \in Message, AddMessageToBuffer(m), ~hurt' PROVE Channel!Next
  <2>1. /\ Range(InTransit') = Range(InTransit) \cup {TypeOf(m), Body(m)}
        /\ m \notin Range(added) /\ Body(m) \notin Range(InTransit)
    BY <1>8, AddStep
  <2>2. received' = received /\ ~hurt /\ hurt' = hurt
    BY <1>8 DEF AddMessageToBuffer, OInv, Types, Split
  <2>3. \A i \in 1..Len(received) : received[i] # m
    <3>1. Range(received) \subseteq Range(added)
      BY <2>2 DEF OInv, Sound
    <3>2. \A i \in 1..Len(received) : received[i] \in Range(received)
      BY ListFacts DEF OInv, Types
    <3> QED BY <2>1, <3>1, <3>2
  <2>4. \A n \in Message : Body(n) # TypeOf(m) /\ (Body(n) = Body(m) => n = m)
    BY DEF Body, TypeOf
  <2>5. m \notin Pending /\ Pending' = Pending \cup {m}
    BY <2>1, <2>4 DEF Pending
  <2>6. Channel!Send(m)
    BY <2>2, <2>3, <2>5 DEF Channel!Send
  <2> QED BY <2>6 DEF Channel!Next
<1>9. CASE ParseGarbage \/ ReadEnds
  BY <1>1, <1>3, <1>9, GarbageStep, ReadEndsStep DEF Channel!Next
<1>10. CASE UNCHANGED vars
  BY <1>10 DEF vars, history, Pending, InTransit, Channel!vars
<1>11. CASE hurt' = TRUE
  BY <1>1, <1>11 DEF Channel!Next
<1> QED BY <1>3, <1>4, <1>5, <1>6, <1>7, <1>8, <1>9, <1>10, <1>11 DEF Next, Parse

\* Every message arrives whole and once, except on a connection where one is cut:
\* the safety part of ImplementsDelivery (TcpClient.cpp:56-62, Server.cpp:407-429).
THEOREM DeliversWholeAndOnce ==
  Init /\ [][Next]_vars => Channel!Init /\ [][Channel!Next]_Channel!vars
<1> QED BY InitOInv, NextOInv, ChannelInit, ChannelNext, PTL

-----------------------------------------------------------------------------
(***************************************************************************)
(* The order of the messages.                                              *)
(***************************************************************************)

\* a is handled before b, if b is: both are, or a is, or a is nearer to the client.
Ahead(a, b, R, T) ==
  \/ \E i, j \in 1..Len(R) : i < j /\ R[i] = a /\ R[j] = b
  \/ a \in Range(R) /\ Body(b) \in Range(T)
  \/ \E i, j \in 1..Len(T) : i < j /\ T[i] = Body(a) /\ T[j] = Body(b)

InOrder(A, over, R, T) ==
  \A i, j \in 1..Len(A) : i < j =>
    IF <<A[j], A[i]>> \in over THEN Ahead(A[j], A[i], R, T)
                               ELSE Ahead(A[i], A[j], R, T)

Ordered ==
  /\ \A p \in overtaken : p[1] \in Range(added)
  /\ \A m \in Range(added) : m \in Range(received) \/ Body(m) \in Range(InTransit)
  /\ \A m \in Range(received) : Body(m) \notin Range(InTransit)
  /\ InOrder(added, overtaken, received, InTransit)

OrderInv == ~hurt => Ordered

\* A pair keeps its order when what is handled and what is on its way change so
\* that neither of the two is overtaken.
LEMMA InOrderStep ==
  ASSUME NEW A, NEW over, NEW R, NEW T, NEW R2, NEW T2, InOrder(A, over, R, T),
         \A i, j \in 1..Len(A) : Ahead(A[i], A[j], R, T) => Ahead(A[i], A[j], R2, T2)
  PROVE  InOrder(A, over, R2, T2)
BY DEF InOrder

\* The entries in front of and behind the inserted pair keep their order.
LEMMA AheadInsert ==
  ASSUME NEW w \in Seq(Piece), NEW s \in Seq(Piece), NEW m \in Message,
         NEW a, NEW b, NEW R, Ahead(a, b, R, w \o s),
         Range(w \o s) \subseteq Range(w \o (Serialize(m) \o s))
  PROVE  Ahead(a, b, R, w \o (Serialize(m) \o s))
<1> DEFINE U == w \o (Serialize(m) \o s)
           T == w \o s
           n == Len(w)
<1>1. /\ Len(U) = Len(T) + 2 /\ n \in Nat /\ Len(T) \in Nat
      /\ \A i \in 1..n : U[i] = T[i]
      /\ \A i \in (n + 3)..(Len(T) + 2) : U[i] = T[i - 2]
  <2>1. Len(T) = n + Len(s) /\ n \in Nat /\ Len(s) \in Nat
    BY InsertSerialized
  <2>2. /\ Len(U) = Len(T) + 2
        /\ \A i \in 1..n : U[i] = T[i]
        /\ \A i \in (n + 3)..(Len(T) + 2) : U[i] = T[i - 2]
    BY InsertSerialized, Zenon
  <2> HIDE DEF U, T, n
  <2> QED BY <2>1, <2>2
<1> HIDE DEF U, T, n
<1>2. ASSUME NEW i \in 1..Len(T)
      PROVE  LET k == IF i <= n THEN i ELSE i + 2 IN k \in 1..Len(U) /\ U[k] = T[i]
  <2>1. CASE i <= n
    BY <1>1, <2>1
  <2>2. CASE i > n
    <3>1. i + 2 \in (n + 3)..(Len(T) + 2) /\ i + 2 - 2 = i /\ i + 2 \in 1..Len(U)
      BY <1>1, <2>2
    <3> QED BY <1>1, <2>2, <3>1
  <2> QED BY <1>1, <2>1, <2>2
<1>3. ASSUME NEW i \in 1..Len(T), NEW j \in 1..Len(T), i < j
      PROVE  \E k, l \in 1..Len(U) : k < l /\ U[k] = T[i] /\ U[l] = T[j]
  <2> DEFINE k == IF i <= n THEN i ELSE i + 2
             l == IF j <= n THEN j ELSE j + 2
  <2>1. k \in 1..Len(U) /\ U[k] = T[i] /\ l \in 1..Len(U) /\ U[l] = T[j]
    BY <1>2
  <2>2. k < l
    BY <1>1, <1>3
  <2> QED BY <2>1, <2>2
<1>4. Range(T) \subseteq Range(U) /\ Ahead(a, b, R, T)
  BY DEF T, U
<1>5. CASE \E i, j \in 1..Len(T) : i < j /\ T[i] = Body(a) /\ T[j] = Body(b)
  <2>1. PICK i \in 1..Len(T), j \in 1..Len(T) : i < j /\ T[i] = Body(a) /\ T[j] = Body(b)
    BY <1>5
  <2>2. PICK k \in 1..Len(U), l \in 1..Len(U) : k < l /\ U[k] = T[i] /\ U[l] = T[j]
    BY <1>3, <2>1
  <2>3. Ahead(a, b, R, U)
    BY <2>1, <2>2 DEF Ahead
  <2> QED BY <2>3 DEF U
<1>6. CASE a \in Range(R) /\ Body(b) \in Range(T)
  <2>1. Ahead(a, b, R, U)
    BY <1>4, <1>6 DEF Ahead
  <2> QED BY <2>1 DEF U
<1>7. CASE \E i, j \in 1..Len(R) : i < j /\ R[i] = a /\ R[j] = b
  BY <1>7 DEF Ahead
<1> QED BY <1>4, <1>5, <1>6, <1>7 DEF Ahead

\* Where an old message stands to one that is inserted.
LEMMA InsertedStands ==
  ASSUME NEW w \in Seq(Piece), NEW s \in Seq(Piece), NEW m \in Message,
         NEW e, Framed(w \o s, e), NEW old \in Message, NEW R,
         old \in Range(R) \/ Body(old) \in Range(w \o s)
  PROVE  LET U == w \o (Serialize(m) \o s)
         IN IF \E p \in Range(s) : p.of = old THEN Ahead(m, old, R, U)
                                               ELSE Ahead(old, m, R, U)
<1> DEFINE U == w \o (Serialize(m) \o s)
           T == w \o s
           n == Len(w)
<1>1. /\ U \in Seq(Piece) /\ T \in Seq(Piece)
      /\ Len(U) = Len(T) + 2 /\ Len(T) = n + Len(s) /\ n \in Nat /\ Len(s) \in Nat
      /\ \A i \in 1..n : U[i] = T[i]
      /\ U[n + 2] = Body(m)
      /\ \A i \in (n + 3)..(Len(T) + 2) : U[i] = T[i - 2]
  <2>1. /\ U \in Seq(Piece) /\ T \in Seq(Piece)
        /\ Len(T) = n + Len(s) /\ n \in Nat /\ Len(s) \in Nat
    BY InsertSerialized
  <2>2. /\ Len(U) = Len(T) + 2
        /\ \A i \in 1..n : U[i] = T[i]
    BY InsertSerialized, ZenonT(60)
  <2>3. U[n + 2] = Body(m)
    BY InsertSerialized, Zenon
  <2>4. \A i \in (n + 3)..(Len(T) + 2) : U[i] = T[i - 2]
    BY InsertSerialized, Zenon
  <2> QED BY <2>1, <2>2, <2>3, <2>4
<1>2. \A i \in 1..Len(s) : T[n + i] = s[i]
  <2>1. \A i \in 1..(Len(w) + Len(s)) :
          (w \o s)[i] = IF i <= Len(w) THEN w[i] ELSE s[i - Len(w)]
    BY ConcatProperties
  <2> QED BY <1>1, <2>1
<1>3. \A i \in 1..Len(T) : T[i].part = "type" => i < Len(T) /\ T[i + 1] = Body(T[i].of)
  BY DEF Framed
<1>4. Range(s) = {s[i] : i \in 1..Len(s)}
  BY DEF Range
<1> HIDE DEF U, T, n
<1>5. n + 2 \in 1..Len(U)
  BY <1>1
<1>6. CASE \E p \in Range(s) : p.of = old
  <2>1. PICK i \in 1..Len(s) : s[i].of = old /\ s[i] \in Piece
    BY <1>4, <1>6, ListFacts
  <2>2. n + i \in 1..Len(T) /\ T[n + i] = s[i]
    BY <1>1, <1>2
  <2>3. PICK k \in 1..Len(T) : k > n /\ T[k] = Body(old)
    <3>1. CASE s[i].part = "body"
      <4>1. T[n + i] = Body(old) /\ n + i > n
        BY <1>1, <2>1, <2>2, <3>1, PieceIs
      <4> QED BY <2>2, <4>1
    <3>2. CASE s[i].part = "type"
      <4>1. n + i < Len(T) /\ T[n + i + 1] = Body(old)
        BY <1>3, <2>1, <2>2, <3>2
      <4>2. n + i + 1 \in 1..Len(T)
        <5>1. n + i \in Nat /\ n + i >= 1 /\ Len(T) \in Nat
          BY <1>1, <2>2
        <5> QED BY <4>1, <5>1
      <4>3. n + i + 1 > n
        BY <1>1
      <4> QED BY <4>1, <4>2, <4>3
    <3> QED BY <2>1, <3>1, <3>2, PieceIs
  <2>4. k + 2 \in (n + 3)..(Len(T) + 2) /\ k + 2 - 2 = k /\ k + 2 \in 1..Len(U) /\ n + 2 < k + 2
    BY <1>1, <2>3
  <2>5. U[k + 2] = Body(old)
    <3>1. U[k + 2] = T[k + 2 - 2]
      BY <1>1, <2>4
    <3> QED BY <2>3, <2>4, <3>1
  <2>6. Ahead(m, old, R, U)
    BY <1>1, <1>5, <2>4, <2>5 DEF Ahead
  <2> QED BY <1>6, <2>6 DEF U
<1>7. CASE ~ \E p \in Range(s) : p.of = old
  <2>1. Ahead(old, m, R, U)
    <3>1. CASE old \in Range(R)
      <4>0. \A i \in 1..Len(U) : U[i] \in Range(U)
        BY <1>1, ListFacts
      <4>1. Body(m) \in Range(U)
        BY <1>1, <1>5, <4>0
      <4> QED BY <3>1, <4>1 DEF Ahead
    <3>2. CASE Body(old) \in Range(T)
      <4>1. PICK i \in 1..Len(T) : T[i] = Body(old)
        BY <1>1, <3>2, ListFacts
      <4>2. i <= n
        <5> SUFFICES ASSUME i > n PROVE FALSE
          BY <1>1
        <5>1. i - n \in 1..Len(s) /\ n + (i - n) = i
          BY <1>1
        <5>2. s[i - n] = Body(old)
          BY <1>2, <4>1, <5>1
        <5> QED BY <1>4, <1>7, <5>1, <5>2, PieceFacts
      <4>3. i \in 1..Len(U) /\ U[i] = Body(old) /\ i < n + 2
        BY <1>1, <4>1, <4>2
      <4> QED BY <1>1, <1>5, <4>3 DEF Ahead
    <3> QED BY <3>1, <3>2 DEF T
  <2> QED BY <1>7, <2>1 DEF U
<1> QED BY <1>6, <1>7

\* A piece taken off the wire which is not a body changes no order; the body of e
\* puts e behind what was handled and in front of what is on its way.
LEMMA AheadTaken ==
  ASSUME NEW T \in Seq(Piece), NEW U \in Seq(Piece), Len(U) = Len(T) - 1, Len(T) > 0,
         \A i \in 1..(Len(T) - 1) : U[i] = T[i + 1],
         NEW a \in Message, NEW b \in Message, NEW R, Ahead(a, b, R, T),
         T[1].part = "type", Range(U) = Range(T) \ {T[1]}
  PROVE  Ahead(a, b, R, U)
<1>1. Len(T) \in Nat
  BY ListFacts
<1>2. T[1] # Body(a) /\ T[1] # Body(b)
  BY DEF Body
<1>3. CASE \E i, j \in 1..Len(T) : i < j /\ T[i] = Body(a) /\ T[j] = Body(b)
  <2>1. PICK i \in 1..Len(T), j \in 1..Len(T) : i < j /\ T[i] = Body(a) /\ T[j] = Body(b)
    BY <1>3
  <2>2. /\ i - 1 \in 1..Len(U) /\ j - 1 \in 1..Len(U) /\ i - 1 < j - 1
        /\ U[i - 1] = Body(a) /\ U[j - 1] = Body(b)
    BY <1>1, <1>2, <2>1
  <2> QED BY <2>2 DEF Ahead
<1>4. CASE a \in Range(R) /\ Body(b) \in Range(T)
  BY <1>2, <1>4 DEF Ahead
<1>5. CASE \E i, j \in 1..Len(R) : i < j /\ R[i] = a /\ R[j] = b
  BY <1>5 DEF Ahead
<1> QED BY <1>3, <1>4, <1>5 DEF Ahead

LEMMA AheadHandled ==
  ASSUME NEW T \in Seq(Piece), NEW U \in Seq(Piece), Len(U) = Len(T) - 1, Len(T) > 0,
         \A i \in 1..(Len(T) - 1) : U[i] = T[i + 1],
         IsInjective(T), Range(U) = Range(T) \ {T[1]},
         NEW e \in Message, T[1] = Body(e),
         NEW X, NEW R \in Seq(X), e \in X,
         NEW a \in Message, NEW b \in Message, Ahead(a, b, R, T)
  PROVE  Ahead(a, b, Append(R, e), U)
<1>1. /\ Len(T) \in Nat /\ Len(R) \in Nat
      /\ \A i, j \in 1..Len(T) : T[i] = T[j] => i = j
  BY ListFacts
<1>2. \A m, n \in Message : Body(m) = Body(n) => m = n
  BY DEF Body
<1> DEFINE Q == Append(R, e)
<1>3. /\ Q \in Seq(X) /\ Len(Q) = Len(R) + 1
      /\ \A i \in 1..Len(R) : Q[i] = R[i]
      /\ Q[Len(R) + 1] = e
  BY AppendProperties
<1>4. Range(Q) = Range(R) \cup {e}
  BY AppendRange
<1> HIDE DEF Q
<1>5. CASE \E i, j \in 1..Len(T) : i < j /\ T[i] = Body(a) /\ T[j] = Body(b)
  <2>1. PICK i \in 1..Len(T), j \in 1..Len(T) : i < j /\ T[i] = Body(a) /\ T[j] = Body(b)
    BY <1>5
  <2>2. j - 1 \in 1..Len(U) /\ U[j - 1] = Body(b)
    BY <1>1, <2>1
  <2>3. CASE i = 1
    <3>1. a = e /\ a \in Range(Q)
      BY <1>2, <1>4, <2>1, <2>3
    <3>2. Body(b) \in Range(U)
      BY <2>2, ListFacts
    <3>3. Ahead(a, b, Q, U)
      BY <3>1, <3>2 DEF Ahead
    <3> QED BY <3>3 DEF Q
  <2>4. CASE i > 1
    <3>1. i - 1 \in 1..Len(U) /\ i - 1 < j - 1 /\ U[i - 1] = Body(a)
      BY <1>1, <2>1, <2>4
    <3>2. Ahead(a, b, Q, U)
      BY <2>2, <3>1 DEF Ahead
    <3> QED BY <3>2 DEF Q
  <2> QED BY <1>1, <2>1, <2>3, <2>4
<1>6. CASE a \in Range(R) /\ Body(b) \in Range(T)
  <2>1. CASE b = e
    <3>1. PICK i \in 1..Len(R) : R[i] = a
      BY <1>6, ListFacts
    <3>2. /\ i \in 1..Len(Q) /\ Len(R) + 1 \in 1..Len(Q) /\ i < Len(R) + 1
          /\ Q[i] = a /\ Q[Len(R) + 1] = b
      BY <1>1, <1>3, <2>1, <3>1
    <3>3. Ahead(a, b, Q, U)
      BY <3>2 DEF Ahead
    <3> QED BY <3>3 DEF Q
  <2>2. CASE b # e
    <3>1. Body(b) \in Range(U) /\ a \in Range(Q)
      BY <1>2, <1>4, <1>6, <2>2
    <3>2. Ahead(a, b, Q, U)
      BY <3>1 DEF Ahead
    <3> QED BY <3>2 DEF Q
  <2> QED BY <2>1, <2>2
<1>7. CASE \E i, j \in 1..Len(R) : i < j /\ R[i] = a /\ R[j] = b
  <2>1. PICK i \in 1..Len(R), j \in 1..Len(R) : i < j /\ R[i] = a /\ R[j] = b
    BY <1>7
  <2>2. /\ i \in 1..Len(Q) /\ j \in 1..Len(Q) /\ Q[i] = a /\ Q[j] = b
    BY <1>1, <1>3, <2>1
  <2>3. Ahead(a, b, Q, U)
    BY <2>1, <2>2 DEF Ahead
  <2> QED BY <2>3 DEF Q
<1> QED BY <1>5, <1>6, <1>7 DEF Ahead

LEMMA AddOrder ==
  ASSUME OInv, OrderInv, NEW m \in Message, AddMessageToBuffer(m)
  PROVE  OrderInv'
<1> SUFFICES ASSUME ~hurt' PROVE Ordered'
  BY DEF OrderInv
<1>1. /\ m \notin Range(added)
      /\ sendingBuffer' = Serialize(m) \o sendingBuffer
      /\ added' = Append(added, m)
      /\ overtaken' = overtaken \cup {<<m, p.of>> : p \in Range(sendingBuffer)}
      /\ wire' = wire /\ received' = received /\ ~hurt
  BY DEF AddMessageToBuffer, OInv, Types, Split
<1>2. Ordered /\ Sound
  BY <1>1 DEF OrderInv, OInv
<1>3. wire \in Seq(Piece) /\ sendingBuffer \in Seq(Piece) /\ added \in Seq(Message)
  BY DEF OInv, Types
<1>4. InTransit' = wire \o (Serialize(m) \o sendingBuffer)
  BY <1>1 DEF InTransit
<1>5. /\ Range(InTransit') = Range(InTransit) \cup {TypeOf(m), Body(m)}
      /\ Body(m) \notin Range(InTransit)
  BY AddStep
<1>6. /\ Range(added') = Range(added) \cup {m} /\ Len(added') = Len(added) + 1
      /\ \A i \in 1..Len(added) : added'[i] = added[i]
      /\ added'[Len(added) + 1] = m
  BY <1>1, <1>3, AppendRange, AppendProperties
<1>7. \A i \in 1..Len(added) : added[i] \in Range(added) /\ added[i] \in Message /\ added[i] # m
  BY <1>1, <1>3, ListFacts
<1>8. \A p \in overtaken' : p[1] \in Range(added')
  BY <1>1, <1>2, <1>6 DEF Ordered
<1>9. \A n \in Range(added') : n \in Range(received') \/ Body(n) \in Range(InTransit')
  BY <1>1, <1>2, <1>5, <1>6 DEF Ordered
<1>10. \A n \in Range(received') : Body(n) \notin Range(InTransit')
  <2>1. \A n : Body(n) # TypeOf(m) /\ (Body(n) = Body(m) => n = m)
    BY DEF Body, TypeOf
  <2> QED BY <1>1, <1>2, <1>5, <2>1 DEF Ordered, Sound
<1>11. ASSUME NEW i \in 1..Len(added'), NEW j \in 1..Len(added'), i < j
       PROVE  IF <<added'[j], added'[i]>> \in overtaken'
              THEN Ahead(added'[j], added'[i], received', InTransit')
              ELSE Ahead(added'[i], added'[j], received', InTransit')
  <2>1. i \in 1..Len(added) /\ added'[i] = added[i]
    BY <1>3, <1>6, <1>11
  <2>2. CASE j <= Len(added)
    <3>1. j \in 1..Len(added) /\ added'[j] = added[j]
      BY <1>3, <1>6, <2>2
    <3>2. <<added[j], added[i]>> \in overtaken' <=> <<added[j], added[i]>> \in overtaken
      BY <1>1, <1>7, <3>1
    <3>3. IF <<added[j], added[i]>> \in overtaken
          THEN Ahead(added[j], added[i], received, InTransit)
          ELSE Ahead(added[i], added[j], received, InTransit)
      BY <1>2, <1>11, <2>1, <3>1 DEF Ordered, InOrder
    <3>4. \A a, b : Ahead(a, b, received, InTransit) => Ahead(a, b, received, InTransit')
      BY <1>3, <1>4, <1>5, AheadInsert DEF InTransit
    <3> QED BY <1>1, <2>1, <3>1, <3>2, <3>3, <3>4
  <2>3. CASE j = Len(added) + 1
    <3>1. added'[j] = m
      BY <1>6, <2>3
    <3>2. <<m, added[i]>> \in overtaken' <=> \E p \in Range(sendingBuffer) : p.of = added[i]
      <4>1. <<m, added[i]>> \notin overtaken
        BY <1>1, <1>2 DEF Ordered
      <4> QED BY <1>1, <4>1
    <3>3. added[i] \in Range(received) \/ Body(added[i]) \in Range(wire \o sendingBuffer)
      BY <1>2, <1>7, <2>1 DEF Ordered, InTransit
    <3>4. Framed(wire \o sendingBuffer, expecting)
      BY <1>2 DEF Sound, InTransit
    <3>5. IF \E p \in Range(sendingBuffer) : p.of = added[i]
          THEN Ahead(m, added[i], received, InTransit')
          ELSE Ahead(added[i], m, received, InTransit')
      BY <1>3, <1>4, <1>7, <2>1, <3>3, <3>4, InsertedStands
    <3> QED BY <1>1, <2>1, <3>1, <3>2, <3>5
  <2> QED BY <1>3, <1>6, <2>2, <2>3
<1>12. InOrder(added', overtaken', received', InTransit')
  BY <1>11 DEF InOrder
<1> QED BY <1>8, <1>9, <1>10, <1>12 DEF Ordered

LEMMA ParseTypeOrder ==
  ASSUME OInv, OrderInv, ParseType
  PROVE  OrderInv'
<1>1. PICK m \in Message : Take(TypeOf(m)) /\ received' = received
  BY DEF ParseType
<1> DEFINE T == InTransit
           U == InTransit'
<1>2. /\ T \in Seq(Piece) /\ U \in Seq(Piece)
      /\ Len(T) > 0 /\ T[1] = TypeOf(m) /\ Len(U) = Len(T) - 1
      /\ \A i \in 1..(Len(T) - 1) : U[i] = T[i + 1]
      /\ Range(U) = Range(T) \ {TypeOf(m)}
      /\ UNCHANGED <<history, sendingBuffer>>
  BY <1>1, TakeStep
<1> SUFFICES ASSUME ~hurt' PROVE Ordered'
  BY DEF OrderInv
<1>3. Ordered /\ added' = added /\ overtaken' = overtaken
  BY <1>2 DEF OrderInv, history
<1>4. \A n : Body(n) # TypeOf(m)
  BY DEF Body, TypeOf
<1>5. \A i \in 1..Len(added) : added[i] \in Message
  BY DEF OInv, Types
<1>6. InOrder(added, overtaken, received, U)
  <2>1. TypeOf(m).part = "type"
    BY PieceFacts
  <2>2. InOrder(added, overtaken, received, T)
    BY <1>3 DEF Ordered
  <2> HIDE DEF T, U
  <2>3. \A a, b \in Message : Ahead(a, b, received, T) => Ahead(a, b, received, U)
    BY <1>2, <2>1, AheadTaken
  <2> QED BY <1>5, <2>2, <2>3, InOrderStep
<1> QED BY <1>1, <1>2, <1>3, <1>4, <1>6 DEF Ordered

LEMMA ParseBodyOrder ==
  ASSUME OInv, OrderInv, ParseBody
  PROVE  OrderInv'
<1> DEFINE T == InTransit
           U == InTransit'
<1>1. Take(Body(expecting)) /\ expecting # None
  BY DEF ParseBody
<1>2. /\ T \in Seq(Piece) /\ U \in Seq(Piece)
      /\ Len(T) > 0 /\ T[1] = Body(expecting) /\ Len(U) = Len(T) - 1
      /\ \A i \in 1..(Len(T) - 1) : U[i] = T[i + 1]
      /\ Range(U) = Range(T) \ {Body(expecting)}
      /\ UNCHANGED <<history, sendingBuffer>>
  BY <1>1, TakeStep
<1> SUFFICES ASSUME ~hurt' PROVE Ordered'
  BY DEF OrderInv
<1>3. Ordered /\ added' = added /\ overtaken' = overtaken /\ ~hurt
  BY <1>2 DEF OrderInv, history
<1>4. expecting \in Message /\ received' = Append(received, expecting)
  BY <1>3, ParseBodyStep
<1>5. received \in Seq(Message \cup {LoginOK}) /\ IsInjective(T)
  BY DEF OInv, Types
<1>6. Range(received') = Range(received) \cup {expecting}
  BY <1>4, <1>5, AppendRange
<1>7. \A m, n : Body(m) = Body(n) => m = n
  BY DEF Body
<1>8. \A i \in 1..Len(added) : added[i] \in Message
  BY DEF OInv, Types
<1>9. InOrder(added, overtaken, received', U)
  <2>1. InOrder(added, overtaken, received, T)
    BY <1>3 DEF Ordered
  <2> HIDE DEF T, U
  <2>2. ASSUME NEW a \in Message, NEW b \in Message, Ahead(a, b, received, T)
        PROVE  Ahead(a, b, Append(received, expecting), U)
    BY <1>2, <1>4, <1>5, <2>2, AheadHandled
  <2> QED BY <1>4, <1>8, <2>1, <2>2, InOrderStep
<1>10. \A n \in Range(added') : n \in Range(received') \/ Body(n) \in Range(U)
  BY <1>2, <1>3, <1>6, <1>7 DEF Ordered
<1>11. \A n \in Range(received') : Body(n) \notin Range(U)
  BY <1>2, <1>3, <1>6 DEF Ordered
<1> QED BY <1>3, <1>9, <1>10, <1>11 DEF Ordered

LEMMA EmptyIsOrdered ==
  ASSUME added = <<>>, overtaken = {}, received = <<>>
  PROVE  Ordered
BY DEF Ordered, InOrder, Range

LEMMA NextOrder == OInv /\ OrderInv /\ [Next]_vars => OrderInv'
<1> SUFFICES ASSUME OInv, OrderInv, [Next]_vars PROVE OrderInv'
  OBVIOUS
<1>1. CASE SendBufferData
  <2>1. InTransit' = InTransit /\ UNCHANGED <<history, received>>
    BY <1>1, WriteStep DEF SendBufferData
  <2> QED BY <2>1 DEF history, OrderInv, Ordered
<1>2. CASE ParseType
  BY <1>2, ParseTypeOrder
<1>3. CASE ParseBody
  BY <1>3, ParseBodyOrder
<1>4. CASE ParseGarbage
  BY <1>4, GarbageStep DEF OrderInv
<1>5. CASE ReadEnds
  BY <1>5, ReadEndsStep DEF OrderInv
<1>6. CASE Reconnect
  <2>1. added' = <<>> /\ overtaken' = {} /\ received' = <<>>
    BY <1>6 DEF Reconnect
  <2> QED BY <2>1, EmptyIsOrdered DEF OrderInv, Ordered, InOrder, Range
<1>7. CASE \E m \in Message : AddMessageToBuffer(m)
  BY <1>7, AddOrder
<1>8. CASE UNCHANGED vars
  BY <1>8 DEF vars, history, OrderInv, Ordered, InTransit
<1> QED BY <1>1, <1>2, <1>3, <1>4, <1>5, <1>6, <1>7, <1>8 DEF Next, Parse

LEMMA OrderGives == OInv /\ OrderInv => NewestInBufferFirst
<1> SUFFICES ASSUME OInv, OrderInv, ~hurt,
                    NEW i \in DOMAIN added, NEW j \in DOMAIN added, i < j
             PROVE  IF <<added[j], added[i]>> \in overtaken
                    THEN Handled(added[i]) => Before(added[j], added[i])
                    ELSE Handled(added[j]) => Before(added[i], added[j])
  BY DEF NewestInBufferFirst
<1>1. i \in 1..Len(added) /\ j \in 1..Len(added)
  BY DEF OInv, Types
<1>2. DOMAIN received = 1..Len(received)
  BY DEF OInv, Types
<1>3. ASSUME NEW a, NEW b, Ahead(a, b, received, InTransit), Handled(b) PROVE Before(a, b)
  <2>1. b \in Range(received) /\ Body(b) \notin Range(InTransit)
    BY <1>3 DEF Handled, OrderInv, Ordered
  <2>2. \A k \in 1..Len(InTransit) : InTransit[k] \in Range(InTransit)
    <3>1. InTransit \in Seq(Piece)
      BY InsertSerialized DEF OInv, Types, InTransit
    <3> QED BY <3>1, ListFacts
  <2> QED BY <1>2, <1>3, <2>1, <2>2 DEF Ahead, Before
<1> QED BY <1>1, <1>3 DEF OrderInv, Ordered, InOrder

\* Of two messages the older is handled first, unless the newer was added before
\* the older was written: then the newer is (Client.cpp:29, Server.cpp:422-426).
THEOREM NewestInBufferFirstHolds == Spec => []NewestInBufferFirst
<1>1. Init => OrderInv
  BY EmptyIsOrdered DEF Init, OrderInv
<1> QED BY <1>1, InitOInv, NextOInv, NextOrder, OrderGives, PTL DEF Spec
=============================================================================
