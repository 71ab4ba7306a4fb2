---------------------------- MODULE SequenceFacts ---------------------------
(***************************************************************************)
(* Facts about sequences, position by position, that the proofs about the  *)
(* components share: what Head, Tail and Append do, and what the part of a *)
(* sequence that is kept has in common with the whole.                     *)
(***************************************************************************)
EXTENDS KeptPart, FunctionTheorems, FiniteSetTheorems, SequenceTheorems,
        WellFoundedInduction, TLAPS

\* A queue without its first element.
LEMMA TailFacts ==
  ASSUME NEW S, NEW q \in Seq(S), q # <<>>
  PROVE  /\ Len(q) \in Nat \ {0}
         /\ DOMAIN q = 1..Len(q)
         /\ Head(q) = q[1]
         /\ Len(Tail(q)) = Len(q) - 1
         /\ DOMAIN Tail(q) = 1..(Len(q) - 1)
         /\ \A i \in 1..(Len(q) - 1) : i + 1 \in 1..Len(q) /\ Tail(q)[i] = q[i + 1]
         /\ Tail(q) = <<>> <=> Len(q) = 1
<1>1. Len(q) \in Nat \ {0} /\ DOMAIN q = 1..Len(q) /\ Head(q) = q[1]
  OBVIOUS
<1>2. Tail(q) \in Seq(S) /\ Len(Tail(q)) = Len(q) - 1
  OBVIOUS
<1>3. DOMAIN Tail(q) = 1..(Len(q) - 1)
  <2>1. DOMAIN Tail(q) = 1..Len(Tail(q))
    BY <1>2, LenProperties, Zenon
  <2>2. QED
    BY <2>1, <1>2, Zenon
<1>4. ASSUME NEW i \in 1..(Len(q) - 1)
      PROVE  i + 1 \in 1..Len(q) /\ Tail(q)[i] = q[i + 1]
  BY <1>1, <1>4
<1>5. Tail(q) = <<>> <=> Len(q) = 1
  <2>1. Len(<<>>) = 0 /\ (Tail(q) # <<>> => Len(Tail(q)) # 0)
    BY <1>2, EmptySeq
  <2>2. QED
    BY <2>1, <1>1, <1>2
<1>6. QED
  BY <1>1, <1>2, <1>3, <1>4, <1>5

\* A queue with one element more.
LEMMA AppendFacts ==
  ASSUME NEW S, NEW q \in Seq(S), NEW x \in S
  PROVE  /\ Len(q) \in Nat
         /\ DOMAIN q = 1..Len(q)
         /\ Len(Append(q, x)) = Len(q) + 1
         /\ DOMAIN Append(q, x) = 1..(Len(q) + 1)
         /\ \A i \in 1..Len(q) : Append(q, x)[i] = q[i]
         /\ Append(q, x)[Len(q) + 1] = x
         /\ Append(q, x) # <<>>
OBVIOUS

\* The first k elements of a sequence.
LEMMA PrefixFacts ==
  ASSUME NEW S, NEW q \in Seq(S), NEW k \in 0..Len(q)
  PROVE  /\ SubSeq(q, 1, k) \in Seq(S)
         /\ Len(SubSeq(q, 1, k)) = k
         /\ \A i \in 1..k : i \in 1..Len(q) /\ SubSeq(q, 1, k)[i] = q[i]
<1>1. Len(q) \in Nat /\ k \in Int /\ \A i \in 1..k : i \in 1..Len(q)
  OBVIOUS
<1>2. \A i \in 1..k : q[i] \in S
  BY <1>1, ElementOfSeq
<1> DEFINE t == SubSeq(q, 1, k)
<1>3. /\ t \in Seq(S) /\ Len(t) = IF 1 <= k THEN k - 1 + 1 ELSE 0
      /\ \A i \in 1..(k - 1 + 1) : t[i] = q[1 + i - 1]
  BY <1>1, <1>2, SubSeqProperties
<1> HIDE DEF t
<1>4. Len(t) = k /\ \A i \in 1..k : t[i] = q[i]
  BY <1>1, <1>3
<1>5. QED
  BY <1>1, <1>3, <1>4 DEF t
-----------------------------------------------------------------------------
\* Positions of a sequence are finitely many.
LEMMA PositionsFinite ==
  ASSUME NEW N \in Nat, NEW I \in SUBSET (1..N)
  PROVE  /\ IsFiniteSet(I)
         /\ Cardinality(I) \in 0..N
         /\ \A i : IsFiniteSet({j \in I : j <= i})
<1>1. IsFiniteSet(1..N) /\ Cardinality(1..N) = N
  BY FS_Interval
<1>2. IsFiniteSet(I) /\ Cardinality(I) <= N
  BY <1>1, FS_Subset
<1>3. Cardinality(I) \in Nat
  BY <1>2, FS_CardinalityType
<1>4. \A i : {j \in I : j <= i} \subseteq I
  OBVIOUS
<1>5. QED
  BY <1>2, <1>3, <1>4, FS_Subset

\* A position that is kept is further on than those before it.
LEMMA RankGrows ==
  ASSUME NEW N \in Nat, NEW I \in SUBSET (1..N), NEW i \in I, NEW k \in I
  PROVE  /\ Rank(i, I) \in 1..Cardinality(I)
         /\ i < k => Rank(i, I) < Rank(k, I)
         /\ Rank(i, I) = Rank(k, I) => i = k
<1> DEFINE UpTo(x) == {j \in I : j <= x}
<1>1. /\ IsFiniteSet(I) /\ Cardinality(I) \in Nat
      /\ \A x : IsFiniteSet(UpTo(x))
  BY PositionsFinite
<1>2. ASSUME NEW x \in I
      PROVE  Cardinality(UpTo(x)) \in 1..Cardinality(I)
  <2>1. UpTo(x) \in SUBSET I /\ x \in UpTo(x) /\ IsFiniteSet(UpTo(x))
    BY <1>1
  <2>2. Cardinality(UpTo(x)) <= Cardinality(I)
    BY <2>1, <1>1, FS_Subset
  <2>3. Cardinality(UpTo(x)) \in Nat /\ Cardinality(UpTo(x)) # 0
    BY <2>1, FS_CardinalityType, FS_EmptySet
  <2>4. QED
    BY <1>1, <2>2, <2>3
<1>3. ASSUME NEW x \in I, NEW y \in I, x < y
      PROVE  Cardinality(UpTo(x)) < Cardinality(UpTo(y))
  <2>1. UpTo(x) \in SUBSET UpTo(y) /\ IsFiniteSet(UpTo(y))
        /\ y \in UpTo(y) /\ y \notin UpTo(x)
    <3>1. I \subseteq Int /\ x \in Int /\ y \in Int
      OBVIOUS
    <3>2. \A z \in I : z <= x => z <= y
      BY <3>1, <1>3
    <3>3. y <= y /\ ~ (y <= x)
      BY <3>1, <1>3
    <3>4. QED
      BY <3>2, <3>3, <1>1
  <2>2. /\ Cardinality(UpTo(x)) <= Cardinality(UpTo(y))
        /\ Cardinality(UpTo(x)) # Cardinality(UpTo(y))
    BY <2>1, FS_Subset
  <2>3. Cardinality(UpTo(x)) \in Int /\ Cardinality(UpTo(y)) \in Int
    BY <1>2
  <2>4. QED
    BY <2>2, <2>3
<1>4. i \in Int /\ k \in Int
  OBVIOUS
<1>5. Rank(i, I) = Cardinality(UpTo(i)) /\ Rank(k, I) = Cardinality(UpTo(k))
  BY DEF Rank
<1> HIDE DEF UpTo
<1>6. i < k \/ k < i \/ i = k
  BY <1>4
<1>7. Cardinality(UpTo(i)) \in Int /\ Cardinality(UpTo(k)) \in Int
  BY <1>2
<1>8. QED
  BY <1>2, <1>3, <1>5, <1>6, <1>7

\* Every place among the kept positions is some position's.
LEMMA RankOnto ==
  ASSUME NEW N \in Nat, NEW I \in SUBSET (1..N), NEW n \in 1..Cardinality(I)
  PROVE  \E i \in I : Rank(i, I) = n
<1> DEFINE C == Cardinality(I)
           f == [i \in I |-> Rank(i, I)]
<1>1. IsFiniteSet(I) /\ C \in Nat
  BY PositionsFinite
<1>2. f \in [I -> 1..C]
  BY RankGrows
<1>3. \A i, k \in I : f[i] = f[k] => i = k
  BY RankGrows
<1>4. f \in Injection(I, 1..C)
  BY <1>2, <1>3 DEF Injection, IsInjective
<1>5. IsFiniteSet(1..C) /\ Cardinality(1..C) = C
  BY <1>1, FS_Interval
<1> HIDE DEF f
<1>6. f \in Surjection(I, 1..C)
  BY <1>4, <1>5, FS_Injection
<1>7. \E i \in I : f[i] = n
  BY <1>6 DEF Surjection
<1>8. QED
  BY <1>7 DEF f

\* The position behind each element of the part that is kept.
LEMMA KeptAtFacts ==
  ASSUME NEW S, NEW q \in Seq(S), NEW I \in SUBSET DOMAIN q
  PROVE  /\ KeptAt(q, I) \in Seq(S)
         /\ Len(KeptAt(q, I)) \in 0..Len(q)
         /\ DOMAIN KeptAt(q, I) = 1..Len(KeptAt(q, I))
         /\ \A n \in DOMAIN KeptAt(q, I) :
              \E i \in I : Rank(i, I) = n /\ KeptAt(q, I)[n] = q[i]
         /\ \A i \in I : /\ Rank(i, I) \in DOMAIN KeptAt(q, I)
                         /\ KeptAt(q, I)[Rank(i, I)] = q[i]
<1> DEFINE C == Cardinality(I)
           at(n) == CHOOSE i \in I : Rank(i, I) = n
           t == [n \in 1..C |-> q[at(n)]]
<1>1. Len(q) \in Nat /\ I \in SUBSET (1..Len(q))
  OBVIOUS
<1>2. C \in 0..Len(q)
  BY <1>1, PositionsFinite
<1>3. ASSUME NEW n \in 1..C
      PROVE  at(n) \in I /\ Rank(at(n), I) = n
  BY <1>1, <1>3, RankOnto
<1>4. t \in Seq(S) /\ Len(t) = C /\ DOMAIN t = 1..C
  <2>1. \A n \in 1..C : q[at(n)] \in S
    BY <1>3, <1>1, ElementOfSeq
  <2>2. t \in [1..C -> S]
    BY <2>1
  <2>3. QED
    BY <1>2, <2>2, SeqDef
<1>5. ASSUME NEW i \in I
      PROVE  Rank(i, I) \in 1..C /\ at(Rank(i, I)) = i
  <2>1. Rank(i, I) \in 1..C
    BY <1>1, RankGrows
  <2>2. at(Rank(i, I)) \in I /\ Rank(at(Rank(i, I)), I) = Rank(i, I)
    BY <2>1, <1>3
  <2> HIDE DEF at
  <2>3. QED
    BY <2>1, <2>2, <1>1, RankGrows
<1>6. KeptAt(q, I) = t
  BY DEF KeptAt
<1> HIDE DEF C, at
<1>7. QED
  BY <1>2, <1>3, <1>4, <1>5, <1>6

\* What is kept is in the order it had: positions of the part are positions
\* of the whole, further on for further on.
LEMMA KeptAtInOrder ==
  ASSUME NEW S, NEW q \in Seq(S), NEW I \in SUBSET DOMAIN q,
         NEW m \in DOMAIN KeptAt(q, I), NEW n \in DOMAIN KeptAt(q, I), m < n
  PROVE  \E i, k \in I : i < k /\ KeptAt(q, I)[m] = q[i] /\ KeptAt(q, I)[n] = q[k]
<1>1. PICK i \in I : Rank(i, I) = m /\ KeptAt(q, I)[m] = q[i]
  BY KeptAtFacts
<1>2. PICK k \in I : Rank(k, I) = n /\ KeptAt(q, I)[n] = q[k]
  BY KeptAtFacts
<1>3. Len(q) \in Nat /\ I \in SUBSET (1..Len(q))
  OBVIOUS
<1>4. ~ (k < i) /\ k # i
  <2>1. m \in Int /\ n \in Int
    BY KeptAtFacts
  <2>2. k < i => Rank(k, I) < Rank(i, I)
    BY <1>3, RankGrows
  <2>3. QED
    BY <1>1, <1>2, <2>1, <2>2
<1>5. QED
  BY <1>1, <1>2, <1>3, <1>4

\* A position more is kept: a place more, behind the others.
LEMMA RankOfNext ==
  ASSUME NEW N \in Nat, NEW I \in SUBSET (1..N)
  PROVE  LET J == I \cup {N + 1} IN
         /\ J \in SUBSET (1..(N + 1)) /\ Cardinality(J) = Cardinality(I) + 1
         /\ \A i \in I : Rank(i, J) = Rank(i, I)
         /\ Rank(N + 1, J) = Cardinality(I) + 1
<1> DEFINE J == I \cup {N + 1}
<1>1. /\ J \in SUBSET (1..(N + 1)) /\ N + 1 \notin I
      /\ \A i \in I : i \in 1..N /\ ~ (N + 1 <= i) /\ i <= N + 1
  OBVIOUS
<1>2. IsFiniteSet(I)
  BY PositionsFinite
<1>3. Cardinality(J) = Cardinality(I) + 1
  BY <1>1, <1>2, FS_AddElement
<1>4. ASSUME NEW i \in I PROVE Rank(i, J) = Rank(i, I)
  <2>1. {j \in J : j <= i} = {j \in I : j <= i}
    BY <1>1
  <2>2. QED
    BY <2>1 DEF Rank
<1>5. Rank(N + 1, J) = Cardinality(J)
  <2>1. \A j \in J : j <= N + 1
    BY <1>1
  <2> HIDE DEF J
  <2>2. {j \in J : j <= N + 1} = J
    BY <2>1
  <2>3. QED
    BY <2>2 DEF Rank
<1>6. QED
  BY <1>1, <1>3, <1>4, <1>5

\* The part kept of a sequence with one element more: that of the sequence,
\* with the element if its position is kept.
LEMMA KeptAtAppend ==
  ASSUME NEW S, NEW q \in Seq(S), NEW x \in S, NEW I \in SUBSET DOMAIN q
  PROVE  /\ KeptAt(Append(q, x), I) = KeptAt(q, I)
         /\ KeptAt(Append(q, x), I \cup {Len(q) + 1}) = Append(KeptAt(q, I), x)
<1> DEFINE N == Len(q)
           r == Append(q, x)
           J == I \cup {N + 1}
           C == Cardinality(I)
           at(K, n) == CHOOSE i \in K : Rank(i, K) = n
<1>1. /\ N \in Nat /\ I \in SUBSET (1..N) /\ DOMAIN q = 1..N
      /\ r \in Seq(S) /\ DOMAIN r = 1..(N + 1) /\ Len(r) = N + 1
      /\ \A i \in 1..N : r[i] = q[i]
      /\ r[N + 1] = x
  BY AppendFacts
<1>2. /\ J \in SUBSET (1..(N + 1)) /\ Cardinality(J) = C + 1
      /\ \A i \in I : Rank(i, J) = Rank(i, I)
      /\ Rank(N + 1, J) = C + 1
  BY <1>1, RankOfNext
<1>3. C \in Nat
  BY <1>1, PositionsFinite
<1>4. ASSUME NEW n \in 1..C
      PROVE  at(I, n) \in I /\ Rank(at(I, n), I) = n
  BY <1>1, <1>4, RankOnto
<1>5. KeptAt(r, I) = KeptAt(q, I)
  <2>1. \A n \in 1..C : r[at(I, n)] = q[at(I, n)]
    BY <1>1, <1>4
  <2>2. QED
    BY <2>1 DEF KeptAt
<1>6. KeptAt(r, J) = Append(KeptAt(q, I), x)
  <2> DEFINE t == KeptAt(r, J)
             u == KeptAt(q, I)
  <2>1. /\ u \in Seq(S) /\ DOMAIN u = 1..Len(u) /\ Len(u) \in Nat
        /\ t \in Seq(S) /\ DOMAIN t = 1..Len(t) /\ Len(t) \in Nat
        /\ \A i \in I : Rank(i, I) \in DOMAIN u /\ u[Rank(i, I)] = q[i]
        /\ \A i \in J : Rank(i, J) \in DOMAIN t /\ t[Rank(i, J)] = r[i]
    <3>1. J \in SUBSET DOMAIN r
      BY <1>1, <1>2
    <3> HIDE DEF r, J
    <3>2. QED
      BY <1>1, <3>1, KeptAtFacts
  <2>2. DOMAIN u = 1..C /\ DOMAIN t = 1..(C + 1)
    BY <1>2 DEF KeptAt
  <2> HIDE DEF t, u
  <2>3. Len(u) = C /\ Len(t) = C + 1
    BY <1>3, <2>1, <2>2
  <2>4. ASSUME NEW n \in 1..C PROVE t[n] = u[n]
    <3>1. PICK i \in I : Rank(i, I) = n
      BY <1>1, <2>4, RankOnto
    <3>2. t[n] = r[i] /\ u[n] = q[i] /\ r[i] = q[i]
      BY <1>1, <1>2, <2>1, <3>1
    <3>3. QED
      BY <3>2
  <2>5. t[C + 1] = x
    BY <1>1, <1>2, <2>1
  <2>6. Append(u, x) \in Seq(S) /\ Len(Append(u, x)) = C + 1
        /\ \A n \in 1..C : Append(u, x)[n] = u[n]
        /\ Append(u, x)[C + 1] = x
    BY <2>1, <2>3, AppendProperties
  <2>7. \A n \in 1..(C + 1) : n \in 1..C \/ n = C + 1
    BY <1>3
  <2>8. \A n \in 1..(C + 1) : t[n] = Append(u, x)[n]
    BY <2>4, <2>5, <2>6, <2>7
  <2> DEFINE v == Append(u, x)
  <2> HIDE DEF v
  <2>9. v \in Seq(S) /\ Len(v) = Len(t) /\ \A n \in 1..Len(t) : t[n] = v[n]
    BY <2>3, <2>6, <2>8 DEF v
  <2>10. t = v
    BY <2>1, <2>9, SeqEqual
  <2>11. QED
    BY <2>10 DEF t, u, v
<1>7. QED
  BY <1>5, <1>6

\* What Without does to a sequence with one element more, and to none.
LEMMA WithoutAppend ==
  ASSUME NEW S, NEW q \in Seq(S), NEW x \in S, NEW T
  PROVE  /\ x \in T => Without(Append(q, x), T) = Without(q, T)
         /\ x \notin T => Without(Append(q, x), T) = Append(Without(q, T), x)
<1> DEFINE r == Append(q, x)
           I == {i \in DOMAIN q : q[i] \notin T}
           J == {i \in DOMAIN r : r[i] \notin T}
<1>1. /\ Len(q) \in Nat /\ DOMAIN q = 1..Len(q)
      /\ DOMAIN r = 1..(Len(q) + 1)
      /\ \A i \in 1..Len(q) : r[i] = q[i]
      /\ r[Len(q) + 1] = x
  BY AppendFacts
<1>2. /\ \A i \in 1..(Len(q) + 1) : i \in 1..Len(q) \/ i = Len(q) + 1
      /\ \A i \in 1..Len(q) : i \in 1..(Len(q) + 1)
      /\ Len(q) + 1 \in 1..(Len(q) + 1)
  BY <1>1
<1> HIDE DEF r
<1>3. x \in T => J = I
  BY <1>1, <1>2
<1>4. x \notin T => J = I \cup {Len(q) + 1}
  BY <1>1, <1>2
<1>5. I \in SUBSET DOMAIN q
  OBVIOUS
<1>6. Without(r, T) = KeptAt(r, J) /\ Without(q, T) = KeptAt(q, I)
  BY DEF Without
<1> HIDE DEF I, J
<1>7. KeptAt(r, I) = KeptAt(q, I) /\ KeptAt(r, I \cup {Len(q) + 1}) = Append(KeptAt(q, I), x)
  BY <1>5, KeptAtAppend DEF r
<1>8. QED
  BY <1>3, <1>4, <1>6, <1>7 DEF r

\* Without takes nothing from an empty sequence, and the elements of T that q
\* has not make no difference to it.
LEMMA WithoutSame ==
  ASSUME NEW q, NEW T, NEW U, \A i \in DOMAIN q : q[i] \in T <=> q[i] \in U
  PROVE  Without(q, T) = Without(q, U)
<1>1. {i \in DOMAIN q : q[i] \notin T} = {i \in DOMAIN q : q[i] \notin U}
  OBVIOUS
<1>2. QED
  BY <1>1 DEF Without

\* Nothing is kept of nothing.
LEMMA WithoutNothing ==
  ASSUME NEW T
  PROVE  Without(<<>>, T) = <<>>
<1> DEFINE I == {i \in DOMAIN <<>> : <<>>[i] \notin T}
<1>1. <<>> \in Seq({}) /\ Len(<<>>) = 0 /\ I \in SUBSET DOMAIN <<>>
  OBVIOUS
<1>2. KeptAt(<<>>, I) \in Seq({}) /\ Len(KeptAt(<<>>, I)) \in 0..0
  BY <1>1, KeptAtFacts
<1>3. KeptAt(<<>>, I) = <<>>
  BY <1>2, EmptySeq
<1>4. QED
  BY <1>3 DEF Without

\* What is kept is of the same type.
LEMMA WithoutTyped ==
  ASSUME NEW S, NEW q \in Seq(S), NEW T
  PROVE  Without(q, T) \in Seq(S)
<1>1. {i \in DOMAIN q : q[i] \notin T} \in SUBSET DOMAIN q
  OBVIOUS
<1>2. QED
  BY <1>1, KeptAtFacts DEF Without

\* A sequence cut after its k-th element, and one element further on.
LEMMA CutFacts ==
  ASSUME NEW S, NEW q \in Seq(S), NEW k \in 0..(Len(q) - 1)
  PROVE  LET rest == SubSeq(q, k + 1, Len(q)) IN
         /\ rest \in Seq(S) /\ rest # <<>>
         /\ k + 1 \in DOMAIN q /\ q[k + 1] \in S /\ Head(rest) = q[k + 1]
         /\ Tail(rest) = SubSeq(q, k + 2, Len(q))
         /\ Tail(rest) = <<>> <=> k + 1 = Len(q)
         /\ SubSeq(q, 1, k) \in Seq(S)
         /\ SubSeq(q, 1, k + 1) = Append(SubSeq(q, 1, k), q[k + 1])
<1> DEFINE n == Len(q)
           rest == SubSeq(q, k + 1, n)
           more == SubSeq(q, k + 2, n)
           head == SubSeq(q, 1, k)
           next == SubSeq(q, 1, k + 1)
<1>1. n \in Nat /\ k \in Nat /\ DOMAIN q = 1..n /\ k < n
  OBVIOUS
<1>2. \A i \in 1..n : q[i] \in S
  BY <1>1, ElementOfSeq
<1> HIDE DEF n
<1>3. /\ \A i \in (k + 1)..n : i \in 1..n
      /\ \A i \in (k + 2)..n : i \in 1..n
      /\ \A i \in 1..k : i \in 1..n
      /\ \A i \in 1..(k + 1) : i \in 1..n
      /\ k + 1 \in 1..n
  BY <1>1
<1>4. /\ rest \in Seq(S)
      /\ Len(rest) = IF k + 1 <= n THEN n - (k + 1) + 1 ELSE 0
      /\ \A i \in 1..(n - (k + 1) + 1) : rest[i] = q[(k + 1) + i - 1]
  <2>1. k + 1 \in Int /\ n \in Int /\ \A i \in (k + 1)..n : q[i] \in S
    BY <1>1, <1>2, <1>3
  <2>2. QED
    BY <2>1, SubSeqProperties
<1>5. /\ more \in Seq(S)
      /\ Len(more) = IF k + 2 <= n THEN n - (k + 2) + 1 ELSE 0
      /\ \A i \in 1..(n - (k + 2) + 1) : more[i] = q[(k + 2) + i - 1]
  <2>1. k + 2 \in Int /\ n \in Int /\ \A i \in (k + 2)..n : q[i] \in S
    BY <1>1, <1>2, <1>3
  <2>2. QED
    BY <2>1, SubSeqProperties
<1>6. /\ head \in Seq(S) /\ Len(head) = k
      /\ \A i \in 1..k : head[i] = q[i]
  BY <1>1, PrefixFacts DEF n
<1>7. /\ next \in Seq(S) /\ Len(next) = k + 1
      /\ \A i \in 1..(k + 1) : next[i] = q[i]
  <2>1. k + 1 \in 0..n
    BY <1>1
  <2>2. QED
    BY <2>1, PrefixFacts DEF n
<1> HIDE DEF rest, more, head, next
<1>8. /\ Len(rest) = n - k /\ Len(rest) # 0
      /\ \A i \in 1..(n - k) : rest[i] = q[k + i]
      /\ Len(more) = n - (k + 1)
      /\ \A i \in 1..(n - (k + 1)) : more[i] = q[(k + 1) + i]
  <2>1. /\ n - (k + 1) + 1 = n - k
        /\ \A i \in 1..(n - k) : (k + 1) + i - 1 = k + i
    BY <1>1
  <2>2. /\ n - (k + 2) + 1 = n - (k + 1)
        /\ \A i \in 1..(n - (k + 1)) : (k + 2) + i - 1 = (k + 1) + i
    BY <1>1
  <2>3. Len(rest) = n - k /\ Len(rest) # 0 /\ Len(more) = n - (k + 1)
    BY <1>1, <1>4, <1>5
  <2>4. \A i \in 1..(n - k) : rest[i] = q[k + i]
    BY <1>4, <2>1
  <2>5. \A i \in 1..(n - (k + 1)) : more[i] = q[(k + 1) + i]
    BY <1>5, <2>2
  <2>6. QED
    BY <2>3, <2>4, <2>5
<1>9. rest # <<>>
  BY <1>4, <1>8, EmptySeq
<1> DEFINE t == Tail(rest)
<1>10. /\ t \in Seq(S) /\ Len(t) = n - (k + 1) /\ Head(rest) = rest[1]
       /\ \A i \in 1..(n - (k + 1)) : t[i] = rest[i + 1]
  <2>1. /\ t \in Seq(S) /\ Len(t) = Len(rest) - 1 /\ Head(rest) = rest[1]
        /\ \A i \in 1..(Len(rest) - 1) : t[i] = rest[i + 1]
    BY <1>4, <1>9, TailFacts, HeadTailProperties
  <2> HIDE DEF t
  <2>2. Len(rest) - 1 = n - (k + 1)
    BY <1>1, <1>8
  <2>3. QED
    BY <2>1, <2>2
<1> HIDE DEF t
<1>11. t = more
  <2>1. \A i \in 1..(n - (k + 1)) : i + 1 \in 1..(n - k) /\ k + (i + 1) = (k + 1) + i
    BY <1>1
  <2>2. \A i \in 1..(n - (k + 1)) : t[i] = more[i]
    BY <1>8, <1>10, <2>1
  <2>3. QED
    BY <1>5, <1>8, <1>10, <2>2, SeqEqual
<1>12. Head(rest) = q[k + 1]
  BY <1>1, <1>8, <1>10
<1>13. t = <<>> <=> k + 1 = n
  <2>1. t = <<>> <=> Len(t) = 0
    BY <1>10, EmptySeq
  <2>2. QED
    BY <1>1, <1>10, <2>1
<1>14. next = Append(head, q[k + 1])
  <2> DEFINE v == Append(head, q[k + 1])
  <2>1. q[k + 1] \in S
    BY <1>2, <1>3
  <2>2. /\ v \in Seq(S) /\ Len(v) = k + 1
        /\ \A i \in 1..k : v[i] = head[i]
        /\ v[k + 1] = q[k + 1]
    BY <1>6, <2>1, AppendProperties
  <2> HIDE DEF v
  <2>3. \A i \in 1..(k + 1) : i \in 1..k \/ i = k + 1
    BY <1>1
  <2>4. \A i \in 1..(k + 1) : v[i] = next[i]
    BY <1>6, <1>7, <2>2, <2>3
  <2>5. v = next
    BY <1>7, <2>2, <2>4, SeqEqual
  <2>6. QED
    BY <2>5 DEF v
<1>15. QED
  BY <1>1, <1>2, <1>3, <1>4, <1>6, <1>9, <1>11, <1>12, <1>13, <1>14 DEF n, rest, more, head, next, t
-----------------------------------------------------------------------------
\* A set of positions that holds every position before one it holds is an
\* initial segment.
LEMMA InitialSegment ==
  ASSUME NEW N \in Nat, NEW I \in SUBSET (1..N),
         \A i \in I : \A j \in 1..i : j \in I
  PROVE  Cardinality(I) \in 0..N /\ I = 1..Cardinality(I)
<1>1. Cardinality(I) \in 0..N
  BY PositionsFinite
<1> \A i \in I : i \in Int /\ 1 <= i /\ i <= N
  OBVIOUS
<1>2. ASSUME NEW i \in I
      PROVE  Rank(i, I) = i
  <2>1. {j \in I : j <= i} = 1..i
    <3>1. \A j \in 1..i : j \in I /\ j <= i
      OBVIOUS
    <3>2. \A j \in I : j <= i => j \in 1..i
      OBVIOUS
    <3>3. QED
      BY <3>1, <3>2
  <2>2. Cardinality(1..i) = i
    BY FS_Interval
  <2>3. QED
    BY <2>1, <2>2 DEF Rank
<1>3. ASSUME NEW i \in I
      PROVE  i \in 1..Cardinality(I)
  <2>1. Rank(i, I) \in 1..Cardinality(I)
    BY RankGrows
  <2>2. QED
    BY <2>1, <1>2
<1>4. \A n \in 1..Cardinality(I) : n \in I
  BY <1>2, RankOnto
<1>5. QED
  BY <1>1, <1>3, <1>4

\* What is left when elements go from the left as long as they are in B: the
\* first position to stay is the last one all of whose predecessors are in B.
LEMMA LeadingRun ==
  ASSUME NEW N \in Nat, NEW B, NEW keep,
         keep \subseteq 1..(N + 1),
         \A i \in 1..(N + 1) : i \in keep <=> \A j \in 1..(i - 1) : j \in B
  PROVE  \E first \in keep :
           /\ \A j \in keep : j <= first
           /\ first \in 1..(N + 1)
           /\ \A j \in 1..(first - 1) : j \in 1..N /\ j \in B
           /\ first # N + 1 => first \notin B
<1> DEFINE C == Cardinality(keep)
<1>1. /\ keep \in SUBSET (1..(N + 1)) /\ 1 \in keep
      /\ \A i \in keep : \A j \in 1..i : j \in keep
  <2>1. keep \in SUBSET (1..(N + 1)) /\ 1 \in keep
    OBVIOUS
  <2>2. ASSUME NEW i \in keep, NEW j \in 1..i
        PROVE  j \in keep
    <3>1. i \in 1..(N + 1) /\ j \in 1..(N + 1) /\ 1..(j - 1) \subseteq 1..(i - 1)
      OBVIOUS
    <3>2. QED
      BY <3>1
  <2>3. QED
    BY <2>1, <2>2
<1>2. C \in 0..(N + 1) /\ keep = 1..C
  <2>1. N + 1 \in Nat
    OBVIOUS
  <2> HIDE DEF C
  <2>2. QED
    BY <1>1, <2>1, InitialSegment DEF C
<1> HIDE DEF C
<1>3. C \in keep /\ \A j \in keep : j <= C
  <2>1. C \in Int /\ 1 \in 1..C
    BY <1>1, <1>2
  <2>2. C \in 1..C /\ \A j \in 1..C : j <= C
    BY <2>1
  <2>3. QED
    BY <1>2, <2>2, Zenon
<1>4. C \in 1..(N + 1) /\ \A j \in 1..(C - 1) : j \in 1..N /\ j \in B
  BY <1>1, <1>2, <1>3
<1>5. C # N + 1 => C \notin B
  <2> SUFFICES ASSUME C # N + 1, C \in B PROVE FALSE
    OBVIOUS
  <2>1. C + 1 \in 1..(N + 1) /\ \A j \in 1..C : j = C \/ j \in 1..(C - 1)
    BY <1>4
  <2>2. \A j \in 1..((C + 1) - 1) : j \in B
    BY <1>4, <2>1
  <2>3. C + 1 \in keep
    BY <2>1, <2>2
  <2>4. C + 1 <= C /\ C \in Int
    BY <1>3, <1>4, <2>3
  <2>5. QED
    BY <2>4
<1>6. QED
  BY <1>3, <1>4, <1>5

\* The same of the position that eviction chooses.
LEMMA FirstKept ==
  ASSUME NEW N \in Nat, NEW B, NEW keep,
         keep \subseteq 1..(N + 1),
         \A i \in 1..(N + 1) : i \in keep <=> \A j \in 1..(i - 1) : j \in B,
         NEW first, first = CHOOSE i \in keep : \A j \in keep : j <= i
  PROVE  /\ first \in 1..(N + 1)
         /\ \A j \in 1..(first - 1) : j \in 1..N /\ j \in B
         /\ first # N + 1 => first \notin B
<1>1. PICK k \in keep :
        /\ \A j \in keep : j <= k
        /\ k \in 1..(N + 1)
        /\ \A j \in 1..(k - 1) : j \in 1..N /\ j \in B
        /\ k # N + 1 => k \notin B
  BY LeadingRun, ZenonT(30)
<1>2. first \in keep /\ \A j \in keep : j <= first
  BY <1>1
<1>3. first <= k /\ k <= first
  BY <1>1, <1>2
<1>4. first \in Int /\ k \in Int
  <2>1. first \in 1..(N + 1) /\ k \in 1..(N + 1)
    BY <1>1, <1>2
  <2>2. QED
    BY <2>1
<1>5. first = k
  BY <1>3, <1>4
<1>6. QED
  BY <1>1, <1>5

\* The same, of the set as the evictions write it.
LEMMA FirstOutside ==
  ASSUME NEW N \in Nat, NEW B
  PROVE  LET keep == {i \in 1..(N + 1) : \A j \in 1..(i - 1) : j \in B}
             first == CHOOSE i \in keep : \A j \in keep : j <= i
         IN  /\ first \in 1..(N + 1)
             /\ \A j \in 1..(first - 1) : j \in 1..N /\ j \in B
             /\ first # N + 1 => first \notin B
<1> DEFINE keep == {i \in 1..(N + 1) : \A j \in 1..(i - 1) : j \in B}
           first == CHOOSE i \in keep : \A j \in keep : j <= i
<1>1. keep \subseteq 1..(N + 1)
  OBVIOUS
<1>2. \A i \in 1..(N + 1) : i \in keep <=> \A j \in 1..(i - 1) : j \in B
  OBVIOUS
<1>3. first = CHOOSE i \in keep : \A j \in keep : j <= i
  OBVIOUS
<1> HIDE DEF keep, first
<1>4. /\ first \in 1..(N + 1)
      /\ \A j \in 1..(first - 1) : j \in 1..N /\ j \in B
      /\ first # N + 1 => first \notin B
  BY <1>1, <1>2, <1>3, FirstKept
<1>5. QED
  BY <1>4 DEF keep, first

\* The last elements of a sequence, from position m on.
LEMMA SuffixFacts ==
  ASSUME NEW S, NEW q \in Seq(S), NEW m \in 1..(Len(q) + 1)
  PROVE  LET rest == SubSeq(q, m, Len(q)) IN
         /\ rest \in Seq(S)
         /\ Len(rest) = Len(q) - m + 1
         /\ DOMAIN rest = 1..(Len(q) - m + 1)
         /\ \A i \in 1..(Len(q) - m + 1) :
              m + i - 1 \in 1..Len(q) /\ rest[i] = q[m + i - 1]
<1> DEFINE n == Len(q)
           rest == SubSeq(q, m, n)
<1>1. n \in Nat /\ m \in Int /\ 1 <= m /\ m <= n + 1 /\ DOMAIN q = 1..n
  OBVIOUS
<1>2. \A i \in 1..n : q[i] \in S
  BY <1>1, ElementOfSeq
<1> HIDE DEF n
<1>3. /\ rest \in Seq(S) /\ Len(rest) = IF m <= n THEN n - m + 1 ELSE 0
      /\ \A i \in 1..(n - m + 1) : rest[i] = q[m + i - 1]
  <2>1. \A i \in m..n : q[i] \in S
    BY <1>1, <1>2
  <2>2. QED
    BY <1>1, <2>1, SubSeqProperties
<1> HIDE DEF rest
<1>4. Len(rest) = n - m + 1
  BY <1>1, <1>3
<1>5. \A i \in 1..(n - m + 1) : m + i - 1 \in 1..n
  BY <1>1
<1>6. DOMAIN rest = 1..(n - m + 1)
  BY <1>3, <1>4, LenProperties, Zenon
<1>7. QED
  BY <1>3, <1>4, <1>5, <1>6 DEF n, rest

\* Kept from one position on, a sequence is its end.
LEMMA KeptAtSuffix ==
  ASSUME NEW S, NEW q \in Seq(S), NEW m \in 1..(Len(q) + 1)
  PROVE  KeptAt(q, m..Len(q)) = SubSeq(q, m, Len(q))
<1> DEFINE n == Len(q)
           I == m..n
           L == n - m + 1
           rest == SubSeq(q, m, n)
           at(k) == CHOOSE i \in I : Rank(i, I) = k
<1>1. n \in Nat /\ m \in Int /\ 1 <= m /\ m <= n + 1 /\ DOMAIN q = 1..n
  OBVIOUS
<1>2. /\ rest \in Seq(S) /\ Len(rest) = L
      /\ \A k \in 1..L : rest[k] = q[m + k - 1]
  BY SuffixFacts
<1> HIDE DEF n, rest
<1>3. I \in SUBSET (1..n) /\ Cardinality(I) = L
  <2>1. \A i \in I : i \in 1..n
    BY <1>1
  <2>2. Cardinality(I) = IF m > n THEN 0 ELSE n - m + 1
    BY <1>1, FS_Interval
  <2>3. QED
    BY <1>1, <2>1, <2>2
<1>4. ASSUME NEW k \in 1..L
      PROVE  at(k) = m + k - 1
  <2> DEFINE i == m + k - 1
  <2>1. i \in I /\ i \in Int /\ m <= i /\ i - m + 1 = k
    BY <1>1
  <2>2. {j \in I : j <= i} = m..i
    BY <1>1, <2>1
  <2>3. Rank(i, I) = k
    <3>1. Cardinality(m..i) = k
      BY <1>1, <2>1, FS_Interval
    <3>2. QED
      BY <2>2, <3>1 DEF Rank
  <2> HIDE DEF i, I
  <2>4. at(k) \in I /\ Rank(at(k), I) = k
    BY <2>1, <2>3
  <2>5. at(k) = i
    BY <1>1, <1>3, <2>1, <2>3, <2>4, RankGrows
  <2>6. QED
    BY <2>5 DEF i
<1>5. KeptAt(q, I) = [k \in 1..L |-> q[at(k)]]
  BY <1>3 DEF KeptAt
<1> HIDE DEF at, I
<1>6. KeptAt(q, I) = [k \in 1..L |-> q[m + k - 1]]
  BY <1>4, <1>5
<1>7. L \in Nat
  BY <1>1
<1>8. KeptAt(q, I) \in Seq(S) /\ Len(KeptAt(q, I)) = L
  <2> DEFINE kept == KeptAt(q, I)
  <2>1. kept \in Seq(S)
    BY <1>1, <1>3, KeptAtFacts
  <2>2. DOMAIN kept = 1..L
    BY <1>6
  <2> HIDE DEF kept
  <2>3. Len(kept) = L
    BY <1>7, <2>1, <2>2, LenProperties
  <2>4. QED
    BY <2>1, <2>3 DEF kept
<1>9. \A k \in 1..L : KeptAt(q, I)[k] = rest[k]
  BY <1>2, <1>6
<1>10. KeptAt(q, I) = rest
  BY <1>2, <1>8, <1>9, SeqEqual
<1>11. QED
  BY <1>10 DEF I, n, rest
-----------------------------------------------------------------------------
(* Induction.  The library's induction theorems have an operator as a      *)
(* parameter; the one about minimal elements of a set has not.             *)

\* A set of naturals has a least element.
LEMMA LeastNat ==
  ASSUME NEW T, T \subseteq Nat, T # {}
  PROVE  \E x \in T : \A y \in T : x <= y
<1> DEFINE R == OpToRel(<, Nat)
<1>1. IsWellFoundedOn(R, Nat)
  BY NatLessThanWellFounded
<1> HIDE DEF R
<1>2. PICK x \in T : \A y \in T : ~ (<<y, x>> \in R)
  BY <1>1, WFMin
<1>3. ASSUME NEW y \in T
      PROVE  x <= y
  <2>1. x \in Nat /\ y \in Nat
    BY <1>3
  <2>2. ~ (y < x)
    BY <1>2, <2>1 DEF R, OpToRel
  <2>3. QED
    BY <2>1, <2>2
<1>4. QED
  BY <1>3

\* What holds of 0, and of n + 1 if of n, holds of every natural; T is the
\* set of those of which it holds.
LEMMA Induct ==
  ASSUME NEW T, 0 \in T, \A n \in Nat : n \in T => n + 1 \in T
  PROVE  \A n \in Nat : n \in T
<1> SUFFICES ASSUME NEW n \in Nat, n \notin T PROVE FALSE
  OBVIOUS
<1> DEFINE U == {k \in Nat : k \notin T}
<1>1. PICK m \in U : \A k \in U : m <= k
  <2>1. U \subseteq Nat /\ U # {}
    OBVIOUS
  <2>2. QED
    BY <2>1, LeastNat
<1>2. m \in Nat /\ m # 0 /\ m \notin T
  BY <1>1
<1>3. m - 1 \in Nat /\ m - 1 \in T
  BY <1>1, <1>2
<1>4. (m - 1) + 1 \in T
  BY <1>3
<1>5. QED
  BY <1>2, <1>4
-----------------------------------------------------------------------------
(* Sums.                                                                   *)

\* p[n] is the sum of the first n elements of q.
Sums(q, p) ==
  /\ p \in [0..Len(q) -> Int]
  /\ p[0] = 0
  /\ \A n \in 1..Len(q) : p[n] = p[n - 1] + q[n]

\* There are such sums.
LEMMA SumsExist ==
  ASSUME NEW q \in Seq(Int)
  PROVE  \E p : Sums(q, p)
<1> DEFINE L == Len(q)
           Upto(n, p) == /\ p \in [0..n -> Int] /\ p[0] = 0
                         /\ \A k \in 1..n : p[k] = p[k - 1] + q[k]
           T == {n \in Nat : n <= L => \E p : Upto(n, p)}
<1>1. L \in Nat /\ \A k \in 1..L : q[k] \in Int
  BY ElementOfSeq
<1> HIDE DEF L
<1>2. 0 \in T
  <2>1. Upto(0, [k \in 0..0 |-> 0])
    OBVIOUS
  <2>2. QED
    BY <2>1
<1>3. ASSUME NEW n \in Nat, n \in T, n + 1 <= L
      PROVE  \E p : Upto(n + 1, p)
  <2>1. PICK p : Upto(n, p)
    BY <1>1, <1>3
  <2> DEFINE r == [k \in 0..(n + 1) |-> IF k = n + 1 THEN p[n] + q[n + 1] ELSE p[k]]
  <2>2. p[n] \in Int /\ q[n + 1] \in Int
    <3>1. n \in 0..n /\ n + 1 \in 1..L
      BY <1>1, <1>3
    <3>2. QED
      BY <1>1, <2>1, <3>1
  <2>3. \A k \in 0..n : k # n + 1 /\ k \in 0..(n + 1) /\ r[k] = p[k] /\ p[k] \in Int
    BY <2>1
  <2>4. n + 1 \in 0..(n + 1) /\ r[n + 1] = p[n] + q[n + 1]
    OBVIOUS
  <2>5. r \in [0..(n + 1) -> Int]
    <3>1. \A k \in 0..(n + 1) : k = n + 1 \/ k \in 0..n
      OBVIOUS
    <3>2. \A k \in 0..(n + 1) : (IF k = n + 1 THEN p[n] + q[n + 1] ELSE p[k]) \in Int
      BY <2>1, <2>2, <3>1
    <3>3. QED
      BY <3>2
  <2>6. r[0] = 0
    BY <2>1, <2>3
  <2>7. ASSUME NEW k \in 1..(n + 1)
        PROVE  r[k] = r[k - 1] + q[k]
    <3>1. k - 1 \in 0..n
      OBVIOUS
    <3>2. CASE k = n + 1
      <4>1. (n + 1) - 1 = n /\ n \in 0..n
        OBVIOUS
      <4>2. QED
        BY <2>3, <2>4, <3>2, <4>1
    <3>3. CASE k \in 1..n
      <4>1. k \in 0..n
        BY <3>3
      <4>2. QED
        BY <2>1, <2>3, <3>1, <3>3, <4>1
    <3>4. QED
      BY <3>2, <3>3
  <2> HIDE DEF r
  <2>8. Upto(n + 1, r)
    BY <2>5, <2>6, <2>7
  <2>9. QED
    BY <2>8
<1> HIDE DEF Upto
<1>4. \A n \in Nat : n \in T => n + 1 \in T
  <2> SUFFICES ASSUME NEW n \in Nat, n \in T, n + 1 <= L
               PROVE  \E p : Upto(n + 1, p)
    OBVIOUS
  <2>1. QED
    BY <1>3
<1>5. L \in T
  <2> HIDE DEF T
  <2>1. \A n \in Nat : n \in T
    BY <1>2, <1>4, Induct
  <2>2. QED
    BY <1>1, <2>1
<1>6. QED
  BY <1>1, <1>5 DEF L, Upto, Sums

\* The sums are those that the definition of Total chooses.
LEMMA TotalIs ==
  ASSUME NEW q \in Seq(Int), NEW p, Sums(q, p)
  PROVE  Total(q) = p[Len(q)]
<1> DEFINE L == Len(q)
           Fixed(g) == g = [n \in 0..L |-> IF n = 0 THEN 0 ELSE g[n - 1] + q[n]]
           upTo == CHOOSE g : Fixed(g)
<1>1. L \in Nat
  OBVIOUS
<1>2. Fixed(p)
  <2>1. \A n \in 0..L : n = 0 \/ n \in 1..L
    BY <1>1
  <2>2. \A n \in 0..L : p[n] = IF n = 0 THEN 0 ELSE p[n - 1] + q[n]
    BY <2>1 DEF Sums
  <2>3. p = [n \in 0..L |-> p[n]]
    BY DEF Sums
  <2>4. QED
    BY <2>2, <2>3
<1>3. Fixed(upTo)
  <2> HIDE DEF Fixed
  <2>1. QED
    BY <1>2
<1>4. Total(q) = upTo[L]
  BY DEF Total
<1> HIDE DEF upTo
<1> DEFINE T == {n \in Nat : n <= L => upTo[n] = p[n]}
<1>5. 0 \in T
  <2>1. 0 \in 0..L
    BY <1>1
  <2>2. QED
    BY <1>3, <2>1 DEF Sums
<1>6. ASSUME NEW n \in Nat, n \in T, n + 1 <= L
      PROVE  upTo[n + 1] = p[n + 1]
  <2>1. /\ n + 1 \in 0..L /\ n + 1 \in 1..L /\ n + 1 # 0 /\ (n + 1) - 1 = n
        /\ upTo[n] = p[n]
    BY <1>1, <1>6
  <2>2. upTo[n + 1] = upTo[n] + q[n + 1]
    BY <1>3, <2>1
  <2>3. p[n + 1] = p[n] + q[n + 1]
    BY <2>1 DEF Sums
  <2>4. QED
    BY <2>1, <2>2, <2>3
<1>7. \A n \in Nat : n \in T => n + 1 \in T
  <2> SUFFICES ASSUME NEW n \in Nat, n \in T, n + 1 <= L
               PROVE  upTo[n + 1] = p[n + 1]
    OBVIOUS
  <2>1. QED
    BY <1>6
<1>8. L \in T
  <2> HIDE DEF T
  <2>1. \A n \in Nat : n \in T
    BY <1>5, <1>7, Induct
  <2>2. QED
    BY <1>1, <2>1
<1>9. QED
  BY <1>4, <1>8

\* A sum is a number; that of nothing is 0.
LEMMA TotalTyped ==
  ASSUME NEW q \in Seq(Int)
  PROVE  Total(q) \in Int /\ (Len(q) = 0 => Total(q) = 0)
<1>1. PICK p : Sums(q, p)
  BY SumsExist
<1>2. Total(q) = p[Len(q)]
  BY <1>1, TotalIs
<1>3. Len(q) \in 0..Len(q)
  OBVIOUS
<1>4. QED
  BY <1>1, <1>2, <1>3 DEF Sums

\* A new last element is added.
LEMMA TotalAppend ==
  ASSUME NEW q \in Seq(Int), NEW x \in Int
  PROVE  Total(Append(q, x)) = Total(q) + x
<1> DEFINE L == Len(q)
           r == Append(q, x)
<1>1. /\ r \in Seq(Int) /\ Len(r) = L + 1 /\ L \in Nat /\ r[L + 1] = x
      /\ \A i \in 1..L : r[i] = q[i]
  BY AppendProperties
<1> HIDE DEF r
<1>2. PICK p : Sums(r, p)
  BY <1>1, SumsExist
<1> DEFINE s == [n \in 0..L |-> p[n]]
<1>3. Sums(q, s)
  <2>1. \A n \in 0..L : n \in 0..Len(r) /\ s[n] = p[n] /\ p[n] \in Int
    <3>1. \A n \in 0..L : n \in 0..Len(r)
      BY <1>1
    <3>2. \A n \in 0..Len(r) : p[n] \in Int
      BY <1>2 DEF Sums
    <3>3. \A n \in 0..L : s[n] = p[n]
      OBVIOUS
    <3>4. QED
      BY <3>1, <3>2, <3>3
  <2>2. \A n \in 1..L : n \in 1..Len(r) /\ n \in 0..L /\ n - 1 \in 0..L
    BY <1>1
  <2>3. s \in [0..L -> Int]
    BY <2>1
  <2>4. s[0] = 0
    BY <1>1, <1>2, <2>1 DEF Sums
  <2>5. \A n \in 1..L : s[n] = s[n - 1] + q[n]
    <3> SUFFICES ASSUME NEW n \in 1..L PROVE s[n] = s[n - 1] + q[n]
      OBVIOUS
    <3>1. s[n] = p[n] /\ s[n - 1] = p[n - 1] /\ q[n] = r[n]
      BY <1>1, <2>1, <2>2
    <3>2. p[n] = p[n - 1] + r[n]
      BY <1>2, <2>2 DEF Sums
    <3>3. QED
      BY <3>1, <3>2
  <2> HIDE DEF s
  <2>6. QED
    BY <2>3, <2>4, <2>5 DEF Sums
<1>4. Total(q) = s[L]
  BY <1>3, TotalIs
<1>5. Total(r) = p[L + 1]
  BY <1>1, <1>2, TotalIs
<1>6. s[L] = p[L] /\ p[L + 1] = p[L] + r[L + 1]
  <2>1. L \in 0..L /\ L + 1 \in 1..Len(r) /\ (L + 1) - 1 = L
    BY <1>1
  <2>2. QED
    BY <1>2, <2>1 DEF Sums
<1>7. QED
  BY <1>1, <1>4, <1>5, <1>6 DEF r

\* The first element is no longer counted.
LEMMA TotalTail ==
  ASSUME NEW q \in Seq(Int), q # <<>>
  PROVE  Total(Tail(q)) = Total(q) - Head(q)
<1> DEFINE L == Len(q)
           r == Tail(q)
<1>1. /\ r \in Seq(Int) /\ L \in Nat \ {0} /\ Len(r) = L - 1 /\ q[1] \in Int
      /\ Head(q) = q[1] /\ \A i \in 1..(L - 1) : r[i] = q[i + 1]
  <2>1. /\ r \in Seq(Int) /\ Len(r) = L - 1
        /\ \A i \in 1..(L - 1) : r[i] = q[i + 1]
    BY HeadTailProperties
  <2>2. L \in Nat \ {0} /\ Head(q) = q[1]
    BY EmptySeq
  <2>3. q[1] \in Int
    BY <2>2, ElementOfSeq
  <2>4. QED
    BY <2>1, <2>2, <2>3
<1> HIDE DEF r
<1>2. PICK p : Sums(q, p)
  BY SumsExist
<1> DEFINE s == [n \in 0..(L - 1) |-> p[n + 1] - q[1]]
<1>3. \A n \in 0..(L - 1) : /\ n + 1 \in 0..L /\ p[n + 1] \in Int
                            /\ s[n] = p[n + 1] - q[1]
  <2>1. \A n \in 0..(L - 1) : n + 1 \in 0..L
    BY <1>1
  <2>2. \A n \in 0..L : p[n] \in Int
    BY <1>2 DEF Sums
  <2>3. QED
    BY <2>1, <2>2
<1>4. Sums(r, s)
  <2>1. s \in [0..Len(r) -> Int]
    BY <1>1, <1>3
  <2>2. s[0] = 0
    <3>1. 0 \in 0..(L - 1) /\ 1 \in 1..L
      BY <1>1
    <3>2. p[1] = p[0] + q[1] /\ p[0] = 0
      BY <1>2, <3>1 DEF Sums
    <3>3. s[0] = p[1] - q[1]
      BY <3>1
    <3>4. QED
      BY <1>1, <3>2, <3>3
  <2>3. ASSUME NEW n \in 1..Len(r)
        PROVE  s[n] = s[n - 1] + r[n]
    <3>1. /\ n \in 0..(L - 1) /\ n - 1 \in 0..(L - 1) /\ n \in 1..(L - 1)
          /\ n + 1 \in 1..L /\ (n - 1) + 1 = n /\ (n + 1) - 1 = n
      BY <1>1, <2>3
    <3>2. s[n] = p[n + 1] - q[1] /\ s[n - 1] = p[n] - q[1]
      BY <1>3, <3>1
    <3>3. p[n + 1] = p[n] + q[n + 1] /\ p[n] \in Int /\ p[n + 1] \in Int
      BY <1>2, <1>3, <3>1 DEF Sums
    <3>4. r[n] = q[n + 1] /\ q[n + 1] \in Int /\ q[1] \in Int
      BY <1>1, <3>1, ElementOfSeq
    <3> DEFINE a == p[n]
               b == p[n + 1]
               c == q[n + 1]
    <3>5. (b - q[1]) = (a - q[1]) + c
      <4>1. a \in Int /\ b = a + c /\ c \in Int
        BY <3>3, <3>4
      <4> HIDE DEF a, b, c
      <4>2. QED
        BY <3>4, <4>1
    <3> HIDE DEF s
    <3>6. QED
      BY <3>2, <3>4, <3>5
  <2> HIDE DEF s
  <2>4. QED
    BY <2>1, <2>2, <2>3 DEF Sums
<1>5. Total(q) = p[L]
  BY <1>2, TotalIs
<1>6. Total(r) = s[L - 1]
  BY <1>1, <1>4, TotalIs
<1>7. s[L - 1] = p[L] - q[1]
  <2>1. L - 1 \in 0..(L - 1) /\ (L - 1) + 1 = L
    BY <1>1
  <2>2. QED
    BY <1>3, <2>1
<1>8. QED
  BY <1>1, <1>5, <1>6, <1>7 DEF r

\* What holds of the elements of two sequences holds of their sums.
LEMMA TotalBounds ==
  ASSUME NEW c \in Int, NEW q \in Seq(Int), NEW w \in Seq(Int), Len(q) = Len(w),
         \A i \in 1..Len(q) : q[i] <= c * w[i]
  PROVE  Total(q) <= c * Total(w)
<1> DEFINE L == Len(q)
<1>1. L \in Nat /\ \A k \in 1..L : q[k] \in Int /\ w[k] \in Int
  BY ElementOfSeq
<1>2. PICK p : Sums(q, p)
  BY SumsExist
<1>3. PICK r : Sums(w, r)
  BY SumsExist
<1> DEFINE T == {n \in Nat : n <= L => p[n] <= c * r[n]}
<1>4. 0 \in T
  BY <1>2, <1>3 DEF Sums
<1>5. ASSUME NEW n \in Nat, n \in T, n + 1 <= L
      PROVE  p[n + 1] <= c * r[n + 1]
  <2>1. n \in 0..L /\ n + 1 \in 1..L /\ (n + 1) - 1 = n /\ p[n] <= c * r[n]
    BY <1>1, <1>5
  <2>2. p[n + 1] = p[n] + q[n + 1] /\ r[n + 1] = r[n] + w[n + 1]
    BY <1>2, <1>3, <2>1 DEF Sums
  <2>3. p[n] \in Int /\ r[n] \in Int
    BY <1>2, <1>3, <2>1 DEF Sums
  <2>4. q[n + 1] \in Int /\ w[n + 1] \in Int /\ q[n + 1] <= c * w[n + 1]
    BY <1>1, <2>1
  <2> DEFINE d == c * r[n]
             e == c * w[n + 1]
  <2>5. c * r[n + 1] = d + e
    BY <2>2, <2>3, <2>4
  <2>6. d \in Int /\ e \in Int /\ p[n] <= d /\ q[n + 1] <= e
    BY <2>1, <2>3, <2>4
  <2> HIDE DEF d, e
  <2>7. QED
    BY <2>2, <2>3, <2>4, <2>5, <2>6
<1>6. \A n \in Nat : n \in T => n + 1 \in T
  BY <1>5
<1>7. L \in T
  <2> HIDE DEF T
  <2>1. \A n \in Nat : n \in T
    BY <1>4, <1>6, Induct
  <2>2. QED
    BY <1>1, <2>1
<1>8. Total(q) = p[L] /\ Total(w) = r[L]
  BY <1>2, <1>3, TotalIs
<1>9. QED
  BY <1>1, <1>7, <1>8

\* A sum of positive numbers is positive.
LEMMA TotalPositive ==
  ASSUME NEW q \in Seq(Int), q # <<>>, \A i \in 1..Len(q) : q[i] > 0
  PROVE  Total(q) > 0
<1> DEFINE L == Len(q)
<1>1. L \in Nat \ {0} /\ \A k \in 1..L : q[k] \in Int
  BY ElementOfSeq, EmptySeq
<1>2. PICK p : Sums(q, p)
  BY SumsExist
<1> DEFINE T == {n \in Nat : n + 1 <= L => p[n + 1] > 0}
<1>3. 0 \in T
  <2>1. 1 \in 1..L
    BY <1>1
  <2>2. p[1] = p[0] + q[1] /\ p[0] = 0
    BY <1>2, <2>1 DEF Sums
  <2>3. QED
    BY <1>1, <2>1, <2>2
<1>4. ASSUME NEW n \in Nat, n \in T, n + 2 <= L
      PROVE  p[n + 2] > 0
  <2>1. n + 1 \in 0..L /\ n + 2 \in 1..L /\ (n + 2) - 1 = n + 1 /\ p[n + 1] > 0
    BY <1>1, <1>4
  <2>2. p[n + 2] = p[n + 1] + q[n + 2] /\ p[n + 1] \in Int
    BY <1>2, <2>1 DEF Sums
  <2>3. q[n + 2] \in Int /\ q[n + 2] > 0
    BY <1>1, <2>1
  <2>4. QED
    BY <2>1, <2>2, <2>3
<1>5. \A n \in Nat : n \in T => n + 1 \in T
  <2> SUFFICES ASSUME NEW n \in Nat, n \in T, (n + 1) + 1 <= L
               PROVE  p[(n + 1) + 1] > 0
    OBVIOUS
  <2>1. (n + 1) + 1 = n + 2
    OBVIOUS
  <2>2. QED
    BY <1>4, <2>1
<1>6. L - 1 \in T /\ (L - 1) + 1 = L
  <2> HIDE DEF T
  <2>1. \A n \in Nat : n \in T
    BY <1>3, <1>5, Induct
  <2>2. QED
    BY <1>1, <2>1
<1>7. Total(q) = p[L]
  BY <1>2, TotalIs
<1>8. QED
  BY <1>1, <1>6, <1>7
-----------------------------------------------------------------------------
(* Extremes.                                                               *)

\* Of finitely many numbers one is the greatest.
LEMMA GreatestPlace ==
  ASSUME NEW n \in Nat \ {0}, NEW f, \A i \in 1..n : f[i] \in Int
  PROVE  \E i \in 1..n : \A j \in 1..n : f[j] <= f[i]
<1> DEFINE T == {k \in Nat : k + 1 <= n =>
                   \E i \in 1..(k + 1) : \A j \in 1..(k + 1) : f[j] <= f[i]}
<1>1. 0 \in T
  <2>1. 1 \in 1..1 /\ \A j \in 1..1 : f[j] <= f[1]
    <3>1. \A j \in 1..1 : j = 1
      OBVIOUS
    <3>2. f[1] \in Int
      OBVIOUS
    <3>3. QED
      BY <3>1, <3>2
  <2>2. QED
    BY <2>1
<1>2. ASSUME NEW k \in Nat, k \in T, (k + 1) + 1 <= n
      PROVE  \E i \in 1..((k + 1) + 1) : \A j \in 1..((k + 1) + 1) : f[j] <= f[i]
  <2>1. PICK i \in 1..(k + 1) : \A j \in 1..(k + 1) : f[j] <= f[i]
    BY <1>2
  <2> DEFINE z == (k + 1) + 1
  <2>2. /\ z \in 1..z /\ i \in 1..z /\ \A j \in 1..z : j = z \/ j \in 1..(k + 1)
        /\ \A j \in 1..z : f[j] \in Int
    BY <1>2
  <2> HIDE DEF z
  <2>3. \E h \in 1..z : \A j \in 1..z : f[j] <= f[h]
    <3>1. CASE f[z] <= f[i]
      BY <2>1, <2>2, <3>1
    <3>2. CASE f[i] < f[z]
      <4>1. \A j \in 1..z : f[j] <= f[z]
        BY <2>1, <2>2, <3>2
      <4>2. QED
        BY <2>2, <4>1
    <3>3. QED
      BY <2>2, <3>1, <3>2
  <2>4. QED
    BY <2>3 DEF z
<1>3. \A k \in Nat : k \in T => k + 1 \in T
  BY <1>2
<1>4. n - 1 \in T
  <2> HIDE DEF T
  <2>1. \A k \in Nat : k \in T
    BY <1>1, <1>3, Induct
  <2>2. QED
    BY <2>1
<1>5. QED
  BY <1>4

\* And one is the least.
LEMMA LeastPlace ==
  ASSUME NEW n \in Nat \ {0}, NEW f, \A i \in 1..n : f[i] \in Int
  PROVE  \E i \in 1..n : \A j \in 1..n : f[i] <= f[j]
<1> DEFINE g == [i \in 1..n |-> -f[i]]
<1>1. \A i \in 1..n : g[i] \in Int /\ g[i] = -f[i]
  OBVIOUS
<1> HIDE DEF g
<1>2. PICK i \in 1..n : \A j \in 1..n : g[j] <= g[i]
  BY <1>1, GreatestPlace
<1>3. \A j \in 1..n : f[i] <= f[j]
  BY <1>1, <1>2
<1>4. QED
  BY <1>3
-----------------------------------------------------------------------------
(* Eviction.                                                               *)

\* What is left after an eviction is the end of a sequence, from the first
\* position on that is not to go.
LEMMA DropLeadingFacts ==
  ASSUME NEW S, NEW q \in Seq(S), NEW B
  PROVE  \E first \in 1..(Len(q) + 1) :
           /\ DropLeading(q, B) = SubSeq(q, first, Len(q))
           /\ \A j \in 1..(first - 1) : j \in 1..Len(q) /\ j \in B
           /\ first # Len(q) + 1 => first \notin B
<1> DEFINE n == Len(q)
           keep == {i \in 1..(n + 1) : \A j \in 1..(i - 1) : j \in B}
           first == CHOOSE i \in keep : \A j \in keep : j <= i
<1>1. n \in Nat
  OBVIOUS
<1>2. /\ first \in 1..(n + 1)
      /\ \A j \in 1..(first - 1) : j \in 1..n /\ j \in B
      /\ first # n + 1 => first \notin B
  <2> HIDE DEF n
  <2>1. QED
    BY <1>1, FirstOutside
<1>3. DropLeading(q, B) = SubSeq(q, first, n)
  BY DEF DropLeading
<1> HIDE DEF first
<1>4. QED
  BY <1>2, <1>3
=============================================================================
