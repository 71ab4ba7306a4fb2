----------------------------- MODULE TapProofs ------------------------------
(***************************************************************************)
(* Proofs about the packet taps, for every value of their constants.       *)
(***************************************************************************)
EXTENDS PacketTaps, SequenceFacts
-----------------------------------------------------------------------------
(* Eviction.                                                               *)

Entries == [ts : Int, val : Speed]

\* The helpers of the wind's module are those of KeptPart.
LEMMA WindHelpers ==
  /\ \A q, I : Wind!KeptAt(q, I) = KeptAt(q, I)
  /\ \A q, B : Wind!DropLeading(q, B) = DropLeading(q, B)
<1>1. \A q, I : Wind!KeptAt(q, I) = KeptAt(q, I)
  BY DEF Wind!KeptAt, KeptAt, Wind!Rank, Rank, Wind!Cardinality, Cardinality
<1>2. \A q, B : Wind!DropLeading(q, B) = DropLeading(q, B)
  BY DEF Wind!DropLeading, DropLeading
<1>3. QED
  BY <1>1, <1>2

\* Eviction leaves the end of a buffer, from the first entry that is young
\* enough on.
LEMMA EvictFacts ==
  ASSUME NEW s \in Seq(Entries), NEW t \in Int, Window["wind"] \in Int
  PROVE  \E first \in 1..(Len(s) + 1) :
           /\ Wind!Evict(s, t) = SubSeq(s, first, Len(s))
           /\ \A j \in 1..(first - 1) : j \in 1..Len(s) /\ s[j].ts < t - Window["wind"]
           /\ first # Len(s) + 1 => s[first].ts >= t - Window["wind"]
<1> DEFINE old == {i \in DOMAIN s : s[i].ts < t - Window["wind"]}
<1>1. Wind!Evict(s, t) = DropLeading(s, old)
  BY WindHelpers DEF Wind!Evict
<1>2. \A i \in 1..Len(s) : s[i].ts \in Int /\ i \in DOMAIN s
  <2>1. \A i \in 1..Len(s) : s[i] \in Entries
    BY ElementOfSeq
  <2>2. QED
    BY <2>1 DEF Entries
<1> HIDE DEF old
<1>3. PICK first \in 1..(Len(s) + 1) :
        /\ DropLeading(s, old) = SubSeq(s, first, Len(s))
        /\ \A j \in 1..(first - 1) : j \in 1..Len(s) /\ j \in old
        /\ first # Len(s) + 1 => first \notin old
  BY DropLeadingFacts
<1>4. first # Len(s) + 1 => s[first].ts >= t - Window["wind"]
  <2> SUFFICES ASSUME first # Len(s) + 1 PROVE s[first].ts >= t - Window["wind"]
    OBVIOUS
  <2>1. first \in 1..Len(s) /\ first \notin old
    BY <1>3
  <2>2. QED
    BY <1>2, <2>1 DEF old
<1>5. \A j \in 1..(first - 1) : j \in 1..Len(s) /\ s[j].ts < t - Window["wind"]
  BY <1>3 DEF old
<1>6. QED
  BY <1>1, <1>3, <1>4, <1>5

\* A buffer s is the end of all that was added, and what it lacks was too old
\* when the last entry was added, at t; its oldest entry was not.
Kept(a, s, t) ==
  /\ a \in Seq(Entries)
  /\ s \in Seq(Entries)
  /\ Len(s) <= Len(a)
  /\ s = SubSeq(a, Len(a) - Len(s) + 1, Len(a))
  /\ a # <<>> => s # <<>>
  /\ \A i \in 1..(Len(a) - Len(s)) : a[i].ts < t - Window["wind"]
  /\ Len(s) > 1 => a[Len(a) - Len(s) + 1].ts >= t - Window["wind"]

\* An entry that is added after an eviction leaves a buffer as it should be.
LEMMA AddKeeps ==
  ASSUME NEW a, NEW s, NEW t \in Int, NEW u \in Int, Kept(a, s, t), t <= u,
         NEW x \in Entries, Window["wind"] \in Int
  PROVE  Kept(Append(a, x), Append(Wind!Evict(s, u), x), u)
<1> DEFINE N == Len(a)
           d == N - Len(s)
           e == Wind!Evict(s, u)
           b == Append(a, x)
           r == Append(e, x)
<1>1. /\ a \in Seq(Entries) /\ s \in Seq(Entries) /\ N \in Nat /\ Len(s) \in Nat
      /\ Len(s) <= N /\ d \in 0..N
      /\ \A i \in 1..N : a[i] \in Entries
  BY DEF Kept
<1>2. \A i \in 1..N : a[i].ts \in Int
  BY <1>1 DEF Entries
<1>3. \A j \in 1..Len(s) : d + j \in 1..N /\ s[j] = a[d + j]
  <2>1. d + 1 \in 1..(N + 1)
    BY <1>1
  <2>2. \A j \in 1..(N - (d + 1) + 1) : s[j] = a[(d + 1) + j - 1]
    BY <1>1, <2>1, SuffixFacts DEF Kept
  <2>3. N - (d + 1) + 1 = Len(s) /\ \A j \in 1..Len(s) : (d + 1) + j - 1 = d + j
    BY <1>1
  <2>4. \A j \in 1..Len(s) : d + j \in 1..N
    BY <1>1
  <2>5. QED
    BY <2>2, <2>3, <2>4
<1>4. PICK first \in 1..(Len(s) + 1) :
        /\ e = SubSeq(s, first, Len(s))
        /\ \A j \in 1..(first - 1) : j \in 1..Len(s) /\ s[j].ts < u - Window["wind"]
        /\ first # Len(s) + 1 => s[first].ts >= u - Window["wind"]
  BY <1>1, EvictFacts
<1> DEFINE m == Len(s) - first + 1
<1>5. /\ e \in Seq(Entries) /\ Len(e) = m
      /\ \A i \in 1..m : first + i - 1 \in 1..Len(s) /\ e[i] = s[first + i - 1]
  BY <1>1, <1>4, SuffixFacts
<1> HIDE DEF N, e
<1>6. /\ b \in Seq(Entries) /\ Len(b) = N + 1
      /\ \A i \in 1..N : b[i] = a[i]
      /\ b[N + 1] = x
  BY <1>1, AppendProperties DEF N
<1>7. /\ r \in Seq(Entries) /\ Len(r) = m + 1
      /\ \A i \in 1..m : r[i] = e[i]
      /\ r[m + 1] = x /\ r # <<>>
  BY <1>5, AppendProperties
<1> HIDE DEF b, r
<1>8. /\ m \in Nat /\ first \in Int /\ d + first \in 1..(N + 2)
      /\ Len(b) - Len(r) = d + first - 1
      /\ Len(r) <= Len(b) /\ d + first \in 1..(Len(b) + 1)
  <2>1. m \in Nat /\ first \in Int /\ first >= 1 /\ first <= Len(s) + 1
    BY <1>1, <1>4
  <2>2. d + first \in 1..(N + 2)
    BY <1>1, <2>1
  <2>3. Len(b) - Len(r) = d + first - 1
    BY <1>1, <1>6, <1>7, <2>1
  <2>4. Len(r) <= Len(b) /\ d + first \in 1..(Len(b) + 1)
    BY <1>1, <1>6, <1>7, <2>1
  <2>5. QED
    BY <2>1, <2>2, <2>3, <2>4
<1>9. r = SubSeq(b, d + first, Len(b))
  <2> DEFINE w == SubSeq(b, d + first, Len(b))
  <2>1. /\ w \in Seq(Entries) /\ Len(w) = Len(b) - (d + first) + 1
        /\ \A i \in 1..(Len(b) - (d + first) + 1) : w[i] = b[(d + first) + i - 1]
    BY <1>6, <1>8, SuffixFacts
  <2> HIDE DEF w
  <2>2. Len(b) - (d + first) + 1 = m + 1
    BY <1>1, <1>4, <1>6 DEF d
  <2>3. ASSUME NEW i \in 1..(m + 1)
        PROVE  r[i] = b[(d + first) + i - 1]
    <3>1. CASE i = m + 1
      <4>1. (d + first) + i - 1 = N + 1
        BY <1>1, <1>4, <3>1 DEF d
      <4>2. QED
        BY <1>6, <1>7, <3>1, <4>1
    <3>2. CASE i # m + 1
      <4>1. i \in 1..m
        BY <1>8, <3>2
      <4>2. first + i - 1 \in 1..Len(s) /\ r[i] = s[first + i - 1]
        BY <1>5, <1>7, <4>1
      <4>3. d + (first + i - 1) \in 1..N /\ r[i] = a[d + (first + i - 1)]
        BY <1>3, <4>2
      <4>4. d + (first + i - 1) = (d + first) + i - 1
        BY <1>1, <1>4, <4>1
      <4>5. QED
        BY <1>6, <4>3, <4>4
    <3>3. QED
      BY <3>1, <3>2
  <2>4. r = w
    BY <1>7, <2>1, <2>2, <2>3, SeqEqual
  <2>5. QED
    BY <2>4 DEF w
<1>10. ASSUME NEW i \in 1..(Len(b) - Len(r))
       PROVE  b[i].ts < u - Window["wind"]
  <2>1. i \in 1..(d + first - 1) /\ i \in 1..N
    BY <1>1, <1>4, <1>8
  <2>2. CASE i <= d
    <3>1. a[i].ts < t - Window["wind"]
      BY <1>1, <2>1, <2>2 DEF Kept, N
    <3>2. QED
      BY <1>2, <1>6, <2>1, <3>1
  <2>3. CASE i > d
    <3>1. i - d \in 1..(first - 1) /\ d + (i - d) = i
      BY <1>1, <1>4, <2>1, <2>3
    <3>2. i - d \in 1..Len(s) /\ s[i - d].ts < u - Window["wind"]
      BY <1>4, <3>1
    <3>3. s[i - d] = a[i]
      BY <1>3, <3>1, <3>2
    <3>4. a[i] = b[i]
      BY <1>6, <2>1
    <3>5. QED
      BY <3>2, <3>3, <3>4, Zenon
  <2>4. QED
    BY <1>1, <2>1, <2>2, <2>3
<1>11. ASSUME Len(r) > 1
       PROVE  b[Len(b) - Len(r) + 1].ts >= u - Window["wind"]
  <2>1. first \in 1..Len(s) /\ first # Len(s) + 1
    BY <1>1, <1>4, <1>7, <1>11
  <2>2. Len(b) - Len(r) + 1 = d + first
    BY <1>1, <1>4, <1>8
  <2>3. d + first \in 1..N /\ s[first] = a[d + first]
    BY <1>3, <2>1
  <2>4. QED
    BY <1>4, <1>6, <2>1, <2>2, <2>3
<1>12. Len(b) - Len(r) + 1 = d + first
  BY <1>1, <1>4, <1>8
<1>13. QED
  BY <1>6, <1>7, <1>8, <1>9, <1>10, <1>11, <1>12 DEF Kept, b, r, e
-----------------------------------------------------------------------------
(* The wind.                                                               *)

\* The inductive invariant: each buffer is as the last packet with its field
\* has left it.
WindInv ==
  /\ now \in 0..MaxTime["wind"]
  /\ packets \in 0..MaxPackets["wind"]
  /\ seen \in [Wind!Field -> 0..now]
  /\ windData \in [Wind!Field -> Seq(Entries)]
  /\ added \in [Wind!Field -> Seq(Entries)]
  /\ \A f \in Wind!Field : Kept(added[f], windData[f], seen[f])

\* Empty buffers satisfy the invariant.
LEMMA WindInit ==
  ASSUME Wind!WindAssumption
  PROVE  Wind!Init => WindInv
<1> SUFFICES ASSUME Wind!Init PROVE WindInv
  OBVIOUS
<1>1. <<>> \in Seq(Entries) /\ Len(<<>>) = 0
  BY EmptySeq
<1>2. SubSeq(<<>>, 1, 0) = <<>>
  OBVIOUS
<1>3. Kept(<<>>, <<>>, 0)
  BY <1>1, <1>2 DEF Kept
<1>4. MaxTime["wind"] \in Nat /\ MaxPackets["wind"] \in Nat
  BY DEF Wind!WindAssumption
<1>5. QED
  BY <1>1, <1>3, <1>4 DEF Wind!Init, WindInv

\* A packet keeps the invariant (process_packet).
LEMMA PacketKeeps ==
  ASSUME Wind!WindAssumption, WindInv, Wind!Packet
  PROVE  WindInv'
<1>1. PICK ts \in now - Skew..now + Skew, p \in [Wind!Field -> Speed \cup {None}] :
        LET has == {f \in Wind!Field : p[f] # None} IN
        /\ windData' = [f \in Wind!Field |-> IF f \in has
                      THEN Wind!Add(Wind!Evict(windData[f], now), ts, p[f]) ELSE windData[f]]
        /\ added' = [f \in Wind!Field |-> IF f \in has
                       THEN Append(added[f], Wind!Entry(ts, p[f])) ELSE added[f]]
        /\ seen' = [f \in Wind!Field |-> IF f \in has THEN now ELSE seen[f]]
  BY DEF Wind!Packet
<1>2. packets < MaxPackets["wind"] /\ packets' = packets + 1 /\ now' = now
  BY DEF Wind!Packet
<1>3. /\ Window["wind"] \in Int /\ Skew \in Int /\ MaxTime["wind"] \in Nat /\ MaxPackets["wind"] \in Nat
      /\ now \in Int /\ now \in 0..now /\ ts \in Int
  BY DEF Wind!WindAssumption, WindInv
<1>4. ASSUME NEW f \in Wind!Field
      PROVE  /\ Kept(added'[f], windData'[f], seen'[f])
             /\ seen'[f] \in 0..now
  <2>1. /\ Kept(added[f], windData[f], seen[f]) /\ seen[f] \in 0..now
        /\ seen[f] \in Int /\ seen[f] <= now
    BY <1>3 DEF WindInv
  <2>2. CASE p[f] = None
    <3>1. windData'[f] = windData[f] /\ added'[f] = added[f] /\ seen'[f] = seen[f]
      BY <1>1, <2>2
    <3>2. QED
      BY <2>1, <3>1
  <2>3. CASE p[f] # None
    <3>1. /\ windData'[f] = Append(Wind!Evict(windData[f], now), Wind!Entry(ts, p[f]))
          /\ added'[f] = Append(added[f], Wind!Entry(ts, p[f]))
          /\ seen'[f] = now
      BY <1>1, <2>3 DEF Wind!Add
    <3>2. Wind!Entry(ts, p[f]) \in Entries
      BY <1>3, <2>3 DEF Wind!Entry, Entries
    <3>3. Kept(added'[f], windData'[f], now)
      BY <1>3, <2>1, <3>1, <3>2, AddKeeps
    <3>4. QED
      BY <1>3, <3>1, <3>3
  <2>4. QED
    BY <2>2, <2>3
<1>5. /\ DOMAIN windData' = Wind!Field /\ windData' = [f \in Wind!Field |-> windData'[f]]
      /\ added' = [f \in Wind!Field |-> added'[f]]
      /\ seen' = [f \in Wind!Field |-> seen'[f]]
  BY <1>1
<1>6. \A f \in Wind!Field : windData'[f] \in Seq(Entries) /\ added'[f] \in Seq(Entries)
  BY <1>4 DEF Kept
<1>7. /\ windData' \in [Wind!Field -> Seq(Entries)] /\ added' \in [Wind!Field -> Seq(Entries)]
      /\ seen' \in [Wind!Field -> 0..now']
  BY <1>2, <1>4, <1>5, <1>6
<1>8. packets' \in 0..MaxPackets["wind"] /\ now' \in 0..MaxTime["wind"]
  BY <1>2, <1>3 DEF WindInv
<1>9. QED
  BY <1>4, <1>7, <1>8 DEF WindInv

\* Every step keeps the invariant.
LEMMA WindNext ==
  ASSUME Wind!WindAssumption
  PROVE  WindInv /\ [Wind!Next]_(Wind!vars) => WindInv'
<1> SUFFICES ASSUME WindInv, [Wind!Next]_(Wind!vars) PROVE WindInv'
  OBVIOUS
<1>1. CASE Wind!Packet
  BY <1>1, PacketKeeps
<1>2. CASE Wind!Tick
  <2>1. /\ now < MaxTime["wind"] /\ now' = now + 1 /\ UNCHANGED <<packets, windData, added, seen>>
        /\ MaxTime["wind"] \in Nat /\ now \in 0..MaxTime["wind"]
    BY <1>2 DEF Wind!Tick, WindInv, Wind!WindAssumption
  <2>2. now' \in 0..MaxTime["wind"] /\ 0..now \subseteq 0..now'
    BY <2>1
  <2>3. seen' \in [Wind!Field -> 0..now']
    BY <2>1, <2>2 DEF WindInv
  <2>4. QED
    BY <2>1, <2>2, <2>3 DEF WindInv
<1>3. CASE UNCHANGED Wind!vars
  BY <1>3 DEF Wind!vars, WindInv
<1>4. QED
  BY <1>1, <1>2, <1>3 DEF Wind!Next

\* The inductive invariant of the wind's buffers holds throughout.
THEOREM WindInvariant ==
  ASSUME Wind!WindAssumption
  PROVE  Wind!Spec => []WindInv
<1>1. Wind!Init => WindInv
  BY WindInit
<1>2. WindInv /\ [Wind!Next]_(Wind!vars) => WindInv'
  BY WindNext
<1>3. QED
  BY <1>1, <1>2, PTL DEF Wind!Spec

\* What the invariant says of the samples kept.
LEMMA WindIsKept ==
  ASSUME Wind!WindAssumption, WindInv
  PROVE  Wind!WindTypeOK /\ Wind!RecentIsKept
<1>1. Wind!WindTypeOK
  <2>1. \A f \in Wind!Field :
          /\ seen[f] \in 0..now
          /\ Len(windData[f]) <= Len(added[f])
          /\ windData[f] = SubSeq(added[f], Len(added[f]) - Len(windData[f]) + 1, Len(added[f]))
    BY DEF WindInv, Kept
  <2>2. QED
    BY <2>1 DEF WindInv, Wind!WindTypeOK
<1>2. Wind!RecentIsKept
  <2> SUFFICES ASSUME NEW f \in Wind!Field, NEW i \in DOMAIN added[f],
                      added[f][i].ts >= now - Window["wind"],
                      ~ (i > Len(added[f]) - Len(windData[f]))
               PROVE  FALSE
    BY DEF Wind!RecentIsKept
  <2>1. /\ added[f] \in Seq(Entries) /\ windData[f] \in Seq(Entries)
        /\ Kept(added[f], windData[f], seen[f])
        /\ seen[f] \in 0..now /\ now \in Int
    BY DEF WindInv
  <2>2. i \in 1..Len(added[f]) /\ Len(added[f]) \in Nat /\ Len(windData[f]) \in Nat
    BY <2>1, LenProperties
  <2>3. i \in 1..(Len(added[f]) - Len(windData[f]))
    <3> DEFINE n == Len(added[f])
               k == Len(windData[f])
    <3>1. i \in 1..n /\ n \in Nat /\ k \in Nat /\ ~ (i > n - k)
      BY <2>2
    <3> HIDE DEF n, k
    <3>2. i \in 1..(n - k)
      BY <3>1
    <3>3. QED
      BY <3>2 DEF n, k
  <2>4. added[f][i].ts < seen[f] - Window["wind"]
    BY <2>1, <2>3 DEF Kept
  <2>5. added[f][i].ts \in Int
    <3>1. added[f][i] \in Entries
      BY <2>1, <2>2, ElementOfSeq
    <3>2. QED
      BY <3>1 DEF Entries
  <2>6. Window["wind"] \in Int
    BY DEF Wind!WindAssumption
  <2>7. QED
    BY <2>1, <2>4, <2>5, <2>6
<1>3. QED
  BY <1>1, <1>2

\* No sample of the last Window units is ever lost, in whatever order the
\* dateTimes come (evict).
THEOREM RecentSamplesKept ==
  ASSUME Wind!WindAssumption
  PROVE  Wind!Spec => [](Wind!WindTypeOK /\ Wind!RecentIsKept)
<1>1. WindInv => Wind!WindTypeOK /\ Wind!RecentIsKept
  BY WindIsKept
<1>2. QED
  BY <1>1, WindInvariant, PTL

\* What the invariant says of the reports.
LEMMA WindReport ==
  ASSUME Wind!WindAssumption, WindInv
  PROVE  Wind!ReportIsOfTheWindow
<1> SUFFICES ASSUME NEW f \in Wind!Field, Wind!InOrder(f), added[f] # <<>>,
                    added[f][Len(added[f])].ts >= seen[f] - Window["wind"]
             PROVE  LET w == Wind!Within(f, seen[f]) IN
                    Wind!Reported(f) = IF w[Len(w)].ts - w[1].ts < MinCoverage THEN None
                                  ELSE IF f = "windSpeed" THEN <<Wind!SumOf(w), Len(w)>>
                                  ELSE Wind!Highest(w)
  BY DEF Wind!ReportIsOfTheWindow
<1> DEFINE a == added[f]
           s == windData[f]
           t == seen[f]
           N == Len(a)
           m == N - Len(s) + 1
           I == {i \in DOMAIN a : a[i].ts >= t - Window["wind"]}
<1>1. Kept(a, s, t) /\ t \in Int /\ Window["wind"] \in Int
  BY DEF WindInv, Wind!WindAssumption
<1>2. /\ a \in Seq(Entries) /\ N \in Nat /\ DOMAIN a = 1..N
      /\ s \in Seq(Entries) /\ Len(s) \in Nat \ {0} /\ Len(s) <= N
      /\ s = SubSeq(a, m, N)
  <2>1. a \in Seq(Entries) /\ s \in Seq(Entries) /\ s # <<>> /\ Len(s) <= N
    BY <1>1 DEF Kept
  <2>2. s = SubSeq(a, m, N)
    BY <1>1 DEF Kept
  <2>3. N \in Nat /\ DOMAIN a = 1..N /\ Len(s) \in Nat \ {0}
    BY <2>1, LenProperties, EmptySeq
  <2>4. QED
    BY <2>1, <2>2, <2>3
<1>3. \A i \in 1..N : a[i].ts \in Int
  <2>1. \A i \in 1..N : a[i] \in Entries
    BY <1>2, ElementOfSeq
  <2>2. QED
    BY <2>1 DEF Entries
<1>4. \A i, j \in 1..N : i < j => a[i].ts <= a[j].ts
  BY <1>2 DEF Wind!InOrder
<1>5. /\ \A i \in 1..(m - 1) : a[i].ts < t - Window["wind"]
      /\ Len(s) > 1 => a[m].ts >= t - Window["wind"]
  <2>1. m - 1 = N - Len(s)
    BY <1>2
  <2>2. QED
    BY <1>1, <2>1 DEF Kept
<1>6. a[N].ts >= t - Window["wind"]
  OBVIOUS
<1> HIDE DEF a, s, t, N
<1>7. m \in 1..(N + 1) /\ m \in 1..N
  BY <1>2
<1>8. a[m].ts >= t - Window["wind"]
  <2>1. Len(s) = 1 => m = N
    BY <1>2
  <2>2. QED
    BY <1>2, <1>5, <1>6, <2>1
<1>9. I = m..N
  <2>1. ASSUME NEW i \in 1..N, a[i].ts >= t - Window["wind"]
        PROVE  i \in m..N
    <3>1. ~ (i \in 1..(m - 1))
      BY <1>1, <1>3, <1>5, <2>1
    <3>2. QED
      BY <1>7, <3>1
  <2>2. ASSUME NEW i \in m..N
        PROVE  i \in 1..N /\ a[i].ts >= t - Window["wind"]
    <3>1. i \in 1..N /\ (i = m \/ m < i)
      BY <1>7
    <3>2. a[m].ts <= a[i].ts /\ a[m].ts \in Int /\ a[i].ts \in Int
      BY <1>3, <1>4, <1>7, <3>1
    <3>3. QED
      BY <1>1, <1>8, <3>1, <3>2
  <2>3. QED
    BY <1>2, <2>1, <2>2
<1>10. Wind!Within(f, t) = s
  <2>1. KeptAt(a, m..N) = SubSeq(a, m, N)
    BY <1>2, <1>7, KeptAtSuffix DEF N
  <2>2. Wind!Within(f, t) = KeptAt(a, I)
    BY WindHelpers DEF Wind!Within, a
  <2>3. QED
    BY <1>2, <1>9, <2>1, <2>2
<1>11. Wind!Span(s) = s[Len(s)].ts - s[1].ts
  <2>1. \A i \in 1..Len(s) : s[i].ts \in Int
    <3>1. \A i \in 1..Len(s) : s[i] \in Entries
      BY <1>2, ElementOfSeq
    <3>2. QED
      BY <3>1 DEF Entries
  <2>2. CASE Len(s) = 1
    BY <1>2, <2>1, <2>2 DEF Wind!Span
  <2>3. CASE Len(s) # 1
    BY <1>2, <2>3 DEF Wind!Span
  <2>4. QED
    BY <2>2, <2>3
<1>12. Wind!Reported(f) = IF Wind!Span(s) < MinCoverage THEN None
                     ELSE IF f = "windSpeed" THEN <<Wind!SumOf(s), Len(s)>>
                     ELSE Wind!Highest(s)
  BY DEF Wind!Reported, s
<1>13. QED
  BY <1>10, <1>11, <1>12 DEF t

\* As long as the dateTimes come in order and no packet is older than the
\* window, the mean and the maximum are of exactly the samples of the window
\* that ended with the last packet, and are given only if these cover
\* MinCoverage (evict, get_wind_avg, get_gust_max).
THEOREM WindIsOfTheWindow ==
  ASSUME Wind!WindAssumption
  PROVE  Wind!Spec => []Wind!ReportIsOfTheWindow
<1>1. WindInv => Wind!ReportIsOfTheWindow
  BY WindReport
<1>2. QED
  BY <1>1, WindInvariant, PTL
-----------------------------------------------------------------------------
(* Counting in a sequence.                                                 *)

\* How often t is in q.
Places(q, t) == {j \in DOMAIN q : q[j] = t}
Count(q, t) == Cardinality(Places(q, t))

\* The module of the log counts as this one does.
LEMMA SameCount ==
  ASSUME NEW q, NEW t
  PROVE  Lightning!Cardinality({j \in DOMAIN q : q[j] = t}) = Count(q, t)
<1>1. \A S : Lightning!Cardinality(S) = Cardinality(S)
  BY DEF Lightning!Cardinality, Cardinality
<1>2. QED
  BY <1>1 DEF Count, Places

\* A count is a number.
LEMMA CountFacts ==
  ASSUME NEW q \in Seq(Int), NEW t
  PROVE  /\ IsFiniteSet(Places(q, t)) /\ Count(q, t) \in Nat
         /\ Places(q, t) \subseteq 1..Len(q)
<1>1. Len(q) \in Nat /\ Places(q, t) \in SUBSET (1..Len(q))
  BY DEF Places
<1>2. IsFiniteSet(Places(q, t)) /\ Cardinality(Places(q, t)) \in 0..Len(q)
  BY <1>1, PositionsFinite
<1>3. QED
  BY <1>1, <1>2 DEF Count

\* With x at its end, a sequence has one x more and of all else as many.
LEMMA CountAppend ==
  ASSUME NEW q \in Seq(Int), NEW x \in Int, NEW t
  PROVE  Count(Append(q, x), t) = IF t = x THEN Count(q, t) + 1 ELSE Count(q, t)
<1> DEFINE r == Append(q, x)
           n == Len(q)
<1>1. /\ n \in Nat /\ DOMAIN q = 1..n /\ DOMAIN r = 1..(n + 1)
      /\ \A j \in 1..n : r[j] = q[j]
      /\ r[n + 1] = x
  BY AppendFacts
<1>2. IsFiniteSet(Places(q, t)) /\ n + 1 \notin Places(q, t)
  <2>1. IsFiniteSet(Places(q, t)) /\ Places(q, t) \subseteq 1..n
    BY CountFacts
  <2>2. n + 1 \notin 1..n
    BY <1>1
  <2>3. QED
    BY <2>1, <2>2, Zenon
<1> HIDE DEF n, r
<1>3. CASE t = x
  <2>1. Places(r, t) = Places(q, t) \cup {n + 1}
    BY <1>1, <1>3 DEF Places
  <2>2. QED
    BY <1>2, <1>3, <2>1, FS_AddElement DEF Count, r
<1>4. CASE t # x
  <2>1. Places(r, t) = Places(q, t)
    BY <1>1, <1>4 DEF Places
  <2>2. QED
    BY <1>4, <2>1 DEF Count, r
<1>5. QED
  BY <1>3, <1>4

\* What is not among the first elements is in the rest as often.
LEMMA CountSuffix ==
  ASSUME NEW q \in Seq(Int), NEW m \in 1..(Len(q) + 1), NEW t,
         \A j \in 1..(m - 1) : q[j] # t
  PROVE  Count(q, t) <= Count(SubSeq(q, m, Len(q)), t)
<1> DEFINE n == Len(q)
           e == SubSeq(q, m, n)
           f == [i \in Places(q, t) |-> i - m + 1]
<1>1. /\ e \in Seq(Int) /\ DOMAIN e = 1..(n - m + 1)
      /\ \A k \in 1..(n - m + 1) : e[k] = q[m + k - 1]
  BY SuffixFacts
<1>2. n \in Nat /\ m \in Int /\ 1 <= m /\ DOMAIN q = 1..n
  OBVIOUS
<1> HIDE DEF n, e
<1>3. ASSUME NEW i \in Places(q, t)
      PROVE  i \in Int /\ i - m + 1 \in Places(e, t)
  <2>1. i \in 1..n /\ q[i] = t
    BY <1>2 DEF Places
  <2>2. i \in m..n
    BY <1>2, <2>1
  <2>3. i - m + 1 \in 1..(n - m + 1) /\ m + (i - m + 1) - 1 = i
    BY <1>2, <2>2
  <2>4. e[i - m + 1] = t
    BY <1>1, <2>1, <2>3
  <2>5. QED
    BY <1>1, <2>2, <2>3, <2>4 DEF Places
<1>4. f \in [Places(q, t) -> Places(e, t)]
  BY <1>3
<1>5. \A i, k \in Places(q, t) : f[i] = f[k] => i = k
  BY <1>2, <1>3
<1>6. f \in Injection(Places(q, t), Places(e, t))
  BY <1>4, <1>5 DEF Injection, IsInjective
<1>7. IsFiniteSet(Places(e, t))
  BY <1>1, CountFacts
<1> HIDE DEF f
<1>8. QED
  BY <1>6, <1>7, FS_Injection DEF Count, e, n
-----------------------------------------------------------------------------
(* The lightning strikes.                                                  *)

\* A log holds times that a packet of then or now may have carried.
Logged(q) ==
  /\ q \in Seq(Int)
  /\ \A i \in 1..Len(q) : q[i] \in -Skew..now + Skew

\* Eviction leaves the end of the log, and all of the strikes of the window.
LEMMA LogEvictFacts ==
  ASSUME NEW q, Logged(q), now \in Int, Window["lightning"] \in Int
  PROVE  /\ Logged(Lightning!Evict(q))
         /\ Len(Lightning!Evict(q)) <= Len(q)
         /\ \A t \in Int : t >= now - Window["lightning"] => Count(q, t) <= Count(Lightning!Evict(q), t)
<1> DEFINE n == Len(q)
           e == Lightning!Evict(q)
           old == {i \in DOMAIN q : q[i] < now - Window["lightning"]}
<1>1. /\ q \in Seq(Int) /\ n \in Nat /\ DOMAIN q = 1..n
      /\ \A j \in 1..n : q[j] \in Int /\ q[j] \in -Skew..now + Skew
  BY DEF Logged
<1>2. e = DropLeading(q, old)
  BY DEF Lightning!Evict, Lightning!DropLeading, DropLeading
<1> HIDE DEF old, e
<1>3. PICK first \in 1..(n + 1) :
        /\ DropLeading(q, old) = SubSeq(q, first, n)
        /\ \A j \in 1..(first - 1) : j \in 1..n /\ j \in old
        /\ first # n + 1 => first \notin old
  BY <1>1, DropLeadingFacts
<1> HIDE DEF n
<1>4. e = SubSeq(q, first, n)
  BY <1>2, <1>3
<1>5. \A j \in 1..(first - 1) : j \in 1..n /\ q[j] < now - Window["lightning"]
  BY <1>3 DEF old
<1>6. /\ e \in Seq(Int) /\ Len(e) = n - first + 1
      /\ \A i \in 1..(n - first + 1) :
           first + i - 1 \in 1..n /\ e[i] = q[first + i - 1]
  BY <1>1, <1>3, <1>4, SuffixFacts DEF n
<1>7. Logged(e)
  BY <1>1, <1>6 DEF Logged
<1>8. Len(e) <= n
  BY <1>1, <1>3, <1>6
<1>9. ASSUME NEW t \in Int, t >= now - Window["lightning"]
      PROVE  Count(q, t) <= Count(e, t)
  <2>1. \A j \in 1..(first - 1) : q[j] # t
    BY <1>1, <1>5, <1>9
  <2>2. QED
    BY <1>1, <1>3, <1>4, <2>1, CountSuffix DEF n
<1>10. QED
  BY <1>7, <1>8, <1>9 DEF e, n

\* Every variable is in its range, and no strike is known twice.
Ranges ==
  /\ now \in 0..MaxTime["lightning"]
  /\ strikes \in 0..MaxStrikes
  /\ counter \in 0..strikes
  /\ losses \in 0..MaxLoss
  /\ lastCount \in 0..MaxStrikes \cup {None}
  /\ unseen \in Nat /\ known \in Nat
  /\ known + unseen <= strikes
  /\ clean \in BOOLEAN

\* The counter has risen by no more than the strikes the service has not seen,
\* and by just these if it was not reset.
Risen ==
  lastCount # None =>
    /\ counter <= lastCount + unseen
    /\ clean => counter = lastCount + unseen

\* Each packet that brought strikes within the window has left one in the log.
Traced ==
  \A t \in Int : t >= now - Window["lightning"] => Count(traces, t) <= Count(strikeData, t)

\* Before its first packet the service knows of no strike.
Fresh == lastCount = None => known = 0

\* The inductive invariant.
LightningInv ==
  /\ Ranges /\ Fresh /\ Risen /\ Traced
  /\ Logged(strikeData) /\ Logged(traces)
  /\ Len(strikeData) <= known

\* What the assumption says of the constants.
LEMMA LightningConstants ==
  ASSUME Lightning!LightningAssumption
  PROVE  /\ Window["lightning"] \in Nat \ {0} /\ MaxTime["lightning"] \in Nat /\ MaxStrikes \in Nat
         /\ MaxLoss \in Nat /\ None \notin Nat /\ Skew \in Nat
BY DEF Lightning!LightningAssumption

\* The empty log satisfies the invariant.
LEMMA LightningInit ==
  ASSUME Lightning!LightningAssumption
  PROVE  Lightning!Init => LightningInv
<1> SUFFICES ASSUME Lightning!Init PROVE LightningInv
  OBVIOUS
<1>1. /\ now = 0 /\ counter = 0 /\ strikes = 0 /\ losses = 0 /\ lastCount = None
      /\ strikeData = <<>> /\ unseen = 0 /\ clean = TRUE /\ traces = <<>> /\ known = 0
  BY DEF Lightning!Init
<1>2. Ranges
  BY <1>1, LightningConstants DEF Ranges
<1>3. <<>> \in Seq(Int) /\ Len(<<>>) = 0
  BY EmptySeq
<1>4. Logged(strikeData) /\ Logged(traces)
  BY <1>1, <1>3 DEF Logged
<1>5. Traced
  <2>1. \A t \in Int : Count(strikeData, t) \in Nat /\ Count(traces, t) = Count(strikeData, t)
    BY <1>1, <1>3, CountFacts
  <2>2. QED
    BY <2>1 DEF Traced
<1>6. QED
  BY <1>1, <1>2, <1>3, <1>4, <1>5 DEF LightningInv, Fresh, Risen

\* A packet's time at the end of a log.
LEMMA LoggedAppend ==
  ASSUME NEW q, Logged(q), NEW ts \in now - Skew..now + Skew, now \in Nat, Skew \in Nat
  PROVE  Logged(Append(q, ts))
<1>1. /\ q \in Seq(Int) /\ Len(q) \in Nat
      /\ \A i \in 1..Len(q) : q[i] \in -Skew..now + Skew
  BY DEF Logged
<1>2. ts \in Int /\ ts \in -Skew..now + Skew
  OBVIOUS
<1>3. /\ Append(q, ts) \in Seq(Int) /\ Len(Append(q, ts)) = Len(q) + 1
      /\ \A i \in 1..Len(q) : Append(q, ts)[i] = q[i]
      /\ Append(q, ts)[Len(q) + 1] = ts
  BY <1>1, <1>2, AppendProperties
<1>4. \A i \in 1..(Len(q) + 1) : i = Len(q) + 1 \/ i \in 1..Len(q)
  BY <1>1
<1>5. QED
  BY <1>1, <1>2, <1>3, <1>4 DEF Logged

\* A strike keeps the invariant.
LEMMA StrikeKeeps ==
  ASSUME Lightning!LightningAssumption, LightningInv, Lightning!Strike
  PROVE  LightningInv'
<1>1. /\ strikes < MaxStrikes /\ strikes' = strikes + 1 /\ counter' = counter + 1
      /\ unseen' = unseen + 1
      /\ UNCHANGED <<now, losses, lastCount, strikeData, clean, traces, known>>
  BY DEF Lightning!Strike
<1>2. Ranges /\ Risen /\ MaxStrikes \in Nat /\ None \notin Nat
  BY LightningConstants DEF LightningInv
<1>3. Ranges'
  BY <1>1, <1>2 DEF Ranges
<1>4. Risen'
  BY <1>1, <1>2 DEF Ranges, Risen
<1>5. Logged(strikeData)' /\ Logged(traces)' /\ Traced' /\ Len(strikeData') <= known'
  BY <1>1 DEF LightningInv, Logged, Traced, Count, Places
<1>6. Fresh'
  BY <1>1 DEF LightningInv, Fresh
<1>7. QED
  BY <1>3, <1>4, <1>5, <1>6 DEF LightningInv

\* A reset of the station's counter keeps the invariant.
LEMMA CounterResetKeeps ==
  ASSUME Lightning!LightningAssumption, LightningInv, Lightning!CounterReset
  PROVE  LightningInv'
<1>1. /\ losses < MaxLoss /\ losses' = losses + 1 /\ counter' = 0 /\ clean' = FALSE
      /\ UNCHANGED <<now, strikes, lastCount, strikeData, unseen, traces, known>>
  BY DEF Lightning!CounterReset
<1>2. /\ Ranges /\ Risen /\ MaxStrikes \in Nat /\ MaxLoss \in Nat
      /\ None \notin Nat
  BY LightningConstants DEF LightningInv
<1>3. Ranges'
  <2>1. strikes \in 0..MaxStrikes /\ 0 \in 0..strikes
    BY <1>2 DEF Ranges
  <2>2. losses' \in 0..MaxLoss
    BY <1>1, <1>2 DEF Ranges
  <2>3. QED
    BY <1>1, <1>2, <2>1, <2>2 DEF Ranges
<1>4. Risen'
  BY <1>1, <1>2 DEF Ranges, Risen
<1>5. Logged(strikeData)' /\ Logged(traces)' /\ Traced' /\ Len(strikeData') <= known'
  BY <1>1 DEF LightningInv, Logged, Traced, Count, Places
<1>6. Fresh'
  BY <1>1 DEF LightningInv, Fresh
<1>7. QED
  BY <1>3, <1>4, <1>5, <1>6 DEF LightningInv

\* The passing of time keeps the invariant: the window only moves on.
LEMMA LightningTickKeeps ==
  ASSUME Lightning!LightningAssumption, LightningInv, Lightning!Tick
  PROVE  LightningInv'
<1>1. /\ now < MaxTime["lightning"] /\ now' = now + 1
      /\ UNCHANGED <<counter, strikes, losses, lastCount, strikeData, unseen, clean, traces, known>>
  BY DEF Lightning!Tick
<1>2. /\ Ranges /\ Risen /\ MaxTime["lightning"] \in Nat /\ Window["lightning"] \in Int
      /\ Skew \in Nat
  BY LightningConstants DEF LightningInv
<1>3. /\ now \in Int /\ now' \in 0..MaxTime["lightning"]
      /\ -Skew..now + Skew \subseteq -Skew..now' + Skew
  BY <1>1, <1>2 DEF Ranges
<1>4. Ranges'
  BY <1>1, <1>2, <1>3 DEF Ranges
<1>5. Risen'
  BY <1>1, <1>2 DEF Risen
<1>6. Logged(strikeData)' /\ Logged(traces)' /\ Len(strikeData') <= known'
  BY <1>1, <1>3 DEF LightningInv, Logged
<1>7. Traced'
  <2>1. \A t \in Int : t >= now' - Window["lightning"] => t >= now - Window["lightning"]
    BY <1>1, <1>2, <1>3
  <2>2. \A t \in Int : t >= now' - Window["lightning"] => Count(traces, t) <= Count(strikeData, t)
    BY <2>1 DEF LightningInv, Traced
  <2>3. QED
    BY <1>1, <2>2 DEF Traced, Count, Places
<1>8. Fresh'
  BY <1>1 DEF LightningInv, Fresh
<1>9. QED
  BY <1>4, <1>5, <1>6, <1>7, <1>8 DEF LightningInv

\* A restart of the service keeps the invariant: all it knew is gone.
LEMMA RestartKeeps ==
  ASSUME Lightning!LightningAssumption, LightningInv, Lightning!Restart
  PROVE  LightningInv'
<1>1. /\ losses < MaxLoss /\ losses' = losses + 1 /\ lastCount' = None
      /\ strikeData' = <<>> /\ traces' = <<>> /\ known' = 0
      /\ UNCHANGED <<now, counter, strikes, unseen, clean>>
  BY DEF Lightning!Restart
<1>2. Ranges /\ MaxLoss \in Nat
  BY LightningConstants DEF LightningInv
<1>3. Ranges'
  BY <1>1, <1>2 DEF Ranges
<1>4. Risen'
  BY <1>1 DEF Risen
<1>5. <<>> \in Seq(Int) /\ Len(<<>>) = 0
  BY EmptySeq
<1>6. Logged(strikeData)' /\ Logged(traces)' /\ Len(strikeData') <= known'
  BY <1>1, <1>5 DEF Logged
<1>7. Traced'
  <2>1. \A t \in Int : Count(<<>>, t) \in Nat
    BY <1>5, CountFacts
  <2>2. \A t \in Int : Count(<<>>, t) <= Count(<<>>, t)
    BY <2>1
  <2>3. QED
    BY <1>1, <2>2 DEF Traced, Count, Places
<1>8. Fresh'
  BY <1>1 DEF Fresh
<1>9. QED
  BY <1>3, <1>4, <1>6, <1>7, <1>8 DEF LightningInv

\* A packet keeps the invariant (process_packet): it logs a strike only if the
\* counter has risen, and then there was one.
LEMMA LightningPacketKeeps ==
  ASSUME Lightning!LightningAssumption, LightningInv, Lightning!Packet
  PROVE  LightningInv'
<1> DEFINE e == Lightning!Evict(strikeData)
           rises == lastCount # None /\ counter > lastCount
           brings == lastCount # None /\ clean /\ unseen > 0
<1>1. PICK ts \in now - Skew..now + Skew :
        /\ strikeData' = (IF rises THEN Append(e, ts) ELSE strikeData)
        /\ traces' = (IF brings THEN Append(traces, ts) ELSE traces)
        /\ lastCount' = counter /\ unseen' = 0 /\ clean' = TRUE
        /\ known' = (IF lastCount = None THEN 0 ELSE known + unseen)
        /\ UNCHANGED <<now, counter, strikes, losses>>
  BY DEF Lightning!Packet, Lightning!Rises
<1>2. /\ Ranges /\ Fresh /\ Risen /\ Traced /\ Logged(strikeData) /\ Logged(traces)
      /\ Len(strikeData) <= known
  BY DEF LightningInv
<1>3. /\ MaxStrikes \in Nat /\ MaxTime["lightning"] \in Nat /\ None \notin Nat /\ Skew \in Nat
      /\ Window["lightning"] \in Nat \ {0}
  BY LightningConstants
<1>4. /\ now \in Nat /\ now \in Int /\ ts \in Int /\ strikes \in Int /\ counter \in Int
      /\ strikes <= MaxStrikes
      /\ unseen \in Nat /\ known \in Nat /\ known + unseen <= strikes
      /\ lastCount # None => lastCount \in Nat
  BY <1>2, <1>3 DEF Ranges
<1>5. /\ Logged(e) /\ Len(e) <= Len(strikeData)
      /\ \A t \in Int : t >= now - Window["lightning"] => Count(strikeData, t) <= Count(e, t)
  BY <1>2, <1>3, <1>4, LogEvictFacts
<1>6. /\ strikeData \in Seq(Int) /\ traces \in Seq(Int) /\ e \in Seq(Int)
      /\ Len(strikeData) \in Nat /\ Len(e) \in Nat
  BY <1>2, <1>5 DEF Logged
<1> HIDE DEF e
<1>7. Ranges'
  BY <1>1, <1>2, <1>3, <1>4 DEF Ranges
<1>8. Risen'
  BY <1>1, <1>4 DEF Risen
<1>9. Logged(strikeData)'
  <2>1. Logged(Append(e, ts))
    BY <1>3, <1>4, <1>5, LoggedAppend
  <2>2. QED
    BY <1>1, <1>2, <2>1 DEF Logged
<1>10. Logged(traces)'
  <2>1. Logged(Append(traces, ts))
    BY <1>2, <1>3, <1>4, LoggedAppend
  <2>2. QED
    BY <1>1, <1>2, <2>1 DEF Logged
<1>11. Len(strikeData') <= known'
  <2>1. CASE rises
    <3>1. unseen > 0
      BY <1>2, <1>4, <2>1 DEF Risen
    <3>2. Len(strikeData') = Len(e) + 1
      BY <1>1, <1>4, <1>6, <2>1, AppendProperties
    <3>3. known' = known + unseen
      BY <1>1, <2>1
    <3>4. QED
      BY <1>2, <1>4, <1>5, <1>6, <3>1, <3>2, <3>3
  <2>2. CASE ~ rises /\ lastCount # None
    BY <1>1, <1>2, <1>4, <1>6, <2>2
  <2>3. CASE lastCount = None
    <3>1. strikeData' = strikeData /\ known' = 0 /\ Len(strikeData) = 0
      BY <1>1, <1>2, <1>6, <2>3 DEF Fresh
    <3>2. QED
      BY <3>1
  <2>4. QED
    BY <2>1, <2>2, <2>3
<1>12. Traced'
  <2>1. brings => rises
    BY <1>2, <1>4 DEF Risen
  <2>2. ASSUME NEW t \in Int, t >= now - Window["lightning"]
        PROVE  Count(traces', t) <= Count(strikeData', t)
    <3>1. /\ Count(traces, t) <= Count(strikeData, t) /\ Count(strikeData, t) <= Count(e, t)
          /\ Count(traces, t) \in Nat /\ Count(strikeData, t) \in Nat /\ Count(e, t) \in Nat
      BY <1>2, <1>5, <1>6, <2>2, CountFacts DEF Traced
    <3>2. Count(Append(e, ts), t) = IF t = ts THEN Count(e, t) + 1 ELSE Count(e, t)
      BY <1>4, <1>6, CountAppend
    <3>3. Count(Append(traces, ts), t)
            = IF t = ts THEN Count(traces, t) + 1 ELSE Count(traces, t)
      BY <1>4, <1>6, CountAppend
    <3>4. QED
      BY <1>1, <2>1, <3>1, <3>2, <3>3
  <2>3. \A t \in Int : t >= now' - Window["lightning"] => Count(traces', t) <= Count(strikeData', t)
    BY <1>1, <2>2
  <2>4. QED
    BY <2>3 DEF Traced, Count, Places
<1>13. Fresh'
  <2>1. counter \in Nat
    BY <1>2, <1>4 DEF Ranges
  <2>2. QED
    BY <1>1, <1>3, <2>1 DEF Fresh
<1>14. QED
  BY <1>7, <1>8, <1>9, <1>10, <1>11, <1>12, <1>13 DEF LightningInv

\* Every step keeps the invariant.
LEMMA LightningNext ==
  ASSUME Lightning!LightningAssumption
  PROVE  LightningInv /\ [Lightning!Next]_Lightning!vars => LightningInv'
<1> SUFFICES ASSUME LightningInv, [Lightning!Next]_Lightning!vars
             PROVE  LightningInv'
  OBVIOUS
<1>1. CASE Lightning!Strike
  BY <1>1, StrikeKeeps
<1>2. CASE Lightning!CounterReset
  BY <1>2, CounterResetKeeps
<1>3. CASE Lightning!Tick
  BY <1>3, LightningTickKeeps
<1>4. CASE Lightning!Packet
  BY <1>4, LightningPacketKeeps
<1>5. CASE Lightning!Restart
  BY <1>5, RestartKeeps
<1>6. CASE UNCHANGED Lightning!vars
  <2>1. UNCHANGED <<now, counter, strikes, losses, lastCount, strikeData, unseen, clean,
                    traces, known>>
    BY <1>6 DEF Lightning!vars
  <2>2. Ranges' /\ Fresh' /\ Risen'
    BY <2>1 DEF LightningInv, Ranges, Fresh, Risen
  <2>3. Logged(strikeData)' /\ Logged(traces)' /\ Traced' /\ Len(strikeData') <= known'
    BY <2>1 DEF LightningInv, Logged, Traced, Count, Places
  <2>4. QED
    BY <2>2, <2>3 DEF LightningInv
<1>7. QED
  BY <1>1, <1>2, <1>3, <1>4, <1>5, <1>6 DEF Lightning!Next

\* What the invariant says of the counter and the log.
LEMMA LightningFacts ==
  ASSUME Lightning!LightningAssumption, LightningInv
  PROVE  /\ Lightning!LightningTypeOK /\ Lightning!NoPhantomStrike
         /\ Lightning!StrikesLeaveATrace
<1>1. Lightning!LightningTypeOK
  <2>1. Ranges /\ MaxStrikes \in Nat
    BY LightningConstants DEF LightningInv
  <2>2. unseen \in 0..strikes /\ known \in 0..strikes
    BY <2>1 DEF Ranges
  <2>3. /\ DOMAIN strikeData = 1..Len(strikeData)
        /\ \A i \in 1..Len(strikeData) : strikeData[i] \in -Skew..now + Skew
    BY DEF LightningInv, Logged
  <2>4. QED
    BY <2>1, <2>2, <2>3 DEF Ranges, Lightning!LightningTypeOK
<1>2. Lightning!NoPhantomStrike
  BY DEF LightningInv, Lightning!NoPhantomStrike, Lightning!History
<1>3. Lightning!StrikesLeaveATrace
  <2> SUFFICES ASSUME NEW i \in DOMAIN traces,
                      traces[i] >= now - Window["lightning"]
               PROVE  Lightning!Cardinality({j \in DOMAIN strikeData : strikeData[j] = traces[i]})
                        >= Lightning!Cardinality({j \in DOMAIN traces :
                                                    traces[j] = traces[i]})
    BY DEF Lightning!StrikesLeaveATrace, Lightning!History
  <2> DEFINE t == traces[i]
  <2>1. t \in Int
    BY DEF LightningInv, Logged
  <2>2. Count(traces, t) <= Count(strikeData, t)
    BY <2>1 DEF LightningInv, Traced
  <2>3. strikeData \in Seq(Int) /\ traces \in Seq(Int)
    BY DEF LightningInv, Logged
  <2>4. Count(strikeData, t) \in Nat /\ Count(traces, t) \in Nat
    BY <2>3, CountFacts
  <2>5. /\ Lightning!Cardinality({j \in DOMAIN strikeData : strikeData[j] = t}) = Count(strikeData, t)
        /\ Lightning!Cardinality({j \in DOMAIN traces : traces[j] = t})
             = Count(traces, t)
    BY SameCount DEF Count, Places
  <2>6. QED
    BY <2>2, <2>4, <2>5
<1>4. QED
  BY <1>1, <1>2, <1>3

\* The inductive invariant of the strike log holds throughout.
THEOREM LightningInvariant ==
  ASSUME Lightning!LightningAssumption
  PROVE  Lightning!Spec => []LightningInv
<1>1. Lightning!Init => LightningInv
  BY LightningInit
<1>2. LightningInv /\ [Lightning!Next]_Lightning!vars => LightningInv'
  BY LightningNext
<1>3. QED
  BY <1>1, <1>2, PTL DEF Lightning!Spec

\* The log never holds more strikes than there were, whatever resets and
\* restarts do to the counter (process_packet).
THEOREM NoStrikeIsMadeUp ==
  ASSUME Lightning!LightningAssumption
  PROVE  Lightning!Spec
           => [](Lightning!LightningTypeOK /\ Lightning!NoPhantomStrike)
<1>1. LightningInv => Lightning!LightningTypeOK /\ Lightning!NoPhantomStrike
  BY LightningFacts
<1>2. QED
  BY <1>1, LightningInvariant, PTL

\* A packet that brings strikes leaves one in the log until its dateTime is out
\* of the window, in whatever order of their dateTimes packets come (evict).
THEOREM EveryStrikeLeavesATrace ==
  ASSUME Lightning!LightningAssumption
  PROVE  Lightning!Spec => []Lightning!StrikesLeaveATrace
<1>1. LightningInv => Lightning!StrikesLeaveATrace
  BY LightningFacts
<1>2. QED
  BY <1>1, LightningInvariant, PTL
-----------------------------------------------------------------------------
(* The samples of the sky.                                                 *)

Samples == [ts : Int, kc : Kc]

\* The samples s of the buffer are the last of those taken, a, and are those
\* in the window of the newest.
InWindow(a, s) ==
  /\ a \in Seq(Samples)
  /\ \A i, j \in 1..Len(a) : i < j => a[i].ts <= a[j].ts
  /\ \E m \in 1..(Len(a) + 1) :
       /\ s = SubSeq(a, m, Len(a))
       /\ \A i \in 1..(m - 1) : a[i].ts < a[Len(a)].ts - Window["sky"]
       /\ \A i \in m..Len(a) : a[i].ts >= a[Len(a)].ts - Window["sky"]

\* A sample of now that is appended, and what is then too old pruned, leaves
\* those in the window of now.
LEMMA SampleKeeps ==
  ASSUME NEW a, NEW s, NEW x \in Samples, InWindow(a, s), x.ts = now, now \in Int,
         \A i \in 1..Len(a) : a[i].ts <= now, Window["sky"] \in Nat
  PROVE  InWindow(Append(a, x), Sky!Prune(Append(s, x)))
<1> DEFINE N == Len(a)
           b == Append(a, x)
           r == Append(s, x)
           old == {i \in DOMAIN r : r[i].ts < now - Window["sky"]}
           e == Sky!Prune(r)
<1>1. /\ a \in Seq(Samples) /\ N \in Nat
      /\ \A i, j \in 1..N : i < j => a[i].ts <= a[j].ts
  BY DEF InWindow
<1>2. PICK m \in 1..(N + 1) :
        /\ s = SubSeq(a, m, N)
        /\ \A i \in 1..(m - 1) : a[i].ts < a[N].ts - Window["sky"]
        /\ \A i \in m..N : a[i].ts >= a[N].ts - Window["sky"]
  BY DEF InWindow
<1>3. /\ s \in Seq(Samples) /\ Len(s) = N - m + 1
      /\ \A i \in 1..(N - m + 1) : m + i - 1 \in 1..N /\ s[i] = a[m + i - 1]
  BY <1>1, <1>2, SuffixFacts
<1>4. \A i \in 1..N : a[i] \in Samples /\ a[i].ts \in Int
  <2>1. \A i \in 1..N : a[i] \in Samples
    BY <1>1, ElementOfSeq
  <2>2. QED
    BY <2>1 DEF Samples
<1> HIDE DEF N
<1>5. /\ b \in Seq(Samples) /\ Len(b) = N + 1 /\ b[N + 1] = x
      /\ \A i \in 1..N : b[i] = a[i]
  BY <1>1, AppendProperties DEF N
<1>6. /\ r \in Seq(Samples) /\ Len(r) = N - m + 2 /\ r[N - m + 2] = x
      /\ \A i \in 1..(N - m + 1) : r[i] = s[i]
      /\ DOMAIN r = 1..(N - m + 2)
  <2>1. /\ r \in Seq(Samples) /\ Len(r) = Len(s) + 1 /\ r[Len(s) + 1] = x
        /\ \A i \in 1..Len(s) : r[i] = s[i]
    BY <1>3, AppendProperties
  <2>2. Len(s) + 1 = N - m + 2 /\ N - m + 1 = Len(s)
    BY <1>1, <1>3
  <2> HIDE DEF r
  <2>3. DOMAIN r = 1..Len(r)
    BY <2>1
  <2>4. QED
    BY <2>1, <2>2, <2>3
<1>7. e = DropLeading(r, old)
  BY DEF Sky!Prune, Sky!DropLeading, DropLeading
<1> HIDE DEF b, r, e, old
<1>8. PICK first \in 1..(Len(r) + 1) :
        /\ DropLeading(r, old) = SubSeq(r, first, Len(r))
        /\ \A j \in 1..(first - 1) : j \in 1..Len(r) /\ j \in old
        /\ first # Len(r) + 1 => first \notin old
  BY <1>6, DropLeadingFacts
<1>9. \A i \in 1..(N - m + 2) : m + i - 1 \in 1..(N + 1) /\ r[i] = b[m + i - 1]
  <2> SUFFICES ASSUME NEW i \in 1..(N - m + 2)
               PROVE  m + i - 1 \in 1..(N + 1) /\ r[i] = b[m + i - 1]
    OBVIOUS
  <2>1. m + i - 1 \in 1..(N + 1)
    BY <1>1
  <2>2. CASE i = N - m + 2
    <3>1. m + i - 1 = N + 1
      BY <1>1, <2>2
    <3>2. QED
      BY <1>5, <1>6, <2>1, <2>2, <3>1
  <2>3. CASE i # N - m + 2
    <3>1. i \in 1..(N - m + 1)
      BY <1>1, <2>3
    <3>2. r[i] = a[m + i - 1] /\ m + i - 1 \in 1..N
      BY <1>3, <1>6, <3>1
    <3>3. QED
      BY <1>5, <2>1, <3>2
  <2>4. QED
    BY <2>2, <2>3
<1>10. first \in 1..(N - m + 2)
  <2> SUFFICES ASSUME first = Len(r) + 1 PROVE FALSE
    BY <1>1, <1>6, <1>8
  <2>1. N - m + 2 \in 1..(first - 1)
    BY <1>1, <1>6
  <2>2. r[N - m + 2].ts < now - Window["sky"]
    BY <1>8, <2>1 DEF old
  <2>3. QED
    BY <1>6, <2>2
<1> DEFINE k == m + first - 1
<1>11. k \in 1..(N + 1)
  BY <1>9, <1>10
<1>12. /\ e \in Seq(Samples) /\ Len(e) = (N + 1) - k + 1
       /\ \A i \in 1..((N + 1) - k + 1) : e[i] = b[k + i - 1]
  <2>1. /\ e \in Seq(Samples) /\ Len(e) = Len(r) - first + 1
        /\ \A i \in 1..(Len(r) - first + 1) :
             first + i - 1 \in 1..Len(r) /\ e[i] = r[first + i - 1]
    BY <1>6, <1>7, <1>8, SuffixFacts
  <2>2. Len(r) - first + 1 = (N + 1) - k + 1
    BY <1>1, <1>6
  <2>3. ASSUME NEW i \in 1..((N + 1) - k + 1)
        PROVE  e[i] = b[k + i - 1]
    <3>1. first + i - 1 \in 1..(N - m + 2) /\ e[i] = r[first + i - 1]
      BY <1>6, <2>1, <2>2
    <3>2. m + (first + i - 1) - 1 = k + i - 1
      BY <1>1
    <3>3. QED
      BY <1>9, <3>1, <3>2
  <2>4. QED
    BY <2>1, <2>2, <2>3
<1>13. e = SubSeq(b, k, N + 1)
  <2> DEFINE M == N + 1
             w == SubSeq(b, k, M)
  <2>1. M = Len(b) /\ k \in 1..(M + 1)
    BY <1>1, <1>5, <1>11
  <2> HIDE DEF k
  <2>2. /\ e \in Seq(Samples) /\ Len(e) = M - k + 1
        /\ \A i \in 1..(M - k + 1) : e[i] = b[k + i - 1]
    BY <1>12, Zenon
  <2> HIDE DEF M
  <2>3. /\ w \in Seq(Samples) /\ Len(w) = M - k + 1
        /\ \A i \in 1..(M - k + 1) : w[i] = b[k + i - 1]
    BY <1>5, <2>1, SuffixFacts
  <2> HIDE DEF w
  <2>4. e = w
    BY <2>2, <2>3, SeqEqual
  <2>5. QED
    BY <2>4 DEF w, M
<1>14. \A i, j \in 1..(N + 1) : i < j => b[i].ts <= b[j].ts
  <2> SUFFICES ASSUME NEW i \in 1..(N + 1), NEW j \in 1..(N + 1), i < j
               PROVE  b[i].ts <= b[j].ts
    OBVIOUS
  <2>1. i \in 1..N
    BY <1>1
  <2>2. j = N + 1 \/ j \in 1..N
    BY <1>1
  <2>3. CASE j = N + 1
    BY <1>5, <2>1, <2>3 DEF N
  <2>4. CASE j \in 1..N
    BY <1>1, <1>5, <2>1, <2>4
  <2>5. QED
    BY <2>2, <2>3, <2>4
<1>15. ASSUME NEW i \in 1..(k - 1)
       PROVE  b[i].ts < b[N + 1].ts - Window["sky"]
  <2>1. CASE i < m
    <3>1. i \in 1..(m - 1) /\ i \in 1..N /\ N \in 1..N
      BY <1>1, <2>1
    <3>2. a[i].ts < a[N].ts - Window["sky"] /\ a[N].ts <= now
      BY <1>2, <3>1 DEF N
    <3>3. b[i].ts = a[i].ts /\ a[i].ts \in Int /\ a[N].ts \in Int
      BY <1>4, <1>5, <3>1
    <3>4. QED
      BY <1>5, <3>2, <3>3
  <2>2. CASE m <= i
    <3> DEFINE j == i - m + 1
    <3>1. j \in 1..(first - 1) /\ m + j - 1 = i /\ j \in 1..(N - m + 2)
      BY <1>1, <1>10, <2>2
    <3> HIDE DEF j
    <3>2. r[j].ts < now - Window["sky"]
      BY <1>8, <3>1 DEF old
    <3>3. r[j] = b[i]
      BY <1>9, <3>1
    <3>4. QED
      BY <1>5, <3>2, <3>3
  <2>3. QED
    BY <1>11, <2>1, <2>2
<1>16. ASSUME NEW i \in k..(N + 1)
       PROVE  b[i].ts >= b[N + 1].ts - Window["sky"]
  <2>1. first \notin old /\ first \in DOMAIN r
    BY <1>1, <1>6, <1>8, <1>10
  <2>2. r[first] = b[k]
    BY <1>9, <1>10
  <2>3. i \in 1..(N + 1) /\ (i = k \/ k < i)
    BY <1>1, <1>11
  <2> HIDE DEF k
  <2>4. \A j \in 1..(N + 1) : b[j].ts \in Int
    <3>1. \A j \in 1..(N + 1) : b[j] \in Samples
      BY <1>5, ElementOfSeq
    <3>2. QED
      BY <3>1 DEF Samples
  <2>5. b[k].ts >= now - Window["sky"]
    BY <1>11, <2>1, <2>2, <2>4 DEF old
  <2>6. b[k].ts <= b[i].ts
    BY <1>11, <1>14, <2>3, <2>4
  <2>7. QED
    BY <1>5, <1>11, <2>3, <2>4, <2>5, <2>6
<1>17. QED
  <2> HIDE DEF k
  <2> DEFINE M == N + 1
  <2>1. M = Len(b)
    BY <1>5
  <2>2. /\ \A i, j \in 1..M : i < j => b[i].ts <= b[j].ts
        /\ k \in 1..(M + 1) /\ e = SubSeq(b, k, M)
        /\ \A i \in 1..(k - 1) : b[i].ts < b[M].ts - Window["sky"]
        /\ \A i \in k..M : b[i].ts >= b[M].ts - Window["sky"]
    BY <1>1, <1>11, <1>13, <1>14, <1>15, <1>16
  <2> HIDE DEF M
  <2>3. InWindow(b, e)
    BY <1>5, <2>1, <2>2 DEF InWindow
  <2>4. QED
    BY <2>3 DEF b, e, r

\* What is in the window is the end of the samples taken, and is theirs of the
\* last Window units.
LEMMA InWindowFacts ==
  ASSUME NEW a, NEW s, InWindow(a, s), Window["sky"] \in Nat
  PROVE  /\ s \in Seq(Samples) /\ Len(s) <= Len(a)
         /\ \A i \in 1..Len(s) : /\ Len(a) - Len(s) + i \in 1..Len(a)
                                 /\ s[i] = a[Len(a) - Len(s) + i]
         /\ s = Sky!KeptAt(a, {i \in DOMAIN a : a[i].ts >= a[Len(a)].ts - Window["sky"]})
<1> DEFINE N == Len(a)
           I == {i \in DOMAIN a : a[i].ts >= a[N].ts - Window["sky"]}
<1>1. a \in Seq(Samples) /\ N \in Nat /\ DOMAIN a = 1..N
  BY DEF InWindow
<1>2. PICK m \in 1..(N + 1) :
        /\ s = SubSeq(a, m, N)
        /\ \A i \in 1..(m - 1) : a[i].ts < a[N].ts - Window["sky"]
        /\ \A i \in m..N : a[i].ts >= a[N].ts - Window["sky"]
  BY DEF InWindow
<1>3. /\ s \in Seq(Samples) /\ Len(s) = N - m + 1
      /\ \A i \in 1..(N - m + 1) : m + i - 1 \in 1..N /\ s[i] = a[m + i - 1]
  BY <1>1, <1>2, SuffixFacts
<1>4. /\ Len(s) <= N
      /\ \A i \in 1..Len(s) : N - Len(s) + i \in 1..N /\ s[i] = a[N - Len(s) + i]
  <2>1. \A i \in 1..Len(s) : m + i - 1 \in 1..N /\ s[i] = a[m + i - 1]
    BY <1>3
  <2>2. Len(s) <= N /\ Len(s) \in Nat
    BY <1>1, <1>3
  <2>3. \A i \in 1..Len(s) : N - Len(s) + i = m + i - 1
    BY <1>1, <1>3, <2>2
  <2>4. QED
    BY <2>1, <2>2, <2>3
<1>5. ASSUME NEW i \in 1..N
      PROVE  i \in m..N <=> a[i].ts >= a[N].ts - Window["sky"]
  <2>1. CASE i \in m..N
    BY <1>2, <2>1
  <2>2. CASE i \notin m..N
    <3>1. i \in 1..(m - 1) /\ N \in 1..N
      BY <1>1, <2>2
    <3>2. a[i].ts < a[N].ts - Window["sky"]
      BY <1>2, <3>1
    <3>3. a[i].ts \in Int /\ a[N].ts \in Int
      <4>1. a[i] \in Samples /\ a[N] \in Samples
        BY <1>1, <3>1, ElementOfSeq
      <4>2. QED
        BY <4>1 DEF Samples
    <3>4. ~ (a[i].ts >= a[N].ts - Window["sky"])
      BY <3>2, <3>3
    <3>5. QED
      BY <2>2, <3>4
  <2>3. QED
    BY <2>1, <2>2
<1>6. I = m..N
  <2>1. \A i \in m..N : i \in 1..N
    BY <1>1
  <2>2. QED
    BY <1>1, <1>5, <2>1
<1>7. s = KeptAt(a, I)
  BY <1>1, <1>2, <1>6, KeptAtSuffix
<1>8. \A q, J : Sky!KeptAt(q, J) = KeptAt(q, J)
  BY DEF Sky!KeptAt, KeptAt, Sky!Rank, Rank, Sky!Cardinality, Cardinality
<1>9. QED
  BY <1>3, <1>4, <1>7, <1>8

\* Of samples there is a weight, and the mean of their indexes is at most 120.
LEMMA WeightFacts ==
  ASSUME NEW s \in Seq(Samples), s # <<>>, Sky!SkyAssumption
  PROVE  /\ Sky!Count(s) \in Int /\ Sky!Count(s) > 0
         /\ Sky!Sum(s) \in Int /\ Sky!Sum(s) <= 120 * Sky!Count(s)
         /\ Sky!Uniform(s) \in BOOLEAN
<1> DEFINE w == [i \in DOMAIN s |-> Sky!Weight(s, i)]
           v == [i \in DOMAIN s |-> Sky!Weight(s, i) * s[i].kc]
           z == [i \in DOMAIN s |-> Sky!Weight(s, i) * s[i].kc * s[i].kc]
           L == Len(s)
<1>1. L \in Nat /\ DOMAIN s = 1..L
  OBVIOUS
<1>2. \A i \in 1..L : s[i].kc \in Int /\ s[i].kc <= 120
  <2>1. \A i \in 1..L : s[i] \in Samples
    BY ElementOfSeq
  <2>2. QED
    <3>1. \A k \in Kc : k \in Int /\ k <= 120
      BY DEF Sky!SkyAssumption
    <3>2. \A i \in 1..L : s[i].kc \in Kc
      BY <2>1 DEF Samples
    <3>3. QED
      BY <3>1, <3>2
<1>3. \A i \in 1..L : Sky!Weight(s, i) \in {1, 2}
  BY DEF Sky!Weight
<1> HIDE DEF L
<1>4. /\ w \in Seq(Int) /\ Len(w) = L /\ \A i \in 1..L : w[i] \in {1, 2}
  <2>1. w \in [1..L -> Int] /\ \A i \in 1..L : w[i] \in {1, 2}
    BY <1>1, <1>3
  <2> HIDE DEF w
  <2>2. QED
    BY <1>1, <2>1
<1>5. /\ v \in Seq(Int) /\ Len(v) = L
      /\ \A i \in 1..L : v[i] <= 120 * w[i]
  <2>1. ASSUME NEW i \in 1..L
        PROVE  v[i] \in Int /\ v[i] <= 120 * w[i]
    <3>1. v[i] = w[i] * s[i].kc
      BY <1>1
    <3>2. w[i] \in {1, 2} /\ s[i].kc \in Int /\ s[i].kc <= 120
      BY <1>2, <1>4
    <3> HIDE DEF v, w
    <3>3. CASE w[i] = 1
      BY <3>1, <3>2, <3>3
    <3>4. CASE w[i] = 2
      BY <3>1, <3>2, <3>4
    <3>5. QED
      BY <3>2, <3>3, <3>4
  <2>2. v \in [1..L -> Int]
    BY <1>1, <2>1
  <2> HIDE DEF v, w
  <2>3. QED
    BY <1>1, <2>1, <2>2
<1>6. z \in Seq(Int)
  <2>1. \A i \in 1..L : Sky!Weight(s, i) * s[i].kc * s[i].kc \in Int
    BY <1>2, <1>3
  <2>2. z \in [1..L -> Int]
    BY <1>1, <2>1
  <2> HIDE DEF z
  <2>3. QED
    BY <1>1, <2>2
<1>7. Sky!Count(s) = Total(w) /\ Sky!Sum(s) = Total(v) /\ Sky!SumOfSquares(s) = Total(z)
  BY DEF Sky!Count, Sky!Sum, Sky!SumOfSquares, Sky!Total, Total
<1> HIDE DEF w, v, z
<1>8. Total(w) \in Int /\ Total(v) \in Int /\ Total(z) \in Int
  BY <1>4, <1>5, <1>6, TotalTyped
<1>9. Total(w) > 0
  <2>1. w # <<>> /\ \A i \in 1..Len(w) : w[i] > 0
    BY <1>1, <1>4 DEF L
  <2>2. QED
    BY <1>4, <2>1, TotalPositive
<1>10. Total(v) <= 120 * Total(w)
  <2>1. 120 \in Int /\ Len(v) = Len(w) /\ \A i \in 1..Len(v) : v[i] <= 120 * w[i]
    BY <1>4, <1>5
  <2>2. QED
    BY <1>4, <1>5, <2>1, TotalBounds
<1>11. Sky!Uniform(s) \in BOOLEAN
  BY <1>7, <1>8 DEF Sky!Uniform
<1>12. QED
  BY <1>7, <1>8, <1>9, <1>10, <1>11

\* The thresholds give each mean its label.
LEMMA RawUniform ==
  ASSUME NEW x \in Int, NEW n \in Int, n > 0
  PROVE  /\ x >= 85 * n => Sky!Raw(x, n, TRUE) = "Clear"
         /\ x >= 70 * n /\ x < 85 * n => Sky!Raw(x, n, TRUE) = "Mostly Clear"
         /\ x >= 50 * n /\ x < 70 * n => Sky!Raw(x, n, TRUE) = "Partly Cloudy"
         /\ x >= 30 * n /\ x < 50 * n => Sky!Raw(x, n, TRUE) = "Mostly Cloudy"
         /\ x < 30 * n => Sky!Raw(x, n, TRUE) = "Cloudy"
<1> DEFINE r == Sky!Raw(x, n, TRUE)
           L1 == "Clear"
           L2 == "Mostly Clear"
           L3 == "Partly Cloudy"
           L4 == "Mostly Cloudy"
           L5 == "Cloudy"
<1>1. r = CASE x >= 85 * n -> L1
            [] x >= 70 * n /\ x < 85 * n -> L2
            [] x >= 50 * n /\ x < 70 * n -> L3
            [] x >= 30 * n /\ x < 50 * n -> L4
            [] x < 30 * n -> L5
  BY DEF Sky!Raw
<1> HIDE DEF r, L1, L2, L3, L4, L5
<1>2. /\ x >= 85 * n => r = L1
      /\ x >= 70 * n /\ x < 85 * n => r = L2
      /\ x >= 50 * n /\ x < 70 * n => r = L3
      /\ x >= 30 * n /\ x < 50 * n => r = L4
      /\ x < 30 * n => r = L5
  BY <1>1
<1>3. QED
  BY <1>2 DEF r, L1, L2, L3, L4, L5

LEMMA RawVariable ==
  ASSUME NEW x \in Int, NEW n \in Int, n > 0
  PROVE  /\ x >= 85 * n => Sky!Raw(x, n, FALSE) = "Mostly Clear"
         /\ x >= 60 * n /\ x < 85 * n => Sky!Raw(x, n, FALSE) = "Partly Cloudy"
         /\ x < 60 * n => Sky!Raw(x, n, FALSE) = "Mostly Cloudy"
<1> DEFINE r == Sky!Raw(x, n, FALSE)
           L1 == "Mostly Clear"
           L2 == "Partly Cloudy"
           L3 == "Mostly Cloudy"
<1>1. r = CASE x >= 85 * n -> L1
            [] x >= 60 * n /\ x < 85 * n -> L2
            [] x < 60 * n -> L3
  BY DEF Sky!Raw
<1> HIDE DEF r, L1, L2, L3
<1>2. /\ x >= 85 * n => r = L1
      /\ x >= 60 * n /\ x < 85 * n => r = L2
      /\ x < 60 * n => r = L3
  BY <1>1
<1>3. QED
  BY <1>2 DEF r, L1, L2, L3

LEMMA RawTyped ==
  ASSUME NEW x \in Int, NEW n \in Int, n > 0, NEW u \in BOOLEAN
  PROVE  Sky!Raw(x, n, u) \in Sky!Labels
<1>1. \/ x >= 85 * n
      \/ x >= 70 * n /\ x < 85 * n
      \/ x >= 50 * n /\ x < 70 * n
      \/ x >= 30 * n /\ x < 50 * n
      \/ x < 30 * n
  OBVIOUS
<1>2. \/ x >= 85 * n
      \/ x >= 60 * n /\ x < 85 * n
      \/ x < 60 * n
  OBVIOUS
<1>3. Sky!Raw(x, n, TRUE) \in Sky!Labels
  BY <1>1, RawUniform, Zenon DEF Sky!Labels
<1>4. Sky!Raw(x, n, FALSE) \in Sky!Labels
  BY <1>2, RawVariable, Zenon DEF Sky!Labels
<1>5. QED
  BY <1>3, <1>4

\* The two tables agree: a label that is kept is that of a mean at most Hyst
\* away.
LEMMA UniformAgrees ==
  ASSUME NEW x \in Int, NEW n \in Int, n > 0, NEW label \in Sky!Labels,
         Sky!Keeps(x, n, TRUE, label)
  PROVE  \E d \in -3..3 : Sky!Raw(x + d * n, n, TRUE) = label
<1>1. CASE label = "Clear"
  <2>1. x >= (85 - 3) * n /\ x < (1000 + 3) * n
    <3> DEFINE kept == Sky!Kept(TRUE, label)
    <3>1. Sky!Kept(TRUE, "Clear") = <<85, 1000>>
      BY DEF Sky!Kept
    <3>2. kept = <<85, 1000>>
      BY <1>1, <3>1, Zenon
    <3>3. x >= (kept[1] - 3) * n /\ x < (kept[2] + 3) * n
      BY DEF Sky!Keeps, Sky!Hyst
    <3> HIDE DEF kept
    <3>4. kept[1] = 85 /\ kept[2] = 1000
      BY <3>2
    <3>5. QED
      BY <3>3, <3>4
  <2>2. \E d \in {-3, 0, 3} : x + d * n >= 85 * n
    BY <2>1
  <2>3. PICK d \in {-3, 0, 3} : x + d * n >= 85 * n
    BY <2>2
  <2>4. x + d * n \in Int /\ d \in -3..3
    BY <2>3
  <2>5. Sky!Raw(x + d * n, n, TRUE) = "Clear"
    BY <2>3, <2>4, RawUniform, Zenon
  <2>6. QED
    BY <1>1, <2>4, <2>5, Zenon
<1>2. CASE label = "Mostly Clear"
  <2>1. x >= (70 - 3) * n /\ x < (85 + 3) * n
    <3> DEFINE kept == Sky!Kept(TRUE, label)
    <3>1. Sky!Kept(TRUE, "Mostly Clear") = <<70, 85>>
      BY DEF Sky!Kept
    <3>2. kept = <<70, 85>>
      BY <1>2, <3>1, Zenon
    <3>3. x >= (kept[1] - 3) * n /\ x < (kept[2] + 3) * n
      BY DEF Sky!Keeps, Sky!Hyst
    <3> HIDE DEF kept
    <3>4. kept[1] = 70 /\ kept[2] = 85
      BY <3>2
    <3>5. QED
      BY <3>3, <3>4
  <2>2. \E d \in {-3, 0, 3} : x + d * n >= 70 * n /\ x + d * n < 85 * n
    BY <2>1
  <2>3. PICK d \in {-3, 0, 3} : x + d * n >= 70 * n /\ x + d * n < 85 * n
    BY <2>2
  <2>4. x + d * n \in Int /\ d \in -3..3
    BY <2>3
  <2>5. Sky!Raw(x + d * n, n, TRUE) = "Mostly Clear"
    BY <2>3, <2>4, RawUniform, Zenon
  <2>6. QED
    BY <1>2, <2>4, <2>5, Zenon
<1>3. CASE label = "Partly Cloudy"
  <2>1. x >= (50 - 3) * n /\ x < (70 + 3) * n
    <3> DEFINE kept == Sky!Kept(TRUE, label)
    <3>1. Sky!Kept(TRUE, "Partly Cloudy") = <<50, 70>>
      BY DEF Sky!Kept
    <3>2. kept = <<50, 70>>
      BY <1>3, <3>1, Zenon
    <3>3. x >= (kept[1] - 3) * n /\ x < (kept[2] + 3) * n
      BY DEF Sky!Keeps, Sky!Hyst
    <3> HIDE DEF kept
    <3>4. kept[1] = 50 /\ kept[2] = 70
      BY <3>2
    <3>5. QED
      BY <3>3, <3>4
  <2>2. \E d \in {-3, 0, 3} : x + d * n >= 50 * n /\ x + d * n < 70 * n
    BY <2>1
  <2>3. PICK d \in {-3, 0, 3} : x + d * n >= 50 * n /\ x + d * n < 70 * n
    BY <2>2
  <2>4. x + d * n \in Int /\ d \in -3..3
    BY <2>3
  <2>5. Sky!Raw(x + d * n, n, TRUE) = "Partly Cloudy"
    BY <2>3, <2>4, RawUniform, Zenon
  <2>6. QED
    BY <1>3, <2>4, <2>5, Zenon
<1>4. CASE label = "Mostly Cloudy"
  <2>1. x >= (30 - 3) * n /\ x < (50 + 3) * n
    <3> DEFINE kept == Sky!Kept(TRUE, label)
    <3>1. Sky!Kept(TRUE, "Mostly Cloudy") = <<30, 50>>
      BY DEF Sky!Kept
    <3>2. kept = <<30, 50>>
      BY <1>4, <3>1, Zenon
    <3>3. x >= (kept[1] - 3) * n /\ x < (kept[2] + 3) * n
      BY DEF Sky!Keeps, Sky!Hyst
    <3> HIDE DEF kept
    <3>4. kept[1] = 30 /\ kept[2] = 50
      BY <3>2
    <3>5. QED
      BY <3>3, <3>4
  <2>2. \E d \in {-3, 0, 3} : x + d * n >= 30 * n /\ x + d * n < 50 * n
    BY <2>1
  <2>3. PICK d \in {-3, 0, 3} : x + d * n >= 30 * n /\ x + d * n < 50 * n
    BY <2>2
  <2>4. x + d * n \in Int /\ d \in -3..3
    BY <2>3
  <2>5. Sky!Raw(x + d * n, n, TRUE) = "Mostly Cloudy"
    BY <2>3, <2>4, RawUniform, Zenon
  <2>6. QED
    BY <1>4, <2>4, <2>5, Zenon
<1>5. CASE label = "Cloudy"
  <2>1. x >= (-1000 - 3) * n /\ x < (30 + 3) * n
    <3> DEFINE kept == Sky!Kept(TRUE, label)
    <3>1. Sky!Kept(TRUE, "Cloudy") = <<-1000, 30>>
      BY DEF Sky!Kept
    <3>2. kept = <<-1000, 30>>
      BY <1>5, <3>1, Zenon
    <3>3. x >= (kept[1] - 3) * n /\ x < (kept[2] + 3) * n
      BY DEF Sky!Keeps, Sky!Hyst
    <3> HIDE DEF kept
    <3>4. kept[1] = -1000 /\ kept[2] = 30
      BY <3>2
    <3>5. QED
      BY <3>3, <3>4
  <2>2. \E d \in {-3, 0, 3} : x + d * n < 30 * n
    BY <2>1
  <2>3. PICK d \in {-3, 0, 3} : x + d * n < 30 * n
    BY <2>2
  <2>4. x + d * n \in Int /\ d \in -3..3
    BY <2>3
  <2>5. Sky!Raw(x + d * n, n, TRUE) = "Cloudy"
    BY <2>3, <2>4, RawUniform, Zenon
  <2>6. QED
    BY <1>5, <2>4, <2>5, Zenon
<1>6. QED
  BY <1>1, <1>2, <1>3, <1>4, <1>5, Zenon DEF Sky!Labels

LEMMA VariableAgrees ==
  ASSUME NEW x \in Int, NEW n \in Int, n > 0, x <= 120 * n, NEW label \in Sky!Labels,
         Sky!Keeps(x, n, FALSE, label)
  PROVE  \E d \in -3..3 : Sky!Raw(x + d * n, n, FALSE) = label
<1> DEFINE L1 == "Clear"
           L2 == "Mostly Clear"
           L3 == "Partly Cloudy"
           L4 == "Mostly Cloudy"
           L5 == "Cloudy"
           P1 == <<1000, 1000>>
           P2 == <<85, 1000>>
           P3 == <<60, 85>>
           P4 == <<-1000, 60>>
           kept == Sky!Kept(FALSE, label)
<1>1. /\ L1 # L2 /\ L1 # L3 /\ L1 # L4 /\ L2 # L3 /\ L2 # L4 /\ L3 # L4
      /\ L5 # L2 /\ L5 # L3 /\ L5 # L4
  BY Zenon
<1>2. kept = CASE label = L2 -> P2
               [] label = L3 -> P3
               [] label = L4 -> P4
               [] label \in {L1, L5} -> P1
  BY Zenon DEF Sky!Kept
<1>3. /\ P1[1] = 1000 /\ P1[2] = 1000 /\ P2[1] = 85 /\ P2[2] = 1000
      /\ P3[1] = 60 /\ P3[2] = 85 /\ P4[1] = -1000 /\ P4[2] = 60
  OBVIOUS
<1>4. x >= (kept[1] - 3) * n /\ x < (kept[2] + 3) * n
  BY DEF Sky!Keeps, Sky!Hyst
<1>5. label \in {L1, L2, L3, L4, L5}
  BY Zenon DEF Sky!Labels
<1> HIDE DEF L1, L2, L3, L4, L5, P1, P2, P3, P4, kept
<1>6. CASE label = L2
  <2>1. kept = P2
    BY <1>1, <1>2, <1>6
  <2>2. x >= (85 - 3) * n /\ x < (1000 + 3) * n
    BY <1>3, <1>4, <2>1
  <2>3. \E d \in {-3, 0, 3} : x + d * n >= 85 * n
    BY <2>2
  <2>4. PICK d \in {-3, 0, 3} : x + d * n >= 85 * n
    BY <2>3
  <2>5. x + d * n \in Int /\ d \in -3..3
    BY <2>4
  <2>6. Sky!Raw(x + d * n, n, FALSE) = L2
    BY <2>4, <2>5, RawVariable DEF L2
  <2>7. QED
    BY <1>6, <2>5, <2>6, Zenon
<1>7. CASE label = L3
  <2>1. kept = P3
    BY <1>1, <1>2, <1>7
  <2>2. x >= (60 - 3) * n /\ x < (85 + 3) * n
    BY <1>3, <1>4, <2>1
  <2>3. \E d \in {-3, 0, 3} : x + d * n >= 60 * n /\ x + d * n < 85 * n
    BY <2>2
  <2>4. PICK d \in {-3, 0, 3} : x + d * n >= 60 * n /\ x + d * n < 85 * n
    BY <2>3
  <2>5. x + d * n \in Int /\ d \in -3..3
    BY <2>4
  <2>6. Sky!Raw(x + d * n, n, FALSE) = L3
    BY <2>4, <2>5, RawVariable DEF L3
  <2>7. QED
    BY <1>7, <2>5, <2>6, Zenon
<1>8. CASE label = L4
  <2>1. kept = P4
    BY <1>1, <1>2, <1>8
  <2>2. x >= (-1000 - 3) * n /\ x < (60 + 3) * n
    BY <1>3, <1>4, <2>1
  <2>3. \E d \in {-3, 0, 3} : x + d * n < 60 * n
    BY <2>2
  <2>4. PICK d \in {-3, 0, 3} : x + d * n < 60 * n
    BY <2>3
  <2>5. x + d * n \in Int /\ d \in -3..3
    BY <2>4
  <2>6. Sky!Raw(x + d * n, n, FALSE) = L4
    BY <2>4, <2>5, RawVariable DEF L4
  <2>7. QED
    BY <1>8, <2>5, <2>6, Zenon
<1>9. CASE label \in {L1, L5}
  <2>1. kept = P1
    BY <1>1, <1>2, <1>9
  <2>2. x >= (1000 - 3) * n
    BY <1>3, <1>4, <2>1
  <2>3. QED
    BY <2>2
<1>10. QED
  BY <1>5, <1>6, <1>7, <1>8, <1>9

\* The inductive invariant: the buffer is the window of the samples taken;
\* between the days there are none, and there is no label before there are
\* MinSamples.
SkyInv ==
  /\ now \in 0..MaxTime["sky"]
  /\ packets \in 0..MaxPackets["sky"]
  /\ wasDaytime \in BOOLEAN
  /\ InWindow(taken, buffer)
  /\ \A i \in 1..Len(taken) : taken[i].ts \in 0..now
  /\ lastLabel \in Sky!Labels \cup {None}
  /\ lastLabel # None => Len(taken) >= MinSamples["sky"]
  /\ ~ wasDaytime => taken = <<>> /\ lastLabel = None

\* Nothing is in the window of nothing.
LEMMA NoSamples == InWindow(<<>>, <<>>)
<1> DEFINE a == <<>>
<1>1. a \in Seq(Samples) /\ Len(a) = 0
  BY EmptySeq
<1>2. SubSeq(a, 1, 0) = a
  OBVIOUS
<1> HIDE DEF a
<1>3. InWindow(a, a)
  <2>1. /\ \A i, j \in 1..Len(a) : i < j => a[i].ts <= a[j].ts
        /\ 1 \in 1..(Len(a) + 1) /\ a = SubSeq(a, 1, Len(a))
        /\ \A i \in 1..(1 - 1) : a[i].ts < a[Len(a)].ts - Window["sky"]
        /\ \A i \in 1..Len(a) : a[i].ts >= a[Len(a)].ts - Window["sky"]
    BY <1>1, <1>2
  <2>2. QED
    BY <1>1, <2>1 DEF InWindow
<1>4. QED
  BY <1>3 DEF a

\* The constants are numbers.
LEMMA SkyConstants ==
  ASSUME Sky!SkyAssumption
  PROVE  /\ Window["sky"] \in Nat /\ MinSamples["sky"] \in Nat \ {0}
         /\ MaxTime["sky"] \in Nat /\ MaxPackets["sky"] \in Nat
  BY DEF Sky!SkyAssumption

\* Before the first packet the invariant holds.
LEMMA SkyInit ==
  ASSUME Sky!SkyAssumption
  PROVE  Sky!Init => SkyInv
<1> SUFFICES ASSUME Sky!Init PROVE SkyInv
  OBVIOUS
<1>1. InWindow(taken, buffer)
  BY NoSamples DEF Sky!Init
<1>2. \A i \in 1..Len(taken) : taken[i].ts \in 0..now
  <2>1. Len(taken) = 0
    BY EmptySeq DEF Sky!Init
  <2>2. QED
    BY <2>1
<1>3. now \in 0..MaxTime["sky"] /\ packets \in 0..MaxPackets["sky"]
  BY SkyConstants DEF Sky!Init
<1>4. wasDaytime = FALSE /\ lastLabel = None /\ taken = <<>>
  BY DEF Sky!Init
<1>5. QED
  BY <1>1, <1>2, <1>3, <1>4 DEF SkyInv

\* What a reader is given: nothing before there are MinSamples, and otherwise
\* a label.
LEMMA ResultFacts ==
  ASSUME Sky!SkyAssumption, SkyInv
  PROVE  /\ Sky!Result # None => Len(taken) >= MinSamples["sky"]
         /\ Sky!Result \in Sky!Labels \cup {None}
         /\ Sky!LabelJustified
<1> DEFINE x == Sky!Sum(buffer)
           n == Sky!Count(buffer)
           u == Sky!Uniform(buffer)
<1>1. Window["sky"] \in Nat /\ MinSamples["sky"] \in Nat \ {0}
  BY SkyConstants
<1>2. buffer \in Seq(Samples) /\ Len(buffer) <= Len(taken) /\ taken \in Seq(Samples)
  <2>1. InWindow(taken, buffer)
    BY DEF SkyInv
  <2>2. QED
    BY <1>1, <2>1, InWindowFacts DEF InWindow
<1>3. Sky!Result = IF Len(buffer) < MinSamples["sky"] THEN None
                   ELSE IF lastLabel # None /\ Sky!Keeps(x, n, u, lastLabel)
                   THEN lastLabel ELSE Sky!Raw(x, n, u)
  BY DEF Sky!Result
<1>4. CASE Len(buffer) < MinSamples["sky"]
  BY <1>3, <1>4 DEF Sky!LabelJustified
<1>5. CASE ~ (Len(buffer) < MinSamples["sky"])
  <2>1. Len(buffer) \in Nat /\ Len(taken) \in Nat
    BY <1>2
  <2>2. Len(taken) >= MinSamples["sky"] /\ buffer # <<>>
    BY <1>1, <1>2, <1>5, <2>1, EmptySeq
  <2>3. n \in Int /\ n > 0 /\ x \in Int /\ x <= 120 * n /\ u \in BOOLEAN
    BY <1>2, <2>2, WeightFacts
  <2> HIDE DEF x, n, u
  <2>4. Sky!Raw(x, n, u) \in Sky!Labels
    BY <2>3, RawTyped
  <2>5. lastLabel \in Sky!Labels \cup {None}
    BY DEF SkyInv
  <2>6. Sky!Result \in Sky!Labels \cup {None}
    BY <1>3, <1>5, <2>4, <2>5
  <2>7. \E d \in -3..3 : Sky!Result = Sky!Raw(x + d * n, n, u)
    <3>1. CASE lastLabel # None /\ Sky!Keeps(x, n, u, lastLabel)
      <4>1. lastLabel \in Sky!Labels /\ Sky!Result = lastLabel
        BY <1>3, <1>5, <2>5, <3>1
      <4>2. CASE u = TRUE
        BY <2>3, <3>1, <4>1, <4>2, UniformAgrees
      <4>3. CASE u = FALSE
        BY <2>3, <3>1, <4>1, <4>3, VariableAgrees
      <4>4. QED
        BY <2>3, <4>2, <4>3
    <3>2. CASE ~ (lastLabel # None /\ Sky!Keeps(x, n, u, lastLabel))
      <4>1. x + 0 * n = x /\ 0 \in -3..3
        BY <2>3
      <4>2. Sky!Result = Sky!Raw(x + 0 * n, n, u)
        BY <1>3, <1>5, <3>2, <4>1
      <4>3. QED
        BY <4>1, <4>2
    <3>3. QED
      BY <3>1, <3>2
  <2>8. Sky!LabelJustified
    BY <2>7 DEF Sky!LabelJustified, Sky!Hyst, x, n, u
  <2>9. QED
    BY <2>2, <2>6, <2>8
<1>6. QED
  BY <1>4, <1>5

\* A sample by day keeps the invariant (update).
LEMMA DaySampleKeeps ==
  ASSUME Sky!SkyAssumption, SkyInv, Sky!DaySample
  PROVE  SkyInv'
<1>1. PICK kc \in Kc :
        /\ buffer' = Sky!Prune(Append(buffer, [ts |-> now, kc |-> kc]))
        /\ taken' = Append(taken, [ts |-> now, kc |-> kc])
  BY DEF Sky!DaySample
<1> DEFINE x == [ts |-> now, kc |-> kc]
<1>2. /\ now' = now /\ now \in Int /\ now \in 0..now /\ packets' \in 0..MaxPackets["sky"]
      /\ now \in 0..MaxTime["sky"]
      /\ wasDaytime' = TRUE /\ lastLabel' = lastLabel
  BY SkyConstants DEF SkyInv, Sky!DaySample, Sky!NextPacket
<1>3. x \in Samples /\ x.ts = now
  BY <1>2 DEF Samples
<1>4. taken \in Seq(Samples) /\ \A i \in 1..Len(taken) : taken[i].ts \in 0..now
  BY DEF SkyInv, InWindow
<1>5. InWindow(Append(taken, x), Sky!Prune(Append(buffer, x)))
  <2>1. \A i \in 1..Len(taken) : taken[i].ts <= now
    BY <1>2, <1>4
  <2>2. InWindow(taken, buffer)
    BY DEF SkyInv
  <2> HIDE DEF x
  <2>3. QED
    BY <1>2, <1>3, <2>1, <2>2, SampleKeeps, SkyConstants
<1>6. /\ Len(taken') = Len(taken) + 1 /\ Len(taken) \in Nat
      /\ \A i \in 1..Len(taken') : taken'[i].ts \in 0..now'
  <2>1. /\ Len(Append(taken, x)) = Len(taken) + 1
        /\ Append(taken, x)[Len(taken) + 1] = x
        /\ \A i \in 1..Len(taken) : Append(taken, x)[i] = taken[i]
    <3> HIDE DEF x
    <3>1. QED
      BY <1>3, <1>4, AppendProperties
  <2> HIDE DEF x
  <2>2. taken' = Append(taken, x)
    BY <1>1 DEF x
  <2>3. \A i \in 1..(Len(taken) + 1) : i = Len(taken) + 1 \/ i \in 1..Len(taken)
    BY <1>4
  <2>4. \A i \in 1..(Len(taken) + 1) : Append(taken, x)[i].ts \in 0..now
    BY <1>2, <1>3, <1>4, <2>1, <2>3
  <2>5. QED
    BY <1>2, <1>4, <2>1, <2>2, <2>4
<1>7. InWindow(taken, buffer)'
  <2>1. InWindow(taken', buffer')
    BY <1>1, <1>5
  <2>2. QED
    BY <2>1 DEF InWindow
<1>8. lastLabel' # None => Len(taken') >= MinSamples["sky"]
  BY <1>2, <1>6, SkyConstants DEF SkyInv
<1>9. QED
  BY <1>2, <1>6, <1>7, <1>8 DEF SkyInv

\* Every step keeps it.
LEMMA SkyNext ==
  ASSUME Sky!SkyAssumption
  PROVE  SkyInv /\ [Sky!Next]_(Sky!vars) => SkyInv'
<1> SUFFICES ASSUME SkyInv, [Sky!Next]_(Sky!vars) PROVE SkyInv'
  OBVIOUS
<1>1. CASE Sky!DaySample
  BY <1>1, DaySampleKeeps
<1>2. CASE Sky!DayWithoutSample
  <2>1. /\ UNCHANGED <<now, buffer, lastLabel, taken>> /\ wasDaytime' = TRUE
        /\ packets' \in 0..MaxPackets["sky"]
    BY <1>2, SkyConstants DEF Sky!DayWithoutSample, Sky!NextPacket, SkyInv
  <2>2. QED
    BY <2>1 DEF SkyInv, InWindow
<1>3. CASE Sky!NightPacket
  <2>1. packets' \in 0..MaxPackets["sky"] /\ now' = now /\ now \in 0..MaxTime["sky"]
    BY <1>3, SkyConstants DEF Sky!NightPacket, Sky!NextPacket, SkyInv
  <2>2. wasDaytime' = FALSE /\ taken' = <<>>
    BY <1>3 DEF Sky!NightPacket
  <2>3. lastLabel' = None /\ buffer' = <<>>
    <3>1. CASE wasDaytime
      BY <1>3, <3>1 DEF Sky!NightPacket
    <3>2. CASE ~ wasDaytime
      <4>1. lastLabel = None /\ taken = <<>> /\ InWindow(taken, buffer)
        BY <3>2 DEF SkyInv
      <4>2. buffer \in Seq(Samples) /\ Len(buffer) <= 0
        BY <4>1, InWindowFacts, SkyConstants, EmptySeq
      <4>3. buffer = <<>>
        BY <4>2, EmptySeq
      <4>4. QED
        BY <1>3, <3>2, <4>1, <4>3 DEF Sky!NightPacket
    <3>3. QED
      BY <3>1, <3>2 DEF SkyInv
  <2>4. InWindow(taken, buffer)'
    BY <2>2, <2>3, NoSamples DEF InWindow
  <2>5. \A i \in 1..Len(taken') : taken'[i].ts \in 0..now'
    BY <2>2, EmptySeq
  <2>6. QED
    BY <2>1, <2>2, <2>3, <2>4, <2>5 DEF SkyInv
<1>4. CASE Sky!Classify
  <2>1. /\ UNCHANGED <<now, packets, buffer, wasDaytime, taken>>
        /\ lastLabel' = Sky!Result /\ Sky!Result # None
    BY <1>4 DEF Sky!Classify
  <2>2. Len(taken) >= MinSamples["sky"] /\ Sky!Result \in Sky!Labels \cup {None}
    BY <2>1, ResultFacts
  <2>3. wasDaytime
    <3>1. taken # <<>>
      BY <2>2, SkyConstants, EmptySeq
    <3>2. QED
      BY <3>1 DEF SkyInv
  <2>4. InWindow(taken, buffer)'
    BY <2>1 DEF SkyInv, InWindow
  <2>5. QED
    BY <2>1, <2>2, <2>3, <2>4 DEF SkyInv
<1>5. CASE Sky!Tick
  <2>1. /\ UNCHANGED <<packets, buffer, wasDaytime, lastLabel, taken>>
        /\ now' \in 0..MaxTime["sky"] /\ 0..now \subseteq 0..now'
    BY <1>5, SkyConstants DEF Sky!Tick, SkyInv
  <2>2. QED
    BY <2>1 DEF SkyInv, InWindow
<1>6. CASE UNCHANGED Sky!vars
  BY <1>6 DEF Sky!vars, SkyInv, InWindow
<1>7. QED
  BY <1>1, <1>2, <1>3, <1>4, <1>5, <1>6 DEF Sky!Next

\* What the invariant implies.
LEMMA SkyFacts ==
  ASSUME Sky!SkyAssumption, SkyInv
  PROVE  Sky!SkyTypeOK /\ Sky!LabelJustified /\ Sky!NightForgets
<1>1. /\ taken \in Seq(Samples) /\ buffer \in Seq(Samples) /\ Len(buffer) <= Len(taken)
      /\ \A i \in 1..Len(buffer) : /\ Len(taken) - Len(buffer) + i \in 1..Len(taken)
                                   /\ buffer[i] = taken[Len(taken) - Len(buffer) + i]
      /\ buffer = Sky!KeptAt(taken, {i \in DOMAIN taken :
                    taken[i].ts >= taken[Len(taken)].ts - Window["sky"]})
  <2>1. InWindow(taken, buffer)
    BY DEF SkyInv
  <2>2. taken \in Seq(Samples)
    BY <2>1 DEF InWindow
  <2>3. Window["sky"] \in Nat
    BY SkyConstants
  <2>4. /\ buffer \in Seq(Samples) /\ Len(buffer) <= Len(taken)
        /\ \A i \in 1..Len(buffer) : /\ Len(taken) - Len(buffer) + i \in 1..Len(taken)
                                     /\ buffer[i] = taken[Len(taken) - Len(buffer) + i]
    BY <2>1, <2>3, InWindowFacts
  <2>5. buffer = Sky!KeptAt(taken, {i \in DOMAIN taken :
                    taken[i].ts >= taken[Len(taken)].ts - Window["sky"]})
    BY <2>1, <2>3, InWindowFacts
  <2>6. QED
    BY <2>2, <2>4, <2>5, Zenon
<1>2. \A i \in DOMAIN buffer : buffer[i] \in [ts : 0..now, kc : Kc]
  <2> SUFFICES ASSUME NEW i \in 1..Len(buffer) PROVE buffer[i] \in [ts : 0..now, kc : Kc]
    BY <1>1
  <2>1. PICK j \in 1..Len(taken) : buffer[i] = taken[j]
    BY <1>1
  <2>2. taken[j] \in Samples /\ taken[j].ts \in 0..now
    BY <1>1, ElementOfSeq DEF SkyInv
  <2>3. QED
    BY <2>1, <2>2 DEF Samples
<1>3. buffer # <<>> => wasDaytime
  <2> SUFFICES ASSUME ~ wasDaytime PROVE buffer = <<>>
    BY DEF SkyInv
  <2>1. taken = <<>>
    BY DEF SkyInv
  <2>2. QED
    BY <1>1, <2>1, EmptySeq
<1>4. Sky!SkyTypeOK
  BY <1>1, <1>2, <1>3 DEF SkyInv, Sky!SkyTypeOK
<1>5. Sky!NightForgets
  <2> SUFFICES ASSUME Len(taken) < MinSamples["sky"]
               PROVE  lastLabel = None /\ Sky!Result = None
    BY DEF Sky!NightForgets
  <2>1. ~ (Len(taken) >= MinSamples["sky"])
    BY <1>1, SkyConstants
  <2>2. QED
    BY <2>1, ResultFacts DEF SkyInv
<1>6. QED
  BY <1>4, <1>5, ResultFacts
-----------------------------------------------------------------------------
(* The smoothed fields.                                                    *)

Numbers == Int \cup {NaN}

\* The ring r is the end of all that was fed, f, up to its capacity c, and s
\* is its sum as long as nothing fed was not a number.
RingOf(r, s, f, c) ==
  /\ f \in Seq(Numbers)
  /\ r \in Seq(Numbers)
  /\ s \in Numbers
  /\ Len(r) = IF Len(f) < c THEN Len(f) ELSE c
  /\ \A i \in 1..Len(r) : r[i] = f[Len(f) - Len(r) + i]
  /\ (\A i \in 1..Len(f) : f[i] # NaN) => s = Total(r)

\* The inductive invariant of the smoothed fields.
SmoothedInv ==
  /\ packets \in 0..MaxPackets["smoothed"]
  /\ ring = [f \in SmoothedField |-> ring[f]]
  /\ sum = [f \in SmoothedField |-> sum[f]]
  /\ fed = [f \in SmoothedField |-> fed[f]]
  /\ \A f \in SmoothedField : RingOf(ring[f], sum[f], fed[f], Capacity[f])

\* What RingOf says, with the lengths it is about.
LEMMA RingTyped ==
  ASSUME NEW r, NEW s, NEW f, NEW c \in Nat \ {0}, RingOf(r, s, f, c)
  PROVE  /\ f \in Seq(Numbers) /\ r \in Seq(Numbers) /\ s \in Numbers
         /\ Len(f) \in Nat /\ Len(r) \in Nat
         /\ Len(r) = IF Len(f) < c THEN Len(f) ELSE c
         /\ Len(r) <= Len(f) /\ Len(r) <= c
         /\ \A i \in 1..Len(r) : r[i] = f[Len(f) - Len(r) + i]
<1>1. f \in Seq(Numbers) /\ r \in Seq(Numbers) /\ s \in Numbers
  BY DEF RingOf
<1>2. Len(f) \in Nat /\ Len(r) \in Nat
  BY <1>1
<1>3. Len(r) = IF Len(f) < c THEN Len(f) ELSE c
  BY DEF RingOf
<1>4. \A i \in 1..Len(r) : r[i] = f[Len(f) - Len(r) + i]
  BY DEF RingOf
<1>5. Len(r) <= Len(f) /\ Len(r) <= c
  BY <1>2, <1>3
<1>6. QED
  BY <1>1, <1>2, <1>3, <1>4, <1>5

\* A ring of numbers is one of integers if none of them is NaN.
LEMMA RingOfNumbers ==
  ASSUME NEW r, NEW s, NEW f, NEW c \in Nat \ {0}, RingOf(r, s, f, c),
         \A i \in 1..Len(f) : f[i] # NaN
  PROVE  r \in Seq(Int) /\ s = Total(r) /\ s \in Int
<1>1. /\ f \in Seq(Numbers) /\ r \in Seq(Numbers) /\ Len(f) \in Nat /\ Len(r) \in Nat
      /\ Len(r) <= Len(f) /\ \A i \in 1..Len(r) : r[i] = f[Len(f) - Len(r) + i]
  BY RingTyped
<1>2. ASSUME NEW i \in 1..Len(r)
      PROVE  r[i] \in Int
  <2>1. Len(f) - Len(r) + i \in 1..Len(f)
    BY <1>1
  <2>2. r[i] \in Numbers /\ r[i] # NaN
    BY <1>1, <2>1, ElementOfSeq
  <2>3. QED
    BY <2>2 DEF Numbers
<1>3. r \in Seq(Int)
  <2>1. DOMAIN r = 1..Len(r) /\ r = [i \in 1..Len(r) |-> r[i]]
    BY <1>1
  <2>2. r \in [1..Len(r) -> Int]
    BY <1>2, <2>1
  <2>3. QED
    BY <1>1, <2>2
<1>4. s = Total(r)
  BY DEF RingOf
<1>5. QED
  BY <1>3, <1>4, TotalTyped

\* Adding a value keeps a ring as it should be (RingBuffer.add).
LEMMA RingAdd ==
  ASSUME NEW r, NEW s, NEW f, NEW c \in Nat \ {0}, NEW v \in Numbers, NaN \notin Int,
         RingOf(r, s, f, c)
  PROVE  RingOf(Append(IF Len(r) = c THEN Tail(r) ELSE r, v),
                Smoothed!Plus(IF Len(r) = c THEN Smoothed!Minus(s, Head(r)) ELSE s, v),
                Append(f, v), c)
<1> DEFINE L == Len(r)
           N == Len(f)
           kept == IF L = c THEN Tail(r) ELSE r
           left == IF L = c THEN Smoothed!Minus(s, Head(r)) ELSE s
           r2 == Append(kept, v)
           s2 == Smoothed!Plus(left, v)
           f2 == Append(f, v)
           k == IF L = c THEN 1 ELSE 0
<1>1. /\ f \in Seq(Numbers) /\ r \in Seq(Numbers) /\ s \in Numbers /\ L \in Nat /\ N \in Nat
      /\ L = IF N < c THEN N ELSE c
      /\ \A i \in 1..L : r[i] = f[N - L + i]
  BY RingTyped
<1>2. /\ f2 \in Seq(Numbers) /\ Len(f2) = N + 1 /\ f2[N + 1] = v
      /\ \A i \in 1..N : f2[i] = f[i]
  BY <1>1, AppendProperties
<1>3. L = c => r # <<>>
  BY <1>1, EmptySeq
<1>4. /\ kept \in Seq(Numbers) /\ Len(kept) = L - k
      /\ \A i \in 1..(L - k) : kept[i] = r[i + k]
  <2>1. CASE L = c
    <3>1. /\ Tail(r) \in Seq(Numbers) /\ Len(Tail(r)) = L - 1
          /\ \A i \in 1..(L - 1) : Tail(r)[i] = r[i + 1]
      <4>1. r # <<>>
        BY <1>3, <2>1
      <4>2. QED
        BY <1>1, <4>1, HeadTailProperties
    <3>2. QED
      BY <2>1, <3>1
  <2>2. CASE L # c
    <3>1. L - 0 = L /\ \A i \in 1..L : i + 0 = i
      BY <1>1
    <3>2. QED
      BY <1>1, <2>2, <3>1
  <2>3. QED
    BY <2>1, <2>2
<1>5. k \in {0, 1} /\ L - k \in Nat /\ (k = 1 <=> L = c)
  BY <1>1
<1>6. left \in Numbers /\ s2 \in Numbers
  <2>1. L = c => Head(r) \in Numbers
    <3> SUFFICES ASSUME L = c PROVE Head(r) \in Numbers
      OBVIOUS
    <3>1. Head(r) = r[1] /\ 1 \in 1..L
      BY <1>1, <1>3
    <3>2. QED
      BY <1>1, <3>1, ElementOfSeq
  <2>2. ASSUME NEW x \in Numbers, NEW y \in Numbers
        PROVE  Smoothed!Plus(x, y) \in Numbers /\ Smoothed!Minus(x, y) \in Numbers
    BY DEF Smoothed!Plus, Smoothed!Minus, Numbers
  <2>3. left \in Numbers
    BY <1>1, <2>1, <2>2
  <2> HIDE DEF left
  <2>4. QED
    BY <2>2, <2>3
<1>7. ASSUME \A i \in 1..(N + 1) : f2[i] # NaN
      PROVE  s2 = Total(r2)
  <2>1. \A i \in 1..N : i \in 1..(N + 1) /\ f[i] # NaN
    BY <1>1, <1>2, <1>7
  <2>2. r \in Seq(Int) /\ s = Total(r) /\ s \in Int
    BY <2>1, RingOfNumbers
  <2>3. v \in Int
    BY <1>1, <1>2, <1>7 DEF Numbers
  <2>4. kept \in Seq(Int) /\ left \in Int /\ left = Total(kept)
    <3>1. CASE L = c
      <4>1. r # <<>> /\ Tail(r) \in Seq(Int) /\ Head(r) \in Int
        <5>1. r # <<>>
          BY <1>3, <3>1
        <5>2. QED
          BY <2>2, <5>1, HeadTailProperties
      <4>2. Total(Tail(r)) = Total(r) - Head(r)
        BY <2>2, <4>1, TotalTail
      <4>3. Smoothed!Minus(s, Head(r)) = s - Head(r)
        BY <2>2, <4>1 DEF Smoothed!Minus
      <4>4. QED
        BY <2>2, <3>1, <4>1, <4>2, <4>3
    <3>2. CASE L # c
      BY <2>2, <3>2
    <3>3. QED
      BY <3>1, <3>2
  <2> HIDE DEF kept, left
  <2>5. Total(r2) = Total(kept) + v
    BY <2>3, <2>4, TotalAppend
  <2>6. s2 = left + v
    BY <2>3, <2>4 DEF Smoothed!Plus
  <2>7. QED
    BY <2>4, <2>5, <2>6
<1> HIDE DEF kept, left, f2, s2, k
<1>8. /\ r2 \in Seq(Numbers) /\ Len(r2) = (L - k) + 1 /\ r2[(L - k) + 1] = v
      /\ \A i \in 1..(L - k) : r2[i] = r[i + k]
  <2>1. /\ r2 \in Seq(Numbers) /\ Len(r2) = Len(kept) + 1 /\ r2[Len(kept) + 1] = v
        /\ \A i \in 1..Len(kept) : r2[i] = kept[i]
    BY <1>4, AppendProperties
  <2> HIDE DEF r2
  <2>2. QED
    BY <1>4, <2>1
<1> HIDE DEF r2
<1>9. Len(r2) = IF N + 1 < c THEN N + 1 ELSE c
  BY <1>1, <1>5, <1>8
<1>10. ASSUME NEW i \in 1..Len(r2)
       PROVE  r2[i] = f2[(N + 1) - Len(r2) + i]
  <2>1. CASE i = (L - k) + 1
    <3>1. Len(r2) \in Nat /\ i = Len(r2)
      BY <1>5, <1>8, <2>1
    <3>2. (N + 1) - Len(r2) + i = N + 1
      BY <1>1, <3>1
    <3>3. QED
      BY <1>2, <1>8, <2>1, <3>2
  <2>2. CASE i # (L - k) + 1
    <3>1. i \in 1..(L - k) /\ i + k \in 1..L
      BY <1>1, <1>5, <1>8, <2>2
    <3>2. r2[i] = f[N - L + (i + k)]
      BY <1>1, <1>8, <3>1
    <3>3. /\ N - L + (i + k) \in 1..N
          /\ (N + 1) - Len(r2) + i = N - L + (i + k)
      BY <1>1, <1>5, <1>8, <3>1
    <3>4. QED
      BY <1>2, <3>2, <3>3
  <2>3. QED
    BY <2>1, <2>2
<1>11. RingOf(r2, s2, f2, c)
  BY <1>2, <1>6, <1>7, <1>8, <1>9, <1>10 DEF RingOf
<1>12. QED
  BY <1>11 DEF r2, s2, f2, kept, left

\* Before the first packet the invariant holds.
LEMMA SmoothedInit ==
  ASSUME Smoothed!SmoothedAssumption
  PROVE  Smoothed!Init => SmoothedInv
<1> SUFFICES ASSUME Smoothed!Init PROVE SmoothedInv
  OBVIOUS
<1>1. ASSUME NEW c \in Nat \ {0}
      PROVE  RingOf(<<>>, 0, <<>>, c)
  <2> DEFINE e == <<>>
  <2>1. e \in Seq(Numbers) /\ e \in Seq(Int) /\ Len(e) = 0
    BY EmptySeq
  <2>2. 0 = Total(e)
    BY <2>1, TotalTyped
  <2> HIDE DEF e
  <2>3. RingOf(e, 0, e, c)
    BY <2>1, <2>2 DEF RingOf, Numbers
  <2>4. QED
    BY <2>3 DEF e
<1>2. \A f \in SmoothedField : Capacity[f] \in Nat \ {0}
  BY DEF Smoothed!SmoothedAssumption
<1>3. QED
  BY <1>1, <1>2 DEF Smoothed!Init, SmoothedInv, Smoothed!SmoothedAssumption

\* A packet keeps it.
LEMMA SmoothedNext ==
  ASSUME Smoothed!SmoothedAssumption
  PROVE  SmoothedInv /\ [Smoothed!Next]_(Smoothed!vars) => SmoothedInv'
<1> SUFFICES ASSUME SmoothedInv, [Smoothed!Next]_(Smoothed!vars) PROVE SmoothedInv'
  OBVIOUS
<1>1. CASE Smoothed!Packet
  <2>1. PICK v \in [SmoothedField -> Reading \cup {NaN, None}] :
          /\ ring' = [f \in SmoothedField |-> IF v[f] = None THEN ring[f]
                                              ELSE Smoothed!RingAfter(f, v[f])]
          /\ sum' = [f \in SmoothedField |-> IF v[f] = None THEN sum[f]
                                             ELSE Smoothed!SumAfter(f, v[f])]
          /\ fed' = [f \in SmoothedField |-> IF v[f] = None THEN fed[f]
                                             ELSE Append(fed[f], v[f])]
    BY <1>1 DEF Smoothed!Packet
  <2>2. packets' \in 0..MaxPackets["smoothed"]
    BY <1>1 DEF Smoothed!Packet, SmoothedInv, Smoothed!SmoothedAssumption
  <2>3. ASSUME NEW f \in SmoothedField
        PROVE  RingOf(ring'[f], sum'[f], fed'[f], Capacity[f])
    <3>1. RingOf(ring[f], sum[f], fed[f], Capacity[f]) /\ Capacity[f] \in Nat \ {0}
      BY DEF SmoothedInv, Smoothed!SmoothedAssumption
    <3>2. CASE v[f] = None
      <4>1. ring'[f] = ring[f] /\ sum'[f] = sum[f] /\ fed'[f] = fed[f]
        BY <2>1, <3>2
      <4>2. QED
        BY <3>1, <4>1
    <3>3. CASE v[f] # None
      <4>1. v[f] \in Numbers /\ NaN \notin Int
        BY <3>3 DEF Numbers, Smoothed!SmoothedAssumption
      <4>2. /\ ring'[f] = Append(IF Len(ring[f]) = Capacity[f] THEN Tail(ring[f])
                                 ELSE ring[f], v[f])
            /\ sum'[f] = Smoothed!Plus(IF Len(ring[f]) = Capacity[f]
                                       THEN Smoothed!Minus(sum[f], Head(ring[f]))
                                       ELSE sum[f], v[f])
            /\ fed'[f] = Append(fed[f], v[f])
        BY <2>1, <3>3 DEF Smoothed!RingAfter, Smoothed!SumAfter
      <4>3. QED
        BY <3>1, <4>1, <4>2, RingAdd
    <3>4. QED
      BY <3>2, <3>3
  <2>4. /\ ring' = [f \in SmoothedField |-> ring'[f]]
        /\ sum' = [f \in SmoothedField |-> sum'[f]]
        /\ fed' = [f \in SmoothedField |-> fed'[f]]
    BY <2>1
  <2>5. \A f \in SmoothedField : RingOf(ring[f], sum[f], fed[f], Capacity[f])'
    BY <2>3 DEF RingOf, Numbers, Total
  <2>6. QED
    BY <2>2, <2>4, <2>5 DEF SmoothedInv
<1>2. CASE UNCHANGED Smoothed!vars
  BY <1>2 DEF Smoothed!vars, SmoothedInv, RingOf
<1>3. QED
  BY <1>1, <1>2 DEF Smoothed!Next

\* What the invariant implies.
LEMMA SmoothedFacts ==
  ASSUME Smoothed!SmoothedAssumption, SmoothedInv
  PROVE  Smoothed!SmoothedTypeOK /\ Smoothed!SmoothedIsMean
<1>1. ASSUME NEW f \in SmoothedField
      PROVE  /\ Len(ring[f]) <= Capacity[f]
             /\ Smoothed!Values(ring[f]) \cup {sum[f]} \subseteq Int \cup {NaN}
  <2>1. RingOf(ring[f], sum[f], fed[f], Capacity[f]) /\ Capacity[f] \in Nat \ {0}
    BY DEF SmoothedInv, Smoothed!SmoothedAssumption
  <2>2. Len(ring[f]) <= Capacity[f] /\ ring[f] \in Seq(Numbers) /\ sum[f] \in Numbers
    BY <2>1 DEF RingOf
  <2>3. \A i \in DOMAIN ring[f] : ring[f][i] \in Numbers
    BY <2>2, ElementOfSeq
  <2>4. QED
    BY <2>2, <2>3 DEF Smoothed!Values, Numbers
<1>2. Smoothed!SmoothedTypeOK
  BY <1>1 DEF SmoothedInv, Smoothed!SmoothedTypeOK
<1>3. ASSUME NEW f \in SmoothedField
      PROVE  LET n == IF Len(fed[f]) < Capacity[f] THEN Len(fed[f]) ELSE Capacity[f] IN
             IF n < MinSamples["smoothed"] THEN Smoothed!Smoothed(f) = None
             ELSE NaN \notin Smoothed!Values(fed[f]) =>
                    Smoothed!Smoothed(f)
                      = [sum |-> Smoothed!Total(Smoothed!LastOf(fed[f], n)), of |-> n]
  <2> DEFINE n == Len(ring[f])
             N == Len(fed[f])
  <2>1. RingOf(ring[f], sum[f], fed[f], Capacity[f]) /\ Capacity[f] \in Nat \ {0}
    BY DEF SmoothedInv, Smoothed!SmoothedAssumption
  <2>2. /\ n = IF N < Capacity[f] THEN N ELSE Capacity[f]
        /\ n \in Nat /\ N \in Nat /\ n <= N
        /\ fed[f] \in Seq(Numbers) /\ ring[f] \in Seq(Numbers)
        /\ \A i \in 1..n : ring[f][i] = fed[f][N - n + i]
    BY <2>1, RingTyped
  <2>3. Smoothed!LastOf(fed[f], n) = ring[f]
    <3> DEFINE w == SubSeq(fed[f], N - n + 1, N)
    <3>1. N - n + 1 \in 1..(N + 1) /\ N - (N - n + 1) + 1 = n
      BY <2>2
    <3>2. /\ w \in Seq(Numbers) /\ Len(w) = N - (N - n + 1) + 1
          /\ \A i \in 1..(N - (N - n + 1) + 1) : w[i] = fed[f][(N - n + 1) + i - 1]
      BY <2>2, <3>1, SuffixFacts
    <3> HIDE DEF w
    <3>3. /\ Len(w) = Len(ring[f]) /\ Len(w) \in Nat
          /\ \A i \in 1..Len(w) : w[i] = ring[f][i]
      <4>1. ASSUME NEW i \in 1..n
            PROVE  (N - n + 1) + i - 1 = N - n + i
        BY <2>2
      <4>2. Len(w) = n
        BY <3>1, <3>2
      <4>3. ASSUME NEW i \in 1..n
            PROVE  w[i] = ring[f][i]
        BY <2>2, <3>1, <3>2, <4>1
      <4>4. QED
        BY <2>2, <4>2, <4>3
    <3>4. w = ring[f]
      BY <2>2, <3>2, <3>3, SeqEqual
    <3>5. QED
      BY <3>4 DEF w, Smoothed!LastOf
  <2>4. NaN \notin Smoothed!Values(fed[f]) => sum[f] = Total(ring[f])
    <3> SUFFICES ASSUME NaN \notin Smoothed!Values(fed[f]) PROVE sum[f] = Total(ring[f])
      OBVIOUS
    <3>1. \A i \in 1..N : fed[f][i] # NaN
      BY <2>2 DEF Smoothed!Values
    <3>2. QED
      BY <2>1, <3>1 DEF RingOf
  <2>5. Smoothed!Total(ring[f]) = Total(ring[f])
    BY DEF Smoothed!Total, Total
  <2> HIDE DEF n
  <2>6. Smoothed!Smoothed(f) = IF n < MinSamples["smoothed"] THEN None
                               ELSE [sum |-> sum[f], of |-> n]
    BY DEF Smoothed!Smoothed, n
  <2>7. QED
    BY <2>2, <2>3, <2>4, <2>5, <2>6
<1>4. Smoothed!SmoothedIsMean
  BY <1>3 DEF Smoothed!SmoothedIsMean
<1>5. QED
  BY <1>2, <1>4
=============================================================================
