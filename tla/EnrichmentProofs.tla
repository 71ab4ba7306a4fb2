-------------------------- MODULE EnrichmentProofs --------------------------
(***************************************************************************)
(* Proofs about the enrichments, for every value of their constants.       *)
(***************************************************************************)
EXTENDS Enrichments, TapProofs
-----------------------------------------------------------------------------
(* Tiers.                                                                  *)

\* TierFor (_temp_tier_for, _moisture_tier_for) finds the tier whose bounds
\* the value lies between, if the bounds grow.
LEMMA TierForFacts ==
  ASSUME NEW tiers \in Seq(Int), NEW value \in Int,
         \A i, j \in 1..Len(tiers) : i < j => tiers[i] <= tiers[j]
  PROVE  LET raw == Comfort!TierFor(value, tiers) IN
         /\ raw \in 0..Len(tiers)
         /\ raw # 0 => tiers[raw] < value
         /\ raw # Len(tiers) => value <= tiers[raw + 1]
<1> DEFINE I == {i \in DOMAIN tiers : tiers[i] < value}
           raw == Cardinality(I)
<1>1. Len(tiers) \in Nat /\ DOMAIN tiers = 1..Len(tiers)
  OBVIOUS
<1>2. \A i \in 1..Len(tiers) : tiers[i] \in Int
  BY <1>1
<1>3. ASSUME NEW i \in I, NEW j \in 1..i
      PROVE  j \in I
  <2>1. i \in 1..Len(tiers) /\ j \in 1..Len(tiers) /\ tiers[i] < value
    BY <1>1
  <2>2. tiers[j] <= tiers[i] /\ tiers[i] \in Int /\ tiers[j] \in Int
    BY <2>1, <1>2
  <2>3. tiers[j] < value
    BY <2>1, <2>2
  <2>4. QED
    BY <2>1, <2>3, <1>1
<1>4. I \in SUBSET (1..Len(tiers))
  BY <1>1
<1>5. raw \in 0..Len(tiers) /\ I = 1..raw
  BY <1>1, <1>3, <1>4, InitialSegment
<1> HIDE DEF raw
<1>6. raw # 0 => raw \in I
  BY <1>5, <1>1
<1>7. raw # Len(tiers) => raw + 1 \in 1..Len(tiers) /\ raw + 1 \notin I
  <2>1. raw \in Nat /\ Len(tiers) \in Nat /\ raw <= Len(tiers)
    BY <1>5, <1>1
  <2>2. raw + 1 \notin 1..raw
    BY <2>1
  <2>3. raw # Len(tiers) => raw + 1 \in 1..Len(tiers)
    BY <2>1
  <2> HIDE DEF I
  <2>4. QED
    BY <2>2, <2>3, <1>5
<1>8. raw # Len(tiers) => value <= tiers[raw + 1]
  BY <1>1, <1>2, <1>7
<1>9. Comfort!TierFor(value, tiers) = raw
  BY DEF Comfort!TierFor, raw, Comfort!Cardinality, Cardinality
<1>10. QED
  BY <1>5, <1>6, <1>8, <1>9

\* The tables of tiers are lists of growing bounds far from the sentinels.
LEMMA Tables ==
  \A tiers \in {Comfort!TempTiers, Comfort!MoistureTiers} :
    /\ tiers \in Seq(Int) /\ Len(tiers) \in Nat \ {0}
    /\ \A i \in 1..Len(tiers) : tiers[i] \in Int /\ -1000 <= tiers[i] /\ tiers[i] <= 2000
    /\ \A i, j \in 1..Len(tiers) : i < j => tiers[i] <= tiers[j]
<1> DEFINE Growing(tiers) ==
             /\ tiers \in Seq(Int) /\ Len(tiers) \in Nat \ {0}
             /\ \A i \in 1..Len(tiers) :
                  tiers[i] \in Int /\ -1000 <= tiers[i] /\ tiers[i] <= 2000
             /\ \A i, j \in 1..Len(tiers) : i < j => tiers[i] <= tiers[j]
<1>1. Growing(Comfort!TempTiers)
  BY DEF Comfort!TempTiers
<1>2. Growing(Comfort!MoistureTiers)
  BY DEF Comfort!MoistureTiers
<1> HIDE DEF Growing
<1>3. \A tiers \in {Comfort!TempTiers, Comfort!MoistureTiers} : Growing(tiers)
  BY <1>1, <1>2
<1>4. QED
  BY <1>3 DEF Growing

\* What hysteresis gives (_apply_temp_hysteresis, _apply_moisture_hysteresis)
\* is a tier within Band of the value, and what it takes to change it: a value
\* Band beyond the bound of the old tier and on this side of the bound of the
\* new one.
LEMMA HysteresisFacts ==
  ASSUME NEW tiers \in {Comfort!TempTiers, Comfort!MoistureTiers}, NEW value \in Comfort!Reachable,
         NEW tier \in 0..Len(tiers) \cup {None}, None \notin Int
  PROVE  LET new == Comfort!Hysteresis(value, tier, tiers) IN
         /\ new \in 0..Len(tiers)
         /\ Comfort!WithinBand(value, new, tiers)
         /\ tier # None /\ new < tier =>
              /\ value <= Comfort!TierLower(tier, tiers) - Comfort!Band
              /\ value <= Comfort!TierUpper(new, tiers)
         /\ tier # None /\ new > tier =>
              /\ value >= Comfort!TierUpper(tier, tiers) + Comfort!Band
              /\ value > Comfort!TierLower(new, tiers)
<1> DEFINE raw == Comfort!TierFor(value, tiers)
           new == Comfort!Hysteresis(value, tier, tiers)
<1>1. /\ tiers \in Seq(Int) /\ Len(tiers) \in Nat \ {0}
      /\ \A i \in 1..Len(tiers) : tiers[i] \in Int /\ -1000 <= tiers[i] /\ tiers[i] <= 2000
      /\ \A i, j \in 1..Len(tiers) : i < j => tiers[i] <= tiers[j]
  BY Tables
<1>2. value \in Int /\ -10000000 < value /\ value < 10000000
  BY DEF Comfort!Reachable
<1>3. /\ raw \in 0..Len(tiers)
      /\ raw # 0 => tiers[raw] < value
      /\ raw # Len(tiers) => value <= tiers[raw + 1]
  BY <1>1, <1>2, TierForFacts
<1> HIDE DEF raw
<1>4. \A t \in 0..Len(tiers) :
        Comfort!TierLower(t, tiers) \in Int /\ Comfort!TierUpper(t, tiers) \in Int
  BY <1>1 DEF Comfort!TierLower, Comfort!TierUpper
<1>5. Comfort!TierLower(raw, tiers) < value /\ value <= Comfort!TierUpper(raw, tiers)
  BY <1>1, <1>2, <1>3 DEF Comfort!TierLower, Comfort!TierUpper
<1>6. Comfort!WithinBand(value, raw, tiers)
  BY <1>2, <1>3, <1>4, <1>5 DEF Comfort!WithinBand, Comfort!Band
<1>7. CASE tier = None
  BY <1>3, <1>6, <1>7 DEF Comfort!Hysteresis, raw
<1>8. CASE tier # None
  <2>1. tier \in 0..Len(tiers) /\ tier \in Int /\ raw \in Int
    BY <1>1, <1>3, <1>8
  <2>2. CASE new = raw /\ \/ raw < tier /\ value <= Comfort!TierLower(tier, tiers) - Comfort!Band
                          \/ raw > tier /\ value >= Comfort!TierUpper(tier, tiers) + Comfort!Band
    BY <1>3, <1>5, <1>6, <2>1, <2>2
  <2>3. CASE /\ new = tier
             /\ ~ (raw < tier /\ value <= Comfort!TierLower(tier, tiers) - Comfort!Band)
             /\ ~ (raw > tier /\ value >= Comfort!TierUpper(tier, tiers) + Comfort!Band)
    <3>1. raw < tier => value < Comfort!TierUpper(tier, tiers) + Comfort!Band
      <4>1. raw < tier => value <= tiers[raw + 1]
        BY <1>3, <2>1
      <4>2. raw < tier /\ tier # Len(tiers) => tiers[raw + 1] <= tiers[tier + 1]
        <5>1. SUFFICES ASSUME raw < tier, tier # Len(tiers)
                       PROVE  tiers[raw + 1] <= tiers[tier + 1]
          OBVIOUS
        <5>2. /\ raw + 1 \in 1..Len(tiers) /\ tier + 1 \in 1..Len(tiers)
              /\ raw + 1 < tier + 1
          BY <1>1, <1>3, <2>1, <5>1
        <5>3. QED
          BY <1>1, <5>2
      <4>3. raw < tier => tiers[raw + 1] \in Int /\ tiers[raw + 1] <= 2000
        BY <1>1, <1>3, <2>1
      <4>4. tier # Len(tiers) => tiers[tier + 1] \in Int
        BY <1>1, <2>1
      <4>5. QED
        BY <1>1, <1>2, <2>1, <4>1, <4>2, <4>3, <4>4 DEF Comfort!TierUpper, Comfort!Band
    <3>2. raw > tier => Comfort!TierLower(tier, tiers) - Comfort!Band < value
      <4>1. raw > tier => tiers[raw] < value /\ tiers[raw] \in Int
        BY <1>1, <1>3, <2>1
      <4>2. raw > tier /\ tier # 0 => tiers[tier] <= tiers[raw]
        BY <1>1, <1>3, <2>1
      <4>3. tier # 0 => tiers[tier] \in Int
        BY <1>1, <2>1
      <4>4. QED
        BY <1>1, <1>2, <2>1, <4>1, <4>2, <4>3 DEF Comfort!TierLower, Comfort!Band
    <3>3. Comfort!WithinBand(value, tier, tiers)
      <4>1. CASE raw = tier
        BY <1>6, <4>1
      <4>2. CASE raw < tier
        BY <1>2, <1>4, <2>1, <2>3, <3>1, <4>2 DEF Comfort!WithinBand, Comfort!Band
      <4>3. CASE raw > tier
        BY <1>2, <1>4, <2>1, <2>3, <3>2, <4>3 DEF Comfort!WithinBand, Comfort!Band
      <4>4. QED
        BY <2>1, <4>1, <4>2, <4>3
    <3>4. QED
      BY <2>1, <2>3, <3>3
  <2>4. QED
    BY <1>8, <2>2, <2>3 DEF Comfort!Hysteresis, raw
<1>9. QED
  BY <1>7, <1>8
-----------------------------------------------------------------------------
(* The comfort label.                                                      *)

\* There is a reading to every label.
HasReading == (cached = None) <=> (accepted = None)

\* The last change of temperature tier was made by a reading that lies on the
\* tier's side of the bound it passed, so only one Band away undoes it.
Turned ==
  /\ turn \in [dir : {"none", "up", "down"}, at : Int]
  /\ turn.dir # "none" => tempTier # None
  /\ turn.dir = "up" => Comfort!TierLower(tempTier, Comfort!TempTiers) < turn.at
  /\ turn.dir = "down" => turn.at <= Comfort!TierUpper(tempTier, Comfort!TempTiers)

\* The inductive invariant.
ComfortInv ==
  Comfort!ComfortTypeOK /\ HasReading /\ Comfort!TiersFollowReading /\ Comfort!LabelMatchesTiers /\ Turned

\* A composed label is a label.
LEMMA ComposeFacts ==
  ASSUME Comfort!ComfortAssumption, NEW r \in Comfort!Readings,
         NEW temp \in Int, NEW moisture \in Int \cup {None}
  PROVE  Comfort!Compose(r, temp, moisture) # None
<1>1. Comfort!Danger(r.heat, r.chill) \in
        {"none", "Dangerous Heat", "Extreme Danger Heat", "Dangerous Cold",
         "Extreme Danger Cold"}
  BY DEF Comfort!Danger
<1>2. Comfort!Saturated \in Int
  BY Tables DEF Comfort!Saturated
<1>3. Comfort!Compose(r, temp, moisture) \in Comfort!Labels
  BY <1>1, <1>2 DEF Comfort!Compose, Comfort!Label, Comfort!Labels
<1>4. QED
  BY <1>3 DEF Comfort!ComfortAssumption

\* What classify() works out for a reading from the tiers it has.
LEMMA NewTierFacts ==
  ASSUME Comfort!ComfortAssumption, Comfort!ComfortTypeOK, NEW r \in Comfort!Readings
  PROVE  /\ r # None
         /\ r.app \in Comfort!Reachable /\ r.app \in Int
         /\ Comfort!NewTemp(r) \in 0..Len(Comfort!TempTiers) /\ Comfort!NewTemp(r) \in Int
         /\ Comfort!WithinBand(r.app, Comfort!NewTemp(r), Comfort!TempTiers)
         /\ tempTier # None /\ Comfort!NewTemp(r) < tempTier =>
              /\ r.app <= Comfort!TierLower(tempTier, Comfort!TempTiers) - Comfort!Band
              /\ r.app <= Comfort!TierUpper(Comfort!NewTemp(r), Comfort!TempTiers)
         /\ tempTier # None /\ Comfort!NewTemp(r) > tempTier =>
              /\ r.app >= Comfort!TierUpper(tempTier, Comfort!TempTiers) + Comfort!Band
              /\ r.app > Comfort!TierLower(Comfort!NewTemp(r), Comfort!TempTiers)
         /\ Comfort!NewMoisture(r) \in 0..Len(Comfort!MoistureTiers) \cup {None}
         /\ r.dew # None => Comfort!WithinBand(r.dew, Comfort!NewMoisture(r), Comfort!MoistureTiers)
         /\ Comfort!Base(r) # None
<1>1. /\ r.app \in Comfort!Reachable /\ r.dew \in Comfort!Reachable \cup {None}
      /\ r # None /\ None \notin Int
  BY DEF Comfort!ComfortAssumption, Comfort!Readings
<1>2. r.app \in Int
  BY <1>1 DEF Comfort!Reachable
<1>3. /\ tempTier \in 0..Len(Comfort!TempTiers) \cup {None}
      /\ moistureTier \in 0..Len(Comfort!MoistureTiers) \cup {None}
  BY DEF Comfort!ComfortTypeOK
<1>4. /\ Comfort!NewTemp(r) \in 0..Len(Comfort!TempTiers)
      /\ Comfort!WithinBand(r.app, Comfort!NewTemp(r), Comfort!TempTiers)
      /\ tempTier # None /\ Comfort!NewTemp(r) < tempTier =>
           /\ r.app <= Comfort!TierLower(tempTier, Comfort!TempTiers) - Comfort!Band
           /\ r.app <= Comfort!TierUpper(Comfort!NewTemp(r), Comfort!TempTiers)
      /\ tempTier # None /\ Comfort!NewTemp(r) > tempTier =>
           /\ r.app >= Comfort!TierUpper(tempTier, Comfort!TempTiers) + Comfort!Band
           /\ r.app > Comfort!TierLower(Comfort!NewTemp(r), Comfort!TempTiers)
  BY <1>1, <1>3, HysteresisFacts DEF Comfort!NewTemp
<1>5. /\ Comfort!NewMoisture(r) \in 0..Len(Comfort!MoistureTiers) \cup {None}
      /\ r.dew # None => Comfort!WithinBand(r.dew, Comfort!NewMoisture(r), Comfort!MoistureTiers)
  BY <1>1, <1>3, HysteresisFacts DEF Comfort!NewMoisture
<1>6. Len(Comfort!TempTiers) \in Nat /\ Len(Comfort!MoistureTiers) \in Nat
  BY Tables
<1>7. Comfort!NewTemp(r) \in Int /\ Comfort!NewMoisture(r) \in Int \cup {None}
  BY <1>4, <1>5, <1>6
<1>8. Comfort!Base(r) # None
  BY <1>7, ComposeFacts DEF Comfort!Base
<1>9. QED
  BY <1>1, <1>2, <1>4, <1>5, <1>7, <1>8

\* The module's state at start satisfies the invariant.
LEMMA ComfortInit ==
  ASSUME Comfort!ComfortAssumption
  PROVE  Comfort!Init => ComfortInv
<1> SUFFICES ASSUME Comfort!Init PROVE ComfortInv
  OBVIOUS
<1>1. /\ now = 0 /\ tempTier = None /\ moistureTier = None /\ cached = None
      /\ cacheTime = 0 /\ accepted = None /\ shownSince = 0
      /\ turn = [dir |-> "none", at |-> 0]
  BY DEF Comfort!Init
<1>2. Comfort!ComfortTypeOK
  BY <1>1 DEF Comfort!ComfortTypeOK, Comfort!ComfortAssumption
<1>3. Turned
  BY <1>1 DEF Turned
<1>4. QED
  BY <1>1, <1>2, <1>3
     DEF ComfortInv, HasReading, Comfort!TiersFollowReading, Comfort!LabelMatchesTiers

\* What classify() writes when it does not hold a label back.
LEMMA AcceptedFacts ==
  ASSUME Comfort!ComfortAssumption, ComfortInv, NEW r \in Comfort!Readings, Comfort!Classify(r), ~ Comfort!Held(r)
  PROVE  /\ tempTier' = Comfort!NewTemp(r) /\ moistureTier' = Comfort!NewMoisture(r)
         /\ cached' = Comfort!Base(r) /\ cacheTime' = now /\ accepted' = r
         /\ shownSince' = (IF Comfort!Base(r) = cached THEN shownSince ELSE now)
         /\ turn' = (IF tempTier = None \/ Comfort!NewTemp(r) = tempTier THEN turn
                     ELSE [dir |-> IF Comfort!NewTemp(r) > tempTier THEN "up" ELSE "down",
                           at  |-> r.app])
         /\ now' = now
  BY DEF Comfort!Classify, Comfort!Note

\* classify() keeps the invariant.
LEMMA ClassifyKeeps ==
  ASSUME Comfort!ComfortAssumption, ComfortInv, NEW r \in Comfort!Readings, Comfort!Classify(r)
  PROVE  ComfortInv'
<1>1. CASE Comfort!Held(r)
  <2>1. /\ UNCHANGED <<tempTier, moistureTier, cached, cacheTime, accepted,
                       shownSince, turn>>
        /\ UNCHANGED now
    BY <1>1 DEF Comfort!Classify
  <2>2. QED
    BY <2>1 DEF ComfortInv, Comfort!ComfortTypeOK, HasReading, Comfort!TiersFollowReading,
                Comfort!LabelMatchesTiers, Turned
<1>2. CASE ~ Comfort!Held(r)
  <2>1. /\ tempTier' = Comfort!NewTemp(r) /\ moistureTier' = Comfort!NewMoisture(r)
        /\ cached' = Comfort!Base(r) /\ cacheTime' = now /\ accepted' = r
        /\ shownSince' = (IF Comfort!Base(r) = cached THEN shownSince ELSE now)
        /\ turn' = (IF tempTier = None \/ Comfort!NewTemp(r) = tempTier THEN turn
                    ELSE [dir |-> IF Comfort!NewTemp(r) > tempTier THEN "up" ELSE "down",
                          at  |-> r.app])
        /\ now' = now
    BY <1>2, AcceptedFacts
  <2>2. Comfort!ComfortTypeOK
    BY DEF ComfortInv
  <2>3. /\ r # None
        /\ r.app \in Comfort!Reachable /\ r.app \in Int
        /\ Comfort!NewTemp(r) \in 0..Len(Comfort!TempTiers) /\ Comfort!NewTemp(r) \in Int
        /\ Comfort!WithinBand(r.app, Comfort!NewTemp(r), Comfort!TempTiers)
        /\ tempTier # None /\ Comfort!NewTemp(r) < tempTier =>
             /\ r.app <= Comfort!TierLower(tempTier, Comfort!TempTiers) - Comfort!Band
             /\ r.app <= Comfort!TierUpper(Comfort!NewTemp(r), Comfort!TempTiers)
        /\ tempTier # None /\ Comfort!NewTemp(r) > tempTier =>
             /\ r.app >= Comfort!TierUpper(tempTier, Comfort!TempTiers) + Comfort!Band
             /\ r.app > Comfort!TierLower(Comfort!NewTemp(r), Comfort!TempTiers)
        /\ Comfort!NewMoisture(r) \in 0..Len(Comfort!MoistureTiers) \cup {None}
        /\ r.dew # None => Comfort!WithinBand(r.dew, Comfort!NewMoisture(r), Comfort!MoistureTiers)
        /\ Comfort!Base(r) # None
    BY <2>2, NewTierFacts
  <2>4. None \notin Int
    BY DEF Comfort!ComfortAssumption
  <2>5. Comfort!ComfortTypeOK'
    <3>1. now \in 0..MaxTime["comfort"] /\ now \in Int /\ cacheTime \in 0..now /\ shownSince \in 0..cacheTime
      BY <2>2 DEF Comfort!ComfortTypeOK, Comfort!ComfortAssumption
    <3>2. cacheTime' \in 0..now' /\ shownSince' \in 0..cacheTime'
      BY <2>1, <3>1
    <3>3. (cached' = None) <=> (tempTier' = None)
      BY <2>1, <2>3, <2>4
    <3>4. QED
      BY <2>1, <2>3, <3>1, <3>2, <3>3 DEF Comfort!ComfortTypeOK
  <2>6. HasReading'
    BY <2>1, <2>3 DEF HasReading
  <2>7. Comfort!TiersFollowReading'
    BY <2>1, <2>3 DEF Comfort!TiersFollowReading, Comfort!WithinBand, Comfort!TierLower, Comfort!TierUpper
  <2>8. Comfort!LabelMatchesTiers'
    BY <2>1 DEF Comfort!LabelMatchesTiers, Comfort!Base
  <2>9. Turned'
    <3>1. CASE tempTier = None \/ Comfort!NewTemp(r) = tempTier
      <4>1. turn' = turn /\ tempTier' # None /\ (turn.dir # "none" => tempTier' = tempTier)
        BY <2>1, <2>3, <2>4, <3>1 DEF ComfortInv, Turned
      <4>2. QED
        BY <4>1 DEF ComfortInv, Turned
    <3>2. CASE ~ (tempTier = None \/ Comfort!NewTemp(r) = tempTier)
      <4>1. tempTier \in Int
        BY <2>2, <3>2, Tables DEF Comfort!ComfortTypeOK
      <4>2. CASE Comfort!NewTemp(r) > tempTier
        <5>1. turn' = [dir |-> "up", at |-> r.app]
          BY <2>1, <3>2, <4>2
        <5>2. Comfort!TierLower(Comfort!NewTemp(r), Comfort!TempTiers) < r.app
          BY <2>3, <3>2, <4>2, Tables DEF Comfort!TierLower
        <5>3. QED
          BY <2>1, <2>3, <2>4, <5>1, <5>2 DEF Turned
      <4>3. CASE Comfort!NewTemp(r) < tempTier
        <5>1. turn' = [dir |-> "down", at |-> r.app]
          BY <2>1, <2>3, <3>2, <4>1, <4>3
        <5>2. QED
          BY <2>1, <2>3, <2>4, <3>2, <4>3, <5>1 DEF Turned
      <4>4. QED
        BY <2>3, <3>2, <4>1, <4>2, <4>3
    <3>3. QED
      BY <3>1, <3>2
  <2>10. QED
    BY <2>5, <2>6, <2>7, <2>8, <2>9 DEF ComfortInv
<1>3. QED
  BY <1>1, <1>2

\* Every step keeps the invariant.
LEMMA ComfortNext ==
  ASSUME Comfort!ComfortAssumption
  PROVE  ComfortInv /\ [Comfort!Next]_(Comfort!vars) => ComfortInv'
<1> SUFFICES ASSUME ComfortInv, [Comfort!Next]_(Comfort!vars) PROVE ComfortInv'
  OBVIOUS
<1>1. ASSUME NEW r \in Comfort!Readings, Comfort!Classify(r) PROVE ComfortInv'
  BY <1>1, ClassifyKeeps
<1>2. CASE Comfort!Tick
  <2>1. /\ now \in 0..MaxTime["comfort"] /\ now < MaxTime["comfort"] /\ now' = now + 1
        /\ cacheTime \in 0..now /\ MaxTime["comfort"] \in Nat
    BY <1>2 DEF Comfort!Tick, ComfortInv, Comfort!ComfortTypeOK, Comfort!ComfortAssumption
  <2>2. now' \in 0..MaxTime["comfort"] /\ cacheTime \in 0..now'
    BY <2>1
  <2>3. QED
    BY <1>2, <2>2 DEF Comfort!Tick, ComfortInv, Comfort!ComfortTypeOK, HasReading,
                      Comfort!TiersFollowReading, Comfort!LabelMatchesTiers, Turned
<1>3. CASE UNCHANGED Comfort!vars
  BY <1>3 DEF Comfort!vars, ComfortInv, Comfort!ComfortTypeOK, HasReading, Comfort!TiersFollowReading,
              Comfort!LabelMatchesTiers, Turned
<1>4. QED
  BY <1>1, <1>2, <1>3 DEF Comfort!Next

\* The inductive invariant of the comfort label holds throughout.
THEOREM ComfortInvariant ==
  ASSUME Comfort!ComfortAssumption
  PROVE  Comfort!Spec => []ComfortInv
<1>1. Comfort!Init => ComfortInv
  BY ComfortInit
<1>2. ComfortInv /\ [Comfort!Next]_(Comfort!vars) => ComfortInv'
  BY ComfortNext
<1>3. QED
  BY <1>1, <1>2, PTL DEF Comfort!Spec

\* The tiers are within Band of the reading whose label is shown, and are the
\* ones the label was composed of, so hysteresis starts from what is shown
\* (_apply_temp_hysteresis, _apply_moisture_hysteresis, classify).
THEOREM TiersAreOfTheLabel ==
  ASSUME Comfort!ComfortAssumption
  PROVE  Comfort!Spec => [](Comfort!ComfortTypeOK /\ Comfort!TiersFollowReading /\ Comfort!LabelMatchesTiers)
<1>1. ComfortInv => Comfort!ComfortTypeOK /\ Comfort!TiersFollowReading /\ Comfort!LabelMatchesTiers
  BY DEF ComfortInv
<1>2. QED
  BY <1>1, ComfortInvariant, PTL

\* What a step does to the label shown, after a label was shown for shorter
\* than Hold.
HeldLong == cached # None /\ cached' # cached => now - shownSince >= Hold

\* What a step does to the tier of the temperature.
Steady ==
  (tempTier # None /\ tempTier' # tempTier) =>
    /\ (turn.dir = "up" /\ tempTier' < tempTier)
         => accepted'.app <= turn.at - Comfort!Band
    /\ (turn.dir = "down" /\ tempTier' > tempTier)
         => accepted'.app >= turn.at + Comfort!Band

\* No step changes the label too early.
LEMMA HoldsLong ==
  ASSUME Comfort!ComfortAssumption, ComfortInv, [Comfort!Next]_(Comfort!vars)
  PROVE  HeldLong
<1> SUFFICES ASSUME cached # None, cached' # cached
             PROVE  now - shownSince >= Hold
  BY DEF HeldLong
<1>1. PICK r \in Comfort!Readings : Comfort!Classify(r)
  BY DEF Comfort!Next, Comfort!vars, Comfort!Tick
<1>2. ~ Comfort!Held(r)
  BY <1>1 DEF Comfort!Classify
<1>3. cached' = Comfort!Base(r)
  BY <1>1, <1>2 DEF Comfort!Classify
<1>4. ~ (now - cacheTime < Hold)
  BY <1>2, <1>3 DEF Comfort!Held
<1>5. /\ now \in Int /\ cacheTime \in 0..now /\ shownSince \in 0..cacheTime
      /\ Hold \in Int
  BY DEF ComfortInv, Comfort!ComfortTypeOK, Comfort!ComfortAssumption
<1>6. QED
  BY <1>4, <1>5

\* No step takes a change of tier back too early.
LEMMA StaysSteady ==
  ASSUME Comfort!ComfortAssumption, ComfortInv, [Comfort!Next]_(Comfort!vars)
  PROVE  Steady
<1> SUFFICES ASSUME tempTier # None, tempTier' # tempTier
             PROVE  /\ (turn.dir = "up" /\ tempTier' < tempTier)
                         => accepted'.app <= turn.at - Comfort!Band
                    /\ (turn.dir = "down" /\ tempTier' > tempTier)
                         => accepted'.app >= turn.at + Comfort!Band
  BY DEF Steady
<1>1. PICK r \in Comfort!Readings : Comfort!Classify(r)
  BY DEF Comfort!Next, Comfort!vars, Comfort!Tick
<1>2. ~ Comfort!Held(r)
  BY <1>1 DEF Comfort!Classify
<1>3. tempTier' = Comfort!NewTemp(r) /\ accepted' = r
  BY <1>1, <1>2, AcceptedFacts
<1>4. Comfort!ComfortTypeOK /\ Turned
  BY DEF ComfortInv
<1>5. /\ r.app \in Int
      /\ Comfort!NewTemp(r) < tempTier
           => r.app <= Comfort!TierLower(tempTier, Comfort!TempTiers) - Comfort!Band
      /\ Comfort!NewTemp(r) > tempTier
           => r.app >= Comfort!TierUpper(tempTier, Comfort!TempTiers) + Comfort!Band
  BY <1>4, NewTierFacts
<1>6. tempTier \in 0..Len(Comfort!TempTiers)
  BY <1>4 DEF Comfort!ComfortTypeOK
<1>7. /\ Comfort!TierLower(tempTier, Comfort!TempTiers) \in Int
      /\ Comfort!TierUpper(tempTier, Comfort!TempTiers) \in Int
  BY <1>6, Tables DEF Comfort!TierLower, Comfort!TierUpper
<1>8. /\ turn.at \in Int
      /\ turn.dir = "up" => Comfort!TierLower(tempTier, Comfort!TempTiers) < turn.at
      /\ turn.dir = "down" => turn.at <= Comfort!TierUpper(tempTier, Comfort!TempTiers)
  BY <1>4 DEF Turned
<1>9. QED
  BY <1>3, <1>5, <1>7, <1>8 DEF Comfort!Band

\* A label that has been shown is not replaced before Hold is over, however
\* often and by whomever classify() is called.
THEOREM LabelsAreHeld ==
  ASSUME Comfort!ComfortAssumption
  PROVE  Comfort!Spec => Comfort!LabelIsHeld
<1>1. ComfortInv /\ [Comfort!Next]_(Comfort!vars) => [HeldLong]_(Comfort!vars)
  BY HoldsLong
<1>2. QED
  BY <1>1, ComfortInvariant, PTL DEF Comfort!Spec, Comfort!LabelIsHeld, HeldLong

\* No bouncing: a change of temperature tier is undone only by a reading at
\* least Band away from the one that caused it (_apply_temp_hysteresis).
THEOREM TiersDoNotBounce ==
  ASSUME Comfort!ComfortAssumption
  PROVE  Comfort!Spec => Comfort!NoBounce
<1>1. ComfortInv /\ [Comfort!Next]_(Comfort!vars) => [Steady]_(Comfort!vars)
  BY StaysSteady
<1>2. QED
  BY <1>1, ComfortInvariant, PTL DEF Comfort!Spec, Comfort!NoBounce, Steady
-----------------------------------------------------------------------------
(* The scene.                                                              *)

\* Two kinds of precipitation, two states of a request.
SceneShape ==
  /\ scenePc \in [Request -> {"idle", "fetching"}]
  /\ obs = [r \in Request |-> obs[r]]
  /\ wet \in [Scene!Precip -> 0..now \cup {None}]

\* The last detection is the latest of what was observed.
Detected ==
  /\ lastPrecip # None => lastOverlay \in Scene!Precip /\ wet[lastOverlay] = lastPrecip
  /\ \A p \in Scene!Precip :
       wet[p] # None => lastPrecip # None /\ wet[p] <= lastPrecip

\* The label kept for the night is that of the last response, and no
\* detection is later than it.
Answered ==
  response # None =>
    /\ Scene!MapSky(providerSky) = response.scene.sky
    /\ Scene!Lingering(lastPrecip, lastOverlay, now) \in {response.scene.overlay, None}

\* The inductive invariant.
SceneInv == Scene!SceneTypeOK /\ SceneShape /\ Detected /\ Answered

\* What the assumption says of time and of None.
LEMMA SceneConstants ==
  ASSUME Scene!SceneAssumption
  PROVE  /\ MaxTime["scene"] \in Nat /\ Linger \in Nat
         /\ None \notin Int /\ None \notin Scene!Precip
<1>1. MaxTime["scene"] \in Nat /\ Linger \in Nat
  BY DEF Scene!SceneAssumption
<1>2. None \notin Int /\ None \notin {"rain", "snow"}
  BY DEF Scene!SceneAssumption
<1>3. QED
  BY <1>1, <1>2 DEF Scene!Precip

\* The module's state at start satisfies the invariant.
LEMMA SceneInit ==
  ASSUME Scene!SceneAssumption
  PROVE  Scene!Init => SceneInv
<1> SUFFICES ASSUME Scene!Init PROVE SceneInv
  OBVIOUS
<1>1. /\ now = 0 /\ solar = None /\ lastPrecip = None /\ lastOverlay = None
      /\ providerSky = None /\ response = None
      /\ scenePc = [r \in Request |-> "idle"] /\ obs = [r \in Request |-> None]
      /\ wet = [p \in Scene!Precip |-> None]
  BY DEF Scene!Init
<1>2. Scene!SceneTypeOK
  <2>1. now \in 0..MaxTime["scene"]
    BY <1>1, SceneConstants
  <2>2. \A r \in Request : scenePc[r] # "fetching" /\ obs[r] = None
    BY <1>1
  <2>3. \A r \in Request :
          obs[r] \in (IF scenePc[r] = "fetching" THEN Scene!Observation ELSE {None})
    BY <2>2
  <2>4. QED
    BY <1>1, <2>1, <2>3 DEF Scene!SceneTypeOK
<1>3. SceneShape
  BY <1>1 DEF SceneShape
<1>4. Detected /\ Answered
  BY <1>1 DEF Detected, Answered
<1>5. QED
  BY <1>2, <1>3, <1>4 DEF SceneInv

\* What enrich_scene makes of an observation.
LEMMA FinishFacts ==
  ASSUME Scene!SceneAssumption, SceneInv, NEW r \in Request, Scene!Finish(r)
  PROVE  \E precipType \in Scene!Precip \cup {None} :
           LET o == Scene!WeatherText(obs[r])
               label == Scene!SkyLabel(o)
               overlay == Scene!OverlayOf(precipType, o)
           IN /\ overlay \in Scene!Precip \cup {None}
              /\ label \in Solar \cup Clouds \cup {None, "Thunderstorm"}
              /\ providerSky' = label
              /\ response'.scene.sky = Scene!MapSky(label)
              /\ response'.scene.overlay =
                   Scene!Lingering(lastPrecip', lastOverlay', now)
              /\ overlay # None => /\ lastPrecip' = now /\ lastOverlay' = overlay
                                   /\ wet' = [wet EXCEPT ![overlay] = now]
              /\ overlay = None => UNCHANGED <<lastPrecip, lastOverlay, wet>>
<1>1. scenePc[r] = "fetching" /\ obs[r] \in Scene!Observation
  BY DEF Scene!Finish, SceneInv, Scene!SceneTypeOK
<1> DEFINE o == Scene!WeatherText(obs[r])
           label == Scene!SkyLabel(o)
           overlay(p) == Scene!OverlayOf(p, o)
<1>2. PICK p \in Scene!Precip \cup {None} :
        /\ Scene!UpdateProviderSky(label)
        /\ Scene!DetectPrecip(overlay(p))
        /\ response' = [told |-> obs[r],
                        scene |-> Scene!Scene(label, providerSky', lastPrecip',
                                              lastOverlay', now)]
        /\ wet' = IF overlay(p) = None THEN wet ELSE [wet EXCEPT ![overlay(p)] = now]
  BY DEF Scene!Finish
<1>3. o \in Scene!Observation
  BY <1>1 DEF Scene!WeatherText, Scene!Observation
<1>4. label \in Solar \cup Clouds \cup {None, "Thunderstorm"}
  <2>1. solar \in Solar \cup {None} /\ o.clouds \in Clouds
    BY <1>3 DEF SceneInv, Scene!SceneTypeOK, Scene!Observation
  <2>2. QED
    BY <2>1 DEF Scene!SkyLabel
<1>5. overlay(p) \in Scene!Precip \cup {None}
  BY DEF Scene!OverlayOf, Scene!Precip
<1> HIDE DEF o, label, overlay
<1>6. providerSky' = label
  BY <1>2 DEF Scene!UpdateProviderSky
<1>7. /\ response'.scene.sky = Scene!MapSky(label)
      /\ response'.scene.overlay = Scene!Lingering(lastPrecip', lastOverlay', now)
  <2>1. response'.scene = Scene!Scene(label, label, lastPrecip', lastOverlay', now)
    BY <1>2, <1>6
  <2>2. QED
    BY <2>1 DEF Scene!Scene
<1>8. /\ overlay(p) # None => /\ lastPrecip' = now /\ lastOverlay' = overlay(p)
                              /\ wet' = [wet EXCEPT ![overlay(p)] = now]
      /\ overlay(p) = None => UNCHANGED <<lastPrecip, lastOverlay, wet>>
  BY <1>2 DEF Scene!DetectPrecip
<1>9. QED
  BY <1>4, <1>5, <1>6, <1>7, <1>8 DEF o, label, overlay

\* The end of a request keeps the invariant.
LEMMA FinishKeeps ==
  ASSUME Scene!SceneAssumption, SceneInv, NEW r \in Request, Scene!Finish(r)
  PROVE  SceneInv'
<1>1. PICK precipType \in Scene!Precip \cup {None} :
        LET o == Scene!WeatherText(obs[r])
            label == Scene!SkyLabel(o)
            overlay == Scene!OverlayOf(precipType, o)
        IN /\ overlay \in Scene!Precip \cup {None}
           /\ label \in Solar \cup Clouds \cup {None, "Thunderstorm"}
           /\ providerSky' = label
           /\ response'.scene.sky = Scene!MapSky(label)
           /\ response'.scene.overlay =
                Scene!Lingering(lastPrecip', lastOverlay', now)
           /\ overlay # None => /\ lastPrecip' = now /\ lastOverlay' = overlay
                                /\ wet' = [wet EXCEPT ![overlay] = now]
           /\ overlay = None => UNCHANGED <<lastPrecip, lastOverlay, wet>>
  BY FinishFacts
<1> DEFINE overlay == Scene!OverlayOf(precipType, Scene!WeatherText(obs[r]))
<1>2. /\ overlay \in Scene!Precip \cup {None}
      /\ providerSky' \in Solar \cup Clouds \cup {None, "Thunderstorm"}
      /\ response'.scene.sky = Scene!MapSky(providerSky')
      /\ response'.scene.overlay = Scene!Lingering(lastPrecip', lastOverlay', now)
      /\ overlay # None => /\ lastPrecip' = now /\ lastOverlay' = overlay
                           /\ wet' = [wet EXCEPT ![overlay] = now]
      /\ overlay = None => UNCHANGED <<lastPrecip, lastOverlay, wet>>
  BY <1>1
<1> HIDE DEF overlay
<1>3. /\ scenePc' = [scenePc EXCEPT ![r] = "idle"] /\ obs' = [obs EXCEPT ![r] = None]
      /\ now' = now /\ solar' = solar
  BY DEF Scene!Finish
<1>4. Scene!SceneTypeOK /\ SceneShape /\ Detected
  BY DEF SceneInv
<1>5. None \notin Int /\ None \notin Scene!Precip /\ now \in 0..MaxTime["scene"] /\ MaxTime["scene"] \in Nat
  BY <1>4, SceneConstants DEF Scene!SceneTypeOK
<1>6. \A q \in Request : obs'[q] \in
        (IF scenePc'[q] = "fetching" THEN Scene!Observation ELSE {None})
  <2>1. TAKE q \in Request
  <2>2. obs[q] \in (IF scenePc[q] = "fetching" THEN Scene!Observation ELSE {None})
    BY <1>4 DEF Scene!SceneTypeOK
  <2>3. CASE q = r
    BY <1>3, <1>4, <2>3 DEF SceneShape
  <2>4. CASE q # r
    BY <1>3, <1>4, <2>2, <2>4 DEF SceneShape
  <2>5. QED
    BY <2>3, <2>4
<1>7. SceneShape'
  <2>1. scenePc' \in [Request -> {"idle", "fetching"}] /\ obs' = [q \in Request |-> obs'[q]]
    BY <1>3, <1>4 DEF SceneShape
  <2>2. wet' \in [Scene!Precip -> 0..now \cup {None}]
    <3>1. now \in 0..now \cup {None}
      BY <1>5
    <3>2. QED
      BY <1>2, <1>4, <3>1 DEF SceneShape
  <2>3. QED
    BY <1>3, <2>1, <2>2 DEF SceneShape
<1>8. Detected'
  <2>1. CASE overlay = None
    BY <1>2, <1>4, <2>1 DEF Detected
  <2>2. CASE overlay # None
    <3>1. /\ overlay \in Scene!Precip /\ lastPrecip' = now /\ lastOverlay' = overlay
          /\ wet' = [wet EXCEPT ![overlay] = now] /\ wet'[overlay] = now
      BY <1>2, <1>4, <2>2 DEF SceneShape
    <3>2. \A p \in Scene!Precip : wet'[p] # None => wet'[p] <= now
      <4>1. TAKE p \in Scene!Precip
      <4>2. wet[p] \in 0..now \cup {None}
        BY <1>4 DEF SceneShape
      <4>3. wet'[p] = now \/ wet'[p] = wet[p]
        BY <3>1, <1>4 DEF SceneShape
      <4>4. QED
        BY <1>5, <4>2, <4>3
    <3>3. QED
      BY <1>5, <3>1, <3>2 DEF Detected
  <2>3. QED
    BY <2>1, <2>2
<1>9. Answered'
  BY <1>2, <1>3 DEF Answered
<1>10. Scene!SceneTypeOK'
  <2>1. /\ lastPrecip' \in 0..now \cup {None} /\ lastOverlay' \in Scene!Precip \cup {None}
        /\ (lastPrecip' = None) <=> (lastOverlay' = None)
    <3>1. CASE overlay = None
      BY <1>2, <1>4, <3>1 DEF Scene!SceneTypeOK
    <3>2. CASE overlay # None
      BY <1>2, <1>5, <3>2
    <3>3. QED
      BY <3>1, <3>2
  <2>2. QED
    BY <1>2, <1>3, <1>4, <1>6, <2>1 DEF Scene!SceneTypeOK
<1>11. QED
  BY <1>7, <1>8, <1>9, <1>10 DEF SceneInv

\* The arrival of an observation keeps the invariant.
LEMMA ArriveKeeps ==
  ASSUME Scene!SceneAssumption, SceneInv, NEW r \in Request, Scene!Arrive(r)
  PROVE  SceneInv'
<1>1. PICK o \in Scene!Observation : obs' = [obs EXCEPT ![r] = o]
  BY DEF Scene!Arrive
<1>2. /\ scenePc' = [scenePc EXCEPT ![r] = "fetching"]
      /\ UNCHANGED <<now, solar, lastPrecip, lastOverlay, providerSky, response, wet>>
  BY DEF Scene!Arrive
<1>3. Scene!SceneTypeOK /\ SceneShape /\ Detected /\ Answered
  BY DEF SceneInv
<1>4. \A q \in Request : obs'[q] \in
        (IF scenePc'[q] = "fetching" THEN Scene!Observation ELSE {None})
  <2>1. TAKE q \in Request
  <2>2. obs[q] \in (IF scenePc[q] = "fetching" THEN Scene!Observation ELSE {None})
    BY <1>3 DEF Scene!SceneTypeOK
  <2>3. CASE q = r
    BY <1>1, <1>2, <1>3, <2>3 DEF SceneShape
  <2>4. CASE q # r
    BY <1>1, <1>2, <1>3, <2>2, <2>4 DEF SceneShape
  <2>5. QED
    BY <2>3, <2>4
<1>5. SceneShape'
  BY <1>1, <1>2, <1>3 DEF SceneShape
<1>6. Scene!SceneTypeOK'
  BY <1>2, <1>3, <1>4 DEF Scene!SceneTypeOK
<1>7. Detected' /\ Answered'
  BY <1>2, <1>3 DEF Detected, Answered
<1>8. QED
  BY <1>5, <1>6, <1>7 DEF SceneInv

\* The passing of time keeps the invariant.
LEMMA SceneTickKeeps ==
  ASSUME Scene!SceneAssumption, SceneInv, Scene!Tick
  PROVE  SceneInv'
<1>1. /\ now < MaxTime["scene"] /\ now' = now + 1
      /\ UNCHANGED <<solar, lastPrecip, lastOverlay, providerSky, scenePc, obs, response, wet>>
  BY DEF Scene!Tick
<1>2. Scene!SceneTypeOK /\ SceneShape /\ Detected /\ Answered
  BY DEF SceneInv
<1>3. /\ now \in 0..MaxTime["scene"] /\ MaxTime["scene"] \in Int /\ Linger \in Int
      /\ lastPrecip \in 0..now \cup {None} /\ None \notin Int
  BY <1>2, SceneConstants DEF Scene!SceneTypeOK
<1>4. now' \in 0..MaxTime["scene"] /\ 0..now \subseteq 0..now'
  BY <1>1, <1>3
<1>5. Scene!SceneTypeOK'
  BY <1>1, <1>2, <1>4 DEF Scene!SceneTypeOK
<1>6. SceneShape'
  <2>1. wet' \in [Scene!Precip -> 0..now' \cup {None}]
    BY <1>1, <1>2, <1>4 DEF SceneShape
  <2>2. QED
    BY <1>1, <1>2, <2>1 DEF SceneShape
<1>7. Detected'
  BY <1>1, <1>2 DEF Detected
<1>8. Answered'
  <2>1. Scene!Lingering(lastPrecip, lastOverlay, now')
          \in {Scene!Lingering(lastPrecip, lastOverlay, now), None}
    BY <1>1, <1>3 DEF Scene!Lingering
  <2>2. QED
    BY <1>1, <1>2, <2>1 DEF Answered
<1>9. QED
  BY <1>5, <1>6, <1>7, <1>8 DEF SceneInv

\* Every step keeps the invariant.
LEMMA SceneNext ==
  ASSUME Scene!SceneAssumption
  PROVE  SceneInv /\ [Scene!Next]_(Scene!vars) => SceneInv'
<1> SUFFICES ASSUME SceneInv, [Scene!Next]_(Scene!vars) PROVE SceneInv'
  OBVIOUS
<1>1. CASE Scene!Tick
  BY <1>1, SceneTickKeeps
<1>2. CASE Scene!SolarChanges
  <2>1. /\ solar' \in Solar \cup {None}
        /\ UNCHANGED <<now, lastPrecip, lastOverlay, providerSky, scenePc, obs, response, wet>>
    BY <1>2 DEF Scene!SolarChanges
  <2>2. QED
    BY <2>1 DEF SceneInv, Scene!SceneTypeOK, SceneShape, Detected, Answered
<1>3. ASSUME NEW r \in Request, Scene!Arrive(r) PROVE SceneInv'
  BY <1>3, ArriveKeeps
<1>4. ASSUME NEW r \in Request, Scene!Finish(r) PROVE SceneInv'
  BY <1>4, FinishKeeps
<1>5. CASE UNCHANGED Scene!vars
  BY <1>5 DEF Scene!vars, SceneInv, Scene!SceneTypeOK, SceneShape, Detected, Answered
<1>6. QED
  BY <1>1, <1>2, <1>3, <1>4, <1>5 DEF Scene!Next

\* What the invariant says of the scenes shown.
LEMMA SceneFacts ==
  ASSUME Scene!SceneAssumption, SceneInv
  PROVE  Scene!SceneTypeOK /\ Scene!SameSceneAtNight /\ Scene!OverlayLingers
<1>1. Scene!SameSceneAtNight
  <2> SUFFICES ASSUME solar = None, response # None
               PROVE  /\ Scene!PacketScene.sky = response.scene.sky
                      /\ Scene!PacketScene.overlay \in {response.scene.overlay, None}
    BY DEF Scene!SameSceneAtNight
  <2>1. /\ Scene!PacketScene.sky = Scene!MapSky(providerSky)
        /\ Scene!PacketScene.overlay = Scene!Lingering(lastPrecip, lastOverlay, now)
    BY DEF Scene!PacketScene, Scene!Scene
  <2>2. QED
    BY <2>1 DEF SceneInv, Answered
<1>2. Scene!OverlayLingers
  <2> DEFINE recent == {p \in Scene!Precip :
                          IF wet[p] = None THEN FALSE ELSE now - wet[p] <= Linger}
             overlay == Scene!Lingering(lastPrecip, lastOverlay, now)
  <2>1. Scene!PacketScene.overlay = overlay
    BY DEF Scene!PacketScene, Scene!Scene
  <2>2. /\ None \notin Int /\ Linger \in Int /\ None \notin Scene!Precip
        /\ lastPrecip \in 0..now \cup {None} /\ now \in Int
        /\ lastPrecip # None => lastOverlay \in Scene!Precip /\ wet[lastOverlay] = lastPrecip
        /\ \A p \in Scene!Precip : wet[p] \in 0..now \cup {None}
        /\ \A p \in Scene!Precip : wet[p] # None => lastPrecip # None /\ wet[p] <= lastPrecip
    <3>1. /\ None \notin Int /\ Linger \in Int /\ None \notin Scene!Precip
          /\ lastPrecip \in 0..now \cup {None} /\ now \in Int
      BY SceneConstants DEF SceneInv, Scene!SceneTypeOK
    <3>2. \A p \in Scene!Precip : wet[p] \in 0..now \cup {None}
      BY DEF SceneInv, SceneShape
    <3>3. QED
      BY <3>1, <3>2 DEF SceneInv, Detected
  <2>3. CASE lastPrecip = None \/ now - lastPrecip > Linger
    <3>1. overlay = None
      BY <2>2, <2>3 DEF Scene!Lingering
    <3>2. ASSUME NEW p \in recent PROVE FALSE
      BY <2>2, <2>3
    <3>3. QED
      BY <2>1, <3>1, <3>2 DEF Scene!OverlayLingers
  <2>4. CASE lastPrecip # None /\ ~ (now - lastPrecip > Linger)
    <3>1. overlay = lastOverlay
      BY <2>4 DEF Scene!Lingering
    <3>2. lastOverlay \in recent /\ \A p \in recent : wet[p] <= wet[lastOverlay]
      BY <2>2, <2>4
    <3> HIDE DEF recent
    <3>3. QED
      BY <2>1, <3>1, <3>2 DEF Scene!OverlayLingers, recent
  <2>5. QED
    BY <2>3, <2>4
<1>3. QED
  BY <1>1, <1>2 DEF SceneInv

\* The inductive invariant of the scene holds throughout.
THEOREM SceneInvariant ==
  ASSUME Scene!SceneAssumption
  PROVE  Scene!Spec => []SceneInv
<1>1. Scene!Init => SceneInv
  BY SceneInit
<1>2. SceneInv /\ [Scene!Next]_(Scene!vars) => SceneInv'
  BY SceneNext
<1>3. QED
  BY <1>1, <1>2, PTL DEF Scene!Spec

\* By night a packet shows the sky of the last response, and its overlay
\* unless that has run out since, whatever was in flight with it
\* (update_provider_sky, detect_precip, build_scene).
THEOREM NightScenesAgree ==
  ASSUME Scene!SceneAssumption
  PROVE  Scene!Spec => [](Scene!SceneTypeOK /\ Scene!SameSceneAtNight)
<1>1. SceneInv => Scene!SceneTypeOK /\ Scene!SameSceneAtNight
  BY SceneFacts
<1>2. QED
  BY <1>1, SceneInvariant, PTL

\* The overlay is that of the last detection, lasts for Linger through any
\* number of dry observations, and no longer (detect_precip, build_scene).
THEOREM OverlaysLinger ==
  ASSUME Scene!SceneAssumption
  PROVE  Scene!Spec => []Scene!OverlayLingers
<1>1. SceneInv => Scene!OverlayLingers
  BY SceneFacts
<1>2. QED
  BY <1>1, SceneInvariant, PTL
-----------------------------------------------------------------------------
(* The trend of the barometer.                                             *)

\* What the last response is made of lies in the archive, at the time the
\* configuration asks for, give or take the grace.
InWindowOfTrend ==
  /\ used.record \in 1..clock /\ used.at \in 0..clock
  /\ records[used.record] \in Pressure /\ used.current \in Pressure
  /\ used.window \in {Default, Trend}
  /\ used.at - used.record >= used.window[1] - used.window[2]
  /\ used.at - used.record <= used.window[1] + used.window[2]

\* The trend is near the rise of the pressure, if reading and record are in the
\* same unit, and so is its direction if that unit is the one assumed.
DirectionIsOfRise ==
  LET rise == Barometer!Number(Barometer!Rise, units.native)
      threshold == Barometer!Number(10, units.native)
  IN
  /\ answer.direction = None <=> Barometer!ResolvePressureUnit = None
  /\ Barometer!SameUnit => 2 * Barometer!Distance(answer.trend, rise) <= Barometer!Rounding
  /\ Barometer!SameUnit /\ Barometer!ResolvePressureUnit = units.native =>
       /\ 2 * rise > 2 * threshold + Barometer!Rounding => answer.direction = "rising"
       /\ 2 * rise < -(2 * threshold) - Barometer!Rounding => answer.direction = "falling"
       /\ answer.direction = "rising" => 2 * rise > 2 * threshold - Barometer!Rounding
       /\ answer.direction = "falling" => 2 * rise < Barometer!Rounding - 2 * threshold

\* The inductive invariant of the trend.
BarometerInv ==
  /\ clock \in 0..MaxTime["barometer"]
  /\ pressure \in Pressure
  /\ records \in Seq(Pressure \cup {None}) /\ Len(records) = clock
  /\ units \in [native : Barometer!Unit, inferred : Barometer!Unit,
                target : Barometer!Unit \cup {None}, custom : BOOLEAN]
  /\ trendConfig \in {None, Trend}
  /\ answer.direction \in {"rising", "falling", "steady", None}
  /\ used.record \in 0..used.at /\ used.converts \in BOOLEAN
  /\ answer.trend # None => InWindowOfTrend /\ DirectionIsOfRise

\* Products with a number that is not negative keep the order.
LEMMA ProductOrder ==
  ASSUME NEW a \in Int, NEW b \in Int, NEW s \in Nat, a <= b
  PROVE  a * s <= b * s
<1> DEFINE d == b - a
<1>1. d \in Nat /\ b = d + a
  OBVIOUS
<1> HIDE DEF d
<1>2. d * s \in Nat
  BY <1>1
<1>3. (d + a) * s = d * s + a * s
  BY <1>1
<1>4. a * s \in Int
  OBVIOUS
<1>5. QED
  BY <1>1, <1>2, <1>3, <1>4

\* ... and can be cancelled, if it is not zero.
LEMMA ProductCancel ==
  ASSUME NEW a \in Int, NEW b \in Int, NEW s \in Nat \ {0}, a * s <= b * s
  PROVE  a <= b
<1> SUFFICES ASSUME b + 1 <= a PROVE FALSE
  OBVIOUS
<1>1. (b + 1) * s <= a * s
  BY ProductOrder
<1>2. (b + 1) * s = b * s + s
  OBVIOUS
<1>3. a * s \in Int /\ b * s \in Int
  OBVIOUS
<1>4. QED
  BY <1>1, <1>2, <1>3

\* What is at most half a step from a number in some unit is so in any.
LEMMA ScaledDistance ==
  ASSUME NEW n \in Int, NEW v \in Int, NEW step \in Nat, NEW s \in Nat \ {0},
         2 * Barometer!Distance(n * s, v * s) <= step * s
  PROVE  2 * Barometer!Distance(n, v) <= step
<1>1. ASSUME NEW a \in Int, NEW b \in Int, b <= a, 2 * (a * s - b * s) <= step * s
      PROVE  2 * (a - b) <= step
  <2> DEFINE d == a - b
  <2>1. d \in Int /\ a = b + d
    BY <1>1
  <2> HIDE DEF d
  <2>2. a * s = b * s + d * s
    BY <2>1
  <2>3. a * s \in Int /\ b * s \in Int /\ d * s \in Int /\ (2 * d) * s = 2 * (d * s)
    BY <1>1, <2>1
  <2>4. (2 * d) * s <= step * s
    BY <1>1, <2>2, <2>3
  <2>5. 2 * d <= step
    BY <2>1, <2>4, ProductCancel
  <2>6. QED
    BY <2>5 DEF d
<1>2. n * s \in Int /\ v * s \in Int
  OBVIOUS
<1>3. CASE v <= n
  <2>1. v * s <= n * s
    BY <1>3, ProductOrder
  <2>2. 2 * (n * s - v * s) <= step * s
    BY <1>2, <2>1 DEF Barometer!Distance
  <2>3. QED
    BY <1>1, <1>3, <2>2 DEF Barometer!Distance
<1>4. CASE n < v
  <2>1. n * s <= v * s
    BY <1>4, ProductOrder
  <2>2. 2 * (v * s - n * s) <= step * s
    BY <1>2, <2>1 DEF Barometer!Distance
  <2>3. QED
    BY <1>1, <1>4, <2>2 DEF Barometer!Distance
<1>5. QED
  BY <1>3, <1>4

\* What the assumption says of the constants.
LEMMA BarometerConstants ==
  ASSUME Barometer!BarometerAssumption
  PROVE  /\ Pressure \subseteq Nat /\ MaxTime["barometer"] \in Nat
         /\ None \notin Barometer!Unit \cup {"rising", "falling", "steady"}
         /\ \A u \in Barometer!Unit : Scale[u] \in Nat \ {0} /\ Step[u] \in Nat \ {0}
<1>1. Scale \in [DOMAIN Scale -> Nat \ {0}] /\ Step \in [DOMAIN Scale -> Nat \ {0}]
  BY DEF Barometer!BarometerAssumption
<1>2. QED
  BY <1>1 DEF Barometer!BarometerAssumption, Barometer!Unit

\* A reading that was not converted is shown to within half a step of its format.
LEMMA TakenFacts ==
  ASSUME Barometer!BarometerAssumption, NEW p \in Pressure, NEW converts \in BOOLEAN,
         units \in [native : Barometer!Unit, inferred : Barometer!Unit,
                   target : Barometer!Unit \cup {None}, custom : BOOLEAN],
         NEW number \in Barometer!Taken(p, converts)
  PROVE  /\ number \in Int
         /\ (converts => units.target \in {None, units.inferred}) =>
              2 * Barometer!Distance(number, Barometer!Number(p, units.native))
                <= IF converts THEN Step[Barometer!DisplayUnit] ELSE 0
<1> DEFINE u == Barometer!DisplayUnit
           v == Barometer!Number(p, units.native)
           s == Scale[units.inferred]
           step == Step[u]
<1>1. /\ u \in Barometer!Unit /\ units.native \in Barometer!Unit
      /\ units.inferred \in Barometer!Unit
  BY DEF Barometer!DisplayUnit
<1>2. v \in Int /\ s \in Nat \ {0} /\ step \in Nat \ {0} /\ Scale[u] \in Nat \ {0}
  BY <1>1, BarometerConstants DEF Barometer!Number
<1>3. CASE ~ converts
  <2>1. number = v
    BY <1>3 DEF Barometer!Taken
  <2>2. QED
    BY <1>2, <1>3, <2>1 DEF Barometer!Distance
<1>4. CASE converts
  <2> DEFINE below == (v * Scale[u]) \div (step * s)
  <2>1. PICK k \in {below, below + 1} :
          /\ number = step * k
          /\ 2 * Barometer!Distance(k * (step * s), v * Scale[u]) <= step * s
    BY <1>4 DEF Barometer!Taken, Barometer!Displayed
  <2>2. below \in Int
    <3>1. v * Scale[u] \in Int /\ step * s \in Nat \ {0}
      BY <1>2
    <3> HIDE DEF v, s, step
    <3>2. QED
      BY <3>1
  <2> HIDE DEF below
  <2>3. k \in Int
    BY <2>1, <2>2
  <2>4. ASSUME units.target \in {None, units.inferred}
        PROVE  2 * Barometer!Distance(number, v) <= step
    <3>1. Scale[u] = s
      BY <2>4 DEF Barometer!DisplayUnit
    <3> HIDE DEF u, v, s, step
    <3>2. k * (step * s) = (step * k) * s
      BY <1>2, <2>3
    <3>3. 2 * Barometer!Distance((step * k) * s, v * s) <= step * s
      BY <2>1, <3>1, <3>2
    <3>4. step * k \in Int
      BY <1>2, <2>3
    <3>5. 2 * Barometer!Distance(step * k, v) <= step
      BY <1>2, <3>3, <3>4, ScaledDistance
    <3>6. QED
      BY <2>1, <3>5
  <2>5. number \in Int
    BY <1>2, <2>1, <2>3
  <2>6. QED
    BY <1>4, <2>4, <2>5
<1>5. QED
  BY <1>3, <1>4

\* Before the first response the invariant holds.
LEMMA BarometerInit ==
  ASSUME Barometer!BarometerAssumption
  PROVE  Barometer!Init => BarometerInv
<1> SUFFICES ASSUME Barometer!Init PROVE BarometerInv
  OBVIOUS
<1>1. <<>> \in Seq(Pressure \cup {None}) /\ Len(<<>>) = 0
  OBVIOUS
<1>2. QED
  BY <1>1, BarometerConstants
     DEF Barometer!Init, BarometerInv, Barometer!Null, Barometer!Nothing

\* The archive grows; what a response was made of is still there.
LEMMA BarometerTickKeeps ==
  ASSUME Barometer!BarometerAssumption, BarometerInv, Barometer!Tick
  PROVE  BarometerInv'
<1>1. PICK x \in {pressure', None} : records' = Append(records, x)
  BY DEF Barometer!Tick
<1>2. /\ clock' = clock + 1 /\ clock < MaxTime["barometer"] /\ clock \in Nat
      /\ pressure' \in Pressure /\ units' = units /\ trendConfig' = trendConfig
      /\ answer' = answer /\ used' = used
      /\ clock \in 0..MaxTime["barometer"]
      /\ records \in Seq(Pressure \cup {None}) /\ Len(records) = clock
  BY DEF Barometer!Tick, BarometerInv
<1>3. /\ records' \in Seq(Pressure \cup {None}) /\ Len(records') = clock'
      /\ \A i \in 1..clock : records'[i] = records[i]
  BY <1>1, <1>2, AppendFacts
<1>4. ASSUME answer.trend # None
      PROVE  InWindowOfTrend' /\ DirectionIsOfRise'
  <2>1. InWindowOfTrend /\ DirectionIsOfRise
    BY <1>4 DEF BarometerInv
  <2>2. used.record \in 1..clock /\ records'[used.record] = records[used.record]
    BY <1>3, <2>1 DEF InWindowOfTrend
  <2>3. InWindowOfTrend'
    BY <1>2, <2>1, <2>2 DEF InWindowOfTrend
  <2>4. Barometer!Rise' = Barometer!Rise
    BY <1>2, <2>2 DEF Barometer!Rise
  <2>5. DirectionIsOfRise'
    BY <1>2, <2>1, <2>4 DEF DirectionIsOfRise, Barometer!Number, Barometer!SameUnit,
                            Barometer!Rounding, Barometer!DisplayUnit,
                            Barometer!ResolvePressureUnit
  <2>6. QED
    BY <2>3, <2>5
<1>5. clock' \in 0..MaxTime["barometer"]
  BY <1>2, BarometerConstants
<1>6. QED
  BY <1>2, <1>3, <1>4, <1>5 DEF BarometerInv

\* A response is made of the reading and of the oldest record of the window
\* (enrich_barometer_trend).
LEMMA BarometerEnrichKeeps ==
  ASSUME Barometer!BarometerAssumption, BarometerInv, Barometer!Enrich
  PROVE  BarometerInv'
<1> DEFINE w == IF trendConfig' # None THEN trendConfig' ELSE Default
           T == Barometer!WithinGrace(w)
           t == Barometer!Oldest(T)
<1>1. PICK reading \in {pressure, None}, loads \in BOOLEAN, answers \in BOOLEAN,
           converts \in BOOLEAN :
        /\ trendConfig' = IF reading # None /\ trendConfig = None /\ loads
                          THEN Trend ELSE trendConfig
        /\ IF reading # None /\ answers /\ T # {} /\ records[t] # None
           THEN /\ \E number \in Barometer!Taken(reading, converts) :
                     LET trend == number - Barometer!Number(records[t], units.native) IN
                     answer' = [trend |-> trend,
                                direction |-> Barometer!ClassifyDirection(trend,
                                                Barometer!ResolvePressureUnit)]
                /\ used' = [current |-> reading, at |-> clock, record |-> t,
                            window |-> w, converts |-> converts]
           ELSE answer' = Barometer!Null /\ used' = Barometer!Nothing
        /\ UNCHANGED <<clock, pressure, records, units>>
  BY DEF Barometer!Enrich
<1>2. /\ clock \in Nat /\ clock \in 0..MaxTime["barometer"] /\ pressure \in Pressure
      /\ records \in Seq(Pressure \cup {None}) /\ Len(records) = clock
      /\ units \in [native : Barometer!Unit, inferred : Barometer!Unit,
                    target : Barometer!Unit \cup {None}, custom : BOOLEAN]
      /\ trendConfig' \in {None, Trend} /\ w \in {Default, Trend}
  BY <1>1 DEF BarometerInv
<1> DEFINE made == reading # None /\ answers /\ T # {} /\ records[t] # None
<1>3. CASE ~ made
  <2>1. answer' = Barometer!Null /\ used' = Barometer!Nothing
    BY <1>1, <1>3
  <2>2. /\ answer'.trend = None /\ answer'.direction = None
        /\ used'.record = 0 /\ used'.at = 0 /\ used'.converts \in BOOLEAN
    BY <2>1 DEF Barometer!Null, Barometer!Nothing
  <2>3. QED
    BY <1>1, <1>2, <2>2 DEF BarometerInv
<1>4. CASE made
  <2> DEFINE unit == Barometer!ResolvePressureUnit
             record == Barometer!Number(records[t], units.native)
  <2>1. PICK number \in Barometer!Taken(reading, converts) :
          /\ answer' = [trend |-> number - record,
                        direction |-> Barometer!ClassifyDirection(number - record, unit)]
          /\ used' = [current |-> reading, at |-> clock, record |-> t, window |-> w,
                      converts |-> converts]
    BY <1>1, <1>4
  <2>2. /\ reading \in Pressure /\ T # {} /\ records[t] # None
    BY <1>2, <1>4
  <2> HIDE DEF made, w
  <2>3. /\ t \in 1..clock
        /\ t >= clock - w[1] - w[2] /\ t <= clock - w[1] + w[2]
    <3>1. DOMAIN records = 1..clock
      BY <1>2
    <3>2. T \subseteq Nat
      BY <1>2, <3>1 DEF Barometer!WithinGrace
    <3>3. \E u \in T : \A v \in T : u <= v
      BY <2>2, <3>2, LeastNat
    <3>4. t \in T
      BY <3>3 DEF Barometer!Oldest
    <3>5. QED
      BY <3>1, <3>4 DEF Barometer!WithinGrace
  <2>4. w[1] \in Int /\ w[2] \in Int
    BY <1>2 DEF Barometer!BarometerAssumption
  <2> HIDE DEF t, T
  <2>5. records[t] \in Pressure
    BY <1>2, <2>2, <2>3, ElementOfSeq
  <2>6. InWindowOfTrend'
    <3>1. /\ used'.record = t /\ used'.at = clock /\ used'.window = w
          /\ used'.current = reading
      BY <2>1
    <3>2. clock - t >= w[1] - w[2] /\ clock - t <= w[1] + w[2]
      BY <1>2, <2>3, <2>4
    <3>3. QED
      BY <1>1, <1>2, <2>2, <2>3, <2>5, <3>1, <3>2 DEF InWindowOfTrend
  <2>7. /\ Barometer!Rise' = reading - records[t] /\ units' = units
        /\ Barometer!SameUnit' = (converts => units.target \in {None, units.inferred})
        /\ Barometer!Rounding' = IF converts THEN Step[Barometer!DisplayUnit] ELSE 0
        /\ unit' = unit
    BY <1>1, <2>1 DEF Barometer!Rise, Barometer!SameUnit, Barometer!Rounding,
                      Barometer!DisplayUnit, Barometer!ResolvePressureUnit
  <2> DEFINE trend == number - record
             s == Scale[units.native]
             rise == (reading - records[t]) * s
             same == converts => units.target \in {None, units.inferred}
             round == IF converts THEN Step[Barometer!DisplayUnit] ELSE 0
  <2>8. answer'.trend = trend /\ answer'.direction = Barometer!ClassifyDirection(trend, unit)
    BY <2>1
  <2>9. /\ s \in Nat \ {0} /\ reading \in Int /\ records[t] \in Int /\ round \in Nat
        /\ unit \in Barometer!Unit \cup {None}
    BY <1>2, <2>2, <2>5, BarometerConstants
       DEF Barometer!DisplayUnit, Barometer!ResolvePressureUnit
  <2>10. /\ number \in Int /\ record \in Int /\ rise \in Int /\ trend \in Int
         /\ same => 2 * Barometer!Distance(trend, rise) <= round
    <3>1. /\ number \in Int
          /\ same => 2 * Barometer!Distance(number, Barometer!Number(reading, units.native))
                       <= round
      BY <1>2, <2>2, TakenFacts
    <3>2. Barometer!Number(reading, units.native) = reading * s /\ record = records[t] * s
      BY DEF Barometer!Number
    <3> HIDE DEF s, round, same, record
    <3>3. reading * s \in Int /\ records[t] * s \in Int /\ rise = reading * s - records[t] * s
      BY <2>9
    <3> HIDE DEF rise
    <3>4. QED
      BY <2>9, <3>1, <3>2, <3>3 DEF Barometer!Distance
  <2>11. DirectionIsOfRise'
    <3> DEFINE threshold == Barometer!Number(10, units.native)
               direction == Barometer!ClassifyDirection(trend, unit)
    <3>1. Barometer!Number(Barometer!Rise, units.native)' = rise
      BY <2>7 DEF Barometer!Number
    <3>2. threshold' = threshold /\ threshold = 10 * s /\ threshold \in Nat
      BY <2>7, <2>9 DEF Barometer!Number
    <3>3. direction = None <=> unit = None
      BY BarometerConstants DEF Barometer!ClassifyDirection
    <3>4. ASSUME unit = units.native
          PROVE  /\ direction = "rising" <=> trend > threshold
                 /\ direction = "falling" <=> trend < -threshold
      <4>1. unit # None /\ Barometer!Number(10, unit) = threshold
        BY <1>2, <3>4, BarometerConstants
      <4> HIDE DEF trend, threshold, unit
      <4>2. direction = IF trend > threshold THEN "rising"
                        ELSE IF trend < -threshold THEN "falling" ELSE "steady"
        BY <2>10, <3>2, <4>1 DEF Barometer!ClassifyDirection
      <4> HIDE DEF direction
      <4>3. QED
        BY <2>10, <3>2, <4>2
    <3> HIDE DEF s, rise, round, same, trend, direction, threshold, unit
    <3>5. ASSUME same, unit = units.native
          PROVE  /\ 2 * rise > 2 * threshold + round => direction = "rising"
                 /\ 2 * rise < -(2 * threshold) - round => direction = "falling"
                 /\ direction = "rising" => 2 * rise > 2 * threshold - round
                 /\ direction = "falling" => 2 * rise < round - 2 * threshold
      BY <2>9, <2>10, <3>2, <3>4, <3>5 DEF Barometer!Distance
    <3>6. QED
      BY <2>7, <2>8, <2>10, <3>1, <3>2, <3>3, <3>5
         DEF DirectionIsOfRise, s, rise, round, same, trend, direction, threshold, unit
  <2>12. Barometer!ClassifyDirection(trend, unit) \in {"rising", "falling", "steady", None}
    BY DEF Barometer!ClassifyDirection
  <2>13. used'.record \in 0..used'.at /\ used'.converts \in BOOLEAN
    BY <1>2, <2>1, <2>3
  <2>14. QED
    BY <1>1, <1>2, <2>6, <2>8, <2>11, <2>12, <2>13 DEF BarometerInv
<1>5. QED
  BY <1>3, <1>4

\* Every step keeps it.
LEMMA BarometerNext ==
  ASSUME Barometer!BarometerAssumption
  PROVE  BarometerInv /\ [Barometer!Next]_(Barometer!vars) => BarometerInv'
<1> SUFFICES ASSUME BarometerInv, [Barometer!Next]_(Barometer!vars) PROVE BarometerInv'
  OBVIOUS
<1>1. CASE Barometer!Tick
  BY <1>1, BarometerTickKeeps
<1>2. CASE Barometer!Enrich
  BY <1>2, BarometerEnrichKeeps
<1>3. CASE UNCHANGED Barometer!vars
  BY <1>3 DEF Barometer!vars, BarometerInv, InWindowOfTrend, DirectionIsOfRise,
              Barometer!Number, Barometer!Rise, Barometer!SameUnit, Barometer!Rounding,
              Barometer!DisplayUnit, Barometer!ResolvePressureUnit
<1>4. QED
  BY <1>1, <1>2, <1>3 DEF Barometer!Next

\* What the invariant says of the trend.
LEMMA BarometerFacts ==
  ASSUME BarometerInv
  PROVE  Barometer!BarometerTypeOK /\ Barometer!TrendIsRight
<1>1. \A i \in 1..clock : records[i] \in Pressure \cup {None}
  BY ElementOfSeq DEF BarometerInv
<1>2. Barometer!BarometerTypeOK
  BY <1>1 DEF BarometerInv, Barometer!BarometerTypeOK
<1>3. Barometer!TrendIsRight
  BY DEF BarometerInv, InWindowOfTrend, DirectionIsOfRise, Barometer!TrendIsRight
<1>4. QED
  BY <1>2, <1>3
-----------------------------------------------------------------------------
(* Units.                                                                  *)

Codes == {1, 16, 17}

\* What a response is made of: the last record, all of them, or none yet.
UnitsInv ==
  /\ system \in Codes
  /\ targets \in Target
  /\ labels \in [outTemp : {Units!UNIT_SYSTEMS[system].outTemp, None},
                 rain : {Units!UNIT_SYSTEMS[system].rain, None}]
  /\ measured \in Seq(Record)
  /\ shown # None =>
       /\ measured # <<>>
       /\ shown = Units!TransformRecord(measured[Len(measured)],
                                        Units!InferUsUnits(labels))
  /\ archive # <<>> =>
       archive = [i \in DOMAIN measured |->
                    Units!TransformRecord(measured[i], Units!InferUsUnits(labels))]
  /\ loop # None =>
       /\ measured # <<>>
       /\ loop = Units!ConvertPacket(measured[Len(measured)],
                                     Units!UNIT_SYSTEMS[IF declared THEN system ELSE 1])

\* Before the first record the invariant holds.
LEMMA UnitsInit == Units!Init => UnitsInv
<1> SUFFICES ASSUME Units!Init PROVE UnitsInv
  OBVIOUS
<1>1. <<>> \in Seq(Record)
  OBVIOUS
<1>2. QED
  BY <1>1 DEF Units!Init, UnitsInv, Codes

\* What a record is converted to is a matter of the configuration only.
LEMMA SameConversion ==
  ASSUME targets' = targets, format' = format
  PROVE  /\ \A rec, c : Units!TransformRecord(rec, c)' = Units!TransformRecord(rec, c)
         /\ \A rec, u : Units!ConvertPacket(rec, u)' = Units!ConvertPacket(rec, u)
<1>1. \A rec, c : Units!TransformRecord(rec, c)' = Units!TransformRecord(rec, c)
  BY DEF Units!TransformRecord, Units!Field, Units!Formats, Units!ShownIn
<1>2. \A rec, u : Units!ConvertPacket(rec, u)' = Units!ConvertPacket(rec, u)
  BY DEF Units!ConvertPacket, Units!AddDerivedFields, Units!Field, Units!Formats,
         Units!ShownIn
<1>3. QED
  BY <1>1, <1>2

\* Every step keeps it.
LEMMA UnitsNext == UnitsInv /\ [Units!Next]_(Units!vars) => UnitsInv'
<1> SUFFICES ASSUME UnitsInv, [Units!Next]_(Units!vars) PROVE UnitsInv'
  OBVIOUS
<1>1. /\ system' = system /\ targets' = targets /\ format' = format /\ labels' = labels
      /\ measured' \in Seq(Record)
  BY DEF Units!Next, Units!vars, Units!Measure, Units!Current, Units!Archive, Units!Emit,
         UnitsInv
<1>2. /\ \A rec, c : Units!TransformRecord(rec, c)' = Units!TransformRecord(rec, c)
      /\ \A rec, u : Units!ConvertPacket(rec, u)' = Units!ConvertPacket(rec, u)
  BY <1>1, SameConversion
<1>3. CASE Units!Measure
  BY <1>1, <1>3 DEF Units!Measure, UnitsInv
<1>4. CASE Units!Current
  BY <1>1, <1>2, <1>4 DEF Units!Current, UnitsInv
<1>5. CASE Units!Archive
  BY <1>1, <1>2, <1>5 DEF Units!Archive, UnitsInv
<1>6. CASE Units!Emit
  BY <1>1, <1>2, <1>6 DEF Units!Emit, UnitsInv
<1>7. CASE UNCHANGED Units!vars
  BY <1>1, <1>2, <1>7 DEF Units!vars, UnitsInv
<1>8. QED
  BY <1>3, <1>4, <1>5, <1>6, <1>7 DEF Units!Next

\* No unit of a system is no value.
LEMMA UnitsAreUnits ==
  ASSUME Units!UnitsAssumption, NEW c \in Codes, NEW o \in Units!Observation
  PROVE  Units!UNIT_SYSTEMS[c][o] # None /\ Units!ShownIn(o, Units!UNIT_SYSTEMS[c][o]) # None
BY DEF Units!UnitsAssumption, Codes, Units!ShownIn

\* A field of a record, before it is shown in another unit.
AsRead(f, unit) == [f EXCEPT !.shown = unit]

\* A record is converted whole, or left as it is for a value or a format of
\* its own (transform_record).
LEMMA TransformFacts ==
  ASSUME Units!UnitsAssumption, NEW rec, NEW c \in Codes
  PROVE  LET a == Units!TransformRecord(rec, c)
             u == Units!UNIT_SYSTEMS[c]
         IN  /\ a.converted =>
                  /\ \A o \in Units!Observation : rec[o] # Word
                  /\ a.fields = [o \in Units!Observation |-> Units!Field(o, rec[o], u[o])]
                  /\ a.beaufort = Units!Derived(AsRead(Units!Field("windSpeed",
                                                  rec["windSpeed"], u["windSpeed"]),
                                                  u["windSpeed"]), u["windSpeed"])
                  /\ a.comfortIndex = Units!Derived(AsRead(Units!Field("outTemp",
                                                      rec["outTemp"], u["outTemp"]),
                                                      u["outTemp"]), u["outTemp"])
             /\ ~ a.converted =>
                  /\ \A o \in Units!Observation : a.fields[o].shown = None
                  /\ \E o \in Units!Observation :
                       rec[o] = Word \/ (rec[o] # None /\ format # None)
<1> DEFINE a == Units!TransformRecord(rec, c)
           u == Units!UNIT_SYSTEMS[c]
           bad == \E o \in Units!Observation : rec[o] = Word \/ ~ Units!Formats(o, rec[o], u[o])
           field == [o \in Units!Observation |-> Units!Field(o, rec[o], u[o])]
           source == [o \in Units!Observation |-> AsRead(field[o], u[o])]
           whole == [converted |-> TRUE, fields |-> field,
                     beaufort |-> Units!Derived(source.windSpeed, u.windSpeed),
                     comfortIndex |-> Units!Derived(source.outTemp, u.outTemp)]
<1>1. a = IF bad THEN Units!Raw(rec) ELSE whole
  BY DEF Units!TransformRecord, AsRead
<1>2. Units!Raw(rec).converted = FALSE
  BY DEF Units!Raw
<1>3. \A o \in Units!Observation : Units!Raw(rec).fields[o].shown = None
  BY DEF Units!Raw, Units!NoField
<1>4. /\ whole.converted = TRUE /\ whole.fields = field
      /\ whole.beaufort = Units!Derived(source.windSpeed, u.windSpeed)
      /\ whole.comfortIndex = Units!Derived(source.outTemp, u.outTemp)
  OBVIOUS
<1>5. /\ source.windSpeed = AsRead(Units!Field("windSpeed", rec["windSpeed"],
                                             u["windSpeed"]), u["windSpeed"])
      /\ source.outTemp = AsRead(Units!Field("outTemp", rec["outTemp"], u["outTemp"]),
                                u["outTemp"])
  <2>1. "windSpeed" \in Units!Observation /\ "outTemp" \in Units!Observation
    BY DEF Units!Observation
  <2>2. QED
    BY <2>1, Zenon
<1>6. ASSUME bad
      PROVE  \E o \in Units!Observation : rec[o] = Word \/ (rec[o] # None /\ format # None)
  <2>1. PICK o \in Units!Observation : rec[o] = Word \/ ~ Units!Formats(o, rec[o], u[o])
    BY <1>6
  <2>2. Units!ShownIn(o, u[o]) # None
    BY UnitsAreUnits
  <2>3. QED
    BY <2>1, <2>2 DEF Units!Formats
<1> HIDE DEF whole, source
<1>7. CASE bad
  <2>1. a.converted = FALSE /\ \A o \in Units!Observation : a.fields[o].shown = None
    BY <1>1, <1>2, <1>3, <1>7
  <2>2. QED
    BY <1>6, <1>7, <2>1
<1>8. CASE ~ bad
  <2>1. a = whole
    BY <1>1, <1>8
  <2>2. \A o \in Units!Observation : rec[o] # Word
    BY <1>8
  <2> HIDE DEF a, bad
  <2>3. a.converted = TRUE
    BY <1>4, <2>1
  <2>4. QED
    BY <1>4, <1>5, <2>1, <2>2, <2>3 DEF a
<1>9. QED
  BY <1>7, <1>8

\* What is derived from a measurement is derived from it as it was measured,
\* from the record as from the field shown (add_derived_fields).
AsMeasured(v, unit) == IF v = None THEN None ELSE [of |-> v, in |-> unit]

LEMMA DerivedFacts ==
  ASSUME NEW o, NEW v, NEW unit, unit # None
  PROVE  /\ Units!Derived(AsRead(Units!Field(o, v, unit), unit), unit)
              = AsMeasured(v, unit)
         /\ targets[o] # None =>
              Units!Derived(Units!Field(o, v, unit), targets[o]) = AsMeasured(v, unit)
<1>1. CASE v = None
  <2>1. /\ Units!Field(o, v, unit).value = None
        /\ AsRead(Units!Field(o, v, unit), unit).value = None
    BY <1>1 DEF Units!Field, Units!NoField, AsRead
  <2>2. QED
    BY <1>1, <2>1 DEF Units!Derived, AsMeasured
<1>2. CASE v # None
  <2> DEFINE f == Units!Field(o, v, unit)
             g == AsRead(f, unit)
  <2>1. f = [value |-> v, read |-> unit, shown |-> Units!ShownIn(o, unit)]
    BY <1>2 DEF Units!Field
  <2>2. /\ f.value = v /\ f.read = unit /\ f.shown = Units!ShownIn(o, unit)
    BY <2>1
  <2>3. /\ g.value = v /\ g.read = unit /\ g.shown = unit
    BY <2>1 DEF AsRead
  <2> HIDE DEF f, g
  <2>4. Units!Derived(g, unit) = [of |-> v, in |-> unit]
    BY <1>2, <2>3 DEF Units!Derived
  <2>5. targets[o] # None => Units!Derived(f, targets[o]) = [of |-> v, in |-> unit]
    BY <1>2, <2>2 DEF Units!Derived, Units!ShownIn
  <2>6. QED
    BY <1>2, <2>4, <2>5 DEF f, g, AsMeasured
<1>3. QED
  BY <1>1, <1>2

LEMMA DerivedAlike ==
  ASSUME NEW o, NEW v, NEW unit, unit # None, targets[o] # None
  PROVE  Units!Derived(AsRead(Units!Field(o, v, unit), unit), unit)
           = Units!Derived(Units!Field(o, v, unit), targets[o])
BY DerivedFacts

\* With upstream's own labels the system is inferred right, and with its label
\* of temperature alone at least the unit of temperature (_infer_us_units).
LEMMA InferFacts ==
  ASSUME system \in Codes, Units!Has(labels, "outTemp")
  PROVE  LET c == Units!InferUsUnits(labels) IN
         /\ c \in Codes
         /\ Units!UNIT_SYSTEMS[c]["outTemp"] = Units!UNIT_SYSTEMS[system]["outTemp"]
         /\ Units!Has(labels, "rain") => c = system
<1>1. labels.outTemp = Units!UNIT_SYSTEMS[system]["outTemp"]
  BY DEF Units!Has
<1>2. Units!Has(labels, "rain") => labels.rain = Units!UNIT_SYSTEMS[system]["rain"]
  BY DEF Units!Has
<1>3. /\ Units!UNIT_SYSTEMS[1]["outTemp"] = "degree_F"
      /\ Units!UNIT_SYSTEMS[16]["outTemp"] = "degree_C" /\ Units!UNIT_SYSTEMS[16]["rain"] = "cm"
      /\ Units!UNIT_SYSTEMS[17]["outTemp"] = "degree_C" /\ Units!UNIT_SYSTEMS[17]["rain"] = "mm"
  BY DEF Units!UNIT_SYSTEMS
<1>4. QED
  BY <1>1, <1>2, <1>3 DEF Units!InferUsUnits, Codes

\* Whatever the labels are, some system is inferred.
LEMMA InferTyped == Units!InferUsUnits(labels) \in Codes
BY DEF Units!InferUsUnits, Codes

\* A packet is converted whole, text as no value, or left as it is
\* (convert_mqtt_packet, add_derived_fields).
LEMMA PacketFacts ==
  ASSUME NEW rec, NEW u, Units!ConvertPacket(rec, u).converted,
         \A o \in Units!Observation : rec[o] # Word
  PROVE  LET a == Units!ConvertPacket(rec, u) IN
         /\ a.fields = [o \in Units!Observation |-> Units!Field(o, rec[o], u[o])]
         /\ a.beaufort = Units!Derived(Units!Field("windSpeed", rec["windSpeed"], u["windSpeed"]),
                                       targets.windSpeed)
         /\ a.comfortIndex = Units!Derived(Units!Field("outTemp", rec["outTemp"], u["outTemp"]),
                                           targets.outTemp)
<1> DEFINE a == Units!ConvertPacket(rec, u)
           bad == \E o \in Units!Observation : ~ Units!Formats(o, rec[o], u[o])
           field == [o \in Units!Observation |->
                       Units!Field(o, IF rec[o] = Word THEN None ELSE rec[o], u[o])]
           right == [o \in Units!Observation |-> Units!Field(o, rec[o], u[o])]
<1>1. a = IF bad THEN Units!Raw(rec) ELSE Units!AddDerivedFields(field, u)
  BY DEF Units!ConvertPacket
<1>2. Units!Raw(rec).converted = FALSE
  BY DEF Units!Raw
<1>3. ~ bad
  BY <1>1, <1>2
<1>4. field = right
  <2>1. \A o \in Units!Observation : (IF rec[o] = Word THEN None ELSE rec[o]) = rec[o]
    OBVIOUS
  <2>2. QED
    BY <2>1
<1> HIDE DEF bad, field
<1>5. a = Units!AddDerivedFields(right, u)
  BY <1>1, <1>3, <1>4
<1>6. /\ right.windSpeed = Units!Field("windSpeed", rec["windSpeed"], u["windSpeed"])
      /\ right.outTemp = Units!Field("outTemp", rec["outTemp"], u["outTemp"])
  <2>1. "windSpeed" \in Units!Observation /\ "outTemp" \in Units!Observation
    BY DEF Units!Observation
  <2>2. QED
    BY <2>1, Zenon
<1> HIDE DEF right, a
<1>7. /\ a.fields = right
      /\ a.beaufort = Units!Derived(right.windSpeed, targets.windSpeed)
      /\ a.comfortIndex = Units!Derived(right.outTemp, targets.outTemp)
  BY <1>5 DEF Units!AddDerivedFields
<1>8. QED
  BY <1>6, <1>7 DEF a, right

\* What the invariant says of the two paths.
LEMMA PathsFacts ==
  ASSUME Units!UnitsAssumption, UnitsInv
  PROVE  Units!PathsAgree
<1> DEFINE rec == measured[Len(measured)]
           c == Units!InferUsUnits(labels)
           u == Units!UNIT_SYSTEMS[system]
           told == Units!Has(labels, "outTemp") /\ Units!Has(labels, "rain")
           wind == AsRead(Units!Field("windSpeed", rec["windSpeed"], u["windSpeed"]),
                          u["windSpeed"])
           temp == AsRead(Units!Field("outTemp", rec["outTemp"], u["outTemp"]), u["outTemp"])
<1>1. /\ system \in Codes
      /\ shown # None => shown = Units!TransformRecord(rec, c)
      /\ loop # None =>
           loop = Units!ConvertPacket(rec, Units!UNIT_SYSTEMS[IF declared THEN system ELSE 1])
  BY DEF UnitsInv
<1>2. c \in Codes
  BY InferTyped
<1>3. "windSpeed" \in Units!Observation /\ "outTemp" \in Units!Observation
  BY DEF Units!Observation
<1> HIDE DEF rec, c
<1>4. ASSUME shown # None, shown.converted
      PROVE  /\ shown.fields = [o \in Units!Observation |->
                                  Units!Field(o, rec[o], Units!UNIT_SYSTEMS[c][o])]
             /\ \A o \in Units!Observation : rec[o] # Word
  <2> DEFINE a == Units!TransformRecord(rec, c)
  <2>1. shown = a
    BY <1>1, <1>4
  <2>2. a.converted =>
          /\ a.fields = [o \in Units!Observation |->
                           Units!Field(o, rec[o], Units!UNIT_SYSTEMS[c][o])]
          /\ \A o \in Units!Observation : rec[o] # Word
    BY <1>2, TransformFacts, Zenon
  <2> HIDE DEF a
  <2>3. QED
    BY <1>4, <2>1, <2>2
<1>5. ASSUME shown # None, shown.converted, Units!Has(labels, "outTemp"),
             NEW o \in Units!Observation, o = "outTemp" \/ Units!Has(labels, "rain")
      PROVE  shown.fields[o] = Units!Field(o, rec[o], u[o])
  <2>1. Units!UNIT_SYSTEMS[c][o] = u[o]
    BY <1>1, <1>5, InferFacts DEF c
  <2>2. QED
    BY <1>4, <1>5, <2>1
<1>6. ASSUME shown # None, loop # None, shown.converted, loop.converted, declared, told
      PROVE  /\ shown.fields = loop.fields
             /\ targets.windSpeed # None => shown.beaufort = loop.beaufort
             /\ targets.outTemp # None => shown.comfortIndex = loop.comfortIndex
  <2>1. c = system
    BY <1>1, <1>6, InferFacts DEF c
  <2>2. /\ shown.fields = [o \in Units!Observation |-> Units!Field(o, rec[o], u[o])]
        /\ shown.beaufort = Units!Derived(wind, u["windSpeed"])
        /\ shown.comfortIndex = Units!Derived(temp, u["outTemp"])
    BY <1>1, <1>2, <1>6, <2>1, TransformFacts
  <2>3. \A o \in Units!Observation : rec[o] # Word
    BY <1>4, <1>6
  <2>4. loop = Units!ConvertPacket(rec, u)
    BY <1>1, <1>6
  <2> HIDE DEF u
  <2>5. /\ loop.fields = [o \in Units!Observation |-> Units!Field(o, rec[o], u[o])]
        /\ loop.beaufort = Units!Derived(Units!Field("windSpeed", rec["windSpeed"],
                                                     u["windSpeed"]), targets.windSpeed)
        /\ loop.comfortIndex = Units!Derived(Units!Field("outTemp", rec["outTemp"],
                                                         u["outTemp"]), targets.outTemp)
    BY <1>6, <2>3, <2>4, PacketFacts
  <2>6. u["windSpeed"] # None /\ u["outTemp"] # None
    BY <1>1, <1>3, UnitsAreUnits DEF u
  <2> DEFINE windField == Units!Field("windSpeed", rec["windSpeed"], u["windSpeed"])
             tempField == Units!Field("outTemp", rec["outTemp"], u["outTemp"])
  <2>7. targets["windSpeed"] # None =>
          Units!Derived(wind, u["windSpeed"]) = Units!Derived(windField, targets["windSpeed"])
    <3> SUFFICES ASSUME targets["windSpeed"] # None
                 PROVE  Units!Derived(wind, u["windSpeed"])
                          = Units!Derived(windField, targets["windSpeed"])
      OBVIOUS
    <3>1. QED
      BY <2>6, DerivedAlike
  <2>8. targets["outTemp"] # None =>
          Units!Derived(temp, u["outTemp"]) = Units!Derived(tempField, targets["outTemp"])
    <3> SUFFICES ASSUME targets["outTemp"] # None
                 PROVE  Units!Derived(temp, u["outTemp"])
                          = Units!Derived(tempField, targets["outTemp"])
      OBVIOUS
    <3>1. QED
      BY <2>6, DerivedAlike
  <2> HIDE DEF wind, temp, windField, tempField
  <2>10. /\ shown.beaufort = Units!Derived(wind, u["windSpeed"])
         /\ loop.beaufort = Units!Derived(windField, targets.windSpeed)
         /\ shown.comfortIndex = Units!Derived(temp, u["outTemp"])
         /\ loop.comfortIndex = Units!Derived(tempField, targets.outTemp)
    BY <2>2, <2>5 DEF wind, temp, windField, tempField
  <2>11. /\ targets.windSpeed # None => shown.beaufort = loop.beaufort
         /\ targets.outTemp # None => shown.comfortIndex = loop.comfortIndex
    BY <2>7, <2>8, <2>10
  <2>9. QED
    BY <2>2, <2>5, <2>11
<1>7. QED
  BY <1>5, <1>6 DEF Units!PathsAgree, rec

\* A record that is converted is converted whole.
LEMMA WholeOrRaw ==
  ASSUME Units!UnitsAssumption, NEW rec, NEW c \in Codes, NEW o \in Units!Observation,
         NEW a, a = Units!TransformRecord(rec, c)
  PROVE  IF a.converted
         THEN /\ a.fields[o].value # Word
              /\ a.fields[o].value # None =>
                   /\ a.fields[o].read # None
                   /\ a.fields[o].shown = Units!ShownIn(o, a.fields[o].read)
         ELSE a.fields[o].shown = None
<1> DEFINE u == Units!UNIT_SYSTEMS[c]
<1>1. CASE a.converted
  <2>1. /\ rec[o] # Word
        /\ a.fields[o] = Units!Field(o, rec[o], u[o])
    <3> DEFINE b == Units!TransformRecord(rec, c)
    <3>1. b.converted => /\ rec[o] # Word
                         /\ b.fields = [x \in Units!Observation |->
                                          Units!Field(x, rec[x], u[x])]
      BY TransformFacts, Zenon
    <3>2. a = b
      OBVIOUS
    <3> HIDE DEF b, u
    <3>3. QED
      BY <1>1, <3>1, <3>2
  <2>2. u[o] # None /\ Word # None
    BY UnitsAreUnits DEF Units!UnitsAssumption
  <2> HIDE DEF u
  <2>3. CASE rec[o] = None
    BY <1>1, <2>1, <2>2, <2>3 DEF Units!Field, Units!NoField
  <2>4. CASE rec[o] # None
    BY <1>1, <2>1, <2>2, <2>4 DEF Units!Field
  <2>5. QED
    BY <2>3, <2>4
<1>2. CASE ~ a.converted
  BY <1>2, TransformFacts
<1>3. QED
  BY <1>1, <1>2

\* What the invariant says of what is converted.
LEMMA AllOrRawFacts ==
  ASSUME Units!UnitsAssumption, UnitsInv
  PROVE  Units!AllOrRaw
<1> DEFINE c == Units!InferUsUnits(labels)
           n == Len(measured)
<1>1. /\ n \in Nat /\ DOMAIN measured = 1..n
      /\ measured # <<>> => n \in 1..n
  BY EmptySeq DEF UnitsInv
<1>2. c \in Codes
  BY InferTyped
<1>3. archive # <<>> => archive = [i \in 1..n |-> Units!TransformRecord(measured[i], c)]
  BY <1>1 DEF UnitsInv
<1>4. shown # None => measured # <<>> /\ shown = Units!TransformRecord(measured[n], c)
  BY DEF UnitsInv
<1> HIDE DEF c, n
<1>5. \A i \in DOMAIN archive : i \in 1..n /\ archive[i] = Units!TransformRecord(measured[i], c)
  <2>1. archive = <<>> => DOMAIN archive = {}
    OBVIOUS
  <2>2. QED
    BY <1>3, <2>1
<1>6. ASSUME NEW a \in ({shown} \ {None}) \cup {archive[i] : i \in DOMAIN archive},
             NEW o \in Units!Observation
      PROVE  IF a.converted
             THEN /\ a.fields[o].value # Word
                  /\ a.fields[o].value # None =>
                       /\ a.fields[o].read # None
                       /\ a.fields[o].shown = Units!ShownIn(o, a.fields[o].read)
             ELSE a.fields[o].shown = None
  <2>1. \E rec : a = Units!TransformRecord(rec, c)
    BY <1>4, <1>5
  <2>2. QED
    BY <1>2, <2>1, WholeOrRaw
<1>7. shown # None /\ archive # <<>> => archive[Len(archive)] = shown
  <2> SUFFICES ASSUME shown # None, archive # <<>> PROVE archive[Len(archive)] = shown
    OBVIOUS
  <2>1. Len(archive) = n /\ n \in 1..n
    BY <1>1, <1>3, <1>4
  <2>2. QED
    BY <1>3, <1>4, <2>1
<1>8. ASSUME NEW i \in DOMAIN archive, ~ archive[i].converted
      PROVE  \E o \in Units!Observation :
               measured[i][o] = Word \/ (measured[i][o] # None /\ format # None)
  BY <1>2, <1>5, <1>8, TransformFacts
<1>9. QED
  BY <1>6, <1>7, <1>8 DEF Units!AllOrRaw
-----------------------------------------------------------------------------
(* The conditions text.                                                    *)

\* A response has the text and the code of its inputs.
TextInv ==
  code # None =>
    /\ inputs \in Conditions!Inputs
    /\ text = Conditions!Text(inputs)
    /\ code = Conditions!Code(inputs)

\* Of parts of different kinds, those that are not missing are said once each.
LEMMA SaidOnce ==
  ASSUME NEW S, NEW p \in Seq(S), NEW j \in DOMAIN p,
         \A i, k \in DOMAIN p : p[i][1] = p[k][1] => i = k,
         NEW I \in SUBSET DOMAIN p, \A i \in DOMAIN p : i \in I <=> p[i][2] # None,
         NEW q, q = KeptAt(p, I),
         NEW places, \A n : n \in places <=> n \in DOMAIN q /\ q[n][1] = p[j][1]
  PROVE  (IF places = {} THEN None ELSE q[CHOOSE n \in places : TRUE][2]) = p[j][2]
<1>1. \A n \in places : n \in DOMAIN KeptAt(p, I) /\ KeptAt(p, I)[n][1] = p[j][1]
  OBVIOUS
<1>4. ASSUME NEW n \in places
      PROVE  j \in I /\ q[n] = p[j]
  <2>1. n \in DOMAIN KeptAt(p, I)
    BY <1>1
  <2>2. PICK i \in I : Rank(i, I) = n /\ KeptAt(p, I)[n] = p[i]
    BY <2>1, KeptAtFacts
  <2>3. i = j
    BY <1>1, <2>2
  <2>4. QED
    BY <2>2, <2>3
<1>5. CASE j \in I
  <2>1. Rank(j, I) \in DOMAIN KeptAt(p, I) /\ KeptAt(p, I)[Rank(j, I)] = p[j]
    BY <1>5, KeptAtFacts
  <2>2. Rank(j, I) \in places
    BY <2>1
  <2>3. (CHOOSE n \in places : TRUE) \in places
    BY <2>2
  <2>4. p[j][2] = q[CHOOSE n \in places : TRUE][2]
    BY <1>4, <2>3
  <2>5. QED
    BY <2>2, <2>4
<1>6. CASE j \notin I
  <2>1. places = {}
    BY <1>4, <1>6
  <2>2. p[j][2] = None
    BY <1>6
  <2>3. QED
    BY <2>1, <2>2
<1>7. QED
  BY <1>5, <1>6

\* What the text says of the sky and of the rain (compose_weather_text).
LEMMA TextSays ==
  ASSUME NEW in, text = Conditions!Text(in)
  PROVE  /\ Conditions!Says("sky") = Conditions!TextSky(in)
         /\ Conditions!Says("rain") = Conditions!RainLabel(in.rain)
<1> DEFINE x1 == <<"comfort", in.comfort>>
           x2 == <<"sky", Conditions!TextSky(in)>>
           x3 == <<"wind", Conditions!WindLabel(in)>>
           x4 == <<"rain", Conditions!RainLabel(in.rain)>>
           p == <<x1, x2, x3, x4>>
           S == {x1, x2, x3, x4}
<1>1. /\ x1[1] = "comfort" /\ x2[1] = "sky" /\ x3[1] = "wind" /\ x4[1] = "rain"
      /\ x2[2] = Conditions!TextSky(in) /\ x4[2] = Conditions!RainLabel(in.rain)
  OBVIOUS
<1>2. text = KeptAt(p, {i \in DOMAIN p : p[i][2] # None})
  BY DEF Conditions!Text, Conditions!KeptAt, KeptAt, Conditions!Rank, Rank,
         Conditions!Cardinality, Cardinality
<1> HIDE DEF x1, x2, x3, x4
<1>3. /\ p \in Seq(S) /\ DOMAIN p = 1..4
      /\ p[1] = x1 /\ p[2] = x2 /\ p[3] = x3 /\ p[4] = x4
  OBVIOUS
<1> HIDE DEF p, S
<1>4. \A i, k \in DOMAIN p : p[i][1] = p[k][1] => i = k
  BY <1>1, <1>3
<1>5. ASSUME NEW j \in DOMAIN p
      PROVE  Conditions!Says(p[j][1]) = p[j][2]
  <2> DEFINE places == {n \in DOMAIN text : text[n][1] = p[j][1]}
  <2>1. (IF places = {} THEN None ELSE text[CHOOSE n \in places : TRUE][2]) = p[j][2]
    <3> DEFINE I == {i \in DOMAIN p : p[i][2] # None}
    <3>1. \A n : n \in places <=> n \in DOMAIN text /\ text[n][1] = p[j][1]
      OBVIOUS
    <3>2. I \in SUBSET DOMAIN p /\ \A i \in DOMAIN p : i \in I <=> p[i][2] # None
      OBVIOUS
    <3>3. text = KeptAt(p, I)
      BY <1>2
    <3> HIDE DEF places, I
    <3>4. QED
      BY <1>3, <1>4, <3>1, <3>2, <3>3, SaidOnce
  <2>2. QED
    BY <2>1 DEF Conditions!Says
<1>6. 2 \in DOMAIN p /\ 4 \in DOMAIN p
  BY <1>3
<1>7. Conditions!Says(p[2][1]) = p[2][2] /\ Conditions!Says(p[4][1]) = p[4][2]
  BY <1>5, <1>6
<1>8. QED
  BY <1>1, <1>3, <1>7

\* The words of the sky, as sets of labels.
ClearWords == {"Clear", "Sunny", None}
MostlyClearWords == {"Mostly Clear", "Mostly Sunny"}
PartlyCloudyWords == {"Partly Cloudy"}
CloudyWords == {"Mostly Cloudy", "Cloudy"}
FoggyWords == {"Foggy"}

\* The skies of every code.
LEMMA WordsOfCode ==
  /\ Conditions!SkiesOf(0) = ClearWords
  /\ Conditions!SkiesOf(1) = MostlyClearWords
  /\ Conditions!SkiesOf(2) = PartlyCloudyWords
  /\ Conditions!SkiesOf(3) = CloudyWords
  /\ Conditions!SkiesOf(45) = FoggyWords
<1>1. /\ 1 # 0
      /\ 2 # 0 /\ 2 # 1
      /\ 3 # 0 /\ 3 # 1 /\ 3 # 2
      /\ 45 # 0 /\ 45 # 1 /\ 45 # 2 /\ 45 # 3
      /\ 0 # 1 /\ 0 # 2 /\ 0 # 3
  OBVIOUS
<1>2. Conditions!SkiesOf(0) = ClearWords
  BY <1>1, Zenon DEF Conditions!SkiesOf, ClearWords
<1>3. Conditions!SkiesOf(1) = MostlyClearWords
  BY <1>1, Zenon DEF Conditions!SkiesOf, MostlyClearWords
<1>4. Conditions!SkiesOf(2) = PartlyCloudyWords
  BY <1>1, Zenon DEF Conditions!SkiesOf, PartlyCloudyWords
<1>5. Conditions!SkiesOf(3) = CloudyWords
  BY <1>1, Zenon DEF Conditions!SkiesOf, CloudyWords
<1>6. Conditions!SkiesOf(45) = FoggyWords
  BY <1>1, Zenon DEF Conditions!SkiesOf, FoggyWords
<1>7. QED
  BY <1>2, <1>3, <1>4, <1>5, <1>6, Zenon

\* The labels, one by one.
LEMMA LabelsOfSky ==
  {Conditions!SkyLabels[i] : i \in DOMAIN Conditions!SkyLabels} =
    {"Clear", "Mostly Clear", "Partly Cloudy", "Mostly Cloudy", "Cloudy"}
<1> DEFINE L1 == "Clear"
           L2 == "Mostly Clear"
           L3 == "Partly Cloudy"
           L4 == "Mostly Cloudy"
           L5 == "Cloudy"
<1>1. Conditions!SkyLabels = <<L1, L2, L3, L4, L5>>
  BY Zenon DEF Conditions!SkyLabels
<1> HIDE DEF L1, L2, L3, L4, L5
<1>2. {Conditions!SkyLabels[i] : i \in DOMAIN Conditions!SkyLabels} = {L1, L2, L3, L4, L5}
  <2>1. /\ DOMAIN Conditions!SkyLabels = 1..5
        /\ Conditions!SkyLabels[1] = L1 /\ Conditions!SkyLabels[2] = L2
        /\ Conditions!SkyLabels[3] = L3 /\ Conditions!SkyLabels[4] = L4
        /\ Conditions!SkyLabels[5] = L5
    BY <1>1
  <2>2. QED
    BY <2>1, SMT
<1>3. QED
  BY <1>2, Zenon DEF L1, L2, L3, L4, L5

\* A label of the classifier or of a cloud cover, or none, is a word of its
\* code, by day and by night (_sky_to_code).
LEMMA SkyOfItsCode ==
  ASSUME Conditions!TextAssumption, NEW s, NEW day \in BOOLEAN,
         s \in {Conditions!SkyLabels[i] : i \in DOMAIN Conditions!SkyLabels} \cup {None}
  PROVE  Conditions!DayLabel(s, day) \in Conditions!SkiesOf(Conditions!SkyCode(s))
<1>1. CASE s = "Clear"
  <2>1. Conditions!DayLabel(s, day) \in ClearWords
    BY <1>1, Zenon DEF Conditions!DayLabel, ClearWords
  <2>2. Conditions!SkyCode(s) = 0
    BY <1>1, Zenon DEF Conditions!SkyCode
  <2>3. QED
    BY <2>1, <2>2, WordsOfCode, Zenon
<1>2. CASE s = "Mostly Clear"
  <2>1. Conditions!DayLabel(s, day) \in MostlyClearWords
    BY <1>2, Zenon DEF Conditions!DayLabel, MostlyClearWords
  <2>2. Conditions!SkyCode(s) = 1
    BY <1>2, Zenon DEF Conditions!SkyCode
  <2>3. QED
    BY <2>1, <2>2, WordsOfCode, Zenon
<1>3. CASE s = "Partly Cloudy"
  <2>1. Conditions!DayLabel(s, day) \in PartlyCloudyWords
    BY <1>3, Zenon DEF Conditions!DayLabel, PartlyCloudyWords
  <2>2. Conditions!SkyCode(s) = 2
    BY <1>3, Zenon DEF Conditions!SkyCode
  <2>3. QED
    BY <2>1, <2>2, WordsOfCode, Zenon
<1>4. CASE s = "Mostly Cloudy" \/ s = "Cloudy"
  <2>1. Conditions!DayLabel(s, day) \in CloudyWords
    BY <1>4, Zenon DEF Conditions!DayLabel, CloudyWords
  <2>2. Conditions!SkyCode(s) = 3
    BY <1>4, Zenon DEF Conditions!SkyCode
  <2>3. QED
    BY <2>1, <2>2, WordsOfCode, Zenon
<1>5. CASE s = None
  <2>1. /\ None # "Clear" /\ None # "Mostly Clear" /\ None # "Partly Cloudy"
        /\ None # "Mostly Cloudy" /\ None # "Cloudy" /\ None # "Mostly Sunny"
    BY LabelsOfSky, Zenon DEF Conditions!TextAssumption
  <2>2. Conditions!DayLabel(s, day) \in ClearWords
    BY <1>5, <2>1, Zenon DEF Conditions!DayLabel, ClearWords
  <2>3. Conditions!SkyCode(s) = 0
    BY <1>5, <2>1, Zenon DEF Conditions!SkyCode
  <2>4. QED
    BY <2>2, <2>3, WordsOfCode, Zenon
<1>6. QED
  BY <1>1, <1>2, <1>3, <1>4, <1>5, LabelsOfSky, Zenon

\* The code's sky is a label or none, unless fog is (enrich_weather_text).
LEMMA SkyOfTheCode ==
  ASSUME Conditions!TextAssumption, NEW in \in Conditions!Inputs, ~Conditions!Foggy(in)
  PROVE  /\ in.day \in BOOLEAN
         /\ Conditions!CodeSky(in) \in
              {Conditions!SkyLabels[i] : i \in DOMAIN Conditions!SkyLabels} \cup {None}
<1> DEFINE Labels == {Conditions!SkyLabels[i] : i \in DOMAIN Conditions!SkyLabels}
<1>1. in.solar \in Labels \cup {None} /\ in.day \in BOOLEAN
  <2>1. SolarLabel \subseteq Labels \cup {None}
    BY Zenon DEF Conditions!TextAssumption
  <2> HIDE DEF Labels
  <2>2. QED
    BY <2>1 DEF Conditions!Inputs
<1>2. Conditions!CloudToSky(in.cloud) \in Labels \cup {None}
  <2>1. /\ Conditions!SkyLabels[1] \in Labels /\ Conditions!SkyLabels[2] \in Labels
        /\ Conditions!SkyLabels[3] \in Labels /\ Conditions!SkyLabels[4] \in Labels
        /\ Conditions!SkyLabels[5] \in Labels
    <3>1. DOMAIN Conditions!SkyLabels = 1..5
      BY DEF Conditions!SkyLabels
    <3>2. QED
      BY <3>1
  <2> HIDE DEF Labels
  <2>2. QED
    BY <2>1 DEF Conditions!CloudToSky
<1> HIDE DEF Labels
<1>3. Conditions!CodeSky(in) \in Labels \cup {None}
  BY <1>1, <1>2 DEF Conditions!CodeSky, Conditions!ProviderSky
<1>4. QED
  BY <1>1, <1>3 DEF Labels

\* The text has the code's sky, as it is called by day or by night.
LEMMA SkyOfTheText ==
  ASSUME NEW in
  PROVE  Conditions!TextSky(in) = Conditions!DayLabel(Conditions!CodeSky(in), in.day)
BY Zenon DEF Conditions!TextSky, Conditions!CodeSky

\* The words for rain, or none.
LEMMA WordsOfRain ==
  ASSUME Conditions!TextAssumption, NEW rate
  PROVE  /\ Conditions!RainLabel(rate) \in
              {"Light Rain", "Moderate Rain", "Heavy Rain", None}
         /\ None \notin {"Light Rain", "Moderate Rain", "Heavy Rain"}
<1>1. Conditions!RainLabel(rate) \in {"Light Rain", "Moderate Rain", "Heavy Rain", None}
  <2> DEFINE L1 == "Light Rain"
             L2 == "Moderate Rain"
             L3 == "Heavy Rain"
  <2>1. Conditions!RainLabel(rate) =
          CASE rate = None -> None
            [] rate # None /\ rate <= 0 -> None
            [] rate # None /\ rate \in 1..9 -> L1
            [] rate # None /\ rate \in 10..29 -> L2
            [] OTHER -> L3
    BY Zenon DEF Conditions!RainLabel
  <2> HIDE DEF L1, L2, L3
  <2>2. Conditions!RainLabel(rate) \in {L1, L2, L3, None}
    BY <2>1
  <2>3. QED
    BY <2>2, Zenon DEF L1, L2, L3
<1>2. QED
  BY <1>1, Zenon DEF Conditions!TextAssumption

LEMMA ConditionsInit ==
  ASSUME Conditions!Init
  PROVE  TextInv
BY DEF Conditions!Init, TextInv

LEMMA ConditionsNext ==
  ASSUME TextInv, [Conditions!Next]_(Conditions!vars)
  PROVE  TextInv'
<1>1. CASE Conditions!Next
  BY <1>1, Zenon DEF Conditions!Next, Conditions!Enrich, TextInv
<1>2. CASE UNCHANGED Conditions!vars
  BY <1>2, Zenon DEF Conditions!vars, TextInv
<1>3. QED
  BY <1>1, <1>2

\* A response's code says what its text says.
LEMMA ConditionsFacts ==
  ASSUME Conditions!TextAssumption, TextInv
  PROVE  Conditions!CodeSaysWhatTextSays
<1> SUFFICES ASSUME code # None PROVE Conditions!CodeSaysWhatTextSays
  BY Zenon DEF Conditions!CodeSaysWhatTextSays
<1>1. /\ inputs \in Conditions!Inputs
      /\ text = Conditions!Text(inputs) /\ code = Conditions!Code(inputs)
  BY DEF TextInv
<1> DEFINE rain == Conditions!RainLabel(inputs.rain)
           sky == Conditions!CodeSky(inputs)
<1>2. /\ Conditions!Says("sky") = Conditions!DayLabel(sky, inputs.day)
      /\ Conditions!Says("rain") = rain
  BY <1>1, TextSays, SkyOfTheText, Zenon
<1>3. rain \in {"Light Rain", "Moderate Rain", "Heavy Rain", None}
  BY WordsOfRain, Zenon
<1>4. CASE rain # None
  <2>1. CASE rain = "Light Rain"
    <3>1. code = 61
      BY <1>1, <2>1, WordsOfRain, Zenon DEF Conditions!Code
    <3>2. QED
      BY <1>2, <2>1, <3>1, Zenon DEF Conditions!CodeSaysWhatTextSays
  <2>2. CASE rain = "Moderate Rain"
    <3>1. code = 63
      BY <1>1, <2>2, WordsOfRain, Zenon DEF Conditions!Code
    <3>2. QED
      BY <1>2, <2>2, <3>1, Zenon DEF Conditions!CodeSaysWhatTextSays
  <2>3. CASE rain = "Heavy Rain"
    <3>1. code = 65
      BY <1>1, <2>3, WordsOfRain, Zenon DEF Conditions!Code
    <3>2. QED
      BY <1>2, <2>3, <3>1, Zenon DEF Conditions!CodeSaysWhatTextSays
  <2>4. QED
    BY <1>3, <1>4, <2>1, <2>2, <2>3, Zenon
<1>5. CASE rain = None
  <2>1. /\ Conditions!Says("rain") # "Light Rain"
        /\ Conditions!Says("rain") # "Moderate Rain"
        /\ Conditions!Says("rain") # "Heavy Rain"
    BY <1>2, <1>5, WordsOfRain, Zenon
  <2>2. SUFFICES \/ Conditions!Says("sky") \in Conditions!SkiesOf(code)
                 \/ code = 45 /\ inputs.day /\ inputs.solar # None
    BY <2>1, Zenon DEF Conditions!CodeSaysWhatTextSays
  <2>3. CASE Conditions!Foggy(inputs)
    <3>1. code = 45
      BY <1>1, <1>2, <1>5, <2>1, <2>3, Zenon DEF Conditions!Code
    <3>2. CASE ~ (inputs.day /\ inputs.solar # None)
      <4>1. sky = "Foggy"
        BY <2>3, <3>2, Zenon DEF Conditions!CodeSky, Conditions!ProviderSky
      <4>2. Conditions!DayLabel(sky, inputs.day) = "Foggy"
        BY <4>1, Zenon DEF Conditions!DayLabel
      <4>3. QED
        BY <1>2, <3>1, <4>2, WordsOfCode, Zenon DEF FoggyWords
    <3>3. QED
      BY <3>1, <3>2
  <2>4. CASE ~Conditions!Foggy(inputs)
    <3>1. code = Conditions!SkyCode(sky)
      BY <1>1, <1>2, <1>5, <2>1, <2>4, Zenon DEF Conditions!Code
    <3>2. Conditions!DayLabel(sky, inputs.day) \in Conditions!SkiesOf(Conditions!SkyCode(sky))
      BY <1>1, <2>4, SkyOfTheCode, SkyOfItsCode, Zenon
    <3>3. QED
      BY <1>2, <3>1, <3>2, Zenon
  <2>5. QED
    BY <2>3, <2>4
<1>6. QED
  BY <1>4, <1>5
-----------------------------------------------------------------------------
(* The viewing of the planets.                                             *)

\* The upstream answer has been enriched, with a forecast.
Forecasted == at = "done" /\ points # None /\ points # <<>>

\* The fields are computed from what both requests have answered, or there
\* are none.
PlanetsInv ==
  /\ \A i \in DOMAIN planets : planets[i].planet \in Planet
  /\ almanac \in Almanac \cup {None}
  /\ IF Forecasted
     THEN /\ points \in Forecast
          /\ fields = [i \in DOMAIN planets |->
                         Planets!Fields(planets[i].planet, planets[i].group, almanac, points)]
     ELSE \A i \in DOMAIN fields : fields[i] = Planets!NullFields
  /\ at = "almanac" => points \in Forecast /\ points # None /\ points # <<>>
  /\ at \in {"start", "seeing", "almanac"} => fields = <<>>

\* A set of numbers with a lower bound has a least one.
LEMMA LeastInt ==
  ASSUME NEW T, T \subseteq Int, T # {}, NEW m \in Int, \A x \in T : m <= x
  PROVE  \E x \in T : \A y \in T : x <= y
<1> DEFINE U == {x - m : x \in T}
<1>1. U \subseteq Nat /\ U # {}
  <2>1. \A x \in T : x - m \in Nat
    OBVIOUS
  <2>2. QED
    BY <2>1
<1> HIDE DEF U
<1>2. PICK u \in U : \A v \in U : u <= v
  BY <1>1, LeastNat
<1>3. PICK x \in T : u = x - m
  BY DEF U
<1>4. ASSUME NEW y \in T PROVE x <= y
  <2>1. y - m \in U
    BY DEF U
  <2>2. u <= y - m
    BY <1>2, <2>1
  <2>3. QED
    BY <1>3, <2>2
<1>5. QED
  BY <1>4

\* A set of numbers with an upper bound has a greatest one.
LEMMA GreatestInt ==
  ASSUME NEW T, T \subseteq Int, T # {}, NEW m \in Int, \A x \in T : x <= m
  PROVE  \E x \in T : \A y \in T : x >= y
<1> DEFINE U == {m - x : x \in T}
<1>1. U \subseteq Nat /\ U # {}
  <2>1. \A x \in T : m - x \in Nat
    OBVIOUS
  <2>2. QED
    BY <2>1
<1> HIDE DEF U
<1>2. PICK u \in U : \A v \in U : u <= v
  BY <1>1, LeastNat
<1>3. PICK x \in T : u = m - x
  BY DEF U
<1>4. ASSUME NEW y \in T PROVE x >= y
  <2>1. m - y \in U
    BY DEF U
  <2>2. u <= m - y
    BY <1>2, <2>1
  <2>3. QED
    BY <1>3, <2>2
<1>5. QED
  BY <1>4

\* There is a nearest point (_nearest_clear_time).
LEMMA NearestFacts ==
  ASSUME Planets!PlanetsAssumption, NEW pts \in Forecast,
         NEW S \in SUBSET Planets!Timed(pts), S # {}, NEW t \in Int
  PROVE  /\ Planets!Nearest(S, pts, t) \in S
         /\ \A j \in S : Planets!Distance(pts[Planets!Nearest(S, pts, t)].time, t) <=
                         Planets!Distance(pts[j].time, t)
<1> DEFINE d(i) == Planets!Distance(pts[i].time, t)
           D == {d(i) : i \in S}
<1>1. ASSUME NEW i \in S PROVE d(i) \in Nat /\ i \in Nat
  <2>1. pts[i].time \in Int /\ i \in Nat
    <3>1. /\ Len(pts) \in Nat /\ DOMAIN pts = 1..Len(pts)
          /\ \A k \in DOMAIN pts : pts[k].time \in Int \cup {None}
      BY Zenon DEF Planets!PlanetsAssumption
    <3> HIDE DEF d, D
    <3>2. QED
      BY <3>1 DEF Planets!Timed
  <2>2. QED
    BY <2>1 DEF Planets!Distance
<1>2. D \subseteq Nat /\ D # {}
  BY <1>1
<1> HIDE DEF D
<1>3. PICK e \in D : \A f \in D : e <= f
  BY <1>2, LeastNat
<1> DEFINE P == {i \in S : d(i) = e}
<1>4. P \subseteq Nat /\ P # {}
  BY <1>1 DEF D
<1>5. PICK i \in P : \A j \in P : i <= j
  BY <1>4, LeastNat
<1>6. ASSUME NEW j \in S PROVE d(i) < d(j) \/ (d(i) = d(j) /\ i <= j)
  <2>1. d(i) = e /\ d(j) \in D /\ e <= d(j) /\ e \in Nat /\ d(j) \in Nat
    BY <1>1, <1>2, <1>3 DEF D
  <2>2. d(j) = e => j \in P
    OBVIOUS
  <2> HIDE DEF d, P
  <2>3. CASE d(j) = e
    BY <1>5, <2>1, <2>2, <2>3
  <2>4. CASE d(j) # e
    BY <2>1, <2>4
  <2>5. QED
    BY <2>3, <2>4
<1>7. \E k \in S : \A j \in S :
        LET di == Planets!Distance(pts[k].time, t)  dj == Planets!Distance(pts[j].time, t)
        IN di < dj \/ (di = dj /\ k <= j)
  <2>1. i \in S
    OBVIOUS
  <2>2. QED
    BY <1>6, <2>1
<1> DEFINE n == Planets!Nearest(S, pts, t)
<1>8. n \in S /\ \A j \in S : d(n) < d(j) \/ (d(n) = d(j) /\ n <= j)
  BY <1>7, Zenon DEF Planets!Nearest
<1> HIDE DEF n
<1>9. \A j \in S : d(n) <= d(j)
  <2> HIDE DEF d
  <2>1. QED
    BY <1>1, <1>8
<1>10. QED
  BY <1>8, <1>9 DEF n

\* The ends of the clear window.
ClearTimes(p, pts) == {pts[i].time : i \in Planets!Clear(p, pts)}
WindowStart(p, pts) ==
  IF ClearTimes(p, pts) = {} THEN None
  ELSE CHOOSE t \in ClearTimes(p, pts) : \A u \in ClearTimes(p, pts) : t <= u
WindowEnd(p, pts) ==
  IF ClearTimes(p, pts) = {} THEN None
  ELSE CHOOSE t \in ClearTimes(p, pts) : \A u \in ClearTimes(p, pts) : t >= u

\* The window has both ends or none, and is around all clear times
\* (_clear_window).
LEMMA WindowFacts ==
  ASSUME Planets!PlanetsAssumption, NEW pts \in Forecast, NEW p
  PROVE  /\ ClearTimes(p, pts) = {} =>
              WindowStart(p, pts) = None /\ WindowEnd(p, pts) = None
         /\ ClearTimes(p, pts) # {} =>
              /\ WindowStart(p, pts) \in Int /\ WindowEnd(p, pts) \in Int
              /\ WindowStart(p, pts) <= WindowEnd(p, pts)
              /\ \A t \in ClearTimes(p, pts) :
                   WindowStart(p, pts) <= t /\ t <= WindowEnd(p, pts)
<1> DEFINE T == ClearTimes(p, pts)
<1>1. CASE T = {}
  BY <1>1 DEF WindowStart, WindowEnd
<1>2. CASE T # {}
  <2>0. PICK c \in T : c \in Int
    BY <1>2 DEF ClearTimes, Planets!Clear, Planets!Timed, Planets!PlanetsAssumption
  <2> DEFINE n == Len(pts)
             time == [i \in 1..n |-> IF pts[i].time = None THEN c ELSE pts[i].time]
  <2>1. /\ n \in Nat /\ DOMAIN pts = 1..n
        /\ \A i \in 1..n : time[i] \in Int
    BY <2>0 DEF Planets!PlanetsAssumption
  <2>2. \A t \in T : \E i \in 1..n : t = time[i]
    BY <2>1 DEF ClearTimes, Planets!Clear, Planets!Timed
  <2>3. T \subseteq Int /\ n # 0
    <3> HIDE DEF time, T
    <3>1. QED
      BY <1>2, <2>1, <2>2
  <2> HIDE DEF time, n, T
  <2>4. PICK a \in 1..n : \A j \in 1..n : time[a] <= time[j]
    BY <2>1, <2>3, LeastPlace
  <2>5. PICK b \in 1..n : \A j \in 1..n : time[j] <= time[b]
    BY <2>1, <2>3, GreatestPlace
  <2>6. \E x \in T : \A y \in T : x <= y
    <3>1. time[a] \in Int /\ \A x \in T : time[a] <= x
      BY <2>1, <2>2, <2>4
    <3>2. QED
      BY <1>2, <2>3, <3>1, LeastInt
  <2>7. \E x \in T : \A y \in T : x >= y
    <3>1. time[b] \in Int /\ \A x \in T : x <= time[b]
      BY <2>1, <2>2, <2>5
    <3>2. QED
      BY <1>2, <2>3, <3>1, GreatestInt
  <2>8. /\ WindowStart(p, pts) = CHOOSE t \in T : \A u \in T : t <= u
        /\ WindowEnd(p, pts) = CHOOSE t \in T : \A u \in T : t >= u
    BY <1>2, Zenon DEF WindowStart, WindowEnd, T
  <2>9. /\ WindowStart(p, pts) \in T /\ \A u \in T : WindowStart(p, pts) <= u
        /\ WindowEnd(p, pts) \in T /\ \A u \in T : WindowEnd(p, pts) >= u
    BY <2>6, <2>7, <2>8, Zenon
  <2>10. QED
    BY <1>2, <2>3, <2>9 DEF T
<1>3. QED
  BY <1>1, <1>2

\* A rating, and the fields of a planet, by their parts.
NotNear == FALSE
RatingOf(quality, score, note) ==
  [quality |-> quality, score |-> score, best |-> None, start |-> None,
   end |-> None, conjunction |-> NotNear, note |-> note]
NearMoon(p, alm) == alm # None /\ p.moon # None /\ p.moon < 5
FieldsOf(rated, best, p, alm, pts) ==
  [quality |-> rated.quality, score |-> rated.score, best |-> best,
   start |-> WindowStart(p, pts), end |-> WindowEnd(p, pts),
   conjunction |-> NearMoon(p, alm), note |-> rated.note]

NoteOf(p, alm) ==
  IF Planets!NearBrightMoon(p, alm) THEN "Bright moon nearby" ELSE None
ScoreOf(p, pt) ==
  80 * Planets!SeeingScore(pt.seeing) + 5 * Planets!TransparencyScore(pt.transparency)
    + 15 * Planets!AltitudeScore(p.altitude)
TierAt(p, pt) ==
  IF p.name = "mercury" /\ Planets!TierOf(ScoreOf(p, pt)) = 4 THEN 3
  ELSE Planets!TierOf(ScoreOf(p, pt))

Noted(f, q, s, n) == [f EXCEPT !.quality = q, !.score = s, !.note = n]

\* A rating is made of the fields of an unrated planet.
LEMMA UnratedFacts == Planets!NullFields = RatingOf(None, None, None)
BY Zenon DEF Planets!NullFields, RatingOf, NotNear

LEMMA ScoredFacts ==
  ASSUME NEW q, NEW s
  PROVE  [Planets!NullFields EXCEPT !.quality = q, !.score = s] = RatingOf(q, s, None)
<1>1. [Planets!NullFields EXCEPT !.quality = q, !.score = s] =
        [[Planets!NullFields EXCEPT !.quality = q] EXCEPT !.score = s]
  OBVIOUS
<1>2. [RatingOf(None, None, None) EXCEPT !.quality = q] = RatingOf(q, None, None)
  BY DEF RatingOf
<1>3. [RatingOf(q, None, None) EXCEPT !.score = s] = RatingOf(q, s, None)
  BY DEF RatingOf
<1>4. QED
  BY <1>1, <1>2, <1>3, UnratedFacts, Zenon

LEMMA NotedFacts ==
  ASSUME NEW q, NEW s, NEW n
  PROVE  Noted(Planets!NullFields, q, s, n) = RatingOf(q, s, n)
<1>1. Noted(Planets!NullFields, q, s, n) =
        [[Planets!NullFields EXCEPT !.quality = q, !.score = s] EXCEPT !.note = n]
  BY DEF Noted
<1>2. [RatingOf(q, s, None) EXCEPT !.note = n] = RatingOf(q, s, n)
  BY DEF RatingOf
<1>3. [Planets!NullFields EXCEPT !.quality = q, !.score = s] = RatingOf(q, s, None)
  BY ScoredFacts, Zenon
<1>4. QED
  BY <1>1, <1>2, <1>3, Zenon

\* What _assess_quality gives.
LEMMA RatedFacts ==
  ASSUME NEW p, NEW group, NEW alm, NEW pts
  PROVE  LET pt == Planets!PointFor(p, group, alm, pts) IN
         Planets!Rated(p, group, alm, pts) =
           IF Planets!Cloudy(pt) THEN RatingOf("not_visible", 0, None)
           ELSE RatingOf(Planets!Tiers[Planets!MoonPenalty(p, TierAt(p, pt), alm)],
                         ScoreOf(p, pt), NoteOf(p, alm))
<1> DEFINE pt == Planets!PointFor(p, group, alm, pts)
           q == Planets!Tiers[Planets!MoonPenalty(p, TierAt(p, pt), alm)]
           s == ScoreOf(p, pt)
           n == NoteOf(p, alm)
<1>1. Planets!Rated(p, group, alm, pts) =
        IF Planets!Cloudy(pt) THEN [Planets!NullFields EXCEPT !.quality = "not_visible", !.score = 0]
        ELSE Noted(Planets!NullFields, q, s, n)
  BY Zenon DEF Planets!Rated, NoteOf, ScoreOf, TierAt, Noted
<1>2. [Planets!NullFields EXCEPT !.quality = "not_visible", !.score = 0] =
        RatingOf("not_visible", 0, None)
  BY ScoredFacts, Zenon
<1> HIDE DEF pt, q, s, n
<1>3. Noted(Planets!NullFields, q, s, n) = RatingOf(q, s, n)
  BY NotedFacts, Zenon
<1>4. Planets!Rated(p, group, alm, pts) =
        IF Planets!Cloudy(pt) THEN RatingOf("not_visible", 0, None) ELSE RatingOf(q, s, n)
  BY <1>1, <1>2, <1>3, Zenon
<1>5. QED
  BY <1>4, Zenon DEF pt, q, s, n

\* What _compute_planet_fields gives, if the forecast is looked up.
LEMMA FieldsFacts ==
  ASSUME NEW p, NEW group, NEW alm, NEW pts,
         ~p.broken, ~Planets!InGlare(p), Planets!ReferenceTime(p, group, alm) # None,
         Planets!Timed(pts) # {}
  PROVE  LET rated == Planets!Rated(p, group, alm, pts) IN
         Planets!Fields(p, group, alm, pts) =
           FieldsOf(rated, Planets!BestTime(p, group, alm, pts, rated), p, alm, pts)
<1> DEFINE rated == Planets!Rated(p, group, alm, pts)
           best == Planets!BestTime(p, group, alm, pts, rated)
           moon == NearMoon(p, alm)
           start == WindowStart(p, pts)
           end == WindowEnd(p, pts)
<1>1. Planets!Fields(p, group, alm, pts) =
        [rated EXCEPT !.conjunction = moon, !.best = best, !.start = start, !.end = end]
  BY Zenon DEF Planets!Fields, WindowStart, WindowEnd, ClearTimes, NearMoon
<1> HIDE DEF best, moon, start, end
<1>2. PICK q, s, n : rated = RatingOf(q, s, n)
  BY RatedFacts, Zenon
<1> HIDE DEF rated
<1> DEFINE Form(b, f, g, c) ==
             [quality |-> q, score |-> s, best |-> b, start |-> f, end |-> g,
              conjunction |-> c, note |-> n]
<1>3. [RatingOf(q, s, n) EXCEPT
         !.conjunction = moon, !.best = best, !.start = start, !.end = end] =
        [quality |-> q, score |-> s, best |-> best, start |-> start, end |-> end,
         conjunction |-> moon, note |-> n]
  <2> DEFINE r0 == RatingOf(q, s, n)
             r1 == [r0 EXCEPT !.conjunction = moon]
             r2 == [r1 EXCEPT !.best = best]
             r3 == [r2 EXCEPT !.start = start]
             r4 == [r3 EXCEPT !.end = end]
  <2>1. [r0 EXCEPT !.conjunction = moon, !.best = best, !.start = start, !.end = end] = r4
    OBVIOUS
  <2>2. r0 = Form(None, None, None, NotNear)
    BY DEF RatingOf
  <2> HIDE DEF r0
  <2>3. r1 = Form(None, None, None, moon)
    BY <2>2
  <2> HIDE DEF r1
  <2>4. r2 = Form(best, None, None, moon)
    BY <2>3
  <2> HIDE DEF r2
  <2>5. r3 = Form(best, start, None, moon)
    BY <2>4
  <2> HIDE DEF r3
  <2>6. r4 = Form(best, start, end, moon)
    BY <2>5
  <2> HIDE DEF r4
  <2>7. QED
    BY <2>1, <2>6, Zenon DEF r0
<1>4. rated.quality = q /\ rated.score = s /\ rated.note = n
  BY <1>2 DEF RatingOf
<1>5. QED
  BY <1>1, <1>2, <1>3, <1>4, Zenon DEF FieldsOf, rated, best, moon, start, end

\* Otherwise a planet has no fields, or is in the sun's glare.
LEMMA FieldsElse ==
  ASSUME NEW p, NEW group, NEW alm, NEW pts,
         \/ p.broken
         \/ Planets!InGlare(p)
         \/ Planets!ReferenceTime(p, group, alm) = None
         \/ Planets!Timed(pts) = {}
  PROVE  \E n : \/ Planets!Fields(p, group, alm, pts) = RatingOf(None, None, None)
               \/ Planets!Fields(p, group, alm, pts) = RatingOf("not_visible", 0, n)
<1> DEFINE glare == "In Sun's Glare"
           f == Planets!Fields(p, group, alm, pts)
<1>1. \/ f = Planets!NullFields
      \/ f = Noted(Planets!NullFields, "not_visible", 0, glare)
  BY Zenon DEF Planets!Fields, Noted
<1> HIDE DEF glare, f
<1>2. Planets!NullFields = RatingOf(None, None, None)
  BY UnratedFacts, Zenon
<1>3. Noted(Planets!NullFields, "not_visible", 0, glare) = RatingOf("not_visible", 0, glare)
  BY NotedFacts, Zenon
<1>4. f = RatingOf(None, None, None) \/ f = RatingOf("not_visible", 0, glare)
  BY <1>1, <1>2, <1>3, Zenon
<1>5. QED
  BY <1>4, Zenon DEF f

\* A tier is a number from 1 to 4, and its quality is not "not_visible".
LEMMA TierFacts ==
  ASSUME NEW p, NEW pt, NEW alm
  PROVE  /\ TierAt(p, pt) \in 1..4
         /\ Planets!MoonPenalty(p, TierAt(p, pt), alm) \in 1..4
         /\ \A n \in 1..4 : Planets!Tiers[n] # "not_visible"
         /\ \A m, n \in 1..4 : Planets!Tiers[m] = Planets!Tiers[n] => m = n
<1>1. TierAt(p, pt) \in 1..4
  <2>1. Planets!TierOf(ScoreOf(p, pt)) \in 1..4
    BY DEF Planets!TierOf
  <2>2. QED
    BY <2>1 DEF TierAt
<1>2. Planets!MoonPenalty(p, TierAt(p, pt), alm) \in 1..4
  BY <1>1 DEF Planets!MoonPenalty
<1>3. /\ \A n \in 1..4 : Planets!Tiers[n] # "not_visible"
      /\ \A m, n \in 1..4 : Planets!Tiers[m] = Planets!Tiers[n] => m = n
  BY DEF Planets!Tiers
<1>4. QED
  BY <1>1, <1>2, <1>3

\* What BestTimeIsClear says of one planet.
Ratings == {Planets!Tiers[n] : n \in 1..4}
BestIsClear(p, group, f, pts) ==
  LET ref == Planets!ReferenceTime(p, group, almanac) IN
  /\ (f.start = None) = (f.end = None)
  /\ f.start # None => f.start <= f.end
  /\ f.quality \in Ratings =>
       \E k \in Planets!Timed(pts) :
         /\ \A j \in Planets!Timed(pts) :
              Planets!Distance(pts[k].time, ref) <= Planets!Distance(pts[j].time, ref)
         /\ ~Planets!Cloudy(pts[k])
  /\ f.best # None /\ p.name # "mercury" =>
       IF f.quality = "not_visible"
       THEN /\ f.start # None /\ f.start <= f.best /\ f.best <= f.end
            /\ Planets!Up(p, f.best)
            /\ \E k \in DOMAIN pts :
                 /\ pts[k].time = f.best
                 /\ pts[k].cloud # None /\ pts[k].cloud <= Planets!CloudGate
       ELSE f.best = p.transit

\* No value is a rating.
LEMMA NotRated ==
  ASSUME Planets!PlanetsAssumption
  PROVE  "not_visible" \notin Ratings /\ None \notin Ratings
<1>1. "not_visible" \notin Ratings
  BY TierFacts DEF Ratings
<1>2. None \notin {"poor", "fair", "good", "excellent"}
  BY Zenon DEF Planets!PlanetsAssumption
<1>3. Ratings \subseteq {"poor", "fair", "good", "excellent"}
  BY DEF Ratings, Planets!Tiers
<1>4. QED
  BY <1>1, <1>2, <1>3

\* The time a planet is looked for is a time.
LEMMA ReferenceFacts ==
  ASSUME Planets!PlanetsAssumption, NEW p \in Planet, NEW group,
         NEW alm \in Almanac \cup {None}
  PROVE  Planets!ReferenceTime(p, group, alm) \in Int \cup {None}
<1>1. /\ p.transit \in Int \cup {None} /\ Twilight \in Int
      /\ alm # None => alm.sunrise \in Int \cup {None} /\ alm.sunset \in Int \cup {None}
  BY DEF Planets!PlanetsAssumption
<1>2. Planets!MercuryTime(group, alm) \in Int \cup {None}
  BY <1>1 DEF Planets!MercuryTime
<1>3. QED
  BY <1>1, <1>2 DEF Planets!ReferenceTime

LEMMA BestFacts ==
  ASSUME Planets!PlanetsAssumption, NEW pts \in Forecast,
         NEW p \in Planet, NEW group, almanac \in Almanac \cup {None}
  PROVE  BestIsClear(p, group, Planets!Fields(p, group, almanac, pts), pts)
<1> DEFINE f == Planets!Fields(p, group, almanac, pts)
           rated == Planets!Rated(p, group, almanac, pts)
           best == Planets!BestTime(p, group, almanac, pts, rated)
           ref == Planets!ReferenceTime(p, group, almanac)
<1>1. CASE \/ p.broken
           \/ Planets!InGlare(p)
           \/ Planets!ReferenceTime(p, group, almanac) = None
           \/ Planets!Timed(pts) = {}
  <2>0. \E n : f = RatingOf(None, None, None) \/ f = RatingOf("not_visible", 0, n)
    BY <1>1, FieldsElse
  <2>1. PICK n : f = RatingOf(None, None, None) \/ f = RatingOf("not_visible", 0, n)
    BY <2>0
  <2> HIDE DEF f
  <2>2. /\ f.start = None /\ f.end = None /\ f.best = None
        /\ f.quality \in {None, "not_visible"}
    BY <2>1 DEF RatingOf
  <2>3. f.quality \notin Ratings
    BY <2>2, NotRated
  <2>4. QED
    BY <2>2, <2>3 DEF BestIsClear, f
<1>2. CASE /\ ~p.broken /\ ~Planets!InGlare(p)
           /\ Planets!ReferenceTime(p, group, almanac) # None
           /\ Planets!Timed(pts) # {}
  <2>1. f = FieldsOf(rated, best, p, almanac, pts)
    BY <1>2, FieldsFacts, Zenon
  <2>2. ASSUME rated.quality \in Ratings
        PROVE  \E k \in Planets!Timed(pts) :
                 /\ \A j \in Planets!Timed(pts) :
                      Planets!Distance(pts[k].time, ref) <= Planets!Distance(pts[j].time, ref)
                 /\ ~Planets!Cloudy(pts[k])
    <3> DEFINE k == Planets!Nearest(Planets!Timed(pts), pts, ref)
               pt == Planets!PointFor(p, group, almanac, pts)
    <3>1. ref \in Int
      BY <1>2, ReferenceFacts
    <3>2. pt = pts[k]
      BY Zenon DEF Planets!PointFor
    <3>3. ~Planets!Cloudy(pt)
      <4>1. SUFFICES ASSUME Planets!Cloudy(pt) PROVE FALSE
        OBVIOUS
      <4>2. rated = RatingOf("not_visible", 0, None)
        BY <4>1, RatedFacts, Zenon
      <4> HIDE DEF rated
      <4>3. rated.quality = "not_visible"
        BY <4>2 DEF RatingOf
      <4>4. QED
        BY <2>2, <4>3, NotRated
    <3>4. /\ k \in Planets!Timed(pts)
          /\ \A j \in Planets!Timed(pts) :
               Planets!Distance(pts[k].time, ref) <= Planets!Distance(pts[j].time, ref)
      <4> DEFINE S == Planets!Timed(pts)
      <4>1. S \in SUBSET S /\ S # {}
        BY <1>2
      <4> HIDE DEF S, ref
      <4>2. S \in SUBSET Planets!Timed(pts)
        BY <4>1 DEF S
      <4>3. QED
        BY <3>1, <4>1, <4>2, NearestFacts, Zenon DEF S
    <3>5. QED
      BY <3>2, <3>3, <3>4, Zenon
  <2>3. /\ f.start = WindowStart(p, pts) /\ f.end = WindowEnd(p, pts)
        /\ f.best = best /\ f.quality = rated.quality
    <3> HIDE DEF best, rated, f
    <3>1. QED
      BY <2>1 DEF FieldsOf
  <2>4. None \notin Int
    BY Zenon DEF Planets!PlanetsAssumption
  <2>5. /\ (f.start = None) = (f.end = None)
        /\ f.start # None => f.start <= f.end
    <3> HIDE DEF best, rated, f
    <3>1. QED
      BY <2>3, <2>4, WindowFacts
  <2>6. ASSUME p.name # "mercury", rated.quality = "not_visible", best # None
        PROVE  /\ f.start # None /\ f.start <= f.best /\ f.best <= f.end
               /\ Planets!Up(p, f.best)
               /\ \E k \in DOMAIN pts :
                    /\ pts[k].time = f.best
                    /\ pts[k].cloud # None /\ pts[k].cloud <= Planets!CloudGate
    <3>1. best = IF Planets!Clear(p, pts) = {} THEN None
                 ELSE pts[Planets!Nearest(Planets!Clear(p, pts), pts, Now)].time
      BY <2>6, Zenon DEF Planets!BestTime
    <3> DEFINE k == Planets!Nearest(Planets!Clear(p, pts), pts, Now)
    <3>2. k \in Planets!Clear(p, pts) /\ best = pts[k].time
      <4>1. Planets!Clear(p, pts) # {} /\ Planets!Clear(p, pts) \in SUBSET Planets!Timed(pts)
        BY <2>6, <3>1 DEF Planets!Clear
      <4>2. Now \in Int
        BY Zenon DEF Planets!PlanetsAssumption
      <4>3. QED
        BY <3>1, <4>1, <4>2, NearestFacts, Zenon
    <3> HIDE DEF k, best, rated, f
    <3>3. best \in ClearTimes(p, pts)
      BY <3>2 DEF ClearTimes
    <3>4. /\ WindowStart(p, pts) \in Int /\ WindowEnd(p, pts) \in Int
          /\ WindowStart(p, pts) <= best /\ best <= WindowEnd(p, pts)
      BY <3>3, WindowFacts, Zenon
    <3>5. /\ k \in DOMAIN pts /\ pts[k].cloud # None
          /\ pts[k].cloud <= Planets!CloudGate /\ Planets!Up(p, pts[k].time)
      BY <3>2 DEF Planets!Clear, Planets!Timed
    <3>6. QED
      BY <2>3, <2>4, <3>2, <3>4, <3>5
  <2>7. p.name # "mercury" /\ rated.quality # "not_visible" => best = p.transit
    BY Zenon DEF Planets!BestTime
  <2> HIDE DEF best, rated, f
  <2>8. QED
    BY <2>2, <2>3, <2>5, <2>6, <2>7 DEF BestIsClear, f
<1>3. QED
  BY <1>1, <1>2

\* The fields without what the moon has a say in.
Blank(f) == [f EXCEPT !.quality = None, !.note = None, !.conjunction = NotNear]

LEMMA BlankFacts ==
  ASSUME NEW rated, NEW best, NEW p, NEW alm, NEW pts
  PROVE  Blank(FieldsOf(rated, best, p, alm, pts)) =
           [quality |-> None, score |-> rated.score, best |-> best,
            start |-> WindowStart(p, pts), end |-> WindowEnd(p, pts),
            conjunction |-> NotNear, note |-> None]
<1> DEFINE Form(q, c, n) ==
             [quality |-> q, score |-> rated.score, best |-> best,
              start |-> WindowStart(p, pts), end |-> WindowEnd(p, pts),
              conjunction |-> c, note |-> n]
           q == rated.quality
           c == NearMoon(p, alm)
           n == rated.note
           f == FieldsOf(rated, best, p, alm, pts)
<1>1. f = Form(q, c, n)
  BY DEF FieldsOf
<1> HIDE DEF f, q, c, n
<1>2. Blank(f) = [[[f EXCEPT !.quality = None] EXCEPT !.note = None]
                     EXCEPT !.conjunction = NotNear]
  BY DEF Blank
<1>3. [Form(q, c, n) EXCEPT !.quality = None] = Form(None, c, n)
  OBVIOUS
<1>4. [Form(None, c, n) EXCEPT !.note = None] = Form(None, c, None)
  OBVIOUS
<1>5. [Form(None, c, None) EXCEPT !.conjunction = NotNear] = Form(None, NotNear, None)
  OBVIOUS
<1>6. QED
  BY <1>1, <1>2, <1>3, <1>4, <1>5, Zenon DEF f

\* The tier of a quality is the one it is of.
LEMMA TierOfQuality ==
  ASSUME NEW f, NEW n \in 1..4, f.quality = Planets!Tiers[n]
  PROVE  Planets!Tier(f) = n
<1>1. \A m \in 1..4 : Planets!Tiers[m] = f.quality => m = n
  BY TierFacts
<1>2. QED
  BY <1>1, Zenon DEF Planets!Tier

\* What the almanac says of a planet other than Mercury.
LEMMA LocalFailure ==
  ASSUME Planets!PlanetsAssumption, NEW p, NEW group, NEW pts, NEW a, NEW b,
         ~p.broken, p.name # "mercury",
         NEW mine, mine = Planets!Fields(p, group, a, pts),
         NEW other, other = Planets!Fields(p, group, b, pts)
  PROVE  /\ Blank(mine) = Blank(other)
         /\ mine.quality \in {Planets!Tiers[n] : n \in 1..4} =>
              Planets!Distance(Planets!Tier(mine), Planets!Tier(other)) <= 1
         /\ mine.quality # other.quality => mine.note # other.note
<1>1. /\ ~Planets!InGlare(p)
      /\ Planets!ReferenceTime(p, group, a) = p.transit
      /\ Planets!ReferenceTime(p, group, b) = p.transit
  BY Zenon DEF Planets!InGlare, Planets!ReferenceTime
<1>2. CASE p.transit = None \/ Planets!Timed(pts) = {}
  <2>1. mine = Planets!NullFields /\ other = Planets!NullFields
    BY <1>1, <1>2, Zenon DEF Planets!Fields
  <2>2. ASSUME NEW n \in 1..4, mine.quality = Planets!Tiers[n]
        PROVE  Planets!Distance(Planets!Tier(mine), Planets!Tier(other)) <= 1
    <3>1. Planets!Tier(mine) = n /\ Planets!Tier(other) = n
      BY <2>1, <2>2, TierOfQuality, Zenon
    <3>2. QED
      BY <3>1 DEF Planets!Distance
  <2>3. QED
    BY <2>1, <2>2, Zenon
<1>3. CASE p.transit # None /\ Planets!Timed(pts) # {}
  <2> DEFINE pt == pts[Planets!Nearest(Planets!Timed(pts), pts, p.transit)]
             s == ScoreOf(p, pt)
             ta == Planets!MoonPenalty(p, TierAt(p, pt), a)
             tb == Planets!MoonPenalty(p, TierAt(p, pt), b)
             ra == Planets!Rated(p, group, a, pts)
             rb == Planets!Rated(p, group, b, pts)
             ba == Planets!BestTime(p, group, a, pts, ra)
             bb == Planets!BestTime(p, group, b, pts, rb)
  <2>1. /\ mine = FieldsOf(ra, ba, p, a, pts)
        /\ other = FieldsOf(rb, bb, p, b, pts)
    BY <1>1, <1>3, FieldsFacts, Zenon
  <2>2. /\ ra = IF Planets!Cloudy(pt) THEN RatingOf("not_visible", 0, None)
                ELSE RatingOf(Planets!Tiers[ta], s, NoteOf(p, a))
        /\ rb = IF Planets!Cloudy(pt) THEN RatingOf("not_visible", 0, None)
                ELSE RatingOf(Planets!Tiers[tb], s, NoteOf(p, b))
    <3>1. Planets!PointFor(p, group, a, pts) = pt /\ Planets!PointFor(p, group, b, pts) = pt
      BY <1>1, Zenon DEF Planets!PointFor
    <3>2. QED
      BY <3>1, RatedFacts, Zenon
  <2>3. /\ ta \in 1..4 /\ tb \in 1..4
        /\ \A n \in 1..4 : Planets!Tiers[n] # "not_visible"
    BY TierFacts
  <2>4. /\ ta = tb \/ ta = tb + 1 \/ tb = ta + 1
        /\ ta # tb => NoteOf(p, a) # NoteOf(p, b)
    <3> DEFINE bright == "Bright moon nearby"
    <3>1. /\ NoteOf(p, a) = IF Planets!NearBrightMoon(p, a) THEN bright ELSE None
          /\ NoteOf(p, b) = IF Planets!NearBrightMoon(p, b) THEN bright ELSE None
          /\ None # bright
      BY Zenon DEF NoteOf, Planets!PlanetsAssumption
    <3> HIDE DEF bright, pt
    <3>2. TierAt(p, pt) \in 1..4
      BY TierFacts
    <3>3. QED
      BY <3>1, <3>2 DEF Planets!MoonPenalty
  <2>5. /\ ra.score = rb.score
        /\ ra.quality = "not_visible" <=> rb.quality = "not_visible"
        /\ ~Planets!Cloudy(pt) => /\ ra.quality = Planets!Tiers[ta] /\ rb.quality = Planets!Tiers[tb]
                          /\ ra.note = NoteOf(p, a) /\ rb.note = NoteOf(p, b)
        /\ Planets!Cloudy(pt) => ra.quality = "not_visible" /\ rb.quality = "not_visible"
    <3> HIDE DEF pt, s, ta, tb, ra, rb
    <3>1. QED
      BY <2>2, <2>3 DEF RatingOf
  <2>6. ba = bb
    BY <2>5, Zenon DEF Planets!BestTime
  <2> HIDE DEF pt, s, ta, tb, ra, rb, ba, bb
  <2>7. Blank(mine) = Blank(other)
    <3> DEFINE Form(r, c) ==
                 [quality |-> None, score |-> r.score, best |-> c,
                  start |-> WindowStart(p, pts), end |-> WindowEnd(p, pts),
                  conjunction |-> NotNear, note |-> None]
    <3>1. /\ Blank(FieldsOf(ra, ba, p, a, pts)) = Form(ra, ba)
          /\ Blank(FieldsOf(rb, bb, p, b, pts)) = Form(rb, bb)
      BY BlankFacts
    <3>2. Form(ra, ba) = Form(rb, bb)
      BY <2>5, <2>6
    <3> HIDE DEF Form
    <3>3. QED
      BY <2>1, <3>1, <3>2, Zenon
  <2>8. /\ mine.quality = ra.quality /\ other.quality = rb.quality
        /\ mine.note = ra.note /\ other.note = rb.note
    BY <2>1 DEF FieldsOf
  <2>9. CASE Planets!Cloudy(pt)
    BY <2>3, <2>5, <2>7, <2>8, <2>9
  <2>10. CASE ~Planets!Cloudy(pt)
    <3>1. Planets!Tier(mine) = ta /\ Planets!Tier(other) = tb
      BY <2>3, <2>5, <2>8, <2>10, TierOfQuality, Zenon
    <3>2. Planets!Distance(Planets!Tier(mine), Planets!Tier(other)) <= 1
      BY <2>3, <2>4, <3>1 DEF Planets!Distance
    <3>3. QED
      BY <2>4, <2>5, <2>7, <2>8, <2>10, <3>2
  <2>11. QED
    BY <2>9, <2>10
<1>4. QED
  BY <1>2, <1>3

LEMMA PlanetsInit == Planets!Init => PlanetsInv
BY DEF Planets!Init, PlanetsInv, Forecasted

LEMMA PlanetsNext == PlanetsInv /\ [Planets!Next]_(Planets!vars) => PlanetsInv'
<1> SUFFICES ASSUME PlanetsInv, [Planets!Next]_(Planets!vars) PROVE PlanetsInv'
  OBVIOUS
<1>1. CASE Planets!Begin
  <2>1. PICK ps \in [1..2 -> Planet], g \in Group :
          planets' = [i \in 1..2 |-> [planet |-> ps[i], group |-> g]]
    BY <1>1 DEF Planets!Begin
  <2>2. \A i \in DOMAIN planets' : planets'[i].planet \in Planet
    BY <2>1
  <2>3. QED
    BY <1>1, <2>2 DEF Planets!Begin, PlanetsInv, Forecasted
<1>2. CASE Planets!SeeingAnswers
  <2>1. PICK f \in Forecast \cup {None} :
          /\ points' = f
          /\ IF f = None \/ f = <<>>
             THEN at' = "done" /\ fields' = Planets!AllNull
             ELSE at' = "almanac" /\ UNCHANGED fields
    BY <1>2 DEF Planets!SeeingAnswers
  <2>2. /\ at = "seeing" /\ fields = <<>>
        /\ planets' = planets /\ almanac' = almanac
    BY <1>2 DEF Planets!SeeingAnswers, PlanetsInv
  <2>3. CASE f = None \/ f = <<>>
    BY <2>1, <2>2, <2>3 DEF PlanetsInv, Forecasted, Planets!AllNull
  <2>4. CASE ~(f = None \/ f = <<>>)
    BY <2>1, <2>2, <2>4 DEF PlanetsInv, Forecasted
  <2>5. QED
    BY <2>3, <2>4
<1>3. CASE Planets!AlmanacAnswers
  <2>1. /\ at = "almanac" /\ at' = "done" /\ planets' = planets /\ points' = points
        /\ almanac' \in Almanac \cup {None}
        /\ fields' = [i \in DOMAIN planets' |->
                        Planets!Fields(planets'[i].planet, planets'[i].group, almanac', points')]
    BY <1>3 DEF Planets!AlmanacAnswers
  <2>2. points \in Forecast /\ points # None /\ points # <<>>
    BY <2>1 DEF PlanetsInv
  <2>3. QED
    BY <2>1, <2>2 DEF PlanetsInv, Forecasted
<1>4. CASE UNCHANGED Planets!vars
  BY <1>4 DEF Planets!vars, PlanetsInv, Forecasted
<1>5. QED
  BY <1>1, <1>2, <1>3, <1>4 DEF Planets!Next

LEMMA PlanetsFacts ==
  ASSUME Planets!PlanetsAssumption, PlanetsInv
  PROVE  Planets!FailuresAreLocal /\ Planets!BestTimeIsClear
<1>1. Planets!FailuresAreLocal
  <2> SUFFICES ASSUME Forecasted, NEW i \in DOMAIN planets, NEW alm \in Almanac \cup {None},
                      ~planets[i].planet.broken, planets[i].planet.name # "mercury"
               PROVE  LET p == planets[i].planet
                          mine == fields[i]
                          other == Planets!Fields(p, planets[i].group, alm, points)
                      IN /\ [mine EXCEPT !.quality = None, !.note = None,
                                         !.conjunction = FALSE] =
                            [other EXCEPT !.quality = None, !.note = None,
                                          !.conjunction = FALSE]
                         /\ mine.quality \in {Planets!Tiers[n] : n \in 1..4} =>
                              Planets!Distance(Planets!Tier(mine), Planets!Tier(other)) <= 1
                         /\ mine.quality # other.quality => mine.note # other.note
    BY Zenon DEF Planets!FailuresAreLocal, Forecasted
  <2> DEFINE p == planets[i].planet
             mine == fields[i]
             other == Planets!Fields(p, planets[i].group, alm, points)
  <2>1. mine = Planets!Fields(p, planets[i].group, almanac, points)
    BY Zenon DEF PlanetsInv
  <2> HIDE DEF mine, other
  <2>2. /\ Blank(mine) = Blank(other)
        /\ mine.quality \in {Planets!Tiers[n] : n \in 1..4} =>
             Planets!Distance(Planets!Tier(mine), Planets!Tier(other)) <= 1
        /\ mine.quality # other.quality => mine.note # other.note
    <3>1. /\ other = Planets!Fields(p, planets[i].group, alm, points)
          /\ ~p.broken /\ p.name # "mercury"
      BY DEF other
    <3> HIDE DEF p
    <3>2. QED
      BY <2>1, <3>1, LocalFailure
  <2>3. QED
    BY <2>2, Zenon DEF Blank, NotNear, mine, other
<1>2. Planets!BestTimeIsClear
  <2>1. ASSUME NEW i \in DOMAIN fields
        PROVE  BestIsClear(planets[i].planet, planets[i].group, fields[i], points)
    <3>1. CASE Forecasted
      <4>1. /\ points \in Forecast
            /\ fields[i] = Planets!Fields(planets[i].planet, planets[i].group, almanac, points)
        BY <3>1 DEF PlanetsInv
      <4>2. planets[i].planet \in Planet /\ almanac \in Almanac \cup {None}
        BY <3>1, <4>1 DEF PlanetsInv
      <4>3. QED
        BY <4>1, <4>2, BestFacts, Zenon
    <3>2. CASE ~Forecasted
      <4>1. fields[i] = RatingOf(None, None, None)
        BY <3>2, UnratedFacts DEF PlanetsInv
      <4>2. /\ fields[i].start = None /\ fields[i].end = None /\ fields[i].best = None
            /\ fields[i].quality = None
        BY <4>1 DEF RatingOf
      <4>3. QED
        BY <4>2, NotRated DEF BestIsClear
    <3>3. QED
      BY <3>1, <3>2
  <2>2. QED
    BY <2>1, Zenon DEF BestIsClear, Ratings, Planets!BestTimeIsClear
<1>3. QED
  BY <1>1, <1>2
-----------------------------------------------------------------------------
(* The times of the sun.                                                   *)

Dates == 0..Sun!Date(MaxTime["sun"])

\* The clock shows even numbers, and what is cached are the times of one day;
\* yesterday's times are asked for before the sunrise only.
SunInv ==
  /\ station \in Station
  /\ utc \in Day..MaxTime["sun"] /\ utc % 2 = 0
  /\ sunPc \in [Request -> {"idle", "today", "yesterday"}]
  /\ began \in [Request -> Day..utc]
  /\ \A r \in Request : sunPc[r] = "yesterday" =>
       Sun!Rise(Sun!Date(began[r])) > began[r]
  /\ \/ sunrise = None /\ sunset = None
     \/ \E d \in Dates : sunrise = Sun!Rise(d) /\ sunset = Sun!Set(d)
  /\ asOf \in Day..utc
  /\ guessed \in BOOLEAN

\* The date of a time of the model.
LEMMA DateFacts ==
  ASSUME Sun!SunAssumption, NEW t \in Nat
  PROVE  /\ Sun!Date(t) \in Nat
         /\ Sun!Date(t) * Day <= t /\ t < (Sun!Date(t) + 1) * Day
<1>1. Day \in Nat /\ Day > 0
  BY DEF Sun!SunAssumption
<1>2. QED
  BY <1>1 DEF Sun!Date

LEMMA DateGrows ==
  ASSUME Sun!SunAssumption, NEW t \in Nat, NEW u \in Nat, t <= u
  PROVE  /\ Sun!Date(t) <= Sun!Date(u)
         /\ Day <= t => 1 <= Sun!Date(t)
<1> DEFINE d == Sun!Date(t)
           e == Sun!Date(u)
<1>1. Day \in Nat /\ Day > 0
  BY DEF Sun!SunAssumption
<1>2. /\ d \in Nat /\ d * Day <= t /\ t < (d + 1) * Day
      /\ e \in Nat /\ e * Day <= u /\ u < (e + 1) * Day
  BY DateFacts
<1> HIDE DEF d, e
<1>3. d <= e
  <2>1. SUFFICES ASSUME e + 1 <= d PROVE FALSE
    BY <1>2
  <2>2. (e + 1) * Day <= d * Day
    BY <1>1, <1>2, <2>1, ProductOrder
  <2>3. d * Day \in Int /\ (e + 1) * Day \in Int
    BY <1>1, <1>2
  <2>4. QED
    BY <1>2, <2>2, <2>3
<1>4. Day <= t => 1 <= d
  <2>1. d = 0 => (d + 1) * Day = Day
    BY <1>1
  <2>2. QED
    BY <1>1, <1>2, <2>1
<1>5. QED
  BY <1>3, <1>4 DEF d, e

LEMMA SunInit ==
  ASSUME Sun!SunAssumption
  PROVE  Sun!Init => SunInv
<1> SUFFICES ASSUME Sun!Init PROVE SunInv
  OBVIOUS
<1>1. Day \in Day..MaxTime["sun"] /\ Day % 2 = 0
  BY DEF Sun!SunAssumption
<1>2. /\ station \in Station /\ utc = Day /\ sunrise = None /\ sunset = None
      /\ sunPc = [r \in Request |-> "idle"] /\ began = [r \in Request |-> Day]
      /\ asOf = Day /\ guessed = FALSE
  BY Zenon DEF Sun!Init
<1>3. guessed \in BOOLEAN
  BY <1>2, Zenon
<1>4. /\ sunPc \in [Request -> {"idle", "today", "yesterday"}]
      /\ began \in [Request -> Day..utc]
      /\ \A r \in Request : sunPc[r] # "yesterday"
  BY <1>1, <1>2
<1>5. QED
  BY <1>1, <1>2, <1>3, <1>4 DEF SunInv

LEMMA SunNext ==
  ASSUME Sun!SunAssumption
  PROVE  SunInv /\ [Sun!Next]_(Sun!vars) => SunInv'
<1> SUFFICES ASSUME SunInv, [Sun!Next]_(Sun!vars) PROVE SunInv'
  OBVIOUS
<1>0. /\ Day \in Nat \ {0} /\ Day % 2 = 0
      /\ MaxTime["sun"] \in Nat /\ MaxTime["sun"] % 2 = 0 /\ MaxTime["sun"] >= Day
  BY DEF Sun!SunAssumption
<1>1. CASE Sun!Tick
  <2>1. utc' \in Day..MaxTime["sun"] /\ utc' % 2 = 0
    BY <1>0, <1>1 DEF Sun!Tick, SunInv
  <2>2. \A r \in Request : began[r] \in Day..utc'
    BY <1>0, <1>1 DEF Sun!Tick, SunInv
  <2>3. asOf \in Day..utc'
    BY <1>0, <1>1 DEF Sun!Tick, SunInv
  <2>4. UNCHANGED <<station, sunrise, sunset, sunPc, began, asOf, guessed>>
    BY <1>1 DEF Sun!Tick
  <2>5. QED
    BY <2>1, <2>2, <2>3, <2>4 DEF SunInv, Sun!Rise, Sun!Set, Sun!Date
<1>2. ASSUME NEW r \in Request, Sun!Refresh(r) PROVE SunInv'
  <2> DEFINE b == began[r]
             d == Sun!Date(b)
  <2>1. d \in Dates /\ d - 1 \in Dates /\ b \in Nat
    <3>1. b \in Day..utc /\ utc <= MaxTime["sun"] /\ utc \in Nat
      BY <1>0 DEF SunInv
    <3>2. b \in Nat /\ b <= MaxTime["sun"] /\ Day <= b
      BY <1>0, <3>1
    <3>3. /\ d \in Nat /\ 1 <= d /\ d <= Sun!Date(MaxTime["sun"])
          /\ Sun!Date(MaxTime["sun"]) \in Nat
      BY <1>0, <3>2, DateFacts, DateGrows
    <3>4. QED
      BY <3>2, <3>3 DEF Dates
  <2>2. ASSUME NEW e \in Dates, Sun!Write(r, e), guessed' \in BOOLEAN PROVE SunInv'
    <3>1. asOf' = began[r] /\ began[r] \in Day..utc
      BY <2>2 DEF Sun!Write, SunInv
    <3>2. /\ UNCHANGED <<station, utc, began>>
          /\ sunPc' = [sunPc EXCEPT ![r] = "idle"]
          /\ sunrise' = Sun!Rise(e) /\ sunset' = Sun!Set(e)
      BY <2>2 DEF Sun!Write, Sun!Update
    <3>3. QED
      BY <2>2, <3>1, <3>2 DEF SunInv, Sun!Rise, Sun!Set, Sun!Date
  <2>4. CASE Sun!Begin(r)
    BY <1>0, <2>4 DEF Sun!Begin, SunInv, Sun!Rise, Sun!Set, Sun!Date
  <2>5. CASE Sun!Fails(r)
    BY <2>5 DEF Sun!Fails, SunInv, Sun!Rise, Sun!Set, Sun!Date
  <2>6. CASE Sun!Today(r)
    <3>1. CASE Sun!Write(r, d) /\ guessed' = FALSE
      BY <2>1, <2>2, <3>1
    <3>2. CASE /\ Sun!Rise(d) > b
               /\ sunPc' = [sunPc EXCEPT ![r] = "yesterday"]
               /\ UNCHANGED <<station, utc, sunrise, sunset, began, asOf, guessed>>
      BY <3>2 DEF SunInv, Sun!Rise, Sun!Set, Sun!Date
    <3>3. QED
      BY <2>6, <3>1, <3>2, Zenon DEF Sun!Today
  <2>7. CASE Sun!Yesterday(r)
    BY <2>1, <2>2, <2>7, Zenon DEF Sun!Yesterday
  <2>8. QED
    BY <1>2, <2>4, <2>5, <2>6, <2>7 DEF Sun!Refresh
<1>3. CASE UNCHANGED Sun!vars
  BY <1>3 DEF Sun!vars, SunInv, Sun!Rise, Sun!Set, Sun!Date
<1>4. QED
  BY <1>1, <1>2, <1>3 DEF Sun!Next

LEMMA SunFacts ==
  ASSUME SunInv
  PROVE  Sun!SunTypeOK
BY DEF SunInv, Sun!SunTypeOK, Dates

\* The sunrises of the model's clock.
RiseDays == 0..Sun!Date(MaxTime["sun"]) + 1

\* Sunrises are odd, the sun sets before the next, and each is before the end
\* of its date.
LEMMA RiseFacts ==
  ASSUME Sun!SunAssumption, station \in Station
  PROVE  /\ \A d \in Int : /\ Sun!Rise(d) \in Int /\ Sun!Rise(d) % 2 = 1
                           /\ Sun!Set(d) \in Int /\ Sun!Set(d) < Sun!Rise(d + 1)
                           /\ Sun!Rise(d + 1) = Sun!Rise(d) + Day + station.drift
         /\ \A d, e \in Int : d <= e => Sun!Rise(d) <= Sun!Rise(e)
         /\ \A d \in RiseDays :
              /\ Sun!Rise(d) < (d + 1) * Day
              /\ Sun!RisesOnItsDate(station) => d * Day <= Sun!Rise(d)
<1> DEFINE r == station.rise
           s == station.set
           g == station.drift
           k == Day + g
<1>1. /\ Day \in Nat \ {0} /\ Day % 2 = 0
      /\ r \in Int /\ s \in Int /\ g \in Int
      /\ r % 2 = 1 /\ g % 2 = 0 /\ r < s /\ s < r + Day + g
  BY DEF Sun!SunAssumption
<1>2. \A d \in (0..(MaxTime["sun"] \div Day) + 1) :
        /\ r + d * g < Day
        /\ Sun!RisesOnItsDate(station) => 0 <= r + d * g
  BY DEF Sun!SunAssumption, Sun!RisesOnItsDate
<1>3. \A d : Sun!Rise(d) = d * Day + r + d * g /\ Sun!Set(d) = d * Day + s + d * g
  BY DEF Sun!Rise, Sun!Set
<1> HIDE DEF r, s, g
<1>4. k \in Nat /\ k % 2 = 0
  BY <1>1
<1>5. ASSUME NEW d \in Int
      PROVE  /\ d * k \in Int /\ d * k % 2 = 0 /\ (d + 1) * k = d * k + k
             /\ Sun!Rise(d) = d * k + r /\ Sun!Set(d) = d * k + s
  <2>1. d * k = d * Day + d * g /\ (d + 1) * k = d * k + k
    BY <1>1, <1>4
  <2>2. d * Day \in Int /\ d * g \in Int
    BY <1>1
  <2>3. d * k % 2 = 0
    <3>1. PICK h \in Int : k = 2 * h
      BY <1>4
    <3>2. d * k = 2 * (d * h) /\ d * h \in Int
      BY <3>1
    <3>3. QED
      BY <3>2
  <2>4. Sun!Rise(d) = d * Day + r + d * g /\ Sun!Set(d) = d * Day + s + d * g
    BY <1>3
  <2> DEFINE x == d * Day
             y == d * g
  <2>5. /\ x \in Int /\ y \in Int /\ d * k = x + y
        /\ Sun!Rise(d) = x + r + y /\ Sun!Set(d) = x + s + y
    BY <2>1, <2>2, <2>4
  <2> HIDE DEF x, y
  <2>6. d * k \in Int /\ Sun!Rise(d) = d * k + r /\ Sun!Set(d) = d * k + s
    BY <1>1, <2>5
  <2>7. QED
    BY <2>1, <2>3, <2>6
<1>6. ASSUME NEW d \in Int
      PROVE  /\ Sun!Rise(d) \in Int /\ Sun!Rise(d) % 2 = 1
             /\ Sun!Set(d) \in Int /\ Sun!Set(d) < Sun!Rise(d + 1)
             /\ Sun!Rise(d + 1) = Sun!Rise(d) + Day + g
  <2> DEFINE x == d * k
  <2>1. /\ x \in Int /\ x % 2 = 0
        /\ Sun!Rise(d) = x + r /\ Sun!Set(d) = x + s /\ Sun!Rise(d + 1) = x + k + r
    BY <1>5
  <2> HIDE DEF x
  <2>2. QED
    BY <1>1, <2>1
<1>7. ASSUME NEW d \in Int, NEW e \in Int, d <= e
      PROVE  Sun!Rise(d) <= Sun!Rise(e)
  <2> DEFINE x == d * k
             y == e * k
  <2>1. /\ x \in Int /\ y \in Int /\ x <= y
        /\ Sun!Rise(d) = x + r /\ Sun!Rise(e) = y + r
    BY <1>4, <1>5, <1>7, ProductOrder
  <2> HIDE DEF x, y
  <2>2. QED
    BY <1>1, <2>1
<1>8. ASSUME NEW d \in RiseDays
      PROVE  /\ Sun!Rise(d) < (d + 1) * Day
             /\ Sun!RisesOnItsDate(station) => d * Day <= Sun!Rise(d)
  <2>1. r + d * g < Day /\ (Sun!RisesOnItsDate(station) => 0 <= r + d * g)
    BY <1>2, <1>8 DEF RiseDays, Sun!Date
  <2>2. d \in Int
    BY <1>8, DateFacts DEF Sun!SunAssumption, RiseDays
  <2>3. (d + 1) * Day = d * Day + Day /\ Sun!Rise(d) = d * Day + r + d * g
    BY <1>1, <1>3, <2>2
  <2>4. d * Day \in Int /\ d * g \in Int
    BY <1>1, <2>2
  <2> DEFINE x == d * Day
             v == d * g
  <2>5. /\ x \in Int /\ v \in Int /\ (d + 1) * Day = x + Day
        /\ Sun!Rise(d) = x + r + v /\ r + v < Day
        /\ Sun!RisesOnItsDate(station) => 0 <= r + v
    BY <2>1, <2>3, <2>4
  <2> HIDE DEF x, v
  <2>6. Sun!Rise(d) < x + Day /\ (Sun!RisesOnItsDate(station) => x <= Sun!Rise(d))
    BY <1>1, <2>5
  <2>7. QED
    BY <2>5, <2>6 DEF x
<1>9. QED
  BY <1>6, <1>7, <1>8 DEF g

\* Times that are no guess are those of a day whose sun had risen when the
\* request that wrote them began and, where the sunrise is on its date, of the
\* last such day.
DaytimeInv ==
  sunrise # None /\ ~guessed =>
    \E d \in Dates : /\ sunrise = Sun!Rise(d) /\ sunset = Sun!Set(d)
                     /\ Sun!Rise(d) <= asOf
                     /\ Sun!RisesOnItsDate(station) => asOf < Sun!Rise(d + 1)

LEMMA DaytimeNext ==
  ASSUME Sun!SunAssumption
  PROVE  SunInv /\ DaytimeInv /\ [Sun!Next]_(Sun!vars) => DaytimeInv'
<1> SUFFICES ASSUME SunInv, DaytimeInv, [Sun!Next]_(Sun!vars) PROVE DaytimeInv'
  OBVIOUS
<1>1. /\ station' = station /\ station \in Station
  BY DEF SunInv, Sun!Next, Sun!vars, Sun!Tick, Sun!Refresh, Sun!Begin,
         Sun!Fails, Sun!Today, Sun!Yesterday, Sun!Write
<1>2. \A d : Sun!Rise(d)' = Sun!Rise(d) /\ Sun!Set(d)' = Sun!Set(d)
  BY <1>1 DEF Sun!Rise, Sun!Set
<1>3. Sun!RisesOnItsDate(station)' = Sun!RisesOnItsDate(station)
  BY <1>1 DEF Sun!RisesOnItsDate
<1>4. CASE UNCHANGED <<sunrise, sunset, asOf, guessed>>
  BY <1>2, <1>3, <1>4 DEF DaytimeInv, Dates, Sun!Date
<1>5. ASSUME NEW q \in Request, Sun!Refresh(q) PROVE DaytimeInv'
  <2> DEFINE b == began[q]
             d == Sun!Date(b)
  <2>1. /\ Day \in Nat \ {0} /\ b \in Nat
        /\ d \in Dates /\ d - 1 \in Dates /\ d \in Int
        /\ d \in RiseDays /\ d - 1 \in RiseDays /\ d + 1 \in RiseDays
        /\ d * Day <= b /\ b < (d + 1) * Day
    <3>1. MaxTime["sun"] \in Nat /\ Day \in Nat \ {0}
      BY DEF Sun!SunAssumption
    <3>2. b \in Nat /\ Day <= b /\ b <= MaxTime["sun"]
      BY <3>1 DEF SunInv
    <3>3. /\ d \in Nat /\ 1 <= d /\ d <= Sun!Date(MaxTime["sun"])
          /\ Sun!Date(MaxTime["sun"]) \in Nat
          /\ d * Day <= b /\ b < (d + 1) * Day
      BY <3>1, <3>2, DateFacts, DateGrows
    <3>4. QED
      BY <3>1, <3>2, <3>3 DEF Dates, RiseDays
  <2>2. sunPc[q] = "yesterday" => b < Sun!Rise(d)
    <3>1. Sun!Rise(d) \in Int
      BY <1>1, <2>1, RiseFacts
    <3>2. QED
      BY <2>1, <3>1 DEF SunInv
  <2> HIDE DEF d
  <2>3. ASSUME NEW e \in Dates, Sun!Write(q, e), Sun!Rise(e) <= b,
               Sun!RisesOnItsDate(station) => b < Sun!Rise(e + 1)
        PROVE  DaytimeInv'
    <3>1. asOf' = b /\ sunrise' = Sun!Rise(e) /\ sunset' = Sun!Set(e)
      BY <2>3 DEF Sun!Write, Sun!Update
    <3>2. e \in Dates'
      BY DEF Dates, Sun!Date
    <3>3. QED
      BY <1>2, <1>3, <2>3, <3>1, <3>2 DEF DaytimeInv
  <2>4. CASE Sun!Begin(q) \/ Sun!Fails(q)
    BY <1>4, <2>4 DEF Sun!Begin, Sun!Fails
  <2>5. CASE Sun!Today(q)
    <3>1. CASE Sun!Rise(d) <= b /\ Sun!Write(q, d)
      <4>1. Sun!RisesOnItsDate(station) => b < Sun!Rise(d + 1)
        <5>1. /\ Sun!Rise(d + 1) \in Int
              /\ Sun!RisesOnItsDate(station) => (d + 1) * Day <= Sun!Rise(d + 1)
          BY <1>1, <2>1, RiseFacts
        <5> DEFINE x == (d + 1) * Day
        <5>2. x \in Int /\ b < x /\ (Sun!RisesOnItsDate(station) => x <= Sun!Rise(d + 1))
          BY <2>1, <5>1
        <5> HIDE DEF x
        <5>3. QED
          BY <2>1, <5>1, <5>2
      <4>2. QED
        BY <2>1, <2>3, <3>1, <4>1
    <3>2. CASE UNCHANGED <<station, utc, sunrise, sunset, began, asOf, guessed>>
      BY <1>4, <3>2
    <3>3. QED
      BY <2>5, <3>1, <3>2, Zenon DEF Sun!Today, d
  <2>6. CASE Sun!Yesterday(q)
    <3>1. CASE Sun!Write(q, d - 1)
      <4>1. sunPc[q] = "yesterday"
        BY <2>6, Zenon DEF Sun!Yesterday
      <4>2. d - 1 + 1 = d /\ d - 1 \in Int
        BY <2>1
      <4>3. Sun!Rise(d - 1) <= b
        <5>1. Sun!Rise(d - 1) \in Int /\ Sun!Rise(d - 1) < d * Day
          BY <1>1, <2>1, <4>2, RiseFacts
        <5> DEFINE x == d * Day
        <5>2. x \in Int /\ x <= b /\ Sun!Rise(d - 1) < x
          BY <2>1, <5>1
        <5> HIDE DEF x
        <5>3. QED
          BY <2>1, <5>1, <5>2
      <4>4. QED
        BY <2>1, <2>2, <2>3, <3>1, <4>1, <4>2, <4>3
    <3>2. CASE guessed' = TRUE
      BY <3>2 DEF DaytimeInv
    <3>3. QED
      BY <2>6, <3>1, <3>2, Zenon DEF Sun!Yesterday, d
  <2>7. QED
    BY <1>5, <2>4, <2>5, <2>6 DEF Sun!Refresh
<1>6. CASE Sun!Tick
  BY <1>4, <1>6 DEF Sun!Tick
<1>7. CASE UNCHANGED Sun!vars
  BY <1>4, <1>7 DEF Sun!vars
<1>8. QED
  BY <1>5, <1>6, <1>7 DEF Sun!Next

\* Then daytime is true exactly while the sun is up, unless the sun has risen
\* since, and then the next request refreshes the times.
LEMMA DaytimeFacts ==
  ASSUME Sun!SunAssumption, SunInv, DaytimeInv
  PROVE  Sun!DaytimeFollowsSun
<1> SUFFICES ASSUME sunrise # None, ~guessed
             PROVE  /\ Sun!IsRight \/ Sun!NeedRefresh \/ Sun!RoseEarlier
                    /\ Sun!RisesOnItsDate(station) /\ ~Sun!RoseSince(asOf) => Sun!IsRight
  BY Zenon DEF Sun!DaytimeFollowsSun
<1>1. /\ \A d \in Int : /\ Sun!Rise(d) \in Int /\ Sun!Rise(d) % 2 = 1
                        /\ Sun!Set(d) \in Int /\ Sun!Set(d) < Sun!Rise(d + 1)
                        /\ Sun!Rise(d + 1) = Sun!Rise(d) + Day + station.drift
      /\ \A d, e \in Int : d <= e => Sun!Rise(d) <= Sun!Rise(e)
  BY RiseFacts DEF SunInv
<1>2. /\ Day \in Nat \ {0} /\ utc \in Nat /\ utc % 2 = 0 /\ asOf \in Nat /\ asOf <= utc
      /\ Sun!Date(MaxTime["sun"]) \in Nat /\ station.drift \in Int
  BY DateFacts DEF Sun!SunAssumption, SunInv
<1> DEFINE Days == -1..Sun!Date(MaxTime["sun"]) + 1
<1>3. PICK d \in Dates : /\ sunrise = Sun!Rise(d) /\ sunset = Sun!Set(d)
                         /\ Sun!Rise(d) <= asOf
                         /\ Sun!RisesOnItsDate(station) => asOf < Sun!Rise(d + 1)
  BY DEF DaytimeInv
<1>4. /\ d \in Int /\ d + 1 \in Int /\ d \in Days /\ d + 1 \in Days
      /\ Sun!Rise(d) \in Int /\ Sun!Rise(d) % 2 = 1 /\ Sun!Set(d) \in Int
      /\ Sun!Rise(d + 1) \in Int /\ Sun!Rise(d + 1) % 2 = 1
      /\ Sun!Rise(d + 1) = Sun!Rise(d) + Day + station.drift
  <2>1. d \in Int /\ d + 1 \in Int /\ d \in Days /\ d + 1 \in Days
    BY <1>2 DEF Dates
  <2>2. QED
    BY <1>1, <2>1
<1>5. Sun!Rise(d) < utc
  BY <1>2, <1>3, <1>4
<1>6. Sun!Daytime <=> utc < Sun!Set(d)
  BY <1>2, <1>3, <1>4, <1>5 DEF Sun!Daytime
<1>7. ASSUME ~(Sun!Rise(d + 1) < utc)
      PROVE  Sun!IsRight
  <2>1. ASSUME NEW e \in Days, Sun!Rise(e) < utc, utc < Sun!Set(e)
        PROVE  e = d
    <3>1. /\ e \in Int /\ e + 1 \in Int
          /\ Sun!Rise(e) \in Int /\ Sun!Set(e) \in Int /\ Sun!Rise(e + 1) \in Int
          /\ Sun!Set(e) < Sun!Rise(e + 1)
      BY <1>1, <1>2
    <3>2. ASSUME d < e PROVE FALSE
      <4>1. Sun!Rise(d + 1) <= Sun!Rise(e)
        BY <1>1, <1>4, <3>1, <3>2
      <4>2. QED
        BY <1>2, <1>4, <1>7, <2>1, <3>1, <4>1
    <3>3. ASSUME e < d PROVE FALSE
      <4>1. Sun!Rise(e + 1) <= Sun!Rise(d)
        BY <1>1, <1>4, <3>1, <3>3
      <4>2. QED
        BY <1>2, <1>4, <1>5, <2>1, <3>1, <4>1
    <3>4. QED
      BY <1>4, <3>1, <3>2, <3>3
  <2>2. Sun!SunIsUp <=> utc < Sun!Set(d)
    BY <1>4, <1>5, <2>1 DEF Sun!SunIsUp
  <2>3. QED
    BY <1>6, <2>2, Zenon DEF Sun!IsRight
<1>8. Sun!IsRight \/ Sun!NeedRefresh \/ Sun!RoseEarlier
  <2>1. SUFFICES ASSUME ~Sun!NeedRefresh, ~Sun!RoseEarlier PROVE Sun!IsRight
    OBVIOUS
  <2>2. utc <= sunrise + Day
    BY <1>2, <1>3, <1>4, <2>1 DEF Sun!NeedRefresh
  <2>3. ~(sunrise + Day + station.drift < utc)
    BY <2>1, <2>2 DEF Sun!RoseEarlier
  <2>4. QED
    BY <1>3, <1>4, <1>7, <2>3
<1>9. ASSUME Sun!RisesOnItsDate(station), ~Sun!RoseSince(asOf)
      PROVE  Sun!IsRight
  <2>1. asOf < Sun!Rise(d + 1)
    BY <1>3, <1>9
  <2>2. ~(Sun!Rise(d + 1) < utc)
    BY <1>4, <1>9, <2>1 DEF Sun!RoseSince
  <2>3. QED
    BY <1>7, <2>2
<1>10. QED
  BY <1>8, <1>9
-----------------------------------------------------------------------------
(* The enrichments together.                                               *)

\* One part moves, by a step of its own, and the others are at rest.
LEMMA PartStays ==
  ASSUME [Next]_vars
  PROVE  part' = part
BY DEF Next, vars, TapsMove, WindMoves, LightningMoves, SkyMoves, SmoothedMoves, ComfortMoves, SunMoves,
     SceneMoves, BarometerMoves, TextMoves, PlanetsMove, UnitsMove

\* The steps of part wind are those of its module.
LEMMA WindStep ==
  ASSUME [Next]_vars
  PROVE  /\ part = "wind" => [Wind!Next]_(Wind!vars)
         /\ part # "wind" => UNCHANGED windVars
<1>1. CASE TapsMove
  BY <1>1 DEF TapsMove, WindMoves, LightningMoves, SkyMoves, SmoothedMoves
<1>2. CASE ComfortMoves \/ SunMoves \/ SceneMoves \/ BarometerMoves
           \/ TextMoves \/ PlanetsMove \/ UnitsMove
  BY <1>2 DEF ComfortMoves, SunMoves, SceneMoves, BarometerMoves, TextMoves, PlanetsMove,
              UnitsMove, tapVars
<1>3. CASE UNCHANGED vars
  BY <1>3 DEF vars, tapVars, windVars, Wind!vars
<1>4. QED
  BY <1>1, <1>2, <1>3 DEF Next

\* The steps of part lightning are those of its module.
LEMMA LightningStep ==
  ASSUME [Next]_vars
  PROVE  /\ part = "lightning" => [Lightning!Next]_(Lightning!vars)
         /\ part # "lightning" => UNCHANGED lightningVars
<1>1. CASE TapsMove
  BY <1>1 DEF TapsMove, WindMoves, LightningMoves, SkyMoves, SmoothedMoves
<1>2. CASE ComfortMoves \/ SunMoves \/ SceneMoves \/ BarometerMoves
           \/ TextMoves \/ PlanetsMove \/ UnitsMove
  BY <1>2 DEF ComfortMoves, SunMoves, SceneMoves, BarometerMoves, TextMoves, PlanetsMove,
              UnitsMove, tapVars
<1>3. CASE UNCHANGED vars
  BY <1>3 DEF vars, tapVars, lightningVars, Lightning!vars
<1>4. QED
  BY <1>1, <1>2, <1>3 DEF Next

\* The steps of part sky are those of its module.
LEMMA SkyStep ==
  ASSUME [Next]_vars
  PROVE  /\ part = "sky" => [Sky!Next]_(Sky!vars)
         /\ part # "sky" => UNCHANGED skyVars
<1>1. CASE TapsMove
  BY <1>1 DEF TapsMove, WindMoves, LightningMoves, SkyMoves, SmoothedMoves
<1>2. CASE ComfortMoves \/ SunMoves \/ SceneMoves \/ BarometerMoves
           \/ TextMoves \/ PlanetsMove \/ UnitsMove
  BY <1>2 DEF ComfortMoves, SunMoves, SceneMoves, BarometerMoves, TextMoves, PlanetsMove,
              UnitsMove, tapVars
<1>3. CASE UNCHANGED vars
  BY <1>3 DEF vars, tapVars, skyVars, Sky!vars
<1>4. QED
  BY <1>1, <1>2, <1>3 DEF Next

\* The steps of part smoothed are those of its module.
LEMMA SmoothedStep ==
  ASSUME [Next]_vars
  PROVE  /\ part = "smoothed" => [Smoothed!Next]_(Smoothed!vars)
         /\ part # "smoothed" => UNCHANGED smoothedVars
<1>1. CASE TapsMove
  BY <1>1 DEF TapsMove, WindMoves, LightningMoves, SkyMoves, SmoothedMoves
<1>2. CASE ComfortMoves \/ SunMoves \/ SceneMoves \/ BarometerMoves
           \/ TextMoves \/ PlanetsMove \/ UnitsMove
  BY <1>2 DEF ComfortMoves, SunMoves, SceneMoves, BarometerMoves, TextMoves, PlanetsMove,
              UnitsMove, tapVars
<1>3. CASE UNCHANGED vars
  BY <1>3 DEF vars, tapVars, smoothedVars, Smoothed!vars
<1>4. QED
  BY <1>1, <1>2, <1>3 DEF Next

\* The steps of part comfort are those of its module.
LEMMA ComfortStep ==
  ASSUME [Next]_vars
  PROVE  /\ part = "comfort" => [Comfort!Next]_(Comfort!vars)
         /\ part # "comfort" => UNCHANGED comfortVars
<1>1. CASE TapsMove
  BY <1>1 DEF TapsMove, WindMoves, LightningMoves, SkyMoves, SmoothedMoves
<1>2. CASE ComfortMoves \/ SunMoves \/ SceneMoves \/ BarometerMoves
           \/ TextMoves \/ PlanetsMove \/ UnitsMove
  BY <1>2 DEF ComfortMoves, SunMoves, SceneMoves, BarometerMoves, TextMoves, PlanetsMove,
              UnitsMove
<1>3. CASE UNCHANGED vars
  BY <1>3 DEF vars, comfortVars, Comfort!vars
<1>4. QED
  BY <1>1, <1>2, <1>3 DEF Next

\* The steps of part sun are those of its module.
LEMMA SunStep ==
  ASSUME [Next]_vars
  PROVE  /\ part = "sun" => [Sun!Next]_(Sun!vars)
         /\ part # "sun" => UNCHANGED sunVars
<1>1. CASE TapsMove
  BY <1>1 DEF TapsMove, WindMoves, LightningMoves, SkyMoves, SmoothedMoves
<1>2. CASE ComfortMoves \/ SunMoves \/ SceneMoves \/ BarometerMoves
           \/ TextMoves \/ PlanetsMove \/ UnitsMove
  BY <1>2 DEF ComfortMoves, SunMoves, SceneMoves, BarometerMoves, TextMoves, PlanetsMove,
              UnitsMove
<1>3. CASE UNCHANGED vars
  BY <1>3 DEF vars, sunVars, Sun!vars
<1>4. QED
  BY <1>1, <1>2, <1>3 DEF Next

\* The steps of part scene are those of its module.
LEMMA SceneStep ==
  ASSUME [Next]_vars
  PROVE  /\ part = "scene" => [Scene!Next]_(Scene!vars)
         /\ part # "scene" => UNCHANGED sceneVars
<1>1. CASE TapsMove
  BY <1>1 DEF TapsMove, WindMoves, LightningMoves, SkyMoves, SmoothedMoves
<1>2. CASE ComfortMoves \/ SunMoves \/ SceneMoves \/ BarometerMoves
           \/ TextMoves \/ PlanetsMove \/ UnitsMove
  BY <1>2 DEF ComfortMoves, SunMoves, SceneMoves, BarometerMoves, TextMoves, PlanetsMove,
              UnitsMove
<1>3. CASE UNCHANGED vars
  BY <1>3 DEF vars, sceneVars, Scene!vars
<1>4. QED
  BY <1>1, <1>2, <1>3 DEF Next

\* The steps of part barometer are those of its module.
LEMMA BarometerStep ==
  ASSUME [Next]_vars
  PROVE  /\ part = "barometer" => [Barometer!Next]_(Barometer!vars)
         /\ part # "barometer" => UNCHANGED barometerVars
<1>1. CASE TapsMove
  BY <1>1 DEF TapsMove, WindMoves, LightningMoves, SkyMoves, SmoothedMoves
<1>2. CASE ComfortMoves \/ SunMoves \/ SceneMoves \/ BarometerMoves
           \/ TextMoves \/ PlanetsMove \/ UnitsMove
  BY <1>2 DEF ComfortMoves, SunMoves, SceneMoves, BarometerMoves, TextMoves, PlanetsMove,
              UnitsMove
<1>3. CASE UNCHANGED vars
  BY <1>3 DEF vars, barometerVars, Barometer!vars
<1>4. QED
  BY <1>1, <1>2, <1>3 DEF Next

\* The steps of part text are those of its module.
LEMMA ConditionsStep ==
  ASSUME [Next]_vars
  PROVE  /\ part = "text" => [Conditions!Next]_(Conditions!vars)
         /\ part # "text" => UNCHANGED textVars
<1>1. CASE TapsMove
  BY <1>1 DEF TapsMove, WindMoves, LightningMoves, SkyMoves, SmoothedMoves
<1>2. CASE ComfortMoves \/ SunMoves \/ SceneMoves \/ BarometerMoves
           \/ TextMoves \/ PlanetsMove \/ UnitsMove
  BY <1>2 DEF ComfortMoves, SunMoves, SceneMoves, BarometerMoves, TextMoves, PlanetsMove,
              UnitsMove
<1>3. CASE UNCHANGED vars
  BY <1>3 DEF vars, textVars, Conditions!vars
<1>4. QED
  BY <1>1, <1>2, <1>3 DEF Next

\* The steps of part planets are those of its module.
LEMMA PlanetsStep ==
  ASSUME [Next]_vars
  PROVE  /\ part = "planets" => [Planets!Next]_(Planets!vars)
         /\ part # "planets" => UNCHANGED planetVars
<1>1. CASE TapsMove
  BY <1>1 DEF TapsMove, WindMoves, LightningMoves, SkyMoves, SmoothedMoves
<1>2. CASE ComfortMoves \/ SunMoves \/ SceneMoves \/ BarometerMoves
           \/ TextMoves \/ PlanetsMove \/ UnitsMove
  BY <1>2 DEF ComfortMoves, SunMoves, SceneMoves, BarometerMoves, TextMoves, PlanetsMove,
              UnitsMove
<1>3. CASE UNCHANGED vars
  BY <1>3 DEF vars, planetVars, Planets!vars
<1>4. QED
  BY <1>1, <1>2, <1>3 DEF Next

\* The steps of part units are those of its module.
LEMMA UnitsStep ==
  ASSUME [Next]_vars
  PROVE  /\ part = "units" => [Units!Next]_(Units!vars)
         /\ part # "units" => UNCHANGED unitVars
<1>1. CASE TapsMove
  BY <1>1 DEF TapsMove, WindMoves, LightningMoves, SkyMoves, SmoothedMoves
<1>2. CASE ComfortMoves \/ SunMoves \/ SceneMoves \/ BarometerMoves
           \/ TextMoves \/ PlanetsMove \/ UnitsMove
  BY <1>2 DEF ComfortMoves, SunMoves, SceneMoves, BarometerMoves, TextMoves, PlanetsMove,
              UnitsMove
<1>3. CASE UNCHANGED vars
  BY <1>3 DEF vars, unitVars, Units!vars
<1>4. QED
  BY <1>1, <1>2, <1>3 DEF Next

\* Part wind keeps its invariant, and is at rest while another moves.
WindPart ==
  /\ part = "wind" => WindInv
  /\ part # "wind" => added = [f \in Wind!Field |-> <<>>]

LEMMA WindPartHolds == Spec => []WindPart
<1>1. Wind!WindAssumption
  BY TapAssumption
<1>2. Init => WindPart
  BY <1>1, WindInit DEF Init, TapsInit, Wind!Init, WindPart
<1>3. WindPart /\ [Next]_vars => WindPart'
  BY <1>1, PartStays, WindStep, WindNext DEF WindPart, windVars
<1>4. QED
  BY <1>2, <1>3, PTL DEF Spec

\* Part lightning keeps its invariant, and is at rest while another moves.
LightningPart ==
  /\ part = "lightning" => LightningInv
  /\ part # "lightning" => strikeData = <<>> /\ known = 0 /\ traces = <<>>

LEMMA LightningPartHolds == Spec => []LightningPart
<1>1. Lightning!LightningAssumption
  BY TapAssumption
<1>2. Init => LightningPart
  BY <1>1, LightningInit DEF Init, TapsInit, Lightning!Init, LightningPart
<1>3. LightningPart /\ [Next]_vars => LightningPart'
  BY <1>1, PartStays, LightningStep, LightningNext DEF LightningPart, lightningVars
<1>4. QED
  BY <1>2, <1>3, PTL DEF Spec

\* Part sky keeps its invariant, and is at rest while another moves.
SkyPart ==
  /\ part = "sky" => SkyInv
  /\ part # "sky" => buffer = <<>> /\ lastLabel = None /\ taken = <<>>

LEMMA SkyPartHolds == Spec => []SkyPart
<1>1. Sky!SkyAssumption
  BY TapAssumption
<1>2. Init => SkyPart
  BY <1>1, SkyInit DEF Init, TapsInit, Sky!Init, SkyPart
<1>3. SkyPart /\ [Next]_vars => SkyPart'
  BY <1>1, PartStays, SkyStep, SkyNext DEF SkyPart, skyVars
<1>4. QED
  BY <1>2, <1>3, PTL DEF Spec

\* Part smoothed keeps its invariant, and is at rest while another moves.
SmoothedPart ==
  /\ part = "smoothed" => SmoothedInv
  /\ part # "smoothed" =>
       /\ ring = [f \in SmoothedField |-> <<>>]
       /\ fed = [f \in SmoothedField |-> <<>>]

LEMMA SmoothedPartHolds == Spec => []SmoothedPart
<1>1. Smoothed!SmoothedAssumption
  BY TapAssumption
<1>2. Init => SmoothedPart
  BY <1>1, SmoothedInit DEF Init, TapsInit, Smoothed!Init, SmoothedPart
<1>3. SmoothedPart /\ [Next]_vars => SmoothedPart'
  BY <1>1, PartStays, SmoothedStep, SmoothedNext DEF SmoothedPart, smoothedVars
<1>4. QED
  BY <1>2, <1>3, PTL DEF Spec

\* Part comfort keeps its invariant, and is at rest while another moves.
ComfortPart ==
  /\ part = "comfort" => ComfortInv
  /\ part # "comfort" => cached = None /\ accepted = None /\ tempTier = None

LEMMA ComfortPartHolds == Spec => []ComfortPart
<1>1. Comfort!ComfortAssumption
  BY CurrentAssumption
<1>2. Init => ComfortPart
  BY <1>1, ComfortInit DEF Init, Comfort!Init, ComfortPart
<1>3. ComfortPart /\ [Next]_vars => ComfortPart'
  BY <1>1, PartStays, ComfortStep, ComfortNext DEF ComfortPart, comfortVars
<1>4. QED
  BY <1>2, <1>3, PTL DEF Spec

\* Part scene keeps its invariant, and is at rest while another moves.
ScenePart ==
  /\ part = "scene" => SceneInv
  /\ part # "scene" =>
       /\ response = None
       /\ lastPrecip = None
       /\ wet = [p \in Scene!Precip |-> None]

LEMMA ScenePartHolds == Spec => []ScenePart
<1>1. Scene!SceneAssumption
  BY CurrentAssumption
<1>2. Init => ScenePart
  BY <1>1, SceneInit DEF Init, Scene!Init, ScenePart
<1>3. ScenePart /\ [Next]_vars => ScenePart'
  BY <1>1, PartStays, SceneStep, SceneNext DEF ScenePart, sceneVars
<1>4. QED
  BY <1>2, <1>3, PTL DEF Spec

\* Part barometer keeps its invariant, and is at rest while another moves.
BarometerPart ==
  /\ part = "barometer" => BarometerInv
  /\ part # "barometer" => answer = Barometer!Null

LEMMA BarometerPartHolds == Spec => []BarometerPart
<1>1. Barometer!BarometerAssumption
  BY CurrentAssumption
<1>2. Init => BarometerPart
  BY <1>1, BarometerInit DEF Init, Barometer!Init, BarometerPart
<1>3. BarometerPart /\ [Next]_vars => BarometerPart'
  BY <1>1, PartStays, BarometerStep, BarometerNext DEF BarometerPart, barometerVars
<1>4. QED
  BY <1>2, <1>3, PTL DEF Spec

\* Part text keeps its invariant, and is at rest while another moves.
ConditionsPart ==
  /\ part = "text" => TextInv
  /\ part # "text" => code = None

LEMMA ConditionsPartHolds == Spec => []ConditionsPart
<1>1. Init => ConditionsPart
  BY ConditionsInit DEF Init, Conditions!Init, ConditionsPart
<1>2. ConditionsPart /\ [Next]_vars => ConditionsPart'
  BY PartStays, ConditionsStep, ConditionsNext DEF ConditionsPart, textVars
<1>3. QED
  BY <1>1, <1>2, PTL DEF Spec

\* Part units keeps its invariant, and is at rest while another moves.
UnitsPart ==
  /\ part = "units" => UnitsInv
  /\ part # "units" => shown = None /\ archive = <<>> /\ loop = None

LEMMA UnitsPartHolds == Spec => []UnitsPart
<1>1. Init => UnitsPart
  BY UnitsInit DEF Init, Units!Init, UnitsPart
<1>2. UnitsPart /\ [Next]_vars => UnitsPart'
  BY PartStays, UnitsStep, UnitsNext DEF UnitsPart, unitVars
<1>3. QED
  BY <1>1, <1>2, PTL DEF Spec

\* Part planets keeps its invariant, and is at rest while another moves.
PlanetsPart ==
  /\ part = "planets" => PlanetsInv
  /\ part # "planets" => at = "start" /\ fields = <<>>

LEMMA PlanetsPartHolds == Spec => []PlanetsPart
<1>1. Init => PlanetsPart
  BY PlanetsInit DEF Init, Planets!Init, PlanetsPart
<1>2. PlanetsPart /\ [Next]_vars => PlanetsPart'
  BY PartStays, PlanetsStep, PlanetsNext DEF PlanetsPart, planetVars
<1>3. QED
  BY <1>1, <1>2, PTL DEF Spec

\* Part sun keeps its invariant, and is at rest while another moves.
SunPart ==
  /\ part = "sun" => SunInv
  /\ part # "sun" => sunrise = None

LEMMA SunPartHolds == Spec => []SunPart
<1>1. Sun!SunAssumption
  BY CurrentAssumption
<1>2. Init => SunPart
  BY <1>1, SunInit, Zenon DEF Init, Sun!Init, SunPart
<1>3. SunPart /\ [Next]_vars => SunPart'
  BY <1>1, PartStays, SunStep, SunNext DEF SunPart, sunVars
<1>4. QED
  BY <1>2, <1>3, PTL DEF Spec

\* What a tap that is at rest reports is right as well: nothing, of nothing.
LEMMA WindPartFacts ==
  ASSUME WindPart
  PROVE  /\ part = "wind" => Wind!WindTypeOK
         /\ Wind!RecentIsKept /\ Wind!ReportIsOfTheWindow
<1>1. Wind!WindAssumption
  BY TapAssumption
<1>2. CASE part = "wind"
  BY <1>1, <1>2, WindIsKept, WindReport DEF WindPart
<1>3. CASE part # "wind"
  <2>1. \A f \in Wind!Field : added[f] = <<>> /\ DOMAIN added[f] = {}
    BY <1>3 DEF WindPart
  <2>2. QED
    BY <1>3, <2>1 DEF Wind!RecentIsKept, Wind!ReportIsOfTheWindow
<1>4. QED
  BY <1>2, <1>3

LEMMA LightningPartFacts ==
  ASSUME LightningPart
  PROVE  /\ part = "lightning" => Lightning!LightningTypeOK
         /\ Lightning!NoPhantomStrike /\ Lightning!StrikesLeaveATrace
<1>1. Lightning!LightningAssumption
  BY TapAssumption
<1>2. CASE part = "lightning"
  BY <1>1, <1>2, LightningFacts DEF LightningPart
<1>3. CASE part # "lightning"
  <2>1. Len(<<>>) = 0 /\ DOMAIN <<>> = {}
    OBVIOUS
  <2>2. strikeData = <<>> /\ known = 0 /\ traces = <<>>
    BY <1>3 DEF LightningPart
  <2>3. QED
    BY <1>3, <2>1, <2>2 DEF Lightning!NoPhantomStrike, Lightning!StrikesLeaveATrace,
                            Lightning!History
<1>4. QED
  BY <1>2, <1>3

LEMMA SkyPartFacts ==
  ASSUME SkyPart
  PROVE  /\ part = "sky" => Sky!SkyTypeOK
         /\ Sky!LabelJustified /\ Sky!NightForgets
<1>1. Sky!SkyAssumption
  BY TapAssumption
<1>2. CASE part = "sky"
  BY <1>1, <1>2, SkyFacts DEF SkyPart
<1>3. CASE part # "sky"
  <2>1. buffer = <<>> /\ lastLabel = None
    BY <1>3 DEF SkyPart
  <2>2. Len(buffer) < MinSamples["sky"]
    <3>1. Len(buffer) = 0
      BY <2>1, EmptySeq
    <3>2. QED
      BY <1>1, <3>1, SkyConstants
  <2>3. Sky!Result = None
    BY <2>2 DEF Sky!Result
  <2>4. QED
    BY <1>3, <2>1, <2>3 DEF Sky!LabelJustified, Sky!NightForgets
<1>4. QED
  BY <1>2, <1>3

LEMMA SmoothedPartFacts ==
  ASSUME SmoothedPart
  PROVE  /\ part = "smoothed" => Smoothed!SmoothedTypeOK
         /\ Smoothed!SmoothedIsMean
<1>1. Smoothed!SmoothedAssumption
  BY TapAssumption
<1>2. CASE part = "smoothed"
  BY <1>1, <1>2, SmoothedFacts DEF SmoothedPart
<1>3. CASE part # "smoothed"
  <2>1. ASSUME NEW f \in SmoothedField
        PROVE  LET n == IF Len(fed[f]) < Capacity[f] THEN Len(fed[f]) ELSE Capacity[f] IN
               n < MinSamples["smoothed"] /\ Smoothed!Smoothed(f) = None
    <3>1. ring[f] = <<>> /\ fed[f] = <<>> /\ Len(<<>>) = 0
      BY <1>3 DEF SmoothedPart
    <3>2. Capacity[f] \in Nat \ {0} /\ MinSamples["smoothed"] \in Nat \ {0}
      BY <1>1 DEF Smoothed!SmoothedAssumption
    <3>3. QED
      BY <3>1, <3>2 DEF Smoothed!Smoothed
  <2>2. Smoothed!SmoothedIsMean
    BY <2>1 DEF Smoothed!SmoothedIsMean
  <2>3. QED
    BY <1>3, <2>2
<1>4. QED
  BY <1>2, <1>3

LEMMA ComfortPartFacts ==
  ASSUME ComfortPart
  PROVE  /\ part = "comfort" => Comfort!ComfortTypeOK
         /\ Comfort!TiersFollowReading /\ Comfort!LabelMatchesTiers
BY DEF ComfortPart, ComfortInv, Comfort!TiersFollowReading, Comfort!LabelMatchesTiers

LEMMA ScenePartFacts ==
  ASSUME ScenePart
  PROVE  /\ part = "scene" => Scene!SceneTypeOK
         /\ Scene!SameSceneAtNight /\ Scene!OverlayLingers
<1>1. Scene!SceneAssumption
  BY CurrentAssumption
<1>2. CASE part = "scene"
  BY <1>1, <1>2, SceneFacts DEF ScenePart
<1>3. CASE part # "scene"
  <2>1. response = None /\ lastPrecip = None /\ \A p \in Scene!Precip : wet[p] = None
    BY <1>3 DEF ScenePart
  <2>2. Scene!PacketScene.overlay = None
    BY <2>1 DEF Scene!PacketScene, Scene!Scene, Scene!Lingering
  <2>3. {p \in Scene!Precip : IF wet[p] = None THEN FALSE ELSE now - wet[p] <= Linger} = {}
    BY <2>1
  <2>4. Scene!OverlayLingers
    BY <2>2, <2>3 DEF Scene!OverlayLingers
  <2>5. QED
    BY <1>3, <2>1, <2>4 DEF Scene!SameSceneAtNight
<1>4. QED
  BY <1>2, <1>3

LEMMA BarometerPartFacts ==
  ASSUME BarometerPart
  PROVE  /\ part = "barometer" => Barometer!BarometerTypeOK
         /\ Barometer!TrendIsRight
<1>1. CASE part = "barometer"
  BY <1>1, BarometerFacts DEF BarometerPart
<1>2. CASE part # "barometer"
  BY <1>2 DEF BarometerPart, Barometer!Null, Barometer!TrendIsRight
<1>3. QED
  BY <1>1, <1>2

LEMMA ConditionsPartFacts ==
  ASSUME ConditionsPart
  PROVE  Conditions!CodeSaysWhatTextSays
<1>1. Conditions!TextAssumption
  BY CurrentAssumption
<1>2. CASE part = "text"
  BY <1>1, <1>2, ConditionsFacts DEF ConditionsPart
<1>3. CASE part # "text"
  BY <1>3, Zenon DEF ConditionsPart, Conditions!CodeSaysWhatTextSays
<1>4. QED
  BY <1>2, <1>3

LEMMA UnitsPartFacts ==
  ASSUME UnitsPart
  PROVE  Units!PathsAgree /\ Units!AllOrRaw
<1>1. Units!UnitsAssumption
  BY CurrentAssumption
<1>2. CASE part = "units"
  BY <1>1, <1>2, PathsFacts, AllOrRawFacts DEF UnitsPart
<1>3. CASE part # "units"
  <2>1. shown = None /\ loop = None /\ archive = <<>> /\ DOMAIN archive = {}
    BY <1>3 DEF UnitsPart
  <2>2. Units!PathsAgree
    BY <2>1 DEF Units!PathsAgree
  <2>3. Units!AllOrRaw
    BY <2>1 DEF Units!AllOrRaw
  <2>4. QED
    BY <2>2, <2>3
<1>4. QED
  BY <1>2, <1>3

LEMMA PlanetsPartFacts ==
  ASSUME PlanetsPart
  PROVE  Planets!FailuresAreLocal /\ Planets!BestTimeIsClear
<1>1. Planets!PlanetsAssumption
  BY CurrentAssumption
<1>2. CASE part = "planets"
  BY <1>1, <1>2, PlanetsFacts DEF PlanetsPart
<1>3. CASE part # "planets"
  BY <1>3 DEF PlanetsPart, Planets!FailuresAreLocal, Planets!BestTimeIsClear
<1>4. QED
  BY <1>2, <1>3

\* In every behaviour of all the enrichments every variable stays in its range
\* (the two times of the sun are always those of one day).
THEOREM EnrichmentsTyped == Spec => []EnrichmentTypeOK
<1>1. WindPart /\ LightningPart /\ SkyPart /\ SmoothedPart => TapsTypeOK
  BY WindPartFacts, LightningPartFacts, SkyPartFacts, SmoothedPartFacts DEF TapsTypeOK
<1>2. ComfortPart /\ SunPart /\ ScenePart /\ BarometerPart =>
        /\ part = "comfort" => Comfort!ComfortTypeOK
        /\ part = "sun" => Sun!SunTypeOK
        /\ part = "scene" => Scene!SceneTypeOK
        /\ part = "barometer" => Barometer!BarometerTypeOK
  BY ComfortPartFacts, SunFacts, ScenePartFacts, BarometerPartFacts DEF SunPart
<1>3. WindPart /\ LightningPart /\ SkyPart /\ SmoothedPart /\ ComfortPart /\ SunPart
        /\ ScenePart /\ BarometerPart => EnrichmentTypeOK
  BY <1>1, <1>2, Zenon DEF EnrichmentTypeOK
<1>4. QED
  BY <1>3, WindPartHolds, LightningPartHolds, SkyPartHolds, SmoothedPartHolds,
     ComfortPartHolds, SunPartHolds, ScenePartHolds, BarometerPartHolds, PTL

\* In every behaviour of all the enrichments the reports of wind are of exactly
\* the samples of the window and a smoothed field is the mean of its last
\* readings (evict, get_wind_avg, get_gust_max, RingBuffer.add).
THEOREM ReportsOfSamples == Spec => []ReportsAreOfTheirSamples
<1>1. WindPart /\ SmoothedPart => ReportsAreOfTheirSamples
  BY WindPartFacts, SmoothedPartFacts DEF ReportsAreOfTheirSamples
<1>2. QED
  BY <1>1, WindPartHolds, SmoothedPartHolds, PTL

\* In every behaviour of all the enrichments the log of strikes follows the
\* counter through resets and restarts (process_packet, _evict).
THEOREM LogIsOfTheCounter == Spec => []LogFollowsCounter
<1>1. LightningPart => LogFollowsCounter
  BY LightningPartFacts DEF LogFollowsCounter
<1>2. QED
  BY <1>1, LightningPartHolds, PTL

\* In every behaviour of all the enrichments a label of the sky is the one the
\* thresholds give to a mean at most the hysteresis away, whatever was shown
\* before, and the first of a day owes nothing to the day before (classify,
\* update).
THEOREM SkyLabelsAreDue == Spec => []SkyLabelIsDue
<1>1. SkyPart => SkyLabelIsDue
  BY SkyPartFacts DEF SkyLabelIsDue
<1>2. QED
  BY <1>1, SkyPartHolds, PTL

\* In every behaviour of all the enrichments the tiers are within the band of
\* the reading whose label is shown, and those of the label (classify).
THEOREM TiersOfTheReading == Spec => []TiersAreOfTheReading
<1>1. ComfortPart => TiersAreOfTheReading
  BY ComfortPartFacts DEF TiersAreOfTheReading
<1>2. QED
  BY <1>1, ComfortPartHolds, PTL

\* In every behaviour of all the enrichments a label stays for the hold time
\* and a change of tier is undone only by a reading a band away (classify,
\* _apply_temp_hysteresis).
THEOREM LabelsAreSteady == Spec => LabelIsSteady
<1>1. Comfort!ComfortAssumption
  BY CurrentAssumption
<1>2. ComfortPart /\ [Next]_vars => [HeldLong /\ Steady]_(Comfort!vars)
  <2> SUFFICES ASSUME ComfortPart, [Next]_vars PROVE HeldLong /\ Steady
    OBVIOUS
  <2>1. CASE part = "comfort"
    BY <1>1, <2>1, ComfortStep, HoldsLong, StaysSteady DEF ComfortPart
  <2>2. CASE part # "comfort"
    BY <2>2, ComfortStep DEF comfortVars, HeldLong, Steady
  <2>3. QED
    BY <2>1, <2>2
<1>3. [HeldLong /\ Steady]_(Comfort!vars) => [HeldLong]_(Comfort!vars) /\ [Steady]_(Comfort!vars)
  OBVIOUS
<1>4. QED
  BY <1>2, <1>3, ComfortPartHolds, PTL
     DEF Spec, LabelIsSteady, Comfort!LabelIsHeld, Comfort!NoBounce, HeldLong, Steady

\* In every behaviour of all the enrichments, wherever the station is, whichever
\* requests refresh the times and however late their answers are written:
\* daytime is true exactly while the sun is up, or the next request refreshes
\* the times, or the sun rose earlier than the day before; and where a sunrise
\* is on its UTC date, what a request wrote is right until the first sunrise
\* after it began (_update_sun_times, sun_times_need_refresh, _compute_daytime).
THEOREM DaytimeIsOfTheSun == Spec => []DaytimeFollowsSun
<1> DEFINE Inv == SunPart /\ (part = "sun" => DaytimeInv)
<1>1. Sun!SunAssumption
  BY CurrentAssumption
<1>2. Init => (part = "sun" => DaytimeInv)
  BY Zenon DEF Init, Sun!Init, DaytimeInv
<1>3. SunPart /\ (part = "sun" => DaytimeInv) /\ [Next]_vars => (part = "sun" => DaytimeInv)'
  BY <1>1, PartStays, SunStep, DaytimeNext DEF SunPart
<1>4. Inv => DaytimeFollowsSun
  <2> SUFFICES ASSUME Inv PROVE Sun!DaytimeFollowsSun
    BY DEF DaytimeFollowsSun
  <2>1. CASE part = "sun"
    BY <1>1, <2>1, DaytimeFacts DEF SunPart
  <2>2. CASE part # "sun"
    BY <2>2, Zenon DEF SunPart, Sun!DaytimeFollowsSun
  <2>3. QED
    BY <2>1, <2>2
<1>5. QED
  BY <1>2, <1>3, <1>4, SunPartHolds, PTL DEF Spec

\* In every behaviour of all the enrichments packets show by night what the
\* last response showed, and the overlay is that of the last detection, for
\* the linger time (build_scene, detect_precip).
THEOREM ScenesOutlastRequests == Spec => []SceneOutlastsRequests
<1>1. ScenePart => SceneOutlastsRequests
  BY ScenePartFacts DEF SceneOutlastsRequests
<1>2. QED
  BY <1>1, ScenePartHolds, PTL

\* In every behaviour of all the enrichments a trend that is shown is of
\* readings its window apart and has the direction of their difference
\* (_resolve_trend_config, enrich_barometer_trend).
THEOREM TrendsAreRight == Spec => []TrendIsRight
<1>1. BarometerPart => TrendIsRight
  BY BarometerPartFacts DEF TrendIsRight
<1>2. QED
  BY <1>1, BarometerPartHolds, PTL

\* In every behaviour of all the enrichments the weather code of a response
\* says what its text says, though the two are derived apart
\* (enrich_weather_text, compose_weather_text, _derive_weather_code).
THEOREM CodesAreOfTheText == Spec => []CodeSaysWhatTextSays
<1>1. ConditionsPart => CodeSaysWhatTextSays
  BY ConditionsPartFacts DEF CodeSaysWhatTextSays
<1>2. QED
  BY <1>1, ConditionsPartHolds, PTL

\* In every behaviour of all the enrichments a planet has the fields it would
\* have had with any other almanac, or with none, but for what the moon does,
\* and the best time is the transit or a clear time when the planet is up
\* (enrich_planet_viewing, _nearest_clear_time, _clear_window).
THEOREM PlanetFieldsAreLocal == Spec => []PlanetFieldsStand
<1>1. PlanetsPart => PlanetFieldsStand
  BY PlanetsPartFacts DEF PlanetFieldsStand
<1>2. QED
  BY <1>1, PlanetsPartHolds, PTL

\* In every behaviour of all the enrichments responses and packets agree on
\* what was measured and in which unit, and a response is converted whole or
\* not at all (transform_record, convert_mqtt_packet, _apply_conversion).
THEOREM UnitsAgree == Spec => []UnitsAreRight
<1>1. UnitsPart => UnitsAreRight
  BY UnitsPartFacts DEF UnitsAreRight
<1>2. QED
  BY <1>1, UnitsPartHolds, PTL
=============================================================================
