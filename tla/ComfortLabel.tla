---------------------------- MODULE ComfortLabel ----------------------------
(***************************************************************************)
(* The temperature-comfort label (temperature_comfort.py): tiers with      *)
(* hysteresis, a composed label, and a hold time on it.  Every GET         *)
(* /current and every SSE event of every client calls classify(), so the   *)
(* same reading may be classified any number of times.                     *)
(*                                                                         *)
(* Temperatures are in tenths of a degree F.  A label is what it is        *)
(* composed of; its wording is left out, except that the two driest        *)
(* moisture tiers read the same.                                           *)
(***************************************************************************)
EXTENDS Integers, Sequences, FiniteSets

CONSTANTS AppTemp,   \* the apparent temperatures a reading may have
          Dewpoint,  \* the dewpoints
          OutTemp,   \* the dry-bulb temperatures
          HeatIndex, \* the heat indexes
          WindChill, \* the wind chills
          Hold,      \* _HOLD_SECONDS
          MaxTime,   \* bound of the model: the clock
          None       \* no value; each set above but AppTemp may hold it

\* The inclusive upper bounds of all tiers but the last; tiers count from 0.
TempTiers == <<-100, 0, 100, 200, 320, 450, 600, 750, 850, 950, 1040>>

MoistureTiers == <<449, 549, 599, 649, 699, 749>>

\* In place of a moisture tier: "Fully Saturated".
Saturated == Len(MoistureTiers) + 1

ColdTierCount == 5

Band == 20

TierFor(value, tiers) == Cardinality({i \in DOMAIN tiers : tiers[i] < value})

\* The first and the last tier have a sentinel in place of a bound.
TierUpper(tier, tiers) ==
  IF tier < Len(tiers) THEN tiers[tier + 1] ELSE 10000000

TierLower(tier, tiers) == IF tier = 0 THEN -10000000 ELSE tiers[tier]

\* Faulty variant of Hysteresis: the bound is that of the new tier.
HysteresisOfNewTier(value, current, tiers) ==
  LET raw == TierFor(value, tiers) IN
  IF \/ current = None
     \/ raw < current /\ value <= TierLower(raw, tiers) - Band
     \/ raw > current /\ value >= TierUpper(raw, tiers) + Band
  THEN raw ELSE current

\* A tier is left only when its own bound is overshot by Band.
Hysteresis(value, current, tiers) ==
  LET raw == TierFor(value, tiers) IN
  IF \/ current = None
     \/ raw < current /\ value <= TierLower(current, tiers) - Band
     \/ raw > current /\ value >= TierUpper(current, tiers) + Band
  THEN raw ELSE current

Danger(heat, chill) ==
  IF heat # None /\ heat >= 1250 THEN "Extreme Danger Heat"
  ELSE IF heat # None /\ heat >= 1040 THEN "Dangerous Heat"
  ELSE IF chill # None /\ chill <= -450 THEN "Extreme Danger Cold"
  ELSE IF chill # None /\ chill <= -250 THEN "Dangerous Cold"
  ELSE "none"

Label(danger, temp, moisture) ==
  [danger |-> danger, temp |-> temp, moisture |-> moisture]

\* The label of a reading in the given tiers.
Compose(reading, temp, moisture) ==
  LET danger == Danger(reading.heat, reading.chill) IN
  IF danger # "none" THEN Label(danger, None, None)
  ELSE IF temp < ColdTierCount \/ reading.dew = None \/ moisture = None
  THEN Label("none", temp, None)
  ELSE IF reading.out # None /\ reading.out <= reading.dew
  THEN Label("none", temp, Saturated)
  ELSE Label("none", temp, IF moisture < 2 THEN None ELSE moisture)

Readings == [app : AppTemp, dew : Dewpoint, out : OutTemp,
             heat : HeatIndex, chill : WindChill]

Labels ==
  [danger : {"none", "Dangerous Heat", "Extreme Danger Heat", "Dangerous Cold",
             "Extreme Danger Cold"},
   temp : Int \cup {None}, moisture : Int \cup {None}]

\* The values between the sentinels, which the code calls unreachable.
Reachable == {v \in Int : -10000000 < v /\ v < 10000000}

ComfortAssumption ==
  /\ AppTemp \subseteq Reachable
  /\ Dewpoint \ {None} \subseteq Reachable
  /\ OutTemp \cup HeatIndex \cup WindChill \subseteq Int \cup {None}
  /\ Hold \in Nat \ {0}
  /\ MaxTime \in Nat
  /\ None \notin Int \cup Readings \cup Labels

VARIABLES now,          \* time.monotonic()
          tempTier,     \* _current_temp_tier
          moistureTier, \* _current_moisture_tier
          cached,       \* _cached_result
          cacheTime,    \* _cache_time
          accepted,     \* the last reading whose label was not held back
          shownSince,   \* when the label shown was first shown
          turn          \* the last change of temperature tier: direction, input

vars == <<now, tempTier, moistureTier, cached, cacheTime, accepted,
          shownSince, turn>>

Init ==
  /\ now = 0
  /\ tempTier = None
  /\ moistureTier = None
  /\ cached = None
  /\ cacheTime = 0
  /\ accepted = None
  /\ shownSince = 0
  /\ turn = [dir |-> "none", at |-> 0]

NewTemp(r) == Hysteresis(r.app, tempTier, TempTiers)

NewMoisture(r) ==
  IF r.dew = None THEN moistureTier
  ELSE Hysteresis(r.dew, moistureTier, MoistureTiers)

Base(r) == Compose(r, NewTemp(r), NewMoisture(r))

Held(r) == cached # None /\ now - cacheTime < Hold /\ Base(r) # cached

\* What classify() returns for a reading.
Shown(r) == IF Held(r) THEN cached ELSE Base(r)

\* What the observers of the tiers note of an accepted reading.
Note(r) ==
  /\ accepted' = r
  /\ shownSince' = IF Base(r) = cached THEN shownSince ELSE now
  /\ turn' = IF tempTier = None \/ NewTemp(r) = tempTier THEN turn
             ELSE [dir |-> IF NewTemp(r) > tempTier THEN "up" ELSE "down",
                   at  |-> r.app]

\* Faulty variant of Classify: a new label does not start a new hold.
ClassifyKeepsTime(r) ==
  /\ IF Held(r)
     THEN UNCHANGED <<tempTier, moistureTier, cached, cacheTime, accepted,
                      shownSince, turn>>
     ELSE /\ tempTier' = NewTemp(r)
          /\ moistureTier' = NewMoisture(r)
          /\ cached' = Base(r)
          /\ cacheTime' = IF cached = None THEN now ELSE cacheTime
          /\ Note(r)
  /\ UNCHANGED now

\* classify() on a reading with an apparent temperature; without one it
\* returns None and changes nothing.
Classify(r) ==
  /\ IF Held(r)
     THEN UNCHANGED <<tempTier, moistureTier, cached, cacheTime, accepted,
                      shownSince, turn>>
     ELSE /\ tempTier' = NewTemp(r)
          /\ moistureTier' = NewMoisture(r)
          /\ cached' = Base(r)
          /\ cacheTime' = now
          /\ Note(r)
  /\ UNCHANGED now

Tick ==
  /\ now < MaxTime
  /\ now' = now + 1
  /\ UNCHANGED <<tempTier, moistureTier, cached, cacheTime, accepted,
                 shownSince, turn>>

Next == Tick \/ \E r \in Readings : Classify(r)

Spec == Init /\ [][Next]_vars
-----------------------------------------------------------------------------
(* What must hold.                                                         *)

\* Every variable stays in its range; there is a tier exactly if there is a
\* label, and it is no younger than the label's last confirmation.
ComfortTypeOK ==
  /\ now \in 0..MaxTime
  /\ tempTier \in 0..Len(TempTiers) \cup {None}
  /\ moistureTier \in 0..Len(MoistureTiers) \cup {None}
  /\ (cached = None) <=> (tempTier = None)
  /\ cacheTime \in 0..now
  /\ shownSince \in 0..cacheTime
  /\ accepted \in Readings \cup {None}

\* However often and by whomever classify() is called, a label that has been
\* shown stays for at least Hold before another one replaces it.
LabelIsHeld ==
  [][cached # None /\ cached' # cached => now - shownSince >= Hold]_vars

\* The tiers are never further than Band from the reading they were last
\* moved by: hysteresis delays a tier, it does not leave it behind.
WithinBand(value, tier, tiers) ==
  /\ TierLower(tier, tiers) - Band < value
  /\ value < TierUpper(tier, tiers) + Band

TiersFollowReading ==
  accepted # None =>
    /\ WithinBand(accepted.app, tempTier, TempTiers)
    /\ accepted.dew # None => WithinBand(accepted.dew, moistureTier, MoistureTiers)

\* The tiers that hysteresis starts from are those of the label that is
\* shown, so a label held back leaves no trace in them.
LabelMatchesTiers ==
  cached # None => cached = Compose(accepted, tempTier, moistureTier)

\* No bouncing at a boundary: a change of temperature tier is undone only by
\* a reading at least Band away from the one that caused it.
NoBounce ==
  [][(tempTier # None /\ tempTier' # tempTier) =>
       /\ (turn.dir = "up" /\ tempTier' < tempTier)
            => accepted'.app <= turn.at - Band
       /\ (turn.dir = "down" /\ tempTier' > tempTier)
            => accepted'.app >= turn.at + Band]_vars
=============================================================================
