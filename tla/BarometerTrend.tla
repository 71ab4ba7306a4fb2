--------------------------- MODULE BarometerTrend ---------------------------
(***************************************************************************)
(* barometerTrend and barometerTrendDirection of GET /current              *)
(* (enrichment/barometer_trend.py): the current reading less one of the    *)
(* upstream archive of some hours ago.                                     *)
(*                                                                         *)
(* A pressure is counted in thousandths of an inHg, which is as far as a   *)
(* trend is rounded, and what a number says of it depends on the unit:     *)
(* Number(p, u).  The record is as the archive has it; the reading has     *)
(* been converted, formatted and parsed back, and is a multiple of the     *)
(* step of its format.  The one await of the enrichment is for records     *)
(* that are hours old when it begins, so that nothing which happens during *)
(* it matters and a request is one step.                                   *)
(***************************************************************************)
EXTENDS Integers, Sequences

CONSTANTS Pressure, \* pressures, in thousandths of an inHg
          Scale,    \* Scale[u]: how many u are an inHg, rounded; the valid units
          Step,     \* Step[u]: what u's format rounds to, in thousandths
          Default,  \* <<TREND_TIME_DELTA, TREND_TIME_GRACE>>
          Trend,    \* [[trend]] of the configuration
          MaxTime,  \* bound on the clock
          None      \* no value

BarometerAssumption ==
  /\ Pressure \subseteq Nat /\ Pressure # {}
  /\ Scale \in [DOMAIN Scale -> Nat \ {0}] /\ "inHg" \in DOMAIN Scale
  /\ Step \in [DOMAIN Scale -> Nat \ {0}]
  /\ \A w \in {Default, Trend} : w[1] \in Nat /\ w[2] \in Nat /\ w[1] > w[2]
  /\ MaxTime \in Nat
  /\ None \notin DOMAIN Scale \cup {"rising", "falling", "steady"}

Unit == DOMAIN Scale

VARIABLES clock,       \* the time, in archive intervals
          pressure,    \* the pressure now
          records,     \* records[t]: what the archive has of t, perhaps None
          station,     \* units: native (upstream's), inferred, target, label
          trendConfig, \* _trend_config_cache
          answer,      \* the two fields of the last response
          used         \* what they were made of

vars == <<clock, pressure, records, station, trendConfig, answer, used>>

Number(p, unit) == p * Scale[unit]

Null == [trend |-> None, direction |-> None]
Nothing == [current |-> None, at |-> 0, record |-> 0, window |-> <<0, 0>>,
            converts |-> FALSE]

\* A label is the unit's name, or what the operator of the API made of it;
\* target is None without a transformer or without a unit for group_pressure;
\* inferred is what the labels of temperature and rain make the unit look like.
Init ==
  /\ clock = 0
  /\ pressure \in Pressure
  /\ records = <<>>
  /\ station \in [native : Unit, inferred : Unit, target : Unit \cup {None},
                 custom : BOOLEAN]
  /\ trendConfig = None
  /\ answer = Null
  /\ used = Nothing

\* An archive interval goes by; a record may lack the reading.
Tick ==
  /\ clock < MaxTime
  /\ clock' = clock + 1
  /\ pressure' \in Pressure
  /\ \E p \in {pressure', None} : records' = Append(records, p)
  /\ UNCHANGED <<station, trendConfig, answer, used>>
-----------------------------------------------------------------------------
Distance(a, b) == IF a >= b THEN a - b ELSE b - a

\* The unit whose format the converted reading is rounded by.
DisplayUnit == IF station.target # None THEN station.target ELSE station.inferred

\* The reading of a converted response: the number of the upstream, taken for
\* one of the inferred unit, in the target's unit and to the step of its
\* format, to either side if it is half way.
Displayed(p) ==
  LET exact == Number(p, station.native) * Scale[DisplayUnit]
      step == Step[DisplayUnit] * Scale[station.inferred]
      below == exact \div step
  IN {Step[DisplayUnit] * k :
        k \in {j \in {below, below + 1} : 2 * Distance(j * step, exact) <= step}}

\* What enrich_barometer_trend finds as the reading.  Without a transformer,
\* or when the conversion fails, it is the number of the upstream.
Taken(p, converts) ==
  IF converts THEN Displayed(p) ELSE {Number(p, station.native)}

\* The target, or the label of the upstream response if it is a valid unit.
ResolvePressureUnit ==
  IF station.target # None THEN station.target
  ELSE IF station.custom THEN None ELSE station.native

\* The threshold is 0.01 inHg.
ClassifyDirection(trend, unit) ==
  CASE unit = None -> None
    [] unit # None /\ trend > Number(10, unit) -> "rising"
    [] unit # None /\ trend < -Number(10, unit) -> "falling"
    [] OTHER -> "steady"

\* Faulty variant of WithinGrace: the query has no lower bound.
WithinGraceUpTo(w) == {t \in DOMAIN records : t <= clock - w[1] + w[2]}

\* The query bounds; /archive answers with the oldest record between them.
WithinGrace(w) ==
  {t \in DOMAIN records : t >= clock - w[1] - w[2] /\ t <= clock - w[1] + w[2]}

Oldest(T) == CHOOSE t \in T : \A u \in T : t <= u

\* enrich_barometer_trend().  The settings may not load, the reading or its
\* time may be missing, and the archive may not answer.
Enrich ==
  \E reading \in {pressure, None}, loads, answers, converts \in BOOLEAN :
    LET w == IF trendConfig' # None THEN trendConfig' ELSE Default
        T == WithinGrace(w)
        t == Oldest(T)
    IN
    /\ trendConfig' = IF reading # None /\ trendConfig = None /\ loads
                      THEN Trend ELSE trendConfig
    /\ IF reading # None /\ answers /\ T # {} /\ records[t] # None
       THEN /\ \E number \in Taken(reading, converts) :
                 LET trend == number - Number(records[t], station.native) IN
                 answer' = [trend |-> trend,
                            direction |-> ClassifyDirection(trend, ResolvePressureUnit)]
            /\ used' = [current |-> reading, at |-> clock, record |-> t, window |-> w,
                        converts |-> converts]
       ELSE answer' = Null /\ used' = Nothing
    /\ UNCHANGED <<clock, pressure, records, station>>

Next == Tick \/ Enrich

Spec == Init /\ [][Next]_vars
-----------------------------------------------------------------------------
(* What must hold.                                                         *)

\* Every variable stays in its range.
BarometerTypeOK ==
  /\ clock \in 0..MaxTime
  /\ pressure \in Pressure
  /\ Len(records) = clock /\ \A t \in 1..clock : records[t] \in Pressure \cup {None}
  /\ trendConfig \in {None, Trend}
  /\ answer.direction \in {"rising", "falling", "steady", None}
  /\ used.record \in 0..used.at /\ used.converts \in BOOLEAN

\* How the pressure has changed since the record a trend was made with.
Rise == used.current - records[used.record]

\* Nothing was converted: the reading and the record are in one unit, if not
\* always the one that is displayed.
SameUnit == used.converts => station.target \in {None, station.inferred}

\* Twice the most that formatting the reading can have changed.
Rounding == IF used.converts THEN Step[DisplayUnit] ELSE 0

\* A trend is over the configured time, give or take the grace, once the
\* configuration has been read.  Unless the reading was converted, the trend is
\* the rise of the pressure to within the rounding of the display; and if the
\* unit of the number is the one it is taken to be in, the direction is that of
\* the pressure, to within the same around the threshold, whatever the unit is
\* (enrich_barometer_trend, _classify_direction).
TrendIsRight ==
  answer.trend # None =>
    LET age == used.at - used.record
        rise == Number(Rise, station.native)
        threshold == Number(10, station.native)
    IN
    /\ used.window \in {Default, Trend}
    /\ age >= used.window[1] - used.window[2]
    /\ age <= used.window[1] + used.window[2]
    /\ answer.direction = None <=> ResolvePressureUnit = None
    /\ SameUnit => 2 * Distance(answer.trend, rise) <= Rounding
    /\ SameUnit /\ ResolvePressureUnit = station.native =>
         /\ 2 * rise > 2 * threshold + Rounding => answer.direction = "rising"
         /\ 2 * rise < -(2 * threshold) - Rounding => answer.direction = "falling"
         /\ answer.direction = "rising" => 2 * rise > 2 * threshold - Rounding
         /\ answer.direction = "falling" => 2 * rise < Rounding - 2 * threshold
-----------------------------------------------------------------------------
(* What the source says of itself and the code does not do.                *)

\* "Positive barometerTrend values indicate rising pressure; negative values
\* indicate falling" (enrichment/barometer_trend.py); here of stations whose
\* unit is inferred rightly.
PositiveIsRising ==
  answer.trend # None /\ station.inferred = station.native =>
    (answer.trend > 0 => Rise > 0) /\ (answer.trend < 0 => Rise < 0)
=============================================================================
