---------------------------- MODULE MCEnrichments ---------------------------
(***************************************************************************)
(* Small values for the constants of Enrichments.                          *)
(***************************************************************************)
EXTENDS Enrichments, KeptPart, TLC

\* Requests in flight are alike: none of the parts treats one as special.
RequestsAreAlike == Permutations(Request)

\* Windows of two: a packet may be one unit early or late in them.
SmallWindow == [wind |-> 2, lightning |-> 2, sky |-> 2]

SmallMinSamples == [sky |-> 2, smoothed |-> 2]

\* Days of 16 are explored up to the fourth.
SmallMaxTime ==
  [wind |-> 5, lightning |-> 5, sky |-> 4, comfort |-> 4, sun |-> 58, scene |-> 3,
   barometer |-> 4]

SmallMaxPackets == [wind |-> 3, sky |-> 4, smoothed |-> 4]

\* A day of sixteen units, so that a unit is an hour and a half.  A drift of
\* two units is far more than the real one, and the least the clock can show.
SmallMaxDelay == [sun |-> 4, scene |-> 1]

\* One buffer as small as the least number of samples, and one larger.
SmallCapacity == [UV |-> 2, radiation |-> 3]

At(rise, set, drift) == [rise |-> rise, set |-> set, drift |-> drift]

\* To the east (rise 16:30 UTC the day before).
East == {At(-5, 5, 0)}

\* To the west (rise 13:30 UTC, set 04:30 UTC), near Greenwich and there in
\* autumn, to the west in spring, and to the east.
Everywhere == East \cup {At(9, 19, 0), At(5, 13, 0), At(3, 11, 2), At(11, 19, -2)}

SmallScale == [inHg |-> 1, mbar |-> 34]

\* "%.2f" and "%.1f".
SmallStep == [inHg |-> 10, mbar |-> 100]

SmallDefault == <<3, 1>>

SmallTrend == <<2, 0>>

APlanet(name, transit, moon, broken) ==
  [name |-> name, transit |-> transit, rise |-> 2, set |-> None, altitude |-> 40,
   elongation |-> 20, moon |-> moon, broken |-> broken]

Point(time, cloud) == [time |-> time, cloud |-> cloud, seeing |-> 3, transparency |-> 4]

\* One planet whose fields cannot be computed, one far from the moon and one
\* near it, one that sets early, one without a transit, and Mercury in glare and
\* out of it.
SomePlanets ==
  {APlanet("mars", 3, None, TRUE), APlanet("mars", 3, 90, FALSE),
   [APlanet("saturn", 3, 90, FALSE) EXCEPT !.rise = None, !.set = 4],
   APlanet("neptune", 5, 20, FALSE), APlanet("venus", None, 4, FALSE),
   APlanet("mercury", 4, 90, FALSE),
   [APlanet("mercury", 4, 90, FALSE) EXCEPT !.elongation = 11]}

\* None, one point whose time does not parse, such a point before others, and
\* four points before the planets rise and after.
SomeForecasts ==
  {<<>>, <<Point(None, 6)>>, <<Point(None, 6), Point(3, 7), Point(4, 6)>>} \cup
  {<<Point(1, c), Point(3, d), Point(4, e), Point(5, f)>> :
     c, d \in {6, 7}, e, f \in {6, 7, None}}

SomeAlmanacs ==
  {[illumination |-> i, sunrise |-> 6, sunset |-> s] : i \in {50, 51}, s \in {1, None}}

\* All there, one missing, one that is no number, nothing.
SomeRecords ==
  {[outTemp |-> t, rain |-> r, windSpeed |-> 9] : t \in {70, None}, r \in {2, None, Word}}

SomeTargets ==
  {[outTemp |-> t, rain |-> r, windSpeed |-> w] :
     t \in {"degree_C", "degree_F"}, r \in {"mm", None},
     w \in {"meter_per_second", None}}

\* The comprehensions of the models are written with Without, which proofs can
\* use; it keeps what SelectSeq would.
ASSUME WithoutAssumption ==
  \A n \in 0..4 : \A q \in [1..n -> 1..3] : \A S \in SUBSET (1..3) :
    Without(q, S) = SelectSeq(q, LAMBDA x : x \notin S)
=============================================================================
