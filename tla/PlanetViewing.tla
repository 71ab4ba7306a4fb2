---------------------------- MODULE PlanetViewing ---------------------------
(***************************************************************************)
(* The viewing fields of GET /almanac/planets                              *)
(* (enrichment/planet_viewing.py): two requests to the upstream API, for   *)
(* the seeing forecast and for the almanac, either of which may fail, and  *)
(* then one set of fields per planet.                                      *)
(*                                                                         *)
(* Times are small numbers, or None where there is none that parses.  Of   *)
(* two positions in the sky only the angle between them matters; it is     *)
(* given.  Scores are in ten-thousandths.  A planet is broken if computing *)
(* its fields raises, for whatever value.                                  *)
(***************************************************************************)
EXTENDS Integers, Sequences

CONSTANTS Planet,   \* the planets an answer may have, records: see Fields
          Group,    \* "evening", "morning", "allNight"
          Forecast, \* the forecasts: sequences of points
          Almanac,  \* the almanacs: illumination, rise and set of the sun
          Twilight, \* 40 minutes
          Now,      \* the time of the request
          None      \* no value

VARIABLES at,      \* where the enrichment is suspended
          planets, \* the planets of the upstream answer, and their groups
          points,  \* the forecast, or None
          almanac, \* the almanac, or None
          fields   \* the fields of each planet

vars == <<at, planets, points, almanac, fields>>

\* A forecast is a sequence of points, each of a time or of none; no value is no
\* number, rating or note.
PlanetsAssumption ==
  LET Time == Int \cup {None} IN
  /\ Now \in Int /\ Twilight \in Int
  /\ \A f \in Forecast :
       /\ Len(f) \in Nat /\ DOMAIN f = 1..Len(f)
       /\ \A i \in DOMAIN f : f[i].time \in Time
  /\ \A p \in Planet : p.transit \in Time
  /\ \A a \in Almanac : a.sunrise \in Time /\ a.sunset \in Time
  /\ None \notin Int \cup {"Bright moon nearby", "poor", "fair", "good", "excellent"}

CloudGate == 6

NullFields ==
  [quality |-> None, score |-> None, best |-> None, start |-> None,
   end |-> None, conjunction |-> FALSE, note |-> None]

\* Of an index that is missing or out of the table the lowest score is taken.
SeeingScore(i) ==
  IF i \in 1..8 THEN <<100, 100, 85, 65, 45, 25, 10, 10>>[i] ELSE 10
TransparencyScore(i) ==
  IF i \in 1..8 THEN <<100, 100, 100, 70, 70, 30, 30, 10>>[i] ELSE 10
AltitudeScore(alt) ==
  CASE alt = None -> 10
    [] alt # None /\ alt > 45 -> 100
    [] alt # None /\ alt > 30 /\ alt <= 45 -> 85
    [] alt # None /\ alt > 20 /\ alt <= 30 -> 60
    [] alt # None /\ alt > 10 /\ alt <= 20 -> 30
    [] OTHER -> 10

Tiers == <<"poor", "fair", "good", "excellent">>
TierOf(score) ==
  IF score >= 7500 THEN 4 ELSE IF score >= 5000 THEN 3
  ELSE IF score >= 3000 THEN 2 ELSE 1

Distance(a, b) == IF a < b THEN b - a ELSE a - b

\* The first of the points of S nearest to t.
Nearest(S, pts, t) ==
  CHOOSE i \in S : \A j \in S :
    LET di == Distance(pts[i].time, t)  dj == Distance(pts[j].time, t)
    IN di < dj \/ (di = dj /\ i <= j)

\* The points whose time parses.
Timed(pts) == {i \in DOMAIN pts : pts[i].time # None}

\* The planet is up, as far as its rise and set are known.
Up(p, t) ==
  /\ p.rise # None => t >= p.rise
  /\ p.set # None => t <= p.set

\* Faulty variant of Clear: whether the planet is up or not.
ClearAtAnyHour(p, pts) ==
  {i \in Timed(pts) : pts[i].cloud # None /\ pts[i].cloud <= CloudGate}

\* The points at which the sky is known to be clear and the planet is up.
Clear(p, pts) ==
  {i \in Timed(pts) :
     Up(p, pts[i].time) /\ pts[i].cloud # None /\ pts[i].cloud <= CloudGate}

\* The cloud gate; an unknown cloud cover is none.
Cloudy(pt) == pt.cloud # None /\ pt.cloud > CloudGate

\* The time Mercury is looked for, while the sun is just below the horizon.
MercuryTime(group, alm) ==
  IF alm = None THEN None
  ELSE IF group = "evening"
       THEN IF alm.sunset = None THEN None ELSE alm.sunset + Twilight
       ELSE IF alm.sunrise = None THEN None ELSE alm.sunrise - Twilight

\* The time the forecast is looked up for.
ReferenceTime(p, group, alm) ==
  IF p.name = "mercury" /\ MercuryTime(group, alm) # None
  THEN MercuryTime(group, alm) ELSE p.transit

NearBrightMoon(p, alm) ==
  /\ p.name \in {"uranus", "neptune"} /\ alm # None /\ alm.illumination > 50
  /\ p.moon # None /\ p.moon < 30

\* A bright moon nearby costs the outer planets a tier; "poor" stays.
MoonPenalty(p, tier, alm) ==
  IF NearBrightMoon(p, alm) /\ tier > 1 THEN tier - 1 ELSE tier

PointFor(p, group, alm, pts) ==
  pts[Nearest(Timed(pts), pts, ReferenceTime(p, group, alm))]

\* Quality, score and note, by the forecast nearest to the reference time.
Rated(p, group, alm, pts) ==
  LET pt == PointFor(p, group, alm, pts)
      score == 80 * SeeingScore(pt.seeing) + 5 * TransparencyScore(pt.transparency)
                 + 15 * AltitudeScore(p.altitude)
      tier == IF p.name = "mercury" /\ TierOf(score) = 4 THEN 3 ELSE TierOf(score)
  IN IF Cloudy(pt)
     THEN [NullFields EXCEPT !.quality = "not_visible", !.score = 0]
     ELSE [NullFields EXCEPT !.quality = Tiers[MoonPenalty(p, tier, alm)], !.score = score,
             !.note = IF NearBrightMoon(p, alm) THEN "Bright moon nearby" ELSE None]

\* The transit if the sky is clear then, or the clear point nearest to now.
BestTime(p, group, alm, pts, rated) ==
  CASE p.name = "mercury" -> MercuryTime(group, alm)
    [] p.name # "mercury" /\ rated.quality # "not_visible" -> p.transit
    [] p.name # "mercury" /\ rated.quality = "not_visible" ->
         IF Clear(p, pts) = {} THEN None
         ELSE pts[Nearest(Clear(p, pts), pts, Now)].time

InGlare(p) ==
  p.name = "mercury" /\ p.elongation # None /\ p.elongation < 12

\* _compute_planet_fields(), which raises for a planet that is broken.
Fields(p, group, alm, pts) ==
  CASE p.broken -> NullFields
    [] ~p.broken /\ InGlare(p) ->
         [NullFields EXCEPT !.quality = "not_visible", !.score = 0,
                            !.note = "In Sun's Glare"]
    [] OTHER ->
         IF ReferenceTime(p, group, alm) = None \/ Timed(pts) = {} THEN NullFields
         ELSE LET rated == Rated(p, group, alm, pts)
                  clear == {pts[i].time : i \in Clear(p, pts)}
              IN [rated EXCEPT
                    !.conjunction = alm # None /\ p.moon # None /\ p.moon < 5,
                    !.best = BestTime(p, group, alm, pts, rated),
                    !.start = IF clear = {} THEN None
                              ELSE CHOOSE t \in clear : \A u \in clear : t <= u,
                    !.end = IF clear = {} THEN None
                            ELSE CHOOSE t \in clear : \A u \in clear : t >= u]
-----------------------------------------------------------------------------
Init ==
  /\ at = "start"
  /\ planets = <<>>
  /\ points = None
  /\ almanac = None
  /\ fields = <<>>

AllNull == [i \in DOMAIN planets |-> NullFields]

\* The upstream answer has been converted and the enrichment runs up to its
\* first await.
Begin ==
  /\ at = "start"
  /\ \E ps \in [1..2 -> Planet], g \in Group :
       planets' = [i \in 1..2 |-> [planet |-> ps[i], group |-> g]]
  /\ at' = "seeing"
  /\ UNCHANGED <<points, almanac, fields>>

SeeingAnswers ==
  /\ at = "seeing"
  /\ \E f \in Forecast \cup {None} :
       /\ points' = f
       /\ IF f = None \/ f = <<>>
          THEN at' = "done" /\ fields' = AllNull
          ELSE at' = "almanac" /\ UNCHANGED fields
  /\ UNCHANGED <<planets, almanac>>

\* The rest of the enrichment; without an almanac it goes on.
AlmanacAnswers ==
  /\ at = "almanac"
  /\ almanac' \in Almanac \cup {None}
  /\ fields' = [i \in DOMAIN planets |->
                  Fields(planets[i].planet, planets[i].group, almanac', points)]
  /\ at' = "done"
  /\ UNCHANGED <<planets, points>>

Next == Begin \/ SeeingAnswers \/ AlmanacAnswers

Spec == Init /\ [][Next]_vars
-----------------------------------------------------------------------------
(* What must hold.                                                         *)

\* The tier of a rated quality.
Tier(f) == CHOOSE n \in 1..4 : Tiers[n] = f.quality

\* Without the almanac, and next to a planet whose fields cannot be computed,
\* a planet other than Mercury has the fields it would have had, but for what
\* the moon does: the conjunction, and at most a tier (enrich_planet_viewing).
FailuresAreLocal ==
  at = "done" /\ points # None /\ points # <<>> =>
    \A i \in DOMAIN planets, alm \in Almanac \cup {None} :
      LET p == planets[i].planet
          mine == fields[i]
          other == Fields(p, planets[i].group, alm, points)
      IN ~p.broken /\ p.name # "mercury" =>
           /\ [mine EXCEPT !.quality = None, !.note = None, !.conjunction = FALSE] =
              [other EXCEPT !.quality = None, !.note = None, !.conjunction = FALSE]
           /\ mine.quality \in {Tiers[n] : n \in 1..4} =>
                Distance(Tier(mine), Tier(other)) <= 1
           /\ mine.quality # other.quality => mine.note # other.note

\* What is rated is not hidden by clouds in a forecast nearest to the time it is
\* looked for.  A planet other than Mercury is best seen at its transit if it is
\* rated, and else at the time of a forecast, in its clear window, at which it is
\* up and the sky is known to be clear (_nearest_forecast_point,
\* _nearest_clear_time, _clear_window).
BestTimeIsClear ==
  \A i \in DOMAIN fields :
    LET f == fields[i]
        p == planets[i].planet
        ref == ReferenceTime(p, planets[i].group, almanac)
    IN
    /\ (f.start = None) = (f.end = None)
    /\ f.start # None => f.start <= f.end
    /\ f.quality \in {Tiers[n] : n \in 1..4} =>
         \E k \in Timed(points) :
           /\ \A j \in Timed(points) :
                Distance(points[k].time, ref) <= Distance(points[j].time, ref)
           /\ ~Cloudy(points[k])
    /\ f.best # None /\ p.name # "mercury" =>
         IF f.quality = "not_visible"
         THEN /\ f.start # None /\ f.start <= f.best /\ f.best <= f.end
              /\ Up(p, f.best)
              /\ \E k \in DOMAIN points :
                   /\ points[k].time = f.best
                   /\ points[k].cloud # None /\ points[k].cloud <= CloudGate
         ELSE f.best = p.transit
=============================================================================
