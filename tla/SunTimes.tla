------------------------------ MODULE SunTimes ------------------------------
(***************************************************************************)
(* Sunrise and sunset, cached for the day (scene.py), and their refresh by *)
(* the scene enrichment of GET /current (enrichment/scene_enrichment.py).  *)
(* Several requests may be refreshing at once, each suspended in one of    *)
(* its requests to the almanac; packets of the SSE stream only read.       *)
(*                                                                         *)
(* The almanac is external: asked for a date it gives the sunrise and the  *)
(* sunset of that local day at the station, in UTC, as in the example of   *)
(* update_sun_times (rise 2026-05-30T11:23:00Z, set 2026-05-31T01:45:00Z). *)
(* Clock readings are even numbers and the almanac's times odd ones, so no *)
(* reading coincides with a sunrise; a sunrise plus a day is odd as well.  *)
(* A local day is at most a day ahead of or behind UTC and its sun rises   *)
(* before noon, so the sunrise asked for by a date is on it or on the one  *)
(* before; the sun sets before it rises again.  Nothing else is assumed of *)
(* a station: sunrises may be earlier from day to day, or later.           *)
(***************************************************************************)
EXTENDS Integers

CONSTANTS Request,  \* GET /current requests in flight at the same time
          Station,  \* records [rise, set, drift], see Rise and Set
          Day,      \* the length of a day, even
          MaxDelay, \* how long the almanac may take to answer
          MaxTime,  \* bound of the model: the clock
          None      \* not set

SunAssumption ==
  /\ Day \in Nat \ {0} /\ Day % 2 = 0
  /\ \A s \in Station : /\ s.rise \in Int /\ s.set \in Int /\ s.drift \in Int
                        /\ s.rise % 2 = 1 /\ s.set % 2 = 1 /\ s.drift % 2 = 0
                        /\ s.rise < s.set /\ s.set < s.rise + Day + s.drift
                        /\ \A d \in 0..(MaxTime \div Day) + 1 :
                             -Day < s.rise + d * s.drift /\ s.rise + d * s.drift < Day
  /\ MaxDelay \in Nat
  /\ MaxTime \in Nat /\ MaxTime % 2 = 0 /\ MaxTime >= Day
  /\ None \notin Int

\* Sunrises at s are on the UTC date they are asked for by: s is near
\* Greenwich or to the west of it.
RisesOnItsDate(s) ==
  \A d \in 0..(MaxTime \div Day) + 1 : 0 <= s.rise + d * s.drift

VARIABLES station, \* where the station is; never changes
          now,     \* time.time() and datetime.now(tz=UTC)
          sunrise, \* _sunrise_epoch
          sunset,  \* _sunset_epoch
          pc,      \* pc[r]: "idle", "today", "yesterday": the answer awaited
          began,   \* began[r]: the clock when r began its refresh
          asOf,    \* when the request that wrote the times began: no variable of
                   \* the code, only what the properties speak of
          guessed  \* yesterday's times could not be had

vars == <<station, now, sunrise, sunset, pc, began, asOf, guessed>>

\* The clock starts at midnight UTC of day 1; the day before can be asked for.
Init ==
  /\ station \in Station
  /\ now = Day
  /\ sunrise = None
  /\ sunset = None
  /\ pc = [r \in Request |-> "idle"]
  /\ began = [r \in Request |-> Day]
  /\ asOf = Day
  /\ guessed = FALSE
-----------------------------------------------------------------------------
(* The almanac and the clock.                                              *)

Rise(d) == d * Day + station.rise + d * station.drift

Set(d) == d * Day + station.set + d * station.drift

\* The UTC date of a clock reading.
Date(t) == t \div Day

Tick ==
  /\ now < MaxTime
  /\ \A r \in Request : pc[r] # "idle" => now + 2 - began[r] <= MaxDelay
  /\ now' = now + 2
  /\ UNCHANGED <<station, sunrise, sunset, pc, began, asOf, guessed>>
-----------------------------------------------------------------------------
(* The cache.                                                              *)

\* Faulty variant of NeedRefresh: a day after the sunset.
NeedRefreshDayAfterSunset == IF sunrise = None THEN TRUE ELSE now > sunset + Day

NeedRefresh == IF sunrise = None THEN TRUE ELSE now > sunrise + Day

Daytime == sunrise # None /\ sunrise <= now /\ now < sunset

\* update_sun_times with the times of local day d.
Update(d) ==
  /\ sunrise' = Rise(d)
  /\ sunset' = Set(d)
-----------------------------------------------------------------------------
(* A refresh.                                                              *)

\* A request finds that the times need a refresh; now_utc is read and the
\* times of that date are asked for.  Any other request changes nothing.
Begin(r) ==
  /\ pc[r] = "idle"
  /\ NeedRefresh
  /\ pc' = [pc EXCEPT ![r] = "today"]
  /\ began' = [began EXCEPT ![r] = now]
  /\ UNCHANGED <<station, now, sunrise, sunset, asOf, guessed>>

\* The request fails, or the answer has no times: nothing is written.
Fails(r) ==
  /\ pc[r] # "idle"
  /\ pc' = [pc EXCEPT ![r] = "idle"]
  /\ UNCHANGED <<station, now, sunrise, sunset, began, asOf, guessed>>

\* The times of day d are cached.
Write(r, d) ==
  /\ pc' = [pc EXCEPT ![r] = "idle"]
  /\ Update(d)
  /\ asOf' = began[r]
  /\ UNCHANGED <<station, now, began>>

\* The times of today are there.  If the sun has not risen yet it may be
\* yesterday's evening: yesterday's times are asked for.
Today(r) ==
  /\ pc[r] = "today"
  /\ \/ /\ Rise(Date(began[r])) > began[r]
        /\ pc' = [pc EXCEPT ![r] = "yesterday"]
        /\ UNCHANGED <<station, now, sunrise, sunset, began, asOf, guessed>>
     \/ /\ Rise(Date(began[r])) <= began[r]
        /\ Write(r, Date(began[r]))
        /\ guessed' = FALSE

\* The times of yesterday are there, or an answer without them, and then
\* today's are used.
Yesterday(r) ==
  /\ pc[r] = "yesterday"
  /\ \/ Write(r, Date(began[r]) - 1) /\ guessed' = FALSE
     \/ Write(r, Date(began[r])) /\ guessed' = TRUE

Refresh(r) == Begin(r) \/ Fails(r) \/ Today(r) \/ Yesterday(r)

Next == Tick \/ \E r \in Request : Refresh(r)

Spec == Init /\ [][Next]_vars
-----------------------------------------------------------------------------
(* What must hold.                                                         *)

\* The sun is up at the station.
SunIsUp ==
  \E d \in -1..Date(MaxTime) + 1 : Rise(d) < now /\ now < Set(d)

\* Every variable stays in its range; the two times are always those of one
\* local day, whoever wrote them last.
SunTypeOK ==
  /\ now \in Day..MaxTime
  /\ pc \in [Request -> {"idle", "today", "yesterday"}]
  /\ began \in [Request -> Day..now]
  /\ \/ sunrise = None /\ sunset = None
     \/ \E d \in 0..Date(MaxTime) : sunrise = Rise(d) /\ sunset = Set(d)
  /\ asOf \in Day..now
  /\ guessed \in BOOLEAN

IsRight == Daytime <=> SunIsUp

\* A sunrise has passed since t.
RoseSince(t) == \E d \in -1..Date(MaxTime) + 1 : t < Rise(d) /\ Rise(d) < now

\* The sun has risen less than a day after the sunrise that is cached.
RoseEarlier == sunrise + Day + station.drift < now /\ now <= sunrise + Day

\* Whatever requests are suspended across a sunrise or a midnight UTC and write
\* late and in any order, and wherever the station is: daytime is true exactly
\* while the sun is up, or the next request refreshes the times, or it is one
\* of the minutes by which the sun rose earlier than the day before.  Where the
\* sunrise is on its UTC date the times of a request are right until the next
\* sunrise after it began: in particular daytime is not false on the evening of
\* a station to the west whose UTC date has changed.
DaytimeFollowsSun ==
  sunrise # None /\ ~guessed =>
    /\ IsRight \/ NeedRefresh \/ RoseEarlier
    /\ RisesOnItsDate(station) /\ ~RoseSince(asOf) => IsRight

\* With the times of a request that began after the last sunrise, daytime is
\* true exactly while the sun is up.  (Not so where the sunrise is on the UTC
\* date before: a violation.)
DaytimeOnceRefreshed ==
  sunrise # None /\ ~guessed /\ ~RoseSince(asOf) => IsRight
=============================================================================
