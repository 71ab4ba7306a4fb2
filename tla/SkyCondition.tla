---------------------------- MODULE SkyCondition ----------------------------
(***************************************************************************)
(* The sky label computed from solar radiation (sky_condition.py), fed by  *)
(* the packet tap enrichment/sky_tap.py and read by every GET /current and *)
(* every SSE event.  Reading it moves the hysteresis, so a read is an      *)
(* action of its own.                                                      *)
(*                                                                         *)
(* Clear-sky indexes are in hundredths.  Means and variances are compared  *)
(* without dividing: a mean m of n values stands for a sum s with s = m*n. *)
(***************************************************************************)
EXTENDS Integers, Sequences, KeptPart

CONSTANTS Kc,         \* clear-sky indexes a packet by day may give, 0..120
          Window,     \* _WINDOW_SECONDS
          Recent,     \* _RECENT_SECONDS
          MinSamples, \* _MIN_SAMPLES
          MaxTime,    \* bound of the model: the clock
          MaxPackets, \* bound of the model: loop packets
          None        \* no label

SkyAssumption ==
  /\ Kc \subseteq 0..120
  /\ Window \in Nat
  /\ Recent \in 0..Window
  /\ MinSamples \in Nat \ {0}
  /\ MaxTime \in Nat
  /\ MaxPackets \in Nat

Labels == {"Clear", "Mostly Clear", "Partly Cloudy", "Mostly Cloudy", "Cloudy"}

Hyst == 3

VARIABLES now,        \* time.time()
          packets,    \* the number of loop packets
          buffer,     \* _buffer: entries [ts, kc], oldest first
          wasDaytime, \* _was_daytime
          last,       \* _last_classification
          taken       \* the samples taken since the last packet by night

vars == <<now, packets, buffer, wasDaytime, last, taken>>

Init ==
  /\ now = 0
  /\ packets = 0
  /\ buffer = <<>>
  /\ wasDaytime = FALSE
  /\ last = None
  /\ taken = <<>>
-----------------------------------------------------------------------------
(* The thresholds.                                                         *)

\* The label of a mean of sum/n, with a uniform or a variable sky.
Raw(sum, n, uniform) ==
  IF uniform
  THEN CASE sum >= 85 * n -> "Clear"
         [] sum >= 70 * n /\ sum < 85 * n -> "Mostly Clear"
         [] sum >= 50 * n /\ sum < 70 * n -> "Partly Cloudy"
         [] sum >= 30 * n /\ sum < 50 * n -> "Mostly Cloudy"
         [] sum < 30 * n -> "Cloudy"
  ELSE CASE sum >= 85 * n -> "Mostly Clear"
         [] sum >= 60 * n /\ sum < 85 * n -> "Partly Cloudy"
         [] sum < 60 * n -> "Mostly Cloudy"

\* The means at which label is kept: from the first bound on, below the
\* second, both widened by Hyst.  A label the branch does not know is not
\* kept at any mean.
Kept(uniform, label) ==
  IF uniform
  THEN CASE label = "Clear" -> <<85, 1000>>
         [] label = "Mostly Clear" -> <<70, 85>>
         [] label = "Partly Cloudy" -> <<50, 70>>
         [] label = "Mostly Cloudy" -> <<30, 50>>
         [] label = "Cloudy" -> <<-1000, 30>>
  ELSE CASE label = "Mostly Clear" -> <<85, 1000>>
         [] label = "Partly Cloudy" -> <<60, 85>>
         [] label = "Mostly Cloudy" -> <<-1000, 60>>
         [] label \in {"Clear", "Cloudy"} -> <<1000, 1000>>

Keeps(sum, n, uniform, label) ==
  LET k == Kept(uniform, label)
  IN sum >= (k[1] - Hyst) * n /\ sum < (k[2] + Hyst) * n

\* The samples of buf, those of the last Recent units counted twice.
Weight(buf, i) == IF buf[i].ts >= buf[Len(buf)].ts - Recent THEN 2 ELSE 1

Count(buf) == Total([i \in DOMAIN buf |-> Weight(buf, i)])

Sum(buf) == Total([i \in DOMAIN buf |-> Weight(buf, i) * buf[i].kc])

SumOfSquares(buf) ==
  Total([i \in DOMAIN buf |-> Weight(buf, i) * buf[i].kc * buf[i].kc])

\* The variance is below _SIGMA_THRESHOLD squared.
Uniform(buf) ==
  Count(buf) * SumOfSquares(buf) - Sum(buf) * Sum(buf)
    < 64 * Count(buf) * Count(buf)

\* What classify() returns now, and keeps as _last_classification.
Result ==
  LET raw == Raw(Sum(buffer), Count(buffer), Uniform(buffer)) IN
  IF Len(buffer) < MinSamples THEN None
  ELSE IF last # None /\ Keeps(Sum(buffer), Count(buffer), Uniform(buffer), last)
  THEN last
  ELSE raw
-----------------------------------------------------------------------------
(* The packets.  A packet that lacks one of the two readings changes       *)
(* nothing.                                                                *)
\* Entries are taken off the left while they are too old.
Prune(buf) == DropLeading(buf, {i \in DOMAIN buf : buf[i].ts < now - Window})

NextPacket ==
  /\ packets < MaxPackets
  /\ packets' = packets + 1
  /\ UNCHANGED now

\* maxSolarRad is at least _MIN_SOLAR_RAD.
DaySample ==
  /\ NextPacket
  /\ wasDaytime' = TRUE
  /\ \E kc \in Kc :
       /\ buffer' = Prune(Append(buffer, [ts |-> now, kc |-> kc]))
       /\ taken' = Append(taken, [ts |-> now, kc |-> kc])
  /\ UNCHANGED last

\* The same, with a radiation below zero.
DayWithoutSample ==
  /\ NextPacket
  /\ wasDaytime' = TRUE
  /\ UNCHANGED <<buffer, last, taken>>

\* Faulty variant of NightPacket: the label of the day stays.
NightPacketKeepsLabel ==
  /\ NextPacket
  /\ wasDaytime' = FALSE
  /\ buffer' = IF wasDaytime THEN <<>> ELSE buffer
  /\ taken' = <<>>
  /\ UNCHANGED last

\* maxSolarRad is below _MIN_SOLAR_RAD: the first such packet after the day
\* clears what the day has left.
NightPacket ==
  /\ NextPacket
  /\ wasDaytime' = FALSE
  /\ buffer' = IF wasDaytime THEN <<>> ELSE buffer
  /\ last' = IF wasDaytime THEN None ELSE last
  /\ taken' = <<>>

\* classify(): a reader takes Result and leaves it in _last_classification.
Classify ==
  /\ Result # None
  /\ last' = Result
  /\ UNCHANGED <<now, packets, buffer, wasDaytime, taken>>

Tick ==
  /\ now < MaxTime
  /\ now' = now + 1
  /\ UNCHANGED <<packets, buffer, wasDaytime, last, taken>>

Next == DaySample \/ DayWithoutSample \/ NightPacket \/ Classify \/ Tick

Spec == Init /\ [][Next]_vars
-----------------------------------------------------------------------------
(* What must hold.                                                         *)

\* Every variable stays in its range; there are samples only while the last
\* packet was one by day, and they are those since the night that are within
\* the window of the newest.
SkyTypeOK ==
  /\ now \in 0..MaxTime
  /\ packets \in 0..MaxPackets
  /\ \A i \in DOMAIN buffer : buffer[i] \in [ts : 0..now, kc : Kc]
  /\ wasDaytime \in BOOLEAN
  /\ buffer # <<>> => wasDaytime
  /\ buffer = KeptAt(taken, {i \in DOMAIN taken :
                              taken[i].ts >= taken[Len(taken)].ts - Window})
  /\ last \in Labels \cup {None}

\* The hysteresis table and the threshold table, written separately, agree:
\* whatever label was given before and however often it was read, the label a
\* reader gets is the one the thresholds give to a mean at most Hyst away.
LabelJustified ==
  Result # None =>
    \E d \in -Hyst..Hyst :
      Result = Raw(Sum(buffer) + d * Count(buffer), Count(buffer), Uniform(buffer))

\* A night separates two days: no label is given before MinSamples samples of
\* the new day are there, and the first one owes nothing to yesterday's.
NightForgets ==
  Len(taken) < MinSamples => last = None /\ Result = None
=============================================================================
