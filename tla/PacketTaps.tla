----------------------------- MODULE PacketTaps -----------------------------
(***************************************************************************)
(* The packet taps that keep samples: wind, lightning, sky and the         *)
(* smoothed fields.  Each is handed every loop packet by the fan-out; none *)
(* reads what another keeps, so a behaviour of all is an interleaving of   *)
(* independent ones, and each is explored with the others at rest: part    *)
(* says which one moves.                                                   *)
(***************************************************************************)
EXTENDS Integers

CONSTANTS Part,          \* the taps, and other enrichments, to explore
          Window,        \* Window[p]: how far back tap p looks
          MinSamples,    \* MinSamples[p]: the samples it needs
          MaxTime,       \* bound of the model: MaxTime[p], the clock of part p
          MaxPackets,    \* bound of the model: MaxPackets[p], its packets
          Speed,         \* wind: the speeds a packet may carry
          MinCoverage,   \* wind: MIN_COVERAGE_SECONDS
          Skew,          \* how far a packet's dateTime is from the clock
          MaxStrikes,    \* lightning: bound of the model, strikes
          MaxLoss,       \* lightning: bound of the model, resets and restarts
          Kc,            \* sky: the clear-sky indexes
          Recent,        \* sky: _RECENT_SECONDS
          SmoothedField, \* smoothed: the fields
          Capacity,      \* smoothed: Capacity[f], the samples kept of f
          Reading,       \* smoothed: the numbers a packet may bring
          NaN,           \* not a number
          None           \* no value

VARIABLES part,
          now, packets,
          windData, added, seen,
          counter, strikes, losses, lastCount, strikeData, unseen, clean,
          traces, known,
          buffer, wasDaytime, lastLabel, taken,
          ring, sum, fed

Wind == INSTANCE WindWindow
  WITH Value <- Speed, Window <- Window["wind"], MaxTime <- MaxTime["wind"],
       MaxPackets <- MaxPackets["wind"], data <- windData

Lightning == INSTANCE LightningStrikes
  WITH Window <- Window["lightning"], MaxTime <- MaxTime["lightning"],
       last <- lastCount, data <- strikeData

Sky == INSTANCE SkyCondition
  WITH Window <- Window["sky"], MinSamples <- MinSamples["sky"],
       MaxTime <- MaxTime["sky"], MaxPackets <- MaxPackets["sky"],
       last <- lastLabel

Smoothed == INSTANCE SmoothedInputs
  WITH Field <- SmoothedField, MinSamples <- MinSamples["smoothed"],
       MaxPackets <- MaxPackets["smoothed"]

ASSUME TapAssumption ==
  /\ Wind!WindAssumption /\ Lightning!LightningAssumption
  /\ Sky!SkyAssumption /\ Smoothed!SmoothedAssumption

windVars == <<windData, added, seen>>
lightningVars ==
  <<counter, strikes, losses, lastCount, strikeData, unseen, clean, traces, known>>
skyVars == <<buffer, wasDaytime, lastLabel, taken>>
smoothedVars == <<ring, sum, fed>>
tapVars == <<windVars, lightningVars, skyVars, smoothedVars>>

TapsInit ==
  part \in Part /\ Wind!Init /\ Lightning!Init /\ Sky!Init /\ Smoothed!Init

WindMoves ==
  part = "wind" /\ Wind!Next /\ UNCHANGED <<lightningVars, skyVars, smoothedVars>>

LightningMoves ==
  /\ part = "lightning" /\ Lightning!Next
  /\ UNCHANGED <<packets, windVars, skyVars, smoothedVars>>

SkyMoves ==
  part = "sky" /\ Sky!Next /\ UNCHANGED <<windVars, lightningVars, smoothedVars>>

SmoothedMoves ==
  /\ part = "smoothed" /\ Smoothed!Next
  /\ UNCHANGED <<now, windVars, lightningVars, skyVars>>
-----------------------------------------------------------------------------
(* The properties of the taps.                                             *)

\* Every variable of every tap stays in its range.
TapsTypeOK ==
  /\ part = "wind" => Wind!WindTypeOK
  /\ part = "lightning" => Lightning!LightningTypeOK
  /\ part = "sky" => Sky!SkyTypeOK
  /\ part = "smoothed" => Smoothed!SmoothedTypeOK

\* What is reported of a buffer is of exactly the samples it is to be of: of
\* wind those of the window, none of which is lost before its time (evict,
\* get_wind_avg, get_gust_max), of a smoothed field its last readings (add).
ReportsAreOfTheirSamples ==
  Wind!RecentIsKept /\ Wind!ReportIsOfTheWindow /\ Smoothed!SmoothedIsMean

\* Resets and restarts never make a strike up, and what the counter shows
\* leaves a trace in the log for the window (process_packet).
LogFollowsCounter == Lightning!NoPhantomStrike /\ Lightning!StrikesLeaveATrace

\* The two tables of thresholds agree within the hysteresis (classify), and
\* the first label of a day owes nothing to the day before (update).
SkyLabelIsDue == Sky!LabelJustified /\ Sky!NightForgets
=============================================================================
