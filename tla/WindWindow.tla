----------------------------- MODULE WindWindow -----------------------------
(***************************************************************************)
(* The rolling window of wind speed and gust                               *)
(* (enrichment/wind_rolling_window.py).  Every loop packet is handed to    *)
(* process_packet by the packet tap; GET /current and every SSE event read *)
(* get_wind_avg and get_gust_max at any moment in between.  Both run on    *)
(* the event loop, one at a time, so the locks of the code never wait.     *)
(*                                                                         *)
(* Time is the wall clock in whole units; a packet's dateTime may differ   *)
(* from it by up to Skew, a packet without one counts as of now.  A mean   *)
(* is kept as a sum and a number of samples.                               *)
(***************************************************************************)
EXTENDS Integers, Sequences, FiniteSets, KeptPart

CONSTANTS Value,       \* the speeds a packet may carry
          Window,      \* WINDOW_SECONDS
          MinCoverage, \* MIN_COVERAGE_SECONDS
          Skew,        \* how far a packet's dateTime is from the wall clock
          MaxTime,     \* bound of the model: the clock
          MaxPackets,  \* bound of the model: loop packets
          None         \* no value

WindAssumption ==
  /\ Value \subseteq Nat
  /\ Window \in Nat \ {0}
  /\ MinCoverage \in 1..Window
  /\ Skew \in Nat
  /\ MaxTime \in Nat
  /\ MaxPackets \in Nat
  /\ None \notin Nat

Field == {"windSpeed", "windGust"}

VARIABLES now,     \* time.time()
          packets, \* the number of loop packets processed
          data,    \* data[f]: the entries of f's TimeWindowedBuffer
          added,   \* added[f]: every entry ever added for f
          seen     \* seen[f]: the clock when the last one was added

vars == <<now, packets, data, added, seen>>

Init ==
  /\ now = 0
  /\ packets = 0
  /\ data = [f \in Field |-> <<>>]
  /\ added = [f \in Field |-> <<>>]
  /\ seen = [f \in Field |-> 0]

\* Entries are taken off the left while the leftmost is too old.
Evict(s, t) ==
  DropLeading(s, {i \in DOMAIN s : s[i].ts < t - Window})

Entry(ts, value) == [ts |-> ts, val |-> value]

\* Faulty variant of Add: the entry goes to the left end of the deque.
AddOnTheLeft(s, ts, value) == <<Entry(ts, value)>> \o s

Add(s, ts, value) == Append(s, Entry(ts, value))

\* Faulty variant of Packet: eviction by the packet's own time.
PacketEvictsByPacketTime ==
  /\ packets < MaxPackets
  /\ packets' = packets + 1
  /\ \E ts \in now - Skew..now + Skew, p \in [Field -> Value \cup {None}] :
       LET has == {f \in Field : p[f] # None} IN
       /\ data' = [f \in Field |-> IF f \in has
                     THEN Add(Evict(data[f], ts), ts, p[f]) ELSE data[f]]
       /\ added' = [f \in Field |-> IF f \in has
                      THEN Append(added[f], Entry(ts, p[f])) ELSE added[f]]
       /\ seen' = [f \in Field |-> IF f \in has THEN now ELSE seen[f]]
  /\ UNCHANGED now

\* process_packet: for each field the packet has a number for, evict by the
\* wall clock, then add under the packet's dateTime.
Packet ==
  /\ packets < MaxPackets
  /\ packets' = packets + 1
  /\ \E ts \in now - Skew..now + Skew, p \in [Field -> Value \cup {None}] :
       LET has == {f \in Field : p[f] # None} IN
       /\ data' = [f \in Field |-> IF f \in has
                     THEN Add(Evict(data[f], now), ts, p[f]) ELSE data[f]]
       /\ added' = [f \in Field |-> IF f \in has
                      THEN Append(added[f], Entry(ts, p[f])) ELSE added[f]]
       /\ seen' = [f \in Field |-> IF f \in has THEN now ELSE seen[f]]
  /\ UNCHANGED now

Tick ==
  /\ now < MaxTime
  /\ now' = now + 1
  /\ UNCHANGED <<packets, data, added, seen>>

Next == Packet \/ Tick

Spec == Init /\ [][Next]_vars
-----------------------------------------------------------------------------
(* What a reader gets.                                                     *)

\* The newest minus the oldest entry by position, not by time.
Span(s) == IF Len(s) < 2 THEN 0 ELSE s[Len(s)].ts - s[1].ts

SumOf(s) == Total([i \in DOMAIN s |-> s[i].val])

Highest(s) == CHOOSE v \in {s[i].val : i \in DOMAIN s} :
                \A i \in DOMAIN s : s[i].val <= v

\* get_wind_avg and get_gust_max.
Reported(f) ==
  IF Span(data[f]) < MinCoverage THEN None
  ELSE IF f = "windSpeed" THEN <<SumOf(data[f]), Len(data[f])>>
  ELSE Highest(data[f])
-----------------------------------------------------------------------------
(* What must hold.                                                         *)

\* Every variable stays in its range, and a buffer is what is left of all
\* that was added after some of the oldest entries have gone.
WindTypeOK ==
  /\ now \in 0..MaxTime
  /\ packets \in 0..MaxPackets
  /\ \A f \in Field :
       /\ seen[f] \in 0..now
       /\ Len(data[f]) <= Len(added[f])
       /\ data[f] = SubSeq(added[f], Len(added[f]) - Len(data[f]) + 1,
                           Len(added[f]))

\* The entries of f within the window that ends at t.
Within(f, t) ==
  KeptAt(added[f], {i \in DOMAIN added[f] : added[f][i].ts >= t - Window})

InOrder(f) ==
  \A i, j \in DOMAIN added[f] : i < j => added[f][i].ts <= added[f][j].ts

\* No sample is lost before its time: whatever the order of the dateTimes, a
\* sample of the last Window units is in its buffer (evict stops at the first
\* entry that is young enough).
RecentIsKept ==
  \A f \in Field : \A i \in DOMAIN added[f] :
    added[f][i].ts >= now - Window => i > Len(added[f]) - Len(data[f])

\* As of the last packet that carried the field, and as long as the dateTimes
\* came in order and no packet was older than the window, what is reported is
\* the mean or the maximum of exactly the samples of that window, and is
\* reported only if they cover MinCoverage.
ReportIsOfTheWindow ==
  \A f \in Field :
    (InOrder(f) /\ added[f] # <<>> /\ added[f][Len(added[f])].ts >= seen[f] - Window)
      => LET w == Within(f, seen[f]) IN
         Reported(f) = IF w[Len(w)].ts - w[1].ts < MinCoverage THEN None
                       ELSE IF f = "windSpeed" THEN <<SumOf(w), Len(w)>>
                       ELSE Highest(w)
=============================================================================
