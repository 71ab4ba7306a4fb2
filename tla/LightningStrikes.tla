-------------------------- MODULE LightningStrikes --------------------------
(***************************************************************************)
(* The log of lightning strikes (enrichment/lightning_strike_buffer.py)    *)
(* next to the station whose counter it watches.                           *)
(*                                                                         *)
(* The station counts strikes and may start again from zero; its packets   *)
(* carry the counter or leave it out.  process_packet keeps the last       *)
(* counter it saw and, when the counter has risen, logs a strike under the *)
(* packet's dateTime, which may differ from the wall clock by up to Skew   *)
(* either way and need not rise from packet to packet; a packet without    *)
(* one counts as of now.  What is too old is found by the wall clock.  The *)
(* service may be restarted: all it remembers is in memory.  Distances are *)
(* left out: nothing depends on them.                                      *)
(***************************************************************************)
EXTENDS Integers, Sequences, FiniteSets, KeptPart

CONSTANTS Window,     \* WINDOW_SECONDS
          Skew,       \* how far a packet's dateTime is from the wall clock
          MaxTime,    \* bound of the model: the clock
          MaxStrikes, \* bound of the model: strikes
          MaxLoss,    \* bound of the model: counter resets and restarts
          None        \* no counter has been seen

LightningAssumption ==
  /\ Window \in Nat \ {0}
  /\ Skew \in Nat
  /\ MaxTime \in Nat
  /\ MaxStrikes \in Nat
  /\ MaxLoss \in Nat
  /\ None \notin Nat

VARIABLES now,     \* time.time()
          counter, \* the station's lightning_strike_count
          strikes, \* the strikes there have been
          losses,  \* the resets and restarts there have been
          last,    \* _last_strike_count
          data,    \* the times in _strike_buffer, as they came
          unseen,  \* strikes since the last counter that was processed
          clean,   \* the counter has not been reset since then
          traces,  \* dateTimes of packets with strikes and no reset before
          known    \* strikes since the service saw its first counter

vars == <<now, counter, strikes, losses, last, data, unseen, clean, traces,
          known>>

Init ==
  /\ now = 0
  /\ counter = 0
  /\ strikes = 0
  /\ losses = 0
  /\ last = None
  /\ data = <<>>
  /\ unseen = 0
  /\ clean = TRUE
  /\ traces = <<>>
  /\ known = 0
-----------------------------------------------------------------------------
(* The station.                                                            *)

Strike ==
  /\ strikes < MaxStrikes
  /\ strikes' = strikes + 1
  /\ counter' = counter + 1
  /\ unseen' = unseen + 1
  /\ UNCHANGED <<now, losses, last, data, clean, traces, known>>

\* The station's day ends or its console is restarted.
CounterReset ==
  /\ losses < MaxLoss
  /\ losses' = losses + 1
  /\ counter' = 0
  /\ clean' = FALSE
  /\ UNCHANGED <<now, strikes, last, data, unseen, traces, known>>

Tick ==
  /\ now < MaxTime
  /\ now' = now + 1
  /\ UNCHANGED <<counter, strikes, losses, last, data, unseen, clean, traces,
                 known>>
-----------------------------------------------------------------------------
(* The service.                                                            *)

\* Strikes are taken off the left while the leftmost is outside the window.
Evict(s) == DropLeading(s, {i \in DOMAIN s : s[i] < now - Window})

\* Faulty variant of Rises: there is no baseline.
RisesFromZero == counter > (IF last = None THEN 0 ELSE last)

\* The counter is above the last one seen; the first one is a baseline only.
Rises == last # None /\ counter > last

\* process_packet on a packet of dateTime ts with the counter: a rise is
\* logged, however far the counter has risen, after an eviction; then the
\* counter is kept.  On a packet without it process_packet returns at once.
Packet ==
  /\ \E ts \in now - Skew..now + Skew :
       /\ data' = IF Rises THEN Append(Evict(data), ts) ELSE data
       /\ traces' = IF last # None /\ clean /\ unseen > 0
                    THEN Append(traces, ts) ELSE traces
  /\ last' = counter
  /\ unseen' = 0
  /\ clean' = TRUE
  /\ known' = IF last = None THEN 0 ELSE known + unseen
  /\ UNCHANGED <<now, counter, strikes, losses>>

Restart ==
  /\ losses < MaxLoss
  /\ losses' = losses + 1
  /\ last' = None
  /\ data' = <<>>
  /\ traces' = <<>>
  /\ known' = 0
  /\ UNCHANGED <<now, counter, strikes, unseen, clean>>

Next ==
  \/ Strike \/ CounterReset \/ Tick
  \/ Packet \/ Restart

Spec == Init /\ [][Next]_vars

\* get_strike_history.
History == data
-----------------------------------------------------------------------------
(* What must hold.                                                         *)

\* Every variable stays in its range.
LightningTypeOK ==
  /\ now \in 0..MaxTime
  /\ counter \in 0..strikes
  /\ strikes \in 0..MaxStrikes
  /\ losses \in 0..MaxLoss
  /\ last \in 0..MaxStrikes \cup {None}
  /\ \A i \in DOMAIN data : data[i] \in -Skew..now + Skew
  /\ unseen \in 0..strikes
  /\ clean \in BOOLEAN
  /\ known \in 0..strikes

\* Nothing is made up: the log never holds more strikes than there were since
\* the service saw its first counter, whatever resets and restarts do to the
\* counter in between.
NoPhantomStrike == Len(History) <= known

\* A packet that brings strikes, with no reset of the counter since the
\* packet before, leaves a strike in the log until its dateTime is more than
\* Window ago, in whatever order of their dateTimes late and early packets
\* come, although eviction looks at the leftmost entry only.
StrikesLeaveATrace ==
  \A i \in DOMAIN traces :
    traces[i] >= now - Window
      => Cardinality({j \in DOMAIN History : History[j] = traces[i]})
           >= Cardinality({j \in DOMAIN traces : traces[j] = traces[i]})
=============================================================================
