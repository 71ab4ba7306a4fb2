--------------------------- MODULE SmoothedInputs ---------------------------
(***************************************************************************)
(* The ring buffers (enrichment/ring_buffer.py) and the smoothers that     *)
(* feed one per field from every packet (enrichment/input_smoother.py and  *)
(* enrichment/uv_smoother.py).  The sum is updated by what enters and      *)
(* leaves; once it is not a number it stays none.  The sum of squares,     *)
(* which nothing reads, and rounding are left out.                         *)
(***************************************************************************)
EXTENDS Integers, Sequences, KeptPart

CONSTANTS Field,      \* the smoothed fields
          Capacity,   \* Capacity[f]: the samples kept of f
          MinSamples, \* _MIN_SAMPLES
          Reading,    \* the numbers a packet may bring
          MaxPackets, \* bound on the packets
          NaN,        \* not a number, which JSON may bring as well
          None        \* no value: no field, null, or not numeric

SmoothedAssumption ==
  /\ \A f \in Field : Capacity[f] \in Nat \ {0}
  /\ MinSamples \in Nat \ {0} /\ MaxPackets \in Nat
  /\ Reading \subseteq Int /\ {NaN, None} \cap Int = {} /\ NaN # None

VARIABLES packets, \* the packets so far
          ring,    \* ring[f]: _data
          sum,     \* sum[f]: _sum
          fed      \* fed[f]: all that was ever added

vars == <<packets, ring, sum, fed>>

Plus(x, y) == IF NaN \in {x, y} THEN NaN ELSE x + y
Minus(x, y) == IF NaN \in {x, y} THEN NaN ELSE x - y

Init ==
  /\ packets = 0
  /\ ring = [f \in Field |-> <<>>]
  /\ sum = [f \in Field |-> 0]
  /\ fed = [f \in Field |-> <<>>]

\* RingBuffer.add: what is about to be evicted is subtracted first.
SumAfter(f, v) ==
  Plus(IF Len(ring[f]) = Capacity[f] THEN Minus(sum[f], Head(ring[f])) ELSE sum[f], v)

RingAfter(f, v) ==
  Append(IF Len(ring[f]) = Capacity[f] THEN Tail(ring[f]) ELSE ring[f], v)

\* A packet: each field's value or none.  A value may come as a number, as a
\* string that is one, or in a converted field.
Packet ==
  /\ packets < MaxPackets
  /\ packets' = packets + 1
  /\ \E v \in [Field -> Reading \cup {NaN, None}] :
       /\ ring' = [f \in Field |-> IF v[f] = None THEN ring[f] ELSE RingAfter(f, v[f])]
       /\ sum' = [f \in Field |-> IF v[f] = None THEN sum[f] ELSE SumAfter(f, v[f])]
       /\ fed' = [f \in Field |-> IF v[f] = None THEN fed[f] ELSE Append(fed[f], v[f])]

Next == Packet

Spec == Init /\ [][Next]_vars

\* get_smoothed: a mean, as its sum and the number of samples.  enrich_uv puts
\* it in place of the reading of a response unless it is None.
Smoothed(f) ==
  IF Len(ring[f]) < MinSamples THEN None ELSE [sum |-> sum[f], of |-> Len(ring[f])]
-----------------------------------------------------------------------------
(* What must hold.                                                         *)

\* What is in s.
Values(s) == {s[i] : i \in DOMAIN s}

\* Every variable stays in its range.
SmoothedTypeOK ==
  /\ packets \in 0..MaxPackets
  /\ \A f \in Field :
       /\ Len(ring[f]) <= Capacity[f]
       /\ Values(ring[f]) \cup {sum[f]} \subseteq Int \cup {NaN}

\* The last n entries of s.
LastOf(s, n) == SubSeq(s, Len(s) - n + 1, Len(s))

\* Whatever packets lack, the smoothed value of a field is the mean of its
\* last readings, as many as the buffer holds, as long as all of its readings
\* were numbers: the running sum has neither lost nor kept one (add,
\* get_smoothed).
SmoothedIsMean ==
  \A f \in Field :
    LET n == IF Len(fed[f]) < Capacity[f] THEN Len(fed[f]) ELSE Capacity[f] IN
    IF n < MinSamples THEN Smoothed(f) = None
    ELSE NaN \notin Values(fed[f]) =>
           Smoothed(f) = [sum |-> Total(LastOf(fed[f], n)), of |-> n]
=============================================================================
