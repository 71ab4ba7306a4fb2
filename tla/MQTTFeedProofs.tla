--------------------------- MODULE MQTTFeedProofs ---------------------------
(***************************************************************************)
(* Proofs about MQTTFeed for any number of packets and of lost connections:*)
(* the order and completeness of what reaches the emitter's queue, the     *)
(* truth of the readiness endpoint, and the quiet after stop().            *)
(***************************************************************************)
EXTENDS MQTTFeed, SequenceFacts, TLAPS

-----------------------------------------------------------------------------
(* The inductive invariant.                                                *)

Kinds == {"accepted", "refused", "malformed", "packet", "end"}

Wired == [kind : Kinds, packet : Nat]

Typed ==
  /\ published \in 0..MaxPackets /\ losses \in 0..MaxLoss
  /\ session \in Session /\ from \in 0..published
  /\ thread \in Thread
  /\ terminate \in BOOLEAN /\ connected \in BOOLEAN /\ subscribed \in BOOLEAN
  /\ stop \in {"ahead", "joining", "over"}
  /\ wire \in Seq(Wired)
  /\ \A i \in DOMAIN wire :
       /\ wire[i].packet <= published
       /\ wire[i].packet = 0 <=> wire[i].kind # "packet"
  /\ ready \in Seq(Nat) /\ \A i \in DOMAIN ready : ready[i] \in 1..published
  /\ queue \in Seq(Nat) /\ \A i \in DOMAIN queue : queue[i] \in 1..published

OnWire(kind) == \E i \in DOMAIN wire : wire[i].kind = kind

\* What paho's thread knows of the connection: nothing is left of an earlier
\* one when it connects, an accepted connection says so first, and one that
\* has ended says so last.
Connection ==
  /\ \A i \in DOMAIN wire : wire[i].kind = "end" => i = Len(wire)
  /\ \A i \in DOMAIN wire : wire[i].kind = "accepted" => i = 1
  /\ session # "none" => ~ OnWire("end")
  /\ session = "sent" => wire = <<>>
  /\ session \in {"asked", "subscribed"} => ~ OnWire("accepted")
  /\ thread \in {"none", "waiting", "disconnecting"} =>
       session = "none" /\ wire = <<>> /\ ~ connected
  /\ thread \in {"idle", "subscribing"} /\ session = "none" => OnWire("end")
  /\ thread = "idle" /\ session \in {"sent", "open"} => ~ connected
  /\ thread = "subscribing" => session \in {"none", "open"} /\ ~ OnWire("accepted")

\* A connection that is new is not taken for subscribed.
Fresh ==
  /\ thread \in {"none", "waiting", "subscribing"} => ~ subscribed
  /\ thread = "idle" /\ (session = "sent" \/ OnWire("accepted")) => ~ subscribed

Stopped == stop = "over" => thread = "ended" /\ ~ connected

\* Numbers in rising order, and all of s before all of t.
Rising(s) == \A i, j \in DOMAIN s : i < j => s[i] < s[j]

Before(s, t) == \A i \in DOMAIN s, j \in DOMAIN t : s[i] < t[j]

\* PacketsArrive, for each part of the pipeline.
Ordered ==
  /\ Rising(queue) /\ Rising(ready) /\ Before(queue, ready)
  /\ \A j \in DOMAIN wire : wire[j].kind = "packet" =>
       /\ \A i \in DOMAIN wire :
            wire[i].kind = "packet" /\ i < j => wire[i].packet < wire[j].packet
       /\ \A i \in DOMAIN queue : queue[i] < wire[j].packet
       /\ \A i \in DOMAIN ready : ready[i] < wire[j].packet

Underway(p) ==
  \/ \E i \in DOMAIN queue : queue[i] = p
  \/ \E i \in DOMAIN ready : ready[i] = p
  \/ \E i \in DOMAIN wire : wire[i].kind = "packet" /\ wire[i].packet = p

Complete == session = "subscribed" => \A p \in (from + 1)..published : Underway(p)

FeedInv == Typed /\ Connection /\ Fresh /\ Stopped /\ Ordered /\ Complete
-----------------------------------------------------------------------------
(* What the steps do to the wire.                                          *)

\* An event comes last.
LEMMA Appended ==
  ASSUME Typed, NEW e \in Wired, wire' = Append(wire, e)
  PROVE  /\ wire' \in Seq(Wired) /\ Len(wire) \in Nat /\ DOMAIN wire = 1..Len(wire)
         /\ Len(wire') = Len(wire) + 1 /\ DOMAIN wire' = 1..(Len(wire) + 1)
         /\ \A i \in 1..Len(wire) : wire'[i] = wire[i]
         /\ wire'[Len(wire) + 1] = e
BY AppendFacts DEF Typed

\* The first event is taken.
LEMMA Taken ==
  ASSUME Typed, wire # <<>>, wire' = Tail(wire)
  PROVE  /\ wire' \in Seq(Wired) /\ Len(wire) \in Nat \ {0} /\ DOMAIN wire = 1..Len(wire)
         /\ Len(wire') = Len(wire) - 1 /\ DOMAIN wire' = 1..(Len(wire) - 1)
         /\ \A i \in 1..(Len(wire) - 1) : i + 1 \in 1..Len(wire) /\ wire'[i] = wire[i + 1]
         /\ Head(wire) = wire[1] /\ 1 \in 1..Len(wire)
<1>1. wire \in Seq(Wired)
  BY DEF Typed
<1>2. Tail(wire) \in Seq(Wired)
  BY <1>1
<1>3. QED
  BY <1>1, <1>2, TailFacts

\* A connection that breaks leaves a prefix and its end.
LEMMA Broken ==
  ASSUME Typed, Break
  PROVE  \E k \in 0..Len(wire) :
           /\ wire' \in Seq(Wired) /\ Len(wire) \in Nat /\ DOMAIN wire = 1..Len(wire)
           /\ Len(wire') = k + 1 /\ DOMAIN wire' = 1..(k + 1)
           /\ \A i \in 1..k : i \in 1..Len(wire) /\ wire'[i] = wire[i]
           /\ wire'[k + 1] = Event("end")
<1>1. wire \in Seq(Wired) /\ Len(wire) \in Nat /\ DOMAIN wire = 1..Len(wire)
  BY DEF Typed
<1>2. PICK k \in 0..Len(wire) : wire' = Append(SubSeq(wire, 1, k), Event("end"))
  BY DEF Break
<1> DEFINE t == SubSeq(wire, 1, k)
<1>3. t \in Seq(Wired) /\ Len(t) = k /\ \A i \in 1..k : i \in 1..Len(wire) /\ t[i] = wire[i]
  BY <1>1, PrefixFacts
<1>4. Event("end") \in Wired
  BY DEF Event, Wired, Kinds
<1>5. wire' = Append(t, Event("end"))
  BY <1>2
<1> HIDE DEF t
<1>6. wire' \in Seq(Wired)
  BY <1>3, <1>4, <1>5
<1>7. QED
  BY <1>1, <1>3, <1>4, <1>5, <1>6, AppendFacts

\* A refused connection leaves the refusal and its end.
LEMMA Refused ==
  ASSUME Typed, Connection, BrokerRefuses
  PROVE  wire' = <<Event("refused"), Event("end")>> /\ wire' \in Seq(Wired)
<1>1. wire = <<>>
  BY DEF BrokerRefuses, Connection
<1>2. <<Event("refused"), Event("end")>> \in Seq(Wired)
  BY DEF Event, Wired, Kinds
<1>3. wire' = <<>> \o <<Event("refused"), Event("end")>>
  BY <1>1 DEF BrokerRefuses
<1>4. QED
  BY <1>2, <1>3, ConcatEmptySeq
-----------------------------------------------------------------------------
(* Types.                                                                  *)

\* A callback takes an event.
Takes == OnConnect \/ Ignore \/ OnMessage \/ OnDisconnect

\* What is taken is an event of its kind.
LEMMA TakesFacts ==
  ASSUME Typed, Takes
  PROVE  /\ wire # <<>> /\ wire' = Tail(wire) /\ thread = "idle"
         /\ UNCHANGED <<brokerVars, terminate, stop, queue>>
         /\ OnMessage \/ ready' = ready
         /\ OnConnect => Head(wire).kind = "accepted"
         /\ OnMessage => /\ Head(wire).kind = "packet"
                         /\ ready' = Append(ready, Head(wire).packet)
         /\ OnDisconnect => Head(wire).kind = "end"
         /\ Ignore => Head(wire).kind \in {"refused", "malformed"}
BY DEF Takes, OnConnect, Ignore, OnMessage, OnDisconnect, Receives, loopVars

\* A step that leaves the packets alone.
Quiet ==
  \/ BrokerSubscribes \/ Connect \/ Subscribe \/ Unsubscribed \/ ThreadEnds
  \/ Start \/ BeginStop

\* An event that is added is of those that have happened.
LEMMA AppendedTyped ==
  ASSUME Typed, NEW e \in Wired, wire' = Append(wire, e), published \in Nat,
         NEW n \in Nat, published <= n, e.packet <= n,
         e.packet = 0 <=> e.kind # "packet"
  PROVE  /\ wire' \in Seq(Wired)
         /\ \A i \in DOMAIN wire' :
              /\ wire'[i].packet <= n
              /\ wire'[i].packet = 0 <=> wire'[i].kind # "packet"
<1>1. /\ wire' \in Seq(Wired) /\ Len(wire) \in Nat /\ DOMAIN wire = 1..Len(wire)
      /\ DOMAIN wire' = 1..(Len(wire) + 1)
      /\ \A i \in 1..Len(wire) : wire'[i] = wire[i]
      /\ wire'[Len(wire) + 1] = e
  BY Appended
<1>2. \A i \in 1..Len(wire) : wire[i] \in Wired
  <2>1. wire \in Seq(Wired)
    BY DEF Typed
  <2>2. QED
    BY <2>1, ElementOfSeq
<1>3. \A i \in 1..Len(wire) :
        /\ wire[i].packet \in Nat /\ wire[i].packet <= published
        /\ wire[i].packet = 0 <=> wire[i].kind # "packet"
  BY <1>1, <1>2 DEF Typed, Wired
<1>4. ASSUME NEW i \in 1..Len(wire)
      PROVE  /\ wire'[i].packet <= n
             /\ wire'[i].packet = 0 <=> wire'[i].kind # "packet"
  <2>1. wire'[i] = wire[i]
    BY <1>1
  <2>2. wire[i].packet \in Nat /\ wire[i].packet <= published
    BY <1>3
  <2>3. wire[i].packet = 0 <=> wire[i].kind # "packet"
    BY <1>3
  <2>4. wire[i].packet <= n
    BY <2>2
  <2>5. QED
    BY <2>1, <2>3, <2>4
<1>5. \A i \in DOMAIN wire' : i \in 1..Len(wire) \/ i = Len(wire) + 1
  BY <1>1
<1>6. QED
  BY <1>1, <1>4, <1>5

\* Every step keeps the types; no packet is invented.
LEMMA TypedStep ==
  ASSUME Typed, Connection, Next
  PROVE  Typed'
<1>1. published \in Nat /\ losses \in Nat /\ MaxPackets \in Nat /\ MaxLoss \in Nat
  BY MQTTAssumption DEF Typed
<1>2. /\ wire \in Seq(Wired) /\ ready \in Seq(Nat) /\ queue \in Seq(Nat)
      /\ \A i \in DOMAIN wire :
           /\ wire[i] \in Wired /\ wire[i].packet <= published
           /\ wire[i].packet = 0 <=> wire[i].kind # "packet"
      /\ \A i \in DOMAIN ready : ready[i] \in 1..published
  BY ElementOfSeq, LenProperties DEF Typed
<1>3. CASE Quiet
  <2>1. UNCHANGED <<wire, ready, queue, published>>
    BY <1>3 DEF Quiet, BrokerSubscribes, Connect, Subscribe, Unsubscribed, ThreadEnds,
                Start, BeginStop, BrokerUnchanged, brokerVars, loopVars
  <2>2. /\ losses' \in 0..MaxLoss /\ session' \in Session /\ from' \in 0..published
        /\ thread' \in Thread /\ terminate' \in BOOLEAN /\ connected' \in BOOLEAN
        /\ subscribed' \in BOOLEAN /\ stop' \in {"ahead", "joining", "over"}
    <3>1. /\ losses \in 0..MaxLoss /\ session \in Session /\ from \in 0..published
          /\ thread \in Thread /\ terminate \in BOOLEAN /\ connected \in BOOLEAN
          /\ subscribed \in BOOLEAN /\ stop \in {"ahead", "joining", "over"}
      BY DEF Typed
    <3>2. CASE BrokerSubscribes \/ Connect
      BY <1>1, <3>1, <3>2
         DEF BrokerSubscribes, Connect, Session, Thread, BrokerUnchanged, flags, loopVars
    <3>3. CASE Subscribe \/ Unsubscribed \/ ThreadEnds \/ Start \/ BeginStop
      BY <3>1, <3>3 DEF Subscribe, Unsubscribed, ThreadEnds, Start, BeginStop, Session,
                        Thread, brokerVars, flags, loopVars
    <3>4. QED
      BY <1>3, <3>2, <3>3 DEF Quiet
  <2>3. QED
    BY <2>1, <2>2 DEF Typed
<1>4. CASE BrokerAccepts
  <2>1. Event("accepted") \in Wired /\ Event("accepted").kind = "accepted"
        /\ Event("accepted").packet = 0
    BY DEF Event, Wired, Kinds
  <2>2. wire' = Append(wire, Event("accepted"))
    BY <1>4 DEF BrokerAccepts
  <2>3. /\ wire' \in Seq(Wired)
        /\ \A i \in DOMAIN wire' :
             /\ wire'[i].packet <= published
             /\ wire'[i].packet = 0 <=> wire'[i].kind # "packet"
    <3>1. published <= published /\ Event("accepted").packet <= published
      BY <1>1, <2>1
    <3>2. QED
      BY <1>1, <2>1, <2>2, <3>1, AppendedTyped
  <2>4. QED
    BY <1>4, <2>3
       DEF Typed, BrokerAccepts, BrokerUnchanged, Session, flags, loopVars
<1>5. CASE BrokerRefuses
  <2>1. wire' \in Seq(Wired) /\ wire' = <<Event("refused"), Event("end")>>
    BY <1>5, Refused
  <2>2. \A i \in DOMAIN wire' :
             /\ wire'[i].packet <= published
             /\ wire'[i].packet = 0 <=> wire'[i].kind # "packet"
    BY <1>1, <2>1 DEF Event
  <2>3. /\ losses' \in 0..MaxLoss /\ session' \in Session
        /\ UNCHANGED <<published, from, thread, terminate, connected, subscribed,
                       ready, queue, stop>>
    BY <1>1, <1>5 DEF BrokerRefuses, BrokerUnchanged, Session, flags, loopVars
  <2>4. QED
    BY <2>1, <2>2, <2>3 DEF Typed
<1>6. CASE Publish
  <2>1. CASE published' = published + 1 /\ wire' = Append(wire, Loop(published'))
    <3>1. Loop(published') \in Wired /\ Loop(published').kind = "packet"
          /\ Loop(published').packet = published + 1 /\ published + 1 \in 0..MaxPackets
      BY <1>1, <1>6, <2>1 DEF Loop, Wired, Kinds, Publish
    <3>2. /\ wire' \in Seq(Wired)
          /\ \A i \in DOMAIN wire' :
               /\ wire'[i].packet <= published + 1
               /\ wire'[i].packet = 0 <=> wire'[i].kind # "packet"
      <4>1. published + 1 \in Nat /\ published <= published + 1
        BY <1>1
      <4>2. QED
        <5> DEFINE e == Loop(published')
                   n == published + 1
        <5>1. /\ e \in Wired /\ wire' = Append(wire, e) /\ e.packet <= n
              /\ e.packet = 0 <=> e.kind # "packet"
              /\ n \in Nat /\ published \in Nat /\ published <= n
          BY <1>1, <2>1, <3>1, <4>1
        <5> HIDE DEF e, n
        <5>2. /\ wire' \in Seq(Wired)
              /\ \A i \in DOMAIN wire' :
                   /\ wire'[i].packet <= n
                   /\ wire'[i].packet = 0 <=> wire'[i].kind # "packet"
          BY <5>1, AppendedTyped
        <5>3. QED
          BY <5>2 DEF n
    <3>3. QED
      BY <1>1, <1>6, <2>1, <3>1, <3>2
         DEF Typed, Publish, BrokerUnchanged, Session, flags, loopVars
  <2>2. CASE published' = published + 1 /\ wire' = wire
    <3>1. published + 1 \in 0..MaxPackets
      BY <1>1, <1>6 DEF Publish
    <3>2. \A i \in DOMAIN wire : wire[i].packet \in Nat
      BY <1>2 DEF Wired
    <3>3. QED
      BY <1>1, <1>6, <2>2, <3>1, <3>2
         DEF Typed, Publish, BrokerUnchanged, Session, flags, loopVars
  <2>3. CASE published' = published /\ wire' = Append(wire, Event("malformed"))
    <3>1. Event("malformed") \in Wired /\ Event("malformed").kind = "malformed"
          /\ Event("malformed").packet = 0
      BY DEF Event, Wired, Kinds
    <3>2. /\ wire' \in Seq(Wired)
          /\ \A i \in DOMAIN wire' :
               /\ wire'[i].packet <= published
               /\ wire'[i].packet = 0 <=> wire'[i].kind # "packet"
      <4>1. published <= published /\ Event("malformed").packet <= published
        BY <1>1, <3>1
      <4>2. QED
        BY <1>1, <2>3, <3>1, <4>1, AppendedTyped
    <3>3. QED
      BY <1>6, <2>3, <3>2 DEF Typed, Publish, BrokerUnchanged, Session, flags, loopVars
  <2>4. QED
    BY <1>6, <2>1, <2>2, <2>3 DEF Publish
<1>7. CASE Break
  <2>1. /\ wire' \in Seq(Wired)
        /\ \A i \in DOMAIN wire' :
             /\ wire'[i].packet <= published
             /\ wire'[i].packet = 0 <=> wire'[i].kind # "packet"
    <3>1. Event("end").kind = "end" /\ Event("end").packet = 0
      BY DEF Event
    <3>2. PICK k \in 0..Len(wire) :
           /\ wire' \in Seq(Wired) /\ Len(wire) \in Nat /\ DOMAIN wire = 1..Len(wire)
           /\ Len(wire') = k + 1 /\ DOMAIN wire' = 1..(k + 1)
           /\ \A i \in 1..k : i \in 1..Len(wire) /\ wire'[i] = wire[i]
           /\ wire'[k + 1] = Event("end")
      BY <1>7, Broken
    <3>3. \A i \in 1..(k + 1) : i \in 1..k \/ i = k + 1
      BY <3>2
    <3>4. QED
      BY <1>1, <1>2, <3>1, <3>2, <3>3
  <2>2. QED
    BY <1>1, <1>7, <2>1
       DEF Typed, Break, BrokerUnchanged, Session, flags, loopVars
<1>8. CASE Takes
  <2>1. /\ wire # <<>> /\ wire' = Tail(wire)
        /\ OnMessage \/ ready' = ready
        /\ UNCHANGED <<published, losses, session, from, terminate, stop, queue>>
        /\ OnMessage => Head(wire).kind = "packet" /\ ready' = Append(ready, Head(wire).packet)
    BY <1>8, TakesFacts DEF brokerVars
  <2>2. /\ wire' \in Seq(Wired) /\ DOMAIN wire = 1..Len(wire)
        /\ DOMAIN wire' = 1..(Len(wire) - 1)
        /\ \A i \in 1..(Len(wire) - 1) : i + 1 \in 1..Len(wire) /\ wire'[i] = wire[i + 1]
        /\ Head(wire) = wire[1] /\ 1 \in 1..Len(wire)
    <3>1. wire # <<>> /\ wire' = Tail(wire)
      BY <2>1
    <3>2. QED
      BY <3>1, Taken
  <2>3. ASSUME NEW i \in DOMAIN wire'
        PROVE  /\ wire'[i].packet <= published
               /\ wire'[i].packet = 0 <=> wire'[i].kind # "packet"
    <3>1. wire'[i] = wire[i + 1] /\ i + 1 \in DOMAIN wire
      BY <2>2
    <3>2. QED
      BY <1>2, <3>1
  <2>4. /\ ready' \in Seq(Nat) /\ \A i \in DOMAIN ready' : ready'[i] \in 1..published
    <3>1. CASE ready' = ready
      BY <3>1 DEF Typed
    <3>2. CASE OnMessage
      <4> DEFINE p == Head(wire).packet
      <4>1. p \in 1..published
        <5>1. p = wire[1].packet /\ wire[1].kind = "packet" /\ 1 \in DOMAIN wire
          BY <2>1, <2>2, <3>2
        <5>2. p \in Nat /\ p <= published /\ p # 0
          BY <1>2, <5>1 DEF Wired
        <5>3. QED
          BY <1>1, <5>2
      <4>2. ready' = Append(ready, p)
        BY <2>1, <3>2
      <4> HIDE DEF p
      <4>3. ready' \in Seq(Nat) /\ p \in Nat
        BY <1>1, <1>2, <4>1, <4>2
      <4>4. /\ DOMAIN ready = 1..Len(ready) /\ DOMAIN ready' = 1..(Len(ready) + 1)
            /\ \A i \in 1..Len(ready) : ready'[i] = ready[i]
            /\ ready'[Len(ready) + 1] = p /\ Len(ready) \in Nat
        BY <1>2, <4>2, <4>3, AppendFacts
      <4>5. \A i \in 1..(Len(ready) + 1) : i \in 1..Len(ready) \/ i = Len(ready) + 1
        BY <4>4
      <4>6. QED
        BY <4>1, <4>3, <4>4, <4>5 DEF Typed
    <3>3. QED
      BY <2>1, <3>1, <3>2
  <2>5. /\ thread' \in Thread /\ connected' \in BOOLEAN /\ subscribed' \in BOOLEAN
    BY <1>8 DEF Takes, OnConnect, Ignore, OnMessage, OnDisconnect, Typed, Thread, flags
  <2>6. QED
    BY <2>1, <2>2, <2>3, <2>4, <2>5 DEF Typed
<1>9. CASE RunReady
  <2>1. /\ ready # <<>> /\ queue' = Append(queue, Head(ready)) /\ ready' = Tail(ready)
        /\ UNCHANGED <<brokerVars, wire, thread, terminate, flags, stop>>
    BY <1>9 DEF RunReady
  <2>2. /\ DOMAIN ready = 1..Len(ready) /\ DOMAIN ready' = 1..(Len(ready) - 1)
        /\ \A i \in 1..(Len(ready) - 1) : i + 1 \in 1..Len(ready) /\ ready'[i] = ready[i + 1]
        /\ Head(ready) = ready[1] /\ 1 \in 1..Len(ready)
    BY <1>2, <2>1, TailFacts
  <2>3. Head(ready) \in Nat /\ Head(ready) \in 1..published
    <3>1. ready[1] \in 1..published
      BY <1>2, <2>2
    <3>2. QED
      BY <1>1, <2>2, <3>1
  <2>4. ready' \in Seq(Nat) /\ queue' \in Seq(Nat)
    BY <1>2, <2>1, <2>3
  <2>5. \A i \in DOMAIN ready' : ready'[i] \in 1..published
    BY <2>2 DEF Typed
  <2>6. /\ DOMAIN queue = 1..Len(queue) /\ DOMAIN queue' = 1..(Len(queue) + 1)
        /\ \A i \in 1..Len(queue) : queue'[i] = queue[i]
        /\ queue'[Len(queue) + 1] = Head(ready) /\ Len(queue) \in Nat
    BY <1>2, <2>1, <2>3, AppendFacts
  <2>7. \A i \in 1..(Len(queue) + 1) : i \in 1..Len(queue) \/ i = Len(queue) + 1
    BY <2>6
  <2>8. \A i \in DOMAIN queue' : queue'[i] \in 1..published
    BY <2>3, <2>6, <2>7 DEF Typed
  <2>9. QED
    BY <2>1, <2>4, <2>5, <2>8 DEF Typed, brokerVars, flags
<1>10. CASE EndStop
  <2>1. <<>> \in Seq(Wired) /\ DOMAIN <<>> = {}
    OBVIOUS
  <2>2. /\ wire' = <<>> /\ session' = "none" /\ connected' = FALSE /\ subscribed' = FALSE
        /\ stop' = "over"
        /\ UNCHANGED <<published, losses, from, thread, terminate, ready, queue>>
    BY <1>10 DEF EndStop
  <2>3. QED
    BY <2>1, <2>2 DEF Typed, Session
<1>11. QED
  BY <1>3, <1>4, <1>5, <1>6, <1>7, <1>8, <1>9, <1>10
     DEF Next, Broker, ThreadStep, Quiet, Takes
-----------------------------------------------------------------------------
(* The connection.                                                         *)

\* What is left on the wire when the first event has been taken.
LEMMA LeftOnWire ==
  ASSUME Typed, Connection, wire # <<>>, wire' = Tail(wire)
  PROVE  /\ \A i \in DOMAIN wire' : wire'[i].kind = "end" => i = Len(wire')
         /\ \A i \in DOMAIN wire' : wire'[i].kind # "accepted"
         /\ \A kind : OnWire(kind)' => OnWire(kind)
         /\ \A kind : OnWire(kind) /\ Head(wire).kind # kind => OnWire(kind)'
         /\ OnWire(Head(wire).kind)
         /\ Head(wire).kind = "end" => wire' = <<>>
<1>1. /\ wire' \in Seq(Wired) /\ Len(wire) \in Nat \ {0} /\ DOMAIN wire = 1..Len(wire)
      /\ Len(wire') = Len(wire) - 1 /\ DOMAIN wire' = 1..(Len(wire) - 1)
      /\ \A i \in 1..(Len(wire) - 1) : i + 1 \in 1..Len(wire) /\ wire'[i] = wire[i + 1]
      /\ Head(wire) = wire[1] /\ 1 \in 1..Len(wire)
  BY Taken
<1>2. \A i \in 1..(Len(wire) - 1) : i \in Nat /\ i + 1 # 1
  OBVIOUS
<1>3. /\ \A i \in 1..Len(wire) : wire[i].kind = "end" => i = Len(wire)
      /\ \A i \in 1..Len(wire) : wire[i].kind = "accepted" => i = 1
  BY <1>1 DEF Connection
<1>4. ASSUME NEW i \in DOMAIN wire', wire'[i].kind = "end"
      PROVE  i = Len(wire')
  <2>1. i \in Nat /\ i + 1 \in 1..Len(wire) /\ wire[i + 1].kind = "end"
    BY <1>1, <1>4
  <2>2. i + 1 = Len(wire)
    BY <1>3, <2>1
  <2>3. QED
    BY <1>1, <2>1, <2>2
<1>5. \A i \in DOMAIN wire' : wire'[i].kind # "accepted"
  BY <1>1, <1>2, <1>3
<1>6. \A kind : OnWire(kind)' => OnWire(kind)
  BY <1>1 DEF OnWire
<1>7. ASSUME NEW kind, OnWire(kind), Head(wire).kind # kind
      PROVE  OnWire(kind)'
  <2>1. PICK i \in 1..Len(wire) : wire[i].kind = kind
    BY <1>1, <1>7 DEF OnWire
  <2>2. i # 1
    BY <1>1, <1>7, <2>1
  <2>3. i - 1 \in 1..(Len(wire) - 1) /\ (i - 1) + 1 = i
    BY <1>1, <2>2
  <2>4. wire'[i - 1].kind = kind
    BY <1>1, <2>1, <2>3
  <2>5. QED
    BY <1>1, <2>3, <2>4 DEF OnWire
<1>8. OnWire(Head(wire).kind)
  BY <1>1 DEF OnWire
<1>9. Head(wire).kind = "end" => wire' = <<>>
  <2>1. Head(wire).kind = "end" => Len(wire') = 0
    <3>1. Head(wire).kind = "end" => 1 = Len(wire)
      BY <1>1, <1>3
    <3>2. QED
      BY <1>1, <3>1
  <2>2. QED
    BY <1>1, <2>1, EmptySeq
<1>10. QED
  BY <1>4, <1>5, <1>6, <1>7, <1>8, <1>9

\* What an event at the end changes.
LEMMA AddedToWire ==
  ASSUME Typed, Connection, NEW e \in Wired, wire' = Append(wire, e), ~ OnWire("end"),
         e.kind # "accepted" \/ wire = <<>>
  PROVE  /\ \A i \in DOMAIN wire' : wire'[i].kind = "end" => i = Len(wire')
         /\ \A i \in DOMAIN wire' : wire'[i].kind = "accepted" => i = 1
         /\ \A kind : OnWire(kind)' <=> OnWire(kind) \/ kind = e.kind
<1>1. /\ wire' \in Seq(Wired) /\ Len(wire) \in Nat /\ DOMAIN wire = 1..Len(wire)
      /\ Len(wire') = Len(wire) + 1 /\ DOMAIN wire' = 1..(Len(wire) + 1)
      /\ \A i \in 1..Len(wire) : wire'[i] = wire[i]
      /\ wire'[Len(wire) + 1] = e
  BY Appended
<1>2. /\ \A i \in 1..(Len(wire) + 1) : i \in 1..Len(wire) \/ i = Len(wire) + 1
      /\ \A i \in 1..Len(wire) : i \in 1..(Len(wire) + 1)
      /\ Len(wire) + 1 \in 1..(Len(wire) + 1)
      /\ wire = <<>> => Len(wire) + 1 = 1
  BY <1>1
<1>3. /\ \A i \in 1..Len(wire) : wire[i].kind # "end"
      /\ \A i \in 1..Len(wire) : wire[i].kind = "accepted" => i = 1
  BY <1>1 DEF Connection, OnWire
<1>4. \A i \in DOMAIN wire' : wire'[i].kind = "end" => i = Len(wire')
  BY <1>1, <1>2, <1>3
<1>5. \A i \in DOMAIN wire' : wire'[i].kind = "accepted" => i = 1
  BY <1>1, <1>2, <1>3
<1>6. \A kind : OnWire(kind)' <=> OnWire(kind) \/ kind = e.kind
  BY <1>1, <1>2 DEF OnWire
<1>7. QED
  BY <1>4, <1>5, <1>6

\* A thread that connects finds nothing of an earlier connection, and one
\* that has subscribed has a connection or is about to hear of its end.
LEMMA ConnectionStep ==
  ASSUME Typed, Connection, Next
  PROVE  Connection'
<1>1. session \in Session /\ thread \in Thread
  BY DEF Typed
<1>2. \A i \in DOMAIN <<>> : FALSE
  OBVIOUS
<1>3. CASE BrokerAccepts
  <2>1. Event("accepted") \in Wired /\ Event("accepted").kind = "accepted"
    BY DEF Event, Wired, Kinds
  <2>2. /\ wire = <<>> /\ wire' = Append(wire, Event("accepted")) /\ session = "sent"
        /\ session' = "open" /\ UNCHANGED <<thread, connected>>
    BY <1>3 DEF BrokerAccepts, BrokerUnchanged, flags, Connection
  <2>3. ~ OnWire("end")
    BY <2>2 DEF Connection
  <2>4. /\ \A i \in DOMAIN wire' : wire'[i].kind = "end" => i = Len(wire')
        /\ \A i \in DOMAIN wire' : wire'[i].kind = "accepted" => i = 1
        /\ ~ OnWire("end")'
    BY <2>1, <2>2, <2>3, AddedToWire
  <2>5. QED
    BY <1>1, <2>2, <2>4 DEF Connection, Thread
<1>4. CASE BrokerRefuses
  <2>1. wire' = <<Event("refused"), Event("end")>>
    BY <1>4, Refused
  <2>2. /\ DOMAIN wire' = 1..2 /\ Len(wire') = 2
        /\ wire'[1].kind = "refused" /\ wire'[2].kind = "end"
    BY <2>1 DEF Event
  <2>3. /\ session = "sent" /\ session' = "none" /\ UNCHANGED <<thread, connected>>
    BY <1>4 DEF BrokerRefuses, BrokerUnchanged, flags
  <2>4. OnWire("end")' /\ ~ OnWire("accepted")'
    BY <2>2 DEF OnWire
  <2>5. QED
    BY <1>1, <2>2, <2>3, <2>4 DEF Connection
<1>5. CASE Publish
  <2>1. UNCHANGED <<session, thread, connected>>
    BY <1>5 DEF Publish, BrokerUnchanged, flags
  <2>2. CASE wire' = wire
    BY <2>1, <2>2 DEF Connection, OnWire
  <2>3. ASSUME NEW e, e \in {Loop(published'), Event("malformed")},
               published' \in Nat, wire' = Append(wire, e), session = "subscribed"
        PROVE  Connection'
    <3>1. e \in Wired /\ e.kind \notin {"accepted", "end"}
      BY <2>3 DEF Event, Loop, Wired, Kinds
    <3>2. ~ OnWire("end")
      BY <2>3 DEF Connection
    <3>3. /\ \A i \in DOMAIN wire' : wire'[i].kind = "end" => i = Len(wire')
          /\ \A i \in DOMAIN wire' : wire'[i].kind = "accepted" => i = 1
          /\ \A kind : OnWire(kind)' <=> OnWire(kind) \/ kind = e.kind
      BY <2>3, <3>1, <3>2, AddedToWire
    <3>4. QED
      BY <2>1, <2>3, <3>1, <3>3 DEF Connection
  <2>4. published' \in Nat
    BY <1>5, TypedStep DEF Typed
  <2>5. QED
    BY <1>5, <2>2, <2>3, <2>4 DEF Publish
<1>6. CASE Break
  <2>1. PICK k \in 0..Len(wire) :
           /\ wire' \in Seq(Wired) /\ Len(wire) \in Nat /\ DOMAIN wire = 1..Len(wire)
           /\ Len(wire') = k + 1 /\ DOMAIN wire' = 1..(k + 1)
           /\ \A i \in 1..k : i \in 1..Len(wire) /\ wire'[i] = wire[i]
           /\ wire'[k + 1] = Event("end")
    BY <1>6, Broken
  <2>2. /\ session # "none" /\ session' = "none" /\ UNCHANGED <<thread, connected>>
    BY <1>6 DEF Break, BrokerUnchanged, flags
  <2>3. /\ \A i \in 1..(k + 1) : i \in 1..k \/ i = k + 1
        /\ k + 1 \in 1..(k + 1) /\ Event("end").kind = "end"
    BY <2>1 DEF Event
  <2>4. /\ \A i \in 1..Len(wire) : wire[i].kind # "end"
        /\ \A i \in 1..Len(wire) : wire[i].kind = "accepted" => i = 1
    BY <2>1, <2>2 DEF Connection, OnWire
  <2>5. /\ \A i \in DOMAIN wire' : wire'[i].kind = "end" => i = Len(wire')
        /\ \A i \in DOMAIN wire' : wire'[i].kind = "accepted" => i = 1
        /\ OnWire("end")'
        /\ OnWire("accepted")' => OnWire("accepted")
    BY <2>1, <2>3, <2>4 DEF OnWire
  <2>6. QED
    BY <1>1, <2>2, <2>5 DEF Connection
<1>7. CASE Takes
  <2>1. /\ wire # <<>> /\ wire' = Tail(wire) /\ thread = "idle" /\ session' = session
        /\ OnConnect => Head(wire).kind = "accepted"
        /\ OnMessage => Head(wire).kind = "packet"
        /\ OnDisconnect => Head(wire).kind = "end"
        /\ Ignore => Head(wire).kind \in {"refused", "malformed"}
    BY <1>7, TakesFacts DEF brokerVars
  <2>2. wire # <<>> /\ wire' = Tail(wire)
    BY <2>1
  <2>3. /\ \A i \in DOMAIN wire' : wire'[i].kind = "end" => i = Len(wire')
        /\ \A i \in DOMAIN wire' : wire'[i].kind # "accepted"
        /\ \A kind : OnWire(kind)' => OnWire(kind)
        /\ \A kind : OnWire(kind) /\ Head(wire).kind # kind => OnWire(kind)'
        /\ OnWire(Head(wire).kind)
        /\ Head(wire).kind = "end" => wire' = <<>>
    BY <2>2, LeftOnWire
  <2>4. ~ OnWire("accepted")' /\ session # "sent"
    BY <2>1, <2>3 DEF OnWire, Connection
  <2>5. CASE OnConnect
    <3>1. session \in {"none", "open"}
      BY <1>1, <2>1, <2>3, <2>4, <2>5 DEF Connection, Session
    <3>2. thread' = "subscribing" /\ connected' = TRUE
      BY <2>5 DEF OnConnect
    <3>3. session = "none" => OnWire("end")'
      BY <2>1, <2>3, <2>5 DEF Connection
    <3>4. QED
      BY <2>1, <2>3, <2>4, <3>1, <3>2, <3>3 DEF Connection
  <2>6. CASE Ignore \/ OnMessage
    <3>1. UNCHANGED <<thread, connected>>
      BY <2>6 DEF Ignore, OnMessage, flags
    <3>2. session = "none" => OnWire("end")'
      BY <2>1, <2>3, <2>6 DEF Connection
    <3>3. QED
      BY <2>1, <2>3, <2>4, <3>1, <3>2 DEF Connection
  <2>7. CASE OnDisconnect
    <3>1. wire' = <<>> /\ session = "none" /\ thread' = "disconnecting" /\ connected' = FALSE
      BY <2>1, <2>3, <2>7 DEF OnDisconnect, Connection
    <3>2. QED
      BY <2>1, <2>3, <2>4, <3>1 DEF Connection
  <2>8. QED
    BY <1>7, <2>5, <2>6, <2>7 DEF Takes
<1>8. CASE EndStop
  <2>1. wire' = <<>> /\ session' = "none" /\ connected' = FALSE /\ thread' = "ended"
    BY <1>8 DEF EndStop
  <2>2. QED
    BY <1>2, <2>1 DEF Connection, OnWire
<1>9. CASE Quiet \/ RunReady
  <2>1. /\ wire' = wire
        /\ \A kind : OnWire(kind)' <=> OnWire(kind)
    BY <1>9 DEF Quiet, RunReady, BrokerSubscribes, Connect, Subscribe, Unsubscribed,
                ThreadEnds, Start, BeginStop, OnWire
  <2>2. CASE BrokerSubscribes
    BY <1>1, <2>1, <2>2 DEF BrokerSubscribes, BrokerUnchanged, flags, Connection
  <2>3. CASE Connect
    BY <1>1, <1>2, <2>1, <2>3 DEF Connect, flags, Connection, OnWire
  <2>4. CASE Subscribe
    BY <1>1, <2>1, <2>4 DEF Subscribe, Connection
  <2>5. CASE Unsubscribed \/ ThreadEnds \/ Start \/ BeginStop \/ RunReady
    BY <1>1, <2>1, <2>5 DEF Unsubscribed, ThreadEnds, Start, BeginStop, RunReady,
                            brokerVars, flags, Connection
  <2>6. QED
    BY <1>9, <2>2, <2>3, <2>4, <2>5 DEF Quiet
<1>10. QED
  BY <1>3, <1>4, <1>5, <1>6, <1>7, <1>8, <1>9
     DEF Next, Broker, ThreadStep, Quiet, Takes

\* Between a loss and the next subscription the adapter is not subscribed.
LEMMA FreshStep ==
  ASSUME Typed, Connection, Fresh, Next
  PROVE  Fresh'
<1>1. session \in Session /\ thread \in Thread
  BY DEF Typed
<1>2. CASE BrokerAccepts
  <2>1. session = "sent" /\ session' = "open" /\ UNCHANGED <<thread, subscribed>>
    BY <1>2 DEF BrokerAccepts, BrokerUnchanged, flags
  <2>2. QED
    BY <2>1 DEF Fresh
<1>3. CASE BrokerRefuses
  <2>1. session = "sent" /\ session' = "none" /\ UNCHANGED <<thread, subscribed>>
    BY <1>3 DEF BrokerRefuses, BrokerUnchanged, flags
  <2>2. QED
    BY <2>1 DEF Fresh
<1>4. CASE Publish
  <2>1. UNCHANGED <<session, thread, subscribed>>
    BY <1>4 DEF Publish, BrokerUnchanged, flags
  <2>2. CASE wire' = wire
    BY <2>1, <2>2 DEF Fresh, OnWire
  <2>3. CASE session = "subscribed"
    <3>1. ~ OnWire("accepted")'
      BY <2>1, <2>3, <1>4, ConnectionStep DEF Next, Connection
    <3>2. QED
      BY <2>1, <2>3, <3>1 DEF Fresh
  <2>4. QED
    BY <1>4, <2>2, <2>3 DEF Publish
<1>5. CASE Break
  <2>1. PICK k \in 0..Len(wire) :
           /\ Len(wire) \in Nat /\ DOMAIN wire = 1..Len(wire)
           /\ DOMAIN wire' = 1..(k + 1)
           /\ \A i \in 1..k : i \in 1..Len(wire) /\ wire'[i] = wire[i]
           /\ wire'[k + 1] = Event("end")
    BY <1>5, Broken
  <2>2. session' = "none" /\ UNCHANGED <<thread, subscribed>>
    BY <1>5 DEF Break, BrokerUnchanged, flags
  <2>3. /\ \A i \in 1..(k + 1) : i \in 1..k \/ i = k + 1
        /\ Event("end").kind # "accepted"
    BY <2>1 DEF Event
  <2>4. OnWire("accepted")' => OnWire("accepted")
    BY <2>1, <2>3 DEF OnWire
  <2>5. QED
    BY <2>2, <2>4 DEF Fresh
<1>6. CASE Takes
  <2>1. /\ wire # <<>> /\ wire' = Tail(wire) /\ thread = "idle" /\ session' = session
        /\ OnConnect => Head(wire).kind = "accepted"
    BY <1>6, TakesFacts DEF brokerVars
  <2>2. OnWire(Head(wire).kind) /\ (OnWire("accepted")' => OnWire("accepted"))
    BY <2>1, LeftOnWire
  <2>3. subscribed' = subscribed
    BY <1>6 DEF Takes, OnConnect, Ignore, OnMessage, OnDisconnect, flags
  <2>4. CASE OnConnect
    <3>1. ~ subscribed
      BY <2>1, <2>2, <2>4 DEF Fresh
    <3>2. QED
      BY <2>3, <3>1 DEF Fresh
  <2>5. CASE thread' \in {"idle", "disconnecting"}
    BY <2>1, <2>2, <2>3, <2>5 DEF Fresh
  <2>6. QED
    BY <1>6, <2>1, <2>4, <2>5 DEF Takes, Ignore, OnMessage, OnDisconnect
<1>7. CASE Connect
  <2>1. thread = "waiting" /\ UNCHANGED <<wire, subscribed>>
    BY <1>7 DEF Connect, flags
  <2>2. QED
    BY <2>1 DEF Fresh
<1>8. CASE Subscribe
  <2>1. /\ thread' = "idle" /\ wire' = wire /\ session' # "sent"
        /\ ~ OnWire("accepted")
    BY <1>8 DEF Subscribe, Connection
  <2>2. QED
    BY <2>1 DEF Fresh, OnWire
<1>9. CASE EndStop
  <2>1. subscribed' = FALSE
    BY <1>9 DEF EndStop
  <2>2. QED
    BY <2>1 DEF Fresh
<1>10. CASE BrokerSubscribes \/ Unsubscribed \/ ThreadEnds \/ Start \/ RunReady \/ BeginStop
  BY <1>10 DEF Fresh, OnWire, BrokerSubscribes, Unsubscribed, ThreadEnds, Start, RunReady,
               BeginStop, BrokerUnchanged, brokerVars, flags
<1>11. QED
  BY <1>2, <1>3, <1>4, <1>5, <1>6, <1>7, <1>8, <1>9, <1>10
     DEF Next, Broker, ThreadStep, Takes

\* Nothing of paho's runs any more when stop() is over.
LEMMA StoppedStep ==
  ASSUME Typed, Connection, Stopped, Next
  PROVE  /\ Stopped'
         /\ stop = "over" => UNCHANGED flags /\ ~ connected
         /\ stop = "over" => ready' = ready \/ (ready # <<>> /\ ready' = Tail(ready))
BY DEF Stopped, Next, Broker, BrokerAccepts, BrokerSubscribes, BrokerRefuses, Publish,
       Break, BrokerUnchanged, ThreadStep, Connect, OnConnect, Subscribe, Ignore,
       OnMessage, OnDisconnect, Unsubscribed, Receives, ThreadEnds, Start, RunReady,
       BeginStop, EndStop, flags, loopVars
-----------------------------------------------------------------------------
(* The order of the packets.                                               *)

\* Numbers in rising order followed by a greater one.
LEMMA RisingAppend ==
  ASSUME NEW s \in Seq(Nat), NEW p \in Nat, Rising(s), \A i \in DOMAIN s : s[i] < p
  PROVE  /\ Rising(Append(s, p))
         /\ \A j \in DOMAIN Append(s, p) :
              (\E i \in DOMAIN s : Append(s, p)[j] = s[i]) \/ Append(s, p)[j] = p
         /\ \A i \in DOMAIN s : i \in DOMAIN Append(s, p) /\ Append(s, p)[i] = s[i]
         /\ \E j \in DOMAIN Append(s, p) : Append(s, p)[j] = p
<1> DEFINE t == Append(s, p)
<1>1. /\ Len(s) \in Nat /\ DOMAIN s = 1..Len(s) /\ DOMAIN t = 1..(Len(s) + 1)
      /\ \A i \in 1..Len(s) : t[i] = s[i]
      /\ t[Len(s) + 1] = p
  BY AppendFacts
<1> HIDE DEF t
<1>2. /\ \A i \in 1..(Len(s) + 1) : i \in 1..Len(s) \/ i = Len(s) + 1
      /\ \A i \in 1..Len(s) : i \in 1..(Len(s) + 1)
      /\ Len(s) + 1 \in 1..(Len(s) + 1)
  BY <1>1
<1>3. ASSUME NEW i \in 1..(Len(s) + 1), NEW j \in 1..(Len(s) + 1), i < j
      PROVE  t[i] < t[j]
  <2>1. i \in 1..Len(s) /\ t[i] = s[i]
    BY <1>1, <1>3
  <2>2. CASE j \in 1..Len(s)
    BY <1>1, <1>3, <2>1, <2>2 DEF Rising
  <2>3. CASE j = Len(s) + 1
    BY <1>1, <2>1, <2>3
  <2>4. QED
    BY <1>2, <2>2, <2>3
<1>4. QED
  BY <1>1, <1>2, <1>3 DEF Rising, t

\* Numbers in rising order without the first.
LEMMA RisingTail ==
  ASSUME NEW s \in Seq(Nat), s # <<>>, Rising(s)
  PROVE  /\ Rising(Tail(s))
         /\ \A j \in DOMAIN Tail(s) : Head(s) < Tail(s)[j]
         /\ \A j \in DOMAIN Tail(s) : \E i \in DOMAIN s : Tail(s)[j] = s[i]
         /\ \A i \in DOMAIN s : s[i] = Head(s) \/ \E j \in DOMAIN Tail(s) : Tail(s)[j] = s[i]
         /\ \E i \in DOMAIN s : s[i] = Head(s)
<1> DEFINE t == Tail(s)
<1>1. /\ Len(s) \in Nat \ {0} /\ DOMAIN s = 1..Len(s) /\ Head(s) = s[1]
      /\ DOMAIN t = 1..(Len(s) - 1)
      /\ \A i \in 1..(Len(s) - 1) : i + 1 \in 1..Len(s) /\ t[i] = s[i + 1]
  BY TailFacts
<1> HIDE DEF t
<1>2. 1 \in 1..Len(s) /\ \A i \in 1..(Len(s) - 1) : i \in Nat /\ 1 < i + 1
  BY <1>1
<1>3. \A i, j \in 1..(Len(s) - 1) : i < j => i + 1 < j + 1
  OBVIOUS
<1>4. Rising(t) /\ \A j \in DOMAIN t : s[1] < t[j]
  BY <1>1, <1>2, <1>3 DEF Rising
<1>5. ASSUME NEW i \in 1..Len(s)
      PROVE  s[i] = s[1] \/ \E j \in DOMAIN t : t[j] = s[i]
  <2>1. CASE i # 1
    <3>1. i - 1 \in 1..(Len(s) - 1) /\ (i - 1) + 1 = i
      BY <1>1, <2>1
    <3>2. t[i - 1] = s[i]
      BY <1>1, <3>1
    <3>3. QED
      BY <1>1, <3>1, <3>2
  <2>2. QED
    BY <2>1
<1>6. QED
  BY <1>1, <1>2, <1>4, <1>5 DEF t

\* Packets that stay where they are, or move up together, stay in order.
LEMMA FewerOnWire ==
  ASSUME Typed, Typed', Ordered, NEW d \in Nat, UNCHANGED <<queue, ready>>,
         \A i \in DOMAIN wire' : wire'[i].kind = "packet" =>
           i + d \in DOMAIN wire /\ wire'[i] = wire[i + d]
  PROVE  Ordered'
<1>1. DOMAIN wire = 1..Len(wire) /\ DOMAIN wire' = 1..Len(wire')
      /\ Len(wire) \in Nat /\ Len(wire') \in Nat
  BY DEF Typed
<1>2. \A i, j \in DOMAIN wire' : i < j => i + d < j + d
  BY <1>1
<1>3. Rising(queue)' /\ Rising(ready)' /\ Before(queue, ready)'
  BY DEF Ordered, Rising, Before
<1>4. QED
  BY <1>2, <1>3 DEF Ordered

\* The order holds through every step.
LEMMA OrderedStep ==
  ASSUME Typed, Connection, Ordered, Next
  PROVE  Ordered'
<1>1. Typed'
  BY TypedStep
<1>2. /\ wire \in Seq(Wired) /\ DOMAIN wire = 1..Len(wire) /\ Len(wire) \in Nat
      /\ ready \in Seq(Nat) /\ queue \in Seq(Nat) /\ published \in Nat
      /\ \A i \in DOMAIN wire : wire[i].packet \in Nat /\ wire[i].packet <= published
  <2>1. \A i \in DOMAIN wire : wire[i] \in Wired
    BY ElementOfSeq, LenProperties DEF Typed
  <2>2. QED
    BY <2>1 DEF Typed, Wired
<1>3. CASE UNCHANGED <<queue, ready, wire>>
  BY <1>3 DEF Ordered, Rising, Before
<1>4. ASSUME NEW e \in Wired, e.kind # "packet", wire' = Append(wire, e),
             UNCHANGED <<queue, ready>>
      PROVE  Ordered'
  <2>1. /\ DOMAIN wire' = 1..(Len(wire) + 1)
        /\ \A i \in 1..Len(wire) : wire'[i] = wire[i]
        /\ wire'[Len(wire) + 1] = e
    BY <1>4, Appended
  <2>2. \A i \in DOMAIN wire' : wire'[i].kind = "packet" =>
           i + 0 \in DOMAIN wire /\ wire'[i] = wire[i + 0]
    BY <1>2, <1>4, <2>1
  <2>3. QED
    BY <1>1, <1>4, <2>2, FewerOnWire
<1>5. CASE BrokerAccepts
  <2>1. Event("accepted") \in Wired /\ Event("accepted").kind = "accepted"
    BY DEF Event, Wired, Kinds
  <2>2. QED
    BY <1>4, <1>5, <2>1 DEF BrokerAccepts, BrokerUnchanged, loopVars
<1>6. CASE BrokerRefuses \/ EndStop
  <2>1. \A i \in DOMAIN wire' : wire'[i].kind # "packet"
    <3>1. CASE BrokerRefuses
      <4>1. wire' = <<Event("refused"), Event("end")>>
        BY <3>1, Refused
      <4>2. QED
        BY <4>1 DEF Event
    <3>2. CASE EndStop
      BY <3>2 DEF EndStop
    <3>3. QED
      BY <1>6, <3>1, <3>2
  <2>2. UNCHANGED <<queue, ready>>
    BY <1>6 DEF BrokerRefuses, EndStop, BrokerUnchanged, loopVars
  <2>3. QED
    BY <1>1, <2>1, <2>2, FewerOnWire
<1>7. CASE Break
  <2>1. PICK k \in 0..Len(wire) :
           /\ Len(wire) \in Nat /\ DOMAIN wire = 1..Len(wire)
           /\ DOMAIN wire' = 1..(k + 1)
           /\ \A i \in 1..k : i \in 1..Len(wire) /\ wire'[i] = wire[i]
           /\ wire'[k + 1] = Event("end")
    BY <1>7, Broken
  <2>2. Event("end").kind = "end" /\ \A i \in 1..(k + 1) : i \in 1..k \/ i = k + 1
    BY <2>1 DEF Event
  <2>3. \A i \in DOMAIN wire' : wire'[i].kind = "packet" =>
           i + 0 \in DOMAIN wire /\ wire'[i] = wire[i + 0]
    BY <2>1, <2>2
  <2>4. UNCHANGED <<queue, ready>>
    BY <1>7 DEF Break, BrokerUnchanged, loopVars
  <2>5. QED
    BY <1>1, <2>3, <2>4, FewerOnWire
<1>8. CASE Publish
  <2>1. CASE wire' = Append(wire, Event("malformed"))
    <3>1. Event("malformed") \in Wired /\ Event("malformed").kind = "malformed"
      BY DEF Event, Wired, Kinds
    <3>2. QED
      BY <1>4, <1>8, <2>1, <3>1 DEF Publish, BrokerUnchanged, loopVars
  <2>2. CASE wire' = Append(wire, Loop(published')) /\ published' = published + 1
    <3> DEFINE l == Len(wire)
    <3>1. Loop(published') \in Wired /\ Loop(published').packet = published + 1
      BY <1>2, <2>2 DEF Loop, Wired, Kinds
    <3>2. /\ DOMAIN wire' = 1..(l + 1)
          /\ \A i \in 1..l : wire'[i] = wire[i]
          /\ wire'[l + 1].packet = published + 1
      BY <2>2, <3>1, Appended
    <3>3. UNCHANGED <<queue, ready>>
      BY <1>8 DEF Publish, BrokerUnchanged, loopVars
    <3>4. Rising(queue)' /\ Rising(ready)' /\ Before(queue, ready)'
      BY <3>3 DEF Ordered, Rising, Before
    <3>5. /\ \A i \in DOMAIN queue : queue[i] < published + 1
          /\ \A i \in DOMAIN ready : ready[i] < published + 1
          /\ \A i \in DOMAIN wire : wire[i].packet < published + 1
      <4>1. /\ \A i \in DOMAIN queue : queue[i] \in 1..published
            /\ \A i \in DOMAIN ready : ready[i] \in 1..published
        BY DEF Typed
      <4>2. QED
        BY <1>2, <4>1
    <3> HIDE DEF l
    <3>6. ASSUME NEW j \in DOMAIN wire', wire'[j].kind = "packet"
          PROVE  /\ \A i \in DOMAIN wire' :
                      wire'[i].kind = "packet" /\ i < j => wire'[i].packet < wire'[j].packet
                 /\ \A i \in DOMAIN queue : queue[i] < wire'[j].packet
                 /\ \A i \in DOMAIN ready : ready[i] < wire'[j].packet
      <4>1. l \in Nat /\ DOMAIN wire = 1..l
        BY <1>2 DEF l
      <4>2. CASE j \in 1..l
        <5>1. \A i \in DOMAIN wire' : i < j => i \in 1..l
          BY <3>2, <4>1, <4>2
        <5>2. QED
          BY <3>2, <3>6, <4>1, <4>2, <5>1 DEF Ordered
      <4>3. CASE j = l + 1
        <5>1. \A i \in DOMAIN wire' : i < j => i \in 1..l
          BY <3>2, <4>1, <4>3
        <5>2. QED
          BY <3>2, <3>5, <4>1, <4>3, <5>1
      <4>4. QED
        BY <3>2, <4>1, <4>2, <4>3
    <3>7. QED
      BY <3>3, <3>4, <3>6 DEF Ordered
  <2>3. CASE wire' = wire
    BY <1>3, <1>8, <2>3 DEF Publish, BrokerUnchanged, loopVars
  <2>4. QED
    BY <1>8, <2>1, <2>2, <2>3 DEF Publish
<1>9. CASE Takes
  <2>1. /\ wire # <<>> /\ wire' = Tail(wire) /\ queue' = queue
        /\ OnMessage \/ ready' = ready
        /\ OnMessage => /\ Head(wire).kind = "packet"
                        /\ ready' = Append(ready, Head(wire).packet)
    BY <1>9, TakesFacts
  <2>2. wire # <<>> /\ wire' = Tail(wire)
    BY <2>1
  <2>3. /\ DOMAIN wire' = 1..(Len(wire) - 1)
        /\ \A i \in 1..(Len(wire) - 1) : i + 1 \in DOMAIN wire /\ wire'[i] = wire[i + 1]
        /\ Head(wire) = wire[1] /\ 1 \in DOMAIN wire
    BY <2>2, Taken
  <2>4. CASE ready' = ready
    BY <1>1, <2>1, <2>3, <2>4, FewerOnWire
  <2>5. CASE OnMessage
    <3> DEFINE p == Head(wire).packet
    <3>1. wire[1].kind = "packet" /\ p = wire[1].packet /\ p \in Nat
      BY <1>2, <2>1, <2>3, <2>5
    <3>2. /\ \A i \in DOMAIN queue : queue[i] < p
          /\ \A i \in DOMAIN ready : ready[i] < p
      BY <2>3, <3>1 DEF Ordered
    <3>3. \A j \in DOMAIN wire' : wire'[j].kind = "packet" => p < wire'[j].packet
      <4>1. \A i \in 1..(Len(wire) - 1) : 1 < i + 1
        BY <1>2
      <4>2. QED
        BY <2>3, <3>1, <4>1 DEF Ordered
    <3>4. ready' = Append(ready, p)
      BY <2>1, <2>5
    <3> HIDE DEF p
    <3>5. /\ Rising(ready')
          /\ \A j \in DOMAIN ready' : (\E i \in DOMAIN ready : ready'[j] = ready[i])
                                      \/ ready'[j] = p
      BY <1>2, <3>1, <3>2, <3>4, RisingAppend DEF Ordered
    <3>6. Before(queue, ready')
      BY <3>2, <3>5 DEF Ordered, Before
    <3>7. ASSUME NEW j \in DOMAIN wire', wire'[j].kind = "packet"
          PROVE  /\ \A i \in DOMAIN wire' :
                      wire'[i].kind = "packet" /\ i < j => wire'[i].packet < wire'[j].packet
                 /\ \A i \in DOMAIN queue : queue[i] < wire'[j].packet
                 /\ \A i \in DOMAIN ready' : ready'[i] < wire'[j].packet
      <4>1. wire'[j] = wire[j + 1] /\ j + 1 \in DOMAIN wire
        BY <2>3
      <4>2. \A i \in DOMAIN wire' : i < j => i + 1 < j + 1
        BY <2>3
      <4>3. \A i \in DOMAIN ready : ready[i] < wire'[j].packet
        BY <3>7, <4>1 DEF Ordered
      <4>4. \A i \in DOMAIN ready' : ready'[i] < wire'[j].packet
        BY <3>3, <3>5, <3>7, <4>3
      <4>5. QED
        BY <2>3, <3>7, <4>1, <4>2, <4>4 DEF Ordered
    <3>8. QED
      BY <2>1, <3>5, <3>6, <3>7 DEF Ordered, Rising
  <2>6. QED
    BY <2>1, <2>4, <2>5
<1>10. CASE RunReady
  <2>1. /\ ready # <<>> /\ queue' = Append(queue, Head(ready)) /\ ready' = Tail(ready)
        /\ wire' = wire
    BY <1>10 DEF RunReady
  <2> DEFINE h == Head(ready)
  <2>2. /\ Rising(ready')
        /\ \A j \in DOMAIN ready' : h < ready'[j]
        /\ \A j \in DOMAIN ready' : \E i \in DOMAIN ready : ready'[j] = ready[i]
        /\ \E i \in DOMAIN ready : ready[i] = h
    BY <1>2, <2>1, RisingTail DEF Ordered
  <2>3. h \in Nat
    BY <2>2 DEF Typed
  <2>4. queue' = Append(queue, h)
    BY <2>1
  <2> HIDE DEF h
  <2>5. \A i \in DOMAIN queue : queue[i] < h
    BY <2>2 DEF Ordered, Before
  <2>6. /\ Rising(queue')
        /\ \A j \in DOMAIN queue' : (\E i \in DOMAIN queue : queue'[j] = queue[i])
                                    \/ queue'[j] = h
    BY <1>2, <2>3, <2>4, <2>5, RisingAppend DEF Ordered
  <2>7. Before(queue', ready')
    BY <2>2, <2>6 DEF Ordered, Before
  <2>8. \A j \in DOMAIN wire : wire[j].kind = "packet" =>
          /\ \A i \in DOMAIN queue' : queue'[i] < wire[j].packet
          /\ \A i \in DOMAIN ready' : ready'[i] < wire[j].packet
    BY <2>2, <2>6 DEF Ordered
  <2>9. QED
    BY <2>1, <2>2, <2>6, <2>7, <2>8 DEF Ordered, Rising, Before
<1>11. CASE Quiet
  BY <1>3, <1>11 DEF Quiet, BrokerSubscribes, Connect, Subscribe, Unsubscribed, ThreadEnds,
                     Start, BeginStop, BrokerUnchanged, loopVars
<1>12. QED
  BY <1>5, <1>6, <1>7, <1>8, <1>9, <1>10, <1>11
     DEF Next, Broker, ThreadStep, Quiet, Takes

\* While a connection stands nothing of it is lost on the way.
LEMMA CompleteStep ==
  ASSUME Typed, Connection, Ordered, Complete, Next
  PROVE  Complete'
<1>1. /\ wire \in Seq(Wired) /\ DOMAIN wire = 1..Len(wire) /\ Len(wire) \in Nat
      /\ ready \in Seq(Nat) /\ queue \in Seq(Nat) /\ published \in Nat /\ from \in Nat
      /\ \A i \in DOMAIN wire : wire[i].packet \in Nat
  <2>1. \A i \in DOMAIN wire : wire[i] \in Wired
    BY ElementOfSeq, LenProperties DEF Typed
  <2>2. QED
    BY <2>1 DEF Typed, Wired
<1>2. CASE session' # "subscribed"
  BY <1>2 DEF Complete
<1>3. CASE BrokerSubscribes
  <2>1. from' = published' /\ \A p \in (from' + 1)..from' : FALSE
    BY <1>1, <1>3 DEF BrokerSubscribes
  <2>2. QED
    BY <2>1 DEF Complete
<1>4. ASSUME UNCHANGED <<session, from, published>>,
             \A p : Underway(p) => Underway(p)'
      PROVE  Complete'
  BY <1>4 DEF Complete
<1>5. CASE UNCHANGED <<session, from, published, queue, ready, wire>>
  BY <1>4, <1>5 DEF Underway
<1>6. CASE Publish
  <2>1. UNCHANGED <<session, from, queue, ready>>
    BY <1>6 DEF Publish, BrokerUnchanged, loopVars
  <2>2. ASSUME NEW e \in Wired, wire' = Append(wire, e)
        PROVE  /\ \A p : Underway(p) => Underway(p)'
               /\ \E i \in DOMAIN wire' : wire'[i] = e
    <3>1. /\ DOMAIN wire = 1..Len(wire) /\ DOMAIN wire' = 1..(Len(wire) + 1)
          /\ \A i \in 1..Len(wire) : wire'[i] = wire[i]
          /\ wire'[Len(wire) + 1] = e
      BY <2>2, Appended
    <3>2. Len(wire) + 1 \in DOMAIN wire' /\ \A i \in DOMAIN wire : i \in DOMAIN wire'
      BY <1>1, <3>1
    <3>3. \A p : Underway(p) => Underway(p)'
      BY <2>1, <3>1, <3>2 DEF Underway
    <3>4. \E i \in DOMAIN wire' : wire'[i] = e
      BY <3>1, <3>2
    <3>5. QED
      BY <3>3, <3>4
  <2>3. CASE wire' = Append(wire, Event("malformed")) /\ published' = published
    <3>1. Event("malformed") \in Wired
      BY DEF Event, Wired, Kinds
    <3>2. \A p : Underway(p) => Underway(p)'
      BY <2>2, <2>3, <3>1
    <3>3. QED
      BY <1>4, <2>1, <2>3, <3>2
  <2>4. CASE wire' = Append(wire, Loop(published')) /\ published' = published + 1
    <3> DEFINE n == published + 1
    <3>1. n \in Nat /\ wire' = Append(wire, Loop(n)) /\ published' = n
      BY <1>1, <2>4
    <3>2. \A p \in (from + 1)..n : p \in (from + 1)..published \/ p = n
      BY <1>1
    <3> HIDE DEF n
    <3>3. Loop(n) \in Wired /\ Loop(n).kind = "packet" /\ Loop(n).packet = n
      BY <3>1 DEF Loop, Wired, Kinds
    <3>4. /\ \A p : Underway(p) => Underway(p)'
          /\ \E i \in DOMAIN wire' : wire'[i].kind = "packet" /\ wire'[i].packet = n
      BY <2>2, <3>1, <3>3
    <3>5. ASSUME NEW p, p = n PROVE Underway(p)'
      BY <3>4, <3>5 DEF Underway
    <3>6. QED
      BY <2>1, <3>1, <3>2, <3>4, <3>5 DEF Complete
  <2>5. CASE session # "subscribed"
    BY <1>2, <2>1, <2>5
  <2>6. QED
    BY <1>6, <2>3, <2>4, <2>5 DEF Publish
<1>7. CASE Takes
  <2>1. /\ wire # <<>> /\ wire' = Tail(wire) /\ queue' = queue
        /\ UNCHANGED <<session, from, published>>
        /\ OnMessage \/ ready' = ready
        /\ OnConnect => Head(wire).kind = "accepted"
        /\ OnMessage => /\ Head(wire).kind = "packet"
                        /\ ready' = Append(ready, Head(wire).packet)
        /\ OnDisconnect => Head(wire).kind = "end"
        /\ Ignore => Head(wire).kind \in {"refused", "malformed"}
    BY <1>7, TakesFacts DEF brokerVars
  <2>2. wire # <<>> /\ wire' = Tail(wire)
    BY <2>1
  <2>3. /\ Len(wire) \in Nat \ {0}
        /\ DOMAIN wire' = 1..(Len(wire) - 1)
        /\ \A i \in 1..(Len(wire) - 1) : i + 1 \in DOMAIN wire /\ wire'[i] = wire[i + 1]
        /\ Head(wire) = wire[1] /\ 1 \in DOMAIN wire
    BY <2>2, Taken
  <2>4. ASSUME NEW i \in DOMAIN wire, i # 1
        PROVE  \E j \in DOMAIN wire' : wire'[j] = wire[i]
    <3>1. i - 1 \in 1..(Len(wire) - 1) /\ (i - 1) + 1 = i
      BY <1>1, <2>3, <2>4
    <3>2. QED
      BY <2>3, <3>1
  <2>5. \/ Head(wire).kind # "packet" /\ ready' = ready
        \/ Head(wire).kind = "packet" /\ ready' = Append(ready, Head(wire).packet)
    BY <1>7, <2>1 DEF Takes
  <2>6. CASE Head(wire).kind # "packet" /\ ready' = ready
    <3>1. \A p : Underway(p) => Underway(p)'
      BY <2>1, <2>3, <2>4, <2>6 DEF Underway
    <3>2. QED
      BY <1>4, <2>1, <3>1
  <2>7. CASE Head(wire).kind = "packet" /\ ready' = Append(ready, Head(wire).packet)
    <3> DEFINE h == Head(wire).packet
    <3>1. h = wire[1].packet /\ h \in Nat
      BY <1>1, <2>3
    <3>2. ready' = Append(ready, h)
      BY <2>7
    <3> HIDE DEF h
    <3>3. \A p : (\E i \in DOMAIN ready' : ready'[i] = p)
                   <=> (p = h \/ \E i \in DOMAIN ready : ready[i] = p)
      <4>1. /\ DOMAIN ready = 1..Len(ready) /\ DOMAIN ready' = 1..(Len(ready) + 1)
            /\ \A i \in 1..Len(ready) : ready'[i] = ready[i]
            /\ ready'[Len(ready) + 1] = h /\ Len(ready) \in Nat
        BY <1>1, <3>1, <3>2, AppendFacts
      <4>2. /\ \A i \in 1..(Len(ready) + 1) : i \in 1..Len(ready) \/ i = Len(ready) + 1
            /\ \A i \in 1..Len(ready) : i \in 1..(Len(ready) + 1)
            /\ Len(ready) + 1 \in 1..(Len(ready) + 1)
        BY <4>1
      <4>3. QED
        BY <4>1, <4>2
    <3>4. ASSUME NEW p, Underway(p) PROVE Underway(p)'
      <4>1. CASE \E i \in DOMAIN queue : queue[i] = p
        BY <2>1, <4>1 DEF Underway
      <4>2. CASE p = h \/ \E i \in DOMAIN ready : ready[i] = p
        BY <3>3, <4>2 DEF Underway
      <4>3. ASSUME NEW i \in DOMAIN wire, wire[i].kind = "packet", wire[i].packet = p, i # 1
            PROVE  Underway(p)'
        BY <2>4, <4>3 DEF Underway
      <4>4. QED
        BY <3>1, <3>4, <4>1, <4>2, <4>3 DEF Underway
    <3>5. QED
      BY <1>4, <2>1, <3>4
  <2>8. QED
    BY <2>5, <2>6, <2>7
<1>8. CASE RunReady
  <2>1. /\ ready # <<>> /\ queue' = Append(queue, Head(ready)) /\ ready' = Tail(ready)
        /\ UNCHANGED <<session, from, published, wire>>
    BY <1>8 DEF RunReady, brokerVars
  <2> DEFINE h == Head(ready)
  <2>2. /\ \A i \in DOMAIN ready : ready[i] = h \/ \E j \in DOMAIN ready' : ready'[j] = ready[i]
        /\ h \in Nat
        /\ \A i \in DOMAIN queue : queue[i] < h
    <3>1. \E i \in DOMAIN ready : ready[i] = h
      BY <1>1, <2>1, RisingTail DEF Ordered
    <3>2. h \in Nat
      BY <3>1 DEF Typed
    <3>3. \A i \in DOMAIN queue : queue[i] < h
      BY <3>1 DEF Ordered, Before
    <3>4. QED
      BY <1>1, <2>1, <3>2, <3>3, RisingTail DEF Ordered
  <2>3. queue' = Append(queue, h)
    BY <2>1
  <2> HIDE DEF h
  <2>4. /\ \A i \in DOMAIN queue : i \in DOMAIN queue' /\ queue'[i] = queue[i]
        /\ \E j \in DOMAIN queue' : queue'[j] = h
    BY <1>1, <2>2, <2>3, RisingAppend DEF Ordered
  <2>5. \A p : Underway(p) => Underway(p)'
    BY <2>1, <2>2, <2>4 DEF Underway
  <2>6. QED
    BY <1>4, <2>1, <2>5
<1>9. CASE \/ BrokerAccepts \/ BrokerRefuses \/ Break \/ EndStop
           \/ Connect \/ Subscribe \/ Unsubscribed \/ ThreadEnds \/ Start \/ BeginStop
  <2>1. \/ session' # "subscribed"
        \/ UNCHANGED <<session, from, published, queue, ready, wire>>
    BY <1>9 DEF BrokerAccepts, BrokerRefuses, Break, EndStop, Connect, Subscribe,
                Unsubscribed, ThreadEnds, Start, BeginStop, BrokerUnchanged,
                brokerVars, loopVars
  <2>2. QED
    BY <1>2, <1>5, <2>1
<1>10. QED
  BY <1>3, <1>6, <1>7, <1>8, <1>9 DEF Next, Broker, ThreadStep, Takes
-----------------------------------------------------------------------------
(* The theorems.                                                           *)

\* The invariant the theorems rest on.
THEOREM FeedInvariant == Spec => []FeedInv
<1>1. Init => FeedInv
  <2> SUFFICES ASSUME Init PROVE FeedInv
    OBVIOUS
  <2>1. <<>> \in Seq(Wired) /\ <<>> \in Seq(Nat) /\ DOMAIN <<>> = {}
    OBVIOUS
  <2>2. Typed
    <3>1. published \in 0..MaxPackets /\ losses \in 0..MaxLoss /\ from \in 0..published
      BY MQTTAssumption DEF Init
    <3>2. QED
      BY <2>1, <3>1 DEF Init, Typed, Session, Thread
  <2>3. Connection /\ Fresh
    BY <2>1 DEF Init, Connection, Fresh, OnWire
  <2>4. Stopped /\ Ordered /\ Complete
    BY <2>1 DEF Init, Stopped, Ordered, Complete, Rising, Before
  <2>5. QED
    BY <2>2, <2>3, <2>4 DEF FeedInv
<1>2. FeedInv /\ [Next]_vars => FeedInv'
  <2> SUFFICES ASSUME FeedInv, [Next]_vars PROVE FeedInv'
    OBVIOUS
  <2>1. CASE Next
    BY <2>1, TypedStep, ConnectionStep, FreshStep, StoppedStep, OrderedStep, CompleteStep DEF FeedInv
  <2>2. CASE UNCHANGED vars
    <3> USE <2>2 DEF FeedInv, vars, brokerVars, flags, loopVars
    <3>1. Typed'
      BY DEF Typed
    <3>2. Connection' /\ Fresh' /\ Stopped'
      BY DEF Connection, Fresh, Stopped, OnWire
    <3>3. Ordered' /\ Complete'
      BY DEF Ordered, Rising, Before, Complete, Underway
    <3>4. QED
      BY <3>1, <3>2, <3>3
  <2>3. QED
    BY <2>1, <2>2
<1>3. QED
  BY <1>1, <1>2, PTL DEF Spec

\* Every variable stays in its range; what is handed over was published.
THEOREM MQTTTypeCorrect == Spec => []MQTTTypeOK
<1>1. Typed => MQTTTypeOK
  <2> SUFFICES ASSUME Typed PROVE MQTTTypeOK
    OBVIOUS
  <2>1. \A i \in DOMAIN wire : wire[i] \in Wired
    BY ElementOfSeq, LenProperties DEF Typed
  <2>2. published \in Nat
    BY MQTTAssumption DEF Typed
  <2>3. \A i \in DOMAIN wire : wire[i] \in [kind : Kinds, packet : 0..published]
    BY <2>1, <2>2 DEF Typed, Wired
  <2>4. QED
    BY <2>3 DEF Typed, MQTTTypeOK, Kinds, Range
<1>2. FeedInv => MQTTTypeOK
  BY <1>1 DEF FeedInv
<1>3. QED
  BY <1>2, FeedInvariant, PTL

\* Two rising sequences, one before the other, make one.
LEMMA RisingConcat ==
  ASSUME NEW s \in Seq(Nat), NEW t \in Seq(Nat), Rising(s), Rising(t), Before(s, t)
  PROVE  /\ s \o t \in Seq(Nat) /\ Rising(s \o t)
         /\ \A i \in DOMAIN (s \o t) :
              \/ \E j \in DOMAIN s : (s \o t)[i] = s[j]
              \/ \E j \in DOMAIN t : (s \o t)[i] = t[j]
         /\ \A j \in DOMAIN s : \E i \in DOMAIN (s \o t) : (s \o t)[i] = s[j]
         /\ \A j \in DOMAIN t : \E i \in DOMAIN (s \o t) : (s \o t)[i] = t[j]
<1> DEFINE u == s \o t
           m == Len(s)
           n == Len(t)
<1>1. /\ u \in Seq(Nat) /\ Len(u) = m + n /\ m \in Nat /\ n \in Nat
      /\ \A i \in 1..(m + n) : u[i] = IF i <= m THEN s[i] ELSE t[i - m]
      /\ DOMAIN s = 1..m /\ DOMAIN t = 1..n
  BY ConcatProperties, LenProperties
<1> HIDE DEF u
<1>2. DOMAIN u = 1..(m + n)
  BY <1>1, LenProperties
<1> HIDE DEF m, n
<1>3. ASSUME NEW i \in 1..(m + n)
      PROVE  \/ i \in 1..m /\ u[i] = s[i]
             \/ i > m /\ i - m \in 1..n /\ u[i] = t[i - m]
  BY <1>1
<1>4. /\ \A j \in 1..m : j \in 1..(m + n) /\ u[j] = s[j]
      /\ \A j \in 1..n : m + j \in 1..(m + n) /\ u[m + j] = t[j]
  <2>1. ASSUME NEW j \in 1..n
        PROVE  m + j \in 1..(m + n) /\ u[m + j] = t[j]
    <3>1. m + j \in 1..(m + n) /\ ~ (m + j <= m) /\ (m + j) - m = j
      BY <1>1
    <3>2. QED
      BY <1>1, <3>1
  <2>2. QED
    BY <1>1, <2>1
<1>5. ASSUME NEW i \in 1..(m + n), NEW j \in 1..(m + n), i < j
      PROVE  u[i] < u[j]
  <2>1. CASE j \in 1..m
    <3>1. i \in 1..m
      BY <1>1, <1>5, <2>1
    <3>2. QED
      BY <1>1, <1>4, <1>5, <2>1, <3>1 DEF Rising
  <2>2. CASE i \in 1..m /\ j \notin 1..m
    <3>1. u[i] = s[i] /\ j - m \in 1..n /\ u[j] = t[j - m]
      BY <1>3, <1>4, <2>2
    <3>2. QED
      BY <1>1, <2>2, <3>1 DEF Before
  <2>3. CASE i \notin 1..m
    <3>1. j \notin 1..m /\ i - m < j - m
      BY <1>1, <1>5, <2>3
    <3>2. /\ i - m \in 1..n /\ u[i] = t[i - m]
          /\ j - m \in 1..n /\ u[j] = t[j - m]
      BY <1>3, <2>3, <3>1
    <3>3. QED
      BY <1>1, <3>1, <3>2 DEF Rising
  <2>4. QED
    BY <2>1, <2>2, <2>3
<1>6. QED
  BY <1>1, <1>2, <1>3, <1>4, <1>5 DEF Rising, u

\* Of what is published while a connection stands the emitter's queue gets
\* everything, in order and once; of all else nothing twice or out of order.
THEOREM PacketsArriveInOrder == Spec => []PacketsArrive
<1>1. FeedInv => PacketsArrive
  <2> SUFFICES ASSUME FeedInv PROVE PacketsArrive
    OBVIOUS
  <2> DEFINE q == [i \in DOMAIN wire |-> wire[i].packet]
             I == {i \in DOMAIN q : q[i] \notin {0}}
             t == KeptAt(q, I)
             s == queue \o ready
  <2>1. /\ wire \in Seq(Wired) /\ DOMAIN wire = 1..Len(wire) /\ Len(wire) \in Nat
        /\ ready \in Seq(Nat) /\ queue \in Seq(Nat) /\ published \in Nat
        /\ \A i \in DOMAIN wire : wire[i].packet \in Nat
        /\ \A i \in DOMAIN wire : wire[i].packet = 0 <=> wire[i].kind # "packet"
    <3>1. \A i \in DOMAIN wire : wire[i] \in Wired
      BY ElementOfSeq, LenProperties DEF FeedInv, Typed
    <3>2. QED
      BY <3>1 DEF FeedInv, Typed, Wired
  <2>2. q \in Seq(Nat) /\ DOMAIN q = DOMAIN wire
    <3>1. q \in [1..Len(wire) -> Nat] /\ DOMAIN q = DOMAIN wire
      BY <2>1
    <3>2. QED
      BY <2>1, <3>1
  <2>3. I = {i \in DOMAIN wire : wire[i].kind = "packet"} /\ I \in SUBSET DOMAIN q
    BY <2>1, <2>2
  <2> HIDE DEF I
  <2>4. /\ t \in Seq(Nat) /\ DOMAIN t = 1..Len(t)
        /\ \A n \in DOMAIN t : \E i \in I : t[n] = q[i]
        /\ \A i \in I : \E n \in DOMAIN t : t[n] = q[i]
        /\ \A m, n \in DOMAIN t : m < n => \E i, k \in I : i < k /\ t[m] = q[i] /\ t[n] = q[k]
    <3>1. q \in Seq(Nat) /\ I \in SUBSET DOMAIN q
      BY <2>2, <2>3
    <3> HIDE DEF q
    <3>2. /\ t \in Seq(Nat) /\ DOMAIN t = 1..Len(t)
          /\ \A n \in DOMAIN t : \E i \in I : t[n] = q[i]
          /\ \A i \in I : \E n \in DOMAIN t : t[n] = q[i]
      BY <3>1, KeptAtFacts
    <3>3. \A m, n \in DOMAIN t : m < n => \E i, k \in I : i < k /\ t[m] = q[i] /\ t[n] = q[k]
      BY <3>1, KeptAtInOrder
    <3>4. QED
      BY <3>2, <3>3
  <2>5. \A i \in I : q[i] = wire[i].packet /\ i \in DOMAIN wire /\ wire[i].kind = "packet"
    BY <2>2, <2>3
  <2>6. Pipeline = s \o t
    BY DEF Pipeline, Without, I
  <2> HIDE DEF q, t
  <2>7. Rising(t) /\ Before(queue, t) /\ Before(ready, t)
    <3>1. ASSUME NEW m \in DOMAIN t, NEW n \in DOMAIN t, m < n
          PROVE  t[m] < t[n]
      <4>1. PICK i \in I, k \in I : i < k /\ t[m] = q[i] /\ t[n] = q[k]
        BY <2>4, <3>1
      <4>2. QED
        BY <2>5, <4>1 DEF FeedInv, Ordered
    <3>2. ASSUME NEW n \in DOMAIN t
          PROVE  /\ \A i \in DOMAIN queue : queue[i] < t[n]
                 /\ \A i \in DOMAIN ready : ready[i] < t[n]
      <4>1. PICK i \in I : t[n] = q[i]
        BY <2>4
      <4>2. QED
        BY <2>5, <4>1 DEF FeedInv, Ordered
    <3>3. QED
      BY <3>1, <3>2 DEF Rising, Before
  <2>8. /\ s \in Seq(Nat) /\ Rising(s)
        /\ \A i \in DOMAIN s : \/ \E j \in DOMAIN queue : s[i] = queue[j]
                               \/ \E j \in DOMAIN ready : s[i] = ready[j]
        /\ \A j \in DOMAIN queue : \E i \in DOMAIN s : s[i] = queue[j]
        /\ \A j \in DOMAIN ready : \E i \in DOMAIN s : s[i] = ready[j]
    BY <2>1, RisingConcat DEF FeedInv, Ordered
  <2> HIDE DEF s
  <2>9. Before(s, t)
    BY <2>7, <2>8 DEF Before
  <2> DEFINE u == s \o t
  <2>10. /\ Rising(u)
         /\ \A j \in DOMAIN s : \E i \in DOMAIN u : u[i] = s[j]
         /\ \A j \in DOMAIN t : \E i \in DOMAIN u : u[i] = t[j]
    BY <2>4, <2>7, <2>8, <2>9, RisingConcat
  <2> HIDE DEF u
  <2>11. \A p : Underway(p) => \E i \in DOMAIN u : u[i] = p
    <3> SUFFICES ASSUME NEW p, Underway(p) PROVE \E i \in DOMAIN u : u[i] = p
      OBVIOUS
    <3>1. (\E j \in DOMAIN s : s[j] = p) \/ (\E j \in DOMAIN t : t[j] = p)
      BY <2>3, <2>4, <2>5, <2>8 DEF Underway
    <3>2. QED
      BY <2>10, <3>1
  <2>12. Pipeline = u
    BY <2>6 DEF u
  <2>13. session = "subscribed" => (from + 1)..published \subseteq Range(Pipeline)
    BY <2>11, <2>12 DEF FeedInv, Complete, Range
  <2>14. QED
    BY <2>10, <2>12, <2>13 DEF PacketsArrive, Rising
<1>2. QED
  BY <1>1, FeedInvariant, PTL

\* Readiness says "ok" of a subscribed connection only, unless its end has
\* not come to the adapter's notice; and never "unhealthy" for the broker.
THEOREM ReadinessTellsTruth == Spec => []ReadinessIsTrue
<1>1. FeedInv => ReadinessIsTrue
  <2> SUFFICES ASSUME FeedInv, NEW upstream \in Status
               PROVE  /\ Readiness(upstream).status = "ok" =>
                           /\ upstream = "ok"
                           /\ \/ session \in {"asked", "subscribed"}
                              \/ \E i \in DOMAIN wire : wire[i].kind = "end"
                              \/ thread = "ended"
                      /\ Readiness(upstream).code = 503 <=> upstream = "unhealthy"
    BY DEF ReadinessIsTrue
  <2>1. Range(<<Probe, upstream>>) = {Probe, upstream}
    BY DEF Range
  <2>2. Probe \in {"ok", "warning"} /\ (Probe = "ok" <=> connected /\ subscribed)
    BY DEF Probe, FeedInv, Typed
  <2>3. Readiness(upstream) =
          IF upstream = "unhealthy" THEN [code |-> 503, status |-> "unhealthy"]
          ELSE IF upstream = "warning" \/ Probe = "warning"
               THEN [code |-> 200, status |-> "degraded"]
               ELSE [code |-> 200, status |-> "ok"]
    <3>1. /\ "unhealthy" \in {Probe, upstream} <=> upstream = "unhealthy"
          /\ "warning" \in {Probe, upstream} <=> upstream = "warning" \/ Probe = "warning"
      BY <2>2
    <3>2. QED
      BY <2>1, <3>1 DEF Readiness, Aggregate
  <2>4. connected /\ subscribed => \/ session \in {"asked", "subscribed"}
                                   \/ \E i \in DOMAIN wire : wire[i].kind = "end"
                                   \/ thread = "ended"
    BY DEF FeedInv, Typed, Session, Thread, Connection, Fresh, OnWire
  <2>5. CASE upstream = "unhealthy"
    <3>1. Readiness(upstream) = [code |-> 503, status |-> "unhealthy"]
      BY <2>3, <2>5
    <3>2. QED
      BY <2>5, <3>1
  <2>6. CASE upstream # "unhealthy" /\ (upstream = "warning" \/ Probe = "warning")
    <3>1. Readiness(upstream) = [code |-> 200, status |-> "degraded"]
      BY <2>3, <2>6
    <3>2. QED
      BY <2>6, <3>1
  <2>7. CASE upstream \notin {"unhealthy", "warning"} /\ Probe # "warning"
    <3>1. Readiness(upstream) = [code |-> 200, status |-> "ok"]
      BY <2>3, <2>7
    <3>2. upstream = "ok" /\ connected /\ subscribed
      BY <2>2, <2>7 DEF Status
    <3>3. QED
      BY <2>4, <3>1, <3>2
  <2>8. QED
    BY <2>5, <2>6, <2>7
<1>2. QED
  BY <1>1, FeedInvariant, PTL

\* When stop() is over nothing more is handed over.
THEOREM QuietAfterStop == Spec => StoppedIsQuiet
<1>1. FeedInv /\ [Next]_vars =>
        [stop = "over" =>
           /\ UNCHANGED flags /\ ~ connected
           /\ \E k \in 0..1 : ready' = SubSeq(ready, k + 1, Len(ready))]_vars
  <2> SUFFICES ASSUME FeedInv, Next, stop = "over"
               PROVE  /\ UNCHANGED flags /\ ~ connected
                      /\ \E k \in 0..1 : ready' = SubSeq(ready, k + 1, Len(ready))
    OBVIOUS
  <2>1. /\ UNCHANGED flags /\ ~ connected
        /\ ready' = ready \/ (ready # <<>> /\ ready' = Tail(ready))
    BY StoppedStep DEF FeedInv
  <2>2. ready \in Seq(Nat) /\ Len(ready) \in Nat
    BY DEF FeedInv, Typed
  <2>3. SubSeq(ready, 1, Len(ready)) = ready
    BY <2>2
  <2>4. Tail(ready) = SubSeq(ready, 2, Len(ready))
    BY <2>2
  <2>5. 0 + 1 = 1 /\ 1 + 1 = 2 /\ 0 \in 0..1 /\ 1 \in 0..1
    OBVIOUS
  <2>6. QED
    BY <2>1, <2>3, <2>4, <2>5
<1>2. QED
  BY <1>1, FeedInvariant, PTL DEF Spec, StoppedIsQuiet
=============================================================================
