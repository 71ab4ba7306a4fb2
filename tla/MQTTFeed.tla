------------------------------ MODULE MQTTFeed ------------------------------
(***************************************************************************)
(* MQTTAdapter (adapters/mqtt.py) and what the readiness endpoint says of  *)
(* it (health.py).  Two threads: paho's runs the callbacks, one after the  *)
(* other; the event loop's runs stop(), the probes and what the callbacks  *)
(* hand over by call_soon_threadsafe.  The flags are read and written by   *)
(* both without a lock, so a callback that writes two of them is two steps.*)
(*                                                                         *)
(* The broker and paho are external: a clean session, so that a broker     *)
(* forgets a subscription with its connection; a reconnection after every  *)
(* loss; a thread that ends when loop_stop() asks it to.                   *)
(***************************************************************************)
EXTENDS Functions, KeptPart

CONSTANTS MaxPackets, \* bound on the packets published
          MaxLoss     \* bound on refused, failed and lost connections

ASSUME MQTTAssumption == MaxPackets \in Nat /\ MaxLoss \in Nat

VARIABLES published,  \* the packets published on the topic, numbered from 1
          losses,     \* refused, failed and lost connections
          session,    \* the connection as the broker sees it
          from,       \* published when the broker subscribed the connection
          wire,       \* what is on its way to paho
          thread,     \* where paho's thread is
          terminate,  \* loop_stop() has told it to end
          connected,  \* _state.connected
          subscribed, \* _state.subscribed
          ready,      \* the calls handed over to the event loop
          queue,      \* the packets put on the emitter's queue
          stop        \* stop() is "ahead", "joining" the thread, or "over"

brokerVars == <<published, losses, session, from>>
flags == <<connected, subscribed>>
loopVars == <<queue, stop>>
vars == <<brokerVars, wire, thread, terminate, flags, ready, loopVars>>

\* A connection is "sent" (CONNECT), "open", "asked" (SUBSCRIBE), "subscribed".
Session == {"none", "sent", "open", "asked", "subscribed"}
Thread == {"none", "waiting", "idle", "subscribing", "disconnecting", "ended"}

Event(kind) == [kind |-> kind, packet |-> 0]
Loop(p) == [kind |-> "packet", packet |-> p]

Init ==
  /\ published = 0 /\ losses = 0 /\ session = "none" /\ from = 0
  /\ wire = <<>>
  /\ thread = "none" /\ terminate = FALSE
  /\ connected = FALSE /\ subscribed = FALSE
  /\ ready = <<>>
  /\ queue = <<>> /\ stop = "ahead"
-----------------------------------------------------------------------------
(* The broker and the network.                                             *)

BrokerUnchanged == UNCHANGED <<thread, terminate, flags, ready, loopVars>>

\* CONNACK, with a return code of zero.
BrokerAccepts ==
  /\ session = "sent"
  /\ session' = "open"
  /\ wire' = Append(wire, Event("accepted"))
  /\ UNCHANGED <<published, losses, from>>
  /\ BrokerUnchanged

\* CONNACK with another return code, and the end of the connection.
BrokerRefuses ==
  /\ session = "sent"
  /\ losses < MaxLoss
  /\ losses' = losses + 1
  /\ session' = "none"
  /\ wire' = wire \o <<Event("refused"), Event("end")>>
  /\ UNCHANGED <<published, from>>
  /\ BrokerUnchanged

BrokerSubscribes ==
  /\ session = "asked"
  /\ session' = "subscribed"
  /\ from' = published
  /\ UNCHANGED <<published, losses, wire>>
  /\ BrokerUnchanged

\* weewx publishes a packet; or somebody publishes what is no JSON object.
Publish ==
  /\ published < MaxPackets
  /\ \/ /\ published' = published + 1
        /\ wire' = IF session = "subscribed"
                   THEN Append(wire, Loop(published')) ELSE wire
     \/ /\ session = "subscribed"
        /\ wire' = Append(wire, Event("malformed"))
        /\ \A i \in DOMAIN wire : wire[i].kind # "malformed"
        /\ UNCHANGED published
  /\ UNCHANGED <<losses, session, from>>
  /\ BrokerUnchanged

\* The connection breaks, with the last part of what was on its way.
Break ==
  /\ session # "none"
  /\ losses < MaxLoss
  /\ losses' = losses + 1
  /\ session' = "none"
  /\ \E k \in 0..Len(wire) : wire' = Append(SubSeq(wire, 1, k), Event("end"))
  /\ UNCHANGED <<published, from>>
  /\ BrokerUnchanged
-----------------------------------------------------------------------------
(* The thread of paho.                                                     *)

\* reconnect() after the delay.
Connect ==
  /\ thread = "waiting" /\ ~terminate
  /\ \/ thread' = "idle" /\ session' = "sent" /\ UNCHANGED losses
     \/ losses < MaxLoss /\ losses' = losses + 1 /\ UNCHANGED <<thread, session>>
  /\ UNCHANGED <<published, from, wire, terminate, flags, ready, loopVars>>

Receives(kind) == thread = "idle" /\ wire # <<>> /\ Head(wire).kind = kind

\* _on_connect() with a return code of zero, up to its call of subscribe().
OnConnect ==
  /\ Receives("accepted")
  /\ wire' = Tail(wire)
  /\ connected' = TRUE
  /\ thread' = "subscribing"
  /\ UNCHANGED <<brokerVars, terminate, subscribed, ready, loopVars>>

\* Faulty variant of Subscribe: the broker is thought to remember.
SubscribeOnce ==
  /\ thread = "subscribing"
  /\ session' = IF session = "open" /\ from = 0 THEN "asked" ELSE session
  /\ subscribed' = TRUE
  /\ thread' = "idle"
  /\ UNCHANGED <<published, losses, from, wire, terminate, connected, ready, loopVars>>

Subscribe ==
  /\ thread = "subscribing"
  /\ session' = IF session = "open" THEN "asked" ELSE session
  /\ subscribed' = TRUE
  /\ thread' = "idle"
  /\ UNCHANGED <<published, losses, from, wire, terminate, connected, ready, loopVars>>

\* Faulty variant of Ignore: the payload is handed over whatever it is.
IgnoreNothing ==
  /\ Receives("refused") \/ Receives("malformed")
  /\ wire' = Tail(wire)
  /\ ready' = Append(ready, Head(wire).packet)
  /\ UNCHANGED <<brokerVars, thread, terminate, flags, loopVars>>

\* _on_connect() with another return code; a payload that is no JSON object.
Ignore ==
  /\ Receives("refused") \/ Receives("malformed")
  /\ wire' = Tail(wire)
  /\ UNCHANGED <<brokerVars, thread, terminate, flags, ready, loopVars>>

\* Faulty variant of OnMessage: packets are dropped while stop() waits.
OnMessageUnlessStopping ==
  /\ Receives("packet")
  /\ wire' = Tail(wire)
  /\ ready' = IF terminate THEN ready ELSE Append(ready, Head(wire).packet)
  /\ UNCHANGED <<brokerVars, thread, terminate, flags, loopVars>>

OnMessage ==
  /\ Receives("packet")
  /\ wire' = Tail(wire)
  /\ ready' = Append(ready, Head(wire).packet)
  /\ UNCHANGED <<brokerVars, thread, terminate, flags, loopVars>>

\* _on_disconnect() up to its second assignment, and that.
OnDisconnect ==
  /\ Receives("end")
  /\ wire' = Tail(wire)
  /\ connected' = FALSE
  /\ thread' = "disconnecting"
  /\ UNCHANGED <<brokerVars, terminate, subscribed, ready, loopVars>>

\* Faulty variant of Unsubscribed: subscribed stays set.
StaysSubscribed ==
  /\ thread = "disconnecting"
  /\ thread' = "waiting"
  /\ UNCHANGED <<brokerVars, wire, terminate, flags, ready, loopVars>>

Unsubscribed ==
  /\ thread = "disconnecting"
  /\ subscribed' = FALSE
  /\ thread' = "waiting"
  /\ UNCHANGED <<brokerVars, wire, terminate, connected, ready, loopVars>>

ThreadEnds ==
  /\ terminate /\ thread \in {"idle", "waiting"}
  /\ thread' = "ended"
  /\ UNCHANGED <<brokerVars, wire, terminate, flags, ready, loopVars>>

ThreadStep ==
  \/ Connect \/ OnConnect \/ Subscribe \/ Ignore \/ OnMessage
  \/ OnDisconnect \/ Unsubscribed
-----------------------------------------------------------------------------
(* The thread of the event loop.                                           *)

Start ==
  /\ thread = "none"
  /\ thread' = "waiting"
  /\ UNCHANGED <<brokerVars, wire, terminate, flags, ready, loopVars>>

\* A call handed over: queue.put_nowait.
RunReady ==
  /\ stop # "joining"
  /\ ready # <<>>
  /\ queue' = Append(queue, Head(ready))
  /\ ready' = Tail(ready)
  /\ UNCHANGED <<brokerVars, wire, thread, terminate, flags, stop>>

\* Faulty variant of BeginStop: the thread is waited for and not told.
BeginStopUntold ==
  /\ thread # "none" /\ stop = "ahead"
  /\ stop' = "joining"
  /\ UNCHANGED <<brokerVars, wire, thread, terminate, flags, ready, queue>>

\* stop(): loop_stop() tells the thread to end and waits for it.
BeginStop ==
  /\ thread # "none" /\ stop = "ahead"
  /\ terminate' = TRUE
  /\ stop' = "joining"
  /\ UNCHANGED <<brokerVars, wire, thread, flags, ready, queue>>

\* Faulty variant of EndStop: loop_stop() is not waited for.
EndStopEarly ==
  /\ stop = "joining"
  /\ session' = "none" /\ wire' = <<>>
  /\ connected' = FALSE /\ subscribed' = FALSE
  /\ stop' = "over"
  /\ UNCHANGED <<published, losses, from, thread, terminate, ready, queue>>

EndStop ==
  /\ stop = "joining" /\ thread = "ended"
  /\ session' = "none" /\ wire' = <<>>
  /\ connected' = FALSE /\ subscribed' = FALSE
  /\ stop' = "over"
  /\ UNCHANGED <<published, losses, from, thread, terminate, ready, queue>>

Broker == BrokerAccepts \/ BrokerSubscribes

Next ==
  \/ Broker \/ BrokerRefuses \/ Publish \/ Break
  \/ ThreadStep \/ ThreadEnds
  \/ Start \/ RunReady \/ BeginStop \/ EndStop

Spec == Init /\ [][Next]_vars

(***************************************************************************)
(* Threads run, and paho's looks at the request to end between any two     *)
(* events; a broker that has a connection answers on it.  Connections fail *)
(* MaxLoss times and no more.                                              *)
(***************************************************************************)
FairSpec ==
  /\ Spec
  /\ WF_vars(ThreadStep) /\ WF_vars(ThreadEnds) /\ WF_vars(Broker)
  /\ WF_vars(RunReady) /\ WF_vars(EndStop)
-----------------------------------------------------------------------------
(* The readiness endpoint.                                                 *)

Status == {"ok", "warning", "unhealthy"}

\* MQTTAdapter.health_probe.
Probe == IF connected /\ subscribed THEN "ok" ELSE "warning"

Aggregate(results) ==
  IF "unhealthy" \in Range(results) THEN [code |-> 503, status |-> "unhealthy"]
  ELSE IF "warning" \in Range(results) THEN [code |-> 200, status |-> "degraded"]
  ELSE [code |-> 200, status |-> "ok"]

\* GET /health/ready: the probe of the adapter, and that of the upstream API.
Readiness(upstream) == Aggregate(<<Probe, upstream>>)
-----------------------------------------------------------------------------
(* What must hold.                                                         *)

\* Every variable stays in its range.
MQTTTypeOK ==
  /\ published \in 0..MaxPackets /\ losses \in 0..MaxLoss
  /\ session \in Session /\ from \in 0..published
  /\ \A i \in DOMAIN wire :
       wire[i] \in [kind : {"accepted", "refused", "malformed", "packet", "end"},
                    packet : 0..published]
  /\ thread \in Thread
  /\ {terminate, connected, subscribed} \subseteq BOOLEAN
  /\ Range(ready) \cup Range(queue) \subseteq 1..published
  /\ stop \in {"ahead", "joining", "over"}

\* What the adapter has put on the queue, handed over, and not yet received.
Pipeline ==
  queue \o ready \o Without([i \in DOMAIN wire |-> wire[i].packet], {0})

\* Through refusals, losses and stop(), the emitter's queue gets packets in
\* the order published and none twice, and of a connection that stands all of
\* them (_on_message, call_soon_threadsafe).
PacketsArrive ==
  /\ \A i, j \in DOMAIN Pipeline : i < j => Pipeline[i] < Pipeline[j]
  /\ session = "subscribed" => (from + 1)..published \subseteq Range(Pipeline)

\* Readiness is "ok" only if the connection that stands has been subscribed,
\* or its end has not come to paho's notice; and a broker that is away never
\* makes the service unready (_on_connect, _on_disconnect, health_probe,
\* _aggregate).
ReadinessIsTrue ==
  \A upstream \in Status :
    /\ Readiness(upstream).status = "ok" =>
         /\ upstream = "ok"
         /\ \/ session \in {"asked", "subscribed"}
            \/ \E i \in DOMAIN wire : wire[i].kind = "end"
            \/ thread = "ended"
    /\ Readiness(upstream).code = 503 <=> upstream = "unhealthy"

\* When stop() is over no callback runs: nothing more is handed over and the
\* adapter stays disconnected (stop).
StoppedIsQuiet ==
  [][stop = "over" => /\ UNCHANGED flags /\ ~connected
                      /\ \E k \in 0..1 : ready' = SubSeq(ready, k + 1, Len(ready))]_vars

\* As long as stop() is not called the adapter always comes back to a
\* subscribed connection (reconnect_delay_set, _on_connect).
SubscribesAgain ==
  thread # "none" ~> (stop # "ahead" \/ (session = "subscribed" /\ Probe = "ok"))

\* stop() returns, although it blocks the thread that would run what the
\* callbacks hand over (stop, _on_message).
StopReturns == stop = "joining" ~> stop = "over"
=============================================================================
