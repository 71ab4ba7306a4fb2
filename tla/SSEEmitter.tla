----------------------------- MODULE SSEEmitter -----------------------------
(***************************************************************************)
(* The fan-out of loop packets to browsers: class SSEEmitter               *)
(* (sse/emitter.py) with the GET /sse endpoint and its generator (app.py). *)
(*                                                                         *)
(* Everything runs on one asyncio loop, so a step of this model is a       *)
(* stretch of code between two suspension points.  The fan-out task is     *)
(* suspended only in source.get(); a client's generator is suspended in    *)
(* wait_for(sub_q.get()), in request.is_disconnected(), or at a yield      *)
(* while the response is written to its socket.  A packet is its position  *)
(* in the order in which the adapter produced it.                          *)
(***************************************************************************)
EXTENDS Integers, Sequences

CONSTANTS Client,      \* connections to GET /sse; each is used once
          Reader,      \* the clients that keep reading their socket
          MaxQ,        \* _SUBSCRIBER_QUEUE_MAX
          MaxPackets,  \* bound of the model: packets the adapter produces
          None         \* the sentinel, and "no packet" in a generator

ASSUME EmitterAssumption ==
  /\ Reader \subseteq Client
  /\ MaxQ \in Nat \ {0}
  /\ MaxPackets \in Nat
  /\ None \notin Nat

VARIABLES produced,    \* packets the adapter has put on the source queue
          source,      \* the emitter's source queue, unbounded
          fanout,      \* the fan-out task: "unstarted", "running", "stopped"
          tapped,      \* the last packet handed to on_packet
          subscribers, \* _subscribers, each queue named by its client
          queue,       \* queue[c]: the subscriber queue of c
          pc,          \* pc[c]: where c's generator is suspended
          held,        \* held[c]: the packet the generator has taken
          sent,        \* sent[c]: the packets yielded to c's response
          joined,      \* joined[c]: tapped when c subscribed
          gone         \* the clients that have closed their connection

vars == <<produced, source, fanout, tapped, subscribers, queue, pc, held,
          sent, joined, gone>>

sourceVars == <<produced, source, fanout, tapped>>

(***************************************************************************)
(* "created"  subscribed, the response has not yet started the generator   *)
(* "parked"   in wait_for(sub_q.get()), which found the queue empty        *)
(* "checking" in request.is_disconnected() with a packet in hand           *)
(* "sending"  at the yield of a loop event                                 *)
(* "pinging"  at the yield of a keepalive                                  *)
(* "orphaned" at a yield, its response cancelled, not yet finalised        *)
(* "leaked"   never started, its response cancelled                        *)
(***************************************************************************)
Live == {"created", "parked", "checking", "sending", "pinging"}
PC == Live \cup {"none", "orphaned", "leaked", "done"}

Init ==
  /\ produced = 0
  /\ source = <<>>
  /\ fanout = "unstarted"
  /\ tapped = 0
  /\ subscribers = {}
  /\ queue = [c \in Client |-> <<>>]
  /\ pc = [c \in Client |-> "none"]
  /\ held = [c \in Client |-> None]
  /\ sent = [c \in Client |-> <<>>]
  /\ joined = [c \in Client |-> 0]
  /\ gone = {}

\* Faulty variant of Full: the bound is off by one.
FullOffByOne(c) == Len(queue[c]) = MaxQ + 1

Full(c) == Len(queue[c]) = MaxQ
-----------------------------------------------------------------------------
(* The adapter and the emitter's own task.                                 *)

\* The adapter puts the next packet on the source queue, before or after
\* the emitter is stopped.
Produce ==
  /\ produced < MaxPackets
  /\ produced' = produced + 1
  /\ source' = Append(source, produced')
  /\ UNCHANGED <<fanout, tapped, subscribers, queue, pc, held, sent, joined,
                 gone>>

Start ==
  /\ fanout = "unstarted"
  /\ fanout' = "running"
  /\ UNCHANGED <<produced, source, tapped, subscribers, queue, pc, held, sent,
                 joined, gone>>

\* Faulty variant of FanOut: a full queue misses the packet and stays.
FanOutKeepsStalled ==
  /\ fanout = "running"
  /\ source # <<>>
  /\ source' = Tail(source)
  /\ tapped' = Head(source)
  /\ queue' = [c \in Client |->
                 IF c \in subscribers /\ ~Full(c)
                 THEN Append(queue[c], Head(source)) ELSE queue[c]]
  /\ UNCHANGED <<produced, fanout, subscribers, pc, held, sent, joined, gone>>

\* Faulty variant of FanOut: one full queue removes every subscriber.
FanOutClearsAll ==
  /\ fanout = "running"
  /\ source # <<>>
  /\ source' = Tail(source)
  /\ tapped' = Head(source)
  /\ queue' = [c \in Client |->
                 IF c \in subscribers /\ ~Full(c)
                 THEN Append(queue[c], Head(source)) ELSE queue[c]]
  /\ subscribers' = IF \E c \in subscribers : Full(c) THEN {} ELSE subscribers
  /\ UNCHANGED <<produced, fanout, pc, held, sent, joined, gone>>

\* One turn of _fanout: the tap, then a put to every subscriber, then the
\* removal of those whose queue was full.
FanOut ==
  /\ fanout = "running"
  /\ source # <<>>
  /\ source' = Tail(source)
  /\ tapped' = Head(source)
  /\ queue' = [c \in Client |->
                 IF c \in subscribers /\ ~Full(c)
                 THEN Append(queue[c], Head(source)) ELSE queue[c]]
  /\ subscribers' = {c \in subscribers : ~Full(c)}
  /\ UNCHANGED <<produced, fanout, pc, held, sent, joined, gone>>

\* Faulty variant of Stop: the task is not cancelled.
StopWithoutCancel ==
  /\ fanout = "running"
  /\ queue' = [c \in Client |->
                 IF c \in subscribers /\ ~Full(c)
                 THEN Append(queue[c], None) ELSE queue[c]]
  /\ UNCHANGED <<produced, source, fanout, tapped, subscribers, pc, held, sent,
                 joined, gone>>

\* serve_all calls stop() once.  The cancelled task handles no further
\* packet; the sentinel goes to each subscriber that has room for it.
Stop ==
  /\ fanout = "running"
  /\ fanout' = "stopped"
  /\ queue' = [c \in Client |->
                 IF c \in subscribers /\ ~Full(c)
                 THEN Append(queue[c], None) ELSE queue[c]]
  /\ UNCHANGED <<produced, source, tapped, subscribers, pc, held, sent, joined,
                 gone>>
-----------------------------------------------------------------------------
(* A client's connection and its generator.                                *)

\* The endpoint registers the queue before the response exists.  Nothing
\* refuses a client that arrives after stop().
Subscribe(c) ==
  /\ fanout # "unstarted"
  /\ pc[c] = "none"
  /\ pc' = [pc EXCEPT ![c] = "created"]
  /\ subscribers' = subscribers \cup {c}
  /\ joined' = [joined EXCEPT ![c] = tapped]
  /\ UNCHANGED <<sourceVars, queue, held, sent, gone>>

\* Faulty variant of Finish: the finally block is missing.
FinishWithoutUnsubscribe(c) ==
  /\ pc' = [pc EXCEPT ![c] = "done"]
  /\ queue' = [queue EXCEPT ![c] = <<>>]
  /\ held' = [held EXCEPT ![c] = None]
  /\ UNCHANGED <<sourceVars, subscribers, sent, joined, gone>>

\* The generator ends through its finally block, and its queue is garbage.
Finish(c) ==
  /\ pc' = [pc EXCEPT ![c] = "done"]
  /\ subscribers' = subscribers \ {c}
  /\ queue' = [queue EXCEPT ![c] = <<>>]
  /\ held' = [held EXCEPT ![c] = None]
  /\ UNCHANGED <<sourceVars, sent, joined, gone>>

\* Faulty variant of TakeSentinel: the sentinel is skipped.
TakeSentinelSkips(c) ==
  /\ Head(queue[c]) = None
  /\ pc' = [pc EXCEPT ![c] = "pinging"]
  /\ queue' = [queue EXCEPT ![c] = Tail(@)]
  /\ UNCHANGED <<sourceVars, subscribers, held, sent, joined, gone>>

\* sub_q.get() on a queue with an item: the sentinel ends the loop, a packet
\* is taken and the generator goes on to ask whether the client is there.
TakeSentinel(c) ==
  /\ Head(queue[c]) = None
  /\ Finish(c)

TakePacket(c) ==
  /\ Head(queue[c]) # None
  /\ pc' = [pc EXCEPT ![c] = "checking"]
  /\ held' = [held EXCEPT ![c] = Head(queue[c])]
  /\ queue' = [queue EXCEPT ![c] = Tail(@)]
  /\ UNCHANGED <<sourceVars, subscribers, sent, joined, gone>>

TakeItem(c) == TakeSentinel(c) \/ TakePacket(c)

\* The generator is suspended somewhere else; nothing but its place changes.
Move(c, place) ==
  /\ pc' = [pc EXCEPT ![c] = place]
  /\ UNCHANGED <<sourceVars, subscribers, queue, held, sent, joined, gone>>

\* The top of the generator's loop; get() suspends only on an empty queue.
LoopTop(c) ==
  \/ queue[c] # <<>> /\ TakeItem(c)
  \/ queue[c] = <<>> /\ Move(c, "parked")

\* The response starts to iterate over the generator.
Begin(c) ==
  /\ pc[c] = "created"
  /\ LoopTop(c)

\* An item has arrived for a generator waiting in get().
Wake(c) ==
  /\ pc[c] = "parked"
  /\ queue[c] # <<>>
  /\ TakeItem(c)

\* Faulty variant of Keepalive: the timeout loses an item that was arriving.
KeepaliveLosesItem(c) ==
  /\ pc[c] = "parked"
  /\ pc' = [pc EXCEPT ![c] = "pinging"]
  /\ queue' = [queue EXCEPT ![c] = IF @ = <<>> THEN @ ELSE Tail(@)]
  /\ UNCHANGED <<sourceVars, subscribers, held, sent, joined, gone>>

\* Faulty variant of Keepalive: a quiet station closes the stream.
KeepaliveCloses(c) ==
  /\ pc[c] = "parked"
  /\ Finish(c)

\* wait_for times out.  An item that arrives in the same turn of the loop
\* stays on the queue.
Keepalive(c) ==
  /\ pc[c] = "parked"
  /\ Move(c, "pinging")

\* The loop event goes to the response.
YieldEvent(c) ==
  /\ pc' = [pc EXCEPT ![c] = "sending"]
  /\ sent' = [sent EXCEPT ![c] = Append(@, held[c])]
  /\ held' = [held EXCEPT ![c] = None]
  /\ UNCHANGED <<sourceVars, subscribers, queue, joined, gone>>

\* request.is_disconnected() answers: break, or yield the loop event.
Check(c) ==
  /\ pc[c] = "checking"
  /\ \/ c \in gone /\ Finish(c)
     \/ c \notin gone /\ YieldEvent(c)

\* The response has written what was yielded and asks for more.
Written(c) ==
  /\ pc[c] \in {"sending", "pinging"}
  /\ LoopTop(c)

Disconnect(c) ==
  /\ pc[c] \in Live
  /\ c \notin gone
  /\ gone' = gone \cup {c}
  /\ UNCHANGED <<sourceVars, subscribers, queue, pc, held, sent, joined>>

\* EventSourceResponse cancels its stream when the client has disconnected
\* or the server is shutting down.  CancelledError reaches a generator
\* suspended in an await; one suspended at a yield is closed later by the
\* event loop; one that never ran has no finally block to run.
CancelStream(c) ==
  /\ c \in gone \/ fanout = "stopped"
  /\ \/ pc[c] \in {"parked", "checking"} /\ Finish(c)
     \/ pc[c] \in {"sending", "pinging"} /\ Move(c, "orphaned")
     \/ pc[c] = "created" /\ Move(c, "leaked")

\* aclose() raises GeneratorExit at the yield; the finally block runs.
Finalise(c) ==
  /\ pc[c] = "orphaned"
  /\ Finish(c)
-----------------------------------------------------------------------------
Generator(c) == Begin(c) \/ Wake(c) \/ Keepalive(c) \/ Check(c) \/ Written(c)

Next ==
  \/ Produce
  \/ Start
  \/ FanOut
  \/ Stop
  \/ \E c \in Client : \/ Subscribe(c)
                       \/ Generator(c)
                       \/ Disconnect(c)
                       \/ CancelStream(c)
                       \/ Finalise(c)

Spec == Init /\ [][Next]_vars

(***************************************************************************)
(* The event loop runs every task that is ready, and timers fire.  Only a  *)
(* client that keeps reading lets its response finish a write.  Nothing is *)
(* assumed of the adapter, of the signal that leads to Stop, or of the     *)
(* cancellation on shutdown, which belongs to the library.                 *)
(***************************************************************************)
FairSpec ==
  /\ Spec
  /\ WF_vars(Start)
  /\ WF_vars(FanOut)
  /\ \A c \in Client :
       WF_vars(Begin(c)) /\ WF_vars(Wake(c)) /\ WF_vars(Keepalive(c))
         /\ WF_vars(Check(c)) /\ WF_vars(Finalise(c))
  /\ \A c \in Reader : WF_vars(Written(c))
-----------------------------------------------------------------------------
(* What must hold.                                                         *)

\* Every variable stays in its range; a generator holds a packet exactly
\* while it is in is_disconnected(), and a subscriber queue never exceeds
\* its maxsize.
TypeOK ==
  /\ produced \in 0..MaxPackets
  /\ source \in Seq(Nat)
  /\ fanout \in {"unstarted", "running", "stopped"}
  /\ tapped \in Nat
  /\ subscribers \subseteq Client
  /\ queue \in [Client -> Seq(Nat \cup {None})]
  /\ \A c \in Client : Len(queue[c]) <= MaxQ
  /\ pc \in [Client -> PC]
  /\ held \in [Client -> Nat \cup {None}]
  /\ \A c \in Client : (held[c] # None) <=> (pc[c] = "checking")
  /\ sent \in [Client -> Seq(Nat)]
  /\ joined \in [Client -> Nat]
  /\ gone \subseteq Client

\* The last packet that has left the queue of c.
Taken(c) == joined[c] + Len(sent[c]) + (IF held[c] = None THEN 0 ELSE 1)

HasSentinel(c) == queue[c] # <<>> /\ queue[c][Len(queue[c])] = None

\* The last packet c will be given if it reads everything it has queued.
Owed(c) == Taken(c) + (IF HasSentinel(c) THEN Len(queue[c]) - 1
                                         ELSE Len(queue[c]))

\* The shares of one client in the invariants below.
Contiguous(c) ==
  /\ \A i \in DOMAIN sent[c] : sent[c][i] = joined[c] + i
  /\ held[c] # None => held[c] = joined[c] + Len(sent[c]) + 1
  /\ \A i \in DOMAIN queue[c] :
       queue[c][i] # None => queue[c][i] = Taken(c) + i

Current(c) == c \in subscribers => Owed(c) = tapped

SentinelLast(c) ==
  \A i \in DOMAIN queue[c] :
    queue[c][i] = None => i = Len(queue[c]) /\ fanout = "stopped"

Registered(c) == c \in subscribers => pc[c] \notin {"none", "done"}

Unused(c) == pc[c] = "none" => queue[c] = <<>> /\ sent[c] = <<>>

\* What a client has been sent, the packet its generator holds and what its
\* queue holds are the packets broadcast since it subscribed, in order, with
\* no gap and no repetition, whatever fan-out, timeouts, disconnects and
\* shutdown do in between (_fanout, the generator of GET /sse).
DeliveryIsContiguous == \A c \in Client : Contiguous(c)

\* Nothing was skipped at the end either: as long as a client is in
\* _subscribers, all that was broadcast since it joined has been sent to it,
\* is in its generator's hands or is in its queue.
SubscriberIsCurrent == \A c \in Client : Current(c)

\* A subscriber that does not read, a generator that never started among
\* them, costs at most maxsize packets plus the one in its generator's hands:
\* after that fan-out removes it.
BacklogBounded ==
  \A c \in subscribers : tapped - joined[c] - Len(sent[c]) <= MaxQ + 1

\* The sentinel is put by stop() only, at most once per queue, and no packet
\* comes after it: a generator that breaks on it abandons nothing.
SentinelIsLast == \A c \in Client : SentinelLast(c)

\* However a generator ends, by sentinel, disconnect, cancellation or
\* finalisation, its queue is out of _subscribers; and every queue in
\* _subscribers was handed to some client.
FinishedIsUnsubscribed == \A c \in Client : Registered(c)

\* Every packet passes the enrichment tap once and in order, also while no
\* client is connected: what is on the source queue is exactly what the
\* adapter produced after the last packet tapped (_fanout calls on_packet
\* before it looks at _subscribers).
TapSeesEveryPacket ==
  /\ produced = tapped + Len(source)
  /\ \A i \in DOMAIN source : source[i] = tapped + i

\* A client that reads is sent every packet that was put into its queue,
\* also those queued before it was removed for falling behind, unless it
\* leaves or the service shuts down.
ReaderGetsBacklog ==
  \A c \in Reader : \A p \in 1..MaxPackets :
    (\E i \in DOMAIN queue[c] : queue[c][i] = p)
      ~> (\/ \E i \in DOMAIN sent[c] : sent[c][i] = p
          \/ c \in gone
          \/ fanout = "stopped")

\* A client that reads and has a sentinel in its queue comes to the end of
\* its stream by itself, with no help from the library's cancellation.
SentinelClosesReader ==
  \A c \in Reader : HasSentinel(c) ~> (pc[c] \in {"done", "leaked"})

\* The emitter and its generators keep the promise of SSEBroadcast: in
\* particular a client is removed only when it is MaxQ packets behind.
Broadcast == INSTANCE SSEBroadcast WITH
               Lag <- MaxQ,
               head <- tapped,
               open <- {c \in Client : pc[c] \notin {"none", "done"}},
               member <- subscribers,
               from <- joined,
               upto <- [c \in Client |-> Owed(c)],
               got <- sent

ImplementsBroadcast == Broadcast!BSpec
-----------------------------------------------------------------------------
(* What the source says of itself and the code does not do.                *)

\* "Clients that fall behind and overflow their queue are silently dropped"
\* (sse/emitter.py): the stream of a client that has been removed from
\* _subscribers ends.
DroppedClientIsClosed ==
  \A c \in Reader :
    (pc[c] \in Live /\ c \notin subscribers) ~> (pc[c] \notin Live)
=============================================================================
