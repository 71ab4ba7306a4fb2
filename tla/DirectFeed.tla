----------------------------- MODULE DirectFeed -----------------------------
(***************************************************************************)
(* Direct mode end to end: the relay in the weewx process, the socket, and *)
(* the adapter in the realtime service, each of which may be stopped or    *)
(* killed and (the relay) started again at any point.                      *)
(***************************************************************************)
EXTENDS LoopRelay, DirectAdapter

feedSystem == <<socketVars, relayVars, adapterVars>>

Relay == RelayNext /\ UNCHANGED adapterVars

Adapter == AdapterNext /\ UNCHANGED relayVars

FeedInit == SocketInit /\ RelayInit /\ AdapterInit

FeedSpec ==
  /\ FeedInit
  /\ [][Relay \/ Adapter]_feedSystem

(***************************************************************************)
(* Threads run, the event loop runs, timers fire, and the interpreter      *)
(* collects garbage in the end.  The accept thread gets the lock, which is *)
(* free for most of the time between two packets, if it keeps asking.      *)
(* Nothing is assumed of weewx: it may send no packet, never shut down and *)
(* never start again; nor of stop().                                       *)
(***************************************************************************)
Fairness ==
  /\ WF_feedSystem(SendToNext /\ UNCHANGED adapterVars)
  /\ WF_feedSystem(EndBroadcast /\ UNCHANGED adapterVars)
  /\ WF_feedSystem((CloseServer \/ CloseClients \/ Unlink)
                     /\ UNCHANGED adapterVars)
  /\ \A g \in Gen :
       /\ WF_feedSystem((CheckRunning(g) \/ CallAccept(g) \/ TakeConnection(g))
                          /\ UNCHANGED adapterVars)
       /\ SF_feedSystem(AddClient(g) /\ UNCHANGED adapterVars)
       /\ WF_feedSystem(Collect(g) /\ UNCHANGED adapterVars)
  /\ WF_feedSystem(Run /\ UNCHANGED relayVars)

FairFeedSpec == FeedSpec /\ Fairness
-----------------------------------------------------------------------------
(* What must hold.                                                         *)

\* Whatever is killed, shut down, restarted or reconnected, the emitter gets
\* every loop packet at most once and in weewx's order.
FeedInOrder ==
  \A i, j \in DOMAIN feed : i < j => feed[i] < feed[j]

\* The service never holds two connections to the relay, and after the task
\* has ended it holds none: every connection it opened is closed on its side
\* unless it is the one it reads from; and the health probe, which asks for
\* connected, is told so exactly while there is one.
OneConnection ==
  /\ \A k \in Conn : peerEnd[k] = "open" => task = "reading" /\ k = conn
  /\ connected <=> task = "reading"

\* While a connection stands nothing is lost on the way from weewx to the
\* emitter: between two packets, every one since the connection was added to
\* _clients is on the emitter's queue or waits to be read, also if others were
\* added, found dead or killed in between and several lines came in one read.
FeedIsComplete ==
  (task = "reading" /\ engine = "idle" /\ conn \in ClientsOf(gen)) =>
    \A n \in joinedAt[conn] + 1..packet :
      \/ \E i \in DOMAIN feed : feed[i] = n
      \/ \E i \in DOMAIN wire[conn] : wire[conn][i] = n

\* stop() ends the task, whatever it was waiting for.
StopEnds == stopSet ~> task = "ended"

\* If an instance of the relay stays up and the adapter is not stopped, the
\* adapter's connection ends up among the clients of that instance, after
\* any number of kills, restarts and stale connections before it.
Recovers ==
  <>[](Up /\ task # "none" /\ ~stopSet) => <>[](Up => conn \in ClientsOf(gen))

\* The adapter never makes weewx wait for ever: the engine comes back from
\* every broadcast, the reader having read or closed.
EngineNeverStuck == (engine = "sending") ~> (engine # "sending")
=============================================================================
