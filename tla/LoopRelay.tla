------------------------------ MODULE LoopRelay -----------------------------
(***************************************************************************)
(* ClearSkiesLoopRelay (weewx_ext.py), the weewx service that sends every  *)
(* loop packet to the clients of a Unix socket.                            *)
(*                                                                         *)
(* Two threads of the weewx process share it: the engine's thread calls    *)
(* __init__, on_new_loop_packet and shutDown, the accept thread runs       *)
(* _accept_loop.  weewx may start another instance after shutDown, in the  *)
(* same process; an accept thread of the old one may still be there.  The  *)
(* process may also be killed at any point, which leaves the socket file.  *)
(***************************************************************************)
EXTENDS RelaySocket, KeptPart

CONSTANT MaxPackets  \* bound of the model: loop packets

ASSUME RelayAssumption == MaxPackets \in Nat

VARIABLES gen,      \* the last instance started, 0 before the first
          running,  \* running[g]: _running
          fdOpen,   \* fdOpen[g]: _server_socket has not been closed
          clients,  \* clients[g]: _clients
          lock,     \* lock[g]: the engine's thread holds _lock
          accepter, \* accepter[g]: where the accept thread is
          accepted, \* accepted[g]: the connection it has in hand
          engine,   \* where the engine's thread is
          index,    \* how many clients the broadcast has been through
          dead,     \* the clients that could not be sent the packet
          packet,   \* the number of the last loop packet
          joinedAt  \* joinedAt[k]: packet when k was added to _clients

relayVars == <<gen, running, fdOpen, clients, lock, accepter, accepted,
               engine, index, dead, packet, joinedAt>>

(***************************************************************************)
(* The accept thread: "none", "top" of the loop, "calling" accept() after  *)
(* _running was seen, "blocked" in accept(), "adding" the connection,      *)
(* "exited".                                                               *)
(* The engine's thread: "down" (no instance, or shutDown has returned),    *)
(* "idle", "sending" a packet, and in shutDown "stopping" (before close),  *)
(* "closing" (before the lock), "unlinking" (after it).                    *)
(***************************************************************************)
Accepter == {"none", "top", "calling", "blocked", "adding", "exited"}
Engine == {"down", "idle", "sending", "stopping", "closing", "unlinking"}

RelayInit ==
  /\ gen = 0
  /\ running = [g \in Gen |-> FALSE]
  /\ fdOpen = [g \in Gen |-> FALSE]
  /\ clients = [g \in Gen |-> <<>>]
  /\ lock = [g \in Gen |-> FALSE]
  /\ accepter = [g \in Gen |-> "none"]
  /\ accepted = [g \in Gen |-> NoConn]
  /\ engine = "down"
  /\ index = 0
  /\ dead = {}
  /\ packet = 0
  /\ joinedAt = [k \in Conn |-> 0]

ClientsOf(g) == {clients[g][i] : i \in DOMAIN clients[g]}

\* Instance g has k waiting, in its accept thread's hands, or as a client.
Holds(g, k) ==
  \/ \E i \in DOMAIN backlog[g] : backlog[g][i] = k
  \/ accepted[g] = k
  \/ k \in ClientsOf(g)
-----------------------------------------------------------------------------
(* The engine's thread.                                                    *)

\* Faulty variant of StartServer: a stale file is left in place.
StartKeepsStaleFile ==
  /\ engine = "down"
  /\ gen < MaxGen
  /\ gen' = gen + 1
  /\ path' = IF path = 0 THEN gen' ELSE path
  /\ listening' = listening \cup {gen'}
  /\ running' = [running EXCEPT ![gen'] = TRUE]
  /\ fdOpen' = [fdOpen EXCEPT ![gen'] = TRUE]
  /\ accepter' = [accepter EXCEPT ![gen'] = "top"]
  /\ engine' = "idle"
  /\ UNCHANGED <<backlog, wire, relayEnd, peerEnd, received, clients, lock,
                 accepted, index, dead, packet, joinedAt>>

\* __init__: a stale file is removed, the new one is bound to this instance.
StartServer ==
  /\ engine = "down"
  /\ gen < MaxGen
  /\ gen' = gen + 1
  /\ path' = gen'
  /\ listening' = listening \cup {gen'}
  /\ running' = [running EXCEPT ![gen'] = TRUE]
  /\ fdOpen' = [fdOpen EXCEPT ![gen'] = TRUE]
  /\ accepter' = [accepter EXCEPT ![gen'] = "top"]
  /\ engine' = "idle"
  /\ UNCHANGED <<backlog, wire, relayEnd, peerEnd, received, clients, lock,
                 accepted, index, dead, packet, joinedAt>>

\* on_new_loop_packet takes the lock and goes through _clients by index.
BeginBroadcast ==
  /\ engine = "idle"
  /\ packet < MaxPackets
  /\ packet' = packet + 1
  /\ lock' = [lock EXCEPT ![gen] = TRUE]
  /\ engine' = "sending"
  /\ index' = 0
  /\ dead' = {}
  /\ UNCHANGED <<socketVars, gen, running, fdOpen, clients, accepter, accepted,
                 joinedAt>>

\* Faulty variant of SendToNext: a dead client leaves the list while the loop
\* over the list is running.
SendRemovesDead ==
  /\ engine = "sending"
  /\ index < Len(clients[gen])
  /\ LET k == clients[gen][index + 1] IN
       /\ \/ peerEnd[k] = "closed"
          \/ Len(wire[k]) < SocketBuffer
       /\ wire' = IF peerEnd[k] = "closed" THEN wire
                  ELSE [wire EXCEPT ![k] = Append(@, packet)]
       /\ dead' = IF peerEnd[k] = "closed" THEN dead \cup {k} ELSE dead
       /\ clients' = IF peerEnd[k] = "open" THEN clients
                     ELSE [clients EXCEPT ![gen] = Without(@, {k})]
  /\ index' = IF index + 1 > Len(clients'[gen]) THEN Len(clients'[gen])
              ELSE index + 1
  /\ UNCHANGED <<path, listening, backlog, relayEnd, peerEnd, received, gen,
                 running, fdOpen, lock, accepter, accepted, engine, packet,
                 joinedAt>>

\* sendall() on the next client: it fails if the reader has gone, and blocks
\* while the reader's buffer is full.
SendToNext ==
  /\ engine = "sending"
  /\ index < Len(clients[gen])
  /\ index' = index + 1
  /\ LET k == clients[gen][index + 1] IN
       \/ /\ peerEnd[k] = "closed"
          /\ dead' = dead \cup {k}
          /\ UNCHANGED wire
       \/ /\ peerEnd[k] = "open"
          /\ Len(wire[k]) < SocketBuffer
          /\ wire' = [wire EXCEPT ![k] = Append(@, packet)]
          /\ UNCHANGED dead
  /\ UNCHANGED <<path, listening, backlog, relayEnd, peerEnd, received, gen,
                 running, fdOpen, clients, lock, accepter, accepted, engine,
                 packet, joinedAt>>

\* Faulty variant of EndBroadcast: the dead clients are not closed.
EndWithoutClose ==
  /\ engine = "sending"
  /\ index = Len(clients[gen])
  /\ clients' = [clients EXCEPT ![gen] = Without(@, dead)]
  /\ lock' = [lock EXCEPT ![gen] = FALSE]
  /\ engine' = "idle"
  /\ dead' = {}
  /\ index' = 0
  /\ UNCHANGED <<socketVars, gen, running, fdOpen, accepter, accepted, packet,
                 joinedAt>>

\* Faulty variant of EndBroadcast: the lock is not released.
EndKeepsLock ==
  /\ engine = "sending"
  /\ index = Len(clients[gen])
  /\ clients' = [clients EXCEPT ![gen] = Without(@, dead)]
  /\ relayEnd' = ClosedEnds(dead)
  /\ engine' = "idle"
  /\ dead' = {}
  /\ index' = 0
  /\ UNCHANGED <<path, listening, backlog, wire, peerEnd, received, gen, lock,
                 running, fdOpen, accepter, accepted, packet, joinedAt>>

\* The dead clients leave the list and are closed; the lock is released.
EndBroadcast ==
  /\ engine = "sending"
  /\ index = Len(clients[gen])
  /\ clients' = [clients EXCEPT ![gen] = Without(@, dead)]
  /\ relayEnd' = ClosedEnds(dead)
  /\ lock' = [lock EXCEPT ![gen] = FALSE]
  /\ engine' = "idle"
  /\ dead' = {}
  /\ index' = 0
  /\ UNCHANGED <<path, listening, backlog, wire, peerEnd, received, gen,
                 running, fdOpen, accepter, accepted, packet, joinedAt>>

\* shutDown, first line.
ClearRunning ==
  /\ engine = "idle"
  /\ running' = [running EXCEPT ![gen] = FALSE]
  /\ engine' = "stopping"
  /\ UNCHANGED <<socketVars, gen, fdOpen, clients, lock, accepter, accepted,
                 index, dead, packet, joinedAt>>

\* _server_socket.close().  A thread blocked in accept() on it keeps the
\* listening socket alive.
CloseServer ==
  /\ engine = "stopping"
  /\ engine' = "closing"
  /\ fdOpen' = [fdOpen EXCEPT ![gen] = FALSE]
  /\ \/ accepter[gen] = "blocked" /\ UNCHANGED <<listening, backlog, relayEnd>>
     \/ accepter[gen] # "blocked" /\ DropListener(gen)
  /\ UNCHANGED <<path, wire, peerEnd, received, gen, running, clients, lock,
                 accepter, accepted, index, dead, packet, joinedAt>>

\* With the lock held: close every client, empty the list.
CloseClients ==
  /\ engine = "closing"
  /\ engine' = "unlinking"
  /\ relayEnd' = ClosedEnds(ClientsOf(gen))
  /\ clients' = [clients EXCEPT ![gen] = <<>>]
  /\ UNCHANGED <<path, listening, backlog, wire, peerEnd, received, gen,
                 running, fdOpen, lock, accepter, accepted, index, dead,
                 packet, joinedAt>>

\* The socket file is removed and shutDown returns.
Unlink ==
  /\ engine = "unlinking"
  /\ engine' = "down"
  /\ path' = 0
  /\ UNCHANGED <<listening, backlog, wire, relayEnd, peerEnd, received, gen,
                 running, fdOpen, clients, lock, accepter, accepted, index,
                 dead, packet, joinedAt>>
-----------------------------------------------------------------------------
(* The accept thread of instance g.                                        *)

CheckRunning(g) ==
  /\ accepter[g] = "top"
  /\ accepter' = [accepter EXCEPT ![g] = IF running[g] THEN "calling" ELSE "exited"]
  /\ UNCHANGED <<socketVars, gen, running, fdOpen, clients, lock, accepted,
                 engine, index, dead, packet, joinedAt>>

\* accept() on a closed socket raises OSError at once.
CallAccept(g) ==
  /\ accepter[g] = "calling"
  /\ accepter' = [accepter EXCEPT ![g] = IF fdOpen[g] THEN "blocked" ELSE "exited"]
  /\ UNCHANGED <<socketVars, gen, running, fdOpen, clients, lock, accepted,
                 engine, index, dead, packet, joinedAt>>

\* accept() returns a connection, also after the socket object was closed.
TakeConnection(g) ==
  /\ accepter[g] = "blocked"
  /\ backlog[g] # <<>>
  /\ accepter' = [accepter EXCEPT ![g] = "adding"]
  /\ accepted' = [accepted EXCEPT ![g] = Head(backlog[g])]
  /\ backlog' = [backlog EXCEPT ![g] = IF fdOpen[g] THEN Tail(@) ELSE <<>>]
  /\ listening' = IF fdOpen[g] THEN listening ELSE listening \ {g}
  /\ relayEnd' = IF fdOpen[g] THEN relayEnd
                 ELSE ClosedEnds({backlog[g][i] : i \in 2..Len(backlog[g])})
  /\ UNCHANGED <<path, wire, peerEnd, received, gen, running, fdOpen, clients,
                 lock, engine, index, dead, packet, joinedAt>>

\* On a platform where close() wakes a blocked accept(), it raises OSError.
AcceptFails(g) ==
  /\ accepter[g] = "blocked"
  /\ ~fdOpen[g]
  /\ accepter' = [accepter EXCEPT ![g] = "exited"]
  /\ DropListener(g)
  /\ UNCHANGED <<path, wire, peerEnd, received, gen, running, fdOpen, clients,
                 lock, accepted, engine, index, dead, packet, joinedAt>>

\* Faulty variant of AddClient: the lock is not taken.
AddWithoutLock(g) ==
  /\ accepter[g] = "adding"
  /\ clients' = [clients EXCEPT ![g] = Append(@, accepted[g])]
  /\ joinedAt' = [joinedAt EXCEPT ![accepted[g]] = packet]
  /\ accepted' = [accepted EXCEPT ![g] = NoConn]
  /\ accepter' = [accepter EXCEPT ![g] = "top"]
  /\ UNCHANGED <<socketVars, gen, running, fdOpen, lock, engine, index, dead,
                 packet>>

\* Faulty variant of AddClient: a new client is sent the last packet again.
AddReplaysLast(g) ==
  /\ accepter[g] = "adding"
  /\ ~lock[g]
  /\ clients' = [clients EXCEPT ![g] = Append(@, accepted[g])]
  /\ wire' = IF packet = 0 THEN wire
             ELSE [wire EXCEPT ![accepted[g]] = Append(@, packet)]
  /\ joinedAt' = [joinedAt EXCEPT ![accepted[g]] = IF packet = 0 THEN 0
                                                   ELSE packet - 1]
  /\ accepted' = [accepted EXCEPT ![g] = NoConn]
  /\ accepter' = [accepter EXCEPT ![g] = "top"]
  /\ UNCHANGED <<path, listening, backlog, relayEnd, peerEnd, received, gen,
                 running, fdOpen, lock, engine, index, dead, packet>>

\* The connection is appended under the lock, and the loop starts over.
AddClient(g) ==
  /\ accepter[g] = "adding"
  /\ ~lock[g]
  /\ clients' = [clients EXCEPT ![g] = Append(@, accepted[g])]
  /\ joinedAt' = [joinedAt EXCEPT ![accepted[g]] = packet]
  /\ accepted' = [accepted EXCEPT ![g] = NoConn]
  /\ accepter' = [accepter EXCEPT ![g] = "top"]
  /\ UNCHANGED <<socketVars, gen, running, fdOpen, lock, engine, index, dead,
                 packet>>

AcceptThread(g) ==
  \/ CheckRunning(g) \/ CallAccept(g) \/ TakeConnection(g) \/ AcceptFails(g)
  \/ AddClient(g)
-----------------------------------------------------------------------------
(* The weewx process.                                                      *)

\* The process dies: its threads and sockets are gone, the file stays.
KillWeewx ==
  /\ engine # "down" \/ \E g \in Gen : accepter[g] \notin {"none", "exited"}
  /\ engine' = "down"
  /\ running' = [g \in Gen |-> FALSE]
  /\ fdOpen' = [g \in Gen |-> FALSE]
  /\ clients' = [g \in Gen |-> <<>>]
  /\ lock' = [g \in Gen |-> FALSE]
  /\ accepter' = [g \in Gen |-> IF accepter[g] = "none" THEN "none" ELSE "exited"]
  /\ accepted' = [g \in Gen |-> NoConn]
  /\ index' = 0
  /\ dead' = {}
  /\ listening' = {}
  /\ backlog' = [g \in Gen |-> <<>>]
  /\ relayEnd' = ClosedEnds({k \in Conn : relayEnd[k] = "open"})
  /\ UNCHANGED <<path, wire, peerEnd, received, gen, packet, joinedAt>>

\* An old instance is garbage once its thread has ended: the interpreter
\* closes the sockets that are still in its list.
Collect(g) ==
  /\ g < gen
  /\ accepter[g] = "exited"
  /\ clients[g] # <<>>
  /\ relayEnd' = ClosedEnds(ClientsOf(g))
  /\ clients' = [clients EXCEPT ![g] = <<>>]
  /\ UNCHANGED <<path, listening, backlog, wire, peerEnd, received, gen,
                 running, fdOpen, lock, accepter, accepted, engine, index,
                 dead, packet, joinedAt>>
-----------------------------------------------------------------------------
ShutDown == ClearRunning \/ CloseServer \/ CloseClients \/ Unlink

RelayNext ==
  \/ StartServer
  \/ BeginBroadcast \/ SendToNext \/ EndBroadcast
  \/ ShutDown
  \/ KillWeewx
  \/ \E g \in Gen : AcceptThread(g) \/ Collect(g)

relaySystem == <<socketVars, relayVars>>

RelaySystemInit == SocketInit /\ RelayInit

RelaySpec ==
  /\ RelaySystemInit
  /\ [][RelayNext \/ (PeerNext /\ UNCHANGED relayVars)]_relaySystem
-----------------------------------------------------------------------------
(* What must hold.                                                         *)

Up == engine \in {"idle", "sending"}

\* Every variable stays in its range; the lock is held while a packet is
\* being sent and at no other suspension point; only an open server socket
\* or one that accept() is blocked on still listens.
RelayTypeOK ==
  /\ path \in 0..gen
  /\ listening \subseteq 1..gen
  /\ \A g \in listening : fdOpen[g] \/ accepter[g] = "blocked"
  /\ backlog \in [Gen -> Seq(Conn)]
  /\ \A g \in Gen \ listening : backlog[g] = <<>>
  /\ wire \in [Conn -> Seq(1..MaxPackets)]
  /\ \A k \in Conn : Len(wire[k]) <= SocketBuffer
  /\ relayEnd \in [Conn -> {"none", "open", "closed"}]
  /\ peerEnd \in [Conn -> {"none", "open", "closed"}]
  /\ received \in [Conn -> Seq(1..MaxPackets)]
  /\ gen \in 0..MaxGen
  /\ running \in [Gen -> BOOLEAN]
  /\ fdOpen \in [Gen -> BOOLEAN]
  /\ clients \in [Gen -> Seq(Conn)]
  /\ \A g \in Gen : lock[g] <=> (g = gen /\ engine = "sending")
  /\ accepter \in [Gen -> Accepter]
  /\ \A g \in Gen : (accepted[g] \in Conn) <=> (accepter[g] = "adding")
  /\ engine \in Engine
  /\ index \in 0..Cardinality(Conn)
  /\ dead \subseteq Conn
  /\ packet \in 0..MaxPackets
  /\ joinedAt \in [Conn -> 0..MaxPackets]

SentOn(k) == received[k] \o wire[k]

\* A connection carries the packets that came after it was added to
\* _clients, from the first on, in order and without a gap: it is never
\* handed the second half of a broadcast that was under way
\* (on_new_loop_packet and _accept_loop share the lock).
ReceivesContiguously ==
  \A k \in Conn : \A i \in DOMAIN SentOn(k) : SentOn(k)[i] = joinedAt[k] + i

\* Between two packets every client whose reader has not gone has been sent
\* all of them, also when other clients were found dead in the same round.
ClientIsCurrent ==
  engine = "idle" =>
    \A k \in ClientsOf(gen) :
      peerEnd[k] = "open" => joinedAt[k] + Len(SentOn(k)) = packet

\* As long as an instance runs, the socket file leads to it, whatever an
\* earlier instance, killed or shut down, has left behind.
RelayIsReachable == Up => path = gen /\ gen \in listening

\* No connection is forgotten: what is open on the relay's side is waiting to
\* be accepted, in the accept thread's hands or in _clients, once.
OpenIsKnown ==
  \A k \in Conn : relayEnd[k] = "open" => \E g \in Gen : Holds(g, k)
-----------------------------------------------------------------------------
(* What the source says of itself and the code does not do.                *)

\* "Stop accepting connections and close all client sockets."  (shutDown):
\* once it has returned and the accept thread has ended, nothing is open.
ShutDownClosesAll ==
  (engine = "down" /\ \A g \in Gen : accepter[g] \in {"none", "exited"})
    => \A k \in Conn : relayEnd[k] # "open"
=============================================================================
