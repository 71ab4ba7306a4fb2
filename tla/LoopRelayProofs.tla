--------------------------- MODULE LoopRelayProofs --------------------------
(***************************************************************************)
(* Proofs about LoopRelay for any number of instances, connections and     *)
(* packets and any size of the socket's buffer.  They hold of every reader *)
(* that does no more with the socket than connect, read and close.         *)
(***************************************************************************)
EXTENDS LoopRelay, SequenceFacts, TLAPS

-----------------------------------------------------------------------------
(* The inductive invariant.                                                *)

\* Nothing has been sent on k.
Silent(k) == wire[k] = <<>> /\ received[k] = <<>>

Typed ==
  /\ RelayTypeOK
  /\ lock \in [Gen -> BOOLEAN]
  /\ accepted \in [Gen -> Conn \cup {NoConn}]

\* Instances that have not been started have nothing; the one that is served
\* has its server socket until shutDown closes it.
Instances ==
  /\ \A g \in Gen : g > gen => clients[g] = <<>> /\ accepter[g] = "none"
  /\ engine # "down" => gen # 0
  /\ engine \in {"idle", "sending", "stopping"} => fdOpen[gen]

\* The broadcast is somewhere in the list, which does not change under it.
Round ==
  engine = "sending" =>
    /\ packet # 0
    /\ index <= Len(clients[gen])
    /\ dead \subseteq ClientsOf(gen)

\* A connection is in one place only.
BacklogOnce ==
  \A g, h \in Gen : \A i \in DOMAIN backlog[g], j \in DOMAIN backlog[h] :
    backlog[g][i] = backlog[h][j] => g = h /\ i = j

ClientsOnce ==
  \A g, h \in Gen : \A i \in DOMAIN clients[g], j \in DOMAIN clients[h] :
    clients[g][i] = clients[h][j] => g = h /\ i = j

AcceptedOnce ==
  \A g, h \in Gen : accepted[g] = accepted[h] /\ accepted[g] # NoConn => g = h

BacklogApart ==
  \A g, h \in Gen : \A i \in DOMAIN backlog[g] :
    /\ backlog[g][i] # accepted[h]
    /\ \A j \in DOMAIN clients[h] : backlog[g][i] # clients[h][j]

AcceptedApart ==
  \A g, h \in Gen : \A j \in DOMAIN clients[h] : accepted[g] # clients[h][j]

OnePlace ==
  BacklogOnce /\ ClientsOnce /\ AcceptedOnce /\ BacklogApart /\ AcceptedApart

\* Nothing is sent on a connection before it is among the clients; one that
\* has not been opened is nowhere.
Fresh ==
  /\ \A k \in Conn : peerEnd[k] = "none" =>
       /\ Silent(k) /\ relayEnd[k] = "none"
       /\ \A g \in Gen : ~ Holds(g, k)
  /\ \A g \in Gen : \A i \in DOMAIN backlog[g] : Silent(backlog[g][i])
  /\ \A g \in Gen : accepted[g] # NoConn => Silent(accepted[g])

\* ReceivesContiguously, for what has been read and what has not.
InOrder ==
  \A k \in Conn :
    /\ \A i \in 1..Len(received[k]) : received[k][i] = joinedAt[k] + i
    /\ \A i \in 1..Len(wire[k]) :
         wire[k][i] = joinedAt[k] + Len(received[k]) + i

\* What the client at place i has been sent up to, while the broadcast has
\* been through index of them.
Due(i) == IF engine = "sending" /\ i > index THEN packet - 1 ELSE packet

UpToDate ==
  Up => \A i \in DOMAIN clients[gen] :
          LET k == clients[gen][i] IN
          peerEnd[k] = "open" =>
            joinedAt[k] + Len(received[k]) + Len(wire[k]) = Due(i)

RelayInv ==
  /\ Typed
  /\ Instances
  /\ RelayIsReachable
  /\ Round
  /\ OnePlace
  /\ Fresh
  /\ OpenIsKnown
  /\ InOrder
  /\ UpToDate

\* What a reader of the socket may do to it.
PeerStep ==
  /\ \E k \in Conn :
       \/ OpenConnection(k)
       \/ \E n \in 1..Len(wire[k]) : ReadLines(k, n)
       \/ peerEnd[k] = "open" /\ ClosePeerEnd(k)
  /\ UNCHANGED relayVars

RelayStep == RelayNext \/ PeerStep
-----------------------------------------------------------------------------
(* Types.                                                                  *)

\* A client is in the list at one place, so the list is no longer than there
\* are connections.
LEMMA ClientsBounded ==
  ASSUME Typed, ClientsOnce, NEW g \in Gen
  PROVE  /\ Len(clients[g]) \in 0..Cardinality(Conn)
         /\ Cardinality(Conn) \in Nat
<1> DEFINE q == clients[g]
<1>1. q \in Seq(Conn) /\ Len(q) \in Nat /\ DOMAIN q = 1..Len(q)
      /\ q \in [1..Len(q) -> Conn]
  BY LenProperties DEF Typed, RelayTypeOK
<1>2. \A i, j \in 1..Len(q) : q[i] = q[j] => i = j
  BY <1>1 DEF ClientsOnce
<1>3. q \in Injection(1..Len(q), Conn)
  BY <1>1, <1>2 DEF Injection, IsInjective
<1>4. IsFiniteSet(Conn) /\ Cardinality(Conn) \in Nat
  BY SocketAssumption, FS_Interval, FS_CardinalityType DEF Conn
<1>5. Cardinality(1..Len(q)) = Len(q)
  BY <1>1, FS_Interval
<1>6. QED
  BY <1>1, <1>3, <1>4, <1>5, FS_Injection

\* An engine that is not down has an instance.
LEMMA GenStarted ==
  ASSUME Typed, Instances, engine # "down"
  PROVE  gen \in Gen
BY SocketAssumption DEF Typed, RelayTypeOK, Instances, Gen

\* There is a number of connections.
LEMMA ConnCounted == Cardinality(Conn) \in Nat /\ 0 \in 0..Cardinality(Conn)
<1>1. Cardinality(Conn) \in Nat
  BY SocketAssumption, FS_Interval, FS_CardinalityType DEF Conn
<1>2. QED
  BY <1>1

\* Backlogs and client lists are lists of connections.
LEMMA Lists ==
  ASSUME Typed, NEW g \in Gen
  PROVE  /\ backlog[g] \in Seq(Conn) /\ Len(backlog[g]) \in Nat
         /\ DOMAIN backlog[g] = 1..Len(backlog[g])
         /\ \A i \in DOMAIN backlog[g] : backlog[g][i] \in Conn /\ backlog[g][i] # NoConn
         /\ clients[g] \in Seq(Conn) /\ Len(clients[g]) \in Nat
         /\ DOMAIN clients[g] = 1..Len(clients[g])
         /\ \A i \in DOMAIN clients[g] : clients[g][i] \in Conn /\ clients[g][i] # NoConn
<1>1. backlog[g] \in Seq(Conn) /\ clients[g] \in Seq(Conn)
  BY DEF Typed, RelayTypeOK
<1>2. \A q \in Seq(Conn) : /\ Len(q) \in Nat /\ DOMAIN q = 1..Len(q)
                           /\ \A i \in DOMAIN q : q[i] \in Conn
  BY LenProperties, ElementOfSeq
<1>3. NoConn \notin Conn
  BY SocketAssumption DEF Conn
<1>4. QED
  BY <1>1, <1>2, <1>3

\* What is left of a client list is a list of clients.
LEMMA WithoutType ==
  ASSUME NEW q \in Seq(Conn), NEW S
  PROVE  Without(q, S) \in Seq(Conn)
<1>1. {i \in DOMAIN q : q[i] \notin S} \in SUBSET DOMAIN q
  OBVIOUS
<1>2. QED
  BY <1>1, KeptAtFacts DEF Without

\* Closing the relay's ends leaves every end in its range.
LEMMA ClosedEndsType ==
  ASSUME relayEnd \in [Conn -> {"none", "open", "closed"}], NEW S
  PROVE  ClosedEnds(S) \in [Conn -> {"none", "open", "closed"}]
BY DEF ClosedEnds

\* A dropped listener leaves the ranges, and no backlog behind.
LEMMA DropListenerType ==
  ASSUME Typed, NEW g \in Gen, DropListener(g), gen' = gen
  PROVE  /\ listening' \subseteq 1..gen'
         /\ listening' = listening \ {g}
         /\ backlog' \in [Gen -> Seq(Conn)]
         /\ \A h \in Gen \ listening' : backlog'[h] = <<>>
         /\ relayEnd' \in [Conn -> {"none", "open", "closed"}]
<1>1. <<>> \in Seq(Conn)
  BY EmptySeq
<1>2. QED
  BY <1>1, ClosedEndsType DEF Typed, RelayTypeOK, DropListener

\* The engine's thread keeps the types.
LEMMA EngineType ==
  ASSUME RelayInv,
         \/ StartServer \/ BeginBroadcast \/ SendToNext \/ EndBroadcast
         \/ ShutDown
  PROVE  Typed'
<1> USE SocketAssumption, RelayAssumption DEF Engine, Accepter
<1>1. Typed /\ Instances /\ Round /\ ClientsOnce
  BY DEF RelayInv, OnePlace
<1>2. CASE StartServer
  <2>1. /\ gen' = gen + 1 /\ gen' \in Gen /\ gen \in Nat /\ gen' \in 0..MaxGen
        /\ 1..gen \subseteq 1..gen' /\ gen' \in 1..gen'
    BY <1>1, <1>2 DEF Typed, RelayTypeOK, StartServer, Gen
  <2>2. /\ listening' \subseteq 1..gen' /\ path' \in 0..gen'
        /\ \A g \in listening' : fdOpen'[g] \/ accepter'[g] = "blocked"
    <3>1. listening' = listening \cup {gen'} /\ path' = gen'
      BY <1>2 DEF StartServer
    <3>2. listening \subseteq Gen /\ gen' \notin listening
      <4>1. listening \subseteq 1..gen /\ gen \in 0..MaxGen
        BY <1>1 DEF Typed, RelayTypeOK
      <4>2. QED
        BY <4>1, <2>1 DEF Gen
    <3>3. \A g \in Gen : fdOpen'[g] = (g = gen' \/ fdOpen[g])
      BY <1>1, <1>2 DEF Typed, RelayTypeOK, StartServer
    <3>4. \A g \in Gen : g # gen' => accepter'[g] = accepter[g]
      BY <1>1, <1>2 DEF Typed, RelayTypeOK, StartServer
    <3>5. \A g \in listening' : fdOpen'[g] \/ accepter'[g] = "blocked"
      <4>1. \A g \in listening : fdOpen[g] \/ accepter[g] = "blocked"
        BY <1>1 DEF Typed, RelayTypeOK
      <4>2. QED
        BY <4>1, <2>1, <3>1, <3>2, <3>3, <3>4
    <3>6. listening' \subseteq 1..gen' /\ path' \in 0..gen'
      <4>1. listening \subseteq 1..gen
        BY <1>1 DEF Typed, RelayTypeOK
      <4>2. QED
        BY <4>1, <2>1, <3>1
    <3>7. QED
      BY <3>5, <3>6
  <2>3. \A g \in Gen : (accepted'[g] \in Conn) <=> (accepter'[g] = "adding")
    <3>1. accepter[gen'] = "none"
      BY <1>1, <2>1 DEF Instances
    <3>2. QED
      BY <1>1, <1>2, <2>1, <3>1 DEF Typed, RelayTypeOK, StartServer
  <2>4. \A g \in Gen : lock'[g] <=> (g = gen' /\ engine' = "sending")
    BY <1>1, <1>2 DEF Typed, RelayTypeOK, StartServer
  <2>5. QED
    BY <1>1, <1>2, <2>1, <2>2, <2>3, <2>4 DEF Typed, RelayTypeOK, StartServer
<1>3. CASE BeginBroadcast
  <2>1. gen \in Gen
    BY <1>1, <1>3, GenStarted DEF BeginBroadcast
  <2>2. \A g \in Gen : lock'[g] <=> (g = gen' /\ engine' = "sending")
    BY <1>1, <1>3, <2>1 DEF Typed, RelayTypeOK, BeginBroadcast
  <2>3. packet' \in 0..MaxPackets /\ index' = 0 /\ dead' = {}
    BY <1>1, <1>3 DEF Typed, RelayTypeOK, BeginBroadcast
  <2>4. QED
    BY <1>1, <1>3, <2>2, <2>3, ConnCounted
       DEF Typed, RelayTypeOK, BeginBroadcast, socketVars
<1>4. CASE SendToNext
  <2> DEFINE k == clients[gen][index + 1]
  <2>1. /\ gen \in Gen /\ index \in Nat /\ index < Len(clients[gen])
        /\ Len(clients[gen]) \in 0..Cardinality(Conn) /\ Cardinality(Conn) \in Nat
    <3>1. gen \in Gen /\ index < Len(clients[gen])
      BY <1>1, <1>4, GenStarted DEF SendToNext
    <3>2. Len(clients[gen]) \in 0..Cardinality(Conn) /\ Cardinality(Conn) \in Nat
      BY <1>1, <3>1, ClientsBounded
    <3>3. index \in 0..Cardinality(Conn)
      BY <1>1 DEF Typed, RelayTypeOK
    <3>4. QED
      BY <3>1, <3>2, <3>3
  <2>2. k \in Conn
    <3>1. clients[gen] \in Seq(Conn) /\ index + 1 \in 1..Len(clients[gen])
      BY <1>1, <2>1 DEF Typed, RelayTypeOK
    <3>2. QED
      BY <3>1, ElementOfSeq
  <2>3. index' \in 0..Cardinality(Conn) /\ dead' \subseteq Conn
    <3>1. index' = index + 1
      BY <1>4 DEF SendToNext
    <3>2. dead' = dead \cup {k} \/ dead' = dead
      BY <1>4 DEF SendToNext
    <3>3. dead \subseteq Conn
      BY <1>1 DEF Typed, RelayTypeOK
    <3>4. QED
      BY <2>1, <2>2, <3>1, <3>2, <3>3
  <2>4. /\ wire' \in [Conn -> Seq(1..MaxPackets)]
        /\ \A j \in Conn : Len(wire'[j]) <= SocketBuffer
    <3>1. CASE UNCHANGED wire
      BY <1>1, <3>1 DEF Typed, RelayTypeOK
    <3>2. CASE /\ Len(wire[k]) < SocketBuffer
               /\ wire' = [wire EXCEPT ![k] = Append(@, packet)]
      <4>1. packet \in 1..MaxPackets
        <5>1. packet \in 0..MaxPackets /\ packet # 0
          BY <1>1, <1>4 DEF Round, SendToNext, Typed, RelayTypeOK
        <5>2. QED
          BY <5>1
      <4>2. wire[k] \in Seq(1..MaxPackets) /\ Len(wire[k]) \in Nat
        BY <1>1, <2>2 DEF Typed, RelayTypeOK
      <4>3. /\ Append(wire[k], packet) \in Seq(1..MaxPackets)
            /\ Len(Append(wire[k], packet)) <= SocketBuffer
        BY <3>2, <4>1, <4>2
      <4>4. QED
        BY <1>1, <2>2, <3>2, <4>3 DEF Typed, RelayTypeOK
    <3>3. QED
      BY <1>4, <3>1, <3>2 DEF SendToNext
  <2> HIDE DEF k
  <2>5. QED
    BY <1>1, <1>4, <2>3, <2>4 DEF Typed, RelayTypeOK, SendToNext
<1>5. CASE EndBroadcast
  <2>1. clients' \in [Gen -> Seq(Conn)]
    BY <1>1, <1>5, WithoutType DEF EndBroadcast, Typed, RelayTypeOK
  <2>2. relayEnd' \in [Conn -> {"none", "open", "closed"}]
    BY <1>1, <1>5, ClosedEndsType DEF EndBroadcast, Typed, RelayTypeOK
  <2>3. 0 \in 0..Cardinality(Conn)
    BY ConnCounted
  <2>4. QED
    BY <1>1, <1>5, <2>1, <2>2, <2>3 DEF Typed, RelayTypeOK, EndBroadcast
<1>6. CASE ClearRunning
  BY <1>1, <1>6 DEF Typed, RelayTypeOK, ClearRunning, socketVars
<1>7. CASE CloseServer
  <2>1. gen \in Gen
    BY <1>1, <1>7, GenStarted DEF CloseServer
  <2>2. CASE accepter[gen] = "blocked" /\ UNCHANGED <<listening, backlog, relayEnd>>
    <3>1. \A g \in listening' : fdOpen'[g] \/ accepter'[g] = "blocked"
      BY <1>1, <1>7, <2>2 DEF Typed, RelayTypeOK, CloseServer
    <3>2. \A g \in Gen : lock'[g] <=> (g = gen' /\ engine' = "sending")
      BY <1>1, <1>7 DEF Typed, RelayTypeOK, CloseServer
    <3>3. QED
      BY <1>1, <1>7, <2>2, <3>1, <3>2 DEF Typed, RelayTypeOK, CloseServer
  <2>3. CASE DropListener(gen)
    <3>1. \A g \in listening' : fdOpen'[g] \/ accepter'[g] = "blocked"
      BY <1>1, <1>7, <2>1, <2>3 DEF CloseServer, DropListener, Typed, RelayTypeOK
    <3>2. gen' = gen
      BY <1>7 DEF CloseServer
    <3>3. QED
      BY <1>1, <1>7, <2>1, <2>3, <3>1, <3>2, DropListenerType
         DEF Typed, RelayTypeOK, CloseServer
  <2>4. QED
    BY <1>7, <2>2, <2>3 DEF CloseServer
<1>8. CASE CloseClients
  <2>1. relayEnd' \in [Conn -> {"none", "open", "closed"}]
    BY <1>1, <1>8, ClosedEndsType DEF CloseClients, Typed, RelayTypeOK
  <2>2. clients' \in [Gen -> Seq(Conn)]
    BY <1>1, <1>8, EmptySeq DEF CloseClients, Typed, RelayTypeOK
  <2>3. QED
    BY <1>1, <1>8, <2>1, <2>2 DEF Typed, RelayTypeOK, CloseClients
<1>9. CASE Unlink
  BY <1>1, <1>9 DEF Typed, RelayTypeOK, Unlink
<1>10. QED
  BY <1>2, <1>3, <1>4, <1>5, <1>6, <1>7, <1>8, <1>9 DEF ShutDown

\* The accept thread, the interpreter and the end of the process keep the
\* types.
LEMMA AcceptType ==
  ASSUME RelayInv,
         \/ KillWeewx
         \/ \E g \in Gen : AcceptThread(g) \/ Collect(g)
  PROVE  Typed'
<1> USE SocketAssumption, RelayAssumption DEF Engine, Accepter
<1>1. Typed
  BY DEF RelayInv
<1>2. CASE KillWeewx
  <2>1. relayEnd' \in [Conn -> {"none", "open", "closed"}]
    BY <1>1, <1>2, ClosedEndsType DEF KillWeewx, Typed, RelayTypeOK
  <2>2. /\ clients' \in [Gen -> Seq(Conn)] /\ backlog' \in [Gen -> Seq(Conn)]
        /\ accepter' \in [Gen -> Accepter]
        /\ \A g \in Gen : ~ (accepted'[g] \in Conn) /\ accepter'[g] # "adding"
    BY <1>1, <1>2, EmptySeq DEF KillWeewx, Typed, RelayTypeOK, Conn
  <2>3. 0 \in 0..Cardinality(Conn)
    BY ConnCounted
  <2>4. QED
    BY <1>1, <1>2, <2>1, <2>2, <2>3 DEF Typed, RelayTypeOK, KillWeewx
<1>3. ASSUME NEW g \in Gen, CheckRunning(g)
      PROVE  Typed'
  BY <1>1, <1>3 DEF Typed, RelayTypeOK, CheckRunning, socketVars
<1>4. ASSUME NEW g \in Gen, CallAccept(g)
      PROVE  Typed'
  BY <1>1, <1>4 DEF Typed, RelayTypeOK, CallAccept, socketVars
<1>5. ASSUME NEW g \in Gen, TakeConnection(g)
      PROVE  Typed'
  <2> DEFINE q == backlog[g]
  <2>1. q \in Seq(Conn) /\ q # <<>>
    BY <1>1, <1>5 DEF TakeConnection, Typed, RelayTypeOK
  <2>2. Head(q) \in Conn /\ Tail(q) \in Seq(Conn) /\ <<>> \in Seq(Conn)
    BY <2>1, HeadTailProperties, EmptySeq
  <2>3. relayEnd' \in [Conn -> {"none", "open", "closed"}]
    BY <1>1, <1>5, ClosedEndsType DEF TakeConnection, Typed, RelayTypeOK
  <2>4. /\ accepted' = [accepted EXCEPT ![g] = Head(q)]
        /\ accepter' = [accepter EXCEPT ![g] = "adding"]
        /\ backlog' = [backlog EXCEPT ![g] = IF fdOpen[g] THEN Tail(q) ELSE <<>>]
        /\ listening' = IF fdOpen[g] THEN listening ELSE listening \ {g}
    BY <1>5 DEF TakeConnection, q
  <2> HIDE DEF q
  <2>5. backlog' \in [Gen -> Seq(Conn)] /\ accepted' \in [Gen -> Conn \cup {NoConn}]
    BY <1>1, <2>2, <2>4 DEF Typed, RelayTypeOK
  <2>6. \A h \in Gen : accepted'[h] \in Conn <=> accepter'[h] = "adding"
    BY <1>1, <2>2, <2>4 DEF Typed, RelayTypeOK
  <2>7. /\ listening' \subseteq 1..gen
        /\ \A h \in listening' : fdOpen[h] \/ accepter'[h] = "blocked"
        /\ \A h \in Gen \ listening' : backlog'[h] = <<>>
    <3>1. g \in listening
      BY <1>1, <1>5 DEF TakeConnection, Typed, RelayTypeOK
    <3>2. QED
      BY <1>1, <2>4, <3>1 DEF Typed, RelayTypeOK
  <2>8. /\ accepter' \in [Gen -> Accepter]
        /\ UNCHANGED <<path, wire, peerEnd, received, gen, running, fdOpen, clients,
                       lock, engine, index, dead, packet, joinedAt>>
    BY <1>1, <1>5 DEF Typed, RelayTypeOK, TakeConnection
  <2>9. QED
    BY <1>1, <2>3, <2>5, <2>6, <2>7, <2>8 DEF Typed, RelayTypeOK
<1>6. ASSUME NEW g \in Gen, AcceptFails(g)
      PROVE  Typed'
  <2>1. DropListener(g) /\ gen' = gen
    BY <1>6 DEF AcceptFails
  <2>2. \A h \in listening' : fdOpen'[h] \/ accepter'[h] = "blocked"
    <3>1. /\ \A h \in listening : fdOpen[h] \/ accepter[h] = "blocked"
          /\ accepter \in [Gen -> Accepter] /\ listening \subseteq 1..gen
      BY <1>1 DEF Typed, RelayTypeOK
    <3>2. /\ listening' = listening \ {g} /\ fdOpen' = fdOpen
          /\ accepter' = [accepter EXCEPT ![g] = "exited"]
      BY <1>6 DEF AcceptFails, DropListener
    <3>3. \A h : h # g => accepter'[h] = accepter[h]
      BY <3>1, <3>2
    <3>4. QED
      BY <3>1, <3>2, <3>3
  <2>3. /\ listening' \subseteq 1..gen
        /\ backlog' \in [Gen -> Seq(Conn)]
        /\ \A h \in Gen \ listening' : backlog'[h] = <<>>
        /\ relayEnd' \in [Conn -> {"none", "open", "closed"}]
    BY <1>1, <2>1, DropListenerType
  <2>4. /\ accepter' \in [Gen -> Accepter]
        /\ \A h \in Gen : accepted'[h] \in Conn <=> accepter'[h] = "adding"
        /\ UNCHANGED <<path, wire, peerEnd, received, gen, running, fdOpen, clients,
                       lock, accepted, engine, index, dead, packet, joinedAt>>
    BY <1>1, <1>6 DEF Typed, RelayTypeOK, AcceptFails
  <2>5. QED
    BY <1>1, <2>2, <2>3, <2>4 DEF Typed, RelayTypeOK
<1>7. ASSUME NEW g \in Gen, AddClient(g)
      PROVE  Typed'
  <2>1. accepted[g] \in Conn
    BY <1>1, <1>7 DEF AddClient, Typed, RelayTypeOK
  <2>2. clients[g] \in Seq(Conn)
    BY <1>1 DEF Typed, RelayTypeOK
  <2>3. Append(clients[g], accepted[g]) \in Seq(Conn)
    BY <2>1, <2>2
  <2>4. /\ clients' \in [Gen -> Seq(Conn)]
        /\ joinedAt' \in [Conn -> 0..MaxPackets]
        /\ accepted' \in [Gen -> Conn \cup {NoConn}]
        /\ \A h \in Gen : accepted'[h] \in Conn <=> accepter'[h] = "adding"
    BY <1>1, <1>7, <2>1, <2>3 DEF AddClient, Typed, RelayTypeOK, Conn
  <2>5. QED
    BY <1>1, <1>7, <2>4 DEF Typed, RelayTypeOK, AddClient, socketVars
<1>8. ASSUME NEW g \in Gen, Collect(g)
      PROVE  Typed'
  <2>1. relayEnd' \in [Conn -> {"none", "open", "closed"}]
    BY <1>1, <1>8, ClosedEndsType DEF Collect, Typed, RelayTypeOK
  <2>2. clients' \in [Gen -> Seq(Conn)]
    BY <1>1, <1>8, EmptySeq DEF Collect, Typed, RelayTypeOK
  <2>3. QED
    BY <1>1, <1>8, <2>1, <2>2 DEF Typed, RelayTypeOK, Collect
<1>9. QED
  BY <1>2, <1>3, <1>4, <1>5, <1>6, <1>7, <1>8 DEF AcceptThread

\* What a reader has read, and what is left on the wire.
LEMMA ReadLinesFacts ==
  ASSUME Typed, NEW k \in Conn, NEW n \in 1..Len(wire[k])
  PROVE  LET w == SubSeq(wire[k], n + 1, Len(wire[k]))
             t == SubSeq(wire[k], 1, n)
             r == received[k] \o t
         IN /\ t \in Seq(1..MaxPackets) /\ Len(t) = n
            /\ \A i \in 1..n : t[i] = wire[k][i]
            /\ w \in Seq(1..MaxPackets) /\ Len(w) = Len(wire[k]) - n
            /\ \A i \in 1..Len(w) : w[i] = wire[k][n + i]
            /\ r \in Seq(1..MaxPackets) /\ Len(r) = Len(received[k]) + n
            /\ \A i \in 1..Len(r) :
                 r[i] = IF i <= Len(received[k]) THEN received[k][i]
                        ELSE wire[k][i - Len(received[k])]
<1> DEFINE w == SubSeq(wire[k], n + 1, Len(wire[k]))
           t == SubSeq(wire[k], 1, n)
           r == received[k] \o t
<1>1. /\ wire[k] \in Seq(1..MaxPackets) /\ received[k] \in Seq(1..MaxPackets)
      /\ Len(wire[k]) \in Nat /\ Len(received[k]) \in Nat
      /\ n \in Nat /\ n <= Len(wire[k])
  BY DEF Typed, RelayTypeOK
<1>2. \A i \in 1..Len(wire[k]) : wire[k][i] \in 1..MaxPackets
  BY <1>1, ElementOfSeq
<1>3. t \in Seq(1..MaxPackets) /\ Len(t) = n /\ \A i \in 1..n : t[i] = wire[k][i]
  <2>1. \A i \in 1..n : wire[k][i] \in 1..MaxPackets
    BY <1>1, <1>2
  <2>2. QED
    BY <1>1, <2>1, SubSeqProperties
<1>4. /\ w \in Seq(1..MaxPackets) /\ Len(w) = Len(wire[k]) - n
      /\ \A i \in 1..Len(w) : w[i] = wire[k][n + i]
  <2>1. \A i \in (n + 1)..Len(wire[k]) : wire[k][i] \in 1..MaxPackets
    BY <1>1, <1>2
  <2>2. /\ w \in Seq(1..MaxPackets)
        /\ Len(w) = IF n + 1 <= Len(wire[k]) THEN Len(wire[k]) - (n + 1) + 1 ELSE 0
        /\ \A i \in 1..(Len(wire[k]) - (n + 1) + 1) : w[i] = wire[k][(n + 1) + i - 1]
    BY <1>1, <2>1, SubSeqProperties
  <2> HIDE DEF w
  <2>3. QED
    BY <1>1, <2>2
<1> HIDE DEF t
<1>5. /\ r \in Seq(1..MaxPackets) /\ Len(r) = Len(received[k]) + n
      /\ \A i \in 1..(Len(received[k]) + n) :
           r[i] = IF i <= Len(received[k]) THEN received[k][i] ELSE t[i - Len(received[k])]
  BY <1>1, <1>3, ConcatProperties
<1> HIDE DEF r
<1>6. \A i \in 1..Len(r) :
        r[i] = IF i <= Len(received[k]) THEN received[k][i]
               ELSE wire[k][i - Len(received[k])]
  <2> SUFFICES ASSUME NEW i \in 1..(Len(received[k]) + n)
               PROVE  r[i] = IF i <= Len(received[k]) THEN received[k][i]
                             ELSE wire[k][i - Len(received[k])]
    BY <1>5
  <2>1. CASE i <= Len(received[k])
    BY <2>1, <1>5
  <2>2. CASE ~ (i <= Len(received[k]))
    <3>1. i - Len(received[k]) \in 1..n
      BY <2>2, <1>1
    <3>2. QED
      BY <2>2, <3>1, <1>3, <1>5
  <2>3. QED
    BY <2>1, <2>2
<1>7. QED
  BY <1>3, <1>4, <1>5, <1>6 DEF r, t

\* A reader keeps the types.
LEMMA PeerType ==
  ASSUME RelayInv, PeerStep
  PROVE  Typed'
<1>1. Typed
  BY DEF RelayInv
<1>2. UNCHANGED relayVars
  BY DEF PeerStep
<1>3. ASSUME NEW k \in Conn, OpenConnection(k)
      PROVE  Typed'
  <2>1. path \in listening /\ path \in Gen
    BY <1>1, <1>3, SocketAssumption
       DEF OpenConnection, Connectable, Typed, RelayTypeOK, Gen
  <2>2. Append(backlog[path], k) \in Seq(Conn)
    BY <1>1, <2>1 DEF Typed, RelayTypeOK
  <2>3. QED
    BY <1>1, <1>2, <1>3, <2>1, <2>2
       DEF Typed, RelayTypeOK, OpenConnection, relayVars
<1>4. ASSUME NEW k \in Conn, NEW n \in 1..Len(wire[k]), ReadLines(k, n)
      PROVE  Typed'
  <2>1. /\ wire'[k] \in Seq(1..MaxPackets) /\ received'[k] \in Seq(1..MaxPackets)
        /\ Len(wire'[k]) <= SocketBuffer
    <3>1. /\ Len(wire[k]) \in Nat /\ SocketBuffer \in Nat
          /\ Len(wire[k]) <= SocketBuffer
      BY <1>1, SocketAssumption DEF Typed, RelayTypeOK
    <3>2. /\ wire'[k] = SubSeq(wire[k], n + 1, Len(wire[k]))
          /\ received'[k] = received[k] \o SubSeq(wire[k], 1, n)
      BY <1>1, <1>4 DEF ReadLines, Typed, RelayTypeOK
    <3>3. QED
      BY <1>1, <3>1, <3>2, ReadLinesFacts
  <2>2. /\ wire' = [wire EXCEPT ![k] = wire'[k]]
        /\ received' = [received EXCEPT ![k] = received'[k]]
    BY <1>1, <1>4 DEF ReadLines, Typed, RelayTypeOK
  <2>3. QED
    BY <1>1, <1>2, <1>4, <2>1, <2>2 DEF Typed, RelayTypeOK, ReadLines, relayVars
<1>5. ASSUME NEW k \in Conn, ClosePeerEnd(k)
      PROVE  Typed'
  BY <1>1, <1>2, <1>5 DEF Typed, RelayTypeOK, ClosePeerEnd, relayVars
<1>6. QED
  BY <1>3, <1>4, <1>5 DEF PeerStep

\* No step leaves the ranges.
LEMMA TypedStep ==
  ASSUME RelayInv, RelayStep
  PROVE  Typed'
BY EngineType, AcceptType, PeerType DEF RelayStep, RelayNext
-----------------------------------------------------------------------------
(* Instances and the broadcast.                                            *)

\* What has not been started stays as it is, and the server socket of the
\* instance that is served stays open until shutDown.
LEMMA InstancesStep ==
  ASSUME RelayInv, RelayStep
  PROVE  Instances'
<1>1. Typed /\ Instances /\ gen \in Int
  BY DEF RelayInv, Typed, RelayTypeOK
<1>2. CASE StartServer
  <2>1. gen' = gen + 1 /\ gen' # 0 /\ gen' \in Gen
    <3>1. gen \in 0..MaxGen /\ gen < MaxGen /\ gen' = gen + 1 /\ MaxGen \in Nat
      BY <1>1, <1>2, SocketAssumption DEF StartServer, Typed, RelayTypeOK
    <3>2. QED
      BY <3>1 DEF Gen
  <2>2. \A g \in Gen : g > gen' => g > gen /\ g # gen'
    BY <1>1, <2>1 DEF Gen
  <2>3. QED
    BY <1>1, <1>2, <2>1, <2>2 DEF Instances, StartServer, Typed, RelayTypeOK
<1>3. CASE BeginBroadcast \/ SendToNext \/ ClearRunning \/ Unlink
  BY <1>1, <1>3 DEF Instances, BeginBroadcast, SendToNext, ClearRunning, Unlink
<1>4. CASE EndBroadcast \/ CloseClients
  BY <1>1, <1>4 DEF Instances, EndBroadcast, CloseClients, Typed, RelayTypeOK
<1>5. CASE CloseServer
  BY <1>1, <1>5 DEF Instances, CloseServer
<1>6. CASE KillWeewx
  BY <1>1, <1>6 DEF Instances, KillWeewx
<1>7. ASSUME NEW g \in Gen, AcceptThread(g)
      PROVE  Instances'
  <2>1. /\ accepter[g] # "none" /\ UNCHANGED <<gen, engine, fdOpen>>
        /\ \A h \in Gen : h # g => accepter'[h] = accepter[h] /\ clients'[h] = clients[h]
    BY <1>1, <1>7
       DEF AcceptThread, CheckRunning, CallAccept, TakeConnection, AcceptFails,
           AddClient, Typed, RelayTypeOK
  <2>2. QED
    BY <1>1, <2>1 DEF Instances
<1>8. ASSUME NEW g \in Gen, Collect(g)
      PROVE  Instances'
  BY <1>1, <1>8 DEF Instances, Collect, Typed, RelayTypeOK
<1>9. CASE PeerStep
  BY <1>1, <1>9 DEF Instances, PeerStep, relayVars
<1>10. QED
  BY <1>2, <1>3, <1>4, <1>5, <1>6, <1>7, <1>8, <1>9
     DEF RelayStep, RelayNext, ShutDown

\* The socket file and the listening socket outlast everything but shutDown
\* and the end of the process.
LEMMA ReachableStep ==
  ASSUME RelayInv, RelayStep
  PROVE  RelayIsReachable'
<1>1. Typed /\ Instances /\ RelayIsReachable
  BY DEF RelayInv
<1>2. CASE StartServer
  BY <1>1, <1>2 DEF RelayIsReachable, StartServer
<1>3. CASE BeginBroadcast \/ SendToNext \/ EndBroadcast
  BY <1>1, <1>3
     DEF RelayIsReachable, Up, BeginBroadcast, SendToNext, EndBroadcast, socketVars
<1>4. CASE ShutDown \/ KillWeewx
  BY <1>4 DEF RelayIsReachable, Up, ShutDown, ClearRunning, CloseServer,
              CloseClients, Unlink, KillWeewx
<1>5. ASSUME NEW g \in Gen, AcceptThread(g)
      PROVE  RelayIsReachable'
  <2>1. /\ UNCHANGED <<path, gen, engine>>
        /\ listening' = listening \/ (~ fdOpen[g] /\ listening' = listening \ {g})
    BY <1>5
       DEF AcceptThread, CheckRunning, CallAccept, TakeConnection, AcceptFails,
           AddClient, DropListener, socketVars
  <2>2. QED
    BY <1>1, <2>1 DEF RelayIsReachable, Up, Instances
<1>6. ASSUME NEW g \in Gen, Collect(g)
      PROVE  RelayIsReachable'
  BY <1>1, <1>6 DEF RelayIsReachable, Up, Collect
<1>7. CASE PeerStep
  BY <1>1, <1>7 DEF RelayIsReachable, Up, PeerStep, relayVars, OpenConnection,
                    ReadLines, ClosePeerEnd
<1>8. QED
  BY <1>2, <1>3, <1>4, <1>5, <1>6, <1>7 DEF RelayStep, RelayNext

\* While a packet is being sent only the broadcast itself goes on: the lock
\* keeps the accept thread from the list.
LEMMA RoundStep ==
  ASSUME RelayInv, RelayStep
  PROVE  Round'
<1>1. Typed /\ Instances /\ Round
  BY DEF RelayInv
<1>2. CASE engine' # "sending"
  BY <1>2 DEF Round
<1>3. CASE BeginBroadcast
  <2>1. gen \in Gen /\ packet \in Nat
    BY <1>1, <1>3, GenStarted DEF BeginBroadcast, Typed, RelayTypeOK
  <2>2. Len(clients[gen]) \in Nat
    BY <1>1, <2>1 DEF Typed, RelayTypeOK
  <2>3. QED
    BY <1>3, <2>1, <2>2 DEF Round, BeginBroadcast
<1>4. CASE SendToNext
  <2> DEFINE k == clients[gen][index + 1]
  <2>1. gen \in Gen /\ index \in Nat /\ Len(clients[gen]) \in Nat
    BY <1>1, <1>4, GenStarted, ConnCounted DEF SendToNext, Typed, RelayTypeOK
  <2>2. index + 1 \in DOMAIN clients[gen]
    <3>1. DOMAIN clients[gen] = 1..Len(clients[gen])
      BY <1>1, <2>1, LenProperties DEF Typed, RelayTypeOK
    <3>2. QED
      BY <3>1, <2>1, <1>4 DEF SendToNext
  <2>3. k \in ClientsOf(gen)
    BY <2>2 DEF ClientsOf
  <2>4. /\ engine = "sending" /\ index < Len(clients[gen]) /\ index' = index + 1
        /\ UNCHANGED <<clients, gen, packet, engine>>
        /\ dead' \subseteq dead \cup {k}
    BY <1>4 DEF SendToNext
  <2> HIDE DEF k
  <2>5. ClientsOf(gen)' = ClientsOf(gen)
    BY <2>4 DEF ClientsOf
  <2>6. QED
    BY <1>1, <2>1, <2>3, <2>4, <2>5 DEF Round
<1>5. ASSUME NEW g \in Gen, AcceptThread(g), engine = "sending"
      PROVE  Round'
  <2>1. gen \in Gen /\ lock[gen]
    BY <1>1, <1>5, GenStarted DEF Typed, RelayTypeOK
  <2>2. clients'[gen] = clients[gen] /\ UNCHANGED <<engine, gen, packet, index, dead>>
    BY <1>1, <1>5, <2>1
       DEF AcceptThread, CheckRunning, CallAccept, TakeConnection, AcceptFails,
           AddClient, Typed, RelayTypeOK
  <2>3. QED
    BY <1>1, <2>2 DEF Round, ClientsOf
<1>6. ASSUME NEW g \in Gen, Collect(g), engine = "sending"
      PROVE  Round'
  <2>1. gen \in Gen /\ gen # g
    BY <1>1, <1>6, GenStarted DEF Collect, Typed, RelayTypeOK
  <2>2. clients'[gen] = clients[gen] /\ UNCHANGED <<engine, gen, packet, index, dead>>
    BY <1>1, <1>6, <2>1 DEF Collect, Typed, RelayTypeOK
  <2>3. QED
    BY <1>1, <2>2 DEF Round, ClientsOf
<1>7. CASE PeerStep
  BY <1>1, <1>7 DEF Round, PeerStep, relayVars, ClientsOf
<1>8. QED
  <2>1. CASE StartServer \/ EndBroadcast \/ ShutDown \/ KillWeewx
    BY <1>2, <2>1 DEF StartServer, EndBroadcast, ShutDown, ClearRunning, CloseServer,
                      CloseClients, Unlink, KillWeewx
  <2>2. ASSUME NEW g \in Gen, AcceptThread(g) \/ Collect(g)
        PROVE  engine' = engine
    BY <2>2 DEF AcceptThread, CheckRunning, CallAccept, TakeConnection,
                AcceptFails, AddClient, Collect
  <2>3. QED
    BY <1>2, <1>3, <1>4, <1>5, <1>6, <1>7, <2>1, <2>2 DEF RelayStep, RelayNext
-----------------------------------------------------------------------------
(* Places.                                                                 *)

\* t has elements of q, each of them for one position.
PartOf(t, q) ==
  \A m, n \in DOMAIN t : \E i, k \in DOMAIN q :
    t[m] = q[i] /\ t[n] = q[k] /\ (m # n => i # k)

\* Parts of a client list.
LEMMA PartOfFacts ==
  ASSUME NEW q \in Seq(Conn)
  PROVE  /\ PartOf(q, q)
         /\ PartOf(<<>>, q)
         /\ q # <<>> => PartOf(Tail(q), q)
         /\ \A S : PartOf(Without(q, S), q)
<1>1. PartOf(q, q) /\ PartOf(<<>>, q)
  BY DEF PartOf
<1>2. ASSUME q # <<>>
      PROVE  PartOf(Tail(q), q)
  <2>1. /\ Len(q) \in Nat /\ DOMAIN q = 1..Len(q)
        /\ DOMAIN Tail(q) = 1..(Len(q) - 1)
        /\ \A i \in 1..(Len(q) - 1) : i + 1 \in 1..Len(q) /\ Tail(q)[i] = q[i + 1]
    BY <1>2, TailFacts
  <2>2. ASSUME NEW m \in DOMAIN Tail(q), NEW n \in DOMAIN Tail(q)
        PROVE  \E i, k \in DOMAIN q : /\ Tail(q)[m] = q[i] /\ Tail(q)[n] = q[k]
                                      /\ m # n => i # k
    <3>1. m + 1 \in DOMAIN q /\ n + 1 \in DOMAIN q /\ (m # n => m + 1 # n + 1)
      BY <2>1
    <3>2. Tail(q)[m] = q[m + 1] /\ Tail(q)[n] = q[n + 1]
      BY <2>1
    <3>3. QED
      BY <3>1, <3>2
  <2>3. QED
    BY <2>2, Zenon DEF PartOf
<1>3. ASSUME NEW S
      PROVE  PartOf(Without(q, S), q)
  <2> DEFINE I == {i \in DOMAIN q : q[i] \notin S}
             t == KeptAt(q, I)
  <2>1. I \in SUBSET DOMAIN q
    OBVIOUS
  <2>2. \A n \in DOMAIN t : \E i \in I : Rank(i, I) = n /\ t[n] = q[i]
    BY <2>1, KeptAtFacts
  <2>3. Without(q, S) = t
    BY DEF Without
  <2> HIDE DEF t
  <2>4. ASSUME NEW m \in DOMAIN t, NEW n \in DOMAIN t
        PROVE  \E i, k \in DOMAIN q : t[m] = q[i] /\ t[n] = q[k] /\ (m # n => i # k)
    <3>1. PICK i \in I : Rank(i, I) = m /\ t[m] = q[i]
      BY <2>2
    <3>2. PICK k \in I : Rank(k, I) = n /\ t[n] = q[k]
      BY <2>2
    <3> HIDE DEF I
    <3>3. m # n => i # k
      BY <3>1, <3>2
    <3>4. i \in DOMAIN q /\ k \in DOMAIN q
      BY <2>1
    <3>5. QED
      BY <3>1, <3>2, <3>3, <3>4
  <2> HIDE DEF I
  <2>5. PartOf(t, q)
    BY <2>4 DEF PartOf
  <2>6. QED
    BY <2>3, <2>5
<1>4. QED
  BY <1>1, <1>2, <1>3

\* What becomes of the elements of a list when those in S are taken out.
LEMMA WithoutElements ==
  ASSUME NEW q \in Seq(Conn), NEW S
  PROVE  /\ DOMAIN Without(q, S) = 1..Len(Without(q, S))
         /\ Len(Without(q, S)) \in Nat
         /\ \A n \in DOMAIN Without(q, S) :
              \E i \in DOMAIN q : q[i] \notin S /\ Without(q, S)[n] = q[i]
         /\ \A i \in DOMAIN q : q[i] \notin S =>
              \E n \in DOMAIN Without(q, S) : Without(q, S)[n] = q[i]
<1> DEFINE I == {i \in DOMAIN q : q[i] \notin S}
           t == KeptAt(q, I)
<1>1. I \in SUBSET DOMAIN q
  OBVIOUS
<1>2. /\ t \in Seq(Conn) /\ DOMAIN t = 1..Len(t)
      /\ \A n \in DOMAIN t : \E i \in I : Rank(i, I) = n /\ t[n] = q[i]
      /\ \A i \in I : Rank(i, I) \in DOMAIN t /\ t[Rank(i, I)] = q[i]
  BY <1>1, KeptAtFacts
<1>3. Without(q, S) = t
  BY DEF Without
<1> HIDE DEF t
<1>4. Len(t) \in Nat
  BY <1>2
<1>5. QED
  BY <1>2, <1>3, <1>4

\* Where lists lose elements and nothing else happens, a connection is still
\* in one place.
LEMMA FewerPlaces ==
  ASSUME Typed, OnePlace,
         \A g \in Gen : PartOf(backlog'[g], backlog[g]),
         \A g \in Gen : PartOf(clients'[g], clients[g]),
         \A g \in Gen : accepted'[g] \in {accepted[g], NoConn}
  PROVE  OnePlace'
<1>1. \A g \in Gen : \A i \in DOMAIN backlog[g] : backlog[g][i] # NoConn
  BY Lists
<1>2. \A g \in Gen : \A j \in DOMAIN clients[g] : clients[g][j] # NoConn
  BY Lists
<1>3. \A g \in Gen : \A m \in DOMAIN backlog'[g] :
        \E i \in DOMAIN backlog[g] : backlog'[g][m] = backlog[g][i]
  BY DEF PartOf
<1>4. \A g \in Gen : \A m \in DOMAIN clients'[g] :
        \E i \in DOMAIN clients[g] : clients'[g][m] = clients[g][i]
  BY DEF PartOf
<1>5. BacklogOnce'
  BY <1>3 DEF PartOf, OnePlace, BacklogOnce
<1>6. ClientsOnce'
  BY <1>4 DEF PartOf, OnePlace, ClientsOnce
<1>7. AcceptedOnce'
  BY DEF OnePlace, AcceptedOnce
<1>8. BacklogApart'
  BY <1>1, <1>3, <1>4 DEF OnePlace, BacklogApart
<1>9. AcceptedApart'
  BY <1>2, <1>4 DEF OnePlace, AcceptedApart
<1>10. QED
  BY <1>5, <1>6, <1>7, <1>8, <1>9 DEF OnePlace

\* accept() hands the first connection of the backlog to the accept thread.
LEMMA TakeOnePlace ==
  ASSUME RelayInv, NEW g \in Gen, TakeConnection(g)
  PROVE  OnePlace'
<1> DEFINE q == backlog[g]
<1>1. Typed /\ OnePlace /\ q \in Seq(Conn) /\ q # <<>>
  BY DEF RelayInv, Typed, RelayTypeOK, TakeConnection
<1>2. /\ 1 \in DOMAIN q /\ Head(q) = q[1] /\ Head(q) \in Conn
      /\ \A m \in DOMAIN Tail(q) : m + 1 \in DOMAIN q /\ m + 1 # 1 /\ Tail(q)[m] = q[m + 1]
  BY <1>1, TailFacts
<1>3. /\ accepted' = [accepted EXCEPT ![g] = Head(q)]
      /\ \A h \in Gen : h # g => backlog'[h] = backlog[h]
      /\ backlog'[g] = Tail(q) \/ backlog'[g] = <<>>
      /\ clients' = clients
  BY <1>1 DEF TakeConnection, Typed, RelayTypeOK
<1>4. /\ \A h \in Gen : accepted'[h] = IF h = g THEN q[1] ELSE accepted[h]
  BY <1>1, <1>2, <1>3 DEF Typed
<1>5. \A h \in Gen : \A m \in DOMAIN backlog'[h] :
        \E i \in DOMAIN backlog[h] : backlog'[h][m] = backlog[h][i] /\ (h = g => i # 1)
  <2>1. \A m \in DOMAIN <<>> : FALSE
    OBVIOUS
  <2>2. ASSUME NEW m \in DOMAIN backlog'[g]
        PROVE  \E i \in DOMAIN q : backlog'[g][m] = q[i] /\ i # 1
    BY <1>2, <1>3, <2>1
  <2>3. QED
    BY <1>3, <2>2
<1> HIDE DEF q
<1>6. \A h \in Gen : PartOf(backlog'[h], backlog[h])
  <2>1. \A h \in Gen : /\ PartOf(backlog[h], backlog[h]) /\ PartOf(<<>>, backlog[h])
    BY <1>1, Lists, PartOfFacts
  <2>2. PartOf(Tail(q), q)
    BY <1>1, PartOfFacts
  <2>3. QED
    BY <1>3, <2>1, <2>2 DEF q
<1>7. BacklogOnce'
  BY <1>1, <1>6 DEF PartOf, OnePlace, BacklogOnce
<1>8. ClientsOnce'
  BY <1>1, <1>3 DEF OnePlace, ClientsOnce
<1>9. AcceptedOnce'
  BY <1>1, <1>2, <1>4 DEF OnePlace, AcceptedOnce, BacklogApart, q
<1>10. BacklogApart'
  BY <1>1, <1>2, <1>3, <1>4, <1>5 DEF OnePlace, BacklogApart, BacklogOnce, q
<1>11. AcceptedApart'
  BY <1>1, <1>2, <1>3, <1>4 DEF OnePlace, BacklogApart, AcceptedApart, q
<1>12. QED
  BY <1>7, <1>8, <1>9, <1>10, <1>11 DEF OnePlace

\* The accept thread hands its connection to the list of clients.
LEMMA AddOnePlace ==
  ASSUME RelayInv, NEW g \in Gen, AddClient(g)
  PROVE  OnePlace'
<1> DEFINE k == accepted[g]
           q == clients[g]
           L == Len(q)
<1>1. Typed /\ OnePlace /\ q \in Seq(Conn) /\ k \in Conn /\ k # NoConn
  BY SocketAssumption DEF RelayInv, Typed, RelayTypeOK, AddClient, Conn
<1>2. /\ L \in Nat /\ DOMAIN q = 1..L
      /\ DOMAIN Append(q, k) = 1..(L + 1)
      /\ \A i \in 1..L : Append(q, k)[i] = q[i]
      /\ Append(q, k)[L + 1] = k
  BY <1>1, AppendFacts
<1>3. /\ backlog' = backlog
      /\ \A h \in Gen : accepted'[h] = IF h = g THEN NoConn ELSE accepted[h]
      /\ \A h \in Gen : h # g => clients'[h] = clients[h]
      /\ clients'[g] = Append(q, k)
  BY <1>1 DEF AddClient, Typed, RelayTypeOK, socketVars
<1>4. \A h \in Gen : \A m \in DOMAIN clients'[h] :
        \/ m \in DOMAIN clients[h] /\ clients'[h][m] = clients[h][m]
        \/ h = g /\ m = L + 1 /\ clients'[h][m] = k
  BY <1>2, <1>3
<1>5. \A h \in Gen : \A m \in DOMAIN clients[h] : clients[h][m] # k /\ clients[h][m] # NoConn
  <2>1. \A h \in Gen : \A m \in DOMAIN clients[h] : clients[h][m] \in Conn
    BY <1>1, LenProperties DEF Typed, RelayTypeOK
  <2>2. QED
    BY <1>1, <2>1, SocketAssumption DEF OnePlace, AcceptedApart, Conn
<1> HIDE DEF k, q, L
<1>6. BacklogOnce'
  BY <1>1, <1>3 DEF OnePlace, BacklogOnce
<1>7. ClientsOnce'
  <2> SUFFICES ASSUME NEW h \in Gen, NEW j \in Gen, NEW m \in DOMAIN clients'[h],
                      NEW n \in DOMAIN clients'[j], clients'[h][m] = clients'[j][n]
               PROVE  h = j /\ m = n
    BY DEF ClientsOnce
  <2>1. \/ m \in DOMAIN clients[h] /\ clients'[h][m] = clients[h][m]
        \/ h = g /\ m = L + 1 /\ clients'[h][m] = k
    BY <1>4
  <2>2. \/ n \in DOMAIN clients[j] /\ clients'[j][n] = clients[j][n]
        \/ j = g /\ n = L + 1 /\ clients'[j][n] = k
    BY <1>4
  <2>3. m \in DOMAIN clients[h] => clients[h][m] # k
    BY <1>5
  <2>4. n \in DOMAIN clients[j] => clients[j][n] # k
    BY <1>5
  <2>5. \/ h = g /\ m = L + 1 /\ j = g /\ n = L + 1
        \/ /\ m \in DOMAIN clients[h] /\ n \in DOMAIN clients[j]
           /\ clients[h][m] = clients[j][n]
    BY <2>1, <2>2, <2>3, <2>4
  <2>6. QED
    BY <2>5, <1>1 DEF OnePlace, ClientsOnce
<1>8. AcceptedOnce'
  BY <1>1, <1>3 DEF OnePlace, AcceptedOnce
<1>9. BacklogApart'
  <2>1. \A h \in Gen : \A i \in DOMAIN backlog[h] : backlog[h][i] # NoConn /\ backlog[h][i] # k
    <3>1. \A h \in Gen : \A i \in DOMAIN backlog[h] : backlog[h][i] \in Conn
      BY <1>1, LenProperties DEF Typed, RelayTypeOK
    <3>2. QED
      BY <3>1, <1>1, SocketAssumption DEF OnePlace, BacklogApart, Conn, k
  <2>2. QED
    BY <1>1, <1>3, <1>4, <2>1 DEF OnePlace, BacklogApart
<1>10. AcceptedApart'
  <2>1. \A h \in Gen : h # g => accepted[h] # k
    BY <1>1 DEF OnePlace, AcceptedOnce, k
  <2>2. QED
    BY <1>1, <1>3, <1>4, <1>5, <2>1 DEF OnePlace, AcceptedApart
<1>11. QED
  BY <1>6, <1>7, <1>8, <1>9, <1>10 DEF OnePlace

\* A connection is opened to an instance that listens.
LEMMA OpenedWhere ==
  ASSUME Typed, NEW k \in Conn, OpenConnection(k)
  PROVE  path \in Gen /\ backlog[path] \in Seq(Conn)
<1>1. path \in listening
  BY DEF OpenConnection, Connectable
<1>2. listening \subseteq 1..gen /\ gen \in 0..MaxGen /\ backlog \in [Gen -> Seq(Conn)]
  BY DEF Typed, RelayTypeOK
<1>3. path \in Gen
  BY <1>1, <1>2, SocketAssumption DEF Gen
<1>4. QED
  BY <1>2, <1>3

\* A connection that is opened was nowhere.
LEMMA OpenOnePlace ==
  ASSUME RelayInv, NEW k \in Conn, OpenConnection(k), UNCHANGED relayVars
  PROVE  OnePlace'
<1> DEFINE q == backlog[path]
           L == Len(q)
<1>1. Typed /\ OnePlace /\ path \in Gen /\ q \in Seq(Conn)
  BY OpenedWhere DEF RelayInv
<1>2. /\ L \in Nat /\ DOMAIN q = 1..L
      /\ DOMAIN Append(q, k) = 1..(L + 1)
      /\ \A i \in 1..L : Append(q, k)[i] = q[i]
      /\ Append(q, k)[L + 1] = k
  BY <1>1, AppendFacts
<1>3. /\ clients' = clients /\ accepted' = accepted
      /\ \A h \in Gen : h # path => backlog'[h] = backlog[h]
      /\ backlog'[path] = Append(q, k)
  BY <1>1 DEF OpenConnection, relayVars, Typed, RelayTypeOK
<1>4. \A h \in Gen : \A m \in DOMAIN backlog'[h] :
        \/ m \in DOMAIN backlog[h] /\ backlog'[h][m] = backlog[h][m]
        \/ h = path /\ m = L + 1 /\ backlog'[h][m] = k
  BY <1>2, <1>3
<1>5. \A h \in Gen : ~ Holds(h, k)
  BY DEF RelayInv, Fresh, OpenConnection, Unused
<1>6. \A h \in Gen :
        /\ \A m \in DOMAIN backlog[h] : backlog[h][m] # k
        /\ accepted[h] # k
        /\ \A m \in DOMAIN clients[h] : clients[h][m] # k
  BY <1>5 DEF Holds, ClientsOf
<1> HIDE DEF q, L
<1>7. BacklogOnce'
  <2> SUFFICES ASSUME NEW h \in Gen, NEW j \in Gen, NEW m \in DOMAIN backlog'[h],
                      NEW n \in DOMAIN backlog'[j], backlog'[h][m] = backlog'[j][n]
               PROVE  h = j /\ m = n
    BY DEF BacklogOnce
  <2>1. \/ m \in DOMAIN backlog[h] /\ backlog'[h][m] = backlog[h][m]
        \/ h = path /\ m = L + 1 /\ backlog'[h][m] = k
    BY <1>4
  <2>2. \/ n \in DOMAIN backlog[j] /\ backlog'[j][n] = backlog[j][n]
        \/ j = path /\ n = L + 1 /\ backlog'[j][n] = k
    BY <1>4
  <2>3. m \in DOMAIN backlog[h] => backlog[h][m] # k
    BY <1>6
  <2>4. n \in DOMAIN backlog[j] => backlog[j][n] # k
    BY <1>6
  <2>5. \/ h = path /\ m = L + 1 /\ j = path /\ n = L + 1
        \/ /\ m \in DOMAIN backlog[h] /\ n \in DOMAIN backlog[j]
           /\ backlog[h][m] = backlog[j][n]
    BY <2>1, <2>2, <2>3, <2>4
  <2>6. QED
    BY <2>5, <1>1 DEF OnePlace, BacklogOnce
<1>8. BacklogApart'
  BY <1>1, <1>3, <1>4, <1>6 DEF OnePlace, BacklogApart
<1>9. ClientsOnce' /\ AcceptedOnce' /\ AcceptedApart'
  BY <1>1, <1>3 DEF OnePlace, ClientsOnce, AcceptedOnce, AcceptedApart
<1>10. QED
  BY <1>7, <1>8, <1>9 DEF OnePlace

\* The steps that only take connections out of lists.
Drops ==
  \/ EndBroadcast \/ CloseServer \/ CloseClients \/ KillWeewx
  \/ \E g \in Gen : AcceptFails(g) \/ Collect(g)

\* They leave every list with a part of what it had.
LEMMA DropsFacts ==
  ASSUME Typed, Drops
  PROVE  /\ \A g \in Gen : backlog'[g] \in {backlog[g], <<>>}
         /\ \A g \in Gen : accepted'[g] \in {accepted[g], NoConn}
         /\ \A g \in Gen : \/ clients'[g] \in {clients[g], <<>>}
                           \/ clients'[g] = Without(clients[g], dead)
<1>1. CASE EndBroadcast
  BY <1>1 DEF EndBroadcast, Typed, RelayTypeOK
<1>2. CASE CloseServer
  BY <1>2 DEF CloseServer, DropListener, Typed, RelayTypeOK
<1>3. CASE CloseClients
  BY <1>3 DEF CloseClients, Typed, RelayTypeOK
<1>4. CASE KillWeewx
  BY <1>4 DEF KillWeewx
<1>5. ASSUME NEW g \in Gen, AcceptFails(g) \/ Collect(g)
      PROVE  /\ \A h \in Gen : backlog'[h] \in {backlog[h], <<>>}
             /\ accepted' = accepted
             /\ \A h \in Gen : clients'[h] \in {clients[h], <<>>}
  BY <1>5 DEF AcceptFails, Collect, DropListener, Typed, RelayTypeOK
<1>6. QED
  BY <1>1, <1>2, <1>3, <1>4, <1>5 DEF Drops

\* Every connection stays in one place.
LEMMA OnePlaceStep ==
  ASSUME RelayInv, RelayStep
  PROVE  OnePlace'
<1>1. Typed /\ OnePlace /\ Instances
  BY DEF RelayInv
<1>2. \A g \in Gen : /\ PartOf(backlog[g], backlog[g]) /\ PartOf(<<>>, backlog[g])
                     /\ PartOf(clients[g], clients[g]) /\ PartOf(<<>>, clients[g])
                     /\ \A S : PartOf(Without(clients[g], S), clients[g])
  BY <1>1, Lists, PartOfFacts
<1>3. CASE UNCHANGED <<backlog, clients, accepted>>
  BY <1>1, <1>3 DEF OnePlace, BacklogOnce, ClientsOnce, AcceptedOnce,
                    BacklogApart, AcceptedApart
<1>4. CASE Drops
  <2>1. /\ \A g \in Gen : backlog'[g] \in {backlog[g], <<>>}
        /\ \A g \in Gen : accepted'[g] \in {accepted[g], NoConn}
        /\ \A g \in Gen : \/ clients'[g] \in {clients[g], <<>>}
                          \/ clients'[g] = Without(clients[g], dead)
    BY <1>1, <1>4, DropsFacts
  <2>2. \A g \in Gen : /\ PartOf(backlog'[g], backlog[g])
                       /\ PartOf(clients'[g], clients[g])
    BY <1>2, <2>1
  <2>3. QED
    BY <1>1, <2>1, <2>2, FewerPlaces
<1>5. CASE \E g \in Gen : TakeConnection(g) \/ AddClient(g)
  BY <1>5, TakeOnePlace, AddOnePlace
<1>6. CASE PeerStep
  <2>1. ASSUME NEW k \in Conn, OpenConnection(k)
        PROVE  OnePlace'
    BY <1>6, <2>1, OpenOnePlace DEF PeerStep
  <2>2. ASSUME NEW k \in Conn,
               \/ \E n \in 1..Len(wire[k]) : ReadLines(k, n)
               \/ ClosePeerEnd(k)
        PROVE  OnePlace'
    BY <1>3, <1>6, <2>2 DEF PeerStep, relayVars, ReadLines, ClosePeerEnd
  <2>3. QED
    BY <1>6, <2>1, <2>2 DEF PeerStep
<1>7. CASE \/ StartServer \/ BeginBroadcast \/ SendToNext \/ ClearRunning \/ Unlink
           \/ \E g \in Gen : CheckRunning(g) \/ CallAccept(g)
  <2>1. UNCHANGED <<backlog, clients, accepted>>
    BY <1>7 DEF StartServer, BeginBroadcast, SendToNext, ClearRunning, Unlink,
                CheckRunning, CallAccept, socketVars
  <2>2. QED
    BY <1>3, <2>1
<1>8. QED
  BY <1>4, <1>5, <1>6, <1>7 DEF RelayStep, RelayNext, ShutDown, AcceptThread, Drops
-----------------------------------------------------------------------------
(* What has been sent.                                                     *)

\* Who an instance holds, when one list has changed.
LEMMA HoldsAppend ==
  ASSUME NEW q \in Seq(Conn), NEW x \in Conn
  PROVE  \A k : (\E i \in DOMAIN Append(q, x) : Append(q, x)[i] = k)
                  <=> (k = x \/ \E i \in DOMAIN q : q[i] = k)
<1>1. /\ Len(q) \in Nat /\ DOMAIN q = 1..Len(q)
      /\ DOMAIN Append(q, x) = 1..(Len(q) + 1)
      /\ \A i \in 1..Len(q) : Append(q, x)[i] = q[i]
      /\ Append(q, x)[Len(q) + 1] = x
  BY AppendFacts
<1> DEFINE t == Append(q, x)
<1> HIDE DEF t
<1>2. \A i \in 1..Len(q) : i \in 1..(Len(q) + 1)
  BY <1>1
<1>3. Len(q) + 1 \in 1..(Len(q) + 1)
  BY <1>1
<1>4. \A i \in 1..(Len(q) + 1) : i \in 1..Len(q) \/ i = Len(q) + 1
  BY <1>1
<1>5. QED
  BY <1>1, <1>2, <1>3, <1>4 DEF t

\* Nobody holds more than before, unless a connection was opened.
LEMMA NobodyHoldsMore ==
  ASSUME RelayInv, RelayStep, ~ \E k \in Conn : OpenConnection(k)
  PROVE  /\ \A k \in Conn : (\E g \in Gen : Holds(g, k)') => \E g \in Gen : Holds(g, k)
         /\ \A g \in Gen : \A i \in DOMAIN backlog'[g] :
              \E j \in DOMAIN backlog[g] : backlog'[g][i] = backlog[g][j]
         /\ \A g \in Gen : accepted'[g] # NoConn =>
              \/ accepted'[g] = accepted[g]
              \/ \E j \in DOMAIN backlog[g] : accepted'[g] = backlog[g][j]
         /\ \A g \in Gen : \A i \in DOMAIN clients'[g] :
              \/ \E j \in DOMAIN clients[g] : clients'[g][i] = clients[g][j]
              \/ clients'[g][i] = accepted[g]
<1>1. Typed
  BY DEF RelayInv
<1> DEFINE
      BacklogFrom == \A g \in Gen : \A i \in DOMAIN backlog'[g] :
                       \E j \in DOMAIN backlog[g] : backlog'[g][i] = backlog[g][j]
      AcceptedFrom == \A g \in Gen : accepted'[g] # NoConn =>
                        \/ accepted'[g] = accepted[g]
                        \/ \E j \in DOMAIN backlog[g] : accepted'[g] = backlog[g][j]
      ClientsFrom == \A g \in Gen : \A i \in DOMAIN clients'[g] :
                       \/ \E j \in DOMAIN clients[g] : clients'[g][i] = clients[g][j]
                       \/ clients'[g][i] = accepted[g]
<1>2. BacklogFrom /\ AcceptedFrom /\ ClientsFrom
  <2>1. \A i \in DOMAIN <<>> : FALSE
    OBVIOUS
  <2>2. CASE Drops
    <3>1. /\ \A g \in Gen : backlog'[g] \in {backlog[g], <<>>}
          /\ \A g \in Gen : accepted'[g] \in {accepted[g], NoConn}
          /\ \A g \in Gen : \/ clients'[g] \in {clients[g], <<>>}
                            \/ clients'[g] = Without(clients[g], dead)
      BY <1>1, <2>2, DropsFacts
    <3>2. \A g \in Gen : \A n \in DOMAIN Without(clients[g], dead) :
            \E i \in DOMAIN clients[g] : Without(clients[g], dead)[n] = clients[g][i]
      BY <1>1, Lists, WithoutElements
    <3>3. QED
      BY <2>1, <3>1, <3>2
  <2>3. ASSUME NEW g \in Gen, TakeConnection(g)
        PROVE  BacklogFrom /\ AcceptedFrom /\ ClientsFrom
    <3>1. backlog[g] \in Seq(Conn) /\ backlog[g] # <<>>
      BY <1>1, <2>3, Lists DEF TakeConnection
    <3>2. /\ 1 \in DOMAIN backlog[g] /\ Head(backlog[g]) = backlog[g][1]
          /\ \A m \in DOMAIN Tail(backlog[g]) :
               m + 1 \in DOMAIN backlog[g] /\ Tail(backlog[g])[m] = backlog[g][m + 1]
      BY <3>1, TailFacts
    <3>3. /\ \A h \in Gen : accepted'[h] = IF h = g THEN Head(backlog[g]) ELSE accepted[h]
          /\ \A h \in Gen : h # g => backlog'[h] = backlog[h]
          /\ backlog'[g] = Tail(backlog[g]) \/ backlog'[g] = <<>>
          /\ clients' = clients
      BY <1>1, <2>3 DEF TakeConnection, Typed, RelayTypeOK
    <3>4. BacklogFrom
      <4>1. ASSUME NEW i \in DOMAIN backlog'[g]
            PROVE  \E j \in DOMAIN backlog[g] : backlog'[g][i] = backlog[g][j]
        BY <2>1, <3>2, <3>3
      <4>2. QED
        BY <3>3, <4>1
    <3>5. QED
      BY <3>2, <3>3, <3>4
  <2>4. ASSUME NEW g \in Gen, AddClient(g)
        PROVE  BacklogFrom /\ AcceptedFrom /\ ClientsFrom
    <3>1. clients[g] \in Seq(Conn) /\ accepted[g] \in Conn
      BY <1>1, <2>4, Lists DEF AddClient, Typed, RelayTypeOK
    <3>2. \A k : (\E i \in DOMAIN Append(clients[g], accepted[g]) :
                    Append(clients[g], accepted[g])[i] = k)
                  <=> (k = accepted[g] \/ \E i \in DOMAIN clients[g] : clients[g][i] = k)
      BY <3>1, HoldsAppend
    <3>3. /\ backlog' = backlog
          /\ \A h \in Gen : accepted'[h] = IF h = g THEN NoConn ELSE accepted[h]
          /\ \A h \in Gen : h # g => clients'[h] = clients[h]
          /\ clients'[g] = Append(clients[g], accepted[g])
      BY <1>1, <2>4 DEF AddClient, Typed, RelayTypeOK, socketVars
    <3>4. QED
      BY <3>2, <3>3
  <2>5. CASE UNCHANGED <<backlog, clients, accepted>>
    BY <2>5
  <2>6. CASE \/ StartServer \/ BeginBroadcast \/ SendToNext \/ ClearRunning \/ Unlink
             \/ \E g \in Gen : CheckRunning(g) \/ CallAccept(g)
             \/ PeerStep
    <3>1. UNCHANGED <<backlog, clients, accepted>>
      BY <2>6 DEF StartServer, BeginBroadcast, SendToNext, ClearRunning, Unlink,
                  CheckRunning, CallAccept, socketVars, PeerStep, relayVars,
                  ReadLines, ClosePeerEnd
    <3>2. QED
      BY <2>5, <3>1
  <2>7. QED
    BY <2>2, <2>3, <2>4, <2>6 DEF RelayStep, RelayNext, ShutDown, AcceptThread, Drops
<1>3. ASSUME NEW k \in Conn, NEW g \in Gen, Holds(g, k)'
      PROVE  \E h \in Gen : Holds(h, k)
  <2>1. k # NoConn
    BY SocketAssumption DEF Conn
  <2>2. \/ \E i \in DOMAIN backlog'[g] : backlog'[g][i] = k
        \/ accepted'[g] = k
        \/ \E i \in DOMAIN clients'[g] : clients'[g][i] = k
    BY <1>3 DEF Holds, ClientsOf
  <2>3. Holds(g, k)
    BY <1>2, <2>1, <2>2 DEF Holds, ClientsOf
  <2>4. QED
    BY <2>3
<1>4. QED
  BY <1>2, <1>3

\* The client the broadcast has come to.
LEMMA NextClient ==
  ASSUME RelayInv, SendToNext
  PROVE  /\ gen \in Gen /\ index \in Nat /\ index + 1 \in DOMAIN clients[gen]
         /\ clients[gen][index + 1] \in Conn
         /\ clients[gen][index + 1] \in ClientsOf(gen)
         /\ packet \in 1..MaxPackets
<1>1. Typed /\ Instances /\ Round
  BY DEF RelayInv
<1>2. gen \in Gen
  BY <1>1, GenStarted DEF SendToNext
<1>3. index \in Nat
  BY <1>1, ConnCounted DEF Typed, RelayTypeOK
<1>4. index + 1 \in DOMAIN clients[gen]
  BY <1>1, <1>2, <1>3, Lists DEF SendToNext
<1>5. packet \in 1..MaxPackets
  <2>1. packet \in 0..MaxPackets /\ packet # 0
    BY <1>1 DEF Round, SendToNext, Typed, RelayTypeOK
  <2>2. QED
    BY <2>1, RelayAssumption
<1>6. QED
  BY <1>1, <1>2, <1>3, <1>4, <1>5, Lists DEF ClientsOf

\* Only a client is sent anything, and only by the broadcast.
LEMMA OnlyClientsAreSent ==
  ASSUME RelayInv, RelayStep, NEW k \in Conn, Silent(k),
         \A g \in Gen : k \notin ClientsOf(g)
  PROVE  Silent(k)'
<1>1. Typed
  BY DEF RelayInv
<1>2. CASE SendToNext
  <2> DEFINE c == clients[gen][index + 1]
  <2>1. c # k
    BY <1>2, NextClient
  <2>2. wire' = wire \/ wire' = [wire EXCEPT ![c] = Append(@, packet)]
    BY <1>2 DEF SendToNext
  <2> HIDE DEF c
  <2>3. wire'[k] = wire[k] /\ received' = received
    BY <1>1, <1>2, <2>1, <2>2 DEF SendToNext, Typed, RelayTypeOK
  <2>4. QED
    BY <2>3 DEF Silent
<1>3. ASSUME NEW j \in Conn, NEW n \in 1..Len(wire[j]), ReadLines(j, n)
      PROVE  Silent(k)'
  <2>1. wire[j] # <<>>
    <3>1. Len(wire[j]) \in Nat
      BY <1>1 DEF Typed, RelayTypeOK
    <3>2. Len(wire[j]) # 0
      BY <3>1, <1>3
    <3>3. QED
      BY <3>2
  <2>2. j # k
    BY <2>1 DEF Silent
  <2>3. QED
    BY <1>1, <1>3, <2>2 DEF Silent, ReadLines, Typed, RelayTypeOK
<1>4. CASE UNCHANGED <<wire, received>>
  BY <1>4 DEF Silent
<1>5. QED
  BY <1>2, <1>3, <1>4
     DEF RelayStep, RelayNext, StartServer, BeginBroadcast, EndBroadcast, ShutDown,
         ClearRunning, CloseServer, CloseClients, Unlink, KillWeewx, AcceptThread,
         CheckRunning, CallAccept, TakeConnection, AcceptFails, AddClient, Collect,
         PeerStep, OpenConnection, ClosePeerEnd, socketVars

\* The relay's end of a connection that nobody holds stays as it is.
LEMMA OnlyHeldAreClosed ==
  ASSUME RelayInv, RelayStep, NEW k \in Conn, \A g \in Gen : ~ Holds(g, k),
         relayEnd[k] = "none", ~ OpenConnection(k)
  PROVE  relayEnd'[k] = "none"
<1>1. Typed /\ Instances /\ Round
  BY DEF RelayInv
<1>2. ASSUME NEW S, relayEnd' = ClosedEnds(S), k \notin S
      PROVE  relayEnd'[k] = "none"
  BY <1>2 DEF ClosedEnds
<1>3. ASSUME UNCHANGED relayEnd
      PROVE  relayEnd'[k] = "none"
  BY <1>3
<1>4. \A g \in Gen : /\ k \notin ClientsOf(g)
                     /\ k \notin {backlog[g][i] : i \in DOMAIN backlog[g]}
  BY DEF Holds
<1>5. CASE EndBroadcast
  <2>1. k \notin dead
    BY <1>1, <1>4, <1>5, GenStarted DEF EndBroadcast, Round
  <2>2. QED
    BY <1>2, <1>5, <2>1 DEF EndBroadcast
<1>6. CASE CloseServer
  <2>1. gen \in Gen
    BY <1>1, <1>6, GenStarted DEF CloseServer
  <2>2. QED
    BY <1>2, <1>3, <1>4, <1>6, <2>1 DEF CloseServer, DropListener
<1>7. CASE CloseClients
  <2>1. gen \in Gen
    BY <1>1, <1>7, GenStarted DEF CloseClients
  <2>2. QED
    BY <1>2, <1>4, <1>7, <2>1 DEF CloseClients
<1>8. CASE KillWeewx
  BY <1>2, <1>8 DEF KillWeewx
<1>9. ASSUME NEW g \in Gen, TakeConnection(g)
      PROVE  relayEnd'[k] = "none"
  <2>1. \A i \in 2..Len(backlog[g]) : i \in DOMAIN backlog[g]
    BY <1>1, Lists
  <2>2. k \notin {backlog[g][i] : i \in 2..Len(backlog[g])}
    BY <1>4, <2>1
  <2>3. QED
    BY <1>2, <1>3, <1>9, <2>2 DEF TakeConnection
<1>10. ASSUME NEW g \in Gen, AcceptFails(g)
       PROVE  relayEnd'[k] = "none"
  BY <1>2, <1>4, <1>10 DEF AcceptFails, DropListener
<1>11. ASSUME NEW g \in Gen, Collect(g)
       PROVE  relayEnd'[k] = "none"
  BY <1>2, <1>4, <1>11 DEF Collect
<1>12. CASE PeerStep
  BY <1>1, <1>12 DEF PeerStep, OpenConnection, ReadLines, ClosePeerEnd, Typed, RelayTypeOK
<1>13. CASE \/ StartServer \/ BeginBroadcast \/ SendToNext \/ ClearRunning \/ Unlink
            \/ \E g \in Gen : CheckRunning(g) \/ CallAccept(g) \/ AddClient(g)
  BY <1>3, <1>13 DEF StartServer, BeginBroadcast, SendToNext, ClearRunning, Unlink,
                     CheckRunning, CallAccept, AddClient, socketVars
<1>14. QED
  BY <1>5, <1>6, <1>7, <1>8, <1>9, <1>10, <1>11, <1>12, <1>13
     DEF RelayStep, RelayNext, ShutDown, AcceptThread

\* A connection is opened: it is in the backlog, and nothing else changes.
LEMMA OpenFresh ==
  ASSUME RelayInv, NEW k \in Conn, OpenConnection(k), UNCHANGED relayVars
  PROVE  Fresh'
<1>1. /\ Typed /\ Fresh /\ path \in Gen /\ backlog[path] \in Seq(Conn)
      /\ peerEnd[k] = "none"
  BY OpenedWhere DEF RelayInv, OpenConnection, Unused
<1>2. /\ clients' = clients /\ accepted' = accepted
      /\ wire' = wire /\ received' = received
      /\ \A h \in Gen : h # path => backlog'[h] = backlog[h]
      /\ backlog'[path] = Append(backlog[path], k)
      /\ \A j \in Conn : j # k => peerEnd'[j] = peerEnd[j] /\ relayEnd'[j] = relayEnd[j]
      /\ peerEnd'[k] = "open"
  BY <1>1 DEF OpenConnection, relayVars, Typed, RelayTypeOK
<1>3. \A j \in Conn : Silent(j)' <=> Silent(j)
  BY <1>2 DEF Silent
<1>4. \A h \in Gen : \A m \in DOMAIN backlog'[h] :
        backlog'[h][m] = k \/ \E i \in DOMAIN backlog[h] : backlog'[h][m] = backlog[h][i]
  <2>1. \A m \in DOMAIN Append(backlog[path], k) :
          \/ Append(backlog[path], k)[m] = k
          \/ \E i \in DOMAIN backlog[path] : Append(backlog[path], k)[m] = backlog[path][i]
    BY <1>1, HoldsAppend
  <2>2. QED
    BY <1>2, <2>1
<1>5. \A j \in Conn : peerEnd'[j] = "none" =>
        /\ Silent(j)' /\ relayEnd'[j] = "none"
        /\ \A g \in Gen : ~ Holds(g, j)'
  <2> SUFFICES ASSUME NEW j \in Conn, peerEnd'[j] = "none"
               PROVE  /\ Silent(j)' /\ relayEnd'[j] = "none"
                      /\ \A g \in Gen : ~ Holds(g, j)'
    OBVIOUS
  <2>1. j # k /\ peerEnd[j] = "none"
    BY <1>2
  <2>2. Silent(j) /\ relayEnd[j] = "none" /\ \A g \in Gen : ~ Holds(g, j)
    BY <1>1, <2>1 DEF Fresh
  <2>3. \A g \in Gen : ~ Holds(g, j)'
    BY <1>2, <1>4, <2>1, <2>2 DEF Holds, ClientsOf
  <2>4. QED
    BY <1>2, <1>3, <2>1, <2>2, <2>3
<1>6. \A g \in Gen : \A i \in DOMAIN backlog'[g] :
        wire'[backlog'[g][i]] = <<>> /\ received'[backlog'[g][i]] = <<>>
  <2>1. Silent(k)
    BY <1>1 DEF Fresh
  <2>2. \A g \in Gen : \A i \in DOMAIN backlog[g] :
          backlog[g][i] \in Conn /\ Silent(backlog[g][i])
    BY <1>1, Lists DEF Fresh
  <2>3. QED
    BY <1>2, <1>4, <2>1, <2>2 DEF Silent
<1>7. \A g \in Gen : accepted'[g] # NoConn =>
        wire'[accepted'[g]] = <<>> /\ received'[accepted'[g]] = <<>>
  BY <1>1, <1>2 DEF Fresh, Silent
<1>8. QED
  BY <1>5, <1>6, <1>7 DEF Fresh, Silent

\* The relay does not touch the reader's end.
LEMMA RelayKeepsPeers ==
  ASSUME RelayNext
  PROVE  UNCHANGED peerEnd
BY DEF RelayNext, StartServer, BeginBroadcast, SendToNext, EndBroadcast, ShutDown,
       ClearRunning, CloseServer, CloseClients, Unlink, KillWeewx, AcceptThread,
       CheckRunning, CallAccept, TakeConnection, AcceptFails, AddClient, Collect,
       socketVars

\* So a step in which a connection is opened is the reader's.
LEMMA OpenedByPeer ==
  ASSUME RelayInv, RelayStep, NEW k \in Conn, OpenConnection(k)
  PROVE  UNCHANGED relayVars
<1>1. peerEnd[k] = "none" /\ peerEnd'[k] = "open"
  BY DEF RelayInv, Typed, RelayTypeOK, OpenConnection, Unused
<1>2. QED
  BY <1>1, RelayKeepsPeers DEF RelayStep, PeerStep

\* Nothing is sent before a connection is among the clients.
LEMMA FreshStep ==
  ASSUME RelayInv, RelayStep
  PROVE  Fresh'
<1>1. Typed /\ Typed' /\ Fresh /\ OnePlace
  BY TypedStep DEF RelayInv
<1>2. CASE \E k \in Conn : OpenConnection(k)
  BY <1>2, OpenFresh, OpenedByPeer
<1>3. CASE ~ \E k \in Conn : OpenConnection(k)
  <2>1. /\ \A k \in Conn : (\E g \in Gen : Holds(g, k)') => \E g \in Gen : Holds(g, k)
        /\ \A g \in Gen : \A i \in DOMAIN backlog'[g] :
             \E j \in DOMAIN backlog[g] : backlog'[g][i] = backlog[g][j]
        /\ \A g \in Gen : accepted'[g] # NoConn =>
             \/ accepted'[g] = accepted[g]
             \/ \E j \in DOMAIN backlog[g] : accepted'[g] = backlog[g][j]
    BY <1>3, NobodyHoldsMore
  <2>2. \A k \in Conn : peerEnd'[k] = "none" => peerEnd[k] = "none"
    <3>1. CASE RelayNext
      BY <3>1, RelayKeepsPeers
    <3>2. CASE PeerStep
      <4>1. peerEnd \in [Conn -> {"none", "open", "closed"}]
        BY <1>1 DEF Typed, RelayTypeOK
      <4>2. PICK j \in Conn : (\E n \in 1..Len(wire[j]) : ReadLines(j, n)) \/ ClosePeerEnd(j)
        BY <1>3, <3>2 DEF PeerStep
      <4>3. peerEnd' = peerEnd \/ peerEnd' = [peerEnd EXCEPT ![j] = "closed"]
        BY <4>2 DEF ReadLines, ClosePeerEnd
      <4>4. QED
        BY <4>1, <4>3
    <3>3. QED
      BY <3>1, <3>2 DEF RelayStep
  <2>3. ASSUME NEW k \in Conn, peerEnd'[k] = "none"
        PROVE  /\ Silent(k)' /\ relayEnd'[k] = "none"
               /\ \A g \in Gen : ~ Holds(g, k)'
    <3>1. /\ peerEnd[k] = "none" /\ Silent(k) /\ relayEnd[k] = "none"
          /\ \A g \in Gen : ~ Holds(g, k)
      BY <1>1, <2>2, <2>3 DEF Fresh
    <3>2. \A g \in Gen : ~ Holds(g, k)'
      BY <2>1, <3>1
    <3>3. Silent(k)'
      BY <3>1, OnlyClientsAreSent DEF Holds
    <3>4. QED
      BY <1>3, <3>1, <3>2, <3>3, OnlyHeldAreClosed
  <2>4. ASSUME NEW k \in Conn, NEW g \in Gen,
               \/ \E j \in DOMAIN backlog[g] : k = backlog[g][j]
               \/ k = accepted[g]
        PROVE  wire'[k] = <<>> /\ received'[k] = <<>>
    <3>1. Silent(k)
      BY <1>1, <2>4, SocketAssumption DEF Fresh, Conn
    <3>2. \A h \in Gen : k \notin ClientsOf(h)
      BY <1>1, <2>4 DEF OnePlace, BacklogApart, AcceptedApart, ClientsOf
    <3>3. Silent(k)'
      BY <3>1, <3>2, OnlyClientsAreSent
    <3>4. QED
      BY <3>3 DEF Silent
  <2>5. \A g \in Gen : \A i \in DOMAIN backlog'[g] :
          wire'[backlog'[g][i]] = <<>> /\ received'[backlog'[g][i]] = <<>>
    <3>1. \A g \in Gen : \A j \in DOMAIN backlog[g] : backlog[g][j] \in Conn
      BY <1>1, Lists
    <3>2. QED
      BY <2>1, <2>4, <3>1
  <2>6. \A g \in Gen : accepted'[g] # NoConn =>
          wire'[accepted'[g]] = <<>> /\ received'[accepted'[g]] = <<>>
    <3>1. \A g \in Gen : accepted'[g] # NoConn => accepted'[g] \in Conn
      BY <1>1 DEF Typed
    <3>2. QED
      BY <2>1, <2>4, <3>1
  <2>7. QED
    BY <2>3, <2>5, <2>6 DEF Fresh, Silent
<1>4. QED
  BY <1>2, <1>3
-----------------------------------------------------------------------------
(* Nothing open is forgotten.                                              *)

\* What an instance holds it goes on holding when its lists have not changed.
LEMMA StillHeld ==
  ASSUME NEW k, NEW g, Holds(g, k), backlog'[g] = backlog[g],
         accepted'[g] = accepted[g], clients'[g] = clients[g]
  PROVE  Holds(g, k)'
BY DEF Holds, ClientsOf

\* A connection that leaves every list is closed in the same step.
LEMMA OpenIsKnownStep ==
  ASSUME RelayInv, RelayStep
  PROVE  OpenIsKnown'
<1>1. Typed /\ OpenIsKnown /\ Instances
  BY DEF RelayInv
<1> SUFFICES ASSUME NEW k \in Conn, relayEnd'[k] = "open"
             PROVE  \E g \in Gen : Holds(g, k)'
  BY DEF OpenIsKnown
<1>2. CASE OpenConnection(k)
  <2>1. path \in Gen /\ backlog[path] \in Seq(Conn)
    BY <1>1, <1>2, SocketAssumption
       DEF OpenConnection, Connectable, Typed, RelayTypeOK, Gen
  <2>2. \E i \in DOMAIN Append(backlog[path], k) : Append(backlog[path], k)[i] = k
    BY <2>1, HoldsAppend
  <2>3. backlog'[path] = Append(backlog[path], k) /\ path' = path
    BY <1>1, <1>2, <2>1 DEF OpenConnection, Typed, RelayTypeOK
  <2>4. Holds(path, k)' /\ path' \in Gen
    BY <2>1, <2>2, <2>3 DEF Holds
  <2>5. QED
    BY <2>1, <2>4
<1>3. ASSUME NEW S, relayEnd' = ClosedEnds(S)
      PROVE  k \notin S /\ relayEnd[k] = "open"
  BY <1>3 DEF ClosedEnds
<1>4. CASE EndBroadcast
  <2>1. PICK g \in Gen : Holds(g, k)
    BY <1>1, <1>4 DEF EndBroadcast, OpenIsKnown, ClosedEnds
  <2>2. k \notin dead /\ gen \in Gen
    BY <1>1, <1>3, <1>4, GenStarted DEF EndBroadcast
  <2>3. /\ backlog' = backlog /\ accepted' = accepted
        /\ \A h \in Gen : h # gen => clients'[h] = clients[h]
        /\ clients'[gen] = Without(clients[gen], dead)
    BY <1>1, <1>4, <2>2 DEF EndBroadcast, Typed, RelayTypeOK
  <2>4. \A i \in DOMAIN clients[gen] : clients[gen][i] = k =>
          \E n \in DOMAIN clients'[gen] : clients'[gen][n] = k
    BY <1>1, <2>2, <2>3, Lists, WithoutElements
  <2>5. Holds(g, k)'
    BY <2>1, <2>3, <2>4 DEF Holds, ClientsOf
  <2>6. QED
    BY <2>5
<1>5. CASE KillWeewx
  <2>1. relayEnd[k] = "open" /\ k \notin {j \in Conn : relayEnd[j] = "open"}
    BY <1>3, <1>5 DEF KillWeewx
  <2>2. QED
    BY <2>1
<1>6. ASSUME NEW g \in Gen, DropListener(g), UNCHANGED <<clients, accepted>>
      PROVE  \E h \in Gen : Holds(h, k)'
  <2>1. /\ k \notin {backlog[g][i] : i \in DOMAIN backlog[g]}
        /\ relayEnd[k] = "open"
    BY <1>3, <1>6 DEF DropListener
  <2>2. PICK h \in Gen : Holds(h, k)
    BY <1>1, <2>1 DEF OpenIsKnown
  <2>3. h # g => backlog'[h] = backlog[h]
    BY <1>1, <1>6 DEF DropListener, Typed, RelayTypeOK
  <2>4. Holds(h, k)'
    BY <1>6, <2>1, <2>2, <2>3 DEF Holds, ClientsOf
  <2>5. QED
    BY <2>4
<1>7. CASE UNCHANGED <<backlog, clients, accepted, relayEnd>>
  BY <1>1, <1>7 DEF OpenIsKnown, Holds, ClientsOf
<1>8. CASE CloseServer
  BY <1>1, <1>6, <1>7, <1>8, GenStarted DEF CloseServer
<1>9. ASSUME NEW g \in Gen, relayEnd' = ClosedEnds(ClientsOf(g)),
              clients' = [clients EXCEPT ![g] = <<>>], UNCHANGED <<backlog, accepted>>
       PROVE  \E h \in Gen : Holds(h, k)'
  <2>1. k \notin ClientsOf(g) /\ relayEnd[k] = "open"
    BY <1>3, <1>9
  <2>2. PICK h \in Gen : Holds(h, k)
    BY <1>1, <2>1 DEF OpenIsKnown
  <2>3. h # g => clients'[h] = clients[h]
    BY <1>1, <1>9 DEF Typed, RelayTypeOK
  <2>4. Holds(h, k)'
    BY <1>9, <2>1, <2>2, <2>3 DEF Holds, ClientsOf
  <2>5. QED
    BY <2>4
<1>10. CASE CloseClients
  BY <1>1, <1>9, <1>10, GenStarted DEF CloseClients
<1>11. ASSUME NEW g \in Gen, Collect(g)
       PROVE  \E h \in Gen : Holds(h, k)'
  BY <1>9, <1>11 DEF Collect
<1>12. ASSUME NEW g \in Gen, AcceptFails(g)
       PROVE  \E h \in Gen : Holds(h, k)'
  BY <1>6, <1>12 DEF AcceptFails
<1>13. ASSUME NEW g \in Gen, TakeConnection(g)
       PROVE  \E h \in Gen : Holds(h, k)'
  <2> DEFINE q == backlog[g]
  <2>1. /\ q \in Seq(Conn) /\ q # <<>> /\ accepted[g] \notin Conn
    BY <1>1, <1>13, Lists DEF TakeConnection, Typed, RelayTypeOK
  <2>2. /\ DOMAIN q = 1..Len(q) /\ Head(q) = q[1] /\ Len(q) \in Nat
        /\ DOMAIN Tail(q) = 1..(Len(q) - 1)
        /\ \A i \in 1..(Len(q) - 1) : Tail(q)[i] = q[i + 1]
    BY <2>1, TailFacts
  <2>3. relayEnd[k] = "open"
    BY <1>3, <1>13 DEF TakeConnection
  <2>4. PICK h \in Gen : Holds(h, k)
    BY <1>1, <2>3 DEF OpenIsKnown
  <2>5. /\ clients' = clients
        /\ accepted'[g] = Head(q)
        /\ \A j \in Gen : j # g => accepted'[j] = accepted[j] /\ backlog'[j] = backlog[j]
        /\ backlog'[g] = IF fdOpen[g] THEN Tail(q) ELSE <<>>
        /\ ~ fdOpen[g] => k \notin {q[i] : i \in 2..Len(q)}
    BY <1>1, <1>3, <1>13 DEF TakeConnection, Typed, RelayTypeOK
  <2> HIDE DEF q
  <2>6. CASE h # g
    <3>1. Holds(h, k)'
      BY <2>4, <2>5, <2>6, StillHeld
    <3>2. QED
      BY <3>1
  <2>7. ASSUME h = g, NEW i \in DOMAIN q, q[i] = k
        PROVE  Holds(g, k)'
    <3>1. CASE i = 1
      BY <2>2, <2>5, <2>7, <3>1 DEF Holds
    <3>2. CASE i # 1
      <4>1. i \in 2..Len(q) /\ i - 1 \in 1..(Len(q) - 1)
        BY <2>2, <2>7, <3>2
      <4>2. fdOpen[g]
        BY <2>5, <2>7, <4>1
      <4>3. backlog'[g] = Tail(q) /\ Tail(q)[i - 1] = k
        BY <2>2, <2>5, <2>7, <4>1, <4>2
      <4>4. QED
        BY <2>2, <4>1, <4>3 DEF Holds
    <3>3. QED
      BY <3>1, <3>2
  <2>8. CASE h = g /\ k \in ClientsOf(g)
    BY <2>5, <2>8 DEF Holds, ClientsOf
  <2>9. QED
    BY <2>1, <2>4, <2>6, <2>7, <2>8 DEF Holds, q
<1>14. ASSUME NEW g \in Gen, AddClient(g)
       PROVE  \E h \in Gen : Holds(h, k)'
  <2>1. clients[g] \in Seq(Conn) /\ accepted[g] \in Conn
    <3>1. accepter[g] = "adding"
      BY <1>14 DEF AddClient
    <3>2. accepted[g] \in Conn
      BY <1>1, <3>1 DEF Typed, RelayTypeOK
    <3>3. QED
      BY <1>1, <3>2, Lists
  <2>2. k = accepted[g] \/ k \in ClientsOf(g) =>
          \E i \in DOMAIN Append(clients[g], accepted[g]) :
            Append(clients[g], accepted[g])[i] = k
    <3>1. (\E i \in DOMAIN Append(clients[g], accepted[g]) :
             Append(clients[g], accepted[g])[i] = k)
            <=> (k = accepted[g] \/ \E i \in DOMAIN clients[g] : clients[g][i] = k)
      <4> DEFINE q == clients[g]
                 x == accepted[g]
      <4>1. q \in Seq(Conn) /\ x \in Conn
        BY <2>1
      <4> HIDE DEF q, x
      <4>2. (\E i \in DOMAIN Append(q, x) : Append(q, x)[i] = k)
              <=> (k = x \/ \E i \in DOMAIN q : q[i] = k)
        BY <4>1, HoldsAppend
      <4>3. QED
        BY <4>2 DEF q, x
    <3>2. k \in ClientsOf(g) => \E i \in DOMAIN clients[g] : clients[g][i] = k
      BY DEF ClientsOf
    <3>3. QED
      BY <3>1, <3>2
  <2>3. /\ backlog' = backlog /\ relayEnd' = relayEnd
        /\ \A h \in Gen : h # g => accepted'[h] = accepted[h] /\ clients'[h] = clients[h]
        /\ clients'[g] = Append(clients[g], accepted[g])
    BY <1>1, <1>14 DEF AddClient, Typed, RelayTypeOK, socketVars
  <2>4. PICK h \in Gen : Holds(h, k)
    BY <1>1, <2>3 DEF OpenIsKnown
  <2>5. Holds(h, k)'
    BY <2>2, <2>3, <2>4 DEF Holds, ClientsOf
  <2>6. QED
    BY <2>5
<1>15. CASE \/ StartServer \/ BeginBroadcast \/ SendToNext \/ ClearRunning \/ Unlink
            \/ \E g \in Gen : CheckRunning(g) \/ CallAccept(g)
  BY <1>7, <1>15 DEF StartServer, BeginBroadcast, SendToNext, ClearRunning, Unlink,
                     CheckRunning, CallAccept, socketVars
<1>16. ASSUME NEW j \in Conn, OpenConnection(j), j # k
       PROVE  \E h \in Gen : Holds(h, k)'
  <2>1. /\ path \in Gen /\ backlog[path] \in Seq(Conn)
        /\ clients' = clients /\ accepted' = accepted
    <3>1. path \in Gen /\ backlog[path] \in Seq(Conn)
      BY <1>1, <1>16, OpenedWhere
    <3>2. QED
      BY <1>16, <3>1, OpenedByPeer DEF relayVars
  <2>2. /\ \A h \in Gen : h # path => backlog'[h] = backlog[h]
        /\ backlog'[path] = Append(backlog[path], j)
        /\ relayEnd[k] = "open"
    BY <1>1, <1>16, <2>1 DEF OpenConnection, Typed, RelayTypeOK
  <2>3. PICK h \in Gen : Holds(h, k)
    BY <1>1, <2>2 DEF OpenIsKnown
  <2>4. (\E i \in DOMAIN backlog[path] : backlog[path][i] = k) =>
          \E i \in DOMAIN backlog'[path] : backlog'[path][i] = k
    BY <2>1, <2>2, HoldsAppend
  <2>5. Holds(h, k)'
    BY <2>1, <2>2, <2>3, <2>4 DEF Holds, ClientsOf
  <2>6. QED
    BY <2>5
<1>17. CASE PeerStep
  <2>1. ASSUME NEW j \in Conn,
               \/ \E n \in 1..Len(wire[j]) : ReadLines(j, n)
               \/ ClosePeerEnd(j)
        PROVE  \E h \in Gen : Holds(h, k)'
    BY <1>7, <1>17, <2>1 DEF PeerStep, relayVars, ReadLines, ClosePeerEnd
  <2>2. QED
    BY <1>2, <1>16, <1>17, <2>1 DEF PeerStep
<1>18. QED
  BY <1>4, <1>5, <1>8, <1>10, <1>11, <1>12, <1>13, <1>14, <1>15, <1>17
     DEF RelayStep, RelayNext, ShutDown, AcceptThread
-----------------------------------------------------------------------------
(* Delivery.                                                               *)

\* What the broadcast does to the client it has come to.
LEMMA SendToNextFacts ==
  ASSUME RelayInv, SendToNext
  PROVE  LET k == clients[gen][index + 1] IN
         /\ \A j \in Conn : j # k => wire'[j] = wire[j]
         /\ received' = received /\ joinedAt' = joinedAt /\ peerEnd' = peerEnd
         /\ peerEnd[k] = "closed" => wire'[k] = wire[k]
         /\ peerEnd[k] # "closed" =>
              /\ peerEnd[k] = "open"
              /\ joinedAt[k] + Len(received[k]) + Len(wire[k]) + 1 = packet
              /\ Len(wire'[k]) = Len(wire[k]) + 1
              /\ wire'[k][Len(wire[k]) + 1] = packet
              /\ \A i \in 1..Len(wire[k]) : wire'[k][i] = wire[k][i]
<1> DEFINE k == clients[gen][index + 1]
<1>1. Typed /\ UpToDate
  BY DEF RelayInv
<1>2. /\ k \in Conn /\ gen \in Gen /\ index \in Nat /\ packet \in 1..MaxPackets
      /\ index + 1 \in DOMAIN clients[gen]
  BY NextClient
<1>3. UNCHANGED <<received, joinedAt, peerEnd>>
  BY DEF SendToNext
<1>4. \/ peerEnd[k] = "closed" /\ wire' = wire
      \/ peerEnd[k] = "open" /\ wire' = [wire EXCEPT ![k] = Append(@, packet)]
  BY DEF SendToNext
<1>5. /\ wire[k] \in Seq(1..MaxPackets) /\ received[k] \in Seq(1..MaxPackets)
      /\ joinedAt[k] \in Nat /\ wire \in [Conn -> Seq(1..MaxPackets)]
  BY <1>1, <1>2 DEF Typed, RelayTypeOK
<1>6. peerEnd[k] = "open" =>
        joinedAt[k] + Len(received[k]) + Len(wire[k]) = packet - 1
  <2>1. Up /\ Due(index + 1) = packet - 1
    BY <1>2 DEF SendToNext, Up, Due
  <2>2. QED
    BY <1>1, <1>2, <2>1 DEF UpToDate
<1> HIDE DEF k
<1>7. \A j \in Conn : j # k => wire'[j] = wire[j]
  BY <1>4, <1>5
<1>8. ASSUME peerEnd[k] = "open"
      PROVE  /\ Len(wire'[k]) = Len(wire[k]) + 1
             /\ wire'[k][Len(wire[k]) + 1] = packet
             /\ \A i \in 1..Len(wire[k]) : wire'[k][i] = wire[k][i]
  <2>1. wire'[k] = Append(wire[k], packet)
    BY <1>2, <1>4, <1>5, <1>8
  <2>2. QED
    BY <1>2, <1>5, <2>1, AppendFacts
<1>9. Len(wire[k]) \in Nat /\ Len(received[k]) \in Nat /\ packet \in Nat
  BY <1>2, <1>5, RelayAssumption
<1>10. QED
  BY <1>3, <1>4, <1>5, <1>6, <1>7, <1>8, <1>9 DEF k

\* A reader takes lines from the wire and changes nothing else.
LEMMA ReadStep ==
  ASSUME Typed, NEW k \in Conn, NEW n \in 1..Len(wire[k]), ReadLines(k, n)
  PROVE  /\ \A j \in Conn : j # k => wire'[j] = wire[j] /\ received'[j] = received[j]
         /\ n \in Nat /\ Len(wire[k]) \in Nat /\ Len(received[k]) \in Nat
         /\ Len(wire'[k]) = Len(wire[k]) - n
         /\ Len(received'[k]) = Len(received[k]) + n
         /\ Len(wire'[k]) \in Nat /\ Len(received'[k]) \in Nat
         /\ \A i \in 1..Len(wire'[k]) : wire'[k][i] = wire[k][n + i]
         /\ \A i \in 1..Len(received'[k]) :
              received'[k][i] = IF i <= Len(received[k]) THEN received[k][i]
                                ELSE wire[k][i - Len(received[k])]
<1>1. /\ wire[k] \in Seq(1..MaxPackets) /\ received[k] \in Seq(1..MaxPackets)
      /\ Len(wire[k]) \in Nat /\ Len(received[k]) \in Nat
  BY DEF Typed, RelayTypeOK
<1>2. /\ wire'[k] = SubSeq(wire[k], n + 1, Len(wire[k]))
      /\ received'[k] = received[k] \o SubSeq(wire[k], 1, n)
      /\ \A j \in Conn : j # k => wire'[j] = wire[j] /\ received'[j] = received[j]
  BY DEF ReadLines, Typed, RelayTypeOK
<1>3. n \in Nat /\ n <= Len(wire[k])
  BY <1>1
<1>4. /\ Len(wire'[k]) = Len(wire[k]) - n
      /\ \A i \in 1..Len(wire'[k]) : wire'[k][i] = wire[k][n + i]
      /\ Len(received'[k]) = Len(received[k]) + n
      /\ \A i \in 1..Len(received'[k]) :
           received'[k][i] = IF i <= Len(received[k]) THEN received[k][i]
                             ELSE wire[k][i - Len(received[k])]
  BY <1>2, ReadLinesFacts
<1>5. QED
  BY <1>1, <1>2, <1>3, <1>4

\* What a connection carries stays in order and without a gap.
LEMMA InOrderStep ==
  ASSUME RelayInv, RelayStep
  PROVE  InOrder'
<1>1. Typed /\ Typed' /\ Fresh /\ InOrder
  BY TypedStep DEF RelayInv
<1> SUFFICES ASSUME NEW k \in Conn
             PROVE  /\ \A i \in 1..Len(received'[k]) : received'[k][i] = joinedAt'[k] + i
                    /\ \A i \in 1..Len(wire'[k]) :
                         wire'[k][i] = joinedAt'[k] + Len(received'[k]) + i
  BY DEF InOrder
<1>2. /\ Len(wire[k]) \in Nat /\ Len(received[k]) \in Nat /\ joinedAt[k] \in Nat
      /\ \A i \in 1..Len(received[k]) : received[k][i] = joinedAt[k] + i
      /\ \A i \in 1..Len(wire[k]) : wire[k][i] = joinedAt[k] + Len(received[k]) + i
  BY <1>1 DEF InOrder, Typed, RelayTypeOK
<1>3. CASE /\ wire'[k] = wire[k] /\ received'[k] = received[k]
           /\ joinedAt'[k] = joinedAt[k]
  BY <1>2, <1>3
<1>4. CASE SendToNext
  <2> DEFINE c == clients[gen][index + 1]
  <2>1. /\ received' = received /\ joinedAt' = joinedAt
        /\ k # c => wire'[k] = wire[k]
        /\ peerEnd[c] = "closed" => wire'[c] = wire[c]
        /\ peerEnd[c] # "closed" =>
             /\ joinedAt[c] + Len(received[c]) + Len(wire[c]) + 1 = packet
             /\ Len(wire'[c]) = Len(wire[c]) + 1
             /\ wire'[c][Len(wire[c]) + 1] = packet
             /\ \A i \in 1..Len(wire[c]) : wire'[c][i] = wire[c][i]
    BY <1>4, SendToNextFacts
  <2> HIDE DEF c
  <2>2. CASE k # c
    BY <1>3, <2>1, <2>2
  <2>3. CASE k = c /\ peerEnd[c] = "closed"
    BY <1>3, <2>1, <2>3
  <2>4. CASE k = c /\ peerEnd[c] # "closed"
    <3>1. /\ joinedAt[k] + Len(received[k]) + Len(wire[k]) + 1 = packet
          /\ Len(wire'[k]) = Len(wire[k]) + 1
          /\ wire'[k][Len(wire[k]) + 1] = packet
          /\ \A i \in 1..Len(wire[k]) : wire'[k][i] = wire[k][i]
      BY <2>1, <2>4
    <3>2. ASSUME NEW i \in 1..Len(wire'[k])
          PROVE  wire'[k][i] = joinedAt[k] + Len(received[k]) + i
      <4>1. CASE i \in 1..Len(wire[k])
        BY <1>2, <3>1, <4>1
      <4>2. CASE i = Len(wire[k]) + 1
        <5>1. wire'[k][i] = packet
          BY <3>1, <4>2
        <5>2. joinedAt[k] \in Nat /\ Len(received[k]) \in Nat /\ Len(wire[k]) \in Nat
          BY <1>2
        <5>3. joinedAt[k] + Len(received[k]) + Len(wire[k]) + 1 = packet
          BY <3>1
        <5>4. joinedAt[k] + Len(received[k]) + i = packet
          BY <4>2, <5>2, <5>3
        <5>5. QED
          BY <5>1, <5>4
      <4>3. QED
        BY <1>2, <3>1, <3>2, <4>1, <4>2
    <3>3. QED
      BY <1>2, <2>1, <3>2
  <2>5. QED
    BY <2>2, <2>3, <2>4
<1>5. ASSUME NEW g \in Gen, AddClient(g)
      PROVE  /\ \A i \in 1..Len(received'[k]) : received'[k][i] = joinedAt'[k] + i
             /\ \A i \in 1..Len(wire'[k]) :
                  wire'[k][i] = joinedAt'[k] + Len(received'[k]) + i
  <2>1. UNCHANGED <<wire, received>> /\ joinedAt' = [joinedAt EXCEPT ![accepted[g]] = packet]
    BY <1>5 DEF AddClient, socketVars
  <2>2. CASE k = accepted[g]
    <3>1. wire[k] = <<>> /\ received[k] = <<>>
      BY <1>1, <2>2, SocketAssumption DEF Fresh, Silent, Conn
    <3>2. \A i \in 1..Len(<<>>) : FALSE
      BY EmptySeq
    <3>3. QED
      BY <2>1, <3>1, <3>2
  <2>3. CASE k # accepted[g]
    <3>1. joinedAt'[k] = joinedAt[k]
      BY <1>1, <2>1, <2>3 DEF Typed, RelayTypeOK
    <3>2. QED
      BY <1>3, <2>1, <3>1
  <2>4. QED
    BY <2>2, <2>3
<1>6. ASSUME NEW j \in Conn, NEW n \in 1..Len(wire[j]), ReadLines(j, n),
             UNCHANGED relayVars
      PROVE  /\ \A i \in 1..Len(received'[k]) : received'[k][i] = joinedAt'[k] + i
             /\ \A i \in 1..Len(wire'[k]) :
                  wire'[k][i] = joinedAt'[k] + Len(received'[k]) + i
  <2>1. joinedAt' = joinedAt
    BY <1>6 DEF relayVars
  <2>2. CASE j # k
    BY <1>1, <1>3, <1>6, <2>1, <2>2, ReadStep
  <2>3. CASE j = k
    <3>1. /\ n \in Nat /\ n <= Len(wire[k])
          /\ Len(wire'[k]) = Len(wire[k]) - n
          /\ Len(received'[k]) = Len(received[k]) + n
          /\ \A i \in 1..Len(wire'[k]) : wire'[k][i] = wire[k][n + i]
          /\ \A i \in 1..Len(received'[k]) :
               received'[k][i] = IF i <= Len(received[k]) THEN received[k][i]
                                 ELSE wire[k][i - Len(received[k])]
      <4>1. /\ n \in Nat /\ Len(wire[j]) \in Nat
            /\ Len(wire'[j]) = Len(wire[j]) - n
            /\ Len(received'[j]) = Len(received[j]) + n
            /\ \A i \in 1..Len(wire'[j]) : wire'[j][i] = wire[j][n + i]
            /\ \A i \in 1..Len(received'[j]) :
                 received'[j][i] = IF i <= Len(received[j]) THEN received[j][i]
                                   ELSE wire[j][i - Len(received[j])]
        BY <1>1, <1>6, ReadStep
      <4>2. n <= Len(wire[j])
        BY <1>6, <4>1
      <4>3. QED
        BY <2>3, <4>1, <4>2
    <3>2. ASSUME NEW i \in 1..Len(wire'[k])
          PROVE  wire'[k][i] = joinedAt[k] + Len(received'[k]) + i
      <4>1. n + i \in 1..Len(wire[k]) /\ i \in Nat
        BY <1>2, <3>1
      <4>2. wire[k][n + i] = joinedAt[k] + Len(received[k]) + (n + i)
        BY <1>2, <4>1
      <4>3. QED
        BY <1>2, <3>1, <4>1, <4>2
    <3>3. ASSUME NEW i \in 1..Len(received'[k])
          PROVE  received'[k][i] = joinedAt[k] + i
      <4>1. CASE i <= Len(received[k])
        BY <1>2, <3>1, <4>1
      <4>2. CASE ~ (i <= Len(received[k]))
        <5>1. i - Len(received[k]) \in 1..Len(wire[k]) /\ i \in Nat
          BY <1>2, <3>1, <4>2
        <5>2. wire[k][i - Len(received[k])]
                = joinedAt[k] + Len(received[k]) + (i - Len(received[k]))
          BY <1>2, <5>1
        <5>3. QED
          BY <1>2, <3>1, <4>2, <5>1, <5>2
      <4>3. QED
        BY <4>1, <4>2
    <3>4. QED
      BY <2>1, <3>2, <3>3
  <2>4. QED
    BY <2>2, <2>3
<1>7. CASE \/ StartServer \/ BeginBroadcast \/ EndBroadcast \/ ShutDown \/ KillWeewx
           \/ \E g \in Gen : \/ CheckRunning(g) \/ CallAccept(g) \/ TakeConnection(g)
                             \/ AcceptFails(g) \/ Collect(g)
  BY <1>3, <1>7
     DEF StartServer, BeginBroadcast, EndBroadcast, ShutDown, ClearRunning,
         CloseServer, CloseClients, Unlink, KillWeewx, CheckRunning, CallAccept,
         TakeConnection, AcceptFails, Collect, socketVars
<1>8. CASE PeerStep
  <2>1. ASSUME NEW j \in Conn, OpenConnection(j) \/ ClosePeerEnd(j)
        PROVE  /\ wire'[k] = wire[k] /\ received'[k] = received[k]
               /\ joinedAt'[k] = joinedAt[k]
    BY <1>8, <2>1 DEF PeerStep, relayVars, OpenConnection, ClosePeerEnd
  <2>2. QED
    BY <1>3, <1>6, <1>8, <2>1 DEF PeerStep
<1>9. QED
  BY <1>4, <1>5, <1>7, <1>8 DEF RelayStep, RelayNext, AcceptThread
-----------------------------------------------------------------------------
(* No client is left behind.                                               *)

\* Every client is sent every packet, whoever else is dead or comes in.
LEMMA UpToDateStep ==
  ASSUME RelayInv, RelayStep
  PROVE  UpToDate'
<1> DEFINE Reached(k) == joinedAt[k] + Len(received[k]) + Len(wire[k])
           ReachedNext(k) == joinedAt'[k] + Len(received'[k]) + Len(wire'[k])
<1>1. /\ Typed /\ Typed' /\ Instances /\ OnePlace /\ Fresh
      /\ \A g \in Gen : g > gen => clients[g] = <<>>
  BY TypedStep DEF RelayInv, Instances
<1>2. \A k \in Conn : /\ joinedAt[k] \in Nat /\ joinedAt'[k] \in Nat
                      /\ Len(received[k]) \in Nat /\ Len(received'[k]) \in Nat
                      /\ Len(wire[k]) \in Nat /\ Len(wire'[k]) \in Nat
  BY <1>1 DEF Typed, RelayTypeOK
<1>3. packet \in Nat /\ packet' \in Nat /\ gen \in 0..MaxGen
  BY <1>1 DEF Typed, RelayTypeOK
<1>4. Up => /\ gen \in Gen /\ clients[gen] \in Seq(Conn) /\ Len(clients[gen]) \in Nat
            /\ DOMAIN clients[gen] = 1..Len(clients[gen])
            /\ \A i \in DOMAIN clients[gen] :
                 /\ clients[gen][i] \in Conn
                 /\ peerEnd[clients[gen][i]] = "open" => Reached(clients[gen][i]) = Due(i)
  <2>1. Up => gen \in Gen
    BY <1>1, GenStarted DEF Up
  <2>2. QED
    BY <1>1, <2>1, Lists DEF RelayInv, UpToDate
<1> SUFFICES ASSUME Up', NEW i \in DOMAIN clients'[gen'],
                    peerEnd'[clients'[gen'][i]] = "open"
             PROVE  ReachedNext(clients'[gen'][i]) = Due(i)'
  BY DEF UpToDate
<1>5. CASE /\ UNCHANGED <<gen, clients, packet, joinedAt, wire, received, engine, index>>
           /\ \A k \in Conn : peerEnd'[k] = "open" /\ (\E g \in Gen : Holds(g, k))
                                => peerEnd[k] = "open"
  <2>1. clients[gen][i] \in Conn /\ Holds(gen, clients[gen][i]) /\ gen \in Gen
    BY <1>4, <1>5 DEF Up, Holds, ClientsOf
  <2>2. QED
    BY <1>4, <1>5, <2>1 DEF Up, Due
<1>6. CASE StartServer
  <2>1. clients'[gen'] = <<>>
    BY <1>1, <1>3, <1>6, SocketAssumption DEF StartServer, Gen
  <2>2. DOMAIN <<>> = {}
    OBVIOUS
  <2>3. QED
    BY <2>1, <2>2
<1>7. CASE BeginBroadcast
  <2>1. /\ UNCHANGED <<gen, clients, joinedAt, wire, received, peerEnd>>
        /\ engine = "idle" /\ engine' = "sending" /\ index' = 0 /\ packet' = packet + 1
    BY <1>7 DEF BeginBroadcast, socketVars
  <2>2. i \in 1..Len(clients[gen]) /\ Due(i) = packet
    BY <1>4, <2>1 DEF Up, Due
  <2>3. Due(i)' = packet
    BY <1>3, <1>4, <2>1, <2>2 DEF Due, Up
  <2>4. QED
    BY <1>4, <2>1, <2>2, <2>3 DEF Up
<1>8. CASE SendToNext
  <2> DEFINE c == clients[gen][index + 1]
  <2>1. /\ received' = received /\ joinedAt' = joinedAt /\ peerEnd' = peerEnd
        /\ \A j \in Conn : j # c => wire'[j] = wire[j]
        /\ peerEnd[c] # "closed" =>
             /\ joinedAt[c] + Len(received[c]) + Len(wire[c]) + 1 = packet
             /\ Len(wire'[c]) = Len(wire[c]) + 1
    BY <1>8, SendToNextFacts
  <2>2. /\ UNCHANGED <<gen, clients, packet, engine>> /\ engine = "sending"
        /\ index' = index + 1
    BY <1>8 DEF SendToNext
  <2>3. gen \in Gen /\ index \in Nat /\ index + 1 \in DOMAIN clients[gen] /\ c \in Conn
    BY <1>8, NextClient
  <2>4. i # index + 1 => clients[gen][i] # c
    BY <1>1, <2>2, <2>3 DEF OnePlace, ClientsOnce
  <2>5. i = index + 1 => clients[gen][i] = c
    OBVIOUS
  <2> HIDE DEF c
  <2>6. i \in Nat /\ clients[gen][i] \in Conn
    BY <1>4, <2>2 DEF Up
  <2>7. CASE i = index + 1
    <3>1. Due(i)' = packet
      BY <2>2, <2>3, <2>7 DEF Due
    <3>2. peerEnd[c] = "open"
      BY <2>1, <2>2, <2>5, <2>7
    <3>3. ReachedNext(c) = packet
      <4>1. joinedAt[c] \in Nat /\ Len(received[c]) \in Nat /\ Len(wire[c]) \in Nat
        BY <1>2, <2>3
      <4>2. /\ joinedAt[c] + Len(received[c]) + Len(wire[c]) + 1 = packet
            /\ Len(wire'[c]) = Len(wire[c]) + 1
        BY <2>1, <3>2
      <4>3. joinedAt[c] + Len(received[c]) + (Len(wire[c]) + 1) = packet
        BY <4>1, <4>2
      <4>4. QED
        BY <2>1, <4>2, <4>3
    <3>4. QED
      BY <2>2, <2>5, <2>7, <3>1, <3>3
  <2>8. CASE i # index + 1
    <3>1. Due(i)' = Due(i)
      BY <2>2, <2>3, <2>6, <2>8 DEF Due
    <3>2. ReachedNext(clients[gen][i]) = Reached(clients[gen][i])
      BY <2>1, <2>4, <2>6, <2>8
    <3>3. Reached(clients[gen][i]) = Due(i)
      BY <1>4, <2>1, <2>2 DEF Up
    <3>4. QED
      BY <2>2, <3>1, <3>2, <3>3
  <2>9. QED
    BY <2>7, <2>8
<1>9. CASE EndBroadcast
  <2>1. /\ UNCHANGED <<gen, packet, joinedAt, wire, received, peerEnd>>
        /\ engine = "sending" /\ engine' = "idle" /\ index = Len(clients[gen])
        /\ clients' = [clients EXCEPT ![gen] = Without(@, dead)]
    BY <1>9 DEF EndBroadcast
  <2>2. gen \in Gen /\ clients[gen] \in Seq(Conn) /\ DOMAIN clients[gen] = 1..index
        /\ index \in Nat
    BY <1>4, <2>1 DEF Up
  <2>3. clients'[gen'] = Without(clients[gen], dead)
    BY <1>1, <2>1, <2>2 DEF Typed, RelayTypeOK
  <2>4. PICK j \in DOMAIN clients[gen] : clients'[gen'][i] = clients[gen][j]
    BY <2>2, <2>3, WithoutElements
  <2>5. Due(j) = packet /\ Due(i)' = packet
    BY <2>1, <2>2 DEF Due
  <2>6. Reached(clients[gen][j]) = Due(j)
    BY <1>4, <2>1, <2>4 DEF Up
  <2>7. QED
    BY <2>1, <2>4, <2>5, <2>6
<1>10. CASE ShutDown \/ KillWeewx
  BY <1>10 DEF ShutDown, ClearRunning, CloseServer, CloseClients, Unlink, KillWeewx, Up
<1>11. ASSUME NEW g \in Gen, AddClient(g)
       PROVE  ReachedNext(clients'[gen'][i]) = Due(i)'
  <2> DEFINE a == accepted[g]
  <2>1. /\ UNCHANGED <<gen, packet, wire, received, peerEnd, engine, index>>
        /\ clients' = [clients EXCEPT ![g] = Append(@, a)]
        /\ joinedAt' = [joinedAt EXCEPT ![a] = packet]
        /\ accepter[g] = "adding" /\ ~ lock[g]
    BY <1>11 DEF AddClient, socketVars
  <2>2. a \in Conn /\ a # NoConn /\ Up /\ gen \in Gen /\ clients[gen] \in Seq(Conn)
    BY <1>1, <1>4, <2>1, SocketAssumption DEF Typed, RelayTypeOK, Up, Conn
  <2>3. \A j \in DOMAIN clients[gen] : clients[gen][j] # a
    BY <1>1, <2>2 DEF OnePlace, AcceptedApart
  <2>4. wire[a] = <<>> /\ received[a] = <<>>
    BY <1>1, <2>2 DEF Fresh, Silent
  <2>5. joinedAt'[a] = packet /\ \A k \in Conn : k # a => joinedAt'[k] = joinedAt[k]
    BY <1>1, <2>1, <2>2 DEF Typed, RelayTypeOK
  <2>6. Due(i)' = Due(i)
    BY <2>1 DEF Due
  <2>7. ASSUME i \in DOMAIN clients[gen], clients'[gen'][i] = clients[gen][i]
        PROVE  ReachedNext(clients'[gen'][i]) = Due(i)'
    BY <1>4, <2>1, <2>2, <2>3, <2>5, <2>6, <2>7
  <2>8. CASE g # gen
    <3>1. clients'[gen'] = clients[gen]
      BY <1>1, <2>1, <2>2, <2>8 DEF Typed, RelayTypeOK
    <3>2. QED
      BY <2>7, <3>1
  <2>9. CASE g = gen
    <3>1. clients'[gen'] = Append(clients[gen], a)
      BY <1>1, <2>1, <2>2, <2>9 DEF Typed, RelayTypeOK
    <3>2. engine # "sending"
      BY <1>1, <2>1, <2>9, <1>11 DEF Typed, RelayTypeOK
    <3>3. /\ DOMAIN clients[gen] = 1..Len(clients[gen]) /\ Len(clients[gen]) \in Nat
          /\ DOMAIN clients'[gen'] = 1..(Len(clients[gen]) + 1)
          /\ \A j \in 1..Len(clients[gen]) : clients'[gen'][j] = clients[gen][j]
          /\ clients'[gen'][Len(clients[gen]) + 1] = a
      BY <2>2, <3>1, AppendFacts
    <3>4. CASE i = Len(clients[gen]) + 1
      <4>1. Due(i)' = packet
        BY <2>6, <3>2 DEF Due
      <4>2. Len(<<>>) = 0
        OBVIOUS
      <4>3. ReachedNext(a) = packet
        BY <1>3, <2>1, <2>4, <2>5, <4>2
      <4>4. QED
        BY <3>3, <3>4, <4>1, <4>3
    <3>5. CASE i \in 1..Len(clients[gen])
      BY <2>7, <3>3, <3>5
    <3>6. QED
      BY <3>3, <3>4, <3>5
  <2>10. QED
    BY <2>8, <2>9
<1>12. ASSUME NEW g \in Gen, Collect(g)
       PROVE  ReachedNext(clients'[gen'][i]) = Due(i)'
  <2>1. /\ UNCHANGED <<gen, packet, wire, received, peerEnd, joinedAt, engine, index>>
        /\ clients' = [clients EXCEPT ![g] = <<>>] /\ g < gen
    BY <1>12 DEF Collect
  <2>2. clients'[gen'] = clients[gen]
    BY <1>1, <1>3, <1>4, <2>1 DEF Typed, RelayTypeOK, Up
  <2>3. QED
    BY <1>4, <2>1, <2>2 DEF Up, Due
<1>13. ASSUME NEW k \in Conn, NEW n \in 1..Len(wire[k]), ReadLines(k, n),
              UNCHANGED relayVars
       PROVE  ReachedNext(clients'[gen'][i]) = Due(i)'
  <2>1. /\ \A j \in Conn : j # k => wire'[j] = wire[j] /\ received'[j] = received[j]
        /\ n \in Nat
        /\ Len(wire'[k]) = Len(wire[k]) - n
        /\ Len(received'[k]) = Len(received[k]) + n
    BY <1>1, <1>13, ReadStep
  <2>2. /\ UNCHANGED <<gen, clients, packet, joinedAt, engine, index, peerEnd>>
    BY <1>13 DEF relayVars, ReadLines
  <2>3. ReachedNext(k) = Reached(k)
    BY <1>2, <2>1, <2>2
  <2>4. \A j \in Conn : ReachedNext(j) = Reached(j)
    BY <2>1, <2>2, <2>3
  <2>5. QED
    BY <1>4, <2>2, <2>4 DEF Up, Due
<1>14. CASE \E g \in Gen : \/ CheckRunning(g) \/ CallAccept(g)
                           \/ TakeConnection(g) \/ AcceptFails(g)
  BY <1>5, <1>14 DEF CheckRunning, CallAccept, TakeConnection, AcceptFails, socketVars
<1>15. CASE PeerStep
  <2>1. ASSUME NEW k \in Conn, OpenConnection(k)
        PROVE  ReachedNext(clients'[gen'][i]) = Due(i)'
    <3>1. UNCHANGED <<gen, clients, packet, joinedAt, wire, received, engine, index>>
      BY <1>15, <2>1 DEF PeerStep, relayVars, OpenConnection
    <3>2. \A j \in Conn : j # k => peerEnd'[j] = peerEnd[j]
      BY <1>1, <2>1 DEF OpenConnection, Typed, RelayTypeOK
    <3>3. \A g \in Gen : ~ Holds(g, k)
      BY <1>1, <2>1 DEF OpenConnection, Unused, Fresh
    <3>4. QED
      BY <1>5, <3>1, <3>2, <3>3
  <2>2. ASSUME NEW k \in Conn, ClosePeerEnd(k)
        PROVE  ReachedNext(clients'[gen'][i]) = Due(i)'
    <3>1. UNCHANGED <<gen, clients, packet, joinedAt, wire, received, engine, index>>
      BY <1>15, <2>2 DEF PeerStep, relayVars, ClosePeerEnd
    <3>2. \A j \in Conn : peerEnd'[j] = "open" => peerEnd[j] = "open"
      BY <1>1, <2>2 DEF ClosePeerEnd, Typed, RelayTypeOK
    <3>3. QED
      BY <1>5, <3>1, <3>2
  <2>3. QED
    BY <1>13, <1>15, <2>1, <2>2 DEF PeerStep
<1>16. QED
  BY <1>6, <1>7, <1>8, <1>9, <1>10, <1>11, <1>12, <1>14, <1>15
     DEF RelayStep, RelayNext, AcceptThread
-----------------------------------------------------------------------------
(* The theorems.                                                           *)

\* Before weewx starts nothing is open.
LEMMA RelayInvInit == RelaySystemInit => RelayInv
<1> SUFFICES ASSUME RelaySystemInit PROVE RelayInv
  OBVIOUS
<1>1. /\ \A g \in Gen : /\ backlog[g] = <<>> /\ clients[g] = <<>>
                        /\ accepted[g] = NoConn /\ accepter[g] = "none"
      /\ \A k \in Conn : /\ wire[k] = <<>> /\ received[k] = <<>>
                         /\ relayEnd[k] = "none"
      /\ engine = "down" /\ gen = 0
  BY DEF RelaySystemInit, SocketInit, RelayInit
<1>2. DOMAIN <<>> = {} /\ Len(<<>>) = 0
  OBVIOUS
<1>3. Typed
  <2>1. NoConn \notin Conn /\ 0 \in 0..Cardinality(Conn)
    BY SocketAssumption, ConnCounted DEF Conn
  <2>2. <<>> \in Seq(Conn) /\ <<>> \in Seq(1..MaxPackets)
    BY EmptySeq
  <2>3. RelayTypeOK
    BY <1>2, <2>1, <2>2, SocketAssumption, RelayAssumption
       DEF RelaySystemInit, SocketInit, RelayInit, RelayTypeOK, Engine, Accepter
  <2>4. QED
    BY <2>3 DEF Typed, RelaySystemInit, RelayInit
<1>4. Instances /\ RelayIsReachable /\ Round /\ UpToDate
  BY <1>1 DEF Instances, RelayIsReachable, Round, UpToDate, Up
<1>5. OnePlace
  BY <1>1, <1>2 DEF OnePlace, BacklogOnce, ClientsOnce, AcceptedOnce, BacklogApart,
                    AcceptedApart
<1>6. Fresh
  BY <1>1, <1>2, SocketAssumption DEF Fresh, Silent, Holds, ClientsOf, Conn
<1>7. OpenIsKnown /\ InOrder
  BY <1>1, <1>2 DEF OpenIsKnown, InOrder
<1>8. QED
  BY <1>3, <1>4, <1>5, <1>6, <1>7 DEF RelayInv

\* A step of the weewx process or of a reader keeps the invariant.
LEMMA RelayInvStep == RelayInv /\ [RelayStep]_relaySystem => RelayInv'
<1> SUFFICES ASSUME RelayInv, [RelayStep]_relaySystem PROVE RelayInv'
  OBVIOUS
<1>1. CASE RelayStep
  BY <1>1, TypedStep, InstancesStep, ReachableStep, RoundStep, OnePlaceStep,
     FreshStep, OpenIsKnownStep, InOrderStep, UpToDateStep
     DEF RelayInv
<1>2. CASE UNCHANGED relaySystem
  <2> USE <1>2 DEF relaySystem, socketVars, relayVars, RelayInv
  <2>1. Typed'
    BY DEF Typed, RelayTypeOK
  <2>2. Instances' /\ RelayIsReachable' /\ Round'
    BY DEF Instances, RelayIsReachable, Round, Up, ClientsOf
  <2>3. OnePlace'
    BY DEF OnePlace, BacklogOnce, ClientsOnce, AcceptedOnce, BacklogApart, AcceptedApart
  <2>4. Fresh' /\ OpenIsKnown'
    BY DEF Fresh, Silent, OpenIsKnown, Holds, ClientsOf
  <2>5. InOrder' /\ UpToDate'
    BY DEF InOrder, UpToDate, Up, Due
  <2>6. QED
    BY <2>1, <2>2, <2>3, <2>4, <2>5
<1>3. QED
  BY <1>1, <1>2

\* The reader of RelaySpec does what any reader may.
LEMMA PeerNextIsPeerStep ==
  ASSUME Typed, PeerNext, UNCHANGED relayVars
  PROVE  PeerStep
<1>1. PICK k \in Conn : PeerConnect(k) \/ PeerRead(k) \/ PeerClose(k)
  BY DEF PeerNext
<1>2. PeerRead(k) => 1 \in 1..Len(wire[k]) /\ ReadLines(k, 1)
  BY DEF PeerRead, ReadLines
<1>3. QED
  BY <1>1, <1>2 DEF PeerStep, PeerConnect, PeerClose

\* The invariant the theorems below rest on: the broadcast and the accept
\* thread share the lock, so a list of clients is never changed under the
\* loop over it, and each connection is in one place.
THEOREM RelayInvariant == RelaySpec => []RelayInv
<1>1. RelaySystemInit => RelayInv
  BY RelayInvInit
<1>2. RelayInv /\ [RelayNext \/ (PeerNext /\ UNCHANGED relayVars)]_relaySystem
        => RelayInv'
  BY RelayInvStep, PeerNextIsPeerStep DEF RelayInv, RelayStep
<1>3. QED
  BY <1>1, <1>2, PTL DEF RelaySpec

\* A connection carries consecutive packets, from the first after it joined.
LEMMA InvContiguous == RelayInv => ReceivesContiguously
<1> SUFFICES ASSUME RelayInv, NEW k \in Conn, NEW i \in DOMAIN SentOn(k)
             PROVE  SentOn(k)[i] = joinedAt[k] + i
  BY DEF ReceivesContiguously
<1> DEFINE m == Len(received[k])
           n == Len(wire[k])
           j == joinedAt[k]
<1>1. received[k] \in Seq(1..MaxPackets) /\ wire[k] \in Seq(1..MaxPackets)
  BY DEF RelayInv, Typed, RelayTypeOK
<1>2. m \in Nat /\ n \in Nat /\ j \in Nat
  BY <1>1 DEF RelayInv, Typed, RelayTypeOK
<1>3. /\ \A h \in 1..m : received[k][h] = j + h
      /\ \A h \in 1..n : wire[k][h] = j + m + h
  BY DEF RelayInv, InOrder
<1>4. /\ DOMAIN SentOn(k) = 1..Len(SentOn(k)) /\ Len(SentOn(k)) = m + n
      /\ \A h \in 1..(m + n) :
           SentOn(k)[h] = IF h <= m THEN received[k][h] ELSE wire[k][h - m]
  BY <1>1, ConcatProperties, LenProperties DEF SentOn
<1> HIDE DEF m, n, j
<1>5. i \in 1..(m + n)
  BY <1>4
<1>6. CASE i <= m
  BY <1>2, <1>3, <1>4, <1>5, <1>6 DEF j
<1>7. CASE ~ (i <= m)
  <2>1. i - m \in 1..n /\ i \in Nat
    BY <1>2, <1>5, <1>7
  <2>2. SentOn(k)[i] = wire[k][i - m]
    BY <1>4, <1>5, <1>7
  <2>3. wire[k][i - m] = j + m + (i - m)
    BY <1>3, <2>1
  <2>4. j + m + (i - m) = j + i
    BY <1>2, <2>1
  <2>5. QED
    BY <2>2, <2>3, <2>4 DEF j
<1>8. QED
  BY <1>6, <1>7

\* Between two packets every client with a reader has been sent all of them.
LEMMA InvCurrent == RelayInv => ClientIsCurrent
<1> SUFFICES ASSUME RelayInv, engine = "idle", NEW k \in ClientsOf(gen),
                    peerEnd[k] = "open"
             PROVE  joinedAt[k] + Len(SentOn(k)) = packet
  BY DEF ClientIsCurrent
<1>1. PICK i \in DOMAIN clients[gen] : clients[gen][i] = k
  BY DEF ClientsOf
<1>2. joinedAt[k] + Len(received[k]) + Len(wire[k]) = packet
  BY <1>1 DEF RelayInv, UpToDate, Up, Due
<1>3. gen \in Gen /\ k \in Conn
  BY <1>1, GenStarted, Lists DEF RelayInv
<1>4. received[k] \in Seq(1..MaxPackets) /\ wire[k] \in Seq(1..MaxPackets)
  BY <1>3 DEF RelayInv, Typed, RelayTypeOK
<1>5. Len(SentOn(k)) = Len(received[k]) + Len(wire[k])
  BY <1>4, ConcatProperties DEF SentOn
<1>6. Len(received[k]) \in Nat /\ Len(wire[k]) \in Nat /\ joinedAt[k] \in Nat
  BY <1>3, <1>4 DEF RelayInv, Typed, RelayTypeOK
<1>7. joinedAt[k] + (Len(received[k]) + Len(wire[k])) = packet
  <2> DEFINE m == Len(received[k])
             n == Len(wire[k])
             j == joinedAt[k]
  <2>1. m \in Nat /\ n \in Nat /\ j \in Nat /\ j + m + n = packet
    BY <1>2, <1>6
  <2> HIDE DEF m, n, j
  <2>2. j + (m + n) = packet
    BY <2>1
  <2>3. QED
    BY <2>2 DEF m, n, j
<1>8. QED
  BY <1>5, <1>7

\* Types; the lock is held exactly while a packet is being sent.
THEOREM RelayTypesHold == RelaySpec => []RelayTypeOK
<1>1. RelayInv => RelayTypeOK
  BY DEF RelayInv, Typed
<1>2. QED
  BY <1>1, RelayInvariant, PTL

\* No reader of the socket sees a gap, a repetition or the second half of a
\* broadcast (on_new_loop_packet against _accept_loop).
THEOREM DeliveryIsContiguous == RelaySpec => []ReceivesContiguously
BY RelayInvariant, InvContiguous, PTL

\* A dead client costs the others nothing, and a client that joins while a
\* packet is being sent misses none after it.
THEOREM NoClientLeftBehind == RelaySpec => []ClientIsCurrent
BY RelayInvariant, InvCurrent, PTL

\* While an instance runs the file leads to it, whatever was left behind.
THEOREM ReachableWhileUp == RelaySpec => []RelayIsReachable
<1>1. RelayInv => RelayIsReachable
  BY DEF RelayInv
<1>2. QED
  BY <1>1, RelayInvariant, PTL

\* No open connection is forgotten by the relay.
THEOREM NoConnectionForgotten == RelaySpec => []OpenIsKnown
<1>1. RelayInv => OpenIsKnown
  BY DEF RelayInv
<1>2. QED
  BY <1>1, RelayInvariant, PTL
=============================================================================
