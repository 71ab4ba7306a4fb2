-------------------------- MODULE DirectFeedProofs --------------------------
(***************************************************************************)
(* Proofs about direct mode end to end: the relay's guarantees hold with   *)
(* the adapter as its reader, and with them what reaches the emitter's     *)
(* queue is in weewx's order, over any number of kills, restarts and       *)
(* reconnections.                                                          *)
(***************************************************************************)
EXTENDS DirectFeed, LoopRelayProofs

-----------------------------------------------------------------------------
(* The inductive invariant.                                                *)

AdapterTyped ==
  /\ task \in Task
  /\ stopSet \in BOOLEAN
  /\ connected \in BOOLEAN
  /\ conn \in Conn \cup {NoConn}
  /\ feed \in Seq(1..MaxPackets)

\* The task reads from a connection it has not closed.
ReadsItsOwn == task = "reading" => conn \in Conn /\ peerEnd[conn] = "open"

\* No connection carries a packet that weewx has not made.
NothingAhead ==
  \A k \in Conn : joinedAt[k] + Len(received[k]) + Len(wire[k]) <= packet

\* The packets in the feed are weewx's ...
FeedIsPast == \A i \in DOMAIN feed : feed[i] <= packet

\* ... and come before all that the connection in use may still bring.
FeedIsBehind ==
  task = "reading" /\ (wire[conn] # <<>> \/ \E g \in Gen : conn \in ClientsOf(g)) =>
    \A i \in DOMAIN feed : feed[i] <= joinedAt[conn] + Len(received[conn])

\* What has been read from the connection in use is in the feed.
FeedHasRead ==
  task = "reading" =>
    \A m \in 1..Len(received[conn]) :
      \E i \in DOMAIN feed : feed[i] = joinedAt[conn] + m

FeedInv ==
  /\ RelayInv
  /\ AdapterTyped
  /\ OneConnection
  /\ ReadsItsOwn
  /\ NothingAhead
  /\ FeedIsPast
  /\ FeedIsBehind
  /\ FeedHasRead
  /\ FeedInOrder
-----------------------------------------------------------------------------
(* The adapter as a reader of the socket.                                  *)

\* What each step of the adapter does, and that it is a reader's step.
LEMMA AdapterSteps ==
  ASSUME FeedInv, Adapter
  PROVE  /\ UNCHANGED relayVars
         /\ \/ ConnectOk
            \/ ReadBatch
            \/ task = "reading" /\ LeaveReading
            \/ /\ UNCHANGED <<socketVars, feed, stopSet>>
               /\ task # "reading"
               /\ task' \in Task \ {"reading"}
               /\ connected' = FALSE
               /\ conn' \in {conn, NoConn}
            \/ UNCHANGED <<socketVars, task, connected, conn, feed>> /\ stopSet' = TRUE
BY DEF FeedInv, OneConnection, AdapterTyped, Adapter, AdapterNext, AdapterStart,
       AdapterStop, Run, ConnectFails, EndOfStream, WriterClosed, Retry,
       CancelReading, CancelEnds, Task

\* A step of direct mode is one of the relay with some reader.
LEMMA FeedOfRelay ==
  ASSUME FeedInv, [Relay \/ Adapter]_feedSystem
  PROVE  RelayInv'
<1>1. RelayInv /\ ReadsItsOwn
  BY DEF FeedInv
<1>2. CASE Relay
  BY <1>1, <1>2, RelayInvStep DEF Relay, RelayStep
<1>3. CASE UNCHANGED <<socketVars, relayVars>>
  BY <1>1, <1>3, RelayInvStep DEF relaySystem
<1>4. CASE Adapter /\ PeerStep
  BY <1>1, <1>4, RelayInvStep DEF RelayStep
<1>5. CASE Adapter
  <2>1. UNCHANGED relayVars
    BY <1>5, AdapterSteps
  <2>2. CASE ConnectOk
    BY <1>4, <1>5, <2>1, <2>2 DEF ConnectOk, PeerStep
  <2>3. CASE ReadBatch
    BY <1>1, <1>4, <1>5, <2>1, <2>3 DEF ReadBatch, PeerStep, ReadsItsOwn
  <2>4. CASE task = "reading" /\ LeaveReading
    BY <1>1, <1>4, <1>5, <2>1, <2>4 DEF LeaveReading, PeerStep, ReadsItsOwn
  <2>5. QED
    BY <1>3, <1>5, <2>1, <2>2, <2>3, <2>4, AdapterSteps
<1>6. QED
  BY <1>2, <1>3, <1>5 DEF feedSystem

\* The service's own variables: one connection at a time, the one it reads.
LEMMA AdapterInvStep ==
  ASSUME FeedInv, [Relay \/ Adapter]_feedSystem
  PROVE  AdapterTyped' /\ OneConnection' /\ ReadsItsOwn'
<1>1. Typed /\ AdapterTyped /\ OneConnection /\ ReadsItsOwn
  BY DEF FeedInv, RelayInv
<1>2. NoConn \notin Conn
  BY SocketAssumption DEF Conn
<1>3. CASE UNCHANGED <<task, stopSet, connected, conn, feed, peerEnd>>
  BY <1>1, <1>3 DEF AdapterTyped, OneConnection, ReadsItsOwn
<1>4. CASE ConnectOk
  <2>1. PICK k \in Conn : OpenConnection(k) /\ conn' = k
    BY <1>4 DEF ConnectOk
  <2>2. /\ peerEnd'[k] = "open" /\ \A j \in Conn : j # k => peerEnd'[j] = peerEnd[j]
        /\ task = "connecting"
    BY <1>1, <1>4, <2>1 DEF ConnectOk, OpenConnection, Typed, RelayTypeOK
  <2>3. QED
    BY <1>1, <1>4, <2>1, <2>2
       DEF ConnectOk, AdapterTyped, OneConnection, ReadsItsOwn, Task
<1>5. CASE ReadBatch
  <2>1. PICK n \in 1..Len(wire[conn]) :
          ReadLines(conn, n) /\ feed' = feed \o SubSeq(wire[conn], 1, n)
    BY <1>5 DEF ReadBatch
  <2>2. conn \in Conn /\ wire[conn] \in Seq(1..MaxPackets) /\ feed \in Seq(1..MaxPackets)
    BY <1>1, <1>5 DEF ReadBatch, ReadsItsOwn, Typed, RelayTypeOK, AdapterTyped
  <2>3. SubSeq(wire[conn], 1, n) \in Seq(1..MaxPackets)
    BY <1>1, <2>1, <2>2, ReadLinesFacts
  <2>4. feed' \in Seq(1..MaxPackets)
    BY <2>1, <2>2, <2>3
  <2>5. UNCHANGED <<task, stopSet, connected, conn, peerEnd>>
    BY <1>5, <2>1 DEF ReadBatch, ReadLines
  <2>6. QED
    BY <1>1, <2>4, <2>5 DEF AdapterTyped, OneConnection, ReadsItsOwn
<1>6. CASE task = "reading" /\ LeaveReading
  <2>1. conn \in Conn /\ peerEnd' = [peerEnd EXCEPT ![conn] = "closed"]
    BY <1>1, <1>6 DEF LeaveReading, ClosePeerEnd, ReadsItsOwn
  <2>2. \A j \in Conn : peerEnd'[j] # "open"
    BY <1>1, <2>1, <1>6 DEF OneConnection, Typed, RelayTypeOK
  <2>3. QED
    BY <1>1, <1>6, <2>2
       DEF LeaveReading, AdapterTyped, OneConnection, ReadsItsOwn, Task
<1>7. CASE /\ UNCHANGED <<socketVars, feed, stopSet>>
           /\ task # "reading"
           /\ task' \in Task \ {"reading"}
           /\ connected' = FALSE
           /\ conn' \in {conn, NoConn}
  BY <1>1, <1>7 DEF AdapterTyped, OneConnection, ReadsItsOwn, socketVars
<1>8. CASE UNCHANGED <<socketVars, task, connected, conn, feed>> /\ stopSet' = TRUE
  BY <1>1, <1>8 DEF AdapterTyped, OneConnection, ReadsItsOwn, socketVars
<1>9. CASE Adapter
  BY <1>4, <1>5, <1>6, <1>7, <1>8, <1>9, AdapterSteps
<1>10. QED
  BY <1>3, <1>9, RelayKeepsPeers DEF Relay, adapterVars, feedSystem, socketVars
-----------------------------------------------------------------------------
(* The order of the feed.                                                  *)

\* What the batch of lines a reader hands on adds to the feed.
LEMMA ReadBatchFacts ==
  ASSUME FeedInv, ReadBatch, UNCHANGED relayVars
  PROVE  \E n \in Nat :
           /\ conn \in Conn /\ wire[conn] # <<>>
           /\ Len(feed) \in Nat /\ DOMAIN feed = 1..Len(feed)
           /\ n <= Len(wire[conn])
           /\ Len(received'[conn]) = Len(received[conn]) + n
           /\ DOMAIN feed' = 1..(Len(feed) + n)
           /\ \A i \in 1..Len(feed) : feed'[i] = feed[i]
           /\ \A i \in 1..n :
                feed'[Len(feed) + i] = joinedAt[conn] + Len(received[conn]) + i
           /\ UNCHANGED <<task, conn, joinedAt, packet>>
<1>1. Typed /\ InOrder /\ conn \in Conn /\ feed \in Seq(1..MaxPackets)
  BY DEF FeedInv, RelayInv, ReadsItsOwn, ReadBatch, AdapterTyped
<1>2. PICK n \in 1..Len(wire[conn]) :
        ReadLines(conn, n) /\ feed' = feed \o SubSeq(wire[conn], 1, n)
  BY DEF ReadBatch
<1> DEFINE t == SubSeq(wire[conn], 1, n)
<1>3. /\ t \in Seq(1..MaxPackets) /\ Len(t) = n /\ \A i \in 1..n : t[i] = wire[conn][i]
  BY <1>1, ReadLinesFacts
<1>4. /\ n \in Nat /\ Len(wire[conn]) \in Nat
      /\ Len(received'[conn]) = Len(received[conn]) + n
  BY <1>1, <1>2, ReadStep
<1>5. n <= Len(wire[conn]) /\ n # 0
  BY <1>2, <1>4
<1>6. wire[conn] # <<>>
  <2>1. Len(<<>>) = 0
    OBVIOUS
  <2>2. QED
    BY <1>4, <1>5, <2>1
<1> HIDE DEF t
<1>7. /\ Len(feed) \in Nat /\ DOMAIN feed = 1..Len(feed)
      /\ feed \o t \in Seq(1..MaxPackets)
      /\ Len(feed \o t) = Len(feed) + n
      /\ \A i \in 1..(Len(feed) + n) :
           (feed \o t)[i] = IF i <= Len(feed) THEN feed[i] ELSE t[i - Len(feed)]
  BY <1>1, <1>3, <1>4, ConcatProperties, LenProperties
<1>8. DOMAIN (feed \o t) = 1..(Len(feed) + n)
  BY <1>7, LenProperties
<1>9. feed' = feed \o t
  BY <1>2 DEF t
<1>10. \A i \in 1..Len(feed) : feed'[i] = feed[i]
  BY <1>4, <1>7, <1>9
<1>11. ASSUME NEW i \in 1..n
       PROVE  feed'[Len(feed) + i] = joinedAt[conn] + Len(received[conn]) + i
  <2>1. /\ Len(feed) + i \in 1..(Len(feed) + n) /\ ~ (Len(feed) + i <= Len(feed))
        /\ Len(feed) + i - Len(feed) = i /\ i \in 1..Len(wire[conn])
    BY <1>4, <1>5, <1>7
  <2>2. feed'[Len(feed) + i] = t[i]
    BY <1>7, <1>9, <2>1
  <2>3. t[i] = wire[conn][i]
    BY <1>3
  <2>4. wire[conn][i] = joinedAt[conn] + Len(received[conn]) + i
    BY <1>1, <2>1 DEF InOrder
  <2>5. QED
    BY <2>2, <2>3, <2>4
<1>12. UNCHANGED <<task, conn, joinedAt, packet>>
  BY DEF ReadBatch, relayVars
<1>13. QED
  BY <1>1, <1>4, <1>5, <1>6, <1>7, <1>8, <1>9, <1>10, <1>11, <1>12

\* In the relay only AddClient adds a client, and nothing is read.
LEMMA RelayLeaves ==
  ASSUME RelayInv, RelayNext
  PROVE  /\ received' = received
         /\ packet' \in Nat /\ packet <= packet'
         /\ \/ \E g \in Gen : AddClient(g)
            \/ SendToNext
            \/ /\ UNCHANGED <<wire, joinedAt>>
               /\ \A g \in Gen : ClientsOf(g)' \subseteq ClientsOf(g)
<1>1. Typed /\ Typed'
  BY TypedStep DEF RelayInv, RelayStep
<1>2. received' = received
  BY DEF RelayNext, StartServer, BeginBroadcast, SendToNext, EndBroadcast, ShutDown,
         ClearRunning, CloseServer, CloseClients, Unlink, KillWeewx, AcceptThread,
         CheckRunning, CallAccept, TakeConnection, AcceptFails, AddClient, Collect,
         socketVars
<1>3. packet \in Nat /\ packet' \in Nat
  BY <1>1 DEF Typed, RelayTypeOK
<1>4. packet' = packet \/ packet' = packet + 1
  BY DEF RelayNext, StartServer, BeginBroadcast, SendToNext, EndBroadcast, ShutDown,
         ClearRunning, CloseServer, CloseClients, Unlink, KillWeewx, AcceptThread,
         CheckRunning, CallAccept, TakeConnection, AcceptFails, AddClient, Collect
<1>5. \/ \E g \in Gen : AddClient(g)
      \/ SendToNext
      \/ UNCHANGED <<wire, joinedAt>> /\ Drops
      \/ UNCHANGED <<wire, joinedAt, clients>>
  BY DEF RelayNext, StartServer, BeginBroadcast, EndBroadcast, ShutDown,
         ClearRunning, CloseServer, CloseClients, Unlink, KillWeewx, AcceptThread,
         CheckRunning, CallAccept, TakeConnection, AcceptFails, Collect, Drops,
         socketVars
<1>6. ASSUME Drops, NEW g \in Gen
      PROVE  ClientsOf(g)' \subseteq ClientsOf(g)
  <2>1. PartOf(clients'[g], clients[g])
    BY <1>1, <1>6, DropsFacts, Lists, PartOfFacts
  <2>2. QED
    BY <2>1 DEF PartOf, ClientsOf
<1>7. clients' = clients => \A g \in Gen : ClientsOf(g)' \subseteq ClientsOf(g)
  BY DEF ClientsOf
<1>8. QED
  BY <1>2, <1>3, <1>4, <1>5, <1>6, <1>7

\* A new client has joined at the last packet.
LEMMA AddClientFacts ==
  ASSUME RelayInv, NEW g \in Gen, AddClient(g)
  PROVE  /\ accepted[g] \in Conn /\ Silent(accepted[g]) /\ UNCHANGED <<wire, packet>>
         /\ joinedAt'[accepted[g]] = packet
         /\ \A k \in Conn : k # accepted[g] => joinedAt'[k] = joinedAt[k]
         /\ \A h \in Gen : ClientsOf(h)' \subseteq ClientsOf(h) \cup {accepted[g]}
<1>1. Typed /\ Fresh
  BY DEF RelayInv
<1>2. accepted[g] \in Conn /\ accepted[g] # NoConn
  BY <1>1, SocketAssumption DEF Typed, RelayTypeOK, AddClient, Conn
<1>3. /\ UNCHANGED <<wire, packet>>
      /\ clients' = [clients EXCEPT ![g] = Append(@, accepted[g])]
      /\ joinedAt' = [joinedAt EXCEPT ![accepted[g]] = packet]
  BY DEF AddClient, socketVars
<1>4. /\ joinedAt'[accepted[g]] = packet
      /\ \A k \in Conn : k # accepted[g] => joinedAt'[k] = joinedAt[k]
  BY <1>1, <1>2, <1>3 DEF Typed, RelayTypeOK
<1>5. /\ clients'[g] = Append(clients[g], accepted[g])
      /\ \A h \in Gen : h # g => clients'[h] = clients[h]
  BY <1>1, <1>3 DEF Typed, RelayTypeOK
<1>6. \A h \in Gen : ClientsOf(h)' \subseteq ClientsOf(h) \cup {accepted[g]}
  <2>1. \A k : (\E i \in DOMAIN Append(clients[g], accepted[g]) :
                  Append(clients[g], accepted[g])[i] = k)
                <=> (k = accepted[g] \/ \E i \in DOMAIN clients[g] : clients[g][i] = k)
    BY <1>1, <1>2, Lists, HoldsAppend
  <2>2. QED
    BY <1>5, <2>1 DEF ClientsOf
<1>7. Silent(accepted[g])
  BY <1>1, <1>2 DEF Fresh
<1>8. QED
  BY <1>2, <1>3, <1>4, <1>6, <1>7

\* No connection carries a packet that weewx has not made.
LEMMA NothingAheadStep ==
  ASSUME FeedInv, [Relay \/ Adapter]_feedSystem
  PROVE  NothingAhead'
<1>1. Typed /\ NothingAhead /\ RelayInv
  BY DEF FeedInv, RelayInv
<1>2. RelayInv'
  BY FeedOfRelay
<1> SUFFICES ASSUME NEW k \in Conn
             PROVE  joinedAt'[k] + Len(received'[k]) + Len(wire'[k]) <= packet'
  BY DEF NothingAhead
<1>3. /\ joinedAt[k] \in Nat /\ Len(received[k]) \in Nat /\ Len(wire[k]) \in Nat
      /\ packet \in Nat
      /\ joinedAt[k] + Len(received[k]) + Len(wire[k]) <= packet
  BY <1>1 DEF NothingAhead, Typed, RelayTypeOK
<1>4. CASE /\ joinedAt'[k] = joinedAt[k] /\ Len(received'[k]) = Len(received[k])
           /\ Len(wire'[k]) = Len(wire[k])
           /\ packet' \in Nat /\ packet <= packet'
  BY <1>3, <1>4
<1>5. CASE SendToNext
  <2> DEFINE c == clients[gen][index + 1]
  <2>1. /\ received' = received /\ joinedAt' = joinedAt
        /\ \A j \in Conn : j # c => wire'[j] = wire[j]
        /\ peerEnd[c] = "closed" => wire'[c] = wire[c]
        /\ peerEnd[c] # "closed" =>
             /\ joinedAt[c] + Len(received[c]) + Len(wire[c]) + 1 = packet
             /\ Len(wire'[c]) = Len(wire[c]) + 1
    BY <1>1, <1>5, SendToNextFacts
  <2> HIDE DEF c
  <2>2. packet' = packet
    BY <1>5 DEF SendToNext
  <2>3. CASE k # c \/ peerEnd[c] = "closed"
    BY <1>3, <1>4, <2>1, <2>2, <2>3
  <2>4. CASE k = c /\ peerEnd[c] # "closed"
    <3> DEFINE m == Len(received[k])
               n == Len(wire[k])
               j == joinedAt[k]
    <3>1. m \in Nat /\ n \in Nat /\ j \in Nat /\ packet \in Nat /\ j + m + n + 1 = packet
      BY <1>3, <2>1, <2>4
    <3>2. joinedAt'[k] = j /\ Len(received'[k]) = m /\ Len(wire'[k]) = n + 1
      BY <2>1, <2>4
    <3> HIDE DEF m, n, j
    <3>3. QED
      BY <2>2, <3>1, <3>2
  <2>5. QED
    BY <2>3, <2>4
<1>6. ASSUME NEW g \in Gen, AddClient(g), RelayNext
      PROVE  joinedAt'[k] + Len(received'[k]) + Len(wire'[k]) <= packet'
  <2>1. /\ Silent(accepted[g]) /\ UNCHANGED <<wire, packet>>
        /\ joinedAt'[accepted[g]] = packet
        /\ \A j \in Conn : j # accepted[g] => joinedAt'[j] = joinedAt[j]
    BY <1>1, <1>6, AddClientFacts
  <2>2. received' = received
    BY <1>1, <1>6, RelayLeaves
  <2>3. CASE k = accepted[g]
    <3>1. Len(wire'[k]) = 0 /\ Len(received'[k]) = 0
      BY <2>1, <2>2, <2>3 DEF Silent
    <3>2. QED
      BY <1>3, <2>1, <2>3, <3>1
  <2>4. CASE k # accepted[g]
    BY <1>3, <1>4, <2>1, <2>2, <2>4
  <2>5. QED
    BY <2>3, <2>4
<1>7. CASE Relay
  <2>1. CASE UNCHANGED <<wire, joinedAt>>
    BY <1>1, <1>4, <1>7, <2>1, RelayLeaves DEF Relay
  <2>2. QED
    BY <1>1, <1>5, <1>6, <1>7, <2>1, RelayLeaves DEF Relay
<1>8. CASE Adapter
  <2>1. joinedAt' = joinedAt /\ packet' = packet
    BY <1>8, AdapterSteps DEF relayVars
  <2>2. CASE UNCHANGED <<wire, received>>
    BY <1>3, <1>4, <2>1, <2>2
  <2>3. CASE ReadBatch
    <3>1. PICK n \in 1..Len(wire[conn]) : ReadLines(conn, n)
      BY <2>3 DEF ReadBatch
    <3>2. conn \in Conn
      BY <2>3 DEF ReadBatch, FeedInv, ReadsItsOwn
    <3>3. CASE k # conn
      <4>1. wire'[k] = wire[k] /\ received'[k] = received[k]
        BY <1>1, <3>1, <3>2, <3>3, ReadStep
      <4>2. QED
        BY <1>3, <1>4, <2>1, <4>1
    <3>4. CASE k = conn
      <4>1. /\ n \in Nat /\ Len(wire'[k]) = Len(wire[k]) - n
            /\ Len(received'[k]) = Len(received[k]) + n
        <5>1. /\ n \in Nat /\ Len(wire'[conn]) = Len(wire[conn]) - n
              /\ Len(received'[conn]) = Len(received[conn]) + n
          BY <1>1, <3>1, <3>2, ReadStep
        <5>2. QED
          BY <3>4, <5>1
      <4> DEFINE u == Len(received[k])
                 w == Len(wire[k])
                 j == joinedAt[k]
      <4>2. /\ u \in Nat /\ w \in Nat /\ j \in Nat /\ packet \in Nat /\ j + u + w <= packet
            /\ joinedAt'[k] = j /\ Len(received'[k]) = u + n /\ Len(wire'[k]) = w - n
            /\ packet' = packet /\ n \in Nat
        BY <1>3, <2>1, <4>1
      <4> HIDE DEF u, w, j
      <4>3. QED
        BY <4>2
    <3>5. QED
      BY <3>3, <3>4
  <2>4. QED
    BY <1>8, <2>2, <2>3, AdapterSteps
       DEF ConnectOk, OpenConnection, LeaveReading, ClosePeerEnd, socketVars
<1>9. QED
  BY <1>3, <1>4, <1>7, <1>8 DEF feedSystem, socketVars, relayVars

\* What comes next is later than all there is: the relay's part.  A client
\* that joins starts after the last packet, which no feed is ahead of.
LEMMA FeedIsBehindRelay ==
  ASSUME FeedInv, Relay
  PROVE  FeedIsBehind'
<1>1. RelayInv /\ RelayNext /\ Typed /\ FeedIsPast /\ FeedIsBehind
      /\ UNCHANGED <<task, conn, feed>>
  BY DEF FeedInv, RelayInv, Relay, adapterVars
<1>2. received' = received /\ (task = "reading" => conn \in Conn)
  BY <1>1, RelayLeaves DEF FeedInv, ReadsItsOwn
<1>3. CASE /\ task = "reading" => wire'[conn] = wire[conn] /\ joinedAt'[conn] = joinedAt[conn]
           /\ \A g \in Gen : conn \in ClientsOf(g)' => conn \in ClientsOf(g)
  BY <1>1, <1>2, <1>3 DEF FeedIsBehind
<1>4. ASSUME NEW g \in Gen, AddClient(g), task = "reading"
      PROVE  FeedIsBehind'
  <2>1. /\ accepted[g] \in Conn /\ UNCHANGED <<wire, packet>>
        /\ joinedAt'[accepted[g]] = packet
        /\ \A k \in Conn : k # accepted[g] => joinedAt'[k] = joinedAt[k]
        /\ \A h \in Gen : ClientsOf(h)' \subseteq ClientsOf(h) \cup {accepted[g]}
    BY <1>1, <1>4, AddClientFacts
  <2>2. CASE conn # accepted[g]
    BY <1>2, <1>3, <1>4, <2>1, <2>2
  <2>3. CASE conn = accepted[g]
    <3> SUFFICES ASSUME NEW i \in DOMAIN feed
                 PROVE  feed[i] <= packet + Len(received[conn])
      BY <1>1, <1>2, <2>1, <2>3 DEF FeedIsBehind
    <3>1. feed[i] <= packet
      BY <1>1 DEF FeedIsPast
    <3>2. Len(received[conn]) \in Nat /\ packet \in Nat /\ feed[i] \in Nat
      <4>1. feed[i] \in 1..MaxPackets
        BY ElementOfSeq, LenProperties DEF FeedInv, AdapterTyped
      <4>2. QED
        BY <1>1, <1>2, <1>4, <4>1, RelayAssumption DEF Typed, RelayTypeOK
    <3> HIDE <1>1, <1>2
    <3>3. QED
      BY <3>1, <3>2
  <2>4. QED
    BY <2>2, <2>3
<1>5. CASE SendToNext /\ task = "reading"
  <2> DEFINE c == clients[gen][index + 1]
  <2>1. \A j \in Conn : j # c => wire'[j] = wire[j]
    BY <1>1, <1>5, SendToNextFacts
  <2>2. gen \in Gen /\ c \in ClientsOf(gen)
    BY <1>1, <1>5, NextClient
  <2> HIDE DEF c
  <2>3. UNCHANGED <<clients, joinedAt>>
    BY <1>5 DEF SendToNext
  <2>4. \A g \in Gen : ClientsOf(g)' = ClientsOf(g)
    BY <2>3 DEF ClientsOf
  <2>5. CASE conn # c
    BY <1>2, <1>3, <1>5, <2>1, <2>3, <2>4, <2>5
  <2>6. CASE conn = c
    BY <1>1, <1>2, <1>5, <2>2, <2>3, <2>6 DEF FeedIsBehind
  <2>7. QED
    BY <2>5, <2>6
<1>6. CASE task # "reading"
  BY <1>1, <1>6 DEF FeedIsBehind
<1>7. QED
  BY <1>1, <1>3, <1>4, <1>5, <1>6, RelayLeaves

\* The service's part: what is read comes after the feed, and a connection
\* that has just been opened has brought nothing yet.
LEMMA FeedOrderAdapter ==
  ASSUME FeedInv, Adapter
  PROVE  FeedIsBehind' /\ FeedIsPast' /\ FeedInOrder'
<1>1. Typed /\ RelayInv /\ FeedIsPast /\ FeedIsBehind /\ FeedInOrder /\ NothingAhead
  BY DEF FeedInv, RelayInv
<1>2. UNCHANGED relayVars
  BY AdapterSteps
<1>3. \A i \in DOMAIN feed : feed[i] \in Nat
  <2>1. \A i \in DOMAIN feed : feed[i] \in 1..MaxPackets
    BY ElementOfSeq, LenProperties DEF FeedInv, AdapterTyped
  <2>2. QED
    BY <2>1, RelayAssumption
<1>4. CASE UNCHANGED feed /\ task' # "reading"
  BY <1>1, <1>2, <1>4 DEF FeedIsBehind, FeedIsPast, FeedInOrder, relayVars
<1>5. CASE UNCHANGED <<socketVars, task, conn, feed>>
  BY <1>1, <1>2, <1>5
     DEF FeedIsBehind, FeedIsPast, FeedInOrder, relayVars, socketVars, ClientsOf
<1>6. CASE ConnectOk
  <2>1. PICK k \in Conn : OpenConnection(k) /\ conn' = k
    BY <1>6 DEF ConnectOk
  <2>2. UNCHANGED <<feed, wire, clients, packet>>
    BY <1>2, <1>6, <2>1 DEF ConnectOk, OpenConnection, relayVars
  <2>3. wire[k] = <<>> /\ \A g \in Gen : k \notin ClientsOf(g)
    BY <1>1, <2>1 DEF OpenConnection, Unused, RelayInv, Fresh, Silent, Holds
  <2>4. QED
    BY <1>1, <2>1, <2>2, <2>3 DEF FeedIsBehind, FeedIsPast, FeedInOrder, ClientsOf
<1>7. CASE ReadBatch
  <2> DEFINE l == Len(feed)
             u == Len(received[conn])
             j == joinedAt[conn]
  <2>1. PICK n \in Nat :
           /\ conn \in Conn /\ wire[conn] # <<>>
           /\ l \in Nat /\ DOMAIN feed = 1..l
           /\ n <= Len(wire[conn])
           /\ Len(received'[conn]) = u + n
           /\ DOMAIN feed' = 1..(l + n)
           /\ \A i \in 1..l : feed'[i] = feed[i]
           /\ \A i \in 1..n : feed'[l + i] = j + u + i
           /\ UNCHANGED <<task, conn, joinedAt, packet>>
    BY <1>2, <1>7, ReadBatchFacts
  <2>2. /\ u \in Nat /\ j \in Nat /\ Len(wire[conn]) \in Nat /\ packet \in Nat
        /\ j + u + Len(wire[conn]) <= packet
    BY <1>1, <2>1 DEF Typed, RelayTypeOK, NothingAhead
  <2>3. j + u + n <= packet
    <3> DEFINE w == Len(wire[conn])
    <3>1. /\ u \in Nat /\ j \in Nat /\ w \in Nat /\ packet \in Nat /\ n \in Nat
          /\ j + u + w <= packet /\ n <= w
      BY <2>1, <2>2
    <3> HIDE DEF u, j, w
    <3>2. QED
      BY <3>1
  <2>4. \A i \in 1..l : feed[i] <= j + u /\ feed[i] \in Nat
    BY <1>1, <1>3, <1>7, <2>1 DEF FeedIsBehind, ReadBatch
  <2>5. joinedAt'[conn'] + Len(received'[conn']) = j + (u + n)
    BY <2>1
  <2>6. l \in Nat /\ u \in Nat /\ j \in Nat
    BY <2>1, <2>2
  <2> HIDE DEF l, u, j
  <2>7. ASSUME NEW i \in 1..(l + n)
        PROVE  /\ i \in 1..l \/ i - l \in 1..n
               /\ i \in 1..l => feed'[i] <= j + u
               /\ i \notin 1..l => feed'[i] = j + u + (i - l)
               /\ feed'[i] <= j + u + n /\ feed'[i] \in Nat
    <3>1. CASE i \in 1..l
      BY <2>1, <2>4, <2>6, <3>1
    <3>2. CASE i \notin 1..l
      <4>1. i - l \in 1..n /\ l + (i - l) = i
        BY <2>6, <3>2
      <4>2. feed'[i] = j + u + (i - l)
        BY <2>1, <4>1
      <4>3. QED
        BY <2>6, <3>2, <4>1, <4>2
    <3>3. QED
      BY <3>1, <3>2
  <2>8. FeedIsPast'
    BY <2>1, <2>2, <2>3, <2>6, <2>7 DEF FeedIsPast
  <2>9. FeedIsBehind'
    BY <2>1, <2>5, <2>6, <2>7 DEF FeedIsBehind
  <2>10. FeedInOrder'
    <3> SUFFICES ASSUME NEW a \in 1..(l + n), NEW b \in 1..(l + n), a < b
                 PROVE  feed'[a] < feed'[b]
      BY <2>1 DEF FeedInOrder
    <3>1. CASE a \in 1..l /\ b \in 1..l
      <4>1. feed[a] < feed[b]
        BY <1>1, <2>1, <3>1 DEF FeedInOrder
      <4>2. QED
        BY <2>1, <3>1, <4>1
    <3>2. CASE a \in 1..l /\ b \notin 1..l
      BY <2>6, <2>7, <3>2
    <3>3. CASE a \notin 1..l
      <4>1. b \notin 1..l
        BY <2>6, <3>3
      <4>2. QED
        BY <2>6, <2>7, <3>3, <4>1
    <3>4. QED
      BY <3>1, <3>2, <3>3
  <2>11. QED
    BY <2>8, <2>9, <2>10
<1>8. QED
  BY <1>4, <1>5, <1>6, <1>7, AdapterSteps DEF LeaveReading
-----------------------------------------------------------------------------
(* The completeness of the feed.                                           *)

\* A batch goes to the feed whole; a connection has a new place to start from
\* only before anything came through it.
LEMMA FeedHasReadStep ==
  ASSUME FeedInv, [Relay \/ Adapter]_feedSystem
  PROVE  FeedHasRead'
<1>1. Typed /\ RelayInv /\ FeedHasRead /\ (task = "reading" => conn \in Conn)
  BY DEF FeedInv, RelayInv, ReadsItsOwn
<1>2. CASE /\ UNCHANGED <<task, conn, feed>>
           /\ task = "reading" => /\ received'[conn] = received[conn]
                                  /\ joinedAt'[conn] = joinedAt[conn]
  BY <1>1, <1>2 DEF FeedHasRead
<1>3. ASSUME NEW g \in Gen, AddClient(g), Relay, task = "reading"
      PROVE  FeedHasRead'
  <2>1. UNCHANGED <<task, conn, feed, received>>
    BY <1>1, <1>3, RelayLeaves DEF Relay, adapterVars
  <2>2. /\ Silent(accepted[g])
        /\ \A k \in Conn : k # accepted[g] => joinedAt'[k] = joinedAt[k]
    BY <1>1, <1>3, AddClientFacts
  <2>3. CASE conn # accepted[g]
    BY <1>1, <1>2, <2>1, <2>2, <2>3
  <2>4. CASE conn = accepted[g]
    <3>1. Len(received'[conn]) = 0
      BY <2>1, <2>2, <2>4 DEF Silent
    <3>2. QED
      BY <2>1, <3>1 DEF FeedHasRead
  <2>5. QED
    BY <2>3, <2>4
<1>4. CASE Relay
  <2>1. RelayNext /\ UNCHANGED <<task, conn, feed, received>>
    BY <1>1, <1>4, RelayLeaves DEF Relay, adapterVars
  <2>2. CASE joinedAt' = joinedAt
    BY <1>2, <2>1, <2>2
  <2>3. CASE task # "reading"
    BY <1>2, <2>1, <2>3
  <2>4. QED
    BY <1>1, <1>3, <1>4, <2>1, <2>2, <2>3, RelayLeaves DEF SendToNext
<1>5. CASE task' # "reading"
  BY <1>5 DEF FeedHasRead
<1>6. CASE Adapter /\ ConnectOk
  <2>1. PICK k \in Conn : OpenConnection(k) /\ conn' = k
    BY <1>6 DEF ConnectOk
  <2>2. received'[conn'] = <<>>
    BY <1>1, <2>1 DEF OpenConnection, Unused, RelayInv, Fresh, Silent
  <2>3. Len(received'[conn']) = 0
    BY <2>2
  <2>4. QED
    BY <2>3 DEF FeedHasRead
<1>7. CASE Adapter /\ ReadBatch
  <2> DEFINE l == Len(feed)
             u == Len(received[conn])
             j == joinedAt[conn]
  <2>1. PICK n \in Nat :
           /\ l \in Nat /\ DOMAIN feed = 1..l
           /\ Len(received'[conn]) = u + n
           /\ DOMAIN feed' = 1..(l + n)
           /\ \A i \in 1..l : feed'[i] = feed[i]
           /\ \A i \in 1..n : feed'[l + i] = j + u + i
           /\ UNCHANGED <<task, conn, joinedAt>>
    BY <1>7, AdapterSteps, ReadBatchFacts
  <2>2. u \in Nat /\ j \in Nat /\ task = "reading"
    BY <1>1, <1>7 DEF Typed, RelayTypeOK, ReadBatch
  <2>3. \A m \in 1..u : \E i \in 1..l : feed[i] = j + m
    BY <1>1, <2>1, <2>2 DEF FeedHasRead
  <2>4. joinedAt'[conn'] = j /\ Len(received'[conn']) = u + n
    BY <2>1
  <2>5. l \in Nat
    BY <2>1
  <2> HIDE DEF l, u, j
  <2>6. ASSUME NEW m \in 1..(u + n)
        PROVE  \E i \in 1..(l + n) : feed'[i] = j + m
    <3>1. CASE m \in 1..u
      <4>1. PICK i \in 1..l : feed[i] = j + m
        BY <2>3, <3>1
      <4>2. i \in 1..(l + n) /\ feed'[i] = j + m
        BY <2>1, <2>5, <4>1
      <4>3. QED
        BY <4>2
    <3>2. CASE m \notin 1..u
      <4>1. m - u \in 1..n /\ l + (m - u) \in 1..(l + n) /\ u + (m - u) = m
        BY <2>2, <2>5, <3>2
      <4>2. feed'[l + (m - u)] = j + u + (m - u)
        BY <2>1, <4>1
      <4>3. j + u + (m - u) = j + m
        BY <2>2, <4>1
      <4>4. QED
        BY <4>1, <4>2, <4>3
    <3>3. QED
      BY <3>1, <3>2
  <2>7. QED
    BY <2>1, <2>4, <2>6 DEF FeedHasRead
<1>8. CASE Adapter
  <2>1. UNCHANGED relayVars
    BY <1>8, AdapterSteps
  <2>2. CASE UNCHANGED <<socketVars, task, conn, feed>>
    BY <1>2, <2>1, <2>2 DEF relayVars, socketVars
  <2>3. QED
    BY <1>5, <1>6, <1>7, <1>8, <2>2, AdapterSteps DEF LeaveReading
<1>9. QED
  BY <1>2, <1>4, <1>8 DEF feedSystem, socketVars, relayVars, adapterVars
\* What has been read is in the feed; the rest is on the wire, the relay having
\* sent it all.
LEMMA InvComplete == FeedInv => FeedIsComplete
<1> SUFFICES ASSUME FeedInv, task = "reading", engine = "idle", conn \in ClientsOf(gen),
                    NEW n \in joinedAt[conn] + 1..packet
             PROVE  \/ \E i \in DOMAIN feed : feed[i] = n
                    \/ \E i \in DOMAIN wire[conn] : wire[conn][i] = n
  BY DEF FeedIsComplete
<1>1. /\ Typed /\ InOrder /\ FeedHasRead /\ conn \in Conn /\ peerEnd[conn] = "open"
      /\ ClientIsCurrent
  BY InvCurrent DEF FeedInv, RelayInv, ReadsItsOwn
<1>2. received[conn] \in Seq(1..MaxPackets) /\ wire[conn] \in Seq(1..MaxPackets)
  BY <1>1 DEF Typed, RelayTypeOK
<1>3. Len(SentOn(conn)) = Len(received[conn]) + Len(wire[conn])
  BY <1>2, ConcatProperties DEF SentOn
<1> DEFINE u == Len(received[conn])
           w == Len(wire[conn])
           j == joinedAt[conn]
<1>4. u \in Nat /\ w \in Nat /\ j \in Nat /\ packet \in Nat /\ j + (u + w) = packet
  <2>1. j + Len(SentOn(conn)) = packet
    BY <1>1 DEF ClientIsCurrent
  <2>2. u \in Nat /\ w \in Nat /\ j \in Nat /\ packet \in Nat
    BY <1>1, <1>2 DEF Typed, RelayTypeOK
  <2>3. QED
    BY <1>3, <2>1, <2>2
<1>5. /\ \A m \in 1..u : \E i \in DOMAIN feed : feed[i] = j + m
      /\ \A i \in 1..w : wire[conn][i] = j + u + i
  BY <1>1 DEF FeedHasRead, InOrder
<1>6. DOMAIN wire[conn] = 1..w /\ n \in j + 1..packet
  BY <1>2, LenProperties
<1> HIDE DEF u, w, j
<1>7. CASE n <= j + u
  <2>1. n - j \in 1..u /\ j + (n - j) = n
    BY <1>4, <1>6, <1>7
  <2>2. PICK i \in DOMAIN feed : feed[i] = j + (n - j)
    BY <1>5, <2>1
  <2>3. QED
    BY <2>1, <2>2
<1>8. CASE ~(n <= j + u)
  <2>1. n - (j + u) \in 1..w /\ j + u + (n - (j + u)) = n
    BY <1>4, <1>6, <1>8
  <2>2. wire[conn][n - (j + u)] = n
    BY <1>5, <2>1
  <2>3. QED
    BY <1>6, <2>1, <2>2
<1>9. QED
  BY <1>7, <1>8
-----------------------------------------------------------------------------
(* The theorems.                                                           *)

\* Relay and adapter keep the invariant together.
LEMMA FeedInvStep == FeedInv /\ [Relay \/ Adapter]_feedSystem => FeedInv'
<1> SUFFICES ASSUME FeedInv, [Relay \/ Adapter]_feedSystem PROVE FeedInv'
  OBVIOUS
<1>1. /\ RelayInv' /\ AdapterTyped' /\ OneConnection' /\ ReadsItsOwn' /\ NothingAhead'
      /\ FeedHasRead'
  BY FeedOfRelay, AdapterInvStep, NothingAheadStep, FeedHasReadStep
<1>2. CASE Relay
  <2>1. UNCHANGED feed /\ RelayNext /\ RelayInv
    BY <1>2 DEF Relay, adapterVars, FeedInv
  <2>2. \A i \in DOMAIN feed : feed[i] \in Nat
    <3>1. \A i \in DOMAIN feed : feed[i] \in 1..MaxPackets
      BY ElementOfSeq, LenProperties DEF FeedInv, AdapterTyped
    <3>2. QED
      BY <3>1, RelayAssumption
  <2>3. packet \in Nat /\ packet' \in Nat /\ packet <= packet'
    BY <2>1, RelayLeaves DEF RelayInv, Typed, RelayTypeOK
  <2>4. FeedIsPast' /\ FeedInOrder'
    BY <2>1, <2>2, <2>3 DEF FeedInv, FeedIsPast, FeedInOrder
  <2>5. QED
    BY <1>1, <1>2, <2>4, FeedIsBehindRelay DEF FeedInv
<1>3. CASE Adapter
  BY <1>1, <1>3, FeedOrderAdapter DEF FeedInv
<1>4. CASE UNCHANGED feedSystem
  <2>1. FeedIsBehind' /\ FeedIsPast' /\ FeedInOrder'
    BY <1>4 DEF FeedInv, FeedIsBehind, FeedIsPast, FeedInOrder, ClientsOf, feedSystem,
                socketVars, relayVars, adapterVars
  <2>2. QED
    BY <1>1, <2>1 DEF FeedInv
<1>5. QED
  BY <1>2, <1>3, <1>4

\* The invariant of the relay and the adapter together.
THEOREM FeedInvariant == FeedSpec => []FeedInv
<1>1. FeedInit => FeedInv
  <2> SUFFICES ASSUME FeedInit PROVE FeedInv
    OBVIOUS
  <2>1. RelayInv
    BY RelayInvInit DEF FeedInit, RelaySystemInit
  <2>2. DOMAIN <<>> = {} /\ <<>> \in Seq(1..MaxPackets) /\ Len(<<>>) = 0
    OBVIOUS
  <2>3. /\ AdapterTyped /\ ReadsItsOwn /\ FeedIsPast /\ FeedIsBehind /\ FeedHasRead
        /\ FeedInOrder
    BY <2>2 DEF FeedInit, AdapterInit, AdapterTyped, ReadsItsOwn, FeedIsPast,
                FeedIsBehind, FeedHasRead, FeedInOrder, Task
  <2>4. OneConnection
    BY DEF FeedInit, AdapterInit, SocketInit, OneConnection
  <2>5. NothingAhead
    BY <2>2 DEF FeedInit, SocketInit, RelayInit, NothingAhead
  <2>6. QED
    BY <2>1, <2>3, <2>4, <2>5 DEF FeedInv
<1>2. QED
  BY <1>1, FeedInvStep, PTL DEF FeedSpec

\* Every loop packet reaches the emitter's queue at most once and in weewx's
\* order, over any number of kills, restarts and reconnections.
THEOREM EmitterGetsOrder == FeedSpec => []FeedInOrder
<1>1. FeedInv => FeedInOrder
  BY DEF FeedInv
<1>2. QED
  BY <1>1, FeedInvariant, PTL

\* The service has one connection, the one it reads, or none, and says so.
THEOREM OneConnectionAtATime == FeedSpec => []OneConnection
<1>1. FeedInv => OneConnection
  BY DEF FeedInv
<1>2. QED
  BY <1>1, FeedInvariant, PTL

\* Nothing is lost on the way: between two packets all that weewx has made
\* since the connection became a client is in the feed or waits to be read.
THEOREM NothingLostOnTheWay == FeedSpec => []FeedIsComplete
BY FeedInvariant, InvComplete, PTL

\* With the adapter as its reader the relay keeps what it promises any.
THEOREM RelayKeepsItsPromise ==
  FeedSpec => [](ReceivesContiguously /\ ClientIsCurrent /\ RelayIsReachable /\ OpenIsKnown)
<1>1. FeedInv => ReceivesContiguously /\ ClientIsCurrent /\ RelayIsReachable /\ OpenIsKnown
  BY InvContiguous, InvCurrent DEF FeedInv, RelayInv
<1>2. QED
  BY <1>1, FeedInvariant, PTL
=============================================================================
