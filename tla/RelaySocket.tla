---------------------------- MODULE RelaySocket -----------------------------
(***************************************************************************)
(* The Unix stream socket between the weewx process and the realtime       *)
(* service, as the kernel keeps it.  LoopRelay uses one side of it and     *)
(* DirectAdapter the other.  Instances of the relay are numbered 1, 2, ... *)
(* in the order in which weewx starts them; a connection is used once; a   *)
(* line is the number of the loop packet it carries.                       *)
(***************************************************************************)
EXTENDS Integers, Sequences, FiniteSets

CONSTANTS MaxGen,      \* bound of the model: instances of the relay
          MaxConn,     \* bound of the model: connections
          NoConn,      \* no connection
          SocketBuffer \* lines the kernel buffers for a reader

ASSUME SocketAssumption ==
  /\ MaxGen \in Nat \ {0}
  /\ MaxConn \in Nat
  /\ NoConn \notin 1..MaxConn
  /\ SocketBuffer \in Nat \ {0}

Gen == 1..MaxGen

\* Connections are numbered in the order in which they are opened.
Conn == 1..MaxConn

VARIABLES path,      \* the instance the socket file belongs to, 0 if no file
          listening, \* the instances whose listening socket still exists
          backlog,   \* backlog[g]: connected, not yet accepted
          wire,      \* wire[k]: lines sent on k and not yet read
          relayEnd,  \* relayEnd[k]: "none", "open", "closed"
          peerEnd,   \* peerEnd[k]: "none", "open", "closed"
          received   \* received[k]: the lines k's reader has read

socketVars == <<path, listening, backlog, wire, relayEnd, peerEnd, received>>

SocketInit ==
  /\ path = 0
  /\ listening = {}
  /\ backlog = [g \in Gen |-> <<>>]
  /\ wire = [k \in Conn |-> <<>>]
  /\ relayEnd = [k \in Conn |-> "none"]
  /\ peerEnd = [k \in Conn |-> "none"]
  /\ received = [k \in Conn |-> <<>>]

\* connect() succeeds as soon as the connection is in the backlog, whether
\* or not anybody will accept it.
Connectable == path \in listening

Unused(k) == peerEnd[k] = "none" /\ \A j \in Conn : j < k => peerEnd[j] # "none"

OpenConnection(k) ==
  /\ Connectable
  /\ Unused(k)
  /\ backlog' = [backlog EXCEPT ![path] = Append(@, k)]
  /\ relayEnd' = [relayEnd EXCEPT ![k] = "open"]
  /\ peerEnd' = [peerEnd EXCEPT ![k] = "open"]
  /\ UNCHANGED <<path, listening, wire, received>>

\* The reader takes the first n lines on the wire.
ReadLines(k, n) ==
  /\ peerEnd[k] = "open"
  /\ n \in 1..Len(wire[k])
  /\ received' = [received EXCEPT ![k] = @ \o SubSeq(wire[k], 1, n)]
  /\ wire' = [wire EXCEPT ![k] = SubSeq(@, n + 1, Len(@))]
  /\ UNCHANGED <<path, listening, backlog, relayEnd, peerEnd>>

AtEOF(k) == wire[k] = <<>> /\ relayEnd[k] = "closed"

ClosePeerEnd(k) ==
  /\ peerEnd' = [peerEnd EXCEPT ![k] = "closed"]
  /\ UNCHANGED <<path, listening, backlog, wire, relayEnd, received>>

\* The relay ends of the connections in S once they are closed.
ClosedEnds(S) == [k \in Conn |-> IF k \in S THEN "closed" ELSE relayEnd[k]]

\* The kernel forgets the listening socket of g and resets what it had not
\* handed out.
DropListener(g) ==
  /\ listening' = listening \ {g}
  /\ backlog' = [backlog EXCEPT ![g] = <<>>]
  /\ relayEnd' = ClosedEnds({backlog[g][i] : i \in DOMAIN backlog[g]})
-----------------------------------------------------------------------------
(* A reader of the socket about which nothing is known.                    *)

PeerConnect(k) == OpenConnection(k)

PeerRead(k) == ReadLines(k, 1)

PeerClose(k) == peerEnd[k] = "open" /\ ClosePeerEnd(k)

PeerNext == \E k \in Conn : PeerConnect(k) \/ PeerRead(k) \/ PeerClose(k)
=============================================================================
