---------------------------- MODULE SSEBroadcast ----------------------------
(***************************************************************************)
(* What the fan-out of loop packets promises to the clients of GET /sse,   *)
(* with no queue, task or generator in sight.                              *)
(*                                                                         *)
(* Packets are numbered in the order in which they are broadcast.  A       *)
(* client that joins after packet n is owed packets n+1, n+2, ... one by   *)
(* one, without a gap, a repetition or a swap.  Membership ends when the   *)
(* client leaves or when it is dropped, and only a client that lags by     *)
(* Lag packets or more may be dropped: a slow client is never an excuse    *)
(* for cutting off a fast one.  A dropped client is still owed the packets *)
(* broadcast before the one that found its buffer full.                    *)
(***************************************************************************)
EXTENDS Integers, Sequences

CONSTANTS Client,  \* the connections of browsers to GET /sse
          Lag      \* the number of packets a client may be behind

VARIABLES head,    \* the number of packets broadcast so far
          open,    \* the clients whose stream has not ended
          member,  \* the clients the next packet goes to
          from,    \* from[c]: the packets broadcast before c joined
          upto,    \* upto[c]: the last packet c is owed
          got      \* got[c]: the packets handed to c's response, in order

bvars == <<head, open, member, from, upto, got>>

Behind(c) == upto[c] - from[c] - Len(got[c])

BInit ==
  /\ head = 0
  /\ open = {}
  /\ member = {}
  /\ from = [c \in Client |-> 0]
  /\ upto = [c \in Client |-> 0]
  /\ got = [c \in Client |-> <<>>]

Join(c) ==
  /\ c \notin open
  /\ got[c] = <<>>
  /\ open' = open \cup {c}
  /\ member' = member \cup {c}
  /\ from' = [from EXCEPT ![c] = head]
  /\ upto' = [upto EXCEPT ![c] = head]
  /\ UNCHANGED <<head, got>>

\* One packet goes to every member that is not dropped because of it.
Publish ==
  /\ head' = head + 1
  /\ \E dropped \in SUBSET {c \in member : Behind(c) >= Lag} :
       /\ member' = member \ dropped
       /\ upto' = [c \in Client |-> IF c \in member' THEN head' ELSE upto[c]]
  /\ \A c \in member' : Behind(c) <= Lag
  /\ UNCHANGED <<open, from, got>>

Deliver(c) ==
  /\ c \in open
  /\ Behind(c) > 0
  /\ got' = [got EXCEPT ![c] = Append(@, from[c] + Len(@) + 1)]
  /\ UNCHANGED <<head, open, member, from, upto>>

\* The stream ends, whatever the client was still owed.
Leave(c) ==
  /\ c \in open
  /\ open' = open \ {c}
  /\ member' = member \ {c}
  /\ upto' = [upto EXCEPT ![c] = from[c] + Len(got[c])]
  /\ UNCHANGED <<head, from, got>>

BNext == Publish \/ \E c \in Client : Join(c) \/ Deliver(c) \/ Leave(c)

BSpec == BInit /\ [][BNext]_bvars
=============================================================================
