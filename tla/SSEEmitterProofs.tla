-------------------------- MODULE SSEEmitterProofs --------------------------
(***************************************************************************)
(* Proofs about SSEEmitter for any number of clients, any queue bound and  *)
(* any number of packets.                                                  *)
(***************************************************************************)
EXTENDS SSEEmitter, SequenceFacts, TLAPS

\* The inductive invariant: the invariants of SSEEmitter that depend on each
\* other, and the fact that an unused client has nothing.
ClientInv(c) ==
  /\ Contiguous(c)
  /\ Current(c)
  /\ SentinelLast(c)
  /\ Registered(c)
  /\ Unused(c)

IInv ==
  /\ TypeOK
  /\ TapSeesEveryPacket
  /\ \A c \in Client : ClientInv(c)

-----------------------------------------------------------------------------
(* Types.                                                                  *)

\* A generator that ends leaves every variable in its range.
LEMMA FinishType ==
  ASSUME TypeOK, NEW c \in Client, Finish(c)
  PROVE  TypeOK'
BY EmitterAssumption DEF TypeOK, Finish, sourceVars, PC, Live

\* A generator that takes a packet has none in hand yet.
LEMMA TakePacketType ==
  ASSUME TypeOK, NEW c \in Client, queue[c] # <<>>, TakePacket(c)
  PROVE  TypeOK'
<1>1. /\ queue[c] \in Seq(Nat \cup {None})
      /\ Len(queue[c]) <= MaxQ
  BY DEF TypeOK
<1>2. /\ Tail(queue[c]) \in Seq(Nat \cup {None})
      /\ Len(Tail(queue[c])) <= MaxQ
      /\ Head(queue[c]) \in Nat \cup {None}
  BY <1>1, EmitterAssumption
<1>3. QED
  BY <1>2 DEF TypeOK, TakePacket, sourceVars, PC, Live

\* A generator that goes from one place to another, with no packet in hand.
LEMMA MoveType ==
  ASSUME TypeOK, NEW c \in Client, NEW place \in PC, Move(c, place),
         pc[c] # "checking", place # "checking"
  PROVE  TypeOK'
BY DEF TypeOK, Move, sourceVars

\* The top of the loop keeps the types.
LEMMA LoopTopType ==
  ASSUME TypeOK, NEW c \in Client, pc[c] # "checking", LoopTop(c)
  PROVE  TypeOK'
<1>1. CASE queue[c] # <<>> /\ TakeSentinel(c)
  BY <1>1, FinishType DEF TakeSentinel
<1>2. CASE queue[c] # <<>> /\ TakePacket(c)
  BY <1>2, TakePacketType
<1>3. CASE Move(c, "parked")
  BY <1>3, MoveType DEF PC, Live
<1>4. QED
  BY <1>1, <1>2, <1>3 DEF LoopTop, TakeItem

\* No step leaves the ranges.
LEMMA TypeStep == TypeOK /\ [Next]_vars => TypeOK'
<1> SUFFICES ASSUME TypeOK, [Next]_vars
             PROVE  TypeOK'
  OBVIOUS
<1>1. CASE Produce
  BY <1>1, EmitterAssumption DEF TypeOK, Produce
<1>2. CASE Start
  BY <1>2 DEF TypeOK, Start
<1>3. CASE FanOut
  <2>1. /\ Head(source) \in Nat
        /\ Tail(source) \in Seq(Nat)
    BY <1>3 DEF TypeOK, FanOut
  <2>2. \A c \in Client : /\ queue'[c] \in Seq(Nat \cup {None})
                          /\ Len(queue'[c]) <= MaxQ
    BY <1>3, <2>1, EmitterAssumption DEF TypeOK, FanOut, Full
  <2>3. QED
    BY <1>3, <2>1, <2>2 DEF TypeOK, FanOut
<1>4. CASE Stop
  <2>1. \A c \in Client : /\ queue'[c] \in Seq(Nat \cup {None})
                          /\ Len(queue'[c]) <= MaxQ
    BY <1>4, EmitterAssumption DEF TypeOK, Stop, Full
  <2>2. QED
    BY <1>4, <2>1 DEF TypeOK, Stop
<1>5. ASSUME NEW c \in Client, Subscribe(c)
      PROVE  TypeOK'
  BY <1>5 DEF TypeOK, Subscribe, sourceVars, PC, Live
<1>6. ASSUME NEW c \in Client, Generator(c)
      PROVE  TypeOK'
  <2>1. CASE Begin(c)
    BY <2>1, LoopTopType DEF Begin
  <2>2. CASE Wake(c)
    <3>1. CASE TakeSentinel(c)
      BY <3>1, FinishType DEF TakeSentinel
    <3>2. CASE TakePacket(c)
      BY <2>2, <3>2, TakePacketType DEF Wake
    <3>3. QED
      BY <2>2, <3>1, <3>2 DEF Wake, TakeItem
  <2>3. CASE Keepalive(c)
    BY <2>3, MoveType DEF Keepalive, PC, Live
  <2>4. CASE Check(c)
    <3>1. CASE Finish(c)
      BY <3>1, FinishType
    <3>2. CASE YieldEvent(c)
      <4>1. held[c] \in Nat
        BY <2>4 DEF Check, TypeOK
      <4>2. QED
        BY <3>2, <4>1, EmitterAssumption
           DEF TypeOK, YieldEvent, sourceVars, PC, Live
    <3>3. QED
      BY <2>4, <3>1, <3>2 DEF Check
  <2>5. CASE Written(c)
    BY <2>5, LoopTopType DEF Written
  <2>6. QED
    BY <1>6, <2>1, <2>2, <2>3, <2>4, <2>5 DEF Generator
<1>7. ASSUME NEW c \in Client, Disconnect(c)
      PROVE  TypeOK'
  BY <1>7 DEF TypeOK, Disconnect, sourceVars
<1>8. ASSUME NEW c \in Client, CancelStream(c)
      PROVE  TypeOK'
  <2>1. CASE Finish(c)
    BY <2>1, FinishType
  <2>2. CASE pc[c] \in {"sending", "pinging"} /\ Move(c, "orphaned")
    BY <2>2, MoveType DEF PC, Live
  <2>3. CASE pc[c] = "created" /\ Move(c, "leaked")
    BY <2>3, MoveType DEF PC, Live
  <2>4. QED
    BY <1>8, <2>1, <2>2, <2>3 DEF CancelStream
<1>9. ASSUME NEW c \in Client, Finalise(c)
      PROVE  TypeOK'
  BY <1>9, FinishType DEF Finalise
<1>10. CASE UNCHANGED vars
  BY <1>10 DEF TypeOK, vars
<1>11. QED
  BY <1>1, <1>2, <1>3, <1>4, <1>5, <1>6, <1>7, <1>8, <1>9, <1>10 DEF Next

\* The variables of the emitter, its queues and its generators stay in range;
\* in particular a subscriber queue never exceeds its maxsize.
THEOREM TypeCorrect == Spec => []TypeOK
<1>1. Init => TypeOK
  BY EmitterAssumption DEF Init, TypeOK, PC
<1>2. QED
  BY <1>1, TypeStep, PTL DEF Spec
-----------------------------------------------------------------------------
(* The delivery invariant.                                                 *)

\* A client whose own state is untouched keeps its share of the invariant.
LEMMA OtherClient ==
  ASSUME NEW d \in Client, ClientInv(d), UNCHANGED sourceVars,
         queue'[d] = queue[d], pc'[d] = pc[d], held'[d] = held[d],
         sent'[d] = sent[d], joined'[d] = joined[d],
         d \in subscribers' <=> d \in subscribers
  PROVE  ClientInv(d)'
BY DEF ClientInv, Contiguous, Current, SentinelLast, Registered, Unused,
       Taken, Owed, HasSentinel, sourceVars

\* A generator that ends gives back its queue and what it held; what it has
\* sent stays as it was.
LEMMA FinishStep ==
  ASSUME IInv, NEW c \in Client, Finish(c)
  PROVE  IInv'
<1>1. TypeOK'
  BY FinishType DEF IInv
<1>2. TapSeesEveryPacket'
  BY DEF IInv, TapSeesEveryPacket, Finish, sourceVars
<1>3. ClientInv(c)'
  BY DEF IInv, TypeOK, ClientInv, Contiguous, Current, SentinelLast,
         Registered, Unused, Finish
<1>4. ASSUME NEW d \in Client, d # c
      PROVE  ClientInv(d)'
  BY <1>4, OtherClient DEF IInv, TypeOK, Finish
<1>5. QED
  BY <1>1, <1>2, <1>3, <1>4 DEF IInv

\* Taking the next packet moves it from the queue to the generator's hands:
\* what the client is owed does not change.
LEMMA TakePacketOwed ==
  ASSUME IInv, NEW c \in Client, queue[c] # <<>>, pc[c] \in Live \ {"checking"},
         TakePacket(c)
  PROVE  /\ Taken(c)' = Taken(c) + 1
         /\ Taken(c) = joined[c] + Len(sent[c])
         /\ Taken(c) \in Nat
         /\ Owed(c)' = Owed(c)
<1> DEFINE q == queue[c]
           t == Tail(q)
           n == Len(q)
<1>1. /\ q \in Seq(Nat \cup {None}) /\ q # <<>>
      /\ held[c] = None
      /\ joined[c] \in Nat /\ sent[c] \in Seq(Nat)
  BY DEF IInv, TypeOK
<1>2. /\ queue'[c] = t
      /\ held'[c] = Head(q)
      /\ UNCHANGED <<sent, joined>>
  BY DEF TakePacket, IInv, TypeOK, sourceVars
<1>3. /\ n \in Nat \ {0}
      /\ Len(t) = n - 1
      /\ \A i \in 1..(n - 1) : i + 1 \in 1..n /\ t[i] = q[i + 1]
      /\ t = <<>> <=> n = 1
      /\ Head(q) = q[1] /\ q[1] # None
  BY <1>1, TailFacts DEF TakePacket
<1> HIDE DEF t, n
<1>4. /\ Taken(c) \in Nat
      /\ Taken(c) = joined[c] + Len(sent[c])
      /\ Taken(c)' = Taken(c) + 1
  BY <1>1, <1>2, <1>3 DEF Taken
<1>5. /\ HasSentinel(c) <=> q[n] = None
      /\ HasSentinel(c)' <=> n > 1 /\ q[n] = None
  <2>1. n > 1 => t[n - 1] = q[n]
    BY <1>3
  <2>2. HasSentinel(c) <=> q[n] = None
    BY <1>1 DEF HasSentinel, n
  <2>3. HasSentinel(c)' <=> t # <<>> /\ t[Len(t)] = None
    BY <1>2 DEF HasSentinel
  <2>4. QED
    BY <2>1, <2>2, <2>3, <1>3
<1>6. Owed(c)' = Owed(c)
  <2>1. Owed(c) = Taken(c) + IF q[n] = None THEN n - 1 ELSE n
    BY <1>5 DEF Owed, n
  <2>2. Owed(c)' = Taken(c)' + IF HasSentinel(c)' THEN Len(t) - 1 ELSE Len(t)
    BY <1>2 DEF Owed
  <2>3. CASE q[n] = None
    <3>1. n > 1 /\ n \in Nat
      BY <2>3, <1>3
    <3>2. Owed(c)' = Taken(c)' + (Len(t) - 1)
      BY <2>3, <3>1, <2>2, <1>5
    <3>3. QED
      BY <2>3, <3>1, <3>2, <2>1, <1>3, <1>4
  <2>4. CASE q[n] # None
    <3>1. Owed(c)' = Taken(c)' + Len(t)
      BY <2>4, <2>2, <1>5
    <3>2. QED
      BY <2>4, <3>1, <2>1, <1>3, <1>4
  <2>5. QED
    BY <2>3, <2>4
<1>7. QED
  BY <1>4, <1>6

\* So the packet taken is the next one the client is owed.
LEMMA TakePacketStep ==
  ASSUME IInv, NEW c \in Client, queue[c] # <<>>, pc[c] \in Live \ {"checking"},
         TakePacket(c)
  PROVE  IInv'
<1>1. TypeOK'
  BY TakePacketType DEF IInv
<1>2. TapSeesEveryPacket'
  BY DEF IInv, TapSeesEveryPacket, TakePacket, sourceVars
<1>3. ClientInv(c)'
  <2> DEFINE q == queue[c]
             t == Tail(q)
             n == Len(q)
  <2>1. /\ q \in Seq(Nat \cup {None}) /\ q # <<>>
        /\ joined[c] \in Nat /\ Len(sent[c]) \in Nat
        /\ ClientInv(c)
    BY DEF IInv, TypeOK
  <2>2. /\ queue'[c] = t
        /\ held'[c] = Head(q)
        /\ pc'[c] = "checking"
        /\ UNCHANGED <<sent, joined, subscribers, tapped, fanout>>
    BY DEF TakePacket, IInv, TypeOK, sourceVars
  <2>3. /\ n \in Nat \ {0}
        /\ Len(t) = n - 1
        /\ DOMAIN t = 1..(n - 1)
        /\ \A i \in 1..(n - 1) : i + 1 \in 1..n /\ t[i] = q[i + 1]
        /\ DOMAIN q = 1..n
        /\ Head(q) = q[1] /\ q[1] # None
    BY <2>1, TailFacts DEF TakePacket
  <2> HIDE DEF t, n
  <2>4. /\ Taken(c) \in Nat
        /\ Taken(c) = joined[c] + Len(sent[c])
        /\ Taken(c)' = Taken(c) + 1
        /\ Owed(c)' = Owed(c)
    BY TakePacketOwed
  <2>5. \A i \in 1..n : q[i] # None => q[i] = Taken(c) + i
    BY <2>1, <2>3 DEF ClientInv, Contiguous
  <2>6. Contiguous(c)'
    <3>1. \A i \in DOMAIN sent'[c] : sent'[c][i] = joined'[c] + i
      BY <2>1, <2>2 DEF ClientInv, Contiguous
    <3>2. held'[c] = joined'[c] + Len(sent'[c]) + 1
      <4>1. q[1] = Taken(c) + 1
        BY <2>3, <2>5
      <4>2. QED
        BY <4>1, <2>2, <2>3, <2>4
    <3>3. \A i \in 1..(n - 1) : t[i] # None => t[i] = Taken(c) + 1 + i
      <4> SUFFICES ASSUME NEW i \in 1..(n - 1), t[i] # None
                   PROVE  t[i] = Taken(c) + 1 + i
        OBVIOUS
      <4>1. i + 1 \in 1..n /\ t[i] = q[i + 1]
        BY <2>3
      <4>2. t[i] = Taken(c) + (i + 1)
        BY <4>1, <2>5
      <4>3. QED
        BY <4>2, <2>3, <2>4
    <3>4. QED
      BY <3>1, <3>2, <3>3, <2>2, <2>3, <2>4 DEF Contiguous
  <2>7. Current(c)'
    BY <2>1, <2>2, <2>4 DEF ClientInv, Current
  <2>8. SentinelLast(c)'
    BY <2>1, <2>2, <2>3 DEF ClientInv, SentinelLast, n
  <2>9. QED
    BY <2>1, <2>2, <2>6, <2>7, <2>8 DEF ClientInv, Registered, Unused
<1>4. ASSUME NEW d \in Client, d # c
      PROVE  ClientInv(d)'
  BY <1>4, OtherClient DEF IInv, TypeOK, TakePacket
<1>5. QED
  BY <1>1, <1>2, <1>3, <1>4 DEF IInv

\* A generator that is suspended somewhere else keeps the invariant.
LEMMA MoveStep ==
  ASSUME IInv, NEW c \in Client, NEW place \in PC, Move(c, place),
         pc[c] \notin {"checking", "none", "done"},
         place \notin {"checking", "none", "done"}
  PROVE  IInv'
<1>1. TypeOK'
  BY MoveType DEF IInv
<1>2. TapSeesEveryPacket'
  BY DEF IInv, TapSeesEveryPacket, Move, sourceVars
<1>3. ClientInv(c)'
  BY DEF IInv, TypeOK, Move, sourceVars, ClientInv, Contiguous, Current,
         SentinelLast, Registered, Unused, Taken, Owed, HasSentinel
<1>4. ASSUME NEW d \in Client, d # c
      PROVE  ClientInv(d)'
  BY <1>4, OtherClient DEF IInv, TypeOK, Move
<1>5. QED
  BY <1>1, <1>2, <1>3, <1>4 DEF IInv

\* So does one that takes whatever is at the head of its queue.
LEMMA TakeItemStep ==
  ASSUME IInv, NEW c \in Client, queue[c] # <<>>, pc[c] \in Live \ {"checking"},
         TakeItem(c)
  PROVE  IInv'
BY FinishStep, TakePacketStep DEF TakeItem, TakeSentinel

LEMMA LoopTopStep ==
  ASSUME IInv, NEW c \in Client, pc[c] \in Live \ {"checking"}, LoopTop(c)
  PROVE  IInv'
BY TakeItemStep, MoveStep DEF LoopTop, PC, Live

\* The event yielded is the next one the client was owed.
LEMMA YieldStep ==
  ASSUME IInv, NEW c \in Client, pc[c] = "checking", YieldEvent(c)
  PROVE  IInv'
<1>1. /\ held[c] \in Nat /\ held[c] # None
      /\ sent[c] \in Seq(Nat) /\ joined[c] \in Nat
      /\ queue[c] \in Seq(Nat \cup {None})
      /\ ClientInv(c)
  BY DEF IInv, TypeOK
<1>2. TypeOK'
  BY <1>1, EmitterAssumption DEF IInv, TypeOK, YieldEvent, sourceVars, PC, Live
<1>3. TapSeesEveryPacket'
  BY DEF IInv, TapSeesEveryPacket, YieldEvent, sourceVars
<1>4. ClientInv(c)'
  <2>1. /\ sent'[c] = Append(sent[c], held[c])
        /\ held'[c] = None
        /\ pc'[c] = "sending"
        /\ UNCHANGED <<queue, joined, subscribers, tapped, fanout>>
    BY DEF IInv, TypeOK, YieldEvent, sourceVars
  <2>2. Taken(c)' = Taken(c)
    BY <1>1, <2>1 DEF Taken
  <2>3. \A i \in DOMAIN sent'[c] : sent'[c][i] = joined[c] + i
    <3>1. /\ held[c] = joined[c] + Len(sent[c]) + 1
          /\ \A i \in 1..Len(sent[c]) : sent[c][i] = joined[c] + i
      BY <1>1 DEF ClientInv, Contiguous
    <3>2. /\ DOMAIN sent'[c] = 1..(Len(sent[c]) + 1)
          /\ \A i \in 1..Len(sent[c]) : sent'[c][i] = sent[c][i]
          /\ sent'[c][Len(sent[c]) + 1] = held[c]
      BY <1>1, <2>1, AppendFacts
    <3>3. ASSUME NEW i \in 1..(Len(sent[c]) + 1)
          PROVE  sent'[c][i] = joined[c] + i
      <4>1. CASE i \in 1..Len(sent[c])
        BY <4>1, <3>1, <3>2
      <4>2. CASE i = Len(sent[c]) + 1
        BY <4>2, <3>1, <3>2, <1>1
      <4>3. QED
        BY <4>1, <4>2, <1>1
    <3>4. QED
      BY <3>2, <3>3
  <2>4. QED
    BY <1>1, <2>1, <2>2, <2>3 DEF ClientInv, Contiguous, Current,
       SentinelLast, Registered, Unused, Owed, HasSentinel
<1>5. ASSUME NEW d \in Client, d # c
      PROVE  ClientInv(d)'
  BY <1>5, OtherClient DEF IInv, TypeOK, YieldEvent
<1>6. QED
  BY <1>2, <1>3, <1>4, <1>5 DEF IInv

\* Broadcasting one packet: it is the next one for every subscriber with
\* room, and the others are no longer subscribers.
LEMMA FanOutStep == IInv /\ FanOut => IInv'
<1> SUFFICES ASSUME IInv, FanOut
             PROVE  IInv'
  OBVIOUS
<1>1. TypeOK'
  BY TypeStep DEF IInv, Next
<1>2. /\ source \in Seq(Nat) /\ source # <<>>
      /\ tapped \in Nat
      /\ tapped' = Head(source) /\ source' = Tail(source)
      /\ UNCHANGED <<produced, fanout, pc, held, sent, joined>>
      /\ fanout = "running"
  BY DEF IInv, TypeOK, FanOut
<1>3. tapped' = tapped + 1 /\ TapSeesEveryPacket'
  <2>1. /\ produced = tapped + Len(source)
        /\ \A i \in DOMAIN source : source[i] = tapped + i
    BY DEF IInv, TapSeesEveryPacket
  <2>2. tapped' = tapped + 1
    BY <1>2, <2>1, TailFacts
  <2>3. produced' = tapped' + Len(source')
    BY <1>2, <2>1, <2>2, TailFacts
  <2>4. ASSUME NEW i \in DOMAIN source'
        PROVE  source'[i] = tapped' + i
    <3>1. i \in 1..(Len(source) - 1) /\ Len(source) \in Nat
      BY <1>2, <2>4, TailFacts
    <3>2. /\ i + 1 \in DOMAIN source
          /\ source'[i] = source[i + 1]
      BY <1>2, <3>1, TailFacts
    <3>3. source[i + 1] = tapped + (i + 1)
      BY <2>1, <3>2
    <3>4. QED
      BY <1>2, <2>2, <3>1, <3>2, <3>3
  <2>5. QED
    BY <2>2, <2>3, <2>4 DEF TapSeesEveryPacket
<1>4. ASSUME NEW d \in Client
      PROVE  ClientInv(d)'
  <2>1. /\ queue[d] \in Seq(Nat \cup {None})
        /\ joined[d] \in Nat /\ sent[d] \in Seq(Nat)
        /\ ClientInv(d)
    BY DEF IInv, TypeOK
  <2>2. Taken(d)' = Taken(d) /\ Taken(d) \in Nat
    BY <1>2, <2>1 DEF Taken
  <2>3. CASE d \notin subscribers \/ Full(d)
    <3>1. queue'[d] = queue[d] /\ d \notin subscribers'
      BY <2>3 DEF FanOut
    <3>2. QED
      BY <1>2, <2>1, <2>2, <3>1 DEF ClientInv, Contiguous, Current,
         SentinelLast, Registered, Unused
  <2>4. CASE d \in subscribers /\ ~Full(d)
    <3> DEFINE q == queue[d]
               n == Len(q)
    <3>1. /\ queue'[d] = Append(q, tapped')
          /\ d \in subscribers'
      BY <1>2, <2>4 DEF FanOut
    <3>2. \A i \in 1..n : q[i] # None
      BY <1>2, <2>1, LenProperties DEF ClientInv, SentinelLast
    <3>3. Taken(d) + n = tapped
      <4>1. ~HasSentinel(d)
        BY <2>1, <3>2, EmptySeq DEF HasSentinel
      <4>2. QED
        BY <2>1, <2>4, <4>1 DEF ClientInv, Current, Owed
    <3>4. \A i \in 1..n : q[i] = Taken(d) + i
      BY <2>1, <3>2, LenProperties DEF ClientInv, Contiguous
    <3>5. /\ n \in Nat
          /\ Len(queue'[d]) = n + 1
          /\ DOMAIN queue'[d] = 1..(n + 1)
          /\ \A i \in 1..n : queue'[d][i] = q[i]
          /\ queue'[d][n + 1] = tapped'
          /\ queue'[d] # <<>>
      <4>1. q \in Seq(Nat \cup {None}) /\ tapped' \in Nat \cup {None}
        BY <1>2, <1>3, <2>1
      <4>2. QED
        BY <3>1, <4>1, AppendFacts
    <3> HIDE DEF q, n
    <3>6. ASSUME NEW i \in 1..(n + 1)
          PROVE  queue'[d][i] = Taken(d) + i
      <4>1. CASE i = n + 1
        BY <4>1, <1>2, <1>3, <2>2, <3>3, <3>5
      <4>2. CASE i \in 1..n
        BY <4>2, <3>4, <3>5
      <4>3. QED
        BY <4>1, <4>2, <3>5
    <3>7. Contiguous(d)'
      BY <1>2, <2>1, <2>2, <3>5, <3>6 DEF ClientInv, Contiguous
    <3>8. \A i \in 1..(n + 1) : queue'[d][i] # None
      BY <2>2, <3>5, <3>6, EmitterAssumption
    <3>9. SentinelLast(d)'
      BY <3>5, <3>8 DEF SentinelLast
    <3>10. Current(d)'
      <4>1. ~HasSentinel(d)'
        BY <3>5, <3>8 DEF HasSentinel
      <4>2. Owed(d)' = Taken(d)' + Len(queue'[d])
        BY <4>1 DEF Owed
      <4>3. QED
        BY <4>2, <1>2, <1>3, <2>2, <3>3, <3>5 DEF Current
    <3>11. QED
      BY <1>2, <2>1, <2>4, <3>7, <3>9, <3>10
         DEF ClientInv, Registered, Unused
  <2>5. QED
    BY <2>3, <2>4
<1>5. QED
  BY <1>1, <1>3, <1>4 DEF IInv

\* Stopping: the sentinel goes behind what each subscriber is still owed.
LEMMA StopStep == IInv /\ Stop => IInv'
<1> SUFFICES ASSUME IInv, Stop
             PROVE  IInv'
  OBVIOUS
<1>1. TypeOK'
  BY TypeStep DEF IInv, Next
<1>2. /\ UNCHANGED <<produced, source, tapped, subscribers, pc, held, sent, joined>>
      /\ fanout = "running" /\ fanout' = "stopped"
  BY DEF Stop
<1>3. TapSeesEveryPacket'
  BY <1>2 DEF IInv, TapSeesEveryPacket
<1>4. ASSUME NEW d \in Client
      PROVE  ClientInv(d)'
  <2>1. /\ queue[d] \in Seq(Nat \cup {None})
        /\ joined[d] \in Nat /\ sent[d] \in Seq(Nat)
        /\ ClientInv(d)
    BY DEF IInv, TypeOK
  <2>2. Taken(d)' = Taken(d) /\ Taken(d) \in Nat
    BY <1>2, <2>1 DEF Taken
  <2>3. CASE queue'[d] = queue[d]
    BY <1>2, <2>1, <2>2, <2>3 DEF ClientInv, Contiguous, Current,
       SentinelLast, Registered, Unused, Owed, HasSentinel
  <2>4. CASE d \in subscribers /\ queue'[d] = Append(queue[d], None)
    <3> DEFINE q == queue[d]
               n == Len(q)
    <3>1. \A i \in 1..n : q[i] # None
      BY <1>2, <2>1, LenProperties DEF ClientInv, SentinelLast
    <3>2. Taken(d) + n = tapped
      <4>1. ~HasSentinel(d)
        BY <2>1, <3>1, EmptySeq DEF HasSentinel
      <4>2. QED
        BY <2>1, <2>4, <4>1 DEF ClientInv, Current, Owed
    <3>3. \A i \in 1..n : q[i] = Taken(d) + i
      BY <2>1, <3>1, LenProperties DEF ClientInv, Contiguous
    <3>4. /\ n \in Nat
          /\ Len(queue'[d]) = n + 1
          /\ DOMAIN queue'[d] = 1..(n + 1)
          /\ \A i \in 1..n : queue'[d][i] = q[i]
          /\ queue'[d][n + 1] = None
          /\ queue'[d] # <<>>
      <4>1. q \in Seq(Nat \cup {None}) /\ None \in Nat \cup {None}
        BY <2>1
      <4>2. QED
        BY <2>4, <4>1, AppendFacts
    <3> HIDE DEF q, n
    <3>5. \A i \in 1..(n + 1) : queue'[d][i] = None => i = n + 1
      BY <3>1, <3>4
    <3>6. Contiguous(d)'
      BY <1>2, <2>1, <2>2, <3>3, <3>4 DEF ClientInv, Contiguous
    <3>7. SentinelLast(d)'
      BY <1>2, <3>4, <3>5 DEF SentinelLast
    <3>8. Current(d)'
      <4>1. HasSentinel(d)'
        BY <3>4 DEF HasSentinel
      <4>2. Owed(d)' = Taken(d)' + (Len(queue'[d]) - 1)
        BY <4>1 DEF Owed
      <4>3. QED
        BY <4>2, <1>2, <2>2, <3>2, <3>4 DEF Current
    <3>9. QED
      BY <1>2, <2>1, <2>4, <3>6, <3>7, <3>8
         DEF ClientInv, Registered, Unused
  <2>5. QED
    BY <2>3, <2>4 DEF Stop
<1>5. QED
  BY <1>1, <1>3, <1>4 DEF IInv

\* A new subscriber is owed nothing yet.
LEMMA SubscribeStep ==
  ASSUME IInv, NEW c \in Client, Subscribe(c)
  PROVE  IInv'
<1>1. TypeOK'
  BY TypeStep DEF IInv, Next
<1>2. TapSeesEveryPacket'
  BY DEF IInv, TapSeesEveryPacket, Subscribe, sourceVars
<1>3. ClientInv(c)'
  <2>1. /\ queue'[c] = <<>> /\ sent'[c] = <<>> /\ held'[c] = None
        /\ joined'[c] = tapped /\ tapped' = tapped /\ tapped \in Nat
        /\ pc'[c] = "created"
    BY DEF IInv, TypeOK, ClientInv, Unused, Subscribe, sourceVars
  <2>2. Owed(c)' = tapped
    BY <2>1 DEF Owed, HasSentinel, Taken
  <2>3. QED
    BY <2>1, <2>2 DEF ClientInv, Contiguous, Current, SentinelLast,
       Registered, Unused
<1>4. ASSUME NEW d \in Client, d # c
      PROVE  ClientInv(d)'
  BY <1>4, OtherClient DEF IInv, TypeOK, Subscribe
<1>5. QED
  BY <1>1, <1>2, <1>3, <1>4 DEF IInv

\* Every step keeps the inductive invariant.
LEMMA InvStep == IInv /\ [Next]_vars => IInv'
<1> SUFFICES ASSUME IInv, [Next]_vars
             PROVE  IInv'
  OBVIOUS
<1>0. TypeOK /\ TypeOK'
  BY TypeStep DEF IInv
<1>1. CASE Produce
  <2>1. TapSeesEveryPacket'
    <3>1. /\ source \in Seq(Nat) /\ produced \in Nat /\ tapped \in Nat
          /\ produced' = produced + 1 /\ tapped' = tapped
          /\ source' = Append(source, produced + 1)
      BY <1>0, <1>1, EmitterAssumption DEF TypeOK, Produce
    <3>2. /\ produced = tapped + Len(source)
          /\ \A i \in 1..Len(source) : source[i] = tapped + i
      BY <3>1, LenProperties DEF IInv, TapSeesEveryPacket
    <3>3. /\ Len(source) \in Nat
          /\ Len(source') = Len(source) + 1
          /\ DOMAIN source' = 1..(Len(source) + 1)
          /\ \A i \in 1..Len(source) : source'[i] = source[i]
          /\ source'[Len(source) + 1] = produced + 1
      BY <3>1, AppendFacts
    <3>4. ASSUME NEW i \in 1..(Len(source) + 1)
          PROVE  source'[i] = tapped + i
      <4>1. CASE i = Len(source) + 1
        BY <4>1, <3>1, <3>2, <3>3
      <4>2. CASE i \in 1..Len(source)
        BY <4>2, <3>2, <3>3
      <4>3. QED
        BY <4>1, <4>2, <3>3
    <3>5. QED
      BY <3>1, <3>2, <3>3, <3>4 DEF TapSeesEveryPacket
  <2>2. ASSUME NEW d \in Client
        PROVE  ClientInv(d)'
    BY <1>1 DEF IInv, Produce, ClientInv, Contiguous, Current, SentinelLast,
       Registered, Unused, Taken, Owed, HasSentinel
  <2>3. QED
    BY <1>0, <2>1, <2>2 DEF IInv
<1>2. CASE Start
  BY <1>0, <1>2 DEF IInv, Start, TapSeesEveryPacket, ClientInv, Contiguous,
     Current, SentinelLast, Registered, Unused, Taken, Owed, HasSentinel
<1>3. CASE FanOut
  BY <1>3, FanOutStep
<1>4. CASE Stop
  BY <1>4, StopStep
<1>5. ASSUME NEW c \in Client, Subscribe(c)
      PROVE  IInv'
  BY <1>5, SubscribeStep
<1>6. ASSUME NEW c \in Client, Generator(c)
      PROVE  IInv'
  <2>1. CASE Begin(c)
    BY <2>1, LoopTopStep DEF Begin, Live
  <2>2. CASE Wake(c)
    BY <2>2, TakeItemStep DEF Wake, Live
  <2>3. CASE Keepalive(c)
    BY <2>3, MoveStep DEF Keepalive, PC, Live
  <2>4. CASE Check(c)
    BY <2>4, FinishStep, YieldStep DEF Check
  <2>5. CASE Written(c)
    BY <2>5, LoopTopStep DEF Written, Live
  <2>6. QED
    BY <1>6, <2>1, <2>2, <2>3, <2>4, <2>5 DEF Generator
<1>7. ASSUME NEW c \in Client, Disconnect(c)
      PROVE  IInv'
  BY <1>0, <1>7 DEF IInv, Disconnect, sourceVars, TapSeesEveryPacket,
     ClientInv, Contiguous, Current, SentinelLast, Registered, Unused, Taken,
     Owed, HasSentinel
<1>8. ASSUME NEW c \in Client, CancelStream(c)
      PROVE  IInv'
  BY <1>8, FinishStep, MoveStep DEF CancelStream, PC, Live
<1>9. ASSUME NEW c \in Client, Finalise(c)
      PROVE  IInv'
  BY <1>9, FinishStep DEF Finalise
<1>10. CASE UNCHANGED vars
  BY <1>0, <1>10 DEF IInv, vars, TapSeesEveryPacket, ClientInv, Contiguous,
     Current, SentinelLast, Registered, Unused, Taken, Owed, HasSentinel
<1>11. QED
  BY <1>1, <1>2, <1>3, <1>4, <1>5, <1>6, <1>7, <1>8, <1>9, <1>10 DEF Next

\* The inductive invariant holds of every behaviour.
THEOREM Invariance == Spec => []IInv
<1>1. Init => IInv
  BY EmitterAssumption DEF Init, IInv, TypeOK, PC, TapSeesEveryPacket,
     ClientInv, Contiguous, Current, SentinelLast, Registered, Unused
<1>2. QED
  BY <1>1, InvStep, PTL DEF Spec

\* Every client's events are the packets broadcast since it subscribed, in
\* order and without a gap, for any number of clients and any queue bound.
THEOREM ContiguousDelivery == Spec => []DeliveryIsContiguous
<1>1. IInv => DeliveryIsContiguous
  BY DEF IInv, ClientInv, DeliveryIsContiguous
<1>2. QED
  BY <1>1, Invariance, PTL

\* A subscriber has been sent, holds or has queued all that was broadcast
\* since it joined.
THEOREM CurrentSubscribers == Spec => []SubscriberIsCurrent
<1>1. IInv => SubscriberIsCurrent
  BY DEF IInv, ClientInv, SubscriberIsCurrent
<1>2. QED
  BY <1>1, Invariance, PTL

\* The sentinel is the last item of a queue and is there only after stop().
THEOREM LastSentinel == Spec => []SentinelIsLast
<1>1. IInv => SentinelIsLast
  BY DEF IInv, ClientInv, SentinelIsLast
<1>2. QED
  BY <1>1, Invariance, PTL

\* A generator that has ended has left _subscribers.
THEOREM FinishedUnsubscribed == Spec => []FinishedIsUnsubscribed
<1>1. IInv => FinishedIsUnsubscribed
  BY DEF IInv, ClientInv, FinishedIsUnsubscribed
<1>2. QED
  BY <1>1, Invariance, PTL

\* No subscriber is ever more than MaxQ + 1 packets behind the broadcast.
THEOREM BoundedBacklog == Spec => []BacklogBounded
<1>1. IInv => BacklogBounded
  <2> SUFFICES ASSUME IInv, NEW c \in subscribers
               PROVE  tapped - joined[c] - Len(sent[c]) <= MaxQ + 1
    BY DEF BacklogBounded
  <2>1. /\ c \in Client
        /\ queue[c] \in Seq(Nat \cup {None}) /\ Len(queue[c]) <= MaxQ
        /\ Len(queue[c]) \in Nat
        /\ joined[c] \in Nat /\ Len(sent[c]) \in Nat
        /\ Owed(c) = tapped /\ tapped \in Nat
    BY DEF IInv, TypeOK, ClientInv, Current
  <2>2. Taken(c) \in Nat /\ Taken(c) <= joined[c] + Len(sent[c]) + 1
    BY <2>1 DEF Taken
  <2>3. Owed(c) <= Taken(c) + Len(queue[c])
    BY <2>1, <2>2 DEF Owed
  <2>4. QED
    BY <2>1, <2>2, <2>3, EmitterAssumption
<1>2. QED
  BY <1>1, Invariance, PTL
-----------------------------------------------------------------------------
(* The emitter implements SSEBroadcast.                                    *)

\* What c is owed depends on its own state only.
LEMMA OwedFrame ==
  ASSUME NEW d \in Client, queue'[d] = queue[d], held'[d] = held[d],
         sent'[d] = sent[d], joined'[d] = joined[d]
  PROVE  Owed(d)' = Owed(d)
BY DEF Owed, Taken, HasSentinel

\* A generator that ends is a client that leaves.
LEMMA FinishLeaves ==
  ASSUME IInv, NEW c \in Client, pc[c] \notin {"none", "done"}, Finish(c)
  PROVE  Broadcast!Leave(c)
<1>1. /\ UNCHANGED <<tapped, joined, sent>>
      /\ subscribers' = subscribers \ {c}
      /\ pc' = [pc EXCEPT ![c] = "done"]
      /\ pc \in [Client -> PC]
  BY DEF IInv, TypeOK, Finish, sourceVars
<1>2. {d \in Client : pc'[d] \notin {"none", "done"}}
        = {d \in Client : pc[d] \notin {"none", "done"}} \ {c}
  BY <1>1
<1>3. Owed(c)' = joined[c] + Len(sent[c])
  BY DEF IInv, TypeOK, Finish, Owed, Taken, HasSentinel
<1>4. ASSUME NEW d \in Client, d # c
      PROVE  Owed(d)' = Owed(d)
  BY <1>4, OwedFrame DEF IInv, TypeOK, Finish
<1>5. [d \in Client |-> Owed(d)']
        = [[d \in Client |-> Owed(d)] EXCEPT ![c] = joined[c] + Len(sent[c])]
  BY <1>3, <1>4
<1>6. QED
  BY <1>1, <1>2, <1>5 DEF Broadcast!Leave

\* Taking a packet, and moving from place to place, does nothing the
\* promise speaks of.
LEMMA TakePacketStutters ==
  ASSUME IInv, NEW c \in Client, queue[c] # <<>>, pc[c] \in Live \ {"checking"},
         TakePacket(c)
  PROVE  UNCHANGED Broadcast!bvars
<1>1. Owed(c)' = Owed(c)
  BY TakePacketOwed
<1>2. ASSUME NEW d \in Client, d # c
      PROVE  Owed(d)' = Owed(d)
  BY <1>2, OwedFrame DEF IInv, TypeOK, TakePacket
<1>3. [d \in Client |-> Owed(d)'] = [d \in Client |-> Owed(d)]
  BY <1>1, <1>2
<1>4. {d \in Client : pc'[d] \notin {"none", "done"}}
        = {d \in Client : pc[d] \notin {"none", "done"}}
  BY DEF IInv, TypeOK, TakePacket, Live
<1>5. QED
  BY <1>3, <1>4 DEF Broadcast!bvars, TakePacket, sourceVars

LEMMA MoveStutters ==
  ASSUME IInv, NEW c \in Client, NEW place \in PC, Move(c, place),
         pc[c] \notin {"none", "done"}, place \notin {"none", "done"}
  PROVE  UNCHANGED Broadcast!bvars
<1>1. [d \in Client |-> Owed(d)'] = [d \in Client |-> Owed(d)]
  BY OwedFrame DEF Move
<1>2. {d \in Client : pc'[d] \notin {"none", "done"}}
        = {d \in Client : pc[d] \notin {"none", "done"}}
  BY DEF IInv, TypeOK, Move
<1>3. QED
  BY <1>1, <1>2 DEF Broadcast!bvars, Move, sourceVars

\* Steps that touch neither queues nor generators.
LEMMA SourceStutters ==
  ASSUME UNCHANGED <<tapped, subscribers, queue, pc, held, sent, joined>>
  PROVE  UNCHANGED Broadcast!bvars
<1>1. [d \in Client |-> Owed(d)'] = [d \in Client |-> Owed(d)]
  BY OwedFrame
<1>2. QED
  BY <1>1 DEF Broadcast!bvars

LEMMA TakeItemMaps ==
  ASSUME IInv, NEW c \in Client, queue[c] # <<>>, pc[c] \in Live \ {"checking"},
         TakeItem(c)
  PROVE  Broadcast!Leave(c) \/ UNCHANGED Broadcast!bvars
BY FinishLeaves, TakePacketStutters DEF TakeItem, TakeSentinel, Live

LEMMA LoopTopMaps ==
  ASSUME IInv, NEW c \in Client, pc[c] \in Live \ {"checking"}, LoopTop(c)
  PROVE  Broadcast!Leave(c) \/ UNCHANGED Broadcast!bvars
BY TakeItemMaps, MoveStutters DEF LoopTop, PC, Live

\* The event yielded is the one the promise delivers.
LEMMA YieldDelivers ==
  ASSUME IInv, NEW c \in Client, pc[c] = "checking", YieldEvent(c)
  PROVE  Broadcast!Deliver(c)
<1>1. /\ held[c] # None
      /\ sent \in [Client -> Seq(Nat)] /\ joined[c] \in Nat
      /\ Len(queue[c]) \in Nat /\ Len(sent[c]) \in Nat
      /\ HasSentinel(c) => Len(queue[c]) >= 1
      /\ held[c] = joined[c] + Len(sent[c]) + 1
  BY EmptySeq DEF IInv, TypeOK, HasSentinel, ClientInv, Contiguous
<1>2. Taken(c) = joined[c] + Len(sent[c]) + 1 /\ Owed(c) >= Taken(c)
  BY <1>1 DEF Taken, Owed
<1>3. /\ sent'[c] = Append(sent[c], held[c])
      /\ held'[c] = None
      /\ UNCHANGED <<queue, joined, subscribers, tapped>>
      /\ sent' = [sent EXCEPT ![c] = Append(@, joined[c] + Len(@) + 1)]
  BY <1>1 DEF IInv, TypeOK, YieldEvent, sourceVars
<1>4. Owed(c)' = Owed(c)
  <2>1. Taken(c)' = Taken(c)
    BY <1>1, <1>2, <1>3, AppendFacts DEF IInv, TypeOK, Taken
  <2>2. QED
    BY <2>1, <1>3 DEF Owed, HasSentinel
<1>5. ASSUME NEW d \in Client, d # c
      PROVE  Owed(d)' = Owed(d)
  BY <1>5, OwedFrame DEF IInv, TypeOK, YieldEvent
<1>6. [d \in Client |-> Owed(d)'] = [d \in Client |-> Owed(d)]
  BY <1>4, <1>5
<1>7. {d \in Client : pc'[d] \notin {"none", "done"}}
        = {d \in Client : pc[d] \notin {"none", "done"}}
  BY DEF IInv, TypeOK, YieldEvent
<1>8. Owed(c) - joined[c] - Len(sent[c]) > 0
  <2>1. Owed(c) \in Int
    BY <1>1, <1>2 DEF Owed
  <2>2. QED
    BY <2>1, <1>1, <1>2
<1>9. c \in {d \in Client : pc[d] \notin {"none", "done"}}
  OBVIOUS
<1>10. QED
  BY <1>3, <1>6, <1>7, <1>8, <1>9 DEF Broadcast!Deliver, Broadcast!Behind

\* Fan-out is the promise's broadcast: only full queues are dropped.
LEMMA FanOutPublishes == IInv /\ FanOut => Broadcast!Publish
<1> SUFFICES ASSUME IInv, FanOut
             PROVE  Broadcast!Publish
  OBVIOUS
<1>1. IInv'
  BY FanOutStep
<1>2. /\ tapped \in Nat /\ tapped' = tapped + 1
      /\ subscribers \subseteq Client
      /\ subscribers' = {c \in subscribers : ~Full(c)}
      /\ UNCHANGED <<pc, held, sent, joined>>
  <2>1. tapped' = tapped + 1
    <3>1. source \in Seq(Nat) /\ source # <<>> /\ tapped' = Head(source)
      BY DEF IInv, TypeOK, FanOut
    <3>2. \A i \in DOMAIN source : source[i] = tapped + i
      BY DEF IInv, TapSeesEveryPacket
    <3>3. QED
      BY <3>1, <3>2, TailFacts
  <2>2. QED
    BY <2>1 DEF IInv, TypeOK, FanOut
<1>3. ASSUME NEW c \in subscribers
      PROVE  /\ Full(c) => Broadcast!Behind(c) >= MaxQ
             /\ ~Full(c) => Broadcast!Behind(c) <= MaxQ
  <2>1. /\ c \in Client
        /\ queue[c] \in Seq(Nat \cup {None}) /\ Len(queue[c]) <= MaxQ
        /\ Len(queue[c]) \in Nat
        /\ joined[c] \in Nat /\ Len(sent[c]) \in Nat
        /\ SentinelLast(c)
        /\ fanout = "running"
    <3>1. c \in Client /\ SentinelLast(c) /\ fanout = "running"
      BY DEF IInv, TypeOK, ClientInv, FanOut
    <3>2. QED
      BY <3>1 DEF IInv, TypeOK
  <2>2. ~HasSentinel(c)
    BY <2>1, EmptySeq, LenProperties DEF SentinelLast, HasSentinel
  <2>3. Owed(c) = Taken(c) + Len(queue[c])
    BY <2>2 DEF Owed
  <2>4. Taken(c) \in joined[c] + Len(sent[c])..joined[c] + Len(sent[c]) + 1
    BY <2>1 DEF Taken
  <2>5. Broadcast!Behind(c) = Owed(c) - joined[c] - Len(sent[c])
    BY <2>1 DEF Broadcast!Behind
  <2>6. Taken(c) \in Nat /\ Broadcast!Behind(c)
                              = Len(queue[c]) + (Taken(c) - joined[c] - Len(sent[c]))
    BY <2>1, <2>3, <2>4, <2>5
  <2>7. /\ Len(queue[c]) <= Broadcast!Behind(c)
        /\ Broadcast!Behind(c) <= Len(queue[c]) + 1
    BY <2>1, <2>4, <2>6
  <2>8. Len(queue[c]) < MaxQ => Len(queue[c]) + 1 <= MaxQ
    BY <2>1, EmitterAssumption
  <2>9. Broadcast!Behind(c) \in Int /\ MaxQ \in Int
    BY <2>1, <2>6, EmitterAssumption
  <2>10. Full(c) <=> ~ (Len(queue[c]) < MaxQ)
    BY <2>1, EmitterAssumption DEF Full
  <2>11. QED
    BY <2>1, <2>7, <2>8, <2>9, <2>10
<1>4. ASSUME NEW d \in Client
      PROVE  Owed(d)' = IF d \in subscribers' THEN tapped' ELSE Owed(d)
  <2>1. CASE d \in subscribers'
    BY <2>1, <1>1 DEF IInv, ClientInv, Current
  <2>2. CASE d \notin subscribers'
    <3>1. queue'[d] = queue[d]
      BY <2>2 DEF FanOut
    <3>2. QED
      BY <3>1, <2>2, <1>2, OwedFrame
  <2>3. QED
    BY <2>1, <2>2
<1>5. [d \in Client |-> Owed(d)']
        = [d \in Client |-> IF d \in subscribers' THEN tapped'
                            ELSE [e \in Client |-> Owed(e)][d]]
  BY <1>4
<1> DEFINE dropped == {c \in subscribers : Full(c)}
<1>6. /\ dropped \in SUBSET {c \in subscribers : Broadcast!Behind(c) >= MaxQ}
      /\ subscribers' = subscribers \ dropped
      /\ \A c \in subscribers' : Broadcast!Behind(c) <= MaxQ
  BY <1>2, <1>3
<1>7. QED
  BY <1>2, <1>5, <1>6 DEF Broadcast!Publish

\* Stopping owes nobody anything new and takes nothing away.
LEMMA StopStutters == IInv /\ Stop => UNCHANGED Broadcast!bvars
<1> SUFFICES ASSUME IInv, Stop
             PROVE  UNCHANGED Broadcast!bvars
  OBVIOUS
<1>1. IInv'
  BY StopStep
<1>2. UNCHANGED <<tapped, subscribers, pc, held, sent, joined>>
  BY DEF Stop
<1>3. ASSUME NEW d \in Client
      PROVE  Owed(d)' = Owed(d)
  <2>1. CASE d \in subscribers
    BY <2>1, <1>1, <1>2 DEF IInv, ClientInv, Current
  <2>2. CASE d \notin subscribers
    BY <2>2, <1>2, OwedFrame DEF Stop
  <2>3. QED
    BY <2>1, <2>2
<1>4. [d \in Client |-> Owed(d)'] = [d \in Client |-> Owed(d)]
  BY <1>3
<1>5. QED
  BY <1>2, <1>4 DEF Broadcast!bvars

LEMMA SubscribeJoins ==
  ASSUME IInv, NEW c \in Client, Subscribe(c)
  PROVE  Broadcast!Join(c)
<1>1. IInv'
  BY SubscribeStep
<1>2. /\ pc[c] = "none" /\ pc \in [Client -> PC]
      /\ pc' = [pc EXCEPT ![c] = "created"]
      /\ sent[c] = <<>>
      /\ subscribers' = subscribers \cup {c}
      /\ joined' = [joined EXCEPT ![c] = tapped]
      /\ UNCHANGED <<tapped, queue, held, sent>>
  BY DEF IInv, TypeOK, ClientInv, Unused, Subscribe, sourceVars
<1>3. {d \in Client : pc'[d] \notin {"none", "done"}}
        = {d \in Client : pc[d] \notin {"none", "done"}} \cup {c}
  BY <1>2
<1>4. Owed(c)' = tapped
  BY <1>1, <1>2 DEF IInv, ClientInv, Current
<1>5. ASSUME NEW d \in Client, d # c
      PROVE  Owed(d)' = Owed(d)
  BY <1>5, <1>2, OwedFrame DEF IInv, TypeOK
<1>6. [d \in Client |-> Owed(d)']
        = [[d \in Client |-> Owed(d)] EXCEPT ![c] = tapped]
  BY <1>4, <1>5
<1>7. c \notin {d \in Client : pc[d] \notin {"none", "done"}}
  BY <1>2
<1>8. QED
  BY <1>2, <1>3, <1>6, <1>7 DEF Broadcast!Join

\* Every step is a step of the promise or changes nothing it speaks of.
LEMMA StepMaps == IInv /\ [Next]_vars => [Broadcast!BNext]_Broadcast!bvars
<1> SUFFICES ASSUME IInv, [Next]_vars
             PROVE  Broadcast!BNext \/ UNCHANGED Broadcast!bvars
  OBVIOUS
<1>1. CASE Produce
  BY <1>1, SourceStutters DEF Produce
<1>2. CASE Start
  BY <1>2, SourceStutters DEF Start
<1>3. CASE FanOut
  BY <1>3, FanOutPublishes DEF Broadcast!BNext
<1>4. CASE Stop
  BY <1>4, StopStutters
<1>5. ASSUME NEW c \in Client, Subscribe(c)
      PROVE  Broadcast!BNext
  BY <1>5, SubscribeJoins DEF Broadcast!BNext
<1>6. ASSUME NEW c \in Client, Generator(c)
      PROVE  Broadcast!BNext \/ UNCHANGED Broadcast!bvars
  <2>1. CASE Begin(c)
    BY <2>1, LoopTopMaps DEF Begin, Live, Broadcast!BNext
  <2>2. CASE Wake(c)
    BY <2>2, TakeItemMaps DEF Wake, Live, Broadcast!BNext
  <2>3. CASE Keepalive(c)
    BY <2>3, MoveStutters DEF Keepalive, PC, Live
  <2>4. CASE Check(c)
    BY <2>4, FinishLeaves, YieldDelivers DEF Check, Broadcast!BNext
  <2>5. CASE Written(c)
    BY <2>5, LoopTopMaps DEF Written, Live, Broadcast!BNext
  <2>6. QED
    BY <1>6, <2>1, <2>2, <2>3, <2>4, <2>5 DEF Generator
<1>7. ASSUME NEW c \in Client, Disconnect(c)
      PROVE  UNCHANGED Broadcast!bvars
  BY <1>7, SourceStutters DEF Disconnect, sourceVars
<1>8. ASSUME NEW c \in Client, CancelStream(c)
      PROVE  Broadcast!BNext \/ UNCHANGED Broadcast!bvars
  BY <1>8, FinishLeaves, MoveStutters DEF CancelStream, PC, Live, Broadcast!BNext
<1>9. ASSUME NEW c \in Client, Finalise(c)
      PROVE  Broadcast!BNext
  BY <1>9, FinishLeaves DEF Finalise, Broadcast!BNext
<1>10. CASE UNCHANGED vars
  BY <1>10, SourceStutters DEF vars
<1>11. QED
  BY <1>1, <1>2, <1>3, <1>4, <1>5, <1>6, <1>7, <1>8, <1>9, <1>10 DEF Next

\* The queues, the fan-out task and the generators together keep the promise
\* of SSEBroadcast: contiguous delivery in order to each client, and removal
\* only of clients that are MaxQ packets behind.
THEOREM Refinement == Spec => ImplementsBroadcast
<1>1. Init => Broadcast!BInit
  <2> SUFFICES ASSUME Init
               PROVE  Broadcast!BInit
    OBVIOUS
  <2>1. [d \in Client |-> Owed(d)] = [d \in Client |-> 0]
    BY DEF Init, Owed, Taken, HasSentinel
  <2>2. {d \in Client : pc[d] \notin {"none", "done"}} = {}
    BY DEF Init
  <2>3. QED
    BY <2>1, <2>2 DEF Init, Broadcast!BInit
<1>2. QED
  BY <1>1, Invariance, StepMaps, PTL DEF Spec, ImplementsBroadcast, Broadcast!BSpec
=============================================================================
