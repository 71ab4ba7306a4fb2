------------------------- MODULE ProxyPipelineProofs -------------------------
(***************************************************************************)
(* Proofs about ProxyPipeline for any number of servers and requests: the  *)
(* types, and that the pipeline with its shared client, its enrichments    *)
(* and its servers that close at different times implements the Gateway.   *)
(***************************************************************************)
EXTENDS ProxyPipeline, SequenceFacts, TLAPS

-----------------------------------------------------------------------------
(* The inductive invariant.                                                *)

Typed ==
  /\ server \in [Server -> {"off", "up", "draining", "closing", "down"}]
  /\ stopping \in BOOLEAN /\ registry \in BOOLEAN
  /\ made \in Nat /\ client \in 0..made /\ open \subseteq 1..made
  /\ pc \in [Request -> InFlight \cup {"none", "done"}]
  /\ asked \in [Request -> [method : Method, path : Path] \cup {None}]
  /\ at \in [Request -> Server \cup {None}]
  /\ via \in [Request -> 0..made]
  /\ todo \in [Request -> Seq(Enrichment)]
  /\ upstream \in [Request -> Outcome \cup {None}]
  /\ failed \in [Request -> SUBSET MayRaise]
  /\ applied \in [Request -> Seq(Enrichment)]
  /\ spoilt \in [Request -> BOOLEAN]
  /\ answer \in [Request -> Response \cup {None}]

\* What the Gateway knows of the servers.
Closing == \E s \in Server : server[s] \in {"closing", "down"}

\* Between the start of a server and the first close() the client can be used
\* and the registry is there.
Serving ==
  /\ (\E s \in Server : server[s] # "off") => Closing \/ client \in open
  /\ registry \/ Closing

\* What is known of a request, wherever its handler is suspended.
Follows(r) ==
  /\ pc[r] = "none" <=> asked[r] = None
  /\ pc[r] # "none" => at[r] \in Server /\ server[at[r]] # "off"
  /\ pc[r] = "done" <=> answer[r] # None
  /\ pc[r] = "upstream" => Closing \/ via[r] \in open
  /\ pc[r] \notin {"enriching", "done"} => failed[r] = {} /\ applied[r] = <<>>
  /\ pc[r] # "done" => ~ spoilt[r]

\* The enrichments of fns up to the k-th have run, each of them once.
Half(r, fns, k) ==
  /\ todo[r] = SubSeq(fns, k + 1, Len(fns))
  /\ failed[r] \subseteq {fns[i] : i \in 1..k}
  /\ applied[r] = Without(SubSeq(fns, 1, k), failed[r])

HalfWay(r) ==
  pc[r] = "enriching" =>
    /\ asked[r].method = "GET" /\ upstream[r] = "object"
    /\ \E k \in 0..(Len(FnsFor(asked[r].path)) - 1) : Half(r, FnsFor(asked[r].path), k)

ProxyInv ==
  /\ Typed /\ Serving
  /\ \A r \in Request : Follows(r) /\ HalfWay(r)
-----------------------------------------------------------------------------
(* Facts about the lists of enrichments and about single steps.            *)

\* No enrichment is registered twice for an endpoint.
LEMMA FnsFacts ==
  ASSUME NEW p \in Path
  PROVE  /\ FnsFor(p) \in Seq(Enrichment)
         /\ \A i, j \in 1..Len(FnsFor(p)) : i # j => FnsFor(p)[i] # FnsFor(p)[j]
<1>1. p \in {"current", "current/detail", "almanac/planets", "almanac"}
  BY ProxyAssumption
<1>2. CASE p \in {"current", "current/detail"}
  <2>1. FnsFor(p) = <<"barometer", "wind", "lightning", "text", "uv", "scene">>
    BY <1>2 DEF FnsFor, Registered, FirstSegment
  <2> DEFINE t == <<"barometer", "wind", "lightning", "text", "uv", "scene">>
  <2>2. t \in Seq(Enrichment) /\ Len(t) = 6
    BY DEF Enrichment
  <2>3. /\ t[1] = "barometer" /\ t[2] = "wind" /\ t[3] = "lightning"
        /\ t[4] = "text" /\ t[5] = "uv" /\ t[6] = "scene"
    OBVIOUS
  <2>4. \A i \in 1..6 : i \in {1, 2, 3, 4, 5, 6}
    OBVIOUS
  <2> HIDE DEF t
  <2>5. \A i, j \in 1..6 : i # j => t[i] # t[j]
    BY <2>3, <2>4
  <2>6. QED
    BY <2>1, <2>2, <2>5 DEF t
<1>3. CASE p = "almanac/planets"
  <2>1. FnsFor(p) = <<"planets">>
    BY <1>3 DEF FnsFor, Registered, FirstSegment
  <2>2. <<"planets">> \in Seq(Enrichment) /\ Len(<<"planets">>) = 1
    BY DEF Enrichment
  <2>3. \A i \in 1..1 : i = 1
    OBVIOUS
  <2>4. QED
    BY <2>1, <2>2, <2>3
<1>4. CASE p = "almanac"
  <2>1. FnsFor(p) = <<>>
    BY <1>4 DEF FnsFor, Registered, FirstSegment
  <2>2. QED
    BY <2>1
<1>5. QED
  BY <1>1, <1>2, <1>3, <1>4

\* A step of a request.
StepOf(r) == (\E s \in Server : Accept(r, s)) \/ HandlerStep(r) \/ BodyArrives(r)

\* A step of a server.
ServersMove == Shutdown \/ \E s \in Server : ServerStep(s)

\* A request that moves leaves the others and the servers alone.
LEMMA OthersWait ==
  ASSUME Typed, NEW r \in Request, StepOf(r)
  PROVE  /\ UNCHANGED serverVars
         /\ \A q \in Request \ {r} :
              UNCHANGED <<pc[q], asked[q], at[q], via[q], todo[q], upstream[q],
                          failed[q], applied[q], spoilt[q], answer[q]>>
<1>1. CASE \E s \in Server : Accept(r, s)
  BY <1>1 DEF Accept, Typed
<1>2. CASE Begin(r)
  BY <1>2 DEF Begin, CallUpstream, Respond, Typed
<1>3. CASE BodyArrives(r)
  BY <1>3 DEF BodyArrives, CallUpstream, Respond, Typed
<1>4. CASE UpstreamAnswers(r)
  BY <1>4 DEF UpstreamAnswers, Received, PassRaw, Finish, Respond, Typed
<1>5. CASE Enrich(r)
  BY <1>5 DEF Enrich, PassRaw, Finish, Respond, Typed
<1>6. QED
  BY <1>1, <1>2, <1>3, <1>4, <1>5 DEF StepOf, HandlerStep

\* Servers start and close for good; a client is closed by closing servers only.
LEMMA ServerFacts ==
  ASSUME Typed, Next
  PROVE  /\ Closing => Closing'
         /\ \A s \in Server : server[s] # "off" => server'[s] # "off"
         /\ Closing' \/ open \subseteq open'
         /\ made' \in Nat /\ made <= made'
<1>1. server \in [Server -> {"off", "up", "draining", "closing", "down"}] /\ made \in Nat
  BY DEF Typed
<1>2. CASE UNCHANGED serverVars
  BY <1>1, <1>2 DEF serverVars, Closing
<1>3. CASE Shutdown
  BY <1>1, <1>3 DEF Shutdown, Closing
<1>4. ASSUME NEW s \in Server, StartServer(s)
      PROVE  /\ Closing => Closing'
             /\ \A u \in Server : server[u] # "off" => server'[u] # "off"
             /\ open \subseteq open' /\ made' \in Nat /\ made <= made'
  BY <1>1, <1>4 DEF StartServer, Closing
<1>5. ASSUME NEW s \in Server, Drain(s)
      PROVE  /\ Closing => Closing'
             /\ \A u \in Server : server[u] # "off" => server'[u] # "off"
             /\ open \subseteq open' /\ made' \in Nat /\ made <= made'
  BY <1>1, <1>5 DEF Drain, Closing
<1>6. ASSUME NEW s \in Server, BeginClose(s) \/ EndClose(s)
      PROVE  /\ Closing'
             /\ \A u \in Server : server[u] # "off" => server'[u] # "off"
             /\ made' \in Nat /\ made <= made'
  BY <1>1, <1>6 DEF BeginClose, EndClose, Closing
<1>7. CASE \E r \in Request : StepOf(r)
  BY <1>2, <1>7, OthersWait
<1>8. QED
  BY <1>3, <1>4, <1>5, <1>6, <1>7 DEF Next, ServerStep, StepOf

\* A turn of the enrichments is one element of the list, and leaves what was
\* applied in the order of the list.
LEMMA EnrichFacts ==
  ASSUME Typed, NEW r \in Request, Follows(r), HalfWay(r), Enrich(r),
         NEW fns, fns = FnsFor(asked[r].path)
  PROVE  /\ asked[r] \in [method : Method, path : Path] /\ asked[r].method = "GET"
         /\ upstream[r] = "object" /\ answer[r] = None
         /\ fns \in Seq(Enrichment)
         /\ todo'[r] \in Seq(Enrichment) /\ applied'[r] \in Seq(Enrichment)
         /\ failed'[r] \in SUBSET MayRaise
         /\ \E k \in 1..Len(fns) : /\ Half(r, fns, k)'
                                   /\ todo'[r] = <<>> <=> k = Len(fns)
                                   /\ k = Len(fns) => applied'[r] = Without(fns, failed'[r])
<1>1. /\ pc[r] = "enriching" /\ asked[r].method = "GET" /\ upstream[r] = "object"
      /\ answer[r] = None /\ asked[r] \in [method : Method, path : Path]
  BY DEF Enrich, HalfWay, Follows, Typed
<1>2. fns \in Seq(Enrichment) /\ \A i, j \in 1..Len(fns) : i # j => fns[i] # fns[j]
  BY <1>1, FnsFacts
<1>3. PICK k \in 0..(Len(fns) - 1) : Half(r, fns, k)
  BY <1>1 DEF HalfWay
<1> DEFINE rest == SubSeq(fns, k + 1, Len(fns))
           head == SubSeq(fns, 1, k)
           e == fns[k + 1]
<1>4. /\ k + 1 \in 1..Len(fns) /\ k \in Nat /\ Len(fns) \in Nat /\ k + 2 = (k + 1) + 1
      /\ \A i \in 1..k : i \in 1..Len(fns) /\ i # k + 1 /\ i \in 1..(k + 1)
      /\ k + 1 \in 1..(k + 1)
  BY <1>2
<1>5. /\ rest \in Seq(Enrichment) /\ e \in Enrichment /\ Head(rest) = e
      /\ Tail(rest) = SubSeq(fns, k + 2, Len(fns))
      /\ Tail(rest) = <<>> <=> k + 1 = Len(fns)
      /\ rest # <<>>
      /\ head \in Seq(Enrichment)
      /\ SubSeq(fns, 1, k + 1) = Append(head, e)
  BY <1>2, CutFacts
<1>6. /\ todo[r] = rest /\ applied[r] = Without(head, failed[r])
      /\ failed[r] \subseteq {fns[i] : i \in 1..k}
  BY <1>3 DEF Half
<1>7. \A i \in DOMAIN head : head[i] # e
  <2>1. DOMAIN head = 1..k /\ \A i \in 1..k : head[i] = fns[i]
    <3>1. k \in 0..Len(fns)
      BY <1>4
    <3>2. Len(head) = k /\ \A i \in 1..k : head[i] = fns[i]
      BY <1>2, <3>1, PrefixFacts
    <3>3. QED
      BY <1>5, <3>2, LenProperties
  <2>2. QED
    BY <1>2, <1>4, <2>1
<1>8. e \notin failed[r]
  BY <1>2, <1>4, <1>6
<1>9. todo'[r] = Tail(rest)
  BY <1>6 DEF Enrich, Typed
<1>10. Tail(rest) \in Seq(Enrichment)
  BY <1>5, HeadTailProperties
<1>11. Without(head, failed[r]) \in Seq(Enrichment)
  BY <1>5, WithoutTyped
<1> HIDE DEF rest, head, e
<1>12. \/ applied'[r] = Append(applied[r], e) /\ failed'[r] = failed[r]
       \/ e \in MayRaise /\ failed'[r] = failed[r] \cup {e} /\ applied'[r] = applied[r]
  BY <1>5, <1>6 DEF Enrich, Typed
<1>13. applied'[r] = Without(Append(head, e), failed'[r])
  <2>1. CASE applied'[r] = Append(applied[r], e) /\ failed'[r] = failed[r]
    <3>1. head \in Seq(Enrichment) /\ e \in Enrichment
      BY <1>5
    <3>2. Without(Append(head, e), failed[r]) = Append(Without(head, failed[r]), e)
      BY <1>8, <3>1, WithoutAppend, Zenon
    <3>3. QED
      BY <1>6, <2>1, <3>2, Zenon
  <2>2. CASE failed'[r] = failed[r] \cup {e} /\ applied'[r] = applied[r]
    <3>1. Without(head, failed'[r]) = Without(head, failed[r])
      BY <1>7, <2>2, WithoutSame
    <3>2. e \in failed'[r]
      BY <2>2
    <3>3. Without(Append(head, e), failed'[r]) = Without(head, failed'[r])
      BY <1>5, <3>2, WithoutAppend
    <3>4. QED
      BY <1>6, <2>2, <3>1, <3>3
  <2>3. QED
    BY <1>12, <2>1, <2>2
<1>14. failed'[r] \subseteq {fns[i] : i \in 1..(k + 1)}
  <2>1. failed'[r] \subseteq failed[r] \cup {e}
    BY <1>12
  <2>2. \A x \in failed[r] : \E i \in 1..(k + 1) : x = fns[i]
    BY <1>4, <1>6
  <2>3. e = fns[k + 1] /\ k + 1 \in 1..(k + 1)
    BY <1>4 DEF e
  <2>4. QED
    BY <2>1, <2>2, <2>3
<1>15. failed'[r] \in SUBSET MayRaise /\ applied'[r] \in Seq(Enrichment)
  <2>1. failed[r] \in SUBSET MayRaise
    BY DEF Typed
  <2>2. applied[r] \in Seq(Enrichment)
    BY <1>6, <1>11
  <2>3. QED
    <3>1. Append(applied[r], e) \in Seq(Enrichment)
      BY <1>5, <2>2, AppendProperties
    <3>2. CASE applied'[r] = Append(applied[r], e) /\ failed'[r] = failed[r]
      BY <2>1, <3>1, <3>2
    <3>3. CASE /\ e \in MayRaise
               /\ failed'[r] = failed[r] \cup {e} /\ applied'[r] = applied[r]
      BY <2>1, <2>2, <3>3
    <3>4. QED
      BY <1>12, <3>2, <3>3
<1>16. asked' = asked
  BY DEF Enrich
<1>17. Half(r, fns, k + 1)'
  <2>1. todo'[r] = SubSeq(fns, (k + 1) + 1, Len(fns))
    BY <1>4, <1>5, <1>9
  <2>2. applied'[r] = Without(SubSeq(fns, 1, k + 1), failed'[r])
    BY <1>5, <1>13
  <2>3. QED
    BY <1>14, <2>1, <2>2 DEF Half
<1>18. k + 1 = Len(fns) => applied'[r] = Without(fns, failed'[r])
  <2>1. SubSeq(fns, 1, Len(fns)) = fns
    BY <1>2, SubSeqFull
  <2>2. QED
    BY <1>5, <1>13, <2>1
<1>19. QED
  BY <1>1, <1>2, <1>4, <1>5, <1>9, <1>10, <1>15, <1>17, <1>18
-----------------------------------------------------------------------------
(* Types.                                                                  *)

\* What a handler that forwards its request does.
LEMMA CallFacts ==
  ASSUME Typed, NEW r \in Request, CallUpstream(r)
  PROVE  /\ UNCHANGED <<serverVars, asked, at, todo, upstream, failed, applied, spoilt>>
         /\ \/ /\ client \in open
               /\ pc' = [pc EXCEPT ![r] = "upstream"]
               /\ via' = [via EXCEPT ![r] = client]
               /\ answer' = answer
            \/ /\ client \notin open
               /\ pc' = [pc EXCEPT ![r] = "done"]
               /\ answer' = [answer EXCEPT ![r] = ServedBy!Failure("500")]
               /\ via' = via
BY DEF CallUpstream, Respond

\* Responses are of their type, and there is no response that is None.
LEMMA ResponseFacts ==
  /\ \A status \in {"500", "502", "503", "504"} :
       ServedBy!Failure(status) \in Response /\ ServedBy!Failure(status) # None
  /\ \A o \in Outcome, done \in Seq(Enrichment) :
       ServedBy!Passed(o, done) \in Response /\ ServedBy!Passed(o, done) # None
<1>1. <<>> \in Seq(Enrichment)
  OBVIOUS
<1>2. ASSUME NEW status \in {"500", "502", "503", "504"}
      PROVE  ServedBy!Failure(status) \in Response
  BY <1>1 DEF Response, ServedBy!Failure
<1>3. ASSUME NEW o \in Outcome, NEW done \in Seq(Enrichment)
      PROVE  ServedBy!Passed(o, done) \in Response
  BY DEF Response, ServedBy!Passed
<1>4. QED
  BY <1>2, <1>3, ResponseAssumption

\* The whole answer, if there is JSON to be had of it and if not.
Kept(m, p, o, S) == ServedBy!Whole(m, p, o, S, FALSE)
Raw(m, p, o, S) == ServedBy!Whole(m, p, o, S, TRUE)

\* What the whole answer is, by what the upstream API said.
LEMMA WholeFacts ==
  ASSUME NEW m, NEW p \in Path, NEW o \in Outcome, NEW S
  PROVE  /\ o \in ServedBy!Silence =>
              /\ Kept(m, p, o, S) \in Response
              /\ \A n, T : Kept(m, p, o, S) = Kept(n, p, o, T)
         /\ o = "object" /\ m = "GET" =>
              Kept(m, p, o, S) = ServedBy!Passed(o, Without(FnsFor(p), S))
         /\ o \notin ServedBy!Silence /\ ~ (o = "object" /\ m = "GET") =>
              Kept(m, p, o, S) = ServedBy!Passed(o, <<>>)
         /\ o = "object" => Raw(m, p, o, S) = ServedBy!Passed(o, <<>>)
<1>1. \A q, T : ServedBy!Without(q, T) = Without(q, T)
  BY DEF ServedBy!Without, ServedBy!KeptAt, ServedBy!Rank, ServedBy!Cardinality,
         Without, KeptAt, Rank, Cardinality
<1>2. /\ Outcome = {"unreachable", "timeout", "broken", "object", "error", "other"}
      /\ ServedBy!Silence = {"unreachable", "timeout", "broken"}
  BY DEF Outcome, ServedBy!Outcome, ServedBy!Silence
<1>3. CASE o \in ServedBy!Silence
  <2>1. CASE o = "unreachable"
    <3>1. \A n, T : Kept(n, p, o, T) = ServedBy!Failure("502")
      BY <2>1 DEF Kept, Raw, ServedBy!Whole
    <3>2. QED
      BY <1>2, <1>3, <2>1, <3>1, ResponseFacts
  <2>2. CASE o = "timeout"
    <3>1. \A n, T : Kept(n, p, o, T) = ServedBy!Failure("504")
      BY <2>2 DEF Kept, Raw, ServedBy!Whole
    <3>2. QED
      BY <1>2, <1>3, <2>2, <3>1, ResponseFacts
  <2>3. CASE o = "broken"
    <3>1. \A n, T : Kept(n, p, o, T) = ServedBy!Failure("500")
      BY <2>3 DEF Kept, Raw, ServedBy!Whole
    <3>2. QED
      BY <1>2, <1>3, <2>3, <3>1, ResponseFacts
  <2>4. QED
    BY <1>2, <1>3, <2>1, <2>2, <2>3
<1>4. CASE o = "object"
  <2>1. m = "GET" =>
          Kept(m, p, o, S)
            = ServedBy!Passed(o, ServedBy!Without([x \in Path |-> FnsFor(x)][p], S))
    BY <1>4 DEF Kept, Raw, ServedBy!Whole
  <2>2. m # "GET" => Kept(m, p, o, S) = ServedBy!Passed(o, <<>>)
    BY <1>4 DEF Kept, Raw, ServedBy!Whole
  <2>3. Raw(m, p, o, S) = ServedBy!Passed(o, <<>>)
    BY <1>4 DEF Kept, Raw, ServedBy!Whole
  <2>4. QED
    BY <1>1, <1>2, <1>4, <2>1, <2>2, <2>3
<1>5. CASE o \notin ServedBy!Silence /\ o # "object"
  BY <1>2, <1>5 DEF Kept, Raw, ServedBy!Whole
<1>6. QED
  BY <1>3, <1>4, <1>5

\* What a handler does when the upstream API answers, or cannot any more.
LEMMA UpstreamFacts ==
  ASSUME Typed, NEW r \in Request, UpstreamAnswers(r), Follows(r)
  PROVE  /\ pc[r] = "upstream" /\ asked[r] \in [method : Method, path : Path]
         /\ UNCHANGED <<serverVars, asked, at, via, failed, applied>>
         /\ failed[r] = {} /\ applied[r] = <<>>
         /\ \/ \E o \in Outcome :
                 /\ upstream' = [upstream EXCEPT ![r] = o]
                 /\ spoilt' = spoilt
                 /\ \/ /\ o \in ServedBy!Silence
                       /\ todo' = [todo EXCEPT ![r] = <<>>]
                       /\ pc' = [pc EXCEPT ![r] = "done"]
                       /\ answer' = [answer EXCEPT
                            ![r] = Kept("GET", asked[r].path, o, {})]
                    \/ /\ o \notin ServedBy!Silence
                       /\ ~ Enrichable(r, o) \/ FnsFor(asked[r].path) = <<>>
                       /\ todo' = [todo EXCEPT ![r] = <<>>]
                       /\ pc' = [pc EXCEPT ![r] = "done"]
                       /\ answer' = [answer EXCEPT ![r] = ServedBy!Passed(o, <<>>)]
                    \/ /\ Enrichable(r, o) /\ FnsFor(asked[r].path) # <<>>
                       /\ todo' = [todo EXCEPT ![r] = FnsFor(asked[r].path)]
                       /\ pc' = [pc EXCEPT ![r] = "enriching"]
                       /\ answer' = answer
            \/ /\ upstream' = [upstream EXCEPT ![r] = "object"]
               /\ todo' = todo \/ todo' = [todo EXCEPT ![r] = <<>>]
               /\ pc' = [pc EXCEPT ![r] = "done"]
               /\ answer' = [answer EXCEPT ![r] = ServedBy!Passed("object", <<>>)]
               /\ spoilt' = [spoilt EXCEPT ![r] = TRUE]
            \/ /\ via[r] \notin open
               /\ pc' = [pc EXCEPT ![r] = "done"]
               /\ answer' = [answer EXCEPT ![r] = ServedBy!Failure("500")]
               /\ UNCHANGED <<upstream, todo, spoilt>>
<1>1. /\ pc[r] = "upstream" /\ asked[r] \in [method : Method, path : Path]
      /\ UNCHANGED <<serverVars, asked, at, via, failed, applied>>
      /\ failed[r] = {} /\ applied[r] = <<>>
  BY DEF UpstreamAnswers, Follows, Typed
<1>2. CASE via[r] \notin open /\ Respond(r, ServedBy!Failure("500"))
           /\ UNCHANGED <<upstream, todo, spoilt>>
  BY <1>1, <1>2 DEF Respond
<1>3. CASE upstream' = [upstream EXCEPT ![r] = "object"] /\ PassRaw(r) /\ UNCHANGED todo
  <2>1. upstream'[r] = "object"
    BY <1>3 DEF Typed
  <2>2. QED
    BY <1>1, <1>3, <2>1 DEF PassRaw, Respond
<1>4. ASSUME NEW o \in Outcome, upstream' = [upstream EXCEPT ![r] = o],
             LET fns == IF Enrichable(r, o) THEN FnsFor(asked[r].path) ELSE <<>> IN
             /\ todo' = [todo EXCEPT ![r] = fns]
             /\ IF o \in ServedBy!Silence
                THEN /\ Respond(r, ServedBy!Whole("GET", asked[r].path, o, {}, FALSE))
                     /\ UNCHANGED spoilt
                ELSE Finish(r, fns, <<>>)
      PROVE  \/ /\ spoilt' = spoilt
                /\ \/ /\ o \in ServedBy!Silence
                      /\ todo' = [todo EXCEPT ![r] = <<>>]
                      /\ pc' = [pc EXCEPT ![r] = "done"]
                      /\ answer' = [answer EXCEPT
                           ![r] = Kept("GET", asked[r].path, o, {})]
                   \/ /\ o \notin ServedBy!Silence
                      /\ ~ Enrichable(r, o) \/ FnsFor(asked[r].path) = <<>>
                      /\ todo' = [todo EXCEPT ![r] = <<>>]
                      /\ pc' = [pc EXCEPT ![r] = "done"]
                      /\ answer' = [answer EXCEPT ![r] = ServedBy!Passed(o, <<>>)]
                   \/ /\ Enrichable(r, o) /\ FnsFor(asked[r].path) # <<>>
                      /\ todo' = [todo EXCEPT ![r] = FnsFor(asked[r].path)]
                      /\ pc' = [pc EXCEPT ![r] = "enriching"]
                      /\ answer' = answer
             \/ /\ o = "object"
                /\ todo' = [todo EXCEPT ![r] = <<>>]
                /\ pc' = [pc EXCEPT ![r] = "done"]
                /\ answer' = [answer EXCEPT ![r] = ServedBy!Passed("object", <<>>)]
                /\ spoilt' = [spoilt EXCEPT ![r] = TRUE]
  <2>1. upstream'[r] = o
    BY <1>4 DEF Typed
  <2>2. "object" \notin ServedBy!Silence
    BY DEF ServedBy!Silence
  <2>3. CASE Enrichable(r, o)
    <3>1. o \notin ServedBy!Silence
      BY <2>2, <2>3 DEF Enrichable
    <3>2. QED
      BY <1>4, <2>1, <2>3, <3>1 DEF Finish, PassRaw, Respond, Kept
  <2>4. CASE ~ Enrichable(r, o)
    BY <1>4, <2>1, <2>4 DEF Finish, PassRaw, Respond, Kept
  <2>5. QED
    BY <2>3, <2>4
<1>5. QED
  BY <1>1, <1>2, <1>3, <1>4 DEF UpstreamAnswers, Received

\* An answer, or none yet, leaves the requests typed.
LEMMA AnswerTyped ==
  ASSUME Typed, NEW r \in Request, NEW a \in Response, NEW place \in InFlight,
         \/ /\ pc' = [pc EXCEPT ![r] = "done"]
            /\ answer' = [answer EXCEPT ![r] = a]
         \/ pc' = [pc EXCEPT ![r] = place] /\ answer' = answer
  PROVE  /\ pc' \in [Request -> InFlight \cup {"none", "done"}]
         /\ answer' \in [Request -> Response \cup {None}]
<1> DEFINE T == InFlight \cup {"none", "done"}
           R == Response \cup {None}
<1>1. /\ pc \in [Request -> T] /\ answer \in [Request -> R]
      /\ "done" \in T /\ place \in T /\ a \in R
  BY DEF Typed
<1> HIDE DEF T, R
<1>2. pc' \in [Request -> T] /\ answer' \in [Request -> R]
  BY <1>1
<1>3. QED
  BY <1>2 DEF T, R

\* So does what becomes of the JSON.
LEMMA SpoiltTyped ==
  ASSUME Typed, NEW r \in Request,
         spoilt' = spoilt \/ spoilt' = [spoilt EXCEPT ![r] = TRUE]
  PROVE  spoilt' \in [Request -> BOOLEAN]
<1>1. spoilt \in [Request -> BOOLEAN]
  BY DEF Typed
<1>2. TRUE \in BOOLEAN
  OBVIOUS
<1>3. CASE spoilt' = spoilt
  BY <1>1, <1>3, Zenon
<1>4. CASE spoilt' = [spoilt EXCEPT ![r] = TRUE]
  BY <1>1, <1>4
<1>5. QED
  BY <1>3, <1>4

\* Every step keeps the types.
LEMMA TypedStep ==
  ASSUME ProxyInv, Next
  PROVE  Typed'
<1>1. Typed /\ \A r \in Request : Follows(r) /\ HalfWay(r)
  BY DEF ProxyInv
<1>2. ASSUME UNCHANGED serverVars,
             /\ pc' \in [Request -> InFlight \cup {"none", "done"}]
             /\ asked' \in [Request -> [method : Method, path : Path] \cup {None}]
             /\ at' \in [Request -> Server \cup {None}]
             /\ via' \in [Request -> 0..made]
             /\ todo' \in [Request -> Seq(Enrichment)]
             /\ upstream' \in [Request -> Outcome \cup {None}]
             /\ failed' \in [Request -> SUBSET MayRaise]
             /\ applied' \in [Request -> Seq(Enrichment)]
             /\ spoilt' \in [Request -> BOOLEAN]
             /\ answer' \in [Request -> Response \cup {None}]
      PROVE  Typed'
  BY <1>1, <1>2 DEF Typed, serverVars
<1>3. CASE ServersMove
  <2>1. UNCHANGED requestVars /\ made' \in Nat /\ made <= made'
    BY <1>1, <1>3, ServerFacts
       DEF ServersMove, Shutdown, ServerStep, StartServer, Drain, BeginClose, EndClose
  <2>2. via' \in [Request -> 0..made']
    <3>1. \A i \in 0..made : i \in 0..made'
      BY <1>1, <2>1 DEF Typed
    <3>2. QED
      BY <1>1, <2>1, <3>1 DEF Typed, requestVars
  <2>3. /\ server' \in [Server -> {"off", "up", "draining", "closing", "down"}]
        /\ stopping' \in BOOLEAN /\ registry' \in BOOLEAN
    BY <1>1, <1>3
       DEF Typed, ServersMove, Shutdown, ServerStep, StartServer, Drain, BeginClose, EndClose
  <2>4. client' \in 0..made' /\ open' \subseteq 1..made'
    <3>1. CASE UNCHANGED <<client, made, open>>
      BY <1>1, <3>1 DEF Typed
    <3>2. ASSUME NEW s \in Server, StartServer(s)
          PROVE  client' \in 0..made' /\ open' \subseteq 1..made'
      <4>1. /\ made \in Nat /\ made' = made + 1 /\ client' = made'
            /\ open' = open \cup {made'} /\ open \subseteq 1..made
        BY <1>1, <3>2 DEF Typed, StartServer
      <4>2. made' \in 0..made' /\ made' \in 1..made' /\ \A i \in 1..made : i \in 1..made'
        BY <4>1
      <4>3. QED
        BY <4>1, <4>2
    <3>3. ASSUME NEW s \in Server, BeginClose(s)
          PROVE  client' \in 0..made' /\ open' \subseteq 1..made'
      BY <1>1, <3>3 DEF Typed, BeginClose
    <3>4. ASSUME NEW s \in Server, EndClose(s)
          PROVE  client' \in 0..made' /\ open' \subseteq 1..made'
      <4>1. client' = 0 /\ made' = made /\ open' = open
        BY <3>4 DEF EndClose
      <4>2. QED
        BY <1>1, <4>1 DEF Typed
    <3>5. QED
      BY <1>3, <3>1, <3>2, <3>3, <3>4 DEF ServersMove, Shutdown, ServerStep, Drain
  <2>5. QED
    BY <1>1, <2>1, <2>2, <2>3, <2>4 DEF Typed, requestVars
<1>4. ASSUME NEW r \in Request, NEW s \in Server, Accept(r, s)
      PROVE  Typed'
  <2>1. /\ UNCHANGED <<serverVars, via, todo, upstream, failed, applied, spoilt, answer>>
        /\ pc' = [pc EXCEPT ![r] = "accepted"] /\ at' = [at EXCEPT ![r] = s]
    BY <1>4 DEF Accept
  <2>2. PICK m \in Method, p \in Path :
          asked' = [asked EXCEPT ![r] = [method |-> m, path |-> p]]
    BY <1>4 DEF Accept
  <2>3. QED
    BY <1>1, <1>2, <2>1, <2>2 DEF Typed, InFlight
<1>5. ASSUME NEW r \in Request, CallUpstream(r)
      PROVE  Typed'
  <2>1. ServedBy!Failure("500") \in Response
    BY ResponseFacts
  <2>2. client \in 0..made
    BY <1>1 DEF Typed
  <2>3. UNCHANGED <<serverVars, asked, at, todo, upstream, failed, applied, spoilt>>
    BY <1>1, <1>5, CallFacts
  <2>4. /\ pc' \in [Request -> InFlight \cup {"none", "done"}]
        /\ via' \in [Request -> 0..made]
        /\ answer' \in [Request -> Response \cup {None}]
    BY <1>1, <1>5, <2>1, <2>2, CallFacts DEF Typed, InFlight
  <2>5. QED
    BY <1>1, <1>2, <2>3, <2>4 DEF Typed
<1>6. ASSUME NEW r \in Request, Begin(r)
      PROVE  Typed'
  <2>1. CASE CallUpstream(r)
    BY <1>5, <2>1
  <2>2. CASE ~ CallUpstream(r)
    <3>1. ServedBy!Failure("503") \in Response
      BY ResponseFacts
    <3>2. /\ UNCHANGED <<serverVars, asked, at, via, todo, upstream, failed, applied, spoilt>>
          /\ \/ pc' = [pc EXCEPT ![r] = "done"]
                /\ answer' = [answer EXCEPT ![r] = ServedBy!Failure("503")]
             \/ pc' = [pc EXCEPT ![r] = "body"] /\ answer' = answer
      BY <1>6, <2>2 DEF Begin, Respond
    <3>3. /\ pc' \in [Request -> InFlight \cup {"none", "done"}]
          /\ answer' \in [Request -> Response \cup {None}]
      <4>1. "body" \in InFlight
        BY DEF InFlight
      <4>2. answer \in [Request -> Response \cup {None}]
        BY <1>1 DEF Typed
      <4>3. QED
        BY <1>1, <3>1, <3>2, <4>1, <4>2, AnswerTyped
    <3>4. QED
      BY <1>1, <1>2, <3>2, <3>3 DEF Typed
  <2>3. QED
    BY <2>1, <2>2
<1>7. ASSUME NEW r \in Request, UpstreamAnswers(r)
      PROVE  Typed'
  <2>1. /\ asked[r] \in [method : Method, path : Path] /\ asked[r].path \in Path
        /\ UNCHANGED <<serverVars, asked, at, via, failed, applied>>
    BY <1>1, <1>7, UpstreamFacts
  <2>2. FnsFor(asked[r].path) \in Seq(Enrichment) /\ <<>> \in Seq(Enrichment)
    BY <2>1, FnsFacts
  <2>3. /\ ServedBy!Failure("500") \in Response
        /\ \A o \in Outcome : ServedBy!Passed(o, <<>>) \in Response
        /\ \A o \in ServedBy!Silence \cap Outcome :
             Kept("GET", asked[r].path, o, {}) \in Response
        /\ "object" \in Outcome
    BY <2>1, <2>2, ResponseFacts, WholeFacts DEF Outcome, ServedBy!Outcome
  <2>4. /\ pc' \in [Request -> InFlight \cup {"none", "done"}]
        /\ answer' \in [Request -> Response \cup {None}]
        /\ upstream' \in [Request -> Outcome \cup {None}]
        /\ todo' \in [Request -> Seq(Enrichment)]
        /\ spoilt' \in [Request -> BOOLEAN]
    <3>1. /\ upstream' = upstream \/ \E o \in Outcome : upstream' = [upstream EXCEPT ![r] = o]
          /\ \/ todo' = todo
             \/ todo' = [todo EXCEPT ![r] = <<>>]
             \/ todo' = [todo EXCEPT ![r] = FnsFor(asked[r].path)]
          /\ \/ pc' = [pc EXCEPT ![r] = "done"] \/ pc' = [pc EXCEPT ![r] = "enriching"]
          /\ answer' = answer \/ \E a \in Response : answer' = [answer EXCEPT ![r] = a]
          /\ spoilt' = spoilt \/ spoilt' = [spoilt EXCEPT ![r] = TRUE]
      <4>1. Follows(r)
        BY <1>1
      <4> HIDE DEF Outcome, Response
      <4>2. CASE UNCHANGED <<upstream, todo>>
        BY <1>1, <1>7, <2>3, <4>1, <4>2, UpstreamFacts
      <4>3. CASE ~ UNCHANGED <<upstream, todo>>
        BY <1>1, <1>7, <2>3, <4>1, <4>3, UpstreamFacts
      <4>4. QED
        BY <4>2, <4>3
    <3>2. upstream' \in [Request -> Outcome \cup {None}]
      <4>1. upstream \in [Request -> Outcome \cup {None}]
        BY <1>1 DEF Typed
      <4>2. ASSUME NEW o \in Outcome, upstream' = [upstream EXCEPT ![r] = o]
            PROVE  upstream' \in [Request -> Outcome \cup {None}]
        BY <4>1, <4>2
      <4>3. QED
        BY <3>1, <4>1, <4>2
    <3>3. todo' \in [Request -> Seq(Enrichment)]
      BY <1>1, <2>2, <3>1 DEF Typed
    <3>4. pc' \in [Request -> InFlight \cup {"none", "done"}]
      BY <1>1, <3>1 DEF Typed, InFlight
    <3>5. answer' \in [Request -> Response \cup {None}]
      <4>1. answer \in [Request -> Response \cup {None}]
        BY <1>1 DEF Typed
      <4>2. ASSUME NEW a \in Response, answer' = [answer EXCEPT ![r] = a]
            PROVE  answer' \in [Request -> Response \cup {None}]
        BY <4>1, <4>2
      <4>3. QED
        BY <3>1, <4>1, <4>2
    <3>6. spoilt' \in [Request -> BOOLEAN]
      BY <1>1, <3>1, SpoiltTyped
    <3>7. QED
      BY <3>2, <3>3, <3>4, <3>5, <3>6
  <2>5. QED
    BY <1>1, <1>2, <2>1, <2>4 DEF Typed
<1>8. ASSUME NEW r \in Request, Enrich(r)
      PROVE  Typed'
  <2>1. /\ todo'[r] \in Seq(Enrichment) /\ applied'[r] \in Seq(Enrichment)
        /\ failed'[r] \in SUBSET MayRaise /\ upstream[r] = "object"
    BY <1>1, <1>8, EnrichFacts
  <2>2. /\ UNCHANGED <<serverVars, asked, at, via, upstream>>
        /\ todo' = [todo EXCEPT ![r] = todo'[r]]
        /\ applied' = [applied EXCEPT ![r] = applied'[r]]
        /\ failed' = [failed EXCEPT ![r] = failed'[r]]
    BY <1>1, <1>8 DEF Enrich, Typed
  <2>3. /\ \/ /\ pc' = [pc EXCEPT ![r] = "done"]
              /\ \E a \in {ServedBy!Passed(upstream[r], applied'[r]),
                          ServedBy!Passed(upstream[r], <<>>)} :
                   answer' = [answer EXCEPT ![r] = a]
           \/ pc' = [pc EXCEPT ![r] = "enriching"] /\ answer' = answer
        /\ spoilt' = spoilt \/ spoilt' = [spoilt EXCEPT ![r] = TRUE]
    BY <1>8, <2>2 DEF Enrich, Finish, PassRaw, Respond
  <2>4. \A a \in {ServedBy!Passed(upstream[r], applied'[r]),
                 ServedBy!Passed(upstream[r], <<>>)} : a \in Response
    <3>1. upstream[r] \in Outcome
      BY <2>1 DEF Outcome, ServedBy!Outcome
    <3>2. <<>> \in Seq(Enrichment)
      OBVIOUS
    <3>3. QED
      BY <2>1, <3>1, <3>2, ResponseFacts
  <2>5. /\ pc' \in [Request -> InFlight \cup {"none", "done"}]
        /\ answer' \in [Request -> Response \cup {None}]
    <3>1. "enriching" \in InFlight
      BY DEF InFlight
    <3>2. answer \in [Request -> Response \cup {None}]
      BY <1>1 DEF Typed
    <3>3. QED
      BY <1>1, <2>3, <2>4, <3>1, <3>2, AnswerTyped
  <2>6. /\ todo' \in [Request -> Seq(Enrichment)]
        /\ applied' \in [Request -> Seq(Enrichment)]
        /\ failed' \in [Request -> SUBSET MayRaise]
    BY <1>1, <2>1, <2>2 DEF Typed
  <2>7. spoilt' \in [Request -> BOOLEAN]
    BY <1>1, <2>3, SpoiltTyped
  <2>8. QED
    BY <1>1, <1>2, <2>2, <2>5, <2>6, <2>7 DEF Typed
<1>9. QED
  BY <1>3, <1>4, <1>5, <1>6, <1>7, <1>8 DEF Next, ServersMove, HandlerStep, BodyArrives
-----------------------------------------------------------------------------
(* The servers and the handlers.                                           *)

\* As long as no server closes the client that new requests go through is
\* open, whatever other servers start.
LEMMA ServingStep ==
  ASSUME ProxyInv, Next
  PROVE  Serving'
<1>1. Typed /\ Serving
  BY DEF ProxyInv
<1>2. server \in [Server -> {"off", "up", "draining", "closing", "down"}]
  BY <1>1 DEF Typed
<1>3. Closing => Closing'
  BY <1>1, ServerFacts
<1>4. CASE UNCHANGED serverVars
  BY <1>1, <1>4 DEF Serving, Closing, serverVars
<1>5. CASE Shutdown
  BY <1>1, <1>5 DEF Shutdown, Serving, Closing
<1>6. ASSUME NEW s \in Server, StartServer(s) PROVE Serving'
  BY <1>1, <1>3, <1>6 DEF StartServer, Serving
<1>7. ASSUME NEW s \in Server, Drain(s) PROVE Serving'
  <2>1. UNCHANGED <<client, open, registry>> /\ server[s] # "off"
    BY <1>7 DEF Drain
  <2>2. QED
    BY <1>1, <1>3, <2>1 DEF Serving
<1>8. ASSUME NEW s \in Server, BeginClose(s) \/ EndClose(s) PROVE Serving'
  <2>1. Closing'
    BY <1>2, <1>8 DEF BeginClose, EndClose, Closing
  <2>2. QED
    BY <2>1 DEF Serving
<1>9. CASE \E r \in Request : StepOf(r)
  BY <1>1, <1>4, <1>9, OthersWait
<1>10. QED
  BY <1>5, <1>6, <1>7, <1>8, <1>9 DEF Next, ServerStep, StepOf

\* A request that does not move is followed on.
LEMMA WaitingStep ==
  ASSUME Typed, Next, NEW q \in Request, Follows(q), HalfWay(q),
         UNCHANGED <<pc[q], asked[q], at[q], via[q], todo[q], upstream[q],
                     failed[q], applied[q], spoilt[q], answer[q]>>
  PROVE  Follows(q)' /\ HalfWay(q)'
<1>1. /\ Closing => Closing'
      /\ \A s \in Server : server[s] # "off" => server'[s] # "off"
      /\ Closing' \/ open \subseteq open'
  BY ServerFacts
<1>2. Follows(q)'
  BY <1>1 DEF Follows
<1>3. HalfWay(q)'
  BY DEF HalfWay, Half
<1>4. QED
  BY <1>2, <1>3

\* Whatever step a request takes, its handler is where it says it is.
LEMMA MovingStep ==
  ASSUME ProxyInv, Next, NEW r \in Request, StepOf(r)
  PROVE  Follows(r)' /\ HalfWay(r)'
<1>1. Typed /\ Serving /\ Follows(r) /\ HalfWay(r)
  BY DEF ProxyInv
<1>2. UNCHANGED serverVars
  BY <1>1, OthersWait
<1>3. /\ Closing' <=> Closing
      /\ server' = server /\ open' = open
  BY <1>2 DEF serverVars, Closing
<1>4. ASSUME NEW s \in Server, Accept(r, s)
      PROVE  Follows(r)' /\ HalfWay(r)'
  <2>1. /\ pc[r] = "none" /\ server[s] = "up"
        /\ pc'[r] = "accepted" /\ at'[r] = s /\ UNCHANGED <<answer, failed, applied, spoilt>>
    BY <1>1, <1>4 DEF Accept, Typed
  <2>2. PICK m \in Method, p \in Path : asked'[r] = [method |-> m, path |-> p]
    BY <1>1, <1>4 DEF Accept, Typed
  <2>3. asked'[r] # None
    BY <2>2, ProxyAssumption
  <2>4. QED
    BY <1>1, <1>3, <2>1, <2>3 DEF Follows, HalfWay
<1>5. ASSUME CallUpstream(r), pc[r] \in {"accepted", "body"}
      PROVE  Follows(r)' /\ HalfWay(r)'
  <2>1. ServedBy!Failure("500") # None
    BY ResponseFacts
  <2>2. /\ UNCHANGED <<asked, at, failed, applied, spoilt>>
        /\ \/ pc'[r] = "upstream" /\ via'[r] \in open /\ answer'[r] = answer[r]
           \/ pc'[r] = "done" /\ answer'[r] # None
    BY <1>1, <1>5, <2>1, CallFacts DEF Typed
  <2>3. QED
    BY <1>1, <1>3, <1>5, <2>2 DEF Follows, HalfWay
<1>6. CASE Begin(r)
  <2>1. CASE CallUpstream(r)
    BY <1>5, <1>6, <2>1 DEF Begin
  <2>2. CASE ~ CallUpstream(r)
    <3>1. ServedBy!Failure("503") # None
      BY ResponseFacts
    <3>2. /\ UNCHANGED <<asked, at, failed, applied, spoilt>> /\ pc[r] = "accepted"
          /\ \/ pc'[r] = "body" /\ answer'[r] = answer[r]
             \/ pc'[r] = "done" /\ answer'[r] # None
      BY <1>1, <1>6, <2>2, <3>1 DEF Begin, Respond, Typed
    <3>3. QED
      BY <1>1, <1>3, <3>2 DEF Follows, HalfWay
  <2>3. QED
    BY <2>1, <2>2
<1>7. CASE BodyArrives(r)
  BY <1>5, <1>7 DEF BodyArrives
<1>8. CASE UpstreamAnswers(r)
  <2>1. /\ pc[r] = "upstream" /\ UNCHANGED <<asked, at, failed, applied>>
        /\ asked[r] \in [method : Method, path : Path] /\ asked[r].path \in Path
        /\ failed[r] = {} /\ applied[r] = <<>>
    BY <1>1, <1>8, UpstreamFacts
  <2>2. FnsFor(asked[r].path) \in Seq(Enrichment) /\ <<>> \in Seq(Enrichment)
    BY <2>1, FnsFacts
  <2>3. /\ ServedBy!Failure("500") # None
        /\ \A o \in Outcome : ServedBy!Passed(o, <<>>) # None
        /\ \A o \in ServedBy!Silence \cap Outcome :
             Kept("GET", asked[r].path, o, {}) # None
        /\ ServedBy!Passed("object", <<>>) # None
    <3>1. ServedBy!Failure("500") # None
      BY ResponseFacts
    <3>2. \A o \in Outcome : ServedBy!Passed(o, <<>>) # None
      BY <2>2, ResponseFacts
    <3>3. \A o \in ServedBy!Silence \cap Outcome :
            Kept("GET", asked[r].path, o, {}) \in Response
      BY <2>1, WholeFacts
    <3>4. "object" \in Outcome
      BY DEF Outcome, ServedBy!Outcome
    <3>5. QED
      BY <3>1, <3>2, <3>3, <3>4, ResponseAssumption
  <2>4. \/ pc'[r] = "done" /\ answer'[r] # None
        \/ \E o \in Outcome :
             /\ Enrichable(r, o) /\ FnsFor(asked[r].path) # <<>>
             /\ upstream'[r] = o /\ todo'[r] = FnsFor(asked[r].path)
             /\ pc'[r] = "enriching" /\ answer'[r] = answer[r] /\ spoilt' = spoilt
    <3> DEFINE Other == \E o \in Outcome :
                          /\ Enrichable(r, o) /\ FnsFor(asked[r].path) # <<>>
                          /\ upstream'[r] = o /\ todo'[r] = FnsFor(asked[r].path)
                          /\ pc'[r] = "enriching" /\ answer'[r] = answer[r]
                          /\ spoilt' = spoilt
    <3>1. /\ pc \in [Request -> InFlight \cup {"none", "done"}]
          /\ answer \in [Request -> Response \cup {None}]
          /\ todo \in [Request -> Seq(Enrichment)]
          /\ upstream \in [Request -> Outcome \cup {None}]
      BY <1>1 DEF Typed
    <3>2. ASSUME NEW a, a # None, pc' = [pc EXCEPT ![r] = "done"],
                 answer' = [answer EXCEPT ![r] = a]
          PROVE  pc'[r] = "done" /\ answer'[r] # None
      BY <3>1, <3>2
    <3>3. ASSUME NEW o \in Outcome, upstream' = [upstream EXCEPT ![r] = o],
                 spoilt' = spoilt,
                 \/ /\ o \in ServedBy!Silence
                    /\ pc' = [pc EXCEPT ![r] = "done"]
                    /\ answer' = [answer EXCEPT
                         ![r] = Kept("GET", asked[r].path, o, {})]
                 \/ /\ pc' = [pc EXCEPT ![r] = "done"]
                    /\ answer' = [answer EXCEPT ![r] = ServedBy!Passed(o, <<>>)]
                 \/ /\ Enrichable(r, o) /\ FnsFor(asked[r].path) # <<>>
                    /\ todo' = [todo EXCEPT ![r] = FnsFor(asked[r].path)]
                    /\ pc' = [pc EXCEPT ![r] = "enriching"]
                    /\ answer' = answer
          PROVE  (pc'[r] = "done" /\ answer'[r] # None) \/ Other
      BY <2>3, <3>1, <3>2, <3>3
    <3> HIDE DEF Other
    <3>4. QED
      BY <1>1, <1>8, <2>3, <3>2, <3>3, UpstreamFacts DEF Other
  <2>5. CASE pc'[r] = "done" /\ answer'[r] # None
    BY <1>1, <1>3, <2>1, <2>5 DEF Follows, HalfWay
  <2>6. ASSUME NEW o \in Outcome, Enrichable(r, o), FnsFor(asked[r].path) # <<>>,
               upstream'[r] = o, todo'[r] = FnsFor(asked[r].path),
               pc'[r] = "enriching", answer'[r] = answer[r], spoilt' = spoilt
        PROVE  Follows(r)' /\ HalfWay(r)'
    <3>1. Follows(r)'
      BY <1>1, <1>3, <2>1, <2>6 DEF Follows
    <3>2. ASSUME NEW fns, fns = FnsFor(asked[r].path)
          PROVE  Half(r, fns, 0)' /\ 0 \in 0..(Len(fns) - 1)
      <4>1. fns \in Seq(Enrichment) /\ Len(fns) \in Nat \ {0}
        BY <2>2, <2>6, <3>2, EmptySeq
      <4>2. SubSeq(fns, 0 + 1, Len(fns)) = fns
        BY <4>1, SubSeqFull
      <4>3. SubSeq(fns, 1, 0) = <<>>
        BY SubSeqEmpty
      <4>4. /\ todo'[r] = fns /\ failed'[r] = {} /\ applied'[r] = <<>>
        BY <2>1, <2>6, <3>2
      <4>5. applied'[r] = Without(SubSeq(fns, 1, 0), failed'[r])
        BY <4>3, <4>4, WithoutNothing
      <4>6. QED
        BY <4>1, <4>2, <4>4, <4>5 DEF Half
    <3>3. HalfWay(r)'
      <4>1. o = "object" /\ asked[r].method = "GET"
        BY <2>6 DEF Enrichable
      <4>2. QED
        BY <2>1, <2>6, <3>2, <4>1 DEF HalfWay
    <3>4. QED
      BY <3>1, <3>3
  <2>7. QED
    BY <2>4, <2>5, <2>6
<1>9. CASE Enrich(r)
  <2>1. /\ pc[r] = "enriching" /\ UNCHANGED <<asked, at, via, upstream>>
    BY <1>9 DEF Enrich
  <2>2. /\ asked[r].method = "GET" /\ upstream[r] = "object"
        /\ applied'[r] \in Seq(Enrichment)
    BY <1>1, <1>9, EnrichFacts
  <2>3. \/ /\ todo'[r] = <<>> /\ pc'[r] = "done"
           /\ \/ answer'[r] = ServedBy!Passed(upstream[r], applied'[r])
              \/ answer'[r] = ServedBy!Passed(upstream[r], <<>>)
        \/ /\ todo'[r] # <<>> /\ pc'[r] = "enriching" /\ answer'[r] = answer[r]
           /\ spoilt' = spoilt
    BY <1>1, <1>9, <2>1 DEF Enrich, Finish, PassRaw, Respond, Typed
  <2>4. /\ ServedBy!Passed(upstream[r], applied'[r]) # None
        /\ ServedBy!Passed(upstream[r], <<>>) # None
    <3>1. upstream[r] \in Outcome
      BY <2>2 DEF Outcome, ServedBy!Outcome
    <3>2. <<>> \in Seq(Enrichment)
      OBVIOUS
    <3>3. QED
      BY <2>2, <3>1, <3>2, ResponseFacts
  <2>5. Follows(r)'
    BY <1>1, <1>3, <2>1, <2>3, <2>4 DEF Follows
  <2>6. ASSUME NEW fns, fns = FnsFor(asked[r].path), todo'[r] # <<>>
        PROVE  \E k \in 0..(Len(fns) - 1) : Half(r, fns, k)'
    <3>1. PICK k \in 1..Len(fns) : Half(r, fns, k)' /\ (todo'[r] = <<>> <=> k = Len(fns))
      BY <1>1, <1>9, <2>6, EnrichFacts
    <3>2. fns \in Seq(Enrichment)
      BY <1>1, <1>9, <2>6, EnrichFacts
    <3>3. k \in 0..(Len(fns) - 1)
      BY <2>6, <3>1, <3>2
    <3>4. QED
      BY <3>1, <3>3
  <2>7. HalfWay(r)'
    BY <2>1, <2>2, <2>3, <2>6 DEF HalfWay
  <2>8. QED
    BY <2>5, <2>7
<1>10. QED
  BY <1>4, <1>6, <1>7, <1>8, <1>9 DEF StepOf, HandlerStep
-----------------------------------------------------------------------------
(* The refinement.                                                         *)

\* What the Gateway sees of an answer.
Cause ==
  [r \in Request |-> IF answer[r] = None THEN None
                     ELSE [upstream |-> upstream[r], failed |-> failed[r],
                           spoilt |-> spoilt[r]]]

\* What the Gateway may answer.
Admissible(r, a) ==
  \/ /\ upstream'[r] # None /\ spoilt'[r] = FALSE
     /\ a = Kept(asked[r].method, asked[r].path, upstream'[r], failed'[r])
  \/ /\ upstream'[r] # None /\ spoilt'[r] = TRUE
     /\ a = Raw(asked[r].method, asked[r].path, upstream'[r], failed'[r])
  \/ /\ Closing
     /\ a \in {ServedBy!Failure("500"), ServedBy!Failure("503"),
               ServedBy!Passed(upstream'[r], <<>>)}

\* Steps that only the pipeline sees.
LEMMA Unseen ==
  ASSUME UNCHANGED asked, UNCHANGED answer, Closing' <=> Closing,
         \A q \in Request : answer[q] # None => UNCHANGED <<upstream[q], failed[q], spoilt[q]>>
  PROVE  UNCHANGED ServedBy!gvars
<1>1. Cause' = Cause
  BY DEF Cause
<1>2. QED
  BY <1>1 DEF ServedBy!gvars, Cause, Closing

\* An admissible response is an answer of the Gateway.
LEMMA Answered ==
  ASSUME NEW r \in Request, UNCHANGED asked, Closing' <=> Closing,
         asked[r] # None, answer[r] = None, NEW a, a # None, Admissible(r, a),
         answer' = [answer EXCEPT ![r] = a], answer \in [Request -> Response \cup {None}],
         upstream'[r] \in Outcome \cup {None}, failed'[r] \in SUBSET MayRaise,
         spoilt'[r] \in BOOLEAN,
         \A q \in Request \ {r} : UNCHANGED <<upstream[q], failed[q], spoilt[q]>>
  PROVE  ServedBy!Answer(r)
<1> DEFINE c == [upstream |-> upstream'[r], failed |-> failed'[r], spoilt |-> spoilt'[r]]
<1>1. answer'[r] = a /\ \A q \in Request \ {r} : answer'[q] = answer[q]
  OBVIOUS
<1>2. Cause'[r] = c
  BY <1>1 DEF Cause
<1>3. Cause' = [Cause EXCEPT ![r] = Cause'[r]]
  BY <1>1 DEF Cause
<1>4. c # None
  BY ResponseAssumption
<1>5. a \in (IF c.upstream = None THEN {}
             ELSE {ServedBy!Whole(asked[r].method, asked[r].path, c.upstream, c.failed,
                                  c.spoilt)})
            \cup (IF Closing
                  THEN {ServedBy!Failure("500"), ServedBy!Failure("503"),
                        ServedBy!Passed(c.upstream, <<>>)}
                  ELSE {})
  BY DEF Admissible, Kept, Raw
<1> HIDE DEF c
<1>6. LET d == Cause'[r] IN
      \E x \in (IF d.upstream = None THEN {}
                ELSE {ServedBy!Whole(asked[r].method, asked[r].path, d.upstream, d.failed,
                                     d.spoilt)})
               \cup (IF Closing
                     THEN {ServedBy!Failure("500"), ServedBy!Failure("503"),
                           ServedBy!Passed(d.upstream, <<>>)}
                     ELSE {}) :
        answer' = [answer EXCEPT ![r] = x]
  BY <1>2, <1>5
<1>7. UNCHANGED Closing
  OBVIOUS
<1>8. QED
  BY <1>2, <1>3, <1>4, <1>6, <1>7 DEF ServedBy!Answer, Cause, Closing

\* A handler that forwards its request and finds the client closed answers
\* for a service that closes.
LEMMA CallRefines ==
  ASSUME ProxyInv, NEW r \in Request, StepOf(r), CallUpstream(r),
         pc[r] \in {"accepted", "body"}
  PROVE  ServedBy!Answer(r) \/ UNCHANGED ServedBy!gvars
<1>1. Typed /\ Serving /\ Follows(r)
  BY DEF ProxyInv
<1>2. /\ UNCHANGED serverVars
      /\ UNCHANGED <<asked, upstream, failed, spoilt>>
  BY <1>1, CallFacts DEF serverVars
<1>3. Closing' <=> Closing
  BY <1>2 DEF serverVars, Closing
<1>4. CASE answer' = answer
  BY <1>2, <1>3, <1>4, Unseen
<1>5. CASE answer' # answer
  <2>1. client \notin open /\ answer' = [answer EXCEPT ![r] = ServedBy!Failure("500")]
    BY <1>1, <1>5, CallFacts
  <2>2. Closing
    <3>1. at[r] \in Server /\ server[at[r]] # "off"
      BY <1>1 DEF Follows
    <3>2. QED
      BY <1>1, <2>1, <3>1 DEF Serving
  <2>3. Admissible(r, ServedBy!Failure("500")) /\ ServedBy!Failure("500") # None
    BY <2>2, ResponseFacts DEF Admissible
  <2>4. asked[r] # None /\ answer[r] = None
    BY <1>1 DEF Follows
  <2>5. QED
    BY <1>1, <1>2, <1>3, <2>1, <2>3, <2>4, Answered DEF Typed
<1>6. QED
  BY <1>4, <1>5

\* Every step of the pipeline is one of the Gateway, or none.
LEMMA RefinementStep ==
  ASSUME ProxyInv, Typed', Next
  PROVE  ServedBy!GNext \/ UNCHANGED ServedBy!gvars
<1>1. Typed /\ Serving /\ \A r \in Request : Follows(r) /\ HalfWay(r)
  BY DEF ProxyInv
<1>2. server \in [Server -> {"off", "up", "draining", "closing", "down"}]
  BY <1>1 DEF Typed
<1>3. ASSUME UNCHANGED requestVars, Closing' <=> Closing
      PROVE  UNCHANGED ServedBy!gvars
  BY <1>3, Unseen DEF requestVars
<1>4. ASSUME UNCHANGED requestVars, Closing'
      PROVE  ServedBy!Close
  <2>1. UNCHANGED <<asked, Cause, answer>>
    BY <1>4 DEF requestVars, Cause
  <2>2. QED
    BY <1>4, <2>1 DEF ServedBy!Close, Cause, Closing
<1>5. CASE Shutdown
  BY <1>3, <1>5 DEF Shutdown, Closing
<1>6. ASSUME NEW s \in Server, StartServer(s) \/ Drain(s)
      PROVE  UNCHANGED ServedBy!gvars
  <2>1. Closing' <=> Closing
    BY <1>2, <1>6 DEF StartServer, Drain, Closing
  <2>2. QED
    BY <1>3, <1>6, <2>1 DEF StartServer, Drain
<1>7. ASSUME NEW s \in Server, BeginClose(s) \/ EndClose(s)
      PROVE  ServedBy!Close
  <2>1. Closing'
    BY <1>2, <1>7 DEF BeginClose, EndClose, Closing
  <2>2. QED
    BY <1>4, <1>7, <2>1 DEF BeginClose, EndClose
<1>8. ASSUME NEW r \in Request, StepOf(r)
      PROVE  /\ Closing' <=> Closing
             /\ \A q \in Request \ {r} : UNCHANGED <<upstream[q], failed[q], spoilt[q]>>
  BY <1>1, <1>8, OthersWait DEF serverVars, Closing
<1>9. ASSUME NEW r \in Request, NEW s \in Server, Accept(r, s)
      PROVE  ServedBy!Ask(r)
  <2>1. asked[r] = None /\ UNCHANGED <<server, upstream, failed, spoilt, answer>>
    BY <1>1, <1>9 DEF Accept, Follows, serverVars
  <2>2. UNCHANGED <<Closing, Cause, answer>>
    BY <2>1 DEF Closing, Cause
  <2>3. \E m \in Method, p \in Path :
          asked' = [asked EXCEPT ![r] = [method |-> m, path |-> p]]
    BY <1>9 DEF Accept
  <2>4. QED
    BY <2>1, <2>2, <2>3 DEF ServedBy!Ask, Cause, Closing
<1>10. ASSUME NEW r \in Request, Begin(r) \/ BodyArrives(r)
       PROVE  ServedBy!Answer(r) \/ UNCHANGED ServedBy!gvars
  <2>1. StepOf(r)
    BY <1>10 DEF StepOf, HandlerStep
  <2>2. CASE CallUpstream(r)
    <3>1. pc[r] \in {"accepted", "body"}
      BY <1>10 DEF Begin, BodyArrives
    <3>2. QED
      BY <2>1, <2>2, <3>1, CallRefines
  <2>3. CASE ~ CallUpstream(r)
    <3>1. /\ pc[r] = "accepted" /\ UNCHANGED <<asked, upstream, failed, spoilt>>
          /\ \/ client = 0 /\ answer' = [answer EXCEPT ![r] = ServedBy!Failure("503")]
             \/ answer' = answer
      BY <1>10, <2>3 DEF Begin, BodyArrives, Respond
    <3>2. CASE answer' = answer
      BY <1>8, <2>1, <3>1, <3>2, Unseen
    <3>3. CASE client = 0 /\ answer' = [answer EXCEPT ![r] = ServedBy!Failure("503")]
      <4>1. client \notin open
        BY <1>1, <3>3 DEF Typed
      <4>2. at[r] \in Server /\ server[at[r]] # "off" /\ asked[r] # None /\ answer[r] = None
        BY <1>1, <3>1 DEF Follows
      <4>3. Closing
        BY <1>1, <4>1, <4>2 DEF Serving
      <4>4. Admissible(r, ServedBy!Failure("503")) /\ ServedBy!Failure("503") # None
        BY <4>3, ResponseFacts DEF Admissible
      <4>5. QED
        BY <1>1, <1>8, <2>1, <3>1, <3>3, <4>2, <4>4, Answered DEF Typed
    <3>4. QED
      BY <3>1, <3>2, <3>3
  <2>4. QED
    BY <2>2, <2>3
<1>11. ASSUME NEW r \in Request, UpstreamAnswers(r)
       PROVE  ServedBy!Answer(r) \/ UNCHANGED ServedBy!gvars
  <2>1. StepOf(r) /\ Follows(r)
    BY <1>1, <1>11 DEF StepOf, HandlerStep
  <2>2. /\ pc[r] = "upstream" /\ asked[r] \in [method : Method, path : Path]
        /\ asked[r].path \in Path /\ UNCHANGED <<asked, failed>> /\ failed'[r] = {}
    BY <1>1, <1>11, <2>1, UpstreamFacts
  <2>3. asked[r] # None /\ answer[r] = None /\ ~ spoilt[r]
    BY <2>1, <2>2 DEF Follows
  <2>4. /\ answer \in [Request -> Response \cup {None}]
        /\ upstream'[r] \in Outcome \cup {None} /\ failed'[r] \in SUBSET MayRaise
        /\ spoilt'[r] \in BOOLEAN
    BY <1>1 DEF Typed
  <2>5. ASSUME NEW a \in Response, Admissible(r, a), answer' = [answer EXCEPT ![r] = a]
        PROVE  ServedBy!Answer(r)
    BY <1>8, <2>1, <2>2, <2>3, <2>4, <2>5, Answered, ResponseAssumption
  <2>6. CASE answer' = answer
    BY <1>8, <2>1, <2>2, <2>3, <2>6, Unseen
  <2>7. CASE via[r] \notin open /\ answer' = [answer EXCEPT ![r] = ServedBy!Failure("500")]
    <3>1. Closing
      BY <2>1, <2>2, <2>7 DEF Follows
    <3>2. Admissible(r, ServedBy!Failure("500")) /\ ServedBy!Failure("500") \in Response
      BY <3>1, ResponseFacts DEF Admissible
    <3>3. QED
      BY <2>5, <2>7, <3>2
  <2>8. ASSUME NEW o \in Outcome, upstream' = [upstream EXCEPT ![r] = o], spoilt' = spoilt,
               o \in ServedBy!Silence,
               answer' = [answer EXCEPT ![r] = Kept("GET", asked[r].path, o, {})]
        PROVE  ServedBy!Answer(r)
    <3>1. upstream'[r] = o /\ o # None /\ spoilt'[r] = FALSE
      <4>1. upstream'[r] = o /\ o # None
        BY <1>1, <2>8, ResponseAssumption DEF Typed
      <4>2. spoilt'[r] = FALSE
        BY <2>3, <2>4, <2>8
      <4>3. QED
        BY <4>1, <4>2
    <3>2. Kept("GET", asked[r].path, o, {})
            = Kept(asked[r].method, asked[r].path, upstream'[r], failed'[r])
      BY <2>2, <2>8, <3>1, WholeFacts
    <3>3. Kept("GET", asked[r].path, o, {}) \in Response
      BY <2>2, <2>8, WholeFacts
    <3>4. Admissible(r, Kept("GET", asked[r].path, o, {}))
      BY <3>1, <3>2 DEF Admissible
    <3>5. QED
      BY <2>5, <2>8, <3>3, <3>4
  <2>9. ASSUME NEW o \in Outcome, upstream' = [upstream EXCEPT ![r] = o], spoilt' = spoilt,
               o \notin ServedBy!Silence,
               ~ Enrichable(r, o) \/ FnsFor(asked[r].path) = <<>>,
               answer' = [answer EXCEPT ![r] = ServedBy!Passed(o, <<>>)]
        PROVE  ServedBy!Answer(r)
    <3>1. upstream'[r] = o /\ o # None /\ spoilt'[r] = FALSE
      <4>1. upstream'[r] = o /\ o # None
        BY <1>1, <2>9, ResponseAssumption DEF Typed
      <4>2. spoilt'[r] = FALSE
        BY <2>3, <2>4, <2>9
      <4>3. QED
        BY <4>1, <4>2
    <3>2. ServedBy!Passed(o, <<>>) \in Response
      <4>1. <<>> \in Seq(Enrichment)
        OBVIOUS
      <4>2. QED
        BY <4>1, ResponseFacts
    <3>3. CASE o = "object" /\ asked[r].method = "GET" /\ registry
      <4>1. FnsFor(asked[r].path) = <<>>
        BY <2>9, <3>3 DEF Enrichable
      <4>2. Kept(asked[r].method, asked[r].path, o, failed'[r])
              = ServedBy!Passed(o, <<>>)
        BY <2>2, <3>3, <4>1, WholeFacts, WithoutNothing
      <4>3. Admissible(r, ServedBy!Passed(o, <<>>))
        BY <3>1, <4>2 DEF Admissible
      <4>4. QED
        BY <2>5, <2>9, <3>2, <4>3
    <3>4. CASE ~ (o = "object" /\ asked[r].method = "GET")
      <4>1. Kept(asked[r].method, asked[r].path, o, failed'[r])
              = ServedBy!Passed(o, <<>>)
        BY <2>2, <2>9, <3>4, WholeFacts
      <4>2. Admissible(r, ServedBy!Passed(o, <<>>))
        BY <3>1, <4>1 DEF Admissible
      <4>3. QED
        BY <2>5, <2>9, <3>2, <4>2
    <3>5. CASE ~ registry
      <4>1. Closing
        BY <1>1, <3>5 DEF Serving
      <4>2. Admissible(r, ServedBy!Passed(o, <<>>))
        BY <3>1, <4>1 DEF Admissible
      <4>3. QED
        BY <2>5, <2>9, <3>2, <4>2
    <3>6. QED
      BY <3>3, <3>4, <3>5
  <2>10. ASSUME upstream' = [upstream EXCEPT ![r] = "object"],
                spoilt' = [spoilt EXCEPT ![r] = TRUE],
                answer' = [answer EXCEPT ![r] = ServedBy!Passed("object", <<>>)]
         PROVE  ServedBy!Answer(r)
    <3>1. "object" \in Outcome /\ "object" \notin ServedBy!Silence /\ "object" # None
      BY ResponseAssumption DEF Outcome, ServedBy!Outcome, ServedBy!Silence
    <3>2. upstream'[r] = "object" /\ spoilt'[r] = TRUE
      BY <1>1, <2>10 DEF Typed
    <3>3. ServedBy!Passed("object", <<>>) \in Response
      <4>1. <<>> \in Seq(Enrichment)
        OBVIOUS
      <4>2. QED
        BY <3>1, <4>1, ResponseFacts
    <3>4. Raw(asked[r].method, asked[r].path, "object", failed'[r])
            = ServedBy!Passed("object", <<>>)
      <4>1. asked[r].path \in Path /\ "object" \in Outcome
        BY <2>2, <3>1
      <4>2. QED
        BY <4>1, WholeFacts
    <3>5. Admissible(r, ServedBy!Passed("object", <<>>))
      BY <3>1, <3>2, <3>4 DEF Admissible
    <3>6. QED
      BY <2>5, <2>10, <3>3, <3>5
  <2>11. QED
    BY <1>1, <1>11, <2>1, <2>6, <2>7, <2>8, <2>9, <2>10, UpstreamFacts
<1>12. ASSUME NEW r \in Request, Enrich(r)
       PROVE  ServedBy!Answer(r) \/ UNCHANGED ServedBy!gvars
  <2>1. StepOf(r) /\ Follows(r) /\ HalfWay(r)
    BY <1>1, <1>12 DEF StepOf, HandlerStep
  <2>2. /\ asked[r] \in [method : Method, path : Path] /\ asked[r].path \in Path
        /\ asked[r].method = "GET" /\ upstream[r] = "object" /\ answer[r] = None
        /\ UNCHANGED <<asked, upstream>>
    BY <1>1, <1>12, <2>1, EnrichFacts DEF Enrich
  <2>3. asked[r] # None
    BY <2>2, ProxyAssumption
  <2>4. "object" \in Outcome
    BY DEF Outcome, ServedBy!Outcome
  <2>5. CASE todo'[r] # <<>>
    <3>1. answer' = answer
      BY <1>12, <2>5 DEF Enrich, Finish
    <3>2. QED
      BY <1>8, <2>1, <2>2, <3>1, Unseen
  <2>6. /\ answer \in [Request -> Response \cup {None}]
        /\ upstream'[r] \in Outcome \cup {None} /\ failed'[r] \in SUBSET MayRaise
        /\ spoilt'[r] \in BOOLEAN /\ upstream'[r] = "object" /\ upstream'[r] # None
    BY <1>1, <2>2, <2>4, ResponseAssumption DEF Typed
  <2>7. ~ spoilt[r]
    BY <1>12, <2>1 DEF Enrich, Follows
  <2>8. ASSUME NEW done \in Seq(Enrichment),
               answer' = [answer EXCEPT ![r] = ServedBy!Passed("object", done)],
               \/ /\ spoilt'[r] = FALSE
                  /\ ServedBy!Passed("object", done)
                       = Kept(asked[r].method, asked[r].path, "object", failed'[r])
               \/ /\ spoilt'[r] = TRUE
                  /\ ServedBy!Passed("object", done)
                       = Raw(asked[r].method, asked[r].path, "object", failed'[r])
        PROVE  ServedBy!Answer(r)
    <3> DEFINE a == ServedBy!Passed("object", done)
    <3>1. a # None
      BY <2>4, ResponseFacts
    <3>2. Admissible(r, a)
      BY <2>6, <2>8 DEF Admissible
    <3>3. answer' = [answer EXCEPT ![r] = a]
      BY <2>8
    <3> HIDE DEF a
    <3>4. QED
      BY <1>8, <2>1, <2>2, <2>3, <2>6, <3>1, <3>2, <3>3, Answered
  <2>9. CASE todo'[r] = <<>> /\ spoilt' = spoilt
             /\ answer' = [answer EXCEPT ![r] = ServedBy!Passed("object", applied'[r])]
    <3>1. /\ applied'[r] = Without(FnsFor(asked[r].path), failed'[r])
          /\ applied'[r] \in Seq(Enrichment)
      BY <1>1, <1>12, <2>1, <2>9, EnrichFacts
    <3>2. spoilt'[r] = FALSE
      BY <2>6, <2>7, <2>9
    <3>3. ServedBy!Passed("object", applied'[r])
            = Kept(asked[r].method, asked[r].path, "object", failed'[r])
      BY <2>2, <2>4, <3>1, WholeFacts
    <3>4. QED
      BY <2>8, <2>9, <3>1, <3>2, <3>3
  <2>10. CASE spoilt' = [spoilt EXCEPT ![r] = TRUE]
              /\ answer' = [answer EXCEPT ![r] = ServedBy!Passed("object", <<>>)]
    <3>1. <<>> \in Seq(Enrichment) /\ "object" \notin ServedBy!Silence
      BY DEF ServedBy!Silence
    <3>2. spoilt'[r] = TRUE
      BY <1>1, <2>10 DEF Typed
    <3>3. ServedBy!Passed("object", <<>>)
            = Raw(asked[r].method, asked[r].path, "object", failed'[r])
      BY <2>2, <2>4, <3>1, WholeFacts
    <3>4. QED
      BY <2>8, <2>10, <3>1, <3>2, <3>3
  <2>11. CASE todo'[r] = <<>>
    BY <1>12, <2>2, <2>6, <2>9, <2>10, <2>11 DEF Enrich, Finish, PassRaw, Respond
  <2>12. QED
    BY <2>5, <2>11
<1>13. QED
  BY <1>5, <1>6, <1>7, <1>9, <1>10, <1>11, <1>12
     DEF Next, ServerStep, HandlerStep, ServedBy!GNext
-----------------------------------------------------------------------------
(* The theorems.                                                           *)

\* The invariant the theorems rest on.
THEOREM ProxyInvariant == Spec => []ProxyInv
<1>1. Init => ProxyInv
  <2> SUFFICES ASSUME Init PROVE ProxyInv
    OBVIOUS
  <2>1. Typed
    <3>1. <<>> \in Seq(Enrichment) /\ 0 \in 0..0
      OBVIOUS
    <3>2. /\ server \in [Server -> {"off", "up", "draining", "closing", "down"}]
          /\ stopping \in BOOLEAN /\ registry \in BOOLEAN
          /\ made \in Nat /\ client \in 0..made /\ open \subseteq 1..made
      <4>1. server \in [Server -> {"off", "up", "draining", "closing", "down"}]
        BY DEF Init
      <4>2. stopping \in BOOLEAN /\ registry \in BOOLEAN
        BY DEF Init
      <4>3. made = 0 /\ client = 0 /\ open = {}
        BY DEF Init
      <4>4. QED
        BY <3>1, <4>1, <4>2, <4>3
    <3>3. /\ pc \in [Request -> InFlight \cup {"none", "done"}]
          /\ asked \in [Request -> [method : Method, path : Path] \cup {None}]
          /\ at \in [Request -> Server \cup {None}]
          /\ via \in [Request -> 0..made]
      BY DEF Init
    <3>4. /\ todo \in [Request -> Seq(Enrichment)]
          /\ upstream \in [Request -> Outcome \cup {None}]
          /\ failed \in [Request -> SUBSET MayRaise]
          /\ applied \in [Request -> Seq(Enrichment)]
          /\ answer \in [Request -> Response \cup {None}]
      BY <3>1 DEF Init
    <3>5. spoilt \in [Request -> BOOLEAN]
      BY DEF Init
    <3>6. QED
      BY <3>2, <3>3, <3>4, <3>5 DEF Typed
  <2>2. Serving
    BY DEF Init, Serving
  <2>3. \A r \in Request : Follows(r) /\ HalfWay(r)
    BY DEF Init, Follows, HalfWay
  <2>4. QED
    BY <2>1, <2>2, <2>3 DEF ProxyInv
<1>2. ProxyInv /\ [Next]_vars => ProxyInv'
  <2> SUFFICES ASSUME ProxyInv, [Next]_vars PROVE ProxyInv'
    OBVIOUS
  <2>1. CASE Next
    <3>1. Typed' /\ Serving'
      BY <2>1, TypedStep, ServingStep
    <3>2. ASSUME NEW q \in Request PROVE Follows(q)' /\ HalfWay(q)'
      <4>1. Typed /\ Follows(q) /\ HalfWay(q)
        BY DEF ProxyInv
      <4>2. CASE StepOf(q)
        BY <2>1, <4>2, MovingStep
      <4>3. ASSUME NEW r \in Request, r # q, StepOf(r)
            PROVE  Follows(q)' /\ HalfWay(q)'
        <5>1. UNCHANGED <<pc[q], asked[q], at[q], via[q], todo[q], upstream[q],
                          failed[q], applied[q], spoilt[q], answer[q]>>
          BY <4>1, <4>3, OthersWait
        <5>2. QED
          BY <2>1, <4>1, <5>1, WaitingStep
      <4>4. CASE ServersMove
        <5>1. UNCHANGED requestVars
          BY <4>4 DEF ServersMove, Shutdown, ServerStep, StartServer, Drain, BeginClose,
                      EndClose
        <5>2. QED
          BY <2>1, <4>1, <5>1, WaitingStep DEF requestVars
      <4>5. QED
        BY <2>1, <4>2, <4>3, <4>4 DEF Next, ServersMove, StepOf
    <3>3. QED
      BY <3>1, <3>2 DEF ProxyInv
  <2>2. CASE UNCHANGED vars
    <3> USE <2>2 DEF ProxyInv, vars, serverVars, requestVars
    <3>1. Typed'
      BY DEF Typed
    <3>2. Serving'
      BY DEF Serving, Closing
    <3>3. ASSUME NEW r \in Request PROVE Follows(r)' /\ HalfWay(r)'
      <4>1. Follows(r)'
        BY DEF Follows, Closing
      <4>2. HalfWay(r)'
        BY DEF HalfWay, Half
      <4>3. QED
        BY <4>1, <4>2
    <3>4. QED
      BY <3>1, <3>2, <3>3
  <2>3. QED
    BY <2>1, <2>2
<1>3. QED
  BY <1>1, <1>2, PTL DEF Spec

\* Every variable stays in its range, and a request is done when it has its
\* answer.
THEOREM ProxyTypeCorrect == Spec => []ProxyTypeOK
<1>1. ProxyInv => ProxyTypeOK
  BY DEF ProxyInv, Typed, Follows, ProxyTypeOK
<1>2. QED
  BY <1>1, ProxyInvariant, PTL

\* Every behaviour of the servers, their shared client and the handlers is
\* one of the Gateway: one answer for each request, and until the service
\* closes the whole one.
THEOREM PipelineImplementsGateway == Spec => ImplementsGateway
<1>1. Init => ServedBy!GInit
  <2> SUFFICES ASSUME Init PROVE ServedBy!GInit
    OBVIOUS
  <2>1. Closing = FALSE /\ Cause = [r \in Request |-> None]
    BY DEF Init, Closing, Cause
  <2>2. QED
    BY <2>1 DEF Init, ServedBy!GInit, Closing, Cause
<1>2. ProxyInv /\ [Next]_vars => [ServedBy!GNext]_(ServedBy!gvars)
  <2> SUFFICES ASSUME ProxyInv, [Next]_vars
               PROVE  ServedBy!GNext \/ UNCHANGED ServedBy!gvars
    OBVIOUS
  <2>1. CASE Next
    BY <2>1, TypedStep, RefinementStep
  <2>2. CASE UNCHANGED vars
    <3>1. UNCHANGED <<asked, answer, upstream, failed, spoilt>> /\ (Closing' <=> Closing)
      BY <2>2 DEF vars, serverVars, requestVars, Closing
    <3>2. QED
      BY <3>1, Unseen
  <2>3. QED
    BY <2>1, <2>2
<1>3. QED
  BY <1>1, <1>2, ProxyInvariant, PTL DEF Spec, ImplementsGateway, ServedBy!GSpec
=============================================================================
