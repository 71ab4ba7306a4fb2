---------------------------- MODULE ProxyPipeline ----------------------------
(***************************************************************************)
(* GET and POST /api/v1/* (proxy.py) and the servers that serve them       *)
(* (serve_all in __main__.py, the lifespan in app.py).  There is a server  *)
(* for each bound address; every server runs the lifespan of the one app   *)
(* they share, so the module-level client and registry of proxy.py are     *)
(* configured once per server, and closed by the first one that has no     *)
(* request left.                                                           *)
(*                                                                         *)
(* A step is what runs between two awaits.  Clients of httpx are numbered  *)
(* as they are made.  What an enrichment computes is left to its own       *)
(* module: here it is applied, or raises.                                  *)
(***************************************************************************)
EXTENDS Integers, Sequences

CONSTANTS Server,   \* the uvicorn servers of the main app
          Request,  \* the requests to /api/v1
          Method,   \* the methods they use
          Path,     \* the paths they ask for
          MayRaise, \* the enrichments that may raise
          None      \* no value

ASSUME ProxyAssumption ==
  /\ Server # {} /\ "GET" \in Method
  /\ Path \subseteq {"current", "current/detail", "almanac/planets", "almanac"}
  /\ None \notin Int \cup BOOLEAN \cup [method : Method, path : Path]

VARIABLES server,   \* server[s]: what the server is doing
          stopping, \* the signal to shut down has come
          client,   \* the number of the HTTP client in _client, 0 for None
          made,     \* the number of clients made so far
          open,     \* the clients that have not been closed
          registry, \* _enrichment_registry is not None
          pc,       \* pc[r]: where the handler of r is suspended
          asked,    \* asked[r]: method and path
          at,       \* at[r]: the server r came to
          via,      \* via[r]: the client that r is forwarded by
          todo,     \* todo[r]: the enrichments still to run
          upstream, \* upstream[r]: what the upstream API said
          failed,   \* failed[r]: the enrichments that raised
          applied,  \* applied[r]: the enrichments that did not
          spoilt,   \* spoilt[r]: converting or writing the JSON of r raised
          answer    \* answer[r]: the response

serverVars == <<server, stopping, client, made, open, registry>>
requestVars == <<pc, asked, at, via, todo, upstream, failed, applied,
                 spoilt, answer>>
vars == <<serverVars, requestVars>>

Enrichment ==
  {"barometer", "wind", "lightning", "text", "uv", "scene", "planets"}

\* What main() registers for an endpoint, in order.
Registered(endpoint) ==
  CASE endpoint = "current" ->
         <<"barometer", "wind", "lightning", "text", "uv", "scene">>
    [] endpoint = "almanac/planets" -> <<"planets">>
    [] OTHER -> <<>>

\* The endpoint key of a path is its first segment.
FirstSegment(p) == IF p = "current/detail" THEN "current"
                   ELSE IF p = "almanac/planets" THEN "almanac" ELSE p

\* The whole path first, then its first segment.
FnsFor(p) ==
  IF Registered(p) # <<>> THEN Registered(p) ELSE Registered(FirstSegment(p))

ServedBy == INSTANCE Gateway
  WITH Fns <- [p \in Path |-> FnsFor(p)],
       closing <- \E s \in Server : server[s] \in {"closing", "down"},
       cause <- [r \in Request |->
                   IF answer[r] = None THEN None
                   ELSE [upstream |-> upstream[r], failed |-> failed[r],
                         spoilt |-> spoilt[r]]]

Outcome == ServedBy!Outcome

\* What the handler responds.
Response == [status : Outcome \cup {"500", "502", "503", "504"},
             applied : Seq(Enrichment)]

ASSUME ResponseAssumption ==
  /\ None \notin Outcome /\ None \notin Response
  /\ None \notin [upstream : Outcome \cup {None}, failed : SUBSET MayRaise,
                  spoilt : BOOLEAN]

(***************************************************************************)
(* A server is "off", "up", "draining" (it takes no more requests),        *)
(* "closing" (in _client.aclose()) or "down".  A request has been          *)
(* "accepted", waits for its "body", for "upstream" or for an enrichment   *)
(* ("enriching"), or is "done".                                            *)
(***************************************************************************)
Init ==
  /\ server = [s \in Server |-> "off"]
  /\ stopping = FALSE
  /\ client = 0
  /\ made = 0
  /\ open = {}
  /\ registry = TRUE
  /\ pc = [r \in Request |-> "none"]
  /\ asked = [r \in Request |-> None]
  /\ at = [r \in Request |-> None]
  /\ via = [r \in Request |-> 0]
  /\ todo = [r \in Request |-> <<>>]
  /\ upstream = [r \in Request |-> None]
  /\ failed = [r \in Request |-> {}]
  /\ applied = [r \in Request |-> <<>>]
  /\ spoilt = [r \in Request |-> FALSE]
  /\ answer = [r \in Request |-> None]

InFlight == {"accepted", "body", "upstream", "enriching"}
-----------------------------------------------------------------------------
(* The servers.                                                            *)

\* The lifespan's configure() makes a client and drops the one before, which
\* stays open; then the server listens.
StartServer(s) ==
  /\ server[s] = "off"
  /\ ~stopping
  /\ server' = [server EXCEPT ![s] = "up"]
  /\ made' = made + 1
  /\ client' = made'
  /\ open' = open \cup {made'}
  /\ UNCHANGED <<stopping, registry, requestVars>>

\* The signal comes when all servers are up; each sees should_exit at its
\* next tick.
Shutdown ==
  /\ \A s \in Server : server[s] = "up"
  /\ ~stopping
  /\ stopping' = TRUE
  /\ UNCHANGED <<server, client, made, open, registry, requestVars>>

Drain(s) ==
  /\ stopping
  /\ server[s] = "up"
  /\ server' = [server EXCEPT ![s] = "draining"]
  /\ UNCHANGED <<stopping, client, made, open, registry, requestVars>>

Drained(s) == \A r \in Request : at[r] = s => pc[r] \notin InFlight

\* close() of a server without requests; aclose() closes at once, and ends
\* when the connections have.
BeginClose(s) ==
  /\ server[s] = "draining"
  /\ Drained(s)
  /\ IF client = 0
     THEN server' = [server EXCEPT ![s] = "down"] /\ registry' = FALSE
     ELSE server' = [server EXCEPT ![s] = "closing"] /\ UNCHANGED registry
  /\ open' = open \ {client}
  /\ UNCHANGED <<stopping, client, made, requestVars>>

EndClose(s) ==
  /\ server[s] = "closing"
  /\ server' = [server EXCEPT ![s] = "down"]
  /\ client' = 0
  /\ registry' = FALSE
  /\ UNCHANGED <<stopping, made, open, requestVars>>
-----------------------------------------------------------------------------
(* A request.                                                              *)

\* Faulty variant of Respond: a branch of the handler returns nothing.
ReturnNothing(r, response) ==
  /\ pc' = [pc EXCEPT ![r] = "done"]
  /\ UNCHANGED answer

Respond(r, response) ==
  /\ pc' = [pc EXCEPT ![r] = "done"]
  /\ answer' = [answer EXCEPT ![r] = response]

Accept(r, s) ==
  /\ pc[r] = "none"
  /\ server[s] = "up"
  /\ pc' = [pc EXCEPT ![r] = "accepted"]
  /\ at' = [at EXCEPT ![r] = s]
  /\ \E m \in Method, p \in Path :
       asked' = [asked EXCEPT ![r] = [method |-> m, path |-> p]]
  /\ UNCHANGED <<serverVars, via, todo, upstream, failed, applied, spoilt, answer>>

\* _client.request(): whatever else than ConnectError and TimeoutException is
\* raised ends in the handler of the app, a closed or missing client included.
CallUpstream(r) ==
  /\ IF client \in open
     THEN /\ pc' = [pc EXCEPT ![r] = "upstream"]
          /\ via' = [via EXCEPT ![r] = client]
          /\ UNCHANGED answer
     ELSE Respond(r, ServedBy!Failure("500")) /\ UNCHANGED via
  /\ UNCHANGED <<serverVars, asked, at, todo, upstream, failed, applied, spoilt>>

\* proxy_api() up to its first await.
Begin(r) ==
  /\ pc[r] = "accepted"
  /\ \/ /\ client = 0
        /\ Respond(r, ServedBy!Failure("503"))
        /\ UNCHANGED <<serverVars, asked, at, via, todo, upstream, failed, applied, spoilt>>
     \/ client # 0 /\ asked[r].method = "GET" /\ CallUpstream(r)
     \/ /\ client # 0 /\ asked[r].method # "GET"
        /\ pc' = [pc EXCEPT ![r] = "body"]
        /\ UNCHANGED <<serverVars, asked, at, via, todo, upstream, failed, applied, spoilt,
                       answer>>

\* The client looked at in Begin may be gone when the body has come.
BodyArrives(r) == pc[r] = "body" /\ CallUpstream(r)

\* What has raised in the conversion or in JSONResponse, which refuses NaN, is
\* caught: the upstream body goes out as it came, whatever has run.
PassRaw(r) ==
  /\ Respond(r, ServedBy!Passed(upstream'[r], <<>>))
  /\ spoilt' = [spoilt EXCEPT ![r] = TRUE]

\* Faulty variant of Finish: the functions of the endpoint whose turn has not
\* come are lost when one of them raises, and so is not done.
FinishAfterFailure(r, rest, done) ==
  IF rest = <<>> \/ Len(rest) + Len(done) < Len(FnsFor(asked[r].path))
  THEN Respond(r, ServedBy!Passed(upstream'[r], done)) /\ UNCHANGED spoilt
  ELSE pc' = [pc EXCEPT ![r] = "enriching"] /\ UNCHANGED <<answer, spoilt>>

\* The response goes out after the last enrichment.
Finish(r, rest, done) ==
  IF rest = <<>>
  THEN \/ Respond(r, ServedBy!Passed(upstream'[r], done)) /\ UNCHANGED spoilt
       \/ upstream'[r] = "object" /\ PassRaw(r)
  ELSE pc' = [pc EXCEPT ![r] = "enriching"] /\ UNCHANGED <<answer, spoilt>>

\* _run_enrichments() has something to do.
Enrichable(r, o) == registry /\ asked[r].method = "GET" /\ o = "object"

\* The answer of the upstream API, or what there is instead of one.  If the
\* conversion raises no enrichment runs; of an answer that is no object the
\* same goes out either way.
Received(r) ==
  \/ \E o \in Outcome :
       /\ upstream' = [upstream EXCEPT ![r] = o]
       /\ LET fns == IF Enrichable(r, o) THEN FnsFor(asked[r].path) ELSE <<>> IN
          /\ todo' = [todo EXCEPT ![r] = fns]
          /\ IF o \in ServedBy!Silence
             THEN /\ Respond(r, ServedBy!Whole("GET", asked[r].path, o, {}, FALSE))
                  /\ UNCHANGED spoilt
             ELSE Finish(r, fns, <<>>)
  \/ /\ upstream' = [upstream EXCEPT ![r] = "object"]
     /\ PassRaw(r)
     /\ UNCHANGED todo

\* Faulty variant of UpstreamAnswers: a connection that has been closed is
\* waited for.
UpstreamAnswersIfOpen(r) ==
  /\ pc[r] = "upstream"
  /\ via[r] \in open
  /\ Received(r)
  /\ UNCHANGED <<serverVars, asked, at, via, failed, applied>>

\* Over a connection that has been closed nothing comes.
UpstreamAnswers(r) ==
  /\ pc[r] = "upstream"
  /\ \/ via[r] \in open /\ Received(r)
     \/ /\ via[r] \notin open
        /\ Respond(r, ServedBy!Failure("500"))
        /\ UNCHANGED <<upstream, todo, spoilt>>
  /\ UNCHANGED <<serverVars, asked, at, via, failed, applied>>

\* One enrichment runs; the list was copied, so close() does not cut it short.
Enrich(r) ==
  /\ pc[r] = "enriching"
  /\ todo' = [todo EXCEPT ![r] = Tail(@)]
  /\ \/ /\ applied' = [applied EXCEPT ![r] = Append(@, Head(todo[r]))]
        /\ UNCHANGED failed
     \/ /\ Head(todo[r]) \in MayRaise
        /\ failed' = [failed EXCEPT ![r] = @ \cup {Head(todo[r])}]
        /\ UNCHANGED applied
  /\ UNCHANGED upstream
  /\ Finish(r, todo'[r], applied'[r])
  /\ UNCHANGED <<serverVars, asked, at, via>>
-----------------------------------------------------------------------------
ServerStep(s) == StartServer(s) \/ Drain(s) \/ BeginClose(s) \/ EndClose(s)

HandlerStep(r) == Begin(r) \/ UpstreamAnswers(r) \/ Enrich(r)

Next ==
  \/ Shutdown
  \/ \E s \in Server : ServerStep(s) \/ \E r \in Request : Accept(r, s)
  \/ \E r \in Request : HandlerStep(r) \/ BodyArrives(r)

Spec == Init /\ [][Next]_vars

(***************************************************************************)
(* The event loop runs what is ready, and httpx.Timeout bounds every wait  *)
(* for upstream.  Nobody need send a request or its body, or shut down.    *)
(***************************************************************************)
FairSpec ==
  /\ Spec
  /\ \A s \in Server : WF_vars(Drain(s)) /\ WF_vars(BeginClose(s)) /\ WF_vars(EndClose(s))
  /\ \A r \in Request : WF_vars(HandlerStep(r))
-----------------------------------------------------------------------------
(* What must hold.                                                         *)

\* Every variable stays in its range, and a request is done exactly when it has
\* its answer.
ProxyTypeOK ==
  /\ server \in [Server -> {"off", "up", "draining", "closing", "down"}]
  /\ {stopping, registry} \subseteq BOOLEAN
  /\ client \in 0..made
  /\ open \subseteq 1..made
  /\ pc \in [Request -> InFlight \cup {"none", "done"}]
  /\ \A r \in Request :
       /\ pc[r] # "none" => asked[r] \in [method : Method, path : Path]
       /\ at[r] \in Server \cup {None}
       /\ via[r] \in 0..made
       /\ upstream[r] \in Outcome \cup {None}
       /\ failed[r] \subseteq MayRaise
       /\ spoilt[r] \in BOOLEAN
       /\ pc[r] = "done" <=> answer[r] # None

\* Whatever other requests, failing enrichments and starting servers do, each
\* request gets one answer, and until the service closes the whole one, or the
\* upstream body itself if converting or writing the JSON raised (proxy_api,
\* _run_enrichments, configure, close).
ImplementsGateway == ServedBy!GSpec

\* Every GET is answered, and the service ends after the signal unless a
\* client keeps its body back (proxy_api, close, serve_all).
NothingHangs ==
  /\ \A r \in Request :
       (pc[r] = "accepted" /\ asked[r].method = "GET") ~> pc[r] = "done"
  /\ stopping ~> ((\A s \in Server : server[s] = "down")
                    \/ \E r \in Request : pc[r] = "body")
-----------------------------------------------------------------------------
(* What the source says of itself and the code does not do.                *)

\* The shared client is closed "at app shutdown" (proxy.close): as long as a
\* server has a request to serve, the client it is forwarded by is open.
ClosedAfterDrained == \A r \in Request : pc[r] \in InFlight => client \in open
=============================================================================
