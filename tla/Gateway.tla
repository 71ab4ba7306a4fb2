------------------------------- MODULE Gateway -------------------------------
(***************************************************************************)
(* What the service promises a client of /api/v1, with no server, shared   *)
(* HTTP client or registry in sight: at most one answer per request, and   *)
(* until the service closes the whole answer, which is what the upstream   *)
(* API said, changed by every enrichment of the endpoint that did not      *)
(* fail, in order.  Other requests, their failures and the start of        *)
(* further servers change nothing about it.  Once the service closes, an   *)
(* answer may be an error or lack all of its enrichments.  It also lacks   *)
(* them all, never some of them, if what upstream said cannot be converted *)
(* or what came out cannot be written as JSON.                             *)
(***************************************************************************)
EXTENDS KeptPart

CONSTANTS Request,   \* the requests
          Method,    \* "GET" and others
          Path,      \* the paths below /api/v1/
          Fns,       \* Fns[p]: the enrichments of GET p, in order
          None       \* no value

VARIABLES closing,  \* the service has begun to close
          asked,    \* asked[r]: method and path of r, or None
          cause,    \* cause[r]: what the answer to r was made of, or None
          answer    \* answer[r]: the answer to r, or None

gvars == <<closing, asked, cause, answer>>

(***************************************************************************)
(* What the upstream API says: nothing, in three ways; a JSON object; a    *)
(* JSON answer with an error status; or anything else.                     *)
(***************************************************************************)
Silence == {"unreachable", "timeout", "broken"}
Outcome == Silence \cup {"object", "error", "other"}

Failure(status) == [status |-> status, applied |-> <<>>]
Passed(o, applied) == [status |-> o, applied |-> applied]

\* The answer to a request for p, when upstream says o and the enrichments in
\* failed raise; spoilt if there is no JSON to be had of it.
Whole(m, p, o, failed, spoilt) ==
  CASE o = "unreachable" -> Failure("502")
    [] o = "timeout" -> Failure("504")
    [] o = "broken" -> Failure("500")
    [] o = "object" /\ m = "GET" /\ ~spoilt ->
         Passed(o, Without(Fns[p], failed))
    [] OTHER -> Passed(o, <<>>)

GInit ==
  /\ closing = FALSE
  /\ asked = [r \in Request |-> None]
  /\ cause = [r \in Request |-> None]
  /\ answer = [r \in Request |-> None]

Ask(r) ==
  /\ asked[r] = None
  /\ \E m \in Method, p \in Path :
       asked' = [asked EXCEPT ![r] = [method |-> m, path |-> p]]
  /\ UNCHANGED <<closing, cause, answer>>

Answer(r) ==
  /\ asked[r] # None
  /\ answer[r] = None
  /\ cause'[r] # None
  /\ cause' = [cause EXCEPT ![r] = cause'[r]]
  /\ LET c == cause'[r] IN
     \E a \in (IF c.upstream = None THEN {}
               ELSE {Whole(asked[r].method, asked[r].path, c.upstream, c.failed,
                           c.spoilt)}) \cup
              (IF closing THEN {Failure("500"), Failure("503"), Passed(c.upstream, <<>>)}
                          ELSE {}) :
       answer' = [answer EXCEPT ![r] = a]
  /\ UNCHANGED <<closing, asked>>

Close == closing' = TRUE /\ UNCHANGED <<asked, cause, answer>>

GNext == Close \/ \E r \in Request : Ask(r) \/ Answer(r)

GSpec == GInit /\ [][GNext]_gvars
=============================================================================
