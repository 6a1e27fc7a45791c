------------------------------ MODULE Requests ------------------------------
(***************************************************************************)
(* The way of a request through the layers of main.rs to its handler: the  *)
(* guards that keep no state (Guards), the rate limits (RateLimit), which  *)
(* here may refuse any request, API key authentication (security.rs),      *)
(* idempotency_middleware (idempotency.rs) and audit_logging_middleware.   *)
(*                                                                         *)
(* All requests carry the same Idempotency-Key, or none.  A response is    *)
(* known by the request whose execution produced it.                       *)
(***************************************************************************)
EXTENDS Guards, FiniteSetsExt

CONSTANTS Arrivals,    \* the requests, in the order in which they arrive
          Shapes,      \* the headers requests come with, by name
          Plain,       \* bound: the shape of requests that are not Varied
          Varied,      \* bound: those of any shape
          Callers,     \* identities: the owner of an API key, or address and agent
          MaxFaults    \* bound: failures of Redis and of the database, expiries

VARIABLES
  req,        \* where each request is, what it asks and what it was answered
  accepted,   \* the callers whose API key is accepted at present
  responses,  \* idempotency:v2:<user>:<route>:<key> in Redis
  lost,       \* history: the entries that an error or the end of the window cost
  audit,      \* audit_log: the entries of each request
  faults

vars == <<req, accepted, responses, lost, audit, faults>>

Routes == {"admin", "newsletter"}
None == "none"
Refused == "refused"             \* by a guard
Unauthorized == "unauthorized"   \* 401
Failed == "failed"               \* by the handler
Marks == {None, Refused, Unauthorized, Failed}

RequestIds == {Arrivals[i] : i \in DOMAIN Arrivals}

RequestsAssumption ==
  /\ GuardsAssumption
  /\ MaxFaults \in Nat /\ Marks \cap RequestIds = {}
  /\ Plain \in DOMAIN Shapes /\ \A s \in DOMAIN Shapes : Shapes[s] \in Headers

Outer == <<"https", "size", "uri">>

(* Deviation: the layers of a route as its source reads from top to bottom *)
Layers_SourceOrder ==
  [admin |-> Outer \o <<"idempotency", "content_type", "size", "whitelist", "api_key",
                        "rate_limit", "audit">>,
   newsletter |-> Outer \o <<"idempotency", "content_type", "size", "csrf", "rate_limit">>]

(* The layers from the outside in: the one added last to a router runs     *)
(* first, and those of the whole application before those of a route.      *)
Layers ==
  [admin |-> Outer \o <<"audit", "rate_limit", "api_key", "whitelist", "size", "content_type",
                        "idempotency">>,
   newsletter |-> Outer \o <<"rate_limit", "csrf", "size", "content_type", "idempotency">>]

Stateful == {"api_key", "idempotency"}

(* Does a layer that keeps no state refuse a request with these headers?   *)
Refuses(layer, h, limited) ==
  CASE layer = "https" -> HttpsRedirects(h)
    [] layer = "size" -> ~SizeAllows(h)
    [] layer = "uri" -> ~UriAllows(h)
    [] layer = "audit" -> ~PeerKnown(h)
    [] layer = "rate_limit" -> limited
    [] layer = "whitelist" -> ~WhitelistAllows(h)
    [] layer = "csrf" -> ~CsrfAllows(h)
    [] layer = "content_type" -> ~ContentTypeAllows(h)
    [] layer \in Stateful -> FALSE

(* Deviation: the entry is shared by all callers. *)
Scope_AnyCaller(c, rt) == <<"any", rt>>

(* extract_user_identity, idempotency_cache_key: caller and path *)
Scope(c, rt) == <<c, rt>>
Scopes == {Scope(c, rt) : c \in Callers, rt \in Routes}
ScopeOf(q) == Scope(req[q].caller, req[q].route)

NewRequest == [at |-> "new", caller |-> None, route |-> None, shape |-> Plain,
               layer |-> 1, known |-> FALSE, answer |-> None,
               late |-> FALSE]   \* history: looked up after a success was answered

Keyed(q) == Shapes[req[q].shape].keyed

Init ==
  /\ req = [q \in RequestIds |-> NewRequest]
  /\ accepted = Callers
  /\ responses = [s \in Scopes |-> None]
  /\ lost = {}
  /\ audit = [q \in RequestIds |-> {}]
  /\ faults = 0

Fault == faults < MaxFaults /\ faults' = faults + 1
-----------------------------------------------------------------------------
Passed(r, layer) == \E i \in 1..(r.layer - 1) : Layers[r.route][i] = layer

(* audit_logging_middleware: an operation is recorded whatever its result  *)
(* is, and a 401 before it as a failed authentication.                     *)
AuthFailure(answer) == {e \in {"auth_failure"} : answer = Unauthorized}
AuditEntries(answer) == AuthFailure(answer) \cup {"operation"}

(* The answer goes out through the layers the request has passed.  The     *)
(* tasks that insert the rows are not waited for.  What a refused request  *)
(* asked for is forgotten.                                                 *)
Finish(q, r, answer) ==
  /\ req' = [req EXCEPT ![q] = [(IF answer = Refused THEN NewRequest ELSE r) EXCEPT
                                 !.at = "done", !.answer = answer]]
  /\ audit' = [audit EXCEPT ![q] =
                 IF Passed(r, "audit") THEN AuditEntries(answer) ELSE {}]

Become(q, r) == req' = [req EXCEPT ![q] = r] /\ UNCHANGED audit

(* The first layer from r.layer on that keeps state or refuses the         *)
(* request, or the handler.                                                *)
NextStop(r, limited) ==
  LET layers == Layers[r.route]
      Stops(i) == layers[i] \in Stateful \/ Refuses(layers[i], Shapes[r.shape], limited)
  IN Min({i \in r.layer..Len(layers) : Stops(i)} \cup {Len(layers) + 1})

(* A request that has come to layer r.layer goes on to the next layer that *)
(* keeps state, or to the handler, unless a guard refuses it on the way.   *)
Inward(q, r, limited) ==
  LET layers == Layers[r.route]
      next == NextStop(r, limited)
      there == [r EXCEPT !.layer = next]
      handler == Len(layers) + 1
  IN
  \/ next = handler /\ Become(q, [there EXCEPT !.at = "run"])
  \/ next # handler /\ layers[next] \in Stateful /\ Become(q, [there EXCEPT !.at = "guard"])
  \/ next # handler /\ layers[next] \notin Stateful /\ Finish(q, there, Refused)

Arrive(i) ==
  LET q == Arrivals[i]
      shapes == IF q \in Varied THEN DOMAIN Shapes ELSE {Plain} IN
  /\ req[q].at = "new" /\ \A j \in 1..(i - 1) : req[Arrivals[j]].at # "new"
  /\ \E c \in Callers, rt \in Routes, s \in shapes, limited \in BOOLEAN :
       Inward(q, [NewRequest EXCEPT !.caller = c, !.route = rt, !.shape = s], limited)
  /\ UNCHANGED <<accepted, responses, lost, faults>>

AtLayer(q, l) == req[q].at = "guard" /\ Layers[req[q].route][req[q].layer] = l

(* api_key_middleware with verify_async: the static keys, then the table;  *)
(* an error of the database refuses.                                       *)
Authenticate(q) ==
  LET known == Shapes[req[q].shape].api_key /\ req[q].caller \in accepted IN
  /\ AtLayer(q, "api_key")
  /\ \/ known /\ Inward(q, [req[q] EXCEPT !.known = TRUE, !.layer = @ + 1], FALSE) /\ UNCHANGED faults
     \/ ~known /\ Finish(q, req[q], Unauthorized) /\ UNCHANGED faults
     \/ Fault /\ Finish(q, req[q], Unauthorized)
  /\ UNCHANGED <<accepted, responses, lost>>

Answered(s) ==
  \E p \in RequestIds : req[p].at = "done" /\ req[p].answer = p /\ Keyed(p) /\ ScopeOf(p) = s

(* A stored response is replayed.  Otherwise the request runs, also when   *)
(* Redis cannot be read: nothing is reserved.                              *)
Lookup(q) ==
  LET s == ScopeOf(q)
      run == Inward(q, [req[q] EXCEPT !.late = Answered(s) /\ Keyed(q), !.layer = @ + 1], FALSE)
  IN
  /\ AtLayer(q, "idempotency")
  /\ \/ (Keyed(q) => responses[s] = None) /\ run /\ UNCHANGED <<lost, faults>>
     \/ /\ Keyed(q) /\ responses[s] # None
        /\ Finish(q, req[q], responses[s]) /\ UNCHANGED <<lost, faults>>
     \/ Keyed(q) /\ Fault /\ run /\ lost' = lost \cup {s}
  /\ UNCHANGED <<accepted, responses>>

(* The handler succeeds (2xx) or not. *)
Run(q) ==
  /\ req[q].at = "run"
  /\ \E answer \in {q, Failed} :
       req' = [req EXCEPT ![q] = [@ EXCEPT !.at = "store", !.answer = answer]]
  /\ UNCHANGED <<accepted, responses, lost, audit, faults>>

(* Deviation: a failure clears the entry. *)
Store_FailureClears(q) ==
  /\ req[q].at = "store"
  /\ responses' = IF Keyed(q) THEN [responses EXCEPT ![ScopeOf(q)] =
                                          IF req[q].answer = q THEN q ELSE None]
                  ELSE responses
  /\ Finish(q, req[q], req[q].answer)
  /\ UNCHANGED <<accepted, lost, faults>>

(* A success is stored for the window; a write that fails is ignored. *)
Store(q) ==
  LET s == ScopeOf(q)
      stored == Keyed(q) /\ req[q].answer = q IN
  /\ req[q].at = "store"
  /\ \/ stored /\ responses' = [responses EXCEPT ![s] = q] /\ UNCHANGED <<lost, faults>>
     \/ /\ stored /\ Fault
        /\ lost' = lost \cup {s} /\ UNCHANGED responses
     \/ ~stored /\ UNCHANGED <<responses, lost, faults>>
  /\ Finish(q, req[q], req[q].answer)
  /\ UNCHANGED accepted

(* idempotency_window_secs is over. *)
ExpireResponse(s) ==
  /\ responses[s] # None /\ Fault
  /\ responses' = [responses EXCEPT ![s] = None]
  /\ lost' = lost \cup {s}
  /\ UNCHANGED <<req, accepted, audit>>

(* The overlap window of a rotated key ends (ApiKeys). *)
KeyEnds(c) ==
  /\ accepted' = accepted \ {c} /\ accepted' # accepted
  /\ UNCHANGED <<req, responses, lost, audit, faults>>

Step(q) == Authenticate(q) \/ Lookup(q) \/ Run(q) \/ Store(q)

Next ==
  \/ \E i \in DOMAIN Arrivals : Arrive(i)
  \/ \E q \in RequestIds : Step(q)
  \/ \E s \in Scopes : ExpireResponse(s)
  \/ \E c \in Callers : KeyEnds(c)

Spec == Init /\ [][Next]_vars
-----------------------------------------------------------------------------
TypeOK ==
  /\ req \in [RequestIds -> [at : {"new", "guard", "run", "store", "done"},
                             caller : Callers \cup {None}, route : Routes \cup {None},
                             shape : DOMAIN Shapes, layer : 1..11, known : BOOLEAN, late : BOOLEAN,
                             answer : RequestIds \cup Marks]]
  /\ accepted \subseteq Callers
  /\ responses \in [Scopes -> RequestIds \cup {None}]
  /\ lost \subseteq Scopes
  /\ audit \in [RequestIds -> SUBSET {"operation", "auth_failure"}]
  /\ faults \in 0..MaxFaults

(* idempotency_middleware: once a success has been answered, a request     *)
(* with the same key never runs again, whatever the overlapping requests   *)
(* did that had found nothing stored, unless an error of Redis or the end  *)
(* of the window has cost the entry.                                       *)
ExecutedOnce ==
  \A q \in RequestIds : req[q].late => ScopeOf(q) \in lost

(* Whatever the middleware answers from its store comes from a successful  *)
(* request of the same caller to the same route.                           *)
AnswerBelongs ==
  \A q \in RequestIds : req[q].at = "done" /\ req[q].answer \in RequestIds \ {q} =>
    LET p == req[q].answer IN
    /\ req[p].caller = req[q].caller /\ req[p].route = req[q].route
    /\ Keyed(p) /\ Keyed(q)

(* Nobody gets more than a refusal, from the handler or from the stored    *)
(* responses, unless every guard of the route lets this very request pass; *)
(* on the admin routes the API key is checked each time, and whatever      *)
(* reaches that check is in the audit log, a failed authentication as      *)
(* such.                                                                   *)
GuardsPassed ==
  \A q \in RequestIds : req[q].at = "done" /\ req[q].answer # Refused =>
    LET layers == Layers[req[q].route]
        failed == req[q].answer = Unauthorized IN
    /\ failed \/ \A i \in DOMAIN layers : ~Refuses(layers[i], Shapes[req[q].shape], FALSE)
    /\ req[q].route = "admin" =>
         /\ failed \/ req[q].known
         /\ audit[q] = {"operation"} \cup (IF failed THEN {"auth_failure"} ELSE {})
=============================================================================
