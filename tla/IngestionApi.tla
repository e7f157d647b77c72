----------------------------- MODULE IngestionApi -----------------------------
(***************************************************************************)
(* The HTTP service in front of a case store: authorization of a request   *)
(* against the credentials a replica was started with, the handlers, the   *)
(* in-process counters and the middleware, on several replicas while the   *)
(* credentials are rotated by rolling restarts.                            *)
(*                                                                         *)
(* The store is the abstract CaseStore, whose actions the handler's steps  *)
(* contain and whose promises must hold here too.  A session is a worker   *)
(* thread of the replica Home[s].                                          *)
(***************************************************************************)
EXTENDS CaseStore, FiniteSets

CONSTANTS
  Replicas,
  Home,         \* the replica a session belongs to
  Rollout,      \* successive values of CIVICFLOW_API_KEYS, as tuples of credentials
  FirstToken,   \* the token the client starts with
  Strays,       \* tokens other callers try
  MaxTime,      \* instants are 0..MaxTime
  MaxRequests   \* bounds the requests of a behaviour

Routes   == {"ingest", "list"}
Statuses == {200, 201, 401, 403, 409, 422, 500}
Reasons  == {"missing", "invalid", "expired", "insufficient_scope"}
Series   == Reasons \cup {"cases", "replays", "conflicts"}
Scope    == [ingest |-> "cases:write", list |-> "cases:read"]

(* load_api_credentials rejects an empty value and repeated digests; the    *)
(* client starts with a credential that is configured.                      *)
ASSUME ApiAssumption ==
  /\ Home \in [Sessions -> Replicas]
  /\ MaxTime \in Nat /\ MaxRequests \in Nat
  /\ Rollout \in Seq(Range(Rollout)) /\ Len(Rollout) > 0
  /\ FirstToken # None /\ \E i \in DOMAIN Rollout[1] : Rollout[1][i].token = FirstToken
  /\ \A n \in DOMAIN Rollout :
       /\ Rollout[n] # <<>>
       /\ \A i, j \in DOMAIN Rollout[n] : Rollout[n][i].token = Rollout[n][j].token => i = j
       /\ \A i \in DOMAIN Rollout[n] :
            Rollout[n][i].scopes # {} /\ Rollout[n][i].scopes \subseteq {"cases:read", "cases:write"}

(* Processes of one deployment, and their worker threads. *)
ASSUME DeploymentAssumption == IsFiniteSet(Replicas) /\ IsFiniteSet(Sessions)

VARIABLES
  request,    \* of each session: the request it handles, or None
  counters,   \* ApiMetrics of each replica but for civicflow_http_requests_total
  requests,   \* civicflow_http_requests_total of each replica, by route and status
  config,     \* the credentials each replica runs with
  deployed,   \* the value of Rollout that a starting replica reads
  token,      \* the token the client uses
  now,
  budget,     \* requests still allowed by the bound
  granted,    \* history: the ingestions that were authorized, and when
  refused     \* history: the tokens that were refused, and why

apiVars == <<vars, request, counters, requests, config, deployed, token, now, budget,
             granted, refused>>

SessionsOf(r) == {s \in Sessions : Home[s] = r}

Tokens == UNION {{Rollout[n][i].token : i \in DOMAIN Rollout[n]} : n \in DOMAIN Rollout}

(* status is 0 until the response is decided; payload is None for a body the *)
(* contract rejects.                                                         *)
Requests == [token : Tokens \cup Strays \cup {None},
             route : Routes, key : Keys, payload : Payloads \cup {None}, status : Statuses \cup {0}]

(* None stands for the absence of a header, and of a request. *)
ASSUME NoTokenAssumption   == None \notin Tokens
ASSUME NoRequestAssumption == None \notin Requests

Undecided(s) == request[s] # None /\ request[s].status = 0 /\ phase[s] = "idle"

(* Mutant: a mismatch forgets the credential that matched before it. *)
MatchingLast(r, t) == {i \in {Len(config[r])} : config[r][i].token = t}

Matching(r, t) == {i \in DOMAIN config[r] : config[r][i].token = t}

(* Mutant: a credential is still good at the instant it expires. *)
InDateAtExpiry(c) == c.expires = None \/ now <= c.expires

InDate(c) == c.expires = None \/ now < c.expires

InScope(c, route) == Scope[route] \in c.scopes

(* authorize: what becomes of the request of session s. *)
Verdict(s) ==
  LET q     == request[s]
      creds == {config[Home[s]][i] : i \in Matching(Home[s], q.token)}
  IN  IF q.token = None THEN "missing"
      ELSE IF creds = {} THEN "invalid"
      ELSE IF \A c \in creds : ~InDate(c) THEN "expired"
      ELSE IF \A c \in creds : ~InScope(c, q.route) THEN "insufficient_scope"
      ELSE "granted"

Count(s, series, n)  == counters' = [counters EXCEPT ![Home[s]][series] = @ + n]
Decide(s, status)    == request' = [request EXCEPT ![s].status = status]

-----------------------------------------------------------------------------
ApiInit ==
  /\ Init
  /\ request = [s \in Sessions |-> None]
  /\ counters = [r \in Replicas |-> [x \in Series |-> 0]]
  /\ requests = [r \in Replicas |-> [x \in Routes \cup {"unhandled"} |-> [c \in Statuses |-> 0]]]
  /\ config = [r \in Replicas |-> Rollout[1]]
  /\ deployed = 1
  /\ token = FirstToken
  /\ now = 0
  /\ budget = MaxRequests
  /\ granted = {}
  /\ refused = {}

Send(s, t, route, k, p) ==
  /\ request[s] = None
  /\ budget > 0
  /\ budget' = budget - 1
  /\ request' = [request EXCEPT ![s] =
                   [token |-> t, route |-> route, key |-> k, payload |-> p, status |-> 0]]
  /\ UNCHANGED <<vars, counters, requests, config, deployed, token, now, granted, refused>>

(* authorize counts the failure, then raises 401 or 403. *)
RefuseToken(s) ==
  /\ Undecided(s)
  /\ Verdict(s) # "granted"
  /\ Count(s, Verdict(s), 1)
  /\ Decide(s, IF Verdict(s) = "insufficient_scope" THEN 403 ELSE 401)
  /\ refused' = refused \cup {[token |-> request[s].token, reason |-> Verdict(s)]}
  /\ UNCHANGED <<vars, requests, config, deployed, token, now, budget, granted>>

List(s) ==
  /\ Undecided(s)
  /\ Verdict(s) = "granted"
  /\ request[s].route = "list"
  /\ Decide(s, 200)
  /\ UNCHANGED <<vars, counters, requests, config, deployed, token, now, budget,
                 granted, refused>>

(* The body breaks a bound of IngestionRequest, or store.ingest raises      *)
(* ValidationError before it opens a transaction.                           *)
RejectBody(s) ==
  /\ Undecided(s)
  /\ Verdict(s) = "granted"
  /\ request[s].route = "ingest" /\ request[s].payload = None
  /\ Decide(s, 422)
  /\ UNCHANGED <<vars, counters, requests, config, deployed, token, now, budget,
                 granted, refused>>

Admit(s) ==
  /\ Undecided(s)
  /\ Verdict(s) = "granted"
  /\ request[s].route = "ingest" /\ request[s].payload # None
  /\ Call(s, request[s].key, request[s].payload)
  /\ granted' = granted \cup {[call |-> call'[s], token |-> request[s].token, at |-> now]}
  /\ UNCHANGED <<request, counters, requests, config, deployed, token, now, budget, refused>>

StoreStep(s) ==
  /\ Accept(s) \/ Replay(s) \/ Refuse(s) \/ Fail(s)
  /\ UNCHANGED <<request, counters, requests, config, deployed, token, now, budget,
                 granted, refused>>

(* Mutant: the else of observe_ingestion is missing. *)
ObserveReplaysTwice(s) ==
  CASE result[s].kind = "accepted" -> Count(s, "cases", Len(CaseOrder[result[s].batch]))
    [] result[s].kind = "replayed" ->
         counters' = [counters EXCEPT ![Home[s]]["replays"] = @ + 1,
                                      ![Home[s]]["cases"] = @ + Len(CaseOrder[result[s].batch])]
    [] result[s].kind = "conflict" -> Count(s, "conflicts", 1)
    [] result[s].kind = "error"    -> UNCHANGED counters

Observe(s) ==
  CASE result[s].kind = "accepted" -> Count(s, "cases", Len(CaseOrder[result[s].batch]))
    [] result[s].kind = "replayed" -> Count(s, "replays", 1)
    [] result[s].kind = "conflict" -> Count(s, "conflicts", 1)
    [] result[s].kind = "error"    -> UNCHANGED counters

(* Mutant: a conflict is not told from any other exception. *)
ReturnErrors(s) ==
  /\ phase[s] = "done" /\ request[s].status = 0
  /\ Observe(s)
  /\ Decide(s, CASE result[s].kind = "accepted" -> 201
                 [] result[s].kind = "replayed" -> 200
                 [] OTHER -> 500)
  /\ UNCHANGED <<vars, requests, config, deployed, token, now, budget, granted, refused>>

(* ingest() after store.ingest returned or raised. *)
Return(s) ==
  /\ phase[s] = "done" /\ request[s].status = 0
  /\ Observe(s)
  /\ Decide(s, CASE result[s].kind = "accepted" -> 201
                 [] result[s].kind = "replayed" -> 200
                 [] result[s].kind = "conflict" -> 409
                 [] result[s].kind = "error"    -> 500)
  /\ UNCHANGED <<vars, requests, config, deployed, token, now, budget, granted, refused>>

(* operational_context counts the response, and it is sent; it may be lost  *)
(* on its way.                                                              *)
Respond(s) ==
  /\ request[s] # None /\ request[s].status # 0
  /\ LET path == IF request[s].status = 500 THEN "unhandled" ELSE request[s].route
     IN  requests' = [requests EXCEPT ![Home[s]][path][request[s].status] = @ + 1]
  /\ IF phase[s] = "idle" THEN UNCHANGED vars ELSE Answer(s) \/ Vanish(s)
  /\ request' = [request EXCEPT ![s] = None]
  /\ UNCHANGED <<counters, config, deployed, token, now, budget, granted, refused>>

(* A replica crashes or is restarted: its requests end unanswered, its      *)
(* counters start from zero, its credentials are those deployed now.        *)
Restart(r) ==
  /\ config' = [config EXCEPT ![r] = Rollout[deployed]]
  /\ request' = [s \in Sessions |-> IF Home[s] = r THEN None ELSE request[s]]
  /\ phase' = [s \in Sessions |-> IF Home[s] = r THEN "idle" ELSE phase[s]]
  /\ call' = [s \in Sessions |-> IF Home[s] = r THEN None ELSE call[s]]
  /\ result' = [s \in Sessions |-> IF Home[s] = r THEN None ELSE result[s]]
  /\ counters' = [counters EXCEPT ![r] = [x \in Series |-> 0]]
  /\ requests' = [requests EXCEPT ![r] = [x \in DOMAIN @ |-> [c \in Statuses |-> 0]]]
  /\ UNCHANGED <<stored, receipts, answered, deployed, token, now, budget, granted, refused>>

(* "Configure overlapping old and new digests during rotation, verify       *)
(* clients have moved, then remove the retired digest."                     *)
Knows(credentials, t) == \E i \in DOMAIN credentials : credentials[i].token = t

Deploy ==
  /\ deployed < Len(Rollout)
  /\ \A r \in Replicas : config[r] = Rollout[deployed]
  /\ Knows(Rollout[deployed + 1], token)
  /\ deployed' = deployed + 1
  /\ UNCHANGED <<vars, request, counters, requests, config, token, now, budget,
                 granted, refused>>

SwitchToken(t) ==
  /\ t # token
  /\ Knows(Rollout[deployed], t) /\ \A r \in Replicas : Knows(config[r], t)
  /\ token' = t
  /\ UNCHANGED <<vars, request, counters, requests, config, deployed, now, budget,
                 granted, refused>>

Tick ==
  /\ now < MaxTime
  /\ now' = now + 1
  /\ UNCHANGED <<vars, request, counters, requests, config, deployed, token, budget,
                 granted, refused>>

ApiNext ==
  \/ \E s \in Sessions :
       \/ \E t \in {token, None} \cup Strays, route \in Routes, k \in Keys,
             p \in Payloads \cup {None} : Send(s, t, route, k, p)
       \/ RefuseToken(s) \/ List(s) \/ RejectBody(s) \/ Admit(s)
       \/ StoreStep(s) \/ Return(s) \/ Respond(s)
  \/ \E r \in Replicas : Restart(r)
  \/ Deploy
  \/ \E c \in DOMAIN Rollout[deployed] : SwitchToken(Rollout[deployed][c].token)
  \/ Tick

ApiSpec == ApiInit /\ [][ApiNext]_apiVars

-----------------------------------------------------------------------------
ApiTypeOK ==
  /\ TypeOK
  /\ request \in [Sessions -> Requests \cup {None}]
  /\ \A s \in Sessions : phase[s] # "idle" =>
       request[s] # None /\ call[s] = [key |-> request[s].key, payload |-> request[s].payload]
  /\ counters \in [Replicas -> [Series -> Nat]]
  /\ requests \in [Replicas -> [Routes \cup {"unhandled"} -> [Statuses -> Nat]]]
  /\ config \in [Replicas -> Range(Rollout)]
  /\ deployed \in DOMAIN Rollout
  /\ now \in 0..MaxTime /\ budget \in 0..MaxRequests
  /\ \A g \in granted : g.call \in Calls /\ g.at \in 0..MaxTime
  /\ \A x \in refused : x.reason \in Reasons

(* "New cases committed": the replicas' case counters together never exceed *)
(* the ledger, however often and wherever a batch is repeated, and whatever *)
(* replicas crash between the commit and the count.                         *)
NeverOvercounts ==
  SumFunction([r \in Replicas |-> counters[r]["cases"]])
    <= Cardinality({c \in CaseIds : stored[c] # None})

(* The series operators alert on agree: what the HTTP counters show of      *)
(* refused, repeated and conflicting requests is what the dedicated ones    *)
(* show, but for the responses that are on their way out.                   *)
Deciding(r, route, codes) ==
  Cardinality({s \in SessionsOf(r) : /\ request[s] # None
                                     /\ request[s].route = route
                                     /\ request[s].status \in codes})
AlertsAgree ==
  \A r \in Replicas :
    LET seen(route, codes) ==
          SumFunctionOnSet(requests[r][route], codes) + Deciding(r, route, codes)
    IN  /\ counters[r]["conflicts"] = seen("ingest", {409})
        /\ counters[r]["replays"] = seen("ingest", {200})
        /\ SumFunctionOnSet(counters[r], Reasons)
             = seen("ingest", {401, 403}) + seen("list", {401, 403})

(* Every stored batch was sent with a token that was configured, in date    *)
(* and scoped for writing when its request was authorized.                  *)
Credentials == UNION {Range(Rollout[n]) : n \in DOMAIN Rollout}
WritesAreAuthorized ==
  \A k \in Keys : receipts[k] # None =>
    \E g \in granted, c \in Credentials :
      /\ g.call.key = k /\ g.call.payload = receipts[k]
      /\ c.token = g.token /\ "cases:write" \in c.scopes
      /\ c.expires # None => g.at < c.expires

(* A client that follows the rotation runbook is never told that its token  *)
(* is unknown, although replicas restart one by one and at any time.        *)
RotationIsSeamless == \A x \in refused : x.reason = "invalid" => x.token \in Strays
=============================================================================
