------------------------- MODULE IngestionApiProofs -------------------------
(***************************************************************************)
(* The promises of the HTTP service, for any replicas, worker threads,     *)
(* credentials, rollouts and restarts.                                     *)
(***************************************************************************)
EXTENDS IngestionApi, CaseStoreProofs, FiniteSums

(* The history variables and the clock of the service. *)
ClientKnown ==
  /\ token # None
  /\ Knows(Rollout[deployed], token)
  /\ \A r \in Replicas : Knows(config[r], token)

(* A request that is not a stray one carries a token its replica knows. *)
RequestsKnown ==
  \A s \in Sessions :
    request[s] # None /\ request[s].token \notin Strays \cup {None}
      => Knows(config[Home[s]], request[s].token)

(* Some request granted before put the call into the store. *)
Authorized(c) ==
  \E g \in granted, d \in Credentials :
    /\ g.call = c
    /\ d.token = g.token /\ "cases:write" \in d.scopes
    /\ d.expires # None => g.at < d.expires

(* Every call in the store and every receipt comes from such a request. *)
CallsAuthorized    == \A s \in Sessions : phase[s] # "idle" => Authorized(call[s])
ReceiptsAuthorized ==
  \A k \in Keys : receipts[k] # None => Authorized([key |-> k, payload |-> receipts[k]])

(* The inductive invariants. *)
StoreInv    == IInv /\ ApiTypeOK
RotationInv == ClientKnown /\ RequestsKnown /\ RotationIsSeamless
AccessInv   == CallsAuthorized /\ ReceiptsAuthorized

-----------------------------------------------------------------------------
(* A step of the service is a step of the store, or restarts a replica. *)
LEMMA StoreSimulation ==
  ASSUME ApiTypeOK, [ApiNext]_apiVars
  PROVE  [Next]_vars \/ \E r \in Replicas : Restart(r)
<1>1. ASSUME NEW s \in Sessions, NEW t, NEW route, NEW k, NEW p, Send(s, t, route, k, p)
      PROVE  UNCHANGED vars
  BY <1>1 DEF Send
<1>2. ASSUME NEW s \in Sessions, RefuseToken(s) \/ List(s) \/ RejectBody(s) \/ Return(s)
      PROVE  UNCHANGED vars
  BY <1>2 DEF RefuseToken, List, RejectBody, Return
<1>3. ASSUME NEW s \in Sessions, Admit(s) PROVE Step(s)
  <2>1. request[s].key \in Keys /\ request[s].payload \in Payloads
    BY <1>3 DEF Admit, Undecided, ApiTypeOK, Requests
  <2> QED BY <1>3, <2>1 DEF Admit, Step
<1>4. ASSUME NEW s \in Sessions, StoreStep(s) PROVE Step(s)
  BY <1>4 DEF StoreStep, Step
<1>5. ASSUME NEW s \in Sessions, Respond(s) PROVE Step(s) \/ UNCHANGED vars
  BY <1>5 DEF Respond, Step
<1>6. CASE Deploy \/ Tick \/ \E t : SwitchToken(t)
  BY <1>6 DEF Deploy, Tick, SwitchToken
<1>7. CASE UNCHANGED apiVars
  BY <1>7 DEF apiVars
<1> QED BY <1>1, <1>2, <1>3, <1>4, <1>5, <1>6, <1>7 DEF ApiNext, Next

(* A restart ends calls but takes nothing out of the store. *)
LEMMA RestartKeepsStore ==
  ASSUME IInv, NEW r \in Replicas, Restart(r)
  PROVE  IInv'
<1>1. /\ UNCHANGED <<stored, receipts, answered>>
      /\ \A s \in Sessions : \/ phase'[s] = "idle" /\ call'[s] = None /\ result'[s] = None
                             \/ phase'[s] = phase[s] /\ call'[s] = call[s] /\ result'[s] = result[s]
      /\ phase' \in [Sessions -> {"idle", "open", "done"}]
      /\ call' \in [Sessions -> Calls \cup {None}]
      /\ result' \in [Sessions -> Results \cup {None}]
  BY DEF Restart, IInv, TypeOK
<1>2. TypeOK'
  BY <1>1 DEF IInv, TypeOK
<1>3. LedgerMatchesReceipts'
  BY <1>1 DEF IInv, LedgerMatchesReceipts
<1>4. ResultsHold'
  <2> SUFFICES ASSUME NEW s \in Sessions, phase'[s] = "done"
               PROVE  /\ result'[s].kind \in {"accepted", "replayed"} => Stored(call[s], result[s].batch)'
                      /\ result'[s].kind = "conflict" => Refused(call[s])'
    BY DEF ResultsHold
  <2>1. phase[s] = "done" /\ call'[s] = call[s] /\ result'[s] = result[s]
    BY <1>1
  <2> QED BY <1>1, <2>1 DEF IInv, ResultsHold, Stored, Refused
<1>5. AckedIsDurable' /\ ConflictIsFinal'
  BY <1>1 DEF IInv, AckedIsDurable, ConflictIsFinal, Stored, Refused
<1> QED BY <1>2, <1>3, <1>4, <1>5 DEF IInv

(* The store's invariant survives every step of the service. *)
LEMMA StoreInvStep ==
  ASSUME IInv, ApiTypeOK, [ApiNext]_apiVars
  PROVE  IInv'
<1>1. CASE [Next]_vars
  BY <1>1, NextType, LedgerStep, ResultsStep, AnsweredStep DEF IInv
<1> QED BY <1>1, StoreSimulation, RestartKeepsStore

-----------------------------------------------------------------------------
(* The parts of the type invariant that the steps have in common. *)
RequestsTyped == request \in [Sessions -> Requests \cup {None}]
CallsMatch    ==
  \A s \in Sessions : phase[s] # "idle" =>
    request[s] # None /\ call[s] = [key |-> request[s].key, payload |-> request[s].payload]
CountsTyped ==
  /\ counters \in [Replicas -> [Series -> Nat]]
  /\ requests \in [Replicas -> [Routes \cup {"unhandled"} -> [Statuses -> Nat]]]
SettingsTyped ==
  /\ config \in [Replicas -> Range(Rollout)] /\ deployed \in DOMAIN Rollout
  /\ now \in 0..MaxTime /\ budget \in 0..MaxRequests
HistoryTyped ==
  /\ \A g \in granted : g.call \in Calls /\ g.at \in 0..MaxTime
  /\ \A x \in refused : x.reason \in Reasons

LEMMA TypeParts ==
  ApiTypeOK <=> TypeOK /\ RequestsTyped /\ CallsMatch /\ CountsTyped /\ SettingsTyped /\ HistoryTyped
BY DEF ApiTypeOK, RequestsTyped, CallsMatch, CountsTyped, SettingsTyped, HistoryTyped

(* The values of Rollout are the tuples at 1..Len(Rollout). *)
LEMMA RolloutTyped ==
  /\ Len(Rollout) \in Nat /\ DOMAIN Rollout = 1..Len(Rollout) /\ 1 \in DOMAIN Rollout
  /\ \A n \in DOMAIN Rollout : Rollout[n] \in Range(Rollout)
<1>1. Rollout \in Seq(Range(Rollout)) /\ Len(Rollout) > 0
  BY ApiAssumption
<1> QED BY <1>1 DEF Range

(* A credential of a replica is one of the rollout's. *)
LEMMA ConfiguredIsCredential ==
  ASSUME SettingsTyped, NEW r \in Replicas, NEW i \in DOMAIN config[r]
  PROVE  config[r][i] \in Credentials
<1>1. config[r] \in Range(Rollout)
  BY DEF SettingsTyped
<1>2. PICK n \in DOMAIN Rollout : config[r] = Rollout[n]
  BY <1>1 DEF Range
<1>3. Range(Rollout[n]) = {Rollout[n][x] : x \in DOMAIN Rollout[n]}
  BY DEF Range
<1> QED BY <1>2, <1>3 DEF Credentials

(* What Verdict can say. *)
LEMMA VerdictTyped ==
  ASSUME NEW s \in Sessions
  PROVE  Verdict(s) \in Reasons \cup {"granted"}
BY DEF Verdict, Reasons

(* Responses are given to known requests. *)
LEMMA DecideTyped ==
  ASSUME RequestsTyped, CallsMatch, NEW s \in Sessions, request[s] # None,
         NEW status \in Statuses, Decide(s, status), UNCHANGED <<phase, call>>
  PROVE  RequestsTyped' /\ CallsMatch'
<1>1. request[s] \in Requests
  BY DEF RequestsTyped
<1>2. [request[s] EXCEPT !.status = status] \in Requests
  BY <1>1 DEF Requests
<1>3. request' = [request EXCEPT ![s] = [request[s] EXCEPT !.status = status]]
  BY DEF Decide
<1>4. RequestsTyped'
  BY <1>2, <1>3 DEF RequestsTyped
<1>5. request'[s] # None
  BY <1>2, <1>3, NoRequestAssumption DEF RequestsTyped
<1>6. request'[s].key = request[s].key /\ request'[s].payload = request[s].payload
  BY <1>1, <1>3 DEF RequestsTyped, Requests
<1>7. \A t \in Sessions \ {s} : request'[t] = request[t]
  BY <1>3 DEF RequestsTyped
<1>8. CallsMatch'
  BY <1>5, <1>6, <1>7 DEF CallsMatch
<1> QED BY <1>4, <1>8

(* A series of a replica counts on. *)
LEMMA CountTyped ==
  ASSUME CountsTyped, NEW s \in Sessions, NEW x \in Series, NEW n \in Nat, Count(s, x, n)
  PROVE  counters' \in [Replicas -> [Series -> Nat]]
<1>1. Home[s] \in Replicas
  BY ApiAssumption
<1>2. counters[Home[s]][x] + n \in Nat
  BY <1>1 DEF CountsTyped
<1> QED BY <1>1, <1>2 DEF CountsTyped, Count

(* What ingest() counts of an outcome. *)
LEMMA ObserveTyped ==
  ASSUME IInv, CountsTyped, NEW s \in Sessions, phase[s] = "done", Observe(s)
  PROVE  counters' \in [Replicas -> [Series -> Nat]]
<1>1. result[s] \in Results /\ result[s].kind \in Kinds /\ result[s].batch \in Payloads \cup {None}
  BY DEF IInv, TypeOK, Results
<1>2. CASE result[s].kind = "accepted"
  <2>1. result[s].batch # None
    BY <1>2 DEF IInv, ResultsHold, Stored
  <2>2. Len(CaseOrder[result[s].batch]) \in Nat
    BY <1>1, <2>1, OrderAssumption
  <2>3. Count(s, "cases", Len(CaseOrder[result[s].batch]))
    BY <1>2 DEF Observe
  <2> QED BY <2>2, <2>3, CountTyped DEF Series
<1>3. CASE result[s].kind = "replayed"
  BY <1>3, CountTyped DEF Observe, Series
<1>4. CASE result[s].kind = "conflict"
  BY <1>4, CountTyped DEF Observe, Series
<1>5. CASE result[s].kind = "error"
  BY <1>5 DEF Observe, CountsTyped
<1> QED BY <1>1, <1>2, <1>3, <1>4, <1>5 DEF Kinds

(* A request that ends leaves nothing behind. *)
LEMMA EndTyped ==
  ASSUME TypeOK, RequestsTyped, CallsMatch, NEW S \in SUBSET Sessions,
         request' = [s \in Sessions |-> IF s \in S THEN None ELSE request[s]],
         \A s \in S : phase'[s] = "idle",
         \A s \in Sessions \ S : phase'[s] = phase[s] /\ call'[s] = call[s]
  PROVE  RequestsTyped' /\ CallsMatch'
BY DEF RequestsTyped, CallsMatch

(* Every step of a worker thread keeps the types of the service. *)
LEMMA WorkerTyped ==
  ASSUME StoreInv, ClientKnown, NEW s \in Sessions, TypeOK',
         \/ \E t \in {token, None} \cup Strays, route \in Routes, k \in Keys,
               p \in Payloads \cup {None} : Send(s, t, route, k, p)
         \/ RefuseToken(s) \/ List(s) \/ RejectBody(s) \/ Admit(s)
         \/ StoreStep(s) \/ Return(s) \/ Respond(s)
  PROVE  RequestsTyped' /\ CallsMatch' /\ CountsTyped' /\ SettingsTyped' /\ HistoryTyped'
<1>t. /\ IInv /\ TypeOK /\ RequestsTyped /\ CallsMatch /\ CountsTyped /\ SettingsTyped /\ HistoryTyped
      /\ Home[s] \in Replicas
  BY TypeParts, ApiAssumption DEF StoreInv
<1>v. UNCHANGED vars => UNCHANGED <<phase, call>>
  BY DEF vars
<1>1. ASSUME NEW t \in {token, None} \cup Strays, NEW route \in Routes, NEW k \in Keys,
             NEW p \in Payloads \cup {None}, Send(s, t, route, k, p)
      PROVE  RequestsTyped' /\ CallsMatch' /\ CountsTyped' /\ SettingsTyped' /\ HistoryTyped'
  <2> DEFINE q == [token |-> t, route |-> route, key |-> k, payload |-> p, status |-> 0]
  <2>1. token \in Tokens
    BY <1>t DEF ClientKnown, Knows, SettingsTyped, Tokens
  <2>2. q \in Requests
    BY <2>1 DEF Requests
  <2>3. request' = [request EXCEPT ![s] = q] /\ request[s] = None /\ budget' = budget - 1 /\ budget > 0
    BY <1>1 DEF Send
  <2>4. UNCHANGED <<phase, call, counters, requests, config, deployed, now, granted, refused>>
    BY <1>1, <1>v DEF Send
  <2> HIDE DEF q
  <2>5. RequestsTyped'
    BY <1>t, <2>2, <2>3 DEF RequestsTyped
  <2>6. phase[s] = "idle"
    BY <1>t, <2>3 DEF CallsMatch
  <2>7. CallsMatch'
    BY <1>t, <2>3, <2>4, <2>6 DEF CallsMatch, RequestsTyped
  <2>8. budget' \in 0..MaxRequests
    BY <1>t, <2>3, ApiAssumption DEF SettingsTyped
  <2>9. CountsTyped' /\ SettingsTyped' /\ HistoryTyped'
    BY <1>t, <2>4, <2>8 DEF CountsTyped, SettingsTyped, HistoryTyped
  <2> QED BY <2>5, <2>7, <2>9
<1>2. ASSUME RefuseToken(s)
      PROVE  RequestsTyped' /\ CallsMatch' /\ CountsTyped' /\ SettingsTyped' /\ HistoryTyped'
  <2>1. request[s] # None /\ Verdict(s) \in Reasons
    BY <1>2, VerdictTyped DEF RefuseToken, Undecided
  <2>2. PICK status \in Statuses : Decide(s, status)
    BY <1>2 DEF RefuseToken, Statuses
  <2>3. UNCHANGED <<phase, call, requests, config, deployed, now, budget, granted>>
    BY <1>2, <1>v DEF RefuseToken
  <2>4. RequestsTyped' /\ CallsMatch'
    BY <1>t, <2>1, <2>2, <2>3, DecideTyped
  <2>5. counters' \in [Replicas -> [Series -> Nat]]
    <3>1. Count(s, Verdict(s), 1) /\ Verdict(s) \in Series
      BY <1>2, <2>1 DEF RefuseToken, Series
    <3> QED BY <1>t, <3>1, CountTyped
  <2>6. \A x \in refused' : x.reason \in Reasons
    BY <1>t, <1>2, <2>1 DEF RefuseToken, HistoryTyped
  <2>7. CountsTyped' /\ SettingsTyped' /\ HistoryTyped'
    BY <1>t, <2>3, <2>5, <2>6 DEF CountsTyped, SettingsTyped, HistoryTyped
  <2> QED BY <2>4, <2>7
<1>3. ASSUME List(s) \/ RejectBody(s)
      PROVE  RequestsTyped' /\ CallsMatch' /\ CountsTyped' /\ SettingsTyped' /\ HistoryTyped'
  <2>1. request[s] # None
    BY <1>3 DEF List, RejectBody, Undecided
  <2>2. PICK status \in Statuses : Decide(s, status)
    BY <1>3 DEF List, RejectBody, Statuses
  <2>3. UNCHANGED <<phase, call, counters, requests, config, deployed, now, budget, granted, refused>>
    BY <1>3, <1>v DEF List, RejectBody
  <2>4. RequestsTyped' /\ CallsMatch'
    BY <1>t, <2>1, <2>2, <2>3, DecideTyped
  <2>5. CountsTyped' /\ SettingsTyped' /\ HistoryTyped'
    BY <1>t, <2>3 DEF CountsTyped, SettingsTyped, HistoryTyped
  <2> QED BY <2>4, <2>5
<1>4. ASSUME Admit(s)
      PROVE  RequestsTyped' /\ CallsMatch' /\ CountsTyped' /\ SettingsTyped' /\ HistoryTyped'
  <2>1. /\ request[s] # None /\ request[s] \in Requests /\ request[s].payload # None
        /\ request[s].key \in Keys /\ request[s].payload \in Payloads
    BY <1>t, <1>4 DEF Admit, Undecided, RequestsTyped, Requests
  <2>2. /\ phase' = [phase EXCEPT ![s] = "open"]
        /\ call' = [call EXCEPT ![s] = [key |-> request[s].key, payload |-> request[s].payload]]
    BY <1>4 DEF Admit, Call
  <2>3. UNCHANGED <<request, counters, requests, config, deployed, now, budget, refused>>
    BY <1>4 DEF Admit
  <2>4. CallsMatch'
    BY <1>t, <2>1, <2>2, <2>3 DEF CallsMatch, TypeOK
  <2>5. call'[s] \in Calls
    BY <1>t, <2>1, <2>2 DEF TypeOK, Calls
  <2>6. \A g \in granted' : g.call \in Calls /\ g.at \in 0..MaxTime
    BY <1>t, <1>4, <2>5 DEF Admit, HistoryTyped, SettingsTyped
  <2> QED BY <1>t, <2>3, <2>4, <2>6 DEF RequestsTyped, CountsTyped, SettingsTyped, HistoryTyped
<1>5. ASSUME StoreStep(s)
      PROVE  RequestsTyped' /\ CallsMatch' /\ CountsTyped' /\ SettingsTyped' /\ HistoryTyped'
  <2>1. /\ phase[s] = "open" /\ call' = call /\ phase' = [phase EXCEPT ![s] = "done"]
        /\ UNCHANGED <<request, counters, requests, config, deployed, now, budget, granted, refused>>
    BY <1>5 DEF StoreStep, Accept, Replay, Refuse, Fail, Finish
  <2>2. CallsMatch'
    BY <1>t, <2>1 DEF CallsMatch, TypeOK
  <2> QED BY <1>t, <2>1, <2>2 DEF RequestsTyped, CountsTyped, SettingsTyped, HistoryTyped
<1>6. ASSUME Return(s)
      PROVE  RequestsTyped' /\ CallsMatch' /\ CountsTyped' /\ SettingsTyped' /\ HistoryTyped'
  <2>1. request[s] # None /\ phase[s] = "done" /\ result[s].kind \in Kinds
    BY <1>t, <1>6 DEF Return, CallsMatch, TypeOK, Results
  <2>2. PICK status \in Statuses : Decide(s, status)
    <3>1. CASE result[s].kind = "accepted"
      BY <1>6, <3>1 DEF Return, Statuses
    <3>2. CASE result[s].kind = "replayed"
      BY <1>6, <3>2 DEF Return, Statuses
    <3>3. CASE result[s].kind = "conflict"
      BY <1>6, <3>3 DEF Return, Statuses
    <3>4. CASE result[s].kind = "error"
      BY <1>6, <3>4 DEF Return, Statuses
    <3> QED BY <2>1, <3>1, <3>2, <3>3, <3>4 DEF Kinds
  <2>3. UNCHANGED <<phase, call, requests, config, deployed, now, budget, granted, refused>>
    BY <1>6, <1>v DEF Return
  <2>4. RequestsTyped' /\ CallsMatch'
    BY <1>t, <2>1, <2>2, <2>3, DecideTyped
  <2>5. counters' \in [Replicas -> [Series -> Nat]]
    BY <1>t, <1>6, ObserveTyped DEF Return
  <2>6. CountsTyped' /\ SettingsTyped' /\ HistoryTyped'
    BY <1>t, <2>3, <2>5 DEF CountsTyped, SettingsTyped, HistoryTyped
  <2> QED BY <2>4, <2>6
<1>7. ASSUME Respond(s)
      PROVE  RequestsTyped' /\ CallsMatch' /\ CountsTyped' /\ SettingsTyped' /\ HistoryTyped'
  <2>1. /\ request[s] \in Requests /\ request[s].status \in Statuses /\ request[s].route \in Routes
    BY <1>t, <1>7 DEF Respond, RequestsTyped, Requests
  <2>2. PICK path \in Routes \cup {"unhandled"} :
          requests' = [requests EXCEPT ![Home[s]][path][request[s].status] = @ + 1]
    BY <1>7, <2>1 DEF Respond
  <2>3. requests' \in [Replicas -> [Routes \cup {"unhandled"} -> [Statuses -> Nat]]]
    <3>1. requests[Home[s]][path][request[s].status] + 1 \in Nat
      BY <1>t, <2>1 DEF CountsTyped
    <3>2. [requests[Home[s]] EXCEPT ![path][request[s].status] = @ + 1]
            \in [Routes \cup {"unhandled"} -> [Statuses -> Nat]]
      BY <1>t, <2>1, <3>1 DEF CountsTyped
    <3> QED BY <1>t, <2>2, <3>2 DEF CountsTyped
  <2>4. /\ phase'[s] = "idle" /\ \A t \in Sessions \ {s} : phase'[t] = phase[t] /\ call'[t] = call[t]
    <3>1. CASE phase[s] = "idle"
      BY <1>7, <1>v, <3>1 DEF Respond
    <3>2. CASE phase[s] # "idle"
      BY <1>t, <1>7, <3>2 DEF Respond, Answer, Vanish, Hangup, TypeOK
    <3> QED BY <3>1, <3>2
  <2>5. request' = [t \in Sessions |-> IF t \in {s} THEN None ELSE request[t]]
    BY <1>t, <1>7 DEF Respond, RequestsTyped
  <2>6. RequestsTyped' /\ CallsMatch'
    <3>1. {s} \in SUBSET Sessions
      OBVIOUS
    <3>2. \A t \in {s} : phase'[t] = "idle"
      BY <2>4
    <3>3. \A t \in Sessions \ {s} : phase'[t] = phase[t] /\ call'[t] = call[t]
      BY <2>4
    <3> QED BY <1>t, <2>5, <3>1, <3>2, <3>3, EndTyped
  <2>7. UNCHANGED <<counters, config, deployed, now, budget, granted, refused>>
    BY <1>7 DEF Respond
  <2>8. CountsTyped' /\ SettingsTyped' /\ HistoryTyped'
    BY <1>t, <2>3, <2>7 DEF CountsTyped, SettingsTyped, HistoryTyped
  <2> QED BY <2>6, <2>8
<1> QED BY <1>1, <1>2, <1>3, <1>4, <1>5, <1>6, <1>7

(* A restart, a deployment, another token and the clock keep the types. *)
LEMMA SettingsStep ==
  ASSUME StoreInv, TypeOK', (\E r \in Replicas : Restart(r)) \/ Deploy \/ Tick \/ \E t : SwitchToken(t)
  PROVE  RequestsTyped' /\ CallsMatch' /\ CountsTyped' /\ SettingsTyped' /\ HistoryTyped'
<1>t. TypeOK /\ RequestsTyped /\ CallsMatch /\ CountsTyped /\ SettingsTyped /\ HistoryTyped
  BY TypeParts DEF StoreInv
<1>1. ASSUME NEW r \in Replicas, Restart(r)
      PROVE  RequestsTyped' /\ CallsMatch' /\ CountsTyped' /\ SettingsTyped' /\ HistoryTyped'
  <2>1. RequestsTyped' /\ CallsMatch'
    BY <1>t, <1>1 DEF Restart, RequestsTyped, CallsMatch
  <2>2. config' \in [Replicas -> Range(Rollout)]
    <3>1. Rollout[deployed] \in Range(Rollout)
      BY <1>t, RolloutTyped DEF SettingsTyped
    <3> QED BY <1>t, <1>1, <3>1 DEF Restart, SettingsTyped
  <2>3. counters' \in [Replicas -> [Series -> Nat]]
    BY <1>t, <1>1 DEF Restart, CountsTyped
  <2>4. requests' \in [Replicas -> [Routes \cup {"unhandled"} -> [Statuses -> Nat]]]
    BY <1>t, <1>1 DEF Restart, CountsTyped
  <2> QED BY <1>t, <1>1, <2>1, <2>2, <2>3, <2>4 DEF Restart, CountsTyped, SettingsTyped, HistoryTyped
<1>2. ASSUME Deploy \/ Tick \/ \E t : SwitchToken(t)
      PROVE  RequestsTyped' /\ CallsMatch' /\ CountsTyped' /\ SettingsTyped' /\ HistoryTyped'
  <2>1. UNCHANGED <<phase, call, request, counters, requests, config, budget, granted, refused>>
    BY <1>2 DEF Deploy, Tick, SwitchToken, vars
  <2>2. deployed' \in DOMAIN Rollout /\ now' \in 0..MaxTime
    BY <1>t, <1>2, RolloutTyped, ApiAssumption DEF Deploy, Tick, SwitchToken, SettingsTyped
  <2> QED BY <1>t, <2>1, <2>2 DEF RequestsTyped, CallsMatch, CountsTyped, SettingsTyped, HistoryTyped
<1> QED BY <1>1, <1>2

(* Every step keeps the types, given what the client knows. *)
LEMMA ApiTypeStep ==
  ASSUME StoreInv, ClientKnown, [ApiNext]_apiVars
  PROVE  StoreInv'
<1>1. IInv' /\ TypeOK'
  BY StoreInvStep DEF StoreInv, IInv
<1>2. CASE UNCHANGED apiVars
  <2>1. RequestsTyped /\ CallsMatch /\ CountsTyped /\ SettingsTyped /\ HistoryTyped
    BY TypeParts DEF StoreInv
  <2>2. RequestsTyped' /\ CallsMatch' /\ CountsTyped' /\ SettingsTyped' /\ HistoryTyped'
    BY <1>2, <2>1 DEF apiVars, vars, RequestsTyped, CallsMatch, CountsTyped, SettingsTyped, HistoryTyped
  <2> QED BY <1>1, <2>2 DEF StoreInv, ApiTypeOK, RequestsTyped, CallsMatch, CountsTyped, SettingsTyped,
             HistoryTyped
<1>3. CASE ApiNext
  <2>1. RequestsTyped' /\ CallsMatch' /\ CountsTyped' /\ SettingsTyped' /\ HistoryTyped'
    BY <1>1, <1>3, WorkerTyped, SettingsStep DEF ApiNext
  <2> QED BY <1>1, <2>1 DEF StoreInv, ApiTypeOK, RequestsTyped, CallsMatch, CountsTyped, SettingsTyped,
             HistoryTyped
<1> QED BY <1>2, <1>3

-----------------------------------------------------------------------------
(* A thread's step leaves the settings alone. *)
LEMMA WorkerSettings ==
  ASSUME NEW s \in Sessions,
         \/ \E t, route, k, p : Send(s, t, route, k, p)
         \/ RefuseToken(s) \/ List(s) \/ RejectBody(s) \/ Admit(s)
         \/ StoreStep(s) \/ Return(s) \/ Respond(s)
  PROVE  UNCHANGED <<config, deployed, token, now>>
BY DEF Send, RefuseToken, List, RejectBody, Admit, StoreStep, Return, Respond

(* The client always uses a token that the deployed value and every running *)
(* replica know: the runbook's condition holds when it is needed.           *)
LEMMA ClientStep ==
  ASSUME StoreInv, ClientKnown, [ApiNext]_apiVars
  PROVE  ClientKnown'
<1>1. CASE UNCHANGED <<config, deployed, token>>
  BY <1>1 DEF ClientKnown, Knows
<1>2. ASSUME NEW r \in Replicas, Restart(r) PROVE ClientKnown'
  <2>1. UNCHANGED <<deployed, token>> /\ config' = [config EXCEPT ![r] = Rollout[deployed]]
    BY <1>2 DEF Restart
  <2>2. \A x \in Replicas : config'[x] = config[x] \/ config'[x] = Rollout[deployed]
    BY <2>1, TypeParts DEF StoreInv, SettingsTyped
  <2> QED BY <2>1, <2>2 DEF ClientKnown, Knows
<1>3. ASSUME Deploy PROVE ClientKnown'
  BY <1>3 DEF Deploy, ClientKnown, Knows
<1>4. ASSUME NEW c \in DOMAIN Rollout[deployed], SwitchToken(Rollout[deployed][c].token)
      PROVE  ClientKnown'
  <2>1. deployed \in DOMAIN Rollout
    BY TypeParts DEF StoreInv, SettingsTyped
  <2>2. Rollout[deployed][c].token # None
    BY <2>1, NoTokenAssumption DEF Tokens
  <2> QED BY <1>4, <2>2 DEF SwitchToken, ClientKnown, Knows
<1>5. CASE Tick \/ UNCHANGED apiVars
  BY <1>1, <1>5 DEF Tick, apiVars
<1> QED BY <1>1, <1>2, <1>3, <1>4, <1>5, WorkerSettings DEF ApiNext
(* The request of a session is new, or it is the one it was. *)
Carried(s) ==
  \/ /\ request'[s].token \in {token, None} \cup Strays
     /\ UNCHANGED config
  \/ /\ request[s] # None /\ request'[s].token = request[s].token
     /\ config'[Home[s]] = config[Home[s]]

(* What a step of the service may do to the request of a session. *)
LEMMA RequestStep ==
  ASSUME StoreInv, [ApiNext]_apiVars, NEW s \in Sessions, request'[s] # None
  PROVE  Carried(s)
<1>t. request \in [Sessions -> Requests \cup {None}] /\ config \in [Replicas -> Range(Rollout)]
      /\ Home[s] \in Replicas
  BY TypeParts, ApiAssumption DEF StoreInv, RequestsTyped, SettingsTyped
<1>1. CASE UNCHANGED request /\ UNCHANGED config
  BY <1>1 DEF Carried
<1>2. ASSUME NEW x \in Sessions, NEW t \in {token, None} \cup Strays, NEW route, NEW k, NEW p,
             Send(x, t, route, k, p)
      PROVE  Carried(s)
  <2>1. UNCHANGED config /\ request' = [request EXCEPT ![x] =
           [token |-> t, route |-> route, key |-> k, payload |-> p, status |-> 0]]
    BY <1>2 DEF Send
  <2>2. CASE x = s
    <3>1. request'[s].token = t
      BY <1>t, <2>1, <2>2
    <3> QED BY <2>1, <3>1 DEF Carried
  <2>3. CASE x # s
    BY <1>t, <2>1, <2>3 DEF Carried
  <2> QED BY <2>2, <2>3
<1>3. ASSUME NEW x \in Sessions, NEW status, Decide(x, status), UNCHANGED config,
             request[x] # None
      PROVE  Carried(s)
  <2>1. request[x] \in Requests
    BY <1>t, <1>3
  <2>2. [request[x] EXCEPT !.status = status].token = request[x].token
    BY <2>1 DEF Requests
  <2> QED BY <1>t, <1>3, <2>2 DEF Carried, Decide
<1>4. ASSUME NEW x \in Sessions, RefuseToken(x) \/ List(x) \/ RejectBody(x)
      PROVE  Carried(s)
  <2>1. request[x] # None /\ UNCHANGED config
    BY <1>4 DEF RefuseToken, List, RejectBody, Undecided
  <2>2. \E status : Decide(x, status)
    BY <1>4 DEF RefuseToken, List, RejectBody
  <2> QED BY <1>3, <2>1, <2>2
<1>5. ASSUME NEW x \in Sessions, Return(x)
      PROVE  Carried(s)
  <2>1. request[x] # None
    BY <1>5, TypeParts DEF Return, StoreInv, CallsMatch
  <2>2. UNCHANGED config /\ \E status : Decide(x, status)
    BY <1>5 DEF Return
  <2> QED BY <1>3, <2>1, <2>2
<1>6. ASSUME NEW x \in Sessions, Admit(x) \/ StoreStep(x)
      PROVE  Carried(s)
  <2>1. UNCHANGED request /\ UNCHANGED config
    BY <1>6 DEF Admit, StoreStep
  <2> QED BY <1>1, <2>1
<1>7. ASSUME NEW x \in Sessions, Respond(x)
      PROVE  Carried(s)
  BY <1>t, <1>7 DEF Carried, Respond
<1>8. ASSUME NEW r \in Replicas, Restart(r)
      PROVE  Carried(s)
  BY <1>t, <1>8 DEF Carried, Restart
<1>9. CASE Deploy \/ Tick \/ (\E t : SwitchToken(t)) \/ UNCHANGED apiVars
  BY <1>1, <1>9 DEF Deploy, Tick, SwitchToken, apiVars
<1> QED BY <1>2, <1>4, <1>5, <1>6, <1>7, <1>8, <1>9 DEF ApiNext

(* A request that is not a stray one is known to its replica, until the     *)
(* replica restarts and forgets the request.                                *)
LEMMA KnownStep ==
  ASSUME StoreInv, ClientKnown, RequestsKnown, [ApiNext]_apiVars
  PROVE  RequestsKnown'
<1> SUFFICES ASSUME NEW s \in Sessions, request'[s] # None,
                    request'[s].token \notin Strays \cup {None}
             PROVE  Knows(config'[Home[s]], request'[s].token)
  BY DEF RequestsKnown, Knows
<1>1. Home[s] \in Replicas
  BY ApiAssumption
<1>2. CASE request'[s].token = token /\ UNCHANGED config
  BY <1>1, <1>2 DEF ClientKnown
<1>3. CASE /\ request[s] # None /\ request'[s].token = request[s].token
           /\ config'[Home[s]] = config[Home[s]]
  BY <1>3 DEF RequestsKnown
<1> QED BY <1>2, <1>3, RequestStep DEF Carried

(* So only strays are refused as unknown. *)
LEMMA SeamlessStep ==
  ASSUME RequestsKnown, RotationIsSeamless, [ApiNext]_apiVars
  PROVE  RotationIsSeamless'
<1>1. ASSUME NEW s \in Sessions, RefuseToken(s) PROVE RotationIsSeamless'
  <2>1. request[s] # None /\ refused' = refused \cup {[token |-> request[s].token, reason |-> Verdict(s)]}
    BY <1>1 DEF RefuseToken, Undecided
  <2>2. Verdict(s) = "invalid" => request[s].token \in Strays
    <3> SUFFICES ASSUME Verdict(s) = "invalid", request[s].token \notin Strays
                 PROVE  FALSE
      OBVIOUS
    <3>1. request[s].token # None
      BY DEF Verdict
    <3>2. PICK i \in DOMAIN config[Home[s]] : config[Home[s]][i].token = request[s].token
      BY <2>1, <3>1 DEF RequestsKnown, Knows
    <3>3. config[Home[s]][i] \in {config[Home[s]][j] : j \in Matching(Home[s], request[s].token)}
      BY <3>2 DEF Matching
    <3> QED BY <3>1, <3>3 DEF Verdict
  <2> QED BY <2>1, <2>2 DEF RotationIsSeamless
<1>2. CASE UNCHANGED refused
  BY <1>2 DEF RotationIsSeamless
<1>3. (\A s \in Sessions : ~RefuseToken(s)) => UNCHANGED refused
  BY DEF ApiNext, apiVars, Send, List, RejectBody, Admit, StoreStep, Return, Respond, Restart,
         Deploy, SwitchToken, Tick
<1> QED BY <1>1, <1>2, <1>3

-----------------------------------------------------------------------------
(* What was granted stays granted. *)
LEMMA GrantedGrows ==
  ASSUME [ApiNext]_apiVars
  PROVE  granted \subseteq granted'
BY DEF ApiNext, apiVars, Send, RefuseToken, List, RejectBody, Admit, StoreStep, Return, Respond,
       Restart, Deploy, SwitchToken, Tick

(* A request that passes authorize() for ingest carries the token of a      *)
(* credential that is in date and scoped for writing.                       *)
LEMMA AdmitAuthorizes ==
  ASSUME StoreInv, NEW s \in Sessions, Admit(s)
  PROVE  Authorized(call[s])'
<1>1. SettingsTyped /\ Home[s] \in Replicas
  BY TypeParts, ApiAssumption DEF StoreInv
<1>2. Verdict(s) = "granted" /\ request[s].route = "ingest"
      /\ granted' = granted \cup {[call |-> call'[s], token |-> request[s].token, at |-> now]}
  BY DEF Admit
<1>3. PICK i \in Matching(Home[s], request[s].token) : InDate(config[Home[s]][i])
  BY <1>2 DEF Verdict
<1>4. \A j \in Matching(Home[s], request[s].token) :
        config[Home[s]][j].token = request[s].token
  BY DEF Matching
<1>5. PICK j \in Matching(Home[s], request[s].token) : InScope(config[Home[s]][j], "ingest")
  BY <1>2 DEF Verdict
<1>6. i = j
  <2>1. PICK n \in DOMAIN Rollout : config[Home[s]] = Rollout[n]
    BY <1>1 DEF SettingsTyped, Range
  <2> QED BY <1>3, <1>4, <1>5, <2>1, ApiAssumption DEF Matching
<1>7. config[Home[s]][i] \in Credentials
  BY <1>1, <1>3, ConfiguredIsCredential DEF Matching
<1>8. "cases:write" \in config[Home[s]][i].scopes
  BY <1>5, <1>6 DEF InScope, Scope
<1> DEFINE g == [call |-> call'[s], token |-> request[s].token, at |-> now]
           d == config[Home[s]][i]
<1>9. g \in granted' /\ g.call = call'[s] /\ g.token = request[s].token /\ g.at = now
  BY <1>2
<1>10. d.token = g.token /\ d \in Credentials /\ "cases:write" \in d.scopes
  BY <1>3, <1>4, <1>7, <1>8, <1>9
<1>11. d.expires # None => g.at < d.expires
  BY <1>3, <1>9 DEF InDate
<1> HIDE DEF g, d
<1>12. \E x \in granted', y \in Credentials :
         /\ x.call = call'[s]
         /\ y.token = x.token /\ "cases:write" \in y.scopes
         /\ y.expires # None => x.at < y.expires
  BY <1>9, <1>10, <1>11
<1> QED BY <1>12 DEF Authorized

(* A session's call is the one it had, or was admitted in this step. *)
LEMMA CallStep ==
  ASSUME StoreInv, [ApiNext]_apiVars, NEW s \in Sessions, phase'[s] # "idle"
  PROVE  Admit(s) \/ (phase[s] # "idle" /\ call'[s] = call[s])
<1>t. phase \in [Sessions -> {"idle", "open", "done"}] /\ call \in [Sessions -> Calls \cup {None}]
  BY DEF StoreInv, IInv, TypeOK
<1>1. CASE UNCHANGED <<phase, call>>
  BY <1>1
<1>2. ASSUME NEW x \in Sessions, Admit(x) PROVE Admit(s) \/ (phase[s] # "idle" /\ call'[s] = call[s])
  BY <1>t, <1>2 DEF Admit, Call
<1>3. ASSUME NEW x \in Sessions, StoreStep(x) PROVE phase[s] # "idle" /\ call'[s] = call[s]
  BY <1>t, <1>3 DEF StoreStep, Accept, Replay, Refuse, Fail, Finish
<1>4. ASSUME NEW x \in Sessions, Respond(x) PROVE phase[s] # "idle" /\ call'[s] = call[s]
  <2>1. UNCHANGED vars \/ Answer(x) \/ Vanish(x)
    BY <1>4 DEF Respond
  <2> QED BY <1>t, <2>1 DEF vars, Answer, Vanish, Hangup
<1>5. ASSUME NEW r \in Replicas, Restart(r) PROVE phase[s] # "idle" /\ call'[s] = call[s]
  BY <1>t, <1>5 DEF Restart
<1>6. ASSUME \/ \E x \in Sessions : \/ \E t, route, k, p : Send(x, t, route, k, p)
                                   \/ RefuseToken(x) \/ List(x) \/ RejectBody(x) \/ Return(x)
             \/ Deploy \/ Tick \/ (\E t : SwitchToken(t)) \/ UNCHANGED apiVars
      PROVE  UNCHANGED <<phase, call>>
  BY <1>6 DEF Send, RefuseToken, List, RejectBody, Return, Deploy, Tick, SwitchToken, apiVars, vars
<1> QED BY <1>1, <1>2, <1>3, <1>4, <1>5, <1>6 DEF ApiNext

(* A receipt is the one there was, or a session's call put it there. *)
LEMMA ReceiptStep ==
  ASSUME StoreInv, [ApiNext]_apiVars, NEW k \in Keys, receipts'[k] # None, receipts[k] = None
  PROVE  \E s \in Sessions : phase[s] # "idle" /\ call[s] = [key |-> k, payload |-> receipts'[k]]
<1>t. TypeOK
  BY DEF StoreInv, IInv
<1>1. [Next]_vars
  BY StoreSimulation DEF StoreInv, Restart
<1>2. PICK s \in Sessions : Step(s)
  BY <1>1 DEF Next, vars
<1>3. Accept(s)
  BY <1>2 DEF Step, Call, Replay, Refuse, Fail, Answer, Vanish, Hangup
<1>4. /\ phase[s] = "open" /\ call[s] \in Calls
      /\ receipts' = [receipts EXCEPT ![call[s].key] = call[s].payload]
  BY <1>t, <1>3 DEF Accept, StoreBatch, TypeOK
<1>5. call[s].key = k /\ receipts'[k] = call[s].payload
  BY <1>t, <1>4 DEF TypeOK, Calls
<1>6. call[s] = [key |-> k, payload |-> receipts'[k]]
  BY <1>4, <1>5 DEF Calls
<1> QED BY <1>4, <1>6

(* What is in the store, or on its way there, was authorized. *)
LEMMA AccessStep ==
  ASSUME StoreInv, AccessInv, [ApiNext]_apiVars
  PROVE  AccessInv'
<1>1. ASSUME NEW s \in Sessions, phase'[s] # "idle" PROVE Authorized(call[s])'
  <2>1. CASE Admit(s)
    BY <2>1, AdmitAuthorizes
  <2>2. CASE phase[s] # "idle" /\ call'[s] = call[s]
    <3>1. Authorized(call[s])
      BY <2>2 DEF AccessInv, CallsAuthorized
    <3>2. \A c : Authorized(c) => \E g \in granted', d \in Credentials :
                    /\ g.call = c
                    /\ d.token = g.token /\ "cases:write" \in d.scopes
                    /\ d.expires # None => g.at < d.expires
      BY GrantedGrows DEF Authorized
    <3> QED BY <2>2, <3>1, <3>2 DEF Authorized
  <2> QED BY <1>1, <2>1, <2>2, CallStep
<1>2. ASSUME NEW k \in Keys, receipts'[k] # None
      PROVE  Authorized([key |-> k, payload |-> receipts[k]])'
  <2>1. CASE receipts[k] = None
    <3>1. PICK s \in Sessions : phase[s] # "idle" /\ call[s] = [key |-> k, payload |-> receipts'[k]]
      BY <1>2, <2>1, ReceiptStep
    <3>2. Authorized([key |-> k, payload |-> receipts'[k]])
      BY <3>1 DEF AccessInv, CallsAuthorized
    <3> QED BY <3>2, GrantedGrows DEF Authorized
  <2>2. CASE receipts[k] # None
    <3>1. receipts'[k] = receipts[k]
      BY <2>2, StoreSimulation DEF StoreInv, Restart, IInv, Next, Step, Call, Accept, StoreBatch, Replay,
                          Refuse, Fail, Answer, Vanish, Hangup, vars, TypeOK
    <3>2. Authorized([key |-> k, payload |-> receipts[k]])
      BY <2>2 DEF AccessInv, ReceiptsAuthorized
    <3> QED BY <3>1, <3>2, GrantedGrows DEF Authorized
  <2> QED BY <2>1, <2>2
<1> QED BY <1>1, <1>2 DEF AccessInv, CallsAuthorized, ReceiptsAuthorized

-----------------------------------------------------------------------------
(* What the replicas have counted of the ledger, and what the threads that  *)
(* return next are going to count.                                          *)
StoredCases == {c \in CaseIds : stored[c] # None}
Counted     == [r \in Replicas |-> counters[r]["cases"]]
Owes(s)     == phase[s] = "done" /\ request[s].status = 0 /\ result[s].kind = "accepted"
Owed        == [s \in Sessions |-> IF Owes(s) THEN Len(CaseOrder[result[s].batch]) ELSE 0]

(* Counted and uncounted batches together are no more than the ledger.      *)
(* Counted alone would not do: a step of Return raises it.                  *)
CountInv ==
  /\ IsFiniteSet(StoredCases)
  /\ SumFunction(Counted) + SumFunction(Owed) <= Cardinality(StoredCases)

(* The cases of a batch are as many as its list is long. *)
LEMMA BatchCases ==
  ASSUME NEW p \in Payloads
  PROVE  /\ Len(CaseOrder[p]) \in Nat
         /\ Range(CaseOrder[p]) \subseteq CaseIds \cap Rows(p)
         /\ Rows(p) \cap CaseIds \subseteq Range(CaseOrder[p])
         /\ IsFiniteSet(Range(CaseOrder[p]))
         /\ Cardinality(Range(CaseOrder[p])) = Len(CaseOrder[p])
<1> DEFINE c == CaseOrder[p]
           n == Len(c)
           m == Len(EventOrder[p])
<1>1. c \in Seq(CaseIds) /\ EventOrder[p] \in Seq(EventIds) /\ IsInjective(c)
  BY OrderAssumption
<1>2. n \in Nat /\ DOMAIN c = 1..n /\ \A i \in 1..n : c[i] \in CaseIds
  BY <1>1
<1>3. m \in Nat /\ \A i \in 1..m : EventOrder[p][i] \in EventIds
  BY <1>1
<1>4. DOMAIN Plan(p) = 1..(n + m)
  BY <1>1 DEF Plan
<1>5. \A i \in 1..(n + m) :
        Plan(p)[i] = IF i <= n THEN c[i] ELSE EventOrder[p][i - n]
  BY <1>1 DEF Plan
<1> HIDE DEF m, n
<1>6. Range(c) = {c[i] : i \in 1..n}
  BY <1>2 DEF Range
<1>7. Range(c) \subseteq CaseIds \cap Rows(p)
  <2> SUFFICES ASSUME NEW i \in 1..n PROVE c[i] \in CaseIds /\ c[i] \in Rows(p)
    BY <1>6
  <2>1. i \in 1..(n + m) /\ i <= n
    BY <1>2, <1>3
  <2> QED BY <1>2, <1>4, <1>5, <2>1 DEF Rows
<1>8. Rows(p) \cap CaseIds \subseteq Range(c)
  <2> SUFFICES ASSUME NEW x \in Rows(p) \cap CaseIds PROVE x \in Range(c)
    OBVIOUS
  <2>1. PICK i \in 1..(n + m) : x = Plan(p)[i]
    BY <1>4 DEF Rows
  <2>2. CASE i <= n
    <3>1. i \in 1..n
      BY <1>2, <1>3, <2>1, <2>2
    <3>2. x = c[i]
      BY <1>5, <2>1, <2>2
    <3> QED BY <1>6, <3>1, <3>2
  <2>3. CASE ~(i <= n)
    <3>1. i - n \in 1..m
      BY <1>2, <1>3, <2>1, <2>3
    <3> QED BY <1>3, <1>5, <2>1, <2>3, <3>1, OrderAssumption
  <2> QED BY <2>2, <2>3
<1> USE DEF n
<1>9. c \in Bijection(1..n, Range(c))
  <2>1. c \in [1..n -> Range(c)] /\ \A y \in Range(c) : \E i \in 1..n : c[i] = y
    BY <1>1, <1>2, <1>6
  <2>2. \A i, j \in 1..n : c[i] = c[j] => i = j
    BY <1>1, <1>2 DEF IsInjective
  <2> QED BY <2>1, <2>2 DEF Bijection, Injection, Surjection, IsInjective
<1>10. IsFiniteSet(Range(c)) /\ Cardinality(Range(c)) = n
  <2>1. IsFiniteSet(1..n) /\ Cardinality(1..n) = n
    BY <1>2, FS_Interval
  <2>2. ExistsBijection(1..n, Range(c))
    BY <1>9 DEF ExistsBijection
  <2> QED BY <2>1, <2>2, FS_Bijection
<1> QED BY <1>2, <1>7, <1>8, <1>10

(* What is counted and what is owed are numbers. *)
LEMMA OwedTyped ==
  ASSUME StoreInv
  PROVE  Counted \in [Replicas -> Nat] /\ Owed \in [Sessions -> Nat]
<1>1. Counted \in [Replicas -> Nat]
  BY TypeParts DEF StoreInv, CountsTyped, Counted, Series
<1>2. ASSUME NEW s \in Sessions, Owes(s) PROVE Len(CaseOrder[result[s].batch]) \in Nat
  <2>1. result[s] \in Results /\ result[s].batch # None
    BY <1>2 DEF Owes, StoreInv, IInv, TypeOK, ResultsHold, Stored
  <2> QED BY <2>1, BatchCases DEF Results
<1> QED BY <1>1, <1>2 DEF Owed

LEMMA OwedTypedNext == (StoreInv => Counted \in [Replicas -> Nat] /\ Owed \in [Sessions -> Nat])'
<1>1. StoreInv => Counted \in [Replicas -> Nat] /\ Owed \in [Sessions -> Nat]
  BY OwedTyped
<1> QED BY <1>1, PTL

(* A step that stores nothing, counts no case and owes no more keeps it. *)
LEMMA CountKept ==
  ASSUME StoreInv, StoreInv', CountInv, UNCHANGED stored,
         \A r \in Replicas : Counted'[r] <= Counted[r],
         \A s \in Sessions : Owes(s)' => Owes(s) /\ result'[s] = result[s]
  PROVE  CountInv'
<1>1. /\ Counted \in [Replicas -> Nat] /\ Counted' \in [Replicas -> Nat]
      /\ Owed \in [Sessions -> Nat] /\ Owed' \in [Sessions -> Nat]
  BY OwedTyped, OwedTypedNext
<1>2. \A s \in Sessions : Owed'[s] <= Owed[s]
  BY <1>1 DEF Owed
<1> DEFINE x == SumFunction(Counted)
           y == SumFunction(Owed)
           u == SumFunction(Counted')
           v == SumFunction(Owed')
<1>3. /\ Naturally(Counted, Replicas) /\ Naturally(Counted', Replicas)
      /\ Naturally(Owed, Sessions) /\ Naturally(Owed', Sessions)
      /\ DOMAIN Counted = Replicas /\ DOMAIN Counted' = Replicas
      /\ DOMAIN Owed = Sessions /\ DOMAIN Owed' = Sessions
  BY <1>1 DEF Naturally
<1>4. u <= x /\ v <= y
  BY <1>2, <1>3, SumMonotone, DeploymentAssumption DEF SumFunction
<1>5. x \in Nat /\ y \in Nat /\ u \in Nat /\ v \in Nat
  BY <1>1, SumFunctionType, DeploymentAssumption
<1>6. StoredCases' = StoredCases
  BY DEF StoredCases
<1>7. IsFiniteSet(StoredCases) /\ x + y <= Cardinality(StoredCases)
  BY DEF CountInv
<1>8. Cardinality(StoredCases) \in Nat
  BY <1>7, FS_CardinalityType
<1>9. u + v <= Cardinality(StoredCases)
  BY <1>4, <1>5, <1>7, <1>8
<1> QED BY <1>6, <1>7, <1>9 DEF CountInv

(* Counting a batch moves it from what is owed to what is counted. *)
LEMMA ReturnCounts ==
  ASSUME StoreInv, CountInv, NEW s \in Sessions, Return(s), result[s].kind = "accepted"
  PROVE  CountInv'
<1> DEFINE n == Len(CaseOrder[result[s].batch])
           h == Home[s]
<1>0. /\ Counted \in [Replicas -> Nat] /\ Owed \in [Sessions -> Nat] /\ h \in Replicas
      /\ RequestsTyped /\ CountsTyped /\ CallsMatch
  BY OwedTyped, TypeParts, ApiAssumption DEF StoreInv
<1>1. /\ phase[s] = "done" /\ request[s].status = 0 /\ Count(s, "cases", n) /\ Decide(s, 201)
      /\ UNCHANGED vars
  BY DEF Return, Observe
<1>2. Owes(s) /\ Owed[s] = n /\ n \in Nat
  <2>1. Owes(s)
    BY <1>1 DEF Owes
  <2>2. Owed[s] = n
    BY <2>1 DEF Owed
  <2>3. Owed[s] \in Nat
    BY <1>0
  <2> QED BY <2>1, <2>2, <2>3
<1>3. /\ Counted' \in [Replicas -> Nat] /\ Counted'[h] = Counted[h] + n
      /\ \A r \in Replicas \ {h} : Counted'[r] = Counted[r]
  BY <1>0, <1>1, <1>2 DEF Count, Counted, CountsTyped, Series
<1>4. request'[s].status = 201 /\ \A t \in Sessions \ {s} : request'[t] = request[t]
  <2>1. request[s] \in Requests
    BY <1>0, <1>1 DEF CallsMatch, RequestsTyped
  <2> QED BY <1>0, <1>1, <2>1 DEF Decide, RequestsTyped, Requests
<1>5. ~Owes(s)' /\ \A t \in Sessions \ {s} : (Owes(t)' <=> Owes(t)) /\ result'[t] = result[t]
  BY <1>1, <1>4 DEF Owes, vars
<1>6. /\ Owed' \in [Sessions -> Nat] /\ Owed'[s] = 0
      /\ \A t \in Sessions \ {s} : Owed'[t] = Owed[t]
  BY <1>0, <1>5 DEF Owed
<1>7. StoredCases' = StoredCases
  BY <1>1 DEF StoredCases, vars
<1> HIDE DEF n, h
<1>8. SumFunction(Counted') + Counted[h] = SumFunction(Counted) + (Counted[h] + n)
  BY <1>0, <1>3, SumUpdate, DeploymentAssumption
<1>9. SumFunction(Owed') + n = SumFunction(Owed) + 0
  BY <1>0, <1>2, <1>6, SumUpdate, DeploymentAssumption
<1>10. /\ SumFunction(Counted) \in Nat /\ SumFunction(Owed) \in Nat /\ Counted[h] \in Nat
       /\ SumFunction(Counted') \in Nat /\ SumFunction(Owed') \in Nat
  BY <1>0, <1>3, <1>6, SumFunctionType, DeploymentAssumption
<1>11. IsFiniteSet(StoredCases) /\ SumFunction(Counted) + SumFunction(Owed) <= Cardinality(StoredCases)
  BY DEF CountInv
<1>12. SumFunction(Counted') + SumFunction(Owed') = SumFunction(Counted) + SumFunction(Owed)
  BY <1>2, <1>8, <1>9, <1>10
<1> QED BY <1>7, <1>11, <1>12 DEF CountInv

(* Storing a batch adds its cases to the ledger, and at most as many to     *)
(* what is owed: nothing if the connection is lost during COMMIT.           *)
LEMMA AcceptCounts ==
  ASSUME StoreInv, CountInv, NEW s \in Sessions, StoreStep(s), Accept(s)
  PROVE  CountInv'
<1> DEFINE p == call[s].payload
           new == Range(CaseOrder[p])
           n == Len(CaseOrder[p])
<1>0. Counted \in [Replicas -> Nat] /\ Owed \in [Sessions -> Nat] /\ TypeOK
  BY OwedTyped DEF StoreInv, IInv
<1>1. /\ phase[s] = "open" /\ p \in Payloads /\ p # None
      /\ \A r \in Rows(p) : stored[r] = None
      /\ stored' = WithBatch(stored, p) /\ UNCHANGED <<request, counters>>
  BY <1>0, NoneAssumption DEF StoreStep, Accept, StoreBatch, TypeOK, Calls
<1>2. PICK r \in {Accepted(p), Error} : Finish(s, r)
  BY DEF Accept
<1>3. /\ n \in Nat /\ new \subseteq CaseIds \cap Rows(p) /\ Rows(p) \cap CaseIds \subseteq new
      /\ IsFiniteSet(new) /\ Cardinality(new) = n
  BY <1>1, BatchCases
<1>4. \A c \in CaseIds : stored'[c] = IF c \in Rows(p) THEN p ELSE stored[c]
  BY <1>1 DEF WithBatch, RowIds
<1> HIDE DEF p, new
<1>5. StoredCases' = StoredCases \cup new /\ StoredCases \cap new = {}
  BY <1>1, <1>3, <1>4 DEF StoredCases
<1>6. IsFiniteSet(StoredCases) /\ SumFunction(Counted) + SumFunction(Owed) <= Cardinality(StoredCases)
  BY DEF CountInv
<1>7. /\ IsFiniteSet(StoredCases')
      /\ Cardinality(StoredCases') = Cardinality(StoredCases) + n
      /\ Cardinality(StoredCases) \in Nat
  <2>1. IsFiniteSet(StoredCases \cup new)
        /\ Cardinality(StoredCases \cup new)
             = Cardinality(StoredCases) + Cardinality(new) - Cardinality(StoredCases \cap new)
    BY <1>3, <1>6, FS_Union
  <2>2. Cardinality(StoredCases \cap new) = 0 /\ Cardinality(StoredCases) \in Nat
    BY <1>5, <1>6, FS_EmptySet, FS_CardinalityType
  <2> QED BY <1>3, <1>5, <2>1, <2>2
<1>8. Counted' = Counted
  BY <1>1 DEF Counted
<1>9. ~Owes(s) /\ Owed[s] = 0
  BY <1>1 DEF Owes, Owed
<1>10. \A t \in Sessions \ {s} : (Owes(t)' <=> Owes(t)) /\ result'[t] = result[t]
  BY <1>0, <1>1, <1>2 DEF Finish, Owes, TypeOK
<1>11. PICK m \in {0, n} : Owed'[s] = m
  <2>1. result'[s] = r
    BY <1>0, <1>2 DEF Finish, TypeOK
  <2>2. Owed'[s] = IF Owes(s)' THEN Len(CaseOrder[r.batch]) ELSE 0
    BY <2>1 DEF Owed
  <2>3. r = Accepted(p) => Len(CaseOrder[r.batch]) = n
    BY DEF Accepted, p
  <2>4. r # Accepted(p) => r.kind = "error"
    BY <1>2 DEF Error, p
  <2>5. Owes(s)' => result'[s].kind = "accepted"
    BY DEF Owes
  <2> QED BY <2>1, <2>2, <2>3, <2>4, <2>5
<1>12. Owed' \in [Sessions -> Nat] /\ \A t \in Sessions \ {s} : Owed'[t] = Owed[t]
  <2>1. \A t \in Sessions \ {s} : Owed'[t] = Owed[t]
    BY <1>10 DEF Owed
  <2>2. Owed' = [t \in Sessions |-> Owed'[t]]
    BY DEF Owed
  <2> QED BY <1>0, <1>3, <1>11, <2>1, <2>2
<1> HIDE DEF n
<1>13. SumFunction(Owed') + Owed[s] = SumFunction(Owed) + m
  BY <1>0, <1>11, <1>12, SumUpdate, DeploymentAssumption
<1>14. SumFunction(Owed) \in Nat /\ SumFunction(Owed') \in Nat /\ SumFunction(Counted) \in Nat
  BY <1>0, <1>12, SumFunctionType, DeploymentAssumption
<1>15. SumFunction(Counted) + SumFunction(Owed') <= Cardinality(StoredCases')
  BY <1>3, <1>6, <1>7, <1>9, <1>11, <1>13, <1>14
<1> QED BY <1>7, <1>8, <1>15 DEF CountInv

(* Every other step counts no case, stores none and owes no more: a restart *)
(* forgets what it counted and what it owed.                                *)
LEMMA CountStep ==
  ASSUME StoreInv, StoreInv', CountInv, [ApiNext]_apiVars
  PROVE  CountInv'
<1>t. /\ RequestsTyped /\ CountsTyped /\ CallsMatch /\ TypeOK
      /\ \A s \in Sessions : Home[s] \in Replicas
  BY TypeParts, ApiAssumption DEF StoreInv
<1>0. Counted \in [Replicas -> Nat]
  BY OwedTyped
<1>c. UNCHANGED counters => \A r \in Replicas : Counted'[r] <= Counted[r]
  BY <1>0 DEF Counted
<1>1. ASSUME NEW s \in Sessions, NEW t, NEW route, NEW k, NEW p, Send(s, t, route, k, p)
      PROVE  CountInv'
  <2>1. UNCHANGED <<stored, phase, result, counters>> /\ request[s] = None
    BY <1>1 DEF Send, vars
  <2>2. phase[s] = "idle" /\ \A x \in Sessions \ {s} : request'[x] = request[x]
    BY <1>t, <1>1, <2>1 DEF Send, CallsMatch, RequestsTyped
  <2> QED BY <1>c, <2>1, <2>2, CountKept DEF Owes
<1>2. ASSUME NEW s \in Sessions, Undecided(s), \E status : Decide(s, status),
             UNCHANGED vars, \A r \in Replicas : Counted'[r] <= Counted[r]
      PROVE  CountInv'
  <2>1. /\ UNCHANGED <<stored, phase, result>> /\ phase[s] = "idle"
        /\ \A x \in Sessions \ {s} : request'[x] = request[x]
    BY <1>t, <1>2 DEF vars, Undecided, Decide, RequestsTyped
  <2> QED BY <1>2, <2>1, CountKept DEF Owes
<1>3. ASSUME NEW s \in Sessions, RefuseToken(s) PROVE CountInv'
  <2>1. Verdict(s) \in Reasons
    BY <1>3, VerdictTyped DEF RefuseToken
  <2>2. \A r \in Replicas : Counted'[r] <= Counted[r]
    BY <1>0, <1>3, <1>t, <2>1 DEF RefuseToken, Count, Counted, Reasons, CountsTyped, Series
  <2>3. Undecided(s) /\ UNCHANGED vars /\ \E status : Decide(s, status)
    BY <1>3 DEF RefuseToken
  <2> QED BY <1>2, <2>2, <2>3
<1>4. ASSUME NEW s \in Sessions, List(s) \/ RejectBody(s) PROVE CountInv'
  <2>1. Undecided(s) /\ UNCHANGED <<vars, counters>> /\ \E status : Decide(s, status)
    BY <1>4 DEF List, RejectBody
  <2> QED BY <1>2, <1>c, <2>1
<1>5. ASSUME NEW s \in Sessions, Admit(s) PROVE CountInv'
  <2>1. /\ UNCHANGED <<stored, result, counters, request>>
        /\ phase' = [phase EXCEPT ![s] = "open"]
    BY <1>5 DEF Admit, Call
  <2>2. \A x \in Sessions : Owes(x)' => Owes(x)
    BY <1>t, <2>1 DEF Owes, TypeOK
  <2> QED BY <1>c, <2>1, <2>2, CountKept
<1>6. ASSUME NEW s \in Sessions, StoreStep(s), ~Accept(s) PROVE CountInv'
  <2>1. UNCHANGED <<stored, counters, request>>
    BY <1>6 DEF StoreStep, Replay, Refuse, Fail
  <2>2. PICK r : Finish(s, r) /\ r.kind # "accepted"
    BY <1>6 DEF StoreStep, Replay, Refuse, Fail, Replayed, Conflict, Error
  <2>3. \A x \in Sessions : Owes(x)' => Owes(x) /\ result'[x] = result[x]
    BY <1>t, <2>1, <2>2 DEF Finish, Owes, TypeOK
  <2> QED BY <1>c, <2>1, <2>3, CountKept
<1>7. ASSUME NEW s \in Sessions, Return(s), result[s].kind # "accepted" PROVE CountInv'
  <2>1. /\ phase[s] = "done" /\ UNCHANGED <<stored, phase, result>> /\ Observe(s)
        /\ \E status : Decide(s, status)
    BY <1>7 DEF Return, vars
  <2>2. request[s] # None /\ result[s].kind \in Kinds
    BY <1>t, <2>1 DEF CallsMatch, TypeOK, Results
  <2>3. \A r \in Replicas : Counted'[r] <= Counted[r]
    <3>1. CASE result[s].kind = "error"
      BY <1>c, <2>1, <3>1 DEF Observe
    <3>2. CASE result[s].kind = "replayed"
      <4>1. Count(s, "replays", 1)
        BY <2>1, <3>2 DEF Observe
      <4> QED BY <1>0, <1>t, <4>1 DEF Count, Counted, CountsTyped, Series
    <3>3. CASE result[s].kind = "conflict"
      <4>1. Count(s, "conflicts", 1)
        BY <2>1, <3>3 DEF Observe
      <4> QED BY <1>0, <1>t, <4>1 DEF Count, Counted, CountsTyped, Series
    <3> QED BY <1>7, <2>2, <3>1, <3>2, <3>3 DEF Kinds
  <2>4. \A x \in Sessions : Owes(x)' => Owes(x)
    BY <1>7, <1>t, <2>1 DEF Owes, Decide, RequestsTyped
  <2> QED BY <2>1, <2>3, <2>4, CountKept
<1>8. ASSUME NEW s \in Sessions, Respond(s) PROVE CountInv'
  <2>1. /\ UNCHANGED <<stored, counters>> /\ phase'[s] = "idle"
        /\ \A x \in Sessions \ {s} : /\ phase'[x] = phase[x] /\ result'[x] = result[x]
                                     /\ request'[x] = request[x]
    <3>1. UNCHANGED counters /\ \A x \in Sessions \ {s} : request'[x] = request[x]
      BY <1>t, <1>8 DEF Respond, RequestsTyped
    <3>2. CASE phase[s] = "idle"
      BY <1>8, <3>1, <3>2 DEF Respond, vars
    <3>3. CASE phase[s] # "idle"
      BY <1>8, <1>t, <3>1, <3>3 DEF Respond, Answer, Vanish, Hangup, TypeOK
    <3> QED BY <3>2, <3>3
  <2>2. \A x \in Sessions : Owes(x)' => Owes(x) /\ result'[x] = result[x]
    BY <2>1 DEF Owes
  <2> QED BY <1>c, <2>1, <2>2, CountKept
<1>9. ASSUME NEW r \in Replicas, Restart(r) PROVE CountInv'
  <2>1. \A x \in Replicas : Counted'[x] <= Counted[x]
    BY <1>0, <1>9, <1>t DEF Restart, Counted, CountsTyped, Series
  <2>2. \A x \in Sessions : Owes(x)' => Owes(x) /\ result'[x] = result[x]
    BY <1>9 DEF Restart, Owes
  <2> QED BY <1>9, <2>1, <2>2, CountKept DEF Restart
<1>10. ASSUME Deploy \/ Tick \/ (\E t : SwitchToken(t)) \/ UNCHANGED apiVars PROVE CountInv'
  <2>1. UNCHANGED <<stored, phase, result, counters, request>>
    BY <1>10 DEF Deploy, Tick, SwitchToken, apiVars, vars
  <2> QED BY <1>c, <2>1, CountKept DEF Owes
<1> QED BY <1>1, <1>3, <1>4, <1>5, <1>6, <1>7, <1>8, <1>9, <1>10, ReturnCounts, AcceptCounts
        DEF ApiNext

-----------------------------------------------------------------------------
(* Only an ingestion has a call in the store. *)
OnlyIngestStores == \A s \in Sessions : phase[s] # "idle" => request[s].route = "ingest"

(* AlertsAgree is inductive with it. *)
AlertsInv == OnlyIngestStores /\ AlertsAgree

(* The sets of status codes the alerts add up. *)
Codes == {{409}, {200}, {401, 403}}

(* The decided requests that are on their way out, and, with those that     *)
(* have left, the requests of a route and replica decided so.               *)
Leaving(r, route, codes) ==
  {s \in SessionsOf(r) : request[s] # None /\ request[s].route = route /\ request[s].status \in codes}
Seen(r, route, codes) ==
  SumFunctionOnSet(requests[r][route], codes) + Cardinality(Leaving(r, route, codes))
Refusals(r) == SumFunctionOnSet(counters[r], Reasons)

(* AlertsAgree in these terms. *)
AlertsSeen ==
  \A r \in Replicas :
    /\ counters[r]["conflicts"] = Seen(r, "ingest", {409})
    /\ counters[r]["replays"] = Seen(r, "ingest", {200})
    /\ Refusals(r) = Seen(r, "ingest", {401, 403}) + Seen(r, "list", {401, 403})

LEMMA AlertsParts == AlertsAgree <=> AlertsSeen
BY DEF AlertsAgree, AlertsSeen, Seen, Leaving, Deciding, Refusals

LEMMA AlertsPartsNext == AlertsAgree' <=> AlertsSeen'
<1>1. AlertsAgree <=> AlertsSeen
  BY AlertsParts
<1> QED BY <1>1, PTL

LEMMA CodesTyped ==
  /\ IsFiniteSet(Reasons) /\ Reasons \subseteq Series
  /\ \A codes \in Codes : IsFiniteSet(codes) /\ codes \subseteq Statuses /\ 0 \notin codes /\ 500 \notin codes
<1>1. IsFiniteSet({"missing", "invalid", "expired", "insufficient_scope"})
  <2>1. /\ {"missing", "invalid"} = {"missing"} \cup {"invalid"}
        /\ {"missing", "invalid", "expired"} = {"missing", "invalid"} \cup {"expired"}
        /\ {"missing", "invalid", "expired", "insufficient_scope"}
             = {"missing", "invalid", "expired"} \cup {"insufficient_scope"}
    OBVIOUS
  <2>2. IsFiniteSet({"missing", "invalid"})
    <3>1. IsFiniteSet({"missing"})
      BY FS_Singleton
    <3> QED BY <2>1, <3>1, FS_AddElement
  <2>3. IsFiniteSet({"missing", "invalid", "expired"})
    BY <2>1, <2>2, FS_AddElement
  <2> QED BY <2>1, <2>3, FS_AddElement
<1>2. IsFiniteSet({409}) /\ IsFiniteSet({200}) /\ IsFiniteSet({401})
  BY FS_Singleton, Zenon
<1>3. IsFiniteSet({401, 403})
  <2>1. {401, 403} = {401} \cup {403}
    OBVIOUS
  <2> QED BY <1>2, <2>1, FS_AddElement
<1>4. ASSUME NEW codes \in Codes
      PROVE  IsFiniteSet(codes) /\ codes \subseteq Statuses /\ 0 \notin codes /\ 500 \notin codes
  BY <1>2, <1>3 DEF Codes, Statuses
<1> QED BY <1>1, <1>4 DEF Reasons, Series

(* What is added up are numbers. *)
LEMMA SeenTyped ==
  ASSUME CountsTyped, NEW r \in Replicas, NEW route \in Routes, NEW codes \in Codes
  PROVE  /\ SumFunctionOnSet(requests[r][route], codes) \in Nat
         /\ IsFiniteSet(SessionsOf(r)) /\ IsFiniteSet(Leaving(r, route, codes))
         /\ Cardinality(Leaving(r, route, codes)) \in Nat
         /\ Naturally(requests[r][route], codes)
<1>1. Naturally(requests[r][route], codes)
  BY CodesTyped DEF CountsTyped, Naturally
<1>2. IsFiniteSet(SessionsOf(r))
  <2>1. SessionsOf(r) \in SUBSET Sessions
    BY DEF SessionsOf
  <2> QED BY <2>1, FS_Subset, DeploymentAssumption
<1>3. Leaving(r, route, codes) \in SUBSET SessionsOf(r)
  BY DEF Leaving
<1> QED BY <1>1, <1>2, <1>3, SumType, CodesTyped, FS_Subset, FS_CardinalityType

(* One session's request changes: the others still leave or stay. *)
LEMMA LeavingMoves ==
  ASSUME CountsTyped, NEW r \in Replicas, NEW route \in Routes, NEW codes \in Codes,
         NEW x \in Sessions, \A y \in Sessions \ {x} : request'[y] = request[y]
  PROVE  LET A == Leaving(r, route, codes)
             B == Leaving(r, route, codes)'
         IN  /\ Cardinality(A) \in Nat /\ Cardinality(B) \in Nat
             /\ (x \in A <=> x \in B) => Cardinality(B) = Cardinality(A)
             /\ x \notin A /\ x \in B => Cardinality(B) = Cardinality(A) + 1
             /\ x \in A /\ x \notin B => Cardinality(A) = Cardinality(B) + 1
<1> DEFINE A == Leaving(r, route, codes)
           B == Leaving(r, route, codes)'
           S == SessionsOf(r)
<1>1. A \in SUBSET S /\ B \in SUBSET S /\ S \in SUBSET Sessions
  BY DEF Leaving, SessionsOf
<1>2. \A y \in S \ {x} : y \in A <=> y \in B
  BY <1>1 DEF Leaving, SessionsOf
<1>3. IsFiniteSet(S)
  BY SeenTyped
<1> HIDE DEF A, B, S
<1>4. /\ Cardinality(A) \in Nat /\ Cardinality(B) \in Nat
      /\ (x \in A <=> x \in B) => Cardinality(B) = Cardinality(A)
      /\ x \notin A /\ x \in B => Cardinality(B) = Cardinality(A) + 1
      /\ x \in A /\ x \notin B => Cardinality(A) = Cardinality(B) + 1
  BY <1>1, <1>2, <1>3, CountMoves
<1> QED BY <1>4 DEF A, B

(* The response of a request that had none is decided. *)
LEMMA SeenDecides ==
  ASSUME RequestsTyped, CountsTyped, NEW x \in Sessions, request[x] # None, request[x].status = 0,
         NEW c \in Statuses, Decide(x, c), UNCHANGED requests,
         NEW r \in Replicas, NEW route \in Routes, NEW codes \in Codes
  PROVE  Seen(r, route, codes)' =
           IF Home[x] = r /\ request[x].route = route /\ c \in codes
           THEN Seen(r, route, codes) + 1 ELSE Seen(r, route, codes)
<1>1. request[x] \in Requests
  BY DEF RequestsTyped
<1>2. [request[x] EXCEPT !.status = c] \in Requests
  BY <1>1 DEF Requests
<1>3. /\ request'[x] # None /\ request'[x].route = request[x].route /\ request'[x].status = c
      /\ \A y \in Sessions \ {x} : request'[y] = request[y]
  BY <1>1, <1>2, NoRequestAssumption DEF Decide, RequestsTyped, Requests
<1>4. x \notin Leaving(r, route, codes)
  BY CodesTyped DEF Leaving
<1>5. x \in Leaving(r, route, codes)' <=> Home[x] = r /\ request[x].route = route /\ c \in codes
  BY <1>3 DEF Leaving, SessionsOf
<1>6. Cardinality(Leaving(r, route, codes)') =
        IF Home[x] = r /\ request[x].route = route /\ c \in codes
        THEN Cardinality(Leaving(r, route, codes)) + 1 ELSE Cardinality(Leaving(r, route, codes))
  BY <1>3, <1>4, <1>5, LeavingMoves
<1> QED BY <1>6, SeenTyped DEF Seen

(* A response is counted when it leaves, as it was while it was leaving. *)
LEMMA SeenResponds ==
  ASSUME RequestsTyped, CountsTyped, CountsTyped', NEW x \in Sessions, Respond(x),
         NEW r \in Replicas, NEW route \in Routes, NEW codes \in Codes
  PROVE  Seen(r, route, codes)' = Seen(r, route, codes)
<1> DEFINE c    == request[x].status
           h    == Home[x]
           path == IF c = 500 THEN "unhandled" ELSE request[x].route
           f    == requests[r][route]
           g    == requests'[r][route]
<1>1. /\ request[x] \in Requests /\ request[x] # None /\ c \in Statuses /\ request[x].route \in Routes
      /\ h \in Replicas /\ path \in Routes \cup {"unhandled"}
  BY ApiAssumption DEF Respond, RequestsTyped, Requests
<1>2. request' = [request EXCEPT ![x] = None]
      /\ requests' = [requests EXCEPT ![h][path][c] = @ + 1]
  BY DEF Respond
<1>3. request'[x] = None /\ \A y \in Sessions \ {x} : request'[y] = request[y]
  BY <1>2 DEF RequestsTyped
<1>4. x \notin Leaving(r, route, codes)'
  BY <1>3 DEF Leaving
<1>5. x \in Leaving(r, route, codes) <=> h = r /\ request[x].route = route /\ c \in codes
  BY <1>1 DEF Leaving, SessionsOf
<1>6. Naturally(f, codes) /\ Naturally(g, codes) /\ IsFiniteSet(codes) /\ codes \subseteq Statuses
      /\ SumFunctionOnSet(f, codes) \in Nat /\ SumFunctionOnSet(g, codes) \in Nat
  <2>1. Naturally(g, codes)
    BY CodesTyped DEF CountsTyped, Naturally
  <2> QED BY <2>1, CodesTyped, SeenTyped, SumType
<1>7. /\ requests[h] \in [Routes \cup {"unhandled"} -> [Statuses -> Nat]]
      /\ requests[r] \in [Routes \cup {"unhandled"} -> [Statuses -> Nat]]
      /\ f \in [Statuses -> Nat]
  BY <1>1 DEF CountsTyped
<1>8. CASE h = r /\ path = route
  <2>1. g = [f EXCEPT ![c] = @ + 1]
    BY <1>1, <1>2, <1>7, <1>8 DEF CountsTyped
  <2>2. c # 500 /\ request[x].route = route
    BY <1>1, <1>8 DEF Routes
  <2>3. g[c] = f[c] + 1 /\ \A d \in codes \ {c} : g[d] = f[d]
    BY <1>1, <1>6, <1>7, <2>1
  <2> HIDE DEF c, f, g, h
  <2>4. CASE c \in codes
    <3>1. SumFunctionOnSet(g, codes) + f[c] = SumFunctionOnSet(f, codes) + g[c]
      BY <1>6, <2>3, <2>4, SumMoves
    <3>2. SumFunctionOnSet(g, codes) = SumFunctionOnSet(f, codes) + 1
      BY <1>1, <1>6, <1>7, <2>3, <3>1
    <3>3. Cardinality(Leaving(r, route, codes)) = Cardinality(Leaving(r, route, codes)') + 1
          /\ Cardinality(Leaving(r, route, codes)') \in Nat
      BY <1>3, <1>4, <1>5, <1>8, <2>2, <2>4, LeavingMoves
    <3> QED BY <1>6, <3>2, <3>3 DEF Seen, f, g
  <2>5. CASE c \notin codes
    <3>1. SumFunctionOnSet(g, codes) = SumFunctionOnSet(f, codes)
      BY <1>6, <2>3, <2>5, SumCongruence
    <3>2. Cardinality(Leaving(r, route, codes)) = Cardinality(Leaving(r, route, codes)')
      BY <1>3, <1>4, <1>5, <2>5, LeavingMoves
    <3> QED BY <3>1, <3>2 DEF Seen, f, g
  <2> QED BY <2>4, <2>5
<1>9. CASE ~(h = r /\ path = route)
  <2>1. g = f
    BY <1>1, <1>2, <1>7, <1>9 DEF CountsTyped
  <2>2. x \notin Leaving(r, route, codes)
    BY <1>1, <1>5, <1>9, CodesTyped
  <2>3. Cardinality(Leaving(r, route, codes)) = Cardinality(Leaving(r, route, codes)')
    BY <1>3, <1>4, <2>2, LeavingMoves
  <2> QED BY <2>1, <2>3 DEF Seen
<1> QED BY <1>8, <1>9

(* A request that is sent is not decided. *)
LEMMA SeenSends ==
  ASSUME RequestsTyped, CountsTyped, NEW x \in Sessions, request[x] = None,
         NEW q, q.status = 0, request' = [request EXCEPT ![x] = q], UNCHANGED requests,
         NEW r \in Replicas, NEW route \in Routes, NEW codes \in Codes
  PROVE  Seen(r, route, codes)' = Seen(r, route, codes)
<1>1. request'[x].status = 0 /\ \A y \in Sessions \ {x} : request'[y] = request[y]
  BY DEF RequestsTyped
<1>2. x \notin Leaving(r, route, codes) /\ x \notin Leaving(r, route, codes)'
  BY <1>1, CodesTyped DEF Leaving
<1>3. Cardinality(Leaving(r, route, codes)') = Cardinality(Leaving(r, route, codes))
  BY <1>1, <1>2, LeavingMoves
<1> QED BY <1>3 DEF Seen

(* A replica that restarts has seen nothing; the others have seen the same. *)
LEMMA SeenRestarts ==
  ASSUME RequestsTyped, CountsTyped, NEW r \in Replicas, Restart(r),
         NEW t \in Replicas, NEW route \in Routes, NEW codes \in Codes
  PROVE  Seen(t, route, codes)' = IF t = r THEN 0 ELSE Seen(t, route, codes)
<1>1. \A s \in Sessions : request'[s] = IF Home[s] = r THEN None ELSE request[s]
  BY DEF Restart
<1>2. CASE t = r
  <2>1. Leaving(t, route, codes)' = {}
    BY <1>1, <1>2 DEF Leaving, SessionsOf
  <2> DEFINE f == requests'[r][route]
  <2>2. \A c \in Statuses : f[c] = 0
    BY DEF Restart, CountsTyped
  <2>3. DOMAIN [c \in codes |-> f[c]] = codes /\ \A c \in codes : [d \in codes |-> f[d]][c] = 0
    BY <2>2, CodesTyped
  <2>4. SumFunction([c \in codes |-> f[c]]) = 0
    BY <2>3, SumOfZeroes, CodesTyped
  <2>5. Naturally(f, codes) /\ \A c \in codes : f[c] = [d \in codes |-> f[d]][c]
    BY <2>2, CodesTyped DEF Naturally
  <2>6. SumFunctionOnSet(f, codes) = SumFunctionOnSet([c \in codes |-> f[c]], codes)
    BY <2>5, SumCongruence, CodesTyped
  <2>7. SumFunctionOnSet([c \in codes |-> f[c]], codes) = SumFunction([c \in codes |-> f[c]])
    BY DEF SumFunction
  <2>8. SumFunctionOnSet(f, codes) = 0
    BY <2>4, <2>6, <2>7
  <2> QED BY <1>2, <2>1, <2>8, FS_EmptySet DEF Seen
<1>3. CASE t # r
  <2>1. Leaving(t, route, codes)' = Leaving(t, route, codes)
    BY <1>1, <1>3 DEF Leaving, SessionsOf
  <2>2. requests'[t] = requests[t]
    BY <1>3 DEF Restart, CountsTyped
  <2> QED BY <1>3, <2>1, <2>2 DEF Seen
<1> QED BY <1>2, <1>3

(* A counted refusal is one more; what else is counted is none. *)
LEMMA RefusalsCount ==
  ASSUME CountsTyped, CountsTyped', NEW x \in Sessions, NEW v \in Series, NEW n \in Nat,
         Count(x, v, n), NEW r \in Replicas
  PROVE  /\ Refusals(r)' = IF v \in Reasons /\ Home[x] = r THEN Refusals(r) + n ELSE Refusals(r)
         /\ \A w \in Series : counters'[r][w] =
              IF w = v /\ Home[x] = r THEN counters[r][w] + n ELSE counters[r][w]
<1> DEFINE f == counters[r]
           g == counters'[r]
<1>1. \A w \in Series : g[w] = IF w = v /\ Home[x] = r THEN f[w] + n ELSE f[w]
  <2>1. Home[x] \in Replicas
    BY ApiAssumption
  <2> QED BY <2>1 DEF Count, CountsTyped
<1>2. /\ Naturally(f, Reasons) /\ Naturally(g, Reasons) /\ IsFiniteSet(Reasons)
      /\ SumFunctionOnSet(f, Reasons) \in Nat /\ SumFunctionOnSet(g, Reasons) \in Nat
      /\ \A w \in Reasons : w \in Series /\ f[w] \in Nat
  <2>1. Naturally(f, Reasons) /\ Naturally(g, Reasons)
    BY CodesTyped DEF CountsTyped, Naturally
  <2> QED BY <2>1, CodesTyped, SumType DEF Naturally
<1> HIDE DEF f, g
<1>3. CASE v \in Reasons /\ Home[x] = r
  <2>1. SumFunctionOnSet(g, Reasons) + f[v] = SumFunctionOnSet(f, Reasons) + g[v]
    BY <1>1, <1>2, <1>3, SumMoves
  <2> QED BY <1>1, <1>2, <1>3, <2>1 DEF Refusals, f, g
<1>4. CASE ~(v \in Reasons /\ Home[x] = r)
  <2>1. \A w \in Reasons : f[w] = g[w]
    BY <1>1, <1>2, <1>4
  <2>2. SumFunctionOnSet(f, Reasons) = SumFunctionOnSet(g, Reasons)
    BY <1>2, <2>1, SumCongruence
  <2> QED BY <1>1, <1>4, <2>2 DEF Refusals, f, g
<1> QED BY <1>3, <1>4

(* The numbers compared. *)
LEMMA AlertNumbers ==
  ASSUME CountsTyped, NEW r \in Replicas
  PROVE  /\ counters[r]["conflicts"] \in Nat /\ counters[r]["replays"] \in Nat /\ Refusals(r) \in Nat
         /\ \A route \in Routes, codes \in Codes : Seen(r, route, codes) \in Nat
         /\ {409} \in Codes /\ {200} \in Codes /\ {401, 403} \in Codes
         /\ "ingest" \in Routes /\ "list" \in Routes
<1>1. Naturally(counters[r], Reasons)
  BY CodesTyped DEF CountsTyped, Naturally
<1>2. Refusals(r) \in Nat
  BY <1>1, CodesTyped, SumType DEF Refusals
<1>3. \A route \in Routes, codes \in Codes : Seen(r, route, codes) \in Nat
  BY SeenTyped DEF Seen
<1> QED BY <1>2, <1>3 DEF CountsTyped, Series, Codes, Routes

(* A step that counts nothing and decides nothing. *)
LEMMA AlertsKept ==
  ASSUME AlertsAgree, CountsTyped, UNCHANGED counters,
         \A r \in Replicas, route \in Routes, codes \in Codes :
           Seen(r, route, codes)' = Seen(r, route, codes)
  PROVE  AlertsAgree'
<1> SUFFICES ASSUME NEW r \in Replicas
             PROVE  /\ counters'[r]["conflicts"] = Seen(r, "ingest", {409})'
                    /\ counters'[r]["replays"] = Seen(r, "ingest", {200})'
                    /\ Refusals(r)' = Seen(r, "ingest", {401, 403})' + Seen(r, "list", {401, 403})'
  BY AlertsPartsNext DEF AlertsSeen
<1>1. Refusals(r)' = Refusals(r)
  BY DEF Refusals
<1> QED BY <1>1, AlertNumbers, AlertsParts DEF AlertsSeen

(* An answer of the store is counted as it is decided. *)
LEMMA AlertsReturn ==
  ASSUME StoreInv, CountsTyped', AlertsInv, NEW x \in Sessions, Return(x)
  PROVE  AlertsAgree'
<1>0. /\ RequestsTyped /\ CountsTyped /\ CallsMatch
      /\ phase[x] = "done" /\ request[x].status = 0 /\ UNCHANGED requests /\ Observe(x)
      /\ request[x] # None /\ request[x].route = "ingest" /\ result[x] \in Results
      /\ result[x].kind \in Kinds
  BY TypeParts DEF Return, StoreInv, AlertsInv, OnlyIngestStores, CallsMatch, IInv, TypeOK, Results
<1> SUFFICES ASSUME NEW r \in Replicas
             PROVE  /\ counters'[r]["conflicts"] = Seen(r, "ingest", {409})'
                    /\ counters'[r]["replays"] = Seen(r, "ingest", {200})'
                    /\ Refusals(r)' = Seen(r, "ingest", {401, 403})' + Seen(r, "list", {401, 403})'
  BY AlertsPartsNext DEF AlertsSeen
<1>1. /\ counters[r]["conflicts"] = Seen(r, "ingest", {409})
      /\ counters[r]["replays"] = Seen(r, "ingest", {200})
      /\ Refusals(r) = Seen(r, "ingest", {401, 403}) + Seen(r, "list", {401, 403})
  BY AlertsParts DEF AlertsInv, AlertsSeen
<1>2. ASSUME NEW c \in Statuses, Decide(x, c)
      PROVE  /\ Seen(r, "ingest", {409})' = Seen(r, "ingest", {409}) + IF Home[x] = r /\ c = 409 THEN 1 ELSE 0
             /\ Seen(r, "ingest", {200})' = Seen(r, "ingest", {200}) + IF Home[x] = r /\ c = 200 THEN 1 ELSE 0
             /\ c \notin {401, 403} =>
                  /\ Seen(r, "ingest", {401, 403})' = Seen(r, "ingest", {401, 403})
                  /\ Seen(r, "list", {401, 403})' = Seen(r, "list", {401, 403})
  BY <1>0, <1>2, SeenDecides, AlertNumbers
<1>3. CASE result[x].kind = "accepted"
  <2>1. Decide(x, 201) /\ Count(x, "cases", Len(CaseOrder[result[x].batch]))
    BY <1>0, <1>3 DEF Return, Observe
  <2>2. Len(CaseOrder[result[x].batch]) \in Nat
    <3>1. result[x].batch # None
      BY <1>0, <1>3 DEF StoreInv, IInv, ResultsHold, Stored
    <3> QED BY <1>0, <3>1, BatchCases DEF Results
  <2>3. Refusals(r)' = Refusals(r) /\ counters'[r]["conflicts"] = counters[r]["conflicts"]
        /\ counters'[r]["replays"] = counters[r]["replays"]
    BY <1>0, <2>1, <2>2, RefusalsCount DEF Series, Reasons
  <2> QED BY <1>0, <1>1, <1>2, <2>1, <2>3, AlertNumbers DEF Statuses
<1>4. CASE result[x].kind = "replayed"
  <2>1. Decide(x, 200) /\ Count(x, "replays", 1)
    BY <1>0, <1>4 DEF Return, Observe
  <2>2. Refusals(r)' = Refusals(r) /\ counters'[r]["conflicts"] = counters[r]["conflicts"]
        /\ counters'[r]["replays"] = counters[r]["replays"] + IF Home[x] = r THEN 1 ELSE 0
    BY <1>0, <2>1, RefusalsCount, AlertNumbers DEF Series, Reasons
  <2> QED BY <1>0, <1>1, <1>2, <2>1, <2>2, AlertNumbers DEF Statuses
<1>5. CASE result[x].kind = "conflict"
  <2>1. Decide(x, 409) /\ Count(x, "conflicts", 1)
    BY <1>0, <1>5 DEF Return, Observe
  <2>2. Refusals(r)' = Refusals(r) /\ counters'[r]["replays"] = counters[r]["replays"]
        /\ counters'[r]["conflicts"] = counters[r]["conflicts"] + IF Home[x] = r THEN 1 ELSE 0
    BY <1>0, <2>1, RefusalsCount, AlertNumbers DEF Series, Reasons
  <2> QED BY <1>0, <1>1, <1>2, <2>1, <2>2, AlertNumbers DEF Statuses
<1>6. CASE result[x].kind = "error"
  <2>1. Decide(x, 500) /\ UNCHANGED counters
    BY <1>0, <1>6 DEF Return, Observe
  <2>2. Refusals(r)' = Refusals(r)
    BY <2>1 DEF Refusals
  <2> QED BY <1>0, <1>1, <1>2, <2>1, <2>2, AlertNumbers DEF Statuses
<1> QED BY <1>0, <1>3, <1>4, <1>5, <1>6 DEF Kinds

(* A refused token is counted as its response is decided. *)
LEMMA AlertsRefuse ==
  ASSUME StoreInv, CountsTyped', AlertsAgree, NEW x \in Sessions, RefuseToken(x)
  PROVE  AlertsAgree'
<1>0. /\ RequestsTyped /\ CountsTyped /\ request[x].status = 0 /\ request[x] # None
      /\ UNCHANGED requests /\ Count(x, Verdict(x), 1) /\ Verdict(x) \in Reasons
      /\ Verdict(x) \in Series /\ request[x].route \in Routes
  BY TypeParts, VerdictTyped, CodesTyped DEF RefuseToken, Undecided, StoreInv, RequestsTyped, Requests
<1>1. PICK c \in {401, 403} : Decide(x, c)
  BY DEF RefuseToken
<1> SUFFICES ASSUME NEW r \in Replicas
             PROVE  /\ counters'[r]["conflicts"] = Seen(r, "ingest", {409})'
                    /\ counters'[r]["replays"] = Seen(r, "ingest", {200})'
                    /\ Refusals(r)' = Seen(r, "ingest", {401, 403})' + Seen(r, "list", {401, 403})'
  BY AlertsPartsNext DEF AlertsSeen
<1>2. /\ counters[r]["conflicts"] = Seen(r, "ingest", {409})
      /\ counters[r]["replays"] = Seen(r, "ingest", {200})
      /\ Refusals(r) = Seen(r, "ingest", {401, 403}) + Seen(r, "list", {401, 403})
  BY AlertsParts DEF AlertsSeen
<1>3. /\ Refusals(r)' = Refusals(r) + IF Home[x] = r THEN 1 ELSE 0
      /\ counters'[r]["conflicts"] = counters[r]["conflicts"]
      /\ counters'[r]["replays"] = counters[r]["replays"]
  BY <1>0, RefusalsCount, AlertNumbers DEF Series, Reasons
<1>4. c \in Statuses
  BY <1>1 DEF Statuses
<1>5. \A route \in Routes, codes \in Codes :
        Seen(r, route, codes)' =
          IF Home[x] = r /\ request[x].route = route /\ c \in codes
          THEN Seen(r, route, codes) + 1 ELSE Seen(r, route, codes)
  BY <1>0, <1>1, <1>4, SeenDecides
<1>6. c \notin {409} /\ c \notin {200}
  BY <1>1
<1>7. \/ request[x].route = "ingest" /\ request[x].route # "list"
      \/ request[x].route = "list" /\ request[x].route # "ingest"
  BY <1>0 DEF Routes
<1> QED BY <1>0, <1>1, <1>2, <1>3, <1>5, <1>6, <1>7, AlertNumbers

(* A call belongs to an ingestion: Admit is the only one that makes it. *)
LEMMA IngestStep ==
  ASSUME StoreInv, OnlyIngestStores, [ApiNext]_apiVars
  PROVE  OnlyIngestStores'
<1>t. RequestsTyped /\ CallsMatch /\ TypeOK
  BY TypeParts DEF StoreInv
<1>1. ASSUME NEW s \in Sessions, NEW t, NEW route, NEW k, NEW p, Send(s, t, route, k, p)
      PROVE  OnlyIngestStores'
  <2>1. UNCHANGED phase /\ phase[s] = "idle" /\ \A x \in Sessions \ {s} : request'[x] = request[x]
    BY <1>1, <1>t DEF Send, vars, CallsMatch, RequestsTyped
  <2> QED BY <2>1 DEF OnlyIngestStores
<1>2. ASSUME NEW s \in Sessions, NEW c \in Statuses, Decide(s, c), UNCHANGED phase, request[s] # None
      PROVE  OnlyIngestStores'
  <2>1. request[s] \in Requests
    BY <1>2, <1>t DEF RequestsTyped
  <2>2. \A x \in Sessions : request'[x].route = request[x].route
    BY <1>2, <1>t, <2>1 DEF Decide, RequestsTyped, Requests
  <2> QED BY <1>2, <2>2 DEF OnlyIngestStores
<1>3. ASSUME NEW s \in Sessions, RefuseToken(s) \/ List(s) \/ RejectBody(s) PROVE OnlyIngestStores'
  <2>1. UNCHANGED phase /\ request[s] # None /\ \E c \in Statuses : Decide(s, c)
    BY <1>3 DEF RefuseToken, List, RejectBody, Undecided, Statuses, vars
  <2> QED BY <1>2, <2>1
<1>4. ASSUME NEW s \in Sessions, Return(s) PROVE OnlyIngestStores'
  <2>1. UNCHANGED phase /\ request[s] # None /\ result[s].kind \in Kinds
    BY <1>4, <1>t DEF Return, vars, CallsMatch, TypeOK, Results
  <2>2. request[s] \in Requests
    BY <1>t, <2>1 DEF RequestsTyped
  <2>3. PICK c : Decide(s, c)
    BY <1>4 DEF Return
  <2>4. \A x \in Sessions : request'[x].route = request[x].route
    BY <1>t, <2>2, <2>3 DEF Decide, RequestsTyped, Requests
  <2> QED BY <2>1, <2>4 DEF OnlyIngestStores
<1>5. ASSUME NEW s \in Sessions, Admit(s) PROVE OnlyIngestStores'
  <2>1. UNCHANGED request /\ phase' = [phase EXCEPT ![s] = "open"] /\ request[s].route = "ingest"
    BY <1>5 DEF Admit, Call
  <2> QED BY <1>t, <2>1 DEF OnlyIngestStores, TypeOK
<1>6. ASSUME NEW s \in Sessions, StoreStep(s) PROVE OnlyIngestStores'
  <2>1. UNCHANGED request /\ phase[s] = "open" /\ phase' = [phase EXCEPT ![s] = "done"]
    BY <1>6 DEF StoreStep, Accept, Replay, Refuse, Fail, Finish
  <2> QED BY <1>t, <2>1 DEF OnlyIngestStores, TypeOK
<1>7. ASSUME NEW s \in Sessions, Respond(s) PROVE OnlyIngestStores'
  <2>1. phase'[s] = "idle" /\ \A x \in Sessions \ {s} : phase'[x] = phase[x] /\ request'[x] = request[x]
    <3>1. \A x \in Sessions \ {s} : request'[x] = request[x]
      BY <1>7, <1>t DEF Respond, RequestsTyped
    <3>2. CASE phase[s] = "idle"
      BY <1>7, <3>1, <3>2 DEF Respond, vars
    <3>3. CASE phase[s] # "idle"
      BY <1>7, <1>t, <3>1, <3>3 DEF Respond, Answer, Vanish, Hangup, TypeOK
    <3> QED BY <3>2, <3>3
  <2> QED BY <2>1 DEF OnlyIngestStores
<1>8. ASSUME NEW r \in Replicas, Restart(r) PROVE OnlyIngestStores'
  BY <1>8 DEF Restart, OnlyIngestStores
<1>9. ASSUME Deploy \/ Tick \/ (\E t : SwitchToken(t)) \/ UNCHANGED apiVars PROVE OnlyIngestStores'
  <2>1. UNCHANGED <<phase, request>>
    BY <1>9 DEF Deploy, Tick, SwitchToken, apiVars, vars
  <2> QED BY <2>1 DEF OnlyIngestStores
<1> QED BY <1>1, <1>3, <1>4, <1>5, <1>6, <1>7, <1>8, <1>9 DEF ApiNext

(* The counters and the responses of a replica agree after every step. *)
LEMMA AlertsStep ==
  ASSUME StoreInv, StoreInv', AlertsInv, [ApiNext]_apiVars
  PROVE  AlertsAgree'
<1>t. RequestsTyped /\ CountsTyped /\ CountsTyped' /\ AlertsAgree
  BY TypeParts DEF StoreInv, AlertsInv, ApiTypeOK, CountsTyped
<1>u. ASSUME UNCHANGED <<request, requests, counters>> PROVE AlertsAgree'
  <2>1. \A r \in Replicas, route \in Routes, codes \in Codes :
          Seen(r, route, codes)' = Seen(r, route, codes)
    BY <1>u DEF Seen, Leaving
  <2> QED BY <1>t, <1>u, <2>1, AlertsKept
<1>1. ASSUME NEW s \in Sessions, NEW t, NEW route, NEW k, NEW p, Send(s, t, route, k, p)
      PROVE  AlertsAgree'
  <2> DEFINE q == [token |-> t, route |-> route, key |-> k, payload |-> p, status |-> 0]
  <2>1. /\ request[s] = None /\ q.status = 0 /\ request' = [request EXCEPT ![s] = q]
        /\ UNCHANGED <<requests, counters>>
    BY <1>1 DEF Send
  <2> HIDE DEF q
  <2>2. \A r \in Replicas, way \in Routes, codes \in Codes :
          Seen(r, way, codes)' = Seen(r, way, codes)
    BY <1>t, <2>1, SeenSends
  <2> QED BY <1>t, <2>1, <2>2, AlertsKept
<1>2. ASSUME NEW s \in Sessions, List(s) \/ RejectBody(s) PROVE AlertsAgree'
  <2>1. /\ request[s] # None /\ request[s].status = 0 /\ UNCHANGED <<requests, counters>>
        /\ \/ Decide(s, 422)
           \/ Decide(s, 200) /\ request[s].route = "list"
    BY <1>2 DEF List, RejectBody, Undecided
  <2>2. CASE Decide(s, 422)
    <3>1. \A codes \in Codes : 422 \notin codes
      BY DEF Codes
    <3>2. \A r \in Replicas, route \in Routes, codes \in Codes :
            Seen(r, route, codes)' = Seen(r, route, codes)
      BY <1>t, <2>1, <2>2, <3>1, SeenDecides DEF Statuses
    <3> QED BY <1>t, <2>1, <3>2, AlertsKept
  <2>3. CASE Decide(s, 200) /\ request[s].route = "list"
    <3>1. \A r \in Replicas, route \in Routes, codes \in Codes :
            Seen(r, route, codes)' = IF Home[s] = r /\ "list" = route /\ 200 \in codes
                                     THEN Seen(r, route, codes) + 1 ELSE Seen(r, route, codes)
      BY <1>t, <2>1, <2>3, SeenDecides DEF Statuses
    <3>2. "list" # "ingest" /\ 200 \notin {401, 403}
      OBVIOUS
    <3>3. ASSUME NEW r \in Replicas
          PROVE  /\ counters'[r]["conflicts"] = Seen(r, "ingest", {409})'
                 /\ counters'[r]["replays"] = Seen(r, "ingest", {200})'
                 /\ Refusals(r)' = Seen(r, "ingest", {401, 403})' + Seen(r, "list", {401, 403})'
      <4>1. Refusals(r)' = Refusals(r) /\ counters' = counters
        BY <2>1 DEF Refusals
      <4>2. /\ counters[r]["conflicts"] = Seen(r, "ingest", {409})
            /\ counters[r]["replays"] = Seen(r, "ingest", {200})
            /\ Refusals(r) = Seen(r, "ingest", {401, 403}) + Seen(r, "list", {401, 403})
        BY <1>t, AlertsParts DEF AlertsSeen
      <4> QED BY <1>t, <3>1, <3>2, <4>1, <4>2, AlertNumbers
    <3> QED BY <3>3, AlertsPartsNext DEF AlertsSeen
  <2> QED BY <2>1, <2>2, <2>3
<1>3. ASSUME NEW s \in Sessions, Admit(s) \/ StoreStep(s) PROVE AlertsAgree'
  BY <1>u, <1>3 DEF Admit, StoreStep
<1>4. ASSUME NEW s \in Sessions, Respond(s) PROVE AlertsAgree'
  <2>1. \A r \in Replicas, route \in Routes, codes \in Codes :
          Seen(r, route, codes)' = Seen(r, route, codes)
    BY <1>4, <1>t, SeenResponds
  <2> QED BY <1>4, <1>t, <2>1, AlertsKept DEF Respond
<1>5. ASSUME NEW r \in Replicas, Restart(r) PROVE AlertsAgree'
  <2>1. ASSUME NEW t \in Replicas
        PROVE  /\ counters'[t]["conflicts"] = Seen(t, "ingest", {409})'
               /\ counters'[t]["replays"] = Seen(t, "ingest", {200})'
               /\ Refusals(t)' = Seen(t, "ingest", {401, 403})' + Seen(t, "list", {401, 403})'
    <3>1. \A route \in Routes, codes \in Codes :
            Seen(t, route, codes)' = IF t = r THEN 0 ELSE Seen(t, route, codes)
      BY <1>5, <1>t, SeenRestarts
    <3>2. CASE t = r
      <4>1. counters'[t] = [x \in Series |-> 0]
        BY <1>5, <1>t, <3>2 DEF Restart, CountsTyped
      <4>2. counters'[t]["conflicts"] = 0 /\ counters'[t]["replays"] = 0
        BY <4>1 DEF Series
      <4>3. Refusals(t)' = 0
        <5> DEFINE f == [x \in Series |-> 0]
                   g == [x \in Reasons |-> 0]
        <5>1. Naturally(f, Reasons) /\ (\A x \in Reasons : f[x] = g[x])
              /\ DOMAIN g = Reasons /\ (\A x \in Reasons : g[x] = 0) /\ IsFiniteSet(Reasons)
          BY CodesTyped DEF Naturally
        <5> HIDE DEF f, g
        <5>2. SumFunctionOnSet(f, Reasons) = SumFunctionOnSet(g, Reasons)
          BY <5>1, SumCongruence
        <5>3. SumFunction(g) = 0 /\ SumFunction(g) = SumFunctionOnSet(g, Reasons)
          BY <5>1, SumOfZeroes DEF SumFunction
        <5> QED BY <4>1, <5>2, <5>3 DEF Refusals, f
      <4> QED BY <1>t, <3>1, <3>2, <4>2, <4>3, AlertNumbers
    <3>3. CASE t # r
      <4>1. counters'[t] = counters[t]
        BY <1>5, <1>t, <3>3 DEF Restart, CountsTyped
      <4>2. Refusals(t)' = Refusals(t)
        BY <4>1 DEF Refusals
      <4> QED BY <1>t, <3>1, <3>3, <4>1, <4>2, AlertNumbers, AlertsParts DEF AlertsSeen
    <3> QED BY <3>2, <3>3
  <2> QED BY <2>1, AlertsPartsNext DEF AlertsSeen
<1>6. ASSUME Deploy \/ Tick \/ (\E t : SwitchToken(t)) \/ UNCHANGED apiVars PROVE AlertsAgree'
  BY <1>u, <1>6 DEF Deploy, Tick, SwitchToken, apiVars
<1> QED BY <1>t, <1>1, <1>2, <1>3, <1>4, <1>5, <1>6, AlertsReturn, AlertsRefuse DEF ApiNext

(* Nothing is counted, decided or sent in the first state. *)
LEMMA CountersStart == ASSUME ApiInit, StoreInv PROVE CountInv /\ AlertsInv
<1>t. CountsTyped
  BY TypeParts DEF StoreInv
<1>1. StoredCases = {}
  BY DEF ApiInit, Init, StoredCases, RowIds
<1>2. \A r \in Replicas : Counted[r] = 0
  BY DEF ApiInit, Counted, Series
<1>3. \A s \in Sessions : Owed[s] = 0
  BY DEF ApiInit, Init, Owed, Owes
<1>4. SumFunction(Counted) = 0 /\ SumFunction(Owed) = 0
  <2>1. DOMAIN Counted = Replicas /\ DOMAIN Owed = Sessions
    BY DEF Counted, Owed
  <2> QED BY <1>2, <1>3, <2>1, SumOfZeroes, DeploymentAssumption
<1>5. CountInv
  BY <1>1, <1>4, FS_EmptySet DEF CountInv
<1>6. OnlyIngestStores
  BY DEF ApiInit, Init, OnlyIngestStores
<1>7. ASSUME NEW f, NEW S, NEW T, IsFiniteSet(S), f = [x \in T |-> 0], S \subseteq T
      PROVE  SumFunctionOnSet(f, S) = 0
  <2> DEFINE g == [x \in S |-> 0]
  <2>1. Naturally(f, S) /\ (\A x \in S : f[x] = g[x]) /\ DOMAIN g = S /\ (\A x \in S : g[x] = 0)
    BY <1>7 DEF Naturally
  <2> HIDE DEF g
  <2>2. SumFunctionOnSet(f, S) = SumFunctionOnSet(g, S)
    BY <1>7, <2>1, SumCongruence
  <2>3. SumFunction(g) = 0 /\ SumFunction(g) = SumFunctionOnSet(g, S)
    BY <1>7, <2>1, SumOfZeroes DEF SumFunction
  <2> QED BY <2>2, <2>3
<1>8. ASSUME NEW r \in Replicas, NEW route \in Routes, NEW codes \in Codes
      PROVE  Seen(r, route, codes) = 0
  <2>1. Leaving(r, route, codes) = {}
    BY DEF ApiInit, Leaving, SessionsOf
  <2>2. requests[r][route] = [c \in Statuses |-> 0]
    BY DEF ApiInit
  <2>3. SumFunctionOnSet(requests[r][route], codes) = 0
    BY <1>7, <2>2, CodesTyped
  <2> QED BY <2>1, <2>3, FS_EmptySet DEF Seen
<1>9. ASSUME NEW r \in Replicas
      PROVE  counters[r]["conflicts"] = 0 /\ counters[r]["replays"] = 0 /\ Refusals(r) = 0
  <2>1. counters[r] = [x \in Series |-> 0]
    BY DEF ApiInit
  <2>2. Refusals(r) = 0
    BY <1>7, <2>1, CodesTyped DEF Refusals
  <2> QED BY <2>1, <2>2 DEF Series
<1>10. AlertsAgree
  BY <1>t, <1>8, <1>9, AlertsParts, AlertNumbers DEF AlertsSeen
<1> QED BY <1>5, <1>6, <1>10 DEF AlertsInv

-----------------------------------------------------------------------------
(* The initial states: no request, no call, the client's first token known. *)
LEMMA ApiStart == ApiInit => StoreInv /\ RotationInv /\ AccessInv
<1> SUFFICES ASSUME ApiInit PROVE StoreInv /\ RotationInv /\ AccessInv
  OBVIOUS
<1>1. IInv
  BY InitType DEF ApiInit, Init, IInv, LedgerMatchesReceipts, ResultsHold, AckedIsDurable, ConflictIsFinal
<1>2. RequestsTyped /\ CallsMatch /\ HistoryTyped
  BY DEF ApiInit, Init, RequestsTyped, CallsMatch, HistoryTyped
<1>3. CountsTyped
  BY DEF ApiInit, CountsTyped
<1>4. SettingsTyped
  BY RolloutTyped, ApiAssumption DEF ApiInit, SettingsTyped
<1>5. RotationInv
  BY ApiAssumption DEF ApiInit, RotationInv, ClientKnown, RequestsKnown, RotationIsSeamless, Knows
<1>6. AccessInv
  BY DEF ApiInit, Init, AccessInv, CallsAuthorized, ReceiptsAuthorized
<1> QED BY <1>1, <1>2, <1>3, <1>4, <1>5, <1>6, TypeParts DEF StoreInv, IInv

(* The three invariants together are inductive. *)
LEMMA ApiInvariance == ApiSpec => [](StoreInv /\ RotationInv /\ AccessInv)
<1>1. StoreInv /\ RotationInv /\ AccessInv /\ [ApiNext]_apiVars => (StoreInv /\ RotationInv /\ AccessInv)'
  BY ApiTypeStep, ClientStep, KnownStep, SeamlessStep, AccessStep DEF RotationInv
<1> QED BY <1>1, ApiStart, PTL DEF ApiSpec

(* The invariants of the counters are inductive with those of the store. *)
LEMMA CounterInvariance == ApiSpec => [](CountInv /\ AlertsInv)
<1>1. ApiInit => CountInv /\ AlertsInv
  BY ApiStart, CountersStart
<1>2. /\ StoreInv /\ RotationInv /\ AccessInv /\ (StoreInv /\ RotationInv /\ AccessInv)'
      /\ CountInv /\ AlertsInv /\ [ApiNext]_apiVars
      => (CountInv /\ AlertsInv)'
  BY CountStep, AlertsStep, IngestStep DEF AlertsInv
<1> QED BY <1>1, <1>2, ApiInvariance, PTL DEF ApiSpec

(* The case counters never claim more than the ledger holds, for any number *)
(* of replicas and threads: a crash between the commit and the count loses  *)
(* a count, and nothing makes a batch counted twice (observe_ingestion).    *)
THEOREM CountersNeverOvercount == ApiSpec => []NeverOvercounts
<1>1. StoreInv /\ CountInv => NeverOvercounts
  <2> SUFFICES ASSUME StoreInv, CountInv PROVE NeverOvercounts
    OBVIOUS
  <2>1. SumFunction(Counted) \in Nat /\ SumFunction(Owed) \in Nat
    BY OwedTyped, SumFunctionType, DeploymentAssumption
  <2>2. Cardinality(StoredCases) \in Nat
    BY FS_CardinalityType DEF CountInv
  <2>3. SumFunction(Counted) <= Cardinality(StoredCases)
    BY <2>1, <2>2 DEF CountInv
  <2> QED BY <2>3 DEF NeverOvercounts, Counted, StoredCases
<1> QED BY <1>1, ApiInvariance, CounterInvariance, PTL

(* The two families of series always agree, but for the responses on their  *)
(* way out, and also after restarts (ApiMetrics, operational_context).      *)
THEOREM AlertsAlwaysAgree == ApiSpec => []AlertsAgree
BY CounterInvariance, PTL DEF AlertsInv

(* The variables of the service keep their types. *)
THEOREM ApiTypeCorrect == ApiSpec => []ApiTypeOK
BY ApiInvariance, PTL DEF StoreInv

(* The ledger is the receipted batches, also across restarts of the         *)
(* replicas that write it.                                                  *)
THEOREM LedgerSurvivesRestarts == ApiSpec => []LedgerMatchesReceipts
<1>1. StoreInv => LedgerMatchesReceipts
  BY DEF StoreInv, IInv
<1> QED BY <1>1, ApiInvariance, PTL

(* A batch a client was told is stored stays stored, across restarts.       *)
THEOREM AcksSurviveRestarts == ApiSpec => []AckedIsDurable
<1>1. StoreInv => AckedIsDurable
  BY DEF StoreInv, IInv
<1> QED BY <1>1, ApiInvariance, PTL

(* A client told 409 is never contradicted by another replica, or by the    *)
(* same one after a restart.                                                *)
THEOREM ConflictsSurviveRestarts == ApiSpec => []ConflictIsFinal
<1>1. StoreInv => ConflictIsFinal
  BY DEF StoreInv, IInv
<1> QED BY <1>1, ApiInvariance, PTL

(* No step of the service, restarts included, removes or rebinds what is in *)
(* the ledger ("immutable lifecycle facts").                                *)
THEOREM ServiceNeverRewrites == ApiSpec => AppendOnly
<1>1. StoreInv /\ [ApiNext]_apiVars =>
        [/\ \A r \in RowIds : stored[r] # None => stored'[r] = stored[r]
         /\ \A k \in Keys : receipts[k] # None => receipts'[k] = receipts[k]]_vars
  <2> SUFFICES ASSUME StoreInv, [ApiNext]_apiVars
               PROVE  /\ \A r \in RowIds : stored[r] # None => stored'[r] = stored[r]
                      /\ \A k \in Keys : receipts[k] # None => receipts'[k] = receipts[k]
    OBVIOUS
  <2>1. CASE [Next]_vars
    BY <2>1, AppendOnlyStep DEF StoreInv, IInv
  <2>2. CASE \E r \in Replicas : Restart(r)
    BY <2>2 DEF Restart
  <2> QED BY <2>1, <2>2, StoreSimulation DEF StoreInv
<1> QED BY <1>1, ApiInvariance, PTL DEF ApiSpec, AppendOnly

(* Nothing is stored that authorize() did not let through with a credential *)
(* in date and scoped for writing (require_scope, ApiAuthenticator).        *)
THEOREM WritesAlwaysAuthorized == ApiSpec => []WritesAreAuthorized
<1>1. ASSUME NEW c, Authorized(c)
      PROVE  \E g \in granted, d \in Credentials :
               /\ g.call.key = c.key /\ g.call.payload = c.payload
               /\ d.token = g.token /\ "cases:write" \in d.scopes
               /\ d.expires # None => g.at < d.expires
  BY <1>1 DEF Authorized
<1>2. ASSUME ReceiptsAuthorized, NEW k \in Keys, receipts[k] # None
      PROVE  \E g \in granted, d \in Credentials :
               /\ g.call.key = k /\ g.call.payload = receipts[k]
               /\ d.token = g.token /\ "cases:write" \in d.scopes
               /\ d.expires # None => g.at < d.expires
  <2> DEFINE c == [key |-> k, payload |-> receipts[k]]
  <2>1. Authorized(c)
    BY <1>2 DEF ReceiptsAuthorized
  <2>2. c.key = k /\ c.payload = receipts[k]
    OBVIOUS
  <2> HIDE DEF c
  <2> QED BY <1>1, <2>1, <2>2
<1>3. AccessInv => WritesAreAuthorized
  BY <1>2 DEF AccessInv, WritesAreAuthorized
<1> QED BY <1>3, ApiInvariance, PTL

(* A client that follows the runbook is never refused as unknown, for any   *)
(* rollout, any replicas and restarts at any time.                          *)
THEOREM RotationAlwaysSeamless == ApiSpec => []RotationIsSeamless
BY ApiInvariance, PTL DEF RotationInv

=============================================================================
