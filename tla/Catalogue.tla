------------------------------ MODULE Catalogue ------------------------------
(***************************************************************************)
(* The configuration tables of internal/store (catalog.go, access_keys.go) *)
(* under the administrator's edits, while requests load their routes from  *)
(* them with several queries, write rows that refer to them, and the log   *)
(* is cleaned.  Each edit is one transaction; a row that history refers to *)
(* is archived, any other is deleted.  The log knows access keys,          *)
(* candidates, providers and upstream keys by id, and models by the name   *)
(* they had.  The switches (enabled) and positions are left out.           *)
(***************************************************************************)
EXTENDS Naturals, FiniteSets

CONSTANTS
  AccessKey, Provider, UpstreamKey, Model, Candidate,   \* ids, each given out once
  Protocol,        \* client and upstream protocols
  Name,            \* names of models
  Request,         \* request goroutines, each with its last row in the log
  MaxRevision,     \* bound on config_revision
  MaxAttempts      \* bound on the attempts of a request

ASSUME CatalogueAssumption == MaxRevision \in Nat \ {0} /\ MaxAttempts \in Nat

VARIABLES
  accessKeys,   \* the state of each row
  providers,    \* its state and the protocols it has endpoints for
  keys,         \* upstream_keys: state and provider
  models,       \* state and name
  candidates,   \* model_candidates with their candidate_protocols
  requests,     \* the requests rows
  attempts,     \* the attempts rows of each request
  handler       \* what each handler holds

config == <<accessKeys, providers, keys, models, candidates>>
log == <<requests, attempts>>
vars == <<config, log, handler>>

(* A row that does not exist has not been inserted yet, or is deleted; an  *)
(* id never returns (AUTOINCREMENT).                                       *)
State == {"unused", "active", "archived", "deleted"}
Exists(state) == state \in {"active", "archived"}

NoRow == [state |-> "unused"]
Gone == [state |-> "deleted"]

activeKeys(p) == {k \in UpstreamKey : keys[k].state = "active" /\ keys[k].provider = p}
activeCandidates(m) ==
  {c \in Candidate : candidates[c].state = "active" /\ candidates[c].model = m}

Attempts == UNION {attempts[r] : r \in Request}

Idle == [pc |-> "idle"]
NoRequest == [state |-> "none"]

Init ==
  /\ accessKeys = [a \in AccessKey |-> "unused"]
  /\ providers = [p \in Provider |-> NoRow]
  /\ keys = [k \in UpstreamKey |-> NoRow]
  /\ models = [m \in Model |-> NoRow]
  /\ candidates = [c \in Candidate |-> NoRow]
  /\ requests = [r \in Request |-> NoRequest]
  /\ attempts = [r \in Request |-> {}]
  /\ handler = [r \in Request |-> Idle]

-----------------------------------------------------------------------------
(* Access keys.                                                            *)

CreateAccessKey(a) ==
  /\ accessKeys[a] = "unused"
  /\ accessKeys' = [accessKeys EXCEPT ![a] = "active"]
  /\ UNCHANGED <<providers, keys, models, candidates, log, handler>>

(* Archived if the log refers to it, else deleted.                         *)
DeleteAccessKey(a) ==
  /\ accessKeys[a] = "active"
  /\ accessKeys' = [accessKeys EXCEPT ![a] =
       IF \E r \in Request : requests[r].state # "none" /\ requests[r].access = a
       THEN "archived" ELSE "deleted"]
  /\ UNCHANGED <<providers, keys, models, candidates, log, handler>>

-----------------------------------------------------------------------------
(* Providers and their keys.                                               *)

inserted(p, new) ==
  [k \in UpstreamKey |-> IF k \in new THEN [state |-> "active", provider |-> p] ELSE keys[k]]

unusedKeys == {k \in UpstreamKey : keys[k].state = "unused"}

CreateProvider(p, endpoints, new) ==
  /\ providers[p].state = "unused"
  /\ endpoints # {} /\ new # {} /\ new \subseteq unusedKeys
  /\ providers' = [providers EXCEPT ![p] = [state |-> "active", endpoints |-> endpoints]]
  /\ keys' = inserted(p, new)
  /\ UNCHANGED <<accessKeys, models, candidates, log, handler>>

\* Mutant: the protocols of the candidates are compared with the ones in use
\* by the log instead of by routes.
providerUsedProtocolsLogged(p) ==
  UNION {candidates[c].protocols : c \in {d \in Candidate :
    /\ candidates[d].state = "active" /\ candidates[d].provider = p
    /\ \E t \in Attempts : t.candidate = d}}

(* The protocols under which active candidates use the provider.           *)
providerUsedProtocols(p) ==
  UNION {candidates[c].protocols : c \in {d \in Candidate :
    /\ candidates[d].state = "active" /\ candidates[d].provider = p
    /\ models[candidates[d].model].state # "archived"}}

(* UpdateProvider of a generic provider: kept is the keys that the         *)
(* administrator still lists, new the ones that are added.                 *)
UpdateProvider(p, endpoints, kept, new) ==
  /\ providers[p].state = "active"
  /\ endpoints # {} /\ kept \cup new # {}
  /\ kept \subseteq activeKeys(p) /\ new \subseteq unusedKeys
  /\ providerUsedProtocols(p) \subseteq endpoints
  /\ providers' = [providers EXCEPT ![p] = [state |-> "active", endpoints |-> endpoints]]
  /\ keys' = [k \in UpstreamKey |->
       IF k \notin activeKeys(p) \ kept THEN inserted(p, new)[k]
       ELSE IF \E t \in Attempts : t.key = k THEN [keys[k] EXCEPT !.state = "archived"]
       ELSE Gone]
  /\ UNCHANGED <<accessKeys, models, candidates, log, handler>>

(* DeleteProvider refuses while a route uses the provider.                 *)
providerInUse(p) ==
  \E c \in Candidate :
    /\ candidates[c].state = "active" /\ candidates[c].provider = p
    /\ models[candidates[c].model].state # "archived"

\* Mutant: only the candidates in use are counted.
providerArchivedLogged(p) == \E t \in Attempts : t.provider = p

(* It is archived if any candidate, or the log, refers to it.              *)
providerArchived(p) ==
  \/ \E c \in Candidate : Exists(candidates[c].state) /\ candidates[c].provider = p
  \/ \E t \in Attempts : t.provider = p

DeleteProvider(p) ==
  /\ providers[p].state = "active" /\ ~providerInUse(p)
  /\ IF providerArchived(p)
     THEN /\ providers' = [providers EXCEPT ![p].state = "archived"]
          /\ keys' = [k \in UpstreamKey |->
               IF k \in activeKeys(p) THEN [keys[k] EXCEPT !.state = "archived"] ELSE keys[k]]
     ELSE /\ providers' = [providers EXCEPT ![p] = Gone]
          /\ keys' = [k \in UpstreamKey |->
               IF Exists(keys[k].state) /\ keys[k].provider = p THEN Gone ELSE keys[k]]
  /\ UNCHANGED <<accessKeys, models, candidates, log, handler>>

-----------------------------------------------------------------------------
(* Virtual models and their candidates.                                    *)

(* What the administrator enters for a candidate.                          *)
Route == [provider : Provider, protocols : SUBSET Protocol \ {{}}]

validateCandidateProtocols(routes) ==
  \A c \in DOMAIN routes :
    /\ providers[routes[c].provider].state = "active"
    /\ routes[c].protocols \subseteq providers[routes[c].provider].endpoints

candidateRow(m, route, revision) ==
  [state |-> "active", model |-> m, provider |-> route.provider,
   protocols |-> route.protocols, revision |-> revision]

unusedCandidates == {c \in Candidate : candidates[c].state = "unused"}

(* An archived model gives its name up to the one that takes it.           *)
nameFree(m, name) == \A n \in Model \ {m} : models[n] # [state |-> "active", name |-> name]

CreateVirtualModel(m, name, routes) ==
  /\ models[m].state = "unused" /\ nameFree(m, name)
  /\ DOMAIN routes # {} /\ DOMAIN routes \subseteq unusedCandidates
  /\ validateCandidateProtocols(routes)
  /\ models' = [models EXCEPT ![m] = [state |-> "active", name |-> name]]
  /\ candidates' = [c \in Candidate |->
       IF c \in DOMAIN routes THEN candidateRow(m, routes[c], 1) ELSE candidates[c]]
  /\ UNCHANGED <<accessKeys, providers, keys, log, handler>>

\* Mutant: the revision moves only with the provider.
nextRevisionOfProvider(c, route) ==
  IF candidates[c].state = "unused" THEN 1
  ELSE IF candidates[c].provider = route.provider THEN candidates[c].revision
  ELSE candidates[c].revision + 1

(* A candidate that is kept moves to its next revision.                    *)
nextRevision(c, route) ==
  IF candidates[c].state = "unused" THEN 1 ELSE candidates[c].revision + 1

(* A candidate that is no longer listed loses its protocols.               *)
UpdateVirtualModel(m, name, routes) ==
  /\ models[m].state = "active" /\ nameFree(m, name)
  /\ DOMAIN routes # {} /\ DOMAIN routes \subseteq activeCandidates(m) \cup unusedCandidates
  /\ validateCandidateProtocols(routes)
  /\ \A c \in DOMAIN routes : nextRevision(c, routes[c]) <= MaxRevision
  /\ candidates' = [c \in Candidate |->
       IF c \in DOMAIN routes THEN candidateRow(m, routes[c], nextRevision(c, routes[c]))
       ELSE IF c \notin activeCandidates(m) THEN candidates[c]
       ELSE IF \E t \in Attempts : t.candidate = c
            THEN [candidates[c] EXCEPT !.state = "archived", !.protocols = {}]
       ELSE Gone]
  /\ models' = [models EXCEPT ![m] = [state |-> "active", name |-> name]]
  /\ UNCHANGED <<accessKeys, providers, keys, log, handler>>

candidateRows(m) ==
  {c \in Candidate : Exists(candidates[c].state) /\ candidates[c].model = m}

(* DeleteVirtualModel archives a model that the log refers to: by its      *)
(* present name, or by a candidate.                                        *)
modelArchived(m) ==
  \/ \E r \in Request : requests[r].state # "none" /\ requests[r].name = models[m].name
  \/ \E t \in Attempts : t.candidate \in candidateRows(m)

DeleteVirtualModel(m) ==
  /\ models[m].state = "active"
  /\ IF modelArchived(m)
     THEN /\ models' = [models EXCEPT ![m] = [state |-> "archived"]]
          /\ candidates' = [c \in Candidate |->
               IF c \in activeCandidates(m) THEN [candidates[c] EXCEPT !.state = "archived"]
               ELSE candidates[c]]
     ELSE /\ models' = [models EXCEPT ![m] = Gone]
          /\ candidates' = [c \in Candidate |->
               IF c \in candidateRows(m) THEN Gone ELSE candidates[c]]
  /\ UNCHANGED <<accessKeys, providers, keys, log, handler>>

-----------------------------------------------------------------------------
(* Requests.                                                               *)

(* AuthenticateAccessKey; the body names the model.                        *)
Authenticate(r, a, name) ==
  /\ handler[r] = Idle /\ requests[r] = NoRequest
  /\ accessKeys[a] = "active"
  /\ handler' = [handler EXCEPT ![r] = [pc |-> "start", access |-> a, name |-> name]]
  /\ UNCHANGED <<config, log>>

(* StartRequest; the request is refused if its access key's row has gone.  *)
StartRequest(r) ==
  LET h == handler[r]
  IN  /\ h.pc = "start"
      /\ IF Exists(accessKeys[h.access])
         THEN /\ handler' = [handler EXCEPT ![r] = [pc |-> "model"]]
              /\ requests' = [requests EXCEPT ![r] =
                   [state |-> "in_progress", name |-> h.name, access |-> h.access]]
         ELSE handler' = [handler EXCEPT ![r] = Idle] /\ UNCHANGED requests
      /\ UNCHANGED <<config, attempts>>

(* CompleteRequest, by any exit.                                           *)
Finish(r) ==
  /\ requests' = [requests EXCEPT ![r].state = "ended"]
  /\ handler' = [handler EXCEPT ![r] = Idle]
  /\ UNCHANGED <<config, attempts>>

Continue(r, h) ==
  /\ handler' = [handler EXCEPT ![r] = h]
  /\ UNCHANGED <<config, log>>

(* The queries of loadRouteTemplates run one by one, without a             *)
(* transaction: the model's id by its name ...                             *)
LoadModel(r) ==
  /\ handler[r].pc = "model"
  /\ \/ \E m \in Model :
          /\ models[m] = [state |-> "active", name |-> requests[r].name]
          /\ Continue(r, [pc |-> "candidates", model |-> m])
     \/ /\ \A m \in Model : models[m] # [state |-> "active", name |-> requests[r].name]
        /\ Finish(r)

(* ... its candidates ...                                                  *)
LoadCandidates(r) ==
  LET found == activeCandidates(handler[r].model)
  IN  /\ handler[r].pc = "candidates"
      /\ IF found = {} THEN Finish(r)
         ELSE Continue(r, [pc |-> "protocols",
                found |-> [c \in found |->
                  [provider |-> candidates[c].provider, revision |-> candidates[c].revision]]])

(* ... their protocols, of which one is chosen for each candidate (there   *)
(* may be none that fits) ...                                              *)
LoadProtocols(r) ==
  LET found == handler[r].found
      protocolRows(c) == IF Exists(candidates[c].state) THEN candidates[c].protocols ELSE {}
  IN  /\ handler[r].pc = "protocols"
      /\ \E chosen \in [DOMAIN found -> Protocol \cup {"none"}] :
           /\ \A c \in DOMAIN found : chosen[c] \in protocolRows(c) \cup {"none"}
           /\ Continue(r, [pc |-> "providers", routes |-> {},
                found |-> [c \in {d \in DOMAIN found : chosen[d] # "none"} |->
                  [provider |-> found[c].provider, revision |-> found[c].revision,
                   protocol |-> chosen[c]]]])

(* ... and then, candidate by candidate, providerByID: the provider, whose *)
(* absence fails the whole load, ...                                       *)
LoadProvider(r) ==
  LET h == handler[r]
  IN  /\ h.pc = "providers"
      /\ \E c \in DOMAIN h.found :
           IF providers[h.found[c].provider].state # "active" THEN Finish(r)
           ELSE Continue(r, [pc |-> "endpoints", routes |-> h.routes, found |-> h.found, at |-> c])

(* (the candidates that are left once c is done)                           *)
rest(h) == [c \in DOMAIN h.found \ {h.at} |-> h.found[c]]

(* ... its endpoints (without one the candidate is skipped) ...            *)
LoadEndpoints(r) ==
  LET h == handler[r]
      p == providers[h.found[h.at].provider]
  IN  /\ h.pc = "endpoints"
      /\ IF Exists(p.state) /\ h.found[h.at].protocol \in p.endpoints
         THEN Continue(r, [pc |-> "keys", routes |-> h.routes, found |-> h.found, at |-> h.at])
         ELSE Continue(r, [pc |-> "providers", routes |-> h.routes, found |-> rest(h)])

(* ... and its keys.                                                       *)
LoadKeys(r) ==
  LET h == handler[r]
      f == h.found[h.at]
  IN  /\ h.pc = "keys"
      /\ Continue(r, [pc |-> "providers", found |-> rest(h), routes |-> h.routes \cup
           {[candidate |-> h.at, provider |-> f.provider, revision |-> f.revision,
             protocol |-> f.protocol, key |-> k] : k \in activeKeys(f.provider)}])

(* Without a route the request is over.                                    *)
Loaded(r) ==
  /\ handler[r].pc = "providers" /\ handler[r].found = <<>>
  /\ IF handler[r].routes = {} THEN Finish(r)
     ELSE Continue(r, [pc |-> "serve", routes |-> handler[r].routes])

(* StartAttempt for one of the routes; a row that refers to nothing is     *)
(* refused, and the request ends.                                          *)
StartAttempt(r) ==
  /\ handler[r].pc = "serve"
  /\ \E t \in handler[r].routes :
       IF /\ Exists(candidates[t.candidate].state)
          /\ Exists(providers[t.provider].state)
          /\ Exists(keys[t.key].state)
       THEN /\ Cardinality(attempts[r]) < MaxAttempts
            /\ attempts' = [attempts EXCEPT ![r] = @ \cup
                 {[candidate |-> t.candidate, provider |-> t.provider, key |-> t.key]}]
            /\ UNCHANGED <<config, requests, handler>>
       ELSE Finish(r)

Served(r) == handler[r].pc = "serve" /\ Finish(r)

(* CleanupLogs deletes a request that has ended, and its attempts.         *)
DeleteRecords(r) ==
  /\ requests[r].state = "ended"
  /\ requests' = [requests EXCEPT ![r] = NoRequest]
  /\ attempts' = [attempts EXCEPT ![r] = {}]
  /\ UNCHANGED <<config, handler>>

(* The process is killed; at the next start its requests are closed.       *)
Restart ==
  /\ handler' = [r \in Request |-> Idle]
  /\ requests' = [r \in Request |->
       IF requests[r].state = "in_progress" THEN [requests[r] EXCEPT !.state = "ended"]
       ELSE requests[r]]
  /\ UNCHANGED <<config, attempts>>

-----------------------------------------------------------------------------
RouteLists(cs) == UNION {[d -> Route] : d \in SUBSET cs}

EditProvider(p) ==
  \/ \E endpoints \in SUBSET Protocol, new \in SUBSET unusedKeys :
       \/ CreateProvider(p, endpoints, new)
       \/ \E kept \in SUBSET activeKeys(p) : UpdateProvider(p, endpoints, kept, new)
  \/ DeleteProvider(p)

EditModel(m) ==
  \/ \E name \in Name, routes \in RouteLists(activeCandidates(m) \cup unusedCandidates) :
       CreateVirtualModel(m, name, routes) \/ UpdateVirtualModel(m, name, routes)
  \/ DeleteVirtualModel(m)

Handle(r) ==
  \/ StartRequest(r)
  \/ LoadModel(r) \/ LoadCandidates(r) \/ LoadProtocols(r)
  \/ LoadProvider(r) \/ LoadEndpoints(r) \/ LoadKeys(r) \/ Loaded(r)
  \/ StartAttempt(r) \/ Served(r)

Next ==
  \/ \E a \in AccessKey : CreateAccessKey(a) \/ DeleteAccessKey(a)
  \/ \E p \in Provider : EditProvider(p)
  \/ \E m \in Model : EditModel(m)
  \/ \E r \in Request :
       \/ \E a \in AccessKey, name \in Name : Authenticate(r, a, name)
       \/ Handle(r)
       \/ DeleteRecords(r)
  \/ Restart

Spec == Init /\ [][Next]_vars

-----------------------------------------------------------------------------
(* Properties.                                                             *)

Live == {"active", "archived"}

(* What a load has found of the candidates it has still to see.            *)
Found(rows) == UNION {[cs -> rows] : cs \in SUBSET Candidate}
FoundRow == [provider : Provider, revision : 1..MaxRevision]
ChosenRow == [provider : Provider, revision : 1..MaxRevision, protocol : Protocol]

LoadedRoute ==
  [candidate : Candidate, provider : Provider, revision : 1..MaxRevision, protocol : Protocol,
   key : UpstreamKey]

Handler ==
  {Idle, [pc |-> "model"]}
    \cup [pc : {"start"}, access : AccessKey, name : Name]
    \cup [pc : {"candidates"}, model : Model]
    \cup [pc : {"protocols"}, found : Found(FoundRow)]
    \cup [pc : {"providers"}, found : Found(ChosenRow), routes : SUBSET LoadedRoute]
    \cup [pc : {"endpoints", "keys"}, found : Found(ChosenRow), routes : SUBSET LoadedRoute,
          at : Candidate]
    \cup [pc : {"serve"}, routes : SUBSET LoadedRoute]

(* The rows of the tables, and what handlers hold.                         *)
TypeOK ==
  /\ accessKeys \in [AccessKey -> State]
  /\ providers \in [Provider -> {NoRow, Gone} \cup [state : Live, endpoints : SUBSET Protocol]]
  /\ keys \in [UpstreamKey -> {NoRow, Gone} \cup [state : Live, provider : Provider]]
  /\ models \in [Model -> {NoRow, Gone, [state |-> "archived"]}
                           \cup [state : {"active"}, name : Name]]
  /\ candidates \in [Candidate -> {NoRow, Gone} \cup
       [state : Live, model : Model, provider : Provider, protocols : SUBSET Protocol,
        revision : 1..MaxRevision]]
  /\ requests \in [Request -> {NoRequest} \cup
       [state : {"in_progress", "ended"}, name : Name, access : AccessKey]]
  /\ attempts \in [Request -> SUBSET
       [candidate : Candidate, provider : Provider, key : UpstreamKey]]
  /\ handler \in [Request -> Handler]

(* Every route is whole: an active candidate belongs to an active model    *)
(* and to a provider that has not been deleted and has an endpoint for     *)
(* each of the candidate's protocols, through all the edits of models and  *)
(* providers, each of which checks the other table.                        *)
RoutesAreWhole ==
  \A c \in Candidate : candidates[c].state = "active" =>
    /\ models[candidates[c].model].state = "active"
    /\ providers[candidates[c].provider].state = "active"
    /\ candidates[c].protocols \subseteq providers[candidates[c].provider].endpoints

(* Nothing that is referred to is ever deleted: each deletion counts       *)
(* references by a query of its own, and finds every row that the schema's *)
(* foreign keys would hold against it, over renamed models, candidates     *)
(* that moved to another provider or were archived, and history that comes *)
(* and goes.                                                               *)
ReferencesHold ==
  /\ \A t \in Attempts :
       /\ Exists(candidates[t.candidate].state)
       /\ Exists(providers[t.provider].state)
       /\ Exists(keys[t.key].state)
  /\ \A k \in UpstreamKey : Exists(keys[k].state) => Exists(providers[keys[k].provider].state)
  /\ \A c \in Candidate : Exists(candidates[c].state) =>
       /\ Exists(models[candidates[c].model].state)
       /\ Exists(providers[candidates[c].provider].state)
  /\ \A r \in Request : requests[r].state # "none" => Exists(accessKeys[requests[r].access])

(* Whatever edits fall between the queries of a load, the route it makes   *)
(* of a candidate is that of its current configuration, if it carries the  *)
(* current revision: the results of calls through a mixture of two         *)
(* configurations never count against the newer one (MarkModelCandidate,   *)
(* candidateFailed).                                                       *)
RouteMatchesRevision ==
  \A r \in Request : handler[r].pc \in {"providers", "endpoints", "keys", "serve"} =>
    \A t \in handler[r].routes :
      /\ keys[t.key].state # "deleted" => keys[t.key].provider = t.provider
      /\ LET c == candidates[t.candidate]
         IN  c.state = "active" /\ c.revision = t.revision =>
               c.provider = t.provider /\ t.protocol \in c.protocols
=============================================================================
