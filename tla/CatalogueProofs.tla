--------------------------- MODULE CatalogueProofs ---------------------------
(***************************************************************************)
(* Proofs about Catalogue, for any sets of rows, protocols and requests    *)
(* and any number of revisions and attempts.                               *)
(***************************************************************************)
EXTENDS Catalogue, TLAPS

(* A request that has been started has its row, until it is over.          *)
RowsOfHandlers ==
  \A r \in Request : handler[r].pc \notin {"idle", "start"} => requests[r].state = "in_progress"

(* The key of an attempt belongs to the attempt's provider.                *)
AttemptLinks == \A t \in Attempts : keys[t.key].provider = t.provider

(* What a handler has read of candidate c: f, at the revision it had.      *)
Read(c, f) ==
  /\ candidates[c].state # "unused"
  /\ Exists(candidates[c].state) => f.revision <= candidates[c].revision
  /\ candidates[c].state = "active" /\ candidates[c].revision = f.revision =>
       candidates[c].provider = f.provider

Chosen(c, f) ==
  candidates[c].state = "active" /\ candidates[c].revision = f.revision =>
    f.protocol \in candidates[c].protocols

ReadKey(t) ==
  /\ keys[t.key].state # "unused"
  /\ Exists(keys[t.key].state) => keys[t.key].provider = t.provider

(* The strengthening of RouteMatchesRevision: it holds of every part of a  *)
(* load, because a row only changes with its revision and never comes back.*)
Loads(h) ==
  /\ h.pc \in {"protocols", "providers", "endpoints", "keys"} =>
       \A c \in DOMAIN h.found : Read(c, h.found[c])
  /\ h.pc \in {"providers", "endpoints", "keys"} => \A c \in DOMAIN h.found : Chosen(c, h.found[c])
  /\ h.pc \in {"endpoints", "keys"} => h.at \in DOMAIN h.found
  /\ h.pc \in {"providers", "endpoints", "keys", "serve"} =>
       \A t \in h.routes : Read(t.candidate, t) /\ Chosen(t.candidate, t) /\ ReadKey(t)

LoadsHold == \A r \in Request : Loads(handler[r])

IInv ==
  /\ TypeOK
  /\ RoutesAreWhole
  /\ ReferencesHold
  /\ RowsOfHandlers
  /\ AttemptLinks
  /\ LoadsHold

-----------------------------------------------------------------------------
(* The rows of a type-correct state.                                       *)

ProviderRow == [state : Live, endpoints : SUBSET Protocol]
KeyRow == [state : Live, provider : Provider]
CandidateRow ==
  [state : Live, model : Model, provider : Provider, protocols : SUBSET Protocol,
   revision : 1..MaxRevision]
RequestRow == [state : {"in_progress", "ended"}, name : Name, access : AccessKey]
AttemptRow == [candidate : Candidate, provider : Provider, key : UpstreamKey]

LEMMA Typed ==
  ASSUME TypeOK
  PROVE  /\ \A p \in Provider : providers[p] \in {NoRow, Gone} \cup ProviderRow
         /\ \A p \in Provider : Exists(providers[p].state) => providers[p] \in ProviderRow
         /\ \A k \in UpstreamKey : keys[k] \in {NoRow, Gone} \cup KeyRow
         /\ \A k \in UpstreamKey : Exists(keys[k].state) => keys[k] \in KeyRow
         /\ \A c \in Candidate : candidates[c] \in {NoRow, Gone} \cup CandidateRow
         /\ \A c \in Candidate : Exists(candidates[c].state) => candidates[c] \in CandidateRow
         /\ \A r \in Request : requests[r] \in {NoRequest} \cup RequestRow
         /\ \A r \in Request : requests[r].state # "none" => requests[r] \in RequestRow
         /\ \A r \in Request : attempts[r] \in SUBSET AttemptRow
         /\ Attempts \in SUBSET AttemptRow
         /\ \A r \in Request : handler[r] \in Handler
BY DEF TypeOK, ProviderRow, KeyRow, CandidateRow, RequestRow, AttemptRow, NoRow, Gone, Live,
   Exists, NoRequest, Attempts

(* The functions of a load.                                                *)
LEMMA FoundRows ==
  ASSUME NEW rows, NEW f \in Found(rows)
  PROVE  DOMAIN f \subseteq Candidate /\ \A c \in DOMAIN f : f[c] \in rows
BY DEF Found

LEMMA RowsFound ==
  ASSUME NEW rows, NEW cs \in SUBSET Candidate, NEW f \in [cs -> rows]
  PROVE  f \in Found(rows)
BY DEF Found

(* What a handler may hold in each of its states.                          *)
LEMMA Holds ==
  ASSUME NEW h \in Handler
  PROVE  /\ h.pc = "start" => h.access \in AccessKey /\ h.name \in Name
         /\ h.pc = "candidates" => h.model \in Model
         /\ h.pc = "protocols" => h.found \in Found(FoundRow)
         /\ h.pc \in {"providers", "endpoints", "keys"} => h.found \in Found(ChosenRow)
         /\ h.pc \in {"endpoints", "keys"} => h.at \in Candidate
         /\ h.pc \in {"providers", "endpoints", "keys", "serve"} => h.routes \in SUBSET LoadedRoute
         /\ h.pc \in {"idle", "start", "model", "candidates", "protocols", "providers",
                      "endpoints", "keys", "serve"}
         /\ h.pc = "idle" => h = Idle
BY DEF Handler, Idle

-----------------------------------------------------------------------------
(* The administrator's edits.                                              *)

(* What an edit may do to a row that a handler has read: nothing, unless   *)
(* its revision moves or it is archived or deleted.                        *)
RowsMoveOn ==
  /\ \A c \in Candidate : candidates[c].state # "unused" =>
       /\ candidates'[c].state # "unused"
       /\ Exists(candidates'[c].state) =>
            /\ Exists(candidates[c].state)
            /\ candidates[c].revision <= candidates'[c].revision
       /\ candidates'[c].state = "active" =>
            \/ candidates'[c] = candidates[c]
            \/ candidates[c].revision < candidates'[c].revision
  /\ \A k \in UpstreamKey : keys[k].state # "unused" =>
       /\ keys'[k].state # "unused"
       /\ Exists(keys'[k].state) => Exists(keys[k].state) /\ keys'[k].provider = keys[k].provider

LEMMA EditsKeepLoads ==
  ASSUME IInv, TypeOK', RowsMoveOn, UNCHANGED handler
  PROVE  LoadsHold'
<1>1. ASSUME NEW c \in Candidate, NEW f \in FoundRow \cup ChosenRow \cup LoadedRoute, Read(c, f)
      PROVE  Read(c, f)'
  <2>1. f.revision \in Nat
    BY CatalogueAssumption DEF FoundRow, ChosenRow, LoadedRoute
  <2>2. Exists(candidates[c].state) => candidates[c].revision \in Nat
    BY Typed, CatalogueAssumption DEF IInv, CandidateRow
  <2>3. Exists(candidates'[c].state) => candidates'[c].revision \in Nat
    BY CatalogueAssumption DEF TypeOK, NoRow, Gone, Exists
  <2> QED
    BY <1>1, <2>1, <2>2, <2>3 DEF Read, RowsMoveOn, Exists
<1>2. ASSUME NEW c \in Candidate, NEW f \in ChosenRow \cup LoadedRoute, Read(c, f), Chosen(c, f)
      PROVE  Chosen(c, f)'
  <2>1. f.revision \in Nat
    BY CatalogueAssumption DEF ChosenRow, LoadedRoute
  <2>2. Exists(candidates[c].state) => candidates[c].revision \in Nat
    BY Typed, CatalogueAssumption DEF IInv, CandidateRow
  <2>3. Exists(candidates'[c].state) => candidates'[c].revision \in Nat
    BY CatalogueAssumption DEF TypeOK, NoRow, Gone, Exists
  <2> QED
    BY <1>2, <2>1, <2>2, <2>3 DEF Read, Chosen, RowsMoveOn, Exists
<1>3. ASSUME NEW t \in LoadedRoute, ReadKey(t)
      PROVE  ReadKey(t)'
  BY <1>3 DEF ReadKey, RowsMoveOn, LoadedRoute
<1> SUFFICES ASSUME NEW r \in Request
             PROVE  Loads(handler[r])'
  BY DEF LoadsHold
<1> DEFINE h == handler[r]
<1>4. h \in Handler
  BY Typed DEF IInv
<1>5. ASSUME h.pc = "protocols", NEW c \in DOMAIN h.found
      PROVE  Read(c, h.found[c])'
  <2>1. c \in Candidate /\ h.found[c] \in FoundRow
    BY <1>4, <1>5, Holds, FoundRows
  <2>2. Read(c, h.found[c])
    BY <1>5 DEF IInv, LoadsHold, Loads
  <2> QED
    BY <1>1, <2>1, <2>2
<1>6. ASSUME h.pc \in {"providers", "endpoints", "keys"}, NEW c \in DOMAIN h.found
      PROVE  Read(c, h.found[c])' /\ Chosen(c, h.found[c])'
  <2>1. c \in Candidate /\ h.found[c] \in ChosenRow
    BY <1>4, <1>6, Holds, FoundRows
  <2>2. Read(c, h.found[c]) /\ Chosen(c, h.found[c])
    BY <1>6 DEF IInv, LoadsHold, Loads
  <2> QED
    BY <1>1, <1>2, <2>1, <2>2
<1>7. ASSUME h.pc \in {"providers", "endpoints", "keys", "serve"}, NEW t \in h.routes
      PROVE  Read(t.candidate, t)' /\ Chosen(t.candidate, t)' /\ ReadKey(t)'
  <2>1. t \in LoadedRoute
    BY <1>4, <1>7, Holds
  <2>2. t.candidate \in Candidate
    BY <2>1 DEF LoadedRoute
  <2>3. Read(t.candidate, t) /\ Chosen(t.candidate, t) /\ ReadKey(t)
    BY <1>7 DEF IInv, LoadsHold, Loads
  <2> QED
    BY <1>1, <1>2, <1>3, <2>1, <2>2, <2>3
<1>8. h.pc \in {"endpoints", "keys"} => h.at \in DOMAIN h.found
  BY DEF IInv, LoadsHold, Loads
<1> QED
  BY <1>5, <1>6, <1>7, <1>8 DEF Loads, Read, Chosen, ReadKey

LEMMA CreateAccessKeyIInv ==
  ASSUME IInv, NEW a \in AccessKey, CreateAccessKey(a)
  PROVE  IInv'
<1>1. /\ accessKeys' = [accessKeys EXCEPT ![a] = "active"] /\ accessKeys[a] = "unused"
      /\ UNCHANGED <<providers, keys, models, candidates, requests, attempts, handler>>
  BY DEF CreateAccessKey, log
<1>2. TypeOK'
  BY <1>1 DEF IInv, TypeOK, State
<1>3. RoutesAreWhole' /\ RowsOfHandlers' /\ AttemptLinks'
  BY <1>1 DEF IInv, RoutesAreWhole, RowsOfHandlers, AttemptLinks, Attempts
<1>4. ReferencesHold'
  BY <1>1 DEF IInv, TypeOK, ReferencesHold, Attempts, Exists
<1>5. LoadsHold'
  BY <1>1 DEF IInv, LoadsHold, Loads, Read, Chosen, ReadKey
<1> QED
  BY <1>2, <1>3, <1>4, <1>5 DEF IInv

LEMMA DeleteAccessKeyIInv ==
  ASSUME IInv, NEW a \in AccessKey, DeleteAccessKey(a)
  PROVE  IInv'
<1> DEFINE state == IF \E r \in Request : requests[r].state # "none" /\ requests[r].access = a
                    THEN "archived" ELSE "deleted"
<1>1. /\ accessKeys' = [accessKeys EXCEPT ![a] = state] /\ accessKeys[a] = "active"
      /\ UNCHANGED <<providers, keys, models, candidates, requests, attempts, handler>>
  BY DEF DeleteAccessKey, log
<1>2. /\ state \in State
      /\ \A r \in Request : requests[r].state # "none" /\ requests[r].access = a => Exists(state)
  BY DEF State, Exists
<1> HIDE DEF state
<1>3. TypeOK'
  BY <1>1, <1>2 DEF IInv, TypeOK
<1>4. RoutesAreWhole' /\ RowsOfHandlers' /\ AttemptLinks'
  BY <1>1 DEF IInv, RoutesAreWhole, RowsOfHandlers, AttemptLinks, Attempts
<1>5. ReferencesHold'
  BY <1>1, <1>2 DEF IInv, TypeOK, ReferencesHold, Attempts
<1>6. LoadsHold'
  BY <1>1 DEF IInv, LoadsHold, Loads, Read, Chosen, ReadKey
<1> QED
  BY <1>3, <1>4, <1>5, <1>6 DEF IInv

LEMMA CreateProviderIInv ==
  ASSUME IInv, NEW p \in Provider, NEW endpoints \in SUBSET Protocol,
         NEW new \in SUBSET UpstreamKey, CreateProvider(p, endpoints, new)
  PROVE  IInv'
<1> DEFINE row == [state |-> "active", endpoints |-> endpoints]
           keyRow == [state |-> "active", provider |-> p]
<1>1. /\ providers' = [providers EXCEPT ![p] = row]
      /\ keys' = [k \in UpstreamKey |-> IF k \in new THEN keyRow ELSE keys[k]]
      /\ providers[p].state = "unused" /\ \A k \in new : keys[k].state = "unused"
      /\ UNCHANGED <<accessKeys, models, candidates, requests, attempts, handler>>
  BY DEF CreateProvider, log, inserted, unusedKeys
<1>2. row \in ProviderRow /\ row.state = "active" /\ row.endpoints = endpoints
  BY DEF ProviderRow, Live
<1>3. keyRow \in KeyRow /\ keyRow.state = "active" /\ keyRow.provider = p
  BY DEF KeyRow, Live
<1> HIDE DEF row, keyRow
<1>4. TypeOK'
  BY <1>1, <1>2, <1>3 DEF IInv, TypeOK, ProviderRow, KeyRow
<1>5. RoutesAreWhole'
  BY <1>1, Typed DEF IInv, TypeOK, RoutesAreWhole, CandidateRow, Exists
<1>6. ReferencesHold'
  <2>1. \A q \in Provider : Exists(providers[q].state) => Exists(providers'[q].state)
    BY <1>1, <1>2 DEF IInv, TypeOK, Exists
  <2>2. \A k \in UpstreamKey : Exists(keys[k].state) => keys'[k] = keys[k]
    BY <1>1 DEF Exists
  <2>3. \A k \in UpstreamKey : Exists(keys'[k].state) => Exists(providers'[keys'[k].provider].state)
    <3> SUFFICES ASSUME NEW k \in UpstreamKey, Exists(keys'[k].state)
                 PROVE  Exists(providers'[keys'[k].provider].state)
      OBVIOUS
    <3>1. CASE k \in new
      BY <1>1, <1>2, <1>3, <3>1 DEF IInv, TypeOK, Exists
    <3>2. CASE k \notin new
      BY <1>1, <2>1, <3>2, Typed DEF IInv, ReferencesHold, KeyRow
    <3> QED
      BY <3>1, <3>2
  <2>4. \A t \in Attempts : t \in AttemptRow
    BY Typed DEF IInv
  <2> QED
    BY <1>1, <2>1, <2>2, <2>3, <2>4, Typed DEF IInv, ReferencesHold, Attempts, AttemptRow, CandidateRow
<1>7. RowsOfHandlers'
  BY <1>1 DEF IInv, RowsOfHandlers
<1>8. AttemptLinks'
  BY <1>1, Typed DEF IInv, ReferencesHold, AttemptLinks, Attempts, AttemptRow, Exists
<1>9. RowsMoveOn
  BY <1>1, Typed, CatalogueAssumption DEF IInv, RowsMoveOn, CandidateRow, Exists
<1> QED
  BY <1>1, <1>4, <1>5, <1>6, <1>7, <1>8, <1>9, EditsKeepLoads DEF IInv

LEMMA UpdateProviderIInv ==
  ASSUME IInv, NEW p \in Provider, NEW endpoints \in SUBSET Protocol,
         NEW kept \in SUBSET UpstreamKey, NEW new \in SUBSET UpstreamKey,
         UpdateProvider(p, endpoints, kept, new)
  PROVE  IInv'
<1> DEFINE row == [state |-> "active", endpoints |-> endpoints]
           keyRow == [state |-> "active", provider |-> p]
           old(k) == [keys[k] EXCEPT !.state = "archived"]
<1>1. /\ providers' = [providers EXCEPT ![p] = row] /\ providers[p].state = "active"
      /\ \A k \in new : keys[k].state = "unused"
      /\ providerUsedProtocols(p) \subseteq endpoints
      /\ UNCHANGED <<accessKeys, models, candidates, requests, attempts, handler>>
  BY DEF UpdateProvider, log, unusedKeys
<1>2. row \in ProviderRow /\ row.state = "active" /\ row.endpoints = endpoints
  BY DEF ProviderRow, Live
<1>3. keyRow \in KeyRow /\ keyRow.state = "active" /\ keyRow.provider = p
  BY DEF KeyRow, Live
<1>4. ASSUME NEW k \in UpstreamKey
      PROVE  \/ keys'[k] = keyRow /\ keys[k].state = "unused"
             \/ keys'[k] = keys[k]
             \/ keys[k].state = "active" /\ keys'[k] = old(k)
             \/ keys[k].state = "active" /\ keys'[k] = Gone /\ \A t \in Attempts : t.key # k
  BY <1>1 DEF UpdateProvider, inserted, activeKeys
<1>5. ASSUME NEW k \in UpstreamKey, Exists(keys[k].state)
      PROVE  old(k) \in KeyRow /\ old(k).state = "archived" /\ old(k).provider = keys[k].provider
  BY <1>5, Typed DEF IInv, KeyRow, Live
<1> HIDE DEF row, keyRow, old
<1>6. TypeOK'
  <2>1. \A k \in UpstreamKey : keys'[k] \in {NoRow, Gone} \cup KeyRow
    BY <1>3, <1>4, <1>5, Typed DEF IInv, Exists
  <2>2. keys' = [k \in UpstreamKey |-> keys'[k]]
    BY DEF UpdateProvider
  <2>3. keys' \in [UpstreamKey -> {NoRow, Gone} \cup KeyRow]
    BY <2>1, <2>2
  <2> QED
    BY <1>1, <1>2, <2>3 DEF IInv, TypeOK, ProviderRow, KeyRow
<1>7. RoutesAreWhole'
  <2> SUFFICES ASSUME NEW c \in Candidate, candidates[c].state = "active"
               PROVE  /\ models[candidates[c].model].state = "active"
                      /\ providers'[candidates[c].provider].state = "active"
                      /\ candidates[c].protocols \subseteq providers'[candidates[c].provider].endpoints
    BY <1>1 DEF RoutesAreWhole
  <2>1. candidates[c].provider = p => candidates[c].protocols \subseteq endpoints
    BY <1>1 DEF IInv, RoutesAreWhole, providerUsedProtocols
  <2>2. candidates[c].provider \in Provider
    BY Typed DEF IInv, Exists, CandidateRow
  <2> QED
    BY <1>1, <1>2, <2>1, <2>2 DEF IInv, TypeOK, RoutesAreWhole
<1>8. ReferencesHold'
  <2>1. \A q \in Provider : Exists(providers[q].state) => Exists(providers'[q].state)
    BY <1>1, <1>2 DEF IInv, TypeOK, Exists
  <2>2. \A t \in Attempts : t \in AttemptRow
    BY Typed DEF IInv
  <2>3. \A t \in Attempts : Exists(keys'[t.key].state)
    BY <1>4, <1>5, <2>2 DEF IInv, ReferencesHold, Exists, AttemptRow
  <2>4. \A k \in UpstreamKey : Exists(keys'[k].state) => Exists(providers'[keys'[k].provider].state)
    <3> SUFFICES ASSUME NEW k \in UpstreamKey, Exists(keys'[k].state)
                 PROVE  Exists(providers'[keys'[k].provider].state)
      OBVIOUS
    <3>1. CASE keys'[k] = keyRow
      BY <1>1, <1>2, <1>3, <3>1 DEF IInv, TypeOK, Exists
    <3>2. CASE keys'[k] # keyRow
      <4>1. Exists(keys[k].state) /\ keys'[k].provider = keys[k].provider
        BY <1>4, <1>5, <3>2 DEF Exists, Gone
      <4>2. keys[k].provider \in Provider
        BY <4>1, Typed DEF IInv, KeyRow
      <4> QED
        BY <2>1, <4>1, <4>2 DEF IInv, ReferencesHold
    <3> QED
      BY <3>1, <3>2
  <2> QED
    BY <1>1, <2>1, <2>2, <2>3, <2>4, Typed DEF IInv, ReferencesHold, Attempts, AttemptRow, CandidateRow
<1>9. RowsOfHandlers'
  BY <1>1 DEF IInv, RowsOfHandlers
<1>10. RowsMoveOn
  <2>1. \A k \in UpstreamKey : keys[k].state # "unused" =>
          /\ keys'[k].state # "unused"
          /\ Exists(keys'[k].state) => Exists(keys[k].state) /\ keys'[k].provider = keys[k].provider
    BY <1>4, <1>5 DEF Exists, Gone
  <2> QED
    BY <1>1, <2>1, Typed, CatalogueAssumption DEF IInv, RowsMoveOn, CandidateRow, Exists
<1>11. AttemptLinks'
  <2>1. ASSUME NEW t \in Attempts
        PROVE  keys'[t.key].provider = t.provider
    <3>1. t.key \in UpstreamKey
      BY Typed DEF IInv, AttemptRow
    <3>2. Exists(keys[t.key].state) /\ keys[t.key].provider = t.provider
      BY DEF IInv, ReferencesHold, AttemptLinks
    <3>3. Exists(keys'[t.key].state)
      BY <1>8, <1>1 DEF ReferencesHold, Attempts
    <3> QED
      BY <1>10, <3>1, <3>2, <3>3 DEF RowsMoveOn, Exists
  <2> QED
    BY <1>1, <2>1 DEF AttemptLinks, Attempts
<1> QED
  BY <1>1, <1>6, <1>7, <1>8, <1>9, <1>10, <1>11, EditsKeepLoads DEF IInv

LEMMA DeleteProviderIInv ==
  ASSUME IInv, NEW p \in Provider, DeleteProvider(p)
  PROVE  IInv'
<1> DEFINE gone == [providers[p] EXCEPT !.state = "archived"]
           old(k) == [keys[k] EXCEPT !.state = "archived"]
           kept == providerArchived(p)
<1>1. /\ providers[p].state = "active" /\ ~providerInUse(p)
      /\ providers' = [providers EXCEPT ![p] = IF kept THEN gone ELSE Gone]
      /\ UNCHANGED <<accessKeys, models, candidates, requests, attempts, handler>>
  BY DEF DeleteProvider, log
<1>2. gone \in ProviderRow /\ gone.state = "archived"
  BY <1>1, Typed DEF IInv, Exists, ProviderRow, Live
<1>3. ASSUME NEW k \in UpstreamKey
      PROVE  \/ keys'[k] = keys[k] /\ (~kept => ~(Exists(keys[k].state) /\ keys[k].provider = p))
             \/ kept /\ keys[k].state = "active" /\ keys'[k] = old(k)
             \/ ~kept /\ Exists(keys[k].state) /\ keys[k].provider = p /\ keys'[k] = Gone
  BY DEF DeleteProvider, activeKeys
<1>4. ASSUME NEW k \in UpstreamKey, Exists(keys[k].state)
      PROVE  old(k) \in KeyRow /\ old(k).state = "archived" /\ old(k).provider = keys[k].provider
  BY <1>4, Typed DEF IInv, KeyRow, Live
<1>5. ~kept => /\ \A c \in Candidate : Exists(candidates[c].state) => candidates[c].provider # p
               /\ \A t \in Attempts : t.provider # p
  BY DEF providerArchived
<1>6. keys' = [k \in UpstreamKey |-> keys'[k]]
  BY DEF DeleteProvider
<1> HIDE DEF gone, old, kept
<1>7. TypeOK'
  <2>1. \A k \in UpstreamKey : keys'[k] \in {NoRow, Gone} \cup KeyRow
    BY <1>3, <1>4, Typed DEF IInv, Exists
  <2>2. keys' \in [UpstreamKey -> {NoRow, Gone} \cup KeyRow]
    BY <1>6, <2>1
  <2>3. providers' \in [Provider -> {NoRow, Gone} \cup ProviderRow]
    BY <1>1, <1>2 DEF IInv, TypeOK, ProviderRow
  <2> QED
    BY <1>1, <2>2, <2>3 DEF IInv, TypeOK, ProviderRow, KeyRow
<1>8. RoutesAreWhole'
  <2> SUFFICES ASSUME NEW c \in Candidate, candidates[c].state = "active"
               PROVE  providers'[candidates[c].provider] = providers[candidates[c].provider]
    BY <1>1 DEF IInv, RoutesAreWhole
  <2>1. candidates[c].provider \in Provider
    BY Typed DEF IInv, Exists, CandidateRow
  <2>2. candidates[c].provider # p
    BY <1>1 DEF IInv, RoutesAreWhole, providerInUse
  <2> QED
    BY <1>1, <2>1, <2>2 DEF IInv, TypeOK
<1>9. ReferencesHold'
  <2>1. \A q \in Provider : Exists(providers[q].state) /\ (q = p => kept) => Exists(providers'[q].state)
    BY <1>1, <1>2 DEF IInv, TypeOK, Exists
  <2>2. \A t \in Attempts : t \in AttemptRow /\ (~kept => t.provider # p)
    BY <1>5, Typed DEF IInv
  <2>3. \A t \in Attempts : Exists(keys'[t.key].state)
    BY <1>3, <1>4, <2>2 DEF IInv, ReferencesHold, AttemptLinks, Exists, AttemptRow
  <2>4. ASSUME NEW k \in UpstreamKey, Exists(keys'[k].state)
        PROVE  Exists(providers'[keys'[k].provider].state)
    <3>1. /\ Exists(keys[k].state) /\ keys'[k].provider = keys[k].provider
          /\ ~kept => keys[k].provider # p
      BY <1>3, <1>4, <2>4 DEF Exists, Gone
    <3>2. keys[k].provider \in Provider
      BY <3>1, Typed DEF IInv, KeyRow
    <3> QED
      BY <2>1, <3>1, <3>2 DEF IInv, ReferencesHold
  <2>5. \A t \in Attempts : Exists(providers'[t.provider].state)
    BY <2>1, <2>2 DEF IInv, ReferencesHold, AttemptRow
  <2>6. \A c \in Candidate : Exists(candidates[c].state) => Exists(providers'[candidates[c].provider].state)
    BY <1>5, <2>1, Typed DEF IInv, ReferencesHold, CandidateRow
  <2> QED
    BY <1>1, <2>3, <2>4, <2>5, <2>6 DEF IInv, ReferencesHold, Attempts
<1>10. RowsOfHandlers'
  BY <1>1 DEF IInv, RowsOfHandlers
<1>11. RowsMoveOn
  <2>1. \A k \in UpstreamKey : keys[k].state # "unused" =>
          /\ keys'[k].state # "unused"
          /\ Exists(keys'[k].state) => Exists(keys[k].state) /\ keys'[k].provider = keys[k].provider
    BY <1>3, <1>4 DEF Exists, Gone
  <2> QED
    BY <1>1, <2>1, Typed, CatalogueAssumption DEF IInv, RowsMoveOn, CandidateRow, Exists
<1>12. AttemptLinks'
  <2>1. ASSUME NEW t \in Attempts
        PROVE  keys'[t.key].provider = t.provider
    <3>1. t.key \in UpstreamKey
      BY Typed DEF IInv, AttemptRow
    <3>2. Exists(keys[t.key].state) /\ keys[t.key].provider = t.provider
      BY DEF IInv, ReferencesHold, AttemptLinks
    <3>3. Exists(keys'[t.key].state)
      BY <1>9, <1>1 DEF ReferencesHold, Attempts
    <3> QED
      BY <1>11, <3>1, <3>2, <3>3 DEF RowsMoveOn, Exists
  <2> QED
    BY <1>1, <2>1 DEF AttemptLinks, Attempts
<1> QED
  BY <1>1, <1>7, <1>8, <1>9, <1>10, <1>11, <1>12, EditsKeepLoads DEF IInv

(* The rows that edits of a model write.                                   *)
LEMMA RowTyped ==
  ASSUME NEW m \in Model, NEW route \in Route, NEW v \in 1..MaxRevision
  PROVE  /\ candidateRow(m, route, v) \in CandidateRow
         /\ candidateRow(m, route, v).state = "active"
         /\ candidateRow(m, route, v).model = m
         /\ candidateRow(m, route, v).provider = route.provider
         /\ candidateRow(m, route, v).protocols = route.protocols
         /\ candidateRow(m, route, v).revision = v
BY DEF candidateRow, Route, CandidateRow, Live

LEMMA CreateVirtualModelIInv ==
  ASSUME IInv, NEW m \in Model, NEW name \in Name, NEW cs \in SUBSET Candidate,
         NEW routes \in [cs -> Route], CreateVirtualModel(m, name, routes)
  PROVE  IInv'
<1> DEFINE active == [state |-> "active", name |-> name]
           new(c) == candidateRow(m, routes[c], 1)
<1>1. /\ models[m].state = "unused" /\ models' = [models EXCEPT ![m] = active]
      /\ candidates' = [c \in Candidate |-> IF c \in cs THEN new(c) ELSE candidates[c]]
      /\ \A c \in cs : candidates[c].state = "unused"
      /\ validateCandidateProtocols(routes)
      /\ UNCHANGED <<accessKeys, providers, keys, requests, attempts, handler>>
  BY DEF CreateVirtualModel, log, unusedCandidates
<1>2. \A c \in cs : /\ new(c) \in CandidateRow /\ new(c).state = "active" /\ new(c).model = m
                    /\ new(c).provider = routes[c].provider
                    /\ new(c).protocols = routes[c].protocols
                    /\ routes[c].provider \in Provider
  <2>1. 1 \in 1..MaxRevision
    BY CatalogueAssumption
  <2> QED
    BY <2>1, RowTyped DEF Route
<1>3. active \in [state : {"active"}, name : Name] /\ active.state = "active"
  OBVIOUS
<1> HIDE DEF active, new
<1>4. TypeOK'
  <2>1. candidates' \in [Candidate -> {NoRow, Gone} \cup CandidateRow]
    BY <1>1, <1>2, Typed DEF IInv
  <2> QED
    BY <1>1, <1>3, <2>1 DEF IInv, TypeOK, CandidateRow
<1>5. models'[m].state = "active" /\ \A n \in Model : n # m => models'[n] = models[n]
  BY <1>1, <1>3 DEF IInv, TypeOK
<1>6. ASSUME NEW c \in Candidate, c \notin cs, Exists(candidates[c].state)
      PROVE  candidates[c].model # m
  <2>1. Exists(models[candidates[c].model].state)
    BY <1>6 DEF IInv, ReferencesHold
  <2> QED
    BY <1>1, <2>1 DEF Exists
<1>7. \A c \in cs : providers[routes[c].provider].state = "active"
                    /\ routes[c].protocols \subseteq providers[routes[c].provider].endpoints
  BY <1>1 DEF validateCandidateProtocols
<1>8. RoutesAreWhole'
  <2> SUFFICES ASSUME NEW c \in Candidate, candidates'[c].state = "active"
               PROVE  /\ models'[candidates'[c].model].state = "active"
                      /\ providers[candidates'[c].provider].state = "active"
                      /\ candidates'[c].protocols \subseteq providers[candidates'[c].provider].endpoints
    BY <1>1 DEF RoutesAreWhole
  <2>1. CASE c \in cs
    <3>1. candidates'[c] = new(c)
      BY <1>1, <2>1
    <3> QED
      BY <1>2, <1>5, <1>7, <2>1, <3>1
  <2>2. CASE c \notin cs
    <3>1. candidates'[c] = candidates[c]
      BY <1>1, <2>2
    <3>2. candidates[c].model \in Model /\ Exists(candidates[c].state)
      BY <3>1, Typed DEF IInv, Exists, CandidateRow
    <3> QED
      BY <1>5, <1>6, <2>2, <3>1, <3>2 DEF IInv, RoutesAreWhole
  <2> QED
    BY <2>1, <2>2
<1>9. ReferencesHold'
  <2>1. \A c \in Candidate : Exists(candidates'[c].state) =>
          Exists(models'[candidates'[c].model].state) /\ Exists(providers[candidates'[c].provider].state)
    <3> SUFFICES ASSUME NEW c \in Candidate, Exists(candidates'[c].state)
                 PROVE  /\ Exists(models'[candidates'[c].model].state)
                        /\ Exists(providers[candidates'[c].provider].state)
      OBVIOUS
    <3>1. CASE c \in cs
      <4>1. candidates'[c] = new(c)
        BY <1>1, <3>1
      <4> QED
        BY <1>2, <1>5, <1>7, <3>1, <4>1 DEF Exists
    <3>2. CASE c \notin cs
      <4>1. candidates'[c] = candidates[c]
        BY <1>1, <3>2
      <4>2. candidates[c].model \in Model
        BY <4>1, Typed DEF IInv, CandidateRow
      <4> QED
        BY <1>5, <1>6, <3>2, <4>1, <4>2 DEF IInv, ReferencesHold
    <3> QED
      BY <3>1, <3>2
  <2>2. \A c \in Candidate : Exists(candidates[c].state) => candidates'[c] = candidates[c]
    BY <1>1 DEF Exists
  <2>3. \A t \in Attempts : Exists(candidates'[t.candidate].state)
    BY <2>2, Typed DEF IInv, ReferencesHold, AttemptRow
  <2> QED
    BY <1>1, <2>1, <2>3 DEF IInv, ReferencesHold, Attempts
<1>10. RowsOfHandlers' /\ AttemptLinks'
  BY <1>1 DEF IInv, RowsOfHandlers, AttemptLinks, Attempts
<1>11. RowsMoveOn
  BY <1>1, Typed, CatalogueAssumption DEF IInv, RowsMoveOn, CandidateRow, Exists
<1> QED
  BY <1>1, <1>4, <1>8, <1>9, <1>10, <1>11, EditsKeepLoads DEF IInv

LEMMA UpdateVirtualModelIInv ==
  ASSUME IInv, NEW m \in Model, NEW name \in Name, NEW cs \in SUBSET Candidate,
         NEW routes \in [cs -> Route], UpdateVirtualModel(m, name, routes)
  PROVE  IInv'
<1> DEFINE active == [state |-> "active", name |-> name]
           v(c) == nextRevision(c, routes[c])
           new(c) == candidateRow(m, routes[c], v(c))
           old(c) == [candidates[c] EXCEPT !.state = "archived", !.protocols = {}]
<1>1. /\ models[m].state = "active" /\ models' = [models EXCEPT ![m] = active]
      /\ validateCandidateProtocols(routes)
      /\ UNCHANGED <<accessKeys, providers, keys, requests, attempts, handler>>
  BY DEF UpdateVirtualModel, log
<1>2. ASSUME NEW c \in cs
      PROVE  /\ v(c) \in 1..MaxRevision
             /\ \/ candidates[c].state = "unused"
                \/ /\ candidates[c].state = "active" /\ candidates[c].model = m
                   /\ candidates[c].revision < v(c)
             /\ candidates'[c] = new(c)
             /\ routes[c] \in Route
  <2>1. c \in activeCandidates(m) \/ c \in unusedCandidates
    BY DEF UpdateVirtualModel
  <2>2. v(c) <= MaxRevision
    BY DEF UpdateVirtualModel
  <2>3. candidates[c].state = "active" => candidates[c].revision \in 1..MaxRevision
    BY Typed DEF IInv, Exists, CandidateRow
  <2>4. candidates'[c] = new(c)
    BY DEF UpdateVirtualModel
  <2>5. /\ candidates[c].state = "unused" => v(c) = 1
        /\ candidates[c].state = "active" => v(c) = candidates[c].revision + 1
    BY DEF nextRevision
  <2>6. \/ candidates[c].state = "unused"
        \/ candidates[c].state = "active" /\ candidates[c].model = m
    BY <2>1 DEF activeCandidates, unusedCandidates
  <2> QED
    BY <2>2, <2>3, <2>4, <2>5, <2>6, CatalogueAssumption
<1>3. \A c \in cs : /\ new(c) \in CandidateRow /\ new(c).state = "active" /\ new(c).model = m
                    /\ new(c).provider = routes[c].provider
                    /\ new(c).protocols = routes[c].protocols
                    /\ new(c).revision = v(c)
  BY <1>2, RowTyped
<1>4. ASSUME NEW c \in Candidate, c \notin cs
      PROVE  \/ candidates'[c] = candidates[c] /\ ~(candidates[c].state = "active" /\ candidates[c].model = m)
             \/ candidates[c].state = "active" /\ candidates'[c] = old(c)
             \/ candidates[c].state = "active" /\ candidates'[c] = Gone /\ \A t \in Attempts : t.candidate # c
  BY <1>4 DEF UpdateVirtualModel, activeCandidates
<1>5. ASSUME NEW c \in Candidate, Exists(candidates[c].state)
      PROVE  /\ old(c) \in CandidateRow /\ old(c).state = "archived"
             /\ old(c).model = candidates[c].model /\ old(c).provider = candidates[c].provider
             /\ old(c).revision = candidates[c].revision
  BY <1>5, Typed DEF IInv, CandidateRow, Live
<1>6. active \in [state : {"active"}, name : Name] /\ active.state = "active"
  OBVIOUS
<1>7. candidates' = [c \in Candidate |-> candidates'[c]]
  BY DEF UpdateVirtualModel
<1> HIDE DEF active, new, old, v
<1>8. TypeOK'
  <2>1. \A c \in Candidate : candidates'[c] \in {NoRow, Gone} \cup CandidateRow
    BY <1>2, <1>3, <1>4, <1>5, Typed DEF IInv, Exists
  <2>2. candidates' \in [Candidate -> {NoRow, Gone} \cup CandidateRow]
    BY <1>7, <2>1
  <2> QED
    BY <1>1, <1>6, <2>2 DEF IInv, TypeOK, CandidateRow
<1>9. models'[m].state = "active" /\ \A n \in Model : n # m => models'[n] = models[n]
  BY <1>1, <1>6 DEF IInv, TypeOK
<1>10. \A c \in cs : providers[routes[c].provider].state = "active"
                     /\ routes[c].protocols \subseteq providers[routes[c].provider].endpoints
  BY <1>1 DEF validateCandidateProtocols
<1>11. RoutesAreWhole'
  <2> SUFFICES ASSUME NEW c \in Candidate, candidates'[c].state = "active"
               PROVE  /\ models'[candidates'[c].model].state = "active"
                      /\ providers[candidates'[c].provider].state = "active"
                      /\ candidates'[c].protocols \subseteq providers[candidates'[c].provider].endpoints
    BY <1>1 DEF RoutesAreWhole
  <2>1. CASE c \in cs
    BY <1>2, <1>3, <1>9, <1>10, <2>1
  <2>2. CASE c \notin cs
    <3>1. candidates'[c] = candidates[c]
      BY <1>4, <1>5, <2>2 DEF Exists, Gone
    <3>2. candidates[c].model \in Model
      BY <3>1, Typed DEF IInv, Exists, CandidateRow
    <3> QED
      BY <1>9, <3>1, <3>2 DEF IInv, RoutesAreWhole
  <2> QED
    BY <2>1, <2>2
<1>12. ReferencesHold'
  <2>1. ASSUME NEW c \in Candidate, Exists(candidates'[c].state)
        PROVE  /\ Exists(models'[candidates'[c].model].state)
               /\ Exists(providers[candidates'[c].provider].state)
    <3>1. CASE c \in cs
      BY <1>2, <1>3, <1>9, <1>10, <3>1 DEF Exists
    <3>2. CASE c \notin cs
      <4>1. /\ Exists(candidates[c].state) /\ candidates'[c].model = candidates[c].model
            /\ candidates'[c].provider = candidates[c].provider
        BY <1>4, <1>5, <2>1, <3>2 DEF Exists, Gone
      <4>2. candidates[c].model \in Model
        BY <4>1, Typed DEF IInv, CandidateRow
      <4> QED
        BY <1>9, <4>1, <4>2 DEF IInv, ReferencesHold, Exists
    <3> QED
      BY <3>1, <3>2
  <2>2. \A t \in Attempts : t.candidate \in Candidate
    BY Typed DEF IInv, AttemptRow
  <2>3. \A t \in Attempts : Exists(candidates[t.candidate].state)
    BY DEF IInv, ReferencesHold
  <2>4. ASSUME NEW t \in Attempts
        PROVE  Exists(candidates'[t.candidate].state)
    <3>1. CASE t.candidate \in cs
      BY <1>2, <1>3, <3>1 DEF Exists
    <3>2. CASE t.candidate \notin cs
      BY <1>4, <1>5, <2>2, <2>3, <3>2 DEF Exists
    <3> QED
      BY <3>1, <3>2
  <2> QED
    BY <1>1, <2>1, <2>4 DEF IInv, ReferencesHold, Attempts
<1>13. RowsOfHandlers' /\ AttemptLinks'
  BY <1>1 DEF IInv, RowsOfHandlers, AttemptLinks, Attempts
<1>14. RowsMoveOn
  <2>1. ASSUME NEW c \in Candidate, candidates[c].state # "unused"
        PROVE  /\ candidates'[c].state # "unused"
               /\ Exists(candidates'[c].state) =>
                    /\ Exists(candidates[c].state)
                    /\ candidates[c].revision <= candidates'[c].revision
               /\ candidates'[c].state = "active" =>
                    \/ candidates'[c] = candidates[c]
                    \/ candidates[c].revision < candidates'[c].revision
    <3>1. Exists(candidates[c].state) => candidates[c].revision \in Nat
      BY Typed DEF IInv, CandidateRow
    <3>2. CASE c \in cs
      <4>1. candidates[c].revision < v(c) /\ v(c) \in Nat /\ Exists(candidates[c].state)
        BY <1>2, <2>1, <3>2 DEF Exists
      <4>2. candidates'[c].revision = v(c) /\ candidates'[c].state = "active"
        BY <1>2, <1>3, <3>2
      <4> QED
        BY <3>1, <4>1, <4>2
    <3>3. CASE c \notin cs
      BY <1>4, <1>5, <2>1, <3>1, <3>3 DEF Exists, Gone
    <3> QED
      BY <3>2, <3>3
  <2> QED
    BY <1>1, <2>1 DEF RowsMoveOn
<1> QED
  BY <1>1, <1>8, <1>11, <1>12, <1>13, <1>14, EditsKeepLoads DEF IInv

LEMMA DeleteVirtualModelIInv ==
  ASSUME IInv, NEW m \in Model, DeleteVirtualModel(m)
  PROVE  IInv'
<1> DEFINE kept == modelArchived(m)
           gone == [state |-> "archived"]
           old(c) == [candidates[c] EXCEPT !.state = "archived"]
<1>1. /\ models[m].state = "active" /\ models' = [models EXCEPT ![m] = IF kept THEN gone ELSE Gone]
      /\ UNCHANGED <<accessKeys, providers, keys, requests, attempts, handler>>
  BY DEF DeleteVirtualModel, log
<1>2. ~kept => \A t \in Attempts : t.candidate \notin candidateRows(m)
  BY DEF modelArchived
<1>3. ASSUME NEW c \in Candidate
      PROVE  \/ /\ candidates'[c] = candidates[c]
                /\ ~(candidates[c].state = "active" /\ candidates[c].model = m)
                /\ ~kept => ~(Exists(candidates[c].state) /\ candidates[c].model = m)
             \/ kept /\ candidates[c].state = "active" /\ candidates'[c] = old(c)
             \/ ~kept /\ c \in candidateRows(m) /\ candidates'[c] = Gone
  BY DEF DeleteVirtualModel, activeCandidates, candidateRows, Exists
<1>4. ASSUME NEW c \in Candidate, Exists(candidates[c].state)
      PROVE  /\ old(c) \in CandidateRow /\ old(c).state = "archived"
             /\ old(c).model = candidates[c].model /\ old(c).provider = candidates[c].provider
             /\ old(c).revision = candidates[c].revision
  BY <1>4, Typed DEF IInv, CandidateRow, Live
<1>5. candidates' = [c \in Candidate |-> candidates'[c]]
  BY DEF DeleteVirtualModel
<1>6. gone.state = "archived"
  OBVIOUS
<1>7. models' \in [Model -> {NoRow, Gone, [state |-> "archived"]} \cup [state : {"active"}, name : Name]]
  BY <1>1 DEF IInv, TypeOK
<1> HIDE DEF kept, gone, old
<1>8. TypeOK'
  <2>1. \A c \in Candidate : candidates'[c] \in {NoRow, Gone} \cup CandidateRow
    BY <1>3, <1>4, Typed DEF IInv, Exists
  <2>2. candidates' \in [Candidate -> {NoRow, Gone} \cup CandidateRow]
    BY <1>5, <2>1
  <2> QED
    BY <1>1, <1>7, <2>2 DEF IInv, TypeOK, CandidateRow
<1>9. /\ kept => Exists(models'[m].state)
      /\ \A n \in Model : n # m => models'[n] = models[n]
  BY <1>1, <1>6 DEF IInv, TypeOK, Exists
<1>10. RoutesAreWhole'
  <2> SUFFICES ASSUME NEW c \in Candidate, candidates'[c].state = "active"
               PROVE  /\ candidates'[c] = candidates[c]
                      /\ models'[candidates[c].model] = models[candidates[c].model]
    BY <1>1 DEF IInv, RoutesAreWhole
  <2>1. candidates'[c] = candidates[c] /\ candidates[c].model # m
    BY <1>3, <1>4 DEF Exists, Gone
  <2>2. candidates[c].model \in Model
    BY <2>1, Typed DEF IInv, Exists, CandidateRow
  <2> QED
    BY <1>9, <2>1, <2>2
<1>11. ReferencesHold'
  <2>1. ASSUME NEW c \in Candidate, Exists(candidates'[c].state)
        PROVE  /\ Exists(models'[candidates'[c].model].state)
               /\ Exists(providers[candidates'[c].provider].state)
    <3>1. /\ Exists(candidates[c].state) /\ candidates'[c].model = candidates[c].model
          /\ candidates'[c].provider = candidates[c].provider
          /\ ~kept => candidates[c].model # m
      BY <1>3, <1>4, <2>1 DEF Exists, Gone
    <3>2. candidates[c].model \in Model
      BY <3>1, Typed DEF IInv, CandidateRow
    <3> QED
      BY <1>9, <3>1, <3>2 DEF IInv, ReferencesHold
  <2>2. ASSUME NEW t \in Attempts
        PROVE  Exists(candidates'[t.candidate].state)
    <3>1. t.candidate \in Candidate /\ Exists(candidates[t.candidate].state)
      BY Typed DEF IInv, ReferencesHold, AttemptRow
    <3>2. ~kept => t.candidate \notin candidateRows(m)
      BY <1>2
    <3> QED
      BY <1>3, <1>4, <3>1, <3>2 DEF Exists
  <2> QED
    BY <1>1, <2>1, <2>2 DEF IInv, ReferencesHold, Attempts
<1>12. RowsOfHandlers' /\ AttemptLinks'
  BY <1>1 DEF IInv, RowsOfHandlers, AttemptLinks, Attempts
<1>13. RowsMoveOn
  <2>1. ASSUME NEW c \in Candidate, candidates[c].state # "unused"
        PROVE  /\ candidates'[c].state # "unused"
               /\ Exists(candidates'[c].state) =>
                    /\ Exists(candidates[c].state)
                    /\ candidates[c].revision <= candidates'[c].revision
               /\ candidates'[c].state = "active" => candidates'[c] = candidates[c]
    <3>1. Exists(candidates[c].state) => candidates[c].revision \in Nat
      BY Typed DEF IInv, CandidateRow
    <3> QED
      BY <1>3, <1>4, <2>1, <3>1 DEF Exists, Gone
  <2> QED
    BY <1>1, <2>1 DEF RowsMoveOn
<1> QED
  BY <1>1, <1>8, <1>10, <1>11, <1>12, <1>13, EditsKeepLoads DEF IInv

-----------------------------------------------------------------------------
(* The steps of requests.                                                  *)

(* A step that leaves the configuration alone, and after which handler r   *)
(* holds h.                                                                *)
LEMMA StepOfHandler ==
  ASSUME IInv, NEW r \in Request, NEW h \in Handler, Loads(h),
         UNCHANGED <<accessKeys, providers, keys, models, candidates>>,
         handler' = [handler EXCEPT ![r] = h],
         NEW rows \in {NoRequest} \cup RequestRow, requests' = [requests EXCEPT ![r] = rows],
         h.pc \notin {"idle", "start"} => rows.state = "in_progress",
         rows.state # "none" => Exists(accessKeys[rows.access]),
         attempts' \in [Request -> SUBSET AttemptRow],
         \A t \in Attempts' :
           /\ Exists(candidates[t.candidate].state) /\ Exists(providers[t.provider].state)
           /\ Exists(keys[t.key].state) /\ keys[t.key].provider = t.provider
  PROVE  IInv'
<1>1. TypeOK'
  BY DEF IInv, TypeOK, RequestRow, AttemptRow
<1>2. RoutesAreWhole'
  BY DEF IInv, RoutesAreWhole
<1>3. ReferencesHold'
  BY DEF IInv, TypeOK, ReferencesHold
<1>4. RowsOfHandlers'
  BY DEF IInv, TypeOK, RowsOfHandlers
<1>5. AttemptLinks'
  BY DEF AttemptLinks
<1>6. LoadsHold'
  BY DEF IInv, TypeOK, LoadsHold, Loads, Read, Chosen, ReadKey
<1> QED
  BY <1>1, <1>2, <1>3, <1>4, <1>5, <1>6 DEF IInv

(* ... and that writes no attempt.                                         *)
LEMMA QuietStep ==
  ASSUME IInv, NEW r \in Request, NEW h \in Handler, Loads(h),
         UNCHANGED <<accessKeys, providers, keys, models, candidates, attempts>>,
         handler' = [handler EXCEPT ![r] = h],
         NEW rows \in {NoRequest} \cup RequestRow, requests' = [requests EXCEPT ![r] = rows],
         h.pc \notin {"idle", "start"} => rows.state = "in_progress",
         rows.state # "none" => Exists(accessKeys[rows.access])
  PROVE  IInv'
<1>1. attempts' \in [Request -> SUBSET AttemptRow]
  BY DEF IInv, TypeOK, AttemptRow
<1>2. Attempts' = Attempts
  BY DEF Attempts
<1>3. \A t \in Attempts' :
        /\ Exists(candidates[t.candidate].state) /\ Exists(providers[t.provider].state)
        /\ Exists(keys[t.key].state) /\ keys[t.key].provider = t.provider
  BY <1>2 DEF IInv, ReferencesHold, AttemptLinks
<1> QED
  BY <1>1, <1>3, StepOfHandler

LEMMA FinishIInv ==
  ASSUME IInv, NEW r \in Request, handler[r].pc \notin {"idle", "start"}, Finish(r)
  PROVE  IInv'
<1> DEFINE rows == [requests[r] EXCEPT !.state = "ended"]
<1>1. requests[r].state = "in_progress"
  BY DEF IInv, RowsOfHandlers
<1>2. requests[r] \in RequestRow /\ Exists(accessKeys[requests[r].access])
  BY <1>1, Typed DEF IInv, ReferencesHold
<1>3. rows \in RequestRow /\ rows.access = requests[r].access
  BY <1>2 DEF RequestRow
<1>4. /\ requests' = [requests EXCEPT ![r] = rows] /\ handler' = [handler EXCEPT ![r] = Idle]
      /\ UNCHANGED <<accessKeys, providers, keys, models, candidates, attempts>>
  BY DEF Finish, config
<1>5. Idle \in Handler /\ Loads(Idle) /\ Idle.pc = "idle"
  BY DEF Idle, Handler, Loads
<1> HIDE DEF rows
<1> QED
  BY <1>2, <1>3, <1>4, <1>5, QuietStep

LEMMA ContinueIInv ==
  ASSUME IInv, NEW r \in Request, handler[r].pc \notin {"idle", "start"},
         NEW h \in Handler, Loads(h), Continue(r, h)
  PROVE  IInv'
<1>1. requests[r].state = "in_progress"
  BY DEF IInv, RowsOfHandlers
<1>2. requests[r] \in RequestRow /\ Exists(accessKeys[requests[r].access])
  BY <1>1, Typed DEF IInv, ReferencesHold
<1>3. /\ requests' = [requests EXCEPT ![r] = requests[r]] /\ handler' = [handler EXCEPT ![r] = h]
      /\ UNCHANGED <<accessKeys, providers, keys, models, candidates, attempts>>
  BY DEF Continue, config, log, IInv, TypeOK
<1> QED
  BY <1>1, <1>2, <1>3, QuietStep

LEMMA AuthenticateIInv ==
  ASSUME IInv, NEW r \in Request, NEW a \in AccessKey, NEW name \in Name, Authenticate(r, a, name)
  PROVE  IInv'
<1> DEFINE h == [pc |-> "start", access |-> a, name |-> name]
<1>1. /\ requests' = [requests EXCEPT ![r] = NoRequest] /\ handler' = [handler EXCEPT ![r] = h]
      /\ UNCHANGED <<accessKeys, providers, keys, models, candidates, attempts>>
  BY DEF Authenticate, config, log, IInv, TypeOK
<1>2. h \in Handler /\ h.pc = "start" /\ Loads(h)
  BY DEF Handler, Loads
<1>3. NoRequest.state = "none"
  BY DEF NoRequest
<1> HIDE DEF h
<1> QED
  BY <1>1, <1>2, <1>3, QuietStep

LEMMA StartRequestIInv ==
  ASSUME IInv, NEW r \in Request, StartRequest(r)
  PROVE  IInv'
<1> DEFINE a == handler[r].access
           rows == [state |-> "in_progress", name |-> handler[r].name, access |-> a]
           model == [pc |-> "model"]
<1>1. handler[r].pc = "start" /\ a \in AccessKey /\ handler[r].name \in Name
  BY Typed, Holds DEF IInv, StartRequest
<1>2. rows \in RequestRow /\ rows.state = "in_progress" /\ rows.access = a
  BY <1>1 DEF RequestRow
<1>3. model \in Handler /\ Loads(model) /\ model.pc = "model"
  BY DEF Handler, Loads
<1>4. Idle \in Handler /\ Loads(Idle) /\ Idle.pc = "idle"
  BY DEF Idle, Handler, Loads
<1>5. /\ UNCHANGED <<accessKeys, providers, keys, models, candidates, attempts>>
      /\ \/ /\ Exists(accessKeys[a])
            /\ handler' = [handler EXCEPT ![r] = model]
            /\ requests' = [requests EXCEPT ![r] = rows]
         \/ handler' = [handler EXCEPT ![r] = Idle] /\ requests' = requests
  BY DEF StartRequest, config
<1> HIDE DEF rows, model, a
<1>6. requests = [requests EXCEPT ![r] = requests[r]]
  BY DEF IInv, TypeOK
<1>7. /\ requests[r] \in {NoRequest} \cup RequestRow
      /\ requests[r].state # "none" => Exists(accessKeys[requests[r].access])
  BY Typed DEF IInv, ReferencesHold
<1> QED
  BY <1>2, <1>3, <1>4, <1>5, <1>6, <1>7, QuietStep

LEMMA LoadModelIInv ==
  ASSUME IInv, NEW r \in Request, LoadModel(r)
  PROVE  IInv'
<1>1. ASSUME NEW m \in Model, Continue(r, [pc |-> "candidates", model |-> m])
      PROVE  IInv'
  <2> DEFINE h == [pc |-> "candidates", model |-> m]
  <2>1. h \in Handler /\ Loads(h)
    BY DEF Handler, Loads
  <2>2. Continue(r, h) /\ handler[r].pc = "model"
    BY <1>1 DEF LoadModel
  <2> HIDE DEF h
  <2> QED
    BY <2>1, <2>2, ContinueIInv
<1>2. handler[r].pc = "model"
  BY DEF LoadModel
<1> QED
  BY <1>1, <1>2, FinishIInv DEF LoadModel

LEMMA LoadCandidatesIInv ==
  ASSUME IInv, NEW r \in Request, LoadCandidates(r)
  PROVE  IInv'
<1> DEFINE cs == activeCandidates(handler[r].model)
           found == [c \in cs |-> [provider |-> candidates[c].provider,
                                  revision |-> candidates[c].revision]]
           h == [pc |-> "protocols", found |-> found]
<1>1. handler[r].pc = "candidates" /\ (Finish(r) \/ Continue(r, h))
  BY DEF LoadCandidates
<1>2. cs \subseteq Candidate /\ \A c \in cs : candidates[c].state = "active" /\ candidates[c] \in CandidateRow
  BY Typed DEF IInv, activeCandidates, Exists
<1>3. \A c \in cs : found[c] \in FoundRow /\ Read(c, found[c])
  BY <1>2 DEF FoundRow, CandidateRow, Read
<1>4. found \in Found(FoundRow)
  BY <1>2, <1>3, RowsFound
<1>5. DOMAIN found = cs
  OBVIOUS
<1> HIDE DEF found, cs
<1>6. h \in Handler /\ Loads(h)
  BY <1>3, <1>4, <1>5 DEF Handler, Loads
<1> HIDE DEF h
<1> QED
  BY <1>1, <1>6, FinishIInv, ContinueIInv

LEMMA LoadProtocolsIInv ==
  ASSUME IInv, NEW r \in Request, LoadProtocols(r)
  PROVE  IInv'
<1> DEFINE old == handler[r].found
           protocolRows(c) == IF Exists(candidates[c].state) THEN candidates[c].protocols ELSE {}
<1>1. handler[r].pc = "protocols" /\ old \in Found(FoundRow)
  BY Typed, Holds DEF IInv, LoadProtocols
<1>2. DOMAIN old \subseteq Candidate /\ \A c \in DOMAIN old : old[c] \in FoundRow /\ Read(c, old[c])
  BY <1>1, FoundRows DEF IInv, LoadsHold, Loads
<1>3. PICK chosen \in [DOMAIN old -> Protocol \cup {"none"}] :
        /\ \A c \in DOMAIN old : chosen[c] \in protocolRows(c) \cup {"none"}
        /\ Continue(r, [pc |-> "providers", routes |-> {},
             found |-> [c \in {d \in DOMAIN old : chosen[d] # "none"} |->
               [provider |-> old[c].provider, revision |-> old[c].revision,
                protocol |-> chosen[c]]]])
  BY DEF LoadProtocols
<1> DEFINE cs == {d \in DOMAIN old : chosen[d] # "none"}
           found == [c \in cs |-> [provider |-> old[c].provider, revision |-> old[c].revision,
                                  protocol |-> chosen[c]]]
           h == [pc |-> "providers", routes |-> {}, found |-> found]
<1>4. ASSUME NEW c \in cs
      PROVE  found[c] \in ChosenRow /\ Read(c, found[c]) /\ Chosen(c, found[c])
  <2>1. c \in DOMAIN old /\ chosen[c] \in protocolRows(c) /\ chosen[c] \in Protocol
    BY <1>3
  <2>2. old[c] \in FoundRow /\ Read(c, old[c])
    BY <1>2, <2>1
  <2>3. /\ found[c].provider = old[c].provider /\ found[c].revision = old[c].revision
        /\ found[c].protocol = chosen[c]
    OBVIOUS
  <2>4. found[c] \in ChosenRow
    BY <2>1, <2>2 DEF FoundRow, ChosenRow
  <2>5. Read(c, found[c])
    BY <2>2, <2>3 DEF Read
  <2>6. Chosen(c, found[c])
    BY <2>1, <2>3 DEF Chosen, Exists
  <2> QED
    BY <2>4, <2>5, <2>6
<1>5. found \in Found(ChosenRow) /\ DOMAIN found = cs
  <2>1. cs \in SUBSET Candidate
    BY <1>2
  <2>2. found \in [cs -> ChosenRow]
    BY <1>4
  <2> QED
    BY <2>1, <2>2, RowsFound
<1>6. Continue(r, h)
  BY <1>3
<1> HIDE DEF found, cs, old
<1>7. h \in Handler /\ Loads(h)
  BY <1>4, <1>5 DEF Handler, Loads
<1> HIDE DEF h
<1> QED
  BY <1>1, <1>6, <1>7, ContinueIInv

LEMMA LoadProviderIInv ==
  ASSUME IInv, NEW r \in Request, LoadProvider(r)
  PROVE  IInv'
<1> DEFINE h == handler[r]
           next(c) == [pc |-> "endpoints", routes |-> h.routes, found |-> h.found, at |-> c]
<1>1. h.pc = "providers" /\ \E c \in DOMAIN h.found : Finish(r) \/ Continue(r, next(c))
  BY DEF LoadProvider
<1>2. h.found \in Found(ChosenRow) /\ h.routes \in SUBSET LoadedRoute
  BY <1>1, Typed, Holds DEF IInv
<1>3. Loads(h)
  BY DEF IInv, LoadsHold
<1>4. ASSUME NEW c \in DOMAIN h.found
      PROVE  next(c) \in Handler /\ Loads(next(c))
  BY <1>1, <1>2, <1>3, FoundRows DEF Handler, Loads
<1> HIDE DEF next
<1> QED
  BY <1>1, <1>4, FinishIInv, ContinueIInv

(* Once a candidate is done with.                                          *)
LEMMA RestTyped ==
  ASSUME NEW h \in Handler, h.pc \in {"endpoints", "keys"}
  PROVE  /\ rest(h) \in Found(ChosenRow) /\ DOMAIN rest(h) \subseteq DOMAIN h.found
         /\ \A c \in DOMAIN rest(h) : rest(h)[c] = h.found[c]
<1>1. h.found \in Found(ChosenRow)
  BY Holds
<1>2. DOMAIN h.found \subseteq Candidate /\ \A c \in DOMAIN h.found : h.found[c] \in ChosenRow
  BY <1>1, FoundRows
<1> DEFINE cs == DOMAIN h.found \ {h.at}
<1>3. rest(h) \in [cs -> ChosenRow] /\ cs \in SUBSET Candidate
  BY <1>2 DEF rest
<1>4. rest(h) \in Found(ChosenRow)
  BY <1>3, RowsFound
<1> QED
  BY <1>4 DEF rest

LEMMA LoadEndpointsIInv ==
  ASSUME IInv, NEW r \in Request, LoadEndpoints(r)
  PROVE  IInv'
<1> DEFINE h == handler[r]
           go == [pc |-> "keys", routes |-> h.routes, found |-> h.found, at |-> h.at]
           skip == [pc |-> "providers", routes |-> h.routes, found |-> rest(h)]
<1>1. h.pc = "endpoints" /\ (Continue(r, go) \/ Continue(r, skip))
  BY DEF LoadEndpoints
<1>2. h.found \in Found(ChosenRow) /\ h.routes \in SUBSET LoadedRoute /\ h.at \in Candidate /\ h \in Handler
  BY <1>1, Typed, Holds DEF IInv
<1>3. Loads(h)
  BY DEF IInv, LoadsHold
<1>4. go \in Handler /\ Loads(go)
  BY <1>1, <1>2, <1>3 DEF Handler, Loads
<1>5. skip \in Handler /\ Loads(skip)
  BY <1>1, <1>2, <1>3, RestTyped DEF Handler, Loads
<1> HIDE DEF go, skip
<1> QED
  BY <1>1, <1>4, <1>5, ContinueIInv

LEMMA LoadKeysIInv ==
  ASSUME IInv, NEW r \in Request, LoadKeys(r)
  PROVE  IInv'
<1> DEFINE h == handler[r]
           f == h.found[h.at]
           route(k) == [candidate |-> h.at, provider |-> f.provider, revision |-> f.revision,
                        protocol |-> f.protocol, key |-> k]
           routes == h.routes \cup {route(k) : k \in activeKeys(f.provider)}
           next == [pc |-> "providers", found |-> rest(h), routes |-> routes]
<1>1. h.pc = "keys" /\ Continue(r, next)
  BY DEF LoadKeys
<1>2. h.found \in Found(ChosenRow) /\ h.routes \in SUBSET LoadedRoute /\ h.at \in Candidate /\ h \in Handler
  BY <1>1, Typed, Holds DEF IInv
<1>3. Loads(h)
  BY DEF IInv, LoadsHold
<1>4. f \in ChosenRow /\ Read(h.at, f) /\ Chosen(h.at, f)
  BY <1>1, <1>2, <1>3, FoundRows DEF Loads
<1>5. ASSUME NEW k \in activeKeys(f.provider)
      PROVE  /\ route(k) \in LoadedRoute
             /\ Read(route(k).candidate, route(k)) /\ Chosen(route(k).candidate, route(k))
             /\ ReadKey(route(k))
  <2>1. k \in UpstreamKey /\ keys[k].state = "active" /\ keys[k].provider = f.provider
    BY DEF activeKeys
  <2>2. route(k) \in LoadedRoute
    BY <1>2, <1>4, <2>1 DEF LoadedRoute, ChosenRow
  <2>3. Read(route(k).candidate, route(k)) /\ Chosen(route(k).candidate, route(k))
    BY <1>4 DEF Read, Chosen
  <2>4. ReadKey(route(k))
    BY <2>1 DEF ReadKey
  <2> QED
    BY <2>2, <2>3, <2>4
<1> HIDE DEF route
<1>6. routes \in SUBSET LoadedRoute
  BY <1>2, <1>5
<1>7. \A t \in routes : Read(t.candidate, t) /\ Chosen(t.candidate, t) /\ ReadKey(t)
  BY <1>1, <1>3, <1>5 DEF Loads
<1> HIDE DEF routes, f
<1>8. next \in Handler /\ Loads(next)
  BY <1>1, <1>2, <1>3, <1>6, <1>7, RestTyped DEF Handler, Loads
<1> HIDE DEF next
<1> QED
  BY <1>1, <1>8, ContinueIInv

LEMMA LoadedIInv ==
  ASSUME IInv, NEW r \in Request, Loaded(r)
  PROVE  IInv'
<1> DEFINE h == handler[r]
           next == [pc |-> "serve", routes |-> h.routes]
<1>1. h.pc = "providers" /\ (Finish(r) \/ Continue(r, next))
  BY DEF Loaded
<1>2. h.routes \in SUBSET LoadedRoute
  BY <1>1, Typed, Holds DEF IInv
<1>3. Loads(h)
  BY DEF IInv, LoadsHold
<1>4. next \in Handler /\ Loads(next)
  BY <1>1, <1>2, <1>3 DEF Handler, Loads
<1> HIDE DEF next
<1> QED
  BY <1>1, <1>4, FinishIInv, ContinueIInv

LEMMA StartAttemptIInv ==
  ASSUME IInv, NEW r \in Request, StartAttempt(r)
  PROVE  IInv'
<1>1. handler[r].pc = "serve"
  BY DEF StartAttempt
<1>2. CASE Finish(r)
  BY <1>1, <1>2, FinishIInv
<1>3. CASE ~Finish(r)
  <2>1. PICK t \in handler[r].routes :
          /\ Exists(candidates[t.candidate].state) /\ Exists(providers[t.provider].state)
          /\ Exists(keys[t.key].state)
          /\ attempts' = [attempts EXCEPT ![r] = attempts[r] \cup
               {[candidate |-> t.candidate, provider |-> t.provider, key |-> t.key]}]
          /\ UNCHANGED <<accessKeys, providers, keys, models, candidates, requests, handler>>
    BY <1>3 DEF StartAttempt, config
  <2> DEFINE new == [candidate |-> t.candidate, provider |-> t.provider, key |-> t.key]
  <2>2. handler[r].routes \in SUBSET LoadedRoute /\ handler[r] \in Handler
    BY <1>1, Typed, Holds DEF IInv
  <2>3. t \in LoadedRoute /\ ReadKey(t) /\ Loads(handler[r])
    BY <1>1, <2>1, <2>2 DEF IInv, LoadsHold, Loads
  <2>4. new \in AttemptRow
    BY <2>3 DEF LoadedRoute, AttemptRow
  <2>5. /\ Exists(candidates[new.candidate].state) /\ Exists(providers[new.provider].state)
        /\ Exists(keys[new.key].state) /\ keys[new.key].provider = new.provider
    BY <2>1, <2>3 DEF ReadKey
  <2>6. attempts' = [attempts EXCEPT ![r] = attempts[r] \cup {new}]
    BY <2>1
  <2> HIDE DEF new
  <2>7. attempts' \in [Request -> SUBSET AttemptRow]
    BY <2>4, <2>6 DEF IInv, TypeOK, AttemptRow
  <2>8. \A s \in Attempts' : s \in Attempts \/ s = new
    <3> SUFFICES ASSUME NEW p \in Request, NEW s \in attempts'[p]
                 PROVE  s \in Attempts \/ s = new
      BY DEF Attempts
    <3>1. s \in attempts[p] \/ s = new
      BY <2>6 DEF IInv, TypeOK
    <3> QED
      BY <3>1 DEF Attempts
  <2>9. \A s \in Attempts' :
          /\ Exists(candidates[s.candidate].state) /\ Exists(providers[s.provider].state)
          /\ Exists(keys[s.key].state) /\ keys[s.key].provider = s.provider
    BY <2>5, <2>8 DEF IInv, ReferencesHold, AttemptLinks
  <2>10. requests[r].state = "in_progress"
    BY <1>1 DEF IInv, RowsOfHandlers
  <2>11. /\ requests[r] \in {NoRequest} \cup RequestRow
         /\ requests[r].state # "none" => Exists(accessKeys[requests[r].access])
    BY Typed DEF IInv, ReferencesHold
  <2>12. /\ requests' = [requests EXCEPT ![r] = requests[r]]
         /\ handler' = [handler EXCEPT ![r] = handler[r]]
    BY <2>1 DEF IInv, TypeOK
  <2> QED
    BY <2>1, <2>2, <2>3, <2>7, <2>9, <2>10, <2>11, <2>12, StepOfHandler
<1> QED
  BY <1>2, <1>3

LEMMA HandleIInv ==
  ASSUME IInv, NEW r \in Request, Handle(r)
  PROVE  IInv'
<1>1. CASE Served(r)
  BY <1>1, FinishIInv DEF Served
<1> QED
  BY <1>1, StartRequestIInv, LoadModelIInv, LoadCandidatesIInv, LoadProtocolsIInv, LoadProviderIInv,
     LoadEndpointsIInv, LoadKeysIInv, LoadedIInv, StartAttemptIInv DEF Handle

LEMMA DeleteRecordsIInv ==
  ASSUME IInv, NEW r \in Request, DeleteRecords(r)
  PROVE  IInv'
<1>1. /\ requests[r].state = "ended" /\ requests' = [requests EXCEPT ![r] = NoRequest]
      /\ attempts' = [attempts EXCEPT ![r] = {}]
      /\ UNCHANGED <<accessKeys, providers, keys, models, candidates, handler>>
  BY DEF DeleteRecords, config
<1>2. handler[r].pc \in {"idle", "start"} /\ handler[r] \in Handler /\ Loads(handler[r])
  BY <1>1, Typed DEF IInv, RowsOfHandlers, LoadsHold
<1>3. handler' = [handler EXCEPT ![r] = handler[r]]
  BY <1>1 DEF IInv, TypeOK
<1>4. attempts' \in [Request -> SUBSET AttemptRow]
  BY <1>1 DEF IInv, TypeOK, AttemptRow
<1>5. \A t \in Attempts' : t \in Attempts
  <2> SUFFICES ASSUME NEW p \in Request, NEW t \in attempts'[p]
               PROVE  t \in attempts[p]
    BY DEF Attempts
  <2> QED
    BY <1>1 DEF IInv, TypeOK
<1>6. \A t \in Attempts' :
        /\ Exists(candidates[t.candidate].state) /\ Exists(providers[t.provider].state)
        /\ Exists(keys[t.key].state) /\ keys[t.key].provider = t.provider
  BY <1>5 DEF IInv, ReferencesHold, AttemptLinks
<1>7. NoRequest.state = "none"
  BY DEF NoRequest
<1> QED
  BY <1>1, <1>2, <1>3, <1>4, <1>6, <1>7, StepOfHandler

LEMMA RestartIInv ==
  ASSUME IInv, Restart
  PROVE  IInv'
<1>1. /\ handler' = [r \in Request |-> Idle]
      /\ UNCHANGED <<accessKeys, providers, keys, models, candidates, attempts>>
  BY DEF Restart, config
<1>2. ASSUME NEW r \in Request
      PROVE  /\ requests'[r] \in {NoRequest} \cup RequestRow
             /\ requests'[r].state # "none" =>
                  requests[r].state # "none" /\ requests'[r].access = requests[r].access
  <2> DEFINE closed == [requests[r] EXCEPT !.state = "ended"]
  <2>1. requests[r].state = "in_progress" => closed \in RequestRow /\ closed.access = requests[r].access
    BY Typed DEF IInv, RequestRow
  <2>2. requests'[r] = IF requests[r].state = "in_progress" THEN closed ELSE requests[r]
    BY DEF Restart
  <2> HIDE DEF closed
  <2> QED
    BY <2>1, <2>2, Typed DEF IInv
<1>3. requests' \in [Request -> {NoRequest} \cup RequestRow]
  <2>1. requests' = [r \in Request |-> requests'[r]]
    BY DEF Restart
  <2> QED
    BY <1>2, <2>1
<1>4. Idle \in Handler /\ Idle.pc = "idle"
  BY DEF Handler, Idle
<1>5. TypeOK'
  BY <1>1, <1>3, <1>4 DEF IInv, TypeOK, RequestRow
<1>6. RoutesAreWhole' /\ AttemptLinks'
  BY <1>1 DEF IInv, RoutesAreWhole, AttemptLinks, Attempts
<1>7. ReferencesHold'
  BY <1>1, <1>2 DEF IInv, ReferencesHold, Attempts
<1>8. RowsOfHandlers' /\ LoadsHold'
  BY <1>1, <1>4 DEF RowsOfHandlers, LoadsHold, Loads
<1> QED
  BY <1>5, <1>6, <1>7, <1>8 DEF IInv

-----------------------------------------------------------------------------
LEMMA InitIInv == Init => IInv
<1> SUFFICES ASSUME Init PROVE IInv
  OBVIOUS
<1>1. Idle \in Handler /\ Idle.pc = "idle"
  BY DEF Handler, Idle
<1>2. TypeOK
  BY <1>1 DEF Init, TypeOK, State
<1>3. Attempts = {}
  BY DEF Init, Attempts
<1>4. RoutesAreWhole
  BY DEF Init, RoutesAreWhole, NoRow
<1>5. ReferencesHold /\ AttemptLinks
  BY <1>3 DEF Init, ReferencesHold, AttemptLinks, NoRow, NoRequest, Exists
<1>6. RowsOfHandlers /\ LoadsHold
  BY <1>1 DEF Init, RowsOfHandlers, LoadsHold, Loads
<1> QED
  BY <1>2, <1>4, <1>5, <1>6 DEF IInv

LEMMA NextIInv ==
  ASSUME IInv, [Next]_vars
  PROVE  IInv'
<1>1. CASE UNCHANGED vars
  <2>1. UNCHANGED <<accessKeys, providers, keys, models, candidates, requests, attempts, handler>>
    BY <1>1 DEF vars, config, log
  <2> QED
    BY <2>1 DEF IInv, TypeOK, RoutesAreWhole, ReferencesHold, Attempts, RowsOfHandlers, AttemptLinks,
       LoadsHold, Loads, Read, Chosen, ReadKey
<1>2. ASSUME NEW p \in Provider, EditProvider(p)
      PROVE  IInv'
  <2>1. \A k \in activeKeys(p) : k \in UpstreamKey
    BY DEF activeKeys
  <2>2. \A k \in unusedKeys : k \in UpstreamKey
    BY DEF unusedKeys
  <2>3. ASSUME NEW endpoints \in SUBSET Protocol, NEW new \in SUBSET unusedKeys,
               CreateProvider(p, endpoints, new)
        PROVE  IInv'
    BY <2>2, <2>3, CreateProviderIInv
  <2>4. ASSUME NEW endpoints \in SUBSET Protocol, NEW new \in SUBSET unusedKeys,
               NEW kept \in SUBSET activeKeys(p), UpdateProvider(p, endpoints, kept, new)
        PROVE  IInv'
    BY <2>1, <2>2, <2>4, UpdateProviderIInv
  <2> QED
    BY <1>2, <2>3, <2>4, DeleteProviderIInv DEF EditProvider
<1>3. ASSUME NEW m \in Model, EditModel(m)
      PROVE  IInv'
  <2> DEFINE cs == activeCandidates(m) \cup unusedCandidates
  <2>1. cs \subseteq Candidate
    BY DEF activeCandidates, unusedCandidates
  <2>2. ASSUME NEW name \in Name, NEW routes \in RouteLists(cs),
               CreateVirtualModel(m, name, routes) \/ UpdateVirtualModel(m, name, routes)
        PROVE  IInv'
    <3>1. PICK d \in SUBSET Candidate : routes \in [d -> Route]
      BY <2>1, <2>2 DEF RouteLists
    <3> QED
      BY <2>2, <3>1, CreateVirtualModelIInv, UpdateVirtualModelIInv
  <2> QED
    BY <1>3, <2>2, DeleteVirtualModelIInv DEF EditModel
<1> QED
  BY <1>1, <1>2, <1>3, CreateAccessKeyIInv, DeleteAccessKeyIInv, AuthenticateIInv, HandleIInv,
     DeleteRecordsIInv, RestartIInv DEF Next

LEMMA Invariance == Spec => []IInv
<1>1. IInv /\ [Next]_vars => IInv'
  BY NextIInv
<1> QED
  BY InitIInv, <1>1, PTL DEF Spec

(* The tables and the handlers keep their types.                           *)
THEOREM TypeCorrect == Spec => []TypeOK
<1>1. IInv => TypeOK
  BY DEF IInv
<1> QED
  BY Invariance, <1>1, PTL

(* Whatever the order of edits of models and providers, every active       *)
(* candidate has its model, its provider and the endpoints it needs.       *)
THEOREM RoutesStayWhole == Spec => []RoutesAreWhole
<1>1. IInv => RoutesAreWhole
  BY DEF IInv
<1> QED
  BY Invariance, <1>1, PTL

(* No deletion removes a row that another row refers to.                   *)
THEOREM ReferencesAlwaysHold == Spec => []ReferencesHold
<1>1. IInv => ReferencesHold
  BY DEF IInv
<1> QED
  BY Invariance, <1>1, PTL

(* A route that was loaded by several queries, with edits between them,    *)
(* agrees with the configuration whose revision it carries.                *)
THEOREM RoutesMatchRevisions == Spec => []RouteMatchesRevision
<1>1. IInv => RouteMatchesRevision
  <2> SUFFICES ASSUME IInv, NEW r \in Request,
                      handler[r].pc \in {"providers", "endpoints", "keys", "serve"},
                      NEW t \in handler[r].routes
               PROVE  /\ keys[t.key].state # "deleted" => keys[t.key].provider = t.provider
                      /\ LET c == candidates[t.candidate]
                         IN  c.state = "active" /\ c.revision = t.revision =>
                               c.provider = t.provider /\ t.protocol \in c.protocols
    BY DEF RouteMatchesRevision
  <2>1. Read(t.candidate, t) /\ Chosen(t.candidate, t) /\ ReadKey(t)
    BY DEF IInv, LoadsHold, Loads
  <2>2. t.key \in UpstreamKey
    BY Typed, Holds DEF IInv, LoadedRoute
  <2>3. keys[t.key].state \in {"unused", "deleted", "active", "archived"}
    BY <2>2, Typed DEF IInv, KeyRow, NoRow, Gone, Live
  <2> QED
    BY <2>1, <2>3 DEF Read, Chosen, ReadKey, Exists
<1> QED
  BY Invariance, <1>1, PTL
=============================================================================
