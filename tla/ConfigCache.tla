----------------------------- MODULE ConfigCache -----------------------------
(***************************************************************************)
(* The configuration caches of internal/store: routeCache, accessKeyCache  *)
(* and modelNamesCache, the version counter that guards them (configMu,    *)
(* configVersion) and the load mutexes (routeLoadMu, accessKeyLoadMu).     *)
(*                                                                         *)
(* A reader looks the item up, waits for the load mutex of the item, looks *)
(* it up again and notes the version, loads the rows one query at a time,  *)
(* and stores the result only if the version has not moved meanwhile.  A   *)
(* mutator commits its transaction and then invalidates: every cache       *)
(* (invalidateConfig), or only the route templates (invalidateRoutes) when *)
(* it wrote rows that no other item reads.                                 *)
(*                                                                         *)
(* settled, floor and pending are history: they say which mutations had    *)
(* returned when a read began.  No guard of a step of the code reads them. *)
(***************************************************************************)
EXTENDS Naturals

CONSTANTS
  Row, Item, RowsOf, Reader, Mutator, MaxVersion,
  RouteItem,   \* the items kept in routeCache
  RouteRow,    \* rows written by the mutations that call invalidateRoutes
  Lock,        \* the load mutexes
  LockOf,      \* LockOf[i]: the mutex taken to load item i
  Free         \* the owner of a mutex nobody holds

ASSUME CacheAssumption ==
  /\ Item # {}
  /\ RowsOf \in [Item -> SUBSET Row]
  /\ LockOf \in [Item -> Lock]
  /\ RouteItem \subseteq Item
  /\ RouteRow \subseteq Row
  /\ MaxVersion \in Nat
  /\ Free \notin Reader
  /\ \A i \in Item \ RouteItem : RowsOf[i] \cap RouteRow = {}

VARIABLES
  db, settled, pending, rpc, ritem, floor, value,
  configVersion,  \* Store.configVersion
  hit,            \* the items present in their cache
  cache,          \* cache[i]: the cached value, meaningful when i is in hit
  owner,          \* owner of each load mutex
  seen,           \* seen[r]: the version r noted before loading
  got,            \* got[r]: the rows r has queried so far
  loaded,         \* loaded[r]: what those queries returned
  scope           \* scope[m]: which invalidation m will run

vars == <<db, settled, pending, rpc, ritem, floor, value,
          configVersion, hit, cache, owner, seen, got, loaded, scope>>

\* Parts of the state that several steps leave alone.
storage   == <<db, settled, pending, scope>>
caches    == <<configVersion, hit, cache>>
query     == <<ritem, floor>>

Version == [Row -> Nat]
None    == [row \in Row |-> 0]
AnyItem == CHOOSE i \in Item : TRUE
Larger(m, n) == IF m < n THEN n ELSE m

Init ==
  /\ db = None
  /\ settled = None
  /\ pending = [m \in Mutator |-> None]
  /\ rpc = [r \in Reader |-> "idle"]
  /\ ritem = [r \in Reader |-> AnyItem]
  /\ floor = [r \in Reader |-> None]
  /\ value = [r \in Reader |-> None]
  /\ configVersion = 0
  /\ hit = {}
  /\ cache = [i \in Item |-> None]
  /\ owner = [l \in Lock |-> Free]
  /\ seen = [r \in Reader |-> 0]
  /\ got = [r \in Reader |-> {}]
  /\ loaded = [r \in Reader |-> None]
  /\ scope = [m \in Mutator |-> "config"]

-----------------------------------------------------------------------------
(* Mutators.  The SQL of a mutation is one transaction. *)

Commit(m, W, kind) ==
  /\ pending[m] = None
  /\ W # {}
  /\ kind = "routes" => W \subseteq RouteRow
  /\ \A row \in W : db[row] < MaxVersion
  /\ db' = [row \in Row |-> IF row \in W THEN db[row] + 1 ELSE db[row]]
  /\ pending' = [pending EXCEPT ![m] = [row \in Row |-> IF row \in W THEN db[row] + 1 ELSE 0]]
  /\ scope' = [scope EXCEPT ![m] = kind]
  /\ UNCHANGED <<settled, rpc, ritem, floor, value, caches, owner, seen, got, loaded>>

(* The items an invalidation removes. *)
Dropped(kind) == IF kind = "routes" THEN RouteItem ELSE Item

(* invalidateConfig / invalidateRoutes: one critical section of configMu,  *)
(* after which the mutation returns to its caller.                         *)
Invalidate(m) ==
  /\ pending[m] # None
  /\ configVersion' = configVersion + 1
  /\ hit' = hit \ Dropped(scope[m])
  /\ settled' = [row \in Row |-> Larger(settled[row], pending[m][row])]
  /\ pending' = [pending EXCEPT ![m] = None]
  /\ cache' = [i \in Item |-> IF i \in Dropped(scope[m]) THEN None ELSE cache[i]]
  /\ scope' = [scope EXCEPT ![m] = "config"]
  /\ UNCHANGED <<db, rpc, query, value, owner, seen, got, loaded>>

-----------------------------------------------------------------------------
(* Readers: cachedRouteTemplates, cachedAccessKey, EnabledModelNames. *)

Begin(r, i) ==
  /\ rpc[r] = "idle"
  /\ rpc' = [rpc EXCEPT ![r] = "lookup"]
  /\ ritem' = [ritem EXCEPT ![r] = i]
  /\ floor' = [floor EXCEPT ![r] = settled]
  /\ UNCHANGED <<storage, caches, value, owner, seen, got, loaded>>

(* The first look at the cache, under configMu.RLock. *)
Lookup(r) ==
  /\ rpc[r] = "lookup"
  /\ \/ /\ ritem[r] \in hit
        /\ value' = [value EXCEPT ![r] = cache[ritem[r]]]
        /\ rpc' = [rpc EXCEPT ![r] = "returned"]
     \/ /\ ritem[r] \notin hit
        /\ rpc' = [rpc EXCEPT ![r] = "wait"]
        /\ UNCHANGED value
  /\ UNCHANGED <<storage, caches, query, owner, seen, got, loaded>>

AcquireLoad(r) ==
  /\ rpc[r] = "wait"
  /\ owner[LockOf[ritem[r]]] = Free
  /\ owner' = [owner EXCEPT ![LockOf[ritem[r]]] = r]
  /\ rpc' = [rpc EXCEPT ![r] = "recheck"]
  /\ UNCHANGED <<storage, caches, query, value, seen, got, loaded>>

(* The deferred unlock; the locals of the call go out of scope. *)
Release(r) ==
  /\ owner' = [owner EXCEPT ![LockOf[ritem[r]]] = Free]
  /\ seen' = [seen EXCEPT ![r] = 0]
  /\ got' = [got EXCEPT ![r] = {}]
  /\ loaded' = [loaded EXCEPT ![r] = None]

(* The caller gets an answer or an error; the history of the read ends. *)
Leave(r) ==
  /\ rpc' = [rpc EXCEPT ![r] = "idle"]
  /\ ritem' = [ritem EXCEPT ![r] = AnyItem]
  /\ floor' = [floor EXCEPT ![r] = None]
  /\ value' = [value EXCEPT ![r] = None]

(* The second look, which also notes the version the load will run under. *)
Recheck(r) ==
  /\ rpc[r] = "recheck"
  /\ \/ /\ ritem[r] \in hit
        /\ value' = [value EXCEPT ![r] = cache[ritem[r]]]
        /\ rpc' = [rpc EXCEPT ![r] = "returned"]
        /\ Release(r)
     \/ /\ ritem[r] \notin hit
        /\ rpc' = [rpc EXCEPT ![r] = "load"]
        /\ seen' = [seen EXCEPT ![r] = configVersion]
        /\ UNCHANGED <<value, owner, got, loaded>>
  /\ UNCHANGED <<storage, caches, query>>

\* Mutant: the version is noted after each query instead of before the load.
LoadRowNotesLate(r, row) ==
  /\ rpc[r] = "load"
  /\ row \in RowsOf[ritem[r]] \ got[r]
  /\ got' = [got EXCEPT ![r] = got[r] \cup {row}]
  /\ loaded' = [loaded EXCEPT ![r] = [loaded[r] EXCEPT ![row] = db[row]]]
  /\ seen' = [seen EXCEPT ![r] = configVersion]
  /\ UNCHANGED <<storage, caches, query, rpc, value, owner>>

(* One query of the load: there is no transaction around them. *)
LoadRow(r, row) ==
  /\ rpc[r] = "load"
  /\ row \in RowsOf[ritem[r]] \ got[r]
  /\ got' = [got EXCEPT ![r] = got[r] \cup {row}]
  /\ loaded' = [loaded EXCEPT ![r] = [loaded[r] EXCEPT ![row] = db[row]]]
  /\ UNCHANGED <<storage, caches, query, rpc, value, owner, seen>>

(* A query fails, or finds no such model or key: nothing is cached. *)
LoadFails(r) ==
  /\ rpc[r] = "load"
  /\ Release(r)
  /\ Leave(r)
  /\ UNCHANGED <<storage, caches>>

\* Mutant: the loaded value is stored without looking at the version.
StoreLoadedUnchecked(r) ==
  /\ rpc[r] = "load"
  /\ RowsOf[ritem[r]] \subseteq got[r]
  /\ cache' = [cache EXCEPT ![ritem[r]] = loaded[r]]
  /\ hit' = hit \cup {ritem[r]}
  /\ value' = [value EXCEPT ![r] = loaded[r]]
  /\ rpc' = [rpc EXCEPT ![r] = "returned"]
  /\ Release(r)
  /\ UNCHANGED <<storage, query, configVersion>>

\* Mutant: a load that raced an invalidation is repeated, with the version
\* that was noted for the first one.
StoreLoadedRepeats(r) ==
  /\ rpc[r] = "load"
  /\ RowsOf[ritem[r]] \subseteq got[r]
  /\ \/ /\ seen[r] = configVersion
        /\ cache' = [cache EXCEPT ![ritem[r]] = loaded[r]]
        /\ hit' = hit \cup {ritem[r]}
        /\ value' = [value EXCEPT ![r] = loaded[r]]
        /\ rpc' = [rpc EXCEPT ![r] = "returned"]
        /\ Release(r)
     \/ /\ seen[r] # configVersion
        /\ got' = [got EXCEPT ![r] = {}]
        /\ loaded' = [loaded EXCEPT ![r] = None]
        /\ UNCHANGED <<cache, hit, value, rpc, owner, seen>>
  /\ UNCHANGED <<storage, query, configVersion>>

(* Store under configMu, only if no invalidation came in between, unlock   *)
(* the load mutex and return what was loaded either way.                   *)
StoreLoaded(r) ==
  /\ rpc[r] = "load"
  /\ RowsOf[ritem[r]] \subseteq got[r]
  /\ \/ /\ seen[r] = configVersion
        /\ cache' = [cache EXCEPT ![ritem[r]] = loaded[r]]
        /\ hit' = hit \cup {ritem[r]}
     \/ /\ seen[r] # configVersion
        /\ UNCHANGED <<cache, hit>>
  /\ value' = [value EXCEPT ![r] = loaded[r]]
  /\ rpc' = [rpc EXCEPT ![r] = "returned"]
  /\ Release(r)
  /\ UNCHANGED <<storage, query, configVersion>>

Consume(r) ==
  /\ rpc[r] = "returned"
  /\ Leave(r)
  /\ UNCHANGED <<storage, caches, owner, seen, got, loaded>>

ReaderStep(r) ==
  \/ Lookup(r)
  \/ AcquireLoad(r)
  \/ Recheck(r)
  \/ \E row \in Row : LoadRow(r, row)
  \/ LoadFails(r)
  \/ StoreLoaded(r)
  \/ Consume(r)

Next ==
  \/ \E m \in Mutator, W \in SUBSET Row, kind \in {"config", "routes"} : Commit(m, W, kind)
  \/ \E m \in Mutator : Invalidate(m)
  \/ \E r \in Reader, i \in Item : Begin(r, i)
  \/ \E r \in Reader : ReaderStep(r)

Spec == Init /\ [][Next]_vars

(* A goroutine that can run does run, and Go's mutex does not starve a     *)
(* waiter: a reader that is inside the call takes its steps.  Nothing is   *)
(* asked of the callers (Begin) or of the administrators (Commit).         *)
Progress(r) == Lookup(r) \/ Recheck(r) \/ (\E row \in Row : LoadRow(r, row)) \/ StoreLoaded(r)

FairSpec ==
  /\ Spec
  /\ \A r \in Reader : WF_vars(Progress(r)) /\ SF_vars(AcquireLoad(r))

-----------------------------------------------------------------------------
ReaderState == {"idle", "lookup", "wait", "recheck", "load", "returned"}

(* The type of every variable of Store's caches. *)
TypeOK ==
  /\ db \in Version
  /\ settled \in Version
  /\ pending \in [Mutator -> Version]
  /\ rpc \in [Reader -> ReaderState]
  /\ ritem \in [Reader -> Item]
  /\ floor \in [Reader -> Version]
  /\ value \in [Reader -> Version]
  /\ configVersion \in Nat
  /\ hit \subseteq Item
  /\ cache \in [Item -> Version]
  /\ owner \in [Lock -> Reader \cup {Free}]
  /\ seen \in [Reader -> Nat]
  /\ got \in [Reader -> SUBSET Row]
  /\ loaded \in [Reader -> Version]
  /\ scope \in [Mutator -> {"config", "routes"}]

(* A read of the route templates, of an access key or of the model names   *)
(* never answers with a row older than what a mutation that had already    *)
(* returned before the read began left there (a key just disabled, a       *)
(* candidate just edited), nor with a row that is not committed: however   *)
(* loads, invalidations and mutations interleave in store.go/routing.go.   *)
NoStaleAfterReturn ==
  \A r \in Reader : rpc[r] = "returned" =>
    \A row \in RowsOf[ritem[r]] : floor[r][row] <= value[r][row] /\ value[r][row] <= db[row]

(* A cached row that differs from the database is always about to be       *)
(* dropped: a mutation that wrote a later version of that row has not yet  *)
(* run its invalidateConfig or invalidateRoutes.  In particular, once no   *)
(* mutation is under way the caches agree with the database, so a slow     *)
(* load can never leave an outdated entry behind.                          *)
CacheCoherent ==
  \A i \in hit : \A row \in RowsOf[i] :
    cache[i][row] # db[row] => \E m \in Mutator : pending[m][row] > cache[i][row]

(* Every call of cachedRouteTemplates, cachedAccessKey or                  *)
(* EnabledModelNames comes to an end, whatever the other readers and the   *)
(* mutators do: the load mutex is given back on every path, the failing    *)
(* one included.                                                           *)
EveryReadReturns ==
  \A r \in Reader : rpc[r] = "lookup" ~> rpc[r] \in {"idle", "returned"}

(* The caches implement the cache-free register of ConfigRegister: the     *)
(* steps of a read inside the call are invisible, its answer and the       *)
(* mutations are steps of the register.                                    *)
Phase(p) == IF p \in {"lookup", "wait", "recheck", "load"} THEN "reading" ELSE p
Register == INSTANCE ConfigRegister WITH rpc <- [r \in Reader |-> Phase(rpc[r])]
ImplementsRegister == Register!Spec
=============================================================================
