-------------------------- MODULE ConfigCacheProofs --------------------------
(***************************************************************************)
(* For any number of readers, mutators, rows and items: the configuration  *)
(* caches never serve a row older than the last mutation that had returned *)
(* when the read began, and they implement ConfigRegister.                 *)
(*                                                                         *)
(* The argument.  A row of a cached value, or of a load that still runs    *)
(* under the current version, may lag behind the database only while a     *)
(* mutation of that row has not invalidated (Lag); and it is never older   *)
(* than what the returned mutations left (settled).  An invalidation       *)
(* settles its rows, and at the same moment removes every cached value     *)
(* that reads them and moves the version away from every load under way.   *)
(***************************************************************************)
EXTENDS ConfigCache, TLAPS

(* Row row of v is current, or the mutation that outdated it is pending. *)
Lag(v, row) == v[row] # db[row] => \E m \in Mutator : pending[m][row] > v[row]

(* v answers for row with a settled and committed version. *)
Settled(v, row) == settled[row] <= v[row] /\ v[row] <= db[row]

WritesInv ==
  /\ \A row \in Row : settled[row] <= db[row]
  /\ \A m \in Mutator : \A row \in Row : pending[m][row] <= db[row]
  /\ \A m \in Mutator : scope[m] = "routes" => \A row \in Row \ RouteRow : pending[m][row] = 0

FloorInv == \A r \in Reader : \A row \in Row : floor[r][row] <= settled[row]

CacheInv ==
  \A i \in hit : \A row \in RowsOf[i] : Settled(cache[i], row) /\ Lag(cache[i], row)

(* A load is no older than its own beginning; while no invalidation has    *)
(* happened since it noted the version, it is as good as a cached value.   *)
LoadInv ==
  \A r \in Reader : rpc[r] = "load" =>
    /\ seen[r] <= configVersion
    /\ \A row \in got[r] :
         /\ floor[r][row] <= loaded[r][row]
         /\ loaded[r][row] <= db[row]
         /\ seen[r] = configVersion => Settled(loaded[r], row) /\ Lag(loaded[r], row)

(* A reader that is not loading has queried nothing. *)
GotInv == \A r \in Reader : rpc[r] # "load" => got[r] = {}

IInv ==
  /\ TypeOK
  /\ WritesInv
  /\ FloorInv
  /\ CacheInv
  /\ LoadInv
  /\ GotInv
  /\ NoStaleAfterReturn

-----------------------------------------------------------------------------
LEMMA NoneIsVersion == None \in Version
  BY DEF None, Version

LEMMA AnyItemIsItem == AnyItem \in Item
  BY CacheAssumption DEF AnyItem

(* Type correctness of the cache state, step by step. *)
LEMMA TypeInit == Init => TypeOK
  BY NoneIsVersion, AnyItemIsItem, CacheAssumption DEF Init, TypeOK, ReaderState

LEMMA TypeStep == TypeOK /\ [Next]_vars => TypeOK'
  <1> SUFFICES ASSUME TypeOK, [Next]_vars PROVE TypeOK'
    OBVIOUS
  <1> USE NoneIsVersion, AnyItemIsItem, CacheAssumption DEF TypeOK, ReaderState, storage, caches, query
  <1>1. ASSUME NEW m \in Mutator, NEW W \in SUBSET Row, NEW kind \in {"config", "routes"},
               Commit(m, W, kind)
        PROVE  TypeOK'
    BY <1>1 DEF Commit, Version
  <1>2. ASSUME NEW m \in Mutator, Invalidate(m) PROVE TypeOK'
    <2>1. settled' \in Version
      BY <1>2 DEF Invalidate, Version, Larger
    <2>2. cache' \in [Item -> Version]
      BY <1>2 DEF Invalidate
    <2>. QED BY <1>2, <2>1, <2>2 DEF Invalidate
  <1>3. ASSUME NEW r \in Reader, NEW i \in Item, Begin(r, i) PROVE TypeOK'
    BY <1>3 DEF Begin
  <1>4. ASSUME NEW r \in Reader, Lookup(r) PROVE TypeOK'
    BY <1>4 DEF Lookup
  <1>5. ASSUME NEW r \in Reader, AcquireLoad(r) PROVE TypeOK'
    BY <1>5 DEF AcquireLoad
  <1>6. ASSUME NEW r \in Reader, Recheck(r) PROVE TypeOK'
    BY <1>6 DEF Recheck, Release
  <1>7. ASSUME NEW r \in Reader, NEW row \in Row, LoadRow(r, row) PROVE TypeOK'
    BY <1>7 DEF LoadRow, Version
  <1>8. ASSUME NEW r \in Reader, LoadFails(r) PROVE TypeOK'
    BY <1>8 DEF LoadFails, Release, Leave
  <1>9. ASSUME NEW r \in Reader, StoreLoaded(r) PROVE TypeOK'
    BY <1>9 DEF StoreLoaded, Release
  <1>10. ASSUME NEW r \in Reader, Consume(r) PROVE TypeOK'
    BY <1>10 DEF Consume, Leave
  <1>11. CASE UNCHANGED vars
    BY <1>11 DEF vars
  <1>. QED
    BY <1>1, <1>2, <1>3, <1>4, <1>5, <1>6, <1>7, <1>8, <1>9, <1>10, <1>11 DEF Next, ReaderStep

(* Every state of the cache is well typed, whatever the constants. *)
THEOREM TypeCorrect == Spec => []TypeOK
  BY TypeInit, TypeStep, PTL DEF Spec

-----------------------------------------------------------------------------
LEMMA InvInit == Init => IInv
  BY TypeInit, CacheAssumption
  DEF Init, IInv, WritesInv, FloorInv, CacheInv, LoadInv, GotInv, NoStaleAfterReturn, None

(* A commit raises the versions of the rows it writes and becomes the      *)
(* pending mutation that every value outdated by it points to.             *)
LEMMA CommitStep ==
  ASSUME IInv, NEW m \in Mutator, NEW W \in SUBSET Row, NEW kind \in {"config", "routes"},
         Commit(m, W, kind), TypeOK'
  PROVE  IInv'
  <1> USE CacheAssumption DEF IInv, TypeOK, Version, caches
  <1>1. \A row \in Row : db[row] <= db'[row]
    BY DEF Commit
  <1>2. \A row \in W : pending'[m][row] = db'[row] /\ db[row] < db'[row]
    BY DEF Commit
  <1>3. \A row \in Row \ W : db'[row] = db[row]
    BY DEF Commit
  <1>4. \A n \in Mutator : n # m => pending'[n] = pending[n]
    BY DEF Commit
  <1>5. \A row \in Row : pending[m][row] = 0
    BY DEF Commit, None
  <1>6. ASSUME NEW v \in Version, NEW row \in Row, v[row] <= db[row], Lag(v, row)
        PROVE  Lag(v, row)'
    <2>1. CASE row \in W
      BY <1>6, <2>1, <1>2 DEF Lag
    <2>2. CASE row \notin W
      <3>1. db'[row] = db[row]
        BY <2>2, <1>3
      <3>2. ASSUME v[row] # db[row] PROVE \E n \in Mutator : pending'[n][row] > v[row]
        <4>1. PICK n \in Mutator : pending[n][row] > v[row]
          BY <1>6, <3>2 DEF Lag
        <4>2. n # m
          BY <4>1, <1>5
        <4>. QED BY <4>1, <4>2, <1>4
      <3>. QED BY <3>1, <3>2 DEF Lag
    <2>. QED BY <2>1, <2>2
  <1>7. WritesInv'
    BY <1>1, <1>2, <1>3, <1>4 DEF WritesInv, Commit
  <1>8. FloorInv'
    BY DEF FloorInv, Commit
  <1>9. CacheInv'
    <2> SUFFICES ASSUME NEW i \in hit, NEW row \in RowsOf[i]
                 PROVE  Settled(cache[i], row)' /\ Lag(cache[i], row)'
      BY DEF CacheInv, Commit
    <2>1. Settled(cache[i], row) /\ Lag(cache[i], row)
      BY DEF CacheInv
    <2>2. row \in Row /\ cache[i] \in Version /\ cache' = cache /\ settled' = settled
      BY DEF Commit
    <2>3. Settled(cache[i], row)'
      BY <2>1, <2>2, <1>1 DEF Settled
    <2>4. Lag(cache[i], row)'
      BY <2>1, <2>2, <1>6 DEF Settled, Lag
    <2>. QED BY <2>3, <2>4
  <1>10. LoadInv'
    <2> SUFFICES ASSUME NEW r \in Reader, rpc[r] = "load"
                 PROVE  /\ seen[r] <= configVersion
                        /\ \A row \in got[r] :
                             /\ floor[r][row] <= loaded[r][row]
                             /\ loaded[r][row] <= db'[row]
                             /\ seen[r] = configVersion => Settled(loaded[r], row)' /\ Lag(loaded[r], row)'
      BY DEF LoadInv, Commit, Settled, Lag
    <2>1. seen[r] <= configVersion
      BY DEF LoadInv
    <2>2. ASSUME NEW row \in got[r]
          PROVE  /\ floor[r][row] <= loaded[r][row]
                 /\ loaded[r][row] <= db'[row]
                 /\ seen[r] = configVersion => Settled(loaded[r], row)' /\ Lag(loaded[r], row)'
      <3>1. row \in Row /\ loaded[r] \in Version /\ loaded' = loaded /\ settled' = settled
        BY DEF Commit
      <3>2. /\ floor[r][row] <= loaded[r][row]
            /\ loaded[r][row] <= db[row]
            /\ seen[r] = configVersion => Settled(loaded[r], row) /\ Lag(loaded[r], row)
        BY DEF LoadInv
      <3>3. loaded[r][row] <= db'[row]
        BY <3>1, <3>2, <1>1
      <3>4. ASSUME seen[r] = configVersion PROVE Settled(loaded[r], row)' /\ Lag(loaded[r], row)'
        <4>1. Settled(loaded[r], row)'
          BY <3>1, <3>2, <3>4, <1>1 DEF Settled
        <4>2. Lag(loaded[r], row)'
          BY <3>1, <3>2, <3>4, <1>6 DEF Lag
        <4>. QED BY <4>1, <4>2
      <3>. QED BY <3>2, <3>3, <3>4
    <2>. QED BY <2>1, <2>2
  <1>11. GotInv'
    BY DEF GotInv, Commit
  <1>12. NoStaleAfterReturn'
    BY <1>1 DEF NoStaleAfterReturn, Commit
  <1>. QED
    BY <1>7, <1>8, <1>9, <1>10, <1>11, <1>12

(* An invalidation settles the rows of its mutation, removes the cached    *)
(* values that read them and moves the version away from every load.       *)
LEMMA InvalidateStep ==
  ASSUME IInv, NEW m \in Mutator, Invalidate(m), TypeOK'
  PROVE  IInv'
  <1> USE CacheAssumption DEF IInv, TypeOK, Version, query
  <1>1. \A row \in Row : settled[row] <= settled'[row] /\ settled'[row] <= db[row]
    BY DEF Invalidate, Larger, WritesInv
  <1>2. \A n \in Mutator : n # m => pending'[n] = pending[n] /\ scope'[n] = scope[n]
    BY DEF Invalidate
  <1>3. \A row \in Row : pending'[m][row] = 0
    BY DEF Invalidate, None
  <1>4. WritesInv'
    <2>1. \A row \in Row : settled'[row] <= db'[row]
      BY <1>1 DEF Invalidate
    <2>2. \A n \in Mutator : \A row \in Row : pending'[n][row] <= db'[row]
      BY <1>2, <1>3 DEF Invalidate, WritesInv
    <2>3. \A n \in Mutator : scope'[n] = "routes" => \A row \in Row \ RouteRow : pending'[n][row] = 0
      <3> SUFFICES ASSUME NEW n \in Mutator, scope'[n] = "routes", NEW row \in Row \ RouteRow
                   PROVE  pending'[n][row] = 0
        OBVIOUS
      <3>1. CASE n = m
        BY <3>1, <1>3
      <3>2. CASE n # m
        BY <3>2, <1>2 DEF WritesInv
      <3>. QED BY <3>1, <3>2
    <2>. QED BY <2>1, <2>2, <2>3 DEF WritesInv
  <1>5. FloorInv'
    BY <1>1 DEF FloorInv, Invalidate
  <1>6. CacheInv'
    <2>1. CASE scope[m] = "config"
      BY <2>1 DEF CacheInv, Invalidate, Dropped
    <2>2. CASE scope[m] = "routes"
      <3> SUFFICES ASSUME NEW i \in hit', NEW row \in RowsOf[i]
                   PROVE  Settled(cache[i], row)' /\ Lag(cache[i], row)'
        BY DEF CacheInv, Settled, Lag
      <3>1. i \in hit /\ i \in Item /\ i \notin RouteItem /\ cache'[i] = cache[i]
        BY <2>2 DEF Invalidate, Dropped
      <3>2. row \in Row \ RouteRow
        BY <3>1
      <3>3. pending[m][row] = 0
        BY <2>2, <3>2 DEF WritesInv
      <3>4. settled'[row] = settled[row] /\ db'[row] = db[row]
        BY <3>2, <3>3 DEF Invalidate, Larger
      <3>5. Settled(cache[i], row) /\ Lag(cache[i], row)
        BY <3>1 DEF CacheInv
      <3>6. ASSUME cache[i][row] # db[row]
            PROVE  \E n \in Mutator : pending'[n][row] > cache[i][row]
        <4>1. PICK n \in Mutator : pending[n][row] > cache[i][row]
          BY <3>5, <3>6 DEF Lag
        <4>2. n # m
          BY <4>1, <3>1, <3>2, <3>3
        <4>. QED BY <4>1, <4>2, <1>2
      <3>. QED BY <3>1, <3>4, <3>5, <3>6 DEF Settled, Lag
    <2>. QED BY <2>1, <2>2
  <1>7. LoadInv'
    BY DEF LoadInv, Invalidate
  <1>8. GotInv'
    BY DEF GotInv, Invalidate
  <1>9. NoStaleAfterReturn'
    BY DEF NoStaleAfterReturn, Invalidate
  <1>. QED
    BY <1>4, <1>5, <1>6, <1>7, <1>8, <1>9

(* The steps of a reader touch neither the database nor the mutations. *)
LEMMA ReaderStepKeeps ==
  ASSUME IInv, UNCHANGED <<db, settled, pending, scope>>
  PROVE  WritesInv'
  BY DEF IInv, WritesInv

LEMMA BeginStep ==
  ASSUME IInv, NEW r \in Reader, NEW i \in Item, Begin(r, i), TypeOK'
  PROVE  IInv'
  <1> USE CacheAssumption DEF IInv, TypeOK, Version, storage, caches
  <1>1. WritesInv'
    BY ReaderStepKeeps DEF Begin
  <1>2. FloorInv'
    BY DEF FloorInv, Begin
  <1>3. CacheInv'
    BY DEF CacheInv, Begin, Settled, Lag
  <1>4. LoadInv'
    BY DEF LoadInv, Begin, Settled, Lag
  <1>5. GotInv'
    BY DEF GotInv, Begin
  <1>6. NoStaleAfterReturn'
    BY DEF NoStaleAfterReturn, Begin
  <1>. QED BY <1>1, <1>2, <1>3, <1>4, <1>5, <1>6

(* A cached value is settled, hence at least as new as any read's floor. *)
LEMMA LookupStep ==
  ASSUME IInv, NEW r \in Reader, Lookup(r), TypeOK'
  PROVE  IInv'
  <1> USE CacheAssumption DEF IInv, TypeOK, Version, storage, caches, query
  <1>1. WritesInv'
    BY ReaderStepKeeps DEF Lookup
  <1>2. FloorInv'
    BY DEF FloorInv, Lookup
  <1>3. CacheInv'
    BY DEF CacheInv, Lookup, Settled, Lag
  <1>4. LoadInv'
    BY DEF LoadInv, Lookup, Settled, Lag
  <1>5. GotInv'
    BY DEF GotInv, Lookup
  <1>6. NoStaleAfterReturn'
    <2>1. ASSUME ritem[r] \in hit, NEW row \in RowsOf[ritem[r]]
          PROVE  floor[r][row] <= cache[ritem[r]][row] /\ cache[ritem[r]][row] <= db[row]
      <3>1. row \in Row /\ ritem[r] \in Item
        BY <2>1
      <3>2. Settled(cache[ritem[r]], row)
        BY <2>1 DEF CacheInv
      <3>3. floor[r][row] <= settled[row]
        BY <3>1 DEF FloorInv
      <3>. QED BY <3>1, <3>2, <3>3 DEF Settled
    <2>. QED BY <2>1 DEF NoStaleAfterReturn, Lookup
  <1>. QED BY <1>1, <1>2, <1>3, <1>4, <1>5, <1>6

LEMMA AcquireStep ==
  ASSUME IInv, NEW r \in Reader, AcquireLoad(r), TypeOK'
  PROVE  IInv'
  <1> USE CacheAssumption DEF IInv, TypeOK, Version, storage, caches, query
  <1>1. WritesInv'
    BY ReaderStepKeeps DEF AcquireLoad
  <1>2. FloorInv' /\ CacheInv'
    BY DEF FloorInv, CacheInv, AcquireLoad, Settled, Lag
  <1>3. LoadInv' /\ GotInv'
    BY DEF LoadInv, GotInv, AcquireLoad, Settled, Lag
  <1>4. NoStaleAfterReturn'
    BY DEF NoStaleAfterReturn, AcquireLoad
  <1>. QED BY <1>1, <1>2, <1>3, <1>4

LEMMA RecheckStep ==
  ASSUME IInv, NEW r \in Reader, Recheck(r), TypeOK'
  PROVE  IInv'
  <1> USE CacheAssumption DEF IInv, TypeOK, Version, storage, caches, query
  <1>1. WritesInv'
    BY ReaderStepKeeps DEF Recheck
  <1>2. FloorInv' /\ CacheInv'
    BY DEF FloorInv, CacheInv, Recheck, Settled, Lag
  <1>3. GotInv'
    BY DEF GotInv, Recheck, Release
  <1>4. LoadInv'
    <2>1. got[r] = {}
      BY DEF GotInv, Recheck
    <2>2. UNCHANGED <<db, settled, pending, configVersion, floor>>
      BY DEF Recheck
    <2>3. \A s \in Reader : s # r => /\ rpc'[s] = rpc[s] /\ seen'[s] = seen[s]
                                     /\ got'[s] = got[s] /\ loaded'[s] = loaded[s]
      BY DEF Recheck, Release
    <2>4. got'[r] = {} /\ (rpc'[r] = "load" => seen'[r] = configVersion)
      BY <2>1 DEF Recheck, Release
    <2> SUFFICES ASSUME NEW s \in Reader, rpc'[s] = "load"
                 PROVE  /\ seen'[s] <= configVersion
                        /\ \A row \in got'[s] :
                             /\ floor[s][row] <= loaded'[s][row]
                             /\ loaded'[s][row] <= db[row]
                             /\ seen'[s] = configVersion =>
                                  Settled(loaded[s], row)' /\ Lag(loaded[s], row)'
      BY <2>2 DEF LoadInv, Settled, Lag
    <2>5. CASE s = r
      BY <2>4, <2>5
    <2>6. CASE s # r
      BY <2>2, <2>3, <2>6 DEF LoadInv, Settled, Lag
    <2>. QED BY <2>5, <2>6
  <1>5. NoStaleAfterReturn'
    <2>1. ASSUME ritem[r] \in hit, NEW row \in RowsOf[ritem[r]]
          PROVE  floor[r][row] <= cache[ritem[r]][row] /\ cache[ritem[r]][row] <= db[row]
      <3>1. row \in Row /\ ritem[r] \in Item
        BY <2>1
      <3>2. Settled(cache[ritem[r]], row)
        BY <2>1 DEF CacheInv
      <3>3. floor[r][row] <= settled[row]
        BY <3>1 DEF FloorInv
      <3>. QED BY <3>1, <3>2, <3>3 DEF Settled
    <2>. QED BY <2>1 DEF NoStaleAfterReturn, Recheck
  <1>. QED BY <1>1, <1>2, <1>3, <1>4, <1>5

(* A query returns the committed version, which is the newest there is. *)
LEMMA LoadRowStep ==
  ASSUME IInv, NEW r \in Reader, NEW q \in Row, LoadRow(r, q), TypeOK'
  PROVE  IInv'
  <1> USE CacheAssumption DEF IInv, TypeOK, Version, storage, caches, query
  <1>1. WritesInv'
    BY ReaderStepKeeps DEF LoadRow
  <1>2. FloorInv' /\ CacheInv'
    BY DEF FloorInv, CacheInv, LoadRow, Settled, Lag
  <1>3. GotInv'
    BY DEF GotInv, LoadRow
  <1>4. LoadInv'
    <2> SUFFICES ASSUME NEW s \in Reader, rpc[s] = "load"
                 PROVE  /\ seen[s] <= configVersion
                        /\ \A row \in got'[s] :
                             /\ floor[s][row] <= loaded'[s][row]
                             /\ loaded'[s][row] <= db[row]
                             /\ seen[s] = configVersion =>
                                  Settled(loaded[s], row)' /\ Lag(loaded[s], row)'
      BY DEF LoadInv, LoadRow, Settled, Lag
    <2>1. seen[s] <= configVersion
      BY DEF LoadInv
    <2>2. ASSUME NEW row \in got'[s]
          PROVE  /\ floor[s][row] <= loaded'[s][row]
                 /\ loaded'[s][row] <= db[row]
                 /\ seen[s] = configVersion => Settled(loaded[s], row)' /\ Lag(loaded[s], row)'
      <3>0. row \in Row /\ UNCHANGED <<db, settled, pending>>
        BY <2>2 DEF LoadRow
      <3>1. CASE s = r /\ row = q
        <4>1. loaded'[s][row] = db[row]
          BY <3>1 DEF LoadRow
        <4>2. floor[s][row] <= settled[row] /\ settled[row] <= db[row]
          BY <3>0 DEF FloorInv, WritesInv
        <4>3. floor[s][row] <= db[row]
          BY <4>2, <3>0
        <4>. QED BY <4>1, <4>2, <4>3, <3>0 DEF Settled, Lag
      <3>2. CASE ~(s = r /\ row = q)
        <4>1. loaded'[s][row] = loaded[s][row] /\ row \in got[s]
          BY <3>2, <2>2 DEF LoadRow
        <4>. QED BY <4>1, <3>0 DEF LoadInv, Settled, Lag
      <3>. QED BY <3>1, <3>2
    <2>. QED BY <2>1, <2>2
  <1>5. NoStaleAfterReturn'
    BY DEF NoStaleAfterReturn, LoadRow
  <1>. QED BY <1>1, <1>2, <1>3, <1>4, <1>5

LEMMA LoadFailsStep ==
  ASSUME IInv, NEW r \in Reader, LoadFails(r), TypeOK'
  PROVE  IInv'
  <1> USE CacheAssumption DEF IInv, TypeOK, Version, storage, caches
  <1>1. WritesInv'
    BY ReaderStepKeeps DEF LoadFails
  <1>2. FloorInv'
    BY DEF FloorInv, LoadFails, Leave, None
  <1>3. CacheInv'
    BY DEF CacheInv, LoadFails, Settled, Lag
  <1>4. GotInv' /\ NoStaleAfterReturn'
    BY DEF GotInv, NoStaleAfterReturn, LoadFails, Release, Leave
  <1>5. LoadInv'
    BY DEF LoadInv, LoadFails, Release, Leave, Settled, Lag
  <1>. QED BY <1>1, <1>2, <1>3, <1>4, <1>5

(* What is stored was loaded under the current version; what is returned   *)
(* was loaded after the read began.                                        *)
LEMMA StoreLoadedStep ==
  ASSUME IInv, NEW r \in Reader, StoreLoaded(r), TypeOK'
  PROVE  IInv'
  <1> USE CacheAssumption DEF IInv, TypeOK, Version, storage, query
  <1>1. WritesInv'
    BY ReaderStepKeeps DEF StoreLoaded
  <1>2. FloorInv'
    BY DEF FloorInv, StoreLoaded
  <1>3. CacheInv'
    <2>1. CASE seen[r] = configVersion
      <3> SUFFICES ASSUME NEW i \in hit', NEW row \in RowsOf[i]
                   PROVE  Settled(cache[i], row)' /\ Lag(cache[i], row)'
        BY DEF CacheInv
      <3>0. UNCHANGED <<db, settled, pending>>
        BY DEF StoreLoaded
      <3>1. CASE i = ritem[r]
        <4>1. row \in got[r] /\ cache'[i] = loaded[r]
          BY <2>1, <3>1 DEF StoreLoaded
        <4>2. Settled(loaded[r], row) /\ Lag(loaded[r], row)
          BY <2>1, <4>1 DEF LoadInv, StoreLoaded
        <4>. QED BY <4>1, <4>2, <3>0 DEF Settled, Lag
      <3>2. CASE i # ritem[r]
        <4>1. i \in hit /\ cache'[i] = cache[i]
          BY <2>1, <3>2 DEF StoreLoaded
        <4>2. Settled(cache[i], row) /\ Lag(cache[i], row)
          BY <4>1 DEF CacheInv
        <4>. QED BY <4>1, <4>2, <3>0 DEF Settled, Lag
      <3>. QED BY <3>1, <3>2
    <2>2. CASE seen[r] # configVersion
      BY <2>2 DEF CacheInv, StoreLoaded, Settled, Lag
    <2>. QED BY <2>1, <2>2
  <1>4. GotInv'
    BY DEF GotInv, StoreLoaded, Release
  <1>5. LoadInv'
    BY DEF LoadInv, StoreLoaded, Release, Settled, Lag
  <1>6. NoStaleAfterReturn'
    <2>1. \A row \in RowsOf[ritem[r]] : floor[r][row] <= loaded[r][row] /\ loaded[r][row] <= db[row]
      BY DEF StoreLoaded, LoadInv
    <2>. QED BY <2>1 DEF NoStaleAfterReturn, StoreLoaded
  <1>. QED BY <1>1, <1>2, <1>3, <1>4, <1>5, <1>6

LEMMA ConsumeStep ==
  ASSUME IInv, NEW r \in Reader, Consume(r), TypeOK'
  PROVE  IInv'
  <1> USE CacheAssumption DEF IInv, TypeOK, Version, storage, caches
  <1>1. WritesInv'
    BY ReaderStepKeeps DEF Consume
  <1>2. FloorInv'
    BY DEF FloorInv, Consume, Leave, None
  <1>3. CacheInv'
    BY DEF CacheInv, Consume, Settled, Lag
  <1>4. GotInv' /\ NoStaleAfterReturn'
    BY DEF GotInv, NoStaleAfterReturn, Consume, Leave
  <1>5. LoadInv'
    BY DEF LoadInv, Consume, Leave, Settled, Lag
  <1>. QED BY <1>1, <1>2, <1>3, <1>4, <1>5

LEMMA InvStep == IInv /\ [Next]_vars => IInv'
  <1> SUFFICES ASSUME IInv, [Next]_vars PROVE IInv'
    OBVIOUS
  <1>1. TypeOK'
    BY TypeStep DEF IInv
  <1>2. CASE UNCHANGED vars
    BY <1>1, <1>2
    DEF vars, IInv, WritesInv, FloorInv, CacheInv, LoadInv, GotInv, NoStaleAfterReturn, Settled, Lag
  <1>3. CASE Next
    BY <1>1, <1>3, CommitStep, InvalidateStep, BeginStep, LookupStep, AcquireStep, RecheckStep,
       LoadRowStep, LoadFailsStep, StoreLoadedStep, ConsumeStep
    DEF Next, ReaderStep
  <1>. QED BY <1>2, <1>3

LEMMA InvAlways == Spec => []IInv
  BY InvInit, InvStep, PTL DEF Spec

(* For every number of readers and mutators: no read of the route          *)
(* templates, an access key or the model names returns anything older than *)
(* a mutation that had returned before the read began.                     *)
THEOREM ReadsAreFresh == Spec => []NoStaleAfterReturn
  <1>1. IInv => NoStaleAfterReturn
    BY DEF IInv
  <1>. QED BY <1>1, InvAlways, PTL

(* For every number of readers and mutators: a cached row that lags behind *)
(* the database is about to be invalidated.                                *)
THEOREM CachesAreCoherent == Spec => []CacheCoherent
  <1>1. IInv => CacheCoherent
    BY DEF IInv, CacheInv, Lag, CacheCoherent
  <1>. QED BY <1>1, InvAlways, PTL

-----------------------------------------------------------------------------
(* The refinement of ConfigRegister. *)

phases == [r \in Reader |-> Phase(rpc[r])]

(* What a step of the reader r, which leaves the others alone, does to the *)
(* abstract progress of the readers.                                       *)
LEMMA PhaseUpdate ==
  ASSUME NEW r \in Reader, NEW p, NEW q, rpc \in [Reader -> ReaderState],
         rpc' = [rpc EXCEPT ![r] = p], Phase(p) = q
  PROVE  phases' = [phases EXCEPT ![r] = q]
  BY DEF phases

LEMMA RefineInit == Init => Register!Init
  BY DEF Init, Register!Init, Register!None, None, Register!AnyItem, AnyItem, Phase

LEMMA RefineStep ==
  ASSUME IInv, [Next]_vars
  PROVE  [Register!Next]_(Register!avars)
  <1> USE DEF Register!None, None, Register!AnyItem, AnyItem, Register!Larger, Larger,
              Register!Version, Version, storage, caches, query
  <1>t. /\ rpc \in [Reader -> ReaderState] /\ value \in [Reader -> Version]
        /\ loaded \in [Reader -> Version] /\ cache \in [Item -> Version]
        /\ ritem \in [Reader -> Item] /\ hit \subseteq Item
    BY DEF IInv, TypeOK
  <1>f. NoStaleAfterReturn'
    BY InvStep DEF IInv
  <1>1. ASSUME NEW m \in Mutator, NEW W \in SUBSET Row, NEW kind \in {"config", "routes"},
               Commit(m, W, kind)
        PROVE  Register!Commit(m, W)
    BY <1>1 DEF Commit, Register!Commit
  <1>2. ASSUME NEW m \in Mutator, Invalidate(m) PROVE Register!Return(m)
    BY <1>2 DEF Invalidate, Register!Return
  <1>3. ASSUME NEW r \in Reader, NEW i \in Item, Begin(r, i) PROVE Register!ReadBegin(r, i)
    <2>1. phases' = [phases EXCEPT ![r] = "reading"]
      BY <1>3, <1>t, PhaseUpdate DEF Begin, Phase
    <2>. QED BY <1>3, <2>1 DEF Begin, Register!ReadBegin, phases, Phase
  <1>4. ASSUME NEW r \in Reader, rpc[r] \in {"lookup", "recheck", "load"},
               rpc' = [rpc EXCEPT ![r] = "returned"],
               UNCHANGED <<db, settled, pending, ritem, floor>>,
               NEW v \in Version, value' = [value EXCEPT ![r] = v]
        PROVE  Register!ReadEnd(r)
    <2>1. phases' = [phases EXCEPT ![r] = "returned"]
      BY <1>4, <1>t, PhaseUpdate DEF Phase
    <2>2. phases[r] = "reading"
      BY <1>4 DEF phases, Phase
    <2>3. value'[r] = v
      BY <1>4, <1>t
    <2>4. \A row \in RowsOf[ritem[r]] : floor[r][row] <= value'[r][row] /\ value'[r][row] <= db[row]
      BY <1>4, <1>f, <1>t DEF NoStaleAfterReturn
    <2>. QED BY <1>4, <2>1, <2>2, <2>3, <2>4 DEF Register!ReadEnd, phases
  <1>5. ASSUME NEW r \in Reader, NEW p \in {"lookup", "wait", "recheck", "load"},
               rpc[r] \in {"lookup", "wait", "recheck", "load"}, rpc' = [rpc EXCEPT ![r] = p],
               UNCHANGED <<db, settled, pending, ritem, floor, value>>
        PROVE  UNCHANGED Register!avars
    <2>1. phases' = phases
      BY <1>5, <1>t DEF phases, Phase
    <2>. QED BY <1>5, <2>1 DEF Register!avars, phases
  <1>6. ASSUME NEW r \in Reader, Lookup(r)
        PROVE  Register!ReadEnd(r) \/ UNCHANGED Register!avars
    <2>1. CASE ritem[r] \in hit
      BY <1>6, <1>t, <2>1, <1>4 DEF Lookup
    <2>2. CASE ritem[r] \notin hit
      BY <1>6, <2>2, <1>5 DEF Lookup
    <2>. QED BY <2>1, <2>2
  <1>7. ASSUME NEW r \in Reader, AcquireLoad(r) PROVE UNCHANGED Register!avars
    BY <1>7, <1>5 DEF AcquireLoad
  <1>8. ASSUME NEW r \in Reader, Recheck(r)
        PROVE  Register!ReadEnd(r) \/ UNCHANGED Register!avars
    <2>1. CASE ritem[r] \in hit
      BY <1>8, <1>t, <2>1, <1>4 DEF Recheck
    <2>2. CASE ritem[r] \notin hit
      BY <1>8, <2>2, <1>5 DEF Recheck
    <2>. QED BY <2>1, <2>2
  <1>9. ASSUME NEW r \in Reader, NEW row \in Row, LoadRow(r, row) PROVE UNCHANGED Register!avars
    BY <1>9 DEF LoadRow, Register!avars
  <1>10. ASSUME NEW r \in Reader, StoreLoaded(r) PROVE Register!ReadEnd(r)
    BY <1>10, <1>t, <1>4 DEF StoreLoaded
  <1>11. ASSUME NEW r \in Reader, Leave(r), rpc[r] \in {"load", "returned"},
                UNCHANGED <<db, settled, pending>>
         PROVE  Register!ReadOver(r)
    <2>1. phases' = [phases EXCEPT ![r] = "idle"]
      BY <1>11, <1>t, PhaseUpdate DEF Leave, Phase
    <2>2. phases[r] \in {"reading", "returned"}
      BY <1>11 DEF phases, Phase
    <2>. QED BY <1>11, <2>1, <2>2 DEF Leave, Register!ReadOver, phases
  <1>12. ASSUME NEW r \in Reader, LoadFails(r) \/ Consume(r) PROVE Register!ReadOver(r)
    BY <1>12, <1>11 DEF LoadFails, Consume
  <1>13. CASE UNCHANGED vars
    BY <1>13 DEF vars, Register!avars
  <1>. QED
    BY <1>1, <1>2, <1>3, <1>6, <1>7, <1>8, <1>9, <1>10, <1>12, <1>13
    DEF Next, ReaderStep, Register!Next

(* The caches of internal/store, with their load mutexes and their version *)
(* counter, implement the register that has no cache at all.               *)
THEOREM Refinement == Spec => ImplementsRegister
  <1>1. Init => Register!Init
    BY RefineInit
  <1>2. IInv /\ [Next]_vars => [Register!Next]_(Register!avars)
    BY RefineStep
  <1>. QED BY <1>1, <1>2, InvAlways, PTL DEF Spec, ImplementsRegister, Register!Spec
=============================================================================
