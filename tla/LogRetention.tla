---------------------------- MODULE LogRetention ----------------------------
(***************************************************************************)
(* The request log of internal/store under everything that writes to it:   *)
(* the handlers of running requests, the hourly retention of the main      *)
(* program, a cleanup started by the administrator, and the start of a     *)
(* process after a crash.  Cleaners work in batches, one transaction each. *)
(***************************************************************************)
EXTENDS Integers, FiniteSets, SequencesExt

CONSTANTS
  Request,       \* requests, each with its row in the log
  MaxAttempts,   \* bound on the attempts of a request
  Batch,         \* rows of a batch: 200 in the code
  Keep,          \* the retention period
  Ranges,        \* the ranges <<from, to>> of the administrator's cleanups
  MaxTime,       \* bound on the clock
  MaxFaults      \* bound on crashes of the process and failed writes together

ASSUME LogAssumption ==
  /\ {MaxAttempts, Batch, Keep, MaxTime} \subseteq Nat \ {0}
  /\ MaxFaults \in Nat
  /\ IsFiniteSet(Request)
  /\ \A r \in Ranges : r[1] \in Int /\ r[2] \in Int /\ r[1] < r[2]

VARIABLES
  now,        \* the clock: two instants a second
  up,         \* the process runs
  requests,   \* the table requests
  attempts,   \* the table attempts, by request
  handler,    \* the goroutine of each request
  cleaner,    \* the retention loop and the administrator's cleanup
  faults,     \* crashes and failed writes so far
  done        \* history: rows each running cleaner has changed

rows == <<requests, attempts>>
vars == <<now, up, requests, attempts, handler, cleaner, faults, done>>

Job == {"retention", "manual"}
Mode == {"prune", "delete"}
Ended == {"completed", "failed"}

(* Instant 2s is the second s, 2s+1 a moment within it.  Timestamps are    *)
(* stored and compared as RFC 3339 text without trailing zeros, in which   *)
(* "...05Z" sorts after "...05.5Z".                                        *)
formatTime(t) == IF t % 2 = 0 THEN t + 1 ELSE t - 1

NoRow == [status |-> "none", created |-> 0, pruned |-> FALSE, payload |-> FALSE]
IdleJob == [pc |-> "idle", mode |-> "prune", from |-> 0, to |-> 0, count |-> 0]

Init ==
  /\ now = 0
  /\ up = TRUE
  /\ requests = [q \in Request |-> NoRow]
  /\ attempts = [q \in Request |-> <<>>]
  /\ handler = [q \in Request |-> "none"]
  /\ cleaner = [j \in Job |-> IdleJob]
  /\ faults = 0
  /\ done = [j \in Job |-> 0]

-----------------------------------------------------------------------------
(* A request: its row, its attempts one after the other, its result.       *)

Fault == faults < MaxFaults /\ faults' = faults + 1

(* StartRequest.                                                           *)
StartRequest(q) ==
  /\ up
  /\ requests[q].status = "none"
  /\ requests' = [requests EXCEPT ![q] =
       [status |-> "in_progress", created |-> now, pruned |-> FALSE, payload |-> TRUE]]
  /\ handler' = [handler EXCEPT ![q] = "next"]
  /\ UNCHANGED <<now, up, attempts, cleaner, faults, done>>

(* StartAttempt, for the next route.                                       *)
StartAttempt(q) ==
  /\ handler[q] = "next"
  /\ Len(attempts[q]) < MaxAttempts
  /\ attempts' = [attempts EXCEPT ![q] =
       Append(@, [status |-> "in_progress", pruned |-> FALSE, payload |-> TRUE])]
  /\ handler' = [handler EXCEPT ![q] = "call"]
  /\ UNCHANGED <<now, up, requests, cleaner, faults, done>>

(* CompleteAttempt writes the response into the row.  Nobody looks at the  *)
(* error of a write that fails.                                            *)
CompleteAttempt(q, status) ==
  /\ handler[q] = "call"
  /\ \/ /\ attempts' = [attempts EXCEPT ![q][Len(attempts[q])] =
             [@ EXCEPT !.status = status, !.payload = TRUE]]
        /\ UNCHANGED faults
     \/ Fault /\ UNCHANGED attempts
  /\ handler' = [handler EXCEPT ![q] = IF status = "failed" THEN "next" ELSE "finish"]
  /\ UNCHANGED <<now, up, requests, cleaner, done>>

(* CompleteRequest: after an answer, after an error that ends the request, *)
(* or after the last route.                                                *)
CompleteRequest(q) ==
  /\ handler[q] \in {"next", "finish"}
  /\ \/ /\ requests' = [requests EXCEPT ![q] =
             [@ EXCEPT !.status = IF handler[q] = "finish" THEN "completed" ELSE "failed",
                       !.payload = TRUE]]
        /\ UNCHANGED faults
     \/ Fault /\ UNCHANGED requests
  /\ handler' = [handler EXCEPT ![q] = "none"]
  /\ UNCHANGED <<now, up, attempts, cleaner, done>>

-----------------------------------------------------------------------------
(* The cleaners.                                                           *)

(* The hourly tick of runLogCleanup: PruneLogs with its cutoff.            *)
WakeRetention ==
  /\ up /\ cleaner["retention"].pc = "idle"
  /\ cleaner' = [cleaner EXCEPT !["retention"] =
       [pc |-> "run", mode |-> "prune", from |-> 0, to |-> now - Keep, count |-> 0]]
  /\ UNCHANGED <<now, up, rows, handler, faults, done>>

(* CleanupLogs, over a range that the administrator gives.                 *)
StartCleanup(mode, range) ==
  /\ up /\ cleaner["manual"].pc = "idle"
  /\ cleaner' = [cleaner EXCEPT !["manual"] =
       [pc |-> "run", mode |-> mode, from |-> range[1], to |-> range[2], count |-> 0]]
  /\ UNCHANGED <<now, up, rows, handler, faults, done>>

Ongoing(q) == \E n \in DOMAIN attempts[q] : attempts[q][n].status = "in_progress"

InRangeNoStart(j, q) == formatTime(requests[q].created) < formatTime(cleaner[j].to)

(* created_at >= from AND created_at < to; the retention has no from.      *)
InRange(j, q) ==
  /\ j = "manual" => formatTime(cleaner[j].from) <= formatTime(requests[q].created)
  /\ formatTime(requests[q].created) < formatTime(cleaner[j].to)

EligibleRunning(j, q) == InRange(j, q) /\ (cleaner[j].mode = "prune" => ~requests[q].pruned)

EligibleSettled(j, q) ==
  /\ requests[q].status \in Ended
  /\ InRange(j, q)
  /\ cleaner[j].mode = "prune" => ~requests[q].pruned
  /\ ~Ongoing(q)

(* The rows that a cleaner's next batch is taken from.  Only the           *)
(* administrator's cleanup looks at the attempts.                          *)
Eligible(j, q) ==
  /\ requests[q].status \in Ended
  /\ InRange(j, q)
  /\ cleaner[j].mode = "prune" => ~requests[q].pruned
  /\ j = "manual" => ~Ongoing(q)

(* ORDER BY created_at LIMIT: the oldest rows of E, a batch of them.       *)
Batches(E) ==
  {S \in SUBSET E :
     /\ Cardinality(S) = IF Cardinality(E) < Batch THEN Cardinality(E) ELSE Batch
     /\ \A q \in S, p \in E \ S :
          formatTime(requests[q].created) <= formatTime(requests[p].created)}

Pruned(row) == [row EXCEPT !.pruned = TRUE, !.payload = FALSE]

PruneRowsEnded(S) ==
  /\ attempts' = [q \in Request |->
       IF q \in S
       THEN [n \in DOMAIN attempts[q] |->
               IF attempts[q][n].status \in Ended THEN Pruned(attempts[q][n]) ELSE attempts[q][n]]
       ELSE attempts[q]]
  /\ requests' = [q \in Request |-> IF q \in S THEN Pruned(requests[q]) ELSE requests[q]]

PruneRows(S) ==
  /\ attempts' = [q \in Request |->
       IF q \in S THEN [n \in DOMAIN attempts[q] |-> Pruned(attempts[q][n])] ELSE attempts[q]]
  /\ requests' = [q \in Request |-> IF q \in S THEN Pruned(requests[q]) ELSE requests[q]]

(* Attempts are deleted with their request (ON DELETE CASCADE).            *)
DeleteRows(S) ==
  /\ attempts' = [q \in Request |-> IF q \in S THEN <<>> ELSE attempts[q]]
  /\ requests' = [q \in Request |->
       IF q \in S THEN [NoRow EXCEPT !.status = "deleted"] ELSE requests[q]]

Changed(q) == requests'[q] # requests[q] \/ attempts'[q] # attempts[q]

(* One transaction of a cleaner.                                           *)
CleanBatch(j) ==
  /\ cleaner[j].pc = "run"
  /\ \E S \in Batches({q \in Request : Eligible(j, q)}) :
       /\ S # {}
       /\ IF cleaner[j].mode = "prune" THEN PruneRows(S) ELSE DeleteRows(S)
       /\ cleaner' = [cleaner EXCEPT ![j].count = @ + Cardinality(S)]
       /\ done' = [done EXCEPT ![j] = @ + Cardinality({q \in Request : Changed(q)})]
  /\ UNCHANGED <<now, up, handler, faults>>

(* No row is left.  The retention saves no report of an empty run.         *)
CleanDone(j) ==
  /\ cleaner[j].pc = "run"
  /\ \A q \in Request : ~Eligible(j, q)
  /\ cleaner' = [cleaner EXCEPT ![j] =
       IF j = "retention" /\ @.count = 0 THEN IdleJob ELSE [@ EXCEPT !.pc = "save"]]
  /\ UNCHANGED <<now, up, rows, handler, faults, done>>

(* A batch fails and is rolled back, or the administrator's request is     *)
(* cancelled.  The retention gives up until the next tick, and saves no    *)
(* report.                                                                 *)
CleanFails(j) ==
  /\ cleaner[j].pc = "run"
  /\ IF j = "manual" THEN UNCHANGED faults ELSE Fault
  /\ cleaner' = [cleaner EXCEPT ![j] =
       IF j = "retention" THEN IdleJob ELSE [@ EXCEPT !.pc = "save"]]
  /\ done' = IF j = "retention" THEN [done EXCEPT ![j] = 0] ELSE done
  /\ UNCHANGED <<now, up, rows, handler>>

(* saveCleanup, a statement of its own: the count goes, with the error of  *)
(* the batch that failed, into storage_maintenance (if that works).        *)
SaveReport(j) ==
  /\ cleaner[j].pc = "save"
  /\ cleaner' = [cleaner EXCEPT ![j] = IdleJob]
  /\ done' = [done EXCEPT ![j] = 0]
  /\ UNCHANGED <<now, up, rows, handler, faults>>

-----------------------------------------------------------------------------
(* The process and the clock.                                              *)

Crash ==
  /\ up
  /\ Fault
  /\ up' = FALSE
  /\ handler' = [q \in Request |-> "none"]
  /\ cleaner' = [j \in Job |-> IdleJob]
  /\ done' = [j \in Job |-> 0]
  /\ UNCHANGED <<now, rows>>

Interrupted(row) == IF row.status = "in_progress" THEN [row EXCEPT !.status = "failed"] ELSE row

(* A process starts: CloseInterruptedRequests before anything else.        *)
Restart ==
  /\ ~up
  /\ up' = TRUE
  /\ attempts' = [q \in Request |-> [n \in DOMAIN attempts[q] |-> Interrupted(attempts[q][n])]]
  /\ requests' = [q \in Request |-> Interrupted(requests[q])]
  /\ UNCHANGED <<now, handler, cleaner, faults, done>>

Tick ==
  /\ now < MaxTime
  /\ now' = now + 1
  /\ UNCHANGED <<up, rows, handler, cleaner, faults, done>>

HandlerStep(q) ==
  \/ StartRequest(q)
  \/ StartAttempt(q)
  \/ \E status \in Ended : CompleteAttempt(q, status)
  \/ CompleteRequest(q)

CleanerStep(j) == CleanBatch(j) \/ CleanDone(j) \/ CleanFails(j) \/ SaveReport(j)

Next ==
  \/ \E q \in Request : HandlerStep(q)
  \/ WakeRetention
  \/ \E mode \in Mode, range \in Ranges : StartCleanup(mode, range)
  \/ \E j \in Job : CleanerStep(j)
  \/ Crash \/ Restart \/ Tick

Spec == Init /\ [][Next]_vars

(* The main program's loop runs, its transactions end, and a process that  *)
(* crashed is started again.                                               *)
FairSpec ==
  /\ Spec
  /\ WF_vars(WakeRetention)
  /\ WF_vars(CleanBatch("retention"))
  /\ WF_vars(CleanDone("retention"))
  /\ WF_vars(SaveReport("retention"))
  /\ WF_vars(Restart)

-----------------------------------------------------------------------------
(* Properties.                                                             *)

Row(statuses) == [status : statuses, pruned : BOOLEAN, payload : BOOLEAN]

TypeOK ==
  /\ now \in Nat /\ up \in BOOLEAN
  /\ requests \in [Request ->
       [status : {"none", "in_progress", "deleted"} \cup Ended, created : Nat,
        pruned : BOOLEAN, payload : BOOLEAN]]
  /\ attempts \in [Request -> Seq(Row({"in_progress"} \cup Ended))]
  /\ handler \in [Request -> {"none", "next", "call", "finish"}]
  /\ cleaner \in [Job -> [pc : {"idle", "run", "save"}, mode : Mode, from : Int, to : Int,
                          count : Nat]]
  /\ faults \in Nat
  /\ done \in [Job -> Nat]

(* The handler of a request relies on its rows: until it has written the   *)
(* last of them, no cleaner takes the request or an attempt of it away,    *)
(* whatever the range and however old it is (StartAttempt, CompleteAttempt *)
(* and CompleteRequest name rows by id: they would write into nothing, or  *)
(* put a payload back into a row that is marked as pruned).                *)
HandlersKeepRows ==
  \A q \in Request : handler[q] # "none" =>
    /\ requests[q].status = "in_progress" /\ ~requests[q].pruned
    /\ handler[q] = "call" => attempts[q] # <<>> /\ Last(attempts[q]).status = "in_progress"

(* The mark of a pruned request is true: between any two steps, of two     *)
(* cleaners, handlers that still write and a restart, a request that is    *)
(* marked has no payload left in its row or its attempts, and one that is  *)
(* not has lost nothing (RequestDetail and Replay decide by the mark).     *)
PrunedIsWhole ==
  \A q \in Request : requests[q].status \notin {"none", "deleted"} =>
    /\ requests[q].payload <=> ~requests[q].pruned
    /\ \A n \in DOMAIN attempts[q] :
         /\ attempts[q][n].pruned <=> requests[q].pruned
         /\ attempts[q][n].payload <=> ~requests[q].pruned

(* A cleanup reports, whether it succeeds, fails or is cancelled, the rows *)
(* it has taken itself: a row that a concurrent cleaner has pruned is not  *)
(* counted again, and a batch that failed is not (CleanupResult.Count).    *)
ReportIsTrue ==
  \A j \in Job : cleaner[j].count = done[j]

(* Cleaners spare what is recent: a row that is taken was created in the   *)
(* second of the cutoff at the latest, and not before the second in which  *)
(* the range begins (a comparison of texts is off by less than a second).  *)
CutoffToTheSecond ==
  [][\A j \in Job, q \in Request : done'[j] > done[j] /\ Changed(q) =>
       /\ requests[q].created \div 2 <= cleaner[j].to \div 2
       /\ j = "manual" => cleaner[j].from \div 2 <= requests[q].created \div 2]_vars

(* The retention gets everything: a finished request whose row is older    *)
(* than the period by a second is pruned or deleted in the end, through    *)
(* failed batches and crashes.                                             *)
Expired(q) ==
  /\ requests[q].status \in Ended
  /\ requests[q].created \div 2 < (now - Keep) \div 2

OldPayloadsGo ==
  \A q \in Request : Expired(q) ~> (requests[q].pruned \/ requests[q].status = "deleted")
=============================================================================
