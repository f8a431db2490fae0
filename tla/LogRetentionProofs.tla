------------------------- MODULE LogRetentionProofs -------------------------
(***************************************************************************)
(* Proofs about LogRetention, for every number of requests, attempts and   *)
(* rows of a batch, every retention period and every range.                *)
(***************************************************************************)
EXTENDS LogRetention, FiniteSetTheorems, TLAPS

(* A request has attempts only with its row; a process that is down has no *)
(* handlers; a cleaner that is idle has counted nothing.                   *)
Bookkeeping ==
  /\ \A q \in Request : requests[q].status = "none" => attempts[q] = <<>>
  /\ ~up => \A q \in Request : handler[q] = "none"
  /\ \A j \in Job : cleaner[j].pc = "idle" => cleaner[j].count = 0
  /\ cleaner["retention"].mode = "prune"

IInv == TypeOK /\ Bookkeeping /\ HandlersKeepRows /\ PrunedIsWhole /\ ReportIsTrue

-----------------------------------------------------------------------------
(* The sequences of attempts.                                              *)

(* Last of a sequence with an element appended.                            *)
LEMMA LastOfAppend ==
  ASSUME NEW T, NEW s \in Seq(T), NEW x \in T
  PROVE  /\ Append(s, x) \in Seq(T) /\ Append(s, x) # <<>>
         /\ Last(Append(s, x)) = x
         /\ Len(Append(s, x)) = Len(s) + 1
         /\ \A n \in 1..Len(s) : Append(s, x)[n] = s[n]
BY DEF Last

(* An element of a sequence replaced by another.                           *)
LEMMA Replaced ==
  ASSUME NEW T, NEW s \in Seq(T), NEW x \in T, s # <<>>
  PROVE  /\ [s EXCEPT ![Len(s)] = x] \in Seq(T)
         /\ Len([s EXCEPT ![Len(s)] = x]) = Len(s)
         /\ Len(s) \in DOMAIN s
         /\ Last(s) = s[Len(s)]
BY DEF Last

(* What a cleaner, and a start of the process, make of a row.             *)
AttemptRow == Row({"in_progress"} \cup Ended)

RequestRow ==
  [status : {"none", "in_progress", "deleted"} \cup Ended, created : Nat,
   pruned : BOOLEAN, payload : BOOLEAN]

LEMMA RowsKept ==
  ASSUME NEW s \in Seq(AttemptRow)
  PROVE  /\ [n \in DOMAIN s |-> Pruned(s[n])] \in Seq(AttemptRow)
         /\ [n \in DOMAIN s |-> Interrupted(s[n])] \in Seq(AttemptRow)
         /\ \A n \in DOMAIN s : s[n] \in AttemptRow
<1>1. \A n \in DOMAIN s : s[n] \in AttemptRow
  OBVIOUS
<1>2. \A r \in AttemptRow : Pruned(r) \in AttemptRow /\ Interrupted(r) \in AttemptRow
  BY DEF AttemptRow, Row, Pruned, Interrupted, Ended
<1> QED
  BY <1>1, <1>2

(* The parts of a type-correct state, as the proofs below use them.        *)
LEMMA Typed ==
  ASSUME TypeOK
  PROVE  /\ attempts \in [Request -> Seq(AttemptRow)]
         /\ \A q \in Request : attempts[q] \in Seq(AttemptRow)
BY DEF TypeOK, AttemptRow

-----------------------------------------------------------------------------
(* The steps of a request's handler.                                       *)

LEMMA InitIInv == Init => IInv
BY LogAssumption DEF Init, IInv, TypeOK, Bookkeeping, HandlersKeepRows, PrunedIsWhole,
   ReportIsTrue, NoRow, IdleJob, Job, Mode, Ended, Row

LEMMA StartRequestIInv ==
  ASSUME IInv, NEW q \in Request, StartRequest(q)
  PROVE  IInv'
<1> DEFINE row == [status |-> "in_progress", created |-> now, pruned |-> FALSE, payload |-> TRUE]
<1>1. /\ requests' = [requests EXCEPT ![q] = row]
      /\ handler' = [handler EXCEPT ![q] = "next"]
      /\ up /\ requests[q].status = "none"
      /\ UNCHANGED <<now, up, attempts, cleaner, faults, done>>
  BY DEF StartRequest
<1>2. attempts[q] = <<>>
  BY <1>1 DEF IInv, Bookkeeping
<1>3. TypeOK'
  BY <1>1 DEF IInv, TypeOK
<1>4. Bookkeeping' /\ ReportIsTrue'
  BY <1>1 DEF IInv, TypeOK, Bookkeeping, ReportIsTrue
<1>5. HandlersKeepRows'
  BY <1>1 DEF IInv, TypeOK, HandlersKeepRows
<1>6. PrunedIsWhole'
  <2> SUFFICES ASSUME NEW p \in Request, requests'[p].status \notin {"none", "deleted"}
               PROVE  /\ requests'[p].payload <=> ~requests'[p].pruned
                      /\ \A n \in DOMAIN attempts[p] :
                           /\ attempts[p][n].pruned <=> requests'[p].pruned
                           /\ attempts[p][n].payload <=> ~requests'[p].pruned
    BY <1>1 DEF PrunedIsWhole
  <2>1. CASE p = q
    <3>1. DOMAIN attempts[p] = {}
      BY <1>2, <2>1
    <3>2. requests'[p] = row
      BY <1>1, <2>1 DEF IInv, TypeOK
    <3> QED
      BY <3>1, <3>2
  <2>2. CASE p # q
    <3>1. requests'[p] = requests[p]
      BY <1>1, <2>2 DEF IInv, TypeOK
    <3> QED
      BY <3>1 DEF IInv, PrunedIsWhole
  <2> QED
    BY <2>1, <2>2
<1> QED
  BY <1>3, <1>4, <1>5, <1>6 DEF IInv

LEMMA StartAttemptIInv ==
  ASSUME IInv, NEW q \in Request, StartAttempt(q)
  PROVE  IInv'
<1> DEFINE row == [status |-> "in_progress", pruned |-> FALSE, payload |-> TRUE]
<1>1. row \in AttemptRow
  BY DEF AttemptRow, Row
<1>2. attempts[q] \in Seq(AttemptRow) /\ attempts \in [Request -> Seq(AttemptRow)]
  BY Typed DEF IInv
<1>3. /\ Append(attempts[q], row) \in Seq(AttemptRow)
      /\ Append(attempts[q], row) # <<>>
      /\ Last(Append(attempts[q], row)) = row
      /\ Len(Append(attempts[q], row)) = Len(attempts[q]) + 1
      /\ \A n \in 1..Len(attempts[q]) : Append(attempts[q], row)[n] = attempts[q][n]
  BY <1>1, <1>2, LastOfAppend
<1>4. /\ attempts' = [attempts EXCEPT ![q] = Append(attempts[q], row)]
      /\ handler' = [handler EXCEPT ![q] = "call"]
      /\ handler[q] = "next"
      /\ UNCHANGED <<now, up, requests, cleaner, faults, done>>
  BY DEF StartAttempt
<1> HIDE DEF row
<1>5. requests[q].status = "in_progress" /\ ~requests[q].pruned
  BY <1>4 DEF IInv, HandlersKeepRows
<1>6. TypeOK'
  BY <1>2, <1>3, <1>4 DEF IInv, TypeOK, AttemptRow
<1>7. Bookkeeping'
  BY <1>2, <1>4, <1>5 DEF IInv, TypeOK, Bookkeeping
<1>8. HandlersKeepRows'
  BY <1>2, <1>3, <1>4, <1>5 DEF IInv, TypeOK, HandlersKeepRows, row
<1>9. PrunedIsWhole'
  <2> SUFFICES ASSUME NEW p \in Request, requests[p].status \notin {"none", "deleted"},
                      NEW n \in DOMAIN attempts'[p]
               PROVE  /\ requests[p].payload <=> ~requests[p].pruned
                      /\ attempts'[p][n].pruned <=> requests[p].pruned
                      /\ attempts'[p][n].payload <=> ~requests[p].pruned
    BY <1>4 DEF IInv, PrunedIsWhole
  <2>1. CASE p # q
    BY <2>1, <1>2, <1>4 DEF IInv, PrunedIsWhole
  <2>2. CASE p = q
    <3>1. attempts'[p] = Append(attempts[q], row)
      BY <2>2, <1>2, <1>4
    <3>2. CASE n \in 1..Len(attempts[q])
      BY <3>1, <3>2, <2>2, <1>2, <1>3 DEF IInv, PrunedIsWhole
    <3>3. CASE n = Len(attempts[q]) + 1
      <4>1. attempts'[p][n] = row
        BY <3>1, <3>3, <1>1, <1>2
      <4> QED
        BY <4>1, <2>2, <1>5 DEF IInv, PrunedIsWhole, row
    <3> QED
      BY <3>1, <3>2, <3>3, <1>1, <1>2
  <2> QED
    BY <2>1, <2>2
<1>10. ReportIsTrue'
  BY <1>4 DEF IInv, ReportIsTrue
<1> QED
  BY <1>6, <1>7, <1>8, <1>9, <1>10 DEF IInv

LEMMA CompleteAttemptIInv ==
  ASSUME IInv, NEW q \in Request, NEW status \in Ended, CompleteAttempt(q, status)
  PROVE  IInv'
<1> DEFINE s == attempts[q]
           row == [s[Len(s)] EXCEPT !.status = status, !.payload = TRUE]
           next == IF status = "failed" THEN "next" ELSE "finish"
<1>1. s \in Seq(AttemptRow) /\ attempts \in [Request -> Seq(AttemptRow)]
  BY Typed DEF IInv
<1>2. /\ handler[q] = "call" /\ handler' = [handler EXCEPT ![q] = next]
      /\ UNCHANGED <<now, up, requests, cleaner, done>>
      /\ faults' \in Nat
  BY DEF CompleteAttempt, Fault, IInv, TypeOK
<1>3. requests[q].status = "in_progress" /\ ~requests[q].pruned /\ s # <<>>
  BY <1>2 DEF IInv, HandlersKeepRows
<1>4. Len(s) \in DOMAIN s /\ s[Len(s)] \in AttemptRow
  BY <1>1, <1>3
<1>5. ~s[Len(s)].pruned
  BY <1>3, <1>4 DEF IInv, PrunedIsWhole, AttemptRow, Row
<1>6. row \in AttemptRow /\ ~row.pruned /\ row.payload
  BY <1>4, <1>5 DEF AttemptRow, Row, Ended
<1>7. \/ attempts' = [attempts EXCEPT ![q] = [s EXCEPT ![Len(s)] = row]]
      \/ attempts' = attempts
  BY <1>1 DEF CompleteAttempt
<1> HIDE DEF row
<1>8. attempts' \in [Request -> Seq(AttemptRow)]
  BY <1>1, <1>3, <1>6, <1>7, Replaced
<1>9. TypeOK'
  BY <1>2, <1>8 DEF IInv, TypeOK, AttemptRow
<1>10. Bookkeeping'
  BY <1>1, <1>2, <1>3, <1>7 DEF IInv, TypeOK, Bookkeeping
<1>11. HandlersKeepRows'
  BY <1>1, <1>2, <1>7 DEF IInv, TypeOK, HandlersKeepRows
<1>12. PrunedIsWhole'
  <2> SUFFICES ASSUME NEW p \in Request, requests[p].status \notin {"none", "deleted"},
                      NEW n \in DOMAIN attempts'[p]
               PROVE  /\ requests[p].payload <=> ~requests[p].pruned
                      /\ attempts'[p][n].pruned <=> requests[p].pruned
                      /\ attempts'[p][n].payload <=> ~requests[p].pruned
    BY <1>2 DEF IInv, PrunedIsWhole
  <2>1. CASE attempts' = attempts \/ p # q
    BY <2>1, <1>1, <1>7 DEF IInv, PrunedIsWhole
  <2>2. CASE attempts' # attempts /\ p = q
    <3>1. attempts'[p] = [s EXCEPT ![Len(s)] = row] /\ n \in DOMAIN s
      BY <2>2, <1>1, <1>7
    <3>2. requests[p].payload <=> ~requests[p].pruned
      BY DEF IInv, PrunedIsWhole
    <3>3. CASE n = Len(s)
      <4>1. attempts'[p][n] = row
        BY <3>1, <3>3, <1>1
      <4> QED
        BY <4>1, <3>2, <2>2, <1>3, <1>6
    <3>4. CASE n # Len(s)
      BY <3>1, <3>4, <2>2, <1>1 DEF IInv, PrunedIsWhole
    <3> QED
      BY <3>3, <3>4
  <2> QED
    BY <2>1, <2>2
<1>13. ReportIsTrue'
  BY <1>2 DEF IInv, ReportIsTrue
<1> QED
  BY <1>9, <1>10, <1>11, <1>12, <1>13 DEF IInv

LEMMA CompleteRequestIInv ==
  ASSUME IInv, NEW q \in Request, CompleteRequest(q)
  PROVE  IInv'
<1>1. requests[q].status = "in_progress" /\ ~requests[q].pruned
  BY DEF CompleteRequest, IInv, HandlersKeepRows
<1> DEFINE end == IF handler[q] = "finish" THEN "completed" ELSE "failed"
           row == [requests[q] EXCEPT !.status = end, !.payload = TRUE]
<1>2. /\ handler' = [handler EXCEPT ![q] = "none"]
      /\ UNCHANGED <<now, up, attempts, cleaner, done>>
      /\ faults' \in Nat
  BY DEF CompleteRequest, Fault, IInv, TypeOK
<1>3. requests' = [requests EXCEPT ![q] = row] \/ requests' = requests
  BY Zenon DEF CompleteRequest
<1>4. requests[q].payload /\ end \in Ended
  BY <1>1 DEF IInv, PrunedIsWhole, Ended
<1> HIDE DEF end
<1>5. row \in RequestRow /\ row.status = end /\ ~row.pruned /\ row.payload
  BY <1>1, <1>4 DEF IInv, TypeOK, RequestRow, Ended
<1> HIDE DEF row
<1>6. TypeOK'
  <2>1. requests' \in [Request -> RequestRow]
    BY <1>3, <1>5 DEF IInv, TypeOK, RequestRow
  <2>2. handler' \in [Request -> {"none", "next", "call", "finish"}]
    BY <1>2 DEF IInv, TypeOK
  <2> QED
    BY <1>2, <2>1, <2>2 DEF IInv, TypeOK, RequestRow
<1>7. \A p \in Request \ {q} : requests'[p] = requests[p]
  BY <1>3 DEF IInv, TypeOK
<1>8. requests'[q] = row \/ requests'[q] = requests[q]
  BY <1>3 DEF IInv, TypeOK
<1>9. Bookkeeping'
  <2>1. \A p \in Request : requests'[p].status = "none" => attempts[p] = <<>>
    BY <1>1, <1>4, <1>5, <1>7, <1>8 DEF IInv, Bookkeeping, Ended
  <2>2. ~up => \A p \in Request : handler'[p] = "none"
    BY <1>2 DEF IInv, TypeOK, Bookkeeping
  <2> QED
    BY <1>2, <2>1, <2>2 DEF IInv, Bookkeeping
<1>10. HandlersKeepRows'
  BY <1>2, <1>7 DEF IInv, TypeOK, HandlersKeepRows
<1>11. PrunedIsWhole'
  BY <1>1, <1>2, <1>5, <1>7, <1>8 DEF IInv, PrunedIsWhole
<1>12. ReportIsTrue'
  BY <1>2 DEF IInv, ReportIsTrue
<1> QED
  BY <1>6, <1>9, <1>10, <1>11, <1>12 DEF IInv

-----------------------------------------------------------------------------
(* The steps of the cleaners.                                              *)

(* A batch that is pruned changes rows that are ended and unpruned, those  *)
(* in the batch and no others.                                             *)
LEMMA PrunedRows ==
  ASSUME IInv, NEW S \in SUBSET Request, PruneRows(S),
         \A q \in S : requests[q].status \in Ended /\ ~requests[q].pruned
  PROVE  /\ requests' \in [Request -> RequestRow]
         /\ attempts' \in [Request -> Seq(AttemptRow)]
         /\ PrunedIsWhole'
         /\ \A q \in Request : requests'[q].status = requests[q].status
         /\ \A q \in Request \ S : requests'[q] = requests[q] /\ attempts'[q] = attempts[q]
         /\ S = {q \in Request : Changed(q)}
         /\ \A q \in Request : attempts[q] = <<>> => attempts'[q] = <<>>
<1>1. /\ requests \in [Request -> RequestRow]
      /\ attempts \in [Request -> Seq(AttemptRow)]
  BY Typed DEF IInv, TypeOK, RequestRow
<1>2. \A r \in RequestRow : /\ Pruned(r) \in RequestRow /\ Pruned(r).status = r.status
                            /\ Pruned(r).pruned /\ ~Pruned(r).payload
  BY DEF Pruned, RequestRow
<1>3. \A r \in AttemptRow : Pruned(r) \in AttemptRow /\ Pruned(r).pruned /\ ~Pruned(r).payload
  BY DEF Pruned, AttemptRow, Row
<1>4. \A q \in Request \ S : requests'[q] = requests[q] /\ attempts'[q] = attempts[q]
  BY <1>1 DEF PruneRows
<1>5. \A q \in S : /\ requests'[q] = Pruned(requests[q])
                   /\ attempts'[q] = [n \in DOMAIN attempts[q] |-> Pruned(attempts[q][n])]
  BY <1>1 DEF PruneRows
<1>6. requests' \in [Request -> RequestRow]
  BY <1>1, <1>2 DEF PruneRows
<1>7. attempts' \in [Request -> Seq(AttemptRow)]
  <2>1. \A q \in Request : /\ attempts[q] \in Seq(AttemptRow)
                           /\ [n \in DOMAIN attempts[q] |-> Pruned(attempts[q][n])] \in Seq(AttemptRow)
    BY <1>1, RowsKept
  <2> QED
    BY <2>1 DEF PruneRows
<1>8. \A q \in Request : requests'[q].status = requests[q].status
  BY <1>1, <1>2, <1>4, <1>5
<1>9. \A q \in S : requests'[q].pruned
  BY <1>1, <1>2, <1>5
<1>10. PrunedIsWhole'
  <2> SUFFICES ASSUME NEW q \in Request, requests'[q].status \notin {"none", "deleted"}
               PROVE  /\ requests'[q].payload <=> ~requests'[q].pruned
                      /\ \A n \in DOMAIN attempts'[q] :
                           /\ attempts'[q][n].pruned <=> requests'[q].pruned
                           /\ attempts'[q][n].payload <=> ~requests'[q].pruned
    BY DEF PrunedIsWhole
  <2>1. CASE q \in S
    <3>1. \A n \in DOMAIN attempts[q] : attempts[q][n] \in AttemptRow
      BY <1>1, RowsKept
    <3>2. attempts'[q] = [n \in DOMAIN attempts[q] |-> Pruned(attempts[q][n])]
      BY <2>1, <1>5
    <3>3. \A n \in DOMAIN attempts'[q] : attempts'[q][n].pruned /\ ~attempts'[q][n].payload
      BY <3>1, <3>2, <1>3
    <3>4. requests'[q] = Pruned(requests[q]) /\ requests[q] \in RequestRow
      BY <2>1, <1>1, <1>5
    <3>5. requests'[q].pruned /\ ~requests'[q].payload
      BY <3>4, <1>2
    <3> QED
      BY <3>3, <3>5
  <2>2. CASE q \notin S
    BY <2>2, <1>4 DEF IInv, PrunedIsWhole
  <2> QED
    BY <2>1, <2>2
<1>11. S = {q \in Request : Changed(q)}
  BY <1>4, <1>9 DEF Changed
<1>12. \A q \in Request : attempts[q] = <<>> => attempts'[q] = <<>>
  BY <1>1, <1>4, <1>5
<1> QED
  BY <1>4, <1>6, <1>7, <1>8, <1>10, <1>11, <1>12

(* A batch that is deleted.                                                *)
LEMMA DeletedRows ==
  ASSUME IInv, NEW S \in SUBSET Request, DeleteRows(S),
         \A q \in S : requests[q].status \in Ended
  PROVE  /\ requests' \in [Request -> RequestRow]
         /\ attempts' \in [Request -> Seq(AttemptRow)]
         /\ PrunedIsWhole'
         /\ \A q \in S : requests'[q].status = "deleted"
         /\ \A q \in Request \ S : requests'[q] = requests[q] /\ attempts'[q] = attempts[q]
         /\ S = {q \in Request : Changed(q)}
<1> DEFINE gone == [NoRow EXCEPT !.status = "deleted"]
<1>1. /\ requests \in [Request -> RequestRow]
      /\ attempts \in [Request -> Seq(AttemptRow)]
  BY Typed DEF IInv, TypeOK, RequestRow
<1>2. gone \in RequestRow /\ gone.status = "deleted"
  BY DEF NoRow, RequestRow
<1>3. requests' = [q \in Request |-> IF q \in S THEN gone ELSE requests[q]]
  BY DEF DeleteRows
<1> HIDE DEF gone
<1>4. \A q \in Request \ S : requests'[q] = requests[q] /\ attempts'[q] = attempts[q]
  BY <1>1, <1>3 DEF DeleteRows
<1>5. \A q \in S : requests'[q].status = "deleted"
  BY <1>2, <1>3
<1>6. requests' \in [Request -> RequestRow]
  BY <1>1, <1>2, <1>3
<1>7. attempts' \in [Request -> Seq(AttemptRow)]
  <2>1. <<>> \in Seq(AttemptRow)
    OBVIOUS
  <2> QED
    BY <1>1, <2>1 DEF DeleteRows
<1>8. PrunedIsWhole'
  BY <1>4, <1>5 DEF IInv, PrunedIsWhole
<1>9. S = {q \in Request : Changed(q)}
  BY <1>4, <1>5 DEF Changed, Ended
<1> QED
  BY <1>4, <1>5, <1>6, <1>7, <1>8, <1>9

(* What both kinds of a batch have in common.                              *)
LEMMA BatchTaken ==
  ASSUME IInv, NEW j \in Job, CleanBatch(j)
  PROVE  /\ requests' \in [Request -> RequestRow]
         /\ attempts' \in [Request -> Seq(AttemptRow)]
         /\ PrunedIsWhole'
         /\ \A q \in Request : attempts[q] = <<>> /\ requests'[q].status = "none" => attempts'[q] = <<>>
         /\ \A q \in Request : requests'[q].status = "none" => requests[q].status = "none"
         /\ \A q \in Request : Changed(q) => Eligible(j, q)
         /\ \E k \in Nat :
              /\ cleaner' = [cleaner EXCEPT ![j].count = @ + k]
              /\ done' = [done EXCEPT ![j] = @ + k]
         /\ UNCHANGED <<now, up, handler, faults>>
<1>1. PICK S \in Batches({q \in Request : Eligible(j, q)}) :
        /\ IF cleaner[j].mode = "prune" THEN PruneRows(S) ELSE DeleteRows(S)
        /\ cleaner' = [cleaner EXCEPT ![j].count = @ + Cardinality(S)]
        /\ done' = [done EXCEPT ![j] = @ + Cardinality({q \in Request : Changed(q)})]
  BY DEF CleanBatch
<1>2. S \in SUBSET Request /\ \A q \in S : Eligible(j, q)
  BY DEF Batches
<1>3. Cardinality(S) \in Nat
  BY <1>2, LogAssumption, FS_Subset, FS_CardinalityType DEF LogAssumption
<1>4. /\ requests' \in [Request -> RequestRow]
      /\ attempts' \in [Request -> Seq(AttemptRow)]
      /\ PrunedIsWhole'
      /\ \A q \in Request : attempts[q] = <<>> /\ requests'[q].status = "none" => attempts'[q] = <<>>
      /\ \A q \in Request : requests'[q].status = "none" => requests[q].status = "none"
      /\ S = {q \in Request : Changed(q)}
  <2>1. CASE cleaner[j].mode = "prune"
    <3>1. \A q \in S : requests[q].status \in Ended /\ ~requests[q].pruned
      BY <2>1, <1>2 DEF Eligible
    <3>2. PruneRows(S)
      BY <2>1, <1>1
    <3> QED
      BY <3>1, <3>2, <1>2, PrunedRows
  <2>2. CASE cleaner[j].mode # "prune"
    <3>1. \A q \in S : requests[q].status \in Ended
      BY <1>2 DEF Eligible
    <3>2. DeleteRows(S)
      BY <2>2, <1>1
    <3>3. /\ requests' \in [Request -> RequestRow]
          /\ attempts' \in [Request -> Seq(AttemptRow)]
          /\ PrunedIsWhole'
          /\ \A q \in S : requests'[q].status = "deleted"
          /\ \A q \in Request \ S : requests'[q] = requests[q] /\ attempts'[q] = attempts[q]
          /\ S = {q \in Request : Changed(q)}
      BY <3>1, <3>2, <1>2, DeletedRows
    <3> QED
      BY <3>3
  <2> QED
    BY <2>1, <2>2
<1>5. UNCHANGED <<now, up, handler, faults>>
  BY DEF CleanBatch
<1>6. \A q \in Request : Changed(q) => Eligible(j, q)
  BY <1>2, <1>4
<1>7. done' = [done EXCEPT ![j] = @ + Cardinality(S)]
  BY <1>1, <1>4
<1> QED
  BY <1>1, <1>3, <1>4, <1>5, <1>6, <1>7

LEMMA CleanBatchIInv ==
  ASSUME IInv, NEW j \in Job, CleanBatch(j)
  PROVE  IInv'
<1>1. PICK k \in Nat : /\ cleaner' = [cleaner EXCEPT ![j].count = @ + k]
                       /\ done' = [done EXCEPT ![j] = @ + k]
  BY BatchTaken
<1>2. cleaner[j].pc = "run"
  BY DEF CleanBatch
<1>3. TypeOK'
  <2> DEFINE Jobs == [pc : {"idle", "run", "save"}, mode : Mode, from : Int, to : Int,
                      count : Nat]
  <2>1. cleaner' \in [Job -> Jobs]
    <3>1. cleaner \in [Job -> Jobs]
      BY DEF IInv, TypeOK
    <3>2. [cleaner[j] EXCEPT !.count = @ + k] \in Jobs
      BY <3>1
    <3> QED
      BY <3>1, <3>2, <1>1
  <2>2. done' \in [Job -> Nat]
    BY <1>1 DEF IInv, TypeOK
  <2> QED
    <3>1. /\ requests' \in [Request -> RequestRow] /\ attempts' \in [Request -> Seq(AttemptRow)]
          /\ UNCHANGED <<now, up, handler, faults>>
      BY BatchTaken
    <3> QED
      BY <2>1, <2>2, <3>1 DEF IInv, TypeOK, RequestRow, AttemptRow
<1>4. Bookkeeping'
  <2>1. \A q \in Request : requests'[q].status = "none" => attempts'[q] = <<>>
    BY BatchTaken DEF IInv, Bookkeeping
  <2>2. /\ \A i \in Job : cleaner'[i].pc = cleaner[i].pc /\ cleaner'[i].mode = cleaner[i].mode
        /\ \A i \in Job : i # j => cleaner'[i] = cleaner[i]
    BY <1>1 DEF IInv, TypeOK
  <2>3. \A i \in Job : cleaner'[i].pc = "idle" => cleaner'[i].count = 0
    BY <1>2, <2>2 DEF IInv, Bookkeeping
  <2>4. cleaner'["retention"].mode = "prune"
    BY <2>2 DEF IInv, Bookkeeping, Job
  <2>5. UNCHANGED <<up, handler>>
    BY BatchTaken
  <2> QED
    BY <2>1, <2>3, <2>4, <2>5 DEF IInv, Bookkeeping
<1>5. HandlersKeepRows'
  <2>1. \A q \in Request : handler[q] # "none" => ~Changed(q)
    BY BatchTaken DEF IInv, HandlersKeepRows, Eligible, Ended
  <2> QED
    BY <2>1, BatchTaken DEF IInv, HandlersKeepRows, Changed
<1>6. ReportIsTrue'
  BY <1>1 DEF IInv, TypeOK, ReportIsTrue
<1> QED
  BY <1>3, <1>4, <1>5, <1>6, BatchTaken DEF IInv

LEMMA CleanerIInv ==
  ASSUME IInv,
         \/ WakeRetention
         \/ \E mode \in Mode, range \in Ranges : StartCleanup(mode, range)
         \/ \E j \in Job : CleanDone(j) \/ CleanFails(j) \/ SaveReport(j)
  PROVE  IInv'
<1> DEFINE Jobs == [pc : {"idle", "run", "save"}, mode : Mode, from : Int, to : Int, count : Nat]
<1>1. /\ UNCHANGED <<now, up, requests, attempts, handler>>
      /\ faults' \in Nat
  <2>1. CASE WakeRetention
    BY <2>1 DEF WakeRetention, rows, IInv, TypeOK
  <2>2. CASE \E mode \in Mode, range \in Ranges : StartCleanup(mode, range)
    BY <2>2 DEF StartCleanup, rows, IInv, TypeOK
  <2>3. CASE \E j \in Job : CleanDone(j) \/ SaveReport(j)
    BY <2>3 DEF CleanDone, SaveReport, rows, IInv, TypeOK
  <2>4. ASSUME NEW j \in Job, CleanFails(j)
        PROVE  /\ UNCHANGED <<now, up, requests, attempts, handler>>
               /\ faults' \in Nat
    BY <2>4 DEF CleanFails, Fault, rows, IInv, TypeOK
  <2> QED
    BY <2>1, <2>2, <2>3, <2>4
<1>2. /\ cleaner' \in [Job -> Jobs] /\ done' \in [Job -> Nat]
      /\ \A j \in Job : cleaner'[j].count = done'[j]
      /\ \A j \in Job : cleaner'[j].pc = "idle" => cleaner'[j].count = 0
      /\ cleaner'["retention"].mode = "prune"
  <2>1. /\ cleaner \in [Job -> Jobs] /\ done \in [Job -> Nat]
        /\ \A j \in Job : cleaner[j].count = done[j]
        /\ \A j \in Job : cleaner[j].pc = "idle" => cleaner[j].count = 0
        /\ cleaner["retention"].mode = "prune"
    BY DEF IInv, TypeOK, ReportIsTrue, Bookkeeping
  <2>2. IdleJob \in Jobs /\ IdleJob.count = 0 /\ IdleJob.mode = "prune"
    BY DEF IdleJob, Mode
  <2>3. CASE WakeRetention
    <3> DEFINE new == [pc |-> "run", mode |-> "prune", from |-> 0, to |-> now - Keep, count |-> 0]
    <3>1. cleaner["retention"].pc = "idle" /\ "retention" \in Job
      BY <2>3 DEF WakeRetention, Job
    <3>2. /\ cleaner' = [cleaner EXCEPT !["retention"] = new]
          /\ done' = done
      BY <2>3 DEF WakeRetention
    <3>3. now - Keep \in Int
      BY LogAssumption DEF LogAssumption, IInv, TypeOK
    <3>4. new \in Jobs /\ new.count = 0 /\ new.mode = "prune" /\ new.pc = "run"
      BY <3>3 DEF Mode
    <3> HIDE DEF new
    <3> QED
      BY <3>1, <3>2, <3>4, <2>1
  <2>4. ASSUME NEW mode \in Mode, NEW range \in Ranges, StartCleanup(mode, range)
        PROVE  <1>2!:
    <3> DEFINE new == [pc |-> "run", mode |-> mode, from |-> range[1], to |-> range[2],
                       count |-> 0]
    <3>1. cleaner["manual"].pc = "idle" /\ "manual" \in Job
      BY <2>4 DEF StartCleanup, Job
    <3>2. cleaner' = [cleaner EXCEPT !["manual"] = new] /\ done' = done
      BY <2>4, Zenon DEF StartCleanup
    <3>3. range[1] \in Int /\ range[2] \in Int
      BY LogAssumption DEF LogAssumption
    <3>4. new \in Jobs /\ new.count = 0 /\ new.pc = "run"
      BY <3>3
    <3> HIDE DEF new
    <3> QED
      BY <3>1, <3>2, <3>4, <2>1
  <2>5. ASSUME NEW j \in Job, CleanDone(j) \/ CleanFails(j) \/ SaveReport(j)
        PROVE  <1>2!:
    <3>1. CASE cleaner' = [cleaner EXCEPT ![j] = IdleJob] /\ done' = [done EXCEPT ![j] = 0]
      BY <3>1, <2>1, <2>2
    <3>2. CASE /\ cleaner' = [cleaner EXCEPT ![j] = [@ EXCEPT !.pc = "save"]]
               /\ done' = done
      BY <3>2, <2>1
    <3>3. CASE cleaner[j].count = 0 /\ cleaner' = [cleaner EXCEPT ![j] = IdleJob] /\ done' = done
      BY <3>3, <2>1, <2>2
    <3> QED
      BY <2>5, <3>1, <3>2, <3>3 DEF CleanDone, CleanFails, SaveReport
  <2> QED
    BY <2>3, <2>4, <2>5
<1>3. TypeOK'
  BY <1>1, <1>2 DEF IInv, TypeOK
<1> QED
  BY <1>1, <1>2, <1>3 DEF IInv, Bookkeeping, HandlersKeepRows, PrunedIsWhole, ReportIsTrue

-----------------------------------------------------------------------------
(* The process and the clock.                                              *)

LEMMA CrashIInv ==
  ASSUME IInv, Crash
  PROVE  IInv'
<1>1. IdleJob \in [pc : {"idle", "run", "save"}, mode : Mode, from : Int, to : Int, count : Nat]
  BY DEF IdleJob, Mode
<1>2. IdleJob.count = 0 /\ IdleJob.mode = "prune" /\ "retention" \in Job
  BY DEF IdleJob, Job
<1>3. /\ up' = FALSE /\ faults' = faults + 1
      /\ handler' = [q \in Request |-> "none"]
      /\ cleaner' = [j \in Job |-> IdleJob]
      /\ done' = [j \in Job |-> 0]
      /\ UNCHANGED <<now, requests, attempts>>
  BY DEF Crash, Fault, rows
<1>4. TypeOK'
  <2>1. /\ handler' \in [Request -> {"none", "next", "call", "finish"}]
        /\ up' \in BOOLEAN
    BY <1>3
  <2>2. /\ cleaner' \in [Job -> [pc : {"idle", "run", "save"}, mode : Mode, from : Int, to : Int,
                                 count : Nat]]
        /\ done' \in [Job -> Nat]
    BY <1>1, <1>3
  <2>3. faults' \in Nat
    BY <1>3 DEF IInv, TypeOK
  <2> QED
    BY <1>3, <2>1, <2>2, <2>3 DEF IInv, TypeOK
<1>5. Bookkeeping'
  BY <1>2, <1>3 DEF IInv, Bookkeeping
<1>6. HandlersKeepRows' /\ PrunedIsWhole' /\ ReportIsTrue'
  BY <1>2, <1>3 DEF IInv, HandlersKeepRows, PrunedIsWhole, ReportIsTrue
<1> QED
  BY <1>4, <1>5, <1>6 DEF IInv

LEMMA RestartIInv ==
  ASSUME IInv, Restart
  PROVE  IInv'
<1>1. /\ requests \in [Request -> RequestRow]
      /\ attempts \in [Request -> Seq(AttemptRow)]
  BY Typed DEF IInv, TypeOK, RequestRow
<1>2. /\ ~up /\ up' = TRUE
      /\ requests' = [q \in Request |-> Interrupted(requests[q])]
      /\ attempts' = [q \in Request |-> [n \in DOMAIN attempts[q] |-> Interrupted(attempts[q][n])]]
      /\ UNCHANGED <<now, handler, cleaner, faults, done>>
  BY DEF Restart
<1>3. \A r \in RequestRow :
        /\ Interrupted(r) \in RequestRow
        /\ Interrupted(r).pruned = r.pruned /\ Interrupted(r).payload = r.payload
        /\ Interrupted(r).status = r.status
           \/ (r.status = "in_progress" /\ Interrupted(r).status = "failed")
  <2> SUFFICES ASSUME NEW r \in RequestRow
               PROVE  /\ Interrupted(r) \in RequestRow
                      /\ Interrupted(r).pruned = r.pruned
                      /\ Interrupted(r).payload = r.payload
                      /\ Interrupted(r).status = r.status
                         \/ (r.status = "in_progress" /\ Interrupted(r).status = "failed")
    OBVIOUS
  <2>1. CASE r.status = "in_progress"
    <3>1. Interrupted(r) = [r EXCEPT !.status = "failed"]
      BY <2>1 DEF Interrupted
    <3>2. "failed" \in {"none", "in_progress", "deleted"} \cup Ended
      BY DEF Ended
    <3>3. /\ Interrupted(r).status = "failed" /\ Interrupted(r).created = r.created
          /\ Interrupted(r).pruned = r.pruned /\ Interrupted(r).payload = r.payload
      BY <3>1 DEF RequestRow
    <3>4. Interrupted(r) \in RequestRow
      BY <3>1, <3>2 DEF RequestRow
    <3> QED
      BY <2>1, <3>3, <3>4
  <2>2. CASE r.status # "in_progress"
    <3>1. Interrupted(r) = r
      BY <2>2 DEF Interrupted
    <3> QED
      BY <3>1
  <2> QED
    BY <2>1, <2>2
<1>4. \A r \in AttemptRow :
        Interrupted(r).pruned = r.pruned /\ Interrupted(r).payload = r.payload
  BY DEF Interrupted, AttemptRow, Row
<1>5. requests' \in [Request -> RequestRow]
  BY <1>1, <1>2, <1>3
<1>6. attempts' \in [Request -> Seq(AttemptRow)]
  <2>1. \A q \in Request : [n \in DOMAIN attempts[q] |-> Interrupted(attempts[q][n])] \in Seq(AttemptRow)
    BY <1>1, RowsKept
  <2> QED
    BY <1>2, <2>1
<1>7. TypeOK'
  BY <1>2, <1>5, <1>6 DEF IInv, TypeOK, RequestRow, AttemptRow
<1>8. Bookkeeping'
  <2>1. \A q \in Request : requests'[q].status = "none" => requests[q].status = "none"
    BY <1>1, <1>2, <1>3
  <2>2. \A q \in Request : attempts[q] = <<>> => attempts'[q] = <<>>
    BY <1>1, <1>2
  <2> QED
    BY <1>2, <2>1, <2>2 DEF IInv, Bookkeeping
<1>9. HandlersKeepRows'
  BY <1>2 DEF IInv, Bookkeeping, HandlersKeepRows
<1>10. PrunedIsWhole'
  <2> SUFFICES ASSUME NEW q \in Request, requests'[q].status \notin {"none", "deleted"}
               PROVE  /\ requests'[q].payload <=> ~requests'[q].pruned
                      /\ \A n \in DOMAIN attempts'[q] :
                           /\ attempts'[q][n].pruned <=> requests'[q].pruned
                           /\ attempts'[q][n].payload <=> ~requests'[q].pruned
    BY DEF PrunedIsWhole
  <2>1. requests'[q] = Interrupted(requests[q]) /\ requests[q] \in RequestRow
    BY <1>1, <1>2
  <2>2. /\ requests[q].status \notin {"none", "deleted"}
        /\ requests'[q].pruned = requests[q].pruned
        /\ requests'[q].payload = requests[q].payload
    BY <2>1, <1>3
  <2>3. \A n \in DOMAIN attempts[q] : attempts[q][n] \in AttemptRow
    BY <1>1, RowsKept
  <2>4. attempts'[q] = [n \in DOMAIN attempts[q] |-> Interrupted(attempts[q][n])]
    BY <1>2
  <2>5. \A n \in DOMAIN attempts'[q] :
          /\ n \in DOMAIN attempts[q]
          /\ attempts'[q][n].pruned = attempts[q][n].pruned
          /\ attempts'[q][n].payload = attempts[q][n].payload
    BY <2>3, <2>4, <1>4
  <2> QED
    BY <2>2, <2>5 DEF IInv, PrunedIsWhole
<1>11. ReportIsTrue'
  BY <1>2 DEF IInv, ReportIsTrue
<1> QED
  BY <1>7, <1>8, <1>9, <1>10, <1>11 DEF IInv

LEMMA IdleIInv ==
  ASSUME IInv, Tick \/ UNCHANGED vars
  PROVE  IInv'
<1>1. /\ now' \in Nat
      /\ UNCHANGED <<up, requests, attempts, handler, cleaner, faults, done>>
  BY DEF Tick, rows, vars, IInv, TypeOK
<1> QED
  BY <1>1 DEF IInv, TypeOK, Bookkeeping, HandlersKeepRows, PrunedIsWhole, ReportIsTrue

LEMMA NextIInv == IInv /\ [Next]_vars => IInv'
<1> SUFFICES ASSUME IInv, [Next]_vars
             PROVE  IInv'
  OBVIOUS
<1>1. ASSUME NEW q \in Request, HandlerStep(q)
      PROVE  IInv'
  BY <1>1, StartRequestIInv, StartAttemptIInv, CompleteAttemptIInv, CompleteRequestIInv
     DEF HandlerStep
<1>2. CASE WakeRetention \/ \E mode \in Mode, range \in Ranges : StartCleanup(mode, range)
  BY <1>2, CleanerIInv
<1>3. ASSUME NEW j \in Job, CleanerStep(j)
      PROVE  IInv'
  BY <1>3, CleanBatchIInv, CleanerIInv DEF CleanerStep
<1>4. CASE Crash
  BY <1>4, CrashIInv
<1>5. CASE Restart
  BY <1>5, RestartIInv
<1>6. CASE Tick \/ UNCHANGED vars
  BY <1>6, IdleIInv
<1> QED
  BY <1>1, <1>2, <1>3, <1>4, <1>5, <1>6 DEF Next

LEMMA SpecIInv == Spec => []IInv
BY InitIInv, NextIInv, PTL DEF Spec

-----------------------------------------------------------------------------
(* The theorems.                                                           *)

(* Whatever is cleaned when, and wherever the process crashes, a handler   *)
(* finds the rows it is still to write (StartAttempt, CompleteAttempt and  *)
(* CompleteRequest of logs.go name rows by their id).                      *)
THEOREM RowsAreKept == Spec => []HandlersKeepRows
BY SpecIInv, PTL DEF IInv

(* payload_pruned tells the truth about every row of a request, between    *)
(* any two transactions of PruneLogs and CleanupLogs.                      *)
THEOREM PrunedRequestsAreWhole == Spec => []PrunedIsWhole
BY SpecIInv, PTL DEF IInv

(* The count that a cleanup reports is the number of rows it has changed,  *)
(* for every size of the batches of CleanupLogs.                           *)
THEOREM ReportsAreTrue == Spec => []ReportIsTrue
BY SpecIInv, PTL DEF IInv

(* No step of a cleaner touches a row that is newer than the second of its *)
(* cutoff or older than the second its range begins in (cleanupCondition). *)
THEOREM CutoffsAreKept == Spec => CutoffToTheSecond
<1>1. IInv /\ [Next]_vars => [\A j \in Job, q \in Request : done'[j] > done[j] /\ Changed(q) =>
       /\ requests[q].created \div 2 <= cleaner[j].to \div 2
       /\ j = "manual" => cleaner[j].from \div 2 <= requests[q].created \div 2]_vars
  <2> SUFFICES ASSUME IInv, Next, NEW j \in Job, NEW q \in Request, done'[j] > done[j], Changed(q)
               PROVE  /\ requests[q].created \div 2 <= cleaner[j].to \div 2
                      /\ j = "manual" => cleaner[j].from \div 2 <= requests[q].created \div 2
    OBVIOUS
  <2>1. done \in [Job -> Nat] /\ ~(done[j] > done[j])
    BY DEF IInv, TypeOK
  <2>2. done'[j] = done[j] \/ done'[j] = 0 \/ CleanBatch(j)
    <3>1. ASSUME NEW i \in Job, CleanerStep(i)
          PROVE  done'[j] = done[j] \/ done'[j] = 0 \/ CleanBatch(j)
      BY <3>1, <2>1 DEF CleanerStep, CleanBatch, CleanDone, CleanFails, SaveReport
    <3>2. CASE Crash
      BY <3>2 DEF Crash
    <3> QED
      BY <3>1, <3>2 DEF Next, HandlerStep, StartRequest, StartAttempt, CompleteAttempt,
         CompleteRequest, WakeRetention, StartCleanup, Restart, Tick
  <2>3. Eligible(j, q)
    BY <2>1, <2>2, BatchTaken
  <2>4. requests[q].created \in Nat /\ cleaner[j].to \in Int /\ cleaner[j].from \in Int
    BY DEF IInv, TypeOK
  <2>5. \A s, t \in Int : formatTime(s) <= formatTime(t) => s \div 2 <= t \div 2
    BY DEF formatTime
  <2>6. \A s, t \in Int : formatTime(s) < formatTime(t) => formatTime(s) <= formatTime(t)
    BY DEF formatTime
  <2> QED
    BY <2>3, <2>4, <2>5, <2>6 DEF Eligible, InRange
<1> QED
  BY <1>1, SpecIInv, PTL DEF Spec, CutoffToTheSecond
=============================================================================
