-------------------------- MODULE CandidateBreaker --------------------------
(***************************************************************************)
(* The in-memory circuit breaker of internal/gateway, and the calls that   *)
(* concurrent requests make on it.  A request holds a configuration        *)
(* revision of the candidate, taken when its routes were resolved; it is   *)
(* admitted by candidateReady, and may then report failure, report success *)
(* (and go on with another key of the candidate), ask for admission again  *)
(* (the resend after an OAuth refresh), or leave without a report.         *)
(* GatewayRequest shows that the request handler is such a caller.         *)
(***************************************************************************)
EXTENDS BreakerEntry

CONSTANTS
  Candidate,    \* candidate ids
  Caller        \* requests in flight

VARIABLES
  candidates,   \* Handler.candidates
  now,          \* the clock
  revision,     \* config_revision of each candidate in the database
  call,         \* what each caller holds
  streak        \* history: failures in a row reported per revision

vars == <<candidates, now, revision, call, streak>>

Revision == Nat \ {0}

(* probe is 0, or the end of the cooldown that the call is the probe of. *)
Call == [cand : Candidate, rev : Revision, probe : Nat]

(* A caller that holds no admission. *)
NoCall == [rev |-> 0]
Holding(q) == call[q] # NoCall

Init ==
  /\ candidates = [c \in Candidate |-> Absent]
  /\ now = 1
  /\ revision = [c \in Candidate |-> 1]
  /\ call = [q \in Caller |-> NoCall]
  /\ streak = [c \in Candidate |-> [v \in 1..MaxRevision |-> 0]]

(* The probe that candidateReady hands out, 0 for an ordinary admission. *)
Granted(c, v) ==
  IF GrantsProbe(candidates[c], v, now) THEN candidates[c].cooldownUntil ELSE 0

(* candidateReady answers true for a route of candidate c resolved at      *)
(* revision v.  (A refusal changes nothing.)                               *)
Admit(q, c, v) ==
  /\ ~Holding(q)
  /\ v \in 1..revision[c]
  /\ Ready(candidates[c], v, now)
  /\ candidates' = [candidates EXCEPT ![c] = AfterReady(candidates[c], v, now)]
  /\ call' = [call EXCEPT ![q] = [cand |-> c, rev |-> v, probe |-> Granted(c, v)]]
  /\ UNCHANGED <<now, revision, streak>>

(* A caller that is admitted asks again; refused, it leaves. *)
AdmitAgain(q) ==
  /\ Holding(q)
  /\ LET c == call[q].cand
         v == call[q].rev
     IN  \/ /\ Ready(candidates[c], v, now)
            /\ candidates' = [candidates EXCEPT ![c] = AfterReady(candidates[c], v, now)]
            /\ call' = [call EXCEPT ![q] = [cand |-> c, rev |-> v, probe |-> Granted(c, v)]]
         \/ /\ ~Ready(candidates[c], v, now)
            /\ call' = [call EXCEPT ![q] = NoCall]
            /\ UNCHANGED candidates
  /\ UNCHANGED <<now, revision, streak>>

ReportFailed(q) ==
  /\ Holding(q)
  /\ LET c == call[q].cand
         v == call[q].rev
     IN  /\ candidates' = [candidates EXCEPT ![c] = AfterFailed(candidates[c], v, now)]
         /\ streak' = [streak EXCEPT ![c] = [streak[c] EXCEPT ![v] = streak[c][v] + 1]]
  /\ call' = [call EXCEPT ![q] = NoCall]
  /\ UNCHANGED <<now, revision>>

(* The candidate answered: the request is served, or it goes on with the   *)
(* next key of the same candidate without asking again.                    *)
ReportSucceeded(q) ==
  /\ Holding(q)
  /\ LET c == call[q].cand
         v == call[q].rev
     IN  /\ candidates' = [candidates EXCEPT ![c] = AfterSucceeded(candidates[c], v)]
         /\ streak' = [streak EXCEPT ![c] = [streak[c] EXCEPT ![v] = 0]]
  /\ \/ call' = [call EXCEPT ![q] = NoCall]
     \/ UNCHANGED call
  /\ UNCHANGED <<now, revision>>

(* The handler returns, or moves to another candidate, without a report. *)
LeaveSilently(q) ==
  /\ Holding(q)
  /\ call' = [call EXCEPT ![q] = NoCall]
  /\ UNCHANGED <<candidates, now, revision, streak>>

(* An administrator edits the virtual model: its candidates get a new      *)
(* configuration revision.                                                 *)
EditCandidate(c) ==
  /\ revision[c] < MaxRevision
  /\ revision' = [revision EXCEPT ![c] = revision[c] + 1]
  /\ UNCHANGED <<candidates, now, call, streak>>

Tick ==
  /\ now < MaxTime
  /\ now' = now + 1
  /\ UNCHANGED <<candidates, revision, call, streak>>

(* The process ends and starts again: the map and the callers are memory. *)
Restart ==
  /\ candidates' = [c \in Candidate |-> Absent]
  /\ call' = [q \in Caller |-> NoCall]
  /\ UNCHANGED <<now, revision, streak>>

CallerStep(q) ==
  \/ \E c \in Candidate, v \in 1..MaxRevision : Admit(q, c, v)
  \/ AdmitAgain(q)
  \/ ReportFailed(q)
  \/ ReportSucceeded(q)
  \/ LeaveSilently(q)

Next ==
  \/ \E q \in Caller : CallerStep(q)
  \/ \E c \in Candidate : EditCandidate(c)
  \/ Tick
  \/ Restart

Spec == Init /\ [][Next]_vars

-----------------------------------------------------------------------------
(* The type of the breaker and of the calls made on it. *)
TypeOK ==
  /\ candidates \in [Candidate -> Entry]
  /\ now \in Nat \ {0}
  /\ revision \in [Candidate -> 1..MaxRevision]
  /\ call \in [Caller -> Call \cup {NoCall}]
  /\ streak \in [Candidate -> [1..MaxRevision -> Nat]]

(* One cooldown is ended by one probe: no two requests in flight were both *)
(* let through by candidateReady as the probe of the same cooldown of a    *)
(* candidate, however resends, late reports and edits interleave.          *)
OneProbePerCooldown ==
  \A p, q \in Caller :
    /\ p # q /\ Holding(p) /\ Holding(q)
    /\ call[p].cand = call[q].cand
    /\ call[p].probe # 0
    => call[p].probe # call[q].probe

(* candidateFailed opens the breaker of a revision only after Threshold    *)
(* failures of requests that used that very revision, with no success of   *)
(* that revision in between: failures of an older configuration never cool *)
(* down the configuration that replaced it.                                *)
OpenIsEarned ==
  \A c \in Candidate : candidates[c].cooldownUntil # 0 =>
    /\ candidates[c].revision \in 1..MaxRevision
    /\ streak[c][candidates[c].revision] >= Threshold

(* What routeCooldowns shows of a route (cooling, or being probed) is what *)
(* candidateReady would answer a request that took the route now, and such *)
(* a candidate is on the list of CandidateCooldowns: the three functions   *)
(* test the entry differently, and agree because a probing entry always    *)
(* has a cooldown, also after edits and late failures.                     *)
ExplainsRefusals ==
  \A c \in Candidate : \A v \in 1..revision[c] :
    /\ ShownCooling(candidates[c], v, now) <=> ~Ready(candidates[c], v, now)
    /\ ShownCooling(candidates[c], v, now) => Listed(candidates[c])
=============================================================================
