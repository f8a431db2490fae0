---------------------------- MODULE BreakerEntry ----------------------------
(***************************************************************************)
(* One entry of Handler.candidates (candidateFailure) and what the three   *)
(* critical sections of candidateMu do to it.  Times are clock ticks, the  *)
(* first one being 1: 0 is Go's zero time.  A missing map entry and Go's   *)
(* zero value behave alike, because configuration revisions start at 1:    *)
(* both are Absent.                                                        *)
(***************************************************************************)
EXTENDS Naturals

CONSTANTS
  Threshold,   \* failures in a row that open the breaker (3 in the code)
  Cooldown,    \* how long it stays open, in ticks (30 seconds in the code)
  MaxTime,     \* bound on the clock
  MaxRevision  \* bound on the configuration revisions

ASSUME BreakerAssumption ==
  /\ Threshold \in Nat \ {0}
  /\ Cooldown \in Nat \ {0}

ASSUME BoundsAssumption ==
  /\ MaxTime \in Nat
  /\ MaxRevision \in Nat \ {0}

Entry == [revision : Nat, count : Nat, cooldownUntil : Nat, probing : BOOLEAN]

Absent == [revision |-> 0, count |-> 0, cooldownUntil |-> 0, probing |-> FALSE]

(* The entry of revision rev has been opened and its cooldown is over. *)
Elapsed(e, rev, now) ==
  e.revision = rev /\ e.cooldownUntil # 0 /\ e.cooldownUntil <= now

(* candidateReady would make its caller the probe. *)
GrantsProbe(e, rev, now) == Elapsed(e, rev, now) /\ ~e.probing

(* The result of candidateReady ... *)
Ready(e, rev, now) ==
  e.revision # rev \/ e.cooldownUntil = 0 \/ GrantsProbe(e, rev, now)

\* Mutant: the entry is not written back after probing is set.
AfterReadyForgotten(e, rev, now) == IF e.revision < rev THEN Absent ELSE e

(* ... and the entry it leaves. *)
AfterReady(e, rev, now) ==
  IF e.revision < rev THEN Absent
  ELSE IF GrantsProbe(e, rev, now) THEN [e EXCEPT !.probing = TRUE]
  ELSE e

(* candidateFailed: a report of an older configuration is ignored, one of  *)
(* a newer configuration starts a new count.                               *)
Counted(e, rev) ==
  IF e.revision < rev
  THEN [revision |-> rev, count |-> 1, cooldownUntil |-> 0, probing |-> FALSE]
  ELSE [e EXCEPT !.count = e.count + 1]

Opened(e, now) == [e EXCEPT !.cooldownUntil = now + Cooldown, !.probing = FALSE]

AfterFailed(e, rev, now) ==
  IF e.revision > rev THEN e
  ELSE IF Counted(e, rev).count < Threshold THEN Counted(e, rev)
  ELSE Opened(Counted(e, rev), now)

(* candidateSucceeded. *)
AfterSucceeded(e, rev) == IF e.revision = rev THEN Absent ELSE e

(* CandidateCooldowns lists the entry on the health page; routeCooldowns   *)
(* annotates the decision of a route of revision rev with it.              *)
Listed(e) == e.cooldownUntil # 0
ShownCooling(e, rev, now) == e.revision = rev /\ (e.probing \/ now < e.cooldownUntil)
=============================================================================
