--------------------------- MODULE LoginFlowProofs ---------------------------
(***************************************************************************)
(* The safety properties of LoginFlow for any sessions, providers, kinds   *)
(* and logins.                                                             *)
(***************************************************************************)
EXTENDS LoginFlow, TLAPS

(* What complete and acceptLocked rely on, for each login. *)
FlowOK(f) ==
  /\ flow[f].status \in {"none", "pending"} => exchanges[f] = 0 /\ flow[f].task = "none"
  /\ exchanges[f] <= 1
  /\ flow[f].task = "saving" => flow[f].status = "exchanging" /\ mu = {f}
  /\ f \in mu => flow[f].task = "saving"
  /\ f \in stored => flow[f].status \in {"succeeded", "gone"}
  /\ f \in accounts => f \in stored /\ flow[f].provider \subseteq providers
  /\ Active(f) /\ flow[f].age < 2 => flow[f].listed

IInv ==
  /\ TypeOK
  /\ \A f \in Flow : FlowOK(f)
  /\ OneLoginAtATime

AdminOK ==
  /\ session \in [Session -> {"new", "live", "expired", "deleted"}]
  /\ admitted \in [Session -> 0..MaxAdmitted]
  /\ leaving \subseteq Session
  /\ changing \in BOOLEAN

Ended == {"succeeded", "failed", "expired", "cancelled"}

(* A step that leaves login g alone, ends it, lets its goroutine go on or  *)
(* lets it grow old.                                                       *)
Mild(g) ==
  /\ flow'[g] \in FlowState
  /\ flow'[g].owner = flow[g].owner /\ flow'[g].provider = flow[g].provider
  /\ flow'[g].age >= flow[g].age
  /\ \/ flow'[g].status = flow[g].status
     \/ Active(g) /\ flow'[g].status \in Ended /\ mu = {}
  /\ \/ flow'[g].task = flow[g].task
     \/ /\ flow[g].task # "none"
        /\ flow[g].task # "saving" /\ flow'[g].task # "saving"
  /\ flow'[g].listed = flow[g].listed \/ flow[g].age = 2

-----------------------------------------------------------------------------

(* No new active login, none younger: exclusiveness is kept. *)
LEMMA StaysExclusive ==
  ASSUME TypeOK, OneLoginAtATime,
         \A g \in Flow : Active(g)' =>
           /\ Active(g)
           /\ flow'[g].owner = flow[g].owner /\ flow'[g].provider = flow[g].provider
           /\ flow'[g].age >= flow[g].age,
         \A g \in Flow : flow[g].age \in 0..2 /\ flow'[g].age \in 0..2
  PROVE  OneLoginAtATime'
  <1>. SUFFICES ASSUME NEW f \in Flow, NEW g \in Flow, f # g, Active(f)', Active(g)'
                PROVE  /\ flow'[f].age < 2 /\ flow'[g].age < 2 =>
                            flow'[f].owner \cap flow'[g].owner = {}
                       /\ \A p \in flow'[f].provider, q \in flow'[g].provider :
                            KindOf[p] # KindOf[q]
    BY DEF OneLoginAtATime
  <1>1. /\ flow[f].age < 2 /\ flow[g].age < 2 => flow[f].owner \cap flow[g].owner = {}
        /\ \A p \in flow[f].provider, q \in flow[g].provider : KindOf[p] # KindOf[q]
    BY DEF OneLoginAtATime
  <1>2. flow'[f].age < 2 => flow[f].age < 2
    OBVIOUS
  <1>3. flow'[g].age < 2 => flow[g].age < 2
    OBVIOUS
  <1>. QED BY <1>1, <1>2, <1>3

(* The fields of a login. *)
LEMMA Fields ==
  ASSUME TypeOK, NEW f \in Flow
  PROVE  /\ flow[f] \in FlowState
         /\ flow[f].status \in {"none", "pending", "exchanging", "succeeded", "failed",
                                "expired", "cancelled", "gone"}
         /\ flow[f].owner \subseteq Session /\ flow[f].provider \subseteq Provider
         /\ flow[f].age \in 0..2 /\ flow[f].listed \in BOOLEAN
         /\ flow[f].task \in {"none", "exchanging", "granted", "refused", "saving"}
  BY DEF TypeOK, FlowState

LEMMA MildInv ==
  ASSUME IInv, AdminOK', UNCHANGED <<mu, storeVars, exchanges>>,
         flow' \in [Flow -> FlowState], \A g \in Flow : Mild(g)
  PROVE  IInv'
  <1>1. TypeOK'
    BY DEF IInv, TypeOK, AdminOK, storeVars
  <1>2. ASSUME NEW g \in Flow PROVE FlowOK(g)'
    <2>1. FlowOK(g) /\ Mild(g)
      BY DEF IInv
    <2>2. /\ flow[g].age \in 0..2 /\ flow'[g].age \in 0..2
          /\ flow[g].listed \in BOOLEAN /\ flow'[g].listed \in BOOLEAN
      BY <1>1, Fields DEF IInv, TypeOK, FlowState
    <2>3. Active(g)' => Active(g)
      BY <2>1 DEF Mild, Active, Ended
    <2>4. Active(g)' /\ flow'[g].age < 2 => flow'[g].listed
      BY <2>1, <2>2, <2>3 DEF FlowOK, Mild
    <2>5. flow'[g].status \in {"none", "pending"} => exchanges'[g] = 0 /\ flow'[g].task = "none"
      BY <2>1 DEF FlowOK, Mild, Ended, storeVars
    <2>6. flow'[g].task = "saving" => flow'[g].status = "exchanging" /\ mu' = {g}
      BY <2>1 DEF FlowOK, Mild
    <2>7. g \in mu' => flow'[g].task = "saving"
      BY <2>1 DEF FlowOK, Mild
    <2>8. g \in stored' => flow'[g].status \in {"succeeded", "gone"}
      BY <2>1 DEF FlowOK, Mild, Active, storeVars
    <2>9. g \in accounts' => g \in stored' /\ flow'[g].provider \subseteq providers'
      BY <2>1 DEF FlowOK, Mild, storeVars
    <2>10. exchanges'[g] <= 1
      BY <2>1 DEF FlowOK
    <2>. QED BY <2>4, <2>5, <2>6, <2>7, <2>8, <2>9, <2>10 DEF FlowOK
  <1>3. OneLoginAtATime'
    <2>1. \A g \in Flow : Active(g)' =>
            /\ Active(g)
            /\ flow'[g].owner = flow[g].owner /\ flow'[g].provider = flow[g].provider
            /\ flow'[g].age >= flow[g].age
      BY DEF Mild, Active, Ended
    <2>2. \A g \in Flow : flow[g].age \in 0..2 /\ flow'[g].age \in 0..2
      BY DEF IInv, TypeOK, FlowState
    <2>. QED BY <2>1, <2>2, StaysExclusive DEF IInv
  <1>. QED BY <1>1, <1>2, <1>3 DEF IInv

(* FlowOK depends on these things only. *)
LEMMA Keeps ==
  ASSUME NEW g, FlowOK(g), UNCHANGED <<mu, providers, accounts, stored, exchanges>>,
         flow'[g].status = flow[g].status, flow'[g].task = flow[g].task,
         flow'[g].provider = flow[g].provider,
         Active(g)' /\ flow'[g].age < 2 => flow'[g].listed
  PROVE  FlowOK(g)'
  <1>1. flow'[g].status \in {"none", "pending"} => exchanges'[g] = 0 /\ flow'[g].task = "none"
    BY DEF FlowOK
  <1>2. exchanges'[g] <= 1
    BY DEF FlowOK
  <1>3. flow'[g].task = "saving" => flow'[g].status = "exchanging" /\ mu' = {g}
    BY DEF FlowOK
  <1>4. g \in mu' => flow'[g].task = "saving"
    BY DEF FlowOK
  <1>5. g \in stored' => flow'[g].status \in {"succeeded", "gone"}
    BY DEF FlowOK
  <1>6. g \in accounts' => g \in stored' /\ flow'[g].provider \subseteq providers'
    BY DEF FlowOK
  <1>. QED BY <1>1, <1>2, <1>3, <1>4, <1>5, <1>6 DEF FlowOK

(* A login that does not change is mild. *)
LEMMA Same ==
  ASSUME TypeOK, NEW g \in Flow, flow'[g] = flow[g]
  PROVE  Mild(g)
  BY Fields DEF Mild

(* Taking a request keeps the types of the administrators' side. *)
LEMMA HandleTypes ==
  ASSUME TypeOK, NEW s \in Session, Handle(s)
  PROVE  admitted' \in [Session -> 0..MaxAdmitted]
  BY LoginAssumption DEF TypeOK, Handle

LEMMA Quiet ==
  ASSUME IInv, AdminOK', UNCHANGED <<flow, mu, storeVars, exchanges>>
  PROVE  IInv' /\ \A g \in Flow : Mild(g)
  <1>1. \A g \in Flow : Mild(g)
    BY Same DEF IInv
  <1>. QED BY <1>1, MildInv DEF IInv, TypeOK

(* finishLocked on an active login outside a save. *)
LEMMA FinishMild ==
  ASSUME TypeOK, NEW f \in Flow, NEW status \in Ended, mu = {}, Active(f),
         finishLocked(f, status)
  PROVE  flow' \in [Flow -> FlowState] /\ \A g \in Flow : Mild(g)
  <1>1. flow' = [flow EXCEPT ![f].status = status]
    BY DEF finishLocked
  <1>2. flow'[f] = [flow[f] EXCEPT !.status = status]
    BY <1>1 DEF TypeOK
  <1>3. flow'[f] \in FlowState
    BY <1>2, Fields DEF FlowState, Ended
  <1>4. Mild(f)
    BY <1>2, <1>3, Fields DEF Mild
  <1>5. \A g \in Flow \ {f} : flow'[g] = flow[g]
    BY <1>1 DEF TypeOK
  <1>6. flow' \in [Flow -> FlowState]
    BY <1>1, <1>3, <1>5 DEF TypeOK
  <1>. QED BY <1>4, <1>5, <1>6, Same

-----------------------------------------------------------------------------
(* The administrators' side. *)

LEMMA CancelMild ==
  ASSUME TypeOK, NEW owners, mu = {}, CancelOwner(owners)
  PROVE  flow' \in [Flow -> FlowState] /\ \A g \in Flow : Mild(g)
  <1>1. ASSUME NEW g \in Flow PROVE Mild(g)
    <2>1. CASE flow'[g] = flow[g]
      BY <2>1, Same
    <2>2. CASE Active(g) /\ flow'[g] = [flow[g] EXCEPT !.status = "cancelled"]
      <3>1. flow'[g] \in FlowState
        BY <2>2, Fields DEF FlowState
      <3>. QED BY <2>2, <3>1, Fields DEF Mild, Ended
    <2>. QED BY <2>1, <2>2 DEF CancelOwner
  <1>2. flow' = [g \in Flow |-> flow'[g]]
    BY DEF CancelOwner
  <1>. QED BY <1>1, <1>2 DEF Mild

LEMMA SessionInv ==
  ASSUME IInv, NEW s \in Session,
         \/ SignIn(s) \/ SessionExpires(s) \/ requireSession(s)
         \/ LogoutDeletes(s) \/ ChangeDeletes \/ RequestEnds(s)
  PROVE  IInv' /\ \A g \in Flow : Mild(g)
  <1>1. UNCHANGED <<flow, mu, storeVars, exchanges>>
    BY DEF SignIn, SessionExpires, requireSession, LogoutDeletes, ChangeDeletes, RequestEnds
  <1>2. AdminOK'
    <2>0. TypeOK
      BY DEF IInv
    <2>1. CASE SignIn(s) \/ SessionExpires(s)
      BY <2>0, <2>1 DEF SignIn, SessionExpires, TypeOK, AdminOK
    <2>2. CASE requireSession(s)
      BY <2>0, <2>2, LoginAssumption DEF requireSession, TypeOK, AdminOK
    <2>3. CASE LogoutDeletes(s)
      BY <2>0, <2>3 DEF LogoutDeletes, TypeOK, AdminOK
    <2>4. CASE ChangeDeletes
      BY <2>0, <2>4 DEF ChangeDeletes, TypeOK, AdminOK
    <2>5. CASE RequestEnds(s)
      BY <2>0, <2>5, HandleTypes DEF RequestEnds, TypeOK, AdminOK
    <2>. QED BY <2>1, <2>2, <2>3, <2>4, <2>5
  <1>. QED BY <1>1, <1>2, Quiet

LEMMA LeaveInv ==
  ASSUME IInv, NEW s \in Session, LogoutCancels(s) \/ ChangeCancels(s)
  PROVE  IInv' /\ \A g \in Flow : Mild(g)
  <1>1. PICK owners : CancelOwner(owners)
    BY DEF LogoutCancels, ChangeCancels
  <1>2. mu = {} /\ UNCHANGED <<mu, storeVars, exchanges>>
    BY DEF LogoutCancels, ChangeCancels
  <1>3. AdminOK'
    BY HandleTypes DEF IInv, LogoutCancels, ChangeCancels, TypeOK, AdminOK
  <1>4. flow' \in [Flow -> FlowState] /\ \A g \in Flow : Mild(g)
    BY <1>1, <1>2, CancelMild DEF IInv
  <1>. QED BY <1>2, <1>3, <1>4, MildInv

(* An old login that is removed from the map. *)
LEMMA UnlistedMild ==
  ASSUME TypeOK, NEW g \in Old, flow'[g] = Unlisted(g)
  PROVE  g \in Flow /\ Mild(g)
  <1>1. g \in Flow /\ flow[g].age = 2
    BY DEF Old
  <1>2. flow'[g] \in FlowState
    BY <1>1, Fields DEF Unlisted, FlowState
  <1>. QED BY <1>1, <1>2, Fields DEF Mild, Unlisted

LEMMA StartRefusedInv ==
  ASSUME IInv, NEW s \in Session, StartRefused(s)
  PROVE  IInv' /\ \A g \in Flow : Mild(g)
  <1>1. PICK removed \in SUBSET Old :
          flow' = [g \in Flow |-> IF g \in removed THEN Unlisted(g) ELSE flow[g]]
    BY DEF StartRefused
  <1>2. \A g \in Flow : Mild(g)
    BY <1>1, Same, UnlistedMild DEF IInv
  <1>3. flow' \in [Flow -> FlowState]
    BY <1>1, <1>2 DEF Mild
  <1>4. AdminOK' /\ UNCHANGED <<mu, storeVars, exchanges>>
    BY HandleTypes DEF IInv, StartRefused, TypeOK, AdminOK
  <1>. QED BY <1>2, <1>3, <1>4, MildInv

(* Start makes one new active login, of a session without an active one    *)
(* and on a free port.                                                     *)
LEMMA StartInv ==
  ASSUME IInv, NEW s \in Session, NEW p \in Provider, NEW f \in Flow, Start(s, p, f)
  PROVE  IInv' /\ \A g \in Flow : g = f \/ Mild(g)
  <1>1. /\ flow[f] = NoFlow /\ UNCHANGED <<mu, storeVars, exchanges>> /\ mu = {}
        /\ ~Busy(s) /\ ~PortTaken(p)
    BY DEF Start
  <1>2. f \notin Old
    BY <1>1 DEF Old, NoFlow
  <1>3. flow'[f] = NewFlow(s, p)
    BY <1>2 DEF Start
  <1>4. flow'[f] \in FlowState
    <2>1. {s} \in SUBSET Session /\ {p} \in SUBSET Provider /\ 0 \in 0..2
      OBVIOUS
    <2>. QED BY <1>3, <2>1 DEF FlowState, NewFlow
  <1>5. \A g \in Flow \ {f} : Mild(g)
    <2>. SUFFICES ASSUME NEW g \in Flow \ {f} PROVE Mild(g)
      OBVIOUS
    <2>1. CASE g \in Old
      <3>1. flow'[g] = Unlisted(g)
        BY <2>1 DEF Start
      <3>. QED BY <2>1, <3>1, UnlistedMild DEF IInv
    <2>2. CASE g \notin Old
      <3>1. flow'[g] = flow[g]
        BY <2>2 DEF Start
      <3>. QED BY <3>1, Same DEF IInv
    <2>. QED BY <2>1, <2>2
  <1>6. flow' \in [Flow -> FlowState]
    <2>1. flow' = [g \in Flow |-> flow'[g]]
      BY DEF Start
    <2>2. \A g \in Flow : flow'[g] \in FlowState
      BY <1>4, <1>5 DEF Mild
    <2>. QED BY <2>1, <2>2
  <1>7. AdminOK'
    BY HandleTypes DEF IInv, Start, TypeOK, AdminOK
  <1>8. TypeOK'
    BY <1>1, <1>6, <1>7 DEF IInv, TypeOK, AdminOK, storeVars
  <1>9. FlowOK(f)'
    <2>1. exchanges[f] = 0 /\ f \notin stored /\ f \notin accounts
      BY <1>1 DEF IInv, FlowOK, NoFlow
    <2>2. /\ flow'[f].status = "pending" /\ flow'[f].task = "none" /\ flow'[f].listed
      BY <1>3 DEF NewFlow
    <2>. QED BY <1>1, <2>1, <2>2 DEF FlowOK, storeVars
  <1>10. ASSUME NEW g \in Flow \ {f} PROVE FlowOK(g)'
    <2>1. FlowOK(g) /\ Mild(g)
      BY <1>5 DEF IInv
    <2>2. flow'[g].status = flow[g].status /\ flow'[g].task = flow[g].task
      BY DEF Start, Unlisted
    <2>3. flow'[g].age = flow[g].age /\ flow'[g].provider = flow[g].provider
      BY DEF Start, Unlisted
    <2>4. Active(g)' /\ flow'[g].age < 2 => flow'[g].listed
      <3>1. flow[g].age \in 0..2 /\ flow[g].listed \in BOOLEAN
        BY Fields DEF IInv
      <3>2. Active(g)' => Active(g)
        BY <2>2 DEF Active
      <3>. QED BY <2>1, <2>3, <3>1, <3>2 DEF FlowOK, Mild
    <2>5. UNCHANGED <<mu, providers, accounts, stored, exchanges>>
      BY <1>1 DEF storeVars
    <2>. QED BY <2>1, <2>2, <2>3, <2>4, <2>5, Keeps
  <1>11. OneLoginAtATime'
    <2>1. \A g \in Flow \ {f} : /\ flow'[g].status = flow[g].status
                                /\ flow'[g].age = flow[g].age
                                /\ flow'[g].owner = flow[g].owner
                                /\ flow'[g].provider = flow[g].provider
      BY DEF Start, Unlisted
    <2>2. ASSUME NEW g \in Flow \ {f}, Active(g)'
          PROVE  /\ flow'[g].age < 2 => s \notin flow'[g].owner
                 /\ \A q \in flow'[g].provider : KindOf[q] # KindOf[p]
      <3>1. Active(g)
        BY <2>1, <2>2 DEF Active
      <3>2. flow[g].age < 2 => flow[g].listed /\ g \notin Old
        BY <3>1 DEF IInv, FlowOK, Old
      <3>. QED BY <1>1, <2>1, <3>1, <3>2 DEF Busy, PortTaken
    <2>3. flow'[f].owner = {s} /\ flow'[f].provider = {p}
      BY <1>3 DEF NewFlow
    <2>. SUFFICES ASSUME NEW g \in Flow, NEW h \in Flow, g # h, Active(g)', Active(h)'
                  PROVE  /\ flow'[g].age < 2 /\ flow'[h].age < 2 =>
                              flow'[g].owner \cap flow'[h].owner = {}
                         /\ \A x \in flow'[g].provider, y \in flow'[h].provider :
                              KindOf[x] # KindOf[y]
      BY DEF OneLoginAtATime
    <2>4. CASE g = f
      BY <2>2, <2>3, <2>4
    <2>5. CASE h = f
      BY <2>2, <2>3, <2>5
    <2>6. CASE g # f /\ h # f
      BY <2>1, <2>6 DEF IInv, OneLoginAtATime, Active
    <2>. QED BY <2>4, <2>5, <2>6
  <1>. QED BY <1>5, <1>8, <1>9, <1>10, <1>11 DEF IInv

-----------------------------------------------------------------------------
(* The login's own steps. *)

LEMMA EndInv ==
  ASSUME IInv, NEW f \in Flow,
         Deny(f) \/ Expire(f) \/ ServeFails(f) \/ \E s \in Session : Cancel(s, f)
  PROVE  IInv' /\ \A g \in Flow : Mild(g)
  <1>1. mu = {} /\ Active(f) /\ \E status \in Ended : finishLocked(f, status)
    BY DEF Deny, Acceptable, Expire, Overdue, ServeFails, Cancel, Active, Ended
  <1>2. UNCHANGED <<mu, storeVars, exchanges>>
    BY DEF Deny, Expire, ServeFails, Cancel
  <1>3. AdminOK'
    BY HandleTypes DEF IInv, TypeOK, AdminOK, adminVars, Deny, Expire, ServeFails, Cancel
  <1>4. flow' \in [Flow -> FlowState] /\ \A g \in Flow : Mild(g)
    BY <1>1, FinishMild DEF IInv
  <1>. QED BY <1>2, <1>3, <1>4, MildInv

(* A step on one login, with a mild effect on it. *)
LEMMA OneMild ==
  ASSUME IInv, NEW f \in Flow, NEW r \in FlowState, flow' = [flow EXCEPT ![f] = r],
         Mild(f), UNCHANGED <<adminVars, mu, storeVars, exchanges>>
  PROVE  IInv' /\ \A g \in Flow : Mild(g)
  <1>1. \A g \in Flow \ {f} : flow'[g] = flow[g]
    BY DEF IInv, TypeOK
  <1>2. \A g \in Flow : Mild(g)
    BY <1>1, Same DEF IInv
  <1>3. flow' \in [Flow -> FlowState]
    BY DEF IInv, TypeOK
  <1>4. AdminOK'
    BY DEF IInv, TypeOK, AdminOK, adminVars
  <1>. QED BY <1>2, <1>3, <1>4, MildInv

LEMMA GoOnInv ==
  ASSUME IInv, NEW f \in Flow,
         Exchange(f) \/ CompleteEnds(f) \/ CompleteRefused(f) \/ Age(f)
  PROVE  IInv' /\ \A g \in Flow : Mild(g)
  <1>0. TypeOK /\ UNCHANGED <<adminVars, mu, storeVars, exchanges>>
    BY DEF IInv, Exchange, CompleteEnds, CompleteRefused, Age
  <1>1. CASE Exchange(f)
    <2>1. PICK result \in {"granted", "refused"} : flow' = [flow EXCEPT ![f].task = result]
      BY <1>1 DEF Exchange
    <2>. DEFINE r == [flow[f] EXCEPT !.task = result]
    <2>2. r \in FlowState
      BY <1>0, Fields DEF FlowState
    <2>3. flow' = [flow EXCEPT ![f] = r] /\ flow'[f] = r
      BY <1>0, <2>1 DEF TypeOK
    <2>4. Mild(f)
      BY <1>0, <1>1, <2>2, <2>3, Fields DEF Mild, Exchange
    <2>. QED BY <1>0, <2>2, <2>3, <2>4, OneMild
  <1>2. CASE CompleteEnds(f) \/ CompleteRefused(f)
    <2>1. PICK status \in Ended \cup {flow[f].status} :
            /\ flow' = [flow EXCEPT ![f].task = "none", ![f].status = status]
            /\ status = flow[f].status \/ (Active(f) /\ status \in Ended)
      BY <1>2 DEF CompleteEnds, CompleteRefused, InTime, Ended
    <2>. DEFINE r == [flow[f] EXCEPT !.task = "none", !.status = status]
    <2>2. r \in FlowState
      BY <1>0, Fields DEF FlowState, Ended
    <2>3. flow' = [flow EXCEPT ![f] = r] /\ flow'[f] = r
      BY <1>0, <2>1 DEF TypeOK
    <2>4. mu = {} /\ flow[f].task \in {"granted", "refused"}
      BY <1>2 DEF CompleteEnds, CompleteRefused
    <2>5. /\ r.owner = flow[f].owner /\ r.provider = flow[f].provider
          /\ r.age = flow[f].age /\ r.listed = flow[f].listed
          /\ r.status = status /\ r.task = "none" /\ r.age >= flow[f].age
      BY <1>0, Fields DEF FlowState
    <2>6. Mild(f)
      BY <2>1, <2>2, <2>3, <2>4, <2>5 DEF Mild
    <2>. QED BY <1>0, <2>2, <2>3, <2>6, OneMild
  <1>3. CASE Age(f)
    <2>. DEFINE r == [flow[f] EXCEPT !.age = @ + 1]
    <2>1. flow[f].age + 1 \in 0..2
      BY <1>0, <1>3, Fields DEF Age
    <2>2. r \in FlowState
      BY <1>0, <2>1, Fields DEF FlowState
    <2>3. flow' = [flow EXCEPT ![f] = r] /\ flow'[f] = r
      BY <1>0, <1>3 DEF TypeOK, Age
    <2>4. Mild(f)
      BY <1>0, <2>2, <2>3, Fields DEF Mild
    <2>. QED BY <1>0, <2>2, <2>3, <2>4, OneMild
  <1>. QED BY <1>1, <1>2, <1>3

(* The steps that start the exchange, and start and end the save, change   *)
(* one login that stays active or was.                                     *)
LEMMA OneActive ==
  ASSUME IInv, NEW f \in Flow, NEW r \in FlowState, flow' = [flow EXCEPT ![f] = r],
         Active(f), r.owner = flow[f].owner, r.provider = flow[f].provider,
         r.age = flow[f].age
  PROVE  /\ flow'[f] = r /\ flow' \in [Flow -> FlowState]
         /\ \A g \in Flow \ {f} : flow'[g] = flow[g]
         /\ OneLoginAtATime'
  <1>1. flow'[f] = r /\ flow' \in [Flow -> FlowState]
    BY DEF IInv, TypeOK
  <1>2. \A g \in Flow \ {f} : flow'[g] = flow[g]
    BY DEF IInv, TypeOK
  <1>3. \A g \in Flow : flow[g].age \in 0..2 /\ flow'[g].age \in 0..2
    BY <1>1 DEF IInv, TypeOK, FlowState
  <1>4. \A g \in Flow : Active(g)' =>
          /\ Active(g)
          /\ flow'[g].owner = flow[g].owner /\ flow'[g].provider = flow[g].provider
          /\ flow'[g].age >= flow[g].age
    <2>. SUFFICES ASSUME NEW g \in Flow, Active(g)'
                  PROVE  /\ Active(g)
                         /\ flow'[g].owner = flow[g].owner /\ flow'[g].provider = flow[g].provider
                         /\ flow'[g].age >= flow[g].age
      OBVIOUS
    <2>1. CASE g = f
      BY <1>1, <1>3, <2>1 DEF Active
    <2>2. CASE g # f
      BY <1>2, <1>3, <2>2 DEF Active
    <2>. QED BY <2>1, <2>2
  <1>. QED BY <1>1, <1>2, <1>3, <1>4, StaysExclusive DEF IInv

(* acceptLocked: a pending login has never exchanged. *)
LEMMA AcceptInv ==
  ASSUME IInv, NEW f \in Flow, callback(f) \/ \E s \in Session : Submit(s, f)
  PROVE  IInv' /\ \A g \in Flow : g = f \/ Mild(g)
  <1>. DEFINE r == [flow[f] EXCEPT !.status = "exchanging", !.task = "exchanging"]
  <1>0. TypeOK /\ acceptLocked(f) /\ UNCHANGED <<mu, storeVars>>
    BY DEF IInv, callback, Submit
  <1>1. mu = {} /\ flow[f].status = "pending" /\ flow[f].age = 0
    BY <1>0 DEF acceptLocked, Acceptable
  <1>2. r \in FlowState
    BY <1>0, Fields DEF FlowState
  <1>3. flow' = [flow EXCEPT ![f] = r]
    BY <1>0 DEF acceptLocked, TypeOK
  <1>4. exchanges[f] = 0 /\ flow[f].listed /\ f \notin stored /\ f \notin accounts
    BY <1>1 DEF IInv, FlowOK, Active
  <1>5. exchanges' = [exchanges EXCEPT ![f] = @ + 1]
    BY <1>0 DEF acceptLocked
  <1>6. /\ flow'[f] = r /\ flow' \in [Flow -> FlowState]
        /\ \A g \in Flow \ {f} : flow'[g] = flow[g]
        /\ OneLoginAtATime'
    <2>1. /\ r.owner = flow[f].owner /\ r.provider = flow[f].provider
          /\ r.age = flow[f].age
      BY <1>0, Fields DEF FlowState
    <2>2. Active(f)
      BY <1>1 DEF Active
    <2>. HIDE DEF r
    <2>. QED BY <1>2, <1>3, <2>1, <2>2, OneActive
  <1>7. AdminOK'
    BY HandleTypes DEF IInv, TypeOK, AdminOK, adminVars, callback, Submit
  <1>8. TypeOK'
    <2>1. exchanges' \in [Flow -> Nat]
      BY <1>0, <1>5 DEF TypeOK
    <2>. QED BY <1>0, <1>6, <1>7, <2>1 DEF TypeOK, AdminOK, storeVars
  <1>9. FlowOK(f)'
    <2>1. exchanges'[f] = 1
      BY <1>0, <1>4, <1>5 DEF TypeOK
    <2>2. flow'[f].status = "exchanging" /\ flow'[f].task = "exchanging" /\ flow'[f].listed
      BY <1>0, <1>4, <1>6, Fields DEF FlowState
    <2>. QED BY <1>0, <1>1, <1>4, <2>1, <2>2 DEF FlowOK, storeVars
  <1>10. ASSUME NEW g \in Flow \ {f} PROVE FlowOK(g)' /\ Mild(g)
    <2>1. exchanges'[g] = exchanges[g] /\ flow'[g] = flow[g] /\ FlowOK(g)
      BY <1>0, <1>5, <1>6 DEF TypeOK, IInv
    <2>. QED BY <1>0, <2>1, Same DEF FlowOK, storeVars, Active
  <1>. QED BY <1>6, <1>8, <1>9, <1>10 DEF IInv

(* complete takes Manager.mu for its save. *)
LEMMA CompleteSavesInv ==
  ASSUME IInv, NEW f \in Flow, CompleteSaves(f)
  PROVE  IInv' /\ \A g \in Flow : g = f \/ Mild(g)
  <1>. DEFINE r == [flow[f] EXCEPT !.task = "saving"]
  <1>0. TypeOK /\ UNCHANGED <<adminVars, storeVars, exchanges>>
    BY DEF IInv, CompleteSaves
  <1>1. mu = {} /\ mu' = {f} /\ flow[f].task = "granted" /\ Active(f) /\ FlowOK(f)
    BY DEF IInv, CompleteSaves, InTime
  <1>2. r \in FlowState
    BY <1>0, Fields DEF FlowState
  <1>3. flow' = [flow EXCEPT ![f] = r]
    BY <1>0 DEF CompleteSaves, TypeOK
  <1>4. /\ r.owner = flow[f].owner /\ r.provider = flow[f].provider /\ r.age = flow[f].age
        /\ r.listed = flow[f].listed /\ r.status = flow[f].status /\ r.task = "saving"
    BY <1>0, Fields DEF FlowState
  <1>. HIDE DEF r
  <1>5. /\ flow'[f] = r /\ flow' \in [Flow -> FlowState]
        /\ \A g \in Flow \ {f} : flow'[g] = flow[g]
        /\ OneLoginAtATime'
    BY <1>1, <1>2, <1>3, <1>4, OneActive
  <1>6. TypeOK'
    BY <1>0, <1>1, <1>5 DEF TypeOK, adminVars, storeVars
  <1>7. FlowOK(f)'
    <2>1. flow[f].status = "exchanging"
      BY <1>1 DEF FlowOK, Active
    <2>. QED BY <1>0, <1>1, <1>4, <1>5, <2>1 DEF FlowOK, Active, storeVars
  <1>8. ASSUME NEW g \in Flow \ {f} PROVE FlowOK(g)' /\ Mild(g)
    <2>1. flow'[g] = flow[g] /\ FlowOK(g) /\ flow[g].task # "saving"
      BY <1>1, <1>5 DEF IInv, FlowOK
    <2>. QED BY <1>0, <1>1, <2>1, Same DEF FlowOK, storeVars, Active
  <1>. QED BY <1>5, <1>6, <1>7, <1>8 DEF IInv

(* The save ends with the login and gives Manager.mu back: nobody else can *)
(* have ended the login meanwhile.                                         *)
LEMMA SaveInv ==
  ASSUME IInv, NEW f \in Flow, Save(f) \/ SaveFails(f)
  PROVE  /\ IInv'
         /\ flow[f].status = "exchanging"
         /\ \A g \in Flow : g = f \/ Mild(g)
  <1>0. TypeOK /\ FlowOK(f) /\ UNCHANGED <<adminVars, providers, exchanges>> /\ mu' = {}
    BY DEF IInv, Save, SaveFails, storeVars
  <1>1. flow[f].task = "saving" /\ flow[f].status = "exchanging" /\ mu = {f} /\ Active(f)
    BY <1>0 DEF Save, SaveFails, FlowOK, Active
  <1>2. PICK status \in {"succeeded", "failed"} :
          /\ flow' = [flow EXCEPT ![f].task = "none", ![f].status = status]
          /\ \/ /\ status = "succeeded" /\ Importable(f)
                /\ accounts' = accounts \cup {f} /\ stored' = stored \cup {f}
             \/ UNCHANGED <<accounts, stored>>
    BY DEF Save, SaveFails, storeVars
  <1>. DEFINE r == [flow[f] EXCEPT !.task = "none", !.status = status]
  <1>3. r \in FlowState
    BY <1>0, Fields DEF FlowState
  <1>4. flow' = [flow EXCEPT ![f] = r]
    BY <1>0, <1>2 DEF TypeOK
  <1>5. /\ r.owner = flow[f].owner /\ r.provider = flow[f].provider /\ r.age = flow[f].age
        /\ r.status = status /\ r.task = "none"
    BY <1>0, Fields DEF FlowState
  <1>. HIDE DEF r
  <1>6. /\ flow'[f] = r /\ flow' \in [Flow -> FlowState]
        /\ \A g \in Flow \ {f} : flow'[g] = flow[g]
        /\ OneLoginAtATime'
    BY <1>1, <1>3, <1>4, <1>5, OneActive
  <1>7. TypeOK'
    BY <1>0, <1>2, <1>6 DEF TypeOK, adminVars
  <1>8. FlowOK(f)'
    <2>1. f \notin stored /\ f \notin accounts /\ exchanges[f] <= 1
      BY <1>0, <1>1 DEF FlowOK
    <2>2. f \in accounts' => f \in stored' /\ flow'[f].provider \subseteq providers'
      BY <1>0, <1>2, <1>5, <1>6, <2>1 DEF Importable
    <2>3. f \in stored' => flow'[f].status \in {"succeeded", "gone"}
      BY <1>2, <1>5, <1>6, <2>1
    <2>4. flow'[f].task = "none" /\ flow'[f].status \in {"succeeded", "failed"} /\ f \notin mu'
      BY <1>0, <1>5, <1>6
    <2>. QED BY <1>0, <2>1, <2>2, <2>3, <2>4 DEF FlowOK, Active
  <1>9. ASSUME NEW g \in Flow \ {f} PROVE FlowOK(g)' /\ Mild(g)
    <2>1. flow'[g] = flow[g] /\ FlowOK(g)
      BY <1>6 DEF IInv
    <2>2. flow[g].task # "saving"
      BY <1>1, <2>1 DEF FlowOK
    <2>3. (g \in stored' <=> g \in stored) /\ (g \in accounts' <=> g \in accounts)
      BY <1>2
    <2>. QED BY <1>0, <2>1, <2>2, <2>3, Same DEF FlowOK, Active
  <1>. QED BY <1>1, <1>6, <1>7, <1>8, <1>9 DEF IInv

LEMMA DeleteProviderInv ==
  ASSUME IInv, NEW p \in Provider, DeleteProvider(p)
  PROVE  IInv' /\ \A g \in Flow : Mild(g)
  <1>0. TypeOK /\ UNCHANGED <<adminVars, flow, mu, exchanges, stored>>
    BY DEF IInv, DeleteProvider
  <1>1. providers' = providers \ {p} /\ accounts' = {f \in accounts : p \notin flow[f].provider}
    BY DEF DeleteProvider
  <1>2. TypeOK'
    BY <1>0, <1>1 DEF TypeOK, adminVars
  <1>3. ASSUME NEW g \in Flow PROVE FlowOK(g)'
    <2>1. FlowOK(g)
      BY DEF IInv
    <2>2. g \in accounts' => g \in stored' /\ flow'[g].provider \subseteq providers'
      BY <1>0, <1>1, <2>1 DEF FlowOK
    <2>. QED BY <1>0, <2>1, <2>2 DEF FlowOK, Active
  <1>4. OneLoginAtATime'
    BY <1>0 DEF IInv, OneLoginAtATime, Active
  <1>. QED BY <1>0, <1>2, <1>3, <1>4, Same DEF IInv

(* A restart leaves no login active. *)
LEMMA RestartInv ==
  ASSUME IInv, Restart
  PROVE  /\ IInv'
         /\ \A g \in Flow : flow'[g].status = flow[g].status \/ flow'[g].status = "gone"
  <1>0. TypeOK /\ UNCHANGED <<session, storeVars, exchanges>> /\ mu' = {}
    BY DEF IInv, Restart
  <1>1. ASSUME NEW g \in Flow
        PROVE  /\ flow'[g] \in FlowState
               /\ flow'[g].status \in {"none", "gone"} /\ flow'[g].provider = flow[g].provider
               /\ flow'[g].task = "none"
               /\ flow'[g].status = "none" => flow[g].status = "none"
               /\ flow[g].status = "none" => flow'[g] = flow[g]
    <2>1. CASE flow[g].status = "none"
      <3>1. flow'[g] = flow[g]
        BY <2>1 DEF Restart
      <3>. QED BY <1>0, <2>1, <3>1, Fields DEF IInv, FlowOK
    <2>2. CASE flow[g].status # "none"
      <3>1. flow'[g] = [status |-> "gone", owner |-> {}, provider |-> flow[g].provider,
                        age |-> 0, listed |-> FALSE, task |-> "none"]
        BY <2>2 DEF Restart, NoFlow
      <3>2. flow[g].provider \in SUBSET Provider /\ {} \in SUBSET Session /\ 0 \in 0..2
        BY <1>0, Fields
      <3>. QED BY <2>2, <3>1, <3>2 DEF FlowState
    <2>. QED BY <2>1, <2>2
  <1>2. flow' = [g \in Flow |-> flow'[g]]
    BY DEF Restart
  <1>3. flow' \in [Flow -> FlowState]
    BY <1>1, <1>2
  <1>4. TypeOK'
    <2>1. admitted' \in [Session -> 0..MaxAdmitted] /\ leaving' = {}
      <3>1. 0 \in 0..MaxAdmitted
        BY LoginAssumption
      <3>. QED BY <3>1 DEF Restart
    <2>2. changing' \in BOOLEAN
      BY DEF Restart
    <2>. QED BY <1>0, <1>3, <2>1, <2>2 DEF TypeOK, storeVars
  <1>5. ASSUME NEW g \in Flow PROVE FlowOK(g)'
    <2>1. FlowOK(g)
      BY DEF IInv
    <2>2. g \in stored' => flow'[g].status \in {"succeeded", "gone"}
      BY <1>0, <1>1, <2>1 DEF FlowOK, storeVars
    <2>3. g \in accounts' => g \in stored' /\ flow'[g].provider \subseteq providers'
      BY <1>0, <1>1, <2>1 DEF FlowOK, storeVars
    <2>4. flow'[g].status \in {"none", "pending"} => exchanges'[g] = 0
      BY <1>0, <1>1, <2>1 DEF FlowOK
    <2>5. exchanges'[g] <= 1
      BY <1>0, <2>1 DEF FlowOK
    <2>. QED BY <1>0, <1>1, <2>2, <2>3, <2>4, <2>5 DEF FlowOK, Active
  <1>6. OneLoginAtATime'
    BY <1>1 DEF OneLoginAtATime, Active
  <1>. QED BY <1>1, <1>4, <1>5, <1>6 DEF IInv

-----------------------------------------------------------------------------

LEMMA InitInv == Init => IInv
  <1>. SUFFICES ASSUME Init PROVE IInv
    OBVIOUS
  <1>1. NoFlow \in FlowState
    <2>1. {} \in SUBSET Session /\ {} \in SUBSET Provider /\ 0 \in 0..2
      OBVIOUS
    <2>. QED BY <2>1 DEF NoFlow, FlowState
  <1>2. TypeOK
    <2>1. admitted \in [Session -> 0..MaxAdmitted] /\ exchanges \in [Flow -> Nat]
      BY LoginAssumption DEF Init
    <2>2. changing \in BOOLEAN
      BY DEF Init
    <2>3. flow \in [Flow -> FlowState]
      BY <1>1 DEF Init
    <2>. QED BY <2>1, <2>2, <2>3 DEF Init, TypeOK
  <1>3. ASSUME NEW f \in Flow PROVE FlowOK(f) /\ ~Active(f)
    <2>1. flow[f] = NoFlow /\ exchanges[f] = 0 /\ mu = {} /\ stored = {} /\ accounts = {}
      BY DEF Init
    <2>. QED BY <2>1 DEF FlowOK, Active, NoFlow
  <1>. QED BY <1>2, <1>3 DEF IInv, OneLoginAtATime

(* Every step keeps the invariant, and an ended login its outcome. *)
LEMMA StepInv ==
  ASSUME IInv, [Next]_vars
  PROVE  /\ IInv'
         /\ \A f \in Flow : flow[f].status \notin {"none", "pending", "exchanging"} =>
              flow'[f].status \in {flow[f].status, "gone"}
  <1>. DEFINE Final(f) == flow[f].status \notin {"none", "pending", "exchanging"} =>
                            flow'[f].status \in {flow[f].status, "gone"}
  <1>0. \A g \in Flow : Mild(g) => Final(g)
    BY DEF Mild, Active
  <1>1. ASSUME NEW s \in Session, Request(s)
        PROVE  IInv' /\ \A f \in Flow : Final(f)
    <2>1. CASE \/ SignIn(s) \/ SessionExpires(s) \/ requireSession(s)
               \/ LogoutDeletes(s) \/ RequestEnds(s)
      BY <1>0, <2>1, SessionInv
    <2>2. CASE LogoutCancels(s) \/ ChangeCancels(s)
      BY <1>0, <2>2, LeaveInv
    <2>3. CASE StartRefused(s)
      BY <1>0, <2>3, StartRefusedInv
    <2>4. ASSUME NEW f \in Flow, Submit(s, f) PROVE IInv' /\ \A g \in Flow : Final(g)
      <3>1. flow[f].status = "pending"
        BY <2>4 DEF Submit, acceptLocked, Acceptable
      <3>. QED BY <1>0, <2>4, <3>1, AcceptInv
    <2>5. ASSUME NEW f \in Flow, Cancel(s, f) PROVE IInv' /\ \A g \in Flow : Final(g)
      BY <1>0, <2>5, EndInv
    <2>6. ASSUME NEW f \in Flow, NEW p \in Provider, Start(s, p, f)
          PROVE  IInv' /\ \A g \in Flow : Final(g)
      <3>1. flow[f].status = "none"
        BY <2>6 DEF Start, NoFlow
      <3>. QED BY <1>0, <2>6, <3>1, StartInv
    <2>. QED BY <1>1, <2>1, <2>2, <2>3, <2>4, <2>5, <2>6 DEF Request
  <1>2. CASE ChangeDeletes
    <2>1. CASE Session = {}
      <3>1. AdminOK'
        BY <1>2 DEF IInv, TypeOK, ChangeDeletes, AdminOK
      <3>2. UNCHANGED <<flow, mu, storeVars, exchanges>>
        BY <1>2 DEF ChangeDeletes
      <3>. QED BY <1>0, <3>1, <3>2, Quiet
    <2>2. CASE Session # {}
      BY <1>0, <1>2, <2>2, SessionInv
    <2>. QED BY <2>1, <2>2
  <1>3. ASSUME NEW f \in Flow, Run(f)
        PROVE  IInv' /\ \A g \in Flow : Final(g)
    <2>1. CASE callback(f)
      <3>1. flow[f].status = "pending"
        BY <2>1 DEF callback, acceptLocked, Acceptable
      <3>. QED BY <1>0, <2>1, <3>1, AcceptInv
    <2>2. CASE Deny(f) \/ Expire(f) \/ ServeFails(f)
      BY <1>0, <2>2, EndInv
    <2>3. CASE Exchange(f) \/ CompleteEnds(f) \/ CompleteRefused(f) \/ Age(f)
      BY <1>0, <2>3, GoOnInv
    <2>4. CASE CompleteSaves(f)
      <3>1. Active(f)
        BY <2>4 DEF CompleteSaves, InTime
      <3>. QED BY <1>0, <2>4, <3>1, CompleteSavesInv DEF Active
    <2>5. CASE Save(f) \/ SaveFails(f)
      BY <1>0, <2>5, SaveInv
    <2>. QED BY <1>3, <2>1, <2>2, <2>3, <2>4, <2>5 DEF Run, Complete
  <1>4. ASSUME NEW p \in Provider, DeleteProvider(p)
        PROVE  IInv' /\ \A g \in Flow : Final(g)
    BY <1>0, <1>4, DeleteProviderInv
  <1>5. CASE Restart
    BY <1>5, RestartInv
  <1>6. CASE UNCHANGED vars
    <2>1. UNCHANGED <<flow, mu, storeVars, exchanges>>
      BY <1>6 DEF vars, storeVars
    <2>2. AdminOK'
      BY <1>6 DEF IInv, TypeOK, AdminOK, vars
    <2>. QED BY <1>0, <2>1, <2>2, Quiet
  <1>. QED BY <1>1, <1>2, <1>3, <1>4, <1>5, <1>6 DEF Next

LEMMA Invariance == Spec => []IInv
  <1>1. IInv /\ [Next]_vars => IInv'
    BY StepInv
  <1>. QED BY <1>1, InitInv, PTL DEF Spec

(* The types of sessions, logins and accounts hold for any number of them  *)
(* (Manager, admin_sessions).                                              *)
THEOREM LoginTypes == Spec => []TypeOK
  <1>1. IInv => TypeOK
    BY DEF IInv
  <1>. QED BY <1>1, Invariance, PTL

(* However often callback and Submit deliver the code of a login, and in   *)
(* whatever order, it is exchanged once.                                   *)
THEOREM CodesAreExchangedOnce == Spec => []ExchangedOnce
  <1>1. IInv => ExchangedOnce
    BY DEF IInv, FlowOK, ExchangedOnce
  <1>. QED BY <1>1, Invariance, PTL

(* Accounts come only from logins that are reported as succeeded: complete *)
(* stores nothing for one that was cancelled, expired or failed.           *)
THEOREM StoredBySuccess == Spec => []StoredMeansSucceeded
  <1>1. IInv => StoredMeansSucceeded
    BY DEF IInv, TypeOK, FlowOK, StoredMeansSucceeded
  <1>. QED BY <1>1, Invariance, PTL

(* Start keeps one login per session within its time and one per port.     *)
THEOREM LoginsAreExclusive == Spec => []OneLoginAtATime
  <1>1. IInv => OneLoginAtATime
    BY DEF IInv
  <1>. QED BY <1>1, Invariance, PTL

(* No account outlives its provider or arrives after it.                   *)
THEOREM NoOrphanAccounts == Spec => []AccountsHaveProvider
  <1>1. IInv => AccountsHaveProvider
    BY DEF IInv, TypeOK, FlowOK, AccountsHaveProvider
  <1>. QED BY <1>1, Invariance, PTL

(* Late goroutines and requests never change the outcome of a login.       *)
THEOREM OutcomesAreFinal == Spec => OutcomeIsFinal
  <1>. DEFINE Step == \A f \in Flow :
                        flow[f].status \notin {"none", "pending", "exchanging"} =>
                          flow'[f].status \in {flow[f].status, "gone"}
  <1>1. IInv /\ [Next]_vars => [Step]_vars
    BY StepInv
  <1>. QED BY <1>1, Invariance, PTL DEF Spec, OutcomeIsFinal
=============================================================================
