------------------------------ MODULE LoginFlow ------------------------------
(***************************************************************************)
(* The browser logins of internal/oauthlogin.  A login (a flow) belongs to *)
(* the session of the administrator who started it, listens on the fixed   *)
(* port of its kind of provider, takes one authorization code from the     *)
(* browser's callback or from a URL typed by hand, exchanges it in a       *)
(* goroutine and stores an account.  Cancellation, expiry, logout, a       *)
(* change of password and the deletion of the provider happen meanwhile.   *)
(* A step is a critical section of Manager.mu or one statement on the      *)
(* database.  A callback that is malformed or of another login changes     *)
(* nothing and is left out.                                                *)
(***************************************************************************)
EXTENDS Naturals

CONSTANTS
  Session,      \* administrator sessions, each a fresh random token
  Provider,     \* OAuth providers
  KindOf,       \* the kind of each: it fixes the callback port
  Flow,         \* login ids, each a fresh random string
  MaxAdmitted   \* bound on the requests of one session under way

ASSUME LoginAssumption == MaxAdmitted \in Nat

VARIABLES
  session,   \* admin_sessions: not created yet, live, out of time, or deleted
             \* by a logout or a change of password
  admitted,  \* requests of a session that are past requireSession
  leaving,   \* sessions whose logout is between CancelOwner and DeleteSession
  changing,  \* a change of password is between the same two points
  flow,      \* Manager.flows, and what its goroutines still refer to
  mu,        \* the login that keeps Manager.mu over its save, if any
  providers, \* providers not deleted
  accounts,  \* accounts in upstream_keys, named by the login that made them
  exchanges, \* history: how often the code of a login was exchanged
  stored     \* history: logins that stored an account

adminVars == <<session, admitted, leaving, changing>>
storeVars == <<providers, accounts, stored>>
vars == <<session, admitted, leaving, changing, flow, mu, providers, accounts,
          exchanges, stored>>

(* age 1: past ExpiresAt, so the context has ended; age 2: a minute more.  *)
(* task: the goroutine of complete.                                        *)
FlowState ==
  [status : {"none", "pending", "exchanging", "succeeded", "failed", "expired",
             "cancelled", "gone"},
   owner : SUBSET Session, provider : SUBSET Provider, age : 0..2, listed : BOOLEAN,
   task : {"none", "exchanging", "granted", "refused", "saving"}]

NoFlow ==
  [status |-> "none", owner |-> {}, provider |-> {}, age |-> 0, listed |-> FALSE,
   task |-> "none"]

Init ==
  /\ session = [s \in Session |-> "new"]
  /\ admitted = [s \in Session |-> 0]
  /\ leaving = {}
  /\ changing = FALSE
  /\ flow = [f \in Flow |-> NoFlow]
  /\ mu = {}
  /\ providers = Provider
  /\ accounts = {}
  /\ exchanges = [f \in Flow |-> 0]
  /\ stored = {}

(* active.  The listener is open exactly while the login is active: Start  *)
(* opens it and finishLocked closes it.                                    *)
Active(f) == flow[f].status \in {"pending", "exchanging"}

(* finishLocked ends a login and releases its port. *)
finishLocked(f, status) == flow' = [flow EXCEPT ![f].status = status]

-----------------------------------------------------------------------------
(* Sessions. *)

(* login creates a session. *)
SignIn(s) ==
  /\ session[s] = "new"
  /\ session' = [session EXCEPT ![s] = "live"]
  /\ UNCHANGED <<admitted, leaving, changing, flow, mu, storeVars, exchanges>>

(* Seven days, or a day without a request. *)
SessionExpires(s) ==
  /\ session[s] = "live"
  /\ session' = [session EXCEPT ![s] = "expired"]
  /\ UNCHANGED <<admitted, leaving, changing, flow, mu, storeVars, exchanges>>

(* requireSession lets a request through to its handler. *)
requireSession(s) ==
  /\ session[s] = "live" /\ admitted[s] < MaxAdmitted
  /\ admitted' = [admitted EXCEPT ![s] = @ + 1]
  /\ UNCHANGED <<session, leaving, changing, flow, mu, storeVars, exchanges>>

(* A handler takes one of the session's requests and is done with it. *)
Handle(s) == admitted[s] > 0 /\ admitted' = [admitted EXCEPT ![s] = @ - 1]

(* CancelOwner ends the active logins of these owners. *)
CancelOwner(owners) ==
  flow' = [f \in Flow |->
             IF flow[f].listed /\ flow[f].owner \cap owners # {} /\ Active(f)
             THEN [flow[f] EXCEPT !.status = "cancelled"] ELSE flow[f]]

(* logout: CancelOwner, ... *)
LogoutCancels(s) ==
  /\ mu = {} /\ s \notin leaving
  /\ Handle(s)
  /\ CancelOwner({s})
  /\ leaving' = leaving \cup {s}
  /\ UNCHANGED <<session, changing, mu, storeVars, exchanges>>

(* ... then DeleteSession, whose error is ignored. *)
LogoutDeletes(s) ==
  /\ s \in leaving
  /\ leaving' = leaving \ {s}
  /\ session' \in {[session EXCEPT ![s] = "deleted"], session}
  /\ UNCHANGED <<admitted, changing, flow, mu, storeVars, exchanges>>

(* changePassword: CancelOwner(""), ... *)
ChangeCancels(s) ==
  /\ mu = {} /\ ~changing
  /\ Handle(s)
  /\ CancelOwner(Session)
  /\ changing' = TRUE
  /\ UNCHANGED <<session, leaving, mu, storeVars, exchanges>>

(* ... then ResetAdminPassword deletes all sessions, or fails. *)
ChangeDeletes ==
  /\ changing
  /\ changing' = FALSE
  /\ session' \in {[s \in Session |-> IF session[s] = "live" THEN "deleted" ELSE session[s]],
                   session}
  /\ UNCHANGED <<admitted, leaving, flow, mu, storeVars, exchanges>>

-----------------------------------------------------------------------------
(* Starting a login. *)

Old == {f \in Flow : flow[f].listed /\ flow[f].age = 2}

\* Mutant: a login in the middle of its exchange is not seen.
BusyPending(s) ==
  \E f \in Flow \ Old :
    flow[f].listed /\ s \in flow[f].owner /\ flow[f].status = "pending"

(* ErrBusy: the session has an active login. *)
Busy(s) == \E f \in Flow \ Old : flow[f].listed /\ s \in flow[f].owner /\ Active(f)

(* net.Listen: one port per kind of provider. *)
PortTaken(p) ==
  \E f \in Flow : Active(f) /\ \E q \in flow[f].provider : KindOf[q] = KindOf[p]

Unlisted(g) == [flow[g] EXCEPT !.listed = FALSE]

NewFlow(s, p) ==
  [status |-> "pending", owner |-> {s}, provider |-> {p}, age |-> 0, listed |-> TRUE,
   task |-> "none"]

(* startProviderLogin and Start, with the old logins removed. *)
Start(s, p, f) ==
  /\ mu = {} /\ flow[f] = NoFlow
  /\ p \in providers
  /\ Handle(s)
  /\ ~Busy(s) /\ ~PortTaken(p)
  /\ flow' = [g \in Flow |->
                CASE g = f -> NewFlow(s, p)
                  [] g \in Old -> Unlisted(g)
                  [] OTHER -> flow[g]]
  /\ UNCHANGED <<session, leaving, changing, mu, storeVars, exchanges>>

(* Start fails.  It has removed the old logins met before the active one,  *)
(* or all of them if the port is the reason.                               *)
StartRefused(s) ==
  /\ mu = {}
  /\ Handle(s)
  /\ \E removed \in SUBSET Old :
       /\ ~Busy(s) => removed = Old
       /\ flow' = [g \in Flow |-> IF g \in removed THEN Unlisted(g) ELSE flow[g]]
  /\ UNCHANGED <<session, leaving, changing, mu, storeVars, exchanges>>

-----------------------------------------------------------------------------
(* The authorization response, and the exchange. *)

\* Mutant: only the end of the login is looked at.
AcceptableActive(f) == Active(f) /\ flow[f].age = 0

(* acceptLocked: the first response of a login within its time. *)
Acceptable(f) == flow[f].status = "pending" /\ flow[f].age = 0

(* acceptLocked, with a code: a goroutine goes on with the exchange. *)
acceptLocked(f) ==
  /\ mu = {} /\ Acceptable(f)
  /\ flow' = [flow EXCEPT ![f].status = "exchanging", ![f].task = "exchanging"]
  /\ exchanges' = [exchanges EXCEPT ![f] = @ + 1]

(* The browser calls back, any number of times. *)
callback(f) ==
  /\ acceptLocked(f)
  /\ UNCHANGED <<adminVars, mu, storeVars>>

(* Submit: the owner types in the callback URL. *)
Submit(s, f) ==
  /\ Handle(s)
  /\ flow[f].listed /\ s \in flow[f].owner
  /\ acceptLocked(f)
  /\ UNCHANGED <<session, leaving, changing, mu, storeVars>>

(* acceptLocked, with an error: the user has refused. *)
Deny(f) ==
  /\ mu = {} /\ Acceptable(f)
  /\ finishLocked(f, "failed")
  /\ UNCHANGED <<adminVars, mu, storeVars, exchanges>>

(* The token endpoint answers, or the exchange fails or is cancelled. *)
Exchange(f) ==
  /\ flow[f].task = "exchanging"
  /\ \E result \in {"granted", "refused"} : flow' = [flow EXCEPT ![f].task = result]
  /\ UNCHANGED <<adminVars, mu, storeVars, exchanges>>

\* Mutant: a login that has ended is completed all the same.
InTimeOnly(f) == flow[f].age = 0

(* complete goes on for an active login within its time. *)
InTime(f) == Active(f) /\ flow[f].age = 0

(* complete: the login has ended meanwhile, is late, or has failed. *)
CompleteEnds(f) ==
  /\ mu = {} /\ flow[f].task \in {"granted", "refused"}
  /\ flow[f].task = "granted" => ~InTime(f)
  /\ flow' = [flow EXCEPT ![f].task = "none",
                          ![f].status = CASE ~Active(f) -> @
                                          [] Active(f) /\ flow[f].age # 0 -> "expired"
                                          [] OTHER -> "failed"]
  /\ UNCHANGED <<adminVars, mu, storeVars, exchanges>>

(* complete calls save, which asks ValidateSession first. *)
CompleteSaves(f) ==
  /\ mu = {} /\ flow[f].task = "granted" /\ InTime(f)
  /\ \E s \in flow[f].owner : session[s] = "live"
  /\ mu' = {f}
  /\ flow' = [flow EXCEPT ![f].task = "saving"]
  /\ UNCHANGED <<adminVars, storeVars, exchanges>>

(* ValidateSession refuses, or cannot read. *)
CompleteRefused(f) ==
  /\ mu = {} /\ flow[f].task = "granted" /\ InTime(f)
  /\ flow' = [flow EXCEPT ![f].task = "none", ![f].status = "failed"]
  /\ UNCHANGED <<adminVars, mu, storeVars, exchanges>>

(* ImportOAuthCredential and ImportAntigravityCredential want the provider. *)
Importable(f) == flow[f].provider \subseteq providers

(* The account is stored, and complete ends the login. *)
Save(f) ==
  /\ flow[f].task = "saving" /\ Importable(f)
  /\ accounts' = accounts \cup {f}
  /\ stored' = stored \cup {f}
  /\ flow' = [flow EXCEPT ![f].task = "none", ![f].status = "succeeded"]
  /\ mu' = {}
  /\ UNCHANGED <<adminVars, providers, exchanges>>

\* Mutant: the session is validated after the account is stored.
SaveFailsLate(f) ==
  /\ flow[f].task = "saving"
  /\ accounts' = accounts \cup {f}
  /\ stored' = stored \cup {f}
  /\ flow' = [flow EXCEPT ![f].task = "none", ![f].status = "failed"]
  /\ mu' = {}
  /\ UNCHANGED <<adminVars, providers, exchanges>>

(* The provider is gone, the account is there already, the database fails. *)
SaveFails(f) ==
  /\ flow[f].task = "saving"
  /\ flow' = [flow EXCEPT ![f].task = "none", ![f].status = "failed"]
  /\ mu' = {}
  /\ UNCHANGED <<adminVars, storeVars, exchanges>>

-----------------------------------------------------------------------------
(* Other ends of a login. *)

(* cancelProviderLogin and Cancel. *)
Cancel(s, f) ==
  /\ mu = {}
  /\ Handle(s)
  /\ flow[f].listed /\ s \in flow[f].owner /\ Active(f)
  /\ finishLocked(f, "cancelled")
  /\ UNCHANGED <<session, leaving, changing, mu, storeVars, exchanges>>

Overdue(f) == Active(f) /\ flow[f].age > 0

(* The goroutine that waits for the end of the context. *)
Expire(f) ==
  /\ mu = {} /\ Overdue(f)
  /\ finishLocked(f, "expired")
  /\ UNCHANGED <<adminVars, mu, storeVars, exchanges>>

(* The goroutine that serves the callback: the listener fails. *)
ServeFails(f) ==
  /\ mu = {} /\ Active(f)
  /\ finishLocked(f, "failed")
  /\ UNCHANGED <<adminVars, mu, storeVars, exchanges>>

(* Any other request, or one that is refused. *)
RequestEnds(s) ==
  /\ Handle(s)
  /\ UNCHANGED <<session, leaving, changing, flow, mu, storeVars, exchanges>>

(* DeleteProvider, which archives its accounts. *)
DeleteProvider(p) ==
  /\ p \in providers
  /\ providers' = providers \ {p}
  /\ accounts' = {f \in accounts : p \notin flow[f].provider}
  /\ UNCHANGED <<adminVars, flow, mu, exchanges, stored>>

(* The clock: ExpiresAt, then a minute more.  The age of a login that has  *)
(* ended decides nothing but when Start forgets it.                        *)
Age(f) ==
  /\ Active(f) /\ flow[f].age < 2
  /\ flow' = [flow EXCEPT ![f].age = @ + 1]
  /\ UNCHANGED <<adminVars, mu, storeVars, exchanges>>

(* The process starts again: logins and requests are in memory only. *)
Restart ==
  /\ flow' = [f \in Flow |->
                IF flow[f].status = "none" THEN flow[f]
                ELSE [NoFlow EXCEPT !.status = "gone", !.provider = flow[f].provider]]
  /\ mu' = {}
  /\ admitted' = [s \in Session |-> 0]
  /\ leaving' = {}
  /\ changing' = FALSE
  /\ UNCHANGED <<session, storeVars, exchanges>>

Request(s) ==
  \/ SignIn(s) \/ SessionExpires(s) \/ requireSession(s)
  \/ LogoutCancels(s) \/ LogoutDeletes(s) \/ ChangeCancels(s)
  \/ StartRefused(s) \/ RequestEnds(s)
  \/ \E f \in Flow : Submit(s, f) \/ Cancel(s, f) \/ \E p \in Provider : Start(s, p, f)

Complete(f) == CompleteEnds(f) \/ CompleteSaves(f) \/ CompleteRefused(f)

Run(f) ==
  \/ callback(f) \/ Deny(f) \/ Exchange(f) \/ Complete(f)
  \/ Save(f) \/ SaveFails(f) \/ Expire(f) \/ ServeFails(f) \/ Age(f)

Next ==
  \/ \E s \in Session : Request(s)
  \/ ChangeDeletes
  \/ \E f \in Flow : Run(f)
  \/ \E p \in Provider : DeleteProvider(p)
  \/ Restart

Spec == Init /\ [][Next]_vars

-----------------------------------------------------------------------------

(* Type invariant: the status of a login is one that the handlers and      *)
(* goroutines of Manager set, and Manager.mu has one holder at most.       *)
TypeOK ==
  /\ session \in [Session -> {"new", "live", "expired", "deleted"}]
  /\ admitted \in [Session -> 0..MaxAdmitted]
  /\ leaving \subseteq Session
  /\ changing \in BOOLEAN
  /\ flow \in [Flow -> FlowState]
  /\ mu \subseteq Flow
  /\ providers \subseteq Provider
  /\ accounts \subseteq Flow
  /\ exchanges \in [Flow -> Nat]
  /\ stored \subseteq Flow

(* Callbacks and submitted URLs, repeated and at the same time, lead to    *)
(* one exchange of a login's code (acceptLocked).                          *)
ExchangedOnce == \A f \in Flow : exchanges[f] <= 1

(* Only a login that is reported as succeeded has stored an account: one   *)
(* that was cancelled, expired or failed while its exchange was under way  *)
(* stores nothing afterwards (complete).                                   *)
StoredMeansSucceeded == \A f \in stored : flow[f].status \in {"succeeded", "gone"}

(* A session has one login at a time until a minute after the time of the  *)
(* login, and a kind of provider, with its one port, has one in any case.  *)
OneLoginAtATime ==
  \A f, g \in Flow :
    f # g /\ Active(f) /\ Active(g) =>
      /\ flow[f].age < 2 /\ flow[g].age < 2 => flow[f].owner \cap flow[g].owner = {}
      /\ \A p \in flow[f].provider, q \in flow[g].provider : KindOf[p] # KindOf[q]

(* A provider deleted during a login gets no account from it.              *)
AccountsHaveProvider == \A f \in accounts : flow[f].provider \subseteq providers

(* The outcome of a login never changes: the goroutines that still refer   *)
(* to it (complete, the watcher, the server) and late requests leave it.   *)
OutcomeIsFinal ==
  [][\A f \in Flow :
       flow[f].status \notin {"none", "pending", "exchanging"} =>
         flow'[f].status \in {flow[f].status, "gone"}]_vars
=============================================================================
