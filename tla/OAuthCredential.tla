--------------------------- MODULE OAuthCredential ---------------------------
(***************************************************************************)
(* One OAuth account of internal/gateway: codexCredential and              *)
(* antigravityCredential hand its credential to concurrent model calls and *)
(* refresh it under the account's lock; model calls report back on the row *)
(* in upstream_keys; administrators edit, reset, delete and log in again.  *)
(* Accounts share no state, so one is enough.  A step runs from one point  *)
(* where the code can wait (lock, database, network) to the next.          *)
(***************************************************************************)
EXTENDS Naturals

CONSTANTS
  Caller,       \* goroutines that make model calls with the account
  Login,        \* the browser login of the account (one at a time: its port)
  MaxRevision,  \* bound on credential_revision
  MaxToken      \* bound on the refresh tokens issued

ASSUME AccountAssumption ==
  /\ Login \notin Caller
  /\ MaxRevision \in Nat \ {0} /\ MaxToken \in Nat \ {0}

VARIABLES
  row,     \* the upstream_keys row, with its provider's enabled flag
  lock,    \* the holder of oauthLocks[id], a channel of capacity 1, if any
  call,    \* what each goroutine is doing
  relogin, \* revision an open browser login started from, or 0
  issued,  \* refresh tokens issued by the authorization server
  used,    \* refresh tokens it has exchanged for another one
  lost,    \* history: those whose replacement never reached the row
  acted    \* history: who has not read the row since an administrator or
           \* a login last changed it

serverVars == <<issued, used, lost>>
vars == <<row, lock, call, relogin, issued, used, lost, acted>>

Reader == Caller \cup {Login}

Kind == {"codex", "antigravity"}
Revision == 1..MaxRevision
Token == 1..MaxToken

(* limited: rate_limited or quota_exhausted with recover_at ahead;          *)
(* recovered: the same, behind; quota: quota_exhausted without recover_at. *)
Status == {"available", "auth_invalid", "quota", "limited", "recovered"}

(* kind: of the account's provider.  due: the access token expires within  *)
(* a minute.  cool: the revision in antigravity_model_states, 0 without a  *)
(* row.  blame is history: the token of the call or refresh that marked    *)
(* the row.  token 0: cleared.                                             *)
Row ==
  [kind : Kind, rev : Revision, token : 0..MaxToken, due : BOOLEAN,
   enabled : BOOLEAN, archived : BOOLEAN, provider : BOOLEAN, status : Status,
   cool : 0..MaxRevision, blame : 0..MaxToken]

PC == {"idle", "waiting", "refreshing", "granted", "refused", "failed", "reread", "using"}

Call ==
  [pc : PC, rejected : 0..MaxRevision, rev : 0..MaxRevision,
   token : 0..MaxToken, got : 0..MaxToken, refreshed : BOOLEAN]

NoCall == [pc |-> "idle", rejected |-> 0, rev |-> 0, token |-> 0, got |-> 0, refreshed |-> FALSE]

(* The phases of a call that run under the lock. *)
Locked == {"refreshing", "granted", "refused", "failed", "reread"}

(* ImportOAuthCredential and ImportAntigravityCredential insert the row. *)
Init ==
  /\ row \in {[kind |-> k, rev |-> 1, token |-> 1, due |-> d, enabled |-> TRUE,
               archived |-> FALSE, provider |-> on, status |-> "available", cool |-> 0,
               blame |-> 0] : k \in Kind, d \in BOOLEAN, on \in BOOLEAN}
  /\ lock = {}
  /\ call = [p \in Caller |-> NoCall]
  /\ relogin = 0
  /\ issued = 1
  /\ used = {}
  /\ lost = {}
  /\ acted = {}

-----------------------------------------------------------------------------
(* The statements of internal/store on the row. *)

KeyAvailable(r) == r.enabled /\ r.status \notin {"auth_invalid", "quota", "limited"}

(* OAuthCredential and AntigravityCredential give the credential of a      *)
(* usable account only.                                                    *)
Readable(r) == ~r.archived /\ r.provider /\ KeyAvailable(r)

(* The WHERE clause of the write-backs: the revision read, a live account. *)
Writable(r, v) == r.rev = v /\ r.enabled /\ ~r.archived /\ r.provider

\* Mutant: the runtime state is kept.
SaveOAuthMarked(r, t) == [r EXCEPT !.token = t, !.due = FALSE, !.rev = r.rev + 1]

(* SaveOAuthCredential: a new Codex credential starts available. *)
SaveOAuthCredential(r, t) ==
  [r EXCEPT !.token = t, !.due = FALSE, !.rev = r.rev + 1, !.status = "available"]

\* Mutant: the cooldowns keep the old revision.
SaveAntigravityDropped(r, t) == [r EXCEPT !.token = t, !.due = FALSE, !.rev = r.rev + 1]

(* SaveAntigravityCredential keeps the runtime state, and moves the model  *)
(* cooldowns of this revision to the next.                                 *)
SaveAntigravityCredential(r, t) ==
  [r EXCEPT !.token = t, !.due = FALSE, !.rev = r.rev + 1,
            !.cool = IF r.cool = r.rev THEN r.rev + 1 ELSE r.cool]

Saved(r, t) ==
  IF r.kind = "codex" THEN SaveOAuthCredential(r, t) ELSE SaveAntigravityCredential(r, t)

(* MarkUpstreamKeyRevision. *)
MarkUpstreamKeyRevision(r, v, status, t) ==
  IF Writable(r, v) THEN [r EXCEPT !.status = status, !.blame = t] ELSE r

(* MarkAntigravityModel. *)
MarkAntigravityModel(r, v) == IF Writable(r, v) THEN [r EXCEPT !.cool = v] ELSE r

-----------------------------------------------------------------------------
(* codexCredential and antigravityCredential. *)

(* A model call of a new request asks for the credential. *)
Enter(p) ==
  /\ call[p].pc = "idle"
  /\ call' = [call EXCEPT ![p].pc = "waiting"]
  /\ UNCHANGED <<row, lock, relogin, serverVars, acted>>

(* The client leaves while the call waits for the lock. *)
GiveUp(p) ==
  /\ call[p].pc = "waiting"
  /\ call' = [call EXCEPT ![p] = NoCall]
  /\ UNCHANGED <<row, lock, relogin, serverVars, acted>>

\* Mutant: the lock is not taken.
LockIgnored(p) == call[p].pc = "waiting"

(* The lock is free for the call. *)
Admitted(p) == call[p].pc = "waiting" /\ lock = {}

(* The account is not usable, or the database fails. *)
ReadFails(p) ==
  /\ Admitted(p)
  /\ call' = [call EXCEPT ![p] = NoCall]
  /\ UNCHANGED <<row, lock, relogin, serverVars, acted>>

(* The stored credential expires soon, or is the one the upstream refused. *)
MustRefresh(p) == row.due \/ row.rev = call[p].rejected

(* The stored credential is good: the lock is given back at once. *)
ReadCurrent(p) ==
  /\ Admitted(p) /\ Readable(row) /\ ~MustRefresh(p)
  /\ call' = [call EXCEPT ![p].pc = "using", ![p].rev = row.rev, ![p].token = row.token,
                          ![p].refreshed = call[p].rejected # 0]
  /\ acted' = acted \ {p}
  /\ UNCHANGED <<row, lock, relogin, serverVars>>

(* The lock is kept over the refresh.  (At the bound on revisions only     *)
(* ReadFails is left.)                                                     *)
ReadStale(p) ==
  /\ Admitted(p) /\ Readable(row) /\ MustRefresh(p)
  /\ row.rev < MaxRevision
  /\ lock' = {p}
  /\ call' = [call EXCEPT ![p].pc = "refreshing", ![p].rev = row.rev, ![p].token = row.token]
  /\ acted' = acted \ {p}
  /\ UNCHANGED <<row, relogin, serverVars>>

(* Refresh: the server exchanges the refresh token for a new one. *)
Granted(p) ==
  /\ call[p].pc = "refreshing" /\ call[p].token \notin used
  /\ issued < MaxToken
  /\ issued' = issued + 1
  /\ used' = used \cup {call[p].token}
  /\ call' = [call EXCEPT ![p].pc = "granted", ![p].got = issued + 1]
  /\ UNCHANGED <<row, lock, relogin, lost, acted>>

(* Refresh: a new access token, and the refresh token stays. *)
Renewed(p) ==
  /\ call[p].pc = "refreshing" /\ call[p].token \notin used
  /\ call' = [call EXCEPT ![p].pc = "granted", ![p].got = call[p].token]
  /\ UNCHANGED <<row, lock, relogin, serverVars, acted>>

(* Refresh: the token was exchanged, but the answer is lost or unusable. *)
GrantLost(p) ==
  /\ call[p].pc = "refreshing" /\ call[p].token \notin used
  /\ issued < MaxToken
  /\ issued' = issued + 1
  /\ used' = used \cup {call[p].token}
  /\ lost' = lost \cup {call[p].token}
  /\ call' = [call EXCEPT ![p].pc = "failed"]
  /\ UNCHANGED <<row, lock, relogin, acted>>

(* Refresh: a permanent RefreshError, invalid_grant and its like.  The     *)
(* server refuses an exchanged token, and may have revoked any other.      *)
Refused(p) ==
  /\ call[p].pc = "refreshing"
  /\ call' = [call EXCEPT ![p].pc = "refused"]
  /\ UNCHANGED <<row, lock, relogin, serverVars, acted>>

(* Refresh: no connection, 5xx, a timeout, or the client has left. *)
Unanswered(p) ==
  /\ call[p].pc = "refreshing"
  /\ call' = [call EXCEPT ![p].pc = "failed"]
  /\ UNCHANGED <<row, lock, relogin, serverVars, acted>>

\* Mutant: the lock is not given back.
ReturnLocked(p) == lock' = lock /\ call' = [call EXCEPT ![p] = NoCall]

(* The call returns with an error and gives the lock back. *)
Return(p) ==
  /\ lock' = {}
  /\ call' = [call EXCEPT ![p] = NoCall]

(* The new credential is written if the row is the one that was read. *)
Save(p) ==
  /\ call[p].pc = "granted" /\ Writable(row, call[p].rev)
  /\ row' = Saved(row, call[p].got)
  /\ call' = [call EXCEPT ![p].pc = "reread"]
  /\ UNCHANGED <<lock, relogin, serverVars, acted>>

(* The row has changed (ErrCredentialChanged), or the database fails. *)
SaveFails(p) ==
  /\ call[p].pc = "granted"
  /\ lost' = lost \cup ({call[p].token} \cap used)
  /\ Return(p)
  /\ UNCHANGED <<row, relogin, issued, used, acted>>

(* codexCredential marks the account after every failure... *)
codexMark(p) ==
  MarkUpstreamKeyRevision(row, call[p].rev,
    IF call[p].pc = "refused" THEN "auth_invalid" ELSE "available", call[p].token)

(* ... antigravityCredential after a permanent one only. *)
antigravityMark(p) ==
  IF call[p].pc = "refused"
  THEN MarkUpstreamKeyRevision(row, call[p].rev, "auth_invalid", call[p].token) ELSE row

RefreshFailed(p) ==
  /\ call[p].pc \in {"refused", "failed"}
  /\ row' \in {IF row.kind = "codex" THEN codexMark(p) ELSE antigravityMark(p),
               row}  \* the mark is not written: the database fails
  /\ Return(p)
  /\ UNCHANGED <<relogin, serverVars, acted>>

(* The row is read again; the revision it has now goes with the call. *)
Reread(p) ==
  /\ call[p].pc = "reread" /\ Readable(row)
  /\ call' = [call EXCEPT ![p].pc = "using", ![p].rev = row.rev, ![p].token = row.token,
                          ![p].got = 0, ![p].refreshed = TRUE]
  /\ lock' = {}
  /\ acted' = acted \ {p}
  /\ UNCHANGED <<row, relogin, serverVars>>

RereadFails(p) ==
  /\ call[p].pc = "reread"
  /\ Return(p)
  /\ UNCHANGED <<row, relogin, serverVars, acted>>

-----------------------------------------------------------------------------
(* What a model call does to the row with the credential it was given. *)

(* A step of a model call that leaves the request. *)
Done(p) ==
  /\ call[p].pc = "using"
  /\ call' = [call EXCEPT ![p] = NoCall]
  /\ UNCHANGED <<lock, relogin, serverVars, acted>>

(* proxyCodex: a completed answer makes the account available again. *)
CodexCompleted(p) ==
  /\ row.kind = "codex"
  /\ row' = MarkUpstreamKeyRevision(row, call[p].rev, "available", call[p].token)
  /\ Done(p)

(* Any other end of the call: no statement on the row. *)
CallEnds(p) == UNCHANGED row /\ Done(p)

(* A 401 before any content is answered by one refresh, for a credential   *)
(* not refreshed yet.                                                      *)
MayResend(p) == ~call[p].refreshed /\ call[p].rejected = 0

Resend(p) ==
  /\ call[p].pc = "using" /\ MayResend(p)
  /\ call' = [call EXCEPT ![p] = [NoCall EXCEPT !.pc = "waiting", !.rejected = call[p].rev]]
  /\ UNCHANGED <<row, lock, relogin, serverVars, acted>>

(* updateCodexKeyAfterError: 401, an exhausted quota with and without a    *)
(* time of recovery, a rate limit.  A 401 within a stream that the client  *)
(* has seen is recorded at once, whether or not the credential is fresh.   *)
CodexRejected(p) ==
  /\ row.kind = "codex"
  /\ \E status \in {"auth_invalid", "quota", "limited"} :
       row' = MarkUpstreamKeyRevision(row, call[p].rev, status, call[p].token)
  /\ Done(p)

(* antigravityFailure: a 401 that is not answered by a refresh, again with *)
(* those within a stream that the client has seen.                         *)
AntigravityRejected(p) ==
  /\ row.kind = "antigravity"
  /\ row' = MarkUpstreamKeyRevision(row, call[p].rev, "auth_invalid", call[p].token)
  /\ Done(p)

(* antigravityFailure: 429 cools one model of the account down. *)
AntigravityLimited(p) ==
  /\ row.kind = "antigravity"
  /\ row' = MarkAntigravityModel(row, call[p].rev)
  /\ Done(p)

-----------------------------------------------------------------------------
(* Administrators.  Every statement counts the revision up. *)

Administer(r) ==
  /\ ~row.archived /\ row.rev < MaxRevision
  /\ row' = [r EXCEPT !.rev = row.rev + 1]
  /\ acted' = Reader
  /\ UNCHANGED <<lock, call, used, lost>>

SetUpstreamKeyEnabled(enabled) ==
  Administer([row EXCEPT !.enabled = enabled]) /\ UNCHANGED <<relogin, issued>>

\* Mutant: the keys of the provider keep their revision.
SetProviderOnly(enabled) ==
  /\ ~row.archived /\ row.rev < MaxRevision
  /\ row' = [row EXCEPT !.provider = enabled]
  /\ acted' = Reader
  /\ UNCHANGED <<lock, call, relogin, serverVars>>

(* SetProviderEnabled. *)
SetProviderEnabled(enabled) ==
  Administer([row EXCEPT !.provider = enabled]) /\ UNCHANGED <<relogin, issued>>

(* UpdateProvider of an OAuth provider: names, headers and endpoints. *)
UpdateProvider == Administer(row) /\ UNCHANGED <<relogin, issued>>

(* ResetUpstreamKeyRuntime does not touch an invalid OAuth account. *)
ResetUpstreamKeyRuntime ==
  /\ row.status # "auth_invalid"
  /\ Administer([row EXCEPT !.status = "available"])
  /\ UNCHANGED <<relogin, issued>>

(* DeleteOAuthCredential archives the account and clears the credential. *)
DeleteOAuthCredential ==
  /\ Administer([row EXCEPT !.enabled = FALSE, !.token = 0, !.archived = TRUE, !.cool = 0])
  /\ UNCHANGED <<relogin, issued>>

(* DeleteProvider does so with all accounts of the provider. *)
DeleteProvider ==
  /\ Administer([row EXCEPT !.enabled = FALSE, !.token = 0, !.archived = TRUE, !.provider = FALSE])
  /\ UNCHANGED <<relogin, issued>>

(* OAuthRelogin remembers the revision of the account; the login follows   *)
(* in the browser.                                                         *)
OAuthRelogin ==
  /\ relogin = 0 /\ ~row.archived
  /\ relogin' = row.rev
  /\ acted' = acted \ {Login}
  /\ UNCHANGED <<row, lock, call, serverVars>>

(* The WHERE clause of ReplaceOAuthCredential. *)
Replaceable == ~row.archived /\ row.rev = relogin

(* ReplaceOAuthCredential and ReplaceAntigravityCredential, with a login   *)
(* of the same identity.                                                   *)
ReplaceCredential ==
  /\ relogin # 0 /\ Replaceable
  /\ issued < MaxToken
  /\ issued' = issued + 1
  /\ relogin' = 0
  /\ Administer([row EXCEPT !.token = issued + 1, !.due = FALSE, !.status = "available", !.cool = 0])

(* The login is cancelled, expires or fails, or the row has changed. *)
LoginEnds ==
  /\ relogin # 0
  /\ relogin' = 0
  /\ UNCHANGED <<row, lock, call, serverVars, acted>>

-----------------------------------------------------------------------------
(* Time, and the process. *)

Pass(r) == row' = r /\ UNCHANGED <<lock, call, relogin, serverVars, acted>>

TokenExpires == ~row.due /\ Pass([row EXCEPT !.due = TRUE])
LimitEnds == row.status = "limited" /\ Pass([row EXCEPT !.status = "recovered"])
CooldownEnds == row.cool # 0 /\ Pass([row EXCEPT !.cool = 0])

(* The process stops and starts again: locks, calls and logins are gone,   *)
(* and with them the answers not written yet.                              *)
Restart ==
  /\ lock' = {}
  /\ call' = [p \in Caller |-> NoCall]
  /\ relogin' = 0
  /\ lost' = lost \cup {t \in used : \E p \in Caller : call[p].pc = "granted" /\ call[p].token = t}
  /\ UNCHANGED <<row, issued, used, acted>>

Read(p) == ReadFails(p) \/ ReadCurrent(p) \/ ReadStale(p)

(* What the lock's holder waits for, and does next. *)
Proceed(p) ==
  \/ Granted(p) \/ Renewed(p) \/ GrantLost(p) \/ Refused(p) \/ Unanswered(p)
  \/ Save(p) \/ SaveFails(p) \/ RefreshFailed(p) \/ Reread(p) \/ RereadFails(p)

Use(p) ==
  \/ CodexCompleted(p) \/ CallEnds(p) \/ Resend(p)
  \/ CodexRejected(p) \/ AntigravityRejected(p) \/ AntigravityLimited(p)

Administrator ==
  \/ \E enabled \in BOOLEAN : SetUpstreamKeyEnabled(enabled) \/ SetProviderEnabled(enabled)
  \/ UpdateProvider \/ ResetUpstreamKeyRuntime
  \/ DeleteOAuthCredential \/ DeleteProvider
  \/ OAuthRelogin \/ ReplaceCredential \/ LoginEnds

Next ==
  \/ \E p \in Caller : Enter(p) \/ GiveUp(p) \/ Read(p) \/ Proceed(p) \/ Use(p)
  \/ Administrator
  \/ TokenExpires \/ LimitEnds \/ CooldownEnds \/ Restart

Spec == Init /\ [][Next]_vars

(* A waiting sender on a Go channel is served in its turn; a refresh ends  *)
(* by its timeout (Codex) or the transport's, and its holder goes on.      *)
FairSpec ==
  /\ Spec
  /\ \A p \in Caller : SF_vars(Read(p))
  /\ WF_vars(\E p \in Caller : Proceed(p))

-----------------------------------------------------------------------------

(* Type invariant: the statements of internal/store keep the row's columns *)
(* in their ranges, at every step of calls, administrators and logins.     *)
TypeOK ==
  /\ row \in Row
  /\ lock \subseteq Caller
  /\ call \in [Caller -> Call]
  /\ relogin \in 0..MaxRevision
  /\ issued \in Token
  /\ used \subseteq Token /\ lost \subseteq Token
  /\ acted \subseteq Reader

(* Refresh tokens rotate, and a server takes a second use of one for       *)
(* theft.  The lock and the read under it (codexCredential,                *)
(* antigravityCredential) keep the gateway from presenting an exchanged    *)
(* token again, unless its replacement never reached the row.              *)
NoTokenReplayed ==
  \A p \in Caller : call[p].pc = "refreshing" => call[p].token \notin used \ lost

(* After a 401 the call is sent again with another revision of the         *)
(* credential, whoever refreshed it (rejectedRevision).                    *)
ResentWithNewCredential ==
  \A p \in Caller :
    call[p].pc = "using" /\ call[p].rejected # 0 => call[p].rev # call[p].rejected

(* "auth_invalid" is about the stored token: a new Codex credential, from  *)
(* a refresh or a login, is never blamed for an older one                  *)
(* (SaveOAuthCredential, ReplaceOAuthCredential).                          *)
InvalidMeansStoredToken ==
  row.kind = "codex" /\ row.status = "auth_invalid" /\ ~row.archived => row.blame = row.token

(* The write-backs of refreshes, of model calls and of logins do not touch *)
(* a row that an administrator or a login has changed after they read it.  *)
NoStaleOverwrite ==
  [][/\ \A p \in Caller : p \in acted /\ call'[p] # call[p] => row' = row
     /\ Login \in acted /\ relogin # 0 /\ relogin' = 0 => row' = row]_vars

(* A refresh keeps the cooldowns of the account's models                   *)
(* (SaveAntigravityCredential): they end in time or by an administrator.   *)
CooldownSurvivesRefresh ==
  [][row.cool = row.rev /\ row'.cool # row'.rev =>
       acted' = Reader \/ (row'.cool = 0 /\ call' = call)]_vars

(* Nobody waits for the account's lock for ever. *)
EveryCallIsServed ==
  \A p \in Caller : call[p].pc = "waiting" ~> call[p].pc # "waiting"
=============================================================================
