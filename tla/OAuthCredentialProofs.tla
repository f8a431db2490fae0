------------------------ MODULE OAuthCredentialProofs ------------------------
(***************************************************************************)
(* OAuthCredential for every set of callers, both kinds of account and     *)
(* every bound: TypeOK, NoTokenReplayed, ResentWithNewCredential,          *)
(* InvalidMeansStoredToken and NoStaleOverwrite, from one inductive        *)
(* invariant, and CooldownSurvivesRefresh, from it and from which accounts *)
(* can have cooldowns at all.                                              *)
(***************************************************************************)
EXTENDS OAuthCredential, TLAPS

(* Only the holder of the lock is in a phase that needs it. *)
LockInv == \A p \in Caller : call[p].pc \in Locked => lock = {p}

(* What a call knows of the row: a revision not ahead of the row's, and    *)
(* behind it (stale) once an administrator has acted; with the revision of *)
(* the row its token; a token presented has no replacement on record, and  *)
(* a replacement has not been exchanged itself.                            *)
CallOK(c, r, i, u, l, stale) ==
  /\ c.rev <= r.rev
  /\ c.rejected <= r.rev
  /\ c.token <= i
  /\ stale => c.rev < r.rev
  /\ c.pc \in Locked => c.rejected <= c.rev
  /\ c.pc = "reread" => c.rev < r.rev
  /\ c.pc \in (Locked \cup {"using"}) /\ c.rev = r.rev => c.token = r.token
  /\ c.pc \in {"refreshing", "granted"} => c.token # 0 /\ c.rev < MaxRevision
  /\ c.pc = "granted" => c.got # 0 /\ c.got <= i /\ c.got \notin u
  /\ c.pc = "refreshing" => c.token \notin u \ l
  /\ c.pc = "using" /\ c.rejected # 0 => c.rev # c.rejected

CallInv == \A p \in Caller : CallOK(call[p], row, issued, used, lost, p \in acted)

(* The same for a login. *)
LoginInv ==
  /\ relogin <= row.rev
  /\ Login \in acted /\ relogin # 0 => relogin < row.rev

(* An exchanged token is in the row only while its replacement is on the   *)
(* way, or after that was lost.                                            *)
TokenInv ==
  /\ \A t \in used : t <= issued
  /\ row.token <= issued
  /\ ~row.archived => row.token # 0
  /\ row.token \in used \ lost =>
       \E p \in Caller : call[p].pc = "granted" /\ call[p].token = row.token

IInv ==
  /\ TypeOK
  /\ LockInv
  /\ CallInv
  /\ LoginInv
  /\ TokenInv
  /\ InvalidMeansStoredToken

-----------------------------------------------------------------------------
(* The statements of the store keep the row a row. *)

LEMMA NoCallOK ==
  ASSUME NEW r \in Row, NEW i \in Nat, NEW u, NEW l, NEW s
  PROVE  NoCall \in Call /\ CallOK(NoCall, r, i, u, l, s)
  <1>1. NoCall \in Call
    BY AccountAssumption DEF NoCall, Call, PC
  <1>2. r.rev \in Nat /\ r.rev >= 1
    BY AccountAssumption DEF Row, Revision
  <1>. QED BY <1>1, <1>2 DEF CallOK, NoCall, Locked

(* A write-back of a mark changes neither revision nor token. *)
LEMMA MarkRow ==
  ASSUME NEW r \in Row, NEW v \in 0..MaxRevision, NEW s \in Status, NEW t \in 0..MaxToken
  PROVE  LET m == MarkUpstreamKeyRevision(r, v, s, t)
         IN  /\ m \in Row /\ m.rev = r.rev /\ m.token = r.token /\ m.archived = r.archived
             /\ m.kind = r.kind
             /\ m # r => v = r.rev /\ m.blame = t
  BY DEF MarkUpstreamKeyRevision, Writable, Row

LEMMA CoolRow ==
  ASSUME NEW r \in Row, NEW v \in 0..MaxRevision
  PROVE  LET m == MarkAntigravityModel(r, v)
         IN  /\ m \in Row /\ m.rev = r.rev /\ m.token = r.token /\ m.archived = r.archived
             /\ m.status = r.status /\ m.blame = r.blame /\ m.kind = r.kind
             /\ m # r => v = r.rev
  BY DEF MarkAntigravityModel, Writable, Row

LEMMA SavedRow ==
  ASSUME NEW r \in Row, NEW t \in 0..MaxToken, r.rev < MaxRevision
  PROVE  /\ Saved(r, t) \in Row
         /\ Saved(r, t).rev = r.rev + 1
         /\ Saved(r, t).token = t
         /\ Saved(r, t).archived = r.archived
         /\ Saved(r, t).kind = r.kind
         /\ r.kind = "codex" => Saved(r, t).status = "available"
  <1>1. r.rev + 1 \in Revision /\ r.rev + 1 \in 0..MaxRevision
    BY AccountAssumption DEF Row, Revision
  <1>. QED BY <1>1 DEF Saved, SaveOAuthCredential, SaveAntigravityCredential, Row, Status

-----------------------------------------------------------------------------
(* What every action of a group preserves. *)

(* A step of one call that exchanges no token, over a row whose revision   *)
(* and token it leaves alone.                                              *)
LEMMA CallStep ==
  ASSUME IInv, NEW p \in Caller, NEW c \in Call,
         call' = [call EXCEPT ![p] = c],
         row' \in Row, row'.rev = row.rev, row'.token = row.token, row'.archived = row.archived,
         InvalidMeansStoredToken',
         UNCHANGED <<relogin, issued, used, lost>>,
         acted' = acted \/ acted' = acted \ {p},
         lock' \subseteq Caller, lock' = lock \/ lock \subseteq {p},
         c.pc \in Locked => lock' = {p},
         CallOK(c, row, issued, used, lost, p \in acted'),
         call[p].pc = "granted" => row.token \notin used \ lost
  PROVE  IInv'
  <1>1. TypeOK'
    BY DEF IInv, TypeOK
  <1>2. \A q \in Caller : q # p => call'[q] = call[q]
    BY DEF IInv, TypeOK
  <1>3. call'[p] = c
    BY DEF IInv, TypeOK
  <1>4. LockInv'
    <2>1. SUFFICES ASSUME NEW q \in Caller, call'[q].pc \in Locked
                   PROVE  lock' = {q}
      BY DEF LockInv, Locked
    <2>2. CASE q = p
      BY <2>1, <2>2, <1>3
    <2>3. CASE q # p
      BY <2>1, <2>3, <1>2 DEF IInv, LockInv
    <2>. QED BY <2>2, <2>3
  <1>5. CallInv'
    <2>1. SUFFICES ASSUME NEW q \in Caller
                   PROVE  CallOK(call'[q], row', issued, used, lost, q \in acted')
      BY DEF CallInv
    <2>2. CASE q = p
      BY <2>2, <1>3 DEF CallOK
    <2>3. CASE q # p
      <3>1. CallOK(call[q], row, issued, used, lost, q \in acted)
        BY DEF IInv, CallInv
      <3>. QED BY <3>1, <2>3, <1>2 DEF CallOK
    <2>. QED BY <2>2, <2>3
  <1>6. LoginInv'
    <2>1. Login # p
      BY AccountAssumption
    <2>. QED BY <2>1 DEF IInv, LoginInv
  <1>7. TokenInv'
    <2>1. ASSUME row.token \in used \ lost
          PROVE  \E q \in Caller : call'[q].pc = "granted" /\ call'[q].token = row.token
      BY <2>1, <1>2 DEF IInv, TokenInv
    <2>. QED BY <2>1 DEF IInv, TokenInv
  <1>. QED BY <1>1, <1>4, <1>5, <1>6, <1>7 DEF IInv

(* A step that counts the revision up and stores a token that was never    *)
(* exchanged, the old one, or none; calls see no other change.             *)
LEMMA BumpStep ==
  ASSUME IInv,
         row' \in Row, row'.rev = row.rev + 1,
         issued' \in Token, issued' >= issued, row'.token <= issued',
         row'.token = row.token \/ row'.token \notin used,
         ~row'.archived => row'.token # 0,
         InvalidMeansStoredToken',
         UNCHANGED <<used, lost, lock, call>>, acted' \subseteq Reader,
         relogin' = relogin \/ relogin' = 0
  PROVE  IInv'
  <1>0. row.rev \in Nat /\ relogin \in Nat /\ issued \in Nat /\ issued' \in Nat
    BY AccountAssumption DEF IInv, TypeOK, Row, Revision, Token
  <1>1. TypeOK'
    BY AccountAssumption DEF IInv, TypeOK
  <1>2. LockInv'
    BY DEF IInv, LockInv
  <1>3. CallInv'
    <2>1. SUFFICES ASSUME NEW q \in Caller
                   PROVE  CallOK(call[q], row', issued', used, lost, q \in acted')
      BY DEF CallInv
    <2>2. CallOK(call[q], row, issued, used, lost, q \in acted)
      BY DEF IInv, CallInv
    <2>3. {call[q].rev, call[q].rejected, call[q].token, call[q].got} \subseteq Nat
      BY AccountAssumption DEF IInv, TypeOK, Call
    <2>. QED BY <1>0, <2>2, <2>3 DEF CallOK
  <1>4. LoginInv'
    BY <1>0 DEF IInv, LoginInv
  <1>5. TokenInv'
    <2>1. \A t \in used : t <= issued'
      BY <1>0, AccountAssumption DEF IInv, TypeOK, TokenInv, Token
    <2>. QED BY <2>1 DEF IInv, TokenInv
  <1>. QED BY <1>1, <1>2, <1>3, <1>4, <1>5 DEF IInv

-----------------------------------------------------------------------------
(* One lemma for each action. *)

(* Ranges that the arithmetic of the steps needs. *)
LEMMA Ranges ==
  ASSUME IInv
  PROVE  /\ row \in Row /\ row.rev \in Nat \ {0} /\ issued \in Nat
         /\ \A p \in Caller :
              /\ call[p] \in Call
              /\ call[p].rev \in 0..MaxRevision /\ call[p].rev \in Nat
              /\ call[p].rejected \in Nat /\ call[p].token \in 0..MaxToken
              /\ call[p].got \in 0..MaxToken
              /\ CallOK(call[p], row, issued, used, lost, p \in acted)
  BY AccountAssumption DEF IInv, TypeOK, CallInv, Row, Revision, Token, Call

LEMMA UnchangedRow ==
  ASSUME IInv, row' = row
  PROVE  /\ row' \in Row /\ row'.rev = row.rev /\ row'.token = row.token
         /\ row'.archived = row.archived /\ InvalidMeansStoredToken'
  BY DEF IInv, TypeOK, InvalidMeansStoredToken

(* A call that ends without a token on its way. *)
LEMMA EndStep ==
  ASSUME IInv, NEW p \in Caller, call' = [call EXCEPT ![p] = NoCall],
         call[p].pc # "granted",
         row' \in Row, row'.rev = row.rev, row'.token = row.token, row'.archived = row.archived,
         InvalidMeansStoredToken',
         lock' = lock \/ (lock = {p} /\ lock' = {}),
         UNCHANGED <<relogin, issued, used, lost, acted>>
  PROVE  IInv'
  <1>1. NoCall \in Call /\ CallOK(NoCall, row, issued, used, lost, p \in acted')
    BY Ranges, NoCallOK
  <1>2. NoCall.pc \notin Locked
    BY DEF NoCall, Locked
  <1>3. lock' \subseteq Caller
    BY DEF IInv, TypeOK
  <1>. QED BY <1>1, <1>2, <1>3, CallStep

LEMMA EnterInv ==
  ASSUME IInv, NEW p \in Caller, Enter(p)
  PROVE  IInv'
  <1> DEFINE c == [call[p] EXCEPT !.pc = "waiting"]
  <1>1. c \in Call /\ c.pc \notin Locked /\ CallOK(c, row, issued, used, lost, p \in acted')
    BY Ranges DEF Enter, Call, PC, Locked, CallOK
  <1>2. call' = [call EXCEPT ![p] = c]
    BY DEF Enter
  <1>3. lock' \subseteq Caller /\ lock' = lock /\ call[p].pc # "granted"
    BY DEF IInv, TypeOK, Enter
  <1>. HIDE DEF c
  <1>. QED BY <1>1, <1>2, <1>3, UnchangedRow, CallStep DEF Enter, serverVars

LEMMA GiveUpInv ==
  ASSUME IInv, NEW p \in Caller, GiveUp(p) \/ ReadFails(p)
  PROVE  IInv'
  BY UnchangedRow, EndStep DEF GiveUp, ReadFails, Admitted, serverVars

LEMMA ReadCurrentInv ==
  ASSUME IInv, NEW p \in Caller, ReadCurrent(p)
  PROVE  IInv'
  <1> DEFINE c == [call[p] EXCEPT !.pc = "using", !.rev = row.rev, !.token = row.token,
                                  !.refreshed = call[p].rejected # 0]
  <1>1. call' = [call EXCEPT ![p] = c]
    BY DEF ReadCurrent
  <1>2. c \in Call
    <2>1. row.rev \in 0..MaxRevision /\ row.token \in 0..MaxToken /\ (call[p].rejected # 0) \in BOOLEAN
      BY AccountAssumption, Ranges DEF Row, Revision
    <2>. QED BY <2>1, Ranges DEF Call, PC
  <1>3. CallOK(c, row, issued, used, lost, p \in acted')
    BY Ranges DEF ReadCurrent, MustRefresh, CallOK, Locked, Call, IInv, TokenInv
  <1>4. c.pc \notin Locked
    BY Ranges DEF Call, Locked
  <1>5. lock' \subseteq Caller /\ lock' = lock /\ call[p].pc # "granted"
    BY DEF IInv, TypeOK, ReadCurrent, Admitted
  <1>. HIDE DEF c
  <1>. QED BY <1>1, <1>2, <1>3, <1>4, <1>5, UnchangedRow, CallStep DEF ReadCurrent, serverVars

LEMMA ReadStaleInv ==
  ASSUME IInv, NEW p \in Caller, ReadStale(p)
  PROVE  IInv'
  <1> DEFINE c == [call[p] EXCEPT !.pc = "refreshing", !.rev = row.rev, !.token = row.token]
  <1>1. call' = [call EXCEPT ![p] = c]
    BY DEF ReadStale
  <1>2. c \in Call
    <2>1. row.rev \in 0..MaxRevision /\ row.token \in 0..MaxToken
      BY AccountAssumption, Ranges DEF Row, Revision
    <2>. QED BY <2>1, Ranges DEF Call, PC
  <1>3. row.token \notin used \ lost /\ row.token # 0
    <2>1. \A q \in Caller : call[q].pc # "granted"
      BY DEF IInv, LockInv, ReadStale, Admitted, Locked
    <2>. QED BY <2>1 DEF IInv, TokenInv, ReadStale, Readable
  <1>4. CallOK(c, row, issued, used, lost, p \in acted')
    BY <1>3, Ranges DEF ReadStale, CallOK, Locked, Call, IInv, TokenInv
  <1>5. lock' \subseteq Caller /\ lock = {} /\ lock' = {p} /\ call[p].pc # "granted"
    BY DEF IInv, TypeOK, ReadStale, Admitted
  <1>. HIDE DEF c
  <1>. QED BY <1>1, <1>2, <1>4, <1>5, UnchangedRow, CallStep DEF ReadStale, serverVars

(* The only call that runs under the lock is the one that holds it. *)
LEMMA Alone ==
  ASSUME IInv, NEW p \in Caller, call[p].pc \in Locked
  PROVE  lock = {p} /\ \A q \in Caller : call[q].pc \in Locked => q = p
  BY DEF IInv, LockInv

LEMMA AnswerInv ==
  ASSUME IInv, NEW p \in Caller, Renewed(p) \/ Refused(p) \/ Unanswered(p)
  PROVE  IInv'
  <1>1. PICK c \in {[call[p] EXCEPT !.pc = "granted", !.got = call[p].token],
                    [call[p] EXCEPT !.pc = "refused"], [call[p] EXCEPT !.pc = "failed"]} :
          call' = [call EXCEPT ![p] = c] /\ (c.pc = "granted" => call[p].token \notin used)
    BY Ranges DEF Renewed, Refused, Unanswered, Call
  <1>2. call[p].pc = "refreshing" /\ call[p].pc \in Locked
    BY DEF Renewed, Refused, Unanswered, Locked
  <1>3. c \in Call
    BY Ranges DEF Call, PC
  <1>4. CallOK(c, row, issued, used, lost, p \in acted')
    <2>1. acted' = acted /\ CallOK(call[p], row, issued, used, lost, p \in acted)
      BY Ranges DEF Renewed, Refused, Unanswered
    <2>2. /\ c.rev = call[p].rev /\ c.rejected = call[p].rejected /\ c.token = call[p].token
          /\ c.pc \in {"granted", "refused", "failed"}
          /\ c.pc = "granted" => c.got = call[p].token
      BY Ranges DEF Call
    <2>. QED BY <1>1, <1>2, <2>1, <2>2 DEF CallOK, Locked
  <1>5. lock = {p} /\ lock' = lock /\ lock' \subseteq Caller
    BY <1>2, Alone DEF Renewed, Refused, Unanswered
  <1>6. UNCHANGED <<row, relogin, issued, used, lost, acted>>
    BY DEF Renewed, Refused, Unanswered, serverVars
  <1>. QED BY <1>1, <1>2, <1>3, <1>4, <1>5, <1>6, UnchangedRow, CallStep

(* An exchange of p's token, its answer received or lost. *)
LEMMA ExchangeInv ==
  ASSUME IInv, NEW p \in Caller, Granted(p) \/ GrantLost(p)
  PROVE  IInv'
  <1> DEFINE t == call[p].token
  <1>1. call[p].pc = "refreshing" /\ t \notin used /\ issued < MaxToken
    BY DEF Granted, GrantLost
  <1>2. issued' = issued + 1 /\ used' = used \cup {t} /\ UNCHANGED <<row, lock, relogin, acted>>
    BY DEF Granted, GrantLost
  <1>3. lost' = lost \/ lost' = lost \cup {t}
    BY DEF Granted, GrantLost
  <1>4. t \in Token /\ t <= issued /\ issued + 1 \in Token
    BY <1>1, Ranges, AccountAssumption DEF CallOK, Token
  <1>5. PICK c : /\ call' = [call EXCEPT ![p] = c]
                 /\ \/ c = [call[p] EXCEPT !.pc = "granted", !.got = issued + 1]
                    \/ c = [call[p] EXCEPT !.pc = "failed"] /\ lost' = lost \cup {t}
    BY DEF Granted, GrantLost
  <1>6. c \in Call /\ c.token = t /\ c.rev = call[p].rev /\ c.rejected = call[p].rejected
        /\ c.pc \in {"granted", "failed"} /\ (c.pc = "granted" => c.got = issued + 1)
    <2>1. call[p] \in Call /\ issued + 1 \in 0..MaxToken
      BY <1>4, Ranges, AccountAssumption DEF Token
    <2>2. CASE c = [call[p] EXCEPT !.pc = "granted", !.got = issued + 1]
      BY <2>1, <2>2 DEF Call, PC
    <2>3. CASE c = [call[p] EXCEPT !.pc = "failed"]
      BY <2>1, <2>3 DEF Call, PC
    <2>. QED BY <2>2, <2>3, <1>5
  <1>7. lock = {p} /\ \A q \in Caller : q # p => call[q].pc \notin Locked
    BY <1>1, Alone DEF Locked
  <1>8. \A q \in Caller : call'[q] = IF q = p THEN c ELSE call[q]
    BY <1>5 DEF IInv, TypeOK
  <1>9. TypeOK'
    BY <1>2, <1>3, <1>4, <1>5, <1>6 DEF IInv, TypeOK
  <1>10. LockInv'
    BY <1>2, <1>7, <1>8 DEF LockInv
  <1>11. CallInv'
    <2>1. SUFFICES ASSUME NEW q \in Caller
                   PROVE  CallOK(call'[q], row, issued + 1, used', lost', q \in acted)
      BY <1>2 DEF CallInv
    <2>2. CallOK(call[q], row, issued, used, lost, q \in acted)
      BY Ranges
    <2>3. CASE q = p
      <3>1. issued + 1 \notin used'
        BY <1>2, <1>4, Ranges DEF IInv, TypeOK, TokenInv, Token
      <3>. QED BY <3>1, <2>2, <2>3, <1>1, <1>4, <1>6, <1>8, Ranges DEF CallOK, Locked, Token
    <2>4. CASE q # p
      BY <2>2, <2>4, <1>7, <1>8, Ranges DEF CallOK, Locked
    <2>. QED BY <2>3, <2>4
  <1>12. LoginInv'
    BY <1>2 DEF IInv, LoginInv
  <1>13. TokenInv'
    <2>1. \A u \in used' : u <= issued'
      BY <1>2, <1>4, Ranges DEF IInv, TypeOK, TokenInv, Token
    <2>2. row.token <= issued'
      BY <1>2, Ranges DEF IInv, TokenInv, Row
    <2>3. ASSUME row.token \in used' \ lost'
          PROVE  \E q \in Caller : call'[q].pc = "granted" /\ call'[q].token = row.token
      <3>1. \A q \in Caller : call[q].pc # "granted"
        BY <1>1, <1>7 DEF Locked
      <3>2. row.token = t /\ lost' = lost
        BY <2>3, <3>1, <1>2, <1>3 DEF IInv, TokenInv
      <3>3. c.pc = "granted"
        BY <2>3, <3>2, <1>5, Ranges DEF Call
      <3>. QED BY <3>2, <3>3, <1>6, <1>8
    <2>. QED BY <2>1, <2>2, <2>3, <1>2 DEF IInv, TokenInv
  <1>14. InvalidMeansStoredToken'
    BY <1>2 DEF IInv, InvalidMeansStoredToken
  <1>. QED BY <1>9, <1>10, <1>11, <1>12, <1>13, <1>14 DEF IInv

(* A new credential replaces the one that was read. *)
LEMMA SaveInv ==
  ASSUME IInv, NEW p \in Caller, Save(p)
  PROVE  IInv'
  <1> DEFINE c == [call[p] EXCEPT !.pc = "reread"]
  <1>1. call[p].pc = "granted" /\ Writable(row, call[p].rev)
    BY DEF Save
  <1>2. row' = Saved(row, call[p].got) /\ call' = [call EXCEPT ![p] = c]
    BY DEF Save
  <1>3. UNCHANGED <<lock, relogin, issued, used, lost, acted>>
    BY DEF Save, serverVars
  <1>4. row.rev = call[p].rev /\ row.rev < MaxRevision /\ ~row.archived
    BY <1>1, Ranges DEF CallOK, Writable
  <1>5. call[p].got # 0 /\ call[p].got \notin used /\ call[p].got <= issued
    BY <1>1, Ranges DEF CallOK
  <1>6. /\ row' \in Row /\ row'.rev = row.rev + 1 /\ row'.token = call[p].got
        /\ row'.archived = row.archived /\ row'.kind = row.kind
        /\ row.kind = "codex" => row'.status = "available"
    BY <1>2, <1>4, Ranges, SavedRow
  <1>7. c \in Call /\ c.pc = "reread" /\ c.rev = call[p].rev /\ c.rejected = call[p].rejected
        /\ c.token = call[p].token
    BY Ranges DEF Call, PC
  <1>. HIDE DEF c
  <1>8. \A q \in Caller : call'[q] = IF q = p THEN c ELSE call[q]
    BY <1>2 DEF IInv, TypeOK
  <1>9. TypeOK'
    BY <1>2, <1>3, <1>6, <1>7 DEF IInv, TypeOK
  <1>10. LockInv'
    BY <1>1, <1>3, <1>8 DEF IInv, LockInv, Locked
  <1>11. CallInv'
    <2>1. SUFFICES ASSUME NEW q \in Caller
                   PROVE  CallOK(call'[q], row', issued, used, lost, q \in acted)
      BY <1>3 DEF CallInv
    <2>2. CallOK(call[q], row, issued, used, lost, q \in acted)
      BY Ranges
    <2>3. CASE q = p
      BY <2>2, <2>3, <1>1, <1>6, <1>7, <1>8, Ranges DEF CallOK, Locked
    <2>4. CASE q # p
      BY <2>2, <2>4, <1>6, <1>8, Ranges DEF CallOK
    <2>. QED BY <2>3, <2>4
  <1>12. LoginInv'
    <2>1. relogin \in Nat
      BY AccountAssumption DEF IInv, TypeOK
    <2>. QED BY <2>1, <1>3, <1>6, Ranges DEF IInv, LoginInv
  <1>13. TokenInv'
    BY <1>3, <1>5, <1>6 DEF IInv, TokenInv
  <1>14. InvalidMeansStoredToken'
    BY <1>6 DEF InvalidMeansStoredToken
  <1>. QED BY <1>9, <1>10, <1>11, <1>12, <1>13, <1>14 DEF IInv

(* The replacement is dropped: the token it replaces is lost. *)
LEMMA SaveFailsInv ==
  ASSUME IInv, NEW p \in Caller, SaveFails(p)
  PROVE  IInv'
  <1> DEFINE t == call[p].token
  <1>1. call[p].pc = "granted" /\ lock' = {} /\ call' = [call EXCEPT ![p] = NoCall]
    BY DEF SaveFails, Return
  <1>2. lost' = lost \cup ({t} \cap used) /\ UNCHANGED <<row, relogin, issued, used, acted>>
    BY DEF SaveFails
  <1>3. \A q \in Caller : q # p => call[q].pc \notin Locked
    BY <1>1, Alone DEF Locked
  <1>4. \A q \in Caller : call'[q] = IF q = p THEN NoCall ELSE call[q]
    BY <1>1 DEF IInv, TypeOK
  <1>5. NoCall \in Call /\ NoCall.pc = "idle"
    BY Ranges, NoCallOK DEF NoCall
  <1>6. TypeOK'
    BY <1>1, <1>2, <1>5 DEF IInv, TypeOK
  <1>7. LockInv'
    BY <1>3, <1>4, <1>5 DEF LockInv, Locked
  <1>8. CallInv'
    <2>1. SUFFICES ASSUME NEW q \in Caller
                   PROVE  CallOK(call'[q], row, issued, used, lost', q \in acted)
      BY <1>2 DEF CallInv
    <2>2. CASE q = p
      BY <2>2, <1>4, Ranges, NoCallOK
    <2>3. CASE q # p
      <3>1. CallOK(call[q], row, issued, used, lost, q \in acted)
        BY Ranges
      <3>. QED BY <2>3, <3>1, <1>3, <1>4 DEF CallOK, Locked
    <2>. QED BY <2>2, <2>3
  <1>9. LoginInv'
    BY <1>2 DEF IInv, LoginInv
  <1>10. TokenInv'
    <2>1. row.token \notin used \ lost'
      BY <1>1, <1>2, <1>3 DEF IInv, TokenInv, Locked
    <2>. QED BY <2>1, <1>2 DEF IInv, TokenInv
  <1>11. InvalidMeansStoredToken'
    BY <1>2 DEF IInv, InvalidMeansStoredToken
  <1>. QED BY <1>6, <1>7, <1>8, <1>9, <1>10, <1>11 DEF IInv

(* A mark by a call that has read the row blames the token in the row. *)
LEMMA MarkStep ==
  ASSUME IInv, NEW p \in Caller, NEW s \in Status,
         call[p].pc \in {"using", "refused", "failed"},
         row' = MarkUpstreamKeyRevision(row, call[p].rev, s, call[p].token)
  PROVE  /\ row' \in Row /\ row'.rev = row.rev /\ row'.token = row.token
         /\ row'.archived = row.archived /\ InvalidMeansStoredToken'
         /\ row' # row => call[p].rev = row.rev
  <1>1. /\ row' \in Row /\ row'.rev = row.rev /\ row'.token = row.token
        /\ row'.archived = row.archived
        /\ row' # row => call[p].rev = row.rev /\ row'.blame = call[p].token
    BY Ranges, MarkRow
  <1>2. call[p].rev = row.rev => call[p].token = row.token
    BY Ranges DEF CallOK, Locked
  <1>3. InvalidMeansStoredToken'
    BY <1>1, <1>2 DEF IInv, InvalidMeansStoredToken
  <1>. QED BY <1>1, <1>3

LEMMA RefreshFailedRow ==
  ASSUME IInv, NEW p \in Caller, RefreshFailed(p)
  PROVE  /\ row' \in Row /\ row'.rev = row.rev /\ row'.token = row.token
         /\ row'.archived = row.archived /\ InvalidMeansStoredToken'
         /\ row' # row => call[p].rev = row.rev
  <1>1. CASE row' = row
    BY <1>1, UnchangedRow
  <1>2. CASE row' = codexMark(p)
    <2>1. PICK s \in Status : row' = MarkUpstreamKeyRevision(row, call[p].rev, s, call[p].token)
      BY <1>2 DEF codexMark, Status
    <2>. QED BY <2>1, MarkStep DEF RefreshFailed
  <1>3. CASE row' = antigravityMark(p) /\ row' # row
    <2>1. "auth_invalid" \in Status
          /\ row' = MarkUpstreamKeyRevision(row, call[p].rev, "auth_invalid", call[p].token)
      BY <1>3 DEF antigravityMark, Status
    <2>. QED BY <2>1, MarkStep DEF RefreshFailed
  <1>. QED BY <1>1, <1>2, <1>3 DEF RefreshFailed

LEMMA ReturnInv ==
  ASSUME IInv, NEW p \in Caller, RefreshFailed(p) \/ RereadFails(p)
  PROVE  IInv'
  <1>1. call[p].pc \in Locked /\ call[p].pc # "granted"
    BY DEF RefreshFailed, RereadFails, Locked
  <1>2. lock = {p}
    BY <1>1, Alone
  <1>3. /\ lock' = {} /\ call' = [call EXCEPT ![p] = NoCall]
        /\ UNCHANGED <<relogin, issued, used, lost, acted>>
    BY DEF RefreshFailed, RereadFails, Return, serverVars
  <1>4. /\ row' \in Row /\ row'.rev = row.rev /\ row'.token = row.token
        /\ row'.archived = row.archived /\ InvalidMeansStoredToken'
    <2>1. CASE RefreshFailed(p)
      BY <2>1, RefreshFailedRow
    <2>2. CASE RereadFails(p)
      BY <2>2, UnchangedRow DEF RereadFails
    <2>. QED BY <2>1, <2>2
  <1>. QED BY <1>1, <1>2, <1>3, <1>4, EndStep

LEMMA RereadInv ==
  ASSUME IInv, NEW p \in Caller, Reread(p)
  PROVE  IInv'
  <1> DEFINE c == [call[p] EXCEPT !.pc = "using", !.rev = row.rev, !.token = row.token,
                                  !.got = 0, !.refreshed = TRUE]
  <1>1. call' = [call EXCEPT ![p] = c] /\ call[p].pc = "reread" /\ lock' = {}
    BY DEF Reread
  <1>2. c \in Call
    <2>1. row.rev \in 0..MaxRevision /\ row.token \in 0..MaxToken /\ 0 \in 0..MaxToken
      BY AccountAssumption, Ranges DEF Row, Revision
    <2>. QED BY <2>1, Ranges DEF Call, PC
  <1>3. call[p].rejected <= call[p].rev /\ call[p].rev < row.rev
    BY <1>1, Ranges DEF CallOK, Locked
  <1>4. CallOK(c, row, issued, used, lost, p \in acted')
    BY <1>3, Ranges DEF Reread, CallOK, Locked, Call, IInv, TokenInv
  <1>5. c.pc \notin Locked
    BY Ranges DEF Call, Locked
  <1>6. lock = {p}
    BY <1>1, Alone DEF Locked
  <1>. HIDE DEF c
  <1>. QED BY <1>1, <1>2, <1>4, <1>5, <1>6, UnchangedRow, CallStep DEF Reread, serverVars

LEMMA ResendInv ==
  ASSUME IInv, NEW p \in Caller, Resend(p)
  PROVE  IInv'
  <1> DEFINE c == [NoCall EXCEPT !.pc = "waiting", !.rejected = call[p].rev]
  <1>1. call' = [call EXCEPT ![p] = c] /\ call[p].pc = "using"
    BY DEF Resend
  <1>2. c \in Call
    <2>1. NoCall \in Call /\ call[p].rev \in 0..MaxRevision
      BY Ranges, NoCallOK
    <2>. QED BY <2>1 DEF Call, PC
  <1>3. CallOK(c, row, issued, used, lost, p \in acted') /\ c.pc \notin Locked
    BY Ranges DEF CallOK, Locked, NoCall
  <1>4. lock' = lock /\ lock' \subseteq Caller
    BY DEF IInv, TypeOK, Resend
  <1>. HIDE DEF c
  <1>. QED BY <1>1, <1>2, <1>3, <1>4, UnchangedRow, CallStep DEF Resend, serverVars

(* What the reports of model calls leave of the row. *)
LEMMA ReportRow ==
  ASSUME IInv, NEW p \in Caller,
         CodexCompleted(p) \/ CallEnds(p) \/ CodexRejected(p) \/ AntigravityRejected(p)
           \/ AntigravityLimited(p)
  PROVE  /\ row' \in Row /\ row'.rev = row.rev /\ row'.token = row.token
         /\ row'.archived = row.archived /\ InvalidMeansStoredToken'
         /\ row' # row => call[p].rev = row.rev
  <1>1. CASE CallEnds(p)
    BY <1>1, UnchangedRow DEF CallEnds
  <1>2. CASE CodexCompleted(p) \/ CodexRejected(p) \/ AntigravityRejected(p)
    <2>1. PICK s \in Status : row' = MarkUpstreamKeyRevision(row, call[p].rev, s, call[p].token)
      BY <1>2 DEF CodexCompleted, CodexRejected, AntigravityRejected, Status
    <2>. QED BY <2>1, <1>2, MarkStep DEF CodexCompleted, CodexRejected, AntigravityRejected, Done
  <1>3. CASE AntigravityLimited(p)
    BY <1>3, Ranges, CoolRow DEF AntigravityLimited, IInv, InvalidMeansStoredToken
  <1>. QED BY <1>1, <1>2, <1>3

LEMMA UseInv ==
  ASSUME IInv, NEW p \in Caller, Use(p)
  PROVE  IInv'
  <1>1. CASE Resend(p)
    BY <1>1, ResendInv
  <1>2. CASE ~Resend(p)
    <2>1. CodexCompleted(p) \/ CallEnds(p) \/ CodexRejected(p) \/ AntigravityRejected(p)
            \/ AntigravityLimited(p)
      BY <1>2 DEF Use
    <2>2. Done(p)
      BY <2>1 DEF CodexCompleted, CallEnds, CodexRejected, AntigravityRejected, AntigravityLimited
    <2>. QED BY <2>1, <2>2, ReportRow, EndStep DEF Done, serverVars
  <1>. QED BY <1>1, <1>2

(* Administrators: the revision goes up, and everybody's reading is old. *)
LEMMA AdministerInv ==
  ASSUME IInv, NEW r \in Row, Administer(r), r.kind = row.kind,
         r.token = row.token \/ r.token \notin used,
         issued' \in Token, issued' >= issued, r.token <= issued',
         ~r.archived => r.token # 0,
         r.status = "auth_invalid" /\ ~r.archived =>
           row.status = "auth_invalid" /\ ~row.archived /\ r.token = row.token /\ r.blame = row.blame,
         relogin' = relogin \/ relogin' = 0
  PROVE  IInv'
  <1>1. row' = [r EXCEPT !.rev = row.rev + 1] /\ row.rev < MaxRevision /\ acted' = Reader
        /\ UNCHANGED <<lock, call, used, lost>>
    BY DEF Administer
  <1>2. row.rev + 1 \in Revision
    BY <1>1, Ranges, AccountAssumption DEF Revision
  <1>3. /\ row' \in Row /\ row'.rev = row.rev + 1 /\ row'.token = r.token
        /\ row'.archived = r.archived /\ row'.status = r.status /\ row'.blame = r.blame
        /\ row'.kind = r.kind
    BY <1>1, <1>2 DEF Row
  <1>4. InvalidMeansStoredToken'
    BY <1>3 DEF IInv, InvalidMeansStoredToken
  <1>. QED BY <1>1, <1>3, <1>4, BumpStep

LEMMA EditInv ==
  ASSUME IInv, NEW enabled \in BOOLEAN,
         \/ SetUpstreamKeyEnabled(enabled) \/ SetProviderEnabled(enabled)
         \/ UpdateProvider \/ ResetUpstreamKeyRuntime \/ DeleteOAuthCredential \/ DeleteProvider
  PROVE  IInv'
  <1>1. PICK r \in {[row EXCEPT !.enabled = enabled], [row EXCEPT !.provider = enabled], row,
                    [row EXCEPT !.status = "available"],
                    [row EXCEPT !.enabled = FALSE, !.token = 0, !.archived = TRUE, !.cool = 0],
                    [row EXCEPT !.enabled = FALSE, !.token = 0, !.archived = TRUE, !.provider = FALSE]} :
          Administer(r)
    BY DEF SetUpstreamKeyEnabled, SetProviderEnabled, UpdateProvider, ResetUpstreamKeyRuntime,
           DeleteOAuthCredential, DeleteProvider
  <1>2. UNCHANGED <<relogin, issued>>
    BY DEF SetUpstreamKeyEnabled, SetProviderEnabled, UpdateProvider, ResetUpstreamKeyRuntime,
           DeleteOAuthCredential, DeleteProvider
  <1>3. r \in Row
    <2>1. 0 \in 0..MaxToken /\ 0 \in 0..MaxRevision /\ "available" \in Status
      BY AccountAssumption DEF Status
    <2>. QED BY <2>1, <1>1, Ranges DEF Row
  <1>4. /\ \/ r.token = row.token /\ r.archived = row.archived
           \/ r.token = 0 /\ r.archived
        /\ r.status = row.status \/ r.status = "available"
        /\ r.blame = row.blame /\ r.kind = row.kind
    BY <1>1, Ranges DEF Row
  <1>5. 0 \notin used /\ issued \in Token /\ 0 <= issued /\ issued >= issued /\ ~row.archived
    BY <1>1, AccountAssumption DEF IInv, TypeOK, Token, Administer
  <1>. QED BY <1>1, <1>2, <1>3, <1>4, <1>5, AdministerInv DEF IInv, TokenInv

LEMMA ReplaceInv ==
  ASSUME IInv, ReplaceCredential
  PROVE  IInv'
  <1> DEFINE r == [row EXCEPT !.token = issued + 1, !.due = FALSE, !.status = "available", !.cool = 0]
  <1>1. Administer(r) /\ issued < MaxToken /\ issued' = issued + 1 /\ relogin' = 0
    BY DEF ReplaceCredential
  <1>2. issued + 1 \in Token /\ issued + 1 \in 0..MaxToken /\ 0 \in 0..MaxRevision
    BY <1>1, Ranges, AccountAssumption DEF Token
  <1>3. issued + 1 \notin used /\ issued + 1 >= issued /\ issued + 1 <= issued + 1 /\ issued + 1 # 0
    BY Ranges DEF IInv, TokenInv
  <1>4. r \in Row /\ r.token = issued + 1 /\ r.status = "available" /\ r.kind = row.kind
    BY <1>2, Ranges DEF Row, Status
  <1>. HIDE DEF r
  <1>. QED BY <1>1, <1>2, <1>3, <1>4, AdministerInv

(* Steps that leave the row, the calls and the tokens alone. *)
LEMMA LoginStepInv ==
  ASSUME IInv, OAuthRelogin \/ LoginEnds
  PROVE  IInv'
  <1>1. UNCHANGED <<row, lock, call, issued, used, lost>>
    BY DEF OAuthRelogin, LoginEnds, serverVars
  <1>2. acted' \subseteq acted /\ \A p \in Caller : p \in acted' <=> p \in acted
    BY AccountAssumption DEF OAuthRelogin, LoginEnds
  <1>3. relogin' \in 0..MaxRevision /\ LoginInv'
    BY Ranges, AccountAssumption, <1>1 DEF OAuthRelogin, LoginEnds, LoginInv, Row, Revision
  <1>4. TypeOK' /\ LockInv' /\ TokenInv' /\ InvalidMeansStoredToken'
    BY <1>1, <1>2, <1>3 DEF IInv, TypeOK, LockInv, TokenInv, InvalidMeansStoredToken
  <1>5. CallInv'
    BY <1>1, <1>2 DEF IInv, CallInv, CallOK
  <1>. QED BY <1>3, <1>4, <1>5 DEF IInv

LEMMA TimeInv ==
  ASSUME IInv, TokenExpires \/ LimitEnds \/ CooldownEnds
  PROVE  IInv'
  <1>1. UNCHANGED <<lock, call, relogin, issued, used, lost, acted>>
    BY DEF TokenExpires, LimitEnds, CooldownEnds, Pass, serverVars
  <1>2. /\ row' \in Row /\ row'.rev = row.rev /\ row'.token = row.token
        /\ row'.archived = row.archived /\ row'.blame = row.blame /\ row'.kind = row.kind
        /\ row'.status = row.status \/ row'.status = "recovered"
    <2>1. 0 \in 0..MaxRevision /\ "recovered" \in Status
      BY AccountAssumption DEF Status
    <2>. QED BY <2>1, Ranges DEF TokenExpires, LimitEnds, CooldownEnds, Pass, Row
  <1>3. TypeOK' /\ LockInv' /\ TokenInv' /\ LoginInv' /\ InvalidMeansStoredToken'
    BY <1>1, <1>2 DEF IInv, TypeOK, LockInv, TokenInv, LoginInv, InvalidMeansStoredToken
  <1>4. CallInv'
    BY <1>1, <1>2 DEF IInv, CallInv, CallOK
  <1>. QED BY <1>3, <1>4 DEF IInv

(* Answers that were not written are lost with the process. *)
LEMMA RestartInv ==
  ASSUME IInv, Restart
  PROVE  IInv'
  <1>1. /\ lock' = {} /\ call' = [p \in Caller |-> NoCall] /\ relogin' = 0
        /\ UNCHANGED <<row, issued, used, acted>>
    BY DEF Restart
  <1>2. lost' = lost \cup {t \in used : \E p \in Caller : call[p].pc = "granted" /\ call[p].token = t}
    BY DEF Restart
  <1>3. NoCall \in Call /\ NoCall.pc = "idle"
    BY Ranges, NoCallOK DEF NoCall
  <1>4. TypeOK'
    BY <1>1, <1>2, <1>3, AccountAssumption DEF IInv, TypeOK
  <1>5. LockInv'
    BY <1>1, <1>3 DEF LockInv, Locked
  <1>6. CallInv'
    BY <1>1, Ranges, NoCallOK DEF CallInv
  <1>7. LoginInv'
    BY <1>1, Ranges DEF LoginInv
  <1>8. TokenInv'
    <2>1. row.token \notin used \ lost'
      BY <1>2 DEF IInv, TokenInv
    <2>. QED BY <2>1, <1>1 DEF IInv, TokenInv
  <1>9. InvalidMeansStoredToken'
    BY <1>1 DEF IInv, InvalidMeansStoredToken
  <1>. QED BY <1>4, <1>5, <1>6, <1>7, <1>8, <1>9 DEF IInv

-----------------------------------------------------------------------------
(* The theorems. *)

LEMMA InitInv == Init => IInv
  <1>1. SUFFICES ASSUME Init PROVE IInv
    OBVIOUS
  <1>2. /\ row \in Row /\ row.rev = 1 /\ row.token = 1 /\ ~row.archived
        /\ row.status = "available"
    <2>1. 1 \in Revision /\ 1 \in 0..MaxToken /\ 0 \in 0..MaxToken /\ 0 \in 0..MaxRevision
      BY AccountAssumption DEF Revision
    <2>2. PICK k \in Kind, d \in BOOLEAN, on \in BOOLEAN :
            row = [kind |-> k, rev |-> 1, token |-> 1, due |-> d, enabled |-> TRUE,
                   archived |-> FALSE, provider |-> on, status |-> "available", cool |-> 0,
                   blame |-> 0]
      BY <1>1 DEF Init
    <2>. QED BY <2>1, <2>2 DEF Row, Status
  <1>3. NoCall \in Call /\ NoCall.pc = "idle"
    BY <1>2, NoCallOK DEF NoCall
  <1>4. TypeOK
    BY <1>1, <1>2, <1>3, AccountAssumption DEF Init, TypeOK, Token
  <1>5. LockInv
    BY <1>1, <1>3 DEF Init, LockInv, Locked
  <1>6. CallInv
    BY <1>1, <1>2, NoCallOK DEF Init, CallInv
  <1>7. LoginInv /\ TokenInv /\ InvalidMeansStoredToken
    BY <1>1, <1>2 DEF Init, LoginInv, TokenInv, InvalidMeansStoredToken
  <1>. QED BY <1>4, <1>5, <1>6, <1>7 DEF IInv

LEMMA StepInv == IInv /\ [Next]_vars => IInv'
  <1>1. SUFFICES ASSUME IInv, [Next]_vars PROVE IInv'
    OBVIOUS
  <1>2. ASSUME NEW p \in Caller, Enter(p) \/ GiveUp(p) \/ Read(p) \/ Proceed(p) \/ Use(p)
        PROVE  IInv'
    <2>1. CASE Enter(p) \/ GiveUp(p)
      BY <1>1, <2>1, EnterInv, GiveUpInv
    <2>2. CASE Read(p)
      BY <1>1, <2>2, GiveUpInv, ReadCurrentInv, ReadStaleInv DEF Read
    <2>3. CASE Proceed(p)
      BY <1>1, <2>3, ExchangeInv, AnswerInv, SaveInv, SaveFailsInv, ReturnInv, RereadInv DEF Proceed
    <2>4. CASE Use(p)
      BY <1>1, <2>4, UseInv
    <2>. QED BY <1>2, <2>1, <2>2, <2>3, <2>4
  <1>3. CASE Administrator
    BY <1>1, <1>3, EditInv, ReplaceInv, LoginStepInv DEF Administrator
  <1>4. CASE TokenExpires \/ LimitEnds \/ CooldownEnds \/ Restart
    BY <1>1, <1>4, TimeInv, RestartInv
  <1>5. CASE UNCHANGED vars
    BY <1>1, <1>5 DEF vars, IInv, TypeOK, LockInv, CallInv, CallOK, LoginInv, TokenInv,
                      InvalidMeansStoredToken
  <1>. QED BY <1>1, <1>2, <1>3, <1>4, <1>5 DEF Next

LEMMA AccountInv == Spec => []IInv
  BY InitInv, StepInv, PTL DEF Spec

(* The row, the lock and the calls keep their types. *)
THEOREM AccountTypes == Spec => []TypeOK
  BY AccountInv, PTL DEF IInv

(* codexCredential and antigravityCredential never present a refresh token *)
(* that was exchanged, unless its replacement was lost.                    *)
THEOREM TokensNotReplayed == Spec => []NoTokenReplayed
  <1>1. IInv => NoTokenReplayed
    BY DEF IInv, CallInv, CallOK, NoTokenReplayed
  <1>. QED BY <1>1, AccountInv, PTL

(* After a 401 the resent call carries another revision. *)
THEOREM ResendsChange == Spec => []ResentWithNewCredential
  <1>1. IInv => ResentWithNewCredential
    BY DEF IInv, CallInv, CallOK, ResentWithNewCredential
  <1>. QED BY <1>1, AccountInv, PTL

(* A Codex account marked auth_invalid still has the token that failed. *)
THEOREM BlameIsCurrent == Spec => []InvalidMeansStoredToken
  BY AccountInv, PTL DEF IInv

(* Only a call that has read the current revision writes to the row.       *)
LEMMA WriterIsCurrent ==
  ASSUME IInv, Next, NEW p \in Caller, p \in acted, call'[p] # call[p]
  PROVE  row' = row
  <1>1. call[p].rev < row.rev /\ call[p].rev \in Nat /\ row.rev \in Nat
    BY Ranges DEF CallOK
  <1>2. ASSUME NEW q \in Caller, Enter(q) \/ GiveUp(q) \/ Read(q) \/ Proceed(q) \/ Use(q), row' # row
        PROVE  FALSE
    <2>1. Save(q) \/ RefreshFailed(q) \/ (Use(q) /\ ~Resend(q))
      BY <1>2 DEF Enter, GiveUp, Read, ReadFails, ReadCurrent, ReadStale, Proceed, Granted, Renewed,
                  GrantLost, Refused, Unanswered, SaveFails, Reread, RereadFails, Resend
    <2>2. call[q].rev = row.rev
      BY <1>2, <2>1, RefreshFailedRow, ReportRow DEF Save, Writable, Use
    <2>3. \E c : call' = [call EXCEPT ![q] = c]
      BY <2>1 DEF Save, RefreshFailed, Return, Use, CodexCompleted, CallEnds, CodexRejected,
                  AntigravityRejected, AntigravityLimited, Done
    <2>4. q = p
      BY <2>3 DEF IInv, TypeOK
    <2>. QED BY <1>1, <2>2, <2>4
  <1>3. CASE Administrator
    BY <1>3 DEF Administrator, SetUpstreamKeyEnabled, SetProviderEnabled, UpdateProvider,
                ResetUpstreamKeyRuntime, DeleteOAuthCredential, DeleteProvider, Administer, OAuthRelogin,
                ReplaceCredential, LoginEnds
  <1>4. CASE TokenExpires \/ LimitEnds \/ CooldownEnds \/ Restart
    BY <1>4 DEF TokenExpires, LimitEnds, CooldownEnds, Pass, Restart
  <1>. QED BY <1>2, <1>3, <1>4 DEF Next

LEMMA LoginIsCurrent ==
  ASSUME IInv, Next, Login \in acted, relogin # 0, relogin' = 0
  PROVE  row' = row
  <1>1. relogin < row.rev /\ relogin \in Nat /\ row.rev \in Nat
    BY Ranges, AccountAssumption DEF IInv, TypeOK, LoginInv
  <1>2. ASSUME NEW q \in Caller PROVE ~(Enter(q) \/ GiveUp(q) \/ Read(q) \/ Proceed(q) \/ Use(q))
    BY DEF Enter, GiveUp, Read, ReadFails, ReadCurrent, ReadStale, Proceed, Granted, Renewed,
           GrantLost, Refused, Unanswered, Save, SaveFails, RefreshFailed, Reread, RereadFails, Use,
           CodexCompleted, CallEnds, CodexRejected, AntigravityRejected, AntigravityLimited, Done,
           Resend
  <1>3. CASE Administrator
    <2>1. ~ReplaceCredential
      BY <1>1 DEF ReplaceCredential, Replaceable
    <2>2. relogin' # relogin
      OBVIOUS
    <2>3. LoginEnds
      BY <1>3, <2>1, <2>2 DEF Administrator, SetUpstreamKeyEnabled, SetProviderEnabled,
           UpdateProvider, ResetUpstreamKeyRuntime, DeleteOAuthCredential, DeleteProvider, OAuthRelogin
    <2>. QED BY <2>3 DEF LoginEnds
  <1>4. CASE TokenExpires \/ LimitEnds \/ CooldownEnds \/ Restart
    BY <1>4 DEF TokenExpires, LimitEnds, CooldownEnds, Pass, Restart
  <1>. QED BY <1>2, <1>3, <1>4 DEF Next

(* No write-back of a refresh, a model call or a login overwrites what an  *)
(* administrator did after it read the row.                                *)
THEOREM WritesAreCurrent == Spec => NoStaleOverwrite
  <1>1. IInv /\ [Next]_vars =>
          [/\ \A p \in Caller : p \in acted /\ call'[p] # call[p] => row' = row
           /\ Login \in acted /\ relogin # 0 /\ relogin' = 0 => row' = row]_vars
    BY WriterIsCurrent, LoginIsCurrent
  <1>. QED BY <1>1, AccountInv, PTL DEF Spec, NoStaleOverwrite
-----------------------------------------------------------------------------
(* Model cooldowns. *)

(* Only Antigravity writes them: SaveOAuthCredential, which does not carry *)
(* them over, finds none.                                                  *)
CoolInv == row.kind = "codex" => row.cool = 0

(* A step ends the cooldowns of the current revision only by time or by an *)
(* administrator or a login.                                               *)
CoolKept ==
  row.cool = row.rev /\ row'.cool # row'.rev =>
    acted' = Reader \/ (row'.cool = 0 /\ call' = call)

LEMMA CoolValues ==
  ASSUME NEW r \in Row, NEW v \in 0..MaxRevision, NEW s \in Status, NEW t \in 0..MaxToken
  PROVE  /\ LET m == MarkUpstreamKeyRevision(r, v, s, t)
            IN  m.cool = r.cool /\ m.rev = r.rev /\ m.kind = r.kind
         /\ LET m == MarkAntigravityModel(r, v)
            IN  m.cool \in {r.cool, r.rev} /\ m.rev = r.rev /\ m.kind = r.kind
         /\ r.kind = "antigravity" /\ r.cool = r.rev => Saved(r, t).cool = Saved(r, t).rev
         /\ r.kind = "codex" => Saved(r, t).cool = r.cool
         /\ Saved(r, t).kind = r.kind
  BY DEF MarkUpstreamKeyRevision, MarkAntigravityModel, Writable, Row, Saved,
         SaveOAuthCredential, SaveAntigravityCredential, Kind

(* A row that keeps its cooldowns, or has them cleared or renewed. *)
LEMMA CoolFrame ==
  ASSUME IInv, CoolInv, row'.kind = row.kind,
         \/ row'.cool = row.cool /\ (row'.rev = row.rev \/ row.kind = "codex" \/ acted' = Reader)
         \/ row'.cool = row'.rev /\ row.kind # "codex"
         \/ row'.cool = 0 /\ (acted' = Reader \/ call' = call)
  PROVE  CoolInv' /\ CoolKept
  <1>1. row.rev # 0
    BY Ranges
  <1>. QED BY <1>1 DEF CoolInv, CoolKept

LEMMA CoolCall ==
  ASSUME IInv, CoolInv, NEW p \in Caller,
         Enter(p) \/ GiveUp(p) \/ Read(p) \/ Proceed(p) \/ Use(p)
  PROVE  CoolInv' /\ CoolKept
  <1>1. /\ row \in Row /\ call[p].rev \in 0..MaxRevision
        /\ call[p].token \in 0..MaxToken /\ call[p].got \in 0..MaxToken
        /\ {"available", "auth_invalid", "quota", "limited"} \subseteq Status
    BY Ranges DEF Status
  <1>2. CASE row' = row
    BY <1>2, CoolFrame
  <1>3. CASE Save(p)
    BY <1>1, <1>3, CoolValues, CoolFrame DEF Save, CoolInv, CoolKept, Row, Kind
  <1>4. CASE AntigravityLimited(p)
    BY <1>1, <1>4, CoolValues, CoolFrame DEF AntigravityLimited
  <1>5. CASE row' # row /\ ~Save(p) /\ ~AntigravityLimited(p)
    <2>1. PICK s \in Status : row' = MarkUpstreamKeyRevision(row, call[p].rev, s, call[p].token)
      BY <1>1, <1>5 DEF Enter, GiveUp, Read, ReadFails, ReadCurrent, ReadStale, Proceed, Granted,
           Renewed, GrantLost, Refused, Unanswered, SaveFails, RefreshFailed, codexMark,
           antigravityMark, Reread, RereadFails, Use, CodexCompleted, CallEnds, Resend,
           CodexRejected, AntigravityRejected
    <2>. QED BY <1>1, <2>1, CoolValues, CoolFrame
  <1>. QED BY <1>2, <1>3, <1>4, <1>5

LEMMA CoolStep ==
  ASSUME IInv, CoolInv, Next
  PROVE  CoolInv' /\ CoolKept
  <1>1. row \in Row
    BY Ranges
  <1>2. CASE row' = row
    BY <1>2, CoolFrame
  <1>3. CASE Administrator /\ row' # row
    <2>1. PICK r \in {row,
             [row EXCEPT !.enabled = TRUE], [row EXCEPT !.enabled = FALSE],
             [row EXCEPT !.provider = TRUE], [row EXCEPT !.provider = FALSE],
             [row EXCEPT !.status = "available"],
             [row EXCEPT !.enabled = FALSE, !.token = 0, !.archived = TRUE, !.cool = 0],
             [row EXCEPT !.enabled = FALSE, !.token = 0, !.archived = TRUE, !.provider = FALSE],
             [row EXCEPT !.token = issued + 1, !.due = FALSE, !.status = "available", !.cool = 0]} :
            Administer(r)
      BY <1>3 DEF Administrator, SetUpstreamKeyEnabled, SetProviderEnabled, UpdateProvider,
           ResetUpstreamKeyRuntime, DeleteOAuthCredential, DeleteProvider, OAuthRelogin,
           ReplaceCredential, LoginEnds
    <2>2. row'.kind = row.kind /\ row'.cool \in {row.cool, 0} /\ acted' = Reader
      BY <1>1, <2>1 DEF Administer, Row
    <2>. QED BY <2>2, CoolFrame
  <1>4. CASE TokenExpires \/ LimitEnds \/ CooldownEnds
    <2>1. call' = call /\ row'.kind = row.kind /\ row'.rev = row.rev
          /\ row'.cool \in {row.cool, 0}
      BY <1>1, <1>4 DEF TokenExpires, LimitEnds, CooldownEnds, Pass, Row
    <2>. QED BY <2>1, CoolFrame
  <1>5. CASE Restart
    BY <1>5, <1>2 DEF Restart
  <1>. QED BY <1>2, <1>3, <1>4, <1>5, CoolCall DEF Next

(* A refresh keeps the cooldowns of the account's models, whatever calls,  *)
(* administrators and logins do meanwhile.                                 *)
THEOREM CooldownsSurvive == Spec => CooldownSurvivesRefresh
  <1>1. Init => CoolInv
    BY DEF Init, CoolInv
  <1>2. IInv /\ CoolInv /\ [Next]_vars => CoolInv'
    BY CoolStep DEF CoolInv, vars
  <1>3. IInv /\ CoolInv /\ [Next]_vars =>
          [row.cool = row.rev /\ row'.cool # row'.rev =>
             acted' = Reader \/ (row'.cool = 0 /\ call' = call)]_vars
    BY CoolStep DEF CoolKept
  <1>. QED BY <1>1, <1>2, <1>3, AccountInv, PTL DEF Spec, CooldownSurvivesRefresh
=============================================================================
