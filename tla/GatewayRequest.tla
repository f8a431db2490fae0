--------------------------- MODULE GatewayRequest ---------------------------
(***************************************************************************)
(* generateAuthorized of internal/gateway: concurrent requests, each with  *)
(* its list of routes, its upstream calls, its rows in the log and its     *)
(* client, over the shared circuit breaker and the shared runtime state of *)
(* upstream keys and candidates.  A step runs from one point where the     *)
(* handler can wait (lock, database, upstream, timer, client) to the next. *)
(***************************************************************************)
EXTENDS BreakerEntry, AttemptOutcome, SequencesExt, FiniteSets

CONSTANTS
  Request,         \* request goroutines
  Order,           \* the virtual model's candidates, in order
  KindOf,          \* the kind of each candidate's provider
  KeysOf,          \* the upstream keys of each candidate's provider
  Streams,         \* the values of the requests' stream flag (a bound)
  Edited,          \* the keys an administrator acts on (a bound)
  MaxRequests,     \* bound on the requests started
  MaxKeyRevision   \* bound on the keys' credential revisions

Candidate == Range(Order)
UpstreamKey == UNION {KeysOf[c] : c \in Candidate}

ASSUME GatewayAssumption ==
  /\ Order \in Seq(Range(Order)) /\ IsInjective(Order)
  /\ KindOf \in [Candidate -> Kind]
  /\ KeysOf \in [Candidate -> SUBSET UpstreamKey]
  /\ Edited \subseteq UpstreamKey /\ Streams \subseteq BOOLEAN
  /\ {MaxRequests, MaxKeyRevision} \subseteq Nat \ {0}
  (* a key belongs to one provider, and a provider has one kind *)
  /\ \A c, d \in Candidate : KindOf[c] # KindOf[d] => KeysOf[c] \cap KeysOf[d] = {}

VARIABLES
  candidates,  \* Handler.candidates, the breaker
  now,         \* the clock
  revision,    \* config_revision of each candidate
  config,      \* runtime_status of each candidate
  keys,        \* the upstream_keys rows
  req,         \* the handler of each request
  log,         \* the requests and attempts rows of the last request of each
  started,     \* requests started so far
  held,        \* history: the admission each request holds (CandidateBreaker)
  streak       \* history: failures in a row reported per revision

breakerVars == <<candidates, held, streak>>
storeVars == <<config, keys, log>>
vars == <<candidates, now, revision, config, keys, req, log, started, held, streak>>

B == INSTANCE CandidateBreaker
       WITH Caller <- Request, call <- held

Route == [cand : Candidate, rev : 1..MaxRevision, key : UpstreamKey, krev : 1..MaxKeyRevision]

(* since is the revision of the last reset or new credential, blame the    *)
(* revision of the call whose result the status is: history.               *)
KeyRow ==
  [rev : 1..MaxKeyRevision, enabled : BOOLEAN,
   status : {"available", "auth_invalid", "quota_exhausted", "rate_limited"},
   since : 1..MaxKeyRevision, blame : 0..MaxKeyRevision]

NewKey == [rev |-> 1, enabled |-> TRUE, status |-> "available", since |-> 1, blame |-> 0]

keyKind(k) == KindOf[CHOOSE c \in Candidate : k \in KeysOf[c]]

(* A handler that is not running. *)
Idle == [pc |-> "idle"]

Running(q) == req[q] # Idle

(* No row yet. *)
NoLog == [status |-> "none", attempts |-> <<>>, from |-> 0]

Init ==
  /\ candidates = [c \in Candidate |-> Absent]
  /\ now = 1
  /\ revision = [c \in Candidate |-> 1]
  /\ config = [c \in Candidate |-> [status |-> "available", blame |-> 0]]
  /\ keys = [k \in UpstreamKey |-> NewKey]
  /\ req = [q \in Request |-> Idle]
  /\ log = [q \in Request |-> NoLog]
  /\ started = 0
  /\ held = [q \in Request |-> B!NoCall]
  /\ streak = [c \in Candidate |-> [v \in 1..MaxRevision |-> 0]]

-----------------------------------------------------------------------------
(* The position of a request in its routes. *)

route(q) == req[q].routes[req[q].i]
kind(q) == KindOf[route(q).cand]

(* skipCandidate: the last route of the candidate at i. *)
skipCandidate(routes, i) ==
  CHOOSE j \in i..Len(routes) :
    /\ \A n \in i..j : routes[n].cand = routes[i].cand
    /\ j < Len(routes) => routes[j + 1].cand # routes[i].cand

\* Mutant: the first route is taken without asking.
AsksLater(q) ==
  LET i == req[q].i
  IN  i > 1 /\ req[q].routes[i - 1].cand # req[q].routes[i].cand

(* The loop asks the breaker at the first route of each candidate. *)
Asks(q) ==
  LET i == req[q].i
  IN  i > 1 => req[q].routes[i - 1].cand # req[q].routes[i].cand

(* The handler returns: the request row gets its final status. *)
Finish(q, status) ==
  /\ req' = [req EXCEPT ![q] = Idle]
  /\ log' = [log EXCEPT ![q].status = status]

Leave(q) == held' = [held EXCEPT ![q] = B!NoCall]

(* A finish that neither reports to the breaker nor changes a state. *)
FinishSilently(q, status) ==
  /\ Finish(q, status)
  /\ Leave(q)
  /\ UNCHANGED <<candidates, streak, config, keys>>

-----------------------------------------------------------------------------
(* From the request to its routes. *)

(* StartRequest.  (If it fails, nothing is recorded.) *)
Start(q, stream) ==
  /\ ~Running(q)
  /\ started < MaxRequests
  /\ started' = started + 1
  /\ req' = [req EXCEPT ![q] =
       [pc |-> "resolve", stream |-> stream, client |-> "connected",
        routes |-> <<>>, i |-> 1, rejected |-> [k \in UpstreamKey |-> 0],
        krev |-> 0, refreshed |-> FALSE, mode |-> "none",
        sent |-> "nothing", invalid |-> FALSE]]
  /\ log' = [log EXCEPT ![q] = [NoLog EXCEPT !.status = "in_progress"]]
  /\ UNCHANGED <<now, revision, config, keys, breakerVars>>

(* Bad body, unknown history, no eligible route, or a failed log write. *)
Reject(q) ==
  /\ req[q].pc = "resolve"
  /\ FinishSilently(q, "failed")
  /\ UNCHANGED <<now, revision, started>>

(* KeyAvailable, for a moment when the limits that carry a recovery time   *)
(* are over: all but auth_invalid and the quota of a plain key.            *)
KeyAvailable(k) ==
  /\ keys[k].enabled
  /\ keys[k].status # "auth_invalid"
  /\ keys[k].status = "quota_exhausted" => keyKind(k) = "codex"

(* The routes of the candidates that are not config_error, candidate after *)
(* candidate: the keys of one stay together, in any order (usage, session  *)
(* affinity); any may be missing (limits, expiry, capabilities, history).  *)
RouteLists ==
  LET usable == {p \in (DOMAIN Order) \X UpstreamKey :
                   /\ config[Order[p[1]]].status = "available"
                   /\ p[2] \in KeysOf[Order[p[1]]] /\ KeyAvailable(p[2])}
      at(p)  == [cand |-> Order[p[1]], rev |-> revision[Order[p[1]]],
                 key |-> p[2], krev |-> keys[p[2]].rev]
      picks  == UNION {Injection(1..n, usable) : n \in 0..Cardinality(usable)}
  IN  {[n \in DOMAIN s |-> at(s[n])] :
         s \in {t \in picks : \A m, n \in DOMAIN t : m <= n => t[m][1] <= t[n][1]}}

(* ResolveRoutesExplained and the filters after it. *)
Resolve(q) ==
  /\ req[q].pc = "resolve"
  /\ \E routes \in RouteLists \ {<<>>} :
       req' = [req EXCEPT ![q].pc = "next", ![q].routes = routes]
  /\ UNCHANGED <<now, revision, started, storeVars, breakerVars>>

-----------------------------------------------------------------------------
(* One turn of the loop, up to the upstream call. *)

(* candidateReady refuses: its routes are skipped, or the event cannot be  *)
(* recorded.                                                               *)
SkipCooling(q) ==
  LET r == route(q)
  IN  /\ req[q].pc = "next" /\ req[q].i <= Len(req[q].routes)
      /\ Asks(q) /\ ~Ready(candidates[r.cand], r.rev, now)
      /\ Leave(q)
      /\ \/ /\ req' = [req EXCEPT ![q].i = skipCandidate(req[q].routes, req[q].i) + 1]
            /\ UNCHANGED log
         \/ Finish(q, "failed")
      /\ UNCHANGED <<candidates, now, revision, config, keys, started, streak>>

Enter(q) ==
  LET r == route(q)
      e == candidates[r.cand]
      granted == IF GrantsProbe(e, r.rev, now) THEN e.cooldownUntil ELSE 0
  IN  /\ req[q].pc = "next" /\ req[q].i <= Len(req[q].routes)
      /\ IF Asks(q)
         THEN /\ Ready(e, r.rev, now)
              /\ candidates' = [candidates EXCEPT ![r.cand] = AfterReady(e, r.rev, now)]
              /\ held' = [held EXCEPT ![q] = [cand |-> r.cand, rev |-> r.rev, probe |-> granted]]
         ELSE UNCHANGED <<candidates, held>>
      /\ req' = [req EXCEPT ![q].pc = IF kind(q) = "key" THEN "attempt" ELSE "credential",
                            ![q].krev = r.krev, ![q].refreshed = FALSE]
      /\ UNCHANGED <<now, revision, started, streak, storeVars>>

(* No conversion of the body, no request, or no row for the event or the   *)
(* attempt: an error before the upstream is called.                        *)
CannotCall(q) ==
  /\ req[q].pc \in {"credential", "attempt"}
  /\ FinishSilently(q, "failed")
  /\ UNCHANGED <<now, revision, started>>

\* Mutant: the credential the upstream rejected is used again.
UseCredentialAgain(q) ==
  LET k == route(q).key
  IN  /\ req[q].pc = "credential"
      /\ KeyAvailable(k)
      /\ req' = [req EXCEPT ![q].pc = "attempt", ![q].krev = keys[k].rev,
                            ![q].refreshed = req[q].rejected[k] # 0]
      /\ UNCHANGED <<now, revision, started, storeVars, breakerVars>>

(* codexCredential and antigravityCredential give the current credential:  *)
(* it is not due, or the one the upstream rejected has been replaced.      *)
UseCredential(q) ==
  LET k == route(q).key
  IN  /\ req[q].pc = "credential"
      /\ KeyAvailable(k)
      /\ req[q].rejected[k] # keys[k].rev
      /\ req' = [req EXCEPT ![q].pc = "attempt", ![q].krev = keys[k].rev,
                            ![q].refreshed = req[q].rejected[k] # 0]
      /\ UNCHANGED <<now, revision, started, storeVars, breakerVars>>

(* They refresh it under the key's lock; a Codex refresh also clears the   *)
(* runtime status.                                                         *)
Refresh(q) ==
  LET k == route(q).key
      next == keys[k].rev + 1
  IN  /\ req[q].pc = "credential"
      /\ KeyAvailable(k) /\ next <= MaxKeyRevision
      /\ keys' = [keys EXCEPT ![k] =
           IF kind(q) = "codex"
           THEN [@ EXCEPT !.rev = next, !.since = next, !.status = "available"]
           ELSE [@ EXCEPT !.rev = next]]
      /\ req' = [req EXCEPT ![q].pc = "attempt", ![q].krev = next, ![q].refreshed = TRUE]
      /\ UNCHANGED <<now, revision, started, config, log, breakerVars>>

\* Mutant: the result is written whatever credential the key has by then.
MarkedLate(row, rev, mark) ==
  IF mark \in {"none", "model_limited"} \/ ~row.enabled THEN row
  ELSE [row EXCEPT !.status = mark, !.blame = rev]

(* MarkUpstreamKeyRevision: the result of a call made with credential      *)
(* revision rev.  (MarkAntigravityModel, "model_limited", writes another   *)
(* table.)                                                                 *)
Marked(row, rev, mark) ==
  IF mark \in {"none", "model_limited"} \/ row.rev # rev \/ ~row.enabled THEN row
  ELSE [row EXCEPT !.status = mark, !.blame = rev]

(* They fail: the account was disabled or is exhausted, or the refresh     *)
(* failed, for good ("auth_invalid") or not.  Codex goes on to the next    *)
(* route at once; Antigravity counts it as an answer of the candidate.     *)
CredentialFails(q) ==
  LET r == route(q)
      codex == kind(q) = "codex"
      next  == req[q].i + 1
      stays == next <= Len(req[q].routes) /\ req[q].routes[next].cand = r.cand
  IN  /\ req[q].pc = "credential" /\ req[q].client # "gone"
      /\ \E mark \in {"none"} \cup
             IF KeyAvailable(r.key)
             THEN {"auth_invalid", IF codex THEN "available" ELSE "none"} ELSE {} :
           keys' = [keys EXCEPT ![r.key] = Marked(keys[r.key], keys[r.key].rev, mark)]
      /\ req' = [req EXCEPT ![q].i = next, ![q].invalid = TRUE,
                            ![q].pc = IF codex \/ next > Len(req[q].routes) THEN "next" ELSE "backoff"]
      /\ IF stays THEN UNCHANGED held ELSE Leave(q)
      /\ IF codex THEN UNCHANGED <<candidates, streak>>
         ELSE /\ candidates' = [candidates EXCEPT ![r.cand] = AfterSucceeded(candidates[r.cand], r.rev)]
              /\ streak' = [streak EXCEPT ![r.cand][r.rev] = 0]
      /\ UNCHANGED <<now, revision, started, config, log>>

(* The client leaves while the handler waits for the lock or the refresh. *)
CredentialCancelled(q) ==
  /\ req[q].pc = "credential" /\ req[q].client = "gone"
  /\ FinishSilently(q, "cancelled")
  /\ UNCHANGED <<now, revision, started>>

StartAttempt(q) ==
  /\ req[q].pc = "attempt"
  /\ req' = [req EXCEPT ![q].pc = "call"]
  /\ log' = [log EXCEPT ![q].attempts =
               Append(log[q].attempts,
                      [cand |-> route(q).cand, key |-> route(q).key, krev |-> req[q].krev,
                       status |-> "in_progress", report |-> "none"])]
  /\ UNCHANGED <<now, revision, started, config, keys, breakerVars>>

-----------------------------------------------------------------------------
(* The outcome of the call. *)

(* stream.Committed(): the client has a status line, from a heartbeat or   *)
(* from a response.                                                        *)
Committed(q) == req[q].sent # "nothing"

(* What the relaying function takes for committed: the generic one counts  *)
(* only what this response has written.                                    *)
RelayCommitted(q) ==
  IF req[q].mode \in {"codex", "antigravity"} THEN Committed(q) ELSE req[q].sent = "content"

(* A credential that has not been refreshed for this request. *)
MayResend(q) == ~req[q].refreshed /\ req[q].rejected[route(q).key] = 0

(* The rest of the turn: close the attempt's row, record the state of the  *)
(* key and of the candidate, report to the breaker, and move on.  A move   *)
(* to another route waits first (waitBeforeRetry).                         *)
Conclude(q, v) ==
  LET r    == route(q)
      n    == Len(log[q].attempts)
      next == CASE v.move = "resend" -> req[q].i
                [] v.move = "next"   -> req[q].i + 1
                [] v.move = "skip"   -> skipCandidate(req[q].routes, req[q].i) + 1
                [] OTHER             -> Len(req[q].routes) + 1
      more == next <= Len(req[q].routes)
  IN  /\ log' = [log EXCEPT ![q].attempts[n].status = v.row,
                            ![q].attempts[n].report = v.report,
                            ![q].status = IF Ends(v) THEN v.move ELSE "in_progress"]
      /\ keys' = [keys EXCEPT ![r.key] = Marked(keys[r.key], req[q].krev, v.mark)]
      /\ config' = IF v.config /\ revision[r.cand] = r.rev
                   THEN [config EXCEPT ![r.cand] = [status |-> "config_error", blame |-> r.rev]]
                   ELSE config
      /\ CASE v.report = "failed" ->
                /\ candidates' = [candidates EXCEPT ![r.cand] = AfterFailed(candidates[r.cand], r.rev, now)]
                /\ streak' = [streak EXCEPT ![r.cand][r.rev] = streak[r.cand][r.rev] + 1]
           [] v.report = "succeeded" ->
                /\ candidates' = [candidates EXCEPT ![r.cand] = AfterSucceeded(candidates[r.cand], r.rev)]
                /\ streak' = [streak EXCEPT ![r.cand][r.rev] = 0]
           [] OTHER -> UNCHANGED <<candidates, streak>>
      /\ req' = [req EXCEPT ![q] =
           IF Ends(v) THEN Idle
           ELSE [req[q] EXCEPT
                   !.pc = IF v.move # "resend" /\ more THEN "backoff" ELSE "next",
                   !.i = next,
                   !.rejected[r.key] = IF v.move = "resend" THEN req[q].krev ELSE @,
                   !.invalid = @ \/ v.invalid]]
      /\ IF more /\ req[q].routes[next].cand = r.cand THEN UNCHANGED held ELSE Leave(q)
      /\ UNCHANGED <<now, revision, started>>

(* doUpstream writes a heartbeat while a plain provider is silent. *)
Beats(q) == req[q].stream /\ kind(q) = "key"

CallHeartbeat(q) ==
  /\ req[q].pc = "call" /\ Beats(q) /\ ~Committed(q)
  /\ req' = [req EXCEPT ![q].sent = "heartbeat"]
  /\ UNCHANGED <<now, revision, started, storeVars, breakerVars>>

(* The client is gone, or a heartbeat cannot be written. *)
CallCancelled(q) ==
  /\ req[q].pc = "call"
  /\ req[q].client = "gone" \/ (req[q].client = "broken" /\ Beats(q))
  /\ Conclude(q, Verdict("cancelled", "none", "cancelled"))

(* No connection, or no response headers in time. *)
CallFails(q) ==
  /\ req[q].pc = "call" /\ req[q].client # "gone"
  /\ Conclude(q, [Verdict("failed", "failed", "skip") EXCEPT !.invalid = kind(q) = "antigravity"])

(* The upstream answers with an error status. *)
CallRefused(q) ==
  /\ req[q].pc = "call" /\ req[q].client # "gone"
  /\ req' = [req EXCEPT ![q].pc = "error"]
  /\ UNCHANGED <<now, revision, started, storeVars, breakerVars>>

(* Its body is read.  (Antigravity then looks at the client first.) *)
ErrorRead(q) ==
  /\ req[q].pc = "error"
  /\ kind(q) = "antigravity" => req[q].client # "gone"
  /\ \E e \in UpstreamError : Conclude(q, UncommittedError(kind(q), FALSE, e, MayResend(q)))

(* Its body cannot be read. *)
ErrorUnread(q) ==
  /\ req[q].pc = "error"
  /\ Conclude(q, ErrorBodyLost(kind(q), req[q].client = "gone"))

(* A 2xx answer.  A stream in the client's own protocol is committed with  *)
(* the upstream's headers.                                                 *)
CallAnswered(q) ==
  /\ req[q].pc = "call" /\ req[q].client # "gone"
  /\ \E mode \in CASE kind(q) # "key"                     -> {kind(q)}
                   [] kind(q) = "key" /\ ~req[q].stream   -> {"buffered"}
                   [] OTHER                               -> {"passthrough", "converted"} :
       /\ req' = [req EXCEPT ![q].pc = "relay", ![q].mode = mode,
                             ![q].sent = IF mode = "passthrough" THEN "content" ELSE @]
       /\ log' = IF mode = "passthrough"
                 THEN [log EXCEPT ![q].from = Len(log[q].attempts)] ELSE log
  /\ UNCHANGED <<now, revision, started, config, keys, breakerVars>>

(* Events reach the client; a heartbeat of the OAuth paths is sent only    *)
(* once the response is committed.                                         *)
RelayContent(q) ==
  /\ req[q].pc = "relay" /\ req[q].stream /\ req[q].sent # "content"
  /\ req' = [req EXCEPT ![q].sent = "content"]
  /\ log' = [log EXCEPT ![q].from = Len(log[q].attempts)]
  /\ UNCHANGED <<now, revision, started, config, keys, breakerVars>>

RelayHeartbeat(q) ==
  /\ req[q].pc = "relay" /\ req[q].mode = "converted" /\ ~Committed(q)
  /\ req' = [req EXCEPT ![q].sent = "heartbeat"]
  /\ UNCHANGED <<now, revision, started, storeVars, breakerVars>>

(* The body is complete.  Antigravity looks at the client once more. *)
RelayDone(q) ==
  /\ req[q].pc = "relay"
  /\ req[q].mode = "antigravity" => req[q].client # "gone"
  /\ req[q].stream => req[q].sent = "content"
  /\ \E written \in IF req[q].stream \/ req[q].client = "connected" THEN {TRUE} ELSE BOOLEAN :
       Conclude(q, Relayed(req[q].mode, written))

(* The body breaks off, stays silent too long or is not of its protocol.   *)
(* Once the client is gone Antigravity takes any error, and Codex an error *)
(* of the stream, for a cancellation; Codex still rejects the usage or the *)
(* conversion of a complete body, and the generic relays do not look.      *)
RelayBreaks(q) ==
  /\ req[q].pc = "relay"
  /\ req[q].mode = "antigravity" => req[q].client # "gone"
  /\ Conclude(q, InvalidBody(req[q].mode, RelayCommitted(q)))

(* SaveAntigravityToolTurn fails: the stream is given up, and the request. *)
RelayUnsaved(q) ==
  /\ req[q].pc = "relay" /\ req[q].mode = "antigravity" /\ req[q].client # "gone"
  /\ Conclude(q, Verdict("failed", "none", "failed"))

(* A structured error inside an OAuth provider's stream; Codex starts from *)
(* status 502.                                                             *)
RelayRejected(q) ==
  /\ req[q].pc = "relay" /\ req[q].mode \in {"codex", "antigravity"}
  /\ req[q].client # "gone"
  /\ \E e \in {f \in UpstreamError : kind(q) = "codex" => f.status = "5xx"} :
       Conclude(q, IF Committed(q) THEN CommittedError(kind(q), e)
                   ELSE UncommittedError(kind(q), TRUE, e, MayResend(q)))

(* The handler sees the client's absence while it relays: by the context,  *)
(* or by a write that fails.  A buffered generic body is read to its end.  *)
RelayCancelled(q) ==
  /\ req[q].pc = "relay" /\ req[q].mode # "buffered"
  /\ req[q].client = "gone" \/ (req[q].client = "broken" /\ req[q].stream)
  /\ Conclude(q, ClientLost(req[q].mode))

\* Mutant: the wait is over only for a client that can still be written to.
RetryConnected(q) ==
  /\ req[q].pc = "backoff" /\ req[q].client = "connected"
  /\ req' = [req EXCEPT ![q].pc = "next"]
  /\ UNCHANGED <<now, revision, started, storeVars, breakerVars>>

(* waitBeforeRetry. *)
Retry(q) ==
  /\ req[q].pc = "backoff"
  /\ req' = [req EXCEPT ![q].pc = "next"]
  /\ UNCHANGED <<now, revision, started, storeVars, breakerVars>>

RetryCancelled(q) ==
  /\ req[q].pc = "backoff" /\ req[q].client = "gone"
  /\ FinishSilently(q, "cancelled")
  /\ UNCHANGED <<now, revision, started>>

(* All routes have been tried. *)
Exhausted(q) ==
  /\ req[q].pc = "next" /\ req[q].i > Len(req[q].routes)
  /\ FinishSilently(q, "failed")
  /\ UNCHANGED <<now, revision, started>>

-----------------------------------------------------------------------------
(* The environment. *)

(* The client's connection fails for writes, and then, or at once, the     *)
(* request's context is cancelled.                                         *)
Disconnect(q, client) ==
  /\ Running(q)
  /\ <<req[q].client, client>> \in {<<"connected", "broken">>, <<"connected", "gone">>, <<"broken", "gone">>}
  /\ req' = [req EXCEPT ![q].client = client]
  /\ UNCHANGED <<now, revision, started, storeVars, breakerVars>>

(* UpdateVirtualModel. *)
EditCandidate(c) ==
  /\ revision[c] < MaxRevision
  /\ revision' = [revision EXCEPT ![c] = revision[c] + 1]
  /\ config' = [config EXCEPT ![c].status = "available"]
  /\ UNCHANGED <<candidates, now, keys, req, log, started, held, streak>>

(* SetUpstreamKeyEnabled. *)
ToggleKey(k) ==
  /\ keys[k].rev < MaxKeyRevision
  /\ keys' = [keys EXCEPT ![k].rev = keys[k].rev + 1, ![k].enabled = ~keys[k].enabled]
  /\ UNCHANGED <<candidates, now, revision, config, req, log, started, held, streak>>

(* ResetUpstreamKeyRuntime (not for a rejected OAuth account), a new       *)
(* secret, or a new login of the account.                                  *)
RenewKey(k) ==
  /\ keys[k].rev < MaxKeyRevision
  /\ keys' = [keys EXCEPT ![k].rev = keys[k].rev + 1, ![k].since = keys[k].rev + 1,
                          ![k].status = "available"]
  /\ UNCHANGED <<candidates, now, revision, config, req, log, started, held, streak>>

Tick ==
  /\ now < MaxTime
  /\ now' = now + 1
  /\ UNCHANGED <<candidates, revision, req, started, held, streak, storeVars>>

\* Mutant: only the requests are closed at startup, not their attempts.
RestartHalf ==
  /\ candidates' = [c \in Candidate |-> Absent]
  /\ req' = [q \in Request |-> Idle]
  /\ held' = [q \in Request |-> B!NoCall]
  /\ log' = [q \in Request |->
       [log[q] EXCEPT !.status = IF @ = "in_progress" THEN "failed" ELSE @]]
  /\ UNCHANGED <<now, revision, config, keys, started, streak>>

(* What CloseInterruptedRequests makes of a status. *)
Closed(status) == IF status = "in_progress" THEN "failed" ELSE status

(* The process is killed and starts again: the memory is lost, and         *)
(* CloseInterruptedRequests closes what was in progress.                   *)
Restart ==
  /\ candidates' = [c \in Candidate |-> Absent]
  /\ req' = [q \in Request |-> Idle]
  /\ held' = [q \in Request |-> B!NoCall]
  /\ LET rows(q) == [n \in DOMAIN log[q].attempts |->
                       [log[q].attempts[n] EXCEPT !.status = Closed(@)]]
     IN  log' = [q \in Request |->
                  [log[q] EXCEPT !.status = Closed(@), !.attempts = rows(q)]]
  /\ UNCHANGED <<now, revision, config, keys, started, streak>>

-----------------------------------------------------------------------------
Loop(q) == SkipCooling(q) \/ Enter(q) \/ Retry(q) \/ RetryCancelled(q) \/ Exhausted(q)

Prepare(q) ==
  \/ CannotCall(q) \/ UseCredential(q) \/ Refresh(q)
  \/ CredentialFails(q) \/ CredentialCancelled(q) \/ StartAttempt(q)

Call(q) ==
  \/ CallHeartbeat(q) \/ CallCancelled(q) \/ CallFails(q)
  \/ CallRefused(q) \/ ErrorRead(q) \/ ErrorUnread(q) \/ CallAnswered(q)

Relay(q) ==
  \/ RelayContent(q) \/ RelayHeartbeat(q) \/ RelayDone(q)
  \/ RelayBreaks(q) \/ RelayUnsaved(q) \/ RelayRejected(q) \/ RelayCancelled(q)

HandlerStep(q) ==
  Running(q) /\ (Reject(q) \/ Resolve(q) \/ Loop(q) \/ Prepare(q) \/ Call(q) \/ Relay(q))

Next ==
  \/ \E q \in Request :
       \/ \E stream \in Streams : Start(q, stream)
       \/ \E client \in {"broken", "gone"} : Disconnect(q, client)
       \/ HandlerStep(q)
  \/ \E c \in Candidate : EditCandidate(c)
  \/ \E k \in Edited : ToggleKey(k) \/ RenewKey(k)
  \/ Tick
  \/ Restart

Spec == Init /\ [][Next]_vars

(* The upstream answers or times out, the database answers, and the        *)
(* scheduler runs every handler.                                           *)
FairSpec == Spec /\ \A q \in Request : WF_vars(HandlerStep(q))

-----------------------------------------------------------------------------
Attempt ==
  [cand : Candidate, key : UpstreamKey, krev : 1..MaxKeyRevision,
   status : {"in_progress", "completed", "failed", "cancelled"},
   report : {"none", "failed", "succeeded"}]

Handler ==
  [pc : {"resolve", "next", "credential", "attempt", "call", "error", "relay", "backoff"},
   stream : BOOLEAN, client : {"connected", "broken", "gone"}, routes : Seq(Route), i : Nat \ {0},
   rejected : [UpstreamKey -> 0..MaxKeyRevision], krev : 0..MaxKeyRevision, refreshed : BOOLEAN,
   mode : {"none", "buffered", "passthrough", "converted", "codex", "antigravity"},
   sent : {"nothing", "heartbeat", "content"}, invalid : BOOLEAN]

(* A requests row with its attempts rows.  from is the row whose response  *)
(* the client has: history.                                                *)
RequestRow ==
  [status : {"none", "in_progress", "completed", "failed", "cancelled"},
   attempts : Seq(Attempt), from : Nat]

(* The types of the gateway's memory and of its tables. *)
TypeOK ==
  /\ B!TypeOK
  /\ started \in 0..MaxRequests
  /\ config \in [Candidate -> [status : {"available", "config_error"}, blame : 0..MaxRevision]]
  /\ keys \in [UpstreamKey -> KeyRow]
  /\ req \in [Request -> Handler \cup {Idle}]
  /\ log \in [Request -> RequestRow]
  /\ \A q \in Request : log[q].from <= Len(log[q].attempts)

Rows(q) == log[q].attempts

(* The log is closed: when a handler has returned by any of its paths, or  *)
(* the process was killed and started again, neither the request's row nor *)
(* any attempt's row is left in_progress; while it runs, only the attempt  *)
(* of the current call is.                                                 *)
LogIsClosed ==
  \A q \in Request :
    /\ Running(q) <=> log[q].status = "in_progress"
    /\ \A n \in DOMAIN Rows(q) :
         Rows(q)[n].status = "in_progress"
           <=> n = Len(Rows(q)) /\ Running(q) /\ req[q].pc \in {"call", "error", "relay"}

(* A request is recorded as completed only if its last upstream call was   *)
(* completed and every earlier one failed: the attempt that CompleteRequest*)
(* and rememberAffinity look up is the one the client was served from.     *)
CompletedIsServed ==
  \A q \in Request :
    /\ \A n \in 1..(Len(Rows(q)) - 1) : Rows(q)[n].status = "failed"
    /\ log[q].status = "completed" =>
         Rows(q) # <<>> /\ Rows(q)[Len(Rows(q))].status = "completed"

(* The replay boundary of streaming: once a response has reached the       *)
(* client, no further upstream is called for the request, whatever fails   *)
(* afterwards; heartbeats alone do not forbid it.                          *)
NoSplicedResponses ==
  \A q \in Request : log[q].from # 0 => log[q].from = Len(Rows(q))

(* A candidate that a request has reported to candidateFailed is not       *)
(* called again by the same request, with no other key: skipCandidate, the *)
(* loop's increment and the resend's decrement of index fit together.      *)
FailedCandidateAbandoned ==
  \A q \in Request : \A m, n \in DOMAIN Rows(q) :
    m < n /\ Rows(q)[m].report = "failed" => Rows(q)[m].cand # Rows(q)[n].cand

(* The call after row m is a resend of it. *)
Resent(q, m) ==
  /\ {m, m + 1} \subseteq DOMAIN Rows(q)
  /\ Rows(q)[m].cand = Rows(q)[m + 1].cand /\ Rows(q)[m].key = Rows(q)[m + 1].key

(* The resend after a 401: a request calls a candidate twice with one key  *)
(* only for an OAuth account, at once, with a newer credential than the    *)
(* rejected one, and at most once per account, also when two candidates    *)
(* share the account (oauthRetry is kept per key).                         *)
ResendUsesNewCredential ==
  \A q \in Request : \A m, n \in DOMAIN Rows(q) :
    LET a == Rows(q)[m]
        b == Rows(q)[n]
    IN  /\ m < n /\ a.cand = b.cand /\ a.key = b.key =>
             KindOf[a.cand] # "key" /\ n = m + 1 /\ a.krev < b.krev
        /\ m # n /\ Resent(q, m) /\ Resent(q, n) => a.key # b.key

(* The safety of a request: what the log says of it, what its client gets, *)
(* and whom it calls.                                                      *)
RequestSafety ==
  /\ LogIsClosed
  /\ CompletedIsServed
  /\ NoSplicedResponses
  /\ FailedCandidateAbandoned
  /\ ResendUsesNewCredential

(* Late results: a key is out of service only through a call that used a   *)
(* credential at least as new as the administrator's last reset, and a     *)
(* candidate is config_error only through its current configuration.       *)
LateResultsIgnored ==
  /\ \A k \in UpstreamKey : keys[k].status # "available" => keys[k].blame >= keys[k].since
  /\ \A c \in Candidate : config[c].status = "config_error" => config[c].blame = revision[c]

(* generateAuthorized calls candidateReady, candidateFailed and            *)
(* candidateSucceeded only in the orders CandidateBreaker allows, so its   *)
(* theorems hold for the gateway.                                          *)
ImplementsBreaker == B!Spec

(* What CandidateBreaker promises, of the calls that the request loop      *)
(* makes (candidateReady and the two reports): one cooldown is ended by    *)
(* one probe, and the breaker opens only by failures of the same revision  *)
(* in a row.                                                               *)
BreakerHolds == B!OneProbePerCooldown /\ B!OpenIsEarned

(* Every request ends, with a final status, if the upstreams answer or     *)
(* time out: retries, resends and skipped candidates always make progress. *)
EveryRequestEnds == \A q \in Request : Running(q) ~> ~Running(q)

(* "candidate should allow a probe after cooldown" (handler_test.go): what *)
(* keeps candidateReady from granting a probe, probing, is set only while  *)
(* the probe of that cooldown is in flight.                                *)
ProbingHasProbe ==
  \A c \in Candidate : candidates[c].probing =>
    \E q \in Request :
      /\ B!Holding(q) /\ held[q].cand = c
      /\ held[q].probe = candidates[c].cooldownUntil

=============================================================================
