# A TLA+ model of model-confluence

model-confluence is a gateway in front of large language model providers. A
client calls a *virtual model* in one of three protocols; the gateway resolves
it to *candidates* (a provider and an upstream model) and their *keys* (API
keys or OAuth accounts), tries them in order, converts between protocols,
streams the answer and records every call in SQLite. One process owns the
database; requests are goroutines.

This directory holds the specification of its core: what is modelled, checked
with TLC and proved with TLAPS, and the plan for the rest. `PROJECT.json` maps
every definition to its source lines; the map covers about half of the
implementation's lines.

## 1. Inventory

| Component | State | Operations | Interacts with | What is hard | What makes it correct |
| --- | --- | --- | --- | --- | --- |
| Configuration caches (`internal/store`: `store.go`, `routing.go`, `access_keys.go`) | three caches, `configVersion`, two load mutexes | lookup, load, store, `invalidateConfig`, `invalidateRoutes` | every request reads, every edit and every result write invalidates | loads of several queries racing commits and invalidations | a read after a returned edit sees it; no outdated entry survives |
| Catalogue (`catalog.go`, `access_keys.go`, `routing.go`) | access keys, providers with endpoints and keys, models with candidates and revisions | create, update, delete or archive; the six queries of a route load | requests load routes and write rows that refer to the tables; cleanup removes such rows | references counted by queries of their own; edits between the queries of a load | routes whole, references hold, a route fits its revision |
| Circuit breaker (`gateway/handler.go`, `diagnostics.go`) | `Handler.candidates` | `candidateReady`, `candidateFailed`, `candidateSucceeded`, the two listings | all requests; edits change the revision | late reports, resends, probes that never report | one probe per cooldown; opened only by its own revision; explained as it acts |
| Request loop (`gateway/handler.go`, `codex.go`, `antigravity.go`) | position in the routes, rejected credentials, commit state of the stream | about thirty exits: skip, next key, resend, give up, finish, cancel | breaker, key states, log, client, upstream | disconnects, late results, the replay boundary, shared accounts | log closed, one response per client, failed candidates abandoned, termination |
| Log (`store/logs.go`, `request_routing.go`) | `requests`, `attempts` | start, complete, close interrupted | request loop, retention, affinity | crashes between two writes | no row stays in progress |
| Retention and cleanup (`retention.go`, `storage.go`, `main.go`) | an hourly loop, a manual cleanup, each with a cutoff, a count and a report | prune or delete a batch, save the report | running requests, each other, crashes | batches between which everything changes; text timestamps | running requests untouched, marks true, cutoffs kept, old payloads gone |
| OAuth credentials (`store/oauth_*.go`, `gateway/codex.go`, `antigravity.go`) | credential, `credential_revision`, runtime status, a lock per account | use, refresh, save, mark, relogin, disable, delete | request loop, login, administration | refresh racing relogin or disable | stale writes ignored, one refresh at a time |
| OAuth login (`internal/oauthlogin`, `gateway/oauth_login.go`, `admin/oauth_login.go`) | flows, each with a listener and a deadline | start, callback, submit, complete, cancel | sessions, credentials | exchange racing cancel, expiry and logout | a code is exchanged once; nothing is saved after a cancellation |
| Stream plumbing (`stream_heartbeat.go`, `idle_reader.go`, the relays) | the goroutine of `doUpstream`, the reader, the watcher, two channels, a body | wait, read, hand over, beat, time out, close | relays, client, upstream | selects with several ready cases, timer races, abandoned goroutines | a faithful prefix is shown, completed means whole, nothing leaks, calls end |
| Stream conversion (`internal/protocol/stream*.go`, `antigravity_response.go`, `internal/codex/stream.go`) | decoder, encoder, held-back chunks, open blocks, the turn's calls | decode, encode, finish, save the turn, summarize | relays, log, tool history | overlapping calls, missing ids, blocks left open, late usage, failures in the middle | content kept in order, blocks opened and closed once, a truthful end |
| Request and response conversion (`request.go`, `response.go`, `usage.go`, `antigravity_request.go`, `antigravity_history.go`, `internal/codex/request.go`) | none (recorded turns of Antigravity) | decode, encode, restore a turn, shorten ids | request loop, tool history | conversations of several turns, parallel calls, ids, edited turns | converted whole or refused; calls and results belong together; the whole body and the stream agree |
| Session affinity (`affinity.go`) | bounded binding table | reorder routes, remember | request loop, log | expiry, eviction, aliasing of the route slice | only a served key is remembered |
| Route selection, sessions, limiter, statistics, migrations, web console | see `PROJECT.json` | | | | |

The hazards behind this table, each with its line and the properties that
cover it, are listed in `PROJECT.json`.

## 2. Modules

| Module | Models |
| --- | --- |
| `ConfigRegister` | what a configuration read promises, with no cache |
| `ConfigCache` | the caches, the version counter and the load mutexes |
| `Catalogue` | the configuration tables under edits, route loads and the log |
| `BreakerEntry` | one entry of `Handler.candidates` and the critical sections on it |
| `CandidateBreaker` | concurrent callers of the breaker |
| `AttemptOutcome` | what the loop decides after one upstream call: a pure table |
| `GatewayRequest` | `generateAuthorized`: requests over breaker, keys, candidates and log |
| `LogRetention` | the log under handlers, retention, cleanup and crashes |
| `OAuthCredential` | one OAuth account: lock, refresh, marks, administrators, relogin |
| `LoginFlow` | browser logins, the sessions they belong to and the accounts they store |
| `StreamRelay` | the goroutines of one upstream call |
| `StreamDecode` | upstream events to canonical events: four decoders |
| `StreamEncode` | canonical events to the streams of three client protocols |
| `StreamSummary` | the summary of a recorded stream, and Codex's check and aggregation |
| `ResponseConvert` | whole answers between protocols, and the usage of a recorded stream |
| `StreamConvert` | one streamed answer: upstream, converter, relay, client |
| `RequestConvert` | the conversation a client sends, to the request of the upstream |
| `Exchange` | a conversation, its conversion, and the answer that streams back |
| `ConfigCacheProofs`, `CatalogueProofs`, `GatewayRequestProofs` (with those of the breaker), `LogRetentionProofs`, `LoginFlowProofs`, `OAuthCredentialProofs`, `StreamRelayProofs`, `StreamConvertProofs` | the theorems |
| `MCConfigCache`, `MCCatalogue`, `MCGatewayRequest`, `MCLogRetention`, `MCLoginFlow`, `MCOAuthCredential`, `MCStreamConvert` | instances for TLC |

`GatewayRequest` extends `BreakerEntry` and `AttemptOutcome`, and instantiates
`CandidateBreaker` with its own `held` for the callers' state. `Exchange` extends
`StreamConvert` and `RequestConvert`; `StreamConvert` extends `StreamEncode`,
`StreamSummary` and `ResponseConvert`; all of them extend `StreamDecode`.

### ConfigCache

A *row* is a group of columns that one statement reads or writes, and its value
is a version number; an *item* is one cache entry, computed from the rows
`RowsOf[i]`. A reader goes through `Lookup` (first look under the read lock),
`AcquireLoad`, `Recheck` (second look, version noted), one `LoadRow` per query,
and `StoreLoaded`, which stores only if the version has not moved and answers
either way; `LoadFails` is any error. A mutator `Commit`s and then runs
`Invalidate`, a critical section of `configMu`, after which it has returned.
`RouteRow` are the rows of the mutations that call `invalidateRoutes`; the
assumption that only route templates read them is the comment above
`invalidateRoutes`. `settled`, `pending` and `floor` are history.

### BreakerEntry and CandidateBreaker

An entry is the Go struct. Time is a count of ticks. A missing map entry and the
zero value are the same `Absent`: revisions start at 1, so no comparison tells
them apart. `Admit` is `candidateReady` answering true, `AdmitAgain` the second
question after a resend, `ReportFailed` and `ReportSucceeded` the two reports,
`LeaveSilently` every way out of the loop that reports nothing. `streak` counts
failures in a row per revision, for `OpenIsEarned`. `MaxCount` bounds the
counter.

### AttemptOutcome and GatewayRequest

`AttemptOutcome` gives, for every kind of provider and every outcome of a call,
a *verdict*: status of the attempt's row, report to the breaker, mark of the
key, mark of the candidate, and the move (`resend`, `next`, `skip`, or an end).
An upstream error is its status class, its code as far as the code branches on
it, and whether the provider lists the code as quota exhaustion.

A step of `GatewayRequest` runs from one point where the handler can wait to the
next; `Conclude` applies a verdict, everything up to the next wait. `Enter` and
`SkipCooling` are the head of the loop, `UseCredential`, `Refresh`,
`CredentialFails` and `CredentialCancelled` the two credential functions,
`Call*` the upstream call and its error answers, `Relay*` the four relays
(`buffered`, `passthrough`, `converted`, and one per OAuth kind), `Retry*` the
backoff. `sent` tells nothing, heartbeat only and content apart, because the
generic relays and the OAuth relays draw the commit line differently
(`RelayCommitted`). A client is connected, broken (writes fail, the context is
still alive) or gone. The environment disconnects clients, edits candidates,
toggles and renews keys, and restarts the process.

Abstractions. Route lists are all ordered selections of the available keys per
candidate, in candidate order: usage order, session affinity, protocols,
capabilities, key expiry and the Antigravity model cooldown only choose among
them. Limits that carry a recovery time may be over at any moment. A refresh is
one step under its lock. Writes that start something (`StartRequest`,
`StartAttempt`, routing events, tool history) may fail; writes of results are
assumed to succeed (several are unchecked in the code, see
`docs/requirements.md`, section 17; `LogRetention` lets them fail). The row of the log
keeps status, candidate, key, credential revision and, as history, the report and whether the body was
cut short by the client. `since` and `blame` in the key rows are history.

### Catalogue

The tables as functions from ids to rows; a row that is not there has state `unused` or
`deleted`, and an id never returns (`AUTOINCREMENT`). Every edit is one action, as it is
one transaction, with its checks: which protocols candidates use of a provider, whether a
name is taken, and the count of references that decides between archiving and deleting.
A request is a handler that authenticates, writes its row, loads a route query by query
(`LoadModel`, `LoadCandidates`, `LoadProtocols`, `LoadProvider`, `LoadEndpoints`,
`LoadKeys`), writes attempts that refer to what it loaded, and ends. Edits fall between
any two of these. `DeleteRecords` is the cleanup of the log, `Restart` a crash with its
start. Left out: the `enabled` switches and positions, secrets, limits, and the fixed
endpoints and keys of OAuth providers.

### LogRetention

A request row and its attempts keep status, time of creation, payload and mark. Handlers
write them one statement at a time; a closing write may fail unseen (`Fault`). A cleaner,
the hourly one or the administrator's, notes its cutoff, takes batches (`CleanBatch`, one
transaction over a set of `Batch` eligible rows), and saves its report in a statement of
its own; a batch may fail. `Crash` loses the goroutines, `Restart` closes what was in
progress. Time has two instants per second, because timestamps are compared as RFC 3339
texts without trailing zeros, where the whole second sorts after its fractions
(`formatTime`). `done` is history. Security events, which are pruned by time alone and
refer to nothing, are left out.

### StreamRelay

One upstream call and its goroutines: the handler (`pc`), the goroutine of `doUpstream`
(`caller`, with its channel `answer`), the reader of lines or events with the result it
offers, and the watcher of the idle timeout. A step is one operation on a channel, a
context, the body or the client's connection; a `select` with several ready cases is a
choice. A blocked `Read` is a `Read` that is not enabled; closing or aborting the body
enables it, while what the buffer already holds may still come first. The upstream's
answer is a number of units (lines, or events), of which the last ends a decoded answer.
The relays of OAuth providers (`relay = "oauth"`) differ from the generic ones: their call
runs in the handler itself, they beat only after the first write, they ask the context only
where they wait and where they record an error, and they cancel the reader after the
attempt has been recorded. A client of theirs that does not stream is served from the same
reader and written to once at the end; that write is left out here.
Heartbeats and idle timeout are configured or not. What happens in the loop afterwards is
`GatewayRequest`'s business; here the loop only keeps the request's context alive
(`pc = "loop"`).

### OAuthCredential

The row of one account in `upstream_keys` with its provider's flag, the lock of
`oauthLocks`, the model calls that use the account, and the authorization
server, of which only the refresh tokens it issued and exchanged matter. A call
waits for the lock (`Enter`, `GiveUp`), reads the row under it (`ReadCurrent`,
`ReadStale`, `ReadFails`), keeps it over the refresh (`Granted`, `Renewed`,
`GrantLost`, `Refused`, `Unanswered` are the answers of the network), writes back
if the revision is the one it read (`Save`, `SaveFails`, `RefreshFailed`) and
reads again (`Reread`). What it then reports about the account are `CodexCompleted`,
`CodexRejected`, `AntigravityRejected`, `AntigravityLimited`, and `Resend` after a
401. Whether the client had seen a part of the stream is not in this module, so a first
401 may be answered by `Resend` or be recorded at once. The statements of the administration and of a new login follow, one action
each. `status` keeps apart what the code distinguishes of a limit: with a time of
recovery ahead, behind, or none. `cool` is the revision in
`antigravity_model_states` for one model. `blame`, `lost` and `acted` are history.

Abstractions. Accounts share no state, so one is modelled. An Antigravity account
is assumed to have been obtained with the client id in use. A login of the same
account has one slot, as its callback port has.

### LoginFlow

A login is its entry in `Manager.flows` together with the goroutines that refer
to it; its listener is open exactly while it is active. A step is a critical
section of `Manager.mu` or one statement on the database; `complete` keeps the
mutex over its save, so `mu` names the login that is saving. Requests of a session
are counted between `requireSession` and their handler (`admitted`), which is how
a request meets the logout of its own session. `logout` and `changePassword` are
two steps each: `CancelOwner`, then the deletion of the sessions. Age 1 is past
`ExpiresAt`, age 2 a minute later, when `Start` forgets the login. `exchanges` and
`stored` are history. Callbacks that are malformed or belong to another login
change nothing and are left out; one change of password runs at a time.

### StreamDecode, StreamEncode, StreamSummary, StreamConvert

An event of any protocol is one record (`blank`), and a delta is a number, the n-th of
the upstream: what the client has got can then be compared with what was said.
`StreamDecode` and `StreamEncode` are the decoders and the encoder, one operator per
function; `StreamSummary` has the builder behind `SummarizeStream` and
`codex.Stream.Consume`. `StreamConvert` puts them together: an upstream sends one event
of a well-formed stream (`Begin`, `OpenBlock`, ..., `AntigravityDocument`) or reports an
error (for Codex also as a last event that contradicts itself: `response.completed` with
another status or an error), and in the same step the gateway decodes and encodes it and the relay writes or
holds back (`Send`: `Pass` for a Codex stream to a Responses client, `Translate` for the
rest, `GiveUp` on an error). An upstream that stops is a prefix of a longer behaviour.
`saveTools` may fail.

Abstractions. JSON, names, message and item ids and sequence numbers are left out;
events that are always written together are one; an event that repeats what was said
and is ignored is left out, and so are `ping` and `SetChatUsage`. Two indexes of the
encoder (`nextBlockIndex`, `nextOutputIndex`) are one, since an encoder speaks one
protocol. Goroutines are the business of `StreamRelay`, heartbeats and disconnects that of
`GatewayRequest`.

### ResponseConvert, RequestConvert, Exchange

A conversation, a canonical request and a body are sequences of messages with blocks
(text, reasoning, call, result), and a block's content is a sequence of deltas as in the
streams. One operator stands for each decoder and encoder of `request.go` and
`response.go`, for `codex.PrepareRequest`, and for the three steps of Antigravity:
`validateAntigravityInput`, `RestoreAntigravityHistory` and `EncodeAntigravityRequest`. A
Chat message has its fields in the order reasoning, text, calls; an item of a Responses
request that is no message has its type for a role. Ids are numbers, in classes: short,
too long for Responses, generated for a Responses upstream, and given by the gateway to
Antigravity calls.

`Exchange` lets a client send any conversation of up to `MaxTurns` turns in its protocol
(`Ask`): turns of text and calls in five shapes, ids of every class, reasoning repeated or
not, a remark beside the results, a system message at the end, and, for Antigravity, turns
that the gateway has recorded, repeated as they were or edited. The gateway converts or
refuses it, and then the answer begins and `StreamConvert` goes on. `BufferedAgrees`
compares that answer with what `ConvertResponse` makes of the same answer as one body.

Left out: definitions of tools and their choice, images, sampling parameters and limits,
checks of unknown fields, `is_error` of results, names.

## 3. Runs

| Run | Instance | Shows |
| --- | --- | --- |
| `config_cache` | 2 readers, 2 mutators, 2 rows, 2 items under one mutex | `CacheCoherent`, refinement of `ConfigRegister`, every read returns |
| `catalogue` | 1 access key, 1 model, 2 providers, keys, candidates, names and protocols, 1 request of 1 attempt, 2 revisions | routes stay whole, references hold, a loaded route fits its revision |
| `gateway_codex` | a request on 2 Codex candidates that share an account, which is edited | log, replay boundary, one resend per account, late results |
| `gateway_plain` | a request on a plain candidate with 2 keys, then Antigravity | the safety of a request in one invariant; every request ends |
| `gateway_breaker` | 2 concurrent requests, 4 in all, threshold 2, 2 revisions | `BreakerHolds`, refinement of `CandidateBreaker` |
| `gateway_probe_leak` | one candidate | a finding below |
| `oauth` | 2 calls, either kind, 3 revisions, 2 refresh tokens | tokens not replayed, marks, write-backs, cooldowns, nobody waits for ever |
| `login_flow` | 1 session, 2 logins, providers of 2 kinds | exchange, save, outcome and exclusion of logins |
| `log` | 2 requests of 1 attempt, batches of 1, 4 instants, 1 fault, a range within a second | running requests untouched, marks true, cutoffs to the second, old payloads go |
| `relay` | 5 kinds of reading, an answer of 4 units, heartbeats and idle timeout on or off | a faithful prefix, no closed channel under a live context, nothing leaks, every call ends |
| `stream` | 5 kinds of upstream, 3 of client, conversations of 2 turns, answers of 2 deltas and 3 blocks | requests kept; content, blocks, end, commit, stored turns, aggregation; bodies and summaries agree |
| `stream_failure` | the answer alone, 1 delta, 1 block | a finding below |

Bounds. Two readers and two mutators are enough for a load to race one invalidation while
another is under way; the proofs remove the bound. In the catalogue two rows of each kind
let a candidate move to another provider and a key be replaced, while one model and one
request suffice, since requests meet only through the tables and a model only through its
name; the proofs remove these bounds too. Two failures open the breaker while another
request is in flight, and two revisions let an old report meet a new entry; four requests
let a probe follow, with two running at a time.

In the other gateway runs one request is enough for the properties of a single request's
log, since the other requests only change availability and breaker entries, and both are
nondeterministic enough with a restart and with keys marked by the request itself. Two
candidates with one account between them let a refused credential meet the account again
at the next candidate. `MaxKeyRevision` 2 allows one refresh per account, 3 allows a
refresh between two edits. The proofs remove the bounds on requests, routes, candidates,
keys and revisions.

In the account, two calls meet at the lock, and three revisions let an edit or a relogin
follow a refresh; the proofs remove both bounds. Two logins of one session are enough for
a late goroutine of the first to meet the second; logins of different sessions only meet
at the port, which is the second half of `OneLoginAtATime`, reached when the first login
is overdue. In the log, batches of one row put every step of a handler, another cleaner or
a crash between two batches; two seconds hold both sides of every comparison of texts.
Four units let the reader run ahead of a handler by one, with units before and after.
Symmetry is used only for safety, over requests, readers, mutators, ids of the catalogue,
or the two keys of one candidate.

In the streams three blocks allow two overlapping calls after a text or a reasoning block,
and two deltas are split between them in every way; calls overlap in Chat and Codex
streams, not in plain Responses or Messages streams, and the first id of a stream may be
missing except with Codex; the proofs remove the bounds on blocks and deltas. A Responses
upstream leaves blocks open only when it reaches its token limit, reports an error, or
stops. Two turns, one of which may have two parallel calls, are enough for ids and results
to be mixed up, for a generated id to meet one of the client's, and for a recorded turn to
stand before or after a foreign one. Deadlock checking is off where things end: the
streams, one relayed call, and the log when its clock has run out.

Fairness. `ConfigCache!FairSpec` asks that a goroutine inside a read takes its
steps and that a mutex waiter is not starved (Go's mutex hands over to a waiter
after a millisecond). `GatewayRequest!FairSpec` asks that a handler which can
move does: the upstream answers or runs into the response-header, idle or
client timeout, SQLite answers, timers fire. Nothing is asked of clients,
administrators or upstreams beyond that. `OAuthCredential!FairSpec` asks that a
call at the lock is served if the lock is free again and again (senders on a Go
channel are queued), and that the holder goes on: a refresh ends by the 30 seconds
of the Codex client or by the transport's header timeout. `StreamRelay!FairSpec` asks that
goroutines run, `client.Do` returns (the transport has timeouts), the armed idle timer
fires, the server cancels the context of a client that has gone, and the transport then
drops the connection; the upstream may fall silent and the client may stay for ever.
`LogRetention!FairSpec` asks that the hourly loop and its transactions go on and that a
crashed process is started again; nothing is asked of handlers, administrators or the
clock. No liveness is claimed of `LoginFlow`, whose instance is too large for it, or of
`Catalogue` and `Exchange`, where nothing must happen.

### Findings

* `gateway_probe_leak`. `probing` is cleared only by a report. A probe that is
  cancelled, cannot be converted, loses its error body, fails on its Codex
  credential, gets an invalid 2xx from a plain provider, or resends after a 401
  (and is then refused by its own probe) leaves it set: the candidate is refused
  until it is edited or the process restarts.
* `stream_failure`. `decodeResponses` takes `response.failed` for an ordinary end, and
  `decodeChat` ignores an error chunk: the client's stream ends as complete and the
  request is recorded as `completed`. Messages, Codex and Antigravity failures are
  reported.

### Observations

These came up while modelling and have no run.

Requests. `proxyBuffered` and the error-body path of plain providers do not look at the
request's context: a disconnect is recorded as `failed` (`requirements.md:209`). A
completed call marks an OAuth account available for its revision, and a quota mark does
not move the revision: a concurrent call lifts an exhaustion that was to wait for the
administrator (`codex.go:218`, `requirements.md:233`). A failure of a request admitted
before the breaker opened restarts the cooldown and clears `probing` under a running
probe, so that two probes, of different cooldowns, may run at once
(`handler_test.go:219` speaks of one concurrent probe). An invalid 2xx of a plain provider
is not counted by the breaker, while one of Codex is. A plain stream that breaks off
after content counts as a success for the breaker. A `model_not_found` inside a
Codex stream counts as a failure, the same error as an HTTP status as a success.

Logins. `logout` cancels logins before it deletes the session, so a start request already
past `requireSession` opens a login afterwards: it holds the callback port until it
expires, and cannot store an account.

Log and catalogue. `PruneLogs` lacks the check of `CleanupLogs` that no attempt is in
progress (`requirements.md:317`): a request whose attempt's closing write failed loses the
payloads of a row that still says in progress. Texts of times make a cutoff wrong by less
than a second. A retention that fails after some batches saves no report, and of two
reports the later replaces the other. A request whose candidate or key row is deleted while
it runs fails with a 500 at `StartAttempt`, by its foreign key (`handler.go:438`,
`requirements.md:241`); a provider deleted between two queries of a load fails the whole
resolution. `DeleteVirtualModel` counts requests by the model's present name: after a
renaming it deletes a model whose history is linked by the old one (`requirements.md:384`).

Relays. The plain relay writes line by line, so that a heartbeat or an error event may
fall inside an event of the upstream (`stream_heartbeat.go:75`, `handler.go:810`). The
idle timer counts the time in which the client does not read. Bodies of errors are read
without a watcher (`handler.go:476`, `antigravity.go:190`). `proxyBuffered` never closes
its watcher, which ends by its timeout.

Streams. Reasoning that resumes after a text or a call is written to
the reasoning block that `closeReasoning` has closed (`LateReasoning`); a Messages client
that reads blocks as the gateway's own decoder does refuses it, so `SummariesAgree` leaves
these streams out and `BlocksWellFormed` lets their deltas pass. A Responses client is
told `response.completed` even when the answer was cut by its length. The decoder behind
`SummarizeStream` has no store for tool turns and warns about recorded Antigravity
streams with signed calls.

Whole bodies and streams disagree where `Comparable` and `BufferedAgrees` say so: an item
of another type refuses a body and is skipped in a stream; a Responses or Codex answer that
was cut in a turn with calls stops for `tool_use` as a body and for its length as a stream;
one that is incomplete for another reason is `max_tokens` as a body and `stop` as a stream;
a Responses client's body says incomplete where its stream says completed; the body of a cut
Codex answer has only the finished items; a missing id of a call stays empty in a body
and is made up in a stream.

Conversations. From a Responses client a call and the text after it are two messages: the
results of a Chat upstream then do not follow their calls, and Antigravity refuses to
restore the turn. A Chat upstream that gives no ids gets `call_<index>` in every turn, so
that two turns of one conversation have the same id, which Antigravity refuses
(`requirements.md:198`). Ids of a Responses client reach Codex and Responses upstreams as
they are, however long. System messages in the middle are moved to the front for Responses
clients, kept for Messages clients and refused for Chat clients. The gaps of reasoning and
ids that `requirements.md:485` documents are in `Convertible` and `ReasoningKept`.

## 4. Proofs

`ConfigCacheProofs`, for any sets of rows, items, readers, mutators and mutexes,
from `CacheAssumption`: `TypeCorrect`, `ReadsAreFresh`, `CachesAreCoherent`,
`Refinement`. `NoStaleAfterReturn` is not inductive. The invariant adds that a
mutation is between its commit and its return (`pending` never exceeds the
database, and everything above `settled` is pending), that a load under a
version that is still current has read rows that are either up to date or about
to be invalidated, and that a cached entry is never older than `settled`. The
invalidation step is the point of the argument: it moves `settled` up, and with
the same step removes the entries and advances the version of every load that
could have missed the commit. The refinement maps the phases of a read to one.

The breaker, in `GatewayRequestProofs`, for any threshold, cooldown, number of callers and
candidates, from `BreakerAssumption` and `BoundsAssumption`:
`BreakerTypeCorrect`, `BreakerProbesOnce`, `BreakerOpensOnFailures`,
`BreakerExplains`. They are theorems of `B!Spec`, the specification of `CandidateBreaker`
over the variables of the gateway, and use nothing of the gateway's own steps. The
invariant (`BreakerInv`) says of an entry that its count is at most the
streak of its revision, that an open entry has reached the threshold, and that a
probing entry has a cooldown that is over; and of a call that the cooldown it
probes is over, and, if the entry is still in that cooldown, the entry is
probing. A cooldown is identified by its end, since a new opening lies strictly
in the future.

`GatewayRequestProofs`, for any requests, candidates, kinds of provider, keys, sharing of
keys and lists of routes, from `GatewayAssumption` and the breaker's assumptions:
`GatewayTypeCorrect`, `GatewayLogCloses`, `GatewayCompletesServed`, `GatewayNeverSplices`,
`GatewayAbandonsFailed`, `GatewayResendsRenewed` (together `GatewayRequestSafe`),
`GatewayIgnoresLate`, `GatewayIsBreakerCaller`, `GatewayBreakerHolds`. What the log says of
a request cannot be kept by looking at the log, because whom the request calls next depends
on its place in its routes. The invariant therefore says of a running request
(`RunningInv`): the routes of one candidate lie together and no pair of candidate and key
comes twice (`RoutesInv`, a fact about `RouteLists`); of the routes from the place on, none
belongs to a candidate that was reported as failed, and only the one at hand may have been
called, namely by the call in flight or by the rejected call that is being resent
(`AheadInv`); an account that was resent is among the rejected ones (`PairsInv`), which is
what keeps a second candidate with the same account from resending again; a client has
content only in a relay (`PlaceInv`, `RowsInv`), and no relay that has sent content moves
to another route (`ConcludeStep`). `HeldInv` relates the place to the breaker: a request
whose place is beyond the first route of a candidate holds the admission for it, and the
loop asks again exactly where it may. `BehindInv` and `StoreInv` say that what a handler has
read is never ahead of the store, which is why a late result is known by its revision.
`skipCandidate` needs a minimum that exists (`SkipType`), found by the well-foundedness of
the natural numbers over a set. With the invariant every step of the gateway is a step of
`CandidateBreaker` or leaves it alone (`TurnedAdmission`, `NextIsStep`), so the theorems
of the breaker hold for the gateway. TLC checks the invariant on the instances of the three gateway runs.

`OAuthCredentialProofs`, for any number of callers, revisions and tokens, from
`AccountAssumption`: `AccountTypes`, `TokensNotReplayed`, `ResendsChange`,
`BlameIsCurrent`, `WritesAreCurrent`, `CooldownsSurvive`. The invariant ties the pieces together: the
lock is held by exactly the call that is in one of the locked phases (`LockInv`);
a revision a call remembers is not above the row's, and if it is the row's, then
the token it remembers is the stored one and it has read the row since the last
edit (`CallInv`, `LoginInv` for the login); an exchanged token whose replacement is
not lost is no longer the stored token, except between the exchange and its save
(`TokenInv`). Each action is a lemma; reports, edits and time are instances of
three general steps (`CallStep`, `BumpStep`, `EndStep`). For the cooldowns it takes one more
fact: only Antigravity accounts have any (`CoolInv`), since `SaveOAuthCredential` would not
carry them over.

`LoginFlowProofs`, for any sessions, providers, logins and bound on requests, from
`LoginAssumption`: `LoginTypes`, `CodesAreExchangedOnce`, `StoredBySuccess`,
`LoginsAreExclusive`, `NoOrphanAccounts`, `OutcomesAreFinal`. The invariant says of
each login (`FlowOK`) that its status, its goroutine, the mutex and its history
agree: a pending login has exchanged nothing, one that saves is active and holds
the mutex, one that stored has succeeded. Exclusion is inductive with it. Most
steps only end logins or let them go on (`Mild`), and one lemma serves them all.

`LogRetentionProofs`, for any requests, attempts, batch size, period and ranges, from
`LogAssumption`: `RowsAreKept`, `PrunedRequestsAreWhole`, `ReportsAreTrue`,
`CutoffsAreKept`. The invariant is the conjunction of the three state properties with
`Bookkeeping` (attempts only with a row, no handlers in a process that is down, an idle
cleaner has counted nothing); the batch is the step that needs them together, since it
may take a row only because an ended request has no handler. The cutoff follows from the
order of texts, which is off by one instant.

`StreamRelayProofs`, for answers of any length, from `RelayAssumption`: `TypeCorrect`,
`RelaysAreFaithful`, `ClosedChannelIsSafe`. The invariant counts units: what the reader
has read and the client has not been shown is in the reader's hand, as long as the handler
takes from it (`Counts`); an end is read only after everything before it. That a closed
channel means a cancelled context is a part of it, because the reader gives up only under
the request's context or under its own, which the handler cancels as it leaves.

`CatalogueProofs`, for any sets of rows, protocols and requests and any number of
revisions and attempts, from `CatalogueAssumption`: `TypeCorrect`, `RoutesStayWhole`,
`ReferencesAlwaysHold`, `RoutesMatchRevisions`. Routes and references are inductive
with the links of attempts (the key of an attempt is of its provider). For loads the
invariant holds of every part that has been read (`Loads`): a candidate's revision is not
behind the row's, and at the same revision provider and protocols are those of the row;
it survives every edit because a row changes only with its revision and an id never
returns (`EditsKeepLoads`).

`StreamConvertProofs`, for any number of blocks, deltas and calls, every upstream and
client protocol, and no assumption: `StreamInvariant`, `CommitsAtContentHolds`,
`SavedBeforeShownHolds`, `CodexAggregatesHolds`, `BlocksInvariant`,
`BlocksWellFormedHolds`, `BeginsAndEndsOnceHolds`. The first invariant (`StreamInv`) has one part
for each place where content can wait. For the relays of OAuth providers (`HeldBack`):
nothing with content is held back, and an encoder whose stream is open has not finished,
so that what the relay takes for content is content when it has been encoded (`Encoded`,
`Converted`). For a Codex stream that is passed through (`BlocksShown`): a block that has
something to show has shown it, since the relay looks for content only in certain events.
For Antigravity (`Recorded`): the calls that the encoder knows, and not only those that
are shown, are recorded, because the encoder closes and repeats them later. For
`codex.Stream` (`Collected`): its items are the blocks that are closed, under their
indexes; the ascending list of a finite set of indexes exists and is in order
(`AscendingLists`). What a decoder or the encoder does with one event is a lemma each, and
a lemma on the loop over them follows. These loops are folds over sequences and the
library's induction theorems cannot be instantiated here, so a property of the n-th round
is written as the set of numbers for which it holds, and `SetInduction`, from the
well-foundedness of the natural numbers, does the rest. TLC checks `StreamInv` with 2
deltas and 3 blocks.

That a stream's blocks get indexes without a gap, grow only while they are open and are
closed once (`BlocksWellFormed`) needs a second invariant, `BlockInv`, over the whole of
what was written, shown or held back. `Watched`: it is good, that is, `n` blocks were
opened with the indexes `0..n-1` and the set `C` of them is closed, every delta and close
is in place, and at the end nothing is held back and all are closed. `Encoding`: as long as
the stream is open, `n` is the encoder's `nextIndex`, `C` what it has closed, and its table
of calls is in order (`Tidy`). `Passing`: for a stream passed through they are the blocks
of the upstream. What one event does to `n` and `C` (`Turns`) is a lemma for each operation
of the encoder. These hold only for events in a certain order (`Legal`): a call starts once
under its key, grows while it is live and ends when it is known. So the decoders come in,
with a link each from the calls of the encoder to those upstream: `ChatLink` (the calls by
their index), `BlockLink` (Messages, Responses and Codex: the blocks by their index or item
id), `AntigravityLink` (a turn that is held back starts from the calls that the encoder
knows). `ChatStep`, `BlockStep` and `AntigravityBlocks` show that each decoder turns a step
of its upstream into legal events and keeps its link; `StreamInv` says that what it does not
pass on is not lost. TLC checks `BlockInv` within the same bounds, 376627 states.

`BlockInv` also says how a stream is framed (`Framing`, a part of `Watched`): what was
written has begun exactly if the encoder's `started`, or for a stream passed through the
upstream's, says so, its first event and no other begins it (chat has no event of its own
for that), and it is ended exactly when the relay is done (`Frame`); every operation of the
encoder leads from a stream framed in this way to another (`Leads`), and a Codex stream has
begun before it has blocks (`Spoken`). `BeginsAndEndsOnce`, the first conjunct of
`EndMatches`, follows.

Only model-checked: liveness (`EveryReadReturns`, `EveryRequestEnds`, `EveryCallIsServed`,
`OldPayloadsGo`, `NothingLeaks`, `EveryCallEnds`), which the prover cannot do; and of streams
and conversions `ContentKept`, `EndMatches`, `SummariesAgree`, `BufferedAgrees` and
`RequestKept`. The last three compare two recursive definitions over a whole stream or
conversation, that is, they need induction over data. `ContentKept` and the rest of
`EndMatches` (its first conjunct is proved) count every delta through decoder and encoder
with `SelectSeq` and folds whose parameter is an operator; a theorem on these cannot be
instantiated here.

## 5. Plan

1. For `ContentKept` and the usage in `EndMatches`: the deltas of a stream as a recursive
   function of its length, next to `SelectSeq`, and the usage and stop of the encoder in
   `Encoding`.
2. If runs are free: two requests on one OAuth account through `GatewayRequest`, the
   binding table of session affinity, the login limiter.

## 6. Not modelled

* Session affinity's table and the login limiter: critical sections of one mutex over a
  map. The order of routes is free in `GatewayRequest`, which covers every binding.
* Definitions of tools, their choice, images, sampling parameters and limits in requests:
  translation of documents field by field, with no state and no order of steps; tests
  reach it.
* Capabilities, protocols, expiry and model cooldowns in the selection of routes: they only
  remove routes, which `GatewayRequest` does at will.
* Statistics, health, costs and limits: queries that only read, and rows that are only
  appended. The rows of replays and compatibility checks.
* Migrations, which run alone before the server listens; configuration; the web console.
