----------------------------- MODULE StreamRelay -----------------------------
(***************************************************************************)
(* The goroutines of one upstream call: the handler, the goroutine of      *)
(* doUpstream that waits for the response, the one that reads the body and *)
(* hands it over a channel, and the watcher that closes a silent body.     *)
(***************************************************************************)
EXTENDS Naturals, Sequences, SequencesExt

CONSTANTS
  Total      \* units of a whole answer: lines, or events when they are decoded

ASSUME RelayAssumption == Total \in Nat \ {0}

VARIABLES
  relay,     \* what reads the body: lines, events (converted), oauth (Codex and
             \* Antigravity), buffered, or the reading of an answer that is not 2xx: refused
  ticker,    \* heartbeats are configured
  idle,      \* an idle timeout is configured
  ctx,       \* the request's context: live or cancelled
  client,    \* the client's connection: there or gone
  pc,        \* the handler
  status,    \* what the attempt is recorded as
  caller,    \* the goroutine of doUpstream
  answer,    \* its results channel, of capacity one
  body,      \* the response's body: none, open, closed, or aborted by the transport
  sent,      \* units the upstream has sent
  ending,    \* how the upstream has ended its answer: open, eof or cut
  reader,    \* the reading goroutine; its channel is closed when it has ended
  item,      \* the result it holds: a unit or an error
  units,     \* units it has read
  readCtx,   \* its context
  watch,     \* the watcher of idleTimeoutReader
  shown      \* units written to the client

request == <<relay, ticker, idle>>
upstream == <<sent, ending>>
calls == <<caller, answer>>
reading == <<reader, item, units, readCtx>>
vars == <<request, ctx, client, pc, status, calls, body, upstream, reading, watch, shown>>

Relay == {"lines", "events", "oauth", "buffered", "refused"}
Stream == {"lines", "events", "oauth"}
Decoded == {"events", "oauth"}

Result(unit, err) == [unit |-> unit, err |-> err]

Init ==
  /\ relay \in Relay
  /\ ticker \in BOOLEAN /\ idle \in BOOLEAN
  /\ ticker => relay \in Stream
  /\ ctx = "live" /\ client = "there"
  /\ pc = "call" /\ status = "none"
  /\ caller = "do" /\ answer = "none"
  /\ body = "none"
  /\ sent = 0 /\ ending = "open"
  /\ reader = "none" /\ item = Result(0, "none") /\ units = 0 /\ readCtx = "live"
  /\ watch = "none"
  /\ shown = <<>>

-----------------------------------------------------------------------------
(* The client, the server and the upstream.                                *)

(* The client goes away: its next write fails, and the server cancels the  *)
(* request's context as soon as it notices.                                *)
Disconnect ==
  /\ client = "there"
  /\ client' = "gone"
  /\ UNCHANGED <<request, ctx, pc, status, calls, body, upstream, reading, watch, shown>>

(* The context is also cancelled when ServeHTTP has returned.              *)
CancelContext ==
  /\ ctx = "live"
  /\ client = "gone" \/ pc = "returned"
  /\ ctx' = "cancelled"
  /\ UNCHANGED <<request, client, pc, status, calls, body, upstream, reading, watch, shown>>

(* The transport drops the connection of a request that is cancelled.      *)
Abort ==
  /\ ctx = "cancelled" /\ body = "open"
  /\ body' = "aborted"
  /\ UNCHANGED <<request, ctx, client, pc, status, calls, upstream, reading, watch, shown>>

(* The upstream sends on, ends, or breaks off; or does none of it.         *)
Send ==
  /\ body = "open" /\ ending = "open" /\ sent < Total
  /\ sent' = sent + 1
  /\ UNCHANGED <<request, ctx, client, pc, status, calls, body, ending, reading, watch, shown>>

End ==
  /\ body = "open" /\ ending = "open"
  /\ ending' \in {"eof", "cut"}
  /\ UNCHANGED <<request, ctx, client, pc, status, calls, body, sent, reading, watch, shown>>

-----------------------------------------------------------------------------
(* doUpstream.                                                             *)

(* client.Do: the response's header, or an error; a cancelled context is   *)
(* an error unless the header has just arrived.  Only a call that beats    *)
(* meanwhile has it run by a goroutine; the calls of OAuth accounts do not.*)
BeatsInCall == ticker /\ relay # "oauth"

Do ==
  /\ caller = "do"
  /\ \/ answer' = "response" /\ body' = "open"
     \/ answer' = "error" /\ UNCHANGED body
  /\ caller' = IF BeatsInCall THEN "offer" ELSE "ended"
  /\ UNCHANGED <<request, ctx, client, pc, status, upstream, reading, watch, shown>>

(* The select of the goroutine.  The results channel has room, and once    *)
(* the handler has left, done is ready as well: the body is closed, or     *)
(* stays with a result that nobody takes.                                  *)
Offer ==
  /\ caller = "offer"
  /\ caller' = "ended"
  /\ body' \in {body} \cup (IF pc # "call" /\ body = "open" THEN {"closed"} ELSE {})
  /\ UNCHANGED <<request, ctx, client, pc, status, answer, upstream, reading, watch, shown>>

(* The handler leaves the call or the relay with a status.  The generic    *)
(* relays have cancelled the reader's context (defer cancelRead) when the  *)
(* attempt's end is written; those of OAuth providers do so after it.      *)
Leave(s) ==
  /\ status' = s
  /\ pc' = "log"
  /\ readCtx' = IF relay = "oauth" THEN readCtx ELSE "cancelled"

(* What an error is recorded as where the context is asked about it.       *)
FailedOrCancelled == IF ctx = "cancelled" THEN "cancelled" ELSE "failed"

TakeError ==
  /\ pc = "call" /\ caller = "ended" /\ answer = "error"
  /\ Leave(FailedOrCancelled)
  /\ UNCHANGED <<request, ctx, client, calls, body, upstream, reader, item, units, watch, shown>>

(* A 2xx answer: the watcher is started, and for a stream the reader.  An  *)
(* error's body is read without a watcher.                                 *)
TakeResponse ==
  /\ pc = "call" /\ caller = "ended" /\ answer = "response"
  /\ pc' = "relay"
  /\ answer' = "taken"
  /\ watch' = IF idle /\ relay # "refused" THEN "armed" ELSE "none"
  /\ reader' = IF relay \in Stream THEN "read" ELSE "none"
  /\ UNCHANGED <<request, ctx, client, status, caller, body, upstream, item, units, readCtx,
                 shown>>

(* The handler waits in a select with the context and the heartbeat's      *)
(* ticker, which may win whenever they are ready.                          *)
Waiting ==
  \/ pc = "call" /\ BeatsInCall
  \/ pc = "relay" /\ relay \in Stream

SeeCancelled ==
  /\ Waiting /\ ctx = "cancelled"
  /\ Leave("cancelled")
  /\ UNCHANGED <<request, ctx, client, calls, body, upstream, reader, item, units, watch, shown>>

(* The relays of OAuth providers beat once they have shown something.      *)
BeatFails ==
  /\ Waiting /\ ticker /\ client = "gone"
  /\ relay = "oauth" => shown # <<>>
  /\ Leave("cancelled")
  /\ UNCHANGED <<request, ctx, client, calls, body, upstream, reader, item, units, watch, shown>>

-----------------------------------------------------------------------------
(* The body.                                                               *)

(* What a Read yields; it blocks until there is something.  Closing or     *)
(* aborting the body unblocks it with an error; what bufio.Reader already  *)
(* holds, units or the end, may come first.  (The flag of the timeout, set *)
(* before the body is closed, gives the error its wording.)                *)
Reads ==
  (IF body \in {"closed", "aborted"} THEN {Result(0, "broken")} ELSE {})
  \cup (IF units < sent THEN {Result(units + 1, "none")}
        ELSE IF ending # "open" THEN {Result(0, ending)} ELSE {})

(* readStreamLines, readStreamEvents.                                      *)
Read ==
  /\ reader = "read"
  /\ \E read \in Reads :
       /\ item' = read
       /\ units' = units + (IF read.err = "none" THEN 1 ELSE 0)
  /\ reader' = "offer"
  /\ UNCHANGED <<request, ctx, client, pc, status, calls, body, upstream, readCtx, watch, shown>>

(* The reader's other choice while it offers its result.                   *)
MayGiveUpIdle == readCtx = "cancelled" \/ ctx = "cancelled" \/ watch = "ended"

MayGiveUp == readCtx = "cancelled" \/ ctx = "cancelled"

GiveUp ==
  /\ reader = "offer"
  /\ MayGiveUp
  /\ reader' = "ended"
  /\ item' = Result(0, "none")
  /\ UNCHANGED <<request, ctx, client, pc, status, calls, body, upstream, units, readCtx,
                 watch, shown>>

AfterHandOver(read) == IF read.err = "none" THEN "read" ELSE "ended"

VerdictAnyEnd(err) ==
  IF err = "eof" THEN "completed"
  ELSE IF relay = "oauth" THEN FailedOrCancelled ELSE "failed"

(* The end of the body completes an answer of lines only.                  *)
Verdict(err) ==
  IF err = "eof" /\ relay = "lines" THEN "completed"
  ELSE IF relay = "oauth" THEN FailedOrCancelled ELSE "failed"

(* What an answer that has been taken whole is recorded as.  The relays of *)
(* OAuth providers still reject one whose usage or content they cannot put *)
(* together, and proxyAntigravity records a cancelled context regardless.  *)
WholeVerdicts ==
  {"completed"} \cup (IF relay = "oauth" THEN {"failed", FailedOrCancelled} ELSE {})

(* The handler takes the result.  An event that ends the answer completes  *)
(* it.  A write to a client that has gone may fail.                        *)
Receive ==
  /\ pc = "relay" /\ reader = "offer"
  /\ reader' = AfterHandOver(item)
  /\ item' = Result(0, "none")
  /\ IF item.err # "none"
     THEN /\ Leave(Verdict(item.err))
          /\ UNCHANGED shown
     ELSE \/ /\ shown' = Append(shown, item.unit)
             /\ IF relay \in Decoded /\ item.unit = Total
                THEN \E s \in WholeVerdicts : Leave(s)
                ELSE pc' = "wrote" /\ UNCHANGED <<status, readCtx>>
          \/ /\ client = "gone"
             /\ Leave("cancelled")
             /\ UNCHANGED shown
  /\ UNCHANGED <<request, ctx, client, calls, body, upstream, units, watch>>

(* The client has taken the bytes; the generic relays look at the context  *)
(* again.                                                                  *)
Wrote ==
  /\ pc = "wrote"
  /\ IF ctx = "cancelled" /\ relay # "oauth"
     THEN Leave("cancelled")
     ELSE pc' = "relay" /\ UNCHANGED <<status, readCtx>>
  /\ UNCHANGED <<request, ctx, client, calls, body, upstream, reader, item, units, watch, shown>>

(* The channel is closed: the message is that of the context's error; the  *)
(* relays of OAuth providers are prepared for there being none.            *)
ReceiveClosed ==
  /\ pc = "relay" /\ reader = "ended"
  /\ Leave(IF relay = "oauth" THEN FailedOrCancelled ELSE "cancelled")
  /\ UNCHANGED <<request, ctx, client, calls, body, upstream, reader, item, units, watch, shown>>

(* io.ReadAll in the handler itself; proxyBuffered then writes once.       *)
ReadAll ==
  /\ pc = "relay" /\ relay \notin Stream
  /\ \E read \in Reads :
       IF read.err = "none"
       THEN /\ units' = units + 1
            /\ UNCHANGED <<pc, status, readCtx, shown>>
       ELSE /\ IF read.err # "eof" \/ relay = "refused" THEN Leave("failed") /\ UNCHANGED shown
               ELSE \/ Leave("completed") /\ shown' = [n \in 1..units |-> n]
                    \/ client = "gone" /\ Leave("cancelled") /\ UNCHANGED shown
            /\ UNCHANGED units
  /\ UNCHANGED <<request, ctx, client, calls, body, upstream, reader, item, watch>>

FireFlagOnly ==
  /\ watch = "armed"
  /\ watch' = "ended"
  /\ UNCHANGED <<request, ctx, client, pc, status, calls, body, upstream, reading, shown>>

(* The timer of the watcher: nothing has been read for the whole timeout.  *)
Fire ==
  /\ watch = "armed"
  /\ watch' = "ended"
  /\ body' = IF body = "open" THEN "closed" ELSE body
  /\ UNCHANGED <<request, ctx, client, pc, status, calls, upstream, reading, shown>>

Committed == relay = "lines" \/ shown # <<>>

CloseCommitted ==
  /\ pc = "log"
  /\ body' = IF body = "open" /\ Committed THEN "closed" ELSE body
  /\ watch' = IF watch = "none" \/ relay = "buffered" THEN watch ELSE "ended"
  /\ readCtx' = "cancelled"
  /\ pc' = IF status = "failed" /\ (answer = "error" \/ ~Committed) THEN "loop" ELSE "returned"
  /\ UNCHANGED <<request, ctx, client, status, calls, upstream, reader, item, units, shown>>

(* The attempt is recorded, and what is deferred runs: proxyCodex and      *)
(* proxyAntigravity cancel the reader's context, and the body is closed.   *)
(* A stream's Close ends the watcher; proxyBuffered closes the body        *)
(* beneath its watcher.  The loop takes the next route only if the client  *)
(* has seen nothing; it may be busy there for as long as it likes.         *)
Close ==
  /\ pc = "log"
  /\ body' = IF body = "open" /\ answer = "taken" THEN "closed" ELSE body
  /\ watch' = IF watch = "none" \/ relay = "buffered" THEN watch ELSE "ended"
  /\ readCtx' = "cancelled"
  /\ pc' = IF status = "failed" /\ (answer = "error" \/ ~Committed) THEN "loop" ELSE "returned"
  /\ UNCHANGED <<request, ctx, client, status, calls, upstream, reader, item, units, shown>>

Return ==
  /\ pc = "loop"
  /\ pc' = "returned"
  /\ UNCHANGED <<request, ctx, client, status, calls, body, upstream, reading, watch, shown>>

Handler ==
  TakeError \/ TakeResponse \/ SeeCancelled \/ Receive \/ Wrote \/ ReceiveClosed \/ ReadAll \/ Close

Next ==
  \/ Disconnect \/ CancelContext \/ Abort \/ Send \/ End
  \/ Do \/ Offer \/ Handler \/ BeatFails
  \/ Read \/ GiveUp \/ Fire \/ Return

Spec == Init /\ [][Next]_vars

(* The goroutines run; client.Do returns (the transport has timeouts for   *)
(* the connection and the header); the idle timer fires; a write to the    *)
(* client ends; the server cancels contexts, and the transport obeys.  The *)
(* upstream may fall silent at any point, and the client may stay.         *)
FairSpec ==
  /\ Spec
  /\ WF_vars(CancelContext) /\ WF_vars(Abort)
  /\ WF_vars(Do) /\ WF_vars(Offer) /\ WF_vars(Handler)
  /\ WF_vars(Read) /\ WF_vars(GiveUp) /\ WF_vars(Fire)

-----------------------------------------------------------------------------
(* Properties.                                                             *)

TypeOK ==
  /\ relay \in Relay /\ {ticker, idle} \subseteq BOOLEAN
  /\ ctx \in {"live", "cancelled"} /\ readCtx \in {"live", "cancelled"}
  /\ client \in {"there", "gone"}
  /\ pc \in {"call", "relay", "wrote", "log", "loop", "returned"}
  /\ status \in {"none", "completed", "failed", "cancelled"}
  /\ caller \in {"do", "offer", "ended"} /\ answer \in {"none", "response", "taken", "error"}
  /\ body \in {"none", "open", "closed", "aborted"}
  /\ sent \in 0..Total /\ ending \in {"open", "eof", "cut"}
  /\ reader \in {"none", "read", "offer", "ended"} /\ units \in 0..Total
  /\ item \in [unit : 0..Total, err : {"none", "eof", "cut", "broken"}]
  /\ watch \in {"none", "armed", "ended"}
  /\ shown \in Seq(1..Total)

(* The client is shown a beginning of what the upstream sent, each unit    *)
(* once and in order, whatever goroutine loses which select; and an        *)
(* attempt is recorded as completed only when it is all of it: up to the   *)
(* upstream's own end of a plain answer, up to the last event of one that  *)
(* is decoded, never up to a timeout or a cancellation.                    *)
RelayIsFaithful ==
  /\ shown = [n \in 1..Len(shown) |-> n] /\ Len(shown) <= sent
  /\ status = "completed" =>
       IF relay \in Decoded THEN Len(shown) = Total ELSE ending = "eof" /\ Len(shown) = sent

(* The handler finds its reader's channel closed only under a cancelled    *)
(* context: it dereferences ctx.Err() there, which is nil before           *)
(* (proxyPassthroughEvents, proxyConvertedEvents).                         *)
ClosedMeansCancelled ==
  pc = "relay" /\ reader = "ended" => ctx = "cancelled"

(* Nothing stays behind: once the handler has left a call, its goroutines  *)
(* end and the response's body is closed or its connection dropped, even   *)
(* while the loop goes on with another route under a context that lives.   *)
NothingLeaks ==
  pc \in {"loop", "returned"} ~>
    caller = "ended" /\ reader \in {"none", "ended"} /\ watch \in {"none", "ended"} /\ body # "open"

(* No call hangs: with an idle timeout an upstream that falls silent,      *)
(* before its header or in the middle of an answer, ends in the handler's  *)
(* leaving it; without one, or in the body of an error, which has none,    *)
(* the client's going away does.                                           *)
EveryCallEnds ==
  ((idle /\ relay # "refused") \/ client = "gone") /\ pc \in {"call", "relay", "wrote", "log"} ~> pc \in {"loop", "returned"}
=============================================================================
