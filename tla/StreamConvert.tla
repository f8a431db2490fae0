---------------------------- MODULE StreamConvert ----------------------------
(***************************************************************************)
(* One streamed answer on its way through the gateway: an upstream writes  *)
(* a well-formed stream in its protocol, the gateway converts it event by  *)
(* event (protocol.StreamConverter) and relays it to the client.  The      *)
(* upstream may report an error at any point, or stop.                     *)
(***************************************************************************)
EXTENDS StreamEncode, StreamSummary, ResponseConvert

CONSTANTS
  MaxDeltas,   \* bound: deltas that an upstream sends
  MaxBlocks    \* bound: blocks, or calls, that an upstream opens

ASSUME StreamAssumption == MaxDeltas \in Nat /\ MaxBlocks \in Nat

VARIABLES
  from,      \* the kind of upstream
  to,        \* the protocol of the client
  up,        \* what the upstream has said, and which of its blocks are open
  sent,      \* its events: the body that the attempt records
  codex,     \* codex.Stream
  dec,       \* StreamConverter.decoder
  enc,       \* StreamConverter.encoder
  pending,   \* events the relay holds back before the first content
  seen,      \* events the client has got
  saved,     \* the calls recorded by saveTools
  status     \* "open", "done", or "failed"

vars == <<from, to, up, sent, codex, dec, enc, pending, seen, saved, status>>

Upstream == {"chat", "messages", "responses", "codex", "antigravity"}
Client == {"chat", "messages", "responses"}

protocolOf(f) == IF f = "codex" THEN "responses" ELSE f

(* NewStreamConverter refuses equal protocols; only a Codex stream is read *)
(* event by event although its client speaks the same protocol.            *)
PassThrough == from = "codex" /\ to = "responses"

(* The relays of OAuth providers hold back what has no content yet. *)
HoldsBack == from \in {"codex", "antigravity"}

Silence ==
  [begun |-> FALSE, text |-> <<>>, reasoning |-> <<>>, blocks |-> <<>>, n |-> 0,
   stop |-> "", usage |-> NoUsage, broke |-> FALSE]

Init ==
  /\ from \in Upstream /\ to \in Client
  /\ from # to
  /\ up = [Silence EXCEPT !.begun = from \in {"chat", "antigravity"}]
  /\ codex = newCodexStream
  /\ dec = newStreamDecoder
  /\ enc = newStreamEncoder(to)
  /\ sent = <<>> /\ pending = <<>> /\ seen = <<>> /\ saved = <<>>
  /\ status = "open"

-----------------------------------------------------------------------------
(* The gateway *)

\* Mutant: the start of a call is not taken for content.
encodeEventDeltasOnly(acc, ev) ==
  LET w == Encode(acc.enc, ev)
  IN [enc |-> w.enc, out |-> acc.out \o w.out,
      done |-> acc.done \/ ev.kind = "done",
      semantic |-> \/ acc.semantic
                   \/ ev.kind \in {"text", "reasoning", "tool_delta"} /\ ev.delta # 0]

(* StreamConverter.Convert after decoding: the events are encoded one      *)
(* after the other, and the answer tells whether any of them has content.  *)
Joined(acc, ev, w) ==
  [enc |-> w.enc, out |-> acc.out \o w.out,
      done |-> acc.done \/ ev.kind = "done",
      semantic |-> \/ acc.semantic
                   \/ ev.kind \in {"text", "tool_delta"} /\ ev.delta # 0
                   \/ ev.kind = "reasoning" /\ ev.delta # 0 /\ w.out # <<>>
                   \/ ev.kind = "tool_start"]

encodeEvent(acc, ev) ==
  Joined(acc, ev,
    Encode(acc.enc, IF from = "antigravity" /\ to = "messages" /\ ev.kind = "usage"
                      THEN [ev EXCEPT !.usage = AccountingUsage(@)] ELSE ev))

Convert(events) ==
  Fold(encodeEvent,
           [enc |-> enc, out |-> <<>>, done |-> FALSE, semantic |-> FALSE], events)

(* The relays: the generic one writes what the encoder gives; the others   *)
(* from the first content, or the end, on.                                 *)
Relay(out, semantic, done) ==
  /\ IF HoldsBack /\ ~semantic /\ ~done /\ seen = <<>>
       THEN pending' = pending \o out /\ UNCHANGED seen
       ELSE seen' = seen \o pending \o out /\ pending' = <<>>
  /\ status' = IF done THEN "done" ELSE "open"

GiveUp ==
  /\ status' = "failed"
  /\ UNCHANGED <<codex, dec, enc, pending, seen, saved>>

Pass(in) ==
  LET next == Consume(codex, in)
  IN /\ codex' = next
     /\ Relay(<<Consumed(codex, in)>>, CodexSemantic(in), next.done)
     /\ UNCHANGED <<dec, enc, saved>>

Translate(in, save) ==
  \E event  \in {IF from = "codex" THEN Consumed(codex, in) ELSE in},
     next   \in {IF from = "codex" THEN Consume(codex, in) ELSE codex} :
  \E answer \in {Decode(protocolOf(from), dec, event, save)} :
  \E result \in {Convert(answer.events)} :
     IF answer.error THEN GiveUp
     ELSE /\ codex' = next
          /\ dec' = answer.dec
          /\ enc' = result.enc
          /\ saved' = saved \o answer.turn
          /\ Relay(result.out, result.semantic,
                   IF from = "codex" THEN next.done ELSE result.done)

(* One event of the upstream, and all the gateway does about it. *)
Send(in, u) ==
  /\ status = "open"
  /\ up' = u
  /\ sent' = Append(sent, in)
  /\ IF from = "codex" /\ CodexRefuses(codex, in) THEN GiveUp
     ELSE IF PassThrough THEN Pass(in)
     ELSE \E save \in IF from = "antigravity" THEN {"ok", "fails"} ELSE {"none"} :
            Translate(in, save)
  /\ UNCHANGED <<from, to>>

-----------------------------------------------------------------------------
(* The upstream, as its protocol lets it be.  The n-th delta is n. *)

Fresh(k) == IF up.n + k <= MaxDeltas THEN {up.n + k} ELSE {}
MayBeEmpty(k) == {0} \cup Fresh(k)

Early == [input |-> 5, cache |-> 2, output |-> 0]
Late == [input |-> 0, cache |-> 0, output |-> 7]
Whole == [input |-> 5, cache |-> 2, output |-> 7]

Spends(u, k) == [u EXCEPT !.n = @ + k]
Stops(u, reason, usage) ==
  [u EXCEPT !.stop = reason, !.usage = usage]

Says(u, kind, d) ==
  CASE kind = "text"      -> [u EXCEPT !.text = Cat(@, d)]
    [] kind = "reasoning" -> [u EXCEPT !.reasoning = Cat(@, d)]
    [] OTHER              -> u

Starts(u, kind, id, d) ==
  Says([u EXCEPT !.blocks = Append(@, [kind |-> kind, call |-> id,
                                       content |-> Cat(<<>>, d), open |-> TRUE])],
       kind, d)

Adds(u, k, d) ==
  Says([u EXCEPT !.blocks[k].content = Cat(@, d)], u.blocks[k].kind, d)

OpenBlocks == {k \in DOMAIN up.blocks : up.blocks[k].open}
MayOpen == up.begun /\ up.stop = "" /\ ~up.broke /\ Len(up.blocks) < MaxBlocks
NextCall == Len(up.blocks) + 1

Done(u, k) ==
  [kind |-> u.blocks[k].kind, call |-> u.blocks[k].call, content |-> u.blocks[k].content]
DoneBlocks ==
  LET indexes == Ascending({k - 1 : k \in DOMAIN up.blocks \ OpenBlocks})
  IN [n \in DOMAIN indexes |-> Done(up, indexes[n] + 1)]

InBlocksUpstream == from \in {"messages", "responses", "codex"}
Named(messages, responses) == IF from = "messages" THEN messages ELSE responses

(* Messages and Responses: blocks, one after the other; calls of a Codex   *)
(* stream may overlap.  The first id may be missing, though not with Codex;*)
(* a block of another type comes first, if at all.                         *)
Begin ==
  /\ ~up.begun
  /\ Send([blank EXCEPT !.type = Named("message_start", "response.created"),
                        !.usage = Named(Early, NoUsage)],
          [up EXCEPT !.begun = TRUE, !.usage = Named(Early, NoUsage)])

OpenBlock(kind) ==
  /\ InBlocksUpstream /\ MayOpen
  /\ \A k \in OpenBlocks : from = "codex" /\ {kind, up.blocks[k].kind} = {"tool"}
  /\ kind = "opaque" => up.blocks = <<>>
  /\ \E id \in IF kind # "tool" THEN {0}
               ELSE {NextCall} \cup (IF from # "codex" /\ up.blocks = <<>> THEN {0} ELSE {}),
        d \in IF \/ kind = "tool" /\ from # "codex"
                 \/ kind # "opaque" /\ from = "messages"
                THEN MayBeEmpty(1) ELSE {0} :
       Send([blank EXCEPT !.type = Named("content_block_start",
                                         "response.output_item.added"),
                          !.kind = kind, !.index = Len(up.blocks),
                          !.call = id, !.delta = d],
            Spends(Starts(up, kind, id, d), IF d = 0 THEN 0 ELSE 1))

GrowBlock ==
  /\ InBlocksUpstream /\ Fresh(1) # {}
  /\ \E k \in OpenBlocks, d \in MayBeEmpty(1) :
       /\ up.blocks[k].kind # "opaque"
       /\ Send([blank EXCEPT !.type = Named("content_block_delta", "response.delta"),
                             !.kind = up.blocks[k].kind, !.index = k - 1, !.delta = d],
               Spends(Adds(up, k, d), 1))

CloseBlock ==
  /\ InBlocksUpstream
  /\ \E k \in OpenBlocks :
       Send(IF from = "messages"
              THEN [blank EXCEPT !.type = "content_block_stop", !.index = k - 1]
              ELSE [blank EXCEPT !.type = "response.output_item.done",
                                 !.kind = up.blocks[k].kind, !.index = k - 1,
                                 !.call = up.blocks[k].call,
                                 !.content = up.blocks[k].content],
            [up EXCEPT !.blocks[k].open = FALSE])

MessageDelta ==
  /\ from = "messages" /\ up.begun /\ up.stop = "" /\ OpenBlocks = {}
  /\ \E reason \in {"end_turn", "max_tokens", "tool_use"} :
       Send([blank EXCEPT !.type = "message_delta", !.stop = reason, !.usage = Late],
            Stops(up, reason, Whole))

MessageStop ==
  /\ from = "messages" /\ up.stop # ""
  /\ Send([blank EXCEPT !.type = "message_stop"], up)

(* Only the limit of tokens, or an error, leaves blocks open; a Codex      *)
(* response may come without its output, and its last event may have a     *)
(* status or an error that contradicts its type: "other".                  *)
ResponseEnds(type, reason) ==
  /\ from \in {"responses", "codex"} /\ up.begun
  /\ OpenBlocks # {} => reason = "max_output_tokens"
  /\ reason \in {"content_filter", "other"} => from = "codex"
  /\ \E output \in IF from = "codex" /\ type = "response.completed"
                    THEN {<<>>, DoneBlocks} ELSE {<<>>} :
       Send([blank EXCEPT !.type = type, !.stop = reason, !.usage = Whole,
                          !.output = output],
            [Stops(up, reason, Whole) EXCEPT !.broke = type = "response.failed"])

(* Chat: any parts of a chunk may be missing; the usage may have a chunk   *)
(* of its own after the finish_reason. *)
Call(i, id, d) == [index |-> i, call |-> id, delta |-> d]

ChatContent ==
  /\ from = "chat" /\ up.stop = "" /\ ~up.broke
  /\ \E r \in MayBeEmpty(1), c \in MayBeEmpty(1) \cup Fresh(2) :
       LET k == IF r # 0 /\ c # 0 THEN 2 ELSE 1
       IN /\ r + c # 0
          /\ c # 0 => c = up.n + k
          /\ Send([Chunk EXCEPT !.reasoning = r, !.delta = c],
                  Spends(Says(Says(up, "reasoning", r), "text", c), k))

ChatCall ==
  /\ from = "chat" /\ MayOpen
  /\ \E id \in {NextCall} \cup (IF up.blocks = <<>> THEN {0} ELSE {}),
        d \in MayBeEmpty(1) :
       Send([Chunk EXCEPT !.tools = <<Call(Len(up.blocks), id, d)>>],
            Spends(Starts(up, "tool", id, d), IF d = 0 THEN 0 ELSE 1))

ChatTwoCalls ==
  /\ from = "chat" /\ MayOpen /\ Len(up.blocks) + 1 < MaxBlocks
  /\ Send([Chunk EXCEPT !.tools = <<Call(Len(up.blocks), NextCall, 0),
                                    Call(Len(up.blocks) + 1, NextCall + 1, 0)>>],
          Starts(Starts(up, "tool", NextCall, 0), "tool", NextCall + 1, 0))

ChatArguments ==
  /\ from = "chat" /\ up.stop = "" /\ ~up.broke
  /\ \E k \in DOMAIN up.blocks, d \in Fresh(1) :
       Send([Chunk EXCEPT !.tools = <<Call(k - 1, 0, d)>>], Spends(Adds(up, k, d), 1))

ChatFinish ==
  /\ from = "chat" /\ up.stop = "" /\ ~up.broke
  /\ \E reason \in {"stop", "length", "tool_calls"}, c \in MayBeEmpty(1),
        u \in {NoUsage, Whole} :
       Send([Chunk EXCEPT !.delta = c, !.stop = reason, !.usage = u],
            Stops(Spends(Says(up, "text", c), IF c = 0 THEN 0 ELSE 1), reason, u))

ChatUsage ==
  /\ from = "chat" /\ up.stop # "" /\ up.usage = NoUsage
  /\ Send([Chunk EXCEPT !.usage = Whole], Stops(up, up.stop, Whole))

ChatDone == from = "chat" /\ Send([blank EXCEPT !.type = "DONE"], up)

(* Antigravity: documents of up to two parts; a call is one part. *)
Part(kind, id, d, signed) == [kind |-> kind, call |-> id, delta |-> d, signed |-> signed]
Parts(u, part) ==
  LET v == Spends(u, 1)
  IN IF part.kind = "tool" THEN Starts(v, "tool", part.call, part.delta)
                           ELSE Says(v, part.kind, part.delta)

PartsOf(kinds, id, signed) ==
  [k \in DOMAIN kinds |-> Part(kinds[k], IF k = 1 THEN id ELSE NextCall + 1, up.n + k,
                               signed /\ k = 1)]

Document(parts, reason) ==
  LET u     == Fold(Parts, up, parts)
      usage == IF reason = "" THEN NoUsage ELSE Whole
  IN /\ Len(u.blocks) <= MaxBlocks /\ u.n <= MaxDeltas
     /\ Send([blank EXCEPT !.parts = parts, !.stop = reason, !.usage = usage],
             [Stops(u, reason, usage) EXCEPT !.broke = reason = "SAFETY"])

AntigravityDocument ==
  /\ from = "antigravity" /\ up.stop = ""
  /\ \E kinds \in UNION {[1..k -> {"text", "reasoning", "tool"}] : k \in 0..2},
        id \in {0, NextCall}, signed \in BOOLEAN,
        reason \in {"", "STOP", "MAX_TOKENS", "SAFETY"} :
       /\ kinds = <<>> => reason # "" /\ id = 0 /\ ~signed
       /\ Document(PartsOf(kinds, id, signed), reason)

(* An error in the middle of the stream; in a Chat stream it is a chunk    *)
(* without choices. *)
ReportError ==
  /\ up.begun /\ ~up.broke
  /\ Send(IF from = "chat" THEN Chunk ELSE [blank EXCEPT !.type = "error"],
          [up EXCEPT !.broke = TRUE])

Next ==
  \/ Begin
  \/ \E kind \in {"text", "reasoning", "tool", "opaque"} : OpenBlock(kind)
  \/ GrowBlock
  \/ CloseBlock
  \/ MessageDelta
  \/ MessageStop
  \/ \E reason \in {"", "other"} : ResponseEnds("response.completed", reason)
  \/ \E reason \in {"max_output_tokens", "content_filter", "other"} :
       ResponseEnds("response.incomplete", reason)
  \/ ResponseEnds("response.failed", "")
  \/ ChatContent
  \/ ChatCall
  \/ ChatTwoCalls
  \/ ChatArguments
  \/ ChatFinish
  \/ ChatUsage
  \/ ChatDone
  \/ AntigravityDocument
  \/ ReportError

Spec == Init /\ [][Next]_vars

-----------------------------------------------------------------------------
(* What the client makes of its stream *)

Opens(w) == w.type \in {"content_block_start", "response.output_item.added"}
Grows(w) == w.type \in {"content_block_delta", "response.delta"}
Closes(w) == w.type \in {"content_block_stop", "response.output_item.done"}
Begins(w) == w.type \in {"message_start", "response.created"}
Ends(w) == w.type \in {"DONE", "message_stop"} \cup CodexTerminal

DeltaOf(w, kind) ==
  CASE w.type = "chunk" -> IF kind = "text" THEN w.delta ELSE w.reasoning
    [] Grows(w) /\ w.kind = kind -> w.delta
    [] OTHER -> 0

Got(kind) ==
  LET pieces == SelectSeq(seen, LAMBDA w : DeltaOf(w, kind) # 0)
  IN [n \in DOMAIN pieces |-> DeltaOf(pieces[n], kind)]

(* What an event has for calls: [index, call, delta], call # 0 or a block  *)
(* at the opening. *)
CallsOf(w) ==
  IF (Opens(w) \/ Grows(w)) /\ w.kind = "tool"
    THEN <<Call(w.index, w.call, w.delta)>> ELSE w.tools

StartsCall(w) ==
  CallsOf(w) # <<>> /\ ~Grows(w) /\ (Opens(w) \/ CallsOf(w)[1].call # 0)

(* The calls in the order in which they were opened, and their arguments. *)
GotCalls ==
  LET opening == SelectSeq(seen, StartsCall)
  IN [n \in DOMAIN opening |-> CallsOf(opening[n])[1]]
GotArguments(i) ==
  LET pieces == SelectSeq(seen, LAMBDA w : /\ CallsOf(w) # <<>>
                                           /\ CallsOf(w)[1].index = i
                                           /\ CallsOf(w)[1].delta # 0)
  IN [n \in DOMAIN pieces |-> CallsOf(pieces[n])[1].delta]

SaidCalls == SelectSeq(up.blocks, LAMBDA b : b.kind = "tool")

(* Thinking that goes on after a text or a call is written to the block    *)
(* that closeReasoning has closed: a known defect, see the README.         *)
LateReasoning ==
  \E i, j \in DOMAIN seen :
    /\ i < j /\ Closes(seen[i]) /\ Grows(seen[j])
    /\ seen[j].kind = "reasoning" /\ seen[j].index = seen[i].index

-----------------------------------------------------------------------------
(* Properties *)

(* The state stays in its types. *)
TypeOK ==
  /\ from \in Upstream /\ to \in Client
  /\ up.n \in 0..MaxDeltas /\ Len(up.blocks) \in 0..MaxBlocks
  /\ enc.nextIndex \in 0..MaxBlocks + 2 /\ Len(enc.tools) \in 0..MaxBlocks
  /\ dec.started \in BOOLEAN /\ dec.ended \in BOOLEAN
  /\ codex.done \in BOOLEAN
  /\ status \in {"open", "done", "failed"}

(* The client gets the text, the reasoning and every call with its id and  *)
(* arguments, in the upstream's order, nothing twice and nothing made up;  *)
(* while the stream is whole nothing is missing either, but for the calls  *)
(* of an Antigravity turn, which wait for its end.                         *)
ContentKept ==
  LET calls == GotCalls IN
  /\ IsPrefix(Got("text"), up.text) /\ IsPrefix(Got("reasoning"), up.reasoning)
  /\ Len(calls) <= Len(SaidCalls)
  /\ \A k \in DOMAIN calls :
       /\ IsPrefix(GotArguments(calls[k].index), SaidCalls[k].content)
       /\ from # "antigravity" /\ SaidCalls[k].call # 0
            => calls[k].call = SaidCalls[k].call
       /\ \A j \in DOMAIN calls : j # k => /\ calls[j].call # calls[k].call
                                              /\ calls[j].index # calls[k].index
  /\ status = "done" \/ (status = "open" /\ from # "antigravity") =>
       /\ Got("text") = up.text /\ Got("reasoning") = up.reasoning
       /\ Len(calls) = Len(SaidCalls)
       /\ \A k \in DOMAIN calls :
            GotArguments(calls[k].index) = SaidCalls[k].content

(* A Messages or Responses client sees every block opened once, under      *)
(* indexes without a gap, its deltas between opening and closing (but for  *)
(* LateReasoning), and every block closed once before the end.             *)
BlocksWellFormed ==
  /\ \A i \in DOMAIN seen :
       /\ Opens(seen[i]) =>
            seen[i].index = Cardinality({j \in 1..i - 1 : Opens(seen[j])})
       /\ Grows(seen[i]) \/ Closes(seen[i]) =>
            /\ \E j \in 1..i - 1 : Opens(seen[j]) /\ seen[j].index = seen[i].index
            /\ ~(seen[i].kind = "reasoning" /\ Grows(seen[i])) =>
               \A j \in 1..i - 1 : Closes(seen[j]) => seen[j].index # seen[i].index
  /\ status = "done" /\ ~PassThrough =>
       \A i \in DOMAIN seen : Opens(seen[i]) =>
         \E j \in DOMAIN seen : Closes(seen[j]) /\ seen[j].index = seen[i].index

(* The stream has one beginning (in chat, its first chunk) as its first    *)
(* event and, exactly when it is done, one end as its last.                *)
BeginsAndEndsOnce ==
  /\ to # "chat" /\ seen # <<>> => Begins(seen[1])
  /\ \A i \in DOMAIN seen : Begins(seen[i]) => i = 1
  /\ \A i \in DOMAIN seen : Ends(seen[i]) => i = Len(seen) /\ status = "done"
  /\ status = "done" => Ends(seen[Len(seen)])

(* And the end carries the usage of the upstream and tells a turn that was *)
(* cut off, or that waits for tools; response.completed repeats what was   *)
(* streamed.                                                               *)
EndMatches ==
  LET final == seen[Len(seen)]
      told  == IF to = "responses" THEN final ELSE seen[Len(seen) - 1]
      usage == IF from = "antigravity" /\ to = "messages"
                 THEN AccountingUsage(up.usage) ELSE up.usage
      cut   == up.stop \in {"length", "max_tokens", "MAX_TOKENS", "max_output_tokens"}
      tools == IF from \in {"chat", "messages"}
                 THEN up.stop \in {"tool_calls", "tool_use"} ELSE SaidCalls # <<>>
  IN /\ BeginsAndEndsOnce
     /\ status = "done" =>
          /\ told.usage = usage
          /\ to # "responses" =>
               /\ cut <=> told.stop \in {"length", "max_tokens"}
               /\ tools /\ ~cut <=> told.stop \in {"tool_calls", "tool_use"}
          /\ to = "responses" /\ ~PassThrough =>
               \A k \in DOMAIN final.output :
                 /\ \E i \in DOMAIN seen : Opens(seen[i]) /\ seen[i].index = k - 1
                                           /\ seen[i].kind = final.output[k].kind
                 /\ CASE final.output[k].kind = "tool" ->
                           final.output[k].content = GotArguments(k - 1)
                      [] OTHER -> final.output[k].content = Got(final.output[k].kind)

HasContent(w) ==
  w.delta # 0 \/ w.reasoning # 0 \/ w.tools # <<>> \/ (Opens(w) /\ w.kind = "tool")

(* The relays of OAuth providers write nothing before the first content,   *)
(* so that another upstream may still be tried, and hold back no content.  *)
CommitsAtContent ==
  HoldsBack =>
    /\ \A i \in DOMAIN pending : ~HasContent(pending[i])
    /\ seen # <<>> => \/ status = "done"
                      \/ \E i \in DOMAIN seen : HasContent(seen[i])

(* A client sees a call of an Antigravity turn only if the turn has been   *)
(* recorded: the next request of the conversation refers to it.            *)
SavedBeforeShown ==
  from = "antigravity" =>
    \A i \in DOMAIN seen : StartsCall(seen[i]) =>
      \E j \in DOMAIN saved : saved[j] = CallsOf(seen[i])[1].call

(* The answer put together for a client that does not stream has every     *)
(* item that the Codex stream finished, in the order of the indexes.       *)
CodexAggregates == codex.done => codex.response = DoneBlocks

SameDeltas(a, b) == Len(a) = Len(b) /\ ToSet(a) = ToSet(b)
Told(s, kind) ==
  Fold(LAMBDA t, b : IF b.kind = kind THEN t \o b.content ELSE t, <<>>, s.blocks)
SameCalls(calls) ==
  /\ Len(calls) = Len(SaidCalls)
  /\ \A k \in DOMAIN calls : calls[k].content = SaidCalls[k].content

TellsAll(s) ==
  /\ s.completed
  /\ SameDeltas(Told(s, "text"), up.text)
  /\ SameDeltas(Told(s, "reasoning"), up.reasoning)
  /\ SameCalls(SelectSeq(s.blocks, LAMBDA b : b.kind = "tool"))

ReadsWell(s) ==
  /\ ~s.warned
  /\ \A k \in DOMAIN s.blocks : s.blocks[k].kind = "tool" => s.blocks[k].complete

(* Of a stream that is done, the summaries of the upstream's body and of   *)
(* the client's tell what was said, and the client's is read without a     *)
(* warning; the usage found in the body is what the upstream reported.     *)
(* The decoder of summaries refuses signed Antigravity calls.              *)
SummariesAgree ==
  status = "done" /\ ~PassThrough =>
    /\ ExtractUsage(sent) = up.usage
    /\ ~LateReasoning =>
         \A s \in {SummarizeStream(to, seen)} : TellsAll(s) /\ ReadsWell(s)
    /\ ~dec.signed => TellsAll(SummarizeStream(protocolOf(from), sent))

(* The same answer asked for without streaming: the upstream's body, what  *)
(* codex.Stream put together, or the Antigravity decoder's response.       *)
Unstreamed ==
  CASE from = "antigravity" ->
         EncodeResponse(
           LET r == AntigravityResponse(dec, sent)
           IN IF to = "messages" THEN [r EXCEPT !.usage = AccountingUsage(@)] ELSE r,
           to)
    [] from = "codex" ->
         LET body == Body(codex.response, up.stop, up.usage)
         IN IF to = "responses" THEN body ELSE ConvertResponse(body, "responses", to)
    [] from = "chat" ->
         ConvertResponse(Body(Nonempty("reasoning", up.reasoning)
                              \o <<Content("text", 0, up.text)>>
                              \o [k \in DOMAIN up.blocks |-> Done(up, k)],
                              up.stop, up.usage), from, to)
    [] OTHER ->
         ConvertResponse(Body([k \in DOMAIN up.blocks |-> Done(up, k)],
                              up.stop, up.usage), from, to)

(* Where the two ways of converting are not known to differ: a Codex       *)
(* response that was cut has only its finished items, and the stop of a    *)
(* Responses upstream differs when it was cut in a turn with calls, or for *)
(* another reason than its length; see the README.                         *)
Comparable ==
  from \in {"responses", "codex"} =>
    /\ up.stop # "" => up.stop = "max_output_tokens" /\ SaidCalls = <<>>
    /\ from = "codex" => OpenBlocks = {}

(* A client that does not stream gets what one that streams gets: the same *)
(* text and reasoning, the same calls with their arguments, the stop and   *)
(* the usage; only a block of another type refuses it.                     *)
BufferedAgrees ==
  status = "done" /\ Comparable =>
    \A whole \in {Unstreamed}, calls \in {GotCalls} :
      LET final == seen[Len(seen)]
          told  == IF to = "responses" THEN final ELSE seen[Len(seen) - 1]
      IN /\ whole.refused <=> ~PassThrough /\ \E k \in DOMAIN up.blocks :
                                               up.blocks[k].kind = "opaque"
         /\ ~whole.refused =>
              /\ Text(whole.output, "text") = Got("text")
              /\ Text(whole.output, "reasoning") = Got("reasoning")
              /\ told.usage = whole.usage
              /\ to # "responses" => told.stop = whole.stop
              /\ LET wholly == Of(whole.output, "tool")
                 IN /\ Len(wholly) = Len(calls)
                    /\ \A k \in DOMAIN calls :
                         /\ wholly[k].content = GotArguments(calls[k].index)
                         /\ wholly[k].call # 0 => calls[k].call = wholly[k].call

(* requirements.md:251 forbids to swallow errors (and to answer with a     *)
(* made-up default): an upstream that reports a failure does not end as a  *)
(* completed stream.                                                       *)
FailureIsReported == up.broke => status # "done"
=============================================================================
