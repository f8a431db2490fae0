---------------------------- MODULE StreamDecode ----------------------------
(***************************************************************************)
(* internal/protocol/stream_decode.go and antigravity_response.go: the     *)
(* events of an upstream's stream become canonical events.                 *)
(*                                                                         *)
(* A delta is a number, 0 the empty string, and a text the sequence of its *)
(* deltas.  A call id is a number, 0 the missing id.  What belongs to text,*)
(* to reasoning and to tool calls keeps these three names in all           *)
(* protocols; a block of any other type is "opaque".                       *)
(***************************************************************************)
EXTENDS Integers, SequencesExt

(* A left fold; TLC evaluates it much faster than the one of the library. *)
Fold(op(_, _), base, seq) ==
  LET f[i \in 0..Len(seq)] == IF i = 0 THEN base ELSE op(f[i - 1], seq[i])
  IN f[Len(seq)]

(* The numbers of a set in ascending order. *)
Ascending(S) ==
  CHOOSE s \in [1..Cardinality(S) -> S] : \A i, j \in DOMAIN s : i < j => s[i] < s[j]

Cat(text, delta) == IF delta = 0 THEN text ELSE Append(text, delta)

(* Token counts: 0 is a count that was not reported. *)
NoUsage == [input |-> 0, cache |-> 0, output |-> 0]

(* AntigravityAccountingUsage: Google counts the cached input as input. *)
AccountingUsage(u) ==
  IF u.input # 0 /\ u.cache # 0 THEN [u EXCEPT !.input = @ - u.cache] ELSE u

(***************************************************************************)
(* One event of a stream of any protocol; a field that its type does not   *)
(* carry is blank.  tools are the tool_calls of a Chat chunk, parts those  *)
(* of an Antigravity candidate, content and output what the done items and *)
(* the final response of a Responses stream repeat.                        *)
(***************************************************************************)
blank ==
  [type |-> "", kind |-> "", index |-> 0, call |-> 0, delta |-> 0,
   reasoning |-> 0, tools |-> <<>>, parts |-> <<>>, stop |-> "",
   usage |-> NoUsage, content |-> <<>>, output |-> <<>>]

Event(kind) ==
  [kind |-> kind, index |-> 0, call |-> 0, delta |-> 0, stop |-> "",
   usage |-> NoUsage]
Delta(kind, i, d) == [Event(kind) EXCEPT !.index = i, !.delta = d]
Tool(kind, i, id) == [Event(kind) EXCEPT !.index = i, !.call = id]
ToolDelta(i, id, d) == [Tool("tool_delta", i, id) EXCEPT !.delta = d]
Finish(reason) == [Event("finish") EXCEPT !.stop = reason]
Report(u) ==
  IF u = NoUsage THEN <<>> ELSE <<[Event("usage") EXCEPT !.usage = u]>>

When(condition, events) == IF condition THEN events ELSE <<>>

NoTools == [i \in {} |-> 0]
Bind(map, i, x) ==
  [j \in DOMAIN map \cup {i} |-> IF j = i THEN x ELSE map[j]]
At(map, i, default) == IF i \in DOMAIN map THEN map[i] ELSE default
Drop(map, i) == [j \in DOMAIN map \ {i} |-> map[j]]

newStreamDecoder ==
  [started |-> FALSE, hadTools |-> FALSE, chatTools |-> NoTools,
   messageBlocks |-> NoTools, responseTools |-> NoTools,
   ended |-> FALSE, signed |-> FALSE, calls |-> <<>>, pending |-> <<>>]

(* A decoder's answer: its next state, the events, whether it is an error, *)
(* and the calls that were handed to saveTools.                            *)
Answer(d, events) == [dec |-> d, events |-> events, error |-> FALSE, turn |-> <<>>]
Refusal(d) == [Answer(d, <<>>) EXCEPT !.error = TRUE]

(* An id is made up for a call that has none: by its index in a Chat       *)
(* stream, a fresh one in an Antigravity stream.                           *)
MadeUp(i) == 0 - i - 1
NewCall(i) == 0 - i - 101

normalizeChatStop(reason) ==
  IF reason \in {"length", "tool_calls"} THEN reason ELSE "stop"

normalizeMessagesStop(reason) ==
  CASE reason = "max_tokens" -> "length"
    [] reason = "tool_use"   -> "tool_calls"
    [] OTHER                 -> "stop"

\* Mutant: arguments in the chunk that starts the call are dropped.
chatToolFirstEmpty(acc, tool) ==
  LET fresh == tool.index \notin DOMAIN acc.tools
      id    == IF ~fresh THEN acc.tools[tool.index]
               ELSE IF tool.call # 0 THEN tool.call ELSE MadeUp(tool.index)
      new   == IF fresh THEN Tool("tool_start", tool.index, id)
                        ELSE ToolDelta(tool.index, id, tool.delta)
  IN [tools |-> Bind(acc.tools, tool.index, id), events |-> Append(acc.events, new)]

(* One of a chunk's tool_calls: the first one of an index starts the call. *)
chatTool(acc, tool) ==
  LET fresh == tool.index \notin DOMAIN acc.tools
      id    == IF ~fresh THEN acc.tools[tool.index]
               ELSE IF tool.call # 0 THEN tool.call ELSE MadeUp(tool.index)
  IN [tools  |-> Bind(acc.tools, tool.index, id),
      events |-> acc.events
                 \o When(fresh, <<Tool("tool_start", tool.index, id)>>)
                 \o When(tool.delta # 0,
                         <<ToolDelta(tool.index, id, tool.delta)>>)]

(* A chunk ends its calls with its finish_reason; the usage may follow in  *)
(* another chunk, and only [DONE] ends the stream.                         *)
decodeChat(d, in) ==
  IF in.type = "DONE" THEN Answer(d, <<Event("done")>>)
  ELSE LET acc     == Fold(chatTool,
                               [tools |-> d.chatTools, events |-> <<>>], in.tools)
           indexes == Ascending(DOMAIN acc.tools)
           ends    == [k \in DOMAIN indexes |->
                        Tool("tool_end", indexes[k], acc.tools[indexes[k]])]
           last    == in.stop # ""
       IN Answer([d EXCEPT !.started   = TRUE,
                           !.hadTools  = @ \/ in.tools # <<>>,
                           !.chatTools = IF last THEN NoTools ELSE acc.tools],
                 When(~d.started, <<Event("start")>>)
                 \o When(in.reasoning # 0, <<Delta("reasoning", 0, in.reasoning)>>)
                 \o When(in.delta # 0, <<Delta("text", 0, in.delta)>>)
                 \o acc.events
                 \o When(last, ends \o <<Finish(normalizeChatStop(in.stop))>>)
                 \o Report(in.usage))

decodeMessages(d, in) ==
  LET block == At(d.messageBlocks, in.index, [kind |-> "", call |-> 0])
  IN CASE in.type = "ping" -> Answer(d, <<>>)
       [] in.type = "message_start" ->
            Answer([d EXCEPT !.started = TRUE],
                   <<Event("start")>> \o Report(in.usage))
       [] in.type = "content_block_start" ->
            Answer([d EXCEPT !.messageBlocks =
                               Bind(@, in.index, [kind |-> in.kind, call |-> in.call]),
                             !.hadTools = @ \/ in.kind = "tool"],
                   CASE in.kind = "tool" ->
                          <<Tool("tool_start", in.index, in.call)>>
                          \o When(in.delta # 0,
                                  <<ToolDelta(in.index, in.call, in.delta)>>)
                     [] in.kind = "opaque" -> <<>>
                     [] OTHER -> When(in.delta # 0,
                                      <<Delta(in.kind, in.index, in.delta)>>))
       [] in.type = "content_block_delta" ->
            IF in.kind = "reasoning" /\ block.kind # "reasoning" THEN Refusal(d)
            ELSE Answer(d, <<IF in.kind = "tool"
                               THEN ToolDelta(in.index, block.call, in.delta)
                               ELSE Delta(in.kind, in.index, in.delta)>>)
       [] in.type = "content_block_stop" ->
            Answer([d EXCEPT !.messageBlocks = Drop(@, in.index)],
                   When(block.kind = "tool",
                        <<Tool("tool_end", in.index, block.call)>>))
       [] in.type = "message_delta" ->
            Answer(d, <<Finish(normalizeMessagesStop(in.stop))>> \o Report(in.usage))
       [] in.type = "message_stop" -> Answer(d, <<Event("done")>>)
       [] OTHER -> Refusal(d)

(* The stop reason of a Responses stream is worked out from its calls. *)
responseStop(d, in) ==
  IF in.type = "response.incomplete" /\ in.stop = "max_output_tokens" THEN "length"
  ELSE IF d.hadTools THEN "tool_calls" ELSE "stop"

(* Other events than these repeat what the deltas said and are ignored. *)
decodeResponses(d, in) ==
  LET known == At(d.responseTools, in.index, 0)
  IN CASE in.type \in {"response.created", "response.in_progress"} ->
            Answer([d EXCEPT !.started = TRUE],
                   When(~d.started, <<Event("start")>>))
       [] in.type = "response.output_item.added" ->
            IF in.kind # "tool" THEN Answer(d, <<>>)
            ELSE Answer([d EXCEPT !.hadTools = TRUE,
                                  !.responseTools = Bind(@, in.index, in.call)],
                        <<Tool("tool_start", in.index, in.call)>>
                        \o When(in.delta # 0,
                                <<ToolDelta(in.index, in.call, in.delta)>>))
       [] in.type = "response.delta" ->
            Answer(d, <<IF in.kind = "tool" THEN ToolDelta(in.index, known, in.delta)
                                            ELSE Delta(in.kind, in.index, in.delta)>>)
       [] in.type = "response.output_item.done" ->
            Answer(d, When(in.kind = "tool",
                           <<Tool("tool_end", in.index,
                                  IF in.call # 0 THEN in.call ELSE known)>>))
       [] in.type \in {"response.completed", "response.incomplete", "response.failed"} ->
            Answer(d, <<Finish(responseStop(d, in))>> \o Report(in.usage)
                      \o <<Event("done")>>)
       [] OTHER -> Refusal(d)

(* One part of a candidate.  Without a store for the turn a call cannot    *)
(* follow a signature, nor a signature a call; what precedes the refusal   *)
(* stays.                                                                  *)
antigravityPart(acc, part) ==
  LET i       == Len(acc.calls)
      id      == IF part.call = 0 \/ acc.store THEN NewCall(i) ELSE part.call
      late    == ~acc.store /\ part.signed /\ i > 0
      signed  == acc.signed \/ part.signed
      refused == late \/ (~acc.store /\ signed /\ part.kind = "tool")
  IN IF acc.error THEN acc
     ELSE IF refused
       THEN [acc EXCEPT !.error = TRUE, !.signed = @ \/ (part.signed /\ ~late)]
     ELSE IF part.kind = "tool"
       THEN [acc EXCEPT !.signed = signed, !.calls = Append(@, id),
                        !.events = @ \o <<Tool("tool_start", i, id),
                                          ToolDelta(i, id, part.delta),
                                          Tool("tool_end", i, id)>>]
     ELSE [acc EXCEPT !.signed = signed,
                      !.events = @ \o When(part.delta # 0,
                                           <<Delta(part.kind, 0, part.delta)>>)]

antigravityStop(reason, calls) ==
  IF reason = "MAX_TOKENS" THEN "length"
  ELSE IF calls # <<>> THEN "tool_calls" ELSE "stop"

\* Mutant: the calls are shown as they come.
KeepsBackNothing(calls, save) == FALSE

KeepsBack(calls, save) == calls # <<>> /\ save # "none"

(* The calls of a turn are kept back until its last document, and shown    *)
(* only when saveTools has recorded the turn.  save is "none" for a        *)
(* decoder without a store, else how the store answers.                    *)
answerParts(d, in, save, acc) ==
  LET last   == in.stop # ""
      turn   == IF last /\ save # "none" THEN acc.calls ELSE <<>>
      events == When(~d.started, <<Event("start")>>) \o acc.events
                \o When(last, <<Finish(antigravityStop(in.stop, acc.calls))>>)
                \o Report(in.usage)
                \o When(last, <<Event("done")>>)
      next   == [d EXCEPT !.started = TRUE, !.signed = acc.signed,
                          !.calls = acc.calls]
      ended  == [next EXCEPT !.ended = last]
  IN IF d.ended \/ in.type = "error" THEN Refusal(d)
     ELSE IF acc.error \/ (last /\ in.stop \notin {"STOP", "MAX_TOKENS"})
       THEN Refusal(next)
     ELSE IF turn # <<>> /\ save = "fails" THEN Refusal(ended)
     ELSE IF KeepsBack(acc.calls, save) /\ ~last
       THEN Answer([ended EXCEPT !.pending = @ \o events], <<>>)
     ELSE [Answer([ended EXCEPT !.pending = <<>>], d.pending \o events)
             EXCEPT !.turn = turn]

decodeAntigravity(d, in, save) ==
  answerParts(d, in, save,
    Fold(antigravityPart, [store |-> save # "none", signed |-> d.signed, error |-> FALSE,
                           calls |-> d.calls, events |-> <<>>], in.parts))

Decode(protocol, d, in, save) ==
  CASE protocol = "chat"        -> decodeChat(d, in)
    [] protocol = "messages"    -> decodeMessages(d, in)
    [] protocol = "responses"   -> decodeResponses(d, in)
    [] protocol = "antigravity" -> decodeAntigravity(d, in, save)
=============================================================================
