---------------------------- MODULE StreamEncode ----------------------------
(***************************************************************************)
(* internal/protocol/stream_encode.go: canonical events become the stream  *)
(* of a client, in one of three protocols.  Events that are always written *)
(* together (an item and its part) are one; ids of items and sequence      *)
(* numbers are left out.                                                   *)
(***************************************************************************)
EXTENDS StreamDecode

None == -1

newStreamEncoder(to) ==
  [protocol |-> to, started |-> FALSE, done |-> FALSE, stop |-> "",
   usage |-> NoUsage, textIndex |-> None, text |-> <<>>,
   reasoningIndex |-> None, reasoning |-> <<>>, reasoningClosed |-> FALSE,
   nextIndex |-> 0, tools |-> <<>>]

(* What a step of the encoder leaves and writes, and two steps in a row. *)
Written(e, out) == [enc |-> e, out |-> out]
After(out, step) == Written(step.enc, out \o step.out)
Then(step, Next(_)) == After(step.out, Next(step.enc))

InBlocks(e) == e.protocol \in {"messages", "responses"}

(* The events of a block in the two protocols that have blocks; a done     *)
(* item of a Responses stream repeats the block's content.                 *)
Open(e, kind, i, id) ==
  [blank EXCEPT !.type = IF e.protocol = "messages" THEN "content_block_start"
                                                    ELSE "response.output_item.added",
                !.kind = kind, !.index = i, !.call = id]
Grow(e, kind, i, d) ==
  [blank EXCEPT !.type = IF e.protocol = "messages" THEN "content_block_delta"
                                                    ELSE "response.delta",
                !.kind = kind, !.index = i, !.delta = d]
Close(e, kind, i, id, content) ==
  IF e.protocol = "messages"
    THEN [blank EXCEPT !.type = "content_block_stop", !.index = i]
    ELSE [blank EXCEPT !.type = "response.output_item.done", !.kind = kind,
                       !.index = i, !.call = id, !.content = content]

Chunk == [blank EXCEPT !.type = "chunk"]
ToolChunk(i, id, d) ==
  [Chunk EXCEPT !.tools = <<[index |-> i, call |-> id, delta |-> d]>>]

\* Mutant: a later report replaces counts that it does not have.
mergeUsageReplaces(old, new) == new

mergeUsage(old, new) ==
  [k \in DOMAIN old |-> IF new[k] # 0 THEN new[k] ELSE old[k]]

ensureStarted(e) ==
  IF e.started THEN Written(e, <<>>)
  ELSE Written([e EXCEPT !.started = TRUE],
         CASE e.protocol = "chat" -> <<Chunk>>
           [] e.protocol = "messages" ->
                <<[blank EXCEPT !.type = "message_start", !.usage = e.usage]>>
           [] e.protocol = "responses" ->
                <<[blank EXCEPT !.type = "response.created"],
                  [blank EXCEPT !.type = "response.in_progress"]>>)

(* The only block that is closed before the end: by whatever follows it. *)
closeReasoning(e) ==
  IF e.reasoningIndex = None \/ e.reasoningClosed THEN Written(e, <<>>)
  ELSE Written([e EXCEPT !.reasoningClosed = TRUE],
               <<Close(e, "reasoning", e.reasoningIndex, 0, e.reasoning)>>)

encodeReasoning(e, d) ==
  LET first == e.reasoningIndex = None
      i     == IF first THEN e.nextIndex ELSE e.reasoningIndex
  IN IF d = 0 THEN Written(e, <<>>)
     ELSE IF e.protocol = "chat" THEN Written(e, <<[Chunk EXCEPT !.reasoning = d]>>)
     ELSE Written([e EXCEPT !.reasoningIndex = i, !.reasoning = Append(@, d),
                            !.nextIndex = IF first THEN @ + 1 ELSE @],
                  When(first, <<Open(e, "reasoning", i, 0)>>)
                  \o <<Grow(e, "reasoning", i, d)>>)

encodeText(e, d) ==
  LET first == e.textIndex = None
      i     == IF first THEN e.nextIndex ELSE e.textIndex
  IN IF d = 0 THEN Written(e, <<>>)
     ELSE IF e.protocol = "chat"
       THEN Written([e EXCEPT !.text = Append(@, d)], <<[Chunk EXCEPT !.delta = d]>>)
     ELSE Written([e EXCEPT !.textIndex = i, !.text = Append(@, d),
                            !.nextIndex = IF first THEN @ + 1 ELSE @],
                  When(first, <<Open(e, "text", i, 0)>>)
                  \o <<Grow(e, "text", i, d)>>)

(* tool: a call is known by its id, or by its index if it has none, and    *)
(* registered when it is first mentioned.                                  *)
toolKey(ev) ==
  IF ev.call # 0 THEN <<"id", ev.call>> ELSE <<"index", ev.index>>

toolAt(e, ev) == SelectInSeq(e.tools, LAMBDA t : t.key = toolKey(ev))

InventedCall(n) == 100 + n   \* "call_" and the number of calls so far

registered(e, ev) ==
  [e EXCEPT !.tools = Append(@,
              [key     |-> toolKey(ev),
               call    |-> IF ev.call # 0 THEN ev.call ELSE InventedCall(Len(e.tools)),
               index   |-> IF InBlocks(e) THEN e.nextIndex ELSE Len(e.tools),
               content |-> <<>>, closed |-> FALSE]),
            !.nextIndex = IF InBlocks(e) THEN @ + 1 ELSE @]

tool(e, ev) == IF toolAt(e, ev) # 0 THEN e ELSE registered(e, ev)

encodeToolStart(e0, ev) ==
  LET e == tool(e0, ev)
      t == e.tools[toolAt(e, ev)]
  IN Written(e, IF e.protocol = "chat" THEN <<ToolChunk(t.index, t.call, 0)>>
                                       ELSE <<Open(e, "tool", t.index, t.call)>>)

encodeToolDelta(e0, ev) ==
  LET e == tool(e0, ev)
      k == toolAt(e, ev)
      i == e.tools[k].index
  IN IF ev.delta = 0 THEN Written(e, <<>>)
     ELSE Written([e EXCEPT !.tools[k].content = Append(@, ev.delta)],
                  IF e.protocol = "chat" THEN <<ToolChunk(i, 0, ev.delta)>>
                                         ELSE <<Grow(e, "tool", i, ev.delta)>>)

closeTool(e, k) ==
  LET t == e.tools[k]
  IN IF t.closed THEN Written(e, <<>>)
     ELSE Written([e EXCEPT !.tools[k].closed = TRUE],
                  When(InBlocks(e), <<Close(e, "tool", t.index, t.call, t.content)>>))

encodeToolEnd(e0, ev) ==
  LET e == tool(e0, ev) IN closeTool(e, toolAt(e, ev))

\* Mutant: calls that the upstream left open stay open.
closeToolsNever(e) == Written(e, <<>>)

closeNext(acc, k) == After(acc.out, closeTool(acc.enc, k))
closeTools(e) ==
  Fold(closeNext, Written(e, <<>>), [k \in DOMAIN e.tools |-> k])

closeText(e) ==
  Written(e, When(InBlocks(e) /\ e.textIndex # None,
                  <<Close(e, "text", e.textIndex, 0, e.text)>>))

chatStop(reason) ==
  IF reason \in {"tool_calls", "length"} THEN reason ELSE "stop"

messagesStop(reason) ==
  CASE reason = "tool_calls" -> "tool_use"
    [] reason = "length"     -> "max_tokens"
    [] OTHER                 -> "end_turn"

(* The items of response.completed, each at its index; what no item claims *)
(* would be null.                                                          *)
Null == [kind |-> "null", call |-> 0, content |-> <<>>]
responseOutput(e) ==
  LET owner(i) == SelectInSeq(e.tools, LAMBDA t : t.index = i)
  IN [n \in 1..e.nextIndex |->
       LET i == n - 1
       IN IF owner(i) # 0 THEN [kind |-> "tool", call |-> e.tools[owner(i)].call,
                                content |-> e.tools[owner(i)].content]
          ELSE IF e.textIndex = i THEN [kind |-> "text", call |-> 0, content |-> e.text]
          ELSE IF e.reasoningIndex = i
            THEN [kind |-> "reasoning", call |-> 0, content |-> e.reasoning]
          ELSE Null]

(* The last events.  A Responses stream always ends as completed. *)
farewell(e) ==
  Written(e,
    CASE e.protocol = "chat" ->
           <<[Chunk EXCEPT !.stop = chatStop(e.stop), !.usage = e.usage],
             [blank EXCEPT !.type = "DONE"]>>
      [] e.protocol = "messages" ->
           <<[blank EXCEPT !.type = "message_delta", !.stop = messagesStop(e.stop),
                           !.usage = e.usage],
             [blank EXCEPT !.type = "message_stop"]>>
      [] e.protocol = "responses" ->
           <<[blank EXCEPT !.type = "response.completed", !.usage = e.usage,
                           !.output = responseOutput(e)]>>)

finish(e) ==
  LET begun  == ensureStarted([e EXCEPT !.done = TRUE])
      closed == Then(Then(Then(begun, closeTools), closeReasoning), closeText)
  IN Then(closed, farewell)

encodeContent(e, ev) ==
  CASE ev.kind = "text"       -> encodeText(e, ev.delta)
    [] ev.kind = "reasoning"  -> encodeReasoning(e, ev.delta)
    [] ev.kind = "tool_start" -> encodeToolStart(e, ev)
    [] ev.kind = "tool_delta" -> encodeToolDelta(e, ev)
    [] ev.kind = "tool_end"   -> encodeToolEnd(e, ev)

Encode(e, ev) ==
  LET begun  == ensureStarted(e)
      closed == IF InBlocks(e) /\ ev.kind # "reasoning"
                  THEN Then(begun, closeReasoning) ELSE begun
  IN IF e.done \/ ev.kind = "start" THEN Written(e, <<>>)
     ELSE CASE ev.kind = "usage"  ->
                 Written([e EXCEPT !.usage = mergeUsage(@, ev.usage)], <<>>)
            [] ev.kind = "finish" -> Written([e EXCEPT !.stop = ev.stop], <<>>)
            [] ev.kind = "done"   -> finish(e)
            [] OTHER -> Then(closed, LAMBDA x : encodeContent(x, ev))
=============================================================================
