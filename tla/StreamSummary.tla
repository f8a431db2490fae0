---------------------------- MODULE StreamSummary ----------------------------
(***************************************************************************)
(* Two readers of a recorded or passing stream: the summary that the       *)
(* administration and the compatibility checks make of a stored one        *)
(* (internal/protocol/stream_summary.go), and the gateway's check of a     *)
(* Codex stream (internal/codex/stream.go).                                *)
(***************************************************************************)
EXTENDS StreamDecode

newSummary == [blocks |-> <<>>, stop |-> "", completed |-> FALSE, warned |-> FALSE]

NewBlock(kind, i, id) ==
  [kind |-> kind, index |-> i, call |-> id, content |-> <<>>, complete |-> FALSE]

Put(s, b) == [s EXCEPT !.blocks = Append(@, b)]
Write(s, k, delta) == [s EXCEPT !.blocks[k].content = Cat(@, delta)]

(* block and tool: the last block that fits. *)
blockAt(s, ev) ==
  SelectLastInSeq(s.blocks, LAMBDA b : b.kind = ev.kind /\ b.index = ev.index)
\* Mutant: the call that was started last, whichever is meant.
toolBlockAtLast(s, ev) ==
  SelectLastInSeq(s.blocks, LAMBDA b : b.kind = "tool" /\ ~b.complete)

toolBlockAt(s, ev) ==
  SelectLastInSeq(s.blocks, LAMBDA b : /\ b.kind = "tool" /\ b.index = ev.index
                                       /\ ~b.complete /\ ev.call \in {0, b.call})

addText(s, ev) ==
  LET t == IF blockAt(s, ev) # 0 THEN s ELSE Put(s, NewBlock(ev.kind, ev.index, 0))
  IN Write(t, blockAt(t, ev), ev.delta)

addToolDelta(s, ev) ==
  LET k == toolBlockAt(s, ev)
      t == IF k # 0 THEN s ELSE Put(s, NewBlock("tool", ev.index, ev.call))
  IN Write(t, IF k # 0 THEN k ELSE Len(t.blocks), ev.delta)

addToolEnd(s, ev) ==
  LET k == toolBlockAt(s, ev)
  IN IF k = 0 THEN [s EXCEPT !.warned = TRUE]
     ELSE [s EXCEPT !.blocks[k].complete = TRUE]

add(s, ev) ==
  CASE ev.kind \in {"text", "reasoning"} -> addText(s, ev)
    [] ev.kind = "tool_start" -> Put(s, NewBlock("tool", ev.index, ev.call))
    [] ev.kind = "tool_delta" -> addToolDelta(s, ev)
    [] ev.kind = "tool_end"   -> addToolEnd(s, ev)
    [] ev.kind = "finish"     -> [s EXCEPT !.stop = ev.stop]
    [] ev.kind = "done"       -> [s EXCEPT !.completed = TRUE]
    [] OTHER -> s

(* SummarizeStream: an event that cannot be decoded is a warning, and the  *)
(* next one is read.  Its decoder has no store for tool turns.             *)
Summarized(s, a) == [Fold(add, s, a.events) EXCEPT !.warned = @ \/ a.error]
ReadNext(acc, a) == [dec |-> a.dec, summary |-> Summarized(acc.summary, a)]

SummarizeStream(protocol, events) ==
  LET read(acc, in) == ReadNext(acc, Decode(protocol, acc.dec, in, "none"))
      all == Fold(read, [dec |-> newStreamDecoder, summary |-> newSummary], events)
  IN [all.summary EXCEPT !.warned = @ \/ ~all.summary.completed]

-----------------------------------------------------------------------------

newCodexStream == [items |-> NoTools, response |-> <<>>, done |-> FALSE]

CodexItem(in) == [kind |-> in.kind, call |-> in.call, content |-> in.content]

\* Mutant: the output of the final response is taken as it is.
CodexOutputAsSent(s, in) == in.output

(* The final response keeps the output it came with; an empty one is put   *)
(* together from the done items, by their index.                           *)
CodexOutput(s, in) ==
  LET indexes == Ascending(DOMAIN s.items)
  IN IF in.output # <<>> THEN in.output
     ELSE [k \in DOMAIN indexes |-> s.items[indexes[k]]]

CodexTerminal == {"response.completed", "response.incomplete"}

(* An event after the end, an error, and a last event whose status is not  *)
(* that of its type, that has an error, or that gives another reason: the  *)
(* stop of such an event is "other".                                       *)
CodexRefuses(s, in) ==
  \/ s.done \/ in.type \in {"error", "response.failed"}
  \/ in.type = "response.completed" /\ in.stop # ""
  \/ in.type = "response.incomplete"
     /\ in.stop \notin {"max_output_tokens", "content_filter"}

(* Stream.Consume of an event that is not refused, the event it passes on, *)
(* and whether the event has something for the client to see.              *)
Consume(s, in) ==
  CASE in.type = "response.output_item.done" ->
         [s EXCEPT !.items = Bind(@, in.index, CodexItem(in))]
    [] in.type \in CodexTerminal ->
         [s EXCEPT !.response = CodexOutput(s, in), !.done = TRUE]
    [] OTHER -> s

Consumed(s, in) ==
  IF in.type \in CodexTerminal THEN [in EXCEPT !.output = CodexOutput(s, in)] ELSE in

CodexSemantic(in) ==
  CASE in.type = "response.delta" -> in.delta # 0
    [] in.type \in {"response.output_item.added", "response.output_item.done"} ->
         in.call # 0 \/ (in.kind = "text" /\ in.content # <<>>)
    [] OTHER -> FALSE
=============================================================================
