--------------------------- MODULE RequestConvert ---------------------------
(***************************************************************************)
(* internal/protocol/request.go, antigravity_request.go,                   *)
(* antigravity_history.go and internal/codex/request.go: the conversation  *)
(* that a client sends becomes the canonical request, and that the request *)
(* of the upstream's protocol.                                             *)
(*                                                                         *)
(* A request on the wire has its system texts and its input: messages with *)
(* a role and blocks.  An item of a Responses request that is no message   *)
(* has its type for a role, and one block.  Sampling parameters, tool      *)
(* definitions and images are left out.                                    *)
(***************************************************************************)
EXTENDS ResponseConvert

Message(role, blocks) == [role |-> role, blocks |-> blocks]

Wire(system, input) == [system |-> system, input |-> input, refused |-> FALSE]
RefusedWire == [Wire(<<>>, <<>>) EXCEPT !.refused = TRUE]

Request(instructions, messages) ==
  [instructions |-> instructions, messages |-> messages, refused |-> FALSE]
RefusedRequest == [Request(<<>>, <<>>) EXCEPT !.refused = TRUE]

IsSystem(m) == m.role \in {"system", "developer"}
LateSystem(input) ==
  \E i, j \in DOMAIN input : i < j /\ ~IsSystem(input[i]) /\ IsSystem(input[j])

TextOf(m) == Text(m.blocks, "text")
Each(Op(_), seq) == [k \in DOMAIN seq |-> Op(seq[k])]

-----------------------------------------------------------------------------
(* Decoding *)

decodeChatContentBlocks(m) == Of(m.blocks, "text")

(* The reasoning_content of earlier turns is not read. *)
decodeChatMessage(m) ==
  IF m.role = "tool" THEN Message("user", m.blocks)
  ELSE Message(m.role, decodeChatContentBlocks(m) \o Of(m.blocks, "tool"))

decodeChatRequest(r) ==
  IF LateSystem(r.input) THEN RefusedRequest
  ELSE Request(Each(TextOf, SelectSeq(r.input, IsSystem)),
               Each(decodeChatMessage,
                    SelectSeq(r.input, LAMBDA m : ~IsSystem(m))))

appendBlock(messages, role, block) ==
  IF messages # <<>> /\ Last(messages).role = role
    THEN [messages EXCEPT ![Len(messages)].blocks = Append(@, block)]
    ELSE Append(messages, Message(role, <<block>>))

decodeResponsesContentBlocks(item) == Of(item.blocks, "text")

(* System messages are collected wherever they stand; items that are       *)
(* neither messages nor calls nor results are refused.                     *)
responsesItem(acc, item) ==
  CASE IsSystem(item) -> [acc EXCEPT !.instructions = Append(@, TextOf(item))]
    [] item.role \in {"user", "assistant"} ->
         [acc EXCEPT !.messages =
            Append(@, Message(item.role, decodeResponsesContentBlocks(item)))]
    [] item.role = "function_call" ->
         [acc EXCEPT !.messages = appendBlock(@, "assistant", item.blocks[1])]
    [] item.role = "function_call_output" ->
         [acc EXCEPT !.messages = appendBlock(@, "user", item.blocks[1])]
    [] OTHER -> [acc EXCEPT !.refused = TRUE]

decodeResponsesRequest(r) == Fold(responsesItem, Request(r.system, <<>>), r.input)

decodeMessagesContent(m) == Message(m.role, WithoutEmpty({"reasoning"}, m.blocks))

decodeMessagesRequest(r) == Request(r.system, Each(decodeMessagesContent, r.input))

DecodeRequest(r, protocol) ==
  CASE protocol = "chat"      -> decodeChatRequest(r)
    [] protocol = "responses" -> decodeResponsesRequest(r)
    [] protocol = "messages"  -> decodeMessagesRequest(r)

-----------------------------------------------------------------------------
(* Encoding *)

InOne(texts) == When(texts # <<>>, <<FlattenSeq(texts)>>)

(* The text of a message in one piece, or nothing at all. *)
encodeChatContent(m) == Nonempty("text", TextOf(m))

ToolMessages(m) ==
  Each(LAMBDA b : Message("tool", <<b>>), Of(m.blocks, "result"))
ChatMessage(m) ==
  LET said == Nonempty("reasoning", Text(m.blocks, "reasoning"))
              \o encodeChatContent(m) \o Of(m.blocks, "tool")
  IN When(said # <<>>, <<Message(m.role, said)>>)

\* Mutant: the results follow the text that came with them.
encodeChatMessageFirst(m) == ChatMessage(m) \o ToolMessages(m)

(* A Chat message per result, and one for what else the message has. *)
encodeChatMessage(m) == ToolMessages(m) \o ChatMessage(m)

encodeChatRequest(r) ==
  Wire(<<>>, Each(LAMBDA t : Message("system", <<Content("text", 0, t)>>),
                  InOne(r.instructions))
             \o FlattenSeq(Each(encodeChatMessage, r.messages)))

(* Responses allows ids of 64 characters; a longer one is replaced by the  *)
(* next "call_mc_<n>" that the conversation does not use.                  *)
TooLong(id) == id > 1000
Generated(n) == 500 + n

CallsAndResults(m) == SelectSeq(m.blocks, LAMBDA b : b.kind \in {"tool", "result"})

callIDs(r) ==
  LET blocks  == FlattenSeq(Each(CallsAndResults, r.messages))
      used    == {b.call : b \in ToSet(blocks)}
      free(n) == Min({i \in n..n + Cardinality(used) : Generated(i) \notin used})
      shorten(acc, b) ==
        IF ~TooLong(b.call) \/ b.call \in DOMAIN acc.ids THEN acc
        ELSE [ids  |-> Bind(acc.ids, b.call, Generated(free(acc.next))),
              next |-> free(acc.next) + 1]
  IN Fold(shorten, [ids |-> NoTools, next |-> 1], blocks).ids

encodeResponsesContent(m) ==
  When(TextOf(m) # <<>>, <<Message(m.role, <<Content("text", 0, TextOf(m))>>)>>)

(* The calls and results of a message come before its text. *)
encodeResponsesRequest(r) ==
  LET ids     == callIDs(r)
      item(b) == Message(IF b.kind = "tool" THEN "function_call"
                                            ELSE "function_call_output",
                         <<[b EXCEPT !.call = At(ids, @, @)]>>)
      items(m) == Each(item, CallsAndResults(m)) \o encodeResponsesContent(m)
  IN Wire(InOne(r.instructions), FlattenSeq(Each(items, r.messages)))

encodeMessagesRequest(r) ==
  LET unthought(m) ==
        Message(m.role, SelectSeq(m.blocks, LAMBDA b : b.kind # "reasoning"))
  IN Wire(InOne(r.instructions), Each(unthought, r.messages))

EncodeRequest(r, protocol) ==
  CASE protocol = "chat"      -> encodeChatRequest(r)
    [] protocol = "responses" -> encodeResponsesRequest(r)
    [] protocol = "messages"  -> encodeMessagesRequest(r)

ConvertRequest(r, source, target) ==
  LET request == DecodeRequest(r, source)
  IN IF request.refused THEN RefusedWire ELSE EncodeRequest(request, target)

(* codex.PrepareRequest: the input of a Responses client is kept as it is, *)
(* but for the role of system messages.                                    *)
PrepareRequest(r, source) ==
  LET raw == IF source = "responses" THEN r ELSE ConvertRequest(r, source, "responses")
      developer(m) == [m EXCEPT !.role = IF @ = "system" THEN "developer" ELSE @]
  IN [raw EXCEPT !.input = Each(developer, @)]

-----------------------------------------------------------------------------
(* Antigravity.  A turn that the gateway has recorded has its calls under  *)
(* the ids it gave them, the upstream's ids (0: none), and the content as  *)
(* the upstream sent it, thoughts and signatures included.                 *)

Ours(id) == id <= NewCall(0)

AntigravityHistoryIDs(r) ==
  {b.call : b \in {b \in UNION {ToSet(m.blocks) : m \in ToSet(r.input)} : Ours(b.call)}}

agContent(m) == Of(m.blocks, "reasoning") = <<>>

(* Of what the adapter refuses, what concerns the conversation. *)
validateAntigravityInput(r) ==
  ~LateSystem(r.input) /\ \A m \in ToSet(r.input) : agContent(m)

Unrestored(m) == [role |-> m.role, blocks |-> m.blocks, ids |-> <<>>,
                  original |-> <<>>, refused |-> FALSE]

(* The message is the recorded turn, no more and no less. *)
SameTurn(m, turn) ==
  /\ m.role = "assistant"
  /\ \A b \in ToSet(m.blocks) : b.kind \in {"text", "tool"}
  /\ Of(m.blocks, "tool") = turn.calls
  /\ TextOf(m) = Text(turn.content, "text")

(* A message with a call of a recorded turn is replaced by the turn. *)
RestoreAntigravityHistory(m, history) ==
  LET calls == Of(m.blocks, "tool")
      known == SelectInSeq(calls, LAMBDA c : c.call \in DOMAIN history)
  IN IF known = 0 THEN Unrestored(m)
     ELSE LET turn == history[calls[known].call]
          IN IF SameTurn(m, turn)
               THEN [Unrestored(m) EXCEPT !.ids = turn.ids, !.original = turn.content]
               ELSE [Unrestored(m) EXCEPT !.refused = TRUE]

(* The id under which the upstream is given the result of a call. *)
AnswerID(id, upstream) ==
  IF upstream # 0 THEN upstream ELSE IF Ours(id) THEN 0 ELSE id

antigravityBlock(acc, b) ==
  CASE b.kind = "text" -> [acc EXCEPT !.parts = Append(@, b)]
    [] b.kind = "tool" /\ b.call # 0 /\ b.call \notin DOMAIN acc.calls ->
         [acc EXCEPT !.calls = Bind(@, b.call, AnswerID(b.call, 0)),
                     !.parts = Append(@, b)]
    [] b.kind = "result" /\ b.call \in DOMAIN acc.calls ->
         [acc EXCEPT !.parts = Append(@, [b EXCEPT !.call = acc.calls[b.call]])]
    [] OTHER -> [acc EXCEPT !.refused = TRUE]

restoredTurn(acc, m) ==
  LET calls == Of(m.blocks, "tool")
      bound == [i \in {c.call : c \in ToSet(calls)} |->
                 AnswerID(i, m.ids[SelectInSeq(calls, LAMBDA c : c.call = i)])]
  IN [acc EXCEPT !.refused = @ \/ DOMAIN bound \cap DOMAIN acc.calls # {},
                 !.calls = bound @@ @, !.results = FALSE,
                 !.contents = Append(@, Message("model", m.original))]

(* The results of one turn go into one content, if nothing comes between.  *)
antigravityContent(acc, m) ==
  LET onlyResults == m.blocks # <<>> /\ \A b \in ToSet(m.blocks) : b.kind = "result"
      with == Fold(antigravityBlock,
                   [calls |-> acc.calls, parts |-> <<>>, refused |-> acc.refused],
                   m.blocks)
      role == IF m.role = "assistant" THEN "model" ELSE "user"
  IN [calls    |-> with.calls,
      refused  |-> with.refused,
      results  |-> onlyResults,
      contents |-> IF onlyResults /\ acc.results
                     THEN [acc.contents EXCEPT ![Len(acc.contents)].blocks =
                             @ \o with.parts]
                     ELSE Append(acc.contents, Message(role, with.parts))]

EncodeAntigravityRequest(instructions, messages) ==
  LET next(acc, m) == IF m.original # <<>> THEN restoredTurn(acc, m)
                                           ELSE antigravityContent(acc, m)
      all == Fold(next, [contents |-> <<>>, calls |-> NoTools, results |-> FALSE,
                         refused |-> FALSE], messages)
  IN IF all.refused THEN RefusedWire ELSE Wire(instructions, all.contents)

(* history: the recorded turns by the ids of their calls. *)
AntigravityRequest(r, source, history) ==
  LET request  == DecodeRequest(r, source)
      restored == Each(LAMBDA m : RestoreAntigravityHistory(m, history),
                       request.messages)
  IN IF \/ ~validateAntigravityInput(r) \/ request.refused
        \/ \E m \in ToSet(restored) : m.refused
       THEN RefusedWire
       ELSE EncodeAntigravityRequest(request.instructions, restored)
=============================================================================
