--------------------------- MODULE ResponseConvert ---------------------------
(***************************************************************************)
(* internal/protocol/response.go and usage.go: an answer that is not       *)
(* streamed becomes the canonical response, and that the body of another   *)
(* protocol.  A body has its output in the order of its fields or blocks:  *)
(* of a Chat message the reasoning, the text and the calls.                *)
(***************************************************************************)
EXTENDS StreamDecode

Content(kind, id, text) == [kind |-> kind, call |-> id, content |-> text]

Of(blocks, kind) == SelectSeq(blocks, LAMBDA b : b.kind = kind)
Text(blocks, kind) ==
  Fold(LAMBDA text, b : IF b.kind = kind THEN text \o b.content ELSE text,
       <<>>, blocks)
Nonempty(kind, text) == When(text # <<>>, <<Content(kind, 0, text)>>)

Response(blocks, stop, usage) ==
  [blocks |-> blocks, stop |-> stop, usage |-> usage, refused |-> FALSE]
RefusedResponse == [Response(<<>>, "", NoUsage) EXCEPT !.refused = TRUE]

WithoutEmpty(kinds, blocks) ==
  SelectSeq(blocks, LAMBDA b : b.kind \in kinds => b.content # <<>>)

-----------------------------------------------------------------------------
(* Decoding *)

chatStopToCanonical(reason) ==
  CASE reason = "tool_calls" -> "tool_use"
    [] reason = "length"     -> "max_tokens"
    [] OTHER                 -> "end_turn"

messagesStopToCanonical(reason) ==
  IF reason \in {"tool_use", "max_tokens"} THEN reason ELSE "end_turn"

decodeChatResponse(body) ==
  Response(WithoutEmpty({"text", "reasoning"}, body.output),
           chatStopToCanonical(body.stop), body.usage)

(* body.stop is the reason of incomplete_details; a call overrides it.  An *)
(* item or block of another type cannot be converted.                      *)
decodeResponsesResponse(body) ==
  IF Of(body.output, "opaque") # <<>> THEN RefusedResponse
  ELSE Response(WithoutEmpty({"reasoning"}, body.output),
                IF Of(body.output, "tool") # <<>> THEN "tool_use"
                ELSE IF body.stop # "" THEN "max_tokens" ELSE "end_turn",
                body.usage)

decodeMessagesResponse(body) ==
  IF Of(body.output, "opaque") # <<>> THEN RefusedResponse
  ELSE Response(WithoutEmpty({"reasoning"}, body.output),
                messagesStopToCanonical(body.stop), body.usage)

DecodeResponse(body, protocol) ==
  CASE protocol = "chat"      -> decodeChatResponse(body)
    [] protocol = "responses" -> decodeResponsesResponse(body)
    [] protocol = "messages"  -> decodeMessagesResponse(body)

-----------------------------------------------------------------------------
(* Encoding *)

Body(output, stop, usage) ==
  [output |-> output, stop |-> stop, usage |-> usage, refused |-> FALSE]

canonicalStopToChat(reason) ==
  CASE reason = "tool_use"   -> "tool_calls"
    [] reason = "max_tokens" -> "length"
    [] OTHER                 -> "stop"

canonicalStopToMessages(reason) ==
  IF reason \in {"tool_use", "max_tokens"} THEN reason ELSE "end_turn"

encodeChatResponse(r) ==
  Body(Nonempty("reasoning", Text(r.blocks, "reasoning"))
       \o <<Content("text", 0, Text(r.blocks, "text"))>>
       \o Of(r.blocks, "tool"),
       canonicalStopToChat(r.stop), r.usage)

encodeResponsesResponse(r) ==
  Body(Nonempty("reasoning", Text(r.blocks, "reasoning"))
       \o Nonempty("text", Text(r.blocks, "text")) \o Of(r.blocks, "tool"),
       IF r.stop = "max_tokens" THEN "max_output_tokens" ELSE "", r.usage)

\* Mutant: thinking is taken for a block of Claude's own and left out.
encodeMessagesWithoutThinking(r) ==
  Body(SelectSeq(r.blocks, LAMBDA b : b.kind # "reasoning"),
       canonicalStopToMessages(r.stop), r.usage)

encodeMessagesResponse(r) ==
  Body(r.blocks, canonicalStopToMessages(r.stop), r.usage)

EncodeResponse(r, protocol) ==
  CASE protocol = "chat"      -> encodeChatResponse(r)
    [] protocol = "responses" -> encodeResponsesResponse(r)
    [] protocol = "messages"  -> encodeMessagesResponse(r)

ConvertResponse(body, from, to) ==
  LET response == DecodeResponse(body, from)
  IN IF response.refused THEN [Body(<<>>, "", NoUsage) EXCEPT !.refused = TRUE]
     ELSE EncodeResponse(response, to)

-----------------------------------------------------------------------------
(* What a recorded stream adds up to *)

mergeExtractedUsage(usage, new) ==
  [k \in DOMAIN usage |-> IF new[k] # 0 THEN new[k] ELSE usage[k]]

ExtractUsage(events) ==
  Fold(LAMBDA usage, in : mergeExtractedUsage(usage, in.usage), NoUsage, events)

(* The response that an Antigravity decoder gathers while it decodes: its  *)
(* parts, calls under the ids given to them, and the reason of the last    *)
(* document.                                                               *)
gathered(d, blocks, part) ==
  LET i == Len(Of(blocks, "tool")) + 1
  IN IF part.kind = "tool"
       THEN Append(blocks, Content("tool", d.calls[i], <<part.delta>>))
       ELSE blocks \o When(part.delta # 0,
                           <<Content(part.kind, 0, <<part.delta>>)>>)

AntigravityResponse(d, events) ==
  Response(Fold(LAMBDA blocks, in : Fold(LAMBDA b, part : gathered(d, b, part),
                                         blocks, in.parts), <<>>, events),
           IF Last(events).stop = "MAX_TOKENS" THEN "max_tokens"
           ELSE IF d.calls # <<>> THEN "tool_use" ELSE "end_turn",
           ExtractUsage(events))
=============================================================================
