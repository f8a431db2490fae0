------------------------------ MODULE Exchange ------------------------------
(***************************************************************************)
(* One exchange through a converting gateway: a client sends the           *)
(* conversation so far in its protocol, the gateway sends it on in the     *)
(* upstream's (or refuses it), and the answer streams back (StreamConvert).*)
(* The answer does not depend on the request, which is forgotten when the  *)
(* answer begins.                                                          *)
(***************************************************************************)
EXTENDS StreamConvert, RequestConvert

CONSTANT MaxTurns   \* bound: earlier turns of the conversation

ASSUME ExchangeAssumption == MaxTurns \in Nat

VARIABLES
  phase,     \* "idle", "asked", "refused", or "streaming"
  asked,     \* the conversation that the client has sent
  told       \* the request for the upstream

exchangeVars == <<phase, asked, told, vars>>

Nothing == <<>>

-----------------------------------------------------------------------------
(* Conversations.  A turn of the assistant is texts and calls; the user    *)
(* answers every call, and says something itself if there is none, or if   *)
(* the client adds to results.                                             *)

Shapes ==
  {<<"text">>, <<"tool">>, <<"text", "tool">>, <<"tool", "text">>, <<"tool", "tool">>}

(* ours: the turns that the gateway got from this Antigravity upstream and *)
(* has recorded; edit: what the client did to them.                        *)
Conversations ==
  {c \in [turns : UNION {[1..k -> Shapes] : k \in 1..MaxTurns},
          ids   : {"short", "long", "mixed"},
          echo  : BOOLEAN,     \* the client repeats the reasoning of a turn
          adds  : BOOLEAN,
          late  : BOOLEAN,     \* it ends with a system message
          ours  : SUBSET (1..MaxTurns),
          edit  : {"none", "content", "call"}] :
     /\ \A n \in c.ours : n \in DOMAIN c.turns /\ "tool" \in ToSet(c.turns[n])
     /\ c.ours # {} => from = "antigravity"
     /\ c.edit # "none" => c.ours # {}
     /\ c.edit = "call" => \A n \in c.ours : c.turns[n] = <<"tool", "tool">>}

(* Each piece of a conversation has a delta of its own. *)
SystemText == 91
LateText == 92
Thought(n) == 80 + n
UserText(n) == 70 + n
Piece(n, p) == 10 * n + p
Edited(d) == 40 + d
Outcome(d) == 100 + d

(* The id of the p-th block of turn n: short, too long for Responses, or   *)
(* one that looks like those the gateway generates.                        *)
CallId(c, n, p) ==
  IF n \in c.ours THEN NewCall(Piece(n, p))
  ELSE IF c.ids = "short" THEN Piece(n, p)
  ELSE IF c.ids = "long" \/ (p + n) % 2 = 0 THEN 1000 + Piece(n, p)
  ELSE Generated(n)

(* A turn as it was, with the ids that its upstream gave to the calls, and *)
(* as the gateway recorded it.                                             *)
Said(c, n) ==
  [p \in DOMAIN c.turns[n] |->
    Content(c.turns[n][p], IF c.turns[n][p] = "tool" THEN CallId(c, n, p) ELSE 0,
            <<Piece(n, p)>>)]
UpstreamId(n, p) == IF p = 1 THEN 200 + n ELSE 0
Recorded(c, n) ==
  [calls   |-> Of(Said(c, n), "tool"),
   ids     |-> Each(LAMBDA b : UpstreamId(n, b.content[1] - Piece(n, 0)),
                    Of(Said(c, n), "tool")),
   content |-> <<Content("reasoning", 0, <<Thought(n)>>)>>
               \o [p \in DOMAIN c.turns[n] |->
                    IF c.turns[n][p] = "text" THEN Said(c, n)[p]
                    ELSE [Said(c, n)[p] EXCEPT !.call = UpstreamId(n, p)]]]

(* And as the client repeats it. *)
Repeated(c, n) ==
  IF n \notin c.ours \/ c.edit = "none" THEN Said(c, n)
  ELSE IF c.edit = "call" THEN <<Said(c, n)[1]>>
  ELSE [Said(c, n) EXCEPT ![1].content = <<Edited(@[1])>>]
Results(c, n) ==
  Each(LAMBDA b : Content("result", b.call, <<Outcome(b.content[1])>>),
       Of(Repeated(c, n), "tool"))
Remark(c, n) ==
  When(c.adds \/ Results(c, n) = <<>>, <<Content("text", 0, <<UserText(n)>>)>>)

ResponsesItem(role, b) ==
  Message(CASE b.kind = "tool"      -> "function_call"
            [] b.kind = "result"    -> "function_call_output"
            [] b.kind = "reasoning" -> "reasoning"
            [] OTHER                -> role, <<b>>)
ChatResult(b) == Message("tool", <<b>>)
MaybeMessage(role, blocks) == When(blocks # <<>>, <<Message(role, blocks)>>)

(* The messages of turn n and of the user after it.  A Chat message has    *)
(* its reasoning, its text and its calls in fields of their own.           *)
TurnInput(c, n) ==
  LET thought == When(c.echo /\ n = 1, <<Content("reasoning", 0, <<Thought(n)>>)>>)
      turn    == Repeated(c, n)
  IN CASE to = "chat" ->
            <<Message("assistant", thought \o Of(turn, "text") \o Of(turn, "tool"))>>
            \o Each(ChatResult, Results(c, n)) \o MaybeMessage("user", Remark(c, n))
       [] to = "messages" ->
            <<Message("assistant", thought \o turn),
              Message("user", Results(c, n) \o Remark(c, n))>>
       [] to = "responses" ->
            Each(LAMBDA b : ResponsesItem("assistant", b), thought \o turn)
            \o Each(LAMBDA b : ResponsesItem("user", b), Results(c, n) \o Remark(c, n))

ClientRequest(c) ==
  LET system(d) == Message("system", <<Content("text", 0, <<d>>)>>)
      talk == <<Message("user", <<Content("text", 0, <<UserText(0)>>)>>)>>
              \o FlattenSeq([n \in DOMAIN c.turns |-> TurnInput(c, n)])
              \o When(c.late, <<system(LateText)>>)
  IN IF to = "chat" THEN Wire(<<>>, <<system(SystemText)>> \o talk)
                    ELSE Wire(<<<<SystemText>>>>, talk)

-----------------------------------------------------------------------------
(* The gateway *)

(* The recorded turns that a request refers to. *)
History(c, r) ==
  [id \in AntigravityHistoryIDs(r) |->
    Recorded(c, CHOOSE n \in c.ours : id \in {b.call : b \in ToSet(Said(c, n))})]

UpstreamRequest(c, r) ==
  CASE from = "antigravity" -> AntigravityRequest(r, to, History(c, r))
    [] from = "codex"       -> PrepareRequest(r, to)
    [] OTHER                -> ConvertRequest(r, to, from)

ExchangeInit == Init /\ phase = "idle" /\ asked = Nothing /\ told = Nothing

Ask ==
  /\ phase = "idle"
  /\ \E c \in Conversations :
       /\ asked' = c
       /\ told' = UpstreamRequest(c, ClientRequest(c))
       /\ phase' = IF told'.refused THEN "refused" ELSE "asked"
  /\ UNCHANGED vars

AnswerBegins ==
  /\ phase = "asked"
  /\ phase' = "streaming" /\ asked' = Nothing /\ told' = Nothing
  /\ UNCHANGED vars

AnswerGoesOn ==
  /\ phase = "streaming"
  /\ Next
  /\ UNCHANGED <<phase, asked, told>>

ExchangeNext == Ask \/ AnswerBegins \/ AnswerGoesOn

ExchangeSpec == ExchangeInit /\ [][ExchangeNext]_exchangeVars

-----------------------------------------------------------------------------
(* Properties *)

AllBlocks(input) == FlattenSeq(Each(LAMBDA m : m.blocks, input))
By(input, roles) == AllBlocks(SelectSeq(input, LAMBDA m : m.role \in roles))

CallFirst(c) == \E n \in DOMAIN c.turns : c.turns[n] = <<"tool", "text">>

(* A request that cannot be converted: reasoning for Antigravity or of a   *)
(* Responses client, system messages where the target has no place for     *)
(* them, and a recorded turn that is not repeated as it was; from a        *)
(* Responses client a call and the text after it are two messages.         *)
Convertible(c) ==
  IF from = "antigravity"
    THEN /\ ~c.echo /\ ~c.late /\ c.edit = "none"
         /\ to = "responses" => \A n \in c.ours : c.turns[n] # <<"tool", "text">>
    ELSE /\ to = "responses" => from = "codex" \/ ~c.echo
         /\ to = "chat" => ~c.late

(* The system texts, those of the assistant and those of the user: each in *)
(* their order, with nothing lost and nothing from another.                *)
TextsKept(c, input) ==
  LET turns == DOMAIN c.turns
      spoken == FlattenSeq([n \in turns |-> Of(Repeated(c, n), "text")])
      remarks == FlattenSeq([n \in turns |-> Remark(c, n)])
  IN /\ FlattenSeq(told.system) \o Text(By(input, {"system", "developer"}), "text")
          = <<SystemText>> \o When(c.late, <<LateText>>)
     /\ Text(By(input, {"assistant", "model"}), "text") = Text(spoken, "text")
     /\ Text(By(input, {"user"}), "text")
          = <<UserText(0)>> \o Text(remarks, "text")

(* Every call is there once, under an id of its own that the upstream can  *)
(* take, and its result comes with the same id.                            *)
CallsKept(c, input) ==
  LET calls   == Of(AllBlocks(input), "tool")
      results == Of(AllBlocks(input), "result")
  IN /\ Each(LAMBDA b : b.content, calls) =
          Each(LAMBDA b : b.content,
               FlattenSeq([n \in DOMAIN c.turns |-> Of(Repeated(c, n), "tool")]))
     /\ Len(results) = Len(calls)
     /\ \A k \in DOMAIN calls :
          /\ results[k].call = calls[k].call
          /\ results[k].content = <<Outcome(calls[k].content[1])>>
          /\ from \in {"responses", "codex"} /\ to # "responses" =>
               ~TooLong(calls[k].call)
          /\ \A j \in 1..k - 1 : calls[k].call # 0 => calls[k].call # calls[j].call

OnlyResults(blocks) == \A b \in ToSet(blocks) : b.kind = "result"

(* Chat, Messages and Antigravity want the results directly after the      *)
(* message with their calls, and Antigravity in one content.               *)
ResultsFollow(input) ==
  \A i \in DOMAIN input :
    LET n == Len(Of(input[i].blocks, "tool"))
        after == AllBlocks(SubSeq(input, i + 1, Len(input)))
    IN n > 0 => /\ OnlyResults(SubSeq(after, 1, n))
                /\ from = "antigravity" =>
                     Len(Of(input[i + 1].blocks, "result")) = n

(* A thought of a recorded turn goes back with it; otherwise only what a   *)
(* Messages client repeats to a Chat upstream is kept.                     *)
ReasoningKept(c, input) ==
  LET thoughts == Text(AllBlocks(input), "reasoning")
  IN CASE from = "antigravity" -> ToSet(thoughts) = {Thought(n) : n \in c.ours}
       [] from = "codex" /\ to = "responses" -> c.echo <=> thoughts = <<Thought(1)>>
       [] OTHER -> thoughts = When(c.echo /\ from = "chat" /\ to = "messages",
                                   <<Thought(1)>>)

(* The upstream is asked what the client asked: a conversation that can be *)
(* converted is, with its texts, calls, results and reasoning, and one     *)
(* that cannot is refused before the upstream is called; above all a       *)
(* recorded turn that the client has edited is never sent with the         *)
(* signatures of the original (requirements.md:183).  From a Responses     *)
(* client a call and the text after it are two messages, and then the      *)
(* results do not follow their calls: see the README.                      *)
RequestKept ==
  /\ phase = "refused" => ~Convertible(asked)
  /\ phase = "asked" =>
       /\ Convertible(asked)
       /\ TextsKept(asked, told.input)
       /\ CallsKept(asked, told.input)
       /\ from \notin {"responses", "codex"} /\ ~(to = "responses" /\ CallFirst(asked))
            => ResultsFollow(told.input)
       /\ ReasoningKept(asked, told.input)
=============================================================================
