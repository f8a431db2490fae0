------------------------ MODULE StreamConvertProofs ------------------------
(***************************************************************************)
(* For any number of blocks, deltas and calls, and any upstream and client *)
(* protocol: the relays of OAuth providers commit a stream at its first    *)
(* content, a client gets no call of an Antigravity turn that has not been *)
(* recorded, codex.Stream gathers every item, the blocks that a client     *)
(* sees are well formed, and a stream begins and ends once.                *)
(*                                                                         *)
(* Why the first three need a stronger invariant (StreamInv): whether an   *)
(* event shows content depends on the encoder, which writes nothing any    *)
(* more once it is done and has no event for an item it has shown already  *)
(* (HeldBack, BlocksShown); a call can become known to the encoder before  *)
(* it is shown (Recorded); and codex.items follow the blocks that the      *)
(* upstream closed (Collected).                                            *)
(*                                                                         *)
(* Why the blocks need another (BlockInv): where an event is well placed   *)
(* depends on all that was written before, which the encoder knows only by *)
(* its indexes and its calls (Encoding); and it writes no block twice only *)
(* if the decoder names no call twice, which depends on what the decoder   *)
(* knows of the upstream's calls (ChatLink, BlockLink, AntigravityLink).   *)
(*                                                                         *)
(* The folds over events, parts and calls are reasoned about by induction  *)
(* on their length (SetInduction): a property is a set of numbers, which   *)
(* contains 0 and the successor of each of its members.                    *)
(***************************************************************************)
EXTENDS StreamConvert, FiniteSetTheorems, WellFoundedInduction, TLAPS

(* Induction over the natural numbers, for a set. *)
LEMMA SetInduction ==
  ASSUME NEW S, 0 \in S, \A n \in Nat : n \in S => n + 1 \in S
  PROVE  Nat \subseteq S
  <1> DEFINE D == Nat \ S
             L == OpToRel(<, Nat)
  <1>1. SUFFICES ASSUME D # {} PROVE FALSE
    OBVIOUS
  <1>2. IsWellFoundedOn(L, Nat)
    BY NatLessThanWellFounded
  <1>3. PICK d \in D : \A e \in D : ~(<<e, d>> \in L)
    <2>. HIDE DEF L
    <2>1. D \subseteq Nat
      OBVIOUS
    <2>. HIDE DEF D
    <2>. QED BY <1>1, <1>2, <2>1, WFMin
  <1>4. \A e \in D : ~(e < d)
    BY <1>3 DEF OpToRel
  <1>5. d # 0 /\ d - 1 \in Nat /\ (d - 1) + 1 = d
    OBVIOUS
  <1>6. d - 1 \in D
    BY <1>5
  <1>. QED BY <1>4, <1>5, <1>6

(* A fold is a function of the length folded so far. *)
LEMMA ConvertRuns ==
  ASSUME NEW events, Len(events) \in Nat, NEW base
  PROVE  \E g : /\ g = [i \in 0..Len(events) |->
                          IF i = 0 THEN base ELSE encodeEvent(g[i - 1], events[i])]
                /\ Fold(encodeEvent, base, events) = g[Len(events)]
  <1> DEFINE N == Len(events)
             Is(g, m) == g = [i \in 0..m |-> IF i = 0 THEN base ELSE encodeEvent(g[i - 1], events[i])]
             S == {m \in Nat : \E g : Is(g, m)}
  <1>1. 0 \in S
    <2>1. Is([i \in 0..0 |-> base], 0)
      OBVIOUS
    <2>. QED BY <2>1
  <1>2. ASSUME NEW m \in Nat, m \in S PROVE m + 1 \in S
    <2>1. PICK g : Is(g, m)
      BY <1>2
    <2> DEFINE h == [i \in 0..(m + 1) |-> IF i <= m THEN g[i] ELSE encodeEvent(g[m], events[m + 1])]
    <2>2. \A i \in 0..(m + 1) : h[i] = IF i = 0 THEN base ELSE encodeEvent(h[i - 1], events[i])
      BY <2>1
    <2>3. Is(h, m + 1)
      BY <2>2
    <2>. HIDE DEF h, Is
    <2>. QED BY <2>3
  <1>3. N \in S
    <2>. HIDE DEF S
    <2>. QED BY <1>1, <1>2, SetInduction
  <1> DEFINE f == CHOOSE g : Is(g, N)
  <1>4. Is(f, N)
    BY <1>3
  <1>5. Fold(encodeEvent, base, events) = f[N]
    BY DEF Fold
  <1>. QED BY <1>4, <1>5

(* What CHOOSE picks in Min exists. *)
LEMMA Least ==
  ASSUME NEW S \in SUBSET Nat, S # {}
  PROVE  Min(S) \in S /\ \A y \in S : Min(S) <= y
  <1> DEFINE L == OpToRel(<, Nat)
  <1>1. IsWellFoundedOn(L, Nat)
    BY NatLessThanWellFounded
  <1>2. PICK d \in S : \A e \in S : ~(<<e, d>> \in L)
    <2>. HIDE DEF L
    <2>. QED BY <1>1, WFMin
  <1>3. \A e \in S : ~(e < d)
    BY <1>2 DEF OpToRel
  <1>4. \A e \in S : d <= e
    BY <1>3
  <1>. QED BY <1>4 DEF Min
-----------------------------------------------------------------------------
(* Sequences of anything. *)

IsSeq(s) == \E A : s \in Seq(A)
Member(x, s) == \E i \in DOMAIN s : s[i] = x

LEMMA SeqFacts ==
  ASSUME NEW s, IsSeq(s)
  PROVE  Len(s) \in Nat /\ DOMAIN s = 1..Len(s) /\ (Len(s) = 0 <=> s = <<>>)
  BY DEF IsSeq

LEMMA Singles ==
  /\ IsSeq(<<>>) /\ \A x : ~Member(x, <<>>)
  /\ \A y : /\ IsSeq(<<y>>) /\ Len(<<y>>) = 1 /\ <<y>>[1] = y
            /\ \A x : Member(x, <<y>>) <=> x = y
  <1>1. IsSeq(<<>>) /\ \A x : ~Member(x, <<>>)
    <2>1. <<>> \in Seq({})
      OBVIOUS
    <2>. QED BY <2>1 DEF IsSeq, Member
  <1>2. ASSUME NEW y
        PROVE  IsSeq(<<y>>) /\ \A x : Member(x, <<y>>) <=> x = y
    <2>1. <<y>> \in Seq({y}) /\ DOMAIN <<y>> = {1} /\ <<y>>[1] = y
      OBVIOUS
    <2>. QED BY <2>1 DEF IsSeq, Member
  <1>. QED BY <1>1, <1>2

LEMMA Joins ==
  ASSUME NEW s, NEW t, IsSeq(s), IsSeq(t)
  PROVE  /\ IsSeq(s \o t) /\ Len(s \o t) = Len(s) + Len(t)
         /\ \A x : Member(x, s \o t) <=> Member(x, s) \/ Member(x, t)
  <1>1. PICK A : s \in Seq(A)
    BY DEF IsSeq
  <1>2. PICK B : t \in Seq(B)
    BY DEF IsSeq
  <1>3. s \in Seq(A \cup B) /\ t \in Seq(A \cup B)
    BY <1>1, <1>2
  <1>4. s \o t \in Seq(A \cup B) /\ Len(s \o t) = Len(s) + Len(t)
    BY <1>3
  <1>5. \A i \in 1..(Len(s) + Len(t)) :
          (s \o t)[i] = IF i <= Len(s) THEN s[i] ELSE t[i - Len(s)]
    BY <1>3
  <1>6. /\ Len(s) \in Nat /\ Len(t) \in Nat /\ DOMAIN s = 1..Len(s) /\ DOMAIN t = 1..Len(t)
        /\ DOMAIN (s \o t) = 1..(Len(s) + Len(t))
    BY <1>3, <1>4
  <1>7. ASSUME NEW x PROVE Member(x, s \o t) <=> Member(x, s) \/ Member(x, t)
    <2>1. ASSUME NEW i \in DOMAIN s, s[i] = x PROVE Member(x, s \o t)
      <3>1. i \in DOMAIN (s \o t) /\ (s \o t)[i] = x
        BY <1>5, <1>6, <2>1
      <3>. QED BY <3>1 DEF Member
    <2>2. ASSUME NEW i \in DOMAIN t, t[i] = x PROVE Member(x, s \o t)
      <3>1. Len(s) + i \in DOMAIN (s \o t) /\ (s \o t)[Len(s) + i] = x
        BY <1>5, <1>6, <2>2
      <3>. QED BY <3>1 DEF Member
    <2>3. ASSUME NEW i \in DOMAIN (s \o t), (s \o t)[i] = x PROVE Member(x, s) \/ Member(x, t)
      <3>1. CASE i <= Len(s)
        <4>1. i \in DOMAIN s /\ s[i] = x
          BY <1>5, <1>6, <2>3, <3>1
        <4>. QED BY <4>1 DEF Member
      <3>2. CASE i > Len(s)
        <4>1. i - Len(s) \in DOMAIN t /\ t[i - Len(s)] = x
          BY <1>5, <1>6, <2>3, <3>2
        <4>. QED BY <4>1 DEF Member
      <3>. QED BY <1>6, <2>3, <3>1, <3>2
    <2>. QED BY <2>1, <2>2, <2>3 DEF Member
  <1>. QED BY <1>4, <1>7 DEF IsSeq

LEMMA Appends ==
  ASSUME NEW s, NEW y, IsSeq(s)
  PROVE  /\ IsSeq(Append(s, y)) /\ Len(Append(s, y)) = Len(s) + 1
         /\ \A x : Member(x, Append(s, y)) <=> Member(x, s) \/ x = y
         /\ \A i \in 1..Len(s) : Append(s, y)[i] = s[i]
         /\ Append(s, y)[Len(s) + 1] = y
  <1>1. PICK A : s \in Seq(A)
    BY DEF IsSeq
  <1>2. s \in Seq(A \cup {y}) /\ y \in A \cup {y}
    BY <1>1
  <1>3. /\ Append(s, y) \in Seq(A \cup {y}) /\ Len(Append(s, y)) = Len(s) + 1
        /\ \A i \in 1..Len(s) : Append(s, y)[i] = s[i]
        /\ Append(s, y)[Len(s) + 1] = y
        /\ Len(s) \in Nat /\ DOMAIN s = 1..Len(s) /\ DOMAIN Append(s, y) = 1..(Len(s) + 1)
    BY <1>2
  <1>4. \A x : Member(x, Append(s, y)) <=> Member(x, s) \/ x = y
    <2>1. 1..(Len(s) + 1) = 1..Len(s) \cup {Len(s) + 1}
      BY <1>3
    <2>. QED BY <1>3, <2>1 DEF Member
  <1>. QED BY <1>3, <1>4 DEF IsSeq

LEMMA Updates ==
  ASSUME NEW s, NEW k, NEW y, IsSeq(s)
  PROVE  IsSeq([s EXCEPT ![k] = y]) /\ Len([s EXCEPT ![k] = y]) = Len(s)
  <1>1. PICK A : s \in Seq(A)
    BY DEF IsSeq
  <1> DEFINE B == A \cup {y}
             t == [s EXCEPT ![k] = y]
  <1>2. s \in Seq(B) /\ y \in B
    BY <1>1
  <1>3. Len(s) \in Nat /\ DOMAIN s = 1..Len(s) /\ \A i \in 1..Len(s) : s[i] \in B
    <2>. HIDE DEF B
    <2>. QED BY <1>2
  <1>4. DOMAIN t = 1..Len(s) /\ \A i \in 1..Len(s) : t[i] \in B
    BY <1>3
  <1>5. t = [i \in 1..Len(s) |-> t[i]]
    BY <1>3
  <1>6. t \in Seq(B) /\ Len(t) = Len(s)
    <2>. HIDE DEF B, t
    <2>1. t \in [1..Len(s) -> B]
      BY <1>4, <1>5
    <2>. QED BY <1>3, <2>1
  <1>. QED BY <1>6 DEF IsSeq

-----------------------------------------------------------------------------
(* Content that a client sees: the encoder. *)

Loud(out) == \E w : Member(w, out) /\ HasContent(w)

LEMMA LoudJoins ==
  ASSUME NEW s, NEW t, IsSeq(s), IsSeq(t)
  PROVE  IsSeq(s \o t) /\ (Loud(s \o t) <=> Loud(s) \/ Loud(t))
  BY Joins DEF Loud

LEMMA LoudSingles ==
  /\ IsSeq(<<>>) /\ ~Loud(<<>>)
  /\ \A y : IsSeq(<<y>>) /\ (Loud(<<y>>) <=> HasContent(y))
  /\ \A y, z : IsSeq(<<y, z>>) /\ (Loud(<<y, z>>) <=> HasContent(y) \/ HasContent(z))
  <1>1. IsSeq(<<>>) /\ ~Loud(<<>>)
    BY Singles DEF Loud
  <1>2. ASSUME NEW y PROVE IsSeq(<<y>>) /\ (Loud(<<y>>) <=> HasContent(y))
    <2>1. IsSeq(<<y>>) /\ \A x : Member(x, <<y>>) <=> x = y
      BY Singles
    <2>. HIDE DEF HasContent
    <2>. QED BY <2>1 DEF Loud
  <1>3. ASSUME NEW y, NEW z
        PROVE  IsSeq(<<y, z>>) /\ (Loud(<<y, z>>) <=> HasContent(y) \/ HasContent(z))
    <2>1. <<y, z>> = Append(<<y>>, z)
      OBVIOUS
    <2>2. IsSeq(<<y>>) /\ \A x : Member(x, <<y>>) <=> x = y
      BY Singles
    <2>3. IsSeq(Append(<<y>>, z)) /\ \A x : Member(x, Append(<<y>>, z)) <=> Member(x, <<y>>) \/ x = z
      BY <2>2, Appends
    <2>4. IsSeq(<<y, z>>) /\ \A x : Member(x, <<y, z>>) <=> x = y \/ x = z
      BY <2>1, <2>2, <2>3
    <2>. QED BY <2>4 DEF Loud
  <1>. QED BY <1>1, <1>2, <1>3

(* A call that the client gets to know is one of C. *)
Shows(out, C) == \A w : Member(w, out) /\ StartsCall(w) => CallsOf(w)[1].call \in C

LEMMA StartsIsContent ==
  \A w : StartsCall(w) => HasContent(w)
  BY DEF StartsCall, CallsOf, HasContent

LEMMA QuietShowsNothing ==
  ASSUME NEW out, ~Loud(out), NEW C
  PROVE  Shows(out, C)
  BY StartsIsContent DEF Shows, Loud

LEMMA ShowsJoins ==
  ASSUME NEW s, NEW t, IsSeq(s), IsSeq(t), NEW C, Shows(s, C), Shows(t, C)
  PROVE  Shows(s \o t, C)
  BY Joins DEF Shows

LEMMA ShowsSingles ==
  ASSUME NEW w, NEW C, StartsCall(w) => CallsOf(w)[1].call \in C
  PROVE  Shows(<<w>>, C)
  BY Singles DEF Shows

(* An encoder, as far as this needs it, and the calls it knows. *)
ToolFields == {"key", "call", "index", "content", "closed"}
IsEncoder(e) ==
  /\ DOMAIN e = DOMAIN newStreamEncoder("chat")
  /\ e.protocol \in Client
  /\ e.done \in BOOLEAN /\ e.started \in BOOLEAN /\ e.reasoningClosed \in BOOLEAN
  /\ IsSeq(e.tools)
  /\ \A k \in DOMAIN e.tools : DOMAIN e.tools[k] = ToolFields
KnownCalls(e) == {e.tools[k].call : k \in DOMAIN e.tools}

(* A step of the encoder of e that learns of the calls ids, and shows      *)
(* content or not. *)
Steps(e, ids, w, loud) ==
  /\ IsEncoder(w.enc) /\ w.enc.protocol = e.protocol /\ w.enc.done = e.done
  /\ KnownCalls(w.enc) \subseteq KnownCalls(e) \cup ids
  /\ IsSeq(w.out) /\ (Loud(w.out) <=> loud)
  /\ Shows(w.out, KnownCalls(e) \cup ids)
Quiet(e, w) == Steps(e, {}, w, FALSE)

LEMMA QuietStep ==
  ASSUME NEW e, NEW b, IsEncoder(b), b.protocol = e.protocol, b.done = e.done,
         KnownCalls(b) = KnownCalls(e), NEW out, IsSeq(out), ~Loud(out)
  PROVE  Quiet(e, Written(b, out))
  BY QuietShowsNothing DEF Quiet, Steps, Written

LEMMA QuietFirst ==
  ASSUME NEW e, NEW w, NEW v, NEW ids, NEW loud, Quiet(e, w), Steps(w.enc, ids, v, loud)
  PROVE  Steps(e, ids, After(w.out, v), loud)
  <1> DEFINE C == KnownCalls(e) \cup ids
  <1>1. After(w.out, v).enc = v.enc /\ After(w.out, v).out = w.out \o v.out
    BY DEF After, Written
  <1>2. IsSeq(w.out) /\ ~Loud(w.out) /\ IsSeq(v.out) /\ (Loud(v.out) <=> loud)
    BY DEF Quiet, Steps
  <1>3. KnownCalls(w.enc) \subseteq KnownCalls(e)
    BY DEF Quiet, Steps
  <1>4. Shows(w.out, C) /\ Shows(v.out, C)
    <2>1. Shows(v.out, KnownCalls(w.enc) \cup ids)
      BY DEF Steps
    <2>. QED BY <1>2, <1>3, <2>1, QuietShowsNothing DEF Shows
  <1>5. /\ IsSeq(w.out \o v.out) /\ (Loud(w.out \o v.out) <=> loud)
        /\ Shows(w.out \o v.out, C)
    BY <1>2, <1>4, LoudJoins, ShowsJoins
  <1>. QED BY <1>1, <1>3, <1>5 DEF Quiet, Steps

LEMMA QuietTwice ==
  ASSUME NEW e, NEW w, NEW v, Quiet(e, w), Quiet(w.enc, v)
  PROVE  Quiet(e, After(w.out, v))
  BY QuietFirst DEF Quiet

LEMMA Begun ==
  ASSUME NEW e, IsEncoder(e)
  PROVE  Quiet(e, ensureStarted(e))
  <1> DEFINE b == [e EXCEPT !.started = TRUE]
  <1>1. IsEncoder(b) /\ b.protocol = e.protocol /\ b.done = e.done /\ KnownCalls(b) = KnownCalls(e)
    BY DEF IsEncoder, newStreamEncoder, KnownCalls
  <1>. HIDE DEF b
  <1>2. CASE e.started
    <2>1. ensureStarted(e) = Written(e, <<>>)
      BY <1>2 DEF ensureStarted
    <2>. QED BY <2>1, LoudSingles, QuietStep
  <1>3. CASE ~e.started /\ e.protocol = "chat"
    <2>1. ensureStarted(e) = Written(b, <<Chunk>>)
      BY <1>3 DEF ensureStarted, b
    <2>2. ~HasContent(Chunk)
      BY DEF HasContent, Chunk, blank, Opens
    <2>. QED BY <1>1, <2>1, <2>2, LoudSingles, QuietStep
  <1>4. CASE ~e.started /\ e.protocol = "messages"
    <2> DEFINE w == [blank EXCEPT !.type = "message_start", !.usage = e.usage]
    <2>1. ensureStarted(e) = Written(b, <<w>>)
      BY <1>4 DEF ensureStarted, b
    <2>2. ~HasContent(w)
      BY DEF HasContent, blank, Opens
    <2>. HIDE DEF w
    <2>. QED BY <1>1, <2>1, <2>2, LoudSingles, QuietStep
  <1>5. CASE ~e.started /\ e.protocol = "responses"
    <2> DEFINE w == [blank EXCEPT !.type = "response.created"]
               v == [blank EXCEPT !.type = "response.in_progress"]
    <2>1. ensureStarted(e) = Written(b, <<w, v>>)
      BY <1>5 DEF ensureStarted, b
    <2>2. ~HasContent(w) /\ ~HasContent(v)
      BY DEF HasContent, blank, Opens
    <2>. HIDE DEF w, v
    <2>. QED BY <1>1, <2>1, <2>2, LoudSingles, QuietStep
  <1>. QED BY <1>2, <1>3, <1>4, <1>5 DEF IsEncoder, Client

(* What each kind of event is worth, and which of them start a call. *)
LEMMA Contents ==
  ASSUME NEW e, IsEncoder(e), NEW kind, NEW i, NEW id, NEW d, NEW content
  PROVE  /\ HasContent(Open(e, kind, i, id)) <=> kind = "tool"
         /\ HasContent(Grow(e, kind, i, d)) <=> d # 0
         /\ ~HasContent(Close(e, kind, i, id, content))
         /\ HasContent(ToolChunk(i, id, d))
  BY DEF HasContent, Open, Grow, Close, ToolChunk, Chunk, blank, Opens

LEMMA Starting ==
  ASSUME NEW e, IsEncoder(e), NEW i, NEW id, NEW d, NEW kind
  PROVE  /\ StartsCall(Open(e, "tool", i, id)) => CallsOf(Open(e, "tool", i, id))[1].call = id
         /\ ~StartsCall(Grow(e, kind, i, d))
         /\ StartsCall(ToolChunk(i, id, d)) => id # 0 /\ CallsOf(ToolChunk(i, id, d))[1].call = id
  <1>1. StartsCall(Open(e, "tool", i, id)) => CallsOf(Open(e, "tool", i, id))[1].call = id
    BY DEF CallsOf, Open, blank, Opens, Call
  <1>2. ~StartsCall(Grow(e, kind, i, d))
    BY DEF StartsCall, Grow, blank, Grows
  <1>3. StartsCall(ToolChunk(i, id, d)) => id # 0 /\ CallsOf(ToolChunk(i, id, d))[1].call = id
    <2> DEFINE w == ToolChunk(i, id, d)
    <2>1. ~Opens(w) /\ ~Grows(w) /\ w.tools = <<[index |-> i, call |-> id, delta |-> d]>>
      BY DEF ToolChunk, Chunk, blank, Opens, Grows
    <2>. HIDE DEF w
    <2>2. CallsOf(w) = <<[index |-> i, call |-> id, delta |-> d]>>
      BY <2>1 DEF CallsOf
    <2>3. CallsOf(w)[1].call = id
      BY <2>2
    <2>. QED BY <2>1, <2>3 DEF StartsCall, w
  <1>. QED BY <1>1, <1>2, <1>3

LEMMA ReasoningClosed ==
  ASSUME NEW e, IsEncoder(e)
  PROVE  Quiet(e, closeReasoning(e))
  <1> DEFINE b == [e EXCEPT !.reasoningClosed = TRUE]
             w == Close(e, "reasoning", e.reasoningIndex, 0, e.reasoning)
  <1>1. CASE e.reasoningIndex = None \/ e.reasoningClosed
    <2>1. closeReasoning(e) = Written(e, <<>>)
      BY <1>1 DEF closeReasoning
    <2>. QED BY <2>1, LoudSingles, QuietStep
  <1>2. CASE ~(e.reasoningIndex = None \/ e.reasoningClosed)
    <2>1. /\ IsEncoder(b) /\ b.protocol = e.protocol /\ b.done = e.done
          /\ KnownCalls(b) = KnownCalls(e)
      BY DEF IsEncoder, newStreamEncoder, KnownCalls
    <2>2. closeReasoning(e) = Written(b, <<w>>)
      BY <1>2 DEF closeReasoning
    <2>3. ~HasContent(w)
      BY Contents
    <2>. HIDE DEF w, b
    <2>. QED BY <2>1, <2>2, <2>3, LoudSingles, QuietStep
  <1>. QED BY <1>1, <1>2

LEMMA Whens ==
  ASSUME NEW condition, NEW w
  PROVE  /\ IsSeq(When(condition, <<w>>))
         /\ Loud(When(condition, <<w>>)) <=> condition /\ HasContent(w)
  <1>. HIDE DEF HasContent
  <1>. QED BY LoudSingles DEF When

LEMMA TextClosed ==
  ASSUME NEW e, IsEncoder(e)
  PROVE  Quiet(e, closeText(e))
  <1> DEFINE w == Close(e, "text", e.textIndex, 0, e.text)
  <1>1. ~HasContent(w)
    BY Contents
  <1>2. closeText(e) = Written(e, When(InBlocks(e) /\ e.textIndex # None, <<w>>))
    BY DEF closeText
  <1>. HIDE DEF w
  <1>. QED BY <1>1, <1>2, Whens, QuietStep

LEMMA Goodbye ==
  ASSUME NEW e, IsEncoder(e)
  PROVE  Quiet(e, farewell(e))
  <1>1. CASE e.protocol = "chat"
    <2> DEFINE w == [Chunk EXCEPT !.stop = chatStop(e.stop), !.usage = e.usage]
               v == [blank EXCEPT !.type = "DONE"]
    <2>1. farewell(e) = Written(e, <<w, v>>)
      BY <1>1 DEF farewell
    <2>2. ~HasContent(w) /\ ~HasContent(v)
      BY DEF HasContent, Chunk, blank, Opens
    <2>. HIDE DEF w, v
    <2>. QED BY <2>1, <2>2, LoudSingles, QuietStep
  <1>2. CASE e.protocol = "messages"
    <2> DEFINE w == [blank EXCEPT !.type = "message_delta", !.stop = messagesStop(e.stop),
                                  !.usage = e.usage]
               v == [blank EXCEPT !.type = "message_stop"]
    <2>1. farewell(e) = Written(e, <<w, v>>)
      BY <1>2 DEF farewell
    <2>2. ~HasContent(w) /\ ~HasContent(v)
      BY DEF HasContent, blank, Opens
    <2>. HIDE DEF w, v
    <2>. QED BY <2>1, <2>2, LoudSingles, QuietStep
  <1>3. CASE e.protocol = "responses"
    <2> DEFINE w == [blank EXCEPT !.type = "response.completed", !.usage = e.usage,
                                  !.output = responseOutput(e)]
    <2>1. farewell(e) = Written(e, <<w>>)
      BY <1>3 DEF farewell
    <2>2. ~HasContent(w)
      BY DEF HasContent, blank, Opens
    <2>. HIDE DEF w
    <2>. QED BY <2>1, <2>2, LoudSingles, QuietStep
  <1>. QED BY <1>1, <1>2, <1>3 DEF IsEncoder, Client

(* A call in the list of calls is replaced by itself in another state. *)
LEMMA ToolReplaced ==
  ASSUME NEW e, IsEncoder(e), NEW k, NEW t,
         k \in DOMAIN e.tools => DOMAIN t = ToolFields /\ t.call = e.tools[k].call
  PROVE  LET b == [e EXCEPT !.tools[k] = t]
         IN /\ IsEncoder(b) /\ b.protocol = e.protocol /\ b.done = e.done
            /\ KnownCalls(b) = KnownCalls(e)
  <1> DEFINE s == [e.tools EXCEPT ![k] = t]
             b == [e EXCEPT !.tools = s]
  <1>1. IsSeq(s)
    BY Updates DEF IsEncoder
  <1>2. DOMAIN s = DOMAIN e.tools /\ \A j \in DOMAIN s : s[j] = IF j = k THEN t ELSE e.tools[j]
    OBVIOUS
  <1>. HIDE DEF s
  <1>3. \A j \in DOMAIN s : DOMAIN s[j] = ToolFields /\ s[j].call = e.tools[j].call
    BY <1>2 DEF IsEncoder
  <1>4. b.tools = s /\ b.protocol = e.protocol /\ b.done = e.done
    BY DEF IsEncoder, newStreamEncoder
  <1>5. IsEncoder(b)
    BY <1>1, <1>3 DEF IsEncoder, newStreamEncoder
  <1>6. KnownCalls(b) = KnownCalls(e)
    <2>. HIDE DEF b
    <2>. QED BY <1>2, <1>3, <1>4 DEF KnownCalls
  <1>. QED BY <1>4, <1>5, <1>6 DEF s

LEMMA ToolClosed ==
  ASSUME NEW e, IsEncoder(e), NEW k
  PROVE  Quiet(e, closeTool(e, k))
  <1> DEFINE t == e.tools[k]
             u == [t EXCEPT !.closed = TRUE]
             b == [e EXCEPT !.tools[k] = u]
             w == Close(e, "tool", t.index, t.call, t.content)
  <1>1. CASE t.closed
    <2>1. closeTool(e, k) = Written(e, <<>>)
      BY <1>1 DEF closeTool
    <2>. QED BY <2>1, LoudSingles, QuietStep
  <1>2. CASE ~t.closed
    <2>1. k \in DOMAIN e.tools => DOMAIN u = ToolFields /\ u.call = t.call
      BY DEF IsEncoder, ToolFields
    <2>2. closeTool(e, k) = Written(b, When(InBlocks(e), <<w>>))
      BY <1>2 DEF closeTool
    <2>. HIDE DEF u
    <2>3. /\ IsEncoder(b) /\ b.protocol = e.protocol /\ b.done = e.done
          /\ KnownCalls(b) = KnownCalls(e)
      BY <2>1, ToolReplaced
    <2>4. ~HasContent(w)
      BY Contents
    <2>. HIDE DEF w, b
    <2>. QED BY <2>2, <2>3, <2>4, Whens, QuietStep
  <1>. QED BY <1>1, <1>2

(* closeTools goes through the calls one by one. *)
LEMMA CloseRuns ==
  ASSUME NEW ks, Len(ks) \in Nat, NEW base
  PROVE  \E g : /\ g = [i \in 0..Len(ks) |->
                          IF i = 0 THEN base ELSE closeNext(g[i - 1], ks[i])]
                /\ Fold(closeNext, base, ks) = g[Len(ks)]
  <1> DEFINE N == Len(ks)
             Is(g, m) == g = [i \in 0..m |-> IF i = 0 THEN base ELSE closeNext(g[i - 1], ks[i])]
             S == {m \in Nat : \E g : Is(g, m)}
  <1>1. 0 \in S
    <2>1. Is([i \in 0..0 |-> base], 0)
      OBVIOUS
    <2>. QED BY <2>1
  <1>2. ASSUME NEW m \in Nat, m \in S PROVE m + 1 \in S
    <2>1. PICK g : Is(g, m)
      BY <1>2
    <2> DEFINE h == [i \in 0..(m + 1) |-> IF i <= m THEN g[i] ELSE closeNext(g[m], ks[m + 1])]
    <2>2. \A i \in 0..(m + 1) : h[i] = IF i = 0 THEN base ELSE closeNext(h[i - 1], ks[i])
      BY <2>1
    <2>3. Is(h, m + 1)
      BY <2>2
    <2>. HIDE DEF h, Is
    <2>. QED BY <2>3
  <1>3. N \in S
    <2>. HIDE DEF S
    <2>. QED BY <1>1, <1>2, SetInduction
  <1> DEFINE f == CHOOSE g : Is(g, N)
  <1>4. Is(f, N)
    BY <1>3
  <1>5. Fold(closeNext, base, ks) = f[N]
    BY DEF Fold
  <1>. QED BY <1>4, <1>5

LEMMA ToolsClosed ==
  ASSUME NEW e, IsEncoder(e)
  PROVE  Quiet(e, closeTools(e))
  <1> DEFINE ks == [k \in DOMAIN e.tools |-> k]
             base == Written(e, <<>>)
             N == Len(ks)
  <1>1. N \in Nat
    <2>1. Len(e.tools) \in Nat /\ DOMAIN e.tools = 1..Len(e.tools)
      BY SeqFacts DEF IsEncoder
    <2>. QED BY <2>1
  <1>2. closeTools(e) = Fold(closeNext, base, ks)
    BY DEF closeTools
  <1> DEFINE Calm(w) == Quiet(e, w)
  <1>3. Calm(base)
    BY LoudSingles, QuietStep
  <1>. HIDE DEF ks, base
  <1>4. PICK g : /\ g = [i \in 0..N |-> IF i = 0 THEN base ELSE closeNext(g[i - 1], ks[i])]
                 /\ Fold(closeNext, base, ks) = g[N]
    BY <1>1, CloseRuns
  <1>9. g[0] = base /\ \A i \in 1..N : g[i] = closeNext(g[i - 1], ks[i])
    BY <1>1, <1>4
  <1>10. closeTools(e) = g[N]
    BY <1>2, <1>4
  <1> DEFINE S == {m \in Nat : m <= N => Calm(g[m])}
  <1>. HIDE DEF Calm
  <1>5. 0 \in S
    BY <1>1, <1>3, <1>9
  <1>6. ASSUME NEW m \in Nat, m \in S PROVE m + 1 \in S
    <2>1. SUFFICES ASSUME m + 1 <= N PROVE Calm(g[m + 1])
      OBVIOUS
    <2>2. Calm(g[m])
      BY <1>1, <1>6, <2>1
    <2>3. g[m + 1] = After(g[m].out, closeTool(g[m].enc, ks[m + 1]))
      BY <1>1, <1>9, <2>1 DEF closeNext
    <2>4. Quiet(g[m].enc, closeTool(g[m].enc, ks[m + 1]))
      BY <2>2, ToolClosed DEF Calm, Quiet, Steps
    <2>. QED BY <2>2, <2>3, <2>4, QuietTwice DEF Calm
  <1>7. Nat \subseteq S
    <2>. HIDE DEF S
    <2>. QED BY <1>5, <1>6, SetInduction
  <1>8. Calm(g[N])
    BY <1>1, <1>7
  <1>. QED BY <1>8, <1>10 DEF Calm

LEMMA Finished ==
  ASSUME NEW e, IsEncoder(e)
  PROVE  Quiet([e EXCEPT !.done = TRUE], finish(e))
  <1> DEFINE b == [e EXCEPT !.done = TRUE]
             v1 == ensureStarted(b)
             v2 == After(v1.out, closeTools(v1.enc))
             v3 == After(v2.out, closeReasoning(v2.enc))
             v4 == After(v3.out, closeText(v3.enc))
             v5 == After(v4.out, farewell(v4.enc))
  <1>1. IsEncoder(b)
    BY DEF IsEncoder, newStreamEncoder
  <1>2. finish(e) = v5
    BY DEF finish, Then
  <1>3. Quiet(b, v1)
    BY <1>1, Begun
  <1>. HIDE DEF b, v1
  <1>4. Quiet(b, v2)
    <2>1. Quiet(v1.enc, closeTools(v1.enc))
      BY <1>3, ToolsClosed DEF Quiet, Steps
    <2>. QED BY <1>3, <2>1, QuietTwice
  <1>. HIDE DEF v2
  <1>5. Quiet(b, v3)
    <2>1. Quiet(v2.enc, closeReasoning(v2.enc))
      BY <1>4, ReasoningClosed DEF Quiet, Steps
    <2>. QED BY <1>4, <2>1, QuietTwice
  <1>. HIDE DEF v3
  <1>6. Quiet(b, v4)
    <2>1. Quiet(v3.enc, closeText(v3.enc))
      BY <1>5, TextClosed DEF Quiet, Steps
    <2>. QED BY <1>5, <2>1, QuietTwice
  <1>. HIDE DEF v4
  <1>7. Quiet(b, v5)
    <2>1. Quiet(v4.enc, farewell(v4.enc))
      BY <1>6, Goodbye DEF Quiet, Steps
    <2>. QED BY <1>6, <2>1, QuietTwice
  <1>. QED BY <1>2, <1>7 DEF b

LEMMA TextEncoded ==
  ASSUME NEW e, IsEncoder(e), NEW d
  PROVE  Steps(e, {}, encodeText(e, d), d # 0)
  <1>1. CASE d = 0
    <2>1. encodeText(e, d) = Written(e, <<>>)
      BY <1>1 DEF encodeText
    <2>2. Quiet(e, Written(e, <<>>))
      BY LoudSingles, QuietStep
    <2>. QED BY <1>1, <2>1, <2>2 DEF Quiet, Steps
  <1>2. CASE d # 0 /\ e.protocol = "chat"
    <2> DEFINE b == [e EXCEPT !.text = Append(@, d)]
               w == [Chunk EXCEPT !.delta = d]
    <2>1. encodeText(e, d) = Written(b, <<w>>)
      BY <1>2 DEF encodeText
    <2>2. /\ IsEncoder(b) /\ b.protocol = e.protocol /\ b.done = e.done
          /\ KnownCalls(b) = KnownCalls(e)
      BY DEF IsEncoder, newStreamEncoder, KnownCalls
    <2>3. HasContent(w) /\ ~StartsCall(w)
      BY <1>2 DEF HasContent, StartsCall, CallsOf, Chunk, blank, Opens, Grows
    <2>. HIDE DEF w, b
    <2>. QED BY <1>2, <2>1, <2>2, <2>3, LoudSingles, ShowsSingles DEF Steps, Written
  <1>3. CASE d # 0 /\ e.protocol # "chat"
    <2> DEFINE first == e.textIndex = None
               i == IF first THEN e.nextIndex ELSE e.textIndex
               b == [e EXCEPT !.textIndex = i, !.text = Append(@, d),
                              !.nextIndex = IF first THEN @ + 1 ELSE @]
               v == Open(e, "text", i, 0)
               w == Grow(e, "text", i, d)
               out == When(first, <<v>>) \o <<w>>
    <2>1. encodeText(e, d) = Written(b, out)
      BY <1>3 DEF encodeText
    <2>2. /\ IsEncoder(b) /\ b.protocol = e.protocol /\ b.done = e.done
          /\ KnownCalls(b) = KnownCalls(e)
      BY DEF IsEncoder, newStreamEncoder, KnownCalls
    <2>3. HasContent(w) /\ ~StartsCall(w) /\ ~HasContent(v)
      <3>1. HasContent(w)
        BY <1>3, Contents
      <3>2. ~StartsCall(w)
        BY Starting
      <3>3. ~HasContent(v)
        BY DEF HasContent, Open, blank, Opens
      <3>. QED BY <3>1, <3>2, <3>3
    <2>. HIDE DEF w, b, v, first
    <2>4. IsSeq(When(first, <<v>>)) /\ ~Loud(When(first, <<v>>))
      BY <2>3, Whens
    <2>5. IsSeq(out) /\ Loud(out) /\ Shows(out, KnownCalls(e))
      BY <2>3, <2>4, LoudSingles, LoudJoins, ShowsSingles, ShowsJoins, QuietShowsNothing
    <2>. HIDE DEF out
    <2>. QED BY <1>3, <2>1, <2>2, <2>5 DEF Steps, Written
  <1>. QED BY <1>1, <1>2, <1>3

LEMMA ReasoningEncoded ==
  ASSUME NEW e, IsEncoder(e), NEW d
  PROVE  Steps(e, {}, encodeReasoning(e, d), d # 0)
  <1>1. CASE d = 0
    <2>1. encodeReasoning(e, d) = Written(e, <<>>)
      BY <1>1 DEF encodeReasoning
    <2>2. Quiet(e, Written(e, <<>>))
      BY LoudSingles, QuietStep
    <2>. QED BY <1>1, <2>1, <2>2 DEF Quiet, Steps
  <1>2. CASE d # 0 /\ e.protocol = "chat"
    <2> DEFINE w == [Chunk EXCEPT !.reasoning = d]
    <2>1. encodeReasoning(e, d) = Written(e, <<w>>)
      BY <1>2 DEF encodeReasoning
    <2>2. HasContent(w) /\ ~StartsCall(w)
      BY <1>2 DEF HasContent, StartsCall, CallsOf, Chunk, blank, Opens, Grows
    <2>. HIDE DEF w
    <2>. QED BY <1>2, <2>1, <2>2, LoudSingles, ShowsSingles DEF Steps, Written
  <1>3. CASE d # 0 /\ e.protocol # "chat"
    <2> DEFINE first == e.reasoningIndex = None
               i == IF first THEN e.nextIndex ELSE e.reasoningIndex
               b == [e EXCEPT !.reasoningIndex = i, !.reasoning = Append(@, d),
                              !.nextIndex = IF first THEN @ + 1 ELSE @]
               v == Open(e, "reasoning", i, 0)
               w == Grow(e, "reasoning", i, d)
               out == When(first, <<v>>) \o <<w>>
    <2>1. encodeReasoning(e, d) = Written(b, out)
      BY <1>3 DEF encodeReasoning
    <2>2. /\ IsEncoder(b) /\ b.protocol = e.protocol /\ b.done = e.done
          /\ KnownCalls(b) = KnownCalls(e)
      BY DEF IsEncoder, newStreamEncoder, KnownCalls
    <2>3. HasContent(w) /\ ~StartsCall(w) /\ ~HasContent(v)
      <3>1. HasContent(w)
        BY <1>3, Contents
      <3>2. ~StartsCall(w)
        BY Starting
      <3>3. ~HasContent(v)
        BY DEF HasContent, Open, blank, Opens
      <3>. QED BY <3>1, <3>2, <3>3
    <2>. HIDE DEF w, b, v, first
    <2>4. IsSeq(When(first, <<v>>)) /\ ~Loud(When(first, <<v>>))
      BY <2>3, Whens
    <2>5. IsSeq(out) /\ Loud(out) /\ Shows(out, KnownCalls(e))
      BY <2>3, <2>4, LoudSingles, LoudJoins, ShowsSingles, ShowsJoins, QuietShowsNothing
    <2>. HIDE DEF out
    <2>. QED BY <1>3, <2>1, <2>2, <2>5 DEF Steps, Written
  <1>. QED BY <1>1, <1>2, <1>3

(* The ids under which the call of an event may become known. *)
Names(ev) == IF ev.call # 0 THEN {ev.call} ELSE {InventedCall(n) : n \in Nat}

LEMMA Found ==
  ASSUME NEW e, IsEncoder(e), NEW ev
  PROVE  /\ toolAt(e, ev) # 0 => toolAt(e, ev) \in DOMAIN e.tools
         /\ (\E k \in DOMAIN e.tools : e.tools[k].key = toolKey(ev)) => toolAt(e, ev) # 0
  <1> DEFINE I == {i \in 1..Len(e.tools) : e.tools[i].key = toolKey(ev)}
  <1>1. toolAt(e, ev) = IF I # {} THEN Min(I) ELSE 0
    BY DEF toolAt, SelectInSeq
  <1>2. Len(e.tools) \in Nat /\ DOMAIN e.tools = 1..Len(e.tools)
    BY SeqFacts DEF IsEncoder
  <1>3. I \subseteq 1..Len(e.tools) /\ (I # {} <=> \E k \in DOMAIN e.tools : e.tools[k].key = toolKey(ev))
    BY <1>2
  <1>. HIDE DEF I
  <1>4. I # {} => Min(I) \in I
    BY <1>2, <1>3, Least
  <1>5. CASE I # {}
    <2>1. toolAt(e, ev) \in 1..Len(e.tools)
      BY <1>1, <1>3, <1>4, <1>5
    <2>. QED BY <1>2, <2>1
  <1>6. CASE I = {}
    BY <1>1, <1>3, <1>6
  <1>. QED BY <1>5, <1>6

LEMMA Registered ==
  ASSUME NEW e, IsEncoder(e), NEW ev
  PROVE  /\ IsEncoder(tool(e, ev)) /\ tool(e, ev).protocol = e.protocol
         /\ tool(e, ev).done = e.done
         /\ KnownCalls(tool(e, ev)) \subseteq KnownCalls(e) \cup Names(ev)
         /\ toolAt(tool(e, ev), ev) \in DOMAIN tool(e, ev).tools
  <1>1. CASE toolAt(e, ev) # 0
    BY <1>1, Found DEF tool
  <1>2. CASE toolAt(e, ev) = 0
    <2> DEFINE t == [key     |-> toolKey(ev),
                     call    |-> IF ev.call # 0 THEN ev.call ELSE InventedCall(Len(e.tools)),
                     index   |-> IF InBlocks(e) THEN e.nextIndex ELSE Len(e.tools),
                     content |-> <<>>, closed |-> FALSE]
               s == Append(e.tools, t)
               b == [e EXCEPT !.tools = Append(@, t),
                              !.nextIndex = IF InBlocks(e) THEN @ + 1 ELSE @]
               n == Len(e.tools)
    <2>1. tool(e, ev) = b
      BY <1>2 DEF tool, registered
    <2>2. n \in Nat /\ DOMAIN e.tools = 1..n
      BY SeqFacts DEF IsEncoder
    <2>3. DOMAIN t = ToolFields /\ t.call \in Names(ev) /\ t.key = toolKey(ev)
      BY <2>2 DEF ToolFields, Names
    <2>. HIDE DEF t
    <2>4. /\ IsSeq(s) /\ Len(s) = n + 1 /\ \A i \in 1..n : s[i] = e.tools[i]
          /\ s[n + 1] = t
      BY Appends DEF IsEncoder
    <2>. HIDE DEF s
    <2>5. DOMAIN s = 1..(n + 1)
      BY <2>2, <2>4, SeqFacts
    <2>6. \A k \in DOMAIN s : \/ k \in DOMAIN e.tools /\ s[k] = e.tools[k]
                              \/ k = n + 1 /\ s[k] = t
      BY <2>2, <2>4, <2>5
    <2>7. \A k \in DOMAIN s : DOMAIN s[k] = ToolFields
      BY <2>3, <2>6 DEF IsEncoder
    <2>8. b.tools = s /\ b.protocol = e.protocol /\ b.done = e.done
      BY DEF IsEncoder, newStreamEncoder, s
    <2>9. IsEncoder(b)
      BY <2>4, <2>7, <2>8 DEF IsEncoder, newStreamEncoder
    <2>. HIDE DEF b
    <2>10. KnownCalls(b) \subseteq KnownCalls(e) \cup Names(ev)
      BY <2>3, <2>6, <2>8 DEF KnownCalls
    <2>11. n + 1 \in DOMAIN b.tools /\ b.tools[n + 1].key = toolKey(ev)
      BY <2>2, <2>3, <2>4, <2>5, <2>8
    <2>12. toolAt(b, ev) \in DOMAIN b.tools
      BY <2>9, <2>11, Found
    <2>. QED BY <2>1, <2>8, <2>9, <2>10, <2>12
  <1>. QED BY <1>1, <1>2

LEMMA ToolStarted ==
  ASSUME NEW e, IsEncoder(e), NEW ev
  PROVE  Steps(e, Names(ev), encodeToolStart(e, ev), TRUE)
  <1> DEFINE b == tool(e, ev)
             t == b.tools[toolAt(b, ev)]
             v == ToolChunk(t.index, t.call, 0)
             w == Open(b, "tool", t.index, t.call)
             C == KnownCalls(e) \cup Names(ev)
             out == IF b.protocol = "chat" THEN <<v>> ELSE <<w>>
  <1>1. /\ IsEncoder(b) /\ b.protocol = e.protocol /\ b.done = e.done
        /\ KnownCalls(b) \subseteq C /\ toolAt(b, ev) \in DOMAIN b.tools
    BY Registered
  <1>2. encodeToolStart(e, ev) = Written(b, out)
    BY DEF encodeToolStart
  <1>3. t.call \in C
    BY <1>1 DEF KnownCalls
  <1>4. HasContent(v) /\ HasContent(w)
    BY <1>1, Contents
  <1>. HIDE DEF C, b, t
  <1>5. /\ StartsCall(v) => CallsOf(v)[1].call \in C
        /\ StartsCall(w) => CallsOf(w)[1].call \in C
    BY <1>1, <1>3, Starting
  <1>. HIDE DEF v, w
  <1>6. IsSeq(out) /\ Loud(out) /\ Shows(out, C)
    BY <1>4, <1>5, LoudSingles, ShowsSingles
  <1>. HIDE DEF out
  <1>. QED BY <1>1, <1>2, <1>6 DEF Steps, Written, C

LEMMA ToolGrown ==
  ASSUME NEW e, IsEncoder(e), NEW ev
  PROVE  Steps(e, Names(ev), encodeToolDelta(e, ev), ev.delta # 0)
  <1> DEFINE b == tool(e, ev)
             k == toolAt(b, ev)
             i == b.tools[k].index
             u == [b.tools[k] EXCEPT !.content = Append(@, ev.delta)]
             c == [b EXCEPT !.tools[k] = u]
             v == ToolChunk(i, 0, ev.delta)
             w == Grow(b, "tool", i, ev.delta)
             out == IF b.protocol = "chat" THEN <<v>> ELSE <<w>>
             C == KnownCalls(e) \cup Names(ev)
  <1>1. /\ IsEncoder(b) /\ b.protocol = e.protocol /\ b.done = e.done
        /\ KnownCalls(b) \subseteq C /\ k \in DOMAIN b.tools
    BY Registered
  <1>2. encodeToolDelta(e, ev) =
          IF ev.delta = 0 THEN Written(b, <<>>) ELSE Written(c, out)
    BY DEF encodeToolDelta
  <1>. HIDE DEF b, k
  <1>3. DOMAIN u = ToolFields /\ u.call = b.tools[k].call
    BY <1>1 DEF IsEncoder, ToolFields
  <1>. HIDE DEF u
  <1>4. /\ IsEncoder(c) /\ c.protocol = b.protocol /\ c.done = b.done
        /\ KnownCalls(c) = KnownCalls(b)
    BY <1>1, <1>3, ToolReplaced
  <1>5. ev.delta # 0 => HasContent(v) /\ HasContent(w)
    BY <1>1, Contents
  <1>6. ~StartsCall(v) /\ ~StartsCall(w)
    BY <1>1, Starting
  <1>. HIDE DEF c, v, w
  <1>7. IsSeq(out) /\ (ev.delta # 0 => Loud(out)) /\ Shows(out, C)
    BY <1>5, <1>6, LoudSingles, ShowsSingles
  <1>8. IsSeq(<<>>) /\ ~Loud(<<>>) /\ Shows(<<>>, C)
    BY LoudSingles, QuietShowsNothing
  <1>. HIDE DEF out
  <1>. QED BY <1>1, <1>2, <1>4, <1>7, <1>8 DEF Steps, Written

LEMMA ToolEnded ==
  ASSUME NEW e, IsEncoder(e), NEW ev
  PROVE  Steps(e, Names(ev), encodeToolEnd(e, ev), FALSE)
  <1> DEFINE b == tool(e, ev)
  <1>1. /\ IsEncoder(b) /\ b.protocol = e.protocol /\ b.done = e.done
        /\ KnownCalls(b) \subseteq KnownCalls(e) \cup Names(ev)
    BY Registered
  <1>2. encodeToolEnd(e, ev) = closeTool(b, toolAt(b, ev))
    BY DEF encodeToolEnd
  <1>3. Quiet(b, closeTool(b, toolAt(b, ev)))
    BY <1>1, ToolClosed
  <1>. HIDE DEF b
  <1>. QED BY <1>1, <1>2, <1>3, QuietShowsNothing DEF Quiet, Steps

ContentKinds == {"text", "reasoning", "tool_start", "tool_delta", "tool_end"}
EventKinds == {"start", "usage", "finish", "done"} \cup ContentKinds
IsEvent(ev) == ev.kind \in EventKinds /\ DOMAIN ev = DOMAIN Event("start")

(* An event that has something for the client, if the encoder is not done, *)
(* and the ids that it makes known.                                        *)
Worth(ev) ==
  \/ ev.kind \in {"text", "reasoning", "tool_delta"} /\ ev.delta # 0
  \/ ev.kind = "tool_start"
Mentions(ev) ==
  IF ev.kind \in {"tool_start", "tool_delta", "tool_end"} THEN Names(ev) ELSE {}

LEMMA ContentEncoded ==
  ASSUME NEW e, IsEncoder(e), NEW ev, ev.kind \in ContentKinds
  PROVE  Steps(e, Mentions(ev), encodeContent(e, ev), Worth(ev))
  <1>1. CASE ev.kind = "text"
    <2>1. /\ encodeContent(e, ev) = encodeText(e, ev.delta) /\ (Worth(ev) <=> ev.delta # 0)
          /\ Mentions(ev) = {}
      BY <1>1 DEF encodeContent, Worth, Mentions
    <2>2. Steps(e, {}, encodeText(e, ev.delta), ev.delta # 0)
      BY TextEncoded
    <2>. HIDE DEF Worth, Mentions
    <2>. QED BY <2>1, <2>2 DEF Steps
  <1>2. CASE ev.kind = "reasoning"
    <2>1. /\ encodeContent(e, ev) = encodeReasoning(e, ev.delta) /\ (Worth(ev) <=> ev.delta # 0)
          /\ Mentions(ev) = {}
      BY <1>2 DEF encodeContent, Worth, Mentions
    <2>2. Steps(e, {}, encodeReasoning(e, ev.delta), ev.delta # 0)
      BY ReasoningEncoded
    <2>. HIDE DEF Worth, Mentions
    <2>. QED BY <2>1, <2>2 DEF Steps
  <1>3. CASE ev.kind = "tool_start"
    <2>1. encodeContent(e, ev) = encodeToolStart(e, ev) /\ Worth(ev) /\ Mentions(ev) = Names(ev)
      BY <1>3 DEF encodeContent, Worth, Mentions
    <2>2. Steps(e, Names(ev), encodeToolStart(e, ev), TRUE)
      BY ToolStarted
    <2>. HIDE DEF Worth, Mentions
    <2>. QED BY <2>1, <2>2 DEF Steps
  <1>4. CASE ev.kind = "tool_delta"
    <2>1. /\ encodeContent(e, ev) = encodeToolDelta(e, ev) /\ (Worth(ev) <=> ev.delta # 0)
          /\ Mentions(ev) = Names(ev)
      BY <1>4 DEF encodeContent, Worth, Mentions
    <2>2. Steps(e, Names(ev), encodeToolDelta(e, ev), ev.delta # 0)
      BY ToolGrown
    <2>. HIDE DEF Worth, Mentions
    <2>. QED BY <2>1, <2>2 DEF Steps
  <1>5. CASE ev.kind = "tool_end"
    <2>1. encodeContent(e, ev) = encodeToolEnd(e, ev) /\ ~Worth(ev) /\ Mentions(ev) = Names(ev)
      BY <1>5 DEF encodeContent, Worth, Mentions
    <2>2. Steps(e, Names(ev), encodeToolEnd(e, ev), FALSE)
      BY ToolEnded
    <2>. HIDE DEF Worth, Mentions
    <2>. QED BY <2>1, <2>2 DEF Steps
  <1>. QED BY <1>1, <1>2, <1>3, <1>4, <1>5 DEF ContentKinds

(* The encoder writes content exactly for an event that is worth it.  Its  *)
(* first conjunct is what a step of Encode keeps of e.                     *)
LEMMA Encoded ==
  ASSUME NEW e, IsEncoder(e), NEW ev, ev.kind \in EventKinds
  PROVE  /\ IsEncoder(Encode(e, ev).enc) /\ Encode(e, ev).enc.protocol = e.protocol
         /\ Encode(e, ev).enc.done <=> e.done \/ ev.kind = "done"
         /\ KnownCalls(Encode(e, ev).enc) \subseteq KnownCalls(e) \cup Mentions(ev)
         /\ IsSeq(Encode(e, ev).out)
         /\ Loud(Encode(e, ev).out) <=> ~e.done /\ Worth(ev)
         /\ Shows(Encode(e, ev).out, KnownCalls(e) \cup Mentions(ev))
  <1> DEFINE C == KnownCalls(e) \cup Mentions(ev)
  <1>0. e.done \in BOOLEAN
    BY DEF IsEncoder
  <1>1. ASSUME NEW b, Encode(e, ev) = Written(b, <<>>), IsEncoder(b),
               b.protocol = e.protocol, b.done = e.done, KnownCalls(b) = KnownCalls(e),
               e.done \/ ~Worth(ev), ev.kind = "done" => e.done
        PROVE  /\ IsEncoder(Encode(e, ev).enc) /\ Encode(e, ev).enc.protocol = e.protocol
               /\ Encode(e, ev).enc.done <=> e.done \/ ev.kind = "done"
               /\ KnownCalls(Encode(e, ev).enc) \subseteq C
               /\ IsSeq(Encode(e, ev).out)
               /\ Loud(Encode(e, ev).out) <=> ~e.done /\ Worth(ev)
               /\ Shows(Encode(e, ev).out, C)
    <2>1. IsSeq(<<>>) /\ ~Loud(<<>>) /\ Shows(<<>>, C)
      BY LoudSingles, QuietShowsNothing
    <2>2. Encode(e, ev).enc = b /\ Encode(e, ev).out = <<>>
      BY <1>1 DEF Written
    <2>. HIDE DEF Worth, Mentions
    <2>. QED BY <1>0, <1>1, <2>1, <2>2
  <1>2. CASE e.done \/ ev.kind = "start"
    <2>1. Encode(e, ev) = Written(e, <<>>)
      BY <1>2 DEF Encode
    <2>2. (e.done \/ ~Worth(ev)) /\ (ev.kind = "done" => e.done)
      BY <1>2 DEF Worth
    <2>. QED BY <1>1, <2>1, <2>2
  <1>3. CASE ~e.done /\ ev.kind = "usage"
    <2> DEFINE b == [e EXCEPT !.usage = mergeUsage(@, ev.usage)]
    <2>1. Encode(e, ev) = Written(b, <<>>)
      BY <1>3 DEF Encode
    <2>2. /\ IsEncoder(b) /\ b.protocol = e.protocol /\ b.done = e.done
          /\ KnownCalls(b) = KnownCalls(e)
      BY DEF IsEncoder, newStreamEncoder, KnownCalls
    <2>3. ~Worth(ev) /\ ev.kind # "done"
      BY <1>3 DEF Worth
    <2>. HIDE DEF b
    <2>. QED BY <1>1, <2>1, <2>2, <2>3
  <1>4. CASE ~e.done /\ ev.kind = "finish"
    <2> DEFINE b == [e EXCEPT !.stop = ev.stop]
    <2>1. Encode(e, ev) = Written(b, <<>>)
      BY <1>4 DEF Encode
    <2>2. /\ IsEncoder(b) /\ b.protocol = e.protocol /\ b.done = e.done
          /\ KnownCalls(b) = KnownCalls(e)
      BY DEF IsEncoder, newStreamEncoder, KnownCalls
    <2>3. ~Worth(ev) /\ ev.kind # "done"
      BY <1>4 DEF Worth
    <2>. HIDE DEF b
    <2>. QED BY <1>1, <2>1, <2>2, <2>3
  <1>5. CASE ~e.done /\ ev.kind = "done"
    <2> DEFINE b == [e EXCEPT !.done = TRUE]
    <2>1. Encode(e, ev) = finish(e)
      BY <1>5 DEF Encode
    <2>2. b.protocol = e.protocol /\ b.done /\ KnownCalls(b) = KnownCalls(e)
      BY DEF IsEncoder, newStreamEncoder, KnownCalls
    <2>3. ~Worth(ev)
      BY <1>5 DEF Worth
    <2>4. Quiet(b, finish(e))
      BY Finished
    <2>. HIDE DEF b
    <2>. QED BY <1>5, <2>1, <2>2, <2>3, <2>4, QuietShowsNothing DEF Quiet, Steps
  <1>6. CASE ~e.done /\ ev.kind \in ContentKinds
    <2> DEFINE begun == ensureStarted(e)
               closed == IF InBlocks(e) /\ ev.kind # "reasoning"
                           THEN After(begun.out, closeReasoning(begun.enc)) ELSE begun
               v == encodeContent(closed.enc, ev)
    <2>1. Encode(e, ev) = After(closed.out, v)
      BY <1>6 DEF Encode, Then, ContentKinds
    <2>2. Quiet(e, begun)
      BY Begun
    <2>. HIDE DEF begun
    <2>3. Quiet(e, closed)
      <3>1. Quiet(begun.enc, closeReasoning(begun.enc))
        BY <2>2, ReasoningClosed DEF Quiet, Steps
      <3>2. Quiet(e, After(begun.out, closeReasoning(begun.enc)))
        BY <2>2, <3>1, QuietTwice
      <3>. QED BY <2>2, <3>2
    <2>. HIDE DEF closed
    <2>4. Steps(closed.enc, Mentions(ev), v, Worth(ev))
      BY <1>6, <2>3, ContentEncoded DEF Quiet, Steps
    <2>. HIDE DEF v
    <2>5. Steps(e, Mentions(ev), After(closed.out, v), Worth(ev))
      BY <2>3, <2>4, QuietFirst
    <2>6. ev.kind # "done"
      BY <1>6 DEF ContentKinds
    <2>. HIDE DEF Worth, Mentions
    <2>. QED BY <1>6, <2>1, <2>5, <2>6 DEF Steps
  <1>. QED BY <1>0, <1>2, <1>3, <1>4, <1>5, <1>6 DEF EventKinds

(* What Convert has gathered of the first m events, all of whose calls are *)
(* in C.                                                                   *)
Gathered(acc, events, m, C) ==
  /\ IsEncoder(acc.enc) /\ acc.enc.protocol = to
  /\ KnownCalls(acc.enc) \subseteq C
  /\ acc.done \in BOOLEAN /\ acc.semantic \in BOOLEAN
  /\ acc.enc.done <=> acc.done
  /\ acc.done => \E i \in 1..m : events[i].kind = "done"
  /\ IsSeq(acc.out)
  /\ Loud(acc.out) => acc.semantic
  /\ acc.semantic /\ ~acc.done => Loud(acc.out)
  /\ Shows(acc.out, C)

LEMMA EventEncoded ==
  ASSUME NEW events, NEW m \in Nat, NEW acc, NEW C, Gathered(acc, events, m, C),
         IsEvent(events[m + 1]), Mentions(events[m + 1]) \subseteq C
  PROVE  Gathered(encodeEvent(acc, events[m + 1]), events, m + 1, C)
  <1> DEFINE ev == events[m + 1]
             x == IF from = "antigravity" /\ to = "messages" /\ ev.kind = "usage"
                    THEN [ev EXCEPT !.usage = AccountingUsage(@)] ELSE ev
             w == Encode(acc.enc, x)
             next == Joined(acc, ev, w)
  <1>1. encodeEvent(acc, ev) = next
    BY DEF encodeEvent
  <1>2. x.kind = ev.kind /\ x.delta = ev.delta /\ x.call = ev.call
    BY DEF IsEvent, Event
  <1>3. (Worth(x) <=> Worth(ev)) /\ Mentions(x) = Mentions(ev)
    BY <1>2 DEF Worth, Mentions, Names
  <1>4. x.kind \in EventKinds
    BY <1>2 DEF IsEvent
  <1>5. IsEncoder(acc.enc)
    BY DEF Gathered
  <1>. HIDE DEF x
  <1>6. /\ IsEncoder(w.enc) /\ w.enc.protocol = acc.enc.protocol
        /\ w.enc.done <=> acc.enc.done \/ ev.kind = "done"
        /\ KnownCalls(w.enc) \subseteq KnownCalls(acc.enc) \cup Mentions(ev)
        /\ IsSeq(w.out)
        /\ Loud(w.out) <=> ~acc.enc.done /\ Worth(ev)
        /\ Shows(w.out, KnownCalls(acc.enc) \cup Mentions(ev))
    <2>. HIDE DEF Worth, Mentions
    <2>. QED BY <1>2, <1>3, <1>4, <1>5, Encoded
  <1>. HIDE DEF w
  <1>7. /\ next.enc = w.enc /\ next.out = acc.out \o w.out
        /\ next.done = (acc.done \/ ev.kind = "done")
        /\ next.semantic = (\/ acc.semantic
                            \/ ev.kind \in {"text", "tool_delta"} /\ ev.delta # 0
                            \/ ev.kind = "reasoning" /\ ev.delta # 0 /\ w.out # <<>>
                            \/ ev.kind = "tool_start")
    BY DEF Joined
  <1>8. Mentions(ev) \subseteq C
    OBVIOUS
  <1>. HIDE DEF next
  <1>9. next.done => \E i \in 1..(m + 1) : events[i].kind = "done"
    <2>1. CASE acc.done
      <3>1. PICK i \in 1..m : events[i].kind = "done"
        BY <2>1 DEF Gathered
      <3>. QED BY <3>1
    <2>2. CASE ev.kind = "done"
      BY <2>2
    <2>. QED BY <1>7, <2>1, <2>2
  <1>. HIDE DEF ev
  <1>10. IsSeq(next.out) /\ (Loud(next.out) <=> Loud(acc.out) \/ Loud(w.out))
    BY <1>6, <1>7, LoudJoins DEF Gathered
  <1>11. Loud(w.out) => w.out # <<>>
    BY LoudSingles
  <1>12. Loud(next.out) => next.semantic
    BY <1>6, <1>7, <1>10, <1>11 DEF Gathered, Worth
  <1>13. next.semantic /\ ~next.done => Loud(next.out)
    BY <1>6, <1>7, <1>10 DEF Gathered, Worth
  <1>14. next.done \in BOOLEAN /\ next.semantic \in BOOLEAN /\ (next.enc.done <=> next.done)
    BY <1>6, <1>7 DEF Gathered
  <1>15. IsEncoder(next.enc) /\ next.enc.protocol = to /\ KnownCalls(next.enc) \subseteq C
    BY <1>6, <1>7, <1>8 DEF Gathered
  <1>16. Shows(next.out, C)
    <2>1. Shows(w.out, C)
      BY <1>6, <1>8 DEF Gathered, Shows
    <2>. QED BY <1>6, <1>7, <2>1, ShowsJoins DEF Gathered
  <1>17. Gathered(next, events, m + 1, C)
    BY <1>9, <1>10, <1>12, <1>13, <1>14, <1>15, <1>16 DEF Gathered
  <1>. QED BY <1>1, <1>17 DEF ev

LEMMA Converted ==
  ASSUME NEW events, Len(events) \in Nat, NEW C,
         \A i \in 1..Len(events) : IsEvent(events[i]) /\ Mentions(events[i]) \subseteq C,
         IsEncoder(enc), enc.protocol = to, ~enc.done, KnownCalls(enc) \subseteq C
  PROVE  Gathered(Convert(events), events, Len(events), C)
  <1> DEFINE N == Len(events)
             base == [enc |-> enc, out |-> <<>>, done |-> FALSE, semantic |-> FALSE]
             Ok(acc, m) == Gathered(acc, events, m, C)
  <1>1. Ok(base, 0)
    BY LoudSingles, QuietShowsNothing DEF Gathered, IsEncoder
  <1>2. Convert(events) = Fold(encodeEvent, base, events)
    BY DEF Convert
  <1>. HIDE DEF base
  <1>3. PICK g : /\ g = [i \in 0..N |-> IF i = 0 THEN base ELSE encodeEvent(g[i - 1], events[i])]
                 /\ Fold(encodeEvent, base, events) = g[N]
    BY ConvertRuns
  <1>4. g[0] = base /\ \A i \in 1..N : g[i] = encodeEvent(g[i - 1], events[i])
    BY <1>3
  <1>5. Convert(events) = g[N]
    BY <1>2, <1>3
  <1> DEFINE S == {m \in Nat : m <= N => Ok(g[m], m)}
  <1>. HIDE DEF Ok
  <1>6. 0 \in S
    BY <1>1, <1>4
  <1>7. ASSUME NEW m \in Nat, m \in S PROVE m + 1 \in S
    <2>1. SUFFICES ASSUME m + 1 <= N PROVE Ok(g[m + 1], m + 1)
      OBVIOUS
    <2>2. Ok(g[m], m)
      BY <1>7, <2>1
    <2>3. m + 1 \in 1..N /\ g[m + 1] = encodeEvent(g[m], events[m + 1])
      BY <1>4, <2>1
    <2>. QED BY <2>2, <2>3, EventEncoded DEF Ok
  <1>8. Nat \subseteq S
    <2>. HIDE DEF S
    <2>. QED BY <1>6, <1>7, SetInduction
  <1>9. Ok(g[N], N)
    BY <1>8
  <1>. QED BY <1>5, <1>9 DEF Ok

-----------------------------------------------------------------------------
(* What the decoders answer. *)

AreEvents(s) == IsSeq(s) /\ \A x : Member(x, s) => IsEvent(x)
Mention(s, C) == \A x : Member(x, s) => Mentions(x) \subseteq C
Finishes(s) == \E x : Member(x, s) /\ x.kind = "done"

LEMMA EventsJoin ==
  ASSUME NEW s, NEW t, AreEvents(s), AreEvents(t)
  PROVE  /\ AreEvents(s \o t)
         /\ \A C : Mention(s, C) /\ Mention(t, C) => Mention(s \o t, C)
         /\ Finishes(s \o t) <=> Finishes(s) \/ Finishes(t)
  <1>1. IsSeq(s \o t) /\ \A x : Member(x, s \o t) <=> Member(x, s) \/ Member(x, t)
    BY Joins DEF AreEvents
  <1>. QED BY <1>1 DEF AreEvents, Mention, Finishes

LEMMA NoEvents == AreEvents(<<>>) /\ ~Finishes(<<>>) /\ \A C : Mention(<<>>, C)
  BY Singles DEF AreEvents, Finishes, Mention

LEMMA OneEvent ==
  ASSUME NEW x, IsEvent(x)
  PROVE  /\ AreEvents(<<x>>)
         /\ Finishes(<<x>>) <=> x.kind = "done"
         /\ \A C : Mention(<<x>>, C) <=> Mentions(x) \subseteq C
  <1>1. IsSeq(<<x>>) /\ \A y : Member(y, <<x>>) <=> y = x
    BY Singles
  <1>. QED BY <1>1 DEF AreEvents, Finishes, Mention

LEMMA EventsWhen ==
  ASSUME NEW condition, NEW s, AreEvents(s)
  PROVE  /\ AreEvents(When(condition, s))
         /\ Finishes(When(condition, s)) => condition /\ Finishes(s)
         /\ \A C : Mention(s, C) => Mention(When(condition, s), C)
  <1>1. CASE condition
    BY <1>1 DEF When
  <1>2. CASE ~condition
    BY <1>2, NoEvents DEF When
  <1>. QED BY <1>1, <1>2

LEMMA EventsAre ==
  ASSUME NEW i, NEW id, NEW d, NEW reason
  PROVE  /\ IsEvent(Event("start")) /\ IsEvent(Event("done"))
         /\ \A kind \in {"text", "reasoning"} : IsEvent(Delta(kind, i, d))
         /\ \A kind \in ContentKinds : IsEvent(Tool(kind, i, id))
         /\ IsEvent(ToolDelta(i, id, d)) /\ IsEvent(Finish(reason))
  BY DEF IsEvent, Event, Delta, Tool, ToolDelta, Finish, EventKinds, ContentKinds

LEMMA EventsMention ==
  ASSUME NEW i, NEW id, NEW d, NEW reason
  PROVE  /\ Mentions(Event("start")) = {} /\ Mentions(Event("done")) = {}
         /\ \A kind \in {"text", "reasoning"} : Mentions(Delta(kind, i, d)) = {}
         /\ id # 0 => /\ \A kind \in ContentKinds : Mentions(Tool(kind, i, id)) \subseteq {id}
                      /\ Mentions(ToolDelta(i, id, d)) = {id}
         /\ Mentions(Finish(reason)) = {}
  BY DEF Mentions, Names, Event, Delta, Tool, ToolDelta, Finish, ContentKinds

LEMMA Reports ==
  ASSUME NEW u
  PROVE  AreEvents(Report(u)) /\ ~Finishes(Report(u)) /\ \A C : Mention(Report(u), C)
  <1> DEFINE x == [Event("usage") EXCEPT !.usage = u]
  <1>1. CASE u = NoUsage
    BY <1>1, NoEvents DEF Report
  <1>2. CASE u # NoUsage
    <2>1. Report(u) = <<x>>
      BY <1>2 DEF Report
    <2>2. IsEvent(x) /\ Mentions(x) = {} /\ x.kind # "done"
      BY DEF IsEvent, Mentions, Event, EventKinds
    <2>. HIDE DEF x
    <2>. QED BY <2>1, <2>2, OneEvent
  <1>. QED BY <1>1, <1>2

(* A delta of a block of any other type has no event. *)
Kinds == {"text", "reasoning", "tool"}

LEMMA ResponsesDecoded ==
  ASSUME NEW d, NEW in, in.type = "response.delta" => in.kind \in Kinds
  PROVE  /\ AreEvents(decodeResponses(d, in).events)
         /\ Finishes(decodeResponses(d, in).events) =>
              in.type \in CodexTerminal \cup {"response.failed"}
         /\ decodeResponses(d, in).turn = <<>>
         /\ decodeResponses(d, in).error \in BOOLEAN
  <1> DEFINE known == At(d.responseTools, in.index, 0)
  <1>0. ASSUME NEW e, NEW s, decodeResponses(d, in) = Answer(e, s), AreEvents(s),
               Finishes(s) => in.type \in CodexTerminal \cup {"response.failed"}
        PROVE  /\ AreEvents(decodeResponses(d, in).events)
               /\ Finishes(decodeResponses(d, in).events) =>
                    in.type \in CodexTerminal \cup {"response.failed"}
               /\ decodeResponses(d, in).turn = <<>>
               /\ decodeResponses(d, in).error \in BOOLEAN
    <2>1. /\ decodeResponses(d, in).events = s /\ decodeResponses(d, in).turn = <<>>
          /\ decodeResponses(d, in).error = FALSE
      BY <1>0 DEF Answer
    <2>. QED BY <1>0, <2>1
  <1>1. CASE in.type \in {"response.created", "response.in_progress"}
    <2> DEFINE s == When(~d.started, <<Event("start")>>)
    <2>1. decodeResponses(d, in) = Answer([d EXCEPT !.started = TRUE], s)
      BY <1>1 DEF decodeResponses
    <2>2. Event("start").kind # "done"
      BY DEF Event
    <2>3. AreEvents(s) /\ ~Finishes(s)
      BY <2>2, EventsAre, OneEvent, EventsWhen
    <2>. HIDE DEF s
    <2>. QED BY <1>0, <2>1, <2>3
  <1>2. CASE in.type = "response.output_item.added" /\ in.kind # "tool"
    <2>1. decodeResponses(d, in) = Answer(d, <<>>)
      BY <1>2 DEF decodeResponses
    <2>. QED BY <1>0, <2>1, NoEvents
  <1>3. CASE in.type = "response.output_item.added" /\ in.kind = "tool"
    <2> DEFINE x == Tool("tool_start", in.index, in.call)
               y == ToolDelta(in.index, in.call, in.delta)
               s == <<x>> \o When(in.delta # 0, <<y>>)
    <2>1. decodeResponses(d, in) = Answer([d EXCEPT !.hadTools = TRUE,
                               !.responseTools = Bind(@, in.index, in.call)], s)
      BY <1>3 DEF decodeResponses
    <2>2. IsEvent(x) /\ IsEvent(y) /\ x.kind # "done" /\ y.kind # "done"
      BY EventsAre DEF ContentKinds, Tool, ToolDelta, Event
    <2>. HIDE DEF x, y
    <2>3. AreEvents(<<x>>) /\ ~Finishes(<<x>>) /\ AreEvents(<<y>>) /\ ~Finishes(<<y>>)
      BY <2>2, OneEvent
    <2>4. AreEvents(When(in.delta # 0, <<y>>)) /\ ~Finishes(When(in.delta # 0, <<y>>))
      BY <2>3, EventsWhen
    <2>5. AreEvents(s) /\ ~Finishes(s)
      BY <2>3, <2>4, EventsJoin
    <2>. HIDE DEF s
    <2>. QED BY <1>0, <2>1, <2>5
  <1>4. CASE in.type = "response.delta"
    <2> DEFINE x == IF in.kind = "tool" THEN ToolDelta(in.index, known, in.delta)
                                        ELSE Delta(in.kind, in.index, in.delta)
    <2>1. decodeResponses(d, in) = Answer(d, <<x>>)
      BY <1>4 DEF decodeResponses
    <2>2. IsEvent(x)
      BY <1>4, EventsAre DEF Kinds
    <2>3. x.kind # "done"
      BY <1>4 DEF Delta, ToolDelta, Tool, Event, Kinds
    <2>. HIDE DEF x
    <2>4. AreEvents(<<x>>) /\ ~Finishes(<<x>>)
      BY <2>2, <2>3, OneEvent
    <2>. QED BY <1>0, <2>1, <2>4
  <1>5. CASE in.type = "response.output_item.done"
    <2> DEFINE x == Tool("tool_end", in.index, IF in.call # 0 THEN in.call ELSE known)
    <2>1. decodeResponses(d, in) = Answer(d, When(in.kind = "tool", <<x>>))
      BY <1>5 DEF decodeResponses
    <2>2. IsEvent(x) /\ x.kind # "done"
      BY EventsAre DEF ContentKinds, Tool, Event
    <2>. HIDE DEF x
    <2>3. AreEvents(<<x>>) /\ ~Finishes(<<x>>)
      BY <2>2, OneEvent
    <2>4. /\ AreEvents(When(in.kind = "tool", <<x>>))
          /\ ~Finishes(When(in.kind = "tool", <<x>>))
      BY <2>3, EventsWhen
    <2>. QED BY <1>0, <2>1, <2>4
  <1>6. CASE in.type \in CodexTerminal \cup {"response.failed"}
    <2> DEFINE x == Finish(responseStop(d, in))
    <2>1. decodeResponses(d, in) = Answer(d, <<x>> \o Report(in.usage) \o <<Event("done")>>)
      BY <1>6 DEF decodeResponses, CodexTerminal
    <2>2. IsEvent(x) /\ IsEvent(Event("done"))
      BY EventsAre
    <2>. HIDE DEF x
    <2>3. AreEvents(<<x>> \o Report(in.usage) \o <<Event("done")>>)
      BY <2>2, OneEvent, Reports, EventsJoin
    <2>. QED BY <1>0, <1>6, <2>1, <2>3
  <1>7. CASE in.type \notin {"response.created", "response.in_progress",
                             "response.output_item.added", "response.delta",
                             "response.output_item.done", "response.failed"} \cup CodexTerminal
    <2>1. decodeResponses(d, in) = Refusal(d)
      BY <1>7 DEF decodeResponses, CodexTerminal
    <2>2. Refusal(d).events = <<>> /\ Refusal(d).turn = <<>> /\ Refusal(d).error = TRUE
      BY DEF Refusal, Answer
    <2>. QED BY <2>1, <2>2, NoEvents
  <1>. QED BY <1>1, <1>2, <1>3, <1>4, <1>5, <1>6, <1>7

LEMMA PartsRun ==
  ASSUME NEW parts, Len(parts) \in Nat, NEW base
  PROVE  \E g : /\ g = [i \in 0..Len(parts) |->
                          IF i = 0 THEN base ELSE antigravityPart(g[i - 1], parts[i])]
                /\ Fold(antigravityPart, base, parts) = g[Len(parts)]
  <1> DEFINE N == Len(parts)
             Is(g, m) == g = [i \in 0..m |-> IF i = 0 THEN base
                                             ELSE antigravityPart(g[i - 1], parts[i])]
             S == {m \in Nat : \E g : Is(g, m)}
  <1>1. 0 \in S
    <2>1. Is([i \in 0..0 |-> base], 0)
      OBVIOUS
    <2>. QED BY <2>1
  <1>2. ASSUME NEW m \in Nat, m \in S PROVE m + 1 \in S
    <2>1. PICK g : Is(g, m)
      BY <1>2
    <2> DEFINE h == [i \in 0..(m + 1) |-> IF i <= m THEN g[i]
                                          ELSE antigravityPart(g[m], parts[m + 1])]
    <2>2. \A i \in 0..(m + 1) : h[i] = IF i = 0 THEN base
                                       ELSE antigravityPart(h[i - 1], parts[i])
      BY <2>1
    <2>3. Is(h, m + 1)
      BY <2>2
    <2>. HIDE DEF h, Is
    <2>. QED BY <2>3
  <1>3. N \in S
    <2>. HIDE DEF S
    <2>. QED BY <1>1, <1>2, SetInduction
  <1> DEFINE f == CHOOSE g : Is(g, N)
  <1>4. Is(f, N)
    BY <1>3
  <1>5. Fold(antigravityPart, base, parts) = f[N]
    BY DEF Fold
  <1>. QED BY <1>4, <1>5

(* What the decoder of an Antigravity stream has of a turn. *)
IsDecoder(d) ==
  /\ DOMAIN d = DOMAIN newStreamDecoder
  /\ IsSeq(d.calls)
  /\ AreEvents(d.pending) /\ Mention(d.pending, ToSet(d.calls))

(* The parts that have been read, those of a decoder with a store. *)
PartsRead(acc, calls) ==
  /\ DOMAIN acc = {"store", "signed", "error", "calls", "events"} /\ acc.store = TRUE
  /\ acc.error \in BOOLEAN
  /\ IsSeq(acc.calls) /\ ToSet(calls) \subseteq ToSet(acc.calls)
  /\ AreEvents(acc.events) /\ Mention(acc.events, ToSet(acc.calls))

LEMMA OneMore ==
  ASSUME NEW s, AreEvents(s), NEW x, IsEvent(x)
  PROVE  /\ AreEvents(Append(s, x))
         /\ \A C : Mention(s, C) /\ Mentions(x) \subseteq C => Mention(Append(s, x), C)
  <1>1. /\ IsSeq(Append(s, x))
        /\ \A y : Member(y, Append(s, x)) <=> Member(y, s) \/ y = x
    BY Appends DEF AreEvents
  <1>. QED BY <1>1 DEF AreEvents, Mention

LEMMA PartRead ==
  ASSUME NEW acc, NEW calls, PartsRead(acc, calls), NEW part, part.kind \in Kinds
  PROVE  PartsRead(antigravityPart(acc, part), calls)
  <1> DEFINE i == Len(acc.calls)
             id == NewCall(i)
             signed == acc.signed \/ part.signed
             x == Tool("tool_start", i, id)
             y == ToolDelta(i, id, part.delta)
             z == Tool("tool_end", i, id)
             c == Append(acc.calls, id)
             C == ToSet(c)
             w == Delta(part.kind, 0, part.delta)
             a1 == [acc EXCEPT !.signed = signed, !.calls = c,
                               !.events = acc.events \o <<x, y, z>>]
             a2 == [acc EXCEPT !.signed = signed,
                               !.events = acc.events \o When(part.delta # 0, <<w>>)]
  <1>1. CASE acc.error
    BY <1>1 DEF antigravityPart
  <1>2. CASE ~acc.error /\ part.kind = "tool"
    <2>1. antigravityPart(acc, part) = a1
      BY <1>2 DEF antigravityPart, PartsRead
    <2>2. i \in Nat /\ DOMAIN acc.calls = 1..i
      BY SeqFacts DEF PartsRead
    <2>3. id # 0
      BY <2>2 DEF NewCall
    <2>. HIDE DEF id, i
    <2>4. IsSeq(c) /\ C = ToSet(acc.calls) \cup {id}
      <3>1. /\ IsSeq(c) /\ Len(c) = i + 1 /\ \A k \in 1..i : c[k] = acc.calls[k]
            /\ c[i + 1] = id
        BY Appends DEF PartsRead, i
      <3>. HIDE DEF c
      <3>2. DOMAIN c = 1..(i + 1)
        BY <2>2, <3>1, SeqFacts
      <3>. QED BY <2>2, <3>1, <3>2 DEF ToSet
    <2>5. IsEvent(x) /\ IsEvent(y) /\ IsEvent(z)
      BY EventsAre DEF ContentKinds
    <2>6. Mentions(x) \subseteq C /\ Mentions(y) \subseteq C /\ Mentions(z) \subseteq C
      BY <2>3, <2>4, EventsMention DEF ContentKinds
    <2>. HIDE DEF x, y, z, C
    <2>7. AreEvents(<<x>>) /\ Mention(<<x>>, C)
      BY <2>5, <2>6, OneEvent
    <2>8. AreEvents(<<x, y, z>>) /\ Mention(<<x, y, z>>, C)
      <3>1. AreEvents(Append(<<x>>, y)) /\ Mention(Append(<<x>>, y), C)
        BY <2>5, <2>6, <2>7, OneMore
      <3>2. /\ AreEvents(Append(Append(<<x>>, y), z))
            /\ Mention(Append(Append(<<x>>, y), z), C)
        BY <2>5, <2>6, <3>1, OneMore
      <3>3. <<x, y, z>> = Append(Append(<<x>>, y), z)
        OBVIOUS
      <3>. QED BY <3>2, <3>3
    <2>9. Mention(acc.events, C)
      BY <2>4 DEF PartsRead, Mention
    <2>10. AreEvents(acc.events \o <<x, y, z>>) /\ Mention(acc.events \o <<x, y, z>>, C)
      BY <2>8, <2>9, EventsJoin DEF PartsRead
    <2>11. /\ DOMAIN a1 = DOMAIN acc /\ a1.store = acc.store /\ a1.error = acc.error
           /\ a1.calls = c /\ a1.events = acc.events \o <<x, y, z>>
      BY DEF PartsRead
    <2>. HIDE DEF a1
    <2>. QED BY <2>1, <2>4, <2>10, <2>11 DEF PartsRead, C
  <1>3. CASE ~acc.error /\ part.kind # "tool"
    <2>1. antigravityPart(acc, part) = a2
      BY <1>3 DEF antigravityPart, PartsRead
    <2>2. IsEvent(w) /\ Mentions(w) = {}
      BY <1>3, EventsAre, EventsMention DEF Kinds
    <2>. HIDE DEF w
    <2>3. AreEvents(When(part.delta # 0, <<w>>)) /\ Mention(When(part.delta # 0, <<w>>), ToSet(acc.calls))
      BY <2>2, OneEvent, EventsWhen
    <2>4. /\ AreEvents(acc.events \o When(part.delta # 0, <<w>>))
          /\ Mention(acc.events \o When(part.delta # 0, <<w>>), ToSet(acc.calls))
      BY <2>3, EventsJoin DEF PartsRead
    <2>5. /\ DOMAIN a2 = DOMAIN acc /\ a2.store = acc.store /\ a2.error = acc.error
          /\ a2.calls = acc.calls /\ a2.events = acc.events \o When(part.delta # 0, <<w>>)
      BY DEF PartsRead
    <2>. HIDE DEF a2
    <2>. QED BY <2>1, <2>4, <2>5 DEF PartsRead
  <1>. QED BY <1>1, <1>2, <1>3 DEF PartsRead

LEMMA AllPartsRead ==
  ASSUME NEW d, IsDecoder(d), NEW parts, Len(parts) \in Nat,
         \A i \in 1..Len(parts) : parts[i].kind \in Kinds
  PROVE  PartsRead(Fold(antigravityPart,
                        [store |-> TRUE, signed |-> d.signed, error |-> FALSE,
                         calls |-> d.calls, events |-> <<>>], parts), d.calls)
  <1> DEFINE N == Len(parts)
             base == [store |-> TRUE, signed |-> d.signed, error |-> FALSE,
                      calls |-> d.calls, events |-> <<>>]
             Ok(acc) == PartsRead(acc, d.calls)
  <1>1. Ok(base)
    BY NoEvents DEF PartsRead, IsDecoder
  <1>. HIDE DEF base
  <1>2. PICK g : /\ g = [i \in 0..N |-> IF i = 0 THEN base ELSE antigravityPart(g[i - 1], parts[i])]
                 /\ Fold(antigravityPart, base, parts) = g[N]
    BY PartsRun
  <1>3. g[0] = base /\ \A i \in 1..N : g[i] = antigravityPart(g[i - 1], parts[i])
    BY <1>2
  <1>4. Fold(antigravityPart, base, parts) = g[N]
    BY <1>2
  <1> DEFINE S == {m \in Nat : m <= N => Ok(g[m])}
  <1>. HIDE DEF Ok
  <1>5. 0 \in S
    BY <1>1, <1>3
  <1>6. ASSUME NEW m \in Nat, m \in S PROVE m + 1 \in S
    <2>1. SUFFICES ASSUME m + 1 <= N PROVE Ok(g[m + 1])
      OBVIOUS
    <2>2. Ok(g[m])
      BY <1>6, <2>1
    <2>3. g[m + 1] = antigravityPart(g[m], parts[m + 1]) /\ parts[m + 1].kind \in Kinds
      BY <1>3, <2>1
    <2>. QED BY <2>2, <2>3, PartRead DEF Ok
  <1>7. Nat \subseteq S
    <2>. HIDE DEF S
    <2>. QED BY <1>5, <1>6, SetInduction
  <1>8. Ok(g[N])
    BY <1>7
  <1>. QED BY <1>4, <1>8 DEF Ok, base

(* Events whose calls are all in C. *)
Fits(s, C) == AreEvents(s) /\ Mention(s, C)

LEMMA FitsJoin ==
  ASSUME NEW C, NEW s, NEW t, Fits(s, C), Fits(t, C)
  PROVE  Fits(s \o t, C)
  BY EventsJoin DEF Fits

LEMMA FitsOne ==
  ASSUME NEW C, NEW condition, NEW x, IsEvent(x), Mentions(x) = {}
  PROVE  Fits(When(condition, <<x>>), C)
  <1>1. AreEvents(<<x>>) /\ Mention(<<x>>, C)
    BY OneEvent
  <1>. QED BY <1>1, EventsWhen DEF Fits

(* A decoder with a store answers with the calls of a turn, and then hands *)
(* them to saveTools.                                                      *)
LEMMA AntigravityDecoded ==
  ASSUME NEW d, IsDecoder(d), NEW in, Len(in.parts) \in Nat,
         \A i \in 1..Len(in.parts) : in.parts[i].kind \in Kinds,
         NEW save \in {"ok", "fails"}, ~decodeAntigravity(d, in, save).error
  PROVE  /\ IsDecoder(decodeAntigravity(d, in, save).dec)
         /\ AreEvents(decodeAntigravity(d, in, save).events)
         /\ IsSeq(decodeAntigravity(d, in, save).turn)
         /\ Mention(decodeAntigravity(d, in, save).events,
                    ToSet(decodeAntigravity(d, in, save).turn))
  <1> DEFINE base == [store |-> TRUE, signed |-> d.signed, error |-> FALSE,
                      calls |-> d.calls, events |-> <<>>]
             acc == Fold(antigravityPart, base, in.parts)
             last == in.stop # ""
             turn == IF last THEN acc.calls ELSE <<>>
             e1 == When(~d.started, <<Event("start")>>)
             e2 == When(last, <<Finish(antigravityStop(in.stop, acc.calls))>>)
             e3 == When(last, <<Event("done")>>)
             events == e1 \o acc.events \o e2 \o Report(in.usage) \o e3
             next == [d EXCEPT !.started = TRUE, !.signed = acc.signed, !.calls = acc.calls]
             ended == [next EXCEPT !.ended = last]
             kept == [ended EXCEPT !.pending = @ \o events]
             shown == [ended EXCEPT !.pending = <<>>]
             a == decodeAntigravity(d, in, save)
             C == ToSet(acc.calls)
  <1>1. PartsRead(acc, d.calls)
    BY AllPartsRead
  <1>2. a = answerParts(d, in, save, acc)
    <2>1. save # "none" /\ (save # "none") = TRUE
      OBVIOUS
    <2>2. [store |-> save # "none", signed |-> d.signed, error |-> FALSE,
           calls |-> d.calls, events |-> <<>>] = base
      BY <2>1
    <2>. HIDE DEF base
    <2>. QED BY <2>2 DEF decodeAntigravity
  <1>. HIDE DEF acc, a
  <1>3. a = IF d.ended \/ in.type = "error" THEN Refusal(d)
            ELSE IF acc.error \/ (last /\ in.stop \notin {"STOP", "MAX_TOKENS"})
              THEN Refusal(next)
            ELSE IF turn # <<>> /\ save = "fails" THEN Refusal(ended)
            ELSE IF acc.calls # <<>> /\ ~last THEN Answer(kept, <<>>)
            ELSE [Answer(shown, d.pending \o events) EXCEPT !.turn = turn]
    <2> DEFINE told == IF last /\ save # "none" THEN acc.calls ELSE <<>>
               answer == [Answer(shown, d.pending \o events) EXCEPT !.turn = turn]
    <2>1. a = IF d.ended \/ in.type = "error" THEN Refusal(d)
              ELSE IF acc.error \/ (last /\ in.stop \notin {"STOP", "MAX_TOKENS"})
                THEN Refusal(next)
              ELSE IF told # <<>> /\ save = "fails" THEN Refusal(ended)
              ELSE IF KeepsBack(acc.calls, save) /\ ~last THEN Answer(kept, <<>>)
              ELSE [Answer(shown, d.pending \o events) EXCEPT !.turn = told]
      BY <1>2 DEF answerParts
    <2>2. save # "none"
      OBVIOUS
    <2>3. told = turn
      BY <2>2
    <2>4. KeepsBack(acc.calls, save) <=> acc.calls # <<>>
      BY <2>2 DEF KeepsBack
    <2>. HIDE DEF told, turn, next, ended, kept, shown, events, last
    <2>. QED BY <2>1, <2>3, <2>4
  <1>4. Fits(events, C)
    <2>1. Fits(e1, C) /\ Fits(e2, C) /\ Fits(e3, C)
      BY EventsAre, EventsMention, FitsOne
    <2>2. Fits(acc.events, C)
      BY <1>1 DEF PartsRead, Fits
    <2>3. Fits(Report(in.usage), C)
      BY Reports DEF Fits
    <2>. HIDE DEF e1, e2, e3, C
    <2>4. Fits(e1 \o acc.events, C)
      BY <2>1, <2>2, FitsJoin
    <2>5. Fits(e1 \o acc.events \o e2, C)
      BY <2>1, <2>4, FitsJoin
    <2>6. Fits(e1 \o acc.events \o e2 \o Report(in.usage), C)
      BY <2>3, <2>5, FitsJoin
    <2>. QED BY <2>1, <2>6, FitsJoin
  <1>. HIDE DEF events
  <1>5. Fits(d.pending, C)
    BY <1>1 DEF IsDecoder, PartsRead, Fits, Mention
  <1>6. Fits(d.pending \o events, C)
    BY <1>4, <1>5, FitsJoin
  <1>7. a = Answer(kept, <<>>) \/ (~(acc.calls # <<>> /\ ~last)
                       /\ a = [Answer(shown, d.pending \o events) EXCEPT !.turn = turn])
    <2>1. ~a.error
      BY DEF a
    <2>2. Refusal(d).error /\ Refusal(next).error /\ Refusal(ended).error
      BY DEF Refusal, Answer
    <2>. HIDE DEF next, ended, kept, shown, turn
    <2>. QED BY <1>3, <2>1, <2>2
  <1>8. CASE a = Answer(kept, <<>>)
    <2>1. a.dec = kept /\ a.events = <<>> /\ a.turn = <<>>
      BY <1>8 DEF Answer
    <2>2. DOMAIN kept = DOMAIN d /\ kept.calls = acc.calls /\ kept.pending = d.pending \o events
      BY DEF IsDecoder, newStreamDecoder
    <2>3. IsDecoder(kept)
      <3>. HIDE DEF kept
      <3>. QED BY <1>1, <1>6, <2>2 DEF PartsRead, IsDecoder, Fits
    <2>. HIDE DEF kept
    <2>. QED BY <2>1, <2>3, NoEvents, Singles DEF a
  <1>9. CASE /\ ~(acc.calls # <<>> /\ ~last)
             /\ a = [Answer(shown, d.pending \o events) EXCEPT !.turn = turn]
    <2>1. a.dec = shown /\ a.events = d.pending \o events /\ a.turn = turn
      BY <1>9 DEF Answer
    <2>2. DOMAIN shown = DOMAIN d /\ shown.calls = acc.calls /\ shown.pending = <<>>
      BY DEF IsDecoder, newStreamDecoder
    <2>3. IsDecoder(shown)
      <3>. HIDE DEF shown
      <3>. QED BY <1>1, <2>2, NoEvents DEF PartsRead, IsDecoder
    <2>4. turn = acc.calls
      BY <1>9
    <2>. HIDE DEF shown, turn
    <2>. QED BY <1>1, <1>6, <2>1, <2>3, <2>4 DEF a, C, PartsRead, Fits
  <1>. QED BY <1>7, <1>8, <1>9 DEF a

-----------------------------------------------------------------------------
(* A finite set of numbers has an ascending list. *)

IsAscending(s, n, S) ==
  s \in [1..n -> S] /\ \A i, j \in 1..n : i < j => s[i] < s[j]

LEMMA AscendingExists ==
  ASSUME NEW n \in Nat, NEW S \in SUBSET Nat, IsFiniteSet(S), Cardinality(S) = n
  PROVE  \E s : IsAscending(s, n, S)
  <1> DEFINE Ok(m) == \A T \in SUBSET Nat : IsFiniteSet(T) /\ Cardinality(T) = m
                                              => \E s : IsAscending(s, m, T)
             G == {m \in Nat : Ok(m)}
  <1>1. Ok(0)
    <2>1. SUFFICES ASSUME NEW T \in SUBSET Nat PROVE \E s : IsAscending(s, 0, T)
      OBVIOUS
    <2>2. IsAscending(<<>>, 0, T)
      BY DEF IsAscending
    <2>. QED BY <2>2
  <1>2. ASSUME NEW m \in Nat, Ok(m) PROVE Ok(m + 1)
    <2>1. SUFFICES ASSUME NEW T \in SUBSET Nat, IsFiniteSet(T), Cardinality(T) = m + 1
                   PROVE  \E s : IsAscending(s, m + 1, T)
      OBVIOUS
    <2>. HIDE DEF Ok
    <2>2. T # {}
      <3>1. Cardinality(T) # 0
        BY <2>1
      <3>. QED BY <2>1, <3>1, FS_EmptySet
    <2> DEFINE x == Min(T)
               R == T \ {x}
    <2>3. x \in T /\ \A y \in T : x <= y
      BY <2>1, <2>2, Least
    <2>. HIDE DEF x
    <2>4. R \in SUBSET Nat /\ IsFiniteSet(R) /\ Cardinality(R) = m
      <3>1. IsFiniteSet(R) /\ Cardinality(R) = Cardinality(T) - 1
        BY <2>1, <2>3, FS_RemoveElement
      <3>2. R \in SUBSET Nat
        OBVIOUS
      <3>. HIDE DEF R
      <3>. QED BY <2>1, <3>1, <3>2
    <2>5. \A y \in R : x < y
      BY <2>1, <2>3
    <2>6. PICK r : IsAscending(r, m, R)
      BY <1>2, <2>4 DEF Ok
    <2> DEFINE s == [i \in 1..(m + 1) |-> IF i = 1 THEN x ELSE r[i - 1]]
    <2>7. \A i \in 1..(m + 1) : i # 1 => s[i] = r[i - 1] /\ i - 1 \in 1..m
      OBVIOUS
    <2>8. s[1] = x
      OBVIOUS
    <2>9. \A i \in 1..m : r[i] \in R
      BY <2>6 DEF IsAscending
    <2>10. s \in [1..(m + 1) -> T]
      BY <2>3, <2>9
    <2>. HIDE DEF s, R
    <2>11. ASSUME NEW i \in 1..(m + 1), NEW j \in 1..(m + 1), i < j PROVE s[i] < s[j]
      <3>1. j # 1 /\ s[j] = r[j - 1] /\ j - 1 \in 1..m
        BY <2>7, <2>11
      <3>2. CASE i = 1
        BY <2>5, <2>8, <2>9, <3>1, <3>2
      <3>3. CASE i # 1
        <4>1. s[i] = r[i - 1] /\ i - 1 \in 1..m /\ i - 1 < j - 1
          BY <2>7, <2>11, <3>3
        <4>. QED BY <2>6, <3>1, <4>1 DEF IsAscending
      <3>. QED BY <3>2, <3>3
    <2>. QED BY <2>10, <2>11 DEF IsAscending
  <1>. HIDE DEF Ok
  <1>3. 0 \in G /\ \A m \in Nat : m \in G => m + 1 \in G
    BY <1>1, <1>2
  <1>4. Nat \subseteq G
    <2>. HIDE DEF G
    <2>. QED BY <1>3, SetInduction
  <1>5. Ok(n)
    BY <1>4
  <1>. QED BY <1>5 DEF Ok

LEMMA AscendingLists ==
  ASSUME NEW S \in SUBSET Nat, IsFiniteSet(S)
  PROVE  \A n \in DOMAIN Ascending(S) : Ascending(S)[n] \in S
  <1> DEFINE n == Cardinality(S)
  <1>1. n \in Nat
    BY FS_CardinalityType
  <1>2. PICK s : IsAscending(s, n, S)
    BY <1>1, AscendingExists
  <1>3. s \in [1..n -> S] /\ \A i, j \in DOMAIN s : i < j => s[i] < s[j]
    BY <1>2 DEF IsAscending
  <1>4. Ascending(S) \in [1..n -> S]
    BY <1>3 DEF Ascending
  <1>. QED BY <1>4

-----------------------------------------------------------------------------
(* The inductive invariant. *)

(* The ends of the stream stay, and only Codex has a codex.Stream. *)
Sides ==
  /\ from \in Upstream /\ to \in Client /\ from # to
  /\ from # "codex" => ~codex.done

(* What the relay of an OAuth provider has held back and written. *)
HeldBack ==
  HoldsBack =>
    /\ IsEncoder(enc) /\ enc.protocol = to
    /\ status = "open" => ~enc.done
    /\ IsSeq(pending) /\ IsSeq(seen)
    /\ ~Loud(pending)
    /\ seen # <<>> => status = "done" \/ Loud(seen)

(* The calls that the encoder knows, and those that the client has got,    *)
(* have been saved.                                                        *)
Recorded ==
  from = "antigravity" =>
    /\ IsDecoder(dec)
    /\ IsSeq(saved)
    /\ KnownCalls(enc) \subseteq ToSet(saved)
    /\ Shows(seen, ToSet(saved)) /\ Shows(pending, ToSet(saved))

(* The blocks of a Codex upstream. *)
BlockFields == {"kind", "call", "content", "open"}
IsBlock(b) ==
  /\ DOMAIN b = BlockFields
  /\ b.kind \in Kinds \cup {"opaque"}
  /\ b.open \in BOOLEAN
  /\ b.call # 0 <=> b.kind = "tool"
CodexBlocks ==
  from = "codex" =>
    /\ DOMAIN up = DOMAIN Silence
    /\ IsSeq(up.blocks) /\ \A k \in DOMAIN up.blocks : IsBlock(up.blocks[k])

(* A block that has something to show has shown it. *)
Visible(b) == b.call # 0 \/ (b.kind = "text" /\ b.content # <<>>)
BlocksShown ==
  PassThrough /\ status = "open" =>
    \A k \in DOMAIN up.blocks : Visible(up.blocks[k]) => Loud(seen)

(* codex.Stream has the closed blocks, and its answer when it is done. *)
Closed(bs) == {k \in DOMAIN bs : ~bs[k].open}
ItemsOf(u) == [x \in {k - 1 : k \in Closed(u.blocks)} |-> Done(u, x + 1)]
Collected ==
  from = "codex" =>
    /\ DOMAIN codex = DOMAIN newCodexStream
    /\ codex.done \in BOOLEAN
    /\ codex.done => status = "done" /\ codex.response = DoneBlocks
    /\ status = "open" => codex.items = ItemsOf(up)

StreamInv == Sides /\ HeldBack /\ Recorded /\ CodexBlocks /\ BlocksShown /\ Collected

-----------------------------------------------------------------------------
(* The relay. *)

LEMMA RelayHolds ==
  ASSUME HoldsBack, IsSeq(pending), IsSeq(seen), ~Loud(pending),
         seen # <<>> => Loud(seen),
         NEW out, IsSeq(out), NEW semantic \in BOOLEAN, NEW done \in BOOLEAN,
         Loud(out) => semantic, semantic /\ ~done => Loud(out) \/ Loud(seen),
         Relay(out, semantic, done)
  PROVE  /\ IsSeq(pending') /\ IsSeq(seen') /\ ~Loud(pending')
         /\ seen' # <<>> => status' = "done" \/ Loud(seen')
         /\ status' = "open" => ~done /\ (Loud(out) \/ Loud(seen) => Loud(seen'))
         /\ \A C : Shows(seen, C) /\ Shows(out, C) => Shows(seen', C) /\ Shows(pending', C)
  <1>1. status' = IF done THEN "done" ELSE "open"
    BY DEF Relay
  <1>2. CASE ~semantic /\ ~done /\ seen = <<>>
    <2>1. pending' = pending \o out /\ seen' = seen
      BY <1>2 DEF Relay
    <2>2. IsSeq(pending \o out) /\ ~Loud(pending \o out)
      BY <1>2, LoudJoins
    <2>3. \A C : Shows(pending \o out, C)
      BY <2>2, QuietShowsNothing
    <2>. QED BY <1>1, <1>2, <2>1, <2>2, <2>3
  <1>3. CASE ~(~semantic /\ ~done /\ seen = <<>>)
    <2>1. pending' = <<>> /\ seen' = seen \o pending \o out
      BY <1>3 DEF Relay
    <2>2. IsSeq(seen \o pending) /\ (Loud(seen \o pending) <=> Loud(seen))
      BY LoudJoins
    <2>3. /\ IsSeq(seen \o pending \o out)
          /\ Loud(seen \o pending \o out) <=> Loud(seen) \/ Loud(out)
      BY <2>2, LoudJoins
    <2>4. ASSUME NEW C, Shows(seen, C), Shows(out, C) PROVE Shows(seen \o pending \o out, C)
      <3>1. Shows(pending, C)
        BY QuietShowsNothing
      <3>2. Shows(seen \o pending, C)
        BY <2>4, <3>1, ShowsJoins
      <3>. QED BY <2>2, <2>4, <3>2, ShowsJoins
    <2>5. IsSeq(<<>>) /\ ~Loud(<<>>) /\ \A C : Shows(<<>>, C)
      BY LoudSingles, QuietShowsNothing
    <2>. QED BY <1>1, <1>3, <2>1, <2>3, <2>4, <2>5
  <1>. QED BY <1>2, <1>3

(* What Convert makes of the events of a decoder. *)
LEMMA EventsConverted ==
  ASSUME IsEncoder(enc), enc.protocol = to, ~enc.done,
         NEW events, AreEvents(events), NEW C, Mention(events, C), KnownCalls(enc) \subseteq C
  PROVE  /\ IsEncoder(Convert(events).enc) /\ Convert(events).enc.protocol = to
         /\ KnownCalls(Convert(events).enc) \subseteq C
         /\ Convert(events).done \in BOOLEAN /\ Convert(events).semantic \in BOOLEAN
         /\ Convert(events).enc.done <=> Convert(events).done
         /\ Convert(events).done => Finishes(events)
         /\ IsSeq(Convert(events).out)
         /\ Loud(Convert(events).out) => Convert(events).semantic
         /\ Convert(events).semantic /\ ~Convert(events).done => Loud(Convert(events).out)
         /\ Shows(Convert(events).out, C)
  <1>1. Len(events) \in Nat /\ DOMAIN events = 1..Len(events)
    BY SeqFacts DEF AreEvents
  <1>2. \A i \in 1..Len(events) : Member(events[i], events)
    BY <1>1 DEF Member
  <1>3. \A i \in 1..Len(events) : IsEvent(events[i]) /\ Mentions(events[i]) \subseteq C
    BY <1>2 DEF AreEvents, Mention
  <1>4. Gathered(Convert(events), events, Len(events), C)
    BY <1>1, <1>3, Converted
  <1>5. ASSUME NEW i \in 1..Len(events), events[i].kind = "done" PROVE Finishes(events)
    BY <1>2, <1>5 DEF Finishes
  <1>. QED BY <1>4, <1>5 DEF Gathered

LEMMA AntigravityStep ==
  ASSUME Sides, HeldBack, Recorded, from = "antigravity",
         NEW in, Len(in.parts) \in Nat,
         \A i \in 1..Len(in.parts) : in.parts[i].kind \in Kinds,
         NEW u, Send(in, u)
  PROVE  HeldBack' /\ Recorded'
  <1>1. /\ HoldsBack /\ ~PassThrough /\ status = "open"
        /\ from' = from /\ to' = to /\ protocolOf(from) = "antigravity"
        /\ HoldsBack' = TRUE
    BY DEF HoldsBack, PassThrough, Send, protocolOf
  <1>2. /\ IsEncoder(enc) /\ enc.protocol = to /\ ~enc.done
        /\ IsSeq(pending) /\ IsSeq(seen) /\ ~Loud(pending)
        /\ seen # <<>> => Loud(seen)
    BY <1>1 DEF HeldBack
  <1>3. PICK save \in {"ok", "fails"} : Translate(in, save)
    BY <1>1 DEF Send
  <1> DEFINE answer == decodeAntigravity(dec, in, save)
             result == Convert(answer.events)
             C == ToSet(saved \o answer.turn)
  <1>4. IF answer.error THEN GiveUp
        ELSE /\ dec' = answer.dec /\ enc' = result.enc
             /\ saved' = saved \o answer.turn
             /\ Relay(result.out, result.semantic, result.done)
    BY <1>1, <1>3 DEF Translate, Decode
  <1>5. CASE answer.error
    <2>1. GiveUp
      BY <1>4, <1>5
    <2>2. /\ status' = "failed" /\ dec' = dec /\ enc' = enc /\ pending' = pending
          /\ seen' = seen /\ saved' = saved
      BY <2>1 DEF GiveUp
    <2>3. Recorded'
      BY <1>1, <2>2 DEF Recorded
    <2>4. HeldBack'
      BY <1>1, <1>2, <2>2 DEF HeldBack
    <2>. QED BY <2>3, <2>4
  <1>6. CASE ~answer.error
    <2>1. /\ IsDecoder(answer.dec) /\ AreEvents(answer.events) /\ IsSeq(answer.turn)
          /\ Mention(answer.events, ToSet(answer.turn))
      BY <1>6, AntigravityDecoded DEF Recorded
    <2>2. /\ dec' = answer.dec /\ enc' = result.enc /\ saved' = saved \o answer.turn
          /\ Relay(result.out, result.semantic, result.done)
      BY <1>4, <1>6
    <2>. HIDE DEF answer
    <2>3. /\ IsSeq(saved \o answer.turn)
          /\ C = ToSet(saved) \cup ToSet(answer.turn)
      <3>1. /\ IsSeq(saved \o answer.turn)
            /\ \A x : Member(x, saved \o answer.turn)
                        <=> Member(x, saved) \/ Member(x, answer.turn)
        BY <2>1, Joins DEF Recorded
      <3>. QED BY <3>1 DEF ToSet, Member
    <2>. HIDE DEF C
    <2>4. /\ KnownCalls(enc) \subseteq C /\ Mention(answer.events, C)
          /\ Shows(seen, C)
      BY <2>1, <2>3 DEF Recorded, Mention, Shows
    <2>5. /\ IsEncoder(result.enc) /\ result.enc.protocol = to
          /\ KnownCalls(result.enc) \subseteq C
          /\ result.done \in BOOLEAN /\ result.semantic \in BOOLEAN
          /\ result.enc.done <=> result.done
          /\ IsSeq(result.out)
          /\ Loud(result.out) => result.semantic
          /\ result.semantic /\ ~result.done => Loud(result.out)
          /\ Shows(result.out, C)
      BY <1>2, <2>1, <2>4, EventsConverted
    <2>. HIDE DEF result
    <2>6. /\ IsSeq(pending') /\ IsSeq(seen') /\ ~Loud(pending')
          /\ seen' # <<>> => status' = "done" \/ Loud(seen')
          /\ status' = "open" => ~result.done
          /\ Shows(seen', C) /\ Shows(pending', C)
      BY <1>1, <1>2, <2>2, <2>4, <2>5, RelayHolds
    <2>7. HeldBack'
      BY <1>1, <2>2, <2>5, <2>6 DEF HeldBack
    <2>8. ToSet(saved') = C
      BY <2>2 DEF C
    <2>9. Recorded'
      BY <1>1, <2>1, <2>2, <2>3, <2>5, <2>6, <2>8 DEF Recorded
    <2>. QED BY <2>7, <2>9
  <1>. QED BY <1>5, <1>6

-----------------------------------------------------------------------------
(* The events of a Codex upstream, and what codex.Stream makes of them. *)

CodexEvent(in) ==
  /\ DOMAIN in = DOMAIN blank
  /\ in.reasoning = 0 /\ in.tools = <<>>
  /\ in.type \in {"response.created", "response.output_item.added", "response.delta",
                  "response.output_item.done", "response.failed", "error"} \cup CodexTerminal
  /\ in.type = "response.delta" => in.kind \in Kinds
  /\ in.type # "response.delta" => in.delta = 0
  /\ in.type = "response.output_item.added" =>
       in.content = <<>> /\ (in.call # 0 <=> in.kind = "tool")

LEMMA Consumes ==
  ASSUME NEW s, DOMAIN s = DOMAIN newCodexStream, s.done \in BOOLEAN, NEW in
  PROVE  /\ DOMAIN Consume(s, in) = DOMAIN newCodexStream
         /\ Consume(s, in).done \in BOOLEAN
         /\ Consume(s, in).done <=> s.done \/ in.type \in CodexTerminal
         /\ Consume(s, in).items = IF in.type = "response.output_item.done"
                                     THEN Bind(s.items, in.index, CodexItem(in)) ELSE s.items
         /\ Consume(s, in).response = IF in.type \in CodexTerminal
                                        THEN CodexOutput(s, in) ELSE s.response
  BY DEF Consume, newCodexStream, CodexTerminal

LEMMA ConsumedKeeps ==
  ASSUME NEW s, NEW in, CodexEvent(in)
  PROVE  /\ Consumed(s, in).type = in.type /\ Consumed(s, in).kind = in.kind
         /\ HasContent(Consumed(s, in)) <=> HasContent(in)
  BY DEF Consumed, CodexEvent, blank, HasContent, Opens

LEMMA CodexSees ==
  ASSUME NEW in, CodexEvent(in)
  PROVE  /\ CodexSemantic(in) \in BOOLEAN
         /\ HasContent(in) => CodexSemantic(in)
         /\ CodexSemantic(in) =>
              \/ HasContent(in)
              \/ in.type = "response.output_item.done" /\ Visible(in)
  <1>1. CASE in.type = "response.delta"
    <2>1. CodexSemantic(in) = (in.delta # 0)
      BY <1>1 DEF CodexSemantic
    <2>2. HasContent(in) <=> in.delta # 0
      BY <1>1 DEF HasContent, Opens, CodexEvent
    <2>. QED BY <2>1, <2>2
  <1>2. CASE in.type \in {"response.output_item.added", "response.output_item.done"}
    <2>1. CodexSemantic(in) = Visible(in)
      BY <1>2 DEF CodexSemantic, Visible
    <2>2. HasContent(in) <=> in.type = "response.output_item.added" /\ in.kind = "tool"
      BY <1>2 DEF HasContent, Opens, CodexEvent
    <2>3. Visible(in) \in BOOLEAN
      BY DEF Visible
    <2>4. in.type = "response.output_item.added" => (Visible(in) <=> in.kind = "tool")
      BY DEF Visible, CodexEvent
    <2>. QED BY <1>2, <2>1, <2>2, <2>3, <2>4
  <1>3. CASE in.type \notin {"response.delta", "response.output_item.added",
                             "response.output_item.done"}
    <2>1. CodexSemantic(in) = FALSE
      BY <1>3 DEF CodexSemantic
    <2>2. ~HasContent(in)
      BY <1>3 DEF HasContent, Opens, CodexEvent, CodexTerminal
    <2>. QED BY <2>1, <2>2
  <1>. QED BY <1>1, <1>2, <1>3

LEMMA CodexTranslated ==
  ASSUME Sides, HeldBack, Collected, from = "codex", to # "responses",
         NEW in, CodexEvent(in), NEW u, Send(in, u)
  PROVE  HeldBack'
  <1>1. /\ HoldsBack /\ ~PassThrough /\ status = "open"
        /\ from' = from /\ to' = to /\ protocolOf(from) = "responses"
        /\ HoldsBack' = TRUE
    BY DEF HoldsBack, PassThrough, Send, protocolOf
  <1>2. /\ IsEncoder(enc) /\ enc.protocol = to /\ ~enc.done
        /\ IsSeq(pending) /\ IsSeq(seen) /\ ~Loud(pending)
        /\ seen # <<>> => Loud(seen)
    BY <1>1 DEF HeldBack
  <1>3. ASSUME GiveUp PROVE HeldBack'
    <2>1. /\ status' = "failed" /\ enc' = enc /\ pending' = pending /\ seen' = seen
      BY <1>3 DEF GiveUp
    <2>. QED BY <1>1, <1>2, <2>1 DEF HeldBack
  <1> DEFINE event == Consumed(codex, in)
             next == Consume(codex, in)
             answer == decodeResponses(dec, event)
             result == Convert(answer.events)
             C == KnownCalls(enc) \cup UNION {Mentions(answer.events[i]) :
                                                i \in DOMAIN answer.events}
  <1>4. CASE CodexRefuses(codex, in)
    <2>1. GiveUp
      BY <1>4 DEF Send
    <2>. QED BY <1>3, <2>1
  <1>5. CASE ~CodexRefuses(codex, in)
    <2>1. Translate(in, "none")
      BY <1>1, <1>5 DEF Send
    <2>2. IF answer.error THEN GiveUp
          ELSE /\ enc' = result.enc
               /\ Relay(result.out, result.semantic, next.done)
      BY <1>1, <2>1 DEF Translate, Decode
    <2>3. in.type \notin {"error", "response.failed"}
      BY <1>5 DEF CodexRefuses
    <2>4. event.type = in.type /\ event.kind = in.kind
      BY ConsumedKeeps
    <2>5. next.done \in BOOLEAN /\ (next.done <=> codex.done \/ in.type \in CodexTerminal)
      BY Consumes DEF Collected
    <2>. HIDE DEF event, next
    <2>6. /\ AreEvents(answer.events)
          /\ Finishes(answer.events) => in.type \in CodexTerminal
          /\ answer.error \in BOOLEAN
      BY <2>3, <2>4, ResponsesDecoded DEF CodexEvent
    <2>. HIDE DEF answer
    <2>7. KnownCalls(enc) \subseteq C /\ Mention(answer.events, C)
      BY DEF Mention, Member
    <2>. HIDE DEF C
    <2>8. /\ IsEncoder(result.enc) /\ result.enc.protocol = to
          /\ result.done \in BOOLEAN /\ result.semantic \in BOOLEAN
          /\ result.enc.done <=> result.done
          /\ result.done => Finishes(answer.events)
          /\ IsSeq(result.out)
          /\ Loud(result.out) => result.semantic
          /\ result.semantic /\ ~result.done => Loud(result.out)
      BY <1>2, <2>6, <2>7, EventsConverted
    <2>. HIDE DEF result
    <2>9. CASE answer.error
      BY <1>3, <2>2, <2>9
    <2>10. CASE ~answer.error
      <3>1. result.done => next.done
        BY <2>5, <2>6, <2>8
      <3>2. enc' = result.enc /\ Relay(result.out, result.semantic, next.done)
        BY <2>2, <2>10
      <3>3. /\ IsSeq(pending') /\ IsSeq(seen') /\ ~Loud(pending')
            /\ seen' # <<>> => status' = "done" \/ Loud(seen')
            /\ status' = "open" => ~next.done
        BY <1>1, <1>2, <2>5, <2>8, <3>1, <3>2, RelayHolds
      <3>. QED BY <1>1, <2>8, <3>1, <3>2, <3>3 DEF HeldBack
    <2>. QED BY <2>9, <2>10
  <1>. QED BY <1>4, <1>5

LEMMA CodexPassed ==
  ASSUME Sides, HeldBack, Collected, PassThrough,
         NEW in, CodexEvent(in), NEW u, Send(in, u),
         in.type = "response.output_item.done" /\ Visible(in) => Loud(seen)
  PROVE  /\ HeldBack'
         /\ status' = "open" => (HasContent(in) \/ Loud(seen) => Loud(seen'))
  <1>1. /\ HoldsBack /\ status = "open" /\ from = "codex"
        /\ from' = from /\ to' = to /\ HoldsBack' = TRUE
    BY DEF HoldsBack, PassThrough, Send
  <1>2. /\ IsEncoder(enc) /\ enc.protocol = to /\ ~enc.done
        /\ IsSeq(pending) /\ IsSeq(seen) /\ ~Loud(pending)
        /\ seen # <<>> => Loud(seen)
    BY <1>1 DEF HeldBack
  <1>3. CASE CodexRefuses(codex, in)
    <2>1. GiveUp
      BY <1>1, <1>3 DEF Send
    <2>2. /\ status' = "failed" /\ enc' = enc /\ pending' = pending /\ seen' = seen
      BY <2>1 DEF GiveUp
    <2>. QED BY <1>1, <1>2, <2>2 DEF HeldBack
  <1>4. CASE ~CodexRefuses(codex, in)
    <2> DEFINE w == Consumed(codex, in)
               next == Consume(codex, in)
               semantic == CodexSemantic(in)
    <2>1. Relay(<<w>>, semantic, next.done) /\ enc' = enc
      BY <1>1, <1>4 DEF Send, Pass
    <2>2. HasContent(w) <=> HasContent(in)
      BY ConsumedKeeps
    <2>3. /\ semantic \in BOOLEAN /\ (HasContent(in) => semantic)
          /\ semantic => HasContent(in) \/ Loud(seen)
      BY CodexSees
    <2>4. next.done \in BOOLEAN
      BY <1>1, Consumes DEF Collected
    <2>. HIDE DEF w, next, semantic
    <2>5. IsSeq(<<w>>) /\ (Loud(<<w>>) <=> HasContent(in))
      BY <2>2, LoudSingles
    <2>6. /\ IsSeq(pending') /\ IsSeq(seen') /\ ~Loud(pending')
          /\ seen' # <<>> => status' = "done" \/ Loud(seen')
          /\ status' = "open" => (Loud(<<w>>) \/ Loud(seen) => Loud(seen'))
      BY <1>1, <1>2, <2>1, <2>3, <2>4, <2>5, RelayHolds
    <2>. QED BY <1>1, <1>2, <2>1, <2>5, <2>6 DEF HeldBack
  <1>. QED BY <1>3, <1>4

-----------------------------------------------------------------------------
(* The blocks of a Codex upstream. *)

(* What it does to its blocks with the event in. *)
CodexMove(in, u) ==
  /\ CodexEvent(in)
  /\ DOMAIN u = DOMAIN Silence
  /\ \/ /\ in.type # "response.output_item.done"
        /\ in.type \in CodexTerminal => in.output \in {<<>>, DoneBlocks}
        /\ u.blocks = up.blocks
     \/ \E b : /\ in.type = "response.output_item.added"
               /\ IsBlock(b) /\ b.open /\ b.content = <<>> /\ b.kind = in.kind
               /\ u.blocks = Append(up.blocks, b)
     \/ \E k \in OpenBlocks :
          /\ in.type = "response.delta"
          /\ u.blocks = [up.blocks EXCEPT ![k].content = Cat(@, in.delta)]
     \/ \E k \in OpenBlocks :
          /\ in.type = "response.output_item.done"
          /\ in.index = k - 1 /\ CodexItem(in) = Done(up, k)
          /\ u.blocks = [up.blocks EXCEPT ![k].open = FALSE]

LEMMA SaysKeeps ==
  ASSUME NEW u, DOMAIN u = DOMAIN Silence, NEW kind, NEW d, NEW n
  PROVE  /\ DOMAIN Says(u, kind, d) = DOMAIN u /\ Says(u, kind, d).blocks = u.blocks
         /\ DOMAIN Spends(u, n) = DOMAIN u /\ Spends(u, n).blocks = u.blocks
  BY DEF Says, Spends, Silence

LEMMA CodexOpens ==
  ASSUME CodexBlocks, from = "codex", NEW kind \in {"text", "reasoning", "tool", "opaque"},
         OpenBlock(kind)
  PROVE  \E in, u : Send(in, u) /\ CodexMove(in, u)
  <1>1. DOMAIN up = DOMAIN Silence /\ IsSeq(up.blocks)
    BY DEF CodexBlocks
  <1>2. PICK id \in IF kind # "tool" THEN {0} ELSE {NextCall} :
          Send([blank EXCEPT !.type = "response.output_item.added", !.kind = kind,
                             !.index = Len(up.blocks), !.call = id, !.delta = 0],
               Spends(Starts(up, kind, id, 0), 0))
    BY DEF OpenBlock, Named
  <1> DEFINE in == [blank EXCEPT !.type = "response.output_item.added", !.kind = kind,
                                 !.index = Len(up.blocks), !.call = id, !.delta = 0]
             b == [kind |-> kind, call |-> id, content |-> Cat(<<>>, 0), open |-> TRUE]
             v == [up EXCEPT !.blocks = Append(@, b)]
             u == Spends(Starts(up, kind, id, 0), 0)
  <1>3. id # 0 <=> kind = "tool"
    <2>1. Len(up.blocks) \in Nat
      BY <1>1, SeqFacts
    <2>. QED BY <2>1 DEF NextCall
  <1>4. CodexEvent(in) /\ in.kind = kind /\ in.type = "response.output_item.added"
    BY <1>3 DEF CodexEvent, blank
  <1>5. IsBlock(b) /\ b.open /\ b.content = <<>> /\ b.kind = kind
    BY <1>3 DEF IsBlock, BlockFields, Kinds, Cat
  <1>. HIDE DEF b
  <1>6. DOMAIN v = DOMAIN Silence /\ v.blocks = Append(up.blocks, b)
    BY <1>1 DEF Silence
  <1>7. Starts(up, kind, id, 0) = Says(v, kind, 0)
    BY DEF Starts, b
  <1>. HIDE DEF v
  <1>8. DOMAIN u = DOMAIN Silence /\ u.blocks = Append(up.blocks, b)
    <2>1. DOMAIN Says(v, kind, 0) = DOMAIN v /\ Says(v, kind, 0).blocks = v.blocks
      BY <1>6, SaysKeeps
    <2> DEFINE x == Says(v, kind, 0)
    <2>2. DOMAIN x = DOMAIN Silence /\ x.blocks = Append(up.blocks, b)
      BY <1>6, <2>1
    <2>3. u = Spends(x, 0)
      BY <1>7
    <2>. HIDE DEF x, u
    <2>. QED BY <2>2, <2>3, SaysKeeps
  <1>. HIDE DEF u, in
  <1>9. CodexMove(in, u)
    BY <1>4, <1>5, <1>8 DEF CodexMove
  <1>. QED BY <1>2, <1>9 DEF in, u

LEMMA CodexGrows ==
  ASSUME CodexBlocks, from = "codex", GrowBlock
  PROVE  \E in, u : Send(in, u) /\ CodexMove(in, u)
  <1>1. DOMAIN up = DOMAIN Silence /\ IsSeq(up.blocks)
    BY DEF CodexBlocks
  <1>2. PICK k \in OpenBlocks, d \in MayBeEmpty(1) :
          /\ up.blocks[k].kind # "opaque"
          /\ Send([blank EXCEPT !.type = "response.delta", !.kind = up.blocks[k].kind,
                                !.index = k - 1, !.delta = d], Spends(Adds(up, k, d), 1))
    BY DEF GrowBlock, Named
  <1> DEFINE in == [blank EXCEPT !.type = "response.delta", !.kind = up.blocks[k].kind,
                                 !.index = k - 1, !.delta = d]
             v == [up EXCEPT !.blocks[k].content = Cat(@, d)]
             u == Spends(Adds(up, k, d), 1)
             bs == [up.blocks EXCEPT ![k].content = Cat(@, d)]
  <1>3. up.blocks[k].kind \in Kinds
    BY <1>2 DEF CodexBlocks, OpenBlocks, IsBlock
  <1>4. CodexEvent(in) /\ in.delta = d /\ in.type = "response.delta"
    BY <1>3 DEF CodexEvent, blank
  <1>5. DOMAIN v = DOMAIN Silence /\ v.blocks = bs
    BY <1>1 DEF Silence
  <1>6. Adds(up, k, d) = Says(v, up.blocks[k].kind, d)
    BY DEF Adds
  <1>. HIDE DEF v
  <1>7. DOMAIN u = DOMAIN Silence /\ u.blocks = bs
    BY <1>5, <1>6, SaysKeeps
  <1>. HIDE DEF u, in
  <1>8. CodexMove(in, u)
    BY <1>2, <1>4, <1>7 DEF CodexMove
  <1>. QED BY <1>2, <1>8 DEF in, u

LEMMA CodexCloses ==
  ASSUME CodexBlocks, from = "codex", CloseBlock
  PROVE  \E in, u : Send(in, u) /\ CodexMove(in, u)
  <1>1. DOMAIN up = DOMAIN Silence /\ IsSeq(up.blocks)
    BY DEF CodexBlocks
  <1>2. PICK k \in OpenBlocks :
          Send([blank EXCEPT !.type = "response.output_item.done",
                             !.kind = up.blocks[k].kind, !.index = k - 1,
                             !.call = up.blocks[k].call,
                             !.content = up.blocks[k].content],
               [up EXCEPT !.blocks[k].open = FALSE])
    BY DEF CloseBlock
  <1> DEFINE in == [blank EXCEPT !.type = "response.output_item.done",
                                 !.kind = up.blocks[k].kind, !.index = k - 1,
                                 !.call = up.blocks[k].call,
                                 !.content = up.blocks[k].content]
             u == [up EXCEPT !.blocks[k].open = FALSE]
             bs == [up.blocks EXCEPT ![k].open = FALSE]
  <1>3. /\ CodexEvent(in) /\ in.index = k - 1 /\ in.type = "response.output_item.done"
        /\ CodexItem(in) = Done(up, k)
    BY DEF CodexEvent, blank, CodexItem, Done
  <1>4. DOMAIN u = DOMAIN Silence /\ u.blocks = bs
    BY <1>1 DEF Silence
  <1>. HIDE DEF u, in
  <1>5. CodexMove(in, u)
    BY <1>3, <1>4 DEF CodexMove
  <1>. QED BY <1>2, <1>5 DEF in, u

(* The other events leave the blocks as they are. *)
LEMMA CodexStays ==
  ASSUME NEW in, NEW u, DOMAIN in = DOMAIN blank, in.reasoning = 0, in.tools = <<>>,
         in.delta = 0,
         in.type \in {"response.created", "response.failed", "error"} \cup CodexTerminal,
         in.output \in {<<>>, DoneBlocks}, Send(in, u),
         DOMAIN u = DOMAIN Silence, u.blocks = up.blocks
  PROVE  \E i, v : Send(i, v) /\ CodexMove(i, v)
  <1>1. CodexEvent(in) /\ in.type # "response.output_item.done"
    BY DEF CodexEvent, CodexTerminal
  <1>2. CodexMove(in, u)
    BY <1>1 DEF CodexMove
  <1>. QED BY <1>2

LEMMA CodexEnds ==
  ASSUME CodexBlocks, from = "codex", NEW reason,
         NEW type \in CodexTerminal \cup {"response.failed"}, ResponseEnds(type, reason)
  PROVE  \E in, u : Send(in, u) /\ CodexMove(in, u)
  <1>1. PICK output \in {<<>>, DoneBlocks} :
          Send([blank EXCEPT !.type = type, !.stop = reason, !.usage = Whole,
                             !.output = output],
               [Stops(up, reason, Whole) EXCEPT !.broke = type = "response.failed"])
    BY DEF ResponseEnds
  <1> DEFINE in == [blank EXCEPT !.type = type, !.stop = reason, !.usage = Whole,
                                 !.output = output]
             u == [Stops(up, reason, Whole) EXCEPT !.broke = type = "response.failed"]
  <1>2. /\ DOMAIN in = DOMAIN blank /\ in.reasoning = 0 /\ in.tools = <<>>
        /\ in.delta = 0 /\ in.type = type /\ in.output = output
    BY DEF blank
  <1>3. DOMAIN up = DOMAIN Silence
    BY DEF CodexBlocks
  <1>4. DOMAIN u = DOMAIN Silence /\ u.blocks = up.blocks
    BY <1>3 DEF Stops, Silence
  <1>. HIDE DEF in, u
  <1>5. Send(in, u)
    BY <1>1 DEF in, u
  <1>. QED BY <1>2, <1>4, <1>5, CodexStays

LEMMA CodexMoves ==
  ASSUME CodexBlocks, from = "codex", Next
  PROVE  \E in, u : Send(in, u) /\ CodexMove(in, u)
  <1>1. DOMAIN up = DOMAIN Silence
    BY DEF CodexBlocks
  <1>2. CASE Begin
    <2> DEFINE in == [blank EXCEPT !.type = "response.created", !.usage = NoUsage]
               u == [up EXCEPT !.begun = TRUE, !.usage = NoUsage]
    <2>1. Send(in, u)
      BY <1>2 DEF Begin, Named
    <2>2. /\ DOMAIN in = DOMAIN blank /\ in.reasoning = 0 /\ in.tools = <<>>
          /\ in.delta = 0 /\ in.type = "response.created" /\ in.output = <<>>
      BY DEF blank
    <2>3. DOMAIN u = DOMAIN Silence /\ u.blocks = up.blocks
      BY <1>1 DEF Silence
    <2>. HIDE DEF in, u
    <2>. QED BY <2>1, <2>2, <2>3, CodexStays
  <1>3. CASE ReportError
    <2> DEFINE in == [blank EXCEPT !.type = "error"]
               u == [up EXCEPT !.broke = TRUE]
    <2>1. Send(in, u)
      BY <1>3 DEF ReportError
    <2>2. /\ DOMAIN in = DOMAIN blank /\ in.reasoning = 0 /\ in.tools = <<>>
          /\ in.delta = 0 /\ in.type = "error" /\ in.output = <<>>
      BY DEF blank
    <2>3. DOMAIN u = DOMAIN Silence /\ u.blocks = up.blocks
      BY <1>1 DEF Silence
    <2>. HIDE DEF in, u
    <2>. QED BY <2>1, <2>2, <2>3, CodexStays
  <1>4. CASE \/ \E reason \in {"", "other"} : ResponseEnds("response.completed", reason)
             \/ ResponseEnds("response.failed", "")
             \/ \E reason \in {"max_output_tokens", "content_filter", "other"} :
                  ResponseEnds("response.incomplete", reason)
    BY <1>4, CodexEnds DEF CodexTerminal
  <1>5. CASE \E kind \in {"text", "reasoning", "tool", "opaque"} : OpenBlock(kind)
    BY <1>5, CodexOpens
  <1>6. CASE GrowBlock
    BY <1>6, CodexGrows
  <1>7. CASE CloseBlock
    BY <1>7, CodexCloses
  <1>8. CASE \/ MessageDelta \/ MessageStop \/ ChatContent \/ ChatCall \/ ChatTwoCalls
             \/ ChatArguments \/ ChatFinish \/ ChatUsage \/ ChatDone \/ AntigravityDocument
    BY <1>8 DEF MessageDelta, MessageStop, ChatContent, ChatCall, ChatTwoCalls,
                ChatArguments, ChatFinish, ChatUsage, ChatDone, AntigravityDocument
  <1>. QED BY <1>2, <1>3, <1>4, <1>5, <1>6, <1>7, <1>8 DEF Next

LEMMA ItemsSame ==
  ASSUME NEW u, NEW v, Closed(u.blocks) \subseteq Nat, Closed(v.blocks) = Closed(u.blocks),
         \A k \in Closed(u.blocks) : Done(v, k) = Done(u, k)
  PROVE  ItemsOf(v) = ItemsOf(u)
  <1> DEFINE S == {k - 1 : k \in Closed(u.blocks)}
  <1>1. \A x \in S : x + 1 \in Closed(u.blocks)
    OBVIOUS
  <1>2. \A x \in S : Done(v, x + 1) = Done(u, x + 1)
    BY <1>1
  <1>3. ItemsOf(v) = [x \in S |-> Done(v, x + 1)] /\ ItemsOf(u) = [x \in S |-> Done(u, x + 1)]
    BY DEF ItemsOf
  <1>. HIDE DEF S
  <1>. QED BY <1>2, <1>3

LEMMA ItemsMore ==
  ASSUME NEW u, NEW v, Closed(u.blocks) \subseteq Nat, NEW k \in Nat, k \notin Closed(u.blocks),
         Closed(v.blocks) = Closed(u.blocks) \cup {k},
         \A j \in Closed(u.blocks) : Done(v, j) = Done(u, j)
  PROVE  ItemsOf(v) = Bind(ItemsOf(u), k - 1, Done(v, k))
  <1> DEFINE S == {j - 1 : j \in Closed(u.blocks)}
             T == S \cup {k - 1}
             f == Bind(ItemsOf(u), k - 1, Done(v, k))
  <1>1. {j - 1 : j \in Closed(v.blocks)} = T
    OBVIOUS
  <1>2. k - 1 \notin S
    OBVIOUS
  <1>3. \A x \in S : x + 1 \in Closed(u.blocks)
    OBVIOUS
  <1>4. \A x \in S : Done(v, x + 1) = Done(u, x + 1)
    BY <1>3
  <1>5. (k - 1) + 1 = k
    OBVIOUS
  <1>6. ItemsOf(u) = [x \in S |-> Done(u, x + 1)]
    BY DEF ItemsOf
  <1>7. ItemsOf(v) = [x \in T |-> Done(v, x + 1)]
    BY <1>1 DEF ItemsOf
  <1>. HIDE DEF S
  <1>8. DOMAIN ItemsOf(u) = S /\ \A x \in S : ItemsOf(u)[x] = Done(u, x + 1)
    BY <1>6
  <1>9. f = [x \in T |-> IF x = k - 1 THEN Done(v, k) ELSE ItemsOf(u)[x]]
    BY <1>8 DEF Bind
  <1>10. \A x \in T : (IF x = k - 1 THEN Done(v, k) ELSE ItemsOf(u)[x]) = Done(v, x + 1)
    BY <1>2, <1>4, <1>5, <1>8
  <1>. HIDE DEF T
  <1>. QED BY <1>7, <1>9, <1>10

LEMMA OutputIsWhole ==
  ASSUME IsSeq(up.blocks), codex.items = ItemsOf(up), NEW in, in.output \in {<<>>, DoneBlocks}
  PROVE  CodexOutput(codex, in) = DoneBlocks
  <1> DEFINE S == {k - 1 : k \in Closed(up.blocks)}
             N == Len(up.blocks)
  <1>1. N \in Nat /\ DOMAIN up.blocks = 1..N
    BY SeqFacts
  <1>2. S \subseteq 0..N /\ S \in SUBSET Nat
    BY <1>1 DEF Closed
  <1>3. IsFiniteSet(S)
    <2>1. IsFiniteSet(0..N)
      BY <1>1, FS_Interval
    <2>. HIDE DEF S
    <2>. QED BY <1>2, <2>1, FS_Subset
  <1>4. S = {k - 1 : k \in DOMAIN up.blocks \ OpenBlocks}
    BY DEF Closed, OpenBlocks
  <1>5. codex.items = [x \in S |-> Done(up, x + 1)]
    BY DEF ItemsOf
  <1>. HIDE DEF S
  <1> DEFINE indexes == Ascending(S)
  <1>6. \A n \in DOMAIN indexes : indexes[n] \in S
    BY <1>2, <1>3, AscendingLists
  <1>7. DOMAIN codex.items = S /\ \A x \in S : codex.items[x] = Done(up, x + 1)
    BY <1>5
  <1>8. DoneBlocks = [n \in DOMAIN indexes |-> Done(up, indexes[n] + 1)]
    BY <1>4 DEF DoneBlocks
  <1>9. CodexOutput(codex, in) = IF in.output # <<>> THEN in.output
                                 ELSE [n \in DOMAIN indexes |-> codex.items[indexes[n]]]
    BY <1>7 DEF CodexOutput
  <1>. HIDE DEF indexes
  <1>10. \A n \in DOMAIN indexes : codex.items[indexes[n]] = Done(up, indexes[n] + 1)
    BY <1>6, <1>7
  <1>11. [n \in DOMAIN indexes |-> codex.items[indexes[n]]] = DoneBlocks
    BY <1>8, <1>10
  <1>. QED BY <1>9, <1>11

(* The blocks after a move: they stay blocks, one that becomes visible is  *)
(* shown by the event, and what is closed is what codex.Stream collects.   *)
LEMMA Moved ==
  ASSUME CodexBlocks, from = "codex", NEW in, NEW u, CodexMove(in, u)
  PROVE  /\ DOMAIN u = DOMAIN Silence
         /\ IsSeq(u.blocks) /\ \A k \in DOMAIN u.blocks : IsBlock(u.blocks[k])
         /\ \A k \in DOMAIN u.blocks : Visible(u.blocks[k]) =>
              \/ HasContent(in)
              \/ \E j \in DOMAIN up.blocks : Visible(up.blocks[j])
         /\ in.type = "response.output_item.done" /\ Visible(in) =>
              \E j \in DOMAIN up.blocks : Visible(up.blocks[j])
         /\ in.type # "response.output_item.done" => ItemsOf(u) = ItemsOf(up)
         /\ in.type = "response.output_item.done" =>
              ItemsOf(u) = Bind(ItemsOf(up), in.index, CodexItem(in))
         /\ in.type \in CodexTerminal =>
              u.blocks = up.blocks /\ in.output \in {<<>>, DoneBlocks}
  <1> DEFINE N == Len(up.blocks)
             Goal == /\ IsSeq(u.blocks) /\ \A k \in DOMAIN u.blocks : IsBlock(u.blocks[k])
                     /\ \A k \in DOMAIN u.blocks : Visible(u.blocks[k]) =>
                          \/ HasContent(in)
                          \/ \E j \in DOMAIN up.blocks : Visible(up.blocks[j])
                     /\ in.type = "response.output_item.done" /\ Visible(in) =>
                          \E j \in DOMAIN up.blocks : Visible(up.blocks[j])
                     /\ in.type # "response.output_item.done" => ItemsOf(u) = ItemsOf(up)
                     /\ in.type = "response.output_item.done" =>
                          ItemsOf(u) = Bind(ItemsOf(up), in.index, CodexItem(in))
                     /\ in.type \in CodexTerminal =>
                          u.blocks = up.blocks /\ in.output \in {<<>>, DoneBlocks}
  <1>1. /\ IsSeq(up.blocks) /\ \A k \in DOMAIN up.blocks : IsBlock(up.blocks[k])
        /\ N \in Nat /\ DOMAIN up.blocks = 1..N
    BY SeqFacts DEF CodexBlocks
  <1>2. Closed(up.blocks) \subseteq Nat
    BY <1>1 DEF Closed
  <1>3. CodexEvent(in) /\ DOMAIN u = DOMAIN Silence
    BY DEF CodexMove
  <1>4. ASSUME in.type # "response.output_item.done",
               in.type \in CodexTerminal => in.output \in {<<>>, DoneBlocks},
               u.blocks = up.blocks
        PROVE  Goal
    <2>1. ItemsOf(u) = ItemsOf(up)
      BY <1>4 DEF ItemsOf, Done
    <2>. QED BY <1>1, <1>3, <1>4, <2>1
  <1>5. ASSUME NEW b, in.type = "response.output_item.added", IsBlock(b), b.open,
               b.content = <<>>, b.kind = in.kind, u.blocks = Append(up.blocks, b)
        PROVE  Goal
    <2>1. /\ IsSeq(u.blocks) /\ Len(u.blocks) = N + 1
          /\ \A i \in 1..N : u.blocks[i] = up.blocks[i]
          /\ u.blocks[N + 1] = b
      BY <1>1, <1>5, Appends
    <2>2. DOMAIN u.blocks = 1..(N + 1)
      BY <2>1, SeqFacts
    <2>3. \A k \in DOMAIN u.blocks : k \in DOMAIN up.blocks \/ k = N + 1
      BY <1>1, <2>2
    <2>4. \A k \in DOMAIN u.blocks : IsBlock(u.blocks[k])
      BY <1>1, <1>5, <2>1, <2>3
    <2>5. Visible(b) => HasContent(in)
      BY <1>5 DEF Visible, IsBlock, HasContent, Opens
    <2>6. \A k \in DOMAIN u.blocks : Visible(u.blocks[k]) =>
            HasContent(in) \/ \E j \in DOMAIN up.blocks : Visible(up.blocks[j])
      <3>. HIDE DEF Visible, HasContent
      <3>. QED BY <1>1, <2>1, <2>3, <2>5
    <2>7. Closed(u.blocks) = Closed(up.blocks)
      BY <1>1, <1>5, <2>1, <2>2, <2>3 DEF Closed
    <2>8. \A k \in Closed(up.blocks) : Done(u, k) = Done(up, k)
      BY <1>1, <2>1 DEF Closed, Done
    <2>9. ItemsOf(u) = ItemsOf(up)
      BY <1>2, <2>7, <2>8, ItemsSame
    <2>10. in.type # "response.output_item.done" /\ in.type \notin CodexTerminal
      BY <1>5 DEF CodexTerminal
    <2>. HIDE DEF Visible, HasContent
    <2>. QED BY <2>1, <2>4, <2>6, <2>9, <2>10
  <1>6. ASSUME NEW k \in OpenBlocks, in.type = "response.delta",
               u.blocks = [up.blocks EXCEPT ![k].content = Cat(@, in.delta)]
        PROVE  Goal
    <2> DEFINE c == [up.blocks[k] EXCEPT !.content = Cat(@, in.delta)]
    <2>1. k \in DOMAIN up.blocks /\ up.blocks[k].open
      BY DEF OpenBlocks
    <2>2. u.blocks = [up.blocks EXCEPT ![k] = c]
      BY <1>6
    <2>3. /\ IsBlock(c) /\ c.open /\ c.call = up.blocks[k].call
          /\ c.kind = up.blocks[k].kind /\ c.content = Cat(up.blocks[k].content, in.delta)
      BY <1>1, <2>1 DEF IsBlock, BlockFields
    <2>. HIDE DEF c
    <2>4. /\ IsSeq(u.blocks) /\ DOMAIN u.blocks = DOMAIN up.blocks /\ u.blocks[k] = c
          /\ \A j \in DOMAIN up.blocks : j # k => u.blocks[j] = up.blocks[j]
      <3>1. IsSeq([up.blocks EXCEPT ![k] = c])
        BY <1>1, Updates
      <3>. QED BY <2>1, <2>2, <3>1
    <2>5. \A j \in DOMAIN u.blocks : IsBlock(u.blocks[j])
      BY <1>1, <2>3, <2>4
    <2>6. Visible(c) => HasContent(in) \/ Visible(up.blocks[k])
      <3>1. CASE in.delta = 0
        BY <2>3, <3>1 DEF Visible, Cat
      <3>2. CASE in.delta # 0
        BY <3>2 DEF HasContent
      <3>. QED BY <3>1, <3>2
    <2>7. \A j \in DOMAIN u.blocks : Visible(u.blocks[j]) =>
            HasContent(in) \/ \E i \in DOMAIN up.blocks : Visible(up.blocks[i])
      <3>. HIDE DEF Visible, HasContent
      <3>. QED BY <2>1, <2>4, <2>6
    <2>8. Closed(u.blocks) = Closed(up.blocks)
      BY <2>1, <2>3, <2>4 DEF Closed
    <2>9. \A j \in Closed(up.blocks) : Done(u, j) = Done(up, j)
      BY <2>1, <2>4 DEF Closed, Done
    <2>10. ItemsOf(u) = ItemsOf(up)
      BY <1>2, <2>8, <2>9, ItemsSame
    <2>11. in.type # "response.output_item.done" /\ in.type \notin CodexTerminal
      BY <1>6 DEF CodexTerminal
    <2>. HIDE DEF Visible, HasContent
    <2>. QED BY <2>4, <2>5, <2>7, <2>10, <2>11
  <1>7. ASSUME NEW k \in OpenBlocks, in.type = "response.output_item.done",
               in.index = k - 1, CodexItem(in) = Done(up, k),
               u.blocks = [up.blocks EXCEPT ![k].open = FALSE]
        PROVE  Goal
    <2> DEFINE c == [up.blocks[k] EXCEPT !.open = FALSE]
    <2>1. k \in DOMAIN up.blocks /\ up.blocks[k].open /\ k \in Nat
      BY <1>1 DEF OpenBlocks
    <2>2. u.blocks = [up.blocks EXCEPT ![k] = c]
      BY <1>7
    <2>3. /\ IsBlock(c) /\ ~c.open /\ c.call = up.blocks[k].call
          /\ c.kind = up.blocks[k].kind /\ c.content = up.blocks[k].content
      BY <1>1, <2>1 DEF IsBlock, BlockFields
    <2>. HIDE DEF c
    <2>4. /\ IsSeq(u.blocks) /\ DOMAIN u.blocks = DOMAIN up.blocks /\ u.blocks[k] = c
          /\ \A j \in DOMAIN up.blocks : j # k => u.blocks[j] = up.blocks[j]
      <3>1. IsSeq([up.blocks EXCEPT ![k] = c])
        BY <1>1, Updates
      <3>. QED BY <2>1, <2>2, <3>1
    <2>5. \A j \in DOMAIN u.blocks : IsBlock(u.blocks[j])
      BY <1>1, <2>3, <2>4
    <2>6. Visible(c) => Visible(up.blocks[k])
      BY <2>3 DEF Visible
    <2>7. \A j \in DOMAIN u.blocks : Visible(u.blocks[j]) =>
            HasContent(in) \/ \E i \in DOMAIN up.blocks : Visible(up.blocks[i])
      <3>. HIDE DEF Visible, HasContent
      <3>. QED BY <2>1, <2>4, <2>6
    <2>8. Visible(in) => Visible(up.blocks[k])
      BY <1>7 DEF Visible, CodexItem, Done
    <2>9. Closed(u.blocks) = Closed(up.blocks) \cup {k} /\ k \notin Closed(up.blocks)
      BY <2>1, <2>3, <2>4 DEF Closed
    <2>10. \A j \in Closed(up.blocks) : Done(u, j) = Done(up, j)
      BY <2>1, <2>4 DEF Closed, Done
    <2>11. Done(u, k) = CodexItem(in)
      BY <1>7, <2>3, <2>4 DEF Done
    <2>12. ItemsOf(u) = Bind(ItemsOf(up), in.index, CodexItem(in))
      <3>1. ItemsOf(u) = Bind(ItemsOf(up), k - 1, Done(u, k))
        BY <1>2, <2>1, <2>9, <2>10, ItemsMore
      <3>. QED BY <1>7, <2>11, <3>1
    <2>13. in.type \notin CodexTerminal
      BY <1>7 DEF CodexTerminal
    <2>. HIDE DEF Visible, HasContent
    <2>. QED BY <1>7, <2>1, <2>4, <2>5, <2>7, <2>8, <2>12, <2>13
  <1>8. Goal
    <2>. HIDE DEF Goal
    <2>. QED BY <1>4, <1>5, <1>6, <1>7 DEF CodexMove
  <1>. QED BY <1>3, <1>8

-----------------------------------------------------------------------------
(* The invariant holds. *)

LEMMA CodexStep ==
  ASSUME StreamInv, from = "codex", Next
  PROVE  StreamInv'
  <1>0. Sides /\ HeldBack /\ CodexBlocks /\ BlocksShown /\ Collected
    BY DEF StreamInv
  <1>1. PICK in, u : Send(in, u) /\ CodexMove(in, u)
    BY <1>0, CodexMoves
  <1>2. status = "open" /\ up' = u /\ from' = from /\ to' = to
    BY <1>1 DEF Send
  <1>3. CodexEvent(in)
    BY <1>1 DEF CodexMove
  <1>4. /\ DOMAIN u = DOMAIN Silence
        /\ IsSeq(u.blocks) /\ \A k \in DOMAIN u.blocks : IsBlock(u.blocks[k])
        /\ \A k \in DOMAIN u.blocks : Visible(u.blocks[k]) =>
             \/ HasContent(in)
             \/ \E j \in DOMAIN up.blocks : Visible(up.blocks[j])
        /\ in.type = "response.output_item.done" /\ Visible(in) =>
             \E j \in DOMAIN up.blocks : Visible(up.blocks[j])
        /\ in.type # "response.output_item.done" => ItemsOf(u) = ItemsOf(up)
        /\ in.type = "response.output_item.done" =>
             ItemsOf(u) = Bind(ItemsOf(up), in.index, CodexItem(in))
        /\ in.type \in CodexTerminal =>
             u.blocks = up.blocks /\ in.output \in {<<>>, DoneBlocks}
    BY <1>0, <1>1, Moved
  <1>. HIDE DEF Visible, HasContent
  <1>5. Sides' /\ CodexBlocks' /\ Recorded'
    BY <1>0, <1>2, <1>4 DEF Sides, CodexBlocks, Recorded
  <1>6. HeldBack' /\ BlocksShown'
    <2>1. CASE to = "responses"
      <3>1. PassThrough /\ PassThrough' = TRUE
        BY <1>2, <2>1 DEF PassThrough
      <3>2. (\E j \in DOMAIN up.blocks : Visible(up.blocks[j])) => Loud(seen)
        BY <1>0, <1>2, <3>1 DEF BlocksShown
      <3>3. in.type = "response.output_item.done" /\ Visible(in) => Loud(seen)
        BY <1>4, <3>2
      <3>4. /\ HeldBack'
            /\ status' = "open" => (HasContent(in) \/ Loud(seen) => Loud(seen'))
        BY <1>0, <1>1, <1>3, <3>1, <3>3, CodexPassed
      <3>5. \A k \in DOMAIN u.blocks : Visible(u.blocks[k]) => HasContent(in) \/ Loud(seen)
        BY <1>4, <3>2
      <3>6. BlocksShown'
        BY <1>2, <3>4, <3>5 DEF BlocksShown
      <3>. QED BY <3>4, <3>6
    <2>2. CASE to # "responses"
      <3>1. HeldBack'
        BY <1>0, <1>1, <1>3, <2>2, CodexTranslated
      <3>2. BlocksShown'
        BY <1>2, <2>2 DEF BlocksShown, PassThrough
      <3>. QED BY <3>1, <3>2
    <2>. QED BY <2>1, <2>2
  <1>7. Collected'
    <2> DEFINE next == Consume(codex, in)
    <2>1. /\ DOMAIN codex = DOMAIN newCodexStream /\ codex.done \in BOOLEAN /\ ~codex.done
          /\ codex.items = ItemsOf(up)
      BY <1>0, <1>2 DEF Collected
    <2>2. \/ status' = "failed" /\ codex' = codex
          \/ codex' = next /\ status' = IF next.done THEN "done" ELSE "open"
      <3>1. CASE CodexRefuses(codex, in)
        <4>1. GiveUp
          BY <1>1, <3>1 DEF Send
        <4>. QED BY <4>1 DEF GiveUp
      <3>2. CASE ~CodexRefuses(codex, in) /\ PassThrough
        <4>1. Pass(in)
          BY <1>1, <3>2 DEF Send
        <4>. QED BY <4>1 DEF Pass, Relay
      <3>3. CASE ~CodexRefuses(codex, in) /\ ~PassThrough
        <4>1. Translate(in, "none")
          BY <1>1, <3>3 DEF Send
        <4>2. PICK answer, result :
                IF answer.error THEN GiveUp
                ELSE codex' = next /\ Relay(result.out, result.semantic, next.done)
          BY <4>1 DEF Translate
        <4>. QED BY <4>2 DEF GiveUp, Relay
      <3>. QED BY <3>1, <3>2, <3>3
    <2>3. CASE status' = "failed" /\ codex' = codex
      BY <2>1, <2>3 DEF Collected
    <2>4. CASE codex' = next /\ status' = IF next.done THEN "done" ELSE "open"
      <3>1. /\ DOMAIN next = DOMAIN newCodexStream /\ next.done \in BOOLEAN
            /\ next.done <=> in.type \in CodexTerminal
            /\ next.items = IF in.type = "response.output_item.done"
                              THEN Bind(codex.items, in.index, CodexItem(in))
                              ELSE codex.items
            /\ next.response = IF in.type \in CodexTerminal
                                 THEN CodexOutput(codex, in) ELSE codex.response
        BY <2>1, Consumes
      <3>. HIDE DEF next
      <3>2. next.items = ItemsOf(u)
        BY <1>4, <2>1, <3>1
      <3>3. next.done => next.response = DoneBlocks'
        <4>1. SUFFICES ASSUME next.done PROVE next.response = DoneBlocks'
          OBVIOUS
        <4>2. u.blocks = up.blocks /\ in.output \in {<<>>, DoneBlocks}
          BY <1>4, <3>1, <4>1
        <4>3. IsSeq(up.blocks)
          BY <1>0 DEF CodexBlocks
        <4>4. CodexOutput(codex, in) = DoneBlocks
          BY <2>1, <4>2, <4>3, OutputIsWhole
        <4>5. DoneBlocks' = DoneBlocks
          BY <1>2, <4>2 DEF DoneBlocks, OpenBlocks, Done
        <4>. QED BY <3>1, <4>1, <4>4, <4>5
      <3>. QED BY <1>2, <2>4, <3>1, <3>2, <3>3 DEF Collected
    <2>. QED BY <2>2, <2>3, <2>4
  <1>. QED BY <1>5, <1>6, <1>7 DEF StreamInv

(* Every event of any upstream is relayed in the same way. *)
LEMMA SomeEvent ==
  ASSUME Next
  PROVE  \E in, u : Send(in, u)
  <1>1. CASE Begin \/ GrowBlock \/ CloseBlock \/ MessageDelta \/ MessageStop \/ ReportError
    BY <1>1 DEF Begin, GrowBlock, CloseBlock, MessageDelta, MessageStop, ReportError
  <1>2. ASSUME NEW kind, OpenBlock(kind) PROVE \E in, u : Send(in, u)
    BY <1>2 DEF OpenBlock
  <1>3. ASSUME NEW type, NEW reason, ResponseEnds(type, reason)
        PROVE  \E in, u : Send(in, u)
    BY <1>3 DEF ResponseEnds
  <1>4. CASE ChatContent \/ ChatCall \/ ChatTwoCalls \/ ChatArguments
    BY <1>4 DEF ChatContent, ChatCall, ChatTwoCalls, ChatArguments
  <1>5. CASE ChatFinish \/ ChatUsage \/ ChatDone
    BY <1>5 DEF ChatFinish, ChatUsage, ChatDone
  <1>6. ASSUME NEW parts, NEW reason, Document(parts, reason)
        PROVE  \E in, u : Send(in, u)
    BY <1>6 DEF Document
  <1>7. CASE AntigravityDocument
    BY <1>6, <1>7 DEF AntigravityDocument
  <1>. QED BY <1>1, <1>2, <1>3, <1>4, <1>5, <1>7 DEF Next

(* The documents of an Antigravity upstream. *)
LEMMA AntigravityMoves ==
  ASSUME from = "antigravity", Next
  PROVE  \E in, u : /\ Send(in, u) /\ Len(in.parts) \in Nat
                    /\ \A i \in 1..Len(in.parts) : in.parts[i].kind \in Kinds
  <1>1. CASE Begin
    <2> DEFINE in == [blank EXCEPT !.type = "response.created", !.usage = NoUsage]
    <2>1. \E u : Send(in, u)
      BY <1>1 DEF Begin, Named
    <2>2. in.parts = <<>> /\ Len(<<>>) = 0
      BY DEF blank
    <2>. HIDE DEF in
    <2>. QED BY <2>1, <2>2
  <1>2. CASE ReportError
    <2> DEFINE in == [blank EXCEPT !.type = "error"]
    <2>1. \E u : Send(in, u)
      BY <1>2 DEF ReportError
    <2>2. in.parts = <<>> /\ Len(<<>>) = 0
      BY DEF blank
    <2>. HIDE DEF in
    <2>. QED BY <2>1, <2>2
  <1>3. CASE AntigravityDocument
    <2>1. PICK kinds, id, signed, reason :
            /\ kinds \in UNION {[1..k -> Kinds] : k \in 0..2}
            /\ Document(PartsOf(kinds, id, signed), reason)
      BY <1>3 DEF AntigravityDocument, Kinds
    <2> DEFINE parts == PartsOf(kinds, id, signed)
               in == [blank EXCEPT !.parts = parts, !.stop = reason,
                                   !.usage = IF reason = "" THEN NoUsage ELSE Whole]
    <2>2. PICK n \in 0..2 : kinds \in [1..n -> Kinds]
      BY <2>1
    <2>3. DOMAIN parts = 1..n /\ \A k \in 1..n : parts[k].kind \in Kinds
      BY <2>2 DEF PartsOf, Part
    <2>4. IsSeq(parts) /\ Len(parts) = n
      <3>1. parts = [k \in 1..n |-> parts[k]]
        BY <2>3 DEF PartsOf
      <3>. HIDE DEF parts
      <3>2. parts \in [1..n -> {parts[k] : k \in 1..n}]
        BY <3>1
      <3>3. parts \in Seq({parts[k] : k \in 1..n}) /\ Len(parts) = n
        BY <3>2
      <3>. QED BY <3>3 DEF IsSeq
    <2>. HIDE DEF parts
    <2>5. \E u : Send(in, u)
      BY <2>1 DEF Document, parts
    <2>6. in.parts = parts
      BY DEF blank
    <2>. HIDE DEF in
    <2>. QED BY <2>2, <2>3, <2>4, <2>5, <2>6
  <1>4. CASE \/ \E kind \in {"text", "reasoning", "tool", "opaque"} : OpenBlock(kind)
             \/ GrowBlock \/ CloseBlock \/ MessageDelta \/ MessageStop
             \/ \E reason \in {"", "other"} : ResponseEnds("response.completed", reason)
             \/ \E reason \in {"max_output_tokens", "content_filter", "other"} :
                  ResponseEnds("response.incomplete", reason)
             \/ ResponseEnds("response.failed", "")
    BY <1>4 DEF OpenBlock, GrowBlock, CloseBlock, InBlocksUpstream, MessageDelta,
                MessageStop, ResponseEnds
  <1>5. CASE \/ ChatContent \/ ChatCall \/ ChatTwoCalls \/ ChatArguments
             \/ ChatFinish \/ ChatUsage \/ ChatDone
    BY <1>5 DEF ChatContent, ChatCall, ChatTwoCalls, ChatArguments,
                ChatFinish, ChatUsage, ChatDone
  <1>. QED BY <1>1, <1>2, <1>3, <1>4, <1>5 DEF Next

LEMMA OtherStep ==
  ASSUME Sides, from # "codex", Next
  PROVE  /\ from' = from /\ to' = to /\ codex' = codex
  <1>1. PICK in, u : Send(in, u)
    BY SomeEvent
  <1>2. from' = from /\ to' = to
    BY <1>1 DEF Send
  <1>3. ~PassThrough
    BY DEF PassThrough
  <1>4. PICK save : Translate(in, save)
    BY <1>1, <1>3 DEF Send
  <1>5. PICK answer, result :
          IF answer.error THEN GiveUp ELSE codex' = codex
    BY <1>4 DEF Translate
  <1>6. codex' = codex
    BY <1>5 DEF GiveUp
  <1>. QED BY <1>2, <1>6

LEMMA StreamStarts == Init => StreamInv
  <1>. SUFFICES ASSUME Init PROVE StreamInv
    OBVIOUS
  <1>1. IsSeq(<<>>) /\ ~Loud(<<>>) /\ (\A C : Shows(<<>>, C)) /\ DOMAIN <<>> = {}
    BY LoudSingles, QuietShowsNothing
  <1>2. Sides
    BY DEF Init, Sides, newCodexStream
  <1>3. IsEncoder(enc) /\ enc.protocol = to /\ ~enc.done /\ KnownCalls(enc) = {}
    <2>1. enc = newStreamEncoder(to) /\ to \in Client
      BY DEF Init
    <2>. QED BY <1>1, <2>1 DEF IsEncoder, newStreamEncoder, KnownCalls
  <1>4. HeldBack
    BY <1>1, <1>3 DEF Init, HeldBack
  <1>5. Recorded
    <2>1. IsDecoder(dec)
      BY <1>1, NoEvents DEF Init, IsDecoder, newStreamDecoder
    <2>. QED BY <1>1, <1>3, <2>1 DEF Init, Recorded
  <1>6. DOMAIN up = DOMAIN Silence /\ up.blocks = <<>>
    BY DEF Init, Silence
  <1>7. CodexBlocks /\ BlocksShown
    BY <1>1, <1>6 DEF CodexBlocks, BlocksShown
  <1>8. Collected
    <2>1. ItemsOf(up) = NoTools
      BY <1>1, <1>6 DEF ItemsOf, Closed, NoTools
    <2>. QED BY <2>1 DEF Init, Collected, newCodexStream
  <1>. QED BY <1>2, <1>4, <1>5, <1>7, <1>8 DEF StreamInv

LEMMA StreamGoesOn == StreamInv /\ [Next]_vars => StreamInv'
  <1>. SUFFICES ASSUME StreamInv, [Next]_vars PROVE StreamInv'
    OBVIOUS
  <1>1. CASE UNCHANGED vars
    BY <1>1 DEF vars, StreamInv, Sides, HeldBack, Recorded, CodexBlocks, BlocksShown,
                Collected, HoldsBack, PassThrough, OpenBlocks, DoneBlocks
  <1>2. CASE Next /\ from = "codex"
    BY <1>2, CodexStep
  <1>3. CASE Next /\ from = "antigravity"
    <2>1. Sides /\ HeldBack /\ Recorded
      BY DEF StreamInv
    <2>2. PICK in, u : /\ Send(in, u) /\ Len(in.parts) \in Nat
                       /\ \A i \in 1..Len(in.parts) : in.parts[i].kind \in Kinds
      BY <1>3, AntigravityMoves
    <2>3. HeldBack' /\ Recorded'
      BY <1>3, <2>1, <2>2, AntigravityStep
    <2>4. from' = from /\ to' = to /\ codex' = codex
      BY <1>3, <2>1, OtherStep
    <2>5. Sides' /\ CodexBlocks' /\ BlocksShown' /\ Collected'
      BY <1>3, <2>1, <2>4 DEF Sides, CodexBlocks, BlocksShown, PassThrough, Collected
    <2>. QED BY <2>3, <2>5 DEF StreamInv
  <1>4. CASE Next /\ from \notin {"codex", "antigravity"}
    <2>1. Sides
      BY DEF StreamInv
    <2>2. from' = from /\ to' = to /\ codex' = codex
      BY <1>4, <2>1, OtherStep
    <2>3. /\ Sides' /\ CodexBlocks' /\ BlocksShown' /\ Collected'
          /\ HeldBack' /\ Recorded'
      BY <1>4, <2>1, <2>2 DEF Sides, CodexBlocks, BlocksShown, PassThrough, Collected,
                              HeldBack, HoldsBack, Recorded
    <2>. QED BY <2>3 DEF StreamInv
  <1>. QED BY <1>1, <1>2, <1>3, <1>4

(* What a stream conversion has shown of the upstream's answer, held back, *)
(* recorded and collected agree after every event that proxyCodex and      *)
(* proxyAntigravity relay, in whatever order blocks and items are closed.  *)
THEOREM StreamInvariant == Spec => []StreamInv
  BY StreamStarts, StreamGoesOn, PTL DEF Spec

(* proxyCodex and proxyAntigravity hold back the events without content,   *)
(* and send what they held back with the first content: a client that has  *)
(* got a byte has got content, or the whole answer.                        *)
THEOREM CommitsAtContentHolds == Spec => []CommitsAtContent
  <1>1. StreamInv => CommitsAtContent
    <2>. SUFFICES ASSUME StreamInv, HoldsBack PROVE CommitsAtContent
      BY DEF CommitsAtContent
    <2>1. IsSeq(pending) /\ ~Loud(pending) /\ (seen # <<>> => status = "done" \/ Loud(seen))
      BY DEF StreamInv, HeldBack
    <2>. HIDE DEF HasContent
    <2>. QED BY <2>1 DEF CommitsAtContent, Loud, Member
  <1>. QED BY <1>1, StreamInvariant, PTL

(* No call of an Antigravity turn, however many parts and documents it has *)
(* and whichever way its calls are named, reaches the client before its    *)
(* turn is in the store of compatibility records.                          *)
THEOREM SavedBeforeShownHolds == Spec => []SavedBeforeShown
  <1>1. StreamInv => SavedBeforeShown
    <2>. SUFFICES ASSUME StreamInv, from = "antigravity", NEW i \in DOMAIN seen,
                         StartsCall(seen[i])
                  PROVE  \E j \in DOMAIN saved : saved[j] = CallsOf(seen[i])[1].call
      BY DEF SavedBeforeShown
    <2> DEFINE w == seen[i]
    <2>1. Shows(seen, ToSet(saved)) /\ Member(w, seen) /\ StartsCall(w)
      BY DEF StreamInv, Recorded, Member
    <2>. HIDE DEF w
    <2>2. CallsOf(w)[1].call \in ToSet(saved)
      BY <2>1 DEF Shows
    <2>. QED BY <2>2 DEF ToSet, w
  <1>. QED BY <1>1, StreamInvariant, PTL

(* What codex.Stream answers for a client that does not stream has every   *)
(* finished item once, in the order of the indexes, also when the terminal *)
(* event brings an output of its own.                                      *)
THEOREM CodexAggregatesHolds == Spec => []CodexAggregates
  <1>1. StreamInv => CodexAggregates
    BY DEF StreamInv, Sides, Collected, CodexAggregates
  <1>. QED BY <1>1, StreamInvariant, PTL

-----------------------------------------------------------------------------
(* The blocks that a client sees.  Good says of all that has been written  *)
(* for it so far that n blocks were opened and those in C closed, each     *)
(* event where BlocksWellFormed wants it.                                  *)

OpensIn(s) == {i \in DOMAIN s : Opens(s[i])}
ClosedIn(s) == {s[i].index : i \in {j \in DOMAIN s : Closes(s[j])}}

WellPlaced(s, i) ==
  /\ Opens(s[i]) => s[i].index = Cardinality({j \in 1..i - 1 : Opens(s[j])})
  /\ Grows(s[i]) \/ Closes(s[i]) =>
       /\ \E j \in 1..i - 1 : Opens(s[j]) /\ s[j].index = s[i].index
       /\ ~(s[i].kind = "reasoning" /\ Grows(s[i])) =>
          \A j \in 1..i - 1 : Closes(s[j]) => s[j].index # s[i].index

Good(s, n, C) ==
  /\ IsSeq(s) /\ n \in Nat
  /\ IsFiniteSet(OpensIn(s)) /\ Cardinality(OpensIn(s)) = n
  /\ {s[i].index : i \in OpensIn(s)} = 0..(n - 1)
  /\ C = ClosedIn(s)
  /\ \A i \in DOMAIN s : WellPlaced(s, i)

LEMMA GoodNothing == Good(<<>>, 0, {})
  <1>1. DOMAIN <<>> = {} /\ IsSeq(<<>>)
    BY Singles
  <1>2. OpensIn(<<>>) = {} /\ ClosedIn(<<>>) = {}
    BY <1>1 DEF OpensIn, ClosedIn
  <1>3. IsFiniteSet({}) /\ Cardinality({}) = 0
    BY FS_EmptySet
  <1>4. 0..(0 - 1) = {}
    OBVIOUS
  <1>. QED BY <1>1, <1>2, <1>3, <1>4 DEF Good

(* What one more event of each kind does to the blocks. *)
LEMMA GoodMore ==
  ASSUME NEW s, NEW n, NEW C, Good(s, n, C), NEW w
  PROVE  /\ ~Opens(w) /\ ~Grows(w) /\ ~Closes(w) => Good(Append(s, w), n, C)
         /\ Opens(w) /\ ~Grows(w) /\ ~Closes(w) /\ w.index = n =>
              Good(Append(s, w), n + 1, C)
         /\ /\ Grows(w) /\ ~Opens(w) /\ ~Closes(w) /\ w.index \in 0..(n - 1)
            /\ w.index \notin C \/ w.kind = "reasoning"
            => Good(Append(s, w), n, C)
         /\ /\ Closes(w) /\ ~Opens(w) /\ ~Grows(w) /\ w.index \in 0..(n - 1) /\ w.index \notin C
            => Good(Append(s, w), n, C \cup {w.index})
  <1> DEFINE t == Append(s, w)
             m == Len(s)
  <1>1. /\ IsSeq(s) /\ n \in Nat /\ IsFiniteSet(OpensIn(s)) /\ Cardinality(OpensIn(s)) = n
        /\ {s[i].index : i \in OpensIn(s)} = 0..(n - 1)
        /\ C = ClosedIn(s)
        /\ \A i \in DOMAIN s : WellPlaced(s, i)
    BY DEF Good
  <1>2. m \in Nat /\ DOMAIN s = 1..m
    BY <1>1, SeqFacts
  <1>3. /\ IsSeq(t) /\ Len(t) = m + 1 /\ DOMAIN t = 1..(m + 1)
        /\ \A i \in 1..m : t[i] = s[i]
        /\ t[m + 1] = w
    BY <1>1, Appends, SeqFacts
  <1>. HIDE DEF t, m
  <1>4. \A i \in 1..(m + 1) : i \in 1..m \/ i = m + 1
    BY <1>2
  <1>5. OpensIn(s) \subseteq 1..m /\ m + 1 \notin OpensIn(s)
    BY <1>2 DEF OpensIn
  <1>6. /\ ~Opens(w) => OpensIn(t) = OpensIn(s)
        /\ Opens(w) => OpensIn(t) = OpensIn(s) \cup {m + 1}
    BY <1>2, <1>3, <1>4 DEF OpensIn
  <1>7. /\ ~Closes(w) => ClosedIn(t) = ClosedIn(s)
        /\ Closes(w) => ClosedIn(t) = ClosedIn(s) \cup {w.index}
    <2>. HIDE DEF Closes
    <2>. QED BY <1>2, <1>3, <1>4 DEF ClosedIn
  <1>8. \A i \in OpensIn(s) : t[i] = s[i]
    BY <1>3, <1>5
  <1>9. \A i \in 1..m : WellPlaced(t, i)
    <2>. SUFFICES ASSUME NEW i \in 1..m PROVE WellPlaced(t, i)
      OBVIOUS
    <2>1. t[i] = s[i] /\ \A j \in 1..i - 1 : t[j] = s[j]
      BY <1>2, <1>3
    <2>2. {j \in 1..i - 1 : Opens(t[j])} = {j \in 1..i - 1 : Opens(s[j])}
      BY <2>1
    <2>3. WellPlaced(s, i)
      BY <1>1, <1>2
    <2>. HIDE DEF Opens, Grows, Closes
    <2>. QED BY <2>1, <2>2, <2>3 DEF WellPlaced
  <1>10. {j \in 1..(m + 1) - 1 : Opens(t[j])} = OpensIn(s)
    BY <1>2, <1>3 DEF OpensIn
  <1>11. w.index \in 0..(n - 1) =>
           \E j \in 1..(m + 1) - 1 : Opens(t[j]) /\ t[j].index = w.index
    <2>1. SUFFICES ASSUME w.index \in 0..(n - 1)
                   PROVE  \E j \in 1..(m + 1) - 1 : Opens(t[j]) /\ t[j].index = w.index
      OBVIOUS
    <2>2. PICK j \in OpensIn(s) : s[j].index = w.index
      BY <1>1, <2>1
    <2>3. j \in 1..(m + 1) - 1 /\ Opens(t[j]) /\ t[j].index = w.index
      BY <1>2, <1>8, <1>10, <2>2
    <2>. QED BY <2>3
  <1>12. w.index \notin C =>
           \A j \in 1..(m + 1) - 1 : Closes(t[j]) => t[j].index # w.index
    <2>. HIDE DEF Closes
    <2>. QED BY <1>1, <1>2, <1>3 DEF ClosedIn
  <1>13. ASSUME NEW k, NEW D, WellPlaced(t, m + 1), D = ClosedIn(t), k \in Nat,
                IsFiniteSet(OpensIn(t)), Cardinality(OpensIn(t)) = k,
                {t[i].index : i \in OpensIn(t)} = 0..(k - 1)
         PROVE  Good(t, k, D)
    BY <1>3, <1>4, <1>9, <1>13 DEF Good
  <1>14. {t[i].index : i \in OpensIn(s)} = 0..(n - 1)
    BY <1>1, <1>8
  <1>15. CASE ~Opens(w)
    <2>1. OpensIn(t) = OpensIn(s)
      BY <1>6, <1>15
    <2>2. {t[i].index : i \in OpensIn(t)} = 0..(n - 1)
      BY <1>14, <2>1
    <2>3. CASE ~Grows(w) /\ ~Closes(w)
      <3>1. WellPlaced(t, m + 1)
        BY <1>3, <1>15, <2>3 DEF WellPlaced
      <3>. QED BY <1>1, <1>7, <1>13, <1>15, <2>1, <2>2, <2>3, <3>1 DEF t
    <2>4. CASE /\ Grows(w) /\ ~Closes(w) /\ w.index \in 0..(n - 1)
               /\ w.index \notin C \/ w.kind = "reasoning"
      <3>1. WellPlaced(t, m + 1)
        <4>. HIDE DEF Opens, Grows, Closes
        <4>. QED BY <1>3, <1>11, <1>12, <1>15, <2>4 DEF WellPlaced
      <3>. QED BY <1>1, <1>7, <1>13, <1>15, <2>1, <2>2, <2>4, <3>1 DEF t
    <2>5. CASE Closes(w) /\ ~Grows(w) /\ w.index \in 0..(n - 1) /\ w.index \notin C
      <3>1. WellPlaced(t, m + 1)
        <4>. HIDE DEF Opens, Grows, Closes
        <4>. QED BY <1>3, <1>11, <1>12, <1>15, <2>5 DEF WellPlaced
      <3>. QED BY <1>1, <1>7, <1>13, <1>15, <2>1, <2>2, <2>5, <3>1 DEF t
    <2>. HIDE DEF Opens, Grows, Closes
    <2>. QED BY <1>15, <2>3, <2>4, <2>5 DEF t
  <1>16. CASE Opens(w) /\ ~Grows(w) /\ ~Closes(w) /\ w.index = n
    <2>1. OpensIn(t) = OpensIn(s) \cup {m + 1}
      BY <1>6, <1>16
    <2>2. IsFiniteSet(OpensIn(t)) /\ Cardinality(OpensIn(t)) = n + 1
      BY <1>1, <1>5, <2>1, FS_AddElement
    <2>3. {t[i].index : i \in OpensIn(t)} = 0..((n + 1) - 1)
      <3>1. {t[i].index : i \in OpensIn(t)} = {t[i].index : i \in OpensIn(s)} \cup {n}
        BY <1>3, <1>16, <2>1
      <3>2. 0..((n + 1) - 1) = 0..(n - 1) \cup {n}
        BY <1>1
      <3>. QED BY <1>14, <3>1, <3>2
    <2>4. WellPlaced(t, m + 1)
      <3>. HIDE DEF Opens, Grows, Closes
      <3>. QED BY <1>1, <1>3, <1>10, <1>16 DEF WellPlaced
    <2>5. ClosedIn(t) = C
      BY <1>1, <1>7, <1>16
    <2>6. Good(t, n + 1, C)
      BY <1>1, <1>13, <2>2, <2>3, <2>4, <2>5
    <2>. QED BY <1>16, <2>6 DEF t
  <1>. HIDE DEF Opens, Grows, Closes
  <1>. QED BY <1>15, <1>16

(* Concatenations of sequences of anything. *)
LEMMA Groups ==
  ASSUME NEW s, NEW t, NEW u, IsSeq(s), IsSeq(t), IsSeq(u)
  PROVE  /\ (s \o t) \o u = s \o (t \o u)
         /\ s \o <<>> = s /\ <<>> \o s = s
         /\ \A w : s \o <<w>> = Append(s, w)
  <1>1. PICK A : s \in Seq(A)
    BY DEF IsSeq
  <1>2. PICK B : t \in Seq(B)
    BY DEF IsSeq
  <1>3. PICK D : u \in Seq(D)
    BY DEF IsSeq
  <1>4. s \in Seq(A \cup B \cup D) /\ t \in Seq(A \cup B \cup D) /\ u \in Seq(A \cup B \cup D)
    BY <1>1, <1>2, <1>3
  <1>5. (s \o t) \o u = s \o (t \o u)
    BY <1>4
  <1>6. s \o <<>> = s /\ <<>> \o s = s
    BY <1>1
  <1>7. ASSUME NEW w PROVE s \o <<w>> = Append(s, w)
    <2>1. s \in Seq(A \cup {w}) /\ w \in A \cup {w}
      BY <1>1
    <2>. QED BY <2>1
  <1>. QED BY <1>5, <1>6, <1>7

(* Events out that take a client from n opened blocks and those of C       *)
(* closed to m opened and those of D closed.                               *)
Turns(n, C, out, m, D) ==
  IsSeq(out) /\ \A s : Good(s, n, C) => Good(s \o out, m, D)

LEMMA TurnsNot ==
  ASSUME NEW n, NEW C
  PROVE  Turns(n, C, <<>>, n, C)
  <1>1. IsSeq(<<>>)
    BY Singles
  <1>2. ASSUME NEW s, Good(s, n, C) PROVE Good(s \o <<>>, n, C)
    <2>1. s \o <<>> = s
      BY <1>1, <1>2, Groups DEF Good
    <2>. QED BY <1>2, <2>1
  <1>. QED BY <1>1, <1>2 DEF Turns

LEMMA TurnsJoin ==
  ASSUME NEW n, NEW C, NEW v, NEW m, NEW D, NEW w, NEW k, NEW E,
         Turns(n, C, v, m, D), Turns(m, D, w, k, E)
  PROVE  Turns(n, C, v \o w, k, E)
  <1>1. IsSeq(v) /\ IsSeq(w) /\ IsSeq(v \o w)
    BY Joins DEF Turns
  <1>2. ASSUME NEW s, Good(s, n, C) PROVE Good(s \o (v \o w), k, E)
    <2>1. Good((s \o v) \o w, k, E)
      BY <1>2 DEF Turns
    <2>2. (s \o v) \o w = s \o (v \o w)
      BY <1>1, <1>2, Groups DEF Good
    <2>. QED BY <2>1, <2>2
  <1>. QED BY <1>1, <1>2 DEF Turns

(* An event that is of no block. *)
Apart(w) == ~Opens(w) /\ ~Grows(w) /\ ~Closes(w)

LEMMA TurnsOne ==
  ASSUME NEW n, NEW C, NEW w
  PROVE  /\ Apart(w) => Turns(n, C, <<w>>, n, C)
         /\ Opens(w) /\ ~Grows(w) /\ ~Closes(w) /\ w.index = n => Turns(n, C, <<w>>, n + 1, C)
         /\ /\ Grows(w) /\ ~Opens(w) /\ ~Closes(w) /\ w.index \in 0..(n - 1)
            /\ w.index \notin C \/ w.kind = "reasoning"
            => Turns(n, C, <<w>>, n, C)
         /\ /\ Closes(w) /\ ~Opens(w) /\ ~Grows(w) /\ w.index \in 0..(n - 1) /\ w.index \notin C
            => Turns(n, C, <<w>>, n, C \cup {w.index})
  <1>1. IsSeq(<<w>>)
    BY Singles
  <1>2. ASSUME NEW s, IsSeq(s) PROVE s \o <<w>> = Append(s, w)
    BY <1>2, Groups
  <1>3. ASSUME NEW s, Good(s, n, C) PROVE s \o <<w>> = Append(s, w)
    BY <1>2, <1>3 DEF Good
  <1>. HIDE DEF Opens, Grows, Closes
  <1>4. ASSUME Apart(w) PROVE Turns(n, C, <<w>>, n, C)
    BY <1>1, <1>3, <1>4, GoodMore DEF Turns, Apart
  <1>5. ASSUME Opens(w), ~Grows(w), ~Closes(w), w.index = n
        PROVE  Turns(n, C, <<w>>, n + 1, C)
    BY <1>1, <1>3, <1>5, GoodMore DEF Turns
  <1>6. ASSUME Grows(w), ~Opens(w), ~Closes(w), w.index \in 0..(n - 1),
               w.index \notin C \/ w.kind = "reasoning"
        PROVE  Turns(n, C, <<w>>, n, C)
    BY <1>1, <1>3, <1>6, GoodMore DEF Turns
  <1>7. ASSUME Closes(w), ~Opens(w), ~Grows(w), w.index \in 0..(n - 1), w.index \notin C
        PROVE  Turns(n, C, <<w>>, n, C \cup {w.index})
    <2>1. ASSUME NEW s, Good(s, n, C) PROVE Good(s \o <<w>>, n, C \cup {w.index})
      <3>1. Good(Append(s, w), n, C \cup {w.index})
        BY <1>7, <2>1, GoodMore
      <3>. QED BY <1>3, <2>1, <3>1
    <2>. QED BY <1>1, <2>1 DEF Turns
  <1>. QED BY <1>4, <1>5, <1>6, <1>7

-----------------------------------------------------------------------------
(* The blocks of an encoder. *)

IndexOf(e, i) ==
  i \in {e.textIndex, e.reasoningIndex} \/ \E k \in DOMAIN e.tools : e.tools[k].index = i

(* Text, reasoning and every call have a block of their own, and no block  *)
(* is without one of them; no two calls have the same key.                 *)
Tidy(e) ==
  /\ IsEncoder(e)
  /\ e.nextIndex \in Nat
  /\ e.textIndex \in (-1)..(e.nextIndex - 1)
  /\ e.reasoningIndex \in (-1)..(e.nextIndex - 1)
  /\ e.reasoningClosed => e.reasoningIndex # None
  /\ e.textIndex # None => e.textIndex # e.reasoningIndex
  /\ ~InBlocks(e) => e.nextIndex = 0
  /\ \A k \in DOMAIN e.tools : e.tools[k].closed \in BOOLEAN
  /\ \A j, k \in DOMAIN e.tools : j # k => e.tools[j].key # e.tools[k].key
  /\ InBlocks(e) => \A k \in DOMAIN e.tools :
       /\ e.tools[k].index \in 0..(e.nextIndex - 1)
       /\ e.tools[k].index # e.textIndex /\ e.tools[k].index # e.reasoningIndex
       /\ \A j \in DOMAIN e.tools : j # k => e.tools[j].index # e.tools[k].index
  /\ \A i \in 0..(e.nextIndex - 1) : IndexOf(e, i)

(* The blocks that have been closed, before the end of the stream. *)
ClosedOf(e) ==
  {i \in 0..(e.nextIndex - 1) :
     \/ e.reasoningClosed /\ i = e.reasoningIndex
     \/ \E k \in DOMAIN e.tools : e.tools[k].closed /\ e.tools[k].index = i}

(* The keys of the calls that are known, and of those that are not ended. *)
Keys(e) == {e.tools[k].key : k \in DOMAIN e.tools}
LiveKeys(e) == {e.tools[k].key : k \in {j \in DOMAIN e.tools : ~e.tools[j].closed}}

(* What a step of the encoder keeps, and how it takes the client along. *)
Walks(e, w) ==
  /\ Tidy(w.enc) /\ w.enc.protocol = e.protocol /\ w.enc.done = e.done
  /\ Turns(e.nextIndex, ClosedOf(e), w.out, w.enc.nextIndex, ClosedOf(w.enc))
SameKeys(e, b) == Keys(b) = Keys(e) /\ LiveKeys(b) = LiveKeys(e)

(* Two encoders that differ in nothing that matters for the blocks. *)
Alike(e, b) ==
  /\ b.nextIndex = e.nextIndex /\ b.textIndex = e.textIndex
  /\ b.reasoningIndex = e.reasoningIndex /\ b.reasoningClosed = e.reasoningClosed
  /\ b.protocol = e.protocol
  /\ DOMAIN b.tools = DOMAIN e.tools
  /\ \A k \in DOMAIN e.tools : /\ b.tools[k].key = e.tools[k].key
                               /\ b.tools[k].index = e.tools[k].index
                               /\ b.tools[k].closed = e.tools[k].closed

LEMMA AlikeTidy ==
  ASSUME NEW e, Tidy(e), NEW b, IsEncoder(b), Alike(e, b)
  PROVE  Tidy(b) /\ ClosedOf(b) = ClosedOf(e) /\ SameKeys(e, b)
  <1>1. Tidy(b)
    BY DEF Tidy, Alike, InBlocks, IndexOf
  <1>2. ClosedOf(b) = ClosedOf(e)
    BY DEF ClosedOf, Alike
  <1>3. SameKeys(e, b)
    <2>1. {j \in DOMAIN b.tools : ~b.tools[j].closed} = {j \in DOMAIN e.tools : ~e.tools[j].closed}
      BY DEF Alike
    <2>. QED BY <2>1 DEF SameKeys, Keys, LiveKeys, Alike
  <1>. QED BY <1>1, <1>2, <1>3

LEMMA WalksAlike ==
  ASSUME NEW e, Tidy(e), NEW b, IsEncoder(b), Alike(e, b), b.done = e.done,
         NEW out, Turns(e.nextIndex, ClosedOf(e), out, e.nextIndex, ClosedOf(e))
  PROVE  Walks(e, Written(b, out)) /\ SameKeys(e, b)
  <1>1. Written(b, out).enc = b /\ Written(b, out).out = out
    BY DEF Written
  <1>. QED BY <1>1, AlikeTidy DEF Walks, Alike

LEMMA WalksOn ==
  ASSUME NEW e, NEW w, NEW v, Walks(e, w), Walks(w.enc, v)
  PROVE  /\ Walks(e, After(w.out, v))
         /\ SameKeys(e, w.enc) /\ SameKeys(w.enc, v.enc) => SameKeys(e, After(w.out, v).enc)
  <1>1. After(w.out, v).enc = v.enc /\ After(w.out, v).out = w.out \o v.out
    BY DEF After, Written
  <1>2. Turns(e.nextIndex, ClosedOf(e), w.out \o v.out, v.enc.nextIndex, ClosedOf(v.enc))
    BY TurnsJoin DEF Walks
  <1>. QED BY <1>1, <1>2 DEF Walks, SameKeys

LEMMA WalksNot ==
  ASSUME NEW e, Tidy(e)
  PROVE  Walks(e, Written(e, <<>>)) /\ SameKeys(e, e)
  <1>1. IsEncoder(e) /\ Alike(e, e)
    BY DEF Tidy, Alike
  <1>. QED BY <1>1, TurnsNot, WalksAlike

LEMMA TurnsTwoApart ==
  ASSUME NEW n, NEW C, NEW v, NEW w, Apart(v), Apart(w)
  PROVE  Turns(n, C, <<v, w>>, n, C)
  <1>1. Turns(n, C, <<v>>, n, C) /\ Turns(n, C, <<w>>, n, C)
    BY TurnsOne
  <1>2. <<v, w>> = <<v>> \o <<w>>
    <2>1. <<v, w>> = Append(<<v>>, w) /\ IsSeq(<<v>>)
      BY Singles
    <2>. QED BY <2>1, Groups
  <1>. QED BY <1>1, <1>2, TurnsJoin

LEMMA BegunWalks ==
  ASSUME NEW e, Tidy(e)
  PROVE  Walks(e, ensureStarted(e)) /\ SameKeys(e, ensureStarted(e).enc)
  <1> DEFINE b == [e EXCEPT !.started = TRUE]
  <1>0. IsEncoder(e)
    BY DEF Tidy
  <1>1. IsEncoder(b) /\ Alike(e, b) /\ b.done = e.done
    BY <1>0 DEF IsEncoder, newStreamEncoder, Alike
  <1>. HIDE DEF b
  <1>2. CASE e.started
    <2>1. ensureStarted(e) = Written(e, <<>>)
      BY <1>2 DEF ensureStarted
    <2>2. Written(e, <<>>).enc = e
      BY DEF Written
    <2>. QED BY <2>1, <2>2, WalksNot
  <1>3. ASSUME NEW out, ensureStarted(e) = Written(b, out),
               Turns(e.nextIndex, ClosedOf(e), out, e.nextIndex, ClosedOf(e))
        PROVE  Walks(e, ensureStarted(e)) /\ SameKeys(e, ensureStarted(e).enc)
    <2>1. Written(b, out).enc = b
      BY DEF Written
    <2>. QED BY <1>1, <1>3, <2>1, WalksAlike
  <1>4. CASE ~e.started /\ e.protocol = "chat"
    <2>1. ensureStarted(e) = Written(b, <<Chunk>>)
      BY <1>4 DEF ensureStarted, b
    <2>2. Apart(Chunk)
      BY DEF Apart, Chunk, blank, Opens, Grows, Closes
    <2>. QED BY <1>3, <2>1, <2>2, TurnsOne
  <1>5. CASE ~e.started /\ e.protocol = "messages"
    <2> DEFINE w == [blank EXCEPT !.type = "message_start", !.usage = e.usage]
    <2>1. ensureStarted(e) = Written(b, <<w>>)
      BY <1>5 DEF ensureStarted, b
    <2>2. Apart(w)
      BY DEF Apart, blank, Opens, Grows, Closes
    <2>. HIDE DEF w
    <2>. QED BY <1>3, <2>1, <2>2, TurnsOne
  <1>6. CASE ~e.started /\ e.protocol = "responses"
    <2> DEFINE w == [blank EXCEPT !.type = "response.created"]
               v == [blank EXCEPT !.type = "response.in_progress"]
    <2>1. ensureStarted(e) = Written(b, <<w, v>>)
      BY <1>6 DEF ensureStarted, b
    <2>2. Apart(w) /\ Apart(v)
      BY DEF Apart, blank, Opens, Grows, Closes
    <2>. HIDE DEF w, v
    <2>. QED BY <1>3, <2>1, <2>2, TurnsTwoApart
  <1>. QED BY <1>0, <1>2, <1>4, <1>5, <1>6 DEF IsEncoder, Client

(* What the events of a block are. *)
LEMMA BlockEvents ==
  ASSUME NEW e, NEW kind, NEW i, NEW id, NEW d, NEW content
  PROVE  /\ LET w == Open(e, kind, i, id)
            IN Opens(w) /\ ~Grows(w) /\ ~Closes(w) /\ w.index = i
         /\ LET w == Grow(e, kind, i, d)
            IN Grows(w) /\ ~Opens(w) /\ ~Closes(w) /\ w.index = i /\ w.kind = kind
         /\ LET w == Close(e, kind, i, id, content)
            IN Closes(w) /\ ~Opens(w) /\ ~Grows(w) /\ w.index = i
         /\ Apart(ToolChunk(i, id, d))
  <1>1. LET w == Open(e, kind, i, id)
        IN Opens(w) /\ ~Grows(w) /\ ~Closes(w) /\ w.index = i
    BY DEF Open, blank, Opens, Grows, Closes
  <1>2. LET w == Grow(e, kind, i, d)
        IN Grows(w) /\ ~Opens(w) /\ ~Closes(w) /\ w.index = i /\ w.kind = kind
    BY DEF Grow, blank, Opens, Grows, Closes
  <1>3. LET w == Close(e, kind, i, id, content)
        IN Closes(w) /\ ~Opens(w) /\ ~Grows(w) /\ w.index = i
    BY DEF Close, blank, Opens, Grows, Closes
  <1>4. Apart(ToolChunk(i, id, d))
    BY DEF ToolChunk, Chunk, blank, Apart, Opens, Grows, Closes
  <1>. QED BY <1>1, <1>2, <1>3, <1>4

LEMMA ReasoningCloses ==
  ASSUME NEW e, Tidy(e)
  PROVE  /\ Walks(e, closeReasoning(e)) /\ SameKeys(e, closeReasoning(e).enc)
         /\ LET b == closeReasoning(e).enc
            IN /\ b.tools = e.tools /\ b.textIndex = e.textIndex
               /\ b.nextIndex = e.nextIndex /\ b.reasoningIndex = e.reasoningIndex
               /\ b.reasoningIndex # None => b.reasoningClosed
  <1> DEFINE b == [e EXCEPT !.reasoningClosed = TRUE]
             w == Close(e, "reasoning", e.reasoningIndex, 0, e.reasoning)
  <1>0. IsEncoder(e)
    BY DEF Tidy
  <1>1. CASE e.reasoningIndex = None \/ e.reasoningClosed
    <2>1. closeReasoning(e) = Written(e, <<>>)
      BY <1>1 DEF closeReasoning
    <2>2. Written(e, <<>>).enc = e
      BY DEF Written
    <2>. QED BY <1>1, <2>1, <2>2, WalksNot
  <1>2. CASE ~(e.reasoningIndex = None \/ e.reasoningClosed)
    <2>1. /\ IsEncoder(b) /\ b.protocol = e.protocol /\ b.done = e.done
          /\ b.tools = e.tools /\ b.textIndex = e.textIndex
          /\ b.nextIndex = e.nextIndex /\ b.reasoningIndex = e.reasoningIndex
          /\ b.reasoningClosed = TRUE
      BY <1>0 DEF IsEncoder, newStreamEncoder
    <2>2. closeReasoning(e) = Written(b, <<w>>)
      BY <1>2 DEF closeReasoning
    <2>3. Written(b, <<w>>).enc = b /\ Written(b, <<w>>).out = <<w>>
      BY DEF Written
    <2>4. Closes(w) /\ ~Opens(w) /\ ~Grows(w) /\ w.index = e.reasoningIndex
      BY BlockEvents
    <2>. HIDE DEF w, b
    <2>5. e.reasoningIndex \in 0..(e.nextIndex - 1)
      BY <1>2 DEF Tidy, None
    <2>6. e.reasoningIndex \notin ClosedOf(e)
      <3>1. InBlocks(e)
        BY <2>5 DEF Tidy
      <3>. QED BY <1>2, <3>1 DEF ClosedOf, Tidy
    <2>7. ClosedOf(b) = ClosedOf(e) \cup {e.reasoningIndex}
      BY <1>2, <2>1, <2>5 DEF ClosedOf
    <2>8. Turns(e.nextIndex, ClosedOf(e), <<w>>, e.nextIndex, ClosedOf(b))
      BY <2>4, <2>5, <2>6, <2>7, TurnsOne
    <2>9. Tidy(b)
      BY <1>2, <2>1 DEF Tidy, InBlocks, IndexOf
    <2>10. SameKeys(e, b)
      BY <2>1 DEF SameKeys, Keys, LiveKeys
    <2>. QED BY <2>1, <2>2, <2>3, <2>8, <2>9, <2>10 DEF Walks
  <1>. QED BY <1>1, <1>2

(* Text and reasoning: the first delta opens the block. *)
LEMMA TextWalks ==
  ASSUME NEW e, Tidy(e), NEW d
  PROVE  Walks(e, encodeText(e, d)) /\ SameKeys(e, encodeText(e, d).enc)
  <1>0. IsEncoder(e)
    BY DEF Tidy
  <1>1. CASE d = 0
    <2>1. encodeText(e, d) = Written(e, <<>>)
      BY <1>1 DEF encodeText
    <2>2. Written(e, <<>>).enc = e
      BY DEF Written
    <2>. QED BY <2>1, <2>2, WalksNot
  <1>2. CASE d # 0 /\ e.protocol = "chat"
    <2> DEFINE b == [e EXCEPT !.text = Append(@, d)]
               w == [Chunk EXCEPT !.delta = d]
    <2>1. encodeText(e, d) = Written(b, <<w>>)
      BY <1>2 DEF encodeText
    <2>2. IsEncoder(b) /\ Alike(e, b) /\ b.done = e.done
      BY <1>0 DEF IsEncoder, newStreamEncoder, Alike
    <2>3. Apart(w)
      BY DEF Apart, Chunk, blank, Opens, Grows, Closes
    <2>4. Written(b, <<w>>).enc = b
      BY DEF Written
    <2>. HIDE DEF w, b
    <2>5. Turns(e.nextIndex, ClosedOf(e), <<w>>, e.nextIndex, ClosedOf(e))
      BY <2>3, TurnsOne
    <2>. QED BY <2>1, <2>2, <2>4, <2>5, WalksAlike
  <1>3. CASE d # 0 /\ e.protocol # "chat"
    <2> DEFINE n == e.nextIndex
               first == e.textIndex = None
               i == IF first THEN n ELSE e.textIndex
               b == [e EXCEPT !.textIndex = i, !.text = Append(@, d),
                              !.nextIndex = IF first THEN @ + 1 ELSE @]
               v == Open(e, "text", i, 0)
               w == Grow(e, "text", i, d)
               out == When(first, <<v>>) \o <<w>>
    <2>1. encodeText(e, d) = Written(b, out)
      BY <1>3 DEF encodeText
    <2>2. /\ IsEncoder(b) /\ b.protocol = e.protocol /\ b.done = e.done
          /\ b.tools = e.tools /\ b.textIndex = i
          /\ b.nextIndex = (IF first THEN n + 1 ELSE n)
          /\ b.reasoningIndex = e.reasoningIndex /\ b.reasoningClosed = e.reasoningClosed
      BY <1>0 DEF IsEncoder, newStreamEncoder
    <2>3. Written(b, out).enc = b /\ Written(b, out).out = out
      BY DEF Written
    <2>4. /\ Opens(v) /\ ~Grows(v) /\ ~Closes(v) /\ v.index = i
          /\ Grows(w) /\ ~Opens(w) /\ ~Closes(w) /\ w.index = i
      BY BlockEvents
    <2>5. InBlocks(e) /\ n \in Nat
      BY <1>0, <1>3 DEF IsEncoder, Client, InBlocks, Tidy
    <2>. HIDE DEF v, w, b
    <2>6. CASE first
      <3>1. i = n /\ b.nextIndex = n + 1 /\ n \in 0..((n + 1) - 1)
        BY <2>2, <2>5, <2>6
      <3>2. ClosedOf(b) = ClosedOf(e) /\ n \notin ClosedOf(b)
        BY <2>2, <2>5, <3>1 DEF ClosedOf, Tidy
      <3>3. Turns(n, ClosedOf(e), <<v>>, n + 1, ClosedOf(b))
        BY <2>4, <3>1, <3>2, TurnsOne
      <3>4. Turns(n + 1, ClosedOf(b), <<w>>, n + 1, ClosedOf(b))
        BY <2>4, <3>1, <3>2, TurnsOne
      <3>5. out = <<v>> \o <<w>>
        BY <2>6 DEF When
      <3>6. Turns(n, ClosedOf(e), out, n + 1, ClosedOf(b))
        BY <3>3, <3>4, <3>5, TurnsJoin
      <3>7. Tidy(b)
        <4>1. \A j \in 0..(b.nextIndex - 1) : IndexOf(b, j)
          <5>. SUFFICES ASSUME NEW j \in 0..(b.nextIndex - 1) PROVE IndexOf(b, j)
            OBVIOUS
          <5>1. CASE j = n
            BY <2>2, <3>1, <5>1 DEF IndexOf
          <5>2. CASE j # n
            <6>1. j \in 0..(n - 1)
              BY <2>5, <3>1, <5>2
            <6>2. IndexOf(e, j)
              BY <6>1 DEF Tidy
            <6>3. j # e.textIndex
              BY <2>6, <6>1 DEF None
            <6>. QED BY <2>2, <6>2, <6>3 DEF IndexOf
          <5>. QED BY <5>1, <5>2
        <4>. QED BY <2>2, <2>5, <2>6, <3>1, <4>1 DEF Tidy, InBlocks
      <3>8. SameKeys(e, b)
        BY <2>2 DEF SameKeys, Keys, LiveKeys
      <3>. QED BY <2>1, <2>2, <2>3, <3>1, <3>6, <3>7, <3>8 DEF Walks
    <2>7. CASE ~first
      <3>1. i = e.textIndex /\ b.nextIndex = n /\ Alike(e, b)
        BY <2>2, <2>7 DEF Alike
      <3>2. i \in 0..(n - 1) /\ i \notin ClosedOf(e)
        BY <2>5, <2>7, <3>1 DEF ClosedOf, Tidy, None
      <3>3. Turns(n, ClosedOf(e), <<w>>, n, ClosedOf(e))
        BY <2>4, <3>2, TurnsOne
      <3>4. out = <<w>>
        <4>1. out = <<>> \o <<w>> /\ IsSeq(<<w>>)
          BY <2>7, Singles DEF When
        <4>. QED BY <4>1, Groups
      <3>5. Walks(e, Written(b, <<w>>)) /\ SameKeys(e, b)
        BY <2>2, <3>1, <3>3, WalksAlike
      <3>. QED BY <2>1, <2>3, <3>4, <3>5
    <2>. QED BY <2>6, <2>7
  <1>. QED BY <1>1, <1>2, <1>3

(* Reasoning is written to its block also after that has been closed. *)
LEMMA ReasoningWalks ==
  ASSUME NEW e, Tidy(e), NEW d
  PROVE  Walks(e, encodeReasoning(e, d)) /\ SameKeys(e, encodeReasoning(e, d).enc)
  <1>0. IsEncoder(e)
    BY DEF Tidy
  <1>1. CASE d = 0
    <2>1. encodeReasoning(e, d) = Written(e, <<>>)
      BY <1>1 DEF encodeReasoning
    <2>2. Written(e, <<>>).enc = e
      BY DEF Written
    <2>. QED BY <2>1, <2>2, WalksNot
  <1>2. CASE d # 0 /\ e.protocol = "chat"
    <2> DEFINE w == [Chunk EXCEPT !.reasoning = d]
    <2>1. encodeReasoning(e, d) = Written(e, <<w>>)
      BY <1>2 DEF encodeReasoning
    <2>2. Apart(w) /\ Alike(e, e)
      BY DEF Apart, Chunk, blank, Opens, Grows, Closes, Alike
    <2>3. Written(e, <<w>>).enc = e
      BY DEF Written
    <2>. HIDE DEF w
    <2>4. Turns(e.nextIndex, ClosedOf(e), <<w>>, e.nextIndex, ClosedOf(e))
      BY <2>2, TurnsOne
    <2>. QED BY <1>0, <2>1, <2>2, <2>3, <2>4, WalksAlike
  <1>3. CASE d # 0 /\ e.protocol # "chat"
    <2> DEFINE n == e.nextIndex
               first == e.reasoningIndex = None
               i == IF first THEN n ELSE e.reasoningIndex
               b == [e EXCEPT !.reasoningIndex = i, !.reasoning = Append(@, d),
                              !.nextIndex = IF first THEN @ + 1 ELSE @]
               v == Open(e, "reasoning", i, 0)
               w == Grow(e, "reasoning", i, d)
               out == When(first, <<v>>) \o <<w>>
    <2>1. encodeReasoning(e, d) = Written(b, out)
      BY <1>3 DEF encodeReasoning
    <2>2. /\ IsEncoder(b) /\ b.protocol = e.protocol /\ b.done = e.done
          /\ b.tools = e.tools /\ b.reasoningIndex = i
          /\ b.nextIndex = (IF first THEN n + 1 ELSE n)
          /\ b.textIndex = e.textIndex /\ b.reasoningClosed = e.reasoningClosed
      BY <1>0 DEF IsEncoder, newStreamEncoder
    <2>3. Written(b, out).enc = b /\ Written(b, out).out = out
      BY DEF Written
    <2>4. /\ Opens(v) /\ ~Grows(v) /\ ~Closes(v) /\ v.index = i
          /\ Grows(w) /\ ~Opens(w) /\ ~Closes(w) /\ w.index = i /\ w.kind = "reasoning"
      BY BlockEvents
    <2>5. InBlocks(e) /\ n \in Nat
      BY <1>0, <1>3 DEF IsEncoder, Client, InBlocks, Tidy
    <2>. HIDE DEF v, w, b
    <2>6. CASE first
      <3>1. i = n /\ b.nextIndex = n + 1 /\ n \in 0..((n + 1) - 1)
        BY <2>2, <2>5, <2>6
      <3>2. ClosedOf(b) = ClosedOf(e)
        BY <2>2, <2>5, <2>6, <3>1 DEF ClosedOf, Tidy
      <3>3. Turns(n, ClosedOf(e), <<v>>, n + 1, ClosedOf(b))
        BY <2>4, <3>1, <3>2, TurnsOne
      <3>4. Turns(n + 1, ClosedOf(b), <<w>>, n + 1, ClosedOf(b))
        BY <2>4, <3>1, TurnsOne
      <3>5. out = <<v>> \o <<w>>
        BY <2>6 DEF When
      <3>6. Turns(n, ClosedOf(e), out, n + 1, ClosedOf(b))
        BY <3>3, <3>4, <3>5, TurnsJoin
      <3>7. Tidy(b)
        <4>1. \A j \in 0..(b.nextIndex - 1) : IndexOf(b, j)
          <5>. SUFFICES ASSUME NEW j \in 0..(b.nextIndex - 1) PROVE IndexOf(b, j)
            OBVIOUS
          <5>1. CASE j = n
            BY <2>2, <3>1, <5>1 DEF IndexOf
          <5>2. CASE j # n
            <6>1. j \in 0..(n - 1)
              BY <2>5, <3>1, <5>2
            <6>2. IndexOf(e, j)
              BY <6>1 DEF Tidy
            <6>3. j # e.reasoningIndex
              BY <2>6, <6>1 DEF None
            <6>. QED BY <2>2, <6>2, <6>3 DEF IndexOf
          <5>. QED BY <5>1, <5>2
        <4>. QED BY <2>2, <2>5, <2>6, <3>1, <4>1 DEF Tidy, InBlocks
      <3>8. SameKeys(e, b)
        BY <2>2 DEF SameKeys, Keys, LiveKeys
      <3>. QED BY <2>1, <2>2, <2>3, <3>1, <3>6, <3>7, <3>8 DEF Walks
    <2>7. CASE ~first
      <3>1. i = e.reasoningIndex /\ b.nextIndex = n /\ Alike(e, b)
        BY <2>2, <2>7 DEF Alike
      <3>2. i \in 0..(n - 1)
        BY <2>5, <2>7, <3>1 DEF Tidy, None
      <3>3. Turns(n, ClosedOf(e), <<w>>, n, ClosedOf(e))
        BY <2>4, <3>2, TurnsOne
      <3>4. out = <<w>>
        <4>1. out = <<>> \o <<w>> /\ IsSeq(<<w>>)
          BY <2>7, Singles DEF When
        <4>. QED BY <4>1, Groups
      <3>5. Walks(e, Written(b, <<w>>)) /\ SameKeys(e, b)
        BY <2>2, <3>1, <3>3, WalksAlike
      <3>. QED BY <2>1, <2>3, <3>4, <3>5
    <2>. QED BY <2>6, <2>7
  <1>. QED BY <1>1, <1>2, <1>3

(* A call is found by its key. *)
LEMMA FoundByKey ==
  ASSUME NEW e, IsEncoder(e), NEW ev
  PROVE  /\ toolKey(ev) \notin Keys(e) => toolAt(e, ev) = 0
         /\ toolKey(ev) \in Keys(e) => /\ toolAt(e, ev) # 0
                                       /\ toolAt(e, ev) \in DOMAIN e.tools
                                       /\ e.tools[toolAt(e, ev)].key = toolKey(ev)
  <1> DEFINE I == {i \in 1..Len(e.tools) : e.tools[i].key = toolKey(ev)}
  <1>1. toolAt(e, ev) = IF I # {} THEN Min(I) ELSE 0
    BY DEF toolAt, SelectInSeq
  <1>2. Len(e.tools) \in Nat /\ DOMAIN e.tools = 1..Len(e.tools)
    BY SeqFacts DEF IsEncoder
  <1>3. /\ I \in SUBSET Nat /\ I \subseteq DOMAIN e.tools
        /\ \A i \in I : e.tools[i].key = toolKey(ev) /\ i # 0
        /\ I # {} <=> toolKey(ev) \in Keys(e)
    BY <1>2 DEF Keys
  <1>. HIDE DEF I
  <1>4. I # {} => Min(I) \in I
    BY <1>3, Least
  <1>. QED BY <1>1, <1>3, <1>4

LEMMA Registers ==
  ASSUME NEW e, Tidy(e), NEW ev, toolKey(ev) \notin Keys(e)
  PROVE  LET b == tool(e, ev)
             t == b.tools[toolAt(b, ev)]
         IN /\ Tidy(b) /\ b.protocol = e.protocol /\ b.done = e.done
            /\ ClosedOf(b) = ClosedOf(e)
            /\ Keys(b) = Keys(e) \cup {toolKey(ev)}
            /\ LiveKeys(b) = LiveKeys(e) \cup {toolKey(ev)}
            /\ InBlocks(e) => t.index = e.nextIndex /\ b.nextIndex = e.nextIndex + 1
            /\ ~InBlocks(e) => b.nextIndex = e.nextIndex
  <1> DEFINE n == Len(e.tools)
             x == e.nextIndex
             blocks == InBlocks(e)
             t == [key     |-> toolKey(ev),
                   call    |-> IF ev.call # 0 THEN ev.call ELSE InventedCall(n),
                   index   |-> IF blocks THEN x ELSE n,
                   content |-> <<>>, closed |-> FALSE]
             s == Append(e.tools, t)
             b == [e EXCEPT !.tools = Append(@, t),
                            !.nextIndex = IF blocks THEN @ + 1 ELSE @]
  <1>0. IsEncoder(e) /\ x \in Nat
    BY DEF Tidy
  <1>1. toolAt(e, ev) = 0
    BY <1>0, FoundByKey
  <1>2. tool(e, ev) = b
    BY <1>1 DEF tool, registered
  <1>3. n \in Nat /\ DOMAIN e.tools = 1..n /\ IsSeq(e.tools)
    BY <1>0, SeqFacts DEF IsEncoder
  <1>4. /\ DOMAIN t = ToolFields /\ t.key = toolKey(ev) /\ ~t.closed
        /\ t.closed \in BOOLEAN
        /\ blocks => t.index = x
    BY DEF ToolFields
  <1>. HIDE DEF t
  <1>5. /\ IsSeq(s) /\ Len(s) = n + 1 /\ (\A i \in 1..n : s[i] = e.tools[i])
        /\ s[n + 1] = t /\ DOMAIN s = 1..(n + 1)
    BY <1>3, Appends, SeqFacts
  <1>6. /\ b.tools = s /\ b.protocol = e.protocol /\ b.done = e.done
        /\ b.nextIndex = (IF blocks THEN x + 1 ELSE x)
        /\ b.textIndex = e.textIndex /\ b.reasoningIndex = e.reasoningIndex
        /\ b.reasoningClosed = e.reasoningClosed
    BY <1>0 DEF IsEncoder, newStreamEncoder, s
  <1>. HIDE DEF s
  <1>7. \A k \in DOMAIN s : \/ k \in DOMAIN e.tools /\ s[k] = e.tools[k] /\ k # n + 1
                            \/ k = n + 1 /\ s[k] = t /\ k \notin DOMAIN e.tools
    BY <1>3, <1>5
  <1>8. DOMAIN e.tools \subseteq DOMAIN s /\ n + 1 \in DOMAIN s
    BY <1>3, <1>5
  <1>9. IsEncoder(b)
    <2>1. \A k \in DOMAIN s : DOMAIN s[k] = ToolFields
      BY <1>0, <1>4, <1>7 DEF IsEncoder
    <2>. QED BY <1>0, <1>5, <1>6, <2>1 DEF IsEncoder, newStreamEncoder
  <1>. HIDE DEF b
  <1>10. InBlocks(b) <=> blocks
    BY <1>6 DEF InBlocks
  <1>11. \A j, k \in DOMAIN b.tools : j # k => b.tools[j].key # b.tools[k].key
    <2>. SUFFICES ASSUME NEW j \in DOMAIN b.tools, NEW k \in DOMAIN b.tools, j # k
                  PROVE  b.tools[j].key # b.tools[k].key
      OBVIOUS
    <2>1. \A i \in DOMAIN e.tools : e.tools[i].key # t.key
      BY <1>4 DEF Keys
    <2>. QED BY <1>6, <1>7, <2>1 DEF Tidy
  <1>12. blocks => \A k \in DOMAIN b.tools :
             /\ b.tools[k].index \in 0..(b.nextIndex - 1)
             /\ b.tools[k].index # b.textIndex /\ b.tools[k].index # b.reasoningIndex
             /\ \A j \in DOMAIN b.tools : j # k => b.tools[j].index # b.tools[k].index
    <2>. SUFFICES ASSUME blocks, NEW k \in DOMAIN b.tools
                  PROVE  /\ b.tools[k].index \in 0..(b.nextIndex - 1)
                         /\ b.tools[k].index # b.textIndex /\ b.tools[k].index # b.reasoningIndex
                         /\ \A j \in DOMAIN b.tools : j # k => b.tools[j].index # b.tools[k].index
      OBVIOUS
    <2>1. b.nextIndex = x + 1 /\ t.index = x
      BY <1>4, <1>6
    <2>2. \A i \in DOMAIN e.tools : e.tools[i].index \in 0..(x - 1)
      BY DEF Tidy
    <2>3. x # e.textIndex /\ x # e.reasoningIndex
      BY <1>0 DEF Tidy
    <2>4. b.tools[k].index \in 0..x
      BY <1>0, <1>6, <1>7, <2>1, <2>2
    <2>5. b.tools[k].index # b.textIndex /\ b.tools[k].index # b.reasoningIndex
      BY <1>6, <1>7, <2>1, <2>3 DEF Tidy
    <2>6. ASSUME NEW j \in DOMAIN b.tools, j # k PROVE b.tools[j].index # b.tools[k].index
      <3>1. \A i \in DOMAIN e.tools : e.tools[i].index # x
        BY <1>0, <2>2
      <3>. QED BY <1>6, <1>7, <2>1, <2>6, <3>1 DEF Tidy
    <2>. QED BY <1>0, <2>1, <2>4, <2>5, <2>6
  <1>13. \A i \in 0..(b.nextIndex - 1) : IndexOf(b, i)
    <2>. SUFFICES ASSUME NEW i \in 0..(b.nextIndex - 1) PROVE IndexOf(b, i)
      OBVIOUS
    <2>1. CASE i \in 0..(x - 1)
      <3>1. IndexOf(e, i)
        BY <2>1 DEF Tidy
      <3>. QED BY <1>5, <1>6, <1>7, <1>8, <3>1 DEF IndexOf
    <2>2. CASE i \notin 0..(x - 1)
      <3>1. blocks /\ i = x
        BY <1>0, <1>6, <2>2
      <3>2. b.tools[n + 1].index = i /\ n + 1 \in DOMAIN b.tools
        BY <1>4, <1>5, <1>6, <1>8, <3>1
      <3>. QED BY <3>2 DEF IndexOf
    <2>. QED BY <2>1, <2>2
  <1>14. Tidy(b)
    <2>1. \A k \in DOMAIN b.tools : b.tools[k].closed \in BOOLEAN
      BY <1>4, <1>6, <1>7 DEF Tidy
    <2>2. /\ b.nextIndex \in Nat
          /\ b.textIndex \in (-1)..(b.nextIndex - 1)
          /\ b.reasoningIndex \in (-1)..(b.nextIndex - 1)
          /\ b.reasoningClosed => b.reasoningIndex # None
          /\ b.textIndex # None => b.textIndex # b.reasoningIndex
          /\ ~InBlocks(b) => b.nextIndex = 0
      BY <1>6, <1>10 DEF Tidy
    <2>. QED BY <1>9, <1>10, <1>11, <1>12, <1>13, <2>1, <2>2 DEF Tidy
  <1>15. ClosedOf(b) = ClosedOf(e)
    <2>1. \A i : (\E k \in DOMAIN b.tools : b.tools[k].closed /\ b.tools[k].index = i)
                 <=> \E k \in DOMAIN e.tools : e.tools[k].closed /\ e.tools[k].index = i
      BY <1>4, <1>5, <1>6, <1>7, <1>8
    <2>2. \A i : i = x /\ blocks =>
            ~\E k \in DOMAIN e.tools : e.tools[k].closed /\ e.tools[k].index = i
      BY <1>0 DEF Tidy
    <2>3. x # e.reasoningIndex
      BY <1>0 DEF Tidy
    <2>4. \A i \in 0..(b.nextIndex - 1) : i \in 0..(x - 1) \/ (i = x /\ blocks)
      BY <1>0, <1>6
    <2>5. \A i \in 0..(x - 1) : i \in 0..(b.nextIndex - 1)
      BY <1>0, <1>6
    <2>. QED BY <1>6, <2>1, <2>2, <2>3, <2>4, <2>5 DEF ClosedOf
  <1>16. Keys(b) = Keys(e) \cup {toolKey(ev)}
    BY <1>4, <1>5, <1>6, <1>7, <1>8 DEF Keys
  <1>17. LiveKeys(b) = LiveKeys(e) \cup {toolKey(ev)}
    <2>1. {j \in DOMAIN b.tools : ~b.tools[j].closed}
            = {j \in DOMAIN e.tools : ~e.tools[j].closed} \cup {n + 1}
      BY <1>4, <1>5, <1>6, <1>7, <1>8
    <2>. QED BY <1>4, <1>5, <1>6, <1>7, <2>1 DEF LiveKeys
  <1>18. toolAt(b, ev) = n + 1
    <2>1. toolKey(ev) \in Keys(b)
      BY <1>16
    <2>2. toolAt(b, ev) \in DOMAIN b.tools /\ b.tools[toolAt(b, ev)].key = toolKey(ev)
      BY <1>9, <2>1, FoundByKey
    <2>3. b.tools[n + 1].key = toolKey(ev) /\ n + 1 \in DOMAIN b.tools
      BY <1>4, <1>5, <1>6, <1>8
    <2>. QED BY <1>11, <2>2, <2>3
  <1>19. b.tools[toolAt(b, ev)] = t
    BY <1>5, <1>6, <1>18
  <1>. QED BY <1>2, <1>4, <1>6, <1>14, <1>15, <1>16, <1>17, <1>19

LEMMA ToolStartWalks ==
  ASSUME NEW e, Tidy(e), NEW ev, toolKey(ev) \notin Keys(e)
  PROVE  LET w == encodeToolStart(e, ev)
         IN /\ Walks(e, w)
            /\ Keys(w.enc) = Keys(e) \cup {toolKey(ev)}
            /\ LiveKeys(w.enc) = LiveKeys(e) \cup {toolKey(ev)}
  <1> DEFINE b == tool(e, ev)
             t == b.tools[toolAt(b, ev)]
             v == ToolChunk(t.index, t.call, 0)
             w == Open(b, "tool", t.index, t.call)
             out == IF b.protocol = "chat" THEN <<v>> ELSE <<w>>
  <1>1. /\ Tidy(b) /\ b.protocol = e.protocol /\ b.done = e.done
        /\ ClosedOf(b) = ClosedOf(e)
        /\ Keys(b) = Keys(e) \cup {toolKey(ev)}
        /\ LiveKeys(b) = LiveKeys(e) \cup {toolKey(ev)}
        /\ InBlocks(e) => t.index = e.nextIndex /\ b.nextIndex = e.nextIndex + 1
        /\ ~InBlocks(e) => b.nextIndex = e.nextIndex
    BY Registers
  <1>2. encodeToolStart(e, ev) = Written(b, out)
    BY DEF encodeToolStart
  <1>3. Written(b, out).enc = b /\ Written(b, out).out = out
    BY DEF Written
  <1>4. Apart(v) /\ Opens(w) /\ ~Grows(w) /\ ~Closes(w) /\ w.index = t.index
    BY BlockEvents
  <1>5. InBlocks(e) <=> b.protocol # "chat"
    BY <1>1 DEF InBlocks, Tidy, IsEncoder, Client
  <1>. HIDE DEF b, t, v, w
  <1>6. Turns(e.nextIndex, ClosedOf(e), out, b.nextIndex, ClosedOf(b))
    <2>1. CASE b.protocol = "chat"
      <3>1. Turns(e.nextIndex, ClosedOf(e), <<v>>, e.nextIndex, ClosedOf(e))
        BY <1>4, TurnsOne
      <3>. QED BY <1>1, <1>5, <2>1, <3>1
    <2>2. CASE b.protocol # "chat"
      <3>1. Turns(e.nextIndex, ClosedOf(e), <<w>>, e.nextIndex + 1, ClosedOf(e))
        BY <1>1, <1>4, <1>5, <2>2, TurnsOne
      <3>. QED BY <1>1, <1>5, <2>2, <3>1
    <2>. QED BY <2>1, <2>2
  <1>. QED BY <1>1, <1>2, <1>3, <1>6 DEF Walks

LEMMA ToolDeltaWalks ==
  ASSUME NEW e, Tidy(e), NEW ev, toolKey(ev) \in Keys(e),
         ev.delta = 0 \/ toolKey(ev) \in LiveKeys(e)
  PROVE  Walks(e, encodeToolDelta(e, ev)) /\ SameKeys(e, encodeToolDelta(e, ev).enc)
  <1> DEFINE k == toolAt(e, ev)
             i == e.tools[k].index
             u == [e.tools[k] EXCEPT !.content = Append(@, ev.delta)]
             c == [e EXCEPT !.tools[k] = u]
             v == ToolChunk(i, 0, ev.delta)
             w == Grow(e, "tool", i, ev.delta)
             out == IF e.protocol = "chat" THEN <<v>> ELSE <<w>>
  <1>0. IsEncoder(e)
    BY DEF Tidy
  <1>1. k # 0 /\ k \in DOMAIN e.tools /\ e.tools[k].key = toolKey(ev)
    BY <1>0, FoundByKey
  <1>2. tool(e, ev) = e
    BY <1>1 DEF tool
  <1>3. encodeToolDelta(e, ev) =
          IF ev.delta = 0 THEN Written(e, <<>>) ELSE Written(c, out)
    BY <1>2 DEF encodeToolDelta
  <1>4. CASE ev.delta = 0
    <2>1. Written(e, <<>>).enc = e
      BY DEF Written
    <2>. QED BY <1>3, <1>4, <2>1, WalksNot
  <1>5. CASE ev.delta # 0
    <2>. HIDE DEF k
    <2>1. /\ DOMAIN u = ToolFields /\ u.call = e.tools[k].call
          /\ u.key = e.tools[k].key /\ u.index = e.tools[k].index
          /\ u.closed = e.tools[k].closed
      BY <1>0, <1>1 DEF IsEncoder, ToolFields
    <2>. HIDE DEF u
    <2>2. IsEncoder(c) /\ c.protocol = e.protocol /\ c.done = e.done
      BY <1>0, <2>1, ToolReplaced
    <2>3. /\ c.nextIndex = e.nextIndex /\ c.textIndex = e.textIndex
          /\ c.reasoningIndex = e.reasoningIndex /\ c.reasoningClosed = e.reasoningClosed
          /\ DOMAIN c.tools = DOMAIN e.tools
          /\ \A j \in DOMAIN e.tools : c.tools[j] = IF j = k THEN u ELSE e.tools[j]
      BY <1>0 DEF IsEncoder, newStreamEncoder
    <2>. HIDE DEF c
    <2>4. Alike(e, c)
      BY <2>1, <2>2, <2>3 DEF Alike
    <2>5. /\ Apart(v)
          /\ Grows(w) /\ ~Opens(w) /\ ~Closes(w) /\ w.index = i
      BY BlockEvents
    <2>. HIDE DEF v, w
    <2>6. Turns(e.nextIndex, ClosedOf(e), out, e.nextIndex, ClosedOf(e))
      <3>1. CASE e.protocol = "chat"
        BY <2>5, <3>1, TurnsOne
      <3>2. CASE e.protocol # "chat"
        <4>1. InBlocks(e)
          BY <1>0, <3>2 DEF InBlocks, IsEncoder, Client
        <4>2. ~e.tools[k].closed
          <5>1. PICK j \in DOMAIN e.tools : ~e.tools[j].closed /\ e.tools[j].key = toolKey(ev)
            BY <1>5 DEF LiveKeys
          <5>. QED BY <1>1, <5>1 DEF Tidy
        <4>3. i \in 0..(e.nextIndex - 1) /\ i \notin ClosedOf(e)
          BY <1>1, <4>1, <4>2 DEF ClosedOf, Tidy
        <4>. QED BY <2>5, <3>2, <4>3, TurnsOne
      <3>. QED BY <3>1, <3>2
    <2>7. Walks(e, Written(c, out)) /\ SameKeys(e, c)
      BY <2>2, <2>4, <2>6, WalksAlike
    <2>8. Written(c, out).enc = c
      BY DEF Written
    <2>. QED BY <1>3, <1>5, <2>7, <2>8
  <1>. QED BY <1>4, <1>5

(* Closing a call that is known, and closed or not. *)
LEMMA ToolCloses ==
  ASSUME NEW e, Tidy(e), NEW k \in DOMAIN e.tools
  PROVE  LET w == closeTool(e, k)
         IN /\ Walks(e, w)
            /\ Keys(w.enc) = Keys(e)
            /\ LiveKeys(e) \ {e.tools[k].key} \subseteq LiveKeys(w.enc)
            /\ w.enc.nextIndex = e.nextIndex /\ w.enc.textIndex = e.textIndex
            /\ w.enc.reasoningIndex = e.reasoningIndex
            /\ DOMAIN w.enc.tools = DOMAIN e.tools
            /\ w.enc.tools[k].closed
            /\ \A j \in DOMAIN e.tools : e.tools[j].closed => w.enc.tools[j].closed
  <1> DEFINE t == e.tools[k]
             u == [t EXCEPT !.closed = TRUE]
             b == [e EXCEPT !.tools[k] = u]
             w == Close(e, "tool", t.index, t.call, t.content)
             out == When(InBlocks(e), <<w>>)
  <1>0. IsEncoder(e)
    BY DEF Tidy
  <1>1. CASE t.closed
    <2>1. closeTool(e, k) = Written(e, <<>>)
      BY <1>1 DEF closeTool
    <2>2. Written(e, <<>>).enc = e
      BY DEF Written
    <2>3. Walks(e, closeTool(e, k))
      BY <2>1, WalksNot
    <2>. QED BY <1>1, <2>1, <2>2, <2>3
  <1>2. CASE ~t.closed
    <2>1. closeTool(e, k) = Written(b, out)
      BY <1>2 DEF closeTool
    <2>2. /\ DOMAIN u = ToolFields /\ u.call = t.call /\ u.key = t.key
          /\ u.index = t.index /\ u.closed = TRUE
      BY <1>0 DEF IsEncoder, ToolFields
    <2>. HIDE DEF u
    <2>3. IsEncoder(b) /\ b.protocol = e.protocol /\ b.done = e.done
      BY <1>0, <2>2, ToolReplaced
    <2>4. /\ b.nextIndex = e.nextIndex /\ b.textIndex = e.textIndex
          /\ b.reasoningIndex = e.reasoningIndex /\ b.reasoningClosed = e.reasoningClosed
          /\ DOMAIN b.tools = DOMAIN e.tools
          /\ \A j \in DOMAIN e.tools : b.tools[j] = IF j = k THEN u ELSE e.tools[j]
      BY <1>0 DEF IsEncoder, newStreamEncoder
    <2>. HIDE DEF b
    <2>5. \A j \in DOMAIN e.tools : /\ b.tools[j].key = e.tools[j].key
                                    /\ b.tools[j].index = e.tools[j].index
                                    /\ b.tools[j].closed \in BOOLEAN
                                    /\ j # k => b.tools[j].closed = e.tools[j].closed
      BY <2>2, <2>4 DEF Tidy
    <2>6. b.tools[k].closed
      BY <2>2, <2>4
    <2>7. Tidy(b)
      BY <2>3, <2>4, <2>5 DEF Tidy, InBlocks, IndexOf
    <2>8. Keys(b) = Keys(e)
      BY <2>4, <2>5 DEF Keys
    <2>9. LiveKeys(e) \ {t.key} \subseteq LiveKeys(b)
      <3>. SUFFICES ASSUME NEW x \in LiveKeys(e) \ {t.key} PROVE x \in LiveKeys(b)
        OBVIOUS
      <3>1. PICK j \in DOMAIN e.tools : ~e.tools[j].closed /\ e.tools[j].key = x
        BY DEF LiveKeys
      <3>2. j # k /\ j \in DOMAIN b.tools
        BY <2>4, <3>1
      <3>3. ~b.tools[j].closed /\ b.tools[j].key = x
        BY <2>5, <3>1, <3>2
      <3>. QED BY <3>2, <3>3 DEF LiveKeys
    <2>10. Turns(e.nextIndex, ClosedOf(e), out, e.nextIndex, ClosedOf(b))
      <3>1. CASE InBlocks(e)
        <4>1. t.index \in 0..(e.nextIndex - 1) /\ t.index \notin ClosedOf(e)
          BY <1>2, <3>1 DEF ClosedOf, Tidy
        <4>2. ClosedOf(b) = ClosedOf(e) \cup {t.index}
          <5>1. \A i \in 0..(e.nextIndex - 1) :
                  (\E j \in DOMAIN b.tools : b.tools[j].closed /\ b.tools[j].index = i)
                  <=> \/ \E j \in DOMAIN e.tools : e.tools[j].closed /\ e.tools[j].index = i
                      \/ i = t.index
            BY <1>2, <2>4, <2>5, <2>6
          <5>. QED BY <2>4, <4>1, <5>1 DEF ClosedOf
        <4>3. Closes(w) /\ ~Opens(w) /\ ~Grows(w) /\ w.index = t.index
          BY BlockEvents
        <4>. HIDE DEF w
        <4>4. Turns(e.nextIndex, ClosedOf(e), <<w>>, e.nextIndex, ClosedOf(e) \cup {t.index})
          BY <4>1, <4>3, TurnsOne
        <4>. QED BY <3>1, <4>2, <4>4 DEF When
      <3>2. CASE ~InBlocks(e)
        <4>1. e.nextIndex = 0
          BY <3>2 DEF Tidy
        <4>2. 0..(0 - 1) = {}
          OBVIOUS
        <4>3. ClosedOf(b) = {} /\ ClosedOf(e) = {}
          BY <2>4, <4>1, <4>2 DEF ClosedOf
        <4>4. out = <<>>
          BY <3>2 DEF When
        <4>. QED BY <4>3, <4>4, TurnsNot
      <3>. QED BY <3>1, <3>2
    <2>11. Written(b, out).enc = b /\ Written(b, out).out = out
      BY DEF Written
    <2>. HIDE DEF out, t
    <2>. QED BY <2>1, <2>3, <2>4, <2>5, <2>6, <2>7, <2>8, <2>9, <2>10, <2>11 DEF Walks, t
  <1>. QED BY <1>1, <1>2

LEMMA ToolEndWalks ==
  ASSUME NEW e, Tidy(e), NEW ev, toolKey(ev) \in Keys(e)
  PROVE  LET w == encodeToolEnd(e, ev)
         IN /\ Walks(e, w)
            /\ Keys(w.enc) = Keys(e)
            /\ LiveKeys(e) \ {toolKey(ev)} \subseteq LiveKeys(w.enc)
  <1> DEFINE k == toolAt(e, ev)
  <1>0. IsEncoder(e)
    BY DEF Tidy
  <1>1. k # 0 /\ k \in DOMAIN e.tools /\ e.tools[k].key = toolKey(ev)
    BY <1>0, FoundByKey
  <1>2. tool(e, ev) = e
    BY <1>1 DEF tool
  <1>3. encodeToolEnd(e, ev) = closeTool(e, k)
    BY <1>2 DEF encodeToolEnd
  <1>. HIDE DEF k
  <1>. QED BY <1>1, <1>3, ToolCloses

(* closeTools closes every call. *)
LEMMA AllToolsClose ==
  ASSUME NEW e, Tidy(e)
  PROVE  LET w == closeTools(e)
         IN /\ Walks(e, w)
            /\ w.enc.nextIndex = e.nextIndex /\ w.enc.textIndex = e.textIndex
            /\ w.enc.reasoningIndex = e.reasoningIndex
            /\ \A k \in DOMAIN w.enc.tools : w.enc.tools[k].closed
  <1> DEFINE ks == [k \in DOMAIN e.tools |-> k]
             base == Written(e, <<>>)
             N == Len(ks)
             Ok(w, m) == /\ Walks(e, w)
                         /\ w.enc.nextIndex = e.nextIndex /\ w.enc.textIndex = e.textIndex
                         /\ w.enc.reasoningIndex = e.reasoningIndex
                         /\ DOMAIN w.enc.tools = 1..N
                         /\ \A k \in 1..m : w.enc.tools[k].closed
  <1>0. IsEncoder(e)
    BY DEF Tidy
  <1>1. N \in Nat /\ DOMAIN e.tools = 1..N /\ \A k \in 1..N : ks[k] = k
    <2>1. Len(e.tools) \in Nat /\ DOMAIN e.tools = 1..Len(e.tools)
      BY <1>0, SeqFacts DEF IsEncoder
    <2>. QED BY <2>1
  <1>2. closeTools(e) = Fold(closeNext, base, ks)
    BY DEF closeTools
  <1>3. Ok(base, 0)
    <2>1. base.enc = e /\ Walks(e, base)
      BY WalksNot DEF Written
    <2>. HIDE DEF base, ks
    <2>. QED BY <1>1, <2>1
  <1>. HIDE DEF ks, base
  <1>4. PICK g : /\ g = [i \in 0..N |-> IF i = 0 THEN base ELSE closeNext(g[i - 1], ks[i])]
                 /\ Fold(closeNext, base, ks) = g[N]
    BY <1>1, CloseRuns
  <1>5. g[0] = base /\ \A i \in 1..N : g[i] = closeNext(g[i - 1], ks[i])
    BY <1>1, <1>4
  <1>6. closeTools(e) = g[N]
    BY <1>2, <1>4
  <1> DEFINE S == {m \in Nat : m <= N => Ok(g[m], m)}
  <1>. HIDE DEF Ok
  <1>7. 0 \in S
    BY <1>1, <1>3, <1>5
  <1>8. ASSUME NEW m \in Nat, m \in S PROVE m + 1 \in S
    <2>1. SUFFICES ASSUME m + 1 <= N PROVE Ok(g[m + 1], m + 1)
      OBVIOUS
    <2>2. Ok(g[m], m)
      BY <1>1, <1>8, <2>1
    <2>3. m + 1 \in 1..N /\ ks[m + 1] = m + 1
      BY <1>1, <2>1
    <2> DEFINE d == g[m].enc
               v == closeTool(d, m + 1)
    <2>4. g[m + 1] = After(g[m].out, v)
      BY <1>5, <2>3 DEF closeNext
    <2>5. /\ Walks(e, g[m]) /\ Tidy(d)
          /\ d.nextIndex = e.nextIndex /\ d.textIndex = e.textIndex
          /\ d.reasoningIndex = e.reasoningIndex
          /\ DOMAIN d.tools = 1..N
          /\ \A k \in 1..m : d.tools[k].closed
      BY <2>2 DEF Ok, Walks
    <2>6. /\ Walks(d, v)
          /\ v.enc.nextIndex = d.nextIndex /\ v.enc.textIndex = d.textIndex
          /\ v.enc.reasoningIndex = d.reasoningIndex
          /\ DOMAIN v.enc.tools = DOMAIN d.tools
          /\ v.enc.tools[m + 1].closed
          /\ \A j \in DOMAIN d.tools : d.tools[j].closed => v.enc.tools[j].closed
      <3>. HIDE DEF d
      <3>. QED BY <2>3, <2>5, ToolCloses
    <2>. HIDE DEF v
    <2>7. After(g[m].out, v).enc = v.enc
      BY DEF After, Written
    <2>8. Walks(e, After(g[m].out, v))
      BY <2>5, <2>6, WalksOn
    <2>9. \A k \in 1..(m + 1) : v.enc.tools[k].closed
      <3>1. \A k \in 1..(m + 1) : k = m + 1 \/ (k \in 1..m /\ k \in 1..N)
        BY <1>1, <2>1
      <3>. QED BY <2>5, <2>6, <3>1
    <2>10. Ok(After(g[m].out, v), m + 1)
      BY <2>5, <2>6, <2>7, <2>8, <2>9 DEF Ok
    <2>. QED BY <2>4, <2>10
  <1>9. Nat \subseteq S
    <2>. HIDE DEF S
    <2>. QED BY <1>7, <1>8, SetInduction
  <1>10. Ok(g[N], N)
    BY <1>1, <1>9
  <1>. QED BY <1>6, <1>10 DEF Ok

(* At the end every block is closed, and only the text was open still. *)
LEMMA TextCloses ==
  ASSUME NEW e, Tidy(e), \A k \in DOMAIN e.tools : e.tools[k].closed,
         e.reasoningIndex # None => e.reasoningClosed
  PROVE  LET w == closeText(e)
         IN w.enc = e /\ Turns(e.nextIndex, ClosedOf(e), w.out, e.nextIndex, 0..(e.nextIndex - 1))
  <1> DEFINE n == e.nextIndex
             w == Close(e, "text", e.textIndex, 0, e.text)
             out == When(InBlocks(e) /\ e.textIndex # None, <<w>>)
  <1>1. closeText(e).enc = e /\ closeText(e).out = out
    BY DEF closeText, Written
  <1>2. n \in Nat
    BY DEF Tidy
  <1>3. \A i \in 0..(n - 1) : i # e.textIndex => i \in ClosedOf(e)
    <2>. SUFFICES ASSUME NEW i \in 0..(n - 1), i # e.textIndex PROVE i \in ClosedOf(e)
      OBVIOUS
    <2>1. IndexOf(e, i) /\ i # None
      BY <1>2 DEF Tidy, None
    <2>. QED BY <2>1 DEF IndexOf, ClosedOf
  <1>4. ClosedOf(e) \subseteq 0..(n - 1)
    BY DEF ClosedOf
  <1>5. CASE InBlocks(e) /\ e.textIndex # None
    <2>1. e.textIndex \in 0..(n - 1) /\ e.textIndex \notin ClosedOf(e)
      BY <1>2, <1>5 DEF ClosedOf, Tidy, None
    <2>2. ClosedOf(e) \cup {e.textIndex} = 0..(n - 1)
      BY <1>3, <1>4, <2>1
    <2>3. Closes(w) /\ ~Opens(w) /\ ~Grows(w) /\ w.index = e.textIndex
      BY BlockEvents
    <2>4. out = <<w>>
      BY <1>5 DEF When
    <2>. HIDE DEF w
    <2>5. Turns(n, ClosedOf(e), <<w>>, n, ClosedOf(e) \cup {e.textIndex})
      BY <2>1, <2>3, TurnsOne
    <2>. QED BY <1>1, <2>2, <2>4, <2>5
  <1>6. CASE ~(InBlocks(e) /\ e.textIndex # None)
    <2>1. \A i \in 0..(n - 1) : i # e.textIndex
      BY <1>2, <1>6 DEF Tidy, None
    <2>2. ClosedOf(e) = 0..(n - 1)
      BY <1>3, <1>4, <2>1
    <2>3. out = <<>>
      BY <1>6 DEF When
    <2>. QED BY <1>1, <2>2, <2>3, TurnsNot
  <1>. QED BY <1>5, <1>6

LEMMA FarewellTurns ==
  ASSUME NEW e, IsEncoder(e), NEW n, NEW C
  PROVE  Turns(n, C, farewell(e).out, n, C) /\ farewell(e).enc = e
  <1>1. CASE e.protocol = "chat"
    <2> DEFINE w == [Chunk EXCEPT !.stop = chatStop(e.stop), !.usage = e.usage]
               v == [blank EXCEPT !.type = "DONE"]
    <2>1. farewell(e) = Written(e, <<w, v>>)
      BY <1>1 DEF farewell
    <2>2. Apart(w) /\ Apart(v)
      BY DEF Apart, Chunk, blank, Opens, Grows, Closes
    <2>. HIDE DEF w, v
    <2>. QED BY <2>1, <2>2, TurnsTwoApart DEF Written
  <1>2. CASE e.protocol = "messages"
    <2> DEFINE w == [blank EXCEPT !.type = "message_delta", !.stop = messagesStop(e.stop),
                                  !.usage = e.usage]
               v == [blank EXCEPT !.type = "message_stop"]
    <2>1. farewell(e) = Written(e, <<w, v>>)
      BY <1>2 DEF farewell
    <2>2. Apart(w) /\ Apart(v)
      BY DEF Apart, blank, Opens, Grows, Closes
    <2>. HIDE DEF w, v
    <2>. QED BY <2>1, <2>2, TurnsTwoApart DEF Written
  <1>3. CASE e.protocol = "responses"
    <2> DEFINE w == [blank EXCEPT !.type = "response.completed", !.usage = e.usage,
                                  !.output = responseOutput(e)]
    <2>1. farewell(e) = Written(e, <<w>>)
      BY <1>3 DEF farewell
    <2>2. Apart(w)
      BY DEF Apart, blank, Opens, Grows, Closes
    <2>. HIDE DEF w
    <2>3. Turns(n, C, <<w>>, n, C)
      BY <2>2, TurnsOne
    <2>. QED BY <2>1, <2>3 DEF Written
  <1>. QED BY <1>1, <1>2, <1>3 DEF IsEncoder, Client

LEMMA FinishTurns ==
  ASSUME NEW e, Tidy(e)
  PROVE  LET w == finish(e)
         IN Turns(e.nextIndex, ClosedOf(e), w.out,
                  w.enc.nextIndex, 0..(w.enc.nextIndex - 1))
  <1> DEFINE b == [e EXCEPT !.done = TRUE]
             v1 == ensureStarted(b)
             v2 == After(v1.out, closeTools(v1.enc))
             v3 == After(v2.out, closeReasoning(v2.enc))
             v4 == After(v3.out, closeText(v3.enc))
             v5 == After(v4.out, farewell(v4.enc))
  <1>1. IsEncoder(b) /\ Alike(e, b)
    BY DEF Tidy, IsEncoder, newStreamEncoder, Alike
  <1>2. finish(e) = v5
    BY DEF finish, Then
  <1>. HIDE DEF b
  <1>3. Tidy(b) /\ ClosedOf(b) = ClosedOf(e) /\ b.nextIndex = e.nextIndex
    BY <1>1, AlikeTidy DEF Alike
  <1>4. Walks(b, v1) /\ Tidy(v1.enc)
    BY <1>3, BegunWalks DEF Walks
  <1>. HIDE DEF v1
  <1>5. Walks(b, v2) /\ Tidy(v2.enc) /\ \A k \in DOMAIN v2.enc.tools : v2.enc.tools[k].closed
    <2> DEFINE w == closeTools(v1.enc)
    <2>1. Walks(v1.enc, w) /\ \A k \in DOMAIN w.enc.tools : w.enc.tools[k].closed
      BY <1>4, AllToolsClose
    <2>. HIDE DEF w
    <2>2. Walks(b, After(v1.out, w)) /\ After(v1.out, w).enc = w.enc
      BY <1>4, <2>1, WalksOn DEF After, Written
    <2>. QED BY <2>1, <2>2 DEF Walks, w
  <1>. HIDE DEF v2
  <1>6. /\ Walks(b, v3) /\ Tidy(v3.enc)
        /\ \A k \in DOMAIN v3.enc.tools : v3.enc.tools[k].closed
        /\ v3.enc.reasoningIndex # None => v3.enc.reasoningClosed
    <2> DEFINE w == closeReasoning(v2.enc)
    <2>1. /\ Walks(v2.enc, w) /\ w.enc.tools = v2.enc.tools
          /\ w.enc.reasoningIndex # None => w.enc.reasoningClosed
      BY <1>5, ReasoningCloses
    <2>. HIDE DEF w
    <2>2. Walks(b, After(v2.out, w)) /\ After(v2.out, w).enc = w.enc
      BY <1>5, <2>1, WalksOn DEF After, Written
    <2>. QED BY <1>5, <2>1, <2>2 DEF Walks, w
  <1>. HIDE DEF v3
  <1> DEFINE n == v3.enc.nextIndex
  <1>7. /\ v4.enc = v3.enc /\ Turns(b.nextIndex, ClosedOf(b), v4.out, n, 0..(n - 1))
    <2> DEFINE w == closeText(v3.enc)
    <2>1. w.enc = v3.enc /\ Turns(n, ClosedOf(v3.enc), w.out, n, 0..(n - 1))
      BY <1>6, TextCloses
    <2>2. v4.enc = w.enc /\ v4.out = v3.out \o w.out
      BY DEF After, Written
    <2>. HIDE DEF w, v4
    <2>3. Turns(b.nextIndex, ClosedOf(b), v3.out \o w.out, n, 0..(n - 1))
      BY <1>6, <2>1, TurnsJoin DEF Walks
    <2>. QED BY <2>1, <2>2, <2>3
  <1>. HIDE DEF v4
  <1>8. v5.enc = v3.enc /\ Turns(b.nextIndex, ClosedOf(b), v5.out, n, 0..(n - 1))
    <2> DEFINE w == farewell(v4.enc)
    <2>1. w.enc = v4.enc /\ Turns(n, 0..(n - 1), w.out, n, 0..(n - 1))
      BY <1>6, <1>7, FarewellTurns DEF Tidy
    <2>2. v5.enc = w.enc /\ v5.out = v4.out \o w.out
      BY DEF After, Written
    <2>. HIDE DEF w, v5
    <2>3. Turns(b.nextIndex, ClosedOf(b), v4.out \o w.out, n, 0..(n - 1))
      BY <1>7, <2>1, TurnsJoin
    <2>. QED BY <1>7, <2>1, <2>2, <2>3
  <1>. HIDE DEF v5
  <1>. QED BY <1>2, <1>3, <1>8

-----------------------------------------------------------------------------
(* The events that a client may be written for: a call is started once,    *)
(* under a key of its own, and its arguments do not follow its end.  K are *)
(* the keys that were started, O those of them that have not been ended.   *)

Allowed(K, O, ev) ==
  /\ IsEvent(ev)
  /\ ev.kind = "tool_start" => toolKey(ev) \notin K
  /\ ev.kind = "tool_delta" => toolKey(ev) \in K /\ (ev.delta = 0 \/ toolKey(ev) \in O)
  /\ ev.kind = "tool_end" => toolKey(ev) \in K
KeysAfter(K, ev) == IF ev.kind = "tool_start" THEN K \cup {toolKey(ev)} ELSE K
LiveAfter(O, ev) ==
  IF ev.kind = "tool_start" THEN O \cup {toolKey(ev)}
  ELSE IF ev.kind = "tool_end" THEN O \ {toolKey(ev)} ELSE O

LEMMA ContentWalks ==
  ASSUME NEW e, Tidy(e), NEW O, O \subseteq LiveKeys(e), NEW ev, Allowed(Keys(e), O, ev),
         ev.kind \in ContentKinds
  PROVE  LET w == encodeContent(e, ev)
         IN /\ Walks(e, w) /\ Keys(w.enc) = KeysAfter(Keys(e), ev)
            /\ LiveAfter(O, ev) \subseteq LiveKeys(w.enc)
  <1>1. CASE ev.kind = "text"
    <2>1. /\ encodeContent(e, ev) = encodeText(e, ev.delta)
          /\ KeysAfter(Keys(e), ev) = Keys(e) /\ LiveAfter(O, ev) = O
      BY <1>1 DEF encodeContent, KeysAfter, LiveAfter
    <2>. QED BY <2>1, TextWalks DEF SameKeys
  <1>2. CASE ev.kind = "reasoning"
    <2>1. /\ encodeContent(e, ev) = encodeReasoning(e, ev.delta)
          /\ KeysAfter(Keys(e), ev) = Keys(e) /\ LiveAfter(O, ev) = O
      BY <1>2 DEF encodeContent, KeysAfter, LiveAfter
    <2>. QED BY <2>1, ReasoningWalks DEF SameKeys
  <1>3. CASE ev.kind = "tool_start"
    <2>1. /\ encodeContent(e, ev) = encodeToolStart(e, ev)
          /\ KeysAfter(Keys(e), ev) = Keys(e) \cup {toolKey(ev)}
          /\ LiveAfter(O, ev) = O \cup {toolKey(ev)}
          /\ toolKey(ev) \notin Keys(e)
      BY <1>3 DEF encodeContent, KeysAfter, LiveAfter, Allowed
    <2>2. /\ Walks(e, encodeToolStart(e, ev))
          /\ Keys(encodeToolStart(e, ev).enc) = Keys(e) \cup {toolKey(ev)}
          /\ LiveKeys(encodeToolStart(e, ev).enc) = LiveKeys(e) \cup {toolKey(ev)}
      BY <2>1, ToolStartWalks
    <2>. QED BY <2>1, <2>2
  <1>4. CASE ev.kind = "tool_delta"
    <2>1. /\ encodeContent(e, ev) = encodeToolDelta(e, ev)
          /\ KeysAfter(Keys(e), ev) = Keys(e) /\ LiveAfter(O, ev) = O
          /\ toolKey(ev) \in Keys(e) /\ (ev.delta = 0 \/ toolKey(ev) \in LiveKeys(e))
      BY <1>4 DEF encodeContent, KeysAfter, LiveAfter, Allowed
    <2>. QED BY <2>1, ToolDeltaWalks DEF SameKeys
  <1>5. CASE ev.kind = "tool_end"
    <2>1. /\ encodeContent(e, ev) = encodeToolEnd(e, ev)
          /\ KeysAfter(Keys(e), ev) = Keys(e) /\ LiveAfter(O, ev) = O \ {toolKey(ev)}
          /\ toolKey(ev) \in Keys(e)
      BY <1>5 DEF encodeContent, KeysAfter, LiveAfter, Allowed
    <2>2. /\ Walks(e, encodeToolEnd(e, ev)) /\ Keys(encodeToolEnd(e, ev).enc) = Keys(e)
          /\ LiveKeys(e) \ {toolKey(ev)} \subseteq LiveKeys(encodeToolEnd(e, ev).enc)
      BY <2>1, ToolEndWalks
    <2>. QED BY <2>1, <2>2
  <1>. QED BY <1>1, <1>2, <1>3, <1>4, <1>5 DEF ContentKinds

(* One event, from an encoder that is not done. *)
LEMMA EncodeTurns ==
  ASSUME NEW e, Tidy(e), ~e.done, NEW O, O \subseteq LiveKeys(e),
         NEW ev, Allowed(Keys(e), O, ev)
  PROVE  LET w == Encode(e, ev)
             n == w.enc.nextIndex
         IN /\ Turns(e.nextIndex, ClosedOf(e), w.out, n,
                     IF ev.kind = "done" THEN 0..(n - 1) ELSE ClosedOf(w.enc))
            /\ ev.kind # "done" =>
                 /\ Tidy(w.enc) /\ Keys(w.enc) = KeysAfter(Keys(e), ev)
                 /\ LiveAfter(O, ev) \subseteq LiveKeys(w.enc)
  <1>0. IsEncoder(e)
    BY DEF Tidy
  <1>1. ASSUME NEW b, Encode(e, ev) = Written(b, <<>>), IsEncoder(b), Alike(e, b),
               b.done = e.done, ev.kind \in {"start", "usage", "finish"}
        PROVE  /\ Turns(e.nextIndex, ClosedOf(e), <<>>, b.nextIndex, ClosedOf(b))
               /\ Tidy(b) /\ Keys(b) = KeysAfter(Keys(e), ev)
               /\ LiveAfter(O, ev) \subseteq LiveKeys(b)
               /\ Encode(e, ev).enc = b /\ Encode(e, ev).out = <<>> /\ ev.kind # "done"
    <2>1. Walks(e, Written(b, <<>>)) /\ SameKeys(e, b)
      BY <1>1, WalksAlike, TurnsNot
    <2>2. Written(b, <<>>).enc = b /\ Written(b, <<>>).out = <<>>
      BY DEF Written
    <2>3. KeysAfter(Keys(e), ev) = Keys(e) /\ LiveAfter(O, ev) = O
      BY <1>1 DEF KeysAfter, LiveAfter
    <2>4. ev.kind # "done"
      BY <1>1
    <2>. QED BY <1>1, <2>1, <2>2, <2>3, <2>4 DEF Walks, SameKeys
  <1>2. CASE ev.kind = "start"
    <2>1. Encode(e, ev) = Written(e, <<>>) /\ Alike(e, e)
      BY <1>2 DEF Encode, Alike
    <2>. QED BY <1>0, <1>1, <1>2, <2>1
  <1>3. CASE ev.kind = "usage"
    <2> DEFINE b == [e EXCEPT !.usage = mergeUsage(@, ev.usage)]
    <2>1. Encode(e, ev) = Written(b, <<>>)
      BY <1>3 DEF Encode
    <2>2. IsEncoder(b) /\ Alike(e, b) /\ b.done = e.done
      BY <1>0 DEF IsEncoder, newStreamEncoder, Alike
    <2>. HIDE DEF b
    <2>. QED BY <1>1, <1>3, <2>1, <2>2
  <1>4. CASE ev.kind = "finish"
    <2> DEFINE b == [e EXCEPT !.stop = ev.stop]
    <2>1. Encode(e, ev) = Written(b, <<>>)
      BY <1>4 DEF Encode
    <2>2. IsEncoder(b) /\ Alike(e, b) /\ b.done = e.done
      BY <1>0 DEF IsEncoder, newStreamEncoder, Alike
    <2>. HIDE DEF b
    <2>. QED BY <1>1, <1>4, <2>1, <2>2
  <1>5. CASE ev.kind = "done"
    <2>1. Encode(e, ev) = finish(e)
      BY <1>5 DEF Encode
    <2>. QED BY <1>5, <2>1, FinishTurns
  <1>6. CASE ev.kind \in ContentKinds
    <2> DEFINE begun == ensureStarted(e)
               closed == IF InBlocks(e) /\ ev.kind # "reasoning"
                           THEN After(begun.out, closeReasoning(begun.enc)) ELSE begun
               v == encodeContent(closed.enc, ev)
    <2>1. Encode(e, ev) = After(closed.out, v)
      BY <1>6 DEF Encode, Then, ContentKinds
    <2>2. Walks(e, begun) /\ SameKeys(e, begun.enc)
      BY BegunWalks
    <2>. HIDE DEF begun
    <2>3. Walks(e, closed) /\ SameKeys(e, closed.enc)
      <3> DEFINE u == closeReasoning(begun.enc)
      <3>1. Walks(begun.enc, u) /\ SameKeys(begun.enc, u.enc)
        BY <2>2, ReasoningCloses DEF Walks
      <3>. HIDE DEF u
      <3>2. Walks(e, After(begun.out, u)) /\ SameKeys(e, After(begun.out, u).enc)
        BY <2>2, <3>1, WalksOn
      <3>. QED BY <2>2, <3>2 DEF u
    <2>. HIDE DEF closed
    <2>4. /\ Walks(closed.enc, v) /\ Keys(v.enc) = KeysAfter(Keys(e), ev)
          /\ LiveAfter(O, ev) \subseteq LiveKeys(v.enc)
      BY <1>6, <2>3, ContentWalks DEF Walks, SameKeys
    <2>. HIDE DEF v
    <2>5. Walks(e, After(closed.out, v)) /\ After(closed.out, v).enc = v.enc
      BY <2>3, <2>4, WalksOn DEF After, Written
    <2>6. ev.kind # "done"
      BY <1>6 DEF ContentKinds
    <2>. QED BY <2>1, <2>4, <2>5, <2>6 DEF Walks
  <1>. QED BY <1>2, <1>3, <1>4, <1>5, <1>6 DEF Allowed, IsEvent, EventKinds

(* A run of allowed events, from the keys K and O to the keys L and P. *)
Run(K, O, es, ks, os) ==
  /\ ks[0] = K /\ os[0] = O
  /\ \A i \in 1..Len(es) : /\ Allowed(ks[i - 1], os[i - 1], es[i])
                           /\ ks[i] = KeysAfter(ks[i - 1], es[i])
                           /\ os[i] = LiveAfter(os[i - 1], es[i])
Legal(K, O, es, L, P) ==
  /\ IsSeq(es)
  /\ \E ks, os : Run(K, O, es, ks, os) /\ ks[Len(es)] = L /\ os[Len(es)] = P

LEMMA LegalNone ==
  ASSUME NEW K, NEW O
  PROVE  Legal(K, O, <<>>, K, O)
  <1> DEFINE ks == [i \in {0} |-> K]
             os == [i \in {0} |-> O]
  <1>1. IsSeq(<<>>) /\ Len(<<>>) = 0 /\ 1..0 = {}
    BY Singles
  <1>2. ks[0] = K /\ os[0] = O
    OBVIOUS
  <1>3. Run(K, O, <<>>, ks, os)
    BY <1>1, <1>2 DEF Run
  <1>. HIDE DEF ks, os
  <1>. QED BY <1>1, <1>2, <1>3 DEF Legal

LEMMA LegalOne ==
  ASSUME NEW K, NEW O, NEW ev, Allowed(K, O, ev)
  PROVE  Legal(K, O, <<ev>>, KeysAfter(K, ev), LiveAfter(O, ev))
  <1> DEFINE s == <<ev>>
             L == KeysAfter(K, ev)
             P == LiveAfter(O, ev)
             ks == [i \in {0, 1} |-> IF i = 0 THEN K ELSE L]
             os == [i \in {0, 1} |-> IF i = 0 THEN O ELSE P]
  <1>1. IsSeq(s) /\ Len(s) = 1 /\ s[1] = ev
    BY Singles
  <1>. HIDE DEF s, L, P
  <1>2. ks[0] = K /\ os[0] = O /\ ks[1] = L /\ os[1] = P
    OBVIOUS
  <1>. HIDE DEF ks, os
  <1>3. Run(K, O, s, ks, os)
    <2>1. ASSUME NEW i \in 1..Len(s)
          PROVE  /\ Allowed(ks[i - 1], os[i - 1], s[i])
                 /\ ks[i] = KeysAfter(ks[i - 1], s[i])
                 /\ os[i] = LiveAfter(os[i - 1], s[i])
      <3>1. i = 1 /\ i - 1 = 0
        BY <1>1
      <3>. QED BY <1>1, <1>2, <3>1 DEF L, P
    <2>. QED BY <1>2, <2>1 DEF Run
  <1>4. Legal(K, O, s, L, P)
    BY <1>1, <1>2, <1>3 DEF Legal
  <1>. QED BY <1>4 DEF s, L, P

LEMMA LegalJoin ==
  ASSUME NEW K, NEW O, NEW s, NEW L, NEW P, NEW t, NEW M, NEW Q,
         Legal(K, O, s, L, P), Legal(L, P, t, M, Q)
  PROVE  Legal(K, O, s \o t, M, Q)
  <1> DEFINE n == Len(s)
             m == Len(t)
             u == s \o t
  <1>1. PICK ka, oa : Run(K, O, s, ka, oa) /\ ka[n] = L /\ oa[n] = P
    BY DEF Legal
  <1>2. PICK kb, ob : Run(L, P, t, kb, ob) /\ kb[m] = M /\ ob[m] = Q
    BY DEF Legal
  <1>3. IsSeq(s) /\ IsSeq(t)
    BY DEF Legal
  <1>4. PICK A : s \in Seq(A)
    BY <1>3 DEF IsSeq
  <1>5. PICK B : t \in Seq(B)
    BY <1>3 DEF IsSeq
  <1>6. /\ n \in Nat /\ m \in Nat /\ Len(u) = n + m
        /\ \A i \in 1..n : u[i] = s[i]
        /\ \A i \in (n + 1)..(n + m) : u[i] = t[i - n]
    <2>1. s \in Seq(A \cup B) /\ t \in Seq(A \cup B)
      BY <1>4, <1>5
    <2>. QED BY <2>1
  <1>7. IsSeq(u)
    BY <1>3, Joins
  <1>. HIDE DEF u, n, m
  <1> DEFINE ks == [i \in 0..(n + m) |-> IF i <= n THEN ka[i] ELSE kb[i - n]]
             os == [i \in 0..(n + m) |-> IF i <= n THEN oa[i] ELSE ob[i - n]]
  <1>8. /\ \A i \in 0..n : ks[i] = ka[i] /\ os[i] = oa[i]
        /\ \A i \in n..(n + m) : ks[i] = kb[i - n] /\ os[i] = ob[i - n]
    <2>1. \A i \in 0..n : ks[i] = ka[i] /\ os[i] = oa[i]
      BY <1>6
    <2>2. ASSUME NEW i \in n..(n + m) PROVE ks[i] = kb[i - n] /\ os[i] = ob[i - n]
      <3>1. CASE i = n
        <4>1. i - n = 0 /\ kb[0] = L /\ ob[0] = P
          BY <1>2, <1>6, <3>1 DEF Run
        <4>2. ks[n] = ka[n] /\ os[n] = oa[n]
          BY <1>6
        <4>. HIDE DEF ks, os
        <4>. QED BY <1>1, <3>1, <4>1, <4>2
      <3>2. CASE i # n
        BY <1>6, <3>2
      <3>. QED BY <3>1, <3>2
    <2>. QED BY <2>1, <2>2
  <1>. HIDE DEF ks, os
  <1>9. ASSUME NEW i \in 1..(n + m)
        PROVE  /\ Allowed(ks[i - 1], os[i - 1], u[i])
               /\ ks[i] = KeysAfter(ks[i - 1], u[i])
               /\ os[i] = LiveAfter(os[i - 1], u[i])
    <2>1. CASE i <= n
      <3>1. i \in 1..n /\ i \in 0..n /\ i - 1 \in 0..n
        BY <1>6, <2>1
      <3>2. /\ Allowed(ka[i - 1], oa[i - 1], s[i])
            /\ ka[i] = KeysAfter(ka[i - 1], s[i])
            /\ oa[i] = LiveAfter(oa[i - 1], s[i])
        BY <1>1, <3>1 DEF Run, n
      <3>. QED BY <1>6, <1>8, <3>1, <3>2
    <2>2. CASE ~(i <= n)
      <3> DEFINE j == i - n
      <3>1. /\ i \in n..(n + m) /\ i - 1 \in n..(n + m) /\ i \in (n + 1)..(n + m)
            /\ j \in 1..m /\ (i - 1) - n = j - 1
        BY <1>6, <2>2
      <3>2. /\ Allowed(kb[j - 1], ob[j - 1], t[j])
            /\ kb[j] = KeysAfter(kb[j - 1], t[j])
            /\ ob[j] = LiveAfter(ob[j - 1], t[j])
        BY <1>2, <3>1 DEF Run, m
      <3>3. /\ ks[i] = kb[j] /\ os[i] = ob[j] /\ u[i] = t[j]
            /\ ks[i - 1] = kb[j - 1] /\ os[i - 1] = ob[j - 1]
        BY <1>6, <1>8, <3>1
      <3>. QED BY <3>2, <3>3
    <2>. QED BY <2>1, <2>2
  <1>10. ks[0] = K /\ os[0] = O
    BY <1>1, <1>6, <1>8 DEF Run
  <1>11. ks[n + m] = M /\ os[n + m] = Q
    <2>1. n + m \in n..(n + m) /\ (n + m) - n = m
      BY <1>6
    <2>. QED BY <1>2, <1>8, <2>1 DEF m
  <1>12. Run(K, O, u, ks, os)
    BY <1>6, <1>9, <1>10 DEF Run
  <1>13. Legal(K, O, u, M, Q)
    BY <1>6, <1>7, <1>11, <1>12 DEF Legal
  <1>. QED BY <1>13 DEF u

(* Events of no call. *)
LEMMA LegalPlain ==
  ASSUME NEW K, NEW O, NEW ev, IsEvent(ev),
         ev.kind \notin {"tool_start", "tool_delta", "tool_end"}
  PROVE  Legal(K, O, <<ev>>, K, O)
  <1>1. Allowed(K, O, ev) /\ KeysAfter(K, ev) = K /\ LiveAfter(O, ev) = O
    BY DEF Allowed, KeysAfter, LiveAfter
  <1>2. Legal(K, O, <<ev>>, KeysAfter(K, ev), LiveAfter(O, ev))
    BY <1>1, LegalOne
  <1>. QED BY <1>1, <1>2

LEMMA LegalWhen ==
  ASSUME NEW K, NEW O, NEW es, Legal(K, O, es, K, O), NEW condition
  PROVE  Legal(K, O, When(condition, es), K, O)
  <1>1. CASE condition
    BY <1>1 DEF When
  <1>2. CASE ~condition
    BY <1>2, LegalNone DEF When
  <1>. QED BY <1>1, <1>2

LEMMA LegalEvents ==
  ASSUME NEW K, NEW O, NEW i, NEW d, NEW reason, NEW u
  PROVE  /\ Legal(K, O, <<Event("start")>>, K, O) /\ Legal(K, O, <<Event("done")>>, K, O)
         /\ \A kind \in {"text", "reasoning"} : Legal(K, O, <<Delta(kind, i, d)>>, K, O)
         /\ Legal(K, O, <<Finish(reason)>>, K, O)
         /\ Legal(K, O, Report(u), K, O)
  <1>1. Legal(K, O, <<Event("start")>>, K, O)
    <2>1. IsEvent(Event("start")) /\ Event("start").kind = "start"
      BY DEF IsEvent, Event, EventKinds
    <2>. QED BY <2>1, LegalPlain
  <1>2. Legal(K, O, <<Event("done")>>, K, O)
    <2>1. IsEvent(Event("done")) /\ Event("done").kind = "done"
      BY DEF IsEvent, Event, EventKinds
    <2>. QED BY <2>1, LegalPlain
  <1>3. ASSUME NEW kind \in {"text", "reasoning"} PROVE Legal(K, O, <<Delta(kind, i, d)>>, K, O)
    <2>1. IsEvent(Delta(kind, i, d)) /\ Delta(kind, i, d).kind = kind
      BY DEF IsEvent, Delta, Event, EventKinds, ContentKinds
    <2>2. Delta(kind, i, d).kind \notin {"tool_start", "tool_delta", "tool_end"}
      BY <2>1
    <2>. QED BY <2>1, <2>2, LegalPlain
  <1>4. Legal(K, O, <<Finish(reason)>>, K, O)
    <2>1. IsEvent(Finish(reason)) /\ Finish(reason).kind = "finish"
      BY DEF IsEvent, Finish, Event, EventKinds
    <2>. QED BY <2>1, LegalPlain
  <1>5. Legal(K, O, Report(u), K, O)
    <2> DEFINE x == [Event("usage") EXCEPT !.usage = u]
    <2>1. IsEvent(x) /\ x.kind = "usage"
      BY DEF IsEvent, Event, EventKinds
    <2>. HIDE DEF x
    <2>2. Legal(K, O, <<x>>, K, O)
      BY <2>1, LegalPlain
    <2>3. Report(u) = <<>> \/ Report(u) = <<x>>
      BY DEF Report, x
    <2>. QED BY <2>2, <2>3, LegalNone
  <1>. QED BY <1>1, <1>2, <1>3, <1>4, <1>5

-----------------------------------------------------------------------------
(* The frame of a stream. *)

Inside(w) == ~Begins(w) /\ ~Ends(w)
Plain(out) == \A w : Member(w, out) => Inside(w)

(* Events written so far in protocol p: they have begun if st, with the    *)
(* first of them, and ended if dn. Chat has no event of its own to begin.  *)
Frame(p, s, st, dn) ==
  /\ IsSeq(s) /\ st \in BOOLEAN /\ dn \in BOOLEAN
  /\ st <=> s # <<>>
  /\ p # "chat" /\ s # <<>> => Begins(s[1])
  /\ \A i \in DOMAIN s : Begins(s[i]) => i = 1
  /\ \A i \in DOMAIN s : Ends(s[i]) => i = Len(s) /\ dn
  /\ dn => s # <<>> /\ Ends(s[Len(s)])

LEMMA FrameNothing ==
  ASSUME NEW p
  PROVE  Frame(p, <<>>, FALSE, FALSE)
  <1>1. IsSeq(<<>>) /\ DOMAIN <<>> = {}
    BY Singles
  <1>. QED BY <1>1 DEF Frame

LEMMA FrameMore ==
  ASSUME NEW p, NEW s, NEW st, Frame(p, s, st, FALSE), NEW w
  PROVE  /\ Begins(w) /\ ~Ends(w) /\ ~st => Frame(p, Append(s, w), TRUE, FALSE)
         /\ Inside(w) /\ (st \/ p = "chat") => Frame(p, Append(s, w), TRUE, FALSE)
         /\ Ends(w) /\ ~Begins(w) /\ st => Frame(p, Append(s, w), TRUE, TRUE)
  <1> DEFINE t == Append(s, w)
             m == Len(s)
  <1>1. /\ IsSeq(s) /\ st \in BOOLEAN
        /\ st <=> s # <<>>
        /\ p # "chat" /\ s # <<>> => Begins(s[1])
        /\ \A i \in DOMAIN s : Begins(s[i]) => i = 1
        /\ \A i \in DOMAIN s : ~Ends(s[i])
    BY DEF Frame
  <1>2. m \in Nat /\ DOMAIN s = 1..m /\ (m = 0 <=> s = <<>>)
    BY <1>1, SeqFacts
  <1>3. /\ IsSeq(t) /\ Len(t) = m + 1 /\ DOMAIN t = 1..(m + 1)
        /\ \A i \in 1..m : t[i] = s[i]
        /\ t[m + 1] = w
    BY <1>1, Appends, SeqFacts
  <1>. HIDE DEF t, m
  <1>4. t # <<>>
    BY <1>2, <1>3, SeqFacts
  <1>5. \A i \in 1..(m + 1) : i \in 1..m \/ i = m + 1
    BY <1>2
  <1>6. (Begins(w) => m = 0) => \A i \in DOMAIN t : Begins(t[i]) => i = 1
    <2>. HIDE DEF Begins
    <2>. QED BY <1>1, <1>2, <1>3, <1>5
  <1>7. \A i \in DOMAIN t : Ends(t[i]) => i = Len(t) /\ Ends(w)
    <2>. HIDE DEF Ends
    <2>. QED BY <1>1, <1>2, <1>3, <1>5
  <1>8. Ends(w) => Ends(t[Len(t)])
    BY <1>3
  <1>9. ASSUME Begins(w) => m = 0, m # 0 \/ Begins(w) \/ p = "chat"
        PROVE  Frame(p, t, TRUE, Ends(w))
    <2>2. p # "chat" => Begins(t[1])
      <3>1. m # 0 => 1 \in 1..m
        BY <1>2
      <3>. HIDE DEF Begins
      <3>. QED BY <1>1, <1>2, <1>3, <1>9, <3>1
    <2>1. Ends(w) \in BOOLEAN
      BY DEF Ends
    <2>. HIDE DEF Begins, Ends
    <2>. QED BY <1>3, <1>4, <1>6, <1>7, <1>8, <1>9, <2>1, <2>2 DEF Frame
  <1>10. st <=> m # 0
    BY <1>1, <1>2
  <1>11. ~Ends(w) => Ends(w) = FALSE
    BY DEF Ends
  <1>12. Ends(w) => Ends(w) = TRUE
    BY DEF Ends
  <1>. HIDE DEF Begins, Ends, Frame
  <1>. QED BY <1>9, <1>10, <1>11, <1>12 DEF Inside, t

(* Events out that take a stream from st to u, and to its end if dn. *)
Leads(p, st, out, u, dn) ==
  IsSeq(out) /\ \A s : Frame(p, s, st, FALSE) => Frame(p, s \o out, u, dn)

LEMMA LeadsNot ==
  ASSUME NEW p, NEW st
  PROVE  Leads(p, st, <<>>, st, FALSE)
  <1>1. IsSeq(<<>>)
    BY Singles
  <1>2. ASSUME NEW s, Frame(p, s, st, FALSE) PROVE Frame(p, s \o <<>>, st, FALSE)
    <2>1. IsSeq(s)
      BY <1>2 DEF Frame
    <2>2. s \o <<>> = s
      BY <2>1, Groups
    <2>. QED BY <1>2, <2>2
  <1>. QED BY <1>1, <1>2 DEF Leads

LEMMA LeadsJoin ==
  ASSUME NEW p, NEW st, NEW x, NEW u, NEW y, NEW v, NEW dn,
         Leads(p, st, x, u, FALSE), Leads(p, u, y, v, dn)
  PROVE  Leads(p, st, x \o y, v, dn)
  <1>1. IsSeq(x) /\ IsSeq(y) /\ IsSeq(x \o y)
    BY Joins DEF Leads
  <1>2. ASSUME NEW s, Frame(p, s, st, FALSE) PROVE Frame(p, s \o (x \o y), v, dn)
    <2>1. Frame(p, (s \o x) \o y, v, dn)
      BY <1>2 DEF Leads
    <2>2. IsSeq(s)
      BY <1>2 DEF Frame
    <2>3. (s \o x) \o y = s \o (x \o y)
      BY <1>1, <2>2, Groups
    <2>. QED BY <2>1, <2>3
  <1>. QED BY <1>1, <1>2 DEF Leads

LEMMA LeadsOne ==
  ASSUME NEW p, NEW w
  PROVE  /\ Begins(w) /\ ~Ends(w) => Leads(p, FALSE, <<w>>, TRUE, FALSE)
         /\ Inside(w) => /\ p = "chat" => Leads(p, FALSE, <<w>>, TRUE, FALSE)
                         /\ Leads(p, TRUE, <<w>>, TRUE, FALSE)
         /\ Ends(w) /\ ~Begins(w) => Leads(p, TRUE, <<w>>, TRUE, TRUE)
  <1>1. IsSeq(<<w>>)
    BY Singles
  <1>2. ASSUME NEW s, NEW st, Frame(p, s, st, FALSE) PROVE s \o <<w>> = Append(s, w)
    <2>1. IsSeq(s)
      BY <1>2 DEF Frame
    <2>. QED BY <2>1, Groups
  <1>3. ASSUME Begins(w), ~Ends(w), NEW s, Frame(p, s, FALSE, FALSE)
        PROVE  Frame(p, s \o <<w>>, TRUE, FALSE)
    <2>1. Frame(p, Append(s, w), TRUE, FALSE)
      BY <1>3, FrameMore
    <2>. QED BY <1>2, <1>3, <2>1
  <1>4. ASSUME Inside(w), NEW s, NEW st, Frame(p, s, st, FALSE), st \/ p = "chat"
        PROVE  Frame(p, s \o <<w>>, TRUE, FALSE)
    <2>1. Frame(p, Append(s, w), TRUE, FALSE)
      BY <1>4, FrameMore
    <2>. QED BY <1>2, <1>4, <2>1
  <1>5. ASSUME Ends(w), ~Begins(w), NEW s, Frame(p, s, TRUE, FALSE)
        PROVE  Frame(p, s \o <<w>>, TRUE, TRUE)
    <2>1. Frame(p, Append(s, w), TRUE, TRUE)
      BY <1>5, FrameMore
    <2>. QED BY <1>2, <1>5, <2>1
  <1>. HIDE DEF Begins, Ends, Inside
  <1>. QED BY <1>1, <1>3, <1>4, <1>5 DEF Leads

LEMMA PlainEvents ==
  /\ Plain(<<>>)
  /\ \A w : Inside(w) => Plain(<<w>>)
  /\ \A c, w : Inside(w) => Plain(When(c, <<w>>))
  /\ \A s, t : IsSeq(s) /\ IsSeq(t) /\ Plain(s) /\ Plain(t) => Plain(s \o t)
  <1>1. Plain(<<>>)
    BY Singles DEF Plain
  <1>2. ASSUME NEW w, Inside(w) PROVE Plain(<<w>>)
    <2>. HIDE DEF Inside
    <2>. QED BY <1>2, Singles DEF Plain
  <1>3. ASSUME NEW s, NEW t, IsSeq(s), IsSeq(t), Plain(s), Plain(t) PROVE Plain(s \o t)
    <2>. HIDE DEF Inside
    <2>. QED BY <1>3, Joins DEF Plain
  <1>. QED BY <1>1, <1>2, <1>3 DEF When

LEMMA LeadsPlain ==
  ASSUME NEW p, NEW out, IsSeq(out), Plain(out)
  PROVE  Leads(p, TRUE, out, TRUE, FALSE)
  <1>1. SUFFICES ASSUME NEW s, Frame(p, s, TRUE, FALSE) PROVE Frame(p, s \o out, TRUE, FALSE)
    BY DEF Leads
  <1> DEFINE t == s \o out
             m == Len(s)
             n == Len(out)
  <1>2. /\ IsSeq(s) /\ s # <<>>
        /\ p # "chat" => Begins(s[1])
        /\ \A i \in DOMAIN s : Begins(s[i]) => i = 1
        /\ \A i \in DOMAIN s : ~Ends(s[i])
    BY <1>1 DEF Frame
  <1>3. m \in Nat /\ DOMAIN s = 1..m /\ n \in Nat /\ DOMAIN out = 1..n
    BY <1>2, SeqFacts
  <1>4. /\ IsSeq(t) /\ Len(t) = m + n /\ DOMAIN t = 1..(m + n)
    BY <1>2, Joins, SeqFacts
  <1>5. \A i \in 1..(m + n) : t[i] = IF i <= m THEN s[i] ELSE out[i - m]
    <2>1. PICK A : s \in Seq(A)
      BY <1>2 DEF IsSeq
    <2>2. PICK B : out \in Seq(B)
      BY DEF IsSeq
    <2>3. s \in Seq(A \cup B) /\ out \in Seq(A \cup B)
      BY <2>1, <2>2
    <2>. QED BY <2>3
  <1>6. \A j \in DOMAIN out : Inside(out[j])
    BY DEF Plain, Member
  <1>. HIDE DEF t, m, n
  <1>7. ASSUME NEW i \in DOMAIN t
        PROVE  \/ i \in DOMAIN s /\ t[i] = s[i]
               \/ i - m \in DOMAIN out /\ t[i] = out[i - m]
    BY <1>3, <1>4, <1>5
  <1>8. \A i \in DOMAIN t : (Begins(t[i]) => i = 1) /\ ~Ends(t[i])
    <2>. HIDE DEF Begins, Ends
    <2>. QED BY <1>2, <1>6, <1>7 DEF Inside
  <1>9. Frame(p, t, TRUE, FALSE)
    <2>1. m # 0
      BY <1>2, SeqFacts DEF m
    <2>2. t # <<>> /\ t[1] = s[1]
      <3>1. 1 <= m /\ 1 \in 1..(m + n) /\ m + n # 0
        BY <1>3, <2>1
      <3>. QED BY <1>4, <1>5, <3>1, SeqFacts
    <2>. HIDE DEF Begins, Ends
    <2>. QED BY <1>2, <1>4, <1>8, <2>2 DEF Frame
  <1>. QED BY <1>9 DEF t

(* A step of the encoder inside the stream. *)
Steady(e, w) == IsSeq(w.out) /\ Plain(w.out) /\ w.enc.started = e.started

LEMMA SteadyStep ==
  ASSUME NEW e, NEW b, b.started = e.started, NEW out, IsSeq(out), Plain(out)
  PROVE  Steady(e, Written(b, out))
  BY DEF Steady, Written

LEMMA SteadyThen ==
  ASSUME NEW e, NEW w, NEW v, Steady(e, w), Steady(w.enc, v)
  PROVE  Steady(e, After(w.out, v))
  <1>1. After(w.out, v).enc = v.enc /\ After(w.out, v).out = w.out \o v.out
    BY DEF After, Written
  <1>2. IsSeq(w.out \o v.out) /\ Plain(w.out \o v.out)
    BY Joins, PlainEvents DEF Steady
  <1>. QED BY <1>1, <1>2 DEF Steady

(* What is written of a block or a call is inside. *)
LEMMA InsideEvents ==
  /\ \A e, kind, i, id : Inside(Open(e, kind, i, id))
  /\ \A e, kind, i, d : Inside(Grow(e, kind, i, d))
  /\ \A e, kind, i, id, content : Inside(Close(e, kind, i, id, content))
  /\ \A i, id, d : Inside(ToolChunk(i, id, d))
  /\ \A d : Inside([Chunk EXCEPT !.delta = d]) /\ Inside([Chunk EXCEPT !.reasoning = d])
  /\ Inside(Chunk)
  <1>1. \A w : w.type \in {"chunk", "content_block_start", "content_block_delta",
                           "content_block_stop", "response.output_item.added",
                           "response.delta", "response.output_item.done"} => Inside(w)
    BY DEF Inside, Begins, Ends, CodexTerminal
  <1>2. \A e, kind, i, id : Open(e, kind, i, id).type \in
                              {"content_block_start", "response.output_item.added"}
    BY DEF Open, blank
  <1>3. \A e, kind, i, d : Grow(e, kind, i, d).type \in {"content_block_delta", "response.delta"}
    BY DEF Grow, blank
  <1>4. \A e, kind, i, id, content : Close(e, kind, i, id, content).type \in
                              {"content_block_stop", "response.output_item.done"}
    BY DEF Close, blank
  <1>5. Chunk.type = "chunk" /\ DOMAIN Chunk = DOMAIN blank /\ DOMAIN blank = DOMAIN Chunk
    BY DEF Chunk, blank
  <1>6. \A i, id, d : ToolChunk(i, id, d).type = "chunk"
    BY DEF ToolChunk, Chunk, blank
  <1>7. \A d : [Chunk EXCEPT !.delta = d].type = "chunk" /\ [Chunk EXCEPT !.reasoning = d].type = "chunk"
    BY DEF Chunk, blank
  <1>. HIDE DEF Inside
  <1>8. \A e, kind, i, id : Inside(Open(e, kind, i, id))
    BY <1>1, <1>2
  <1>9. \A e, kind, i, d : Inside(Grow(e, kind, i, d))
    BY <1>1, <1>3
  <1>10. \A e, kind, i, id, content : Inside(Close(e, kind, i, id, content))
    BY <1>1, <1>4
  <1>11. \A i, id, d : Inside(ToolChunk(i, id, d))
    BY <1>1, <1>6
  <1>12. /\ \A d : Inside([Chunk EXCEPT !.delta = d]) /\ Inside([Chunk EXCEPT !.reasoning = d])
         /\ Inside(Chunk)
    <2>1. Inside(Chunk)
      BY <1>1, <1>5
    <2>2. ASSUME NEW d
          PROVE  Inside([Chunk EXCEPT !.delta = d]) /\ Inside([Chunk EXCEPT !.reasoning = d])
      <3> DEFINE u == [Chunk EXCEPT !.delta = d]
                 v == [Chunk EXCEPT !.reasoning = d]
      <3>1. u.type = "chunk" /\ v.type = "chunk"
        BY <1>7
      <3>. HIDE DEF u, v
      <3>2. Inside(u) /\ Inside(v)
        BY <1>1, <3>1
      <3>. QED BY <3>2 DEF u, v
    <2>. QED BY <2>1, <2>2
  <1>. QED BY <1>8, <1>9, <1>10, <1>11, <1>12

LEMMA ReasoningClosesSteady ==
  ASSUME NEW e, IsEncoder(e)
  PROVE  Steady(e, closeReasoning(e))
  <1> DEFINE b == [e EXCEPT !.reasoningClosed = TRUE]
             w == Close(e, "reasoning", e.reasoningIndex, 0, e.reasoning)
  <1>1. \/ closeReasoning(e) = Written(e, <<>>)
        \/ closeReasoning(e) = Written(b, <<w>>)
    BY DEF closeReasoning
  <1>2. b.started = e.started
    BY DEF IsEncoder, newStreamEncoder
  <1>3. Inside(w)
    BY InsideEvents
  <1>. HIDE DEF b, w, Inside
  <1>. QED BY <1>1, <1>2, <1>3, Singles, PlainEvents, SteadyStep

LEMMA TextClosesSteady ==
  ASSUME NEW e, IsEncoder(e)
  PROVE  Steady(e, closeText(e))
  <1> DEFINE w == Close(e, "text", e.textIndex, 0, e.text)
  <1>1. closeText(e) = Written(e, When(InBlocks(e) /\ e.textIndex # None, <<w>>))
    BY DEF closeText
  <1>2. Inside(w)
    BY InsideEvents
  <1>. HIDE DEF w, Inside
  <1>. QED BY <1>1, <1>2, Whens, PlainEvents, SteadyStep

LEMMA ToolClosesSteady ==
  ASSUME NEW e, IsEncoder(e), NEW k
  PROVE  Steady(e, closeTool(e, k))
  <1> DEFINE t == e.tools[k]
             b == [e EXCEPT !.tools[k].closed = TRUE]
             w == Close(e, "tool", t.index, t.call, t.content)
  <1>1. \/ closeTool(e, k) = Written(e, <<>>)
        \/ closeTool(e, k) = Written(b, When(InBlocks(e), <<w>>))
    BY DEF closeTool
  <1>2. b.started = e.started
    BY DEF IsEncoder, newStreamEncoder
  <1>3. Inside(w)
    BY InsideEvents
  <1>. HIDE DEF b, w, Inside
  <1>. QED BY <1>1, <1>2, <1>3, Singles, Whens, PlainEvents, SteadyStep

LEMMA ToolsCloseSteady ==
  ASSUME NEW e, IsEncoder(e)
  PROVE  Steady(e, closeTools(e))
  <1> DEFINE ks == [k \in DOMAIN e.tools |-> k]
             base == Written(e, <<>>)
             N == Len(ks)
  <1>1. N \in Nat
    <2>1. Len(e.tools) \in Nat /\ DOMAIN e.tools = 1..Len(e.tools)
      BY SeqFacts DEF IsEncoder
    <2>. QED BY <2>1
  <1>2. closeTools(e) = Fold(closeNext, base, ks)
    BY DEF closeTools
  <1> DEFINE Ok(w) == IsEncoder(w.enc) /\ Steady(e, w)
  <1>3. Ok(base)
    BY Singles, PlainEvents, SteadyStep DEF Written
  <1>. HIDE DEF ks, base
  <1>4. PICK g : /\ g = [i \in 0..N |-> IF i = 0 THEN base ELSE closeNext(g[i - 1], ks[i])]
                 /\ Fold(closeNext, base, ks) = g[N]
    BY <1>1, CloseRuns
  <1>5. g[0] = base /\ \A i \in 1..N : g[i] = closeNext(g[i - 1], ks[i])
    BY <1>1, <1>4
  <1> DEFINE S == {m \in Nat : m <= N => Ok(g[m])}
  <1>. HIDE DEF Ok
  <1>6. 0 \in S
    BY <1>1, <1>3, <1>5
  <1>7. ASSUME NEW m \in Nat, m \in S PROVE m + 1 \in S
    <2>1. SUFFICES ASSUME m + 1 <= N PROVE Ok(g[m + 1])
      OBVIOUS
    <2>2. IsEncoder(g[m].enc) /\ Steady(e, g[m])
      BY <1>1, <1>7, <2>1 DEF Ok
    <2> DEFINE v == closeTool(g[m].enc, ks[m + 1])
    <2>3. g[m + 1] = After(g[m].out, v)
      BY <1>1, <1>5, <2>1 DEF closeNext
    <2>4. Steady(g[m].enc, v) /\ IsEncoder(v.enc)
      BY <2>2, ToolClosed, ToolClosesSteady DEF Quiet, Steps
    <2>. HIDE DEF v
    <2>5. After(g[m].out, v).enc = v.enc
      BY DEF After, Written
    <2>. QED BY <2>2, <2>3, <2>4, <2>5, SteadyThen DEF Ok
  <1>8. Nat \subseteq S
    <2>. HIDE DEF S
    <2>. QED BY <1>6, <1>7, SetInduction
  <1>9. Ok(g[N])
    BY <1>1, <1>8
  <1>. QED BY <1>2, <1>4, <1>9 DEF Ok

LEMMA ContentSteady ==
  ASSUME NEW e, IsEncoder(e), NEW ev, ev.kind \in ContentKinds
  PROVE  Steady(e, encodeContent(e, ev))
  <1>1. ASSUME NEW out, IsSeq(out), Plain(out) PROVE Steady(e, Written(e, out))
    BY <1>1, SteadyStep
  <1>2. CASE ev.kind = "text"
    <2> DEFINE d == ev.delta
               first == e.textIndex = None
               i == IF first THEN e.nextIndex ELSE e.textIndex
               b == [e EXCEPT !.text = Append(@, d)]
               c == [e EXCEPT !.textIndex = i, !.text = Append(@, d),
                              !.nextIndex = IF first THEN @ + 1 ELSE @]
               u == [Chunk EXCEPT !.delta = d]
               v == Open(e, "text", i, 0)
               w == Grow(e, "text", i, d)
    <2>1. \/ encodeContent(e, ev) = Written(e, <<>>)
          \/ encodeContent(e, ev) = Written(b, <<u>>)
          \/ encodeContent(e, ev) = Written(c, When(first, <<v>>) \o <<w>>)
      BY <1>2 DEF encodeContent, encodeText
    <2>2. b.started = e.started /\ c.started = e.started
      BY DEF IsEncoder, newStreamEncoder
    <2>3. Inside(u) /\ Inside(v) /\ Inside(w)
      BY InsideEvents
    <2>. HIDE DEF b, c, u, v, w, first, Inside
    <2>4. /\ IsSeq(<<>>) /\ Plain(<<>>) /\ IsSeq(<<u>>) /\ Plain(<<u>>)
          /\ IsSeq(When(first, <<v>>) \o <<w>>) /\ Plain(When(first, <<v>>) \o <<w>>)
      BY <2>3, Singles, Whens, Joins, PlainEvents
    <2>. QED BY <2>1, <2>2, <2>4, SteadyStep
  <1>3. CASE ev.kind = "reasoning"
    <2> DEFINE d == ev.delta
               first == e.reasoningIndex = None
               i == IF first THEN e.nextIndex ELSE e.reasoningIndex
               c == [e EXCEPT !.reasoningIndex = i, !.reasoning = Append(@, d),
                              !.nextIndex = IF first THEN @ + 1 ELSE @]
               u == [Chunk EXCEPT !.reasoning = d]
               v == Open(e, "reasoning", i, 0)
               w == Grow(e, "reasoning", i, d)
    <2>1. \/ encodeContent(e, ev) = Written(e, <<>>)
          \/ encodeContent(e, ev) = Written(e, <<u>>)
          \/ encodeContent(e, ev) = Written(c, When(first, <<v>>) \o <<w>>)
      BY <1>3 DEF encodeContent, encodeReasoning
    <2>2. c.started = e.started
      BY DEF IsEncoder, newStreamEncoder
    <2>3. Inside(u) /\ Inside(v) /\ Inside(w)
      BY InsideEvents
    <2>. HIDE DEF c, u, v, w, first, Inside
    <2>4. /\ IsSeq(<<>>) /\ Plain(<<>>) /\ IsSeq(<<u>>) /\ Plain(<<u>>)
          /\ IsSeq(When(first, <<v>>) \o <<w>>) /\ Plain(When(first, <<v>>) \o <<w>>)
      BY <2>3, Singles, Whens, Joins, PlainEvents
    <2>. QED BY <2>1, <2>2, <2>4, SteadyStep
  <1> DEFINE b == tool(e, ev)
             k == toolAt(b, ev)
             t == b.tools[k]
             x == ToolChunk(t.index, t.call, 0)
             y == Open(b, "tool", t.index, t.call)
             z == ToolChunk(t.index, 0, ev.delta)
             a == Grow(b, "tool", t.index, ev.delta)
             c == [b EXCEPT !.tools[k].content = Append(@, ev.delta)]
  <1>4. IsEncoder(b) /\ b.started = e.started
    <2>1. IsEncoder(b)
      BY Registered
    <2>2. b.started = e.started
      BY DEF tool, registered, IsEncoder, newStreamEncoder
    <2>. QED BY <2>1, <2>2
  <1>5. CASE ev.kind = "tool_start"
    <2>1. \/ encodeContent(e, ev) = Written(b, <<x>>)
          \/ encodeContent(e, ev) = Written(b, <<y>>)
      BY <1>5 DEF encodeContent, encodeToolStart
    <2>2. Inside(x) /\ Inside(y)
      BY InsideEvents
    <2>. HIDE DEF b, x, y, Inside
    <2>. QED BY <1>4, <2>1, <2>2, Singles, PlainEvents, SteadyStep
  <1>6. CASE ev.kind = "tool_delta"
    <2>1. \/ encodeContent(e, ev) = Written(b, <<>>)
          \/ encodeContent(e, ev) = Written(c, <<z>>)
          \/ encodeContent(e, ev) = Written(c, <<a>>)
      BY <1>6 DEF encodeContent, encodeToolDelta
    <2>2. Inside(z) /\ Inside(a)
      BY InsideEvents
    <2>. HIDE DEF b, k
    <2>3. c.started = e.started
      BY <1>4 DEF IsEncoder, newStreamEncoder
    <2>. HIDE DEF c, z, a, Inside
    <2>. QED BY <1>4, <2>1, <2>2, <2>3, Singles, PlainEvents, SteadyStep
  <1>7. CASE ev.kind = "tool_end"
    <2>1. encodeContent(e, ev) = closeTool(b, k)
      BY <1>7 DEF encodeContent, encodeToolEnd
    <2>. HIDE DEF b, k
    <2>2. Steady(b, closeTool(b, k))
      BY <1>4, ToolClosesSteady
    <2>. QED BY <1>4, <2>1, <2>2 DEF Steady
  <1>. QED BY <1>2, <1>3, <1>5, <1>6, <1>7 DEF ContentKinds

LEMMA Pairs ==
  ASSUME NEW v, NEW w
  PROVE  <<v>> \o <<w>> = <<v, w>>
  <1>1. <<v>> \o <<w>> = Append(<<v>>, w)
    BY Singles, Groups
  <1>2. <<v, w>> = Append(<<v>>, w)
    OBVIOUS
  <1>. QED BY <1>1, <1>2

LEMMA BegunLeads ==
  ASSUME NEW e, IsEncoder(e)
  PROVE  /\ Leads(e.protocol, e.started, ensureStarted(e).out, TRUE, FALSE)
         /\ ensureStarted(e).enc.started = TRUE
  <1> DEFINE b == [e EXCEPT !.started = TRUE]
             v == [blank EXCEPT !.type = "message_start", !.usage = e.usage]
             w == [blank EXCEPT !.type = "response.created"]
             x == [blank EXCEPT !.type = "response.in_progress"]
  <1>1. CASE e.started
    <2>1. ensureStarted(e) = Written(e, <<>>) /\ e.started = TRUE
      BY <1>1 DEF ensureStarted, IsEncoder
    <2>2. ensureStarted(e).out = <<>> /\ ensureStarted(e).enc = e
      BY <2>1 DEF Written
    <2>. QED BY <2>1, <2>2, LeadsNot
  <1>2. CASE ~e.started
    <2>1. \/ ensureStarted(e) = Written(b, <<Chunk>>) /\ e.protocol = "chat"
          \/ ensureStarted(e) = Written(b, <<v>>)
          \/ ensureStarted(e) = Written(b, <<w, x>>)
      BY <1>2 DEF ensureStarted, IsEncoder, Client
    <2>2. b.started = TRUE /\ e.started = FALSE
      BY <1>2 DEF IsEncoder, newStreamEncoder
    <2>3. v.type = "message_start" /\ w.type = "response.created"
          /\ x.type = "response.in_progress"
      BY DEF blank
    <2>. HIDE DEF b, v, w, x
    <2>4. Begins(v) /\ ~Ends(v) /\ Begins(w) /\ ~Ends(w) /\ Inside(x)
      BY <2>3 DEF Begins, Ends, CodexTerminal, Inside
    <2>5. Inside(Chunk)
      BY InsideEvents
    <2>. HIDE DEF Begins, Ends, Inside
    <2>6. /\ Leads(e.protocol, FALSE, <<v>>, TRUE, FALSE)
          /\ e.protocol = "chat" => Leads(e.protocol, FALSE, <<Chunk>>, TRUE, FALSE)
      BY <2>4, <2>5, LeadsOne
    <2>7. Leads(e.protocol, FALSE, <<w>>, TRUE, FALSE) /\ Leads(e.protocol, TRUE, <<x>>, TRUE, FALSE)
      BY <2>4, LeadsOne
    <2>8. <<w>> \o <<x>> = <<w, x>>
      BY Pairs
    <2>9. Leads(e.protocol, FALSE, <<w, x>>, TRUE, FALSE)
      BY <2>7, <2>8, LeadsJoin
    <2>10. ASSUME NEW out, Leads(e.protocol, FALSE, out, TRUE, FALSE), ensureStarted(e) = Written(b, out)
           PROVE  /\ Leads(e.protocol, e.started, ensureStarted(e).out, TRUE, FALSE)
                  /\ ensureStarted(e).enc.started = TRUE
      <3>1. ensureStarted(e).out = out /\ ensureStarted(e).enc = b
        BY <2>10 DEF Written
      <3>. QED BY <2>2, <2>10, <3>1
    <2>. QED BY <2>1, <2>6, <2>9, <2>10
  <1>. QED BY <1>1, <1>2

LEMMA GoodbyeLeads ==
  ASSUME NEW p, NEW e, IsEncoder(e)
  PROVE  Leads(p, TRUE, farewell(e).out, TRUE, TRUE) /\ farewell(e).enc = e
  <1> DEFINE v == [Chunk EXCEPT !.stop = chatStop(e.stop), !.usage = e.usage]
             w == [blank EXCEPT !.type = "DONE"]
             x == [blank EXCEPT !.type = "message_delta", !.stop = messagesStop(e.stop),
                                !.usage = e.usage]
             y == [blank EXCEPT !.type = "message_stop"]
             z == [blank EXCEPT !.type = "response.completed", !.usage = e.usage,
                                !.output = responseOutput(e)]
  <1>1. \/ farewell(e) = Written(e, <<v, w>>)
        \/ farewell(e) = Written(e, <<x, y>>)
        \/ farewell(e) = Written(e, <<z>>)
    BY DEF farewell, IsEncoder, Client
  <1>2. /\ v.type = "chunk" /\ w.type = "DONE" /\ x.type = "message_delta"
        /\ y.type = "message_stop" /\ z.type = "response.completed"
    BY DEF Chunk, blank
  <1>. HIDE DEF v, w, x, y, z
  <1>3. /\ Inside(v) /\ Inside(x) /\ Ends(w) /\ ~Begins(w) /\ Ends(y) /\ ~Begins(y)
        /\ Ends(z) /\ ~Begins(z)
    BY <1>2 DEF Begins, Ends, CodexTerminal, Inside
  <1>. HIDE DEF Begins, Ends, Inside
  <1>4. /\ Leads(p, TRUE, <<v>>, TRUE, FALSE) /\ Leads(p, TRUE, <<x>>, TRUE, FALSE)
        /\ Leads(p, TRUE, <<w>>, TRUE, TRUE) /\ Leads(p, TRUE, <<y>>, TRUE, TRUE)
        /\ Leads(p, TRUE, <<z>>, TRUE, TRUE)
    BY <1>3, LeadsOne
  <1>5. <<v>> \o <<w>> = <<v, w>> /\ <<x>> \o <<y>> = <<x, y>>
    BY Pairs
  <1>6. Leads(p, TRUE, <<v>> \o <<w>>, TRUE, TRUE) /\ Leads(p, TRUE, <<x>> \o <<y>>, TRUE, TRUE)
    BY <1>4, LeadsJoin
  <1>7. Leads(p, TRUE, <<v, w>>, TRUE, TRUE) /\ Leads(p, TRUE, <<x, y>>, TRUE, TRUE)
    BY <1>5, <1>6
  <1>8. ASSUME NEW out, Leads(p, TRUE, out, TRUE, TRUE), farewell(e) = Written(e, out)
        PROVE  Leads(p, TRUE, farewell(e).out, TRUE, TRUE) /\ farewell(e).enc = e
    <2>1. farewell(e).out = out /\ farewell(e).enc = e
      BY <1>8 DEF Written
    <2>. QED BY <1>8, <2>1
  <1>. QED BY <1>1, <1>4, <1>7, <1>8

LEMMA FinishLeads ==
  ASSUME NEW e, IsEncoder(e)
  PROVE  Leads(e.protocol, e.started, finish(e).out, TRUE, TRUE) /\ finish(e).enc.started = TRUE
  <1> DEFINE b == [e EXCEPT !.done = TRUE]
             v1 == ensureStarted(b)
             v2 == After(v1.out, closeTools(v1.enc))
             v3 == After(v2.out, closeReasoning(v2.enc))
             v4 == After(v3.out, closeText(v3.enc))
             v5 == After(v4.out, farewell(v4.enc))
             Led(v) == IsEncoder(v.enc) /\ v.enc.started = TRUE /\ Leads(e.protocol, e.started, v.out, TRUE, FALSE)
  <1>1. IsEncoder(b) /\ b.started = e.started /\ b.protocol = e.protocol
    BY DEF IsEncoder, newStreamEncoder
  <1>2. finish(e) = v5
    BY DEF finish, Then
  <1>3. Led(v1)
    BY <1>1, Begun, BegunLeads DEF Quiet, Steps
  <1>4. ASSUME NEW v, Led(v), NEW w, IsEncoder(w.enc), Steady(v.enc, w)
        PROVE  Led(After(v.out, w))
    <2>1. After(v.out, w).enc = w.enc /\ After(v.out, w).out = v.out \o w.out
      BY DEF After, Written
    <2>2. Leads(e.protocol, TRUE, w.out, TRUE, FALSE)
      BY <1>4, LeadsPlain DEF Steady
    <2>3. Leads(e.protocol, e.started, v.out \o w.out, TRUE, FALSE)
      BY <1>4, <2>2, LeadsJoin
    <2>. QED BY <1>4, <2>1, <2>3 DEF Steady
  <1>. HIDE DEF b, v1
  <1>5. Led(v2)
    <2> DEFINE w == closeTools(v1.enc)
    <2>1. IsEncoder(w.enc) /\ Steady(v1.enc, w)
      BY <1>3, ToolsClosed, ToolsCloseSteady DEF Quiet, Steps
    <2>. HIDE DEF w, Led
    <2>. QED BY <1>3, <1>4, <2>1 DEF w
  <1>. HIDE DEF v2
  <1>6. Led(v3)
    <2> DEFINE w == closeReasoning(v2.enc)
    <2>1. IsEncoder(w.enc) /\ Steady(v2.enc, w)
      BY <1>5, ReasoningClosed, ReasoningClosesSteady DEF Quiet, Steps
    <2>. HIDE DEF w, Led
    <2>. QED BY <1>4, <1>5, <2>1 DEF w
  <1>. HIDE DEF v3
  <1>7. Led(v4)
    <2> DEFINE w == closeText(v3.enc)
    <2>1. IsEncoder(w.enc) /\ Steady(v3.enc, w)
      BY <1>6, TextClosed, TextClosesSteady DEF Quiet, Steps
    <2>. HIDE DEF w, Led
    <2>. QED BY <1>4, <1>6, <2>1 DEF w
  <1>. HIDE DEF v4
  <1>8. /\ v5.enc = v4.enc /\ v5.out = v4.out \o farewell(v4.enc).out
        /\ Leads(e.protocol, TRUE, farewell(v4.enc).out, TRUE, TRUE)
    BY <1>7, GoodbyeLeads DEF After, Written
  <1>9. Leads(e.protocol, e.started, v4.out \o farewell(v4.enc).out, TRUE, TRUE)
    BY <1>7, <1>8, LeadsJoin
  <1>. HIDE DEF v5
  <1>. QED BY <1>2, <1>7, <1>8, <1>9

(* One event takes a stream on, and ends it if it is "done". *)
LEMMA EncodeLeads ==
  ASSUME NEW e, IsEncoder(e), ~e.done, NEW ev, ev.kind \in EventKinds
  PROVE  Leads(e.protocol, e.started, Encode(e, ev).out, Encode(e, ev).enc.started, ev.kind = "done")
  <1>1. ASSUME NEW b, Encode(e, ev) = Written(b, <<>>), b.started = e.started, ev.kind # "done"
        PROVE  Leads(e.protocol, e.started, Encode(e, ev).out, Encode(e, ev).enc.started, ev.kind = "done")
    <2>1. Encode(e, ev).enc = b /\ Encode(e, ev).out = <<>> /\ (ev.kind = "done") = FALSE
      BY <1>1 DEF Written
    <2>. QED BY <1>1, <2>1, LeadsNot
  <1>2. CASE ev.kind = "start"
    <2>1. Encode(e, ev) = Written(e, <<>>)
      BY <1>2 DEF Encode
    <2>. QED BY <1>1, <1>2, <2>1
  <1>3. CASE ev.kind = "usage"
    <2> DEFINE b == [e EXCEPT !.usage = mergeUsage(@, ev.usage)]
    <2>1. Encode(e, ev) = Written(b, <<>>) /\ b.started = e.started
      BY <1>3 DEF Encode, IsEncoder, newStreamEncoder
    <2>. HIDE DEF b
    <2>. QED BY <1>1, <1>3, <2>1
  <1>4. CASE ev.kind = "finish"
    <2> DEFINE b == [e EXCEPT !.stop = ev.stop]
    <2>1. Encode(e, ev) = Written(b, <<>>) /\ b.started = e.started
      BY <1>4 DEF Encode, IsEncoder, newStreamEncoder
    <2>. HIDE DEF b
    <2>. QED BY <1>1, <1>4, <2>1
  <1>5. CASE ev.kind = "done"
    <2>1. Encode(e, ev) = finish(e) /\ (ev.kind = "done") = TRUE
      BY <1>5 DEF Encode
    <2>. QED BY <2>1, FinishLeads
  <1>6. CASE ev.kind \in ContentKinds
    <2> DEFINE begun == ensureStarted(e)
               u == closeReasoning(begun.enc)
               closed == IF InBlocks(e) /\ ev.kind # "reasoning" THEN After(begun.out, u) ELSE begun
               v == encodeContent(closed.enc, ev)
               Led(w) == IsEncoder(w.enc) /\ w.enc.started = TRUE /\ Leads(e.protocol, e.started, w.out, TRUE, FALSE)
    <2>1. Encode(e, ev) = After(closed.out, v) /\ (ev.kind = "done") = FALSE
      BY <1>6 DEF Encode, Then, ContentKinds
    <2>2. Led(begun)
      BY Begun, BegunLeads DEF Quiet, Steps
    <2>3. ASSUME NEW x, Led(x), NEW w, IsEncoder(w.enc), Steady(x.enc, w)
          PROVE  Led(After(x.out, w))
      <3>1. After(x.out, w).enc = w.enc /\ After(x.out, w).out = x.out \o w.out
        BY DEF After, Written
      <3>2. Leads(e.protocol, TRUE, w.out, TRUE, FALSE)
        BY <2>3, LeadsPlain DEF Steady
      <3>3. Leads(e.protocol, e.started, x.out \o w.out, TRUE, FALSE)
        BY <2>3, <3>2, LeadsJoin
      <3>. QED BY <2>3, <3>1, <3>3 DEF Steady
    <2>. HIDE DEF begun
    <2>4. IsEncoder(u.enc) /\ Steady(begun.enc, u)
      BY <2>2, ReasoningClosed, ReasoningClosesSteady DEF Quiet, Steps
    <2>. HIDE DEF u
    <2>5. Led(closed)
      <3>. HIDE DEF Led
      <3>. QED BY <2>2, <2>3, <2>4
    <2>. HIDE DEF closed
    <2>6. IsEncoder(v.enc) /\ Steady(closed.enc, v)
      BY <1>6, <2>5, ContentEncoded, ContentSteady DEF Steps
    <2>. HIDE DEF v
    <2>7. Led(After(closed.out, v))
      <3>. HIDE DEF Led
      <3>. QED BY <2>3, <2>5, <2>6
    <2>. QED BY <2>1, <2>7
  <1>. QED BY <1>2, <1>3, <1>4, <1>5, <1>6 DEF EventKinds

-----------------------------------------------------------------------------
(* Converting a run of allowed events. *)

(* What Convert has gathered of events that led to the keys K and O, from  *)
(* an encoder e.                                                           *)
FitsTo(e, acc, K, O) ==
  /\ IsEncoder(acc.enc) /\ acc.enc.protocol = e.protocol
  /\ acc.done \in BOOLEAN /\ (acc.done <=> acc.enc.done)
  /\ Turns(e.nextIndex, ClosedOf(e), acc.out, acc.enc.nextIndex,
           IF acc.enc.done THEN 0..(acc.enc.nextIndex - 1) ELSE ClosedOf(acc.enc))
  /\ Leads(e.protocol, e.started, acc.out, acc.enc.started, acc.enc.done)
  /\ ~acc.enc.done =>
       Tidy(acc.enc) /\ Keys(acc.enc) = K /\ O \subseteq LiveKeys(acc.enc)

LEMMA EventFits ==
  ASSUME NEW e, NEW acc, NEW K, NEW O, FitsTo(e, acc, K, O), NEW ev, Allowed(K, O, ev)
  PROVE  FitsTo(e, encodeEvent(acc, ev), KeysAfter(K, ev), LiveAfter(O, ev))
  <1> DEFINE x == IF from = "antigravity" /\ to = "messages" /\ ev.kind = "usage"
                    THEN [ev EXCEPT !.usage = AccountingUsage(@)] ELSE ev
             a == acc.enc
             w == Encode(a, x)
             next == Joined(acc, ev, w)
  <1>1. encodeEvent(acc, ev) = next
    BY DEF encodeEvent
  <1>2. /\ x.kind = ev.kind /\ x.delta = ev.delta /\ x.call = ev.call /\ x.index = ev.index
        /\ DOMAIN x = DOMAIN ev
    BY DEF Allowed, IsEvent, Event
  <1>. HIDE DEF x
  <1>3. Allowed(K, O, x) /\ KeysAfter(K, x) = KeysAfter(K, ev) /\ LiveAfter(O, x) = LiveAfter(O, ev)
    BY <1>2 DEF Allowed, IsEvent, KeysAfter, LiveAfter, toolKey
  <1>4. IsEncoder(a) /\ x.kind \in EventKinds /\ a.done \in BOOLEAN
    BY <1>3 DEF FitsTo, Allowed, IsEvent, IsEncoder
  <1>5. /\ IsEncoder(w.enc) /\ w.enc.protocol = a.protocol
        /\ w.enc.done <=> a.done \/ ev.kind = "done"
    <2>. HIDE DEF a
    <2>1. /\ IsEncoder(Encode(a, x).enc) /\ Encode(a, x).enc.protocol = a.protocol
          /\ Encode(a, x).enc.done <=> a.done \/ x.kind = "done"
      BY <1>4, Encoded
    <2>. QED BY <1>2, <2>1
  <1>6. /\ next.enc = w.enc /\ next.out = acc.out \o w.out
        /\ next.done = (acc.done \/ ev.kind = "done")
    BY DEF Joined
  <1>7. CASE a.done
    <2>1. w = Written(a, <<>>)
      BY <1>7 DEF Encode
    <2>2. w.enc = a /\ w.out = <<>>
      BY <2>1 DEF Written
    <2>3. IsSeq(acc.out) /\ IsSeq(<<>>)
      BY Singles DEF FitsTo, Turns
    <2>4. next.out = acc.out
      BY <1>6, <2>2, <2>3, Groups
    <2>. HIDE DEF next, w
    <2>5. FitsTo(e, next, KeysAfter(K, ev), LiveAfter(O, ev))
      BY <1>4, <1>6, <1>7, <2>2, <2>4 DEF FitsTo
    <2>. QED BY <1>1, <2>5 DEF next, w
  <1>8. CASE ~a.done
    <2> DEFINE n == w.enc.nextIndex
    <2>1. Tidy(a) /\ Keys(a) = K /\ O \subseteq LiveKeys(a)
      BY <1>8 DEF FitsTo
    <2>. HIDE DEF a
    <2>2. /\ Turns(a.nextIndex, ClosedOf(a), w.out, n,
                   IF x.kind = "done" THEN 0..(n - 1) ELSE ClosedOf(w.enc))
          /\ x.kind # "done" =>
               /\ Tidy(w.enc) /\ Keys(w.enc) = KeysAfter(K, x)
               /\ LiveAfter(O, x) \subseteq LiveKeys(w.enc)
      BY <1>3, <1>8, <2>1, EncodeTurns
    <2>3. Turns(e.nextIndex, ClosedOf(e), acc.out, a.nextIndex, ClosedOf(a))
      BY <1>8 DEF FitsTo, a
    <2>. HIDE DEF next, w
    <2>4. Turns(e.nextIndex, ClosedOf(e), acc.out \o w.out, n,
                IF x.kind = "done" THEN 0..(n - 1) ELSE ClosedOf(w.enc))
      BY <2>2, <2>3, TurnsJoin
    <2>5. w.enc.done <=> ev.kind = "done"
      BY <1>5, <1>8
    <2>6. Turns(e.nextIndex, ClosedOf(e), next.out, n,
                IF next.enc.done THEN 0..(n - 1) ELSE ClosedOf(next.enc))
      BY <1>2, <1>6, <2>4, <2>5
    <2>7. acc.done \in BOOLEAN /\ (acc.done <=> a.done) /\ a.protocol = e.protocol
      BY DEF FitsTo, a
    <2>8. next.done \in BOOLEAN /\ (next.done <=> next.enc.done)
      BY <1>6, <1>8, <2>5, <2>7
    <2>9. ~next.enc.done => /\ Tidy(next.enc) /\ Keys(next.enc) = KeysAfter(K, ev)
                            /\ LiveAfter(O, ev) \subseteq LiveKeys(next.enc)
      BY <1>2, <1>3, <1>6, <2>2, <2>5
    <2>10. Leads(e.protocol, e.started, next.out, next.enc.started, next.enc.done)
      <3>1. a.done = FALSE
        BY <1>4, <1>8
      <3>2. Leads(e.protocol, e.started, acc.out, a.started, FALSE)
        BY <3>1 DEF FitsTo, a
      <3>3. w.enc.done = (x.kind = "done")
        BY <1>2, <1>5, <2>5 DEF IsEncoder
      <3>4. Leads(a.protocol, a.started, w.out, w.enc.started, x.kind = "done")
        BY <1>4, <1>8, EncodeLeads DEF w
      <3>5. Leads(e.protocol, e.started, acc.out \o w.out, w.enc.started, x.kind = "done")
        BY <2>7, <3>2, <3>4, LeadsJoin
      <3>. QED BY <1>6, <3>3, <3>5
    <2>11. FitsTo(e, next, KeysAfter(K, ev), LiveAfter(O, ev))
      BY <1>5, <1>6, <2>6, <2>7, <2>8, <2>9, <2>10 DEF FitsTo
    <2>. QED BY <1>1, <2>11 DEF next, w, a
  <1>. QED BY <1>4, <1>7, <1>8

LEMMA ConvertFits ==
  ASSUME NEW O, NEW events, NEW L, NEW P, Tidy(enc), ~enc.done,
         O \subseteq LiveKeys(enc), Legal(Keys(enc), O, events, L, P)
  PROVE  FitsTo(enc, Convert(events), L, P)
  <1> DEFINE N == Len(events)
             K == Keys(enc)
             base == [enc |-> enc, out |-> <<>>, done |-> FALSE, semantic |-> FALSE]
  <1>1. PICK ks, os : Run(K, O, events, ks, os) /\ ks[N] = L /\ os[N] = P
    BY DEF Legal
  <1>2. N \in Nat
    BY SeqFacts DEF Legal
  <1> DEFINE Ok(acc, m) == FitsTo(enc, acc, ks[m], os[m])
  <1>3. Ok(base, 0)
    <2>1. base.enc = enc /\ base.out = <<>> /\ base.done = FALSE
      OBVIOUS
    <2>2. ks[0] = K /\ os[0] = O
      BY <1>1 DEF Run
    <2>3. IsEncoder(enc) /\ enc.done \in BOOLEAN
      BY DEF Tidy, IsEncoder
    <2>. HIDE DEF base
    <2>4. Leads(enc.protocol, enc.started, <<>>, enc.started, enc.done)
      <3>1. enc.done = FALSE
        BY <2>3
      <3>. QED BY <3>1, LeadsNot
    <2>. QED BY <2>1, <2>2, <2>3, <2>4, TurnsNot DEF FitsTo
  <1>4. Convert(events) = Fold(encodeEvent, base, events)
    BY DEF Convert
  <1>. HIDE DEF base, K
  <1>5. PICK g : /\ g = [i \in 0..N |-> IF i = 0 THEN base ELSE encodeEvent(g[i - 1], events[i])]
                 /\ Fold(encodeEvent, base, events) = g[N]
    BY <1>2, ConvertRuns
  <1>6. g[0] = base /\ \A i \in 1..N : g[i] = encodeEvent(g[i - 1], events[i])
    BY <1>2, <1>5
  <1>7. Convert(events) = g[N]
    BY <1>4, <1>5
  <1> DEFINE S == {m \in Nat : m <= N => Ok(g[m], m)}
  <1>. HIDE DEF Ok
  <1>8. 0 \in S
    BY <1>3, <1>6
  <1>9. ASSUME NEW m \in Nat, m \in S PROVE m + 1 \in S
    <2>1. SUFFICES ASSUME m + 1 <= N PROVE Ok(g[m + 1], m + 1)
      OBVIOUS
    <2>2. Ok(g[m], m)
      BY <1>2, <1>9, <2>1
    <2>3. m + 1 \in 1..N /\ g[m + 1] = encodeEvent(g[m], events[m + 1]) /\ (m + 1) - 1 = m
      BY <1>2, <1>6, <2>1
    <2>4. /\ Allowed(ks[m], os[m], events[m + 1])
          /\ ks[m + 1] = KeysAfter(ks[m], events[m + 1])
          /\ os[m + 1] = LiveAfter(os[m], events[m + 1])
      BY <1>1, <2>3 DEF Run
    <2>. QED BY <2>2, <2>3, <2>4, EventFits DEF Ok
  <1>10. Nat \subseteq S
    <2>. HIDE DEF S
    <2>. QED BY <1>8, <1>9, SetInduction
  <1>11. Ok(g[N], N)
    BY <1>2, <1>10
  <1>. QED BY <1>1, <1>7, <1>11 DEF Ok

(* Convert is done exactly if the events say so. *)
LEMMA ConvertDone ==
  ASSUME NEW events, IsSeq(events)
  PROVE  Convert(events).done \in BOOLEAN /\ (Convert(events).done <=> Finishes(events))
  <1> DEFINE N == Len(events)
             base == [enc |-> enc, out |-> <<>>, done |-> FALSE, semantic |-> FALSE]
             Ok(acc, m) == /\ acc.done \in BOOLEAN
                           /\ acc.done <=> \E i \in 1..m : events[i].kind = "done"
  <1>1. N \in Nat /\ DOMAIN events = 1..N
    BY SeqFacts
  <1>2. Ok(base, 0)
    OBVIOUS
  <1>3. Convert(events) = Fold(encodeEvent, base, events)
    BY DEF Convert
  <1>. HIDE DEF base
  <1>4. PICK g : /\ g = [i \in 0..N |-> IF i = 0 THEN base ELSE encodeEvent(g[i - 1], events[i])]
                 /\ Fold(encodeEvent, base, events) = g[N]
    BY <1>1, ConvertRuns
  <1>5. g[0] = base /\ \A i \in 1..N : g[i] = encodeEvent(g[i - 1], events[i])
    BY <1>1, <1>4
  <1>6. Convert(events) = g[N]
    BY <1>3, <1>4
  <1> DEFINE S == {m \in Nat : m <= N => Ok(g[m], m)}
  <1>. HIDE DEF Ok
  <1>7. 0 \in S
    BY <1>2, <1>5
  <1>8. ASSUME NEW m \in Nat, m \in S PROVE m + 1 \in S
    <2>1. SUFFICES ASSUME m + 1 <= N PROVE Ok(g[m + 1], m + 1)
      OBVIOUS
    <2>2. Ok(g[m], m)
      BY <1>1, <1>8, <2>1
    <2> DEFINE ev == events[m + 1]
               next == encodeEvent(g[m], ev)
    <2>3. g[m + 1] = next
      BY <1>1, <1>5, <2>1
    <2>4. next.done = (g[m].done \/ ev.kind = "done")
      BY DEF encodeEvent, Joined
    <2>. HIDE DEF next
    <2>5. \A i \in 1..(m + 1) : i \in 1..m \/ i = m + 1
      OBVIOUS
    <2>6. 1..m \subseteq 1..(m + 1) /\ m + 1 \in 1..(m + 1)
      OBVIOUS
    <2>7. Ok(next, m + 1)
      BY <2>2, <2>4, <2>5, <2>6 DEF Ok
    <2>. QED BY <2>3, <2>7
  <1>9. Nat \subseteq S
    <2>. HIDE DEF S
    <2>. QED BY <1>7, <1>8, SetInduction
  <1>10. Ok(g[N], N)
    BY <1>1, <1>9
  <1>11. Finishes(events) <=> \E i \in 1..N : events[i].kind = "done"
    BY <1>1 DEF Finishes, Member
  <1>. QED BY <1>6, <1>10, <1>11 DEF Ok

-----------------------------------------------------------------------------
(* What the client has been written: its blocks are well formed, and all   *)
(* of them closed when the stream is done.                                 *)

(* It begins and ends as the encoder, or the upstream that is passed      *)
(* through, has begun and the relay is done.                               *)
Framing ==
  /\ status = "done" => pending = <<>>
  /\ \E st : Frame(to, seen \o pending, st, status = "done")
  /\ status = "open" =>
       Frame(to, seen \o pending, IF PassThrough THEN up.begun ELSE enc.started, FALSE)

Watched ==
  /\ IsSeq(seen) /\ IsSeq(pending)
  /\ \E n, C : /\ Good(seen \o pending, n, C)
               /\ status = "done" /\ ~PassThrough => pending = <<>> /\ C = 0..(n - 1)
  /\ Framing

(* While the stream goes on, these are the encoder's blocks. *)
Encoding ==
  status = "open" /\ ~PassThrough =>
    /\ Tidy(enc) /\ ~enc.done /\ enc.protocol = to
    /\ Good(seen \o pending, enc.nextIndex, ClosedOf(enc))

LEMMA Relays ==
  ASSUME IsSeq(seen), IsSeq(pending), NEW out, IsSeq(out), NEW semantic, NEW done \in BOOLEAN,
         Relay(out, semantic, done)
  PROVE  /\ IsSeq(seen') /\ IsSeq(pending')
         /\ seen' \o pending' = (seen \o pending) \o out
         /\ status' = IF done THEN "done" ELSE "open"
         /\ done => pending' = <<>>
  <1>1. status' = IF done THEN "done" ELSE "open"
    BY DEF Relay
  <1>2. CASE HoldsBack /\ ~semantic /\ ~done /\ seen = <<>>
    <2>1. pending' = pending \o out /\ seen' = seen
      BY <1>2 DEF Relay
    <2>. QED BY <1>1, <1>2, <2>1, Groups, Joins
  <1>3. CASE ~(HoldsBack /\ ~semantic /\ ~done /\ seen = <<>>)
    <2>1. pending' = <<>> /\ seen' = (seen \o pending) \o out
      BY <1>3 DEF Relay
    <2>2. IsSeq(<<>>) /\ IsSeq(seen \o pending) /\ IsSeq((seen \o pending) \o out)
      BY Singles, Joins
    <2>3. ((seen \o pending) \o out) \o <<>> = (seen \o pending) \o out
      BY <2>2, Groups
    <2>. QED BY <1>1, <2>1, <2>2, <2>3
  <1>. QED BY <1>2, <1>3

LEMMA GivesUp ==
  ASSUME Watched, GiveUp, status = "open", from' = from, to' = to
  PROVE  Watched' /\ Encoding' /\ status' = "failed"
  <1>1. status' = "failed" /\ pending' = pending /\ seen' = seen
    BY DEF GiveUp
  <1>2. Encoding'
    BY <1>1 DEF Encoding
  <1>3. Framing'
    <2>1. status # "done" /\ status' # "done" /\ status' # "open"
      BY <1>1
    <2>2. PICK st : Frame(to, seen \o pending, st, status = "done")
      BY DEF Watched, Framing
    <2>3. Frame(to', seen' \o pending', st, status' = "done")
      BY <1>1, <2>1, <2>2
    <2>. QED BY <2>1, <2>3 DEF Framing
  <1>4. Watched'
    BY <1>1, <1>3 DEF Watched
  <1>. QED BY <1>1, <1>2, <1>4

(* What has been written is taken on, and ended if the relay is done. *)
LEMMA Frames ==
  ASSUME Watched, status = "open", NEW out, NEW st, NEW dn, NEW done \in BOOLEAN,
         dn = done, to' = to,
         Leads(to, IF PassThrough THEN up.begun ELSE enc.started, out, st, dn),
         PassThrough' <=> PassThrough,
         ~done => st = IF PassThrough THEN up'.begun ELSE enc'.started,
         seen' \o pending' = (seen \o pending) \o out,
         status' = IF done THEN "done" ELSE "open",
         done => pending' = <<>>
  PROVE  Framing'
  <1>1. Frame(to, seen \o pending, IF PassThrough THEN up.begun ELSE enc.started, FALSE)
    BY DEF Watched, Framing
  <1>2. Frame(to', seen' \o pending', st, done)
    BY <1>1 DEF Leads
  <1>3. CASE done
    <2>1. (status' = "done") = done /\ status' # "open"
      BY <1>3
    <2>2. Frame(to', seen' \o pending', st, status' = "done")
      BY <1>2, <2>1
    <2>. QED BY <1>3, <2>1, <2>2 DEF Framing
  <1>4. CASE ~done
    <2>1. (status' = "done") = FALSE /\ done = FALSE
      BY <1>4
    <2>2. Frame(to', seen' \o pending', st, status' = "done")
      BY <1>2, <2>1
    <2>3. Frame(to', seen' \o pending', IF PassThrough' THEN up'.begun ELSE enc'.started, FALSE)
      BY <1>2, <1>4, <2>1
    <2>. QED BY <1>4, <2>1, <2>2, <2>3 DEF Framing
  <1>. QED BY <1>3, <1>4

(* A decoder's answer whose events are allowed. *)
LEMMA Translates ==
  ASSUME Watched, Encoding, status = "open", ~PassThrough, from' = from, to' = to,
         NEW answer, NEW done \in BOOLEAN,
         IF answer.error THEN GiveUp
         ELSE /\ dec' = answer.dec
              /\ enc' = Convert(answer.events).enc
              /\ Relay(Convert(answer.events).out, Convert(answer.events).semantic, done),
         NEW O, O \subseteq LiveKeys(enc), NEW L, NEW P,
         ~answer.error => /\ Legal(Keys(enc), O, answer.events, L, P)
                          /\ done <=> Finishes(answer.events)
  PROVE  /\ Watched' /\ Encoding'
         /\ status' = "open" => /\ ~answer.error /\ dec' = answer.dec
                                /\ Keys(enc') = L /\ P \subseteq LiveKeys(enc')
  <1>1. CASE answer.error
    BY <1>1, GivesUp
  <1>2. CASE ~answer.error
    <2> DEFINE result == Convert(answer.events)
               e == result.enc
               n == e.nextIndex
               D == IF e.done THEN 0..(n - 1) ELSE ClosedOf(e)
    <2>1. /\ Tidy(enc) /\ ~enc.done /\ enc.protocol = to
          /\ Good(seen \o pending, enc.nextIndex, ClosedOf(enc))
      BY DEF Encoding
    <2>2. Legal(Keys(enc), O, answer.events, L, P) /\ (done <=> Finishes(answer.events))
      BY <1>2
    <2>3. dec' = answer.dec /\ enc' = e /\ Relay(result.out, result.semantic, done)
      BY <1>2
    <2>4. FitsTo(enc, result, L, P)
      BY <2>1, <2>2, ConvertFits
    <2>5. result.done \in BOOLEAN /\ (result.done <=> Finishes(answer.events))
      BY <2>2, ConvertDone DEF Legal
    <2>. HIDE DEF result
    <2>6. /\ IsEncoder(e) /\ e.protocol = enc.protocol
          /\ result.done <=> e.done
          /\ ~e.done => Tidy(e) /\ Keys(e) = L /\ P \subseteq LiveKeys(e)
      BY <2>4 DEF FitsTo
    <2>7. /\ Turns(enc.nextIndex, ClosedOf(enc), result.out, n, D)
          /\ Leads(enc.protocol, enc.started, result.out, e.started, e.done)
      BY <2>4 DEF FitsTo
    <2>8. e.done <=> done
      BY <2>2, <2>5, <2>6
    <2>. HIDE DEF e
    <2>9. IsSeq(result.out) /\ Good((seen \o pending) \o result.out, n, D)
      BY <2>1, <2>7 DEF Turns
    <2>10. /\ IsSeq(seen') /\ IsSeq(pending')
           /\ seen' \o pending' = (seen \o pending) \o result.out
           /\ status' = IF done THEN "done" ELSE "open"
           /\ done => pending' = <<>>
      <3>1. IsSeq(seen) /\ IsSeq(pending)
        BY DEF Watched
      <3>2. Relay(result.out, result.semantic, done)
        BY <2>3
      <3>. QED BY <2>9, <3>1, <3>2, Relays
    <2>11. Good(seen' \o pending', n, D)
      BY <2>9, <2>10
    <2>12. Watched'
      <3>1. status' = "done" => pending' = <<>> /\ D = 0..(n - 1)
        BY <2>8, <2>10
      <3>2. e.done = done /\ (PassThrough' <=> PassThrough)
        BY <2>6, <2>8 DEF IsEncoder, PassThrough
      <3>3. Framing'
        BY <2>1, <2>3, <2>7, <2>10, <3>2, Frames
      <3>. QED BY <2>10, <2>11, <3>1, <3>3 DEF Watched
    <2>13. PassThrough' <=> PassThrough
      BY DEF PassThrough
    <2>14. Encoding'
      <3>1. SUFFICES ASSUME status' = "open"
                     PROVE  /\ Tidy(enc') /\ ~enc'.done /\ enc'.protocol = to'
                            /\ Good(seen' \o pending', enc'.nextIndex, ClosedOf(enc'))
        BY DEF Encoding
      <3>2. ~e.done
        BY <2>8, <2>10, <3>1
      <3>3. D = ClosedOf(e)
        BY <3>2
      <3>. HIDE DEF D
      <3>. QED BY <2>1, <2>3, <2>6, <2>11, <3>2, <3>3
    <2>. QED BY <1>2, <2>3, <2>6, <2>8, <2>10, <2>12, <2>14
  <1>. QED BY <1>1, <1>2

(* A stream that is passed on has the blocks of its upstream. *)
Passing ==
  status = "open" /\ PassThrough =>
    Good(seen \o pending, Len(up.blocks), {k - 1 : k \in Closed(up.blocks)})

LEMMA Passes ==
  ASSUME Watched, Passing, status = "open", PassThrough, from' = from, to' = to,
         NEW w, NEW semantic, NEW done \in BOOLEAN, Relay(<<w>>, semantic, done),
         Turns(Len(up.blocks), {k - 1 : k \in Closed(up.blocks)}, <<w>>,
               Len(up'.blocks), {k - 1 : k \in Closed(up'.blocks)}),
         Leads(to, up.begun, <<w>>, up'.begun, done)
  PROVE  Watched' /\ Passing'
  <1> DEFINE n == Len(up'.blocks)
             C == {k - 1 : k \in Closed(up'.blocks)}
  <1>1. Good(seen \o pending, Len(up.blocks), {k - 1 : k \in Closed(up.blocks)})
    BY DEF Passing
  <1>2. IsSeq(<<w>>) /\ Good((seen \o pending) \o <<w>>, n, C)
    BY <1>1 DEF Turns
  <1>3. /\ IsSeq(seen') /\ IsSeq(pending')
        /\ seen' \o pending' = (seen \o pending) \o <<w>>
        /\ status' = IF done THEN "done" ELSE "open"
        /\ done => pending' = <<>>
    BY <1>2, Relays DEF Watched
  <1>4. Good(seen' \o pending', n, C) /\ PassThrough'
    BY <1>2, <1>3 DEF PassThrough
  <1>5. Passing'
    BY <1>4 DEF Passing
  <1>6. Framing'
    BY <1>3, <1>4, Frames
  <1>7. Watched'
    BY <1>3, <1>4, <1>6 DEF Watched
  <1>. QED BY <1>5, <1>7

-----------------------------------------------------------------------------
(* The events of a call. *)

KeyFor(id, i) == IF id # 0 THEN <<"id", id>> ELSE <<"index", i>>

LEMMA ToolEvents ==
  ASSUME NEW i, NEW id, NEW d
  PROVE  /\ \A kind \in ContentKinds :
              /\ IsEvent(Tool(kind, i, id)) /\ Tool(kind, i, id).kind = kind
              /\ toolKey(Tool(kind, i, id)) = KeyFor(id, i)
         /\ IsEvent(ToolDelta(i, id, d)) /\ ToolDelta(i, id, d).kind = "tool_delta"
         /\ ToolDelta(i, id, d).delta = d
         /\ toolKey(ToolDelta(i, id, d)) = KeyFor(id, i)
  BY DEF IsEvent, Event, Tool, ToolDelta, EventKinds, ContentKinds, toolKey, KeyFor

LEMMA LegalStart ==
  ASSUME NEW K, NEW O, NEW i, NEW id, KeyFor(id, i) \notin K
  PROVE  Legal(K, O, <<Tool("tool_start", i, id)>>, K \cup {KeyFor(id, i)}, O \cup {KeyFor(id, i)})
  <1> DEFINE ev == Tool("tool_start", i, id)
  <1>1. IsEvent(ev) /\ ev.kind = "tool_start" /\ toolKey(ev) = KeyFor(id, i)
    BY ToolEvents DEF ContentKinds
  <1>. HIDE DEF ev
  <1>2. Allowed(K, O, ev) /\ KeysAfter(K, ev) = K \cup {KeyFor(id, i)}
        /\ LiveAfter(O, ev) = O \cup {KeyFor(id, i)}
    BY <1>1 DEF Allowed, KeysAfter, LiveAfter
  <1>3. Legal(K, O, <<ev>>, KeysAfter(K, ev), LiveAfter(O, ev))
    BY <1>2, LegalOne
  <1>4. Legal(K, O, <<ev>>, K \cup {KeyFor(id, i)}, O \cup {KeyFor(id, i)})
    BY <1>2, <1>3
  <1>. QED BY <1>4 DEF ev

LEMMA LegalDelta ==
  ASSUME NEW K, NEW O, NEW i, NEW id, NEW d, KeyFor(id, i) \in K, KeyFor(id, i) \in O
  PROVE  Legal(K, O, <<ToolDelta(i, id, d)>>, K, O)
  <1> DEFINE ev == ToolDelta(i, id, d)
  <1>1. IsEvent(ev) /\ ev.kind = "tool_delta" /\ toolKey(ev) = KeyFor(id, i)
    BY ToolEvents
  <1>. HIDE DEF ev
  <1>2. Allowed(K, O, ev) /\ KeysAfter(K, ev) = K /\ LiveAfter(O, ev) = O
    BY <1>1 DEF Allowed, KeysAfter, LiveAfter
  <1>3. Legal(K, O, <<ev>>, KeysAfter(K, ev), LiveAfter(O, ev))
    BY <1>2, LegalOne
  <1>. QED BY <1>2, <1>3 DEF ev

LEMMA LegalEnd ==
  ASSUME NEW K, NEW O, NEW i, NEW id, KeyFor(id, i) \in K
  PROVE  Legal(K, O, <<Tool("tool_end", i, id)>>, K, O \ {KeyFor(id, i)})
  <1> DEFINE ev == Tool("tool_end", i, id)
  <1>1. IsEvent(ev) /\ ev.kind = "tool_end" /\ toolKey(ev) = KeyFor(id, i)
    BY ToolEvents DEF ContentKinds
  <1>. HIDE DEF ev
  <1>2. Allowed(K, O, ev) /\ KeysAfter(K, ev) = K /\ LiveAfter(O, ev) = O \ {KeyFor(id, i)}
    BY <1>1 DEF Allowed, KeysAfter, LiveAfter
  <1>3. Legal(K, O, <<ev>>, KeysAfter(K, ev), LiveAfter(O, ev))
    BY <1>2, LegalOne
  <1>4. Legal(K, O, <<ev>>, K, O \ {KeyFor(id, i)})
    BY <1>2, <1>3
  <1>. QED BY <1>4 DEF ev

LEMMA LegalCall ==
  ASSUME NEW K, NEW O, NEW i, NEW id, NEW d, KeyFor(id, i) \notin K
  PROVE  Legal(K, O, <<Tool("tool_start", i, id)>> \o When(d # 0, <<ToolDelta(i, id, d)>>),
               K \cup {KeyFor(id, i)}, O \cup {KeyFor(id, i)})
  <1> DEFINE L == K \cup {KeyFor(id, i)}
             P == O \cup {KeyFor(id, i)}
  <1>1. Legal(K, O, <<Tool("tool_start", i, id)>>, L, P)
    BY LegalStart
  <1>2. KeyFor(id, i) \in L /\ KeyFor(id, i) \in P
    OBVIOUS
  <1>. HIDE DEF L, P
  <1>3. Legal(L, P, <<ToolDelta(i, id, d)>>, L, P)
    BY <1>2, LegalDelta
  <1>4. Legal(L, P, When(d # 0, <<ToolDelta(i, id, d)>>), L, P)
    BY <1>3, LegalWhen
  <1>5. Legal(K, O, <<Tool("tool_start", i, id)>> \o When(d # 0, <<ToolDelta(i, id, d)>>), L, P)
    BY <1>1, <1>4, LegalJoin
  <1>. QED BY <1>5 DEF L, P

(* Calls that are known may be ended in any order. *)
LEMMA LegalEnds ==
  ASSUME NEW K, NEW O, NEW es, IsSeq(es),
         \A i \in DOMAIN es : /\ IsEvent(es[i]) /\ es[i].kind = "tool_end"
                              /\ toolKey(es[i]) \in K
  PROVE  \E P : Legal(K, O, es, K, P)
  <1> DEFINE n == Len(es)
             Ended(i) == {toolKey(es[j]) : j \in 1..i}
             ks == [i \in 0..n |-> K]
             os == [i \in 0..n |-> O \ Ended(i)]
  <1>1. n \in Nat /\ DOMAIN es = 1..n
    BY SeqFacts
  <1>2. \A i \in 0..n : ks[i] = K /\ os[i] = O \ Ended(i)
    OBVIOUS
  <1>3. Ended(0) = {} /\ 0 \in 0..n /\ n \in 0..n
    BY <1>1
  <1>4. ASSUME NEW i \in 1..n
        PROVE  i \in 0..n /\ i - 1 \in 0..n /\ Ended(i) = Ended(i - 1) \cup {toolKey(es[i])}
    <2>1. 1..i = 1..(i - 1) \cup {i}
      BY <1>1
    <2>. QED BY <1>1, <2>1
  <1>. HIDE DEF n, ks, os, Ended
  <1>5. ks[0] = K /\ os[0] = O
    BY <1>2, <1>3
  <1>6. ASSUME NEW i \in 1..n
        PROVE  /\ Allowed(ks[i - 1], os[i - 1], es[i])
               /\ ks[i] = KeysAfter(ks[i - 1], es[i])
               /\ os[i] = LiveAfter(os[i - 1], es[i])
    <2>1. i \in 0..n /\ i - 1 \in 0..n /\ Ended(i) = Ended(i - 1) \cup {toolKey(es[i])}
      BY <1>4
    <2>2. ks[i - 1] = K /\ ks[i] = K
      BY <1>2, <2>1
    <2>3. os[i - 1] = O \ Ended(i - 1) /\ os[i] = O \ Ended(i)
      BY <1>2, <2>1
    <2>4. os[i] = os[i - 1] \ {toolKey(es[i])}
      BY <2>1, <2>3
    <2>5. IsEvent(es[i]) /\ es[i].kind = "tool_end" /\ toolKey(es[i]) \in K
      BY <1>1
    <2>. QED BY <2>2, <2>4, <2>5 DEF Allowed, KeysAfter, LiveAfter
  <1>7. Run(K, O, es, ks, os)
    BY <1>5, <1>6 DEF Run, n
  <1>8. ks[n] = K
    BY <1>2, <1>3
  <1>9. Legal(K, O, es, K, os[n])
    BY <1>7, <1>8 DEF Legal, n
  <1>. QED BY <1>9

-----------------------------------------------------------------------------
(* A Chat upstream. *)

(* The decoder has given the calls of the indexes below n their ids. *)
Numbered(T, n) ==
  /\ n \in Nat /\ DOMAIN T = 0..(n - 1)
  /\ \A i \in 0..(n - 1) : T[i] \in {i + 1, MadeUp(i)}
IdKeys(T) == {<<"id", T[i]>> : i \in DOMAIN T}

LEMMA ChatRun ==
  ASSUME NEW tools, Len(tools) \in Nat, NEW base
  PROVE  \E g : /\ g = [i \in 0..Len(tools) |->
                          IF i = 0 THEN base ELSE chatTool(g[i - 1], tools[i])]
                /\ Fold(chatTool, base, tools) = g[Len(tools)]
  <1> DEFINE N == Len(tools)
             Is(g, m) == g = [i \in 0..m |-> IF i = 0 THEN base
                                             ELSE chatTool(g[i - 1], tools[i])]
             S == {m \in Nat : \E g : Is(g, m)}
  <1>1. 0 \in S
    <2>1. Is([i \in 0..0 |-> base], 0)
      OBVIOUS
    <2>. QED BY <2>1
  <1>2. ASSUME NEW m \in Nat, m \in S PROVE m + 1 \in S
    <2>1. PICK g : Is(g, m)
      BY <1>2
    <2> DEFINE h == [i \in 0..(m + 1) |-> IF i <= m THEN g[i]
                                          ELSE chatTool(g[m], tools[m + 1])]
    <2>2. \A i \in 0..(m + 1) : h[i] = IF i = 0 THEN base
                                       ELSE chatTool(h[i - 1], tools[i])
      BY <2>1
    <2>3. Is(h, m + 1)
      BY <2>2
    <2>. HIDE DEF h, Is
    <2>. QED BY <2>3
  <1>3. N \in S
    <2>. HIDE DEF S
    <2>. QED BY <1>1, <1>2, SetInduction
  <1> DEFINE f == CHOOSE g : Is(g, N)
  <1>4. Is(f, N)
    BY <1>3
  <1>5. Fold(chatTool, base, tools) = f[N]
    BY DEF Fold
  <1>. QED BY <1>4, <1>5

(* A chunk has up to two calls. *)
LEMMA ChatFolds ==
  ASSUME NEW base
  PROVE  /\ Fold(chatTool, base, <<>>) = base
         /\ \A t : Fold(chatTool, base, <<t>>) = chatTool(base, t)
         /\ \A t, u : Fold(chatTool, base, <<t, u>>) = chatTool(chatTool(base, t), u)
  <1>1. Fold(chatTool, base, <<>>) = base
    <2> DEFINE s == <<>>
    <2>1. Len(s) = 0 /\ Len(s) \in Nat
      OBVIOUS
    <2>. HIDE DEF s
    <2>2. PICK g : /\ g = [i \in 0..Len(s) |-> IF i = 0 THEN base ELSE chatTool(g[i - 1], s[i])]
                   /\ Fold(chatTool, base, s) = g[Len(s)]
      BY <2>1, ChatRun
    <2>3. g[0] = base
      BY <2>1, <2>2
    <2>. QED BY <2>1, <2>2, <2>3 DEF s
  <1>2. ASSUME NEW t PROVE Fold(chatTool, base, <<t>>) = chatTool(base, t)
    <2> DEFINE s == <<t>>
    <2>1. Len(s) = 1 /\ Len(s) \in Nat /\ s[1] = t
      OBVIOUS
    <2>. HIDE DEF s
    <2>2. PICK g : /\ g = [i \in 0..Len(s) |-> IF i = 0 THEN base ELSE chatTool(g[i - 1], s[i])]
                   /\ Fold(chatTool, base, s) = g[Len(s)]
      BY <2>1, ChatRun
    <2>3. g[0] = base /\ g[1] = chatTool(g[0], s[1])
      BY <2>1, <2>2
    <2>. QED BY <2>1, <2>2, <2>3 DEF s
  <1>3. ASSUME NEW t, NEW u
        PROVE  Fold(chatTool, base, <<t, u>>) = chatTool(chatTool(base, t), u)
    <2> DEFINE s == <<t, u>>
    <2>1. Len(s) = 2 /\ Len(s) \in Nat /\ s[1] = t /\ s[2] = u
      OBVIOUS
    <2>. HIDE DEF s
    <2>2. PICK g : /\ g = [i \in 0..Len(s) |-> IF i = 0 THEN base ELSE chatTool(g[i - 1], s[i])]
                   /\ Fold(chatTool, base, s) = g[Len(s)]
      BY <2>1, ChatRun
    <2>3. g[0] = base /\ g[1] = chatTool(g[0], s[1]) /\ g[2] = chatTool(g[1], s[2])
      BY <2>1, <2>2
    <2>. QED BY <2>1, <2>2, <2>3 DEF s
  <1>. QED BY <1>1, <1>2, <1>3

(* One call of a chunk: a call that is known, or the next one. *)
LEMMA ChatToolReads ==
  ASSUME NEW acc, NEW n, Numbered(acc.tools, n), NEW K, NEW O,
         Legal(K, O, acc.events, IdKeys(acc.tools), IdKeys(acc.tools)),
         NEW t, t.index \in 0..n, t.index = n => t.call \in {0, n + 1}
  PROVE  LET next == chatTool(acc, t)
         IN /\ Numbered(next.tools, IF t.index = n THEN n + 1 ELSE n)
            /\ Legal(K, O, next.events, IdKeys(next.tools), IdKeys(next.tools))
  <1> DEFINE T == acc.tools
             i == t.index
             fresh == i \notin DOMAIN T
             id == IF ~fresh THEN T[i] ELSE IF t.call # 0 THEN t.call ELSE MadeUp(i)
             M == Bind(T, i, id)
             start == <<Tool("tool_start", i, id)>>
             more == When(t.delta # 0, <<ToolDelta(i, id, t.delta)>>)
             next == chatTool(acc, t)
  <1>1. /\ next.tools = M
        /\ next.events = acc.events \o When(fresh, start) \o more
    BY DEF chatTool
  <1>2. n \in Nat /\ DOMAIN T = 0..(n - 1) /\ (fresh <=> i = n)
    BY DEF Numbered
  <1>3. id \in {i + 1, MadeUp(i)} /\ id # 0
    BY <1>2 DEF Numbered, MadeUp
  <1>4. DOMAIN M = DOMAIN T \cup {i} /\ \A j \in DOMAIN M : M[j] = IF j = i THEN id ELSE T[j]
    BY DEF Bind
  <1>5. KeyFor(id, i) = <<"id", id>>
    BY <1>3 DEF KeyFor
  <1>6. IsSeq(acc.events)
    BY DEF Legal
  <1>7. CASE i = n
    <2>0. 0..((n + 1) - 1) = 0..(n - 1) \cup {n}
      BY <1>2
    <2>1. DOMAIN M = 0..((n + 1) - 1)
      BY <1>2, <1>4, <1>7, <2>0
    <2>2. Numbered(M, n + 1)
      <3>1. ASSUME NEW j \in 0..((n + 1) - 1) PROVE M[j] \in {j + 1, MadeUp(j)}
        <4>1. j \in DOMAIN M
          BY <2>1
        <4>2. j # i => j \in 0..(n - 1)
          BY <1>2, <1>7
        <4>. QED BY <1>3, <1>4, <4>1, <4>2 DEF Numbered
      <3>. QED BY <1>2, <2>1, <3>1 DEF Numbered
    <2>3. \A j \in 0..(n - 1) : T[j] # id
      BY <1>2, <1>3, <1>7 DEF Numbered, MadeUp
    <2>4. <<"id", id>> \notin IdKeys(T)
      BY <1>2, <2>3 DEF IdKeys
    <2>5. IdKeys(M) = IdKeys(T) \cup {<<"id", id>>}
      BY <1>2, <1>4, <1>7 DEF IdKeys
    <2>. HIDE DEF M, T, id, i, next
    <2>6. Legal(IdKeys(T), IdKeys(T), start \o more, IdKeys(M), IdKeys(M))
      <3>1. Legal(IdKeys(T), IdKeys(T), start \o more,
                  IdKeys(T) \cup {KeyFor(id, i)}, IdKeys(T) \cup {KeyFor(id, i)})
        BY <1>5, <2>4, LegalCall
      <3>. QED BY <1>5, <2>5, <3>1
    <2>7. Legal(K, O, acc.events \o (start \o more), IdKeys(M), IdKeys(M))
      BY <2>6, LegalJoin DEF T
    <2>8. When(fresh, start) = start
      BY <1>2, <1>7 DEF When
    <2>9. IsSeq(start) /\ IsSeq(more)
      BY Singles DEF When
    <2>10. acc.events \o When(fresh, start) \o more = acc.events \o (start \o more)
      <3> DEFINE es == acc.events
      <3>1. IsSeq(es) /\ IsSeq(start) /\ IsSeq(more)
        BY <1>6, <2>9
      <3>. HIDE DEF start, more, fresh, es
      <3>2. (es \o start) \o more = es \o (start \o more)
        BY <3>1, Groups
      <3>. QED BY <2>8, <3>2 DEF es
    <2>. QED BY <1>1, <1>7, <2>2, <2>7, <2>10 DEF i, next
  <1>8. CASE i # n
    <2>1. i \in 0..(n - 1)
      BY <1>2, <1>8
    <2>2. Numbered(M, n)
      <3>1. DOMAIN M = 0..(n - 1)
        BY <1>2, <1>4, <2>1
      <3>. QED BY <1>2, <1>3, <1>4, <3>1 DEF Numbered
    <2>3. IdKeys(M) = IdKeys(T) /\ <<"id", id>> \in IdKeys(T)
      BY <1>2, <1>4, <2>1 DEF IdKeys
    <2>. HIDE DEF M, T, id, i, next
    <2>4. Legal(IdKeys(T), IdKeys(T), <<ToolDelta(i, id, t.delta)>>, IdKeys(M), IdKeys(M))
      BY <1>5, <2>3, LegalDelta
    <2>5. Legal(IdKeys(T), IdKeys(T), more, IdKeys(M), IdKeys(M))
      BY <2>3, <2>4, LegalWhen
    <2>6. Legal(K, O, acc.events \o more, IdKeys(M), IdKeys(M))
      BY <2>5, LegalJoin DEF T
    <2>7. acc.events \o When(fresh, start) = acc.events
      <3>1. When(fresh, start) = <<>> /\ IsSeq(<<>>)
        BY <1>2, <1>8, Singles DEF When
      <3>. QED BY <1>6, <3>1, Groups
    <2>. QED BY <1>1, <1>8, <2>2, <2>6, <2>7 DEF i, next
  <1>. QED BY <1>7, <1>8

LEMMA AscendingIs ==
  ASSUME NEW S \in SUBSET Nat, IsFiniteSet(S)
  PROVE  /\ Cardinality(S) \in Nat /\ DOMAIN Ascending(S) = 1..Cardinality(S)
         /\ \A n \in 1..Cardinality(S) : Ascending(S)[n] \in S
  <1> DEFINE n == Cardinality(S)
  <1>1. n \in Nat
    BY FS_CardinalityType
  <1>2. PICK s : IsAscending(s, n, S)
    BY <1>1, AscendingExists
  <1>3. s \in [1..n -> S] /\ \A i, j \in DOMAIN s : i < j => s[i] < s[j]
    BY <1>2 DEF IsAscending
  <1>4. Ascending(S) \in [1..n -> S]
    BY <1>3 DEF Ascending
  <1>. QED BY <1>1, <1>4

(* The calls that a chunk with a finish_reason ends. *)
LEMMA ChatEnds ==
  ASSUME NEW T, NEW n, Numbered(T, n), NEW K, NEW O, IdKeys(T) \subseteq K
  PROVE  LET indexes == Ascending(DOMAIN T)
         IN \E P : Legal(K, O, [k \in DOMAIN indexes |->
                                  Tool("tool_end", indexes[k], T[indexes[k]])], K, P)
  <1> DEFINE S == DOMAIN T
             indexes == Ascending(S)
             es == [k \in DOMAIN indexes |-> Tool("tool_end", indexes[k], T[indexes[k]])]
             m == Cardinality(S)
  <1>1. S = 0..(n - 1) /\ n \in Nat /\ S \in SUBSET Nat
    BY DEF Numbered
  <1>2. IsFiniteSet(S)
    BY <1>1, FS_Interval
  <1>3. /\ m \in Nat /\ DOMAIN indexes = 1..m /\ \A k \in 1..m : indexes[k] \in S
    <2>. HIDE DEF S
    <2>. QED BY <1>1, <1>2, AscendingIs
  <1>. HIDE DEF indexes, m
  <1>4. IsSeq(es) /\ DOMAIN es = 1..m
    <2>1. es \in [1..m -> {es[k] : k \in 1..m}]
      BY <1>3
    <2>. HIDE DEF es
    <2>2. es \in Seq({es[k] : k \in 1..m})
      BY <1>3, <2>1
    <2>. QED BY <2>1, <2>2 DEF IsSeq
  <1>5. ASSUME NEW k \in DOMAIN es
        PROVE  IsEvent(es[k]) /\ es[k].kind = "tool_end" /\ toolKey(es[k]) \in K
    <2> DEFINE i == indexes[k]
               ev == Tool("tool_end", i, T[i])
    <2>1. es[k] = ev /\ i \in S
      BY <1>3, <1>4, <1>5
    <2>2. T[i] \in {i + 1, MadeUp(i)} /\ i \in 0..(n - 1)
      BY <1>1, <2>1 DEF Numbered
    <2>3. T[i] # 0
      BY <1>1, <2>2 DEF MadeUp
    <2>4. IsEvent(ev) /\ ev.kind = "tool_end" /\ toolKey(ev) = KeyFor(T[i], i)
      <3>. HIDE DEF i
      <3>. QED BY ToolEvents DEF ContentKinds
    <2>5. KeyFor(T[i], i) = <<"id", T[i]>> /\ <<"id", T[i]>> \in IdKeys(T)
      BY <2>1, <2>3 DEF KeyFor, IdKeys
    <2>. HIDE DEF es, ev
    <2>. QED BY <2>1, <2>4, <2>5
  <1>. HIDE DEF es
  <1>6. \E P : Legal(K, O, es, K, P)
    BY <1>4, <1>5, LegalEnds
  <1>. QED BY <1>6 DEF es, indexes

LEMMA ChatAnswers ==
  ASSUME NEW d, DOMAIN d = DOMAIN newStreamDecoder, NEW in, in.type # "DONE", NEW acc,
         acc = Fold(chatTool, [tools |-> d.chatTools, events |-> <<>>], in.tools),
         NEW K, NEW O, NEW L, NEW P, Legal(K, O, acc.events, L, P),
         in.stop # "" => IdKeys(acc.tools) \subseteq L /\ \E n : Numbered(acc.tools, n)
  PROVE  LET a == decodeChat(d, in)
         IN /\ a.error = FALSE /\ DOMAIN a.dec = DOMAIN newStreamDecoder
            /\ in.stop = "" => Legal(K, O, a.events, L, P) /\ a.dec.chatTools = acc.tools
            /\ \E Q : Legal(K, O, a.events, L, Q)
  <1> DEFINE indexes == Ascending(DOMAIN acc.tools)
             ends == [k \in DOMAIN indexes |->
                        Tool("tool_end", indexes[k], acc.tools[indexes[k]])]
             stop == <<Finish(normalizeChatStop(in.stop))>>
             last == in.stop # ""
             s1 == When(~d.started, <<Event("start")>>)
             s2 == When(in.reasoning # 0, <<Delta("reasoning", 0, in.reasoning)>>)
             s3 == When(in.delta # 0, <<Delta("text", 0, in.delta)>>)
             s4 == When(last, ends \o stop)
             s5 == Report(in.usage)
             b == [d EXCEPT !.started   = TRUE,
                            !.hadTools  = @ \/ in.tools # <<>>,
                            !.chatTools = IF last THEN NoTools ELSE acc.tools]
             es == s1 \o s2 \o s3 \o acc.events \o s4 \o s5
  <1>1. decodeChat(d, in) = Answer(b, es)
    BY DEF decodeChat
  <1>2. Answer(b, es).error = FALSE /\ Answer(b, es).dec = b /\ Answer(b, es).events = es
    BY DEF Answer
  <1>3. DOMAIN b = DOMAIN newStreamDecoder /\ (in.stop = "" => b.chatTools = acc.tools)
    BY DEF newStreamDecoder
  <1>4. Legal(K, O, s1, K, O)
    <2>1. Legal(K, O, <<Event("start")>>, K, O)
      BY LegalEvents
    <2>2. s1 = <<>> \/ s1 = <<Event("start")>>
      BY DEF When
    <2>. QED BY <2>1, <2>2, LegalNone
  <1>5. Legal(K, O, s2, K, O)
    BY LegalEvents, LegalWhen
  <1>6. Legal(K, O, s3, K, O)
    BY LegalEvents, LegalWhen
  <1>. HIDE DEF s1, s2, s3
  <1>7. Legal(K, O, s1 \o s2 \o s3 \o acc.events, L, P)
    BY <1>4, <1>5, <1>6, LegalJoin
  <1>8. ASSUME NEW Q, Legal(L, P, s4, L, Q) PROVE Legal(K, O, es, L, Q)
    <2>1. Legal(L, Q, s5, L, Q)
      BY LegalEvents
    <2>. HIDE DEF s4, s5
    <2>. QED BY <1>7, <1>8, <2>1, LegalJoin
  <1>9. CASE in.stop = ""
    <2>1. s4 = <<>>
      BY <1>9 DEF When
    <2>. HIDE DEF s4, es, b
    <2>2. Legal(K, O, es, L, P)
      BY <1>8, <2>1, LegalNone
    <2>. QED BY <1>1, <1>2, <1>3, <1>9, <2>2
  <1>10. CASE in.stop # ""
    <2>1. PICK n : Numbered(acc.tools, n)
      BY <1>10
    <2>2. PICK Q : Legal(L, P, ends, L, Q)
      BY <1>10, <2>1, ChatEnds
    <2>3. Legal(L, Q, stop, L, Q)
      BY LegalEvents
    <2>4. s4 = ends \o stop
      BY <1>10 DEF When
    <2>. HIDE DEF ends, stop, s4, es, b
    <2>5. Legal(L, P, ends \o stop, L, Q)
      BY <2>2, <2>3, LegalJoin
    <2>6. Legal(K, O, es, L, Q)
      BY <1>8, <2>4, <2>5
    <2>. QED BY <1>1, <1>2, <1>3, <1>10, <2>6
  <1>. QED BY <1>9, <1>10

(* The calls that a Chat upstream has started, and the encoder knows. *)
ChatLink ==
  from = "chat" /\ status = "open" =>
    /\ DOMAIN up = DOMAIN Silence /\ IsSeq(up.blocks)
    /\ DOMAIN dec = DOMAIN newStreamDecoder
    /\ up.stop = "" => /\ Numbered(dec.chatTools, Len(up.blocks))
                       /\ Keys(enc) = IdKeys(dec.chatTools)
                       /\ IdKeys(dec.chatTools) \subseteq LiveKeys(enc)

(* What a chunk of the upstream may have. *)
ChatMove(in, u) ==
  /\ DOMAIN u = DOMAIN Silence /\ IsSeq(u.blocks)
  /\ \/ in.type = "DONE" /\ u = up
     \/ /\ in.type # "DONE"
        /\ u.stop = "" <=> in.stop = "" /\ up.stop = ""
        /\ \/ in.tools = <<>> /\ Len(u.blocks) = Len(up.blocks)
              /\ (in.stop # "" => up.stop = "")
           \/ /\ up.stop = "" /\ in.stop = ""
              /\ \E t : /\ in.tools = <<t>> /\ t.index \in 0..Len(up.blocks)
                        /\ t.index = Len(up.blocks) => t.call \in {0, Len(up.blocks) + 1}
                        /\ Len(u.blocks) = IF t.index = Len(up.blocks) THEN Len(up.blocks) + 1
                                           ELSE Len(up.blocks)
           \/ /\ up.stop = "" /\ in.stop = ""
              /\ \E s, t : /\ in.tools = <<s, t>> /\ s.index = Len(up.blocks)
                           /\ t.index = Len(up.blocks) + 1
                           /\ s.call = s.index + 1 /\ t.call = t.index + 1
                           /\ Len(u.blocks) = (Len(up.blocks) + 1) + 1

(* The calls that a chunk mentions, and those that the decoder knows then. *)
LEMMA ChatCalls ==
  ASSUME NEW T, NEW n, Numbered(T, n), NEW tools, NEW m,
         \/ tools = <<>> /\ m = n
         \/ \E t : /\ tools = <<t>> /\ t.index \in 0..n
                   /\ t.index = n => t.call \in {0, n + 1}
                   /\ m = IF t.index = n THEN n + 1 ELSE n
         \/ \E s, t : /\ tools = <<s, t>> /\ s.index = n /\ t.index = n + 1
                      /\ s.call = s.index + 1 /\ t.call = t.index + 1
                      /\ m = (n + 1) + 1
  PROVE  LET acc == Fold(chatTool, [tools |-> T, events |-> <<>>], tools)
         IN /\ Numbered(acc.tools, m)
            /\ Legal(IdKeys(T), IdKeys(T), acc.events, IdKeys(acc.tools), IdKeys(acc.tools))
  <1> DEFINE base == [tools |-> T, events |-> <<>>]
             K == IdKeys(T)
             Ok(acc, l) == /\ Numbered(acc.tools, l)
                           /\ Legal(K, K, acc.events, IdKeys(acc.tools), IdKeys(acc.tools))
  <1>1. Ok(base, n) /\ n \in Nat
    BY LegalNone DEF Numbered
  <1>. HIDE DEF base
  <1>a. \A x, y : Fold(chatTool, base, <<x, y>>) = chatTool(chatTool(base, x), y)
    BY ChatFolds
  <1>2. ASSUME NEW acc, NEW l \in Nat, Ok(acc, l), NEW t, t.index \in 0..l,
               t.index = l => t.call \in {0, l + 1}
        PROVE  Ok(chatTool(acc, t), IF t.index = l THEN l + 1 ELSE l)
    <2>. HIDE DEF K
    <2>. QED BY <1>2, ChatToolReads
  <1>. HIDE DEF Ok
  <1>3. CASE tools = <<>> /\ m = n
    <2>1. Fold(chatTool, base, <<>>) = base
      BY ChatFolds
    <2>. QED BY <1>1, <1>3, <2>1 DEF Ok, base
  <1>4. ASSUME NEW t, tools = <<t>>, t.index \in 0..n,
               t.index = n => t.call \in {0, n + 1},
               m = IF t.index = n THEN n + 1 ELSE n
        PROVE  Ok(Fold(chatTool, base, tools), m)
    <2>1. Fold(chatTool, base, <<t>>) = chatTool(base, t)
      BY ChatFolds
    <2>. QED BY <1>1, <1>2, <1>4, <2>1
  <1>5. ASSUME NEW s, NEW t, tools = <<s, t>>, s.index = n, t.index = n + 1,
               s.call = s.index + 1, t.call = t.index + 1, m = (n + 1) + 1
        PROVE  Ok(Fold(chatTool, base, tools), m)
    <2>1. Fold(chatTool, base, <<s, t>>) = chatTool(chatTool(base, s), t)
      BY <1>a
    <2>2. Ok(chatTool(base, s), n + 1)
      <3>1. s.index \in 0..n /\ s.call \in {0, n + 1}
        BY <1>1, <1>5
      <3>2. Ok(chatTool(base, s), IF s.index = n THEN n + 1 ELSE n)
        BY <1>1, <1>2, <3>1
      <3>. QED BY <1>5, <3>2
    <2>3. Ok(chatTool(chatTool(base, s), t), (n + 1) + 1)
      <3>1. n + 1 \in Nat /\ t.index \in 0..(n + 1) /\ t.call \in {0, (n + 1) + 1}
        BY <1>1, <1>5
      <3>2. Ok(chatTool(chatTool(base, s), t), IF t.index = n + 1 THEN (n + 1) + 1 ELSE n + 1)
        BY <1>2, <2>2, <3>1
      <3>. QED BY <1>5, <3>2
    <2>. QED BY <1>5, <2>1, <2>3
  <1>6. Ok(Fold(chatTool, base, tools), m)
    BY <1>3, <1>4, <1>5 DEF Ok, base
  <1>. QED BY <1>6 DEF Ok, base

LEMMA ChatStep ==
  ASSUME Watched, Encoding, ChatLink, from = "chat",
         NEW in, NEW u, Send(in, u), ChatMove(in, u)
  PROVE  Watched' /\ Encoding' /\ ChatLink'
  <1>1. /\ status = "open" /\ ~PassThrough /\ from' = from /\ to' = to /\ up' = u
        /\ protocolOf(from) = "chat"
    BY DEF Send, PassThrough, protocolOf
  <1>2. Translate(in, "none")
    BY <1>1 DEF Send
  <1> DEFINE answer == decodeChat(dec, in)
             result == Convert(answer.events)
             K == Keys(enc)
             n == Len(up.blocks)
             acc == Fold(chatTool, [tools |-> dec.chatTools, events |-> <<>>], in.tools)
  <1>3. IF answer.error THEN GiveUp
        ELSE /\ dec' = answer.dec
             /\ enc' = result.enc
             /\ Relay(result.out, result.semantic, result.done)
    BY <1>1, <1>2 DEF Translate, Decode
  <1>4. /\ DOMAIN dec = DOMAIN newStreamDecoder
        /\ up.stop = "" => /\ Numbered(dec.chatTools, n)
                           /\ K = IdKeys(dec.chatTools)
                           /\ K \subseteq LiveKeys(enc)
    BY <1>1 DEF ChatLink
  <1>5. DOMAIN u = DOMAIN Silence /\ IsSeq(u.blocks)
    BY DEF ChatMove
  <1>6. ASSUME NEW O, O \subseteq LiveKeys(enc), NEW L, NEW P,
               Legal(K, O, answer.events, L, P)
        PROVE  /\ Watched' /\ Encoding'
               /\ status' = "open" => /\ dec' = answer.dec /\ Keys(enc') = L
                                      /\ P \subseteq LiveKeys(enc')
    <2> DEFINE a == answer
               done == Convert(a.events).done
    <2>1. Legal(Keys(enc), O, a.events, L, P)
      BY <1>6
    <2>2. done \in BOOLEAN /\ (done <=> Finishes(a.events))
      BY <2>1, ConvertDone DEF Legal
    <2>3. IF a.error THEN GiveUp
          ELSE /\ dec' = a.dec
               /\ enc' = Convert(a.events).enc
               /\ Relay(Convert(a.events).out, Convert(a.events).semantic, done)
      BY <1>3
    <2>. HIDE DEF a, done
    <2>4. /\ Watched' /\ Encoding'
          /\ status' = "open" => /\ ~a.error /\ dec' = a.dec
                                 /\ Keys(enc') = L /\ P \subseteq LiveKeys(enc')
      BY <1>1, <1>6, <2>1, <2>2, <2>3, Translates
    <2>. QED BY <2>4 DEF a
  <1>. HIDE DEF answer, K
  <1>7. CASE in.type = "DONE"
    <2>1. answer = Answer(dec, <<Event("done")>>) /\ u = up
      BY <1>7 DEF answer, decodeChat, ChatMove
    <2>2. answer.events = <<Event("done")>> /\ answer.dec = dec
      BY <2>1 DEF Answer
    <2>a. Legal(K, LiveKeys(enc), answer.events, K, LiveKeys(enc))
      BY <2>2, LegalEvents
    <2>3. /\ Watched' /\ Encoding'
          /\ status' = "open" => /\ dec' = answer.dec /\ Keys(enc') = K
                                 /\ LiveKeys(enc) \subseteq LiveKeys(enc')
      BY <1>6, <2>a
    <2>4. ChatLink'
      BY <1>1, <1>4, <1>5, <2>1, <2>2, <2>3 DEF ChatLink
    <2>. QED BY <2>3, <2>4
  <1>8. ASSUME in.type # "DONE", NEW O, O \subseteq LiveKeys(enc), NEW L,
               NEW P, Legal(K, O, acc.events, L, P),
               in.stop # "" => IdKeys(acc.tools) \subseteq L /\ \E l : Numbered(acc.tools, l),
               u.stop = "" => /\ in.stop = "" /\ Numbered(acc.tools, Len(u.blocks))
                              /\ L = IdKeys(acc.tools) /\ P = L
        PROVE  Watched' /\ Encoding' /\ ChatLink'
    <2>. HIDE DEF acc
    <2>1. /\ DOMAIN answer.dec = DOMAIN newStreamDecoder
          /\ in.stop = "" => Legal(K, O, answer.events, L, P) /\ answer.dec.chatTools = acc.tools
          /\ \E Q : Legal(K, O, answer.events, L, Q)
      <3> DEFINE a == decodeChat(dec, in)
      <3>1. acc = Fold(chatTool, [tools |-> dec.chatTools, events |-> <<>>], in.tools)
        BY DEF acc
      <3>2. /\ DOMAIN a.dec = DOMAIN newStreamDecoder
            /\ in.stop = "" => Legal(K, O, a.events, L, P) /\ a.dec.chatTools = acc.tools
            /\ \E Q : Legal(K, O, a.events, L, Q)
        BY <1>4, <1>8, <3>1, ChatAnswers
      <3>. HIDE DEF a
      <3>. QED BY <3>2 DEF answer, a
    <2>2. PICK Q : /\ Legal(K, O, answer.events, L, Q)
                   /\ in.stop = "" => Q = P
      BY <2>1
    <2>3. /\ Watched' /\ Encoding'
          /\ status' = "open" => /\ dec' = answer.dec /\ Keys(enc') = L
                                 /\ Q \subseteq LiveKeys(enc')
      BY <1>6, <1>8, <2>2
    <2>4. ChatLink'
      BY <1>1, <1>5, <1>8, <2>1, <2>2, <2>3 DEF ChatLink
    <2>. QED BY <2>3, <2>4
  <1>9. CASE in.type # "DONE" /\ up.stop # ""
    <2>1. in.tools = <<>> /\ in.stop = "" /\ u.stop # ""
      BY <1>9 DEF ChatMove
    <2>2. acc = [tools |-> dec.chatTools, events |-> <<>>]
      BY <2>1, ChatFolds
    <2>3. acc.events = <<>>
      BY <2>2
    <2>. HIDE DEF acc
    <2>4. Legal(K, {}, acc.events, K, {})
      BY <2>3, LegalNone
    <2>. QED BY <1>8, <1>9, <2>1, <2>4
  <1>10. CASE in.type # "DONE" /\ up.stop = ""
    <2> DEFINE m == Len(u.blocks)
               T == dec.chatTools
    <2>1. \/ in.tools = <<>> /\ m = n
          \/ \E t : /\ in.tools = <<t>> /\ t.index \in 0..n
                    /\ t.index = n => t.call \in {0, n + 1}
                    /\ m = IF t.index = n THEN n + 1 ELSE n
          \/ \E s, t : /\ in.tools = <<s, t>> /\ s.index = n /\ t.index = n + 1
                       /\ s.call = s.index + 1 /\ t.call = t.index + 1
                       /\ m = (n + 1) + 1
      BY <1>10 DEF ChatMove
    <2>2. u.stop = "" <=> in.stop = ""
      BY <1>10 DEF ChatMove
    <2>3. Numbered(T, n) /\ K = IdKeys(T) /\ K \subseteq LiveKeys(enc)
      BY <1>4, <1>10
    <2>. HIDE DEF m, n, T
    <2>4. /\ Numbered(acc.tools, m)
          /\ Legal(K, K, acc.events, IdKeys(acc.tools), IdKeys(acc.tools))
      BY <2>1, <2>3, ChatCalls DEF T
    <2>. HIDE DEF acc
    <2>. QED BY <1>8, <1>10, <2>2, <2>3, <2>4 DEF m
  <1>. QED BY <1>7, <1>9, <1>10

(* The chunks of a Chat upstream. *)
LEMMA SaysStop ==
  ASSUME NEW u, DOMAIN u = DOMAIN Silence, NEW kind, NEW d, NEW n
  PROVE  Says(u, kind, d).stop = u.stop /\ Spends(u, n).stop = u.stop
  BY DEF Says, Spends, Silence

LEMMA StartsOne ==
  ASSUME NEW v, DOMAIN v = DOMAIN Silence, NEW kind, NEW id, NEW d
  PROVE  Starts(v, kind, id, d).blocks =
           Append(v.blocks, [kind |-> kind, call |-> id, content |-> Cat(<<>>, d),
                             open |-> TRUE])
  <1> DEFINE b == [kind |-> kind, call |-> id, content |-> Cat(<<>>, d), open |-> TRUE]
             w == [v EXCEPT !.blocks = Append(@, b)]
  <1>1. Starts(v, kind, id, d) = Says(w, kind, d)
    BY DEF Starts
  <1>. HIDE DEF b
  <1>2. DOMAIN w = DOMAIN Silence /\ w.blocks = Append(v.blocks, b)
    BY DEF Silence
  <1>. HIDE DEF w
  <1>3. Starts(v, kind, id, d).blocks = Append(v.blocks, b)
    BY <1>1, <1>2, SaysKeeps
  <1>. QED BY <1>3 DEF b

LEMMA StartsCount ==
  ASSUME NEW v, DOMAIN v = DOMAIN Silence, IsSeq(v.blocks), NEW kind, NEW id, NEW d
  PROVE  /\ DOMAIN Starts(v, kind, id, d) = DOMAIN Silence
         /\ Starts(v, kind, id, d).stop = v.stop
         /\ IsSeq(Starts(v, kind, id, d).blocks)
         /\ Len(Starts(v, kind, id, d).blocks) = Len(v.blocks) + 1
  <1> DEFINE u == Starts(v, kind, id, d)
             b == [kind |-> kind, call |-> id, content |-> Cat(<<>>, d), open |-> TRUE]
             w == [v EXCEPT !.blocks = Append(@, b)]
  <1>1. u = Says(w, kind, d)
    BY DEF Starts
  <1>. HIDE DEF b
  <1>2. DOMAIN w = DOMAIN Silence /\ w.stop = v.stop /\ w.blocks = Append(v.blocks, b)
    BY DEF Silence
  <1>. HIDE DEF w
  <1>3. DOMAIN u = DOMAIN Silence /\ u.stop = v.stop /\ u.blocks = Append(v.blocks, b)
    BY <1>1, <1>2, SaysKeeps, SaysStop
  <1>. HIDE DEF u
  <1>4. IsSeq(u.blocks) /\ Len(u.blocks) = Len(v.blocks) + 1
    BY <1>3, Appends
  <1>. QED BY <1>3, <1>4 DEF u

LEMMA AddsOne ==
  ASSUME NEW v, DOMAIN v = DOMAIN Silence, IsSeq(v.blocks), NEW k, NEW d
  PROVE  LET u == Adds(v, k, d)
         IN /\ DOMAIN u = DOMAIN Silence /\ u.stop = v.stop
            /\ u.blocks = [v.blocks EXCEPT ![k].content = Cat(@, d)]
            /\ IsSeq(u.blocks) /\ Len(u.blocks) = Len(v.blocks)
  <1> DEFINE u == Adds(v, k, d)
             bs == [v.blocks EXCEPT ![k].content = Cat(@, d)]
             w == [v EXCEPT !.blocks[k].content = Cat(@, d)]
  <1>1. u = Says(w, v.blocks[k].kind, d)
    BY DEF Adds
  <1>2. DOMAIN w = DOMAIN Silence /\ w.stop = v.stop /\ w.blocks = bs
    BY DEF Silence
  <1>. HIDE DEF w
  <1>3. DOMAIN u = DOMAIN Silence /\ u.stop = v.stop /\ u.blocks = bs
    BY <1>1, <1>2, SaysKeeps, SaysStop
  <1>4. IsSeq(bs) /\ Len(bs) = Len(v.blocks)
    BY Updates
  <1>. HIDE DEF u
  <1>. QED BY <1>3, <1>4 DEF u

LEMMA ChatMoves ==
  ASSUME from = "chat", DOMAIN up = DOMAIN Silence, IsSeq(up.blocks), Next
  PROVE  \E in, u : Send(in, u) /\ ChatMove(in, u)
  <1> DEFINE n == Len(up.blocks)
  <1>1. n \in Nat /\ DOMAIN up.blocks = 1..n
    BY SeqFacts
  <1>2. /\ Chunk.type = "chunk" /\ Chunk.tools = <<>> /\ Chunk.stop = ""
        /\ DOMAIN Chunk = DOMAIN blank
    BY DEF Chunk, blank
  <1>3. ASSUME NEW in, in.type # "DONE", in.tools = <<>>, in.stop = "", NEW u,
               DOMAIN u = DOMAIN Silence, u.blocks = up.blocks, u.stop = up.stop, Send(in, u)
        PROVE  \E i, v : Send(i, v) /\ ChatMove(i, v)
    BY <1>3 DEF ChatMove
  <1>4. CASE Begin
    <2> DEFINE in == [blank EXCEPT !.type = "response.created", !.usage = NoUsage]
               u == [up EXCEPT !.begun = TRUE, !.usage = NoUsage]
    <2>1. Send(in, u)
      BY <1>4 DEF Begin, Named
    <2>2. in.type = "response.created" /\ in.tools = <<>> /\ in.stop = ""
      BY DEF blank
    <2>3. DOMAIN u = DOMAIN Silence /\ u.blocks = up.blocks /\ u.stop = up.stop
      BY DEF Silence
    <2>. HIDE DEF in, u
    <2>. QED BY <1>3, <2>1, <2>2, <2>3
  <1>5. CASE ReportError
    <2> DEFINE u == [up EXCEPT !.broke = TRUE]
    <2>1. Send(Chunk, u)
      BY <1>5 DEF ReportError
    <2>2. DOMAIN u = DOMAIN Silence /\ u.blocks = up.blocks /\ u.stop = up.stop
      BY DEF Silence
    <2>. HIDE DEF u
    <2>. QED BY <1>2, <1>3, <2>1, <2>2
  <1>6. CASE ChatContent
    <2>1. PICK r, c, k :
            Send([Chunk EXCEPT !.reasoning = r, !.delta = c],
                 Spends(Says(Says(up, "reasoning", r), "text", c), k))
      BY <1>6 DEF ChatContent
    <2> DEFINE in == [Chunk EXCEPT !.reasoning = r, !.delta = c]
               a == Says(up, "reasoning", r)
               b == Says(a, "text", c)
               u == Spends(b, k)
    <2>2. in.type = "chunk" /\ in.tools = <<>> /\ in.stop = ""
      BY DEF Chunk, blank
    <2>3. DOMAIN a = DOMAIN Silence /\ a.blocks = up.blocks /\ a.stop = up.stop
      BY SaysKeeps, SaysStop
    <2>a. Send(in, u)
      BY <2>1
    <2>. HIDE DEF a, in
    <2>4. DOMAIN b = DOMAIN Silence /\ b.blocks = up.blocks /\ b.stop = up.stop
      BY <2>3, SaysKeeps, SaysStop
    <2>. HIDE DEF b
    <2>5. DOMAIN u = DOMAIN Silence /\ u.blocks = up.blocks /\ u.stop = up.stop
      BY <2>4, SaysKeeps, SaysStop
    <2>. HIDE DEF u
    <2>. QED BY <1>3, <2>a, <2>2, <2>5
  <1>7. CASE ChatCall
    <2>1. PICK id, d, k :
            /\ id \in {0, n + 1}
            /\ Send([Chunk EXCEPT !.tools = <<Call(n, id, d)>>], Spends(Starts(up, "tool", id, d), k))
      BY <1>7 DEF ChatCall, NextCall
    <2> DEFINE t == Call(n, id, d)
               in == [Chunk EXCEPT !.tools = <<t>>]
               a == Starts(up, "tool", id, d)
               u == Spends(a, k)
    <2>2. in.type = "chunk" /\ in.tools = <<t>> /\ in.stop = ""
      BY DEF Chunk, blank
    <2>3. t.index = n /\ t.call = id
      BY DEF Call
    <2>4. up.stop = ""
      BY <1>7 DEF ChatCall, MayOpen
    <2>a. Send(in, u)
      BY <2>1
    <2>5. DOMAIN a = DOMAIN Silence /\ a.stop = up.stop /\ IsSeq(a.blocks) /\ Len(a.blocks) = n + 1
      BY StartsCount
    <2>. HIDE DEF a, in, t
    <2>6. DOMAIN u = DOMAIN Silence /\ u.stop = up.stop /\ IsSeq(u.blocks) /\ Len(u.blocks) = n + 1
      BY <2>5, SaysKeeps, SaysStop
    <2>. HIDE DEF u
    <2>7. n \in 0..n
      BY <1>1
    <2>8. ChatMove(in, u)
      BY <1>1, <2>1, <2>2, <2>3, <2>4, <2>6, <2>7 DEF ChatMove
    <2>. QED BY <2>a, <2>8
  <1>8. CASE ChatTwoCalls
    <2> DEFINE s == Call(n, NextCall, 0)
               t == Call(n + 1, NextCall + 1, 0)
               in == [Chunk EXCEPT !.tools = <<s, t>>]
               a == Starts(up, "tool", NextCall, 0)
               u == Starts(a, "tool", NextCall + 1, 0)
    <2>1. Send(in, u)
      BY <1>8 DEF ChatTwoCalls
    <2>2. in.type = "chunk" /\ in.tools = <<s, t>> /\ in.stop = ""
      BY DEF Chunk, blank
    <2>3. s.index = n /\ t.index = n + 1 /\ s.call = s.index + 1 /\ t.call = t.index + 1
      BY DEF Call, NextCall
    <2>4. up.stop = ""
      BY <1>8 DEF ChatTwoCalls, MayOpen
    <2>5. DOMAIN a = DOMAIN Silence /\ a.stop = up.stop /\ IsSeq(a.blocks) /\ Len(a.blocks) = n + 1
      BY StartsCount
    <2>. HIDE DEF a, in, s, t
    <2>6. DOMAIN u = DOMAIN Silence /\ u.stop = up.stop /\ IsSeq(u.blocks)
          /\ Len(u.blocks) = (n + 1) + 1
      BY <2>5, StartsCount
    <2>. HIDE DEF u
    <2>7. ChatMove(in, u)
      BY <2>2, <2>3, <2>4, <2>6 DEF ChatMove
    <2>. QED BY <2>1, <2>7
  <1>9. CASE ChatArguments
    <2>0. PICK k \in DOMAIN up.blocks :
            \E d : Send([Chunk EXCEPT !.tools = <<Call(k - 1, 0, d)>>],
                        Spends(Adds(up, k, d), 1))
      BY <1>9 DEF ChatArguments
    <2>1. PICK d :
            Send([Chunk EXCEPT !.tools = <<Call(k - 1, 0, d)>>], Spends(Adds(up, k, d), 1))
      BY <2>0
    <2> DEFINE t == Call(k - 1, 0, d)
               in == [Chunk EXCEPT !.tools = <<t>>]
               a == Adds(up, k, d)
               u == Spends(a, 1)
    <2>2. in.type = "chunk" /\ in.tools = <<t>> /\ in.stop = ""
      BY DEF Chunk, blank
    <2>3. t.index = k - 1
      BY DEF Call
    <2>4. up.stop = ""
      BY <1>9 DEF ChatArguments
    <2>a. Send(in, u)
      BY <2>1
    <2>5. DOMAIN a = DOMAIN Silence /\ a.stop = up.stop /\ IsSeq(a.blocks) /\ Len(a.blocks) = n
      BY AddsOne
    <2>. HIDE DEF a, in, t
    <2>6. DOMAIN u = DOMAIN Silence /\ u.stop = up.stop /\ IsSeq(u.blocks) /\ Len(u.blocks) = n
      BY <2>5, SaysKeeps, SaysStop
    <2>. HIDE DEF u
    <2>7. t.index \in 0..n /\ t.index # n
      BY <1>1, <2>3
    <2>8. ChatMove(in, u)
      BY <2>2, <2>4, <2>6, <2>7 DEF ChatMove
    <2>. QED BY <2>a, <2>8
  <1>10. CASE ChatFinish
    <2>0. PICK reason \in {"stop", "length", "tool_calls"} :
            \E c, k, x : Send([Chunk EXCEPT !.delta = c, !.stop = reason, !.usage = x],
                              Stops(Spends(Says(up, "text", c), k), reason, x))
      BY <1>10 DEF ChatFinish
    <2>1. PICK c, k, x :
            Send([Chunk EXCEPT !.delta = c, !.stop = reason, !.usage = x],
                 Stops(Spends(Says(up, "text", c), k), reason, x))
      BY <2>0
    <2> DEFINE in == [Chunk EXCEPT !.delta = c, !.stop = reason, !.usage = x]
               a == Says(up, "text", c)
               b == Spends(a, k)
               u == Stops(b, reason, x)
    <2>2. in.type = "chunk" /\ in.tools = <<>> /\ in.stop = reason
      BY DEF Chunk, blank
    <2>3. DOMAIN a = DOMAIN Silence /\ a.blocks = up.blocks
      BY SaysKeeps
    <2>4. up.stop = ""
      BY <1>10 DEF ChatFinish
    <2>a. Send(in, u)
      BY <2>1
    <2>. HIDE DEF a, in
    <2>5. DOMAIN b = DOMAIN Silence /\ b.blocks = up.blocks
      BY <2>3, SaysKeeps
    <2>. HIDE DEF b
    <2>6. DOMAIN u = DOMAIN Silence /\ u.blocks = up.blocks /\ u.stop = reason
      BY <2>5 DEF Stops, Silence
    <2>. HIDE DEF u
    <2>7. ChatMove(in, u)
      BY <2>2, <2>4, <2>6 DEF ChatMove
    <2>. QED BY <2>a, <2>7
  <1>11. CASE ChatUsage
    <2> DEFINE in == [Chunk EXCEPT !.usage = Whole]
               u == Stops(up, up.stop, Whole)
    <2>1. Send(in, u)
      BY <1>11 DEF ChatUsage
    <2>2. in.type = "chunk" /\ in.tools = <<>> /\ in.stop = ""
      BY DEF Chunk, blank
    <2>3. DOMAIN u = DOMAIN Silence /\ u.blocks = up.blocks /\ u.stop = up.stop
      BY DEF Stops, Silence
    <2>. HIDE DEF in, u
    <2>. QED BY <1>3, <2>1, <2>2, <2>3
  <1>12. CASE ChatDone
    <2> DEFINE in == [blank EXCEPT !.type = "DONE"]
    <2>1. Send(in, up)
      BY <1>12 DEF ChatDone
    <2>2. in.type = "DONE"
      BY DEF blank
    <2>. HIDE DEF in
    <2>3. ChatMove(in, up)
      BY <2>2 DEF ChatMove
    <2>. QED BY <2>1, <2>3
  <1>13. CASE \/ \E kind \in {"text", "reasoning", "tool", "opaque"} : OpenBlock(kind)
              \/ GrowBlock \/ CloseBlock \/ MessageDelta \/ MessageStop
              \/ \E reason \in {"", "other"} : ResponseEnds("response.completed", reason)
              \/ \E reason \in {"max_output_tokens", "content_filter", "other"} :
                   ResponseEnds("response.incomplete", reason)
              \/ ResponseEnds("response.failed", "") \/ AntigravityDocument
    BY <1>13 DEF OpenBlock, GrowBlock, CloseBlock, InBlocksUpstream, MessageDelta,
                 MessageStop, ResponseEnds, AntigravityDocument
  <1>. QED BY <1>4, <1>5, <1>6, <1>7, <1>8, <1>9, <1>10, <1>11, <1>12, <1>13 DEF Next


-----------------------------------------------------------------------------
(* A Messages or Responses upstream. *)

(* Its k-th block, and the calls among its blocks as the encoder knows     *)
(* them.                                                                   *)
IsUpBlock(b, k) ==
  /\ DOMAIN b = BlockFields /\ b.kind \in Kinds \cup {"opaque"} /\ b.open \in BOOLEAN
  /\ b.kind = "tool" => b.call = k \/ (k = 1 /\ b.call = 0)
AreBlocks(bs) == IsSeq(bs) /\ \A k \in DOMAIN bs : IsUpBlock(bs[k], k)
KeyAt(bs, k) == KeyFor(bs[k].call, k - 1)
CallsIn(bs) == {k \in DOMAIN bs : bs[k].kind = "tool"}
LiveIn(bs) == {k \in CallsIn(bs) : bs[k].open}
UpKeys(bs) == {KeyAt(bs, k) : k \in CallsIn(bs)}
UpLive(bs) == {KeyAt(bs, k) : k \in LiveIn(bs)}

BlockTypes == {"content_block_start", "content_block_delta", "content_block_stop",
               "response.output_item.added", "response.delta", "response.output_item.done"}
TypeFor(p, messages, responses) == IF p = "messages" THEN messages ELSE responses

(* What an event of the protocol p does to the blocks. *)
Stays(in, bs, cs) == in.type \notin BlockTypes /\ cs = bs
Opening(p, in, bs, cs) ==
  /\ in.type = TypeFor(p, "content_block_start", "response.output_item.added")
  /\ in.index = Len(bs)
  /\ \E b : /\ IsUpBlock(b, Len(bs) + 1) /\ b.open /\ b.kind = in.kind /\ b.call = in.call
            /\ cs = Append(bs, b)
Growing(p, in, bs, cs) ==
  /\ in.type = TypeFor(p, "content_block_delta", "response.delta")
  /\ \E k \in DOMAIN bs : /\ bs[k].open /\ bs[k].kind = in.kind /\ in.kind \in Kinds
                          /\ in.index = k - 1
                          /\ \E x : cs = [bs EXCEPT ![k].content = x]
Closing(p, in, bs, cs) ==
  /\ in.type = TypeFor(p, "content_block_stop", "response.output_item.done")
  /\ \E k \in DOMAIN bs : /\ bs[k].open /\ in.index = k - 1
                          /\ p # "messages" => in.kind = bs[k].kind /\ in.call = bs[k].call
                          /\ cs = [bs EXCEPT ![k].open = FALSE]

LEMMA KeysApart ==
  ASSUME NEW j \in Nat \ {0}, NEW k \in Nat \ {0}, j # k, NEW c, NEW d,
         c = j \/ (j = 1 /\ c = 0), d = k \/ (k = 1 /\ d = 0)
  PROVE  KeyFor(c, j - 1) # KeyFor(d, k - 1)
  BY DEF KeyFor

(* A block that is opened is a new one. *)
LEMMA BlockOpens ==
  ASSUME NEW bs, AreBlocks(bs), NEW b, IsUpBlock(b, Len(bs) + 1), b.open
  PROVE  LET cs == Append(bs, b)
             key == KeyFor(b.call, Len(bs))
             new == IF b.kind = "tool" THEN {key} ELSE {}
         IN /\ AreBlocks(cs) /\ Len(cs) = Len(bs) + 1
            /\ UpKeys(cs) = UpKeys(bs) \cup new /\ UpLive(cs) = UpLive(bs) \cup new
            /\ b.kind = "tool" => key \notin UpKeys(bs)
            /\ Closed(cs) = Closed(bs)
            /\ DOMAIN cs = 1..(Len(bs) + 1) /\ cs[Len(bs) + 1] = b
            /\ \A k \in DOMAIN bs : cs[k] = bs[k]
  <1> DEFINE n == Len(bs)
             cs == Append(bs, b)
             key == KeyFor(b.call, n)
             new == IF b.kind = "tool" THEN {key} ELSE {}
  <1>1. /\ n \in Nat /\ DOMAIN bs = 1..n /\ IsSeq(bs)
        /\ \A k \in 1..n : IsUpBlock(bs[k], k)
    BY SeqFacts DEF AreBlocks
  <1>2. /\ IsSeq(cs) /\ Len(cs) = n + 1 /\ DOMAIN cs = 1..(n + 1)
        /\ \A k \in 1..n : cs[k] = bs[k]
        /\ cs[n + 1] = b
    BY <1>1, Appends, SeqFacts
  <1>. HIDE DEF cs, n, key
  <1>3. 1..(n + 1) = 1..n \cup {n + 1} /\ n + 1 \notin 1..n
    BY <1>1
  <1>a. IsUpBlock(b, n + 1)
    BY DEF n
  <1>4. AreBlocks(cs)
    BY <1>1, <1>2, <1>3, <1>a DEF AreBlocks
  <1>5. \A k \in 1..n : KeyAt(cs, k) = KeyAt(bs, k)
    BY <1>2 DEF KeyAt
  <1>6. KeyAt(cs, n + 1) = key
    <2>1. (n + 1) - 1 = n
      BY <1>1
    <2>. QED BY <1>2, <2>1 DEF KeyAt, key, n
  <1>7. CallsIn(cs) = CallsIn(bs) \cup (IF b.kind = "tool" THEN {n + 1} ELSE {})
    BY <1>1, <1>2, <1>3 DEF CallsIn
  <1>8. LiveIn(cs) = LiveIn(bs) \cup (IF b.kind = "tool" THEN {n + 1} ELSE {})
    <2>1. \A k \in 1..n : k \in CallsIn(cs) <=> k \in CallsIn(bs)
      BY <1>3, <1>7
    <2>2. CallsIn(bs) \subseteq 1..n /\ CallsIn(cs) \subseteq 1..(n + 1)
      BY <1>1, <1>2 DEF CallsIn
    <2>3. n + 1 \in CallsIn(cs) <=> b.kind = "tool"
      BY <1>2, <1>3 DEF CallsIn
    <2>. QED BY <1>2, <1>3, <2>1, <2>2, <2>3 DEF LiveIn
  <1>9. CallsIn(bs) \subseteq 1..n /\ LiveIn(bs) \subseteq 1..n
    BY <1>1 DEF CallsIn, LiveIn
  <1>10. UpKeys(cs) = UpKeys(bs) \cup new
    <2>1. CASE b.kind = "tool"
      BY <1>5, <1>6, <1>7, <1>9, <2>1 DEF UpKeys
    <2>2. CASE b.kind # "tool"
      BY <1>5, <1>7, <1>9, <2>2 DEF UpKeys
    <2>. QED BY <2>1, <2>2
  <1>11. UpLive(cs) = UpLive(bs) \cup new
    <2>1. CASE b.kind = "tool"
      BY <1>5, <1>6, <1>8, <1>9, <2>1 DEF UpLive
    <2>2. CASE b.kind # "tool"
      BY <1>5, <1>8, <1>9, <2>2 DEF UpLive
    <2>. QED BY <2>1, <2>2
  <1>12. ASSUME b.kind = "tool" PROVE key \notin UpKeys(bs)
    <2>1. SUFFICES ASSUME NEW k \in CallsIn(bs) PROVE KeyAt(bs, k) # key
      BY DEF UpKeys
    <2>2. k \in 1..n /\ bs[k].kind = "tool" /\ IsUpBlock(bs[k], k)
      BY <1>1, <1>9 DEF CallsIn
    <2>3. bs[k].call = k \/ (k = 1 /\ bs[k].call = 0)
      BY <2>2 DEF IsUpBlock
    <2>4. b.call = n + 1 \/ (n + 1 = 1 /\ b.call = 0)
      BY <1>a, <1>12 DEF IsUpBlock
    <2>5. k \in Nat \ {0} /\ n + 1 \in Nat \ {0} /\ k # n + 1 /\ (n + 1) - 1 = n
      BY <1>1, <2>2
    <2>6. KeyFor(bs[k].call, k - 1) # KeyFor(b.call, (n + 1) - 1)
      BY <2>3, <2>4, <2>5, KeysApart
    <2>. QED BY <2>5, <2>6 DEF KeyAt, key, n
  <1>13. Closed(cs) = Closed(bs)
    BY <1>1, <1>2, <1>3 DEF Closed
  <1>. QED BY <1>1, <1>2, <1>4, <1>10, <1>11, <1>12, <1>13 DEF cs, n, key

LEMMA BlockGrows ==
  ASSUME NEW bs, AreBlocks(bs), NEW k \in DOMAIN bs, NEW x
  PROVE  LET cs == [bs EXCEPT ![k].content = x]
         IN /\ AreBlocks(cs) /\ Len(cs) = Len(bs) /\ DOMAIN cs = DOMAIN bs
            /\ UpKeys(cs) = UpKeys(bs) /\ UpLive(cs) = UpLive(bs) /\ Closed(cs) = Closed(bs)
            /\ \A j \in DOMAIN bs : /\ cs[j].kind = bs[j].kind /\ cs[j].call = bs[j].call
                                    /\ cs[j].open = bs[j].open
  <1> DEFINE cs == [bs EXCEPT ![k].content = x]
  <1>1. IsSeq(cs) /\ Len(cs) = Len(bs)
    BY Updates DEF AreBlocks
  <1>2. /\ DOMAIN cs = DOMAIN bs
        /\ \A j \in DOMAIN bs : /\ cs[j].kind = bs[j].kind /\ cs[j].call = bs[j].call
                                /\ cs[j].open = bs[j].open
        /\ \A j \in DOMAIN bs : DOMAIN cs[j] = DOMAIN bs[j]
    OBVIOUS
  <1>. HIDE DEF cs
  <1>3. AreBlocks(cs)
    <2>1. ASSUME NEW j \in DOMAIN bs PROVE IsUpBlock(cs[j], j)
      BY <1>2 DEF AreBlocks, IsUpBlock
    <2>. QED BY <1>1, <1>2, <2>1 DEF AreBlocks
  <1>4. CallsIn(cs) = CallsIn(bs) /\ CallsIn(bs) \subseteq DOMAIN bs
    BY <1>2 DEF CallsIn
  <1>5. LiveIn(cs) = LiveIn(bs) /\ LiveIn(bs) \subseteq DOMAIN bs
    BY <1>2, <1>4 DEF LiveIn
  <1>6. \A j \in DOMAIN bs : KeyAt(cs, j) = KeyAt(bs, j)
    BY <1>2 DEF KeyAt
  <1>7. UpKeys(cs) = UpKeys(bs) /\ UpLive(cs) = UpLive(bs)
    BY <1>4, <1>5, <1>6 DEF UpKeys, UpLive
  <1>8. Closed(cs) = Closed(bs)
    BY <1>2 DEF Closed
  <1>. QED BY <1>1, <1>2, <1>3, <1>7, <1>8 DEF cs

LEMMA BlockCloses ==
  ASSUME NEW bs, AreBlocks(bs), NEW k \in DOMAIN bs
  PROVE  LET cs == [bs EXCEPT ![k].open = FALSE]
         IN /\ AreBlocks(cs) /\ Len(cs) = Len(bs) /\ DOMAIN cs = DOMAIN bs
            /\ UpKeys(cs) = UpKeys(bs)
            /\ bs[k].kind = "tool" => UpLive(cs) = UpLive(bs) \ {KeyAt(bs, k)}
            /\ bs[k].kind # "tool" => UpLive(cs) = UpLive(bs)
            /\ Closed(cs) = Closed(bs) \cup {k}
            /\ ~cs[k].open /\ \A j \in DOMAIN bs : j # k => cs[j].open = bs[j].open
            /\ \A j \in DOMAIN bs : cs[j].kind = bs[j].kind /\ cs[j].call = bs[j].call
  <1> DEFINE cs == [bs EXCEPT ![k].open = FALSE]
  <1>1. IsSeq(cs) /\ Len(cs) = Len(bs)
    BY Updates DEF AreBlocks
  <1>a. \A j \in DOMAIN bs : IsUpBlock(bs[j], j)
    BY DEF AreBlocks
  <1>2. /\ DOMAIN cs = DOMAIN bs
        /\ \A j \in DOMAIN bs : DOMAIN cs[j] = DOMAIN bs[j]
        /\ \A j \in DOMAIN bs : cs[j].kind = bs[j].kind /\ cs[j].call = bs[j].call
    OBVIOUS
  <1>3. cs[k].open = FALSE /\ \A j \in DOMAIN bs : j # k => cs[j].open = bs[j].open
    <2> DEFINE b == [bs[k] EXCEPT !.open = FALSE]
    <2>1. DOMAIN bs[k] = BlockFields
      BY <1>a DEF IsUpBlock
    <2>2. b.open = FALSE
      BY <2>1 DEF BlockFields
    <2>3. cs = [bs EXCEPT ![k] = b]
      OBVIOUS
    <2>. HIDE DEF b, cs
    <2>. QED BY <2>2, <2>3
  <1>. HIDE DEF cs
  <1>4. AreBlocks(cs)
    <2>1. ASSUME NEW j \in DOMAIN bs PROVE IsUpBlock(cs[j], j)
      <3>1. cs[j].open \in BOOLEAN
        BY <1>a, <1>3 DEF IsUpBlock
      <3>2. DOMAIN cs[j] = DOMAIN bs[j] /\ cs[j].kind = bs[j].kind /\ cs[j].call = bs[j].call
        BY <1>2
      <3>3. IsUpBlock(bs[j], j)
        BY <1>a
      <3>. QED BY <3>1, <3>2, <3>3 DEF IsUpBlock
    <2>. QED BY <1>1, <1>2, <2>1 DEF AreBlocks
  <1>5. CallsIn(cs) = CallsIn(bs) /\ CallsIn(bs) \subseteq DOMAIN bs
    BY <1>2 DEF CallsIn
  <1>6. \A j \in DOMAIN bs : KeyAt(cs, j) = KeyAt(bs, j)
    BY <1>2 DEF KeyAt
  <1>7. UpKeys(cs) = UpKeys(bs)
    BY <1>5, <1>6 DEF UpKeys
  <1>8. LiveIn(cs) = LiveIn(bs) \ {k} /\ LiveIn(bs) \subseteq DOMAIN bs
    BY <1>2, <1>3, <1>5 DEF LiveIn
  <1>9. Closed(cs) = Closed(bs) \cup {k}
    BY <1>2, <1>3 DEF Closed
  <1>10. CASE bs[k].kind = "tool"
    <2>1. ASSUME NEW j \in LiveIn(bs), j # k PROVE KeyAt(bs, j) # KeyAt(bs, k)
      <3>1. /\ bs[j].kind = "tool" /\ IsUpBlock(bs[j], j) /\ IsUpBlock(bs[k], k)
            /\ j \in DOMAIN bs
        BY <1>a, <1>8 DEF LiveIn, CallsIn
      <3>2. /\ bs[j].call = j \/ (j = 1 /\ bs[j].call = 0)
            /\ bs[k].call = k \/ (k = 1 /\ bs[k].call = 0)
        BY <1>10, <3>1 DEF IsUpBlock
      <3>3. j \in Nat \ {0} /\ k \in Nat \ {0}
        BY <3>1, SeqFacts DEF AreBlocks
      <3>4. KeyFor(bs[j].call, j - 1) # KeyFor(bs[k].call, k - 1)
        BY <2>1, <3>2, <3>3, KeysApart
      <3>. QED BY <3>4 DEF KeyAt
    <2>2. UpLive(cs) = UpLive(bs) \ {KeyAt(bs, k)}
      BY <1>6, <1>8, <2>1 DEF UpLive
    <2>. QED BY <1>1, <1>2, <1>3, <1>4, <1>7, <1>9, <1>10, <2>2 DEF cs
  <1>11. CASE bs[k].kind # "tool"
    <2>1. LiveIn(cs) = LiveIn(bs)
      BY <1>8, <1>11 DEF LiveIn, CallsIn
    <2>2. UpLive(cs) = UpLive(bs)
      BY <1>6, <1>8, <2>1 DEF UpLive
    <2>. QED BY <1>1, <1>2, <1>3, <1>4, <1>7, <1>9, <1>11, <2>2 DEF cs
  <1>. QED BY <1>10, <1>11

(* What the decoder knows of the blocks. *)
MessagesKnow(d, bs) ==
  \A k \in DOMAIN bs : bs[k].open =>
    /\ k - 1 \in DOMAIN d.messageBlocks
    /\ d.messageBlocks[k - 1].kind = bs[k].kind /\ d.messageBlocks[k - 1].call = bs[k].call
ResponsesKnow(d, bs) ==
  \A k \in CallsIn(bs) : k - 1 \in DOMAIN d.responseTools /\ d.responseTools[k - 1] = bs[k].call

LEMMA Binds ==
  ASSUME NEW map, NEW i, NEW x
  PROVE  /\ i \in DOMAIN Bind(map, i, x) /\ Bind(map, i, x)[i] = x
         /\ \A j \in DOMAIN map : j \in DOMAIN Bind(map, i, x)
                                  /\ (j # i => Bind(map, i, x)[j] = map[j])
  BY DEF Bind

LEMMA Drops ==
  ASSUME NEW map, NEW i, NEW j \in DOMAIN map, j # i
  PROVE  j \in DOMAIN Drop(map, i) /\ Drop(map, i)[j] = map[j]
  BY DEF Drop

(* An event of no block. *)
LEMMA MessagesStay ==
  ASSUME NEW d, DOMAIN d = DOMAIN newStreamDecoder, NEW bs, MessagesKnow(d, bs),
         NEW in, in.type \notin BlockTypes, NEW K, NEW O
  PROVE  LET a == decodeMessages(d, in)
         IN ~a.error => /\ DOMAIN a.dec = DOMAIN newStreamDecoder /\ MessagesKnow(a.dec, bs)
                        /\ Legal(K, O, a.events, K, O)
  <1> DEFINE a == decodeMessages(d, in)
             b == [d EXCEPT !.started = TRUE]
  <1>1. DOMAIN b = DOMAIN newStreamDecoder /\ b.messageBlocks = d.messageBlocks
    BY DEF newStreamDecoder
  <1>2. MessagesKnow(b, bs)
    BY <1>1 DEF MessagesKnow
  <1>. HIDE DEF b
  <1>3. Legal(K, O, <<>>, K, O)
    BY LegalNone
  <1>4. Legal(K, O, <<Event("start")>> \o Report(in.usage), K, O)
    BY LegalEvents, LegalJoin
  <1>5. Legal(K, O, <<Finish(normalizeMessagesStop(in.stop))>> \o Report(in.usage), K, O)
    BY LegalEvents, LegalJoin
  <1>6. Legal(K, O, <<Event("done")>>, K, O)
    BY LegalEvents
  <1>7. CASE in.type = "ping"
    <2>1. a = Answer(d, <<>>)
      BY <1>7 DEF decodeMessages
    <2>. HIDE DEF a
    <2>. QED BY <1>3, <2>1 DEF a, Answer, Refusal
  <1>8. CASE in.type = "message_start"
    <2>1. a = Answer(b, <<Event("start")>> \o Report(in.usage))
      BY <1>8 DEF decodeMessages, b
    <2>. HIDE DEF a
    <2>. QED BY <1>1, <1>2, <1>4, <2>1 DEF a, Answer, Refusal
  <1>9. CASE in.type = "message_delta"
    <2>1. a = Answer(d, <<Finish(normalizeMessagesStop(in.stop))>> \o Report(in.usage))
      BY <1>9 DEF decodeMessages
    <2>. HIDE DEF a
    <2>. QED BY <1>5, <2>1 DEF a, Answer, Refusal
  <1>10. CASE in.type = "message_stop"
    <2>1. a = Answer(d, <<Event("done")>>)
      BY <1>10 DEF decodeMessages
    <2>. HIDE DEF a
    <2>. QED BY <1>6, <2>1 DEF a, Answer, Refusal
  <1>11. CASE in.type \notin {"ping", "message_start", "message_delta", "message_stop"}
    <2>1. a = Refusal(d)
      BY <1>11 DEF decodeMessages, BlockTypes
    <2>. HIDE DEF a
    <2>. QED BY <2>1 DEF a, Answer, Refusal
  <1>. QED BY <1>7, <1>8, <1>9, <1>10, <1>11

LEMMA MessagesOpen ==
  ASSUME NEW d, DOMAIN d = DOMAIN newStreamDecoder, NEW bs, AreBlocks(bs), MessagesKnow(d, bs),
         NEW in, in.type = "content_block_start", in.index = Len(bs),
         NEW b, IsUpBlock(b, Len(bs) + 1), b.open, b.kind = in.kind, b.call = in.call,
         NEW O
  PROVE  LET a == decodeMessages(d, in)
             cs == Append(bs, b)
             new == IF b.kind = "tool" THEN {KeyFor(b.call, Len(bs))} ELSE {}
         IN /\ DOMAIN a.dec = DOMAIN newStreamDecoder /\ MessagesKnow(a.dec, cs)
            /\ Legal(UpKeys(bs), O, a.events, UpKeys(cs), O \cup new)
  <1> DEFINE a == decodeMessages(d, in)
             cs == Append(bs, b)
             n == Len(bs)
             new == IF b.kind = "tool" THEN {KeyFor(b.call, n)} ELSE {}
             x == [kind |-> in.kind, call |-> in.call]
             e == [d EXCEPT !.messageBlocks = Bind(@, in.index, x),
                            !.hadTools = @ \/ in.kind = "tool"]
             es == CASE in.kind = "tool" ->
                          <<Tool("tool_start", in.index, in.call)>>
                          \o When(in.delta # 0, <<ToolDelta(in.index, in.call, in.delta)>>)
                     [] in.kind = "opaque" -> <<>>
                     [] OTHER -> When(in.delta # 0, <<Delta(in.kind, in.index, in.delta)>>)
             K == UpKeys(bs)
  <1>1. a = Answer(e, es)
    BY DEF decodeMessages
  <1>2. a.dec = e /\ a.events = es
    <2>. HIDE DEF a, e, es
    <2>. QED BY <1>1 DEF Answer
  <1>3. DOMAIN e = DOMAIN newStreamDecoder /\ e.messageBlocks = Bind(d.messageBlocks, n, x)
    BY DEF newStreamDecoder
  <1>4. /\ DOMAIN cs = 1..(n + 1) /\ cs[n + 1] = b /\ DOMAIN bs = 1..n /\ n \in Nat
        /\ \A k \in DOMAIN bs : cs[k] = bs[k]
        /\ b.kind = "tool" => KeyFor(b.call, n) \notin K
        /\ UpKeys(cs) = K \cup new
    BY BlockOpens, SeqFacts DEF AreBlocks
  <1>5. MessagesKnow(e, cs)
    <2>1. SUFFICES ASSUME NEW k \in DOMAIN cs, cs[k].open
                   PROVE  /\ k - 1 \in DOMAIN e.messageBlocks
                          /\ e.messageBlocks[k - 1].kind = cs[k].kind
                          /\ e.messageBlocks[k - 1].call = cs[k].call
      BY DEF MessagesKnow
    <2>. HIDE DEF e, cs, n
    <2>2. CASE k = n + 1
      <3>1. k - 1 = n
        BY <1>4, <2>2
      <3>2. n \in DOMAIN e.messageBlocks /\ e.messageBlocks[n] = x
        BY <1>3, Binds
      <3>. QED BY <1>4, <2>2, <3>1, <3>2
    <2>3. CASE k # n + 1
      <3>1. k \in DOMAIN bs /\ cs[k] = bs[k] /\ k - 1 # n
        BY <1>4, <2>1, <2>3
      <3>2. /\ k - 1 \in DOMAIN d.messageBlocks
            /\ d.messageBlocks[k - 1].kind = bs[k].kind
            /\ d.messageBlocks[k - 1].call = bs[k].call
        BY <2>1, <3>1 DEF MessagesKnow
      <3>3. k - 1 \in DOMAIN e.messageBlocks /\ e.messageBlocks[k - 1] = d.messageBlocks[k - 1]
        BY <1>3, <3>1, <3>2, Binds
      <3>. QED BY <3>1, <3>2, <3>3
    <2>. QED BY <2>2, <2>3
  <1>6. Legal(K, O, es, UpKeys(cs), O \cup new)
    <2>1. CASE in.kind = "tool"
      <3>1. es = <<Tool("tool_start", n, b.call)>>
                 \o When(in.delta # 0, <<ToolDelta(n, b.call, in.delta)>>)
        BY <2>1
      <3>2. Legal(K, O, <<Tool("tool_start", n, b.call)>>
                        \o When(in.delta # 0, <<ToolDelta(n, b.call, in.delta)>>),
                  K \cup {KeyFor(b.call, n)}, O \cup {KeyFor(b.call, n)})
        <4>. HIDE DEF n, K
        <4>. QED BY <1>4, <2>1, LegalCall
      <3>3. new = {KeyFor(b.call, n)}
        BY <2>1
      <3>. HIDE DEF es, n, K, new, cs
      <3>. QED BY <1>4, <3>1, <3>2, <3>3
    <2>2. CASE in.kind # "tool"
      <3>1. new = {} /\ UpKeys(cs) = K /\ O \cup new = O
        <4>1. new = {}
          BY <2>2
        <4>. HIDE DEF new, cs, K
        <4>. QED BY <1>4, <4>1
      <3>2. in.kind \in {"text", "reasoning", "opaque"}
        BY <2>2 DEF IsUpBlock, Kinds
      <3>3. CASE in.kind = "opaque"
        <4>1. es = <<>>
          BY <3>3
        <4>. HIDE DEF es, new, cs, K
        <4>. QED BY <3>1, <4>1, LegalNone
      <3>4. CASE in.kind \in {"text", "reasoning"}
        <4>1. es = When(in.delta # 0, <<Delta(in.kind, in.index, in.delta)>>)
          BY <3>4
        <4>. HIDE DEF es, new, cs, K
        <4>2. Legal(K, O, <<Delta(in.kind, in.index, in.delta)>>, K, O)
          BY <3>4, LegalEvents
        <4>3. Legal(K, O, When(in.delta # 0, <<Delta(in.kind, in.index, in.delta)>>), K, O)
          BY <4>2, LegalWhen
        <4>. QED BY <3>1, <4>1, <4>3
      <3>. QED BY <3>2, <3>3, <3>4
    <2>. QED BY <2>1, <2>2
  <1>. HIDE DEF a, e, es
  <1>. QED BY <1>2, <1>3, <1>5, <1>6 DEF a

LEMMA MessagesGrow ==
  ASSUME NEW d, DOMAIN d = DOMAIN newStreamDecoder, NEW bs, AreBlocks(bs), MessagesKnow(d, bs),
         NEW in, in.type = "content_block_delta", NEW k \in DOMAIN bs, bs[k].open,
         bs[k].kind = in.kind, in.kind \in Kinds, in.index = k - 1, NEW x
  PROVE  LET a == decodeMessages(d, in)
             cs == [bs EXCEPT ![k].content = x]
         IN /\ DOMAIN a.dec = DOMAIN newStreamDecoder /\ MessagesKnow(a.dec, cs)
            /\ Legal(UpKeys(bs), UpLive(bs), a.events, UpKeys(bs), UpLive(bs))
  <1> DEFINE a == decodeMessages(d, in)
             cs == [bs EXCEPT ![k].content = x]
             id == bs[k].call
             ev == IF in.kind = "tool" THEN ToolDelta(k - 1, id, in.delta)
                   ELSE Delta(in.kind, k - 1, in.delta)
             K == UpKeys(bs)
             O == UpLive(bs)
  <1>1. At(d.messageBlocks, in.index, [kind |-> "", call |-> 0]) = d.messageBlocks[k - 1]
        /\ d.messageBlocks[k - 1].kind = in.kind /\ d.messageBlocks[k - 1].call = id
    BY DEF At, MessagesKnow
  <1>2. a = Answer(d, <<ev>>)
    BY <1>1 DEF decodeMessages
  <1>3. a.dec = d /\ a.events = <<ev>>
    <2>. HIDE DEF a, ev
    <2>. QED BY <1>2 DEF Answer
  <1>4. MessagesKnow(d, cs)
    <2>1. /\ DOMAIN cs = DOMAIN bs
          /\ \A j \in DOMAIN bs : /\ cs[j].kind = bs[j].kind /\ cs[j].call = bs[j].call
                                  /\ cs[j].open = bs[j].open
      BY BlockGrows
    <2>. HIDE DEF cs
    <2>. QED BY <2>1 DEF MessagesKnow
  <1>5. Legal(K, O, <<ev>>, K, O)
    <2>1. CASE in.kind = "tool"
      <3>1. k \in CallsIn(bs) /\ k \in LiveIn(bs)
        BY <2>1 DEF CallsIn, LiveIn
      <3>2. KeyFor(id, k - 1) \in K /\ KeyFor(id, k - 1) \in O
        BY <3>1 DEF UpKeys, UpLive, KeyAt
      <3>3. ev = ToolDelta(k - 1, id, in.delta)
        BY <2>1
      <3>. HIDE DEF ev, K, O
      <3>. QED BY <3>2, <3>3, LegalDelta
    <2>2. CASE in.kind # "tool"
      <3>1. ev = Delta(in.kind, k - 1, in.delta) /\ in.kind \in {"text", "reasoning"}
        BY <2>2 DEF Kinds
      <3>. HIDE DEF ev, K, O
      <3>. QED BY <3>1, LegalEvents
    <2>. QED BY <2>1, <2>2
  <1>. HIDE DEF a, ev
  <1>. QED BY <1>3, <1>4, <1>5 DEF a

LEMMA MessagesClose ==
  ASSUME NEW d, DOMAIN d = DOMAIN newStreamDecoder, NEW bs, AreBlocks(bs), MessagesKnow(d, bs),
         NEW in, in.type = "content_block_stop", NEW k \in DOMAIN bs, bs[k].open,
         in.index = k - 1
  PROVE  LET a == decodeMessages(d, in)
             cs == [bs EXCEPT ![k].open = FALSE]
         IN /\ DOMAIN a.dec = DOMAIN newStreamDecoder /\ MessagesKnow(a.dec, cs)
            /\ Legal(UpKeys(bs), UpLive(bs), a.events, UpKeys(bs), UpLive(cs))
  <1> DEFINE a == decodeMessages(d, in)
             cs == [bs EXCEPT ![k].open = FALSE]
             id == bs[k].call
             e == [d EXCEPT !.messageBlocks = Drop(@, in.index)]
             es == When(bs[k].kind = "tool", <<Tool("tool_end", k - 1, id)>>)
             K == UpKeys(bs)
             O == UpLive(bs)
  <1>1. At(d.messageBlocks, in.index, [kind |-> "", call |-> 0]) = d.messageBlocks[k - 1]
        /\ d.messageBlocks[k - 1].kind = bs[k].kind /\ d.messageBlocks[k - 1].call = id
    BY DEF At, MessagesKnow
  <1>2. a = Answer(e, es)
    BY <1>1 DEF decodeMessages
  <1>3. a.dec = e /\ a.events = es
    <2>. HIDE DEF a, e, es
    <2>. QED BY <1>2 DEF Answer
  <1>4. DOMAIN e = DOMAIN newStreamDecoder /\ e.messageBlocks = Drop(d.messageBlocks, k - 1)
    BY DEF newStreamDecoder
  <1>5. /\ DOMAIN cs = DOMAIN bs
        /\ bs[k].kind = "tool" => UpLive(cs) = O \ {KeyAt(bs, k)}
        /\ bs[k].kind # "tool" => UpLive(cs) = O
        /\ ~cs[k].open /\ \A j \in DOMAIN bs : j # k => cs[j].open = bs[j].open
        /\ \A j \in DOMAIN bs : cs[j].kind = bs[j].kind /\ cs[j].call = bs[j].call
    BY BlockCloses
  <1>6. MessagesKnow(e, cs)
    <2>1. SUFFICES ASSUME NEW j \in DOMAIN cs, cs[j].open
                   PROVE  /\ j - 1 \in DOMAIN e.messageBlocks
                          /\ e.messageBlocks[j - 1].kind = cs[j].kind
                          /\ e.messageBlocks[j - 1].call = cs[j].call
      BY DEF MessagesKnow
    <2>. HIDE DEF e, cs
    <2>2. /\ j \in DOMAIN bs /\ j # k /\ bs[j].open
          /\ cs[j].kind = bs[j].kind /\ cs[j].call = bs[j].call
      BY <1>5, <2>1
    <2>3. j - 1 # k - 1
      BY <2>2, SeqFacts DEF AreBlocks
    <2>4. /\ j - 1 \in DOMAIN d.messageBlocks
          /\ d.messageBlocks[j - 1].kind = bs[j].kind
          /\ d.messageBlocks[j - 1].call = bs[j].call
      BY <2>2 DEF MessagesKnow
    <2>5. j - 1 \in DOMAIN e.messageBlocks /\ e.messageBlocks[j - 1] = d.messageBlocks[j - 1]
      BY <1>4, <2>3, <2>4, Drops
    <2>. QED BY <2>2, <2>4, <2>5
  <1>7. Legal(K, O, es, K, UpLive(cs))
    <2>1. CASE bs[k].kind = "tool"
      <3>1. k \in CallsIn(bs)
        BY <2>1 DEF CallsIn
      <3>2. KeyFor(id, k - 1) \in K /\ KeyAt(bs, k) = KeyFor(id, k - 1)
        BY <3>1 DEF UpKeys, KeyAt
      <3>3. es = <<Tool("tool_end", k - 1, id)>>
        BY <2>1 DEF When
      <3>. HIDE DEF es, K, O, cs, id
      <3>4. Legal(K, O, <<Tool("tool_end", k - 1, id)>>, K, O \ {KeyFor(id, k - 1)})
        BY <3>2, LegalEnd
      <3>. QED BY <1>5, <2>1, <3>2, <3>3, <3>4
    <2>2. CASE bs[k].kind # "tool"
      <3>1. es = <<>>
        BY <2>2 DEF When
      <3>. HIDE DEF es, K, O, cs
      <3>. QED BY <1>5, <2>2, <3>1, LegalNone
    <2>. QED BY <2>1, <2>2
  <1>. HIDE DEF a, e, es
  <1>. QED BY <1>3, <1>4, <1>6, <1>7 DEF a

LEMMA ResponsesStay ==
  ASSUME NEW d, DOMAIN d = DOMAIN newStreamDecoder, NEW bs, ResponsesKnow(d, bs),
         NEW in, in.type \notin BlockTypes, NEW K, NEW O
  PROVE  LET a == decodeResponses(d, in)
         IN ~a.error => /\ DOMAIN a.dec = DOMAIN newStreamDecoder /\ ResponsesKnow(a.dec, bs)
                        /\ Legal(K, O, a.events, K, O)
  <1> DEFINE a == decodeResponses(d, in)
             b == [d EXCEPT !.started = TRUE]
             stop == responseStop(d, in)
  <1>1. DOMAIN b = DOMAIN newStreamDecoder /\ b.responseTools = d.responseTools
    BY DEF newStreamDecoder
  <1>2. ResponsesKnow(b, bs)
    BY <1>1 DEF ResponsesKnow
  <1>. HIDE DEF b
  <1>3. CASE in.type \in {"response.created", "response.in_progress"}
    <2> DEFINE es == When(~d.started, <<Event("start")>>)
    <2>1. a = Answer(b, es)
      BY <1>3 DEF decodeResponses, b
    <2>2. es = <<>> \/ es = <<Event("start")>>
      BY DEF When
    <2>. HIDE DEF a, es
    <2>3. Legal(K, O, es, K, O)
      BY <2>2, LegalNone, LegalEvents
    <2>. QED BY <1>1, <1>2, <2>1, <2>3 DEF a, Answer
  <1>4. CASE in.type \in {"response.completed", "response.incomplete", "response.failed"}
    <2> DEFINE es == <<Finish(stop)>> \o Report(in.usage) \o <<Event("done")>>
    <2>1. a = Answer(d, es)
      BY <1>4 DEF decodeResponses
    <2>. HIDE DEF stop
    <2>2. Legal(K, O, <<Finish(stop)>>, K, O) /\ Legal(K, O, Report(in.usage), K, O)
          /\ Legal(K, O, <<Event("done")>>, K, O)
      BY LegalEvents
    <2>3. Legal(K, O, <<Finish(stop)>> \o Report(in.usage), K, O)
      BY <2>2, LegalJoin
    <2>4. Legal(K, O, es, K, O)
      BY <2>2, <2>3, LegalJoin
    <2>. HIDE DEF a, es
    <2>. QED BY <2>1, <2>4 DEF a, Answer
  <1>5. CASE in.type \notin {"response.created", "response.in_progress", "response.completed",
                             "response.incomplete", "response.failed"}
    <2>1. a = Refusal(d)
      BY <1>5 DEF decodeResponses, BlockTypes
    <2>. HIDE DEF a
    <2>. QED BY <2>1 DEF a, Answer, Refusal
  <1>. QED BY <1>3, <1>4, <1>5

LEMMA ResponsesOpen ==
  ASSUME NEW d, DOMAIN d = DOMAIN newStreamDecoder, NEW bs, AreBlocks(bs), ResponsesKnow(d, bs),
         NEW in, in.type = "response.output_item.added", in.index = Len(bs),
         NEW b, IsUpBlock(b, Len(bs) + 1), b.open, b.kind = in.kind, b.call = in.call,
         NEW O
  PROVE  LET a == decodeResponses(d, in)
             cs == Append(bs, b)
             new == IF b.kind = "tool" THEN {KeyFor(b.call, Len(bs))} ELSE {}
         IN /\ DOMAIN a.dec = DOMAIN newStreamDecoder /\ ResponsesKnow(a.dec, cs)
            /\ Legal(UpKeys(bs), O, a.events, UpKeys(cs), O \cup new)
  <1> DEFINE a == decodeResponses(d, in)
             cs == Append(bs, b)
             n == Len(bs)
             new == IF b.kind = "tool" THEN {KeyFor(b.call, n)} ELSE {}
             K == UpKeys(bs)
  <1>4. /\ DOMAIN cs = 1..(n + 1) /\ cs[n + 1] = b /\ DOMAIN bs = 1..n /\ n \in Nat
        /\ \A k \in DOMAIN bs : cs[k] = bs[k]
        /\ b.kind = "tool" => KeyFor(b.call, n) \notin K
        /\ UpKeys(cs) = K \cup new
    BY BlockOpens, SeqFacts DEF AreBlocks
  <1>5. CASE in.kind = "tool"
    <2> DEFINE e == [d EXCEPT !.hadTools = TRUE,
                              !.responseTools = Bind(@, in.index, in.call)]
               es == <<Tool("tool_start", n, b.call)>>
                     \o When(in.delta # 0, <<ToolDelta(n, b.call, in.delta)>>)
    <2>1. a = Answer(e, es)
      BY <1>5 DEF decodeResponses
    <2>2. a.dec = e /\ a.events = es
      <3>. HIDE DEF a, e, es
      <3>. QED BY <2>1 DEF Answer
    <2>3. DOMAIN e = DOMAIN newStreamDecoder
          /\ e.responseTools = Bind(d.responseTools, n, b.call)
      BY DEF newStreamDecoder
    <2>4. ResponsesKnow(e, cs)
      <3>1. SUFFICES ASSUME NEW k \in CallsIn(cs)
                     PROVE  k - 1 \in DOMAIN e.responseTools /\ e.responseTools[k - 1] = cs[k].call
        BY DEF ResponsesKnow
      <3>2. k \in DOMAIN cs /\ cs[k].kind = "tool"
        BY <3>1 DEF CallsIn
      <3>. HIDE DEF e, cs, n
      <3>3. CASE k = n + 1
        <4>1. k - 1 = n
          BY <1>4, <3>3
        <4>2. n \in DOMAIN e.responseTools /\ e.responseTools[n] = b.call
          BY <2>3, Binds
        <4>. QED BY <1>4, <3>3, <4>1, <4>2
      <3>4. CASE k # n + 1
        <4>1. k \in DOMAIN bs /\ cs[k] = bs[k] /\ k - 1 # n
          BY <1>4, <3>2, <3>4
        <4>2. k \in CallsIn(bs)
          BY <3>2, <4>1 DEF CallsIn
        <4>3. k - 1 \in DOMAIN d.responseTools /\ d.responseTools[k - 1] = bs[k].call
          BY <4>2 DEF ResponsesKnow
        <4>4. k - 1 \in DOMAIN e.responseTools /\ e.responseTools[k - 1] = d.responseTools[k - 1]
          BY <2>3, <4>1, <4>3, Binds
        <4>. QED BY <4>1, <4>3, <4>4
      <3>. QED BY <3>3, <3>4
    <2>5. Legal(K, O, es, UpKeys(cs), O \cup new)
      <3>1. Legal(K, O, <<Tool("tool_start", n, b.call)>>
                        \o When(in.delta # 0, <<ToolDelta(n, b.call, in.delta)>>),
                  K \cup {KeyFor(b.call, n)}, O \cup {KeyFor(b.call, n)})
        <4>. HIDE DEF n, K
        <4>. QED BY <1>4, <1>5, LegalCall
      <3>2. new = {KeyFor(b.call, n)}
        BY <1>5
      <3>. HIDE DEF n, K, new, cs
      <3>. QED BY <1>4, <3>1, <3>2
    <2>. HIDE DEF a, e, es
    <2>. QED BY <2>2, <2>3, <2>4, <2>5 DEF a
  <1>6. CASE in.kind # "tool"
    <2>1. a = Answer(d, <<>>)
      BY <1>6 DEF decodeResponses
    <2>2. a.dec = d /\ a.events = <<>>
      <3>. HIDE DEF a
      <3>. QED BY <2>1 DEF Answer
    <2>3. new = {} /\ UpKeys(cs) = K /\ O \cup new = O
      <3>1. new = {}
        BY <1>6
      <3>. HIDE DEF new, cs, K
      <3>. QED BY <1>4, <3>1
    <2>4. ResponsesKnow(d, cs)
      <3>. HIDE DEF cs, n
      <3>1. CallsIn(cs) \subseteq CallsIn(bs)
        BY <1>4, <1>6 DEF CallsIn
      <3>2. \A k \in CallsIn(bs) : cs[k] = bs[k]
        BY <1>4 DEF CallsIn
      <3>. QED BY <3>1, <3>2 DEF ResponsesKnow
    <2>5. Legal(K, O, <<>>, UpKeys(cs), O \cup new)
      <3>. HIDE DEF new, cs, K
      <3>. QED BY <2>3, LegalNone
    <2>. HIDE DEF a
    <2>. QED BY <2>2, <2>4, <2>5 DEF a
  <1>. QED BY <1>5, <1>6

LEMMA ResponsesGrow ==
  ASSUME NEW d, DOMAIN d = DOMAIN newStreamDecoder, NEW bs, AreBlocks(bs), ResponsesKnow(d, bs),
         NEW in, in.type = "response.delta", NEW k \in DOMAIN bs, bs[k].open,
         bs[k].kind = in.kind, in.kind \in Kinds, in.index = k - 1, NEW x
  PROVE  LET a == decodeResponses(d, in)
             cs == [bs EXCEPT ![k].content = x]
         IN /\ DOMAIN a.dec = DOMAIN newStreamDecoder /\ ResponsesKnow(a.dec, cs)
            /\ Legal(UpKeys(bs), UpLive(bs), a.events, UpKeys(bs), UpLive(bs))
  <1> DEFINE a == decodeResponses(d, in)
             cs == [bs EXCEPT ![k].content = x]
             known == At(d.responseTools, in.index, 0)
             ev == IF in.kind = "tool" THEN ToolDelta(in.index, known, in.delta)
                   ELSE Delta(in.kind, in.index, in.delta)
             K == UpKeys(bs)
             O == UpLive(bs)
  <1>1. a = Answer(d, <<ev>>)
    BY DEF decodeResponses
  <1>2. a.dec = d /\ a.events = <<ev>>
    <2>. HIDE DEF a, ev
    <2>. QED BY <1>1 DEF Answer
  <1>3. ResponsesKnow(d, cs)
    <2>1. /\ DOMAIN cs = DOMAIN bs
          /\ \A j \in DOMAIN bs : /\ cs[j].kind = bs[j].kind /\ cs[j].call = bs[j].call
                                  /\ cs[j].open = bs[j].open
      BY BlockGrows
    <2>. HIDE DEF cs
    <2>. QED BY <2>1 DEF ResponsesKnow, CallsIn
  <1>4. Legal(K, O, <<ev>>, K, O)
    <2>1. CASE in.kind = "tool"
      <3>1. k \in CallsIn(bs) /\ k \in LiveIn(bs)
        BY <2>1 DEF CallsIn, LiveIn
      <3>2. known = bs[k].call
        BY <3>1 DEF At, ResponsesKnow
      <3>3. KeyFor(known, k - 1) \in K /\ KeyFor(known, k - 1) \in O
        BY <3>1, <3>2 DEF UpKeys, UpLive, KeyAt
      <3>4. ev = ToolDelta(k - 1, known, in.delta)
        BY <2>1
      <3>. HIDE DEF ev, K, O, known
      <3>. QED BY <3>3, <3>4, LegalDelta
    <2>2. CASE in.kind # "tool"
      <3>1. ev = Delta(in.kind, in.index, in.delta) /\ in.kind \in {"text", "reasoning"}
        BY <2>2 DEF Kinds
      <3>. HIDE DEF ev, K, O
      <3>. QED BY <3>1, LegalEvents
    <2>. QED BY <2>1, <2>2
  <1>. HIDE DEF a, ev
  <1>. QED BY <1>2, <1>3, <1>4 DEF a

LEMMA ResponsesClose ==
  ASSUME NEW d, DOMAIN d = DOMAIN newStreamDecoder, NEW bs, AreBlocks(bs), ResponsesKnow(d, bs),
         NEW in, in.type = "response.output_item.done", NEW k \in DOMAIN bs, bs[k].open,
         in.index = k - 1, in.kind = bs[k].kind, in.call = bs[k].call
  PROVE  LET a == decodeResponses(d, in)
             cs == [bs EXCEPT ![k].open = FALSE]
         IN /\ DOMAIN a.dec = DOMAIN newStreamDecoder /\ ResponsesKnow(a.dec, cs)
            /\ Legal(UpKeys(bs), UpLive(bs), a.events, UpKeys(bs), UpLive(cs))
  <1> DEFINE a == decodeResponses(d, in)
             cs == [bs EXCEPT ![k].open = FALSE]
             id == IF in.call # 0 THEN in.call ELSE At(d.responseTools, in.index, 0)
             es == When(in.kind = "tool", <<Tool("tool_end", in.index, id)>>)
             K == UpKeys(bs)
             O == UpLive(bs)
  <1>1. a = Answer(d, es)
    BY DEF decodeResponses
  <1>2. a.dec = d /\ a.events = es
    <2>. HIDE DEF a, es
    <2>. QED BY <1>1 DEF Answer
  <1>3. /\ DOMAIN cs = DOMAIN bs
        /\ bs[k].kind = "tool" => UpLive(cs) = O \ {KeyAt(bs, k)}
        /\ bs[k].kind # "tool" => UpLive(cs) = O
        /\ \A j \in DOMAIN bs : cs[j].kind = bs[j].kind /\ cs[j].call = bs[j].call
    BY BlockCloses
  <1>4. ResponsesKnow(d, cs)
    <2>. HIDE DEF cs
    <2>. QED BY <1>3 DEF ResponsesKnow, CallsIn
  <1>5. Legal(K, O, es, K, UpLive(cs))
    <2>1. CASE in.kind = "tool"
      <3>1. k \in CallsIn(bs)
        BY <2>1 DEF CallsIn
      <3>2. id = bs[k].call
        BY <3>1 DEF At, ResponsesKnow
      <3>3. KeyFor(id, k - 1) \in K /\ KeyAt(bs, k) = KeyFor(id, k - 1)
        BY <3>1, <3>2 DEF UpKeys, KeyAt
      <3>4. es = <<Tool("tool_end", k - 1, id)>>
        BY <2>1 DEF When
      <3>. HIDE DEF es, K, O, cs, id
      <3>5. Legal(K, O, <<Tool("tool_end", k - 1, id)>>, K, O \ {KeyFor(id, k - 1)})
        BY <3>3, LegalEnd
      <3>. QED BY <1>3, <2>1, <3>3, <3>4, <3>5
    <2>2. CASE in.kind # "tool"
      <3>1. es = <<>>
        BY <2>2 DEF When
      <3>. HIDE DEF es, K, O, cs
      <3>. QED BY <1>3, <2>2, <3>1, LegalNone
    <2>. QED BY <2>1, <2>2
  <1>. HIDE DEF a, es
  <1>. QED BY <1>2, <1>4, <1>5 DEF a

(* The events of a block are the same in both protocols. *)
Knows(p, d, bs) ==
  /\ p = "messages" => MessagesKnow(d, bs)
  /\ p = "responses" => ResponsesKnow(d, bs)
Moves(p, in, bs, cs) ==
  \/ Stays(in, bs, cs) \/ Opening(p, in, bs, cs) \/ Growing(p, in, bs, cs)
  \/ Closing(p, in, bs, cs)

LEMMA BlockReads ==
  ASSUME NEW p \in {"messages", "responses"}, NEW d, DOMAIN d = DOMAIN newStreamDecoder,
         NEW bs, AreBlocks(bs), Knows(p, d, bs), NEW in, NEW cs, Moves(p, in, bs, cs)
  PROVE  /\ AreBlocks(cs)
         /\ LET a == Decode(p, d, in, "none")
            IN ~a.error => /\ DOMAIN a.dec = DOMAIN newStreamDecoder /\ Knows(p, a.dec, cs)
                           /\ Legal(UpKeys(bs), UpLive(bs), a.events, UpKeys(cs), UpLive(cs))
  <1> DEFINE a == Decode(p, d, in, "none")
             K == UpKeys(bs)
             O == UpLive(bs)
             Good1(x) == ~x.error => /\ DOMAIN x.dec = DOMAIN newStreamDecoder
                                     /\ Knows(p, x.dec, cs)
                                     /\ Legal(K, O, x.events, UpKeys(cs), UpLive(cs))
  <1>1. /\ p = "messages" => a = decodeMessages(d, in) /\ MessagesKnow(d, bs)
        /\ p = "responses" => a = decodeResponses(d, in) /\ ResponsesKnow(d, bs)
    BY DEF Decode, Knows
  <1>2. ASSUME Stays(in, bs, cs) PROVE AreBlocks(cs) /\ Good1(a)
    <2>1. in.type \notin BlockTypes /\ cs = bs
      BY <1>2 DEF Stays
    <2>2. CASE p = "messages"
      <3> DEFINE m == decodeMessages(d, in)
      <3>1. a = m /\ MessagesKnow(d, bs)
        BY <1>1, <2>2
      <3>. HIDE DEF K, O, a
      <3>2. ~m.error => /\ DOMAIN m.dec = DOMAIN newStreamDecoder /\ MessagesKnow(m.dec, bs)
                        /\ Legal(K, O, m.events, K, O)
        BY <2>1, <3>1, MessagesStay
      <3>. HIDE DEF m
      <3>. QED BY <2>1, <2>2, <3>1, <3>2 DEF Knows, K, O
    <2>3. CASE p = "responses"
      <3> DEFINE m == decodeResponses(d, in)
      <3>1. a = m /\ ResponsesKnow(d, bs)
        BY <1>1, <2>3
      <3>. HIDE DEF K, O, a
      <3>2. ~m.error => /\ DOMAIN m.dec = DOMAIN newStreamDecoder /\ ResponsesKnow(m.dec, bs)
                        /\ Legal(K, O, m.events, K, O)
        BY <2>1, <3>1, ResponsesStay
      <3>. HIDE DEF m
      <3>. QED BY <2>1, <2>3, <3>1, <3>2 DEF Knows, K, O
    <2>. QED BY <2>2, <2>3
  <1>3. ASSUME Opening(p, in, bs, cs) PROVE AreBlocks(cs) /\ Good1(a)
    <2>1. PICK b : /\ IsUpBlock(b, Len(bs) + 1) /\ b.open /\ b.kind = in.kind
                   /\ b.call = in.call /\ cs = Append(bs, b)
      BY <1>3 DEF Opening
    <2> DEFINE n == Len(bs)
               new == IF b.kind = "tool" THEN {KeyFor(b.call, n)} ELSE {}
    <2>2. in.index = n /\ (p = "messages" => in.type = "content_block_start")
          /\ (p = "responses" => in.type = "response.output_item.added")
      BY <1>3 DEF Opening, TypeFor
    <2>3. AreBlocks(cs) /\ UpLive(cs) = O \cup new
      BY <2>1, BlockOpens
    <2>4. CASE p = "messages"
      <3> DEFINE m == decodeMessages(d, in)
      <3>1. a = m /\ MessagesKnow(d, bs)
        BY <1>1, <2>4
      <3>2. DOMAIN m.dec = DOMAIN newStreamDecoder /\ MessagesKnow(m.dec, cs)
            /\ Legal(K, O, m.events, UpKeys(cs), O \cup new)
        <4>. HIDE DEF O
        <4>. QED BY <2>1, <2>2, <2>4, <3>1, MessagesOpen
      <3>. HIDE DEF K, O, a, m, new
      <3>. QED BY <2>3, <2>4, <3>1, <3>2 DEF Knows
    <2>5. CASE p = "responses"
      <3> DEFINE m == decodeResponses(d, in)
      <3>1. a = m /\ ResponsesKnow(d, bs)
        BY <1>1, <2>5
      <3>2. DOMAIN m.dec = DOMAIN newStreamDecoder /\ ResponsesKnow(m.dec, cs)
            /\ Legal(K, O, m.events, UpKeys(cs), O \cup new)
        <4>. HIDE DEF O
        <4>. QED BY <2>1, <2>2, <2>5, <3>1, ResponsesOpen
      <3>. HIDE DEF K, O, a, m, new
      <3>. QED BY <2>3, <2>5, <3>1, <3>2 DEF Knows
    <2>. QED BY <2>4, <2>5
  <1>4. ASSUME Growing(p, in, bs, cs) PROVE AreBlocks(cs) /\ Good1(a)
    <2>0. PICK k \in DOMAIN bs :
            /\ bs[k].open /\ bs[k].kind = in.kind /\ in.kind \in Kinds /\ in.index = k - 1
            /\ \E x : cs = [bs EXCEPT ![k].content = x]
      BY <1>4 DEF Growing
    <2>1. PICK x :
            /\ bs[k].open /\ bs[k].kind = in.kind /\ in.kind \in Kinds /\ in.index = k - 1
            /\ cs = [bs EXCEPT ![k].content = x]
      BY <2>0
    <2>2. /\ p = "messages" => in.type = "content_block_delta"
          /\ p = "responses" => in.type = "response.delta"
      BY <1>4 DEF Growing, TypeFor
    <2>3. AreBlocks(cs) /\ UpKeys(cs) = K /\ UpLive(cs) = O
      <3> DEFINE c == [bs EXCEPT ![k].content = x]
      <3>1. AreBlocks(c) /\ UpKeys(c) = UpKeys(bs) /\ UpLive(c) = UpLive(bs)
        BY BlockGrows
      <3>2. cs = c
        BY <2>1
      <3>. HIDE DEF c
      <3>. QED BY <3>1, <3>2
    <2>4. CASE p = "messages"
      <3> DEFINE m == decodeMessages(d, in)
      <3>1. a = m /\ MessagesKnow(d, bs)
        BY <1>1, <2>4
      <3>2. DOMAIN m.dec = DOMAIN newStreamDecoder /\ MessagesKnow(m.dec, cs)
            /\ Legal(K, O, m.events, K, O)
        BY <2>1, <2>2, <2>4, <3>1, MessagesGrow
      <3>. HIDE DEF K, O, a, m
      <3>. QED BY <2>3, <2>4, <3>1, <3>2 DEF Knows
    <2>5. CASE p = "responses"
      <3> DEFINE m == decodeResponses(d, in)
      <3>1. a = m /\ ResponsesKnow(d, bs)
        BY <1>1, <2>5
      <3>2. DOMAIN m.dec = DOMAIN newStreamDecoder /\ ResponsesKnow(m.dec, cs)
            /\ Legal(K, O, m.events, K, O)
        BY <2>1, <2>2, <2>5, <3>1, ResponsesGrow
      <3>. HIDE DEF K, O, a, m
      <3>. QED BY <2>3, <2>5, <3>1, <3>2 DEF Knows
    <2>. QED BY <2>4, <2>5
  <1>5. ASSUME Closing(p, in, bs, cs) PROVE AreBlocks(cs) /\ Good1(a)
    <2>1. PICK k \in DOMAIN bs :
            /\ bs[k].open /\ in.index = k - 1 /\ cs = [bs EXCEPT ![k].open = FALSE]
            /\ p # "messages" => in.kind = bs[k].kind /\ in.call = bs[k].call
      BY <1>5 DEF Closing
    <2>2. /\ p = "messages" => in.type = "content_block_stop"
          /\ p = "responses" => in.type = "response.output_item.done"
      BY <1>5 DEF Closing, TypeFor
    <2>3. AreBlocks(cs) /\ UpKeys(cs) = K
      BY <2>1, BlockCloses
    <2>4. CASE p = "messages"
      <3> DEFINE m == decodeMessages(d, in)
      <3>1. a = m /\ MessagesKnow(d, bs)
        BY <1>1, <2>4
      <3>2. DOMAIN m.dec = DOMAIN newStreamDecoder /\ MessagesKnow(m.dec, cs)
            /\ Legal(K, O, m.events, K, UpLive(cs))
        BY <2>1, <2>2, <2>4, <3>1, MessagesClose
      <3>. HIDE DEF K, O, a, m
      <3>. QED BY <2>3, <2>4, <3>1, <3>2 DEF Knows
    <2>5. CASE p = "responses"
      <3> DEFINE m == decodeResponses(d, in)
      <3>1. a = m /\ ResponsesKnow(d, bs)
        BY <1>1, <2>5
      <3>2. DOMAIN m.dec = DOMAIN newStreamDecoder /\ ResponsesKnow(m.dec, cs)
            /\ Legal(K, O, m.events, K, UpLive(cs))
        BY <2>1, <2>2, <2>5, <3>1, ResponsesClose
      <3>. HIDE DEF K, O, a, m
      <3>. QED BY <2>3, <2>5, <3>1, <3>2 DEF Knows
    <2>. QED BY <2>4, <2>5
  <1>. HIDE DEF a, K, O
  <1>. QED BY <1>2, <1>3, <1>4, <1>5 DEF Moves, a, K, O

(* A Codex stream has begun before it has blocks. *)
Spoken == from = "codex" => up.begun \in BOOLEAN /\ (up.blocks # <<>> => up.begun)

(* It begins once and first; only a terminal event ends it. *)
Speaks(in, u) ==
  from = "codex" =>
    /\ u.begun = TRUE /\ up.begun \in BOOLEAN
    /\ Begins(in) <=> ~up.begun
    /\ Ends(in) => in.type \in CodexTerminal

LEMMA SpeaksInside ==
  ASSUME Spoken, NEW in, NEW u,
         from = "codex" => /\ up.begun /\ u.begun = up.begun
                           /\ in.type \in {"response.output_item.added", "response.delta",
                                           "response.output_item.done", "error",
                                           "response.failed"} \cup CodexTerminal
  PROVE  Speaks(in, u)
  BY DEF Spoken, Speaks, Begins, Ends, CodexTerminal

LEMMA OpenedOnce ==
  ASSUME Spoken, from = "codex", NEW k \in DOMAIN up.blocks
  PROVE  up.begun
  <1>1. DOMAIN <<>> = {}
    BY Singles
  <1>2. up.blocks # <<>>
    BY <1>1
  <1>. QED BY <1>2 DEF Spoken

LEMMA BegunKept ==
  ASSUME NEW us, DOMAIN us = DOMAIN Silence
  PROVE  /\ \A n : Spends(us, n).begun = us.begun
         /\ \A kind, d : Says(us, kind, d).begun = us.begun
         /\ \A kind, id, d : Starts(us, kind, id, d).begun = us.begun
         /\ \A k, d : Adds(us, k, d).begun = us.begun
  <1>1. \A n : Spends(us, n).begun = us.begun
    BY DEF Spends, Silence
  <1>2. ASSUME NEW vs, DOMAIN vs = DOMAIN Silence, NEW kind, NEW d
        PROVE  Says(vs, kind, d).begun = vs.begun
    BY <1>2 DEF Says, Silence
  <1>3. ASSUME NEW kind, NEW id, NEW d PROVE Starts(us, kind, id, d).begun = us.begun
    <2> DEFINE vs == [us EXCEPT !.blocks = Append(@, [kind |-> kind, call |-> id,
                                                      content |-> Cat(<<>>, d), open |-> TRUE])]
    <2>1. DOMAIN vs = DOMAIN Silence /\ vs.begun = us.begun
      BY DEF Silence
    <2>2. Starts(us, kind, id, d) = Says(vs, kind, d)
      BY DEF Starts
    <2>. HIDE DEF vs
    <2>. QED BY <1>2, <2>1, <2>2
  <1>4. ASSUME NEW k, NEW d PROVE Adds(us, k, d).begun = us.begun
    <2> DEFINE vs == [us EXCEPT !.blocks[k].content = Cat(@, d)]
    <2>1. DOMAIN vs = DOMAIN Silence /\ vs.begun = us.begun
      BY DEF Silence
    <2>2. Adds(us, k, d) = Says(vs, us.blocks[k].kind, d)
      BY DEF Adds
    <2>. HIDE DEF vs
    <2>. QED BY <1>2, <2>1, <2>2
  <1>. QED BY <1>1, <1>2, <1>3, <1>4

(* An event of an upstream of blocks. *)
BlockMove(in, u) ==
  /\ Speaks(in, u)
  /\ DOMAIN in = DOMAIN blank
  /\ in.type = "response.delta" => in.kind \in Kinds
  /\ DOMAIN u = DOMAIN Silence
  /\ Moves(protocolOf(from), in, up.blocks, u.blocks)

LEMMA BlockEventIs ==
  ASSUME NEW type, NEW kind, NEW i, NEW id, NEW d, NEW content, NEW e, NEW f,
         e = [blank EXCEPT !.type = type, !.kind = kind, !.index = i, !.call = id, !.delta = d],
         f = [blank EXCEPT !.type = type, !.kind = kind, !.index = i, !.call = id,
                           !.content = content]
  PROVE  /\ DOMAIN e = DOMAIN blank /\ e.type = type /\ e.kind = kind
         /\ e.index = i /\ e.call = id /\ e.delta = d
         /\ DOMAIN f = DOMAIN blank /\ f.type = type /\ f.kind = kind
         /\ f.index = i /\ f.call = id
  BY DEF blank

LEMMA OpenMoves ==
  ASSUME Spoken, InBlocksUpstream, DOMAIN up = DOMAIN Silence, AreBlocks(up.blocks),
         NEW kind \in {"text", "reasoning", "tool", "opaque"}, OpenBlock(kind)
  PROVE  \E in, u : Send(in, u) /\ BlockMove(in, u)
  <1> DEFINE n == Len(up.blocks)
             type == Named("content_block_start", "response.output_item.added")
  <1>1. PICK id, d, k :
          /\ kind = "tool" => id = n + 1 \/ (n = 0 /\ id = 0)
          /\ Send([blank EXCEPT !.type = type, !.kind = kind, !.index = n, !.call = id,
                                !.delta = d],
                  Spends(Starts(up, kind, id, d), k))
    <2>1. up.blocks = <<>> => n = 0
      OBVIOUS
    <2>. QED BY <2>1 DEF OpenBlock, NextCall
  <1> DEFINE in == [blank EXCEPT !.type = type, !.kind = kind, !.index = n, !.call = id,
                                 !.delta = d]
             b == [kind |-> kind, call |-> id, content |-> Cat(<<>>, d), open |-> TRUE]
             v == Starts(up, kind, id, d)
             u == Spends(v, k)
  <1>2. /\ DOMAIN in = DOMAIN blank /\ in.type = type /\ in.kind = kind
        /\ in.index = n /\ in.call = id
    BY DEF blank
  <1>3. n \in Nat
    BY SeqFacts DEF AreBlocks
  <1>4. IsUpBlock(b, n + 1) /\ b.open /\ b.kind = kind /\ b.call = id
    <2>1. DOMAIN b = BlockFields /\ b.kind = kind /\ b.call = id /\ b.open = TRUE
      BY DEF BlockFields
    <2>. HIDE DEF b
    <2>2. kind \in Kinds \cup {"opaque"}
      BY DEF Kinds
    <2>3. kind = "tool" => id = n + 1 \/ (n + 1 = 1 /\ id = 0)
      BY <1>1, <1>3
    <2>. HIDE DEF n
    <2>. QED BY <2>1, <2>2, <2>3 DEF IsUpBlock
  <1>5. DOMAIN v = DOMAIN Silence /\ v.blocks = Append(up.blocks, b)
    <2>1. IsSeq(up.blocks)
      BY DEF AreBlocks
    <2>2. DOMAIN v = DOMAIN Silence
      BY <2>1, StartsCount
    <2>3. v.blocks = Append(up.blocks, b)
      BY StartsOne
    <2>. QED BY <2>2, <2>3
  <1>6. type = TypeFor(protocolOf(from), "content_block_start", "response.output_item.added")
        /\ type # "response.delta"
    BY DEF Named, TypeFor, protocolOf, InBlocksUpstream
  <1>7. Send(in, u)
    BY <1>1
  <1>11. Speaks(in, u)
    <2>1. v.begun = up.begun /\ u.begun = v.begun
      BY <1>5, BegunKept
    <2>2. from = "codex" => up.begun /\ type = "response.output_item.added"
      BY DEF OpenBlock, MayOpen, Named
    <2>. HIDE DEF in, u, v, type
    <2>. QED BY <1>2, <2>1, <2>2, SpeaksInside
  <1>. HIDE DEF in, b, v, type
  <1>8. DOMAIN u = DOMAIN Silence /\ u.blocks = Append(up.blocks, b)
    BY <1>5, SaysKeeps
  <1>. HIDE DEF u
  <1>9. Opening(protocolOf(from), in, up.blocks, u.blocks)
    BY <1>2, <1>4, <1>6, <1>8 DEF Opening
  <1>10. BlockMove(in, u)
    BY <1>2, <1>11, <1>6, <1>8, <1>9 DEF BlockMove, Moves
  <1>. QED BY <1>7, <1>10

LEMMA GrowMoves ==
  ASSUME Spoken, InBlocksUpstream, DOMAIN up = DOMAIN Silence, AreBlocks(up.blocks), GrowBlock
  PROVE  \E in, u : Send(in, u) /\ BlockMove(in, u)
  <1> DEFINE type == Named("content_block_delta", "response.delta")
  <1>0. PICK k \in OpenBlocks :
          /\ up.blocks[k].kind # "opaque"
          /\ \E d : Send([blank EXCEPT !.type = type, !.kind = up.blocks[k].kind,
                                       !.index = k - 1, !.delta = d], Spends(Adds(up, k, d), 1))
    BY DEF GrowBlock
  <1>1. PICK d :
          /\ up.blocks[k].kind # "opaque"
          /\ Send([blank EXCEPT !.type = type, !.kind = up.blocks[k].kind, !.index = k - 1,
                                !.delta = d], Spends(Adds(up, k, d), 1))
    BY <1>0
  <1> DEFINE in == [blank EXCEPT !.type = type, !.kind = up.blocks[k].kind, !.index = k - 1,
                                 !.delta = d]
             w == [up EXCEPT !.blocks[k].content = Cat(@, d)]
             v == Adds(up, k, d)
             u == Spends(v, 1)
             bs == [up.blocks EXCEPT ![k].content = Cat(@, d)]
  <1>2. /\ DOMAIN in = DOMAIN blank /\ in.type = type /\ in.kind = up.blocks[k].kind
        /\ in.index = k - 1
    BY DEF blank
  <1>3. k \in DOMAIN up.blocks /\ up.blocks[k].open
    BY DEF OpenBlocks
  <1>4. up.blocks[k].kind \in Kinds
    BY <1>1, <1>3 DEF AreBlocks, IsUpBlock
  <1>5. DOMAIN v = DOMAIN Silence /\ v.blocks = bs
    <2>1. DOMAIN w = DOMAIN Silence /\ w.blocks = bs
      BY DEF Silence
    <2>2. v = Says(w, up.blocks[k].kind, d)
      BY DEF Adds
    <2>. HIDE DEF w, v, bs
    <2>. QED BY <2>1, <2>2, SaysKeeps
  <1>6. type = TypeFor(protocolOf(from), "content_block_delta", "response.delta")
    BY DEF Named, TypeFor, protocolOf, InBlocksUpstream
  <1>7. Send(in, u)
    BY <1>1
  <1>11. Speaks(in, u)
    <2>1. v.begun = up.begun /\ u.begun = v.begun
      BY <1>5, BegunKept
    <2>2. from = "codex" => up.begun /\ type = "response.delta"
      BY <1>3, OpenedOnce DEF Named
    <2>. HIDE DEF in, u, v, type
    <2>. QED BY <1>2, <2>1, <2>2, SpeaksInside
  <1>. HIDE DEF in, v, type
  <1>8. DOMAIN u = DOMAIN Silence /\ u.blocks = bs
    BY <1>5, SaysKeeps
  <1>. HIDE DEF u
  <1>9. Growing(protocolOf(from), in, up.blocks, u.blocks)
    BY <1>2, <1>3, <1>4, <1>6, <1>8 DEF Growing
  <1>10. BlockMove(in, u)
    BY <1>2, <1>11, <1>4, <1>8, <1>9 DEF BlockMove, Moves
  <1>. QED BY <1>7, <1>10

LEMMA CloseMoves ==
  ASSUME Spoken, InBlocksUpstream, DOMAIN up = DOMAIN Silence, AreBlocks(up.blocks), CloseBlock
  PROVE  \E in, u : Send(in, u) /\ BlockMove(in, u)
  <1>1. PICK k \in OpenBlocks :
          Send(IF from = "messages"
                 THEN [blank EXCEPT !.type = "content_block_stop", !.index = k - 1]
                 ELSE [blank EXCEPT !.type = "response.output_item.done",
                                    !.kind = up.blocks[k].kind, !.index = k - 1,
                                    !.call = up.blocks[k].call,
                                    !.content = up.blocks[k].content],
               [up EXCEPT !.blocks[k].open = FALSE])
    BY DEF CloseBlock
  <1> DEFINE e == [blank EXCEPT !.type = "content_block_stop", !.index = k - 1]
             f == [blank EXCEPT !.type = "response.output_item.done",
                                !.kind = up.blocks[k].kind, !.index = k - 1,
                                !.call = up.blocks[k].call,
                                !.content = up.blocks[k].content]
             in == IF from = "messages" THEN e ELSE f
             u == [up EXCEPT !.blocks[k].open = FALSE]
             bs == [up.blocks EXCEPT ![k].open = FALSE]
  <1>2. k \in DOMAIN up.blocks /\ up.blocks[k].open
    BY DEF OpenBlocks
  <1>3. /\ DOMAIN e = DOMAIN blank /\ e.type = "content_block_stop" /\ e.index = k - 1
        /\ DOMAIN f = DOMAIN blank /\ f.type = "response.output_item.done"
        /\ f.kind = up.blocks[k].kind /\ f.index = k - 1 /\ f.call = up.blocks[k].call
    BY DEF blank
  <1>4. DOMAIN u = DOMAIN Silence /\ u.blocks = bs
    BY DEF Silence
  <1>5. Send(in, u)
    BY <1>1
  <1>11. Speaks(in, u)
    <2>1. u.begun = up.begun
      BY DEF Silence
    <2>2. from = "codex" => up.begun /\ in.type = "response.output_item.done"
      BY <1>2, <1>3, OpenedOnce
    <2>. HIDE DEF e, f, u
    <2>. QED BY <2>1, <2>2, SpeaksInside
  <1>. HIDE DEF e, f, u
  <1>6. /\ DOMAIN in = DOMAIN blank /\ in.type # "response.delta" /\ in.index = k - 1
        /\ in.type = TypeFor(protocolOf(from), "content_block_stop", "response.output_item.done")
        /\ protocolOf(from) # "messages" =>
             in.kind = up.blocks[k].kind /\ in.call = up.blocks[k].call
    BY <1>3 DEF TypeFor, protocolOf, InBlocksUpstream
  <1>. HIDE DEF in
  <1>7. Closing(protocolOf(from), in, up.blocks, u.blocks)
    BY <1>2, <1>4, <1>6 DEF Closing
  <1>8. BlockMove(in, u)
    BY <1>11, <1>4, <1>6, <1>7 DEF BlockMove, Moves
  <1>. QED BY <1>5, <1>8

LEMMA StayMoves ==
  ASSUME NEW in, NEW u, DOMAIN in = DOMAIN blank, in.type \notin BlockTypes,
         DOMAIN u = DOMAIN Silence, u.blocks = up.blocks, Send(in, u), Speaks(in, u)
  PROVE  \E i, v : Send(i, v) /\ BlockMove(i, v)
  BY DEF BlockMove, Moves, Stays, BlockTypes

LEMMA BlockMoves ==
  ASSUME Spoken, InBlocksUpstream, DOMAIN up = DOMAIN Silence, AreBlocks(up.blocks), Next
  PROVE  \E in, u : Send(in, u) /\ BlockMove(in, u)
  <1>1. CASE Begin
    <2> DEFINE type == Named("message_start", "response.created")
               in == [blank EXCEPT !.type = type, !.usage = Named(Early, NoUsage)]
               u == [up EXCEPT !.begun = TRUE, !.usage = Named(Early, NoUsage)]
    <2>1. Send(in, u)
      BY <1>1 DEF Begin
    <2>2. type \notin BlockTypes
      BY DEF Named, BlockTypes
    <2>3. DOMAIN in = DOMAIN blank /\ in.type = type
      BY DEF blank
    <2>4. DOMAIN u = DOMAIN Silence /\ u.blocks = up.blocks /\ u.begun = TRUE
      BY DEF Silence
    <2>5. ~up.begun /\ (from = "codex" => type = "response.created")
      BY <1>1 DEF Begin, Named
    <2>. HIDE DEF in, u, type
    <2>6. Speaks(in, u)
      BY <2>3, <2>4, <2>5 DEF Speaks, Spoken, Begins, Ends, CodexTerminal
    <2>. QED BY <2>1, <2>2, <2>3, <2>4, <2>6, StayMoves
  <1>2. CASE ReportError
    <2> DEFINE in == [blank EXCEPT !.type = "error"]
               u == [up EXCEPT !.broke = TRUE]
    <2>1. Send(in, u)
      BY <1>2 DEF ReportError, InBlocksUpstream
    <2>2. DOMAIN in = DOMAIN blank /\ in.type \notin BlockTypes /\ in.type = "error"
      BY DEF blank, BlockTypes
    <2>3. DOMAIN u = DOMAIN Silence /\ u.blocks = up.blocks /\ u.begun = up.begun
      BY DEF Silence
    <2>4. up.begun
      BY <1>2 DEF ReportError
    <2>. HIDE DEF in, u
    <2>5. Speaks(in, u)
      BY <2>2, <2>3, <2>4, SpeaksInside
    <2>. QED BY <2>1, <2>2, <2>3, <2>5, StayMoves
  <1>3. ASSUME NEW type \in CodexTerminal \cup {"response.failed"}, NEW reason,
               ResponseEnds(type, reason)
        PROVE  \E in, u : Send(in, u) /\ BlockMove(in, u)
    <2>1. PICK output :
            Send([blank EXCEPT !.type = type, !.stop = reason, !.usage = Whole,
                               !.output = output],
                 [Stops(up, reason, Whole) EXCEPT !.broke = type = "response.failed"])
      BY <1>3 DEF ResponseEnds
    <2> DEFINE in == [blank EXCEPT !.type = type, !.stop = reason, !.usage = Whole,
                                   !.output = output]
               u == [Stops(up, reason, Whole) EXCEPT !.broke = type = "response.failed"]
    <2>2. DOMAIN in = DOMAIN blank /\ in.type = type
      BY DEF blank
    <2>3. DOMAIN u = DOMAIN Silence /\ u.blocks = up.blocks /\ u.begun = up.begun
      BY DEF Stops, Silence
    <2>4. Send(in, u)
      BY <2>1
    <2>5. up.begun
      BY <1>3 DEF ResponseEnds
    <2>. HIDE DEF in, u
    <2>6. Speaks(in, u)
      BY <2>2, <2>3, <2>5, SpeaksInside
    <2>. QED BY <2>2, <2>3, <2>4, <2>6, StayMoves DEF BlockTypes, CodexTerminal
  <1>4. CASE \/ \E reason \in {"", "other"} : ResponseEnds("response.completed", reason)
             \/ ResponseEnds("response.failed", "")
             \/ \E reason \in {"max_output_tokens", "content_filter", "other"} :
                  ResponseEnds("response.incomplete", reason)
    BY <1>3, <1>4 DEF CodexTerminal
  <1>5. CASE MessageDelta
    <2>1. PICK reason :
            Send([blank EXCEPT !.type = "message_delta", !.stop = reason, !.usage = Late],
                 Stops(up, reason, Whole))
      BY <1>5 DEF MessageDelta
    <2> DEFINE in == [blank EXCEPT !.type = "message_delta", !.stop = reason, !.usage = Late]
               u == Stops(up, reason, Whole)
    <2>2. DOMAIN in = DOMAIN blank /\ in.type \notin BlockTypes
      BY DEF blank, BlockTypes
    <2>3. DOMAIN u = DOMAIN Silence /\ u.blocks = up.blocks
      BY DEF Stops, Silence
    <2>4. Send(in, u)
      BY <2>1
    <2>5. Speaks(in, u)
      BY <1>5 DEF MessageDelta, Speaks
    <2>. HIDE DEF in, u
    <2>. QED BY <2>2, <2>3, <2>4, <2>5, StayMoves
  <1>6. CASE MessageStop
    <2> DEFINE in == [blank EXCEPT !.type = "message_stop"]
    <2>1. Send(in, up)
      BY <1>6 DEF MessageStop
    <2>2. DOMAIN in = DOMAIN blank /\ in.type \notin BlockTypes
      BY DEF blank, BlockTypes
    <2>. HIDE DEF in
    <2>3. Speaks(in, up)
      BY <1>6 DEF MessageStop, Speaks
    <2>. QED BY <2>1, <2>2, <2>3, StayMoves
  <1>7. CASE \E kind \in {"text", "reasoning", "tool", "opaque"} : OpenBlock(kind)
    BY <1>7, OpenMoves
  <1>8. CASE GrowBlock
    BY <1>8, GrowMoves
  <1>9. CASE CloseBlock
    BY <1>9, CloseMoves
  <1>10. CASE \/ ChatContent \/ ChatCall \/ ChatTwoCalls \/ ChatArguments
              \/ ChatFinish \/ ChatUsage \/ ChatDone \/ AntigravityDocument
    BY <1>10 DEF ChatContent, ChatCall, ChatTwoCalls, ChatArguments, ChatFinish, ChatUsage,
                 ChatDone, AntigravityDocument, InBlocksUpstream
  <1>. QED BY <1>1, <1>2, <1>4, <1>5, <1>6, <1>7, <1>8, <1>9, <1>10 DEF Next

(* Passed on, an event has the same effect on the blocks of the client. *)
LEMMA PassMoves ==
  ASSUME NEW p, NEW in, NEW bs, AreBlocks(bs), NEW cs, Moves(p, in, bs, cs),
         NEW w, w.type = in.type, w.kind = in.kind, w.index = in.index
  PROVE  Turns(Len(bs), {k - 1 : k \in Closed(bs)}, <<w>>,
               Len(cs), {k - 1 : k \in Closed(cs)})
  <1> DEFINE n == Len(bs)
             C == {k - 1 : k \in Closed(bs)}
             D == {k - 1 : k \in Closed(cs)}
  <1>1. n \in Nat /\ DOMAIN bs = 1..n
    BY SeqFacts DEF AreBlocks
  <1>2. CASE Stays(in, bs, cs)
    <2>1. Apart(w) /\ cs = bs
      BY <1>2 DEF Stays, Apart, Opens, Grows, Closes, BlockTypes
    <2>2. Turns(n, C, <<w>>, n, C)
      <3>. HIDE DEF n, C
      <3>. QED BY <2>1, TurnsOne
    <2>. QED BY <2>1, <2>2
  <1>3. CASE Opening(p, in, bs, cs)
    <2>1. PICK b : IsUpBlock(b, n + 1) /\ b.open /\ cs = Append(bs, b)
      BY <1>3 DEF Opening
    <2>2. Len(cs) = n + 1 /\ Closed(cs) = Closed(bs)
      BY <2>1, BlockOpens
    <2>3. Opens(w) /\ ~Grows(w) /\ ~Closes(w) /\ w.index = n
      BY <1>3 DEF Opening, TypeFor, Opens, Grows, Closes
    <2>4. Turns(n, C, <<w>>, n + 1, C)
      <3>. HIDE DEF n, C, Opens, Grows, Closes
      <3>. QED BY <2>3, TurnsOne
    <2>. QED BY <2>2, <2>4
  <1>4. CASE Growing(p, in, bs, cs)
    <2>0. PICK k \in DOMAIN bs :
            bs[k].open /\ in.index = k - 1 /\ \E x : cs = [bs EXCEPT ![k].content = x]
      BY <1>4 DEF Growing
    <2>1. PICK x : bs[k].open /\ in.index = k - 1 /\ cs = [bs EXCEPT ![k].content = x]
      BY <2>0
    <2>2. Len(cs) = n /\ Closed(cs) = Closed(bs)
      <3> DEFINE c == [bs EXCEPT ![k].content = x]
      <3>1. Len(c) = Len(bs) /\ Closed(c) = Closed(bs)
        BY BlockGrows
      <3>2. cs = c
        BY <2>1
      <3>. HIDE DEF c
      <3>. QED BY <3>1, <3>2
    <2>3. Grows(w) /\ ~Opens(w) /\ ~Closes(w)
      BY <1>4 DEF Growing, TypeFor, Opens, Grows, Closes
    <2>4. w.index \in 0..(n - 1) /\ w.index \notin C
      <3>1. \A j \in Closed(bs) : j \in 1..n /\ j # k
        BY <1>1, <2>1 DEF Closed
      <3>. QED BY <1>1, <2>1, <3>1
    <2>5. Turns(n, C, <<w>>, n, C)
      <3>. HIDE DEF n, C, Opens, Grows, Closes
      <3>. QED BY <2>3, <2>4, TurnsOne
    <2>. QED BY <2>2, <2>5
  <1>5. CASE Closing(p, in, bs, cs)
    <2>1. PICK k \in DOMAIN bs :
            bs[k].open /\ in.index = k - 1 /\ cs = [bs EXCEPT ![k].open = FALSE]
      BY <1>5 DEF Closing
    <2>2. Len(cs) = n /\ Closed(cs) = Closed(bs) \cup {k}
      BY <2>1, BlockCloses
    <2>3. Closes(w) /\ ~Opens(w) /\ ~Grows(w)
      BY <1>5 DEF Closing, TypeFor, Opens, Grows, Closes
    <2>4. w.index \in 0..(n - 1) /\ w.index \notin C
      <3>1. \A j \in Closed(bs) : j \in 1..n /\ j # k
        BY <1>1, <2>1 DEF Closed
      <3>. QED BY <1>1, <2>1, <3>1
    <2>5. Turns(n, C, <<w>>, n, C \cup {w.index})
      <3>. HIDE DEF n, C, Opens, Grows, Closes
      <3>. QED BY <2>3, <2>4, TurnsOne
    <2>6. D = C \cup {w.index}
      BY <2>1, <2>2
    <2>. HIDE DEF n, C, D
    <2>. QED BY <2>2, <2>5, <2>6 DEF n, C, D
  <1>. QED BY <1>2, <1>3, <1>4, <1>5 DEF Moves

(* A Codex stream is done when the events say so. *)
LEMMA CodexFinishes ==
  ASSUME NEW d, NEW in, in.type = "response.delta" => in.kind \in Kinds,
         in.type # "response.failed"
  PROVE  Finishes(decodeResponses(d, in).events) <=> in.type \in CodexTerminal
  <1> DEFINE a == decodeResponses(d, in)
             s == <<Finish(responseStop(d, in))>>
             r == Report(in.usage)
             t == <<Event("done")>>
  <1>1. Finishes(a.events) => in.type \in CodexTerminal
    BY ResponsesDecoded
  <1>2. ASSUME in.type \in CodexTerminal PROVE Finishes(a.events)
    <2>1. a = Answer(d, s \o r \o t)
      BY <1>2 DEF decodeResponses, CodexTerminal
    <2>2. a.events = s \o r \o t
      <3>. HIDE DEF a, s, r, t
      <3>. QED BY <2>1 DEF Answer
    <2>3. AreEvents(s) /\ AreEvents(r) /\ AreEvents(t) /\ Finishes(t)
      <3>1. Event("done").kind = "done"
        BY DEF Event
      <3>. QED BY <3>1, EventsAre, OneEvent, Reports
    <2>. HIDE DEF a, s, r, t
    <2>4. AreEvents(s \o r)
      BY <2>3, EventsJoin
    <2>5. Finishes(s \o r \o t)
      BY <2>3, <2>4, EventsJoin
    <2>. QED BY <2>2, <2>5 DEF a
  <1>. QED BY <1>1, <1>2

(* The calls of the blocks of an upstream are the ones that the encoder    *)
(* knows.                                                                  *)
BlockLink ==
  InBlocksUpstream =>
    /\ Spoken
    /\ DOMAIN up = DOMAIN Silence /\ AreBlocks(up.blocks)
    /\ status = "open" /\ ~PassThrough =>
         /\ DOMAIN dec = DOMAIN newStreamDecoder
         /\ Knows(protocolOf(from), dec, up.blocks)
         /\ Keys(enc) = UpKeys(up.blocks) /\ UpLive(up.blocks) \subseteq LiveKeys(enc)

(* The blocks stay blocks. *)
LEMMA MovesAreBlocks ==
  ASSUME NEW p, NEW in, NEW bs, AreBlocks(bs), NEW cs, Moves(p, in, bs, cs)
  PROVE  AreBlocks(cs)
  <1>1. CASE Stays(in, bs, cs)
    BY <1>1 DEF Stays
  <1>2. CASE Opening(p, in, bs, cs)
    <2>1. PICK b : IsUpBlock(b, Len(bs) + 1) /\ b.open /\ cs = Append(bs, b)
      BY <1>2 DEF Opening
    <2>. QED BY <2>1, BlockOpens
  <1>3. CASE Growing(p, in, bs, cs)
    <2>0. PICK k \in DOMAIN bs : \E x : cs = [bs EXCEPT ![k].content = x]
      BY <1>3 DEF Growing
    <2>1. PICK x : cs = [bs EXCEPT ![k].content = x]
      BY <2>0
    <2> DEFINE c == [bs EXCEPT ![k].content = x]
    <2>2. AreBlocks(c)
      BY BlockGrows
    <2>3. cs = c
      BY <2>1
    <2>. HIDE DEF c
    <2>. QED BY <2>2, <2>3
  <1>4. CASE Closing(p, in, bs, cs)
    <2>1. PICK k \in DOMAIN bs : cs = [bs EXCEPT ![k].open = FALSE]
      BY <1>4 DEF Closing
    <2>. QED BY <2>1, BlockCloses
  <1>. QED BY <1>1, <1>2, <1>3, <1>4 DEF Moves

LEMMA BlockStep ==
  ASSUME Collected, Watched, Encoding, Passing, BlockLink, InBlocksUpstream,
         NEW in, NEW u, Send(in, u), BlockMove(in, u)
  PROVE  Watched' /\ Encoding' /\ Passing' /\ BlockLink'
  <1> DEFINE p == protocolOf(from)
             bs == up.blocks
             event == IF from = "codex" THEN Consumed(codex, in) ELSE in
             next == IF from = "codex" THEN Consume(codex, in) ELSE codex
  <1>1. /\ status = "open" /\ up' = u /\ from' = from /\ to' = to
        /\ (PassThrough' <=> PassThrough) /\ (InBlocksUpstream' <=> InBlocksUpstream)
        /\ p' = p /\ p \in {"messages", "responses"}
    BY DEF Send, PassThrough, InBlocksUpstream, protocolOf
  <1>2. /\ DOMAIN up = DOMAIN Silence /\ AreBlocks(bs) /\ Spoken
        /\ ~PassThrough =>
             /\ DOMAIN dec = DOMAIN newStreamDecoder /\ Knows(p, dec, bs)
             /\ Keys(enc) = UpKeys(bs) /\ UpLive(bs) \subseteq LiveKeys(enc)
    BY <1>1 DEF BlockLink
  <1>3. /\ DOMAIN in = DOMAIN blank /\ (in.type = "response.delta" => in.kind \in Kinds)
        /\ DOMAIN u = DOMAIN Silence /\ Moves(p, in, bs, u.blocks)
    BY DEF BlockMove
  <1>4. /\ event.type = in.type /\ event.kind = in.kind /\ event.index = in.index
        /\ event.call = in.call
    BY <1>3 DEF Consumed, blank
  <1>5. Moves(p, event, bs, u.blocks)
    <2>. HIDE DEF event
    <2>. QED BY <1>3, <1>4 DEF Moves, Stays, Opening, Growing, Closing
  <1>. HIDE DEF p, event, next
  <1>6. AreBlocks(u.blocks) /\ DOMAIN u = DOMAIN Silence /\ Spoken'
    <2>1. Spoken'
      BY <1>1 DEF BlockMove, Speaks, Spoken
    <2>. QED BY <1>2, <1>3, <2>1, MovesAreBlocks
  <1>7. CASE from = "codex" /\ CodexRefuses(codex, in)
    <2>1. GiveUp
      BY <1>7 DEF Send
    <2>2. Watched' /\ Encoding' /\ status' = "failed"
      BY <1>1, <2>1, GivesUp
    <2>. QED BY <1>1, <1>6, <2>2 DEF Passing, BlockLink
  <1>8. from = "codex" => /\ next.done \in BOOLEAN
                          /\ next.done <=> in.type \in CodexTerminal
    <2>1. from = "codex" => /\ DOMAIN codex = DOMAIN newCodexStream /\ codex.done \in BOOLEAN
                            /\ ~codex.done
      BY <1>1 DEF Collected
    <2>. QED BY <2>1, Consumes DEF next
  <1>9. CASE ~(from = "codex" /\ CodexRefuses(codex, in)) /\ PassThrough
    <2>1. Pass(in) /\ from = "codex"
      BY <1>9 DEF Send, PassThrough
    <2> DEFINE w == Consumed(codex, in)
               semantic == CodexSemantic(in)
    <2>2. Relay(<<w>>, semantic, next.done)
      BY <2>1 DEF Pass, next
    <2>3. w.type = in.type /\ w.kind = in.kind /\ w.index = in.index
      BY <1>4, <2>1 DEF event
    <2>. HIDE DEF w, semantic
    <2>4. Turns(Len(bs), {k - 1 : k \in Closed(bs)}, <<w>>,
                Len(u.blocks), {k - 1 : k \in Closed(u.blocks)})
      BY <1>2, <1>3, <2>3, PassMoves
    <2>8. Leads(to, up.begun, <<w>>, up'.begun, next.done)
      <3>1. /\ u.begun = TRUE /\ up.begun \in BOOLEAN
            /\ Begins(in) <=> ~up.begun
            /\ Ends(in) => in.type \in CodexTerminal
        BY <2>1 DEF BlockMove, Speaks
      <3>2. (Begins(w) <=> ~up.begun) /\ (Ends(w) <=> w.type \in CodexTerminal)
        BY <2>3, <3>1 DEF Begins, Ends
      <3>3. Begins(w) => ~Ends(w)
        BY DEF Begins, Ends, CodexTerminal
      <3>. HIDE DEF Begins, Ends
      <3>4. ((next.done = TRUE) /\ Ends(w)) \/ ((next.done = FALSE) /\ ~Ends(w))
        BY <1>8, <2>1, <2>3, <3>2
      <3>5. up'.begun = TRUE /\ (up.begun = TRUE \/ up.begun = FALSE)
        BY <1>1, <3>1
      <3>6. CASE Begins(w)
        <4>1. up.begun = FALSE /\ next.done = FALSE /\ Leads(to, FALSE, <<w>>, TRUE, FALSE)
          BY <3>2, <3>3, <3>4, <3>5, <3>6, LeadsOne
        <4>. QED BY <3>5, <4>1
      <3>7. CASE ~Begins(w) /\ Ends(w)
        <4>1. up.begun = TRUE /\ next.done = TRUE /\ Leads(to, TRUE, <<w>>, TRUE, TRUE)
          BY <3>2, <3>4, <3>5, <3>7, LeadsOne
        <4>. QED BY <3>5, <4>1
      <3>8. CASE ~Begins(w) /\ ~Ends(w)
        <4>1. up.begun = TRUE /\ next.done = FALSE /\ Leads(to, TRUE, <<w>>, TRUE, FALSE)
          BY <3>2, <3>4, <3>5, <3>8, LeadsOne DEF Inside
        <4>. QED BY <3>5, <4>1
      <3>. QED BY <3>6, <3>7, <3>8
    <2>5. Watched' /\ Passing'
      BY <1>1, <1>8, <1>9, <2>1, <2>2, <2>8, <2>4, Passes
    <2>6. Encoding'
      BY <1>1, <1>9 DEF Encoding
    <2>7. BlockLink'
      BY <1>1, <1>6, <1>9 DEF BlockLink
    <2>. QED BY <2>5, <2>6, <2>7
  <1>10. CASE ~(from = "codex" /\ CodexRefuses(codex, in)) /\ ~PassThrough
    <2>1. Translate(in, "none")
      BY <1>10 DEF Send, InBlocksUpstream
    <2> DEFINE a == Decode(p, dec, event, "none")
               done == IF from = "codex" THEN next.done ELSE Convert(a.events).done
    <2>2. IF a.error THEN GiveUp
          ELSE /\ dec' = a.dec
               /\ enc' = Convert(a.events).enc
               /\ Relay(Convert(a.events).out, Convert(a.events).semantic, done)
      BY <2>1 DEF Translate, p, event, next
    <2>3. ~a.error => /\ DOMAIN a.dec = DOMAIN newStreamDecoder /\ Knows(p, a.dec, u.blocks)
                      /\ Legal(Keys(enc), UpLive(bs), a.events, UpKeys(u.blocks), UpLive(u.blocks))
      <3>1. Keys(enc) = UpKeys(bs)
        BY <1>2, <1>10
      <3>2. ~a.error => /\ DOMAIN a.dec = DOMAIN newStreamDecoder /\ Knows(p, a.dec, u.blocks)
                        /\ Legal(UpKeys(bs), UpLive(bs), a.events, UpKeys(u.blocks), UpLive(u.blocks))
        BY <1>1, <1>2, <1>5, <1>10, BlockReads
      <3>. QED BY <3>1, <3>2
    <2>4. ~a.error => done \in BOOLEAN /\ (done <=> Finishes(a.events))
      <3>1. CASE from = "codex"
        <4>1. in.type # "response.failed"
          BY <1>10, <3>1 DEF CodexRefuses
        <4>2. a = decodeResponses(dec, event)
          BY <3>1 DEF Decode, p, protocolOf
        <4>3. event.type = "response.delta" => event.kind \in Kinds
          BY <1>3, <1>4
        <4>. HIDE DEF a
        <4>4. Finishes(a.events) <=> event.type \in CodexTerminal
          BY <1>4, <4>1, <4>2, <4>3, CodexFinishes
        <4>. QED BY <1>4, <1>8, <3>1, <4>4
      <3>2. CASE from # "codex"
        <4>1. done = Convert(a.events).done
          BY <3>2
        <4>. HIDE DEF a, done
        <4>. QED BY <2>3, <4>1, ConvertDone DEF Legal
      <3>. QED BY <3>1, <3>2
    <2>5. from' = from /\ to' = to /\ UpLive(bs) \subseteq LiveKeys(enc)
      BY <1>1, <1>2, <1>10
    <2>6. CASE a.error
      <3>1. Watched' /\ Encoding' /\ status' = "failed"
        BY <1>1, <2>2, <2>5, <2>6, GivesUp
      <3>. QED BY <1>1, <1>6, <3>1 DEF Passing, BlockLink
    <2>7. CASE ~a.error
      <3>. HIDE DEF a, done
      <3>1. /\ Watched' /\ Encoding'
            /\ status' = "open" => /\ ~a.error /\ dec' = a.dec
                                   /\ Keys(enc') = UpKeys(u.blocks)
                                   /\ UpLive(u.blocks) \subseteq LiveKeys(enc')
        BY <1>1, <1>10, <2>2, <2>3, <2>4, <2>5, <2>7, Translates
      <3>2. Passing'
        BY <1>1, <1>10 DEF Passing
      <3>3. DOMAIN up' = DOMAIN Silence /\ AreBlocks(up'.blocks) /\ Spoken'
        BY <1>1, <1>6
      <3>4. ASSUME status' = "open"
            PROVE  /\ DOMAIN dec' = DOMAIN newStreamDecoder
                   /\ Knows(protocolOf(from'), dec', up'.blocks)
                   /\ Keys(enc') = UpKeys(up'.blocks)
                   /\ UpLive(up'.blocks) \subseteq LiveKeys(enc')
        <4>1. dec' = a.dec /\ up' = u /\ protocolOf(from') = p
          BY <1>1, <3>1, <3>4 DEF p
        <4>. QED BY <2>3, <2>7, <3>1, <3>4, <4>1
      <3>5. BlockLink'
        BY <3>3, <3>4 DEF BlockLink
      <3>. QED BY <3>1, <3>2, <3>5
    <2>. QED BY <2>6, <2>7
  <1>. QED BY <1>7, <1>9, <1>10

-----------------------------------------------------------------------------
(* An Antigravity upstream. *)

(* The ids of the first n calls of a turn, as the encoder knows them. *)
AntiKeys(n) == {<<"id", NewCall(i)>> : i \in 0..(n - 1)}

LEMMA AntiKeysGrow ==
  ASSUME NEW n \in Nat
  PROVE  /\ KeyFor(NewCall(n), n) = <<"id", NewCall(n)>>
         /\ KeyFor(NewCall(n), n) \notin AntiKeys(n)
         /\ AntiKeys(n + 1) = AntiKeys(n) \cup {KeyFor(NewCall(n), n)}
  <1>1. KeyFor(NewCall(n), n) = <<"id", NewCall(n)>>
    BY DEF KeyFor, NewCall
  <1>2. \A i \in 0..(n - 1) : NewCall(i) # NewCall(n)
    BY DEF NewCall
  <1>3. <<"id", NewCall(n)>> \notin AntiKeys(n)
    <2>1. ASSUME NEW i \in 0..(n - 1) PROVE <<"id", NewCall(i)>> # <<"id", NewCall(n)>>
      <3>1. NewCall(i) # NewCall(n)
        BY <1>2
      <3>. QED BY <3>1
    <2>. QED BY <2>1 DEF AntiKeys
  <1>4. 0..((n + 1) - 1) = 0..(n - 1) \cup {n}
    OBVIOUS
  <1>5. AntiKeys(n + 1) = AntiKeys(n) \cup {<<"id", NewCall(n)>>}
    BY <1>4 DEF AntiKeys
  <1>. QED BY <1>1, <1>3, <1>5

(* The events of a call, which is a part. *)
LEMMA LegalPart ==
  ASSUME NEW K, NEW O, NEW i, NEW id, KeyFor(id, i) \notin K, NEW d
  PROVE  \E P : Legal(K, O, <<Tool("tool_start", i, id), ToolDelta(i, id, d),
                              Tool("tool_end", i, id)>>,
                      K \cup {KeyFor(id, i)}, P)
  <1> DEFINE key == KeyFor(id, i)
             L == K \cup {key}
             Q == O \cup {key}
             x == Tool("tool_start", i, id)
             y == ToolDelta(i, id, d)
             z == Tool("tool_end", i, id)
  <1>1. Legal(K, O, <<x>>, L, Q)
    BY LegalStart
  <1>2. key \in L /\ key \in Q
    OBVIOUS
  <1>. HIDE DEF L, Q
  <1>3. Legal(L, Q, <<y>>, L, Q)
    BY <1>2, LegalDelta
  <1>4. Legal(L, Q, <<z>>, L, Q \ {key})
    BY <1>2, LegalEnd
  <1>. HIDE DEF x, y, z, key
  <1>5. Legal(K, O, (<<x>> \o <<y>>) \o <<z>>, L, Q \ {key})
    BY <1>1, <1>3, <1>4, LegalJoin
  <1>6. (<<x>> \o <<y>>) \o <<z>> = <<x, y, z>>
    <2>1. IsSeq(<<x>>) /\ IsSeq(Append(<<x>>, y))
      BY Singles, Appends
    <2>2. <<x>> \o <<y>> = Append(<<x>>, y)
      BY <2>1, Groups
    <2>3. Append(<<x>>, y) \o <<z>> = Append(Append(<<x>>, y), z)
      BY <2>1, Groups
    <2>4. <<x, y, z>> = Append(Append(<<x>>, y), z)
      OBVIOUS
    <2>. QED BY <2>2, <2>3, <2>4
  <1>7. Legal(K, O, <<x, y, z>>, L, Q \ {key})
    BY <1>5, <1>6
  <1>. QED BY <1>7 DEF x, y, z, key, L

(* The events of the parts that have been read, K the calls before them. *)
PartsLegal(acc, K, O) == \E P : Legal(K, O, acc.events, AntiKeys(Len(acc.calls)), P)

LEMMA PartLegal ==
  ASSUME NEW acc, NEW calls, PartsRead(acc, calls), NEW K, NEW O, PartsLegal(acc, K, O),
         NEW part, part.kind \in Kinds
  PROVE  PartsLegal(antigravityPart(acc, part), K, O)
  <1> DEFINE i == Len(acc.calls)
             id == NewCall(i)
             signed == acc.signed \/ part.signed
             call == <<Tool("tool_start", i, id), ToolDelta(i, id, part.delta),
                       Tool("tool_end", i, id)>>
             c == Append(acc.calls, id)
             w == Delta(part.kind, 0, part.delta)
             more == When(part.delta # 0, <<w>>)
             a1 == [acc EXCEPT !.signed = signed, !.calls = c,
                               !.events = acc.events \o call]
             a2 == [acc EXCEPT !.signed = signed, !.events = acc.events \o more]
  <1>1. CASE acc.error
    BY <1>1 DEF antigravityPart
  <1>p. PICK P : Legal(K, O, acc.events, AntiKeys(i), P)
    BY DEF PartsLegal
  <1>2. CASE ~acc.error /\ part.kind = "tool"
    <2>1. antigravityPart(acc, part) = a1
      BY <1>2 DEF antigravityPart, PartsRead
    <2>2. a1.calls = c /\ a1.events = acc.events \o call
      BY DEF PartsRead
    <2>3. i \in Nat
      BY SeqFacts DEF PartsRead
    <2>4. Len(c) = i + 1
      <3>. HIDE DEF id
      <3>. QED BY Appends DEF PartsRead
    <2>5. /\ KeyFor(id, i) \notin AntiKeys(i)
          /\ AntiKeys(i + 1) = AntiKeys(i) \cup {KeyFor(id, i)}
      BY <2>3, AntiKeysGrow
    <2>. HIDE DEF i, id, a1, c
    <2>6. PICK Q : Legal(AntiKeys(i), P, call, AntiKeys(i) \cup {KeyFor(id, i)}, Q)
      BY <2>5, LegalPart
    <2>. HIDE DEF call
    <2>7. Legal(K, O, acc.events \o call, AntiKeys(i + 1), Q)
      BY <1>p, <2>5, <2>6, LegalJoin DEF i
    <2>. QED BY <2>1, <2>2, <2>4, <2>7 DEF PartsLegal
  <1>3. CASE ~acc.error /\ part.kind # "tool"
    <2>1. antigravityPart(acc, part) = a2
      BY <1>3 DEF antigravityPart, PartsRead
    <2>2. a2.calls = acc.calls /\ a2.events = acc.events \o more
      BY DEF PartsRead
    <2>3. part.kind \in {"text", "reasoning"}
      BY <1>3 DEF Kinds
    <2>4. Legal(AntiKeys(i), P, <<w>>, AntiKeys(i), P)
      BY <2>3, LegalEvents
    <2>. HIDE DEF w, a2
    <2>5. Legal(AntiKeys(i), P, more, AntiKeys(i), P)
      BY <2>4, LegalWhen
    <2>. HIDE DEF more
    <2>6. Legal(K, O, acc.events \o more, AntiKeys(i), P)
      BY <1>p, <2>5, LegalJoin
    <2>. QED BY <2>1, <2>2, <2>6 DEF PartsLegal
  <1>. QED BY <1>1, <1>2, <1>3 DEF PartsRead

LEMMA AllPartsLegal ==
  ASSUME NEW d, IsDecoder(d), NEW parts, Len(parts) \in Nat,
         \A i \in 1..Len(parts) : parts[i].kind \in Kinds, NEW O
  PROVE  PartsLegal(Fold(antigravityPart,
                         [store |-> TRUE, signed |-> d.signed, error |-> FALSE,
                          calls |-> d.calls, events |-> <<>>], parts),
                    AntiKeys(Len(d.calls)), O)
  <1> DEFINE N == Len(parts)
             base == [store |-> TRUE, signed |-> d.signed, error |-> FALSE,
                      calls |-> d.calls, events |-> <<>>]
             K == AntiKeys(Len(d.calls))
             Ok(acc) == PartsRead(acc, d.calls) /\ PartsLegal(acc, K, O)
  <1>1. Ok(base)
    <2>1. PartsRead(base, d.calls)
      BY NoEvents DEF PartsRead, IsDecoder
    <2>2. base.events = <<>> /\ base.calls = d.calls
      OBVIOUS
    <2>. HIDE DEF base
    <2>3. PartsLegal(base, K, O)
      BY <2>2, LegalNone DEF PartsLegal
    <2>. QED BY <2>1, <2>3
  <1>. HIDE DEF base, K
  <1>2. PICK g : /\ g = [i \in 0..N |-> IF i = 0 THEN base ELSE antigravityPart(g[i - 1], parts[i])]
                 /\ Fold(antigravityPart, base, parts) = g[N]
    BY PartsRun
  <1>3. g[0] = base /\ \A i \in 1..N : g[i] = antigravityPart(g[i - 1], parts[i])
    BY <1>2
  <1>4. Fold(antigravityPart, base, parts) = g[N]
    BY <1>2
  <1> DEFINE S == {m \in Nat : m <= N => Ok(g[m])}
  <1>. HIDE DEF Ok
  <1>5. 0 \in S
    BY <1>1, <1>3
  <1>6. ASSUME NEW m \in Nat, m \in S PROVE m + 1 \in S
    <2>1. SUFFICES ASSUME m + 1 <= N PROVE Ok(g[m + 1])
      OBVIOUS
    <2>2. Ok(g[m])
      BY <1>6, <2>1
    <2>3. g[m + 1] = antigravityPart(g[m], parts[m + 1]) /\ parts[m + 1].kind \in Kinds
      BY <1>3, <2>1
    <2>4. Ok(antigravityPart(g[m], parts[m + 1]))
      BY <2>2, <2>3, PartRead, PartLegal DEF Ok
    <2>. QED BY <2>3, <2>4
  <1>7. Nat \subseteq S
    <2>. HIDE DEF S
    <2>. QED BY <1>5, <1>6, SetInduction
  <1>8. Ok(g[N])
    BY <1>7
  <1>. QED BY <1>4, <1>8 DEF Ok, base, K

(* A decoder with a store: the calls of a turn that it has kept back start *)
(* where those that the encoder knows end.                                 *)
Keeps(d, K) == \E P : Legal(K, {}, d.pending, AntiKeys(Len(d.calls)), P)

LEMMA AntigravityAnswers ==
  ASSUME NEW d, IsDecoder(d), NEW K, Keeps(d, K), NEW in, Len(in.parts) \in Nat,
         \A i \in 1..Len(in.parts) : in.parts[i].kind \in Kinds,
         NEW save \in {"ok", "fails"}, ~decodeAntigravity(d, in, save).error
  PROVE  \E L, P : /\ Legal(K, {}, decodeAntigravity(d, in, save).events, L, P)
                   /\ Keeps(decodeAntigravity(d, in, save).dec, L)
  <1> DEFINE base == [store |-> TRUE, signed |-> d.signed, error |-> FALSE,
                      calls |-> d.calls, events |-> <<>>]
             acc == Fold(antigravityPart, base, in.parts)
             last == in.stop # ""
             told == IF last /\ save # "none" THEN acc.calls ELSE <<>>
             e1 == When(~d.started, <<Event("start")>>)
             e2 == When(last, <<Finish(antigravityStop(in.stop, acc.calls))>>)
             e3 == When(last, <<Event("done")>>)
             e4 == Report(in.usage)
             events == e1 \o acc.events \o e2 \o e4 \o e3
             next == [d EXCEPT !.started = TRUE, !.signed = acc.signed, !.calls = acc.calls]
             ended == [next EXCEPT !.ended = last]
             kept == [ended EXCEPT !.pending = @ \o events]
             shown == [ended EXCEPT !.pending = <<>>]
             a == decodeAntigravity(d, in, save)
             D == AntiKeys(Len(d.calls))
             C == AntiKeys(Len(acc.calls))
  <1>1. PICK O : Legal(K, {}, d.pending, D, O)
    BY DEF Keeps
  <1>2. PICK P : Legal(D, O, acc.events, C, P)
    <2>1. PartsLegal(acc, D, O)
      BY AllPartsLegal
    <2>. HIDE DEF acc, D
    <2>. QED BY <2>1 DEF PartsLegal
  <1>3. a = answerParts(d, in, save, acc)
    <2>1. save # "none" /\ (save # "none") = TRUE
      OBVIOUS
    <2>2. [store |-> save # "none", signed |-> d.signed, error |-> FALSE,
           calls |-> d.calls, events |-> <<>>] = base
      BY <2>1
    <2>. HIDE DEF base
    <2>. QED BY <2>2 DEF decodeAntigravity
  <1>. HIDE DEF acc, a, D, C
  <1>4. Legal(K, {}, d.pending \o events, C, P)
    <2>1. Legal(D, O, e1, D, O) /\ Legal(C, P, e2, C, P) /\ Legal(C, P, e3, C, P)
          /\ Legal(C, P, e4, C, P)
      BY LegalEvents, LegalWhen
    <2>. HIDE DEF e1, e2, e3, e4
    <2>2. Legal(D, O, e1 \o acc.events, C, P)
      BY <1>2, <2>1, LegalJoin
    <2>3. Legal(D, O, e1 \o acc.events \o e2, C, P)
      BY <2>1, <2>2, LegalJoin
    <2>4. Legal(D, O, e1 \o acc.events \o e2 \o e4, C, P)
      BY <2>1, <2>3, LegalJoin
    <2>5. Legal(D, O, events, C, P)
      BY <2>1, <2>4, LegalJoin
    <2>. HIDE DEF events
    <2>. QED BY <1>1, <2>5, LegalJoin
  <1>. HIDE DEF events
  <1>5. a = Answer(kept, <<>>) \/ a = [Answer(shown, d.pending \o events) EXCEPT !.turn = told]
    <2>1. a = IF d.ended \/ in.type = "error" THEN Refusal(d)
              ELSE IF acc.error \/ (last /\ in.stop \notin {"STOP", "MAX_TOKENS"})
                THEN Refusal(next)
              ELSE IF told # <<>> /\ save = "fails" THEN Refusal(ended)
              ELSE IF KeepsBack(acc.calls, save) /\ ~last THEN Answer(kept, <<>>)
              ELSE [Answer(shown, d.pending \o events) EXCEPT !.turn = told]
      BY <1>3 DEF answerParts, events
    <2>2. ~a.error
      BY DEF a
    <2>3. Refusal(d).error /\ Refusal(next).error /\ Refusal(ended).error
      BY DEF Refusal, Answer
    <2>. HIDE DEF told, next, ended, kept, shown, last
    <2>. QED BY <2>1, <2>2, <2>3
  <1>6. CASE a = Answer(kept, <<>>)
    <2>1. a.dec = kept /\ a.events = <<>>
      BY <1>6 DEF Answer
    <2>2. kept.calls = acc.calls /\ kept.pending = d.pending \o events
      BY DEF IsDecoder, newStreamDecoder
    <2>. HIDE DEF kept
    <2>3. Keeps(a.dec, K)
      BY <1>4, <2>1, <2>2 DEF Keeps, C
    <2>4. Legal(K, {}, a.events, K, {})
      BY <2>1, LegalNone
    <2>. QED BY <2>3, <2>4 DEF a
  <1>7. CASE a = [Answer(shown, d.pending \o events) EXCEPT !.turn = told]
    <2>1. a.dec = shown /\ a.events = d.pending \o events
      BY <1>7 DEF Answer
    <2>2. shown.calls = acc.calls /\ shown.pending = <<>>
      BY DEF IsDecoder, newStreamDecoder
    <2>. HIDE DEF shown
    <2>3. Legal(C, {}, a.dec.pending, AntiKeys(Len(a.dec.calls)), {})
      BY <2>1, <2>2, LegalNone DEF C
    <2>4. Keeps(a.dec, C)
      BY <2>3 DEF Keeps
    <2>5. Legal(K, {}, a.events, C, P)
      BY <1>4, <2>1
    <2>. QED BY <2>4, <2>5 DEF a
  <1>. QED BY <1>5, <1>6, <1>7

AntigravityLink == from = "antigravity" /\ status = "open" => Keeps(dec, Keys(enc))

LEMMA AntigravityBlocks ==
  ASSUME Recorded, Watched, Encoding, AntigravityLink, from = "antigravity",
         NEW in, Len(in.parts) \in Nat,
         \A i \in 1..Len(in.parts) : in.parts[i].kind \in Kinds,
         NEW u, Send(in, u)
  PROVE  Watched' /\ Encoding' /\ AntigravityLink'
  <1>1. /\ status = "open" /\ ~PassThrough /\ from' = from /\ to' = to
        /\ protocolOf(from) = "antigravity"
    BY DEF Send, PassThrough, protocolOf
  <1>2. PICK save \in {"ok", "fails"} : Translate(in, save)
    BY <1>1 DEF Send
  <1> DEFINE a == decodeAntigravity(dec, in, save)
             K == Keys(enc)
             done == Convert(a.events).done
  <1>3. IF a.error THEN GiveUp
        ELSE /\ dec' = a.dec
             /\ enc' = Convert(a.events).enc
             /\ Relay(Convert(a.events).out, Convert(a.events).semantic, done)
    BY <1>1, <1>2 DEF Translate, Decode
  <1>4. CASE a.error
    <2>1. Watched' /\ Encoding' /\ status' = "failed"
      BY <1>1, <1>3, <1>4, GivesUp
    <2>. QED BY <2>1 DEF AntigravityLink
  <1>5. CASE ~a.error
    <2>1. PICK L, P : Legal(K, {}, a.events, L, P) /\ Keeps(a.dec, L)
      <3>1. IsDecoder(dec) /\ Keeps(dec, K)
        BY <1>1 DEF Recorded, AntigravityLink
      <3>. QED BY <1>5, <3>1, AntigravityAnswers
    <2>2. done \in BOOLEAN /\ (done <=> Finishes(a.events))
      BY <2>1, ConvertDone DEF Legal
    <2> DEFINE O == {}
    <2>3. O \subseteq LiveKeys(enc) /\ Legal(Keys(enc), O, a.events, L, P)
      BY <2>1
    <2>. HIDE DEF a, done, O
    <2>4. /\ Watched' /\ Encoding'
          /\ status' = "open" => /\ ~a.error /\ dec' = a.dec
                                 /\ Keys(enc') = L /\ P \subseteq LiveKeys(enc')
      BY <1>1, <1>3, <2>2, <2>3, Translates
    <2>. QED BY <2>1, <2>4 DEF AntigravityLink
  <1>. QED BY <1>4, <1>5

-----------------------------------------------------------------------------
(* What the client has been written stays well formed, whichever protocol  *)
(* the upstream speaks.                                                    *)

BlockInv ==
  /\ Watched /\ Encoding /\ Passing
  /\ ChatLink /\ BlockLink /\ AntigravityLink

LEMMA BlocksStart == Init => BlockInv
  <1>. SUFFICES ASSUME Init PROVE BlockInv
    OBVIOUS
  <1>1. /\ seen = <<>> /\ pending = <<>> /\ status = "open" /\ dec = newStreamDecoder
        /\ enc = newStreamEncoder(to) /\ to \in Client
    BY DEF Init
  <1>2. DOMAIN up = DOMAIN Silence /\ up.blocks = <<>>
    BY DEF Init, Silence
  <1>3. IsSeq(<<>>) /\ Len(<<>>) = 0 /\ DOMAIN <<>> = {} /\ <<>> \o <<>> = <<>>
    BY Singles, Groups
  <1>4. Good(seen \o pending, 0, {}) /\ 0 \in Nat
    BY <1>1, <1>3, GoodNothing
  <1>5. Watched
    <2>1. ~(status = "done") /\ (status = "done") = FALSE
      BY <1>1
    <2>2. Frame(to, seen \o pending, FALSE, FALSE)
      BY <1>1, <1>3, FrameNothing
    <2>3. enc.started = FALSE /\ (PassThrough => up.begun = FALSE)
      <3>1. from = "codex" => from \notin {"chat", "antigravity"}
        OBVIOUS
      <3>2. up.begun = (from \in {"chat", "antigravity"})
        BY DEF Init, Silence
      <3>3. enc.started = FALSE
        BY <1>1 DEF newStreamEncoder
      <3>4. from = "codex" => (from \in {"chat", "antigravity"}) = FALSE
        BY <3>1
      <3>5. from = "codex" => up.begun = FALSE
        BY <3>2, <3>4
      <3>. QED BY <3>3, <3>5 DEF PassThrough
    <2>4. Framing
      BY <2>1, <2>2, <2>3 DEF Framing
    <2>. QED BY <1>1, <1>3, <1>4, <2>1, <2>4 DEF Watched
  <1>6. /\ enc.nextIndex = 0 /\ enc.tools = <<>> /\ enc.done = FALSE /\ enc.protocol = to
        /\ enc.textIndex = -1 /\ enc.reasoningIndex = -1 /\ enc.reasoningClosed = FALSE
        /\ IsEncoder(enc)
    BY <1>1, <1>3 DEF newStreamEncoder, IsEncoder, None
  <1>7. Keys(enc) = {} /\ LiveKeys(enc) = {}
    BY <1>3, <1>6 DEF Keys, LiveKeys
  <1>8. Tidy(enc) /\ ClosedOf(enc) = {}
    <2>1. 0..(0 - 1) = {}
      OBVIOUS
    <2>2. ClosedOf(enc) = {}
      BY <1>6, <2>1 DEF ClosedOf
    <2>3. Tidy(enc)
      BY <1>3, <1>6 DEF Tidy, None
    <2>. QED BY <2>2, <2>3
  <1>9. Encoding
    BY <1>4, <1>6, <1>8 DEF Encoding
  <1>10. Closed(up.blocks) = {} /\ UpKeys(up.blocks) = {} /\ UpLive(up.blocks) = {}
         /\ AreBlocks(up.blocks)
    BY <1>2, <1>3 DEF Closed, UpKeys, UpLive, LiveIn, CallsIn, AreBlocks
  <1>11. Passing
    <2>1. {k - 1 : k \in Closed(up.blocks)} = {} /\ Len(up.blocks) = 0
      BY <1>2, <1>3, <1>10
    <2>. QED BY <1>4, <2>1 DEF Passing
  <1>12. /\ dec.chatTools = NoTools /\ dec.messageBlocks = NoTools
         /\ dec.responseTools = NoTools /\ dec.calls = <<>> /\ dec.pending = <<>>
         /\ DOMAIN dec = DOMAIN newStreamDecoder
         /\ DOMAIN NoTools = {}
    BY <1>1 DEF newStreamDecoder, NoTools
  <1>13. ChatLink
    <2>1. Numbered(dec.chatTools, 0) /\ IdKeys(dec.chatTools) = {}
      BY <1>12 DEF Numbered, IdKeys
    <2>. QED BY <1>2, <1>3, <1>7, <1>12, <2>1 DEF ChatLink
  <1>14. BlockLink
    <2>1. MessagesKnow(dec, up.blocks) /\ ResponsesKnow(dec, up.blocks)
      BY <1>2, <1>3, <1>12 DEF MessagesKnow, ResponsesKnow, CallsIn
    <2>2. Spoken
      <3>1. up.begun = (from \in {"chat", "antigravity"})
        BY DEF Init, Silence
      <3>2. up.begun \in BOOLEAN
        BY <3>1
      <3>. QED BY <1>2, <3>2 DEF Spoken
    <2>. QED BY <1>2, <1>7, <1>10, <1>12, <2>1, <2>2 DEF BlockLink, Knows
  <1>15. AntigravityLink
    <2>1. AntiKeys(Len(dec.calls)) = {}
      BY <1>3, <1>12 DEF AntiKeys
    <2>2. Legal({}, {}, dec.pending, {}, {})
      BY <1>12, LegalNone
    <2>. QED BY <1>7, <2>1, <2>2 DEF AntigravityLink, Keeps
  <1>. QED BY <1>5, <1>9, <1>11, <1>13, <1>14, <1>15 DEF BlockInv

LEMMA BlocksGoOn == StreamInv /\ BlockInv /\ [Next]_vars => BlockInv'
  <1>. SUFFICES ASSUME StreamInv, BlockInv, [Next]_vars PROVE BlockInv'
    OBVIOUS
  <1>1. Sides /\ Collected /\ Recorded
    BY DEF StreamInv
  <1>2. Watched /\ Encoding /\ Passing /\ ChatLink /\ BlockLink /\ AntigravityLink
    BY DEF BlockInv
  <1>3. CASE UNCHANGED vars
    <2>1. /\ from' = from /\ to' = to /\ up' = up /\ dec' = dec /\ enc' = enc
          /\ pending' = pending /\ seen' = seen /\ status' = status
      BY <1>3 DEF vars
    <2>2. (PassThrough' <=> PassThrough) /\ (InBlocksUpstream' <=> InBlocksUpstream)
          /\ protocolOf(from') = protocolOf(from)
      BY <2>1 DEF PassThrough, InBlocksUpstream
    <2>3. Watched' /\ Encoding' /\ Passing'
      BY <1>2, <2>1, <2>2 DEF Watched, Framing, Encoding, Passing
    <2>4. ChatLink' /\ AntigravityLink'
      BY <1>2, <2>1, <2>2 DEF ChatLink, AntigravityLink
    <2>5. BlockLink'
      BY <1>2, <2>1, <2>2 DEF BlockLink, Spoken
    <2>. QED BY <2>3, <2>4, <2>5 DEF BlockInv
  <1>4. Next => status = "open" /\ from' = from /\ to' = to
    BY SomeEvent DEF Send
  <1>5. CASE Next /\ from = "chat"
    <2>1. DOMAIN up = DOMAIN Silence /\ IsSeq(up.blocks)
      BY <1>2, <1>4, <1>5 DEF ChatLink
    <2>2. PICK in, u : Send(in, u) /\ ChatMove(in, u)
      BY <1>5, <2>1, ChatMoves
    <2>3. Watched' /\ Encoding' /\ ChatLink'
      BY <1>2, <1>5, <2>2, ChatStep
    <2>4. Passing' /\ BlockLink' /\ AntigravityLink'
      BY <1>4, <1>5 DEF Passing, PassThrough, BlockLink, InBlocksUpstream, AntigravityLink
    <2>. QED BY <2>3, <2>4 DEF BlockInv
  <1>6. CASE Next /\ InBlocksUpstream
    <2>1. DOMAIN up = DOMAIN Silence /\ AreBlocks(up.blocks) /\ Spoken
      BY <1>2, <1>6 DEF BlockLink
    <2>2. PICK in, u : Send(in, u) /\ BlockMove(in, u)
      BY <1>6, <2>1, BlockMoves
    <2>3. Watched' /\ Encoding' /\ Passing' /\ BlockLink'
      BY <1>1, <1>2, <1>6, <2>2, BlockStep
    <2>4. ChatLink' /\ AntigravityLink'
      BY <1>4, <1>6 DEF ChatLink, InBlocksUpstream, AntigravityLink
    <2>. QED BY <2>3, <2>4 DEF BlockInv
  <1>7. CASE Next /\ from = "antigravity"
    <2>1. PICK in, u : /\ Send(in, u) /\ Len(in.parts) \in Nat
                       /\ \A i \in 1..Len(in.parts) : in.parts[i].kind \in Kinds
      BY <1>7, AntigravityMoves
    <2>2. Watched' /\ Encoding' /\ AntigravityLink'
      BY <1>1, <1>2, <1>7, <2>1, AntigravityBlocks
    <2>3. Passing' /\ ChatLink' /\ BlockLink'
      BY <1>4, <1>7 DEF Passing, PassThrough, ChatLink, BlockLink, InBlocksUpstream
    <2>. QED BY <2>2, <2>3 DEF BlockInv
  <1>. QED BY <1>1, <1>3, <1>5, <1>6, <1>7 DEF Sides, Upstream, InBlocksUpstream

(* What has been written holds of what the client has seen of it. *)
LEMMA SeenIsGood ==
  ASSUME IsSeq(seen), IsSeq(pending), NEW i \in DOMAIN seen, WellPlaced(seen \o pending, i)
  PROVE  WellPlaced(seen, i)
  <1> DEFINE s == seen \o pending
  <1>1. /\ Len(seen) \in Nat /\ DOMAIN seen = 1..Len(seen)
    BY SeqFacts
  <1>2. \A j \in 1..Len(seen) : s[j] = seen[j]
    BY Joins
  <1>3. i \in 1..Len(seen) /\ 1..(i - 1) \subseteq 1..Len(seen)
    BY <1>1
  <1>4. s[i] = seen[i] /\ \A j \in 1..(i - 1) : s[j] = seen[j]
    BY <1>2, <1>3
  <1>5. {j \in 1..(i - 1) : Opens(s[j])} = {j \in 1..(i - 1) : Opens(seen[j])}
    BY <1>4
  <1>. HIDE DEF s
  <1>. QED BY <1>4, <1>5 DEF WellPlaced, s

(* What has been written for a client, the indexes and calls of the        *)
(* encoder, the calls that the decoder knows and the blocks or calls of    *)
(* the upstream agree, after every event that streamDecoder translates.    *)
THEOREM BlocksInvariant == Spec => []BlockInv
  BY BlocksStart, BlocksGoOn, StreamInvariant, PTL DEF Spec

(* Whatever the upstream speaks and however its blocks, calls and deltas   *)
(* interleave, what streamEncoder writes for a Messages or a Responses     *)
(* client opens every block once, under indexes without a gap, never       *)
(* writes to a block that was not opened or, but for reasoning that        *)
(* resumes, that was closed, and has closed every block when it ends.      *)
THEOREM BlocksWellFormedHolds == Spec => []BlocksWellFormed
  <1>1. BlockInv => BlocksWellFormed
    <2>. SUFFICES ASSUME BlockInv PROVE BlocksWellFormed
      OBVIOUS
    <2>1. PICK n, C : /\ IsSeq(seen) /\ IsSeq(pending) /\ Good(seen \o pending, n, C)
                      /\ status = "done" /\ ~PassThrough => pending = <<>> /\ C = 0..(n - 1)
      BY DEF BlockInv, Watched
    <2>2. \A i \in DOMAIN seen : WellPlaced(seen, i)
      <3>1. SUFFICES ASSUME NEW i \in DOMAIN seen PROVE WellPlaced(seen, i)
        OBVIOUS
      <3>2. i \in DOMAIN (seen \o pending)
        <4>1. /\ Len(seen) \in Nat /\ Len(pending) \in Nat /\ DOMAIN seen = 1..Len(seen)
              /\ IsSeq(seen \o pending) /\ Len(seen \o pending) = Len(seen) + Len(pending)
          BY <2>1, Joins, SeqFacts
        <4>2. DOMAIN (seen \o pending) = 1..(Len(seen) + Len(pending))
          BY <4>1, SeqFacts
        <4>. QED BY <4>1, <4>2
      <3>3. WellPlaced(seen \o pending, i)
        BY <2>1, <3>2 DEF Good
      <3>. QED BY <2>1, <3>3, SeenIsGood
    <2>3. ASSUME status = "done", ~PassThrough, NEW i \in DOMAIN seen, Opens(seen[i])
          PROVE  \E j \in DOMAIN seen : Closes(seen[j]) /\ seen[j].index = seen[i].index
      <3>1. pending = <<>> /\ C = 0..(n - 1) /\ seen \o pending = seen
        BY <2>1, <2>3, Groups
      <3>2. Good(seen, n, 0..(n - 1))
        BY <2>1, <3>1
      <3>3. seen[i].index \in {seen[j].index : j \in OpensIn(seen)}
        BY <2>3 DEF OpensIn
      <3>4. seen[i].index \in ClosedIn(seen)
        BY <3>2, <3>3 DEF Good
      <3>. QED BY <3>4 DEF ClosedIn
    <2>. HIDE DEF Opens, Grows, Closes
    <2>. QED BY <2>2, <2>3 DEF BlocksWellFormed, WellPlaced
  <1>. QED BY <1>1, BlocksInvariant, PTL

(* A stream that the gateway writes, or passes on, begins once and with    *)
(* its first event, whatever the relay holds back; it is ended exactly     *)
(* when the gateway is done with it, and nothing is written after the end. *)
THEOREM BeginsAndEndsOnceHolds == Spec => []BeginsAndEndsOnce
  <1>1. BlockInv => BeginsAndEndsOnce
    <2>. SUFFICES ASSUME BlockInv PROVE BeginsAndEndsOnce
      OBVIOUS
    <2>1. /\ IsSeq(seen) /\ IsSeq(pending)
          /\ status = "done" => pending = <<>>
      BY DEF BlockInv, Watched, Framing
    <2>2. PICK st : Frame(to, seen \o pending, st, status = "done")
      BY DEF BlockInv, Watched, Framing
    <2> DEFINE s == seen \o pending
               m == Len(seen)
    <2>3. /\ m \in Nat /\ Len(pending) \in Nat /\ DOMAIN seen = 1..m
          /\ DOMAIN s = 1..(m + Len(pending))
      BY <2>1, Joins, SeqFacts
    <2>4. \A i \in DOMAIN seen : i \in DOMAIN s /\ s[i] = seen[i]
      <3>1. \A i \in 1..m : s[i] = seen[i]
        BY <2>1, Joins
      <3>. HIDE DEF s, m
      <3>. QED BY <2>3, <3>1
    <2>5. status = "done" => s = seen
      BY <2>1, Groups
    <2>. HIDE DEF s, m
    <2>6. /\ to # "chat" /\ s # <<>> => Begins(s[1])
          /\ \A i \in DOMAIN s : Begins(s[i]) => i = 1
          /\ \A i \in DOMAIN s : Ends(s[i]) => i = Len(s) /\ status = "done"
          /\ status = "done" => s # <<>> /\ Ends(s[Len(s)])
      <3>. HIDE DEF Begins, Ends
      <3>. QED BY <2>2 DEF Frame, s
    <2>7. seen # <<>> => 1 \in DOMAIN seen /\ s # <<>>
      <3>1. DOMAIN <<>> = {}
        BY Singles
      <3>2. seen # <<>> => m # 0
        BY <2>1, SeqFacts DEF m
      <3>3. m # 0 => 1 \in 1..m
        BY <2>3
      <3>. QED BY <2>3, <2>4, <3>1, <3>2, <3>3
    <2>. HIDE DEF Begins, Ends
    <2>. QED BY <2>4, <2>5, <2>6, <2>7 DEF BeginsAndEndsOnce
  <1>. QED BY <1>1, BlocksInvariant, PTL
=============================================================================
