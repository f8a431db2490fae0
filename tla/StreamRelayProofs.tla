-------------------------- MODULE StreamRelayProofs --------------------------
(***************************************************************************)
(* Proofs about StreamRelay, for answers of every length.                  *)
(***************************************************************************)
EXTENDS StreamRelay, SequenceTheorems, TLAPS

(* Counts of the units on their way from the upstream to the client: what  *)
(* has been read and not shown is in the reader's hand, as long as the     *)
(* handler takes from it; an end is read only after everything before it.  *)
Running == pc \in {"relay", "wrote"}

Counts ==
  /\ units <= sent
  /\ item.err = "eof" => ending = "eof" /\ units = sent
  /\ item.err = "none" /\ reader = "offer" => item.unit = units /\ units > 0
  /\ Running \/ pc = "call" => readCtx = "live" /\ status = "none"
  /\ pc = "call" => reader = "none" /\ shown = <<>> /\ units = 0 /\ item.err = "none"
  /\ relay \notin Stream => reader = "none" /\ item.err = "none"
  /\ relay \in Stream /\ Running => reader # "none"
  /\ Running /\ relay \notin Stream => shown = <<>>
  /\ Running /\ relay \in Stream =>
       Len(shown) + (IF reader = "offer" /\ item.err = "none" THEN 1 ELSE 0) <= units
  /\ Running /\ reader \in {"read", "offer"} =>
       Len(shown) + (IF reader = "offer" /\ item.err = "none" THEN 1 ELSE 0) = units
  /\ Running /\ reader = "ended" => ctx = "cancelled"

IInv == TypeOK /\ Counts /\ RelayIsFaithful

LEMMA InitIInv == Init => IInv
<1> SUFFICES ASSUME Init PROVE IInv
  OBVIOUS
<1>1. TypeOK
  BY RelayAssumption DEF Init, TypeOK, RelayAssumption, Relay, Stream, Result
<1>2. Counts /\ RelayIsFaithful
  BY DEF Init, Counts, Running, RelayIsFaithful, Relay, Stream, Result
<1> QED
  BY <1>1, <1>2 DEF IInv

(* The sequence of the units shown, with the next one appended.            *)
LEMMA NextShown ==
  ASSUME shown \in Seq(1..Total), shown = [n \in 1..Len(shown) |-> n],
         NEW u \in 1..Total, u = Len(shown) + 1
  PROVE  /\ Append(shown, u) \in Seq(1..Total)
         /\ Len(Append(shown, u)) = Len(shown) + 1
         /\ Append(shown, u) = [n \in 1..(Len(shown) + 1) |-> n]
         /\ Append(shown, u) # <<>>
OBVIOUS

(* A whole answer, written at once.                                        *)
LEMMA WholeShown ==
  ASSUME NEW k \in 0..Total, NEW s, s = [n \in 1..k |-> n]
  PROVE  s \in Seq(1..Total) /\ Len(s) = k
<1>1. k \in Nat /\ 1..k \subseteq 1..Total
  BY RelayAssumption DEF RelayAssumption
<1>2. s \in [1..k -> 1..Total]
  BY <1>1
<1>3. s \in Seq(1..Total)
  BY <1>1, <1>2, SeqDef
<1>4. DOMAIN s = 1..Len(s) /\ Len(s) \in Nat
  BY <1>3, LenProperties
<1> QED
  BY <1>1, <1>2, <1>3, <1>4

(* Steps that change neither the reader nor what is shown: the client, the *)
(* transport, the upstream, the goroutine of doUpstream, the watcher.      *)
LEMMA OutsideIInv ==
  ASSUME IInv, Disconnect \/ CancelContext \/ Abort \/ Send \/ End \/ Do \/ Offer \/ Fire \/ Return
  PROVE  IInv'
<1>1. /\ UNCHANGED <<relay, reader, item, units, readCtx, shown, status>>
      /\ pc' = pc \/ (pc = "loop" /\ pc' = "returned")
      /\ ctx' = ctx \/ ctx' = "cancelled"
      /\ sent' = sent \/ (ending = "open" /\ sent < Total /\ sent' = sent + 1)
      /\ ending' = ending \/ (ending = "open" /\ sent' = sent)
  BY DEF Disconnect, CancelContext, Abort, Send, End, Do, Offer, Fire, Return, request, calls,
     upstream, reading
<1>2. TypeOK'
  <2>1. CASE Send
    BY <2>1, RelayAssumption DEF IInv, TypeOK, Send, request, calls, reading, RelayAssumption
  <2>2. CASE Disconnect \/ CancelContext \/ Abort
    BY <2>2 DEF IInv, TypeOK, Disconnect, CancelContext, Abort, request, calls, upstream, reading
  <2>3. CASE End \/ Return
    BY <2>3 DEF IInv, TypeOK, End, Return, request, calls, upstream, reading
  <2>4. CASE Do \/ Offer \/ Fire
    BY <2>4 DEF IInv, TypeOK, Do, Offer, Fire, request, calls, upstream, reading
  <2> QED
    BY <2>1, <2>2, <2>3, <2>4
<1>3. Counts'
  BY <1>1 DEF IInv, TypeOK, Counts, Running
<1>4. RelayIsFaithful'
  <2>1. Len(shown) \in Nat /\ sent \in Nat /\ sent' \in Nat /\ sent <= sent'
    BY <1>1 DEF IInv, TypeOK
  <2>2. shown' = [n \in 1..Len(shown') |-> n] /\ Len(shown') <= sent'
    <3>1. Len(shown) <= sent /\ shown = [n \in 1..Len(shown) |-> n]
      BY DEF IInv, RelayIsFaithful
    <3>2. shown' = shown
      BY <1>1
    <3> QED
      BY <2>1, <3>1, <3>2
  <2>3. ASSUME status' = "completed", relay \notin Decoded
        PROVE  ending' = "eof" /\ Len(shown') = sent'
    BY <1>1, <2>3 DEF IInv, RelayIsFaithful
  <2>4. ASSUME status' = "completed", relay \in Decoded
        PROVE  Len(shown') = Total
    BY <1>1, <2>4 DEF IInv, RelayIsFaithful
  <2> QED
    BY <1>1, <2>2, <2>3, <2>4 DEF RelayIsFaithful
<1> QED
  BY <1>2, <1>3, <1>4 DEF IInv

(* The handler's leaving for a reason that completes nothing.              *)
LEMMA LeaveIInv ==
  ASSUME IInv, TakeError \/ SeeCancelled \/ BeatFails \/ ReceiveClosed
  PROVE  IInv'
<1>1. /\ UNCHANGED <<relay, ticker, idle, ctx, client, caller, answer, body, sent, ending, reader, item,
                     units, watch, shown>>
      /\ pc' = "log" /\ readCtx' \in {readCtx, "cancelled"} /\ status' \in {"failed", "cancelled"}
  BY DEF TakeError, SeeCancelled, BeatFails, ReceiveClosed, Leave, FailedOrCancelled, request, calls,
     upstream
<1>2. TypeOK'
  BY <1>1 DEF IInv, TypeOK
<1>3. Counts'
  BY <1>1 DEF IInv, TypeOK, Counts, Running
<1>4. RelayIsFaithful'
  BY <1>1 DEF IInv, RelayIsFaithful
<1> QED
  BY <1>2, <1>3, <1>4 DEF IInv

LEMMA TakeResponseIInv ==
  ASSUME IInv, TakeResponse
  PROVE  IInv'
<1>1. /\ UNCHANGED <<relay, ticker, idle, ctx, client, status, caller, body, sent, ending, item, units,
                     readCtx, shown>>
      /\ pc = "call" /\ pc' = "relay" /\ answer' = "taken"
      /\ watch' \in {"armed", "none"}
      /\ reader' = IF relay \in Stream THEN "read" ELSE "none"
  BY DEF TakeResponse, request, upstream
<1>2. TypeOK'
  BY <1>1 DEF IInv, TypeOK
<1>3. /\ shown = <<>> /\ Len(shown) = 0 /\ units = 0 /\ item.err = "none"
  BY <1>1 DEF IInv, Counts
<1>4. readCtx = "live" /\ status = "none"
  BY <1>1 DEF IInv, Counts
<1>5. Counts'
  BY <1>1, <1>3, <1>4 DEF IInv, TypeOK, Counts, Running
<1>6. RelayIsFaithful'
  BY <1>1 DEF IInv, RelayIsFaithful
<1> QED
  BY <1>2, <1>5, <1>6 DEF IInv

LEMMA ReadIInv ==
  ASSUME IInv, Read
  PROVE  IInv'
<1>1. PICK read \in Reads : /\ item' = read
                            /\ units' = units + (IF read.err = "none" THEN 1 ELSE 0)
  BY DEF Read
<1>2. /\ UNCHANGED <<relay, ticker, idle, ctx, client, pc, status, caller, answer, body, sent, ending,
                     readCtx, watch, shown>>
      /\ reader = "read" /\ reader' = "offer"
  BY DEF Read, request, calls, upstream
<1>3. \/ read.err = "broken" /\ read.unit = 0
      \/ read.err = "none" /\ read.unit = units + 1 /\ units < sent
      \/ read.err \in {"eof", "cut"} /\ read.err = ending /\ read.unit = 0 /\ ~(units < sent)
  BY DEF Reads, Result, IInv, TypeOK
<1>4. item' \in [unit : 0..Total, err : {"none", "eof", "cut", "broken"}] /\ units' \in 0..Total
  BY <1>1, <1>3, RelayAssumption DEF Reads, Result, IInv, TypeOK, RelayAssumption
<1>5. TypeOK'
  BY <1>2, <1>4 DEF IInv, TypeOK
<1>6. Counts'
  BY <1>1, <1>2, <1>3 DEF IInv, TypeOK, Counts, Running
<1>7. RelayIsFaithful'
  BY <1>2 DEF IInv, RelayIsFaithful
<1> QED
  BY <1>5, <1>6, <1>7 DEF IInv

LEMMA GiveUpIInv ==
  ASSUME IInv, GiveUp
  PROVE  IInv'
<1>1. /\ UNCHANGED <<relay, ticker, idle, ctx, client, pc, status, caller, answer, body, sent, ending,
                     units, readCtx, watch, shown>>
      /\ reader = "offer" /\ reader' = "ended" /\ item' = Result(0, "none")
      /\ readCtx = "cancelled" \/ ctx = "cancelled"
  BY DEF GiveUp, MayGiveUp, request, calls, upstream
<1>2. TypeOK'
  BY <1>1, RelayAssumption DEF IInv, TypeOK, Result, RelayAssumption
<1>3. Counts'
  BY <1>1 DEF IInv, TypeOK, Counts, Running, Result
<1>4. RelayIsFaithful'
  BY <1>1 DEF IInv, RelayIsFaithful
<1> QED
  BY <1>2, <1>3, <1>4 DEF IInv

(* A result is handed over: a unit that is written, or the end.            *)
LEMMA ReceiveIInv ==
  ASSUME IInv, Receive
  PROVE  IInv'
<1>1. /\ UNCHANGED <<relay, ticker, idle, ctx, client, caller, answer, body, sent, ending, units, watch>>
      /\ pc = "relay" /\ reader = "offer"
      /\ reader' = AfterHandOver(item) /\ item' = Result(0, "none")
  BY DEF Receive, request, calls, upstream
<1>2. /\ relay \in Stream /\ readCtx = "live" /\ status = "none"
      /\ shown \in Seq(1..Total) /\ Len(shown) \in Nat /\ units \in Nat /\ sent \in Nat
      /\ units <= sent /\ units <= Total
      /\ item.err = "none" => item.unit = units /\ Len(shown) + 1 = units
      /\ item.err # "none" => Len(shown) = units
      /\ item.err = "eof" => ending = "eof" /\ units = sent
  BY <1>1 DEF IInv, TypeOK, Counts, Running
<1>3. /\ reader' \in {"read", "ended"}
      /\ item.err # "none" <=> reader' = "ended"
      /\ item'.err = "none" /\ item' \in [unit : 0..Total, err : {"none", "eof", "cut", "broken"}]
  BY <1>1, RelayAssumption DEF AfterHandOver, Result, RelayAssumption
<1>4. shown = [n \in 1..Len(shown) |-> n]
  BY DEF IInv, RelayIsFaithful
<1>5. CASE item.err # "none"
  <2>1. /\ pc' = "log" /\ readCtx' \in {readCtx, "cancelled"} /\ status' = Verdict(item.err) /\ shown' = shown
    BY <1>5 DEF Receive, Leave
  <2>2. status' \in {"completed", "failed", "cancelled"} /\ (status' = "completed" => item.err = "eof" /\ relay \notin Decoded)
    BY <2>1 DEF Verdict, FailedOrCancelled, Decoded
  <2>3. TypeOK'
    BY <1>1, <1>3, <2>1, <2>2 DEF IInv, TypeOK
  <2>4. Counts'
    BY <1>1, <1>2, <1>3, <2>1 DEF IInv, Counts, Running
  <2>5. RelayIsFaithful'
    <3>1. shown' = [n \in 1..Len(shown') |-> n]
      BY <1>4, <2>1
    <3>2. Len(shown') <= sent'
      BY <1>1, <1>2, <1>5, <2>1
    <3>3. status' = "completed" => relay' \notin Decoded /\ ending' = "eof" /\ Len(shown') = sent'
      BY <1>1, <1>2, <2>1, <2>2
    <3> QED
      BY <3>1, <3>2, <3>3 DEF RelayIsFaithful
  <2> QED
    BY <2>3, <2>4, <2>5 DEF IInv
<1>6. CASE item.err = "none" /\ shown' = shown
  <2>1. /\ pc' = "log" /\ readCtx' \in {readCtx, "cancelled"} /\ status' = "cancelled"
    <3>1. Append(shown, item.unit) # shown
      BY <1>2
    <3> QED
      BY <1>6, <3>1 DEF Receive, Leave
  <2>2. TypeOK'
    BY <1>1, <1>3, <1>6, <2>1 DEF IInv, TypeOK
  <2>3. Counts'
    BY <1>1, <1>2, <1>3, <1>6, <2>1 DEF IInv, Counts, Running
  <2>4. RelayIsFaithful'
    BY <1>1, <1>2, <1>4, <1>6, <2>1 DEF IInv, RelayIsFaithful
  <2> QED
    BY <2>2, <2>3, <2>4 DEF IInv
<1>7. CASE item.err = "none" /\ shown' # shown
  <2>1. shown' = Append(shown, item.unit)
    BY <1>7 DEF Receive
  <2>2. item.unit \in 1..Total /\ item.unit = Len(shown) + 1
    BY <1>2, <1>7, RelayAssumption DEF RelayAssumption
  <2>3. /\ shown' \in Seq(1..Total)
        /\ Len(shown') = Len(shown) + 1
        /\ shown' = [n \in 1..(Len(shown) + 1) |-> n]
    BY <1>2, <1>4, <2>1, <2>2, NextShown
  <2>4. \/ /\ relay \in Decoded /\ item.unit = Total
           /\ pc' = "log" /\ readCtx' \in {readCtx, "cancelled"}
           /\ status' \in {"completed", "failed", "cancelled"}
        \/ pc' = "wrote" /\ status' = status /\ readCtx' = readCtx
    BY <1>7 DEF Receive, Leave, WholeVerdicts, FailedOrCancelled
  <2>5. TypeOK'
    BY <1>1, <1>3, <2>3, <2>4 DEF IInv, TypeOK
  <2>6. reader' = "read"
    BY <1>1, <1>7 DEF AfterHandOver
  <2>7. Counts'
    <3>1. CASE pc' = "log"
      BY <3>1, <1>1, <1>2, <1>3, <2>6 DEF IInv, Counts, Running
    <3>2. CASE pc' = "wrote" /\ status' = status /\ readCtx' = readCtx
      BY <3>2, <1>1, <1>2, <1>3, <1>7, <2>3, <2>6 DEF IInv, Counts, Running
    <3> QED
      BY <3>1, <3>2, <2>4
  <2>8. RelayIsFaithful'
    <3>1. shown' = [n \in 1..Len(shown') |-> n] /\ Len(shown') <= sent'
      BY <1>1, <1>2, <1>7, <2>3
    <3>2. status' = "completed" => relay' \in Decoded /\ Len(shown') = Total
      BY <1>1, <1>2, <2>2, <2>3, <2>4
    <3> QED
      BY <3>1, <3>2 DEF RelayIsFaithful
  <2> QED
    BY <2>5, <2>7, <2>8 DEF IInv
<1> QED
  BY <1>5, <1>6, <1>7

LEMMA WroteIInv ==
  ASSUME IInv, Wrote
  PROVE  IInv'
<1>1. /\ UNCHANGED <<relay, ticker, idle, ctx, client, caller, answer, body, sent, ending, reader, item,
                     units, watch, shown>>
      /\ pc = "wrote"
      /\ \/ pc' = "log" /\ readCtx' \in {readCtx, "cancelled"} /\ status' = "cancelled"
         \/ pc' = "relay" /\ readCtx' = readCtx /\ status' = status
  BY DEF Wrote, Leave, request, calls, upstream
<1>2. TypeOK'
  BY <1>1 DEF IInv, TypeOK
<1>3. Counts'
  BY <1>1 DEF IInv, Counts, Running
<1>4. RelayIsFaithful'
  BY <1>1 DEF IInv, Counts, Running, RelayIsFaithful
<1> QED
  BY <1>2, <1>3, <1>4 DEF IInv

LEMMA ReadAllIInv ==
  ASSUME IInv, ReadAll
  PROVE  IInv'
<1>1. /\ UNCHANGED <<relay, ticker, idle, ctx, client, caller, answer, body, sent, ending, reader, item,
                     watch>>
      /\ pc = "relay" /\ relay \notin Stream
  BY DEF ReadAll, request, calls, upstream
<1>2. reader = "none" /\ item.err = "none" /\ shown = <<>> /\ readCtx = "live" /\ status = "none"
  BY <1>1 DEF IInv, Counts, Running
<1>3. relay \notin Decoded
  BY <1>1 DEF Stream, Decoded
<1>4. PICK read \in Reads :
        IF read.err = "none"
        THEN /\ units' = units + 1
             /\ UNCHANGED <<pc, status, readCtx, shown>>
        ELSE /\ IF read.err # "eof" \/ relay = "refused" THEN Leave("failed") /\ UNCHANGED shown
                ELSE \/ Leave("completed") /\ shown' = [n \in 1..units |-> n]
                     \/ client = "gone" /\ Leave("cancelled") /\ UNCHANGED shown
             /\ UNCHANGED units
  BY DEF ReadAll
<1>5. /\ units \in 0..Total /\ sent \in 0..Total /\ units <= sent
      /\ read.err = "none" => units < sent
      /\ read.err = "eof" => ending = "eof" /\ units = sent
  BY DEF Reads, Result, IInv, TypeOK, Counts
<1>6. CASE read.err = "none"
  <2>1. units' = units + 1 /\ UNCHANGED <<pc, status, readCtx, shown>>
    BY <1>4, <1>6
  <2>2. TypeOK'
    BY <1>1, <1>5, <1>6, <2>1, RelayAssumption DEF IInv, TypeOK, RelayAssumption
  <2>3. Counts'
    BY <1>1, <1>2, <1>5, <1>6, <2>1 DEF IInv, Counts, Running
  <2>4. RelayIsFaithful'
    BY <1>1, <2>1 DEF IInv, RelayIsFaithful
  <2> QED
    BY <2>2, <2>3, <2>4 DEF IInv
<1>7. CASE read.err # "none" /\ shown' = shown /\ status' # "completed"
  <2>1. pc' = "log" /\ readCtx' \in {readCtx, "cancelled"} /\ status' \in {"failed", "cancelled"} /\ units' = units
    BY <1>4, <1>7 DEF Leave
  <2>2. TypeOK'
    BY <1>1, <1>7, <2>1 DEF IInv, TypeOK
  <2>3. Counts'
    BY <1>1, <1>2, <1>7, <2>1 DEF IInv, Counts, Running
  <2>4. RelayIsFaithful'
    BY <1>1, <1>7, <2>1 DEF IInv, RelayIsFaithful
  <2> QED
    BY <2>2, <2>3, <2>4 DEF IInv
<1>8. CASE read.err # "none" /\ ~(shown' = shown /\ status' # "completed")
  <2>1. /\ pc' = "log" /\ readCtx' \in {readCtx, "cancelled"} /\ status' = "completed" /\ units' = units
        /\ shown' = [n \in 1..units |-> n] /\ read.err = "eof"
    BY <1>4, <1>8 DEF Leave
  <2>2. shown' \in Seq(1..Total) /\ Len(shown') = units
    BY <1>5, <2>1, WholeShown
  <2>3. TypeOK'
    BY <1>1, <2>1, <2>2 DEF IInv, TypeOK
  <2>4. Counts'
    BY <1>1, <1>2, <2>1 DEF IInv, Counts, Running
  <2>5. RelayIsFaithful'
    BY <1>1, <1>3, <1>5, <2>1, <2>2 DEF RelayIsFaithful
  <2> QED
    BY <2>3, <2>4, <2>5 DEF IInv
<1> QED
  BY <1>6, <1>7, <1>8

LEMMA CloseIInv ==
  ASSUME IInv, Close
  PROVE  IInv'
<1>1. /\ UNCHANGED <<relay, ticker, idle, ctx, client, status, caller, answer, sent, ending, reader, item,
                     units, shown>>
      /\ pc = "log" /\ pc' \in {"loop", "returned"} /\ readCtx' = "cancelled"
      /\ body' \in {body, "closed"} /\ watch' \in {watch, "ended"}
  BY DEF Close, request, calls, upstream
<1>2. TypeOK'
  BY <1>1 DEF IInv, TypeOK
<1>3. Counts'
  BY <1>1 DEF IInv, Counts, Running
<1>4. RelayIsFaithful'
  BY <1>1 DEF IInv, RelayIsFaithful
<1> QED
  BY <1>2, <1>3, <1>4 DEF IInv

LEMMA NextIInv == IInv /\ [Next]_vars => IInv'
<1>1. ASSUME IInv, Next PROVE IInv'
  BY <1>1, OutsideIInv, LeaveIInv, TakeResponseIInv, ReadIInv, GiveUpIInv, ReceiveIInv, WroteIInv,
     ReadAllIInv, CloseIInv DEF Next, Handler
<1>2. ASSUME IInv, UNCHANGED vars PROVE IInv'
  <2>1. /\ UNCHANGED <<relay, ticker, idle, ctx, client, pc, status, caller, answer, body, sent>>
        /\ UNCHANGED <<ending, reader, item, units, readCtx, watch, shown>>
    BY <1>2 DEF vars, request, calls, upstream, reading
  <2>2. TypeOK'
    BY <1>2, <2>1 DEF IInv, TypeOK
  <2>3. Counts'
    BY <1>2, <2>1 DEF IInv, Counts, Running
  <2>4. RelayIsFaithful'
    BY <1>2, <2>1 DEF IInv, RelayIsFaithful
  <2> QED
    BY <2>2, <2>3, <2>4 DEF IInv
<1> QED
  BY <1>1, <1>2

LEMMA SpecIInv == Spec => []IInv
BY InitIInv, NextIInv, PTL DEF Spec

-----------------------------------------------------------------------------
(* The theorems.                                                           *)

(* The state of the goroutines stays within its types.                     *)
THEOREM TypeCorrect == Spec => []TypeOK
BY SpecIInv, PTL DEF IInv

(* For answers of every length: what the client is shown is a beginning of *)
(* what the upstream sent, and all of it when the attempt is recorded as   *)
(* completed (proxyPassthroughEvents, proxyConvertedEvents, proxyBuffered).*)
THEOREM RelaysAreFaithful == Spec => []RelayIsFaithful
BY SpecIInv, PTL DEF IInv

(* The dereference of ctx.Err() on a closed channel is safe.               *)
THEOREM ClosedChannelIsSafe == Spec => []ClosedMeansCancelled
<1>1. IInv => ClosedMeansCancelled
  BY DEF IInv, Counts, Running, ClosedMeansCancelled
<1> QED
  BY <1>1, SpecIInv, PTL
=============================================================================
