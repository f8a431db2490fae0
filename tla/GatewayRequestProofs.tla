------------------------ MODULE GatewayRequestProofs ------------------------
(***************************************************************************)
(* For any number of requests, candidates, keys and routes: what the log   *)
(* says of a request, what its client gets, whom it calls, and that the    *)
(* request loop keeps to the calls that CandidateBreaker allows, so that   *)
(* the theorems about the breaker hold for the gateway.                    *)
(*                                                                         *)
(* Why these need a stronger invariant: whom a request may still call is   *)
(* decided by its place in its routes, and the log does not show the       *)
(* place.  AheadInv says what the rows mean for the routes that are left,  *)
(* which needs the routes of one candidate to lie together (RoutesInv);    *)
(* HeldInv says which admission the place stands for; BehindInv that what  *)
(* a handler has read of the store is never ahead of it.                   *)
(***************************************************************************)
EXTENDS GatewayRequest, WellFoundedInduction, TLAPS

(* The places of a turn, from the admission to the report. *)
Calling(h) == h.pc \in {"call", "error", "relay"}
Turning(h) == h.pc \in {"credential", "attempt", "call", "error", "relay"}

At(h) == h.routes[h.i]
Same(a, b) == a.cand = b.cand /\ a.key = b.key
FirstOf(h) == h.i > 1 => h.routes[h.i - 1].cand # h.routes[h.i].cand

(* The routes of a candidate lie together and were read at one revision,   *)
(* and no pair of candidate and key comes twice.                           *)
RoutesInv(R) ==
  \A a, b \in DOMAIN R :
    /\ a <= b /\ R[a].cand = R[b].cand =>
         R[a].rev = R[b].rev /\ \A n \in a..b : R[n].cand = R[a].cand
    /\ Same(R[a], R[b]) => a = b

(* The place, and what the client has seen when the request is there. *)
PlaceInv(h) ==
  /\ h.pc \notin {"resolve", "next"} => h.i <= Len(h.routes)
  /\ h.pc = "resolve" => h.routes = <<>> /\ h.i = 1
  /\ h.pc = "attempt" => h.krev # 0
  /\ h.sent = "content" => h.pc = "relay" /\ h.stream
  /\ h.pc = "relay" =>
       /\ h.mode \in IF KindOf[At(h).cand] = "key" THEN {"buffered", "passthrough", "converted"}
                     ELSE {KindOf[At(h).cand]}
       /\ h.mode = "passthrough" => h.sent = "content"
       /\ h.mode = "buffered" => ~h.stream

(* The rows of a running request: only the call in flight is in progress. *)
RowsInv(h, l) ==
  LET N == Len(l.attempts)
  IN  /\ l.status = "in_progress"
      /\ l.from # 0 => h.sent = "content"
      /\ h.pc = "resolve" => N = 0
      /\ N # 0 => l.attempts[N].status = IF Calling(h) THEN "in_progress" ELSE "failed"
      /\ Calling(h) => /\ N # 0
                       /\ Same(l.attempts[N], At(h))
                       /\ l.attempts[N].krev = h.krev /\ l.attempts[N].report = "none"

(* The rows of a request that is not running. *)
ClosedInv(l) ==
  LET N == Len(l.attempts)
  IN  /\ l.status # "in_progress"
      /\ N # 0 => l.attempts[N].status # "in_progress"
      /\ l.status = "completed" => N # 0 /\ l.attempts[N].status = "completed"

(* Row n and the next are a call and its resend. *)
Pair(rows, n) == {n, n + 1} \subseteq DOMAIN rows /\ Same(rows[n], rows[n + 1])

(* What the rows of a request are in the order they were written. *)
HistoryInv(rows) ==
  /\ \A n \in 1..(Len(rows) - 1) : rows[n].status = "failed"
  /\ \A m, n \in DOMAIN rows :
       /\ m < n /\ rows[m].report = "failed" => rows[m].cand # rows[n].cand
       /\ m < n /\ Same(rows[m], rows[n]) =>
            KindOf[rows[m].cand] # "key" /\ n = m + 1 /\ rows[m].krev < rows[n].krev
       /\ m # n /\ Pair(rows, m) /\ Pair(rows, n) => rows[m].key # rows[n].key

(* The call of row a has been rejected, for the first time with its key.   *)
Rejected(h, a) == KindOf[a.cand] # "key" /\ h.rejected[a.key] = a.krev

PairsInv(h, rows) == \A n \in DOMAIN rows : Pair(rows, n) => h.rejected[rows[n].key] # 0

(* No route that is left belongs to a candidate that was reported failed,  *)
(* and a route that is left has been called only if it is the one at hand: *)
(* by the call in flight, or by a call that is being resent.               *)
AheadInv(h, rows) ==
  LET N == Len(rows)
  IN  \A n \in DOMAIN rows, p \in h.i..Len(h.routes) :
        /\ rows[n].report = "failed" => rows[n].cand # h.routes[p].cand
        /\ Same(rows[n], h.routes[p]) =>
             /\ p = h.i
             /\ IF Calling(h)
                THEN n = N \/ (n = N - 1 /\ Rejected(h, rows[n]) /\ rows[n].krev < rows[N].krev)
                ELSE /\ n = N /\ Rejected(h, rows[n])
                     /\ h.pc = "attempt" => rows[n].krev < h.krev
                     /\ \A m \in DOMAIN rows : Pair(rows, m) => rows[m].key # rows[n].key

RunningInv(h, l) ==
  /\ RoutesInv(h.routes) /\ PlaceInv(h) /\ RowsInv(h, l)
  /\ PairsInv(h, l.attempts) /\ AheadInv(h, l.attempts)

RequestInv(h, l) ==
  /\ h \in Handler \cup {Idle} /\ l \in RequestRow
  /\ l.from # 0 => l.from = Len(l.attempts)
  /\ HistoryInv(l.attempts)
  /\ IF h = Idle THEN ClosedInv(l) ELSE RunningInv(h, l)

RequestsInv ==
  /\ req \in [Request -> Handler \cup {Idle}] /\ log \in [Request -> RequestRow]
  /\ \A q \in Request : RequestInv(req[q], log[q])

(* The store, and the late results in it. *)
StoreInv ==
  /\ started \in 0..MaxRequests
  /\ revision \in [Candidate -> 1..MaxRevision]
  /\ config \in [Candidate -> [status : {"available", "config_error"}, blame : 0..MaxRevision]]
  /\ keys \in [UpstreamKey -> KeyRow]
  /\ \A k \in UpstreamKey : keys[k].since <= keys[k].rev
  /\ LateResultsIgnored

(* What a handler has read is not ahead of the store. *)
Behind(h, revisions, rows) ==
  /\ \A n \in DOMAIN h.routes :
       /\ h.routes[n].rev <= revisions[h.routes[n].cand]
       /\ h.routes[n].krev <= rows[h.routes[n].key].rev
  /\ \A k \in UpstreamKey : h.rejected[k] <= rows[k].rev
  /\ Turning(h) => h.krev <= rows[At(h).key].rev

BehindInv == \A q \in Request : Running(q) => Behind(req[q], revision, keys)

(* An admission for a route. *)
For(c, r) == c # B!NoCall /\ c.cand = r.cand /\ c.rev = r.rev

(* The admission that a place stands for.  (A request that is about to     *)
(* resend has one, and asks again if the route is its candidate's first.)  *)
Admission(h, c) ==
  IF h = Idle \/ h.pc = "resolve" \/ h.i > Len(h.routes) THEN c = B!NoCall
  ELSE For(c, At(h)) \/ (c = B!NoCall /\ FirstOf(h) /\ ~Turning(h))

HeldInv ==
  /\ held = [q \in Request |-> held[q]]
  /\ \A q \in Request : Admission(req[q], held[q])

IInv == RequestsInv /\ StoreInv /\ BehindInv /\ HeldInv

-----------------------------------------------------------------------------
(* The values. *)

LEMMA CandidateType ==
  /\ \A n \in DOMAIN Order : Order[n] \in Candidate
  /\ DOMAIN Order \subseteq Nat
  /\ \A m, n \in DOMAIN Order : Order[m] = Order[n] => m = n
  BY GatewayAssumption DEF Candidate, Range, IsInjective

(* route(q) and its parts. *)
LEMMA RouteType ==
  ASSUME NEW h \in Handler, NEW n \in DOMAIN h.routes
  PROVE  /\ n \in Nat \ {0} /\ n <= Len(h.routes)
         /\ h.routes[n] \in Route
         /\ h.routes[n].cand \in Candidate /\ h.routes[n].key \in UpstreamKey
         /\ h.routes[n].rev \in 1..MaxRevision /\ h.routes[n].krev \in 1..MaxKeyRevision
         /\ KindOf[h.routes[n].cand] \in Kind
  <1>1. h.routes \in Seq(Route)
    BY DEF Handler
  <1>2. h.routes[n] \in Route /\ n \in 1..Len(h.routes)
    BY <1>1
  <1>. QED BY <1>1, <1>2, GatewayAssumption DEF Route

(* The last route of a candidate exists: skipCandidate stops there.  (The  *)
(* least distance to the end of the routes belongs to the last one.)       *)
LEMMA SkipType ==
  ASSUME NEW R \in Seq(Route), NEW i \in 1..Len(R)
  PROVE  LET j == skipCandidate(R, i)
         IN  /\ j \in i..Len(R)
             /\ \A n \in i..j : R[n].cand = R[i].cand
             /\ j < Len(R) => R[j + 1].cand # R[i].cand
  <1> DEFINE Together(j) == \A n \in i..j : R[n].cand = R[i].cand
             D == {d \in Nat : \E j \in i..Len(R) : d = Len(R) - j /\ Together(j)}
             L == OpToRel(<, Nat)
  <1>1. Len(R) \in Nat /\ i \in Nat
    OBVIOUS
  <1>2. Len(R) - i \in D
    BY <1>1
  <1>3. IsWellFoundedOn(L, Nat)
    BY NatLessThanWellFounded
  <1>4. PICK d \in D : \A e \in D : ~(<<e, d>> \in L)
    <2>. HIDE DEF D, L
    <2>1. D \subseteq Nat /\ D # {}
      BY <1>2 DEF D
    <2>. QED BY <1>3, <2>1, WFMin
  <1>5. \A e \in D : ~(e < d)
    BY <1>4 DEF OpToRel
  <1>6. PICK j \in i..Len(R) : d = Len(R) - j /\ Together(j)
    OBVIOUS
  <1>7. j < Len(R) => R[j + 1].cand # R[i].cand
    <2> SUFFICES ASSUME j < Len(R), R[j + 1].cand = R[i].cand
                 PROVE  FALSE
      OBVIOUS
    <2>1. j + 1 \in i..Len(R) /\ Len(R) - (j + 1) \in Nat
      BY <1>1
    <2>2. Together(j + 1)
      BY <1>1, <1>6
    <2>3. Len(R) - (j + 1) \in D
      BY <2>1, <2>2
    <2>4. Len(R) - (j + 1) < d
      BY <1>1, <1>6, <2>1
    <2>. HIDE DEF D, L, Together
    <2>. QED BY <1>5, <2>3, <2>4
  <1>. QED BY <1>6, <1>7 DEF skipCandidate

LEMMA SkipLeaves ==
  ASSUME NEW R \in Seq(Route), NEW i \in 1..Len(R), RoutesInv(R),
         NEW p \in (skipCandidate(R, i) + 1)..Len(R)
  PROVE  R[p].cand # R[i].cand
  <1> DEFINE j == skipCandidate(R, i)
  <1>1. j \in i..Len(R) /\ (j < Len(R) => R[j + 1].cand # R[i].cand)
    BY SkipType
  <1>2. j < Len(R) /\ j + 1 \in i..p /\ i \in DOMAIN R /\ p \in DOMAIN R /\ i <= p
    BY <1>1
  <1>. HIDE DEF j
  <1>3. R[i].cand = R[p].cand => R[j + 1].cand = R[i].cand
    BY <1>2 DEF RoutesInv
  <1>. QED BY <1>1, <1>2, <1>3

(* The routes that ResolveRoutesExplained may give. *)
LEMMA RouteListsType ==
  ASSUME StoreInv, NEW R \in RouteLists
  PROVE  /\ R \in Seq(Route) /\ RoutesInv(R)
         /\ \A n \in DOMAIN R : R[n].rev = revision[R[n].cand] /\ R[n].krev = keys[R[n].key].rev
  <1> DEFINE usable == {p \in (DOMAIN Order) \X UpstreamKey :
                          /\ config[Order[p[1]]].status = "available"
                          /\ p[2] \in KeysOf[Order[p[1]]] /\ KeyAvailable(p[2])}
             at(p) == [cand |-> Order[p[1]], rev |-> revision[Order[p[1]]],
                       key |-> p[2], krev |-> keys[p[2]].rev]
             picks == UNION {Injection(1..n, usable) : n \in 0..Cardinality(usable)}
  <1>1. PICK s \in picks : /\ \A m, n \in DOMAIN s : m <= n => s[m][1] <= s[n][1]
                           /\ R = [n \in DOMAIN s |-> at(s[n])]
    BY DEF RouteLists
  <1>2. PICK len \in 0..Cardinality(usable) : s \in Injection(1..len, usable)
    BY <1>1
  <1>. HIDE DEF picks
  <1>3. len \in Nat /\ s \in [1..len -> usable] /\ \A m, n \in 1..len : s[m] = s[n] => m = n
    <2>. HIDE DEF usable
    <2>. QED BY <1>2 DEF Injection, IsInjective
  <1>4. \A n \in 1..len : /\ s[n] \in (DOMAIN Order) \X UpstreamKey
                          /\ s[n][1] \in DOMAIN Order /\ s[n][2] \in UpstreamKey
                          /\ s[n] = <<s[n][1], s[n][2]>>
    BY <1>3
  <1>. HIDE DEF usable
  <1>5. \A n \in 1..len : at(s[n]) \in Route
    BY <1>4, CandidateType DEF StoreInv, KeyRow, Route
  <1>6. DOMAIN R = 1..len /\ \A n \in 1..len : R[n] = at(s[n])
    BY <1>1, <1>3
  <1>7. R \in Seq(Route)
    BY <1>1, <1>3, <1>5
  <1>8. RoutesInv(R)
    <2> SUFFICES ASSUME NEW a \in 1..len, NEW b \in 1..len
                 PROVE  /\ a <= b /\ R[a].cand = R[b].cand =>
                             R[a].rev = R[b].rev /\ \A n \in a..b : R[n].cand = R[a].cand
                        /\ Same(R[a], R[b]) => a = b
      BY <1>6 DEF RoutesInv
    <2>1. R[a].cand = R[b].cand => s[a][1] = s[b][1]
      BY <1>4, <1>6, CandidateType
    <2>2. ASSUME a <= b, R[a].cand = R[b].cand
          PROVE  R[a].rev = R[b].rev /\ \A n \in a..b : R[n].cand = R[a].cand
      <3>1. R[a].rev = R[b].rev
        BY <1>6, <2>1, <2>2
      <3>2. ASSUME NEW n \in a..b
            PROVE  R[n].cand = R[a].cand
        <4>1. n \in 1..len /\ s[a][1] <= s[n][1] /\ s[n][1] <= s[b][1]
          BY <1>1, <1>3
        <4>2. s[a][1] \in Nat /\ s[n][1] \in Nat
          BY <1>4, <4>1, CandidateType
        <4>. QED BY <1>6, <2>1, <2>2, <4>1, <4>2
      <3>. QED BY <3>1, <3>2
    <2>3. ASSUME Same(R[a], R[b])
          PROVE  a = b
      <3>1. s[a][1] = s[b][1] /\ s[a][2] = s[b][2]
        BY <1>6, <2>1, <2>3 DEF Same
      <3>. QED BY <1>3, <1>4, <3>1
    <2>. QED BY <2>2, <2>3
  <1>9. \A n \in DOMAIN R : R[n].rev = revision[R[n].cand] /\ R[n].krev = keys[R[n].key].rev
    BY <1>6
  <1>. QED BY <1>7, <1>8, <1>9

-----------------------------------------------------------------------------
(* The verdicts.  A turn that goes on has a failed call; a request is      *)
(* completed by a completed call; a candidate that is reported failed is   *)
(* left; a call is resent only for an OAuth account, once.                 *)
Verdicts ==
  [row : {"completed", "failed", "cancelled"}, report : {"none", "failed", "succeeded"},
   move : {"resend", "next", "skip", "completed", "failed", "cancelled"},
   mark : {"none", "model_limited", "available", "auth_invalid", "quota_exhausted", "rate_limited"},
   config : BOOLEAN, invalid : BOOLEAN]

Sound(v) ==
  /\ v \in Verdicts
  /\ ~Ends(v) => v.row = "failed"
  /\ v.move = "completed" => v.row = "completed"
  /\ v.report = "failed" => v.move \notin {"resend", "next"}

LEMMA VerdictSound ==
  ASSUME NEW row \in {"completed", "failed", "cancelled"},
         NEW report \in {"none", "failed", "succeeded"},
         NEW move \in {"resend", "next", "skip", "completed", "failed", "cancelled"}
  PROVE  LET v == Verdict(row, report, move)
         IN  v \in Verdicts /\ v.row = row /\ v.report = report /\ v.move = move
  BY DEF Verdict, Verdicts

LEMMA MarkType ==
  ASSUME NEW e \in UpstreamError
  PROVE  /\ updateKeyAfterError(e) \in {"none", "auth_invalid", "quota_exhausted", "rate_limited"}
         /\ updateCodexKeyAfterError(e) \in {"none", "auth_invalid", "quota_exhausted", "rate_limited"}
  BY DEF updateKeyAfterError, updateCodexKeyAfterError

LEMMA ErrorAnswerSound ==
  ASSUME NEW k \in Kind, NEW e \in UpstreamError, NEW resend \in BOOLEAN
  PROVE  LET v == ErrorAnswer(k, e, resend)
         IN  Sound(v) /\ (v.move = "resend" => resend /\ k # "key")
  BY MarkType DEF ErrorAnswer, Sound, Verdict, Verdicts, Ends

LEMMA CodexStreamErrorSound ==
  ASSUME NEW e \in UpstreamError, NEW resend \in BOOLEAN
  PROVE  LET v == CodexStreamError(e, resend)
         IN  Sound(v) /\ (v.move = "resend" => resend)
  BY MarkType DEF CodexStreamError, Sound, Verdict, Verdicts, Ends

LEMMA AntigravityFailureSound ==
  ASSUME NEW e \in UpstreamError, NEW resend \in BOOLEAN
  PROVE  LET v == AntigravityFailure(e, resend)
         IN  Sound(v) /\ (v.move = "resend" => resend)
  BY DEF AntigravityFailure, Sound, Verdict, Verdicts, Ends

LEMMA UncommittedErrorSound ==
  ASSUME NEW k \in Kind, NEW e \in UpstreamError, NEW resend \in BOOLEAN,
         NEW inStream \in BOOLEAN, inStream => k # "key"
  PROVE  LET v == UncommittedError(k, inStream, e, resend)
         IN  Sound(v) /\ (v.move = "resend" => resend /\ k # "key")
  BY ErrorAnswerSound, CodexStreamErrorSound, AntigravityFailureSound DEF UncommittedError

LEMMA CommittedErrorSound ==
  ASSUME NEW k \in Kind, NEW e \in UpstreamError
  PROVE  Sound(CommittedError(k, e)) /\ Ends(CommittedError(k, e))
  BY MarkType, AntigravityFailureSound DEF CommittedError, Sound, Verdict, Verdicts, Ends

LEMMA InvalidBodySound ==
  ASSUME NEW mode \in {"buffered", "passthrough", "converted", "codex", "antigravity"},
         NEW sent \in BOOLEAN, mode = "passthrough" => sent, mode = "buffered" => ~sent
  PROVE  LET v == InvalidBody(mode, sent)
         IN  Sound(v) /\ v.move # "resend" /\ (sent => Ends(v))
  BY DEF InvalidBody, Sound, Verdict, Verdicts, Ends

LEMMA ClientLostSound ==
  ASSUME NEW mode
  PROVE  Sound(ClientLost(mode)) /\ Ends(ClientLost(mode))
  BY DEF ClientLost, Sound, Verdict, Verdicts, Ends

LEMMA ErrorBodyLostSound ==
  ASSUME NEW k, NEW gone \in BOOLEAN
  PROVE  Sound(ErrorBodyLost(k, gone)) /\ ErrorBodyLost(k, gone).move # "resend"
  BY DEF ErrorBodyLost, Sound, Verdict, Verdicts, Ends

LEMMA RelayedSound ==
  ASSUME NEW mode, NEW written \in BOOLEAN
  PROVE  Sound(Relayed(mode, written)) /\ Ends(Relayed(mode, written))
  BY DEF Relayed, Sound, Verdict, Verdicts, Ends

-----------------------------------------------------------------------------
(* Steps of one request, as values: h and l become h2 and l2. *)

LEMMA RowType ==
  ASSUME NEW l \in RequestRow
  PROVE  /\ l.attempts \in Seq(Attempt) /\ Len(l.attempts) \in Nat
         /\ DOMAIN l.attempts = 1..Len(l.attempts)
         /\ \A n \in DOMAIN l.attempts :
              /\ l.attempts[n] \in Attempt
              /\ l.attempts[n].cand \in Candidate /\ l.attempts[n].key \in UpstreamKey
              /\ l.attempts[n].krev \in 1..MaxKeyRevision
  <1>1. l.attempts \in Seq(Attempt)
    BY DEF RequestRow
  <1>2. DOMAIN l.attempts = 1..Len(l.attempts)
    BY <1>1
  <1>3. \A n \in DOMAIN l.attempts : l.attempts[n] \in Attempt
    BY <1>1
  <1>. QED BY <1>1, <1>2, <1>3 DEF Attempt

(* A step that writes no row of an attempt, and stays or goes forward. *)
LEMMA QuietStep ==
  ASSUME NEW h \in Handler, NEW l \in RequestRow, RequestInv(h, l), h # Idle,
         NEW h2 \in Handler, NEW l2 \in RequestRow, h2 # Idle,
         l2.attempts = l.attempts, l2.status = l.status,
         l2.from # 0 => l2.from = Len(l.attempts) /\ h2.sent = "content",
         h2.routes = h.routes, h2.rejected = h.rejected,
         h2.i >= h.i, h2.pc # "resolve", h.pc # "resolve",
         Calling(h2) <=> Calling(h),
         Calling(h) => h2.i = h.i /\ h2.krev = h.krev,
         h2.pc = "attempt" => \/ h.pc = "attempt" /\ h2.i = h.i /\ h2.krev = h.krev
                              \/ \A n \in DOMAIN l.attempts :
                                   Same(l.attempts[n], At(h)) /\ Rejected(h, l.attempts[n])
                                     => l.attempts[n].krev < h2.krev,
         PlaceInv(h2)
  PROVE  RequestInv(h2, l2)
  <1>1. RunningInv(h, l) /\ HistoryInv(l.attempts)
    BY DEF RequestInv
  <1>2. h.i \in Nat /\ h2.i \in Nat /\ Len(h.routes) \in Nat
    BY DEF Handler
  <1>3. RowsInv(h2, l2)
    <2>1. Calling(h2) => At(h2) = At(h)
      BY DEF At
    <2>. QED BY <1>1, <2>1 DEF RunningInv, RowsInv
  <1>4. PairsInv(h2, l2.attempts)
    BY <1>1 DEF RunningInv, PairsInv
  <1>5. AheadInv(h2, l2.attempts)
    <2> SUFFICES ASSUME NEW n \in DOMAIN l.attempts, NEW p \in h2.i..Len(h.routes)
                 PROVE  LET rows == l.attempts
                            N == Len(rows)
                        IN /\ rows[n].report = "failed" => rows[n].cand # h.routes[p].cand
                           /\ Same(rows[n], h.routes[p]) =>
                                /\ p = h2.i
                                /\ IF Calling(h2)
                                   THEN n = N \/ (n = N - 1 /\ Rejected(h2, rows[n]) /\ rows[n].krev < rows[N].krev)
                                   ELSE /\ n = N /\ Rejected(h2, rows[n])
                                        /\ h2.pc = "attempt" => rows[n].krev < h2.krev
                                        /\ \A m \in DOMAIN rows : Pair(rows, m) => rows[m].key # rows[n].key
      BY DEF AheadInv
    <2>1. p \in h.i..Len(h.routes)
      BY <1>2
    <2>2. Same(l.attempts[n], h.routes[p]) => p = h2.i /\ h2.i = h.i
      BY <1>1, <1>2, <2>1 DEF RunningInv, AheadInv
    <2>3. Rejected(h2, l.attempts[n]) <=> Rejected(h, l.attempts[n])
      BY DEF Rejected
    <2>4. p = h.i => h.routes[p] = At(h)
      BY DEF At
    <2>. QED BY <1>1, <2>1, <2>2, <2>3, <2>4 DEF RunningInv, AheadInv
  <1>. QED BY <1>1, <1>3, <1>4, <1>5 DEF RunningInv, RequestInv

(* A request that returns between its calls. *)
LEMMA FinishStep ==
  ASSUME NEW h \in Handler, NEW l \in RequestRow, RequestInv(h, l), h # Idle, ~Calling(h),
         NEW status \in {"failed", "cancelled"}
  PROVE  RequestInv(Idle, [l EXCEPT !.status = status])
  <1> DEFINE l2 == [l EXCEPT !.status = status]
  <1>1. RunningInv(h, l) /\ HistoryInv(l.attempts) /\ (l.from # 0 => l.from = Len(l.attempts))
    BY DEF RequestInv
  <1>2. l2 \in RequestRow /\ l2.attempts = l.attempts /\ l2.from = l.from /\ l2.status = status
    BY DEF RequestRow
  <1>. HIDE DEF l2
  <1>3. ClosedInv(l2)
    BY <1>1, <1>2 DEF RunningInv, RowsInv, ClosedInv
  <1>. QED BY <1>1, <1>2, <1>3 DEF RequestInv, l2

(* StartAttempt: a new row of the route at hand. *)
LEMMA AttemptStep ==
  ASSUME NEW h \in Handler, NEW l \in RequestRow, RequestInv(h, l), h # Idle, h.pc = "attempt"
  PROVE  LET row == [cand |-> At(h).cand, key |-> At(h).key, krev |-> h.krev,
                     status |-> "in_progress", report |-> "none"]
         IN  RequestInv([h EXCEPT !.pc = "call"], [l EXCEPT !.attempts = Append(l.attempts, row)])
  <1> DEFINE rows == l.attempts
             N == Len(rows)
             row == [cand |-> At(h).cand, key |-> At(h).key, krev |-> h.krev,
                     status |-> "in_progress", report |-> "none"]
             h2 == [h EXCEPT !.pc = "call"]
             rows2 == Append(rows, row)
             l2 == [l EXCEPT !.attempts = rows2]
  <1>1. /\ RoutesInv(h.routes) /\ PlaceInv(h) /\ RowsInv(h, l)
        /\ PairsInv(h, rows) /\ AheadInv(h, rows) /\ HistoryInv(rows)
        /\ (l.from # 0 => l.from = Len(rows))
    BY DEF RequestInv, RunningInv
  <1>2. ~Calling(h) /\ h.i \in DOMAIN h.routes /\ h.i <= Len(h.routes)
    BY <1>1 DEF PlaceInv, Calling, Handler
  <1>3. At(h).cand \in Candidate /\ At(h).key \in UpstreamKey /\ h.krev \in 1..MaxKeyRevision
    <2>1. h.krev \in 0..MaxKeyRevision /\ h.krev # 0
      BY <1>1 DEF Handler, PlaceInv
    <2>. QED BY <1>2, <2>1, RouteType, GatewayAssumption DEF At
  <1>4. row \in Attempt
    BY <1>3 DEF Attempt
  <1>5. /\ rows \in Seq(Attempt) /\ N \in Nat /\ DOMAIN rows = 1..N
        /\ rows2 \in Seq(Attempt) /\ Len(rows2) = N + 1 /\ DOMAIN rows2 = 1..(N + 1)
        /\ \A n \in 1..N : rows2[n] = rows[n]
        /\ rows2[N + 1] = row
    BY <1>4, RowType
  <1>6. l2 \in RequestRow /\ l2.attempts = rows2 /\ l2.status = l.status /\ l2.from = l.from
    BY <1>5 DEF RequestRow
  <1>7. /\ h2 \in Handler /\ h2.pc = "call" /\ h2.i = h.i /\ h2.routes = h.routes
        /\ h2.krev = h.krev /\ h2.rejected = h.rejected /\ h2.sent = h.sent
    BY DEF Handler
  <1>8. h2 # Idle /\ Calling(h2) /\ At(h2) = At(h)
    BY <1>7 DEF Calling, At, Idle
  <1>9. row.cand = At(h).cand /\ row.key = At(h).key /\ row.krev = h.krev
        /\ row.status = "in_progress" /\ row.report = "none"
    OBVIOUS
  <1>10. \A n \in 1..N : Same(rows[n], row) <=> Same(rows[n], At(h))
    BY <1>9 DEF Same
  <1>. HIDE DEF row, h2, rows2, l2, N, rows
  <1>11. PlaceInv(h2)
    BY <1>1, <1>2, <1>7 DEF PlaceInv
  <1>12. l.from = 0
    BY <1>1 DEF RowsInv, PlaceInv
  <1>13. RowsInv(h2, l2)
    <2>1. Same(row, At(h2))
      BY <1>8, <1>9 DEF Same
    <2>. QED BY <1>1, <1>5, <1>6, <1>7, <1>8, <1>9, <1>12, <2>1 DEF RowsInv
  (* The call before, if it was of the same route, has been rejected. *)
  <1>14. ASSUME NEW n \in 1..N, Same(rows[n], row)
         PROVE  /\ n = N /\ Rejected(h, rows[n]) /\ rows[n].krev < h.krev
                /\ \A m \in 1..N : Pair(rows, m) => rows[m].key # row.key
    <2>1. Same(rows[n], h.routes[h.i]) /\ h.i \in h.i..Len(h.routes)
      BY <1>2, <1>10, <1>14, <1>7 DEF At, Handler
    <2>2. rows[n].key = row.key
      BY <1>14 DEF Same
    <2>3. n \in DOMAIN rows /\ AheadInv(h, rows)
      BY <1>1, <1>5
    <2>4. /\ n = Len(rows) /\ Rejected(h, rows[n]) /\ rows[n].krev < h.krev
          /\ \A m \in DOMAIN rows : Pair(rows, m) => rows[m].key # rows[n].key
      BY <1>2, <2>1, <2>3 DEF AheadInv
    <2>. QED BY <1>5, <2>2, <2>4 DEF N
  <1>15. \A n \in 1..(N + 1) : Pair(rows2, n) =>
           (n \in 1..(N - 1) /\ Pair(rows, n)) \/ (n = N /\ N # 0 /\ Same(rows[N], row))
    BY <1>5 DEF Pair
  <1>16. \A n \in 1..N : Rejected(h, rows[n]) => h.rejected[rows[n].key] # 0
    BY RowType, <1>5 DEF Rejected, rows
  <1>17. PairsInv(h2, rows2)
    <2> SUFFICES ASSUME NEW n \in 1..(N + 1), Pair(rows2, n)
                 PROVE  h.rejected[rows2[n].key] # 0
      BY <1>5, <1>7 DEF PairsInv
    <2>1. n \in 1..N /\ rows2[n] = rows[n]
      BY <1>5, <1>15
    <2>. QED BY <1>1, <1>5, <1>14, <1>15, <1>16, <2>1 DEF PairsInv
  <1>18. HistoryInv(rows2)
    <2>1. \A n \in 1..((N + 1) - 1) : rows2[n].status = "failed"
      BY <1>1, <1>2, <1>5 DEF HistoryInv, RowsInv, N, rows
    <2>2. ASSUME NEW m \in 1..(N + 1), NEW n \in 1..(N + 1), m < n
          PROVE  /\ rows2[m].report = "failed" => rows2[m].cand # rows2[n].cand
                 /\ Same(rows2[m], rows2[n]) =>
                      KindOf[rows2[m].cand] # "key" /\ n = m + 1 /\ rows2[m].krev < rows2[n].krev
      <3>1. m \in 1..N /\ rows2[m] = rows[m]
        BY <1>5, <2>2
      <3>2. CASE n \in 1..N
        BY <1>1, <1>5, <2>2, <3>1, <3>2 DEF HistoryInv
      <3>3. CASE n = N + 1
        <4>1. rows2[n] = row
          BY <1>5, <3>3
        <4>2. rows[m].report = "failed" => rows[m].cand # row.cand
          <5>1. h.i \in h.i..Len(h.routes) /\ row.cand = h.routes[h.i].cand
            BY <1>2, <1>9 DEF At, Handler
          <5>. QED BY <1>1, <1>5, <3>1, <5>1 DEF AheadInv
        <4>3. Same(rows[m], row) => KindOf[rows[m].cand] # "key" /\ n = m + 1 /\ rows[m].krev < row.krev
          BY <1>9, <1>14, <3>1, <3>3 DEF Rejected
        <4>. QED BY <3>1, <4>1, <4>2, <4>3
      <3>. QED BY <1>5, <3>2, <3>3
    <2>3. ASSUME NEW m \in 1..(N + 1), NEW n \in 1..(N + 1), m # n, Pair(rows2, m), Pair(rows2, n)
          PROVE  rows2[m].key # rows2[n].key
      <3>1. m \in 1..N /\ n \in 1..N /\ rows2[m] = rows[m] /\ rows2[n] = rows[n]
        BY <1>5, <1>15, <2>3
      <3>2. Same(rows[N], row) => rows[N].key = row.key
        BY DEF Same
      <3>. QED BY <1>1, <1>5, <1>14, <1>15, <2>3, <3>1, <3>2 DEF HistoryInv
    <2>. QED BY <1>5, <2>1, <2>2, <2>3 DEF HistoryInv
  <1>19. AheadInv(h2, rows2)
    <2> SUFFICES ASSUME NEW n \in 1..(N + 1), NEW p \in h.i..Len(h.routes)
                 PROVE  /\ rows2[n].report = "failed" => rows2[n].cand # h.routes[p].cand
                        /\ Same(rows2[n], h.routes[p]) =>
                             /\ p = h.i
                             /\ \/ n = N + 1
                                \/ n = N /\ Rejected(h2, rows2[n]) /\ rows2[n].krev < rows2[N + 1].krev
      BY <1>5, <1>7, <1>8 DEF AheadInv
    <2>1. CASE n = N + 1
      <3>1. rows2[n] = row /\ row.report # "failed"
        BY <1>5, <1>9, <2>1
      <3>2. Same(row, h.routes[p]) => Same(h.routes[h.i], h.routes[p])
        BY <1>9 DEF Same, At
      <3>3. Same(h.routes[h.i], h.routes[p]) => p = h.i
        BY <1>1, <1>2 DEF RoutesInv, Handler
      <3>. QED BY <2>1, <3>1, <3>2, <3>3
    <2>2. CASE n \in 1..N
      <3>1. rows2[n] = rows[n]
        BY <1>5, <2>2
      <3>2. /\ rows[n].report = "failed" => rows[n].cand # h.routes[p].cand
            /\ Same(rows[n], h.routes[p]) => p = h.i
        BY <1>1, <1>5, <2>2 DEF AheadInv
      <3>3. Same(rows[n], h.routes[p]) => Same(rows[n], row)
        BY <1>10, <2>2, <3>2 DEF At
      <3>4. Rejected(h2, rows[n]) <=> Rejected(h, rows[n])
        BY <1>7 DEF Rejected
      <3>. QED BY <1>5, <1>9, <1>14, <2>2, <3>1, <3>2, <3>3, <3>4
    <2>. QED BY <1>5, <2>1, <2>2
  <1>20. RunningInv(h2, l2)
    BY <1>1, <1>6, <1>7, <1>11, <1>13, <1>17, <1>19 DEF RunningInv
  <1>21. l2.from # 0 => l2.from = Len(l2.attempts)
    BY <1>6, <1>12
  <1>22. RequestInv(h2, l2)
    BY <1>6, <1>7, <1>8, <1>18, <1>20, <1>21 DEF RequestInv
  <1>. QED BY <1>22 DEF h2, l2, rows2, row, rows

(* The end of a turn: where it goes, and what it leaves behind. *)
NextIndex(h, v) ==
  CASE v.move = "resend" -> h.i
    [] v.move = "next"   -> h.i + 1
    [] v.move = "skip"   -> skipCandidate(h.routes, h.i) + 1
    [] OTHER             -> Len(h.routes) + 1

TurnedHandler(h, v) ==
  IF Ends(v) THEN Idle
  ELSE [h EXCEPT
          !.pc = IF v.move # "resend" /\ NextIndex(h, v) <= Len(h.routes) THEN "backoff" ELSE "next",
          !.i = NextIndex(h, v),
          !.rejected[At(h).key] = IF v.move = "resend" THEN h.krev ELSE @,
          !.invalid = @ \/ v.invalid]

TurnedRow(l, v) ==
  [l EXCEPT !.attempts[Len(l.attempts)].status = v.row,
            !.attempts[Len(l.attempts)].report = v.report,
            !.status = IF Ends(v) THEN v.move ELSE "in_progress"]

LEMMA NextIndexType ==
  ASSUME NEW h \in Handler, h.i <= Len(h.routes), NEW v \in Verdicts
  PROVE  /\ NextIndex(h, v) \in Nat \ {0} /\ h.i <= NextIndex(h, v)
         /\ NextIndex(h, v) = h.i <=> v.move = "resend"
         /\ v.move = "next" => NextIndex(h, v) = h.i + 1
         /\ v.move = "skip" => NextIndex(h, v) = skipCandidate(h.routes, h.i) + 1
         /\ Ends(v) => NextIndex(h, v) = Len(h.routes) + 1
  <1>1. h.routes \in Seq(Route) /\ h.i \in 1..Len(h.routes) /\ Len(h.routes) \in Nat /\ h.i \in Nat \ {0}
    BY DEF Handler
  <1>2. skipCandidate(h.routes, h.i) \in h.i..Len(h.routes)
    BY <1>1, SkipType
  <1>3. v.move \in {"resend", "next", "skip", "completed", "failed", "cancelled"}
    BY DEF Verdicts
  <1>. QED BY <1>1, <1>2, <1>3 DEF NextIndex, Ends

LEMMA TurnedHandlerType ==
  ASSUME NEW h \in Handler, h.i \in DOMAIN h.routes, NEW v \in Verdicts, ~Ends(v)
  PROVE  LET h2 == TurnedHandler(h, v)
         IN  /\ h2 \in Handler /\ h2 # Idle
             /\ h2.pc = IF v.move # "resend" /\ NextIndex(h, v) <= Len(h.routes) THEN "backoff" ELSE "next"
             /\ h2.i = NextIndex(h, v) /\ h2.routes = h.routes /\ h2.sent = h.sent
             /\ \A k \in UpstreamKey :
                  h2.rejected[k] = IF k = At(h).key /\ v.move = "resend" THEN h.krev ELSE h.rejected[k]
  <1> DEFINE pc2 == IF v.move # "resend" /\ NextIndex(h, v) <= Len(h.routes) THEN "backoff" ELSE "next"
             r2 == [h.rejected EXCEPT ![At(h).key] = IF v.move = "resend" THEN h.krev ELSE @]
             b2 == (h.invalid \/ v.invalid)
             h2 == [h EXCEPT !.pc = pc2, !.i = NextIndex(h, v), !.rejected = r2, !.invalid = b2]
  <1>1. h2 = TurnedHandler(h, v)
    BY DEF TurnedHandler
  <1>2. At(h).key \in UpstreamKey /\ h.i <= Len(h.routes)
    BY RouteType DEF At
  <1>3. NextIndex(h, v) \in Nat \ {0}
    BY <1>2, NextIndexType
  <1>4. h.rejected \in [UpstreamKey -> 0..MaxKeyRevision] /\ h.krev \in 0..MaxKeyRevision
    BY DEF Handler
  <1>5. r2 \in [UpstreamKey -> 0..MaxKeyRevision]
    BY <1>2, <1>4
  <1>6. \A k \in UpstreamKey :
          r2[k] = IF k = At(h).key /\ v.move = "resend" THEN h.krev ELSE h.rejected[k]
    BY <1>2, <1>4
  <1>7. pc2 \in {"next", "backoff"} /\ b2 \in BOOLEAN
    OBVIOUS
  <1>. HIDE DEF pc2, r2, b2
  <1>8. h2 \in Handler
    BY <1>3, <1>5, <1>7 DEF Handler
  <1>9. h2.pc = pc2 /\ h2.i = NextIndex(h, v) /\ h2.routes = h.routes /\ h2.sent = h.sent /\ h2.rejected = r2
    BY DEF Handler
  <1>10. h2 # Idle
    BY <1>7, <1>9 DEF Idle
  <1>. QED BY <1>1, <1>6, <1>8, <1>9, <1>10 DEF pc2

LEMMA TurnedRowType ==
  ASSUME NEW l \in RequestRow, Len(l.attempts) # 0, NEW v \in Verdicts
  PROVE  LET l2 == TurnedRow(l, v)
             N  == Len(l.attempts)
         IN  /\ l2 \in RequestRow /\ l2.from = l.from
             /\ l2.status = IF Ends(v) THEN v.move ELSE "in_progress"
             /\ Len(l2.attempts) = N /\ DOMAIN l2.attempts = 1..N /\ N \in Nat \ {0}
             /\ \A n \in 1..N : Same(l2.attempts[n], l.attempts[n])
             /\ \A n \in 1..N : l2.attempts[n].krev = l.attempts[n].krev
             /\ \A n \in 1..(N - 1) : l2.attempts[n] = l.attempts[n]
             /\ l2.attempts[N].status = v.row /\ l2.attempts[N].report = v.report
  <1> DEFINE rows == l.attempts
             N == Len(rows)
             row2 == [rows[N] EXCEPT !.status = v.row, !.report = v.report]
             rows2 == [rows EXCEPT ![N] = row2]
             s2 == IF Ends(v) THEN v.move ELSE "in_progress"
             l2 == [l EXCEPT !.attempts = rows2, !.status = s2]
  <1>1. /\ rows \in Seq(Attempt) /\ N \in Nat \ {0} /\ DOMAIN rows = 1..N /\ N \in 1..N
        /\ rows[N] \in Attempt
    BY RowType
  <1>2. v.row \in {"completed", "failed", "cancelled"} /\ v.report \in {"none", "failed", "succeeded"}
    BY DEF Verdicts
  <1>3. /\ row2 \in Attempt /\ Same(row2, rows[N]) /\ row2.krev = rows[N].krev
        /\ row2.status = v.row /\ row2.report = v.report
    <2>. HIDE DEF rows, N
    <2>. QED BY <1>1, <1>2 DEF Attempt, Same
  <1>4. /\ rows2 \in Seq(Attempt) /\ Len(rows2) = N /\ DOMAIN rows2 = 1..N
        /\ rows2[N] = row2 /\ \A n \in 1..(N - 1) : rows2[n] = rows[n]
    <2>. HIDE DEF row2
    <2>. QED BY <1>1, <1>3
  <1>5. s2 \in {"none", "in_progress", "completed", "failed", "cancelled"}
    BY DEF Ends
  <1>6. l2 = TurnedRow(l, v)
    <2>1. TurnedRow(l, v) = [l EXCEPT !.attempts = [[rows EXCEPT ![N] = [rows[N] EXCEPT !.status = v.row]]
                                                     EXCEPT ![N].report = v.report], !.status = s2]
      <3>1. l \in [status : {"none", "in_progress", "completed", "failed", "cancelled"},
                   attempts : Seq(Attempt), from : Nat]
        BY DEF RequestRow
      <3>. HIDE DEF s2
      <3>. QED BY <1>1, <3>1 DEF TurnedRow, s2
    <2>2. [[rows EXCEPT ![N] = [rows[N] EXCEPT !.status = v.row]] EXCEPT ![N].report = v.report] = rows2
      BY <1>1
    <2>. QED BY <2>1, <2>2
  <1>. HIDE DEF row2, rows2, s2
  <1>7. l2 \in RequestRow /\ l2.from = l.from /\ l2.attempts = rows2 /\ l2.status = s2
    BY <1>4, <1>5 DEF RequestRow
  <1>8. \A n \in 1..N : Same(rows2[n], rows[n]) /\ rows2[n].krev = rows[n].krev
    BY <1>1, <1>3, <1>4 DEF Same
  <1>. HIDE DEF l2
  <1>. QED BY <1>1, <1>3, <1>4, <1>6, <1>7, <1>8 DEF s2

(* Conclude: the row at hand is closed, and the request returns or goes to *)
(* a route whose candidate has not failed and that has not been called, or *)
(* calls the one at hand again.                                            *)
LEMMA ConcludeStep ==
  ASSUME NEW h \in Handler, NEW l \in RequestRow, RequestInv(h, l), h # Idle, Calling(h),
         NEW v, Sound(v),
         v.move = "resend" => KindOf[At(h).cand] # "key" /\ h.rejected[At(h).key] = 0,
         h.sent = "content" => Ends(v)
  PROVE  RequestInv(TurnedHandler(h, v), TurnedRow(l, v))
  <1> DEFINE rows == l.attempts
             N == Len(rows)
             h2 == TurnedHandler(h, v)
             l2 == TurnedRow(l, v)
             rows2 == l2.attempts
             r == At(h)
  <1>1. /\ RoutesInv(h.routes) /\ PlaceInv(h) /\ RowsInv(h, l)
        /\ PairsInv(h, rows) /\ AheadInv(h, rows) /\ HistoryInv(rows)
        /\ (l.from # 0 => l.from = N)
    BY DEF RequestInv, RunningInv
  <1>2. h.i <= Len(h.routes) /\ h.i \in DOMAIN h.routes /\ h.i \in h.i..Len(h.routes)
    BY <1>1 DEF PlaceInv, Calling, Handler
  <1>3. /\ rows \in Seq(Attempt) /\ DOMAIN rows = 1..N /\ N \in Nat \ {0} /\ N # 0
        /\ rows[N].cand = r.cand /\ rows[N].key = r.key
        /\ rows[N].krev = h.krev /\ rows[N].report = "none"
    BY <1>1, RowType DEF RowsInv, Same
  <1>4. v \in Verdicts /\ (v.move = "completed" => v.row = "completed") /\ (~Ends(v) => v.row = "failed")
        /\ (v.report = "failed" => v.move \notin {"resend", "next"})
    BY DEF Sound
  <1>5. v.row \in {"completed", "failed", "cancelled"}
    BY <1>4 DEF Verdicts
  <1>6. /\ l2 \in RequestRow /\ l2.from = l.from
        /\ l2.status = IF Ends(v) THEN v.move ELSE "in_progress"
        /\ Len(rows2) = N /\ DOMAIN rows2 = 1..N
        /\ \A n \in 1..N : Same(rows2[n], rows[n])
        /\ \A n \in 1..N : rows2[n].krev = rows[n].krev
        /\ \A n \in 1..(N - 1) : rows2[n] = rows[n]
        /\ rows2[N].status = v.row /\ rows2[N].report = v.report
    BY <1>3, <1>4, TurnedRowType
  <1>7. \A n \in 1..N : rows2[n].cand = rows[n].cand /\ rows2[n].key = rows[n].key
    BY <1>6 DEF Same
  <1>. HIDE DEF rows2, l2, h2, N, rows, r
  <1>8. \A n \in 1..N : Pair(rows2, n) <=> Pair(rows, n)
    BY <1>3, <1>6, <1>7 DEF Pair, Same
  <1>9. HistoryInv(rows2)
    <2>1. \A m \in 1..N, n \in 1..N : Same(rows2[m], rows2[n]) <=> Same(rows[m], rows[n])
      BY <1>7 DEF Same
    <2>2. \A n \in 1..(N - 1) : rows2[n].status = "failed"
      BY <1>1, <1>3, <1>6 DEF HistoryInv
    <2>3. ASSUME NEW m \in 1..N, NEW n \in 1..N
          PROVE  /\ m < n /\ rows2[m].report = "failed" => rows2[m].cand # rows2[n].cand
                 /\ m < n /\ Same(rows2[m], rows2[n]) =>
                      KindOf[rows2[m].cand] # "key" /\ n = m + 1 /\ rows2[m].krev < rows2[n].krev
                 /\ m # n /\ Pair(rows2, m) /\ Pair(rows2, n) => rows2[m].key # rows2[n].key
      <3>1. m < n => rows2[m] = rows[m]
        BY <1>3, <1>6
      <3>. QED BY <1>1, <1>3, <1>6, <1>7, <1>8, <2>1, <3>1 DEF HistoryInv
    <2>. QED BY <1>6, <2>2, <2>3 DEF HistoryInv
  <1>10. CASE Ends(v)
    <2>1. h2 = Idle
      BY <1>10 DEF h2, TurnedHandler
    <2>2. l2.status = v.move /\ v.move \in {"completed", "failed", "cancelled"}
      BY <1>6, <1>10 DEF Ends
    <2>3. ClosedInv(l2)
      BY <1>3, <1>4, <1>5, <1>6, <2>2 DEF ClosedInv, rows2
    <2>. QED BY <1>1, <1>6, <1>9, <2>1, <2>3 DEF RequestInv, rows2, h2, l2
  <1>11. CASE ~Ends(v)
    <2> DEFINE next == NextIndex(h, v)
    <2>1. /\ h2 \in Handler /\ h2 # Idle
          /\ h2.pc = IF v.move # "resend" /\ next <= Len(h.routes) THEN "backoff" ELSE "next"
          /\ h2.i = next /\ h2.routes = h.routes /\ h2.sent = h.sent
          /\ \A k \in UpstreamKey :
               h2.rejected[k] = IF k = r.key /\ v.move = "resend" THEN h.krev ELSE h.rejected[k]
      BY <1>2, <1>4, <1>11, TurnedHandlerType DEF h2, r
    <2>2. /\ next \in Nat \ {0} /\ h.i <= next /\ (next = h.i <=> v.move = "resend")
          /\ (v.move = "skip" => next = skipCandidate(h.routes, h.i) + 1)
      BY <1>2, <1>4, NextIndexType
    <2>3. v.move \in {"resend", "next", "skip"}
      BY <1>4, <1>11 DEF Ends, Verdicts
    <2>. HIDE DEF next
    <2>4. ~Calling(h2) /\ h2.pc \notin {"resolve", "relay", "attempt"} /\ h2.sent # "content"
      BY <1>11, <2>1 DEF Calling
    <2>5. PlaceInv(h2)
      BY <2>1, <2>4 DEF PlaceInv
    <2>6. l.from = 0
      BY <1>1, <1>11 DEF RowsInv
    <2>7. RowsInv(h2, l2)
      BY <1>4, <1>6, <1>11, <2>4, <2>6 DEF RowsInv, rows2
    <2>8. \A n \in 1..N : rows2[n].key \in UpstreamKey
      BY <1>6, RowType DEF rows2
    <2>9. h.krev # 0
      BY <1>3, RowType DEF rows
    <2>10. PairsInv(h2, rows2)
      BY <1>1, <1>3, <1>6, <1>7, <1>8, <2>1, <2>8, <2>9 DEF PairsInv
    <2>11. AheadInv(h2, rows2)
      <3> SUFFICES ASSUME NEW n \in 1..N, NEW p \in next..Len(h.routes)
                   PROVE  /\ rows2[n].report = "failed" => rows2[n].cand # h.routes[p].cand
                          /\ Same(rows2[n], h.routes[p]) =>
                               /\ p = next /\ n = N /\ Rejected(h2, rows2[n])
                               /\ \A m \in 1..N : Pair(rows2, m) => rows2[m].key # rows2[n].key
        BY <1>6, <2>1, <2>4 DEF AheadInv
      <3>1. h.i \in Nat /\ Len(h.routes) \in Nat /\ h.routes \in Seq(Route)
        BY DEF Handler
      <3>2. p \in h.i..Len(h.routes)
        BY <2>2, <3>1
      <3>3. Same(rows2[n], h.routes[p]) <=> Same(rows[n], h.routes[p])
        BY <1>7 DEF Same
      <3>4. rows2[n].report = "failed" => rows2[n].cand # h.routes[p].cand
        <4>1. CASE n = N
          <5>1. CASE v.report = "failed"
            <6>1. v.move = "skip"
              BY <1>4, <2>3, <5>1
            <6>2. p \in (skipCandidate(h.routes, h.i) + 1)..Len(h.routes)
              BY <2>2, <6>1
            <6>3. h.routes[p].cand # h.routes[h.i].cand
              BY <1>1, <1>2, <3>1, <6>2, SkipLeaves
            <6>. QED BY <1>3, <1>7, <4>1, <6>3 DEF At, r
          <5>2. CASE v.report # "failed"
            BY <1>6, <4>1, <5>2
          <5>. QED BY <5>1, <5>2
        <4>2. CASE n # N
          <5>1. rows2[n] = rows[n] /\ n \in DOMAIN rows
            BY <1>3, <1>6, <4>2
          <5>. QED BY <1>1, <3>2, <5>1 DEF AheadInv
        <4>. QED BY <4>1, <4>2
      <3>5. ASSUME Same(rows[n], h.routes[p])
            PROVE  /\ p = next /\ n = N /\ v.move = "resend"
        <4>1. n \in DOMAIN rows /\ AheadInv(h, rows)
          BY <1>1, <1>3
        <4>2. p = h.i /\ (n = Len(rows) \/ (n = Len(rows) - 1 /\ Rejected(h, rows[n])))
          BY <3>2, <3>5, <4>1 DEF AheadInv
        <4>3. v.move = "resend" /\ next = h.i
          BY <2>2, <3>1, <4>2
        <4>4. rows[n].key = r.key
          BY <3>5, <4>2 DEF Same, At, r
        <4>5. ~Rejected(h, rows[n])
          <5>1. h.rejected[rows[n].key] = 0 /\ rows[n].krev \in 1..MaxKeyRevision
            BY <4>1, <4>3, <4>4, RowType DEF rows, r
          <5>. QED BY <5>1 DEF Rejected
        <4>. QED BY <4>2, <4>3, <4>5 DEF N
      <3>6. ASSUME Same(rows[n], h.routes[p])
            PROVE  Rejected(h2, rows2[n]) /\ \A m \in 1..N : Pair(rows2, m) => rows2[m].key # rows2[n].key
        <4>1. n = N /\ v.move = "resend"
          BY <3>5, <3>6
        <4>2. rows2[n].cand = r.cand /\ rows2[n].key = r.key /\ rows2[n].krev = h.krev /\ r.key \in UpstreamKey
          BY <1>3, <1>6, <1>7, <2>8, <4>1
        <4>3. Rejected(h2, rows2[n])
          BY <2>1, <4>1, <4>2 DEF Rejected, r
        <4>4. ASSUME NEW m \in 1..N, Pair(rows2, m), rows2[m].key = rows2[n].key
              PROVE  FALSE
          <5>1. Pair(rows, m) /\ rows[m].key = r.key /\ m \in DOMAIN rows
            BY <1>3, <1>7, <1>8, <4>2, <4>4
          <5>2. h.rejected[r.key] # 0
            BY <1>1, <5>1 DEF PairsInv
          <5>. QED BY <4>1, <5>2 DEF r
        <4>. QED BY <4>3, <4>4
      <3>. QED BY <3>3, <3>4, <3>5, <3>6
    <2>12. RunningInv(h2, l2)
      BY <1>1, <2>1, <2>5, <2>7, <2>10, <2>11 DEF RunningInv, rows2
    <2>13. RequestInv(h2, l2)
      BY <1>6, <1>9, <2>1, <2>6, <2>12 DEF RequestInv, rows2
    <2>. QED BY <2>13 DEF h2, l2
  <1>. QED BY <1>10, <1>11

-----------------------------------------------------------------------------
(* Steps of the gateway: one request moves, the others stay, and the store *)
(* only gets newer.                                                        *)

LEMMA Handling ==
  ASSUME IInv, NEW q \in Request, Running(q)
  PROVE  /\ req[q] \in Handler /\ req[q] # Idle /\ log[q] \in RequestRow
         /\ RequestInv(req[q], log[q]) /\ RunningInv(req[q], log[q])
         /\ Behind(req[q], revision, keys)
         /\ Admission(req[q], held[q])
         /\ req[q].routes \in Seq(Route) /\ req[q].i \in Nat \ {0} /\ Len(req[q].routes) \in Nat
         /\ (req[q].i <= Len(req[q].routes) => req[q].i \in DOMAIN req[q].routes)
         /\ (req[q].pc \notin {"resolve", "next"} => req[q].i \in DOMAIN req[q].routes)
  <1>1. req[q] # Idle
    BY DEF Running
  <1>2. req[q] \in Handler /\ log[q] \in RequestRow /\ RequestInv(req[q], log[q])
    BY <1>1 DEF IInv, RequestsInv
  <1>3. RunningInv(req[q], log[q])
    BY <1>1, <1>2 DEF RequestInv
  <1>4. req[q].routes \in Seq(Route) /\ req[q].i \in Nat \ {0} /\ Len(req[q].routes) \in Nat
    BY <1>2 DEF Handler
  <1>5. req[q].i <= Len(req[q].routes) => req[q].i \in DOMAIN req[q].routes
    BY <1>4
  <1>6. Behind(req[q], revision, keys) /\ Admission(req[q], held[q])
    BY DEF IInv, BehindInv, HeldInv
  <1>. QED BY <1>1, <1>2, <1>3, <1>4, <1>5, <1>6 DEF RunningInv, PlaceInv

(* What a handler has read stays behind a store that gets newer. *)
LEMMA StaysBehind ==
  ASSUME NEW h \in Handler, Turning(h) => h.i \in DOMAIN h.routes,
         NEW rv \in [Candidate -> 1..MaxRevision], NEW rv2 \in [Candidate -> 1..MaxRevision],
         NEW ks \in [UpstreamKey -> KeyRow], NEW ks2 \in [UpstreamKey -> KeyRow],
         \A c \in Candidate : rv[c] <= rv2[c],
         \A k \in UpstreamKey : ks[k].rev <= ks2[k].rev,
         Behind(h, rv, ks)
  PROVE  Behind(h, rv2, ks2)
  <1>1. \A k \in UpstreamKey : ks[k].rev \in Nat /\ ks2[k].rev \in Nat
    BY DEF KeyRow
  <1>2. ASSUME NEW n \in DOMAIN h.routes
        PROVE  /\ h.routes[n].rev <= rv2[h.routes[n].cand]
               /\ h.routes[n].krev <= ks2[h.routes[n].key].rev
    <2>1. /\ h.routes[n].cand \in Candidate /\ h.routes[n].key \in UpstreamKey
          /\ h.routes[n].rev \in Nat /\ h.routes[n].krev \in Nat
      BY RouteType
    <2>2. h.routes[n].rev <= rv[h.routes[n].cand] /\ h.routes[n].krev <= ks[h.routes[n].key].rev
      BY DEF Behind
    <2>3. rv[h.routes[n].cand] \in Nat /\ rv2[h.routes[n].cand] \in Nat
      BY <2>1
    <2>. QED BY <1>1, <2>1, <2>2, <2>3
  <1>3. ASSUME NEW k \in UpstreamKey
        PROVE  h.rejected[k] <= ks2[k].rev
    <2>1. h.rejected[k] \in Nat
      BY DEF Handler
    <2>2. h.rejected[k] <= ks[k].rev
      BY DEF Behind
    <2>. QED BY <1>1, <2>1, <2>2
  <1>4. ASSUME Turning(h)
        PROVE  h.krev <= ks2[At(h).key].rev
    <2>1. At(h).key \in UpstreamKey
      BY <1>4, RouteType DEF At
    <2>2. h.krev \in Nat
      BY DEF Handler
    <2>3. h.krev <= ks[At(h).key].rev
      BY <1>4 DEF Behind
    <2>. QED BY <1>1, <2>1, <2>2, <2>3
  <1>. QED BY <1>2, <1>3, <1>4 DEF Behind

LEMMA Frame ==
  ASSUME IInv, StoreInv', NEW q \in Request, NEW h2, NEW l2, NEW c2,
         req' = [req EXCEPT ![q] = h2],
         log' = [log EXCEPT ![q] = l2] \/ (log' = log /\ l2 = log[q]),
         held' = [held EXCEPT ![q] = c2] \/ (held' = held /\ c2 = held[q]),
         \A c \in Candidate : revision[c] <= revision'[c],
         \A k \in UpstreamKey : keys[k].rev <= keys'[k].rev,
         RequestInv(h2, l2),
         h2 # Idle => Behind(h2, revision', keys'),
         Admission(h2, c2)
  PROVE  IInv'
  <1>1. h2 \in Handler \cup {Idle} /\ l2 \in RequestRow
    BY DEF RequestInv
  <1>2. /\ req \in [Request -> Handler \cup {Idle}] /\ log \in [Request -> RequestRow]
        /\ held = [p \in Request |-> held[p]]
        /\ revision \in [Candidate -> 1..MaxRevision] /\ revision' \in [Candidate -> 1..MaxRevision]
        /\ keys \in [UpstreamKey -> KeyRow] /\ keys' \in [UpstreamKey -> KeyRow]
    BY DEF IInv, RequestsInv, HeldInv, StoreInv
  <1>3. /\ req' \in [Request -> Handler \cup {Idle}] /\ req'[q] = h2
        /\ \A p \in Request \ {q} : req'[p] = req[p]
    BY <1>1, <1>2
  <1>4. /\ log' \in [Request -> RequestRow] /\ log'[q] = l2
        /\ \A p \in Request \ {q} : log'[p] = log[p]
    BY <1>1, <1>2
  <1>5. /\ held' = [p \in Request |-> held'[p]] /\ held'[q] = c2
        /\ \A p \in Request \ {q} : held'[p] = held[p]
    BY <1>2
  <1>6. RequestsInv'
    <2>1. \A p \in Request : RequestInv(req'[p], log'[p])
      BY <1>3, <1>4 DEF IInv, RequestsInv
    <2>. QED BY <1>3, <1>4, <2>1 DEF RequestsInv
  <1>7. HeldInv'
    <2>1. \A p \in Request : Admission(req'[p], held'[p])
      BY <1>3, <1>5 DEF IInv, HeldInv
    <2>. QED BY <1>5, <2>1 DEF HeldInv
  <1>8. BehindInv'
    <2> SUFFICES ASSUME NEW p \in Request, req'[p] # Idle
                 PROVE  Behind(req'[p], revision', keys')
      BY DEF BehindInv, Running
    <2>1. CASE p = q
      BY <1>3, <2>1
    <2>2. CASE p # q
      <3>1. req'[p] = req[p] /\ Running(p)
        BY <1>3, <2>2 DEF Running
      <3>. QED BY <1>2, <3>1, Handling, StaysBehind DEF Turning
    <2>. QED BY <2>1, <2>2
  <1>. QED BY <1>6, <1>7, <1>8 DEF IInv

(* Frame for the steps that leave the store alone. *)
LEMMA QuietFrame ==
  ASSUME IInv, NEW q \in Request, NEW h2, NEW l2, NEW c2,
         UNCHANGED <<started, revision, config, keys>>,
         req' = [req EXCEPT ![q] = h2],
         log' = [log EXCEPT ![q] = l2] \/ (log' = log /\ l2 = log[q]),
         held' = [held EXCEPT ![q] = c2] \/ (held' = held /\ c2 = held[q]),
         RequestInv(h2, l2),
         h2 # Idle => Behind(h2, revision, keys),
         Admission(h2, c2)
  PROVE  IInv'
  <1>1. StoreInv'
    BY DEF IInv, StoreInv, LateResultsIgnored
  <1>2. /\ \A c \in Candidate : revision[c] <= revision'[c]
        /\ \A k \in UpstreamKey : keys[k].rev <= keys'[k].rev
    BY DEF IInv, StoreInv, KeyRow
  <1>3. h2 # Idle => Behind(h2, revision', keys')
    OBVIOUS
  <1>. QED BY <1>1, <1>2, <1>3, Frame

-----------------------------------------------------------------------------
(* From the request to its routes, and its return. *)

LEMMA NoAdmission == Admission(Idle, B!NoCall)
  BY DEF Admission

LEMMA ReturnStep ==
  ASSUME IInv, NEW q \in Request, Running(q), ~Calling(req[q]),
         NEW status \in {"failed", "cancelled"}, Finish(q, status), Leave(q),
         UNCHANGED <<started, revision, config, keys>>
  PROVE  IInv'
  <1> DEFINE l2 == [log[q] EXCEPT !.status = status]
  <1>1. RequestInv(Idle, l2)
    BY Handling, FinishStep
  <1>2. req' = [req EXCEPT ![q] = Idle] /\ log' = [log EXCEPT ![q] = l2]
        /\ held' = [held EXCEPT ![q] = B!NoCall]
    BY DEF Finish, Leave
  <1>. HIDE DEF l2
  <1>. QED BY <1>1, <1>2, NoAdmission, QuietFrame

LEMMA NewHandler ==
  ASSUME NEW stream \in BOOLEAN
  PROVE  LET h2 == [pc |-> "resolve", stream |-> stream, client |-> "connected",
                    routes |-> <<>>, i |-> 1, rejected |-> [k \in UpstreamKey |-> 0],
                    krev |-> 0, refreshed |-> FALSE, mode |-> "none",
                    sent |-> "nothing", invalid |-> FALSE]
             l2 == [NoLog EXCEPT !.status = "in_progress"]
         IN  /\ RequestInv(h2, l2) /\ Admission(h2, B!NoCall)
             /\ StoreInv => Behind(h2, revision, keys)
  <1> DEFINE h2 == [pc |-> "resolve", stream |-> stream, client |-> "connected",
                    routes |-> <<>>, i |-> 1, rejected |-> [k \in UpstreamKey |-> 0],
                    krev |-> 0, refreshed |-> FALSE, mode |-> "none",
                    sent |-> "nothing", invalid |-> FALSE]
             l2 == [NoLog EXCEPT !.status = "in_progress"]
  <1>1. h2 \in Handler /\ h2 # Idle
    BY GatewayAssumption DEF Handler, Idle
  <1>2. l2 \in RequestRow /\ l2.from = 0 /\ l2.attempts = <<>> /\ l2.status = "in_progress"
    <2>1. l2 = [status |-> "in_progress", attempts |-> <<>>, from |-> 0]
      BY DEF NoLog
    <2>2. <<>> \in Seq(Attempt)
      OBVIOUS
    <2>. HIDE DEF l2
    <2>. QED BY <2>1, <2>2 DEF RequestRow
  <1>3. /\ h2.pc = "resolve" /\ h2.routes = <<>> /\ h2.sent = "nothing" /\ h2.i = 1
        /\ \A k \in UpstreamKey : h2.rejected[k] = 0
    OBVIOUS
  <1>. HIDE DEF h2, l2
  <1>4. Len(h2.routes) = 0 /\ DOMAIN h2.routes = {} /\ Len(l2.attempts) = 0 /\ DOMAIN l2.attempts = {}
    BY <1>2, <1>3
  <1>5. RoutesInv(h2.routes) /\ PlaceInv(h2) /\ RowsInv(h2, l2) /\ PairsInv(h2, l2.attempts)
        /\ AheadInv(h2, l2.attempts) /\ HistoryInv(l2.attempts)
    BY <1>2, <1>3, <1>4 DEF RoutesInv, PlaceInv, RowsInv, PairsInv, AheadInv, HistoryInv, Calling
  <1>6. RequestInv(h2, l2)
    BY <1>1, <1>2, <1>5 DEF RequestInv, RunningInv
  <1>7. StoreInv => Behind(h2, revision, keys)
    BY <1>3, <1>4 DEF StoreInv, KeyRow, Behind, Turning
  <1>8. Admission(h2, B!NoCall)
    BY <1>3 DEF Admission
  <1>. QED BY <1>6, <1>7, <1>8 DEF h2, l2

LEMMA StartStep ==
  ASSUME IInv, NEW q \in Request, NEW stream \in Streams, Start(q, stream)
  PROVE  IInv'
  <1> DEFINE h2 == [pc |-> "resolve", stream |-> stream, client |-> "connected",
                    routes |-> <<>>, i |-> 1, rejected |-> [k \in UpstreamKey |-> 0],
                    krev |-> 0, refreshed |-> FALSE, mode |-> "none",
                    sent |-> "nothing", invalid |-> FALSE]
             l2 == [NoLog EXCEPT !.status = "in_progress"]
  <1>1. stream \in BOOLEAN /\ StoreInv
    BY GatewayAssumption DEF IInv
  <1>2. RequestInv(h2, l2) /\ Behind(h2, revision, keys) /\ Admission(h2, B!NoCall)
    BY <1>1, NewHandler
  <1>3. req' = [req EXCEPT ![q] = h2] /\ log' = [log EXCEPT ![q] = l2]
        /\ UNCHANGED <<revision, config, keys, held>>
        /\ started < MaxRequests /\ started' = started + 1
    BY DEF Start, breakerVars
  <1>4. held[q] = B!NoCall
    BY DEF Start, Running, IInv, HeldInv, Admission
  <1>. HIDE DEF h2, l2
  <1>5. StoreInv'
    <2>1. started' \in 0..MaxRequests
      BY <1>1, <1>3, GatewayAssumption DEF StoreInv
    <2>. QED BY <1>1, <1>3, <2>1 DEF StoreInv, LateResultsIgnored
  <1>6. /\ \A c \in Candidate : revision[c] <= revision'[c]
        /\ \A k \in UpstreamKey : keys[k].rev <= keys'[k].rev
    BY <1>1, <1>3 DEF StoreInv, KeyRow
  <1>. QED BY <1>2, <1>3, <1>4, <1>5, <1>6, NoAdmission, Frame

LEMMA ResolveStep ==
  ASSUME IInv, NEW q \in Request, Running(q), Resolve(q)
  PROVE  IInv'
  <1> DEFINE h == req[q]
             l == log[q]
  <1>1. PICK R \in RouteLists : /\ R # <<>>
                                /\ req' = [req EXCEPT ![q].pc = "next", ![q].routes = R]
    BY DEF Resolve
  <1>2. h.pc = "resolve" /\ UNCHANGED <<started, revision, config, keys, log, held>>
    BY DEF Resolve, storeVars, breakerVars
  <1>3. /\ R \in Seq(Route) /\ RoutesInv(R)
        /\ \A n \in DOMAIN R : R[n].rev = revision[R[n].cand] /\ R[n].krev = keys[R[n].key].rev
    BY RouteListsType DEF IInv
  <1> DEFINE h2 == [h EXCEPT !.pc = "next", !.routes = R]
  <1>4. /\ h \in Handler /\ l \in RequestRow /\ RunningInv(h, l) /\ RequestInv(h, l) /\ h # Idle
        /\ Behind(h, revision, keys)
    BY Handling
  <1>5. /\ h2 \in Handler /\ h2.pc = "next" /\ h2.routes = R /\ h2.i = h.i /\ h2.sent = h.sent
        /\ h2.rejected = h.rejected /\ h2.mode = h.mode
    BY <1>3, <1>4 DEF Handler
  <1>6. req' = [req EXCEPT ![q] = h2]
    BY <1>1
  <1>7. held[q] = B!NoCall
    BY <1>2, <1>4, Handling DEF Admission
  <1>. HIDE DEF h2, h, l
  <1>8. h2 # Idle /\ ~Calling(h2) /\ ~Turning(h2)
    BY <1>5 DEF Idle, Calling, Turning
  <1>9. Len(l.attempts) = 0 /\ DOMAIN l.attempts = {} /\ l.status = "in_progress" /\ l.from = 0 /\ h.i \in Nat \ {0}
    <2>1. Len(l.attempts) = 0 /\ l.status = "in_progress" /\ l.from = 0
      BY <1>2, <1>4 DEF RunningInv, RowsInv, PlaceInv
    <2>. QED BY <1>4, <2>1, RowType DEF Handler
  <1>10. PlaceInv(h2) /\ RowsInv(h2, l) /\ PairsInv(h2, l.attempts) /\ AheadInv(h2, l.attempts)
    <2>1. h.sent # "content"
      BY <1>2, <1>4 DEF RunningInv, PlaceInv
    <2>. QED BY <1>5, <1>8, <1>9, <2>1 DEF PlaceInv, RowsInv, PairsInv, AheadInv
  <1>11. RequestInv(h2, l)
    BY <1>3, <1>4, <1>5, <1>8, <1>10 DEF RequestInv, RunningInv
  <1>12. Behind(h2, revision, keys)
    <2>1. \A n \in DOMAIN R : /\ R[n].rev <= revision[R[n].cand]
                              /\ R[n].krev <= keys[R[n].key].rev
      <3> SUFFICES ASSUME NEW n \in DOMAIN R
                   PROVE  R[n].rev <= revision[R[n].cand] /\ R[n].krev <= keys[R[n].key].rev
        OBVIOUS
      <3>1. R[n] \in Route
        BY <1>3
      <3>2. R[n].rev \in Nat /\ R[n].krev \in Nat
        BY <3>1 DEF Route
      <3>. QED BY <1>3, <3>2
    <2>. QED BY <1>4, <1>5, <1>8, <2>1 DEF Behind
  <1>13. Admission(h2, B!NoCall)
    <2>1. h2.i = 1
      BY <1>2, <1>4, <1>5 DEF RunningInv, PlaceInv
    <2>. QED BY <1>5, <1>8, <2>1 DEF Admission, FirstOf
  <1>. QED BY <1>2, <1>6, <1>7, <1>11, <1>12, <1>13, NoAdmission, QuietFrame DEF l

-----------------------------------------------------------------------------
(* One turn of the loop, up to the upstream call. *)

LEMMA SkipCoolingStep ==
  ASSUME IInv, NEW q \in Request, Running(q), SkipCooling(q)
  PROVE  IInv'
  <1> DEFINE h == req[q]
             l == log[q]
             j == skipCandidate(h.routes, h.i)
             h2 == [h EXCEPT !.i = j + 1]
  <1>1. /\ h.pc = "next" /\ h.i <= Len(h.routes) /\ Leave(q)
        /\ UNCHANGED <<started, revision, config, keys>>
        /\ \/ req' = [req EXCEPT ![q].i = j + 1] /\ UNCHANGED log
           \/ Finish(q, "failed")
    BY DEF SkipCooling
  <1>2. /\ h \in Handler /\ l \in RequestRow /\ RunningInv(h, l) /\ RequestInv(h, l) /\ h # Idle
        /\ Behind(h, revision, keys) /\ h.routes \in Seq(Route) /\ h.i \in Nat \ {0}
        /\ Len(h.routes) \in Nat /\ h.i \in DOMAIN h.routes
    BY <1>1, Handling
  <1>3. CASE Finish(q, "failed")
    <2>1. ~Calling(h)
      BY <1>1 DEF Calling
    <2>. QED BY <1>1, <1>3, <2>1, ReturnStep
  <1>4. CASE req' = [req EXCEPT ![q].i = j + 1] /\ UNCHANGED log
    <2>1. /\ j \in h.i..Len(h.routes) /\ \A n \in h.i..j : h.routes[n].cand = h.routes[h.i].cand
          /\ j < Len(h.routes) => h.routes[j + 1].cand # h.routes[h.i].cand
      BY <1>1, <1>2, SkipType
    <2>2. j \in Nat /\ j + 1 \in Nat \ {0} /\ j + 1 >= h.i
      BY <1>2, <2>1
    <2>. HIDE DEF j
    <2>3. /\ h2 \in Handler /\ h2.pc = "next" /\ h2.routes = h.routes /\ h2.i = j + 1
          /\ h2.sent = h.sent /\ h2.rejected = h.rejected
      BY <1>1, <1>2, <2>2 DEF Handler
    <2>4. req' = [req EXCEPT ![q] = h2]
      BY <1>4
    <2>. HIDE DEF h2, h, l
    <2>5. h2 # Idle /\ ~Calling(h2) /\ ~Calling(h) /\ ~Turning(h2)
      BY <1>1, <2>3 DEF Idle, Calling, Turning
    <2>6. PlaceInv(h2) /\ l.from = 0
      BY <1>1, <1>2, <2>3 DEF RunningInv, PlaceInv, RowsInv
    <2>7. RequestInv(h2, l)
      BY <1>1, <1>2, <2>2, <2>3, <2>5, <2>6, QuietStep
    <2>8. Behind(h2, revision, keys)
      BY <1>2, <2>3, <2>5 DEF Behind
    <2>9. Admission(h2, B!NoCall)
      <3>1. j + 1 <= Len(h.routes) => j \in h.i..j /\ j < Len(h.routes) /\ (j + 1) - 1 = j
        BY <1>2, <2>1, <2>2
      <3>2. h2.i <= Len(h.routes) => h2.routes[h2.i - 1].cand # h2.routes[h2.i].cand
        BY <2>1, <2>3, <3>1
      <3>. QED BY <1>2, <2>2, <2>3, <2>5, <3>2 DEF Admission, FirstOf
    <2>. QED BY <1>1, <1>4, <2>4, <2>7, <2>8, <2>9, QuietFrame DEF Leave, l
  <1>. QED BY <1>1, <1>3, <1>4

LEMMA EnterStep ==
  ASSUME IInv, NEW q \in Request, Running(q), Enter(q)
  PROVE  IInv'
  <1> DEFINE h == req[q]
             l == log[q]
             r == At(h)
             pc2 == IF KindOf[r.cand] = "key" THEN "attempt" ELSE "credential"
             h2 == [h EXCEPT !.pc = pc2, !.krev = r.krev, !.refreshed = FALSE]
             granted == IF GrantsProbe(candidates[r.cand], r.rev, now) THEN candidates[r.cand].cooldownUntil ELSE 0
             c2 == IF Asks(q) THEN [cand |-> r.cand, rev |-> r.rev, probe |-> granted] ELSE held[q]
  <1>1. /\ h.pc = "next" /\ h.i <= Len(h.routes)
        /\ UNCHANGED <<started, revision, config, keys, log>>
        /\ req' = [req EXCEPT ![q] = h2]
        /\ held' = [held EXCEPT ![q] = c2] \/ (held' = held /\ c2 = held[q])
    BY DEF Enter, storeVars, route, At, kind
  <1>2. /\ h \in Handler /\ l \in RequestRow /\ RunningInv(h, l) /\ RequestInv(h, l) /\ h # Idle
        /\ Behind(h, revision, keys) /\ Admission(h, held[q]) /\ h.i \in DOMAIN h.routes
        /\ h.i \in Nat \ {0} /\ Len(h.routes) \in Nat
    BY <1>1, Handling
  <1>3. /\ r.cand \in Candidate /\ r.key \in UpstreamKey /\ KindOf[r.cand] \in Kind
        /\ r.rev \in 1..MaxRevision /\ r.krev \in 1..MaxKeyRevision
    BY <1>2, RouteType DEF At
  <1>4. pc2 \in {"attempt", "credential"} /\ r.krev \in 0..MaxKeyRevision
    BY <1>3
  <1>. HIDE DEF pc2, granted
  <1>5. /\ h2 \in Handler /\ h2.pc = pc2 /\ h2.routes = h.routes /\ h2.i = h.i /\ h2.krev = r.krev
        /\ h2.sent = h.sent /\ h2.rejected = h.rejected
    BY <1>2, <1>4 DEF Handler
  <1>6. For(c2, r)
    <2>1. CASE Asks(q)
      <3>1. c2.cand = r.cand /\ c2.rev = r.rev /\ r.rev # 0
        BY <1>3, <2>1
      <3>2. c2 # [rev |-> 0]
        BY <3>1
      <3>. QED BY <3>1, <3>2 DEF For, B!NoCall
    <2>2. CASE ~Asks(q)
      BY <1>1, <1>2, <2>2 DEF Admission, Asks, FirstOf, Calling, Idle
    <2>. QED BY <2>1, <2>2
  <1>. HIDE DEF h2, c2
  <1>7. h2 # Idle /\ ~Calling(h2) /\ ~Calling(h) /\ At(h2) = r
    BY <1>1, <1>4, <1>5 DEF Idle, Calling, At
  <1>. HIDE DEF h, l, r
  <1>8. PlaceInv(h2) /\ l.from = 0
    BY <1>1, <1>2, <1>3, <1>4, <1>5 DEF RunningInv, PlaceInv, RowsInv
  <1>9. h2.pc = "attempt" => \A n \in DOMAIN l.attempts : Same(l.attempts[n], At(h)) => ~Rejected(h, l.attempts[n])
    BY <1>5 DEF pc2, Same, Rejected, r
  <1>10. RequestInv(h2, l)
    BY <1>1, <1>2, <1>4, <1>5, <1>7, <1>8, <1>9, QuietStep
  <1>11. Behind(h2, revision, keys)
    BY <1>2, <1>5, <1>7 DEF Behind, r, At
  <1>12. Admission(h2, c2)
    BY <1>1, <1>2, <1>4, <1>5, <1>6, <1>7 DEF Admission
  <1>. QED BY <1>1, <1>10, <1>11, <1>12, QuietFrame DEF l

LEMMA RetryStep ==
  ASSUME IInv, NEW q \in Request, Running(q), Retry(q)
  PROVE  IInv'
  <1> DEFINE h == req[q]
             l == log[q]
             h2 == [h EXCEPT !.pc = "next"]
  <1>1. /\ h.pc = "backoff" /\ req' = [req EXCEPT ![q] = h2]
        /\ UNCHANGED <<started, revision, config, keys, log, held>>
    BY DEF Retry, storeVars, breakerVars
  <1>2. /\ h \in Handler /\ l \in RequestRow /\ RunningInv(h, l) /\ RequestInv(h, l) /\ h # Idle
        /\ Behind(h, revision, keys) /\ Admission(h, held[q])
        /\ h.i \in Nat \ {0} /\ Len(h.routes) \in Nat
    BY Handling
  <1>3. /\ h2 \in Handler /\ h2.pc = "next" /\ h2.routes = h.routes /\ h2.i = h.i /\ h2.krev = h.krev
        /\ h2.sent = h.sent /\ h2.rejected = h.rejected
    BY <1>2 DEF Handler
  <1>. HIDE DEF h2, h, l
  <1>4. h2 # Idle /\ ~Calling(h2) /\ ~Calling(h) /\ ~Turning(h2) /\ ~Turning(h) /\ At(h2) = At(h)
    BY <1>1, <1>3 DEF Idle, Calling, Turning, At
  <1>5. PlaceInv(h2) /\ l.from = 0
    BY <1>1, <1>2, <1>3 DEF RunningInv, PlaceInv, RowsInv
  <1>6. RequestInv(h2, l)
    BY <1>1, <1>2, <1>3, <1>4, <1>5, QuietStep
  <1>7. Behind(h2, revision, keys)
    BY <1>2, <1>3, <1>4 DEF Behind
  <1>8. Admission(h2, held[q])
    BY <1>1, <1>2, <1>3, <1>4 DEF Admission, FirstOf
  <1>. QED BY <1>1, <1>6, <1>7, <1>8, QuietFrame DEF l

-----------------------------------------------------------------------------
(* What a result does to the row of its key. *)

KeysInv(rows) ==
  /\ rows \in [UpstreamKey -> KeyRow]
  /\ \A k \in UpstreamKey : /\ rows[k].since <= rows[k].rev
                            /\ rows[k].status # "available" => rows[k].blame >= rows[k].since

LEMMA MarkedKeys ==
  ASSUME KeysInv(keys), NEW k \in UpstreamKey, NEW rev \in 0..MaxKeyRevision,
         NEW mark \in {"none", "model_limited", "available", "auth_invalid", "quota_exhausted", "rate_limited"},
         keys' = [keys EXCEPT ![k] = Marked(keys[k], rev, mark)]
  PROVE  KeysInv(keys') /\ \A n \in UpstreamKey : keys'[n].rev = keys[n].rev
  <1> DEFINE row == keys[k]
             row2 == Marked(row, rev, mark)
  <1>1. row \in KeyRow /\ keys \in [UpstreamKey -> KeyRow] /\ row.since <= row.rev
        /\ (row.status # "available" => row.blame >= row.since)
    BY DEF KeysInv
  <1>2. row2 \in KeyRow /\ row2.rev = row.rev /\ row2.since = row.since
        /\ (row2.status # "available" => row2.blame >= row2.since)
    <2>. HIDE DEF row
    <2>1. CASE mark \in {"none", "model_limited"} \/ row.rev # rev \/ ~row.enabled
      BY <1>1, <2>1 DEF Marked
    <2>2. CASE ~(mark \in {"none", "model_limited"} \/ row.rev # rev \/ ~row.enabled)
      <3>1. row2 = [row EXCEPT !.status = mark, !.blame = rev] /\ row.rev = rev
        BY <2>2 DEF Marked
      <3>2. row2 \in KeyRow
        <4>1. mark \in {"available", "auth_invalid", "quota_exhausted", "rate_limited"}
          BY <2>2
        <4>. HIDE DEF row2
        <4>. QED BY <1>1, <3>1, <4>1 DEF KeyRow
      <3>. HIDE DEF row2
      <3>3. row2.rev = row.rev /\ row2.since = row.since /\ row2.blame = rev
        BY <1>1, <3>1 DEF KeyRow
      <3>. QED BY <1>1, <3>1, <3>2, <3>3 DEF KeyRow
    <2>. QED BY <2>1, <2>2
  <1>3. keys' = [keys EXCEPT ![k] = row2]
    OBVIOUS
  <1>. HIDE DEF row2
  <1>. QED BY <1>1, <1>2, <1>3 DEF KeysInv

LEMMA StoreParts ==
  /\ StoreInv => KeysInv(keys)
  /\ StoreInv /\ KeysInv(keys') /\ UNCHANGED <<started, revision, config>> => StoreInv'
  BY DEF StoreInv, KeysInv, LateResultsIgnored

(* A key's row has a credential revision of its own. *)
LEMMA KeyType ==
  ASSUME StoreInv, NEW k \in UpstreamKey
  PROVE  keys[k] \in KeyRow /\ keys[k].rev \in 1..MaxKeyRevision /\ keys[k].rev \in Nat
  BY DEF StoreInv, KeyRow

(* The handler has a credential newer than the one that was rejected. *)
LEMMA CredentialTurn ==
  ASSUME NEW h \in Handler, NEW l \in RequestRow, RequestInv(h, l), h # Idle, h.pc = "credential",
         NEW h2 \in Handler, h2.pc = "attempt", h2.routes = h.routes, h2.i = h.i,
         h2.krev > h.rejected[At(h).key], h2.sent = h.sent, h2.rejected = h.rejected
  PROVE  RequestInv(h2, l) /\ h2 # Idle
  <1>1. h2 # Idle /\ ~Calling(h2) /\ ~Calling(h)
    BY DEF Idle, Calling
  <1>2. RunningInv(h, l)
    BY DEF RequestInv
  <1>3. PlaceInv(h2) /\ l.from = 0 /\ h.i \in Nat
    <2>1. h2.krev # 0
      <3>1. At(h).key \in UpstreamKey
        BY <1>2, RouteType DEF RunningInv, PlaceInv, At, Handler
      <3>. QED BY <3>1 DEF Handler
    <2>. QED BY <1>2, <2>1 DEF RunningInv, PlaceInv, RowsInv, Handler
  <1>4. ASSUME NEW m \in DOMAIN l.attempts, Same(l.attempts[m], At(h)), Rejected(h, l.attempts[m])
        PROVE  l.attempts[m].krev < h2.krev
    <2>1. l.attempts[m].krev \in Nat
      BY RowType
    <2>2. l.attempts[m].krev = h.rejected[At(h).key]
      BY <1>4 DEF Same, Rejected
    <2>3. h2.krev \in Nat
      BY DEF Handler
    <2>. QED BY <2>1, <2>2, <2>3
  <1>. QED BY <1>1, <1>3, <1>4, QuietStep

LEMMA CredentialStep ==
  ASSUME IInv, StoreInv', NEW q \in Request, Running(q), req[q].pc = "credential",
         NEW n \in 1..MaxKeyRevision, NEW refreshed \in BOOLEAN,
         req' = [req EXCEPT ![q].pc = "attempt", ![q].krev = n, ![q].refreshed = refreshed],
         UNCHANGED <<revision, log, held>>,
         n > req[q].rejected[At(req[q]).key], n = keys'[At(req[q]).key].rev,
         \A k \in UpstreamKey : keys[k].rev <= keys'[k].rev
  PROVE  IInv'
  <1> DEFINE h == req[q]
             l == log[q]
             h2 == [h EXCEPT !.pc = "attempt", !.krev = n, !.refreshed = refreshed]
  <1>1. /\ h \in Handler /\ l \in RequestRow /\ RequestInv(h, l) /\ h # Idle
        /\ Behind(h, revision, keys) /\ Admission(h, held[q]) /\ h.i \in DOMAIN h.routes
        /\ h.i \in Nat /\ Len(h.routes) \in Nat /\ RunningInv(h, l)
    BY Handling
  <1>2. req' = [req EXCEPT ![q] = h2]
    OBVIOUS
  <1>3. /\ RequestInv(h2, l) /\ h2 \in Handler /\ h2 # Idle /\ h2.pc = "attempt" /\ h2.krev = n
        /\ h2.routes = h.routes /\ h2.i = h.i /\ h2.rejected = h.rejected
    <2>1. /\ h2 \in Handler /\ h2.pc = "attempt" /\ h2.routes = h.routes /\ h2.i = h.i /\ h2.krev = n
          /\ h2.sent = h.sent /\ h2.rejected = h.rejected
      <3>1. n \in 0..MaxKeyRevision /\ h \in Handler
        BY <1>1
      <3>. HIDE DEF h
      <3>. QED BY <3>1 DEF Handler
    <2>2. h.pc = "credential" /\ h2.krev > h.rejected[At(h).key]
      BY <2>1
    <2>. HIDE DEF h, l, h2
    <2>. QED BY <1>1, <2>1, <2>2, CredentialTurn
  <1>4. /\ revision \in [Candidate -> 1..MaxRevision] /\ revision' \in [Candidate -> 1..MaxRevision]
        /\ keys \in [UpstreamKey -> KeyRow] /\ keys' \in [UpstreamKey -> KeyRow]
        /\ \A c \in Candidate : revision[c] <= revision'[c]
    BY DEF IInv, StoreInv
  <1>5. Behind(h, revision', keys')
    BY <1>1, <1>4, StaysBehind
  <1>6. At(h2) = At(h)
    BY <1>3 DEF At
  <1>7. n <= keys'[At(h2).key].rev
    <2>1. n = keys'[At(h2).key].rev
      BY <1>6
    <2>. HIDE DEF h
    <2>. QED BY <2>1
  <1>8. Behind(h2, revision', keys')
    BY <1>3, <1>5, <1>7 DEF Behind
  <1>9. Admission(h2, held[q])
    <2>1. h.pc = "credential" /\ h.i <= Len(h.routes)
      BY <1>1 DEF RunningInv, PlaceInv
    <2>. HIDE DEF h
    <2>. QED BY <1>1, <1>3, <1>6, <2>1 DEF Admission, Turning
  <1>. QED BY <1>2, <1>3, <1>4, <1>8, <1>9, Frame

LEMMA UseCredentialStep ==
  ASSUME IInv, NEW q \in Request, Running(q), UseCredential(q)
  PROVE  IInv'
  <1> DEFINE h == req[q]
             k == At(h).key
  <1>1. /\ h.pc = "credential" /\ h.rejected[k] # keys[k].rev
        /\ req' = [req EXCEPT ![q].pc = "attempt", ![q].krev = keys[k].rev,
                              ![q].refreshed = (h.rejected[k] # 0)]
        /\ UNCHANGED <<started, revision, config, keys, log, held>>
    BY DEF UseCredential, route, At, storeVars, breakerVars
  <1>2. h \in Handler /\ Behind(h, revision, keys) /\ h.i \in DOMAIN h.routes /\ StoreInv
    BY <1>1, Handling DEF IInv
  <1>3. k \in UpstreamKey
    BY <1>2, RouteType DEF At
  <1>4. h.rejected[k] \in Nat /\ keys[k].rev \in 1..MaxKeyRevision /\ h.rejected[k] <= keys[k].rev
    BY <1>2, <1>3, KeyType DEF Behind, Handler
  <1>5. keys[k].rev > h.rejected[k]
    BY <1>1, <1>4
  <1>6. StoreInv' /\ \A n \in UpstreamKey : keys[n].rev <= keys'[n].rev
    BY <1>1, <1>2, StoreParts, KeyType
  <1>7. (h.rejected[k] # 0) \in BOOLEAN
    OBVIOUS
  <1>. QED BY <1>1, <1>4, <1>5, <1>6, <1>7, CredentialStep

LEMMA RefreshStep ==
  ASSUME IInv, NEW q \in Request, Running(q), Refresh(q)
  PROVE  IInv'
  <1> DEFINE h == req[q]
             k == At(h).key
             next == keys[k].rev + 1
             row2 == IF kind(q) = "codex"
                     THEN [keys[k] EXCEPT !.rev = next, !.since = next, !.status = "available"]
                     ELSE [keys[k] EXCEPT !.rev = next]
  <1>1. /\ h.pc = "credential" /\ next <= MaxKeyRevision
        /\ keys' = [keys EXCEPT ![k] = row2]
        /\ req' = [req EXCEPT ![q].pc = "attempt", ![q].krev = next, ![q].refreshed = TRUE]
        /\ UNCHANGED <<started, revision, config, log, held>>
    BY DEF Refresh, route, At, breakerVars
  <1>2. h \in Handler /\ Behind(h, revision, keys) /\ h.i \in DOMAIN h.routes /\ StoreInv
    BY <1>1, Handling DEF IInv
  <1>3. k \in UpstreamKey
    BY <1>2, RouteType DEF At
  <1>4. /\ h.rejected[k] \in Nat /\ keys[k].rev \in 1..MaxKeyRevision /\ h.rejected[k] <= keys[k].rev
        /\ keys[k] \in KeyRow /\ KeysInv(keys)
    BY <1>2, <1>3, KeyType, StoreParts DEF Behind, Handler
  <1>5. next \in 1..MaxKeyRevision /\ next > h.rejected[k] /\ next > keys[k].rev
    BY <1>1, <1>4, GatewayAssumption
  <1>. HIDE DEF next
  <1>6. /\ row2 \in KeyRow /\ row2.rev = next /\ row2.since <= row2.rev
        /\ row2.status # "available" => row2.blame >= row2.since
    <2>1. keys[k].since \in 1..MaxKeyRevision /\ keys[k].since <= keys[k].rev
          /\ (keys[k].status # "available" => keys[k].blame >= keys[k].since)
      BY <1>3, <1>4 DEF KeysInv, KeyRow
    <2>2. CASE kind(q) = "codex"
      <3> DEFINE row3 == [keys[k] EXCEPT !.rev = next, !.since = next, !.status = "available"]
      <3>1. row2 = row3
        BY <2>2
      <3>. HIDE DEF row2
      <3>2. row3 \in KeyRow /\ row3.rev = next /\ row3.since = next /\ row3.status = "available"
        BY <1>4, <1>5 DEF KeyRow
      <3>. QED BY <1>5, <3>1, <3>2
    <2>3. CASE kind(q) # "codex"
      BY <1>4, <1>5, <2>1, <2>3 DEF KeyRow
    <2>. QED BY <2>2, <2>3
  <1>. HIDE DEF row2
  <1>7. KeysInv(keys') /\ keys'[k].rev = next
    BY <1>1, <1>3, <1>4, <1>6 DEF KeysInv
  <1>8. \A n \in UpstreamKey : keys[n].rev <= keys'[n].rev
    BY <1>1, <1>2, <1>3, <1>4, <1>5, <1>6, KeyType DEF KeysInv
  <1>9. StoreInv'
    BY <1>1, <1>2, <1>7, StoreParts
  <1>. QED BY <1>1, <1>5, <1>7, <1>8, <1>9, CredentialStep


-----------------------------------------------------------------------------
(* The end of a turn, for the whole gateway. *)

(* Where the loop goes after a turn, it holds the admission of the turn if *)
(* the route has the same candidate, and none if it has another.           *)
LEMMA TurnedAdmission ==
  ASSUME NEW h \in Handler, h.i \in DOMAIN h.routes, RoutesInv(h.routes),
         NEW h2 \in Handler, h2 # Idle, h2.routes = h.routes, h2.pc \in {"next", "backoff"},
         h2.i = h.i \/ (h2.i > h.i /\ h.routes[h2.i - 1].cand = At(h).cand),
         NEW c, For(c, At(h)),
         NEW c2, c2 = IF h2.i <= Len(h.routes) /\ h.routes[h2.i].cand = At(h).cand THEN c ELSE B!NoCall
  PROVE  Admission(h2, c2)
  <1>1. h2.i \in Nat \ {0} /\ h.i \in Nat \ {0} /\ Len(h.routes) \in Nat /\ DOMAIN h.routes = 1..Len(h.routes)
    BY DEF Handler
  <1>2. h2.pc # "resolve" /\ ~Turning(h2)
    BY DEF Turning
  <1>3. CASE h2.i > Len(h.routes)
    BY <1>1, <1>2, <1>3 DEF Admission
  <1>4. CASE h2.i <= Len(h.routes) /\ h.routes[h2.i].cand = At(h).cand
    <2>1. h2.i \in DOMAIN h.routes /\ h.i <= h2.i
      BY <1>1, <1>4
    <2>2. h.routes[h2.i].rev = At(h).rev
      BY <1>4, <2>1 DEF RoutesInv, At
    <2>3. For(c2, At(h2))
      BY <1>4, <2>2 DEF For, At
    <2>. QED BY <1>1, <1>2, <1>4, <2>3 DEF Admission
  <1>5. CASE h2.i <= Len(h.routes) /\ h.routes[h2.i].cand # At(h).cand
    <2>1. h2.i # h.i
      BY <1>5 DEF At
    <2>2. FirstOf(h2)
      BY <1>5, <2>1 DEF FirstOf
    <2>. QED BY <1>1, <1>2, <1>5, <2>2 DEF Admission
  <1>. QED BY <1>1, <1>3, <1>4, <1>5

(* The index after a turn is the same, or follows a route of the candidate. *)
LEMMA NextRoute ==
  ASSUME NEW h \in Handler, h.i \in DOMAIN h.routes, NEW v \in Verdicts, ~Ends(v)
  PROVE  LET n == NextIndex(h, v)
         IN  \/ n = h.i
             \/ n > h.i /\ h.routes[n - 1].cand = At(h).cand
  <1>1. h.routes \in Seq(Route) /\ h.i \in 1..Len(h.routes) /\ Len(h.routes) \in Nat /\ h.i \in Nat \ {0}
        /\ h.i <= Len(h.routes)
    BY DEF Handler
  <1>2. CASE v.move = "resend"
    BY <1>1, <1>2, NextIndexType
  <1>3. CASE v.move = "next"
    <2>1. NextIndex(h, v) = h.i + 1 /\ (h.i + 1) - 1 = h.i
      BY <1>1, <1>3, NextIndexType
    <2>. QED BY <1>1, <2>1 DEF At
  <1>4. CASE v.move = "skip"
    <2> DEFINE j == skipCandidate(h.routes, h.i)
    <2>1. j \in h.i..Len(h.routes) /\ \A n \in h.i..j : h.routes[n].cand = h.routes[h.i].cand
      BY <1>1, SkipType
    <2>2. NextIndex(h, v) = j + 1
      BY <1>1, <1>4, NextIndexType
    <2>. HIDE DEF j
    <2>3. j + 1 > h.i /\ (j + 1) - 1 = j /\ j \in h.i..j
      BY <1>1, <2>1
    <2>. QED BY <2>1, <2>2, <2>3 DEF At
  <1>. QED BY <1>2, <1>3, <1>4 DEF Ends, Verdicts

(* What the turn did to the row of the candidate's configuration. *)
LEMMA ConcludedStore ==
  ASSUME StoreInv, NEW k \in UpstreamKey, NEW c \in Candidate, NEW rev \in 1..MaxRevision,
         NEW krev \in 0..MaxKeyRevision, NEW v \in Verdicts,
         keys' = [keys EXCEPT ![k] = Marked(keys[k], krev, v.mark)],
         config' = IF v.config /\ revision[c] = rev
                   THEN [config EXCEPT ![c] = [status |-> "config_error", blame |-> rev]]
                   ELSE config,
         UNCHANGED <<started, revision>>
  PROVE  StoreInv' /\ \A n \in UpstreamKey : keys'[n].rev = keys[n].rev
  <1>1. v.mark \in {"none", "model_limited", "available", "auth_invalid", "quota_exhausted", "rate_limited"}
    BY DEF Verdicts
  <1>2. KeysInv(keys') /\ \A n \in UpstreamKey : keys'[n].rev = keys[n].rev
    BY <1>1, StoreParts, MarkedKeys
  <1>3. /\ config \in [Candidate -> [status : {"available", "config_error"}, blame : 0..MaxRevision]]
        /\ \A d \in Candidate : config[d].status = "config_error" => config[d].blame = revision[d]
        /\ started \in 0..MaxRequests /\ revision \in [Candidate -> 1..MaxRevision]
    BY DEF StoreInv, LateResultsIgnored
  <1> DEFINE row == [status |-> "config_error", blame |-> rev]
  <1>4. row \in [status : {"available", "config_error"}, blame : 0..MaxRevision] /\ row.blame = rev
    BY BoundsAssumption
  <1>. HIDE DEF row
  <1>5. /\ config' \in [Candidate -> [status : {"available", "config_error"}, blame : 0..MaxRevision]]
        /\ \A d \in Candidate : config'[d].status = "config_error" => config'[d].blame = revision[d]
    <2>1. CASE v.config /\ revision[c] = rev
      <3>1. config' = [config EXCEPT ![c] = row]
        BY <2>1 DEF row
      <3>. QED BY <1>3, <1>4, <2>1, <3>1
    <2>2. CASE ~(v.config /\ revision[c] = rev)
      BY <1>3, <2>2
    <2>. QED BY <2>1, <2>2
  <1>. QED BY <1>2, <1>3, <1>5 DEF StoreInv, KeysInv, LateResultsIgnored

(* The last change of a row is its only one. *)
LEMMA ExceptTwice ==
  ASSUME NEW f, NEW q \in DOMAIN f, NEW u, NEW w
  PROVE  /\ [[f EXCEPT ![q] = u] EXCEPT ![q] = w] = [f EXCEPT ![q] = w]
         /\ [f EXCEPT ![q] = u][q] = u
  OBVIOUS

(* Conclude as a step from values to values. *)
LEMMA ConcludeValues ==
  ASSUME IInv, NEW q \in Request, Running(q), Calling(req[q]),
         NEW v \in Verdicts, Conclude(q, v)
  PROVE  LET h == req[q]
             l == log[q]
             n == NextIndex(h, v)
             stays == n <= Len(h.routes) /\ h.routes[n].cand = At(h).cand
         IN  /\ req' = [req EXCEPT ![q] = TurnedHandler(h, v)]
             /\ log' = [log EXCEPT ![q] = TurnedRow(l, v)]
             /\ IF stays THEN held' = held ELSE held' = [held EXCEPT ![q] = B!NoCall]
             /\ StoreInv' /\ UNCHANGED <<started, revision>>
             /\ \A k \in UpstreamKey : keys'[k].rev = keys[k].rev
  <1> DEFINE h == req[q]
             l == log[q]
             n == NextIndex(h, v)
             stays == n <= Len(h.routes) /\ h.routes[n].cand = At(h).cand
  <1>1. req' = [req EXCEPT ![q] = TurnedHandler(h, v)]
    BY DEF Conclude, TurnedHandler, NextIndex, At, route
  <1>2. log' = [log EXCEPT ![q] = TurnedRow(l, v)]
    <2> DEFINE N == Len(log[q].attempts)
               s2 == IF Ends(v) THEN v.move ELSE "in_progress"
    <2>1. log' = [log EXCEPT ![q].attempts[N].status = v.row, ![q].attempts[N].report = v.report,
                             ![q].status = s2]
      BY DEF Conclude
    <2>2. q \in DOMAIN log
      BY DEF IInv, RequestsInv
    <2> DEFINE u  == [log[q] EXCEPT !.attempts[N].status = v.row]
               w  == [u EXCEPT !.attempts[N].report = v.report]
               z  == [w EXCEPT !.status = s2]
               f  == [log EXCEPT ![q].attempts[N].status = v.row]
               g  == [f EXCEPT ![q].attempts[N].report = v.report]
    <2>3. f = [log EXCEPT ![q] = u] /\ f[q] = u /\ q \in DOMAIN f
      BY <2>2
    <2>4. g = [f EXCEPT ![q] = w]
      BY <2>3
    <2>5. z = TurnedRow(l, v) /\ log' = [g EXCEPT ![q].status = s2]
      BY <2>1 DEF TurnedRow
    <2>. HIDE DEF u, w, f, g
    <2>6. g = [log EXCEPT ![q] = w] /\ g[q] = w
      BY <2>2, <2>3, <2>4, ExceptTwice
    <2>7. log' = [g EXCEPT ![q] = z]
      BY <2>5, <2>6
    <2>. HIDE DEF z
    <2>8. log' = [log EXCEPT ![q] = z]
      BY <2>2, <2>6, <2>7, ExceptTwice
    <2>. QED BY <2>5, <2>8
  <1>3. IF stays THEN held' = held ELSE held' = [held EXCEPT ![q] = B!NoCall]
    BY DEF Conclude, NextIndex, At, route, Leave
  <1>4. /\ keys' = [keys EXCEPT ![At(h).key] = Marked(keys[At(h).key], h.krev, v.mark)]
        /\ config' = IF v.config /\ revision[At(h).cand] = At(h).rev
                     THEN [config EXCEPT ![At(h).cand] = [status |-> "config_error", blame |-> At(h).rev]]
                     ELSE config
        /\ UNCHANGED <<started, revision>>
    BY DEF Conclude, At, route
  <1>5. h \in Handler /\ h.i \in DOMAIN h.routes /\ StoreInv
    BY Handling DEF Calling, IInv
  <1>. HIDE DEF h, l
  <1>6. /\ At(h).key \in UpstreamKey /\ At(h).cand \in Candidate /\ At(h).rev \in 1..MaxRevision
        /\ h.krev \in 0..MaxKeyRevision
    BY <1>5, RouteType DEF At, Handler
  <1>7. StoreInv' /\ \A k \in UpstreamKey : keys'[k].rev = keys[k].rev
    <2> DEFINE k == At(h).key
               c == At(h).cand
               rev == At(h).rev
               krev == h.krev
    <2>1. /\ keys' = [keys EXCEPT ![k] = Marked(keys[k], krev, v.mark)]
          /\ config' = IF v.config /\ revision[c] = rev
                       THEN [config EXCEPT ![c] = [status |-> "config_error", blame |-> rev]]
                       ELSE config
          /\ UNCHANGED <<started, revision>>
      BY <1>4
    <2>2. k \in UpstreamKey /\ c \in Candidate /\ rev \in 1..MaxRevision /\ krev \in 0..MaxKeyRevision
      BY <1>6
    <2>. HIDE DEF k, c, rev, krev
    <2>. QED BY <1>5, <2>1, <2>2, ConcludedStore
  <1>. QED BY <1>1, <1>2, <1>3, <1>4, <1>7 DEF h, l

LEMMA TurnedBehind ==
  ASSUME NEW h \in Handler, h.i \in DOMAIN h.routes, Turning(h), NEW v \in Verdicts, ~Ends(v),
         NEW rv, NEW ks, NEW ks2, Behind(h, rv, ks),
         \A k \in UpstreamKey : ks2[k].rev = ks[k].rev
  PROVE  Behind(TurnedHandler(h, v), rv, ks2)
  <1> DEFINE h2 == TurnedHandler(h, v)
  <1>1. /\ h2.pc \in {"backoff", "next"} /\ h2.routes = h.routes
        /\ \A k \in UpstreamKey :
             h2.rejected[k] = IF k = At(h).key /\ v.move = "resend" THEN h.krev ELSE h.rejected[k]
    BY TurnedHandlerType
  <1>. HIDE DEF h2
  <1>2. ~Turning(h2)
    BY <1>1 DEF Turning
  <1>3. \A n \in DOMAIN h.routes : h.routes[n].key \in UpstreamKey
    BY RouteType
  <1>. QED BY <1>1, <1>2, <1>3 DEF Behind, h2

(* A turn that ends, however it does, keeps the invariant. *)
LEMMA Concluding ==
  ASSUME IInv, NEW q \in Request, Running(q), Calling(req[q]), NEW v, Sound(v),
         v.move = "resend" => KindOf[At(req[q]).cand] # "key" /\ req[q].rejected[At(req[q]).key] = 0,
         req[q].sent = "content" => Ends(v),
         Conclude(q, v)
  PROVE  IInv'
  <1> DEFINE h == req[q]
             l == log[q]
             n == NextIndex(h, v)
             stays == n <= Len(h.routes) /\ h.routes[n].cand = At(h).cand
             h2 == TurnedHandler(h, v)
             l2 == TurnedRow(l, v)
             c2 == IF stays THEN held[q] ELSE B!NoCall
  <1>1. v \in Verdicts
    BY DEF Sound
  <1>2. /\ req' = [req EXCEPT ![q] = h2]
        /\ log' = [log EXCEPT ![q] = l2]
        /\ held' = [held EXCEPT ![q] = c2] \/ (held' = held /\ c2 = held[q])
        /\ StoreInv' /\ UNCHANGED <<started, revision>>
        /\ \A k \in UpstreamKey : keys'[k].rev = keys[k].rev
    BY <1>1, ConcludeValues
  <1>3. /\ h \in Handler /\ l \in RequestRow /\ RequestInv(h, l) /\ h # Idle
        /\ Behind(h, revision, keys) /\ Admission(h, held[q]) /\ RunningInv(h, l)
        /\ h.i \in Nat \ {0} /\ Len(h.routes) \in Nat
    BY Handling
  <1>4. h.i \in DOMAIN h.routes /\ Turning(h) /\ h.pc # "resolve"
    BY Handling DEF Calling, Turning
  <1>5. RequestInv(h2, l2)
    <2>1. /\ Calling(h)
          /\ v.move = "resend" => KindOf[At(h).cand] # "key" /\ h.rejected[At(h).key] = 0
          /\ h.sent = "content" => Ends(v)
      OBVIOUS
    <2>. HIDE DEF h, l
    <2>. QED BY <1>3, <2>1, ConcludeStep
  <1>6. h2 # Idle => ~Ends(v)
    BY DEF TurnedHandler
  <1>7. h2 # Idle => Behind(h2, revision, keys')
    <2> SUFFICES ASSUME ~Ends(v) PROVE Behind(h2, revision, keys')
      BY <1>6
    <2>1. \A k \in UpstreamKey : keys'[k].rev = keys[k].rev
      BY <1>2
    <2>. HIDE DEF h
    <2>. QED BY <1>1, <1>3, <1>4, <2>1, TurnedBehind
  <1>8. Admission(h2, c2)
    <2>1. CASE Ends(v)
      <3>1. h2 = Idle
        BY <2>1 DEF TurnedHandler
      <3>2. n = Len(h.routes) + 1 /\ h.i <= Len(h.routes)
        <4>1. h.i <= Len(h.routes)
          BY <1>3, <1>4, RouteType
        <4>. HIDE DEF h
        <4>. QED BY <1>1, <1>3, <2>1, <4>1, NextIndexType
      <3>3. c2 = B!NoCall
        <4>. HIDE DEF h, n
        <4>. QED BY <1>3, <3>2
      <3>. HIDE DEF c2, h2
      <3>. QED BY <3>1, <3>3, NoAdmission
    <2>2. CASE ~Ends(v)
      <3>. HIDE DEF h, l
      <3>1. /\ h2 \in Handler /\ h2 # Idle /\ h2.pc \in {"next", "backoff"} /\ h2.i = n
            /\ h2.routes = h.routes
        BY <1>1, <1>3, <1>4, <2>2, TurnedHandlerType
      <3>2. n = h.i \/ (n > h.i /\ h.routes[n - 1].cand = At(h).cand)
        BY <1>1, <1>3, <1>4, <2>2, NextRoute
      <3>3. For(held[q], At(h))
        BY <1>3, <1>4, RouteType DEF Admission
      <3>4. RoutesInv(h.routes)
        BY <1>3 DEF RunningInv
      <3>. HIDE DEF h2, n
      <3>. QED BY <1>3, <1>4, <3>1, <3>2, <3>3, <3>4, TurnedAdmission
    <2>. QED BY <2>1, <2>2
  <1>9. /\ \A c \in Candidate : revision[c] <= revision'[c]
        /\ \A k \in UpstreamKey : keys[k].rev <= keys'[k].rev
        /\ h2 # Idle => Behind(h2, revision', keys')
    <2>1. \A c \in Candidate : revision[c] \in Nat
      BY DEF IInv, StoreInv
    <2>2. \A k \in UpstreamKey : keys[k].rev \in Nat
      BY KeyType DEF IInv
    <2>. HIDE DEF h2
    <2>. QED BY <1>2, <1>7, <2>1, <2>2
  <1>. HIDE DEF h, l, h2, l2, c2
  <1>. QED BY <1>2, <1>5, <1>8, <1>9, Frame

-----------------------------------------------------------------------------
(* The outcomes of a call. *)

LEMMA CallPlace ==
  ASSUME IInv, NEW q \in Request, Running(q), Calling(req[q])
  PROVE  /\ req[q] \in Handler /\ kind(q) = KindOf[At(req[q]).cand] /\ kind(q) \in Kind
         /\ req[q].sent = "content" => req[q].pc = "relay"
         /\ req[q].pc = "relay" =>
              /\ req[q].mode \in IF kind(q) = "key" THEN {"buffered", "passthrough", "converted"} ELSE {kind(q)}
              /\ req[q].mode = "passthrough" => req[q].sent = "content"
              /\ req[q].mode = "buffered" => req[q].sent # "content"
  <1>1. req[q] \in Handler /\ RunningInv(req[q], log[q]) /\ req[q].i \in DOMAIN req[q].routes
    BY Handling DEF Calling
  <1>2. kind(q) = KindOf[At(req[q]).cand]
    BY DEF kind, route, At
  <1>3. KindOf[At(req[q]).cand] \in Kind
    BY <1>1, RouteType DEF At
  <1>. QED BY <1>1, <1>2, <1>3 DEF RunningInv, PlaceInv

LEMMA MayResendOnce ==
  ASSUME NEW q \in Request, MayResend(q)
  PROVE  req[q].rejected[At(req[q]).key] = 0
  BY DEF MayResend, route, At

(* The turn ends with a verdict that Concluding allows. *)
Concludes(q) ==
  \E v : /\ Sound(v)
         /\ v.move = "resend" => KindOf[At(req[q]).cand] # "key" /\ req[q].rejected[At(req[q]).key] = 0
         /\ req[q].sent = "content" => Ends(v)
         /\ Conclude(q, v)

LEMMA CallOutcomes ==
  ASSUME IInv, NEW q \in Request, Running(q),
         CallCancelled(q) \/ CallFails(q) \/ ErrorRead(q) \/ ErrorUnread(q)
  PROVE  Calling(req[q]) /\ Concludes(q)
  <1>1. Calling(req[q]) /\ req[q].pc \in {"call", "error"}
    BY DEF Calling, CallCancelled, CallFails, ErrorRead, ErrorUnread
  <1>2. req[q].sent # "content" /\ kind(q) \in Kind /\ kind(q) = KindOf[At(req[q]).cand]
    BY <1>1, CallPlace
  <1>3. CASE CallCancelled(q)
    <2> DEFINE v == Verdict("cancelled", "none", "cancelled")
    <2>1. Sound(v) /\ v.move # "resend"
      BY DEF Sound, Ends, Verdict, Verdicts
    <2>2. Conclude(q, v)
      BY <1>3 DEF CallCancelled
    <2>. HIDE DEF v
    <2>. QED BY <1>1, <1>2, <2>1, <2>2 DEF Concludes
  <1>4. CASE CallFails(q)
    <2> DEFINE v == [Verdict("failed", "failed", "skip") EXCEPT !.invalid = (kind(q) = "antigravity")]
    <2>1. Sound(v) /\ v.move # "resend"
      BY DEF Sound, Ends, Verdict, Verdicts
    <2>2. Conclude(q, v)
      BY <1>4 DEF CallFails
    <2>. HIDE DEF v
    <2>. QED BY <1>1, <1>2, <2>1, <2>2 DEF Concludes
  <1>5. CASE ErrorRead(q)
    <2>1. PICK e \in UpstreamError : Conclude(q, UncommittedError(kind(q), FALSE, e, MayResend(q)))
      BY <1>5 DEF ErrorRead
    <2> DEFINE v == UncommittedError(kind(q), FALSE, e, MayResend(q))
    <2>2. MayResend(q) \in BOOLEAN
      BY DEF MayResend
    <2>3. Sound(v) /\ (v.move = "resend" => MayResend(q) /\ kind(q) # "key")
      BY <1>2, <2>2, UncommittedErrorSound
    <2>. HIDE DEF v
    <2>. QED BY <1>1, <1>2, <2>1, <2>3, MayResendOnce DEF v, Concludes
  <1>6. CASE ErrorUnread(q)
    <2> DEFINE v == ErrorBodyLost(kind(q), req[q].client = "gone")
    <2>1. Sound(v) /\ v.move # "resend"
      BY ErrorBodyLostSound
    <2>2. Conclude(q, v)
      BY <1>6 DEF ErrorUnread
    <2>. HIDE DEF v
    <2>. QED BY <1>1, <1>2, <2>1, <2>2 DEF Concludes
  <1>. QED BY <1>1, <1>3, <1>4, <1>5, <1>6

LEMMA RelayOutcomes ==
  ASSUME IInv, NEW q \in Request, Running(q),
         RelayDone(q) \/ RelayBreaks(q) \/ RelayUnsaved(q) \/ RelayRejected(q) \/ RelayCancelled(q)
  PROVE  Calling(req[q]) /\ Concludes(q)
  <1>1. Calling(req[q]) /\ req[q].pc = "relay"
    BY DEF Calling, RelayDone, RelayBreaks, RelayUnsaved, RelayRejected, RelayCancelled
  <1>2. /\ kind(q) \in Kind /\ kind(q) = KindOf[At(req[q]).cand]
        /\ req[q].mode \in IF kind(q) = "key" THEN {"buffered", "passthrough", "converted"} ELSE {kind(q)}
        /\ req[q].mode = "passthrough" => req[q].sent = "content"
        /\ req[q].mode = "buffered" => req[q].sent # "content"
    BY <1>1, CallPlace
  <1>3. CASE RelayDone(q)
    <2>1. PICK written \in BOOLEAN : Conclude(q, Relayed(req[q].mode, written))
      BY <1>3 DEF RelayDone
    <2> DEFINE v == Relayed(req[q].mode, written)
    <2>2. Sound(v) /\ Ends(v)
      BY RelayedSound
    <2>. HIDE DEF v
    <2>. QED BY <1>1, <2>1, <2>2 DEF v, Ends, Concludes
  <1>4. CASE RelayBreaks(q)
    <2> DEFINE v == InvalidBody(req[q].mode, RelayCommitted(q))
    <2>1. /\ req[q].mode \in {"buffered", "passthrough", "converted", "codex", "antigravity"}
          /\ RelayCommitted(q) \in BOOLEAN
          /\ req[q].sent = "content" => RelayCommitted(q)
          /\ req[q].mode = "passthrough" => RelayCommitted(q)
          /\ req[q].mode = "buffered" => ~RelayCommitted(q)
      BY <1>2 DEF RelayCommitted, Committed, Kind
    <2>2. Sound(v) /\ v.move # "resend" /\ (RelayCommitted(q) => Ends(v))
      BY <2>1, InvalidBodySound
    <2>3. Conclude(q, v)
      BY <1>4 DEF RelayBreaks
    <2>. HIDE DEF v
    <2>. QED BY <1>1, <2>1, <2>2, <2>3 DEF Concludes
  <1>5. CASE RelayUnsaved(q)
    <2> DEFINE v == Verdict("failed", "none", "failed")
    <2>1. Sound(v) /\ v.move # "resend" /\ Ends(v)
      BY DEF Sound, Ends, Verdict, Verdicts
    <2>2. Conclude(q, v)
      BY <1>5 DEF RelayUnsaved
    <2>. HIDE DEF v
    <2>. QED BY <1>1, <2>1, <2>2 DEF Concludes
  <1>6. CASE RelayRejected(q)
    <2>1. PICK e \in UpstreamError :
            Conclude(q, IF Committed(q) THEN CommittedError(kind(q), e)
                        ELSE UncommittedError(kind(q), TRUE, e, MayResend(q)))
      BY <1>6 DEF RelayRejected
    <2>2. kind(q) # "key"
      BY <1>2, <1>6 DEF RelayRejected
    <2>3. CASE Committed(q)
      <3> DEFINE v == CommittedError(kind(q), e)
      <3>1. Sound(v) /\ Ends(v)
        BY <1>2, CommittedErrorSound
      <3>2. Conclude(q, v)
        BY <2>1, <2>3
      <3>. HIDE DEF v
      <3>. QED BY <1>1, <3>1, <3>2 DEF Ends, Concludes
    <2>4. CASE ~Committed(q)
      <3> DEFINE v == UncommittedError(kind(q), TRUE, e, MayResend(q))
      <3>1. MayResend(q) \in BOOLEAN
        BY DEF MayResend
      <3>2. Sound(v) /\ (v.move = "resend" => MayResend(q) /\ kind(q) # "key")
        BY <1>2, <2>2, <3>1, UncommittedErrorSound
      <3>3. Conclude(q, v) /\ req[q].sent # "content"
        BY <2>1, <2>4 DEF Committed
      <3>. HIDE DEF v
      <3>. QED BY <1>1, <1>2, <3>2, <3>3, MayResendOnce DEF Concludes
    <2>. QED BY <2>3, <2>4
  <1>7. CASE RelayCancelled(q)
    <2> DEFINE v == ClientLost(req[q].mode)
    <2>1. Sound(v) /\ Ends(v)
      BY ClientLostSound
    <2>2. Conclude(q, v)
      BY <1>7 DEF RelayCancelled
    <2>. HIDE DEF v
    <2>. QED BY <1>1, <2>1, <2>2 DEF Ends, Concludes
  <1>. QED BY <1>1, <1>3, <1>4, <1>5, <1>6, <1>7

LEMMA ConcludesInv ==
  ASSUME IInv, NEW q \in Request, Running(q), Calling(req[q]), Concludes(q)
  PROVE  IInv'
  BY Concluding DEF Concludes

(* The handler returns from between its calls. *)
LEMMA Returns ==
  ASSUME IInv, NEW q \in Request, Running(q),
         Reject(q) \/ CannotCall(q) \/ CredentialCancelled(q) \/ RetryCancelled(q) \/ Exhausted(q)
  PROVE  IInv'
  <1>1. ~Calling(req[q]) /\ UNCHANGED <<started, revision>>
    BY DEF Calling, Reject, CannotCall, CredentialCancelled, RetryCancelled, Exhausted
  <1>2. PICK status \in {"failed", "cancelled"} : FinishSilently(q, status)
    BY DEF Reject, CannotCall, CredentialCancelled, RetryCancelled, Exhausted
  <1>3. Finish(q, status) /\ Leave(q) /\ UNCHANGED <<config, keys>>
    BY <1>2 DEF FinishSilently
  <1>. QED BY <1>1, <1>3, ReturnStep

-----------------------------------------------------------------------------
(* The other steps of a turn. *)

LEMMA CredentialFailsStep ==
  ASSUME IInv, NEW q \in Request, Running(q), CredentialFails(q)
  PROVE  IInv'
  <1> DEFINE h == req[q]
             l == log[q]
             n == h.i + 1
             k == At(h).key
             pc2 == IF kind(q) = "codex" \/ n > Len(h.routes) THEN "next" ELSE "backoff"
             h2 == [h EXCEPT !.i = n, !.invalid = TRUE, !.pc = pc2]
             stays == n <= Len(h.routes) /\ h.routes[n].cand = At(h).cand
             c2 == IF stays THEN held[q] ELSE B!NoCall
  <1>1. /\ h.pc = "credential" /\ UNCHANGED <<started, revision, config, log>>
        /\ req' = [req EXCEPT ![q] = h2]
        /\ held' = [held EXCEPT ![q] = c2] \/ (held' = held /\ c2 = held[q])
    BY DEF CredentialFails, route, At, Leave
  <1>2. /\ h \in Handler /\ l \in RequestRow /\ RequestInv(h, l) /\ h # Idle
        /\ Behind(h, revision, keys) /\ Admission(h, held[q]) /\ RunningInv(h, l)
        /\ h.i \in Nat \ {0} /\ Len(h.routes) \in Nat /\ h.i \in DOMAIN h.routes /\ StoreInv
    BY <1>1, Handling DEF IInv
  <1>3. StoreInv' /\ \A m \in UpstreamKey : keys'[m].rev = keys[m].rev
    <2>1. PICK mark \in {"none", "auth_invalid", "available"} :
            keys' = [keys EXCEPT ![k] = Marked(keys[k], keys[k].rev, mark)]
      BY DEF CredentialFails, route, At
    <2>2. k \in UpstreamKey /\ keys[k].rev \in 0..MaxKeyRevision
      <3>1. k \in UpstreamKey
        BY <1>2, RouteType DEF At
      <3>. QED BY <1>2, <3>1, KeyType
    <2>. HIDE DEF k
    <2>3. KeysInv(keys') /\ \A m \in UpstreamKey : keys'[m].rev = keys[m].rev
      BY <1>2, <2>1, <2>2, StoreParts, MarkedKeys
    <2>. QED BY <1>1, <1>2, <2>3, StoreParts
  <1>4. pc2 \in {"next", "backoff"} /\ n \in Nat \ {0} /\ n > h.i /\ n - 1 = h.i
    BY <1>2
  <1>5. pc2 = "backoff" => n <= Len(h.routes)
    BY <1>2
  <1>. HIDE DEF pc2
  <1>6. /\ h2 \in Handler /\ h2.pc = pc2 /\ h2.routes = h.routes /\ h2.i = n
        /\ h2.sent = h.sent /\ h2.rejected = h.rejected
    BY <1>2, <1>4 DEF Handler
  <1>. HIDE DEF h2
  <1>7. h2 # Idle /\ ~Calling(h2) /\ ~Calling(h) /\ ~Turning(h2) /\ Turning(h)
    BY <1>1, <1>4, <1>6 DEF Idle, Calling, Turning
  <1>8. For(held[q], At(h))
    BY <1>1, <1>2, <1>7, RouteType DEF Admission
  <1>. HIDE DEF h, l, n, c2
  <1>9. PlaceInv(h2) /\ l.from = 0
    BY <1>1, <1>2, <1>4, <1>5, <1>6 DEF RunningInv, PlaceInv, RowsInv
  <1>10. RequestInv(h2, l)
    BY <1>1, <1>2, <1>4, <1>6, <1>7, <1>9, QuietStep
  <1>11. Behind(h2, revision, keys')
    <2>1. \A m \in DOMAIN h.routes : h.routes[m].key \in UpstreamKey
      BY <1>2, RouteType
    <2>. QED BY <1>2, <1>3, <1>6, <1>7, <2>1 DEF Behind
  <1>12. Admission(h2, c2)
    <2>1. RoutesInv(h.routes) /\ h.routes[n - 1].cand = At(h).cand
      BY <1>2, <1>4 DEF RunningInv, At
    <2>2. c2 = IF h2.i <= Len(h.routes) /\ h.routes[h2.i].cand = At(h).cand THEN held[q] ELSE B!NoCall
      BY <1>6 DEF c2
    <2>. QED BY <1>2, <1>4, <1>6, <1>7, <1>8, <2>1, <2>2, TurnedAdmission
  <1>13. /\ \A c \in Candidate : revision[c] <= revision'[c]
         /\ \A m \in UpstreamKey : keys[m].rev <= keys'[m].rev
         /\ Behind(h2, revision', keys')
    <2>1. \A c \in Candidate : revision[c] \in Nat
      BY <1>2 DEF StoreInv
    <2>2. \A m \in UpstreamKey : keys[m].rev \in Nat
      BY <1>2, KeyType
    <2>. QED BY <1>1, <1>3, <1>11, <2>1, <2>2
  <1>. QED BY <1>1, <1>3, <1>10, <1>12, <1>13, Frame DEF l

LEMMA StartAttemptStep ==
  ASSUME IInv, NEW q \in Request, Running(q), StartAttempt(q)
  PROVE  IInv'
  <1> DEFINE h == req[q]
             l == log[q]
             row == [cand |-> At(h).cand, key |-> At(h).key, krev |-> h.krev,
                     status |-> "in_progress", report |-> "none"]
             h2 == [h EXCEPT !.pc = "call"]
             l2 == [l EXCEPT !.attempts = Append(l.attempts, row)]
  <1>1. /\ h.pc = "attempt" /\ UNCHANGED <<started, revision, config, keys, held>>
        /\ req' = [req EXCEPT ![q] = h2] /\ log' = [log EXCEPT ![q] = l2]
    BY DEF StartAttempt, route, At, breakerVars
  <1>2. /\ h \in Handler /\ l \in RequestRow /\ RequestInv(h, l) /\ h # Idle
        /\ Behind(h, revision, keys) /\ Admission(h, held[q]) /\ RunningInv(h, l)
        /\ h.i \in DOMAIN h.routes /\ h.i \in Nat /\ Len(h.routes) \in Nat
    BY <1>1, Handling
  <1>3. RequestInv(h2, l2)
    <2>. HIDE DEF h, l
    <2>. QED BY <1>1, <1>2, AttemptStep
  <1>4. /\ h2 \in Handler /\ h2.pc = "call" /\ h2.routes = h.routes /\ h2.i = h.i /\ h2.krev = h.krev
        /\ h2.rejected = h.rejected
    BY <1>2 DEF Handler
  <1>. HIDE DEF h2, l2
  <1>5. h2 # Idle /\ Turning(h2) /\ Turning(h) /\ At(h2) = At(h)
    BY <1>1, <1>4 DEF Idle, Turning, At
  <1>. HIDE DEF h, l
  <1>6. Behind(h2, revision, keys)
    BY <1>2, <1>4, <1>5 DEF Behind
  <1>7. Admission(h2, held[q])
    BY <1>1, <1>2, <1>4, <1>5 DEF Admission
  <1>. QED BY <1>1, <1>3, <1>6, <1>7, QuietFrame

(* A step within a call: of what is kept of the place only pc, mode, sent  *)
(* and client change.                                                      *)
LEMMA CallingFrame ==
  ASSUME IInv, NEW q \in Request, Running(q), Calling(req[q]),
         NEW h2 \in Handler, NEW l2 \in RequestRow,
         req' = [req EXCEPT ![q] = h2],
         log' = [log EXCEPT ![q] = l2] \/ (log' = log /\ l2 = log[q]),
         UNCHANGED <<started, revision, config, keys, held>>,
         h2.routes = req[q].routes, h2.i = req[q].i, h2.krev = req[q].krev,
         h2.rejected = req[q].rejected, Calling(h2),
         l2.attempts = log[q].attempts, l2.status = log[q].status,
         l2.from # 0 => l2.from = Len(log[q].attempts) /\ h2.sent = "content",
         PlaceInv(h2)
  PROVE  IInv'
  <1> DEFINE h == req[q]
             l == log[q]
  <1>1. /\ h \in Handler /\ l \in RequestRow /\ RequestInv(h, l) /\ h # Idle
        /\ Behind(h, revision, keys) /\ Admission(h, held[q])
        /\ h.i \in DOMAIN h.routes /\ h.i \in Nat /\ Len(h.routes) \in Nat
    BY Handling DEF Calling
  <1>2. /\ Calling(h) /\ h2.routes = h.routes /\ h2.i = h.i /\ h2.krev = h.krev
        /\ h2.rejected = h.rejected /\ l2.attempts = l.attempts /\ l2.status = l.status
        /\ (l2.from # 0 => l2.from = Len(l.attempts) /\ h2.sent = "content")
    OBVIOUS
  <1>. HIDE DEF h, l
  <1>3. /\ h2 # Idle /\ Turning(h2) /\ Turning(h) /\ At(h2) = At(h)
        /\ h2.pc # "resolve" /\ h.pc # "resolve" /\ h2.pc # "attempt"
    BY <1>2 DEF Idle, Calling, Turning, At
  <1>4. RequestInv(h2, l2)
    BY <1>1, <1>2, <1>3, QuietStep
  <1>5. Behind(h2, revision, keys)
    BY <1>1, <1>2, <1>3 DEF Behind
  <1>6. Admission(h2, held[q])
    BY <1>1, <1>2, <1>3 DEF Admission
  <1>. QED BY <1>4, <1>5, <1>6, QuietFrame

LEMMA CallSteps ==
  ASSUME IInv, NEW q \in Request, Running(q),
         CallHeartbeat(q) \/ CallRefused(q) \/ CallAnswered(q) \/ RelayContent(q) \/ RelayHeartbeat(q)
  PROVE  IInv'
  <1> DEFINE h == req[q]
             l == log[q]
             row == [l EXCEPT !.from = Len(l.attempts)]
  <1>1. Calling(h) /\ UNCHANGED <<started, revision, config, keys, held>>
    BY DEF Calling, CallHeartbeat, CallRefused, CallAnswered, RelayContent, RelayHeartbeat,
           storeVars, breakerVars
  <1>2. h \in Handler /\ l \in RequestRow /\ RunningInv(h, l)
        /\ h.i \in DOMAIN h.routes /\ Len(l.attempts) \in Nat
    BY <1>1, Handling, RowType DEF Calling
  <1>3. PlaceInv(h) /\ (l.from # 0 => h.sent = "content") /\ (l.from # 0 => l.from = Len(l.attempts))
    <2>1. RequestInv(h, l)
      BY Handling
    <2>. QED BY <1>2, <2>1 DEF RequestInv, RunningInv, RowsInv
  <1>4. kind(q) = KindOf[At(h).cand] /\ kind(q) \in Kind
    BY <1>1, CallPlace
  <1>5. /\ row \in RequestRow /\ row.attempts = l.attempts /\ row.status = l.status
        /\ row.from = Len(l.attempts)
    BY <1>2 DEF RequestRow
  <1>6. CASE CallHeartbeat(q) \/ RelayHeartbeat(q)
    <2> DEFINE h2 == [h EXCEPT !.sent = "heartbeat"]
    <2>1. /\ req' = [req EXCEPT ![q] = h2] /\ log' = log
          /\ h.sent = "nothing" /\ (h.pc = "call" \/ (h.pc = "relay" /\ h.mode = "converted"))
      <3>1. req' = [req EXCEPT ![q] = h2] /\ log' = log
        BY <1>6 DEF CallHeartbeat, RelayHeartbeat, storeVars
      <3>. QED BY <1>6, <3>1 DEF CallHeartbeat, RelayHeartbeat, Committed
    <2>2. /\ h2 \in Handler /\ h2.pc = h.pc /\ h2.routes = h.routes /\ h2.i = h.i /\ h2.krev = h.krev
          /\ h2.rejected = h.rejected /\ h2.sent = "heartbeat" /\ h2.mode = h.mode /\ h2.stream = h.stream
      BY <1>2 DEF Handler
    <2>. HIDE DEF h2
    <2>3. Calling(h2) /\ At(h2) = At(h)
      BY <1>1, <2>2 DEF Calling, At
    <2>4. PlaceInv(h2)
      <3>. HIDE DEF h, l
      <3>. QED BY <1>3, <2>1, <2>2, <2>3 DEF PlaceInv
    <2>5. l.from = 0
      BY <1>3, <2>1
    <2>. QED BY <1>1, <1>2, <2>1, <2>2, <2>3, <2>4, <2>5, CallingFrame
  <1>7. CASE CallRefused(q)
    <2> DEFINE h2 == [h EXCEPT !.pc = "error"]
    <2>1. req' = [req EXCEPT ![q] = h2] /\ log' = log /\ h.pc = "call"
      BY <1>7 DEF CallRefused, storeVars
    <2>2. /\ h2 \in Handler /\ h2.pc = "error" /\ h2.routes = h.routes /\ h2.i = h.i /\ h2.krev = h.krev
          /\ h2.rejected = h.rejected /\ h2.sent = h.sent
      BY <1>2 DEF Handler
    <2>. HIDE DEF h2
    <2>3. Calling(h2)
      BY <2>2 DEF Calling
    <2>4. PlaceInv(h2)
      <3>. HIDE DEF h, l
      <3>. QED BY <1>3, <2>1, <2>2 DEF PlaceInv
    <2>5. l.from # 0 => l.from = Len(l.attempts) /\ h2.sent = "content"
      BY <1>3, <2>2
    <2>. QED BY <1>1, <1>2, <2>1, <2>2, <2>3, <2>4, <2>5, CallingFrame
  <1>8. CASE CallAnswered(q)
    <2>1. PICK mode \in {"buffered", "passthrough", "converted", "codex", "antigravity"} :
            /\ mode \in IF kind(q) = "key" THEN {"buffered", "passthrough", "converted"} ELSE {kind(q)}
            /\ mode = "passthrough" => h.stream
            /\ mode = "buffered" => ~h.stream
            /\ req' = [req EXCEPT ![q].pc = "relay", ![q].mode = mode,
                                  ![q].sent = IF mode = "passthrough" THEN "content" ELSE @]
            /\ log' = IF mode = "passthrough"
                      THEN [log EXCEPT ![q].from = Len(log[q].attempts)] ELSE log
      <3>1. CASE kind(q) # "key"
        BY <1>4, <1>8, <3>1 DEF CallAnswered, Kind
      <3>2. CASE kind(q) = "key" /\ ~h.stream
        BY <1>8, <3>2 DEF CallAnswered
      <3>3. CASE kind(q) = "key" /\ h.stream
        BY <1>8, <3>3 DEF CallAnswered
      <3>. QED BY <3>1, <3>2, <3>3
    <2> DEFINE sent2 == IF mode = "passthrough" THEN "content" ELSE h.sent
               h2 == [h EXCEPT !.pc = "relay", !.mode = mode, !.sent = sent2]
               l2 == IF mode = "passthrough" THEN row ELSE l
    <2>2. /\ req' = [req EXCEPT ![q] = h2] /\ h.pc = "call"
          /\ log' = [log EXCEPT ![q] = l2] \/ (log' = log /\ l2 = l)
      <3>1. h.pc = "call"
        BY <1>8 DEF CallAnswered
      <3>. QED BY <2>1, <3>1
    <2>3. sent2 \in {"nothing", "heartbeat", "content"}
      BY <1>2 DEF Handler
    <2>. HIDE DEF sent2
    <2>4. /\ h2 \in Handler /\ h2.pc = "relay" /\ h2.routes = h.routes /\ h2.i = h.i /\ h2.krev = h.krev
          /\ h2.rejected = h.rejected /\ h2.sent = sent2 /\ h2.mode = mode /\ h2.stream = h.stream
      BY <1>2, <2>3 DEF Handler
    <2>5. /\ l2 \in RequestRow /\ l2.attempts = l.attempts /\ l2.status = l.status
          /\ l2.from # 0 => mode = "passthrough" /\ l2.from = Len(l.attempts)
      <3>1. l.from = 0
        BY <1>3, <2>2 DEF PlaceInv
      <3>. HIDE DEF row, l
      <3>. QED BY <1>2, <1>5, <3>1
    <2>. HIDE DEF h2, l2
    <2>6. Calling(h2) /\ At(h2) = At(h)
      BY <2>4 DEF Calling, At
    <2>7. PlaceInv(h2)
      <3>1. /\ sent2 = "content" => mode = "passthrough"
            /\ mode = "passthrough" => sent2 = "content"
        BY <1>3, <2>2 DEF PlaceInv, sent2
      <3>2. h.i <= Len(h.routes)
        BY <1>3, <2>2 DEF PlaceInv
      <3>. HIDE DEF h, l
      <3>. QED BY <1>4, <2>1, <2>4, <2>6, <3>1, <3>2 DEF PlaceInv
    <2>8. l2.from # 0 => l2.from = Len(l.attempts) /\ h2.sent = "content"
      BY <2>4, <2>5 DEF sent2
    <2>. QED BY <1>1, <1>2, <2>2, <2>4, <2>5, <2>6, <2>7, <2>8, CallingFrame
  <1>9. CASE RelayContent(q)
    <2> DEFINE h2 == [h EXCEPT !.sent = "content"]
    <2>1. /\ req' = [req EXCEPT ![q] = h2] /\ log' = [log EXCEPT ![q] = row]
          /\ h.pc = "relay" /\ h.stream
      BY <1>9 DEF RelayContent
    <2>2. /\ h2 \in Handler /\ h2.pc = h.pc /\ h2.routes = h.routes /\ h2.i = h.i /\ h2.krev = h.krev
          /\ h2.rejected = h.rejected /\ h2.sent = "content" /\ h2.mode = h.mode /\ h2.stream = h.stream
      BY <1>2 DEF Handler
    <2>. HIDE DEF h2
    <2>3. Calling(h2) /\ At(h2) = At(h)
      BY <1>1, <2>2 DEF Calling, At
    <2>4. PlaceInv(h2)
      <3>. HIDE DEF h, l
      <3>. QED BY <1>3, <2>1, <2>2, <2>3 DEF PlaceInv
    <2>. HIDE DEF row
    <2>. QED BY <1>1, <1>2, <1>5, <2>1, <2>2, <2>3, <2>4, CallingFrame
  <1>. QED BY <1>6, <1>7, <1>8, <1>9

-----------------------------------------------------------------------------
(* The environment. *)

LEMMA DisconnectStep ==
  ASSUME IInv, NEW q \in Request, NEW client \in {"broken", "gone"}, Disconnect(q, client)
  PROVE  IInv'
  <1> DEFINE h == req[q]
             l == log[q]
             h2 == [h EXCEPT !.client = client]
  <1>1. /\ Running(q) /\ req' = [req EXCEPT ![q] = h2]
        /\ UNCHANGED <<started, revision, config, keys, log, held>>
    BY DEF Disconnect, storeVars, breakerVars
  <1>2. /\ h \in Handler /\ RequestInv(h, l) /\ h # Idle
        /\ Behind(h, revision, keys) /\ Admission(h, held[q])
    BY <1>1, Handling
  <1>3. /\ h2 \in Handler /\ h2.pc = h.pc /\ h2.routes = h.routes /\ h2.i = h.i /\ h2.krev = h.krev
        /\ h2.rejected = h.rejected /\ h2.sent = h.sent /\ h2.mode = h.mode /\ h2.stream = h.stream
    BY <1>2 DEF Handler
  <1>. HIDE DEF h2, h, l
  <1>4. /\ h2 # Idle /\ (Turning(h2) <=> Turning(h)) /\ (Calling(h2) <=> Calling(h)) /\ At(h2) = At(h)
        /\ (FirstOf(h2) <=> FirstOf(h)) /\ (\A a : Rejected(h2, a) <=> Rejected(h, a))
    BY <1>2, <1>3 DEF Idle, Calling, Turning, At, FirstOf, Rejected, Handler
  <1>5. RequestInv(h2, l)
    <2>1. RunningInv(h, l)
      BY <1>2 DEF RequestInv
    <2>2. RoutesInv(h2.routes) /\ PlaceInv(h2)
      BY <1>3, <1>4, <2>1 DEF RunningInv, PlaceInv
    <2>3. RowsInv(h2, l) /\ PairsInv(h2, l.attempts)
      BY <1>3, <1>4, <2>1 DEF RunningInv, RowsInv, PairsInv
    <2>4. AheadInv(h2, l.attempts)
      BY <1>3, <1>4, <2>1 DEF RunningInv, AheadInv
    <2>. QED BY <1>2, <1>3, <1>4, <2>2, <2>3, <2>4 DEF RequestInv, RunningInv
  <1>6. Behind(h2, revision, keys)
    BY <1>2, <1>3, <1>4 DEF Behind
  <1>7. Admission(h2, held[q])
    BY <1>2, <1>3, <1>4 DEF Admission
  <1>. QED BY <1>1, <1>5, <1>6, <1>7, QuietFrame DEF l

(* The store gets newer and the requests stay. *)
LEMMA StoreFrame ==
  ASSUME IInv, StoreInv', UNCHANGED <<req, log, held>>,
         \A c \in Candidate : revision[c] <= revision'[c],
         \A k \in UpstreamKey : keys[k].rev <= keys'[k].rev
  PROVE  IInv'
  <1>1. RequestsInv' /\ HeldInv'
    BY DEF IInv, RequestsInv, HeldInv
  <1>2. BehindInv'
    <2> SUFFICES ASSUME NEW q \in Request, req'[q] # Idle
                 PROVE  Behind(req'[q], revision', keys')
      BY DEF BehindInv, Running
    <2>1. req'[q] = req[q] /\ Running(q)
      BY DEF Running
    <2>2. /\ revision \in [Candidate -> 1..MaxRevision] /\ revision' \in [Candidate -> 1..MaxRevision]
          /\ keys \in [UpstreamKey -> KeyRow] /\ keys' \in [UpstreamKey -> KeyRow]
      BY DEF IInv, StoreInv
    <2>. QED BY <2>1, <2>2, Handling, StaysBehind DEF Turning
  <1>. QED BY <1>1, <1>2 DEF IInv

LEMMA EditStep ==
  ASSUME IInv, NEW c \in Candidate, EditCandidate(c)
  PROVE  IInv'
  <1> DEFINE row == [config[c] EXCEPT !.status = "available"]
  <1>1. /\ revision[c] < MaxRevision /\ revision' = [revision EXCEPT ![c] = revision[c] + 1]
        /\ config' = [config EXCEPT ![c] = row]
        /\ UNCHANGED <<keys, started, req, log, held>>
    BY DEF EditCandidate
  <1>2. /\ revision \in [Candidate -> 1..MaxRevision] /\ keys \in [UpstreamKey -> KeyRow]
        /\ config \in [Candidate -> [status : {"available", "config_error"}, blame : 0..MaxRevision]]
        /\ \A d \in Candidate : config[d].status = "config_error" => config[d].blame = revision[d]
        /\ StoreInv
    BY DEF IInv, StoreInv, LateResultsIgnored
  <1>3. row \in [status : {"available", "config_error"}, blame : 0..MaxRevision] /\ row.status = "available"
    BY <1>2
  <1>. HIDE DEF row
  <1>4. revision' \in [Candidate -> 1..MaxRevision] /\ \A d \in Candidate : revision[d] <= revision'[d]
    BY <1>1, <1>2, BoundsAssumption
  <1>5. /\ config' \in [Candidate -> [status : {"available", "config_error"}, blame : 0..MaxRevision]]
        /\ \A d \in Candidate : config'[d].status = "config_error" => config'[d].blame = revision'[d]
    <2>1. \A d \in Candidate \ {c} : config'[d] = config[d] /\ revision'[d] = revision[d]
      BY <1>1, <1>2
    <2>2. config'[c] = row
      BY <1>1, <1>2
    <2>. QED BY <1>1, <1>2, <1>3, <2>1, <2>2
  <1>6. StoreInv'
    BY <1>1, <1>2, <1>4, <1>5 DEF StoreInv, LateResultsIgnored
  <1>7. \A k \in UpstreamKey : keys[k].rev <= keys'[k].rev
    BY <1>1, <1>2, KeyType
  <1>. QED BY <1>1, <1>4, <1>6, <1>7, StoreFrame

LEMMA KeyStep ==
  ASSUME IInv, NEW k \in UpstreamKey, ToggleKey(k) \/ RenewKey(k)
  PROVE  IInv'
  <1> DEFINE n == keys[k].rev + 1
             toggled == [keys[k] EXCEPT !.rev = n, !.enabled = ~keys[k].enabled]
             renewed == [keys[k] EXCEPT !.rev = n, !.since = n, !.status = "available"]
  <1>1. /\ keys[k].rev < MaxKeyRevision /\ UNCHANGED <<revision, config, started, req, log, held>>
        /\ keys' = [keys EXCEPT ![k] = toggled] \/ keys' = [keys EXCEPT ![k] = renewed]
    BY DEF ToggleKey, RenewKey
  <1>2. StoreInv /\ KeysInv(keys) /\ keys[k] \in KeyRow /\ keys[k].rev \in 1..MaxKeyRevision
        /\ keys \in [UpstreamKey -> KeyRow]
    BY StoreParts, KeyType DEF IInv, StoreInv
  <1>3. n \in 1..MaxKeyRevision /\ n > keys[k].rev
    BY <1>1, <1>2, GatewayAssumption
  <1>4. keys[k].since \in 1..MaxKeyRevision /\ keys[k].since <= keys[k].rev /\ keys[k].blame \in 0..MaxKeyRevision
        /\ (keys[k].status # "available" => keys[k].blame >= keys[k].since)
    BY <1>2 DEF KeysInv, KeyRow
  <1>. HIDE DEF n
  <1>5. toggled \in KeyRow /\ toggled.rev = n /\ toggled.since = keys[k].since
        /\ toggled.status = keys[k].status /\ toggled.blame = keys[k].blame
    BY <1>2, <1>3 DEF KeyRow
  <1>6. renewed \in KeyRow /\ renewed.rev = n /\ renewed.since = n /\ renewed.status = "available"
    BY <1>2, <1>3 DEF KeyRow
  <1>. HIDE DEF toggled, renewed
  <1>7. PICK row \in {toggled, renewed} : keys' = [keys EXCEPT ![k] = row]
    BY <1>1
  <1>8. /\ row \in KeyRow /\ row.rev = n /\ row.since <= row.rev
        /\ row.status # "available" => row.blame >= row.since
    <2>1. n \in Nat /\ keys[k].rev \in Nat /\ keys[k].since \in Nat
      BY <1>2, <1>3, <1>4
    <2>. QED BY <1>3, <1>4, <1>5, <1>6, <1>7, <2>1
  <1>9. KeysInv(keys')
    BY <1>2, <1>7, <1>8 DEF KeysInv
  <1>10. \A m \in UpstreamKey : keys[m].rev <= keys'[m].rev
    <2>1. \A m \in UpstreamKey \ {k} : keys'[m] = keys[m]
      BY <1>2, <1>7
    <2>2. keys'[k].rev = n
      BY <1>2, <1>7, <1>8
    <2>. QED BY <1>2, <1>3, <2>1, <2>2, KeyType
  <1>11. StoreInv'
    BY <1>1, <1>2, <1>9, StoreParts
  <1>12. UNCHANGED <<req, log, held>> /\ \A c \in Candidate : revision[c] <= revision'[c]
    <2>1. \A c \in Candidate : revision[c] \in Nat
      BY <1>2 DEF StoreInv
    <2>. QED BY <1>1, <2>1
  <1>. QED BY <1>10, <1>11, <1>12, StoreFrame

LEMMA TickStep ==
  ASSUME IInv, Tick
  PROVE  IInv'
  <1>1. UNCHANGED <<started, revision, config, keys, req, log, held>>
    BY DEF Tick, storeVars
  <1>2. StoreInv'
    BY <1>1 DEF IInv, StoreInv, LateResultsIgnored
  <1>3. /\ \A c \in Candidate : revision[c] <= revision'[c]
        /\ \A k \in UpstreamKey : keys[k].rev <= keys'[k].rev
    BY <1>1 DEF IInv, StoreInv, KeyRow
  <1>. QED BY <1>1, <1>2, <1>3, StoreFrame

(* CloseInterruptedRequests, for one request: its row and the row in       *)
(* flight are closed.                                                      *)
LEMMA ClosedRows ==
  ASSUME NEW rows \in Seq(Attempt)
  PROVE  LET rows2 == [n \in DOMAIN rows |-> [rows[n] EXCEPT !.status = Closed(@)]]
         IN  /\ rows2 \in Seq(Attempt) /\ Len(rows2) = Len(rows) /\ DOMAIN rows2 = DOMAIN rows
             /\ \A n \in DOMAIN rows :
                  /\ Same(rows2[n], rows[n]) /\ rows2[n].krev = rows[n].krev
                  /\ rows2[n].report = rows[n].report /\ rows2[n].status = Closed(rows[n].status)
  <1> DEFINE row2(n) == [rows[n] EXCEPT !.status = Closed(rows[n].status)]
             rows2 == [n \in DOMAIN rows |-> row2(n)]
  <1>1. ASSUME NEW n \in DOMAIN rows
        PROVE  /\ row2(n) \in Attempt /\ Same(row2(n), rows[n]) /\ row2(n).krev = rows[n].krev
               /\ row2(n).report = rows[n].report /\ row2(n).status = Closed(rows[n].status)
    <2>1. rows[n] \in Attempt
      OBVIOUS
    <2>2. Closed(rows[n].status) \in {"in_progress", "completed", "failed", "cancelled"}
      BY <2>1 DEF Attempt, Closed
    <2>. QED BY <2>1, <2>2 DEF Attempt, Same
  <1>. HIDE DEF row2
  <1>2. rows2 \in Seq(Attempt) /\ Len(rows2) = Len(rows) /\ DOMAIN rows2 = DOMAIN rows
    <2>1. DOMAIN rows = 1..Len(rows) /\ Len(rows) \in Nat
      OBVIOUS
    <2>2. rows2 \in [1..Len(rows) -> Attempt]
      BY <1>1, <2>1
    <2>. HIDE DEF rows2
    <2>. QED BY <2>1, <2>2
  <1>3. \A n \in DOMAIN rows : rows2[n] = row2(n)
    OBVIOUS
  <1>. HIDE DEF rows2
  <1>. QED BY <1>1, <1>2, <1>3 DEF rows2, row2

LEMMA ClosedRow ==
  ASSUME NEW h, NEW l, RequestInv(h, l), NEW l2 \in RequestRow,
         l2.status = Closed(l.status), l2.from = l.from,
         Len(l2.attempts) = Len(l.attempts),
         \A n \in DOMAIN l.attempts :
            /\ Same(l2.attempts[n], l.attempts[n]) /\ l2.attempts[n].krev = l.attempts[n].krev
            /\ l2.attempts[n].report = l.attempts[n].report
            /\ l2.attempts[n].status = Closed(l.attempts[n].status)
  PROVE  RequestInv(Idle, l2)
  <1> DEFINE rows == l.attempts
             rows2 == l2.attempts
             N == Len(rows)
  <1>1. /\ l \in RequestRow /\ HistoryInv(rows) /\ (l.from # 0 => l.from = N)
        /\ N \in Nat /\ DOMAIN rows = 1..N /\ DOMAIN rows2 = 1..N
    BY RowType DEF RequestInv
  <1>2. N # 0 => N \in 1..N
    BY <1>1
  <1>3. ClosedInv(l2)
    <2>1. CASE h = Idle
      <3>1. ClosedInv(l)
        BY <2>1 DEF RequestInv
      <3>. QED BY <1>1, <1>2, <3>1 DEF ClosedInv, Closed
    <2>2. CASE h # Idle
      <3>1. RowsInv(h, l)
        BY <2>2 DEF RequestInv, RunningInv
      <3>. QED BY <1>1, <1>2, <3>1 DEF ClosedInv, RowsInv, Closed
    <2>. QED BY <2>1, <2>2
  <1>4. HistoryInv(rows2)
    <2>1. \A n \in 1..N : rows2[n].cand = rows[n].cand /\ rows2[n].key = rows[n].key
      BY <1>1 DEF Same
    <2>2. \A n \in 1..(N - 1) : n \in 1..N /\ rows2[n].status = "failed"
      BY <1>1 DEF HistoryInv, Closed
    <2>3. \A m, n \in 1..N : Same(rows2[m], rows2[n]) <=> Same(rows[m], rows[n])
      BY <2>1 DEF Same
    <2>4. \A n \in 1..N : Pair(rows2, n) <=> Pair(rows, n)
      BY <1>1, <2>3 DEF Pair
    <2>5. ASSUME NEW m \in 1..N, NEW n \in 1..N
          PROVE  /\ m < n /\ rows2[m].report = "failed" => rows2[m].cand # rows2[n].cand
                 /\ m < n /\ Same(rows2[m], rows2[n]) =>
                      KindOf[rows2[m].cand] # "key" /\ n = m + 1 /\ rows2[m].krev < rows2[n].krev
                 /\ m # n /\ Pair(rows2, m) /\ Pair(rows2, n) => rows2[m].key # rows2[n].key
      <3>1. /\ rows2[m].report = rows[m].report /\ rows2[m].krev = rows[m].krev
            /\ rows2[n].krev = rows[n].krev
        BY <1>1
      <3>. HIDE DEF rows2, rows, N
      <3>. QED BY <1>1, <2>1, <2>3, <2>4, <3>1 DEF HistoryInv
    <2>6. DOMAIN rows2 = 1..N /\ Len(rows2) = N
      BY <1>1
    <2>. HIDE DEF rows2, rows, N
    <2>. QED BY <2>2, <2>5, <2>6 DEF HistoryInv
  <1>. QED BY <1>1, <1>3, <1>4 DEF RequestInv

LEMMA RestartStep ==
  ASSUME IInv, Restart
  PROVE  IInv'
  <1>1. /\ req' = [q \in Request |-> Idle] /\ held' = [q \in Request |-> B!NoCall]
        /\ UNCHANGED <<started, revision, config, keys>>
    BY DEF Restart
  <1>2. ASSUME NEW q \in Request
        PROVE  RequestInv(Idle, log'[q])
    <2> DEFINE l == log[q]
               rows2 == [n \in DOMAIN l.attempts |-> [l.attempts[n] EXCEPT !.status = Closed(@)]]
               l2 == [l EXCEPT !.status = Closed(@), !.attempts = rows2]
    <2>1. log'[q] = l2
      BY DEF Restart
    <2>2. RequestInv(req[q], l) /\ l \in RequestRow /\ l.attempts \in Seq(Attempt)
      BY DEF IInv, RequestsInv, RequestRow
    <2>. HIDE DEF l
    <2>3. /\ rows2 \in Seq(Attempt) /\ Len(rows2) = Len(l.attempts)
          /\ \A n \in DOMAIN l.attempts :
               /\ Same(rows2[n], l.attempts[n]) /\ rows2[n].krev = l.attempts[n].krev
               /\ rows2[n].report = l.attempts[n].report /\ rows2[n].status = Closed(l.attempts[n].status)
      BY <2>2, ClosedRows
    <2>. HIDE DEF rows2
    <2>4. Closed(l.status) \in {"none", "in_progress", "completed", "failed", "cancelled"}
      BY <2>2 DEF RequestRow, Closed
    <2>5. /\ l2 \in RequestRow /\ l2.attempts = rows2 /\ l2.from = l.from
          /\ l2.status = Closed(l.status)
      BY <2>2, <2>3, <2>4 DEF RequestRow
    <2>. HIDE DEF l2
    <2>6. RequestInv(Idle, l2)
      BY <2>2, <2>3, <2>5, ClosedRow
    <2>. QED BY <2>1, <2>6
  <1>3. RequestsInv'
    <2>1. log' = [q \in Request |-> log'[q]]
      BY DEF Restart
    <2>2. \A q \in Request : log'[q] \in RequestRow
      BY <1>2 DEF RequestInv
    <2>3. log' \in [Request -> RequestRow]
      BY <2>1, <2>2
    <2>. QED BY <1>1, <1>2, <2>3 DEF RequestsInv
  <1>4. StoreInv'
    BY <1>1 DEF IInv, StoreInv, LateResultsIgnored
  <1>5. BehindInv'
    BY <1>1 DEF BehindInv, Running
  <1>6. HeldInv'
    BY <1>1, NoAdmission DEF HeldInv
  <1>. QED BY <1>3, <1>4, <1>5, <1>6 DEF IInv

-----------------------------------------------------------------------------
LEMMA InitInv == Init => IInv
  <1> SUFFICES ASSUME Init PROVE IInv
    OBVIOUS
  <1>1. RequestsInv
    <2>1. NoLog \in RequestRow
      <3>1. <<>> \in Seq(Attempt)
        OBVIOUS
      <3>. QED BY <3>1 DEF NoLog, RequestRow
    <2>2. NoLog.status = "none" /\ NoLog.attempts = <<>> /\ NoLog.from = 0
          /\ Len(<<>>) = 0 /\ DOMAIN <<>> = {}
      BY DEF NoLog
    <2>3. HistoryInv(NoLog.attempts) /\ ClosedInv(NoLog)
      BY <2>2 DEF HistoryInv, ClosedInv
    <2>4. RequestInv(Idle, NoLog)
      BY <2>1, <2>2, <2>3 DEF RequestInv
    <2>. QED BY <2>1, <2>4 DEF Init, RequestsInv
  <1>2. StoreInv
    <2>1. NewKey \in KeyRow /\ NewKey.status = "available" /\ NewKey.since = 1 /\ NewKey.rev = 1
      BY GatewayAssumption DEF NewKey, KeyRow
    <2>2. started \in 0..MaxRequests
      BY GatewayAssumption DEF Init
    <2>. QED BY <2>1, <2>2, BoundsAssumption DEF Init, StoreInv, LateResultsIgnored
  <1>3. BehindInv
    BY DEF Init, BehindInv, Running
  <1>4. HeldInv
    BY NoAdmission DEF Init, HeldInv
  <1>. QED BY <1>1, <1>2, <1>3, <1>4 DEF IInv

LEMMA HandlerInv ==
  ASSUME IInv, NEW q \in Request, HandlerStep(q)
  PROVE  IInv'
  <1>1. Running(q)
    BY DEF HandlerStep
  <1>2. CASE Reject(q) \/ CannotCall(q) \/ CredentialCancelled(q) \/ RetryCancelled(q) \/ Exhausted(q)
    BY <1>1, <1>2, Returns
  <1>3. CASE Resolve(q)
    BY <1>1, <1>3, ResolveStep
  <1>4. CASE SkipCooling(q)
    BY <1>1, <1>4, SkipCoolingStep
  <1>5. CASE Enter(q)
    BY <1>1, <1>5, EnterStep
  <1>6. CASE Retry(q)
    BY <1>1, <1>6, RetryStep
  <1>7. CASE UseCredential(q)
    BY <1>1, <1>7, UseCredentialStep
  <1>8. CASE Refresh(q)
    BY <1>1, <1>8, RefreshStep
  <1>9. CASE CredentialFails(q)
    BY <1>1, <1>9, CredentialFailsStep
  <1>10. CASE StartAttempt(q)
    BY <1>1, <1>10, StartAttemptStep
  <1>11. CASE CallHeartbeat(q) \/ CallRefused(q) \/ CallAnswered(q) \/ RelayContent(q) \/ RelayHeartbeat(q)
    BY <1>1, <1>11, CallSteps
  <1>12. CASE CallCancelled(q) \/ CallFails(q) \/ ErrorRead(q) \/ ErrorUnread(q)
    BY <1>1, <1>12, CallOutcomes, ConcludesInv
  <1>13. CASE RelayDone(q) \/ RelayBreaks(q) \/ RelayUnsaved(q) \/ RelayRejected(q) \/ RelayCancelled(q)
    BY <1>1, <1>13, RelayOutcomes, ConcludesInv
  <1>. QED BY <1>2, <1>3, <1>4, <1>5, <1>6, <1>7, <1>8, <1>9, <1>10, <1>11, <1>12, <1>13
          DEF HandlerStep, Loop, Prepare, Call, Relay

LEMMA NextInv == IInv /\ [Next]_vars => IInv'
  <1> SUFFICES ASSUME IInv, [Next]_vars PROVE IInv'
    OBVIOUS
  <1>1. ASSUME NEW q \in Request, NEW stream \in Streams, Start(q, stream) PROVE IInv'
    BY <1>1, StartStep
  <1>2. ASSUME NEW q \in Request, NEW client \in {"broken", "gone"}, Disconnect(q, client) PROVE IInv'
    BY <1>2, DisconnectStep
  <1>3. ASSUME NEW q \in Request, HandlerStep(q) PROVE IInv'
    BY <1>3, HandlerInv
  <1>4. ASSUME NEW c \in Candidate, EditCandidate(c) PROVE IInv'
    BY <1>4, EditStep
  <1>5. ASSUME NEW k \in Edited, ToggleKey(k) \/ RenewKey(k) PROVE IInv'
    BY <1>5, KeyStep, GatewayAssumption
  <1>6. CASE Tick
    BY <1>6, TickStep
  <1>7. CASE Restart
    BY <1>7, RestartStep
  <1>8. CASE UNCHANGED vars
    BY <1>8 DEF vars, IInv, RequestsInv, StoreInv, LateResultsIgnored, BehindInv, HeldInv, Running
  <1>. QED BY <1>1, <1>2, <1>3, <1>4, <1>5, <1>6, <1>7, <1>8 DEF Next

LEMMA Invariant == Spec => []IInv
  BY InitInv, NextInv, PTL DEF Spec

-----------------------------------------------------------------------------
(* What the invariant says of every request. *)

LEMMA EveryRequest ==
  ASSUME IInv, NEW q \in Request
  PROVE  /\ RequestInv(req[q], log[q]) /\ HistoryInv(Rows(q)) /\ DOMAIN Rows(q) = 1..Len(Rows(q))
         /\ Len(Rows(q)) \in Nat
  <1>1. RequestInv(req[q], log[q]) /\ log[q] \in RequestRow
    BY DEF IInv, RequestsInv
  <1>. QED BY <1>1, RowType DEF RequestInv, Rows

LEMMA ClosedLog == IInv => LogIsClosed
  <1> SUFFICES ASSUME IInv, NEW q \in Request
               PROVE  /\ Running(q) <=> log[q].status = "in_progress"
                      /\ \A n \in DOMAIN Rows(q) :
                           Rows(q)[n].status = "in_progress"
                             <=> n = Len(Rows(q)) /\ Running(q) /\ req[q].pc \in {"call", "error", "relay"}
    BY DEF LogIsClosed
  <1>1. /\ RequestInv(req[q], log[q]) /\ HistoryInv(Rows(q)) /\ DOMAIN Rows(q) = 1..Len(Rows(q))
        /\ Len(Rows(q)) \in Nat
    BY EveryRequest
  <1>2. Running(q) <=> log[q].status = "in_progress"
    BY <1>1 DEF RequestInv, RunningInv, RowsInv, ClosedInv, Running
  <1>3. ASSUME NEW n \in 1..Len(Rows(q)), n # Len(Rows(q))
        PROVE  Rows(q)[n].status = "failed"
    <2> DEFINE N == Len(Rows(q))
    <2>1. n \in 1..(N - 1)
      <3>1. N \in Nat /\ n \in 1..N /\ n # N
        BY <1>1, <1>3
      <3>. HIDE DEF N
      <3>. QED BY <3>1
    <2>. QED BY <1>1, <2>1 DEF HistoryInv
  <1>4. Len(Rows(q)) # 0 =>
          (Rows(q)[Len(Rows(q))].status = "in_progress" <=> Running(q) /\ req[q].pc \in {"call", "error", "relay"})
    BY <1>1 DEF RequestInv, RunningInv, RowsInv, ClosedInv, Running, Rows, Calling
  <1>5. ASSUME NEW n \in 1..Len(Rows(q))
        PROVE  Rows(q)[n].status = "in_progress"
                 <=> n = Len(Rows(q)) /\ Running(q) /\ req[q].pc \in {"call", "error", "relay"}
    <2>1. CASE n = Len(Rows(q))
      <3>1. Len(Rows(q)) # 0
        BY <1>1, <2>1
      <3>. QED BY <1>4, <2>1, <3>1
    <2>2. CASE n # Len(Rows(q))
      BY <1>3, <2>2
    <2>. QED BY <2>1, <2>2
  <1>. QED BY <1>1, <1>2, <1>5

LEMMA ServedCompletion == IInv => CompletedIsServed
  <1> SUFFICES ASSUME IInv, NEW q \in Request
               PROVE  /\ \A n \in 1..(Len(Rows(q)) - 1) : Rows(q)[n].status = "failed"
                      /\ log[q].status = "completed" =>
                           Rows(q) # <<>> /\ Rows(q)[Len(Rows(q))].status = "completed"
    BY DEF CompletedIsServed
  <1>1. RequestInv(req[q], log[q]) /\ HistoryInv(Rows(q))
    BY EveryRequest
  <1>2. log[q].status = "completed" => Len(Rows(q)) # 0 /\ Rows(q)[Len(Rows(q))].status = "completed"
    BY <1>1 DEF RequestInv, RunningInv, RowsInv, ClosedInv, Rows
  <1>. QED BY <1>1, <1>2 DEF HistoryInv

LEMMA UnsplicedResponses == IInv => NoSplicedResponses
  BY EveryRequest DEF NoSplicedResponses, RequestInv, Rows

LEMMA AbandonedCandidates == IInv => FailedCandidateAbandoned
  BY EveryRequest DEF FailedCandidateAbandoned, HistoryInv

LEMMA NewCredentials == IInv => ResendUsesNewCredential
  <1> SUFFICES ASSUME IInv, NEW q \in Request, NEW m \in DOMAIN Rows(q), NEW n \in DOMAIN Rows(q)
               PROVE  LET a == Rows(q)[m]
                          b == Rows(q)[n]
                      IN  /\ m < n /\ a.cand = b.cand /\ a.key = b.key =>
                               KindOf[a.cand] # "key" /\ n = m + 1 /\ a.krev < b.krev
                          /\ m # n /\ Resent(q, m) /\ Resent(q, n) => a.key # b.key
    BY DEF ResendUsesNewCredential
  <1>1. HistoryInv(Rows(q))
    BY EveryRequest
  <1>2. (Resent(q, m) <=> Pair(Rows(q), m)) /\ (Resent(q, n) <=> Pair(Rows(q), n))
    BY DEF Resent, Pair, Same
  <1>. QED BY <1>1, <1>2 DEF HistoryInv, Same

-----------------------------------------------------------------------------
(* For every request, however many run, with any candidates and keys: when *)
(* its handler has returned, or the process was started again, no row of   *)
(* it is left in_progress, and while it runs only the current call is.     *)
THEOREM GatewayLogCloses == Spec => []LogIsClosed
  BY Invariant, ClosedLog, PTL

(* A request is recorded as completed only if its last call was completed  *)
(* and the earlier ones failed.                                            *)
THEOREM GatewayCompletesServed == Spec => []CompletedIsServed
  BY Invariant, ServedCompletion, PTL

(* Once a response has reached the client, generateAuthorized calls no     *)
(* further upstream for the request.                                       *)
THEOREM GatewayNeverSplices == Spec => []NoSplicedResponses
  BY Invariant, UnsplicedResponses, PTL

(* A candidate that candidateFailed was called for is not called again by  *)
(* the same request.                                                       *)
THEOREM GatewayAbandonsFailed == Spec => []FailedCandidateAbandoned
  BY Invariant, AbandonedCandidates, PTL

(* A candidate is called twice with one key only for an OAuth account, at  *)
(* once, with a newer credential, and once per account.                    *)
THEOREM GatewayResendsRenewed == Spec => []ResendUsesNewCredential
  BY Invariant, NewCredentials, PTL

(* The five together, as the runs check them. *)
THEOREM GatewayRequestSafe == Spec => []RequestSafety
  <1>1. IInv => RequestSafety
    BY ClosedLog, ServedCompletion, UnsplicedResponses, AbandonedCandidates, NewCredentials
       DEF RequestSafety
  <1>. QED BY <1>1, Invariant, PTL

(* MarkUpstreamKeyRevision and the config_error mark never act on a row    *)
(* that was renewed since the call was made.                               *)
THEOREM GatewayIgnoresLate == Spec => []LateResultsIgnored
  <1>1. IInv => LateResultsIgnored
    BY DEF IInv, StoreInv
  <1>. QED BY <1>1, Invariant, PTL

-----------------------------------------------------------------------------
(* The request loop is a caller of the breaker: every step of the gateway  *)
(* is a step of CandidateBreaker, or leaves the breaker alone.             *)

(* CandidateBreaker changes an entry as the gateway does. *)
LEMMA SameEntries ==
  /\ B!Absent = Absent
  /\ \A e, v, t : /\ B!Ready(e, v, t) <=> Ready(e, v, t)
                  /\ B!GrantsProbe(e, v, t) <=> GrantsProbe(e, v, t)
                  /\ B!AfterReady(e, v, t) = AfterReady(e, v, t)
                  /\ B!AfterFailed(e, v, t) = AfterFailed(e, v, t)
                  /\ B!AfterSucceeded(e, v) = AfterSucceeded(e, v)
  <1>1. B!Absent = Absent
    BY DEF B!Absent, Absent
  <1> SUFFICES ASSUME NEW e, NEW v, NEW t
               PROVE  /\ B!Ready(e, v, t) <=> Ready(e, v, t)
                      /\ B!GrantsProbe(e, v, t) <=> GrantsProbe(e, v, t)
                      /\ B!AfterReady(e, v, t) = AfterReady(e, v, t)
                      /\ B!AfterFailed(e, v, t) = AfterFailed(e, v, t)
                      /\ B!AfterSucceeded(e, v) = AfterSucceeded(e, v)
    BY <1>1
  <1>2. B!GrantsProbe(e, v, t) <=> GrantsProbe(e, v, t)
    BY DEF B!GrantsProbe, GrantsProbe, B!Elapsed, Elapsed
  <1>3. B!Ready(e, v, t) <=> Ready(e, v, t)
    BY <1>2 DEF B!Ready, Ready
  <1>4. B!AfterReady(e, v, t) = AfterReady(e, v, t)
    BY <1>1, <1>2 DEF B!AfterReady, AfterReady
  <1>5. B!Counted(e, v) = Counted(e, v)
    BY DEF B!Counted, Counted
  <1>6. \A f : B!Opened(f, t) = Opened(f, t)
    BY DEF B!Opened, Opened
  <1>7. B!AfterFailed(e, v, t) = AfterFailed(e, v, t)
    BY <1>5, <1>6 DEF B!AfterFailed, AfterFailed
  <1>8. B!AfterSucceeded(e, v) = AfterSucceeded(e, v)
    BY <1>1 DEF B!AfterSucceeded, AfterSucceeded
  <1>. QED BY <1>2, <1>3, <1>4, <1>7, <1>8

(* In a turn, the request holds the admission of its route. *)
LEMMA TurnHolds ==
  ASSUME IInv, NEW q \in Request, Running(q), Turning(req[q])
  PROVE  /\ B!Holding(q) /\ held[q].cand = route(q).cand /\ held[q].rev = route(q).rev
         /\ route(q) = At(req[q])
  <1>1. Admission(req[q], held[q]) /\ req[q] # Idle /\ req[q].pc # "resolve"
        /\ req[q].i <= Len(req[q].routes) /\ req[q].i \in Nat /\ Len(req[q].routes) \in Nat
    BY Handling, RouteType DEF Turning
  <1>2. For(held[q], At(req[q]))
    BY <1>1 DEF Admission
  <1>. QED BY <1>2 DEF For, B!Holding, route, At

LEMMA LeaveIsStep ==
  ASSUME IInv, NEW q \in Request, Leave(q), UNCHANGED <<candidates, now, revision, streak>>
  PROVE  [B!Next]_(B!vars)
  <1>1. held = [p \in Request |-> held[p]] /\ held' = [held EXCEPT ![q] = B!NoCall]
    BY DEF IInv, HeldInv, Leave
  <1>2. CASE B!Holding(q)
    <2>1. B!LeaveSilently(q)
      BY <1>1, <1>2 DEF B!LeaveSilently
    <2>. QED BY <2>1 DEF B!Next, B!CallerStep
  <1>3. CASE ~B!Holding(q)
    <2>1. held' = held
      BY <1>1, <1>3 DEF B!Holding
    <2>. QED BY <2>1 DEF B!vars
  <1>. QED BY <1>2, <1>3

LEMMA EnterIsStep ==
  ASSUME IInv, NEW q \in Request, Running(q), Enter(q)
  PROVE  [B!Next]_(B!vars)
  <1> DEFINE r == route(q)
             c == r.cand
             v == r.rev
             call2 == [cand |-> c, rev |-> v, probe |-> B!Granted(c, v)]
  <1>1. /\ req[q].pc = "next" /\ req[q].i <= Len(req[q].routes)
        /\ UNCHANGED <<now, revision, streak>>
    BY DEF Enter
  <1>2. CASE ~Asks(q)
    BY <1>1, <1>2 DEF Enter, B!vars
  <1>3. CASE Asks(q)
    <2>1. /\ B!Ready(candidates[c], v, now)
          /\ candidates' = [candidates EXCEPT ![c] = B!AfterReady(candidates[c], v, now)]
          /\ held' = [held EXCEPT ![q] = call2]
      BY <1>3, SameEntries DEF Enter, B!Granted
    <2>2. /\ req[q] \in Handler /\ req[q] # Idle /\ req[q].i \in DOMAIN req[q].routes
          /\ Behind(req[q], revision, keys) /\ Admission(req[q], held[q]) /\ r = At(req[q])
      BY <1>1, Handling DEF route, At
    <2>3. /\ c \in Candidate /\ v \in 1..MaxRevision /\ v <= revision[c]
      BY <2>2, RouteType DEF At, Behind
    <2>4. v \in 1..revision[c]
      <3>1. revision[c] \in Nat
        BY <2>3 DEF IInv, StoreInv
      <3>. QED BY <2>3, <3>1
    <2>5. (held[q].cand = c /\ held[q].rev = v) \/ ~B!Holding(q)
      BY <1>1, <2>2 DEF Admission, For, B!Holding
    <2>. HIDE DEF c, v
    <2>6. CASE ~B!Holding(q)
      <3>1. B!Admit(q, c, v)
        BY <1>1, <2>1, <2>4, <2>6 DEF B!Admit
      <3>. QED BY <2>3, <3>1 DEF B!Next, B!CallerStep
    <2>7. CASE B!Holding(q)
      <3>1. B!AdmitAgain(q)
        BY <1>1, <2>1, <2>5, <2>7 DEF B!AdmitAgain
      <3>. QED BY <3>1 DEF B!Next, B!CallerStep
    <2>. QED BY <2>6, <2>7
  <1>. QED BY <1>2, <1>3

LEMMA ConcludeIsStep ==
  ASSUME IInv, NEW q \in Request, Running(q), Calling(req[q]), NEW v, Sound(v), Conclude(q, v)
  PROVE  [B!Next]_(B!vars)
  <1> DEFINE h == req[q]
             n == NextIndex(h, v)
             stays == n <= Len(h.routes) /\ h.routes[n].cand = At(h).cand
             c == held[q].cand
             u == held[q].rev
  <1>1. v \in Verdicts
    BY DEF Sound
  <1>2. B!Holding(q) /\ c = route(q).cand /\ u = route(q).rev
    BY TurnHolds DEF Calling, Turning
  <1>3. /\ IF stays THEN held' = held ELSE held' = [held EXCEPT ![q] = B!NoCall]
        /\ UNCHANGED <<now, revision>>
    BY <1>1, ConcludeValues DEF Conclude
  <1>4. CASE v.report = "failed"
    <2>1. /\ candidates' = [candidates EXCEPT ![c] = B!AfterFailed(candidates[c], u, now)]
          /\ streak' = [streak EXCEPT ![c] = [streak[c] EXCEPT ![u] = streak[c][u] + 1]]
      BY <1>2, <1>4, SameEntries DEF Conclude
    <2>2. ~stays
      <3>1. h \in Handler /\ h.i \in DOMAIN h.routes /\ h.routes \in Seq(Route) /\ Len(h.routes) \in Nat
            /\ h.i \in 1..Len(h.routes) /\ h.i <= Len(h.routes)
        BY Handling DEF Calling
      <3>. HIDE DEF h
      <3>2. CASE Ends(v)
        BY <1>1, <3>1, <3>2, NextIndexType
      <3>3. CASE v.move = "skip"
        <4> DEFINE j == skipCandidate(h.routes, h.i)
        <4>1. n = j + 1
          BY <1>1, <3>1, <3>3, NextIndexType
        <4>2. j \in h.i..Len(h.routes) /\ (j < Len(h.routes) => h.routes[j + 1].cand # h.routes[h.i].cand)
          BY <3>1, SkipType
        <4>. HIDE DEF j
        <4>. QED BY <3>1, <4>1, <4>2 DEF At
      <3>. QED BY <1>1, <1>4, <3>2, <3>3 DEF Sound, Ends, Verdicts
    <2>3. B!ReportFailed(q)
      BY <1>2, <1>3, <2>1, <2>2 DEF B!ReportFailed
    <2>. QED BY <2>3 DEF B!Next, B!CallerStep
  <1>5. CASE v.report = "succeeded"
    <2>1. /\ candidates' = [candidates EXCEPT ![c] = B!AfterSucceeded(candidates[c], u)]
          /\ streak' = [streak EXCEPT ![c] = [streak[c] EXCEPT ![u] = 0]]
      BY <1>2, <1>5, SameEntries DEF Conclude
    <2>2. B!ReportSucceeded(q)
      BY <1>2, <1>3, <2>1 DEF B!ReportSucceeded
    <2>. QED BY <2>2 DEF B!Next, B!CallerStep
  <1>6. CASE v.report = "none"
    <2>1. UNCHANGED <<candidates, streak>>
      BY <1>6 DEF Conclude
    <2>2. CASE stays
      BY <1>3, <2>1, <2>2 DEF B!vars
    <2>3. CASE ~stays
      BY <1>3, <2>1, <2>3, LeaveIsStep DEF Leave
    <2>. QED BY <2>2, <2>3
  <1>. QED BY <1>1, <1>4, <1>5, <1>6 DEF Verdicts

LEMMA CredentialFailsIsStep ==
  ASSUME IInv, NEW q \in Request, Running(q), CredentialFails(q)
  PROVE  [B!Next]_(B!vars)
  <1> DEFINE c == held[q].cand
             u == held[q].rev
  <1>1. B!Holding(q) /\ c = route(q).cand /\ u = route(q).rev
    BY TurnHolds DEF CredentialFails, Turning
  <1>2. UNCHANGED <<now, revision>> /\ (held' = held \/ Leave(q))
    BY DEF CredentialFails
  <1>3. CASE kind(q) = "codex"
    <2>1. UNCHANGED <<candidates, streak>>
      BY <1>3 DEF CredentialFails
    <2>. QED BY <1>2, <2>1, LeaveIsStep DEF B!vars
  <1>4. CASE kind(q) # "codex"
    <2>1. /\ candidates' = [candidates EXCEPT ![c] = B!AfterSucceeded(candidates[c], u)]
          /\ streak' = [streak EXCEPT ![c] = [streak[c] EXCEPT ![u] = 0]]
      BY <1>1, <1>4, SameEntries DEF CredentialFails
    <2>2. B!ReportSucceeded(q)
      BY <1>1, <1>2, <2>1 DEF B!ReportSucceeded, Leave
    <2>. QED BY <2>2 DEF B!Next, B!CallerStep
  <1>. QED BY <1>3, <1>4

LEMMA HandlerIsStep ==
  ASSUME IInv, NEW q \in Request, HandlerStep(q)
  PROVE  [B!Next]_(B!vars)
  <1>1. Running(q)
    BY DEF HandlerStep
  <1>2. CASE Reject(q) \/ CannotCall(q) \/ CredentialCancelled(q) \/ RetryCancelled(q) \/ Exhausted(q)
    <2>1. Leave(q) /\ UNCHANGED <<candidates, now, revision, streak>>
      BY <1>2 DEF Reject, CannotCall, CredentialCancelled, RetryCancelled, Exhausted, FinishSilently
    <2>. QED BY <2>1, LeaveIsStep
  <1>3. CASE SkipCooling(q)
    BY <1>3, LeaveIsStep DEF SkipCooling
  <1>4. CASE Enter(q)
    BY <1>1, <1>4, EnterIsStep
  <1>5. CASE \/ Resolve(q) \/ Retry(q) \/ UseCredential(q) \/ Refresh(q) \/ StartAttempt(q)
             \/ CallHeartbeat(q) \/ CallRefused(q) \/ CallAnswered(q) \/ RelayContent(q) \/ RelayHeartbeat(q)
    <2>1. UNCHANGED <<candidates, now, revision, held, streak>>
      BY <1>5 DEF Resolve, Retry, UseCredential, Refresh, StartAttempt, CallHeartbeat, CallRefused,
                  CallAnswered, RelayContent, RelayHeartbeat, breakerVars
    <2>. QED BY <2>1 DEF B!vars
  <1>6. CASE CredentialFails(q)
    BY <1>1, <1>6, CredentialFailsIsStep
  <1>7. CASE \/ CallCancelled(q) \/ CallFails(q) \/ ErrorRead(q) \/ ErrorUnread(q)
             \/ RelayDone(q) \/ RelayBreaks(q) \/ RelayUnsaved(q) \/ RelayRejected(q) \/ RelayCancelled(q)
    <2>1. Calling(req[q]) /\ Concludes(q)
      BY <1>1, <1>7, CallOutcomes, RelayOutcomes
    <2>. QED BY <1>1, <2>1, ConcludeIsStep DEF Concludes
  <1>. QED BY <1>2, <1>3, <1>4, <1>5, <1>6, <1>7 DEF HandlerStep, Loop, Prepare, Call, Relay

LEMMA NextIsStep ==
  ASSUME IInv, [Next]_vars
  PROVE  [B!Next]_(B!vars)
  <1>1. ASSUME NEW q \in Request, HandlerStep(q) PROVE [B!Next]_(B!vars)
    BY <1>1, HandlerIsStep
  <1>2. CASE \E q \in Request : \/ \E stream \in Streams : Start(q, stream)
                                \/ \E client \in {"broken", "gone"} : Disconnect(q, client)
    BY <1>2 DEF Start, Disconnect, breakerVars, B!vars
  <1>3. ASSUME NEW c \in Candidate, EditCandidate(c) PROVE [B!Next]_(B!vars)
    BY <1>3 DEF EditCandidate, B!EditCandidate, B!Next
  <1>4. CASE \E k \in Edited : ToggleKey(k) \/ RenewKey(k)
    BY <1>4 DEF ToggleKey, RenewKey, B!vars
  <1>5. CASE Tick
    BY <1>5 DEF Tick, B!Tick, B!Next
  <1>6. CASE Restart
    BY <1>6, SameEntries DEF Restart, B!Restart, B!Next
  <1>7. CASE UNCHANGED vars
    BY <1>7 DEF vars, B!vars
  <1>. QED BY <1>1, <1>2, <1>3, <1>4, <1>5, <1>6, <1>7 DEF Next

(* The request loop calls candidateReady, candidateFailed and              *)
(* candidateSucceeded only as CandidateBreaker allows a caller to: every   *)
(* behaviour of the gateway is one of the breaker and its callers.         *)
THEOREM GatewayIsBreakerCaller == Spec => ImplementsBreaker
  <1>1. Init => B!Init
    BY SameEntries DEF Init, B!Init
  <1>2. IInv /\ [Next]_vars => [B!Next]_(B!vars)
    BY NextIsStep
  <1>. QED BY <1>1, <1>2, Invariant, PTL DEF Spec, ImplementsBreaker, B!Spec

-----------------------------------------------------------------------------
(* The breaker itself, for callers of any kind: B!Spec says of the         *)
(* admissions held only what CandidateBreaker says, nothing of the request *)
(* loop.  It is opened only by failures of the revision it is open for,    *)
(* and one cooldown is probed by one request at a time.                    *)
(*                                                                         *)
(* Why an entry needs a stronger invariant (EntryInv): the reset of        *)
(* probing in candidateFailed sits under count >= Threshold, so it is      *)
(* enough only because a probing entry never has a smaller count.  And the *)
(* end of a cooldown identifies it (AdmissionInv): a later opening ends    *)
(* later than the moment any running probe was admitted.                   *)

(* The provers meet the Boolean field only through this definition. *)
Probing(e) == e.probing = TRUE

(* Entry e, with s the failures in a row per revision, at time t. *)
EntryOK(e, s, t) ==
  /\ e.revision \in 0..MaxRevision
  /\ e.revision = 0 => e.cooldownUntil = 0
  /\ e.revision # 0 => e.count <= s[e.revision]
  /\ e.cooldownUntil # 0 => e.count >= Threshold
  /\ Probing(e) => e.cooldownUntil # 0 /\ e.cooldownUntil <= t

EntryInv == \A c \in Candidate : EntryOK(candidates[c], streak[c], now)

(* A running probe of the cooldown that ended at u was admitted in the     *)
(* past, and if entry e is still in that cooldown, it knows of the probe.  *)
ProbeKnown(e, u, t) == u # 0 => u <= t /\ (e.cooldownUntil = u => Probing(e))

AdmissionInv ==
  \A q \in Request : B!Holding(q) =>
    /\ held[q].rev \in 1..MaxRevision
    /\ ProbeKnown(candidates[held[q].cand], held[q].probe, now)

BreakerInv == B!TypeOK /\ EntryInv /\ AdmissionInv /\ B!OneProbePerCooldown

-----------------------------------------------------------------------------
(* What the critical sections of candidateMu do to an entry. *)

LEMMA AbsentIsEntry == B!Absent \in B!Entry
  BY DEF B!Absent, B!Entry

LEMMA ProbingEntry ==
  ASSUME NEW e \in B!Entry, NEW b \in BOOLEAN
  PROVE  [e EXCEPT !.probing = b] \in B!Entry
  BY Zenon DEF B!Entry

LEMMA OpenedEntry ==
  ASSUME NEW e \in B!Entry, NEW t \in Nat
  PROVE  B!Opened(e, t) \in B!Entry
  <1>1. t + Cooldown \in Nat
    BY BreakerAssumption
  <1>. QED BY <1>1, Zenon DEF B!Entry, B!Opened

LEMMA ReadyEntry ==
  ASSUME NEW e \in B!Entry, NEW v \in B!Revision, NEW t \in Nat
  PROVE  /\ B!AfterReady(e, v, t) \in B!Entry
         /\ \/ B!AfterReady(e, v, t) = B!Absent
            \/ B!AfterReady(e, v, t) = e
            \/ B!GrantsProbe(e, v, t) /\ B!AfterReady(e, v, t) = [e EXCEPT !.probing = TRUE]
         /\ B!GrantsProbe(e, v, t) => B!AfterReady(e, v, t) = [e EXCEPT !.probing = TRUE]
  <1>1. e.revision \in Nat /\ v \in Nat
    BY DEF B!Entry, B!Revision
  <1>2. B!GrantsProbe(e, v, t) => ~(e.revision < v)
    BY <1>1 DEF B!GrantsProbe, B!Elapsed
  <1>3. [e EXCEPT !.probing = TRUE] \in B!Entry
    BY ProbingEntry
  <1>. QED BY <1>2, <1>3, AbsentIsEntry DEF B!AfterReady

(* The entry of a first failure of revision v. *)
FirstFailure(v) == [revision |-> v, count |-> 1, cooldownUntil |-> 0, probing |-> FALSE]

LEMMA CountedEntry ==
  ASSUME NEW e \in B!Entry, NEW v \in B!Revision, e.revision <= v
  PROVE  /\ B!Counted(e, v) \in B!Entry
         /\ e.revision = v => B!Counted(e, v) = [e EXCEPT !.count = e.count + 1]
         /\ e.revision # v => B!Counted(e, v) = FirstFailure(v)
  <1>1. e.revision \in Nat /\ v \in Nat /\ e.count + 1 \in Nat
    BY DEF B!Entry, B!Revision
  <1>2. FirstFailure(v) \in B!Entry
    BY <1>1 DEF FirstFailure, B!Entry
  <1>3. [e EXCEPT !.count = e.count + 1] \in B!Entry
    BY <1>1 DEF B!Entry
  <1>. QED BY <1>1, <1>2, <1>3 DEF B!Counted, FirstFailure

LEMMA FailedEntry ==
  ASSUME NEW e \in B!Entry, NEW v \in B!Revision, NEW t \in Nat
  PROVE  /\ B!AfterFailed(e, v, t) \in B!Entry
         /\ \/ e.revision > v /\ B!AfterFailed(e, v, t) = e
            \/ /\ e.revision <= v
               /\ B!Counted(e, v).count < Threshold
               /\ B!AfterFailed(e, v, t) = B!Counted(e, v)
            \/ /\ e.revision <= v
               /\ B!Counted(e, v).count >= Threshold
               /\ B!AfterFailed(e, v, t) = B!Opened(B!Counted(e, v), t)
  <1>1. CASE e.revision > v
    BY <1>1 DEF B!AfterFailed
  <1>2. CASE e.revision <= v
    <2> DEFINE n == B!Counted(e, v)
    <2>1. n \in B!Entry
      BY <1>2, CountedEntry
    <2>2. n.count \in Nat /\ e.revision \in Nat /\ v \in Nat
      BY <2>1 DEF B!Entry, B!Revision
    <2>3. B!AfterFailed(e, v, t) = IF n.count < Threshold THEN n
                                   ELSE B!Opened(n, t)
      BY <1>2, <2>2 DEF B!AfterFailed
    <2>4. B!Opened(n, t) \in B!Entry
      BY <2>1, OpenedEntry
    <2>. QED BY <1>2, <2>1, <2>2, <2>3, <2>4, BreakerAssumption
  <1>. QED BY <1>1, <1>2 DEF B!Entry, B!Revision

LEMMA SucceededEntry ==
  ASSUME NEW e \in B!Entry, NEW v \in B!Revision
  PROVE  B!AfterSucceeded(e, v) \in B!Entry /\ B!AfterSucceeded(e, v) \in {e, B!Absent}
  BY AbsentIsEntry DEF B!AfterSucceeded

-----------------------------------------------------------------------------
(* The same operations keep EntryOK and ProbeKnown. *)

LEMMA AbsentOK ==
  ASSUME NEW s, NEW t
  PROVE  EntryOK(B!Absent, s, t) /\ \A u : u # 0 /\ u <= t => ProbeKnown(B!Absent, u, t)
  <1>1. B!Absent.revision = 0 /\ B!Absent.cooldownUntil = 0
    BY DEF B!Absent
  <1>2. ~Probing(B!Absent)
    BY DEF B!Absent, Probing
  <1>. QED BY <1>1, <1>2, BoundsAssumption DEF EntryOK, ProbeKnown

LEMMA ReadyOK ==
  ASSUME NEW e \in B!Entry, NEW v \in B!Revision, NEW t \in Nat, NEW s, EntryOK(e, s, t)
  PROVE  /\ EntryOK(B!AfterReady(e, v, t), s, t)
         /\ \A u \in Nat : ProbeKnown(e, u, t) => ProbeKnown(B!AfterReady(e, v, t), u, t)
  <1>1. CASE B!AfterReady(e, v, t) = B!Absent
    BY <1>1, AbsentOK DEF ProbeKnown
  <1>2. CASE B!AfterReady(e, v, t) = e
    BY <1>2
  <1>3. CASE B!GrantsProbe(e, v, t) /\ B!AfterReady(e, v, t) = [e EXCEPT !.probing = TRUE]
    <2> DEFINE f == [e EXCEPT !.probing = TRUE]
    <2>1. /\ f.revision = e.revision /\ f.count = e.count
          /\ f.cooldownUntil = e.cooldownUntil
      BY DEF B!Entry
    <2>3. Probing(f)
      BY DEF B!Entry, Probing
    <2>2. e.cooldownUntil # 0 /\ e.cooldownUntil <= t
      BY <1>3 DEF B!GrantsProbe, B!Elapsed
    <2> HIDE DEF f
    <2>4. B!AfterReady(e, v, t) = f
      BY <1>3 DEF f
    <2>5. EntryOK(f, s, t)
      BY <2>1, <2>2, <2>3 DEF EntryOK
    <2>. QED BY <2>3, <2>4, <2>5 DEF ProbeKnown
  <1>. QED BY <1>1, <1>2, <1>3, ReadyEntry

LEMMA FailedOK ==
  ASSUME NEW e \in B!Entry, NEW v \in 1..MaxRevision, NEW t \in Nat,
         NEW s \in [1..MaxRevision -> Nat], EntryOK(e, s, t)
  PROVE  /\ EntryOK(B!AfterFailed(e, v, t), [s EXCEPT ![v] = s[v] + 1], t)
         /\ \A u \in Nat : ProbeKnown(e, u, t) => ProbeKnown(B!AfterFailed(e, v, t), u, t)
  <1> DEFINE f  == B!AfterFailed(e, v, t)
             z  == [s EXCEPT ![v] = s[v] + 1]
             n  == B!Counted(e, v)
  <1>0. v \in B!Revision /\ v \in Nat /\ MaxRevision \in Nat
    BY BoundsAssumption DEF B!Revision
  <1>1. z \in [1..MaxRevision -> Nat] /\ \A i \in 1..MaxRevision : s[i] <= z[i]
    BY <1>0
  <1>2. z[v] = s[v] + 1
    BY <1>0
  <1>e. e.revision \in Nat /\ e.count \in Nat /\ e.cooldownUntil \in Nat
    BY DEF B!Entry
  <1>g. \/ e.revision > v /\ f = e
        \/ e.revision <= v /\ n.count < Threshold /\ f = n
        \/ /\ e.revision <= v /\ n.count >= Threshold
           /\ f = B!Opened(n, t)
    <2>1. v \in B!Revision
      BY <1>0
    <2> HIDE DEF z
    <2>. QED BY <2>1, FailedEntry
  (* Whether the count has reached the threshold or not. *)
  <1>f. ASSUME e.revision <= v, n \in B!Entry, n.revision = v, n.count <= z[v], n.count \in Nat,
               n.count < Threshold => n.cooldownUntil = 0 /\ ~Probing(n)
        PROVE  /\ EntryOK(f, z, t)
               /\ \A u \in Nat : ProbeKnown(e, u, t) => ProbeKnown(f, u, t)
    <2>1. CASE n.count < Threshold
      <3> HIDE DEF z, f, n
      <3>1. f = n
        BY <1>f, <1>0, <1>e, <1>g, <2>1, BreakerAssumption
      <3>2. EntryOK(n, z, t)
        BY <1>f, <1>0, <2>1 DEF EntryOK
      <3>3. \A u \in Nat : ProbeKnown(e, u, t) => ProbeKnown(n, u, t)
        BY <1>f, <2>1 DEF ProbeKnown
      <3>. QED BY <3>1, <3>2, <3>3
    <2>2. CASE n.count >= Threshold
      <3> HIDE DEF z, f, n
      <3>1. f = B!Opened(n, t)
        BY <1>f, <1>0, <1>e, <1>g, <2>2, BreakerAssumption
      <3>2. /\ f.revision = n.revision /\ f.count = n.count
            /\ f.cooldownUntil = t + Cooldown /\ f.probing = FALSE
        BY <3>1, <1>f DEF B!Entry, B!Opened
      <3>3. ~Probing(f)
        BY <3>2 DEF Probing
      <3>4. t + Cooldown > t /\ t + Cooldown # 0
        BY BreakerAssumption
      <3>5. EntryOK(f, z, t)
        BY <1>f, <1>0, <2>2, <3>2, <3>3, <3>4 DEF EntryOK
      <3>6. \A u \in Nat : u <= t => f.cooldownUntil # u
        BY <3>2, <3>4, BreakerAssumption
      <3>. QED BY <3>5, <3>6 DEF ProbeKnown
    <2>. QED BY <1>f, <2>1, <2>2, BreakerAssumption
  <1>3. CASE e.revision > v /\ f = e
    <2>1. e.revision # 0 => e.count <= z[e.revision]
      BY <1>1, <1>e, <1>0 DEF EntryOK
    <2> HIDE DEF z, f
    <2>2. EntryOK(e, z, t)
      BY <2>1 DEF EntryOK
    <2>3. EntryOK(f, z, t) /\ \A u \in Nat : ProbeKnown(e, u, t) => ProbeKnown(f, u, t)
      BY <1>3, <2>2
    <2>. QED BY <2>3 DEF z, f
  <1>4. CASE e.revision <= v
    <2>1. n \in B!Entry
      BY <1>4, <1>0, CountedEntry
    <2>2. n.count \in Nat /\ n.cooldownUntil \in Nat
      BY <2>1 DEF B!Entry
    <2>3. CASE e.revision = v
      <3>1. n = [e EXCEPT !.count = e.count + 1]
        BY <1>4, <1>0, <2>3, CountedEntry
      <3>2. /\ n.revision = v /\ n.count = e.count + 1
            /\ n.cooldownUntil = e.cooldownUntil /\ n.probing = e.probing
        BY <2>3, <3>1 DEF B!Entry
      <3>3. n.count <= z[v]
        BY <2>3, <3>2, <1>2, <1>e, <1>0 DEF EntryOK
      <3>4. n.count < Threshold => n.cooldownUntil = 0 /\ ~Probing(n)
        <4>1. n.count < Threshold => e.cooldownUntil = 0
          BY <3>2, <1>e, BreakerAssumption DEF EntryOK
        <4>2. Probing(n) => Probing(e)
          BY <3>2 DEF Probing
        <4>. QED BY <4>1, <4>2, <3>2 DEF EntryOK
      <3>. QED BY <1>4, <3>2, <3>3, <3>4, <2>1, <2>2, <1>f
    <2>4. CASE e.revision # v
      <3>1. n = FirstFailure(v)
        BY <1>4, <1>0, <2>4, CountedEntry
      <3>2. n.revision = v /\ n.count = 1 /\ n.cooldownUntil = 0 /\ n.probing = FALSE
        BY <3>1 DEF FirstFailure
      <3>3. n.count <= z[v]
        BY <3>2, <1>2, <1>0
      <3>4. ~Probing(n)
        BY <3>2 DEF Probing
      <3>. QED BY <1>4, <3>2, <3>3, <3>4, <2>1, <2>2, <1>f
    <2>. QED BY <2>3, <2>4
  <1>. QED BY <1>3, <1>4, <1>g

LEMMA SucceededOK ==
  ASSUME NEW e \in B!Entry, NEW v \in 1..MaxRevision, NEW t \in Nat,
         NEW s \in [1..MaxRevision -> Nat], EntryOK(e, s, t)
  PROVE  /\ EntryOK(B!AfterSucceeded(e, v), [s EXCEPT ![v] = 0], t)
         /\ \A u \in Nat : ProbeKnown(e, u, t) => ProbeKnown(B!AfterSucceeded(e, v), u, t)
  <1>1. CASE e.revision = v
    BY <1>1, AbsentOK DEF B!AfterSucceeded, ProbeKnown
  <1>2. CASE e.revision # v
    BY <1>2 DEF B!AfterSucceeded, EntryOK
  <1>. QED BY <1>1, <1>2

-----------------------------------------------------------------------------
LEMMA BreakerInit == B!Init => BreakerInv
  <1> SUFFICES ASSUME B!Init PROVE BreakerInv
    OBVIOUS
  <1> USE BreakerAssumption, BoundsAssumption DEF B!Init
  <1>1. B!TypeOK
    BY AbsentIsEntry DEF B!TypeOK, B!Revision
  <1>2. EntryInv
    BY AbsentOK DEF EntryInv
  <1>3. AdmissionInv /\ B!OneProbePerCooldown
    BY DEF AdmissionInv, B!OneProbePerCooldown, B!Holding
  <1>. QED BY <1>1, <1>2, <1>3 DEF BreakerInv

(* What a caller that holds an admission holds. *)
LEMMA HeldCall ==
  ASSUME BreakerInv, NEW q \in Request, B!Holding(q)
  PROVE  /\ held[q] \in B!Call
         /\ held[q].cand \in Candidate
         /\ held[q].rev \in B!Revision /\ held[q].rev \in 1..MaxRevision
         /\ held[q].probe \in Nat
         /\ candidates[held[q].cand] \in B!Entry
         /\ now \in Nat
  BY DEF BreakerInv, B!TypeOK, AdmissionInv, B!Holding, B!Call

(* A step at one instant that admits nobody keeps the invariant if it      *)
(* keeps the entries right and forgets no running probe.                   *)
LEMMA BreakerNoAdmission ==
  ASSUME BreakerInv, B!TypeOK', EntryInv', now' = now,
         \A p \in Request : held'[p] = held[p] \/ held'[p] = B!NoCall,
         \A c \in Candidate : \A u \in Nat :
           ProbeKnown(candidates[c], u, now) => ProbeKnown(candidates'[c], u, now)
  PROVE  BreakerInv'
  <1>1. ASSUME NEW p \in Request, B!Holding(p)'
        PROVE  B!Holding(p) /\ held'[p] = held[p]
    BY <1>1 DEF B!Holding, B!NoCall
  <1>2. AdmissionInv'
    <2>1. SUFFICES ASSUME NEW p \in Request, B!Holding(p)'
                   PROVE  /\ held'[p].rev \in 1..MaxRevision
                          /\ ProbeKnown(candidates'[held'[p].cand], held'[p].probe, now)
      BY DEF AdmissionInv
    <2>2. B!Holding(p) /\ held'[p] = held[p]
      BY <1>1, <2>1
    <2>3. held[p].rev \in 1..MaxRevision /\ held[p].cand \in Candidate /\ held[p].probe \in Nat
      BY <2>2, HeldCall
    <2>4. ProbeKnown(candidates[held[p].cand], held[p].probe, now)
      BY <2>2 DEF BreakerInv, AdmissionInv
    <2>. QED BY <2>2, <2>3, <2>4
  <1>3. B!OneProbePerCooldown'
    BY <1>1 DEF BreakerInv, B!OneProbePerCooldown
  <1>. QED BY <1>2, <1>3 DEF BreakerInv

(* candidateReady lets caller q through. *)
LEMMA BreakerAdmission ==
  ASSUME BreakerInv, NEW q \in Request, NEW c \in Candidate, NEW v \in 1..MaxRevision,
         candidates' = [candidates EXCEPT ![c] = B!AfterReady(candidates[c], v, now)],
         held' = [held EXCEPT ![q] = [cand |-> c, rev |-> v, probe |-> B!Granted(c, v)]],
         UNCHANGED <<now, revision, streak>>
  PROVE  BreakerInv'
  <1> DEFINE e == candidates[c]
             f == B!AfterReady(e, v, now)
  <1>1. e \in B!Entry /\ v \in B!Revision /\ now \in Nat /\ EntryOK(e, streak[c], now)
    BY BoundsAssumption DEF BreakerInv, B!TypeOK, EntryInv, B!Revision
  <1>2. f \in B!Entry /\ (B!GrantsProbe(e, v, now) => f = [e EXCEPT !.probing = TRUE])
    BY <1>1, ReadyEntry
  <1>3. /\ EntryOK(f, streak[c], now)
        /\ \A u \in Nat : ProbeKnown(e, u, now) => ProbeKnown(f, u, now)
    BY <1>1, ReadyOK
  <1>4. e.cooldownUntil \in Nat
    BY <1>1 DEF B!Entry
  <1>5. B!Granted(c, v) \in Nat
    BY <1>4 DEF B!Granted
  <1>6. B!Granted(c, v) # 0 => /\ B!GrantsProbe(e, v, now)
                               /\ B!Granted(c, v) = e.cooldownUntil
                               /\ e.cooldownUntil <= now
                               /\ ~Probing(e)
    BY DEF B!Granted, B!GrantsProbe, B!Elapsed, Probing
  <1>7. B!Granted(c, v) # 0 => Probing(f)
    <2>1. Probing([e EXCEPT !.probing = TRUE])
      BY <1>1 DEF B!Entry, Probing
    <2>. QED BY <1>2, <1>6, <2>1
  <1> HIDE DEF e, f
  <1>8. /\ candidates'[c] = f
        /\ \A d \in Candidate : d # c => candidates'[d] = candidates[d]
    BY DEF e, f, BreakerInv, B!TypeOK
  <1>9. /\ held'[q] = [cand |-> c, rev |-> v, probe |-> B!Granted(c, v)]
        /\ \A p \in Request : p # q => held'[p] = held[p] /\ (B!Holding(p)' <=> B!Holding(p))
    BY DEF BreakerInv, B!TypeOK, B!Holding, B!NoCall
  <1>10. B!TypeOK'
    <2>1. held'[q] \in B!Call
      BY <1>1, <1>5, <1>9 DEF B!Call
    <2>2. held' \in [Request -> B!Call \cup {B!NoCall}]
      BY <2>1, <1>9 DEF BreakerInv, B!TypeOK
    <2>3. candidates' \in [Candidate -> B!Entry]
      BY <1>2 DEF e, f, BreakerInv, B!TypeOK
    <2>. QED BY <2>2, <2>3 DEF BreakerInv, B!TypeOK
  <1>11. EntryInv'
    BY <1>3, <1>8 DEF BreakerInv, EntryInv
  <1>12. AdmissionInv'
    <2>1. SUFFICES ASSUME NEW p \in Request, B!Holding(p)'
                   PROVE  /\ held'[p].rev \in 1..MaxRevision
                          /\ ProbeKnown(candidates'[held'[p].cand], held'[p].probe, now)
      BY DEF AdmissionInv
    <2>2. CASE p = q
      <3>1. ProbeKnown(f, B!Granted(c, v), now)
        BY <1>6, <1>7 DEF ProbeKnown
      <3>. QED BY <2>2, <3>1, <1>8, <1>9
    <2>3. CASE p # q
      <3>1. B!Holding(p) /\ held'[p] = held[p]
        BY <2>1, <2>3, <1>9
      <3>2. held[p].rev \in 1..MaxRevision /\ held[p].cand \in Candidate /\ held[p].probe \in Nat
        BY <3>1, HeldCall
      <3>3. ProbeKnown(candidates[held[p].cand], held[p].probe, now)
        BY <3>1 DEF BreakerInv, AdmissionInv
      <3>. QED BY <3>1, <3>2, <3>3, <1>3, <1>8 DEF e
    <2>. QED BY <2>2, <2>3
  <1>13. B!OneProbePerCooldown'
    (* Another running probe of this cooldown would have left probing set. *)
    <2>1. ASSUME NEW p \in Request, p # q, B!Holding(p), held[p].cand = c, held[p].probe # 0
          PROVE  held[p].probe # B!Granted(c, v)
      <3>1. ProbeKnown(e, held[p].probe, now)
        BY <2>1 DEF BreakerInv, AdmissionInv, e
      <3>. QED BY <2>1, <3>1, <1>6 DEF ProbeKnown
    <2>2. SUFFICES ASSUME NEW p \in Request, NEW r \in Request, p # r,
                          B!Holding(p)', B!Holding(r)', held'[p].cand = held'[r].cand,
                          held'[p].probe # 0
                   PROVE  held'[p].probe # held'[r].probe
      BY DEF B!OneProbePerCooldown
    <2>3. CASE p = q
      BY <2>1, <2>2, <2>3, <1>9
    <2>4. CASE r = q
      BY <2>1, <2>2, <2>4, <1>9
    <2>5. CASE p # q /\ r # q
      BY <2>2, <2>5, <1>9 DEF BreakerInv, B!OneProbePerCooldown
    <2>. QED BY <2>3, <2>4, <2>5
  <1>. QED BY <1>10, <1>11, <1>12, <1>13 DEF BreakerInv

LEMMA StreakType ==
  ASSUME NEW s \in [1..MaxRevision -> Nat], NEW v \in 1..MaxRevision
  PROVE  [s EXCEPT ![v] = s[v] + 1] \in [1..MaxRevision -> Nat]
  OBVIOUS

LEMMA ReportFailedInv ==
  ASSUME BreakerInv, NEW q \in Request, B!ReportFailed(q)
  PROVE  BreakerInv'
  <1> DEFINE c == held[q].cand
             v == held[q].rev
             f == B!AfterFailed(candidates[c], v, now)
             z == [streak[c] EXCEPT ![v] = streak[c][v] + 1]
  <1>1. /\ B!Holding(q) /\ UNCHANGED <<now, revision>>
        /\ candidates' = [candidates EXCEPT ![c] = f]
        /\ streak' = [streak EXCEPT ![c] = z]
        /\ held' = [held EXCEPT ![q] = B!NoCall]
    BY DEF B!ReportFailed
  <1>2. /\ c \in Candidate /\ v \in 1..MaxRevision /\ v \in B!Revision
        /\ candidates[c] \in B!Entry /\ now \in Nat
    BY <1>1, HeldCall
  <1>3. streak[c] \in [1..MaxRevision -> Nat] /\ EntryOK(candidates[c], streak[c], now)
    BY <1>2 DEF BreakerInv, B!TypeOK, EntryInv
  <1>4. f \in B!Entry
    BY <1>2, FailedEntry
  <1>5. /\ EntryOK(f, z, now)
        /\ \A u \in Nat : ProbeKnown(candidates[c], u, now) => ProbeKnown(f, u, now)
    BY <1>2, <1>3, FailedOK
  <1>6. z \in [1..MaxRevision -> Nat]
    BY <1>2, <1>3, StreakType
  <1> HIDE DEF c, v, f, z
  <1>7. B!TypeOK'
    BY <1>1, <1>2, <1>4, <1>6 DEF BreakerInv, B!TypeOK
  <1>8. EntryInv'
    BY <1>1, <1>2, <1>5 DEF BreakerInv, B!TypeOK, EntryInv
  <1>9. \A d \in Candidate : \A u \in Nat :
          ProbeKnown(candidates[d], u, now) => ProbeKnown(candidates'[d], u, now)
    BY <1>1, <1>2, <1>5 DEF BreakerInv, B!TypeOK
  <1>10. \A p \in Request : held'[p] = held[p] \/ held'[p] = B!NoCall
    BY <1>1 DEF BreakerInv, B!TypeOK
  <1>. QED BY <1>1, <1>7, <1>8, <1>9, <1>10, BreakerNoAdmission

LEMMA ReportSucceededInv ==
  ASSUME BreakerInv, NEW q \in Request, B!ReportSucceeded(q)
  PROVE  BreakerInv'
  <1> DEFINE c == held[q].cand
             v == held[q].rev
             f == B!AfterSucceeded(candidates[c], v)
             z == [streak[c] EXCEPT ![v] = 0]
  <1>1. /\ B!Holding(q) /\ UNCHANGED <<now, revision>>
        /\ candidates' = [candidates EXCEPT ![c] = f]
        /\ streak' = [streak EXCEPT ![c] = z]
        /\ held' = [held EXCEPT ![q] = B!NoCall] \/ held' = held
    BY DEF B!ReportSucceeded
  <1>2. /\ c \in Candidate /\ v \in 1..MaxRevision /\ v \in B!Revision
        /\ candidates[c] \in B!Entry /\ now \in Nat
    BY <1>1, HeldCall
  <1>3. streak[c] \in [1..MaxRevision -> Nat] /\ EntryOK(candidates[c], streak[c], now)
    BY <1>2 DEF BreakerInv, B!TypeOK, EntryInv
  <1>4. f \in B!Entry
    BY <1>2, SucceededEntry
  <1>5. /\ EntryOK(f, z, now)
        /\ \A u \in Nat : ProbeKnown(candidates[c], u, now) => ProbeKnown(f, u, now)
    BY <1>2, <1>3, SucceededOK
  <1>6. z \in [1..MaxRevision -> Nat]
    BY <1>2, <1>3
  <1> HIDE DEF c, v, f, z
  <1>7. B!TypeOK'
    BY <1>1, <1>2, <1>4, <1>6 DEF BreakerInv, B!TypeOK
  <1>8. EntryInv'
    BY <1>1, <1>2, <1>5 DEF BreakerInv, B!TypeOK, EntryInv
  <1>9. \A d \in Candidate : \A u \in Nat :
          ProbeKnown(candidates[d], u, now) => ProbeKnown(candidates'[d], u, now)
    BY <1>1, <1>2, <1>5 DEF BreakerInv, B!TypeOK
  <1>10. \A p \in Request : held'[p] = held[p] \/ held'[p] = B!NoCall
    BY <1>1 DEF BreakerInv, B!TypeOK
  <1>. QED BY <1>1, <1>7, <1>8, <1>9, <1>10, BreakerNoAdmission

LEMMA BreakerLeaves ==
  ASSUME BreakerInv, NEW q \in Request, held' = [held EXCEPT ![q] = B!NoCall],
         UNCHANGED <<candidates, now, revision, streak>>
  PROVE  BreakerInv'
  <1>1. B!TypeOK' /\ EntryInv'
    BY DEF BreakerInv, B!TypeOK, EntryInv
  <1>2. \A p \in Request : held'[p] = held[p] \/ held'[p] = B!NoCall
    BY DEF BreakerInv, B!TypeOK
  <1>. QED BY <1>1, <1>2, BreakerNoAdmission

LEMMA BreakerEdited ==
  ASSUME BreakerInv, NEW c \in Candidate, B!EditCandidate(c)
  PROVE  BreakerInv'
  <1>1. UNCHANGED <<candidates, now, held, streak>>
    BY DEF B!EditCandidate
  <1>2. revision' \in [Candidate -> 1..MaxRevision]
    <2>1. revision \in [Candidate -> 1..MaxRevision] /\ MaxRevision \in Nat
      BY BoundsAssumption DEF BreakerInv, B!TypeOK
    <2>2. revision[c] + 1 \in 1..MaxRevision
      BY <2>1 DEF B!EditCandidate
    <2>. QED BY <2>1, <2>2 DEF B!EditCandidate
  <1>3. B!TypeOK'
    BY <1>1, <1>2 DEF BreakerInv, B!TypeOK
  <1>4. EntryInv'
    BY <1>1 DEF BreakerInv, EntryInv
  <1>. QED BY <1>1, <1>3, <1>4, BreakerNoAdmission

LEMMA BreakerTicks ==
  ASSUME BreakerInv, B!Tick
  PROVE  BreakerInv'
  <1> USE DEF B!Tick
  <1>1. B!TypeOK'
    BY DEF BreakerInv, B!TypeOK
  <1>2. ASSUME NEW e \in B!Entry, NEW u \in Nat
        PROVE  /\ \A s : EntryOK(e, s, now) => EntryOK(e, s, now')
               /\ ProbeKnown(e, u, now) => ProbeKnown(e, u, now')
    <2>1. now \in Nat /\ now' = now + 1 /\ e.cooldownUntil \in Nat
      BY DEF BreakerInv, B!TypeOK, B!Entry
    <2>. QED BY <2>1 DEF EntryOK, ProbeKnown
  <1>3. EntryInv'
    BY <1>2 DEF BreakerInv, B!TypeOK, EntryInv
  <1>4. AdmissionInv'
    <2>1. SUFFICES ASSUME NEW p \in Request, B!Holding(p)
                   PROVE  /\ held[p].rev \in 1..MaxRevision
                          /\ ProbeKnown(candidates[held[p].cand], held[p].probe, now')
      BY DEF AdmissionInv, B!Holding, B!NoCall
    <2>2. /\ held[p].rev \in 1..MaxRevision /\ held[p].probe \in Nat
          /\ candidates[held[p].cand] \in B!Entry
      BY <2>1, HeldCall
    <2>3. ProbeKnown(candidates[held[p].cand], held[p].probe, now)
      BY <2>1 DEF BreakerInv, AdmissionInv
    <2>. QED BY <2>2, <2>3, <1>2
  <1>5. B!OneProbePerCooldown'
    BY DEF BreakerInv, B!OneProbePerCooldown, B!Holding
  <1>. QED BY <1>1, <1>3, <1>4, <1>5 DEF BreakerInv

LEMMA BreakerRestarts ==
  ASSUME BreakerInv, B!Restart
  PROVE  BreakerInv'
  <1> USE DEF B!Restart
  <1>1. B!TypeOK'
    BY AbsentIsEntry DEF BreakerInv, B!TypeOK
  <1>2. EntryInv'
    BY AbsentOK DEF EntryInv
  <1>3. \A c \in Candidate : \A u \in Nat :
          ProbeKnown(candidates[c], u, now) => ProbeKnown(candidates'[c], u, now)
    BY AbsentOK DEF ProbeKnown
  <1>. QED BY <1>1, <1>2, <1>3, BreakerNoAdmission

LEMMA BreakerNext == BreakerInv /\ [B!Next]_(B!vars) => BreakerInv'
  <1> SUFFICES ASSUME BreakerInv, [B!Next]_(B!vars) PROVE BreakerInv'
    OBVIOUS
  <1>1. ASSUME NEW q \in Request, NEW c \in Candidate, NEW v \in 1..MaxRevision, B!Admit(q, c, v)
        PROVE  BreakerInv'
    BY <1>1, BreakerAdmission DEF B!Admit
  <1>2. ASSUME NEW q \in Request, B!AdmitAgain(q)
        PROVE  BreakerInv'
    <2>1. B!Holding(q) /\ UNCHANGED <<now, revision, streak>>
      BY <1>2 DEF B!AdmitAgain
    <2>2. held[q].cand \in Candidate /\ held[q].rev \in 1..MaxRevision
      BY <2>1, HeldCall
    <2>3. CASE /\ candidates' = [candidates EXCEPT ![held[q].cand] =
                                   B!AfterReady(candidates[held[q].cand], held[q].rev, now)]
               /\ held' = [held EXCEPT ![q] = [cand |-> held[q].cand, rev |-> held[q].rev,
                                               probe |-> B!Granted(held[q].cand, held[q].rev)]]
      BY <2>1, <2>2, <2>3, BreakerAdmission
    <2>4. CASE held' = [held EXCEPT ![q] = B!NoCall] /\ UNCHANGED candidates
      BY <2>1, <2>4, BreakerLeaves
    <2>. QED BY <1>2, <2>3, <2>4 DEF B!AdmitAgain
  <1>3. ASSUME NEW q \in Request, B!LeaveSilently(q)
        PROVE  BreakerInv'
    BY <1>3, BreakerLeaves DEF B!LeaveSilently
  <1>4. CASE UNCHANGED B!vars
    <2>1. B!TypeOK' /\ EntryInv'
      BY <1>4 DEF BreakerInv, B!vars, B!TypeOK, EntryInv
    <2>. QED BY <1>4, <2>1, BreakerNoAdmission DEF B!vars
  <1>. QED BY <1>1, <1>2, <1>3, <1>4, ReportFailedInv, ReportSucceededInv, BreakerEdited, BreakerTicks, BreakerRestarts
           DEF B!Next, B!CallerStep

LEMMA BreakerInvariant == B!Spec => []BreakerInv
  BY BreakerInit, BreakerNext, PTL DEF B!Spec

(* The entries of Handler.candidates, the clock and the calls keep their   *)
(* types for every number of requests and candidates.                      *)
THEOREM BreakerTypeCorrect == B!Spec => []B!TypeOK
  <1>1. BreakerInv => B!TypeOK
    BY DEF BreakerInv
  <1>. QED BY <1>1, BreakerInvariant, PTL

(* candidateReady never lets two running requests through as the probe of  *)
(* one cooldown, with any number of requests, resends and edits.           *)
THEOREM BreakerProbesOnce == B!Spec => []B!OneProbePerCooldown
  <1>1. BreakerInv => B!OneProbePerCooldown
    BY DEF BreakerInv
  <1>. QED BY <1>1, BreakerInvariant, PTL

(* candidateFailed never opens the breaker of a revision without Threshold *)
(* failures in a row of that revision.                                     *)
THEOREM BreakerOpensOnFailures == B!Spec => []B!OpenIsEarned
  <1>1. BreakerInv => B!OpenIsEarned
    <2> SUFFICES ASSUME BreakerInv, NEW c \in Candidate, candidates[c].cooldownUntil # 0
                 PROVE  /\ candidates[c].revision \in 1..MaxRevision
                        /\ streak[c][candidates[c].revision] >= Threshold
      BY DEF B!OpenIsEarned
    <2>1. candidates[c] \in B!Entry /\ EntryOK(candidates[c], streak[c], now)
      BY DEF BreakerInv, B!TypeOK, EntryInv
    <2>2. candidates[c].count \in Nat /\ streak[c] \in [1..MaxRevision -> Nat]
      BY <2>1 DEF BreakerInv, B!TypeOK, B!Entry
    <2>3. candidates[c].revision \in 1..MaxRevision
      BY <2>1, BoundsAssumption DEF EntryOK
    <2>4. candidates[c].count >= Threshold /\ candidates[c].count <= streak[c][candidates[c].revision]
      BY <2>1, <2>3, BoundsAssumption DEF EntryOK
    <2>5. streak[c][candidates[c].revision] \in Nat
      BY <2>2, <2>3
    <2>. QED BY <2>2, <2>3, <2>4, <2>5, BreakerAssumption
  <1>. QED BY <1>1, BreakerInvariant, PTL

(* routeCooldowns and CandidateCooldowns always tell what candidateReady   *)
(* would do.                                                               *)
THEOREM BreakerExplains == B!Spec => []B!ExplainsRefusals
  <1>1. BreakerInv => B!ExplainsRefusals
    <2> SUFFICES ASSUME BreakerInv, NEW c \in Candidate, NEW v \in 1..revision[c]
                 PROVE  /\ B!ShownCooling(candidates[c], v, now) <=> ~B!Ready(candidates[c], v, now)
                        /\ B!ShownCooling(candidates[c], v, now) => B!Listed(candidates[c])
      BY DEF B!ExplainsRefusals
    <2>1. candidates[c] \in B!Entry /\ EntryOK(candidates[c], streak[c], now) /\ now \in Nat
      BY DEF BreakerInv, B!TypeOK, EntryInv
    <2>2. candidates[c].cooldownUntil \in Nat /\ candidates[c].probing \in BOOLEAN
      BY <2>1 DEF B!Entry
    <2>3. candidates[c].probing => candidates[c].cooldownUntil # 0
      BY <2>1, <2>2, Zenon DEF EntryOK, Probing
    <2>4. now < candidates[c].cooldownUntil <=> ~(candidates[c].cooldownUntil <= now)
      BY <2>1, <2>2
    <2>5. now < candidates[c].cooldownUntil => candidates[c].cooldownUntil # 0
      BY <2>1, <2>2
    <2>. QED BY <2>3, <2>4, <2>5, Zenon DEF B!ShownCooling, B!Ready, B!GrantsProbe, B!Elapsed, B!Listed
  <1>. QED BY <1>1, BreakerInvariant, PTL

-----------------------------------------------------------------------------
(* The gateway is one of the breaker's callers. *)

(* For the calls that generateAuthorized makes: one cooldown of a          *)
(* candidate is ended by one probe, and its breaker opens only by failures *)
(* of the same configuration in a row.                                     *)
THEOREM GatewayBreakerHolds == Spec => []BreakerHolds
  <1>1. B!OneProbePerCooldown /\ B!OpenIsEarned => BreakerHolds
    BY DEF BreakerHolds
  <1>. QED BY <1>1, GatewayIsBreakerCaller, BreakerProbesOnce, BreakerOpensOnFailures, PTL
           DEF ImplementsBreaker

(* The gateway's memory and tables keep their types: the maps of the       *)
(* breaker, the running handlers, the requests, the attempts, the keys.    *)
THEOREM GatewayTypeCorrect == Spec => []TypeOK
  <1>1. IInv /\ B!TypeOK => TypeOK
    <2> SUFFICES ASSUME IInv, NEW q \in Request
                 PROVE  log[q].from <= Len(log[q].attempts)
      BY DEF TypeOK, IInv, RequestsInv, StoreInv
    <2>1. log[q].from # 0 => log[q].from = Len(log[q].attempts)
      BY EveryRequest DEF RequestInv
    <2>2. Len(log[q].attempts) \in Nat
      BY RowType DEF IInv, RequestsInv
    <2>. QED BY <2>1, <2>2
  <1>. QED BY <1>1, Invariant, GatewayIsBreakerCaller, BreakerTypeCorrect, PTL
           DEF ImplementsBreaker
=============================================================================
