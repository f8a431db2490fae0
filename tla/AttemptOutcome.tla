--------------------------- MODULE AttemptOutcome ---------------------------
(***************************************************************************)
(* What the request loop of internal/gateway decides after one upstream    *)
(* call, for the three kinds of provider: plain API key, Codex OAuth and   *)
(* Antigravity OAuth.  An upstream error is its HTTP status class and its  *)
(* structured error code; everything else about it is wording.             *)
(***************************************************************************)

Kind == {"key", "codex", "antigravity"}

(* "5xx" is 500 and above, "4xx" every other status that is not named (and *)
(* Antigravity's 200 with a body that is neither a stream nor an error).   *)
Status == {"401", "402", "403", "429", "4xx", "5xx"}

(* "usage_limit" is usage_limit_reached, "model" is model_not_found or     *)
(* model_not_supported; "auth", "denied", "rate" and "bad" are the codes   *)
(* to which codex.ClassifyError gives a status of their own.               *)
Code == {"plain", "usage_limit", "model", "auth", "denied", "rate", "bad"}

(* quota: the provider lists the code in its QuotaCodes. *)
UpstreamError == [status : Status, code : Code, quota : BOOLEAN]

(* A verdict: the status of the attempt's row, the report to the circuit   *)
(* breaker, the runtime status written to the key, whether the candidate   *)
(* is marked config_error, whether the error is remembered for the final   *)
(* answer, and where the loop goes: again with the same key, to the next   *)
(* key, past the candidate, or to the end of the request with a status.    *)
Verdict(row, report, move) ==
  [row |-> row, report |-> report, move |-> move,
   mark |-> "none", config |-> FALSE, invalid |-> FALSE]

Ends(v) == v.move \in {"completed", "failed", "cancelled"}

shouldTryNextKey(s) == s \in {"401", "402", "403", "429"}

(* codex.ClassifyError: some codes carry a status of their own. *)
Classified(e) ==
  CASE e.code = "auth"                      -> "401"
    [] e.code = "denied"                    -> "403"
    [] e.code \in {"usage_limit", "rate"}   -> "429"
    [] e.code \in {"model", "bad"}          -> "4xx"
    [] OTHER                                -> e.status

(* updateKeyAfterError, reached only when the next key is to be tried. *)
updateKeyAfterError(e) ==
  CASE e.status = "401"                                  -> "auth_invalid"
    [] e.status \in {"402", "429"} /\ e.quota           -> "quota_exhausted"
    [] e.status = "429" /\ ~e.quota                      -> "rate_limited"
    [] OTHER                                             -> "none"

updateCodexKeyAfterError(e) ==
  LET s == Classified(e)
  IN  CASE s = "401" -> "auth_invalid"
        [] e.code = "usage_limit" \/ (s \in {"402", "429"} /\ e.quota) -> "quota_exhausted"
        [] s = "429" /\ e.code # "usage_limit" /\ ~e.quota -> "rate_limited"
        [] OTHER -> "none"

(* A non-2xx answer of a plain or Codex provider.  resend: the call was    *)
(* made with a credential that has not been refreshed for this request.    *)
ErrorAnswer(kind, e, resend) ==
  LET codexMark == IF kind = "codex" THEN updateCodexKeyAfterError(e) ELSE "none"
  IN  IF kind = "codex" /\ e.status = "401" /\ resend
      THEN Verdict("failed", "none", "resend")
      ELSE IF e.code = "model"
      THEN [Verdict("failed", "succeeded", "skip") EXCEPT !.mark = codexMark, !.config = TRUE]
      ELSE IF shouldTryNextKey(e.status)
      THEN [Verdict("failed", "succeeded", "next")
              EXCEPT !.mark = IF kind = "codex" THEN codexMark ELSE updateKeyAfterError(e)]
      ELSE IF e.status = "5xx"
      THEN [Verdict("failed", "failed", "skip") EXCEPT !.mark = codexMark]
      ELSE [Verdict("failed", "succeeded", "failed") EXCEPT !.mark = codexMark]

(* A structured error inside a Codex stream of which the client has seen   *)
(* nothing.                                                                *)
CodexStreamError(e, resend) ==
  LET s == Classified(e)
      v == IF s = "401" /\ resend THEN Verdict("failed", "none", "resend")
           ELSE IF e.code = "model"
           THEN [Verdict("failed", "failed", "skip") EXCEPT !.config = TRUE]
           ELSE IF shouldTryNextKey(s) THEN Verdict("failed", "succeeded", "next")
           ELSE IF s = "4xx" THEN Verdict("failed", "none", "failed")
           ELSE Verdict("failed", "failed", "skip")
  IN  [v EXCEPT !.invalid = TRUE,
                !.mark = IF v.move = "resend" THEN "none" ELSE updateCodexKeyAfterError(e)]

(* antigravityFailure and the loop's reading of its result; a 429 cools    *)
(* the account down for the model only.                                    *)
AntigravityFailure(e, resend) ==
  LET v == IF e.status = "401" /\ resend THEN Verdict("failed", "none", "resend")
           ELSE IF shouldTryNextKey(e.status) THEN Verdict("failed", "succeeded", "next")
           ELSE IF e.code = "model" \/ e.status = "5xx" THEN Verdict("failed", "failed", "skip")
           ELSE Verdict("failed", "none", "failed")
  IN  [v EXCEPT !.invalid = TRUE,
                !.mark = CASE v.move = "resend" -> "none"
                           [] e.status = "401" /\ v.move # "resend" -> "auth_invalid"
                           [] e.status = "429" -> "model_limited"
                           [] OTHER -> "none",
                !.config = e.code = "model" /\ e.status \notin {"401", "429"}]

(* An upstream error, wherever the provider reports it before the client   *)
(* has seen content: as an HTTP status, or inside a stream.                *)
UncommittedError(kind, inStream, e, resend) ==
  IF kind = "antigravity" THEN AntigravityFailure(e, resend)
  ELSE IF inStream THEN CodexStreamError(e, resend)
  ELSE ErrorAnswer(kind, e, resend)

(* The same inside a stream after the response is committed: the request   *)
(* ends; the state of the key is still recorded.  Antigravity reports      *)
(* nothing to the breaker, Codex a failure.                                *)
CommittedError(kind, e) ==
  LET codex == kind = "codex"
      anti  == AntigravityFailure(e, FALSE)
  IN  [Verdict("failed", IF codex THEN "failed" ELSE "none", "failed")
         EXCEPT !.mark   = IF codex THEN updateCodexKeyAfterError(e) ELSE anti.mark,
                !.config = ~codex /\ anti.config]

\* Mutant: what the client already has is not looked at.
InvalidBodyReplays(mode, sent) ==
  LET v == Verdict("failed", IF mode \in {"codex", "antigravity"} THEN "failed" ELSE "none", "next")
  IN  [v EXCEPT !.invalid = TRUE]

(* The body is cut short or is not what the protocol declares; sent: the   *)
(* client already has a part of it.  (The OAuth relays come here for a     *)
(* client that is gone only with a body read to its end.)                  *)
InvalidBody(mode, sent) ==
  LET v == CASE sent /\ mode \in {"passthrough", "converted"} -> Verdict("failed", "succeeded", "failed")
             [] sent /\ mode = "codex"                        -> Verdict("failed", "failed", "failed")
             [] sent /\ mode = "antigravity"                  -> Verdict("failed", "none", "failed")
             [] ~sent /\ mode \in {"codex", "antigravity"}    -> Verdict("failed", "failed", "skip")
             [] ~sent /\ mode \in {"buffered", "converted"}   -> Verdict("failed", "none", "skip")
  IN  [v EXCEPT !.invalid = TRUE]

\* Mutant: the request is completed although the client was lost.
ClientLostCompletes(mode) ==
  Verdict("cancelled", IF mode \in {"passthrough", "converted"} THEN "succeeded" ELSE "none", "completed")

(* The client is gone while the body is relayed. *)
ClientLost(mode) ==
  Verdict("cancelled", IF mode \in {"passthrough", "converted"} THEN "succeeded" ELSE "none", "cancelled")

(* The body of an error answer cannot be read.  The OAuth paths look at    *)
(* the client, the generic one goes on to the next key.                    *)
ErrorBodyLost(kind, gone) ==
  CASE kind # "key" /\ gone           -> Verdict("cancelled", "none", "cancelled")
    [] kind = "antigravity" /\ ~gone  -> [Verdict("failed", "failed", "skip") EXCEPT !.invalid = TRUE]
    [] OTHER                          -> Verdict("failed", "none", "next")

(* The whole body has been relayed (written: the last write succeeded).    *)
(* The OAuth paths close the attempt's row before a buffered body is       *)
(* written, and Codex clears the runtime status of the account.            *)
Relayed(mode, written) ==
  CASE mode = "codex" /\ written          -> [Verdict("completed", "succeeded", "completed") EXCEPT !.mark = "available"]
    [] mode = "antigravity" /\ written    -> Verdict("completed", "succeeded", "completed")
    [] mode \in {"codex", "antigravity"} /\ ~written -> Verdict("completed", "none", "cancelled")
    [] mode = "buffered" /\ ~written      -> Verdict("cancelled", "succeeded", "cancelled")
    [] OTHER                              -> Verdict("completed", "succeeded", "completed")
=============================================================================
