----------------------------- MODULE MCLoginFlow -----------------------------
(* Instances of LoginFlow: one provider, or two of two kinds. *)
EXTENDS LoginFlow, TLC
CONSTANTS p1, p2
OneKind == [p \in {p1} |-> "codex"]
TwoKinds == [p \in {p1, p2} |-> IF p = p1 THEN "codex" ELSE "antigravity"]
Symmetric == Permutations(Session) \cup Permutations(Flow)
=============================================================================
