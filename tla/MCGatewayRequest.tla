-------------------------- MODULE MCGatewayRequest --------------------------
(* Small routes for GatewayRequest: which provider kinds, how many keys. *)
EXTENDS GatewayRequest

CONSTANTS c1, c2, k1, k2, k3

(* A plain candidate with two keys, then an Antigravity one. *)
PlainFirst == <<c1, c2>>
PlainKind == (c1 :> "key") @@ (c2 :> "antigravity")
TwoKeys == (c1 :> {k1, k2}) @@ (c2 :> {k3})

(* Two Codex candidates that share an account. *)
BothCodex == (c1 :> "codex") @@ (c2 :> "codex")
SharedAccount == (c1 :> {k1}) @@ (c2 :> {k1})

(* One candidate with one key. *)
Single == <<c1>>
SinglePlain == c1 :> "key"
OneKey == c1 :> {k1}

Symmetry == Permutations(Request)
=============================================================================
