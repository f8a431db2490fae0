------------------------- MODULE MCOAuthCredential -------------------------
(* OAuthCredential for two calls; the constants are in the configurations. *)
EXTENDS OAuthCredential, TLC
=============================================================================
