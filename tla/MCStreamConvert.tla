--------------------------- MODULE MCStreamConvert ---------------------------
(* One exchange of every kind of client with every kind of upstream. *)
EXTENDS Exchange
=============================================================================
