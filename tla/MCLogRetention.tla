--------------------------- MODULE MCLogRetention ---------------------------
(* One range for the administrator's cleanups: it begins within a second,  *)
(* and ends with it.                                                       *)
EXTENDS LogRetention

CONSTANTS q1, q2

OneRange == {<<3, 4>>}
=============================================================================
