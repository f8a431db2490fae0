--------------------------- MODULE ConfigRegister ---------------------------
(***************************************************************************)
(* What the configuration cache of internal/store promises its callers,    *)
(* with no cache in sight.  The database holds one version number per row  *)
(* (a row stands for a group of columns that one SQL statement reads or    *)
(* writes).  A mutation is committed first and returns to its caller       *)
(* later.  A read of an item (the route templates of one requirement, one  *)
(* access key, the list of model names) must answer, for every row the     *)
(* item is built from, with a version that is no older than the last       *)
(* mutation that had returned when the read began, and no newer than what  *)
(* is committed.  A read that races a mutation may answer either version,  *)
(* and may mix them row by row: the loads are several queries without a    *)
(* transaction.                                                            *)
(***************************************************************************)
EXTENDS Naturals

CONSTANTS
  Row,         \* groups of columns read or written together
  Item,        \* entries of the caches: one per map key
  RowsOf,      \* RowsOf[i]: the rows item i is computed from
  Reader,      \* goroutines that read configuration
  Mutator,     \* goroutines that change configuration
  MaxVersion   \* bound on the number of writes of one row

VARIABLES
  db,        \* committed version of each row
  settled,   \* version of each row that the last returned mutation left
  pending,   \* pending[m]: rows m has committed without having returned
  rpc,       \* progress of each reader: idle, reading, returned
  ritem,     \* the item the reader asked for
  floor,     \* settled, as it was when the read began
  value      \* the answer

avars == <<db, settled, pending, rpc, ritem, floor, value>>

Version == [Row -> Nat]
None    == [row \in Row |-> 0]
AnyItem == CHOOSE i \in Item : TRUE
Larger(m, n) == IF m < n THEN n ELSE m

Init ==
  /\ db = None
  /\ settled = None
  /\ pending = [m \in Mutator |-> None]
  /\ rpc = [r \in Reader |-> "idle"]
  /\ ritem = [r \in Reader |-> AnyItem]
  /\ floor = [r \in Reader |-> None]
  /\ value = [r \in Reader |-> None]

(* A mutation commits new versions of the rows W. *)
Commit(m, W) ==
  /\ pending[m] = None
  /\ W # {}
  /\ \A row \in W : db[row] < MaxVersion
  /\ db' = [row \in Row |-> IF row \in W THEN db[row] + 1 ELSE db[row]]
  /\ pending' = [pending EXCEPT ![m] = [row \in Row |-> IF row \in W THEN db[row] + 1 ELSE 0]]
  /\ UNCHANGED <<settled, rpc, ritem, floor, value>>

(* It returns to its caller: from here on its effect may be relied on. *)
Return(m) ==
  /\ pending[m] # None
  /\ settled' = [row \in Row |-> Larger(settled[row], pending[m][row])]
  /\ pending' = [pending EXCEPT ![m] = None]
  /\ UNCHANGED <<db, rpc, ritem, floor, value>>

ReadBegin(r, i) ==
  /\ rpc[r] = "idle"
  /\ rpc' = [rpc EXCEPT ![r] = "reading"]
  /\ ritem' = [ritem EXCEPT ![r] = i]
  /\ floor' = [floor EXCEPT ![r] = settled]
  /\ UNCHANGED <<db, settled, pending, value>>

ReadEnd(r) ==
  /\ rpc[r] = "reading"
  /\ rpc' = [rpc EXCEPT ![r] = "returned"]
  /\ value'[r] \in Version
  /\ value' = [value EXCEPT ![r] = value'[r]]
  /\ \A row \in RowsOf[ritem[r]] : floor[r][row] <= value'[r][row] /\ value'[r][row] <= db[row]
  /\ UNCHANGED <<db, settled, pending, ritem, floor>>

(* The caller consumes the answer, or gets the error of a failed load. *)
ReadOver(r) ==
  /\ rpc[r] \in {"reading", "returned"}
  /\ rpc' = [rpc EXCEPT ![r] = "idle"]
  /\ ritem' = [ritem EXCEPT ![r] = AnyItem]
  /\ floor' = [floor EXCEPT ![r] = None]
  /\ value' = [value EXCEPT ![r] = None]
  /\ UNCHANGED <<db, settled, pending>>

Next ==
  \/ \E m \in Mutator, W \in SUBSET Row : Commit(m, W)
  \/ \E m \in Mutator : Return(m)
  \/ \E r \in Reader, i \in Item : ReadBegin(r, i)
  \/ \E r \in Reader : ReadEnd(r) \/ ReadOver(r)

Spec == Init /\ [][Next]_avars
=============================================================================
