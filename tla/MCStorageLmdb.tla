--------------------------- MODULE MCStorageLmdb ---------------------------
(* Instances of StorageLmdb for TLC. *)
EXTENDS StorageLmdb

(* A prefix with keys before and after its own, and the empty one. *)
TwoScans == {[from |-> 2, to |-> 2], [from |-> 0, to |-> 9]}

=============================================================================
