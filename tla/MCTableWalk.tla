---------------------------- MODULE MCTableWalk ----------------------------
(* Instances of TableWalk for TLC. *)
EXTENDS TableWalk
=============================================================================
