----------------------------- MODULE MCFormats -----------------------------
(* The two formats C and Rust share, cells and keys, for TLC.  They have   *)
(* nothing to do with each other: a behaviour either writes one cell or    *)
(* parses one string.                                                      *)
EXTENDS CellCodec, CellKey

Init == CellInit /\ KeyInit
Next ==
  \/ dotted = <<>> /\ at = "component" /\ CellNext /\ UNCHANGED keyVars
  \/ cell = <<>> /\ KeyNext /\ UNCHANGED cellVars
Spec == Init /\ [][Next]_<<cellVars, keyVars>>
=============================================================================
