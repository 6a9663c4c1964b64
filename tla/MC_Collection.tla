--------------------------- MODULE MC_Collection ---------------------------
(* Model-checking instance of Collection and of the combinators over it:   *)
(* three IDs, two entity values, two yield outputs; parent rows for two  *)
(* of the IDs and child rows of two parents.                             *)
EXTENDS RelationLoad, TLC

CONSTANTS i1, i2, i3, o1, o2

MC_Ids == {i1, i2, i3}
MC_Vals == {1, 2}
MC_Outs == {o1, o2}
MC_ParentRows == {i1, i2}
MC_ChildRows == {[cid |-> 1, pid |-> i1], [cid |-> 2, pid |-> i1], [cid |-> 3, pid |-> i3]}
=============================================================================
