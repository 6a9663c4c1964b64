---------------------------- MODULE MC_CollGroup ----------------------------
(* Model-checking instance of the collection group: three IDs, two entity *)
(* values, two grouping keys.                                              *)
EXTENDS CollGroup, TLC

CONSTANTS i1, i2, i3, o1, o2, g1, g2

MC_Ids == {i1, i2, i3}
MC_Vals == {1, 2}
MC_Outs == {o1, o2}
MC_GKeys == {g1, g2}
=============================================================================
