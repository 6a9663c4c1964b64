---------------------------- MODULE MC_NamedLocks ----------------------------
(* Three requests over two lock names: two that need both (so their map   *)
(* orders can cross) and one that needs one of them.                       *)
EXTENDS NamedLocks, TLC

CONSTANTS r1, r2, r3, la, lb

MC_Requests == {r1, r2, r3}
MC_Locks == {la, lb}
MC_Needs == (r1 :> {la, lb}) @@ (r2 :> {la, lb}) @@ (r3 :> {lb})
=============================================================================
