----------------------------- MODULE MC_Throttle -----------------------------
(* Two request goroutines and the cleaner over one bucket ID, and the     *)
(* core starting the bucket store among other services.                  *)
EXTENDS Throttle, TLC

CONSTANTS q1, q2, ts, o1, o2

MC_Reqs == {q1, q2}
MC_One == {q1}

\* A service added before the bucket store, whose Start may fail.
MC_Others == {o1}
MC_SvcOrder == <<o1, ts>>

\* One service before the bucket store and one after it, both of whose
\* Start may fail: a failure after the bucket store leaves two services
\* running that nobody waits for.
MC_Others3 == {o1, o2}
MC_SvcOrder3 == <<o1, ts, o2>>
=============================================================================
