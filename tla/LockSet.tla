------------------------------- MODULE LockSet -------------------------------
(***************************************************************************)
(* What the ActionLock wrapper promises its callers, with no steps inside *)
(* lock acquisition: a request either takes every lock it names at once, *)
(* and only when no request inside its handler holds one of them, or is  *)
(* turned away (fail-fast, no waiting); a request that got in leaves in   *)
(* one step.  A request may also be refused before it tries (no auth).    *)
(***************************************************************************)
CONSTANTS Requests, Needs   \* Needs[r]: the lock names request r asks for

VARIABLES apc               \* per request: idle, trying, cs, done

Start(r) == apc[r] = "idle" /\ apc' = [apc EXCEPT ![r] = "trying"]

Refuse(r) == apc[r] = "idle" /\ apc' = [apc EXCEPT ![r] = "done"]

\* Enter only when no request in its handler shares a lock with r.
Enter(r) ==
  /\ apc[r] = "trying"
  /\ \A q \in Requests \ {r} : apc[q] = "cs" => Needs[q] \cap Needs[r] = {}
  /\ apc' = [apc EXCEPT ![r] = "cs"]

Reject(r) == apc[r] = "trying" /\ apc' = [apc EXCEPT ![r] = "done"]

Leave(r) == apc[r] = "cs" /\ apc' = [apc EXCEPT ![r] = "done"]

Again(r) == apc[r] = "done" /\ apc' = [apc EXCEPT ![r] = "idle"]

LSInit == apc = [r \in Requests |-> "idle"]

LSNext == \E r \in Requests :
            Start(r) \/ Refuse(r) \/ Enter(r) \/ Reject(r) \/ Leave(r) \/ Again(r)

LSSpec == LSInit /\ [][LSNext]_apc

=============================================================================
