------------------------------ MODULE NamedLocks ------------------------------
(***************************************************************************)
(* Requests running ActionLock.Wrap (src/web/handlerwrappers/            *)
(* action_lock.go) concurrently over the one lock registry               *)
(* appCore.ActionLocks, a sync.Map, through AcquireLocks and ReleaseLocks *)
(* (src/namedlocks/acquirerelease.go).  Every sync.Map call (LoadOrStore, *)
(* Delete) is one atomic step; the loops around them are not atomic.     *)
(*                                                                         *)
(* A request's lock names are the set Needs[r] ("action:target" for every *)
(* entry of m.Actions); the order of lockKeys is the Go map iteration     *)
(* order of m.Actions, chosen when the request starts.  A request that    *)
(* has finished may be followed by another one from the same client.     *)
(***************************************************************************)
EXTENDS Integers, Sequences, SequencesExt

CONSTANTS Requests, Locks, Needs

ASSUME \A r \in Requests : Needs[r] \subseteq Locks

VARIABLES
  store,      \* the lock names registered in ActionLocks
  pc,         \* idle, acq, rollback, cs, rel, done
  keys,       \* lockKeys of the request, in map iteration order
  acquired,   \* acquiredLockNames so far (then the `acquired` result)
  ridx        \* next index of the rollback or release loop

vars == <<store, pc, keys, acquired, ridx>>

-----------------------------------------------------------------------------
(* Plausible faults                                                        *)

\* The rollback ranges over lockNames instead of acquiredLockNames,
\* deleting the name found locked as well.
RollbackDeleteAllNames(r) ==
  /\ pc[r] = "rollback" /\ ridx[r] <= Len(acquired[r])
  /\ store' = store \ ToSet(keys[r])
  /\ ridx' = [ridx EXCEPT ![r] = Len(acquired[r]) + 1]
  /\ UNCHANGED <<pc, keys, acquired>>

\* ReleaseLocks whose loop stops one short of the end.
ReleaseDoneEarly(r) ==
  /\ pc[r] = "rel" /\ ridx[r] >= Len(acquired[r])
  /\ pc' = [pc EXCEPT ![r] = "done"]
  /\ UNCHANGED <<store, keys, acquired, ridx>>

\* A waiting LoadOrStore (the "WAIT mode" the code comment anticipates):
\* it takes a step only when the name is free.
LoadOrStoreWaits(r) ==
  /\ pc[r] = "acq" /\ Len(acquired[r]) < Len(keys[r])
  /\ LET name == keys[r][Len(acquired[r]) + 1]
     IN /\ name \notin store
        /\ store' = store \cup {name}
        /\ acquired' = [acquired EXCEPT ![r] = Append(@, name)]
        /\ UNCHANGED <<pc, keys, ridx>>

-----------------------------------------------------------------------------
\* Wrap's pre-action up to AcquireLocks: lockKeys from ranging over m.Actions.
Begin(r) ==
  /\ pc[r] = "idle"
  /\ \E ks \in SetToSeqs(Needs[r]) : keys' = [keys EXCEPT ![r] = ks]
  /\ pc' = [pc EXCEPT ![r] = "acq"]
  /\ acquired' = [acquired EXCEPT ![r] = <<>>]
  /\ ridx' = [ridx EXCEPT ![r] = 1]
  /\ UNCHANGED store

\* The AuthUID provider fails, or an "AuthUID" target has no user: 401
\* before any lock is touched.
Unauthorized(r) ==
  /\ pc[r] = "idle"
  /\ pc' = [pc EXCEPT ![r] = "done"]
  /\ UNCHANGED <<store, keys, acquired, ridx>>

\* One iteration of AcquireLocks: LoadOrStore(lockName); lockedOut starts
\* the rollback, otherwise the name is appended to acquiredLockNames.
LoadOrStore(r) ==
  /\ pc[r] = "acq" /\ Len(acquired[r]) < Len(keys[r])
  /\ LET name == keys[r][Len(acquired[r]) + 1]
     IN IF name \in store
          THEN /\ pc' = [pc EXCEPT ![r] = "rollback"]
               /\ UNCHANGED <<store, keys, acquired, ridx>>
          ELSE /\ store' = store \cup {name}
               /\ acquired' = [acquired EXCEPT ![r] = Append(@, name)]
               /\ UNCHANGED <<pc, keys, ridx>>

\* The loop ends with every name acquired: return (acquired, true), and
\* the handler goes on to the inner layer.
Acquired(r) ==
  /\ pc[r] = "acq" /\ Len(acquired[r]) = Len(keys[r])
  /\ pc' = [pc EXCEPT ![r] = "cs"]
  /\ UNCHANGED <<store, keys, acquired, ridx>>

\* One iteration of the rollback: lockStore.Delete(k) for k in acquiredLockNames.
RollbackDelete(r) ==
  /\ pc[r] = "rollback" /\ ridx[r] <= Len(acquired[r])
  /\ store' = store \ {acquired[r][ridx[r]]}
  /\ ridx' = [ridx EXCEPT ![r] = @ + 1]
  /\ UNCHANGED <<pc, keys, acquired>>

\* return nil, false; the wrapper answers 409 Conflict.
Conflict(r) ==
  /\ pc[r] = "rollback" /\ ridx[r] > Len(acquired[r])
  /\ pc' = [pc EXCEPT ![r] = "done"]
  /\ UNCHANGED <<store, keys, acquired, ridx>>

\* inner.ServeHTTP returns or panics; the deferred post-action begins.
Finish(r) ==
  /\ pc[r] = "cs"
  /\ pc' = [pc EXCEPT ![r] = "rel"]
  /\ ridx' = [ridx EXCEPT ![r] = 1]
  /\ UNCHANGED <<store, keys, acquired>>

\* One iteration of ReleaseLocks(appCore.ActionLocks, acquired).
ReleaseDelete(r) ==
  /\ pc[r] = "rel" /\ ridx[r] <= Len(acquired[r])
  /\ store' = store \ {acquired[r][ridx[r]]}
  /\ ridx' = [ridx EXCEPT ![r] = @ + 1]
  /\ UNCHANGED <<pc, keys, acquired>>

\* The loop is over; the recover() in the defer swallows a panic.
ReleaseDone(r) ==
  /\ pc[r] = "rel" /\ ridx[r] > Len(acquired[r])
  /\ pc' = [pc EXCEPT ![r] = "done"]
  /\ UNCHANGED <<store, keys, acquired, ridx>>

\* The same client sends its next request.
NextRequest(r) ==
  /\ pc[r] = "done"
  /\ pc' = [pc EXCEPT ![r] = "idle"]
  /\ UNCHANGED <<store, keys, acquired, ridx>>

\* The steps of a running request's goroutine.
Run(r) ==
  \/ LoadOrStore(r) \/ Acquired(r) \/ RollbackDelete(r) \/ Conflict(r)
  \/ Finish(r) \/ ReleaseDelete(r) \/ ReleaseDone(r)

Init ==
  /\ store = {}
  /\ pc = [r \in Requests |-> "idle"]
  /\ keys = [r \in Requests |-> <<>>]
  /\ acquired = [r \in Requests |-> <<>>]
  /\ ridx = [r \in Requests |-> 1]

Next == \E r \in Requests : Begin(r) \/ Unauthorized(r) \/ Run(r) \/ NextRequest(r)

\* Go schedules every runnable goroutine, and no step of a running request
\* blocks; the arrival of requests is not fair.
Fairness == \A r \in Requests : WF_vars(Run(r))

Spec == Init /\ [][Next]_vars /\ Fairness

-----------------------------------------------------------------------------
(* Properties                                                              *)

\* The locks a request holds in the registry: what it stored and has not
\* yet deleted in its rollback or release loop.
Held(r) ==
  CASE pc[r] \in {"acq", "cs"} -> ToSet(acquired[r])
    [] pc[r] \in {"rollback", "rel"} ->
         { acquired[r][i] : i \in ridx[r]..Len(acquired[r]) }
    [] OTHER -> {}

\* Every name in ActionLocks is held by exactly one running request, and no
\* other: AcquireLocks' rollback and the deferred ReleaseLocks delete exactly
\* what the request stored, so no lock leaks and none is freed for another.
LockOwnership ==
  /\ store = UNION { Held(r) : r \in Requests }
  /\ \A r, q \in Requests : r # q => Held(r) \cap Held(q) = {}

\* Every request that starts ends (with 409, or after its handler with all
\* its locks released): fail-fast acquisition never waits.
EveryRequestCompletes ==
  \A r \in Requests : (pc[r] = "acq") ~> (pc[r] = "done")

\* The wrapper implements the atomic lock-set specification LockSet: a
\* request is inside its handler only with every lock it named and no
\* other request inside shares one.
AbsPc == [r \in Requests |->
            CASE pc[r] = "idle" -> "idle"
              [] pc[r] \in {"acq", "rollback"} -> "trying"
              [] pc[r] = "cs" -> "cs"
              [] OTHER -> "done"]

Abstract == INSTANCE LockSet WITH apc <- AbsPc

ImplementsLockSet == Abstract!LSSpec

=============================================================================
