------------------------------- MODULE Throttle -------------------------------
(***************************************************************************)
(* The throttle bucket store (src/throttle) for one bucket group and one  *)
(* bucket ID: request goroutines calling BucketStore.Allow, and the       *)
(* service goroutine `run` whose ticker calls Cleanup, with the service's *)
(* Start and Stop and the shutdown signal's RootCancel.                    *)
(*                                                                         *)
(* Each sync.Map call (Load, Store, Range's read, Delete) is one step, and *)
(* so is each section under a bucket's mutex.  A bucket is a record in    *)
(* `bk`; the map entry `slot` names which one the ID maps to (0: none),   *)
(* so a goroutine can hold a bucket the map no longer contains.  Time is *)
(* whole ticks of `clock`.                                                 *)
(***************************************************************************)
EXTENDS Integers, Sequences, FiniteSets

CONSTANTS
  Reqs,        \* request goroutines
  Burst,       \* BucketConf.Burst
  OlderThan,   \* cleanupOlderThan, in ticks
  MaxTime,     \* last tick of the clock
  MaxReqs,     \* requests served in a behaviour
  TS,          \* the bucket store as a service of the core
  Others,      \* the other services (web, UDS, jobs)
  SvcOrder     \* c.services: the services in AddService order

Svcs == {TS} \cup Others

ASSUME Burst \in Nat \ {0} /\ OlderThan \in Nat /\ MaxTime \in Nat /\ MaxReqs \in Nat

VARIABLES
  clock,       \* time.Now(), in ticks
  slot,        \* the buckets map entry of the ID: index into bk, 0 if absent
  bk,          \* every bucket ever stored: [tokens, last] (lastCheck)
  rpc, rb, rnow,  \* per request: idle or loaded, the bucket it loaded, its now
  admits,      \* the now of every admitted request, in order
  st,          \* service state READY, RUNNING, STOPPED
  cancelled,   \* the service context is done
  runPc, cnow, cb, clast, \* the run goroutine and its Cleanup locals
  root,        \* the root context is cancelled
  cpc, ci,     \* the core: start, wait, waited or startfailed; the loop index
  relay,       \* per service: its relay goroutine none, waiting or forwarded
  cdone,       \* c.done: the error flags sent, in order
  waitN,       \* values WaitServicesDone has received
  ost, oerr,   \* other services: READY, RUNNING or SENT (on Done); its error
  stopCalled   \* StopServices has been called

reqVars == <<rpc, rb, rnow>>
runVars == <<runPc, cnow, cb, clast>>
coreVars == <<root, cpc, ci, relay, cdone, waitN, ost, oerr, stopCalled>>
vars == <<clock, slot, bk, reqVars, admits, st, cancelled, runVars, coreVars>>

Min2(a, b) == IF a < b THEN a ELSE b

-----------------------------------------------------------------------------
(* Bucket.Allow (the Bucket type is not part of the sources): a token     *)
(* bucket refilled by one token per tick up to Burst, under b.mu.         *)
Refilled(b, now) == Min2(Burst, b.tokens + (IF now > b.last THEN now - b.last ELSE 0))

BucketAllowed(b, now) == Refilled(b, now) >= 1

AfterAllow(b, now) ==
  [tokens |-> IF BucketAllowed(b, now) THEN Refilled(b, now) - 1 ELSE Refilled(b, now),
   last |-> IF now > b.last THEN now ELSE b.last]

-----------------------------------------------------------------------------
(* Plausible faults                                                        *)

\* Stop that marks the service stopped without s.cancel().
StopNoCancel ==
  IF st = "RUNNING" THEN st' = "STOPPED" /\ UNCHANGED cancelled
  ELSE UNCHANGED <<st, cancelled>>

\* The relays sending on a c.done made with room for one value only.
RelayOneSlot(v) ==
  /\ relay[v] = "waiting" /\ Len(cdone) < 1
  /\ IF v = TS THEN runPc = "exited" ELSE ost[v] = "SENT"
  /\ cdone' = Append(cdone, IF v = TS THEN FALSE ELSE oerr[v])
  /\ relay' = [relay EXCEPT ![v] = "forwarded"]
  /\ UNCHANGED <<clock, slot, bk, reqVars, admits, st, cancelled, runVars, root, cpc, ci, waitN, ost, oerr, stopCalled>>

\* WaitServicesDone looping while i <= len(c.services): it waits for one
\* value more than there are services.
WaitRecvLoopsOnce ==
  /\ cpc = "wait" /\ cdone # <<>>
  /\ cdone' = Tail(cdone)
  /\ waitN' = waitN + 1
  /\ cpc' = IF Head(cdone) \/ waitN + 1 = Len(SvcOrder) + 1 THEN "waited" ELSE "wait"
  /\ UNCHANGED <<clock, slot, bk, reqVars, admits, st, cancelled, runVars, root, ci, relay, ost, oerr, stopCalled>>

-----------------------------------------------------------------------------
(* Requests: Allow(groupID, bucketID, time.Now())                          *)

\* time.Now() and GetBucket: g.buckets.Load(id).
GetBucket(q) ==
  /\ rpc[q] = "idle" /\ Len(admits) < MaxReqs
  /\ rpc' = [rpc EXCEPT ![q] = "loaded"]
  /\ rb' = [rb EXCEPT ![q] = slot]
  /\ rnow' = [rnow EXCEPT ![q] = clock]
  /\ UNCHANGED <<clock, slot, bk, admits, st, cancelled, runVars, coreVars>>

\* Found: return b.Allow(now), on the bucket loaded, mapped or not.
Allow(q) ==
  /\ rpc[q] = "loaded" /\ rb[q] # 0
  /\ bk' = [bk EXCEPT ![rb[q]] = AfterAllow(@, rnow[q])]
  /\ admits' = IF BucketAllowed(bk[rb[q]], rnow[q]) THEN Append(admits, rnow[q]) ELSE admits
  /\ rpc' = [rpc EXCEPT ![q] = "idle"]
  /\ UNCHANGED <<clock, slot, rb, rnow, st, cancelled, runVars, coreVars>>

\* Not found: SetBucket(id, Burst-1, now), a Store of a fresh bucket that
\* replaces whatever the entry holds by now; return true.
SetBucket(q) ==
  /\ rpc[q] = "loaded" /\ rb[q] = 0
  /\ bk' = Append(bk, [tokens |-> Burst - 1, last |-> rnow[q]])
  /\ slot' = Len(bk) + 1
  /\ admits' = Append(admits, rnow[q])
  /\ rpc' = [rpc EXCEPT ![q] = "idle"]
  /\ UNCHANGED <<clock, rb, rnow, st, cancelled, runVars, coreVars>>

-----------------------------------------------------------------------------
(* The service: Start, Stop, the signal, and the run goroutine            *)

\* StartServices, at the bucket store: s.Start(): from READY, state
\* RUNNING and `go s.run()`; then `go` the relay of s.Done() to c.done.
\* Start's errors (already started, not ready) return the error.
Start ==
  /\ cpc = "start" /\ ci <= Len(SvcOrder) /\ SvcOrder[ci] = TS
  /\ IF st = "READY"
       THEN /\ st' = "RUNNING" /\ runPc' = "loop"
            /\ ci' = ci + 1 /\ relay' = [relay EXCEPT ![TS] = "waiting"]
            /\ UNCHANGED cpc
       ELSE cpc' = "startfailed" /\ UNCHANGED <<st, runPc, ci, relay>>
  /\ UNCHANGED <<clock, slot, bk, reqVars, admits, cancelled, cnow, cb, clast, root, cdone, waitN, ost, oerr, stopCalled>>

\* s.Stop(): when not RUNNING it only logs; otherwise s.cancel() and
\* state STOPPED.
Stop ==
  IF st = "RUNNING" THEN st' = "STOPPED" /\ cancelled' = TRUE
  ELSE UNCHANGED <<st, cancelled>>

\* SIGINT/SIGTERM: RootCancel cancels the root context and so every
\* service context derived from it.
RootCancel ==
  /\ ~root
  /\ root' = TRUE /\ cancelled' = TRUE
  /\ UNCHANGED <<clock, slot, bk, reqVars, admits, st, runVars, cpc, ci, relay, cdone, waitN, ost, oerr, stopCalled>>

\* select: <-s.Ctx.Done(): s.done <- nil (buffered) and return.
RunDone ==
  /\ runPc = "loop" /\ cancelled
  /\ runPc' = "exited"
  /\ UNCHANGED <<clock, slot, bk, reqVars, admits, st, cancelled, cnow, cb, clast, coreVars>>

\* select: now := <-ticker.C, then Cleanup(now) starts its Range.
RunTick ==
  /\ runPc = "loop"
  /\ runPc' = "range"
  /\ cnow' = clock
  /\ UNCHANGED <<clock, slot, bk, reqVars, admits, st, cancelled, cb, clast, coreVars>>

\* Range yields the ID's entry, if any.
CleanupRange ==
  /\ runPc = "range"
  /\ cb' = slot
  /\ runPc' = IF slot = 0 THEN "loop" ELSE "locked"
  /\ UNCHANGED <<clock, slot, bk, reqVars, admits, st, cancelled, cnow, clast, coreVars>>

\* b.mu.Lock(); last := b.lastCheck; b.mu.Unlock().
CleanupLock ==
  /\ runPc = "locked"
  /\ clast' = bk[cb].last
  /\ runPc' = "check"
  /\ UNCHANGED <<clock, slot, bk, reqVars, admits, st, cancelled, cnow, cb, coreVars>>

\* if now.Sub(last) > cleanupOlderThan: g.buckets.Delete(id).
CleanupDelete ==
  /\ runPc = "check"
  /\ slot' = IF cnow - clast > OlderThan THEN 0 ELSE slot
  /\ runPc' = "loop"
  /\ UNCHANGED <<clock, bk, reqVars, admits, st, cancelled, cnow, cb, clast, coreVars>>

-----------------------------------------------------------------------------
(* The core: StartServices, the relay goroutines, WaitServicesDone        *)

\* StartServices at another service: its Start either runs it and the
\* relay is started, or returns an error and StartServices returns it.
OtherStart(o) ==
  /\ cpc = "start" /\ ci <= Len(SvcOrder) /\ SvcOrder[ci] = o
  /\ \/ /\ ost' = [ost EXCEPT ![o] = "RUNNING"] /\ ci' = ci + 1
        /\ relay' = [relay EXCEPT ![o] = "waiting"] /\ UNCHANGED cpc
     \/ cpc' = "startfailed" /\ UNCHANGED <<ost, ci, relay>>
  /\ UNCHANGED <<clock, slot, bk, reqVars, admits, st, cancelled, runVars, root, cdone, waitN, oerr, stopCalled>>

\* StartServices returns nil after the last service; the application
\* then calls WaitServicesDone.
StartDone ==
  /\ cpc = "start" /\ ci > Len(SvcOrder)
  /\ cpc' = "wait"
  /\ UNCHANGED <<clock, slot, bk, reqVars, admits, st, cancelled, runVars, root, ci, relay, cdone, waitN, ost, oerr, stopCalled>>

\* Another service ends when its context (derived from the root) is done,
\* or once its Stop has been called,
\* and sends its result, nil or an error, on its Done channel.
OtherDone(o) ==
  /\ ost[o] = "RUNNING" /\ (root \/ stopCalled)
  /\ ost' = [ost EXCEPT ![o] = "SENT"]
  /\ \E e \in BOOLEAN : oerr' = [oerr EXCEPT ![o] = e]
  /\ UNCHANGED <<clock, slot, bk, reqVars, admits, st, cancelled, runVars, root, cpc, ci, relay, cdone, waitN, stopCalled>>

\* A relay goroutine: err := <-s.Done(); c.done <- err, which blocks while
\* c.done, made with room for len(c.services) values, is full.  The bucket
\* store sends nil.
Relay(v) ==
  /\ relay[v] = "waiting" /\ Len(cdone) < Len(SvcOrder)
  /\ IF v = TS THEN runPc = "exited" ELSE ost[v] = "SENT"
  /\ cdone' = Append(cdone, IF v = TS THEN FALSE ELSE oerr[v])
  /\ relay' = [relay EXCEPT ![v] = "forwarded"]
  /\ UNCHANGED <<clock, slot, bk, reqVars, admits, st, cancelled, runVars, root, cpc, ci, waitN, ost, oerr, stopCalled>>

\* WaitServicesDone: one `<-c.done` of its loop over len(c.services); an
\* error returns it, and so does the last value.
WaitRecv ==
  /\ cpc = "wait" /\ cdone # <<>>
  /\ cdone' = Tail(cdone)
  /\ waitN' = waitN + 1
  /\ cpc' = IF Head(cdone) \/ waitN + 1 = Len(SvcOrder) THEN "waited" ELSE "wait"
  /\ UNCHANGED <<clock, slot, bk, reqVars, admits, st, cancelled, runVars, root, ci, relay, ost, oerr, stopCalled>>

\* StopServices, called by the application once StartServices has
\* returned (after WaitServicesDone, or after a failed start): s.Stop() on
\* every service in order.  The other services' Stop cancels their context.
StopServices ==
  /\ cpc \in {"wait", "waited", "startfailed"} /\ ~stopCalled
  /\ stopCalled' = TRUE
  /\ Stop
  /\ UNCHANGED <<clock, slot, bk, reqVars, admits, runVars, root, cpc, ci, relay, cdone, waitN, ost, oerr>>

Tick ==
  /\ clock < MaxTime
  /\ clock' = clock + 1
  /\ UNCHANGED <<slot, bk, reqVars, admits, st, cancelled, runVars, coreVars>>

Init ==
  /\ clock = 0 /\ slot = 0 /\ bk = <<>>
  /\ rpc = [q \in Reqs |-> "idle"] /\ rb = [q \in Reqs |-> 0] /\ rnow = [q \in Reqs |-> 0]
  /\ admits = <<>>
  /\ st = "READY" /\ cancelled = FALSE
  /\ runPc = "none" /\ cnow = 0 /\ cb = 0 /\ clast = 0
  /\ root = FALSE /\ cpc = "start" /\ ci = 1
  /\ relay = [v \in Svcs |-> "none"] /\ cdone = <<>> /\ waitN = 0
  /\ ost = [o \in Others |-> "READY"] /\ oerr = [o \in Others |-> FALSE]
  /\ stopCalled = FALSE

Cleanup == CleanupRange \/ CleanupLock \/ CleanupDelete

StartServices == Start \/ \E o \in Others : OtherStart(o)

Next ==
  \/ \E q \in Reqs : GetBucket(q) \/ Allow(q) \/ SetBucket(q)
  \/ StopServices \/ RootCancel
  \/ RunDone \/ RunTick \/ Cleanup
  \/ StartServices \/ StartDone \/ WaitRecv
  \/ \E o \in Others : OtherDone(o)
  \/ \E v \in Svcs : Relay(v)
  \/ Tick

\* Every goroutine is scheduled whenever it can run: the run goroutine,
\* the main goroutine in StartServices and WaitServicesDone, the relays,
\* and the other services once their context is done.  Go's select picks
\* uniformly among ready cases, so a done context that is ready at every
\* select is eventually chosen (strong fairness).  Requests, ticks, Stop
\* and signals are the environment and are not assumed to happen.
Fairness ==
  /\ WF_vars(Cleanup) /\ SF_vars(RunDone)
  /\ WF_vars(StartServices \/ StartDone) /\ WF_vars(WaitRecv)
  /\ \A v \in Svcs : WF_vars(Relay(v))
  /\ \A o \in Others : WF_vars(OtherDone(o))

Spec == Init /\ [][Next]_vars /\ Fairness

-----------------------------------------------------------------------------
(* Properties                                                              *)

\* After Stop the run goroutine leaves its loop and sends on done, even if
\* a Cleanup is under way: what WaitServicesDone relies on at shutdown.
StopEventuallyDone == (st = "STOPPED") ~> (runPc = "exited")

\* The requests admitted for one bucket ID with a now in [t1, t2] are at
\* most what a bucket of Burst tokens refilled once per tick can give:
\* Burst + (t2 - t1).  Cleanup removes only buckets idle for longer than
\* cleanupOlderThan >= Burst ticks, which would have refilled anyway.
\* After the shutdown signal WaitServicesDone returns, unless StartServices
\* failed first: every started service, the bucket store even inside a
\* Cleanup, ends and its relay forwards the result to c.done, and the
\* loop receives one value per service.
ShutdownCompletes == root ~> (cpc \in {"waited", "startfailed"})

\* After StopServices every service that StartServices started ends and
\* its relay goroutine delivers its result to c.done, also when
\* WaitServicesDone has returned on an error and receives no more, or
\* StartServices failed part-way: no started service and no relay is left
\* running.
AllServicesEnd == stopCalled ~> (\A v \in Svcs : relay[v] # "waiting")

AdmitsIn(t1, t2) == Cardinality({ i \in DOMAIN admits : admits[i] \in t1..t2 })

TokenBudget ==
  \A t1, t2 \in 0..MaxTime : t1 <= t2 => AdmitsIn(t1, t2) <= Burst + (t2 - t1)

=============================================================================
