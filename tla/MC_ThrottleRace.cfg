CONSTANTS
  q1 = q1
  q2 = q2
  Reqs <- MC_Reqs
  Burst = 1
  OlderThan = 1
  MaxTime = 3
  MaxReqs = 3
  ts = ts
  o1 = o1
  o2 = o2
  TS = ts
  Others <- MC_Others
  SvcOrder <- MC_SvcOrder
SPECIFICATION Spec
INVARIANT TokenBudget
\* Behaviours end when the process has shut down and the clock and
\* request bounds are reached.
CHECK_DEADLOCK FALSE
