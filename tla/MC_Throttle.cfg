CONSTANTS
  q1 = q1
  q2 = q2
  Reqs <- MC_One
  Burst = 1
  OlderThan = 1
  MaxTime = 2
  MaxReqs = 2
  ts = ts
  o1 = o1
  o2 = o2
  TS = ts
  Others <- MC_Others3
  SvcOrder <- MC_SvcOrder3
SPECIFICATION Spec
PROPERTY StopEventuallyDone
PROPERTY ShutdownCompletes
PROPERTY AllServicesEnd
\* Behaviours end when the process has shut down and the clock and
\* request bounds are reached.
CHECK_DEADLOCK FALSE
