\* One login whose CleanUp removes S0 while one API request stores a new
\* token pair for it; no KV call fails.
CONSTANTS
  S0 = S0
  None = None
  l1 = l1
  l2 = l2
  f1 = f1
  f2 = f2
  Logins <- MC_Logins
  Fetchers <- MC_One
  MaxCnt = 1
  MaxGen = 1
  MaxFail = 0
  WithExternalTokens = TRUE
SPECIFICATION Spec
INVARIANT NoTokenKeyWithoutTTL
CHECK_DEADLOCK FALSE
