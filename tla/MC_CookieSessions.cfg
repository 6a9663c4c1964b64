\* Two logins racing each other and two API requests refreshing S0's token
\* pair, with one KV call failure allowed anywhere.  Every goroutine makes
\* one call, so behaviours end: the system stops, it does not deadlock.
CONSTANTS
  S0 = S0
  None = None
  l1 = l1
  l2 = l2
  f1 = f1
  f2 = f2
  Logins <- MC_Logins
  Fetchers <- MC_Fetchers
  MaxCnt = 1
  MaxGen = 2
  MaxFail = 1
  WithExternalTokens = TRUE
SPECIFICATION Spec
INVARIANT SessionCapNoKVErrors
INVARIANT StoredPairIsLatest
INVARIANT SessionListTracksLive
PROPERTY LoginCompletes
CHECK_DEADLOCK FALSE
