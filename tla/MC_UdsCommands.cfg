\* Three key IDs: two rotations from the initial key; one failing call.
CONSTANTS
  Handlers <- MC_Handlers
  Kids = {k0, k1, k2}
  K0 = k0
  MaxFail = 1
  None = None
  AtomOrder <- MC_AtomOrder
  DBType = "mysql"
  SqlFSs <- MC_SqlFSs
  SqlConfSets <- MC_SqlConfSets
  TplFSs <- MC_TplFSs
SPECIFICATION Spec
INVARIANT HelpListsEachCommandOnce
INVARIANT CurrentKeyUsable
INVARIANT KidPublished
INVARIANT SqlDatabasesReady
INVARIANT CleanUpLeavesOnlyFailedInit
PROPERTY ImplementsTemplateStore
\* log.Fatal ends the process, a start-up error or ResourceCleanUp ends it,
\* and jwks-rotate cannot run once every key
\* ID has been generated: both are final states.
CHECK_DEADLOCK FALSE
