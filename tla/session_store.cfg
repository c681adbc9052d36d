SPECIFICATION FairSessionSpec
CONSTANTS
  t1 = t1
  t2 = t2
  packages = packages
  publishers = publishers
  schema_migrations = schema_migrations
  yanks = yanks
  r1 = r1
  r2 = r2
  r3 = r3
  Procs = {t1, t2}
  Tables <- OneTable
  MigTable = schema_migrations
  Rank <- MapOrder
  Rows = {r1, r2}
  MigRow = MigRow
  Junk = Junk
  Faults <- QuietFaults
  MaxOpens = 9
  Free = Free
  MaxCalls = 3
  MaxResets = 1
INVARIANTS
  SessionTypeOK
  OneChildAtATime
  StatementsSeeMigration
PROPERTIES
  ImplementsRowStore
  FailureIsLatched
  CallsReturn
CHECK_DEADLOCK FALSE
