SPECIFICATION Spec
CONSTANTS
  p1 = p1
  p2 = p2
  packages = packages
  publishers = publishers
  schema_migrations = schema_migrations
  yanks = yanks
  r1 = r1
  r2 = r2
  r3 = r3
  Procs = {p1, p2}
  Tables <- LateTable
  MigTable = schema_migrations
  Rank <- MapOrder
  Rows = {r1}
  MigRow = MigRow
  Junk = Junk
  Faults <- AllFaults
  MaxOpens = 2
INVARIANTS
  TypeOK
  SessionLogsAreSequential
  MarkerFollowsEarlierTables
CHECK_DEADLOCK FALSE
SYMMETRY ProcSymmetry
