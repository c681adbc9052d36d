SPECIFICATION Spec
CONSTANTS
  p1 = p1
  p2 = p2
  packages = packages
  publishers = publishers
  schema_migrations = schema_migrations
  yanks = yanks
  r1 = r1
  r2 = r2
  r3 = r3
  Procs = {p1}
  Tables <- LateTable
  MigTable = schema_migrations
  Rank <- MapOrder
  Rows = {r1, r2}
  MigRow = MigRow
  Junk = Junk
  Faults <- AllFaults
  MaxOpens = 4
INVARIANTS
  FeedFollowsWal
  LoggedRowsStayStored
  MarkedCatalogIsComplete
  TornFilesAreSplices
  SavedRowsAreReadBack
CHECK_DEADLOCK FALSE
SYMMETRY ProcSymmetry
