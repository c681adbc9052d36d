SPECIFICATION FairSpec
CONSTANTS
  i1 = i1
  i2 = i2
  c1 = c1
  c2 = c2
  Inserters = {i1}
  Tables = {packages}
  Wildcard = Wildcard
  Fds = {c1, c2}
  SockBuf = 1
  SmallBuffer = FALSE
  Sigpipe = TRUE
  MaxEvents = 3
  MaxSubs = 0
INVARIANTS
  TypeOK
  ConnectedClientsMissNothing
  SocketStreamsAreRuns
  PublishedInLsnOrder
PROPERTIES
  EventsArePolled
  InsertsReturnOrBlock
CHECK_DEADLOCK FALSE
