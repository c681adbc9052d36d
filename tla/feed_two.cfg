SPECIFICATION Spec
CONSTANTS
  i1 = i1
  i2 = i2
  c1 = c1
  c2 = c2
  Inserters = {i1, i2}
  Tables = {packages, publishers}
  Wildcard = Wildcard
  Fds = {}
  SockBuf = 1
  SmallBuffer = TRUE
  Sigpipe = FALSE
  MaxEvents = 2
  MaxSubs = 2
INVARIANTS
  PolledThenQueued
  CallbacksRunOnce
CHECK_DEADLOCK FALSE
SYMMETRY FeedSymmetry
