SPECIFICATION Spec
CONSTANTS
  t1 = t1
  t2 = t2
  d1 = d1
  d2 = d2
  Threads = {t1, t2}
  PublisherNames <- OnePublisher
  PackageNames <- OnePackage
  Versions <- PlainVersions
  Digests <- TwoDigests
  Publications <- ThePublications
  Rejected <- TheRejected
  Failing = FALSE
  MaxCalls = 2
  NoId = NoId
INVARIANT
  ReadBackSucceeds
CHECK_DEADLOCK FALSE
