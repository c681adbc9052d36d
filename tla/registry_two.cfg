SPECIFICATION Spec
CONSTANTS
  t1 = t1
  t2 = t2
  d1 = d1
  d2 = d2
  Threads = {t1, t2}
  PublisherNames <- OnePublisher
  PackageNames <- TwoPackages
  Versions <- TheVersions
  Digests <- TwoDigests
  Publications <- ThePublications
  Rejected <- TheRejected
  Failing = TRUE
  MaxCalls = 3
  NoId = NoId
INVARIANTS
  TypeOK
  ReferencesResolve
  NamesAreUnique
  LonePublishReadsBack
PROPERTIES
  ResolvedRecordsAreFinal
  ListsAreComplete
CHECK_DEADLOCK FALSE
SYMMETRY ThreadSymmetry
