SPECIFICATION FairSpec
CONSTANTS
  Words <- AllWords
  Params = {"$p", "$q"}
  Numbers = {"7"}
  Opens <- Pieces
  Closes <- Ends
  Forbidden = {";", "${"}
  Tables = {"t"}
  Columns = {"a", "b"}
  Sources <- Texts
INVARIANTS
  NeverMisread
  DocumentedFormIsAccepted
  WritesAreKept
  ReadsAreClauses
PROPERTY
  ParserStops
CHECK_DEADLOCK FALSE
