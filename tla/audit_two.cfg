SPECIFICATION Spec
CONSTANTS
  Threads = {t1, t2}
  Profiles = {"cli_admin"}
  Caps = {"session", "migration"}
  Granted <- AdminCaps
  Events <- Query
  Refused <- Unwritable
  MaxAppends = 4
  MaxChanges = 1
  MaxChecks = 1
SYMMETRY Symmetry
INVARIANTS
  ReturnedEntriesStay
  VerdictsAreRight
  HashFixesThePast
CHECK_DEADLOCK FALSE
