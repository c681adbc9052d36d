SPECIFICATION Spec
CONSTANTS
  a = a
  b = b
  c = c
  x = x
  y = y
  i1 = i1
  f1 = f1
  f2 = f2
  t1 = t1
  t2 = t2
  Threads = {t1, t2}
  Columns = {a, b, c, "hidden"}
  Catalogued = {a, b, c}
  Params = {x, y}
  Values <- Texts
  Verbatim <- InEverySql
  Statements <- AnyStatements
  LiqIds = {i1}
  FrozenPlans <- RegistryPlans
  MaxRegisters = 2
  MaxCalls = 2
  MaxClears = 1
SYMMETRY AnyThread
INVARIANTS
  StoredAsBound
  RegistryPlansAreThere
PROPERTIES
  ReadsAnswerTheirWhere
  InsertsFailOnlyOnRepeats
CHECK_DEADLOCK FALSE
