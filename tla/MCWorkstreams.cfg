SPECIFICATION Spec
CONSTANTS
  t1 = t1
  t2 = t2
  a = a
  b = b
  None = None
  Status = Status
  Tasks = {t1, t2}
  Names = {a, b}
  CodexNames = {b}
  PrefixOf <- Prefixed
  MaxSessions = 7
  MaxLines = 1
  MaxEvents = 2
  Before = {a}
  Greets = TRUE
  PlanOn = {FALSE}
  InjectOn = {TRUE}
CONSTRAINT FewAccidents
SYMMETRY Symmetric
CHECK_DEADLOCK FALSE
INVARIANT
  TypeOK
  StoreMatchesMemory
  NoStrays
  NothingSkipped
  BootsAgain
  OwnText
  OwnRollout
