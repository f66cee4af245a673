SPECIFICATION Spec
CONSTANTS
  c1 = c1
  c2 = c2
  None = None
  Conns = {c1}
  Switches = {"hush"}
  MaxLog = 2
  MaxPipelines = 1
INVARIANT ChatInOrder
CHECK_DEADLOCK FALSE
