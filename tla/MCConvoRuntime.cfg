SPECIFICATION FairSpec
CONSTANTS
  c1 = c1
  c2 = c2
  None = None
  Conns = {c1, c2}
  Switches = {"hush"}
  MaxLog = 2
  MaxPipelines = 3
INVARIANTS
  TypeOK
  NoPipelineLeaks
  OneLiveSocket
  SwitchesSurvive
  ChatIsWhole
PROPERTIES
  PlaceLostToSuccessor
  EverySocketIsServed
CHECK_DEADLOCK FALSE
