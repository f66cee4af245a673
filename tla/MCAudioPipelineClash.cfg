SPECIFICATION FairSpec
CONSTANT MaxWords = 2
INVARIANTS
  HeldEndpointHasWords
  ClosedIsQuiet
PROPERTY TurnComesToAnEnd
CHECK_DEADLOCK FALSE
