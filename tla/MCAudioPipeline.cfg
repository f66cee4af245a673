SPECIFICATION Spec
CONSTANT MaxWords = 4
INVARIANTS
  TypeOK
  EveryWordInOnePlace
  OneLiveTurn
  StateMatchesTurn
CONSTRAINT NoClash
CHECK_DEADLOCK FALSE
