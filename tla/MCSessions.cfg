SPECIFICATION Spec
CONSTANTS
  MaxLines = 5
  MaxShown = 3
  MaxDrops = 1
  ReplayLimit = 2
CHECK_DEADLOCK FALSE
INVARIANTS
  TypeOK
  VitalsAreTrue
PROPERTIES
  FeedIsFaithful
  FeedCatchesUp
  CardsCatchUp
