SPECIFICATION FairSpec
CONSTANTS
  s1 = s1
  s2 = s2
  s3 = s3
  None = None
  Streams = {s1, s2}
  MaxEpoch = 2
  MaxLog = 2
  MaxInputs = 0
  Laptop = FALSE
INVARIANTS
  SpeaksOwnReply
  CountsOwedEnds
PROPERTY EveryStreamEnds
CHECK_DEADLOCK FALSE
