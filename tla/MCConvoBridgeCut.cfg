SPECIFICATION Spec
CONSTANTS
  s1 = s1
  s2 = s2
  s3 = s3
  None = None
  Streams = {s1, s2}
  MaxEpoch = 1
  MaxLog = 3
  MaxInputs = 0
  Laptop = FALSE
INVARIANT SpeaksOnlyItsOwnReply
CONSTRAINT OneAtATime
CHECK_DEADLOCK FALSE
