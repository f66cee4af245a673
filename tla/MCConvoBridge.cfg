SPECIFICATION Spec
CONSTANTS
  s1 = s1
  s2 = s2
  s3 = s3
  None = None
  Streams = {s1, s2, s3}
  MaxEpoch = 1
  MaxLog = 4
  MaxInputs = 1
  Laptop = TRUE
INVARIANTS
  TypeOK
  SpeaksOwnReply
  SpeaksWholeReply
  StopsAtOwnEnd
  CountsOwedEnds
CONSTRAINT Undisturbed
SYMMETRY Interchangeable
CHECK_DEADLOCK FALSE
