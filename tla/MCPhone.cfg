SPECIFICATION Spec
CONSTANTS
  Attempts = 3
  Lockout = 2
  PairingTtl = 1
  LoginTtl = 1
  SessionTtl = 2
  MaxClock = 3
  MaxGuesses = 4
  MaxChallenges = 3
  Requests = {r1, r2}
  ServerWait = 2
  HookWait = 3
  MaxBoots = 2
CHECK_DEADLOCK FALSE
INVARIANTS
  TypeOK
  FewGuesses
  Admission
  TakenIsTold
PROPERTIES
  VerdictHolds
  EveryAskEnds
