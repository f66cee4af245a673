SPECIFICATION Spec
CONSTANT MaxWords = 2
INVARIANT SupersededTurnIsCancelled
CHECK_DEADLOCK FALSE
