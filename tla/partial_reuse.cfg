SPECIFICATION Spec
CONSTANTS
  StageKinds = {"private_review"}
  Workers = {w1, w2}
  MaxAttempts = 3
  MaxReworks = 0
  MaxFaults = 1
  MaxOverruns = 0
  None = None
CHECK_DEADLOCK FALSE
INVARIANT AcceptedIsComplete
