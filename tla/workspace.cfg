SPECIFICATION FairSpec
CONSTANTS
  StageKinds = {"private_review", "prepared_bundle", "narration_review"}
  Workers = {w1, w2}
  MaxAttempts = 3
  MaxReworks = 1
  MaxFaults = 2
  MaxOverruns = 1
  None = None
CHECK_DEADLOCK FALSE
INVARIANT AcceptedStaysInLease
PROPERTY CrashIsRetried
