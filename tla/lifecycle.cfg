SPECIFICATION JobSpec
CONSTANTS
  Digests = {d1, d2}
  Targets = {t1}
  Messages = {m1, m2}
  Correlations = {ours, other}
  JobCorrelation = ours
  NarrationChoices = {TRUE, FALSE}
  CommandIds = {1, 2, 3, 4, 5, 6, 7}
  Times = {0, 1, 2}
  MaxRevision = 2
  MaxAttempts <- MCMaxAttempts
  LeaseMs <- MCLeaseMs
  BackoffMs <- MCBackoffMs
  None = None
SYMMETRY Symmetry
CHECK_DEADLOCK FALSE
INVARIANT ApprovalOutlivesRelease
INVARIANT CommandsApplyOnce
INVARIANT OneKeyPerEffect
INVARIANT OneLease
INVARIANT ReleasedAsApproved
INVARIANT TypeOK
INVARIANT WorkCanGoOn
PROPERTY RecordsStand
