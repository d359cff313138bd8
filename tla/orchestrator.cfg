SPECIFICATION Spec
CONSTANTS
  Workers = {w1, w2}
  Pollers = {p1}
  MaxFaults = 1
  MaxLag = 0
  Digests = {d1, d2}
  Targets = {t1, t2}
  Messages = {1, 2}
  Correlations = {ours}
  JobCorrelation = ours
  NarrationChoices = {TRUE, FALSE}
  CommandIds = {1, 2, 3, 4, 5}
  Times = {0, 1, 2, 3, 4, 5, 6, 7}
  MaxRevision = 1
  MaxAttempts <- MCAttempts
  LeaseMs <- MCLeaseMs
  BackoffMs <- MCBackoffMs
  None = None
SYMMETRY Symmetry
CONSTRAINT Scope
CHECK_DEADLOCK FALSE
INVARIANT OneEffectPerStage
INVARIANT OneTarget
INVARIANT RecordsMatchProvider
INVARIANT KeyAsksTheSame
PROPERTY KeepsContract
INVARIANT EffectsAreApproved
