SPECIFICATION FairSpec
CONSTANTS
  Workers = {w1, w2}
  Pollers = {}
  MaxFaults = 1
  MaxLag = 1
  Digests = {d1}
  Targets = {t1}
  Messages = {1}
  Correlations = {ours, other}
  JobCorrelation = ours
  NarrationChoices = {FALSE}
  CommandIds = {1, 2, 3}
  Times = {0, 1, 2, 3, 4, 5, 6, 7}
  MaxRevision = 1
  MaxAttempts <- MCMaxAttempts
  LeaseMs <- MCLeaseMs
  BackoffMs <- MCBackoffMs
  None = None
CHECK_DEADLOCK FALSE
PROPERTY WorkSettles
PROPERTY IssuesStoreCommands
