SPECIFICATION FairSpec
CONSTANTS
  Languages = {"ar", "fr"}
  Sections = {"intro", "closing"}
  First = "intro"
  Closing = "closing"
  Narrations <- MCNarrations
  None = None
  MaxInputs = 4
  MaxFailures = 1
CHECK_DEADLOCK FALSE
INVARIANTS HeardIsCurrent ButtonTellsTruth
PROPERTIES NarrationEnds RetryEnds
