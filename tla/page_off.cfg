SPECIFICATION Spec
CONSTANTS
  Languages = {"ar", "fr"}
  Sections = {"intro", "closing"}
  First = "intro"
  Closing = "closing"
  Narrations <- MCNarrations
  None = None
  MaxInputs = 3
  MaxFailures = 1
CHECK_DEADLOCK FALSE
INVARIANT OffIsSilent
