SPECIFICATION FairSpec
CONSTANTS
  Jobs = {j1}
  Keys = {k1}
  Intakes = {i1}
  Sessions = {1, 2}
  EventIds = {1, 2}
  Intents = {p1, p2}
  Submitters = {r1}
  Customers = {c1, c2}
  Deliverers = {d1, d2}
  PaidStates = {"generation_queued", "failed"}
  MaxFaults = 1
  None = None
INVARIANTS TokensHaveJobs ToldSessionIsBound OneSessionPerKey AcceptedIsPaid
CHECK_DEADLOCK FALSE
PROPERTIES PromisesStand AskingGetsCheckout PaymentArrives
