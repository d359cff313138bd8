SPECIFICATION Spec
CONSTANTS
    Submissions = {"s1", "s2"}
    Payments = {"p1", "p2"}
    Intakes = {"first", "other"}
    Emails = {"parent@", "guest@"}
    EmailOf <- MCEmailOf
    Materials = {"m1", "m2"}
    TallyEvents <- ContestedTally
    StripeEvents <- ContestedStripe
    MaxAttempts = 2
    SweepLimit = 1
    MaxEdits = 2
    MaxCycles = 4
    None = None
INVARIANTS OneLiveRun WorkIsPaid AnswerOfLastLease StatusFollowsEvidence
PROPERTIES ReadyIsEligible RunsMoveForward
