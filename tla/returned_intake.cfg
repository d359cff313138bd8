SPECIFICATION Spec
CONSTANTS
    Submissions = {"s1"}
    Payments = {"p1"}
    Intakes = {"first", "second"}
    Emails = {"parent@", "guest@"}
    EmailOf <- MCEmailOf
    Materials = {"m1"}
    TallyEvents <- PlainTally
    StripeEvents <- PlainStripe
    MaxAttempts = 2
    SweepLimit = 1
    MaxEdits = 2
    MaxCycles = 4
    None = None
INVARIANTS EligibleHasCycle
