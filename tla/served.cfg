SPECIFICATION FairSpec
CONSTANTS
    Submissions = {"s1", "s2"}
    Payments = {"p1", "p2"}
    Intakes = {"first", "second", "other"}
    Emails = {"parent@", "guest@"}
    EmailOf <- MCEmailOf
    Materials = {"m1"}
    TallyEvents <- ContestedTally
    StripeEvents <- ContestedStripe
    MaxAttempts = 2
    SweepLimit = 1
    MaxEdits = 1
    MaxCycles = 4
    None = None
PROPERTIES EligibleIsServed
