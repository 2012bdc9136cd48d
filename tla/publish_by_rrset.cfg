SPECIFICATION Spec
CONSTANTS
    Value <- MCValue
    SlotOf <- MCSlotOf
    ClassOf <- MCClassOf
    SetOf <- MCSetOf
    Desired <- MCDesired
    Backends = {"desec", "servercow", "servfail"}
    Publisher = {p1, p2}
    TwoSpellings = FALSE
    Disabled = {}
    MaxAttempts = 2
    MaxFaults = 2
    MaxForeign = 1
INVARIANTS
    TypeOK
    ExactOnSuccess
PROPERTIES
    WritesImprove
    ForeignKeptUnlessRacing
    Converges
