SPECIFICATION Spec
CONSTANTS
    Value <- MCValue
    SlotOf <- MCSlotOf
    ClassOf <- MCClassOf
    SetOf <- MCSetOf
    Desired <- MCDesired
    Backends = {"desec", "servercow", "servfail"}
    Publisher = {p1}
    TwoSpellings = TRUE
    Disabled = {}
    MaxAttempts = 2
    MaxFaults = 0
    MaxForeign = 0
PROPERTY
    SlotsNeverEmptied
