SPECIFICATION Spec
CONSTANTS
    Value <- MCValue
    SlotOf <- MCSlotOf
    ClassOf <- MCClassOf
    SetOf <- MCSetOf
    Desired <- MCDesired
    Backends = {"servfail"}
    Publisher = {p1}
    TwoSpellings = FALSE
    Disabled = {"mxOld"}
    MaxAttempts = 2
    MaxFaults = 0
    MaxForeign = 0
INVARIANT
    ExactOnSuccess
