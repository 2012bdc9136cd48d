SPECIFICATION Spec
CONSTANTS
    Value <- MCValue
    SlotOf <- MCSlotOf
    ClassOf <- MCClassOf
    Desired <- MCDesired
    Publisher = {p1}
    FirstId = 3
    MaxFaults = 2
    MaxForeign = 1
    MaxId = 9
INVARIANT
    EveryMutationAudited
