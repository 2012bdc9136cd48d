SPECIFICATION Spec
CONSTANTS
    Value <- MCValue
    SlotOf <- MCSlotOf
    ClassOf <- MCClassOf
    Desired <- MCDesired
    Id = {1, 2, 3}
    MaxLive = 3
INVARIANTS
    PlanSound
    PlanComplete
CHECK_DEADLOCK FALSE
