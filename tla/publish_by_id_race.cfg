SPECIFICATION Spec
CONSTANTS
    Value <- RaceValue
    SlotOf <- RaceSlotOf
    ClassOf <- RaceClassOf
    Desired <- RaceDesired
    Publisher = {p1, p2}
    FirstId = 2
    MaxFaults = 1
    MaxForeign = 1
    MaxId = 5
INVARIANTS
    IInv
    ExactOnSuccess
PROPERTIES
    SlotsNeverEmptied
    ForeignUntouched
    ExactZoneIsLeftAlone
