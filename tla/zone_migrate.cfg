SPECIFICATION Spec
CONSTANTS
    Process = {"operator", "other"}
    SourceZone <- MCSourceZone
    Transferable <- MCTransferable
    Probed <- MCProbed
    TargetZones <- MCTargetZones
    Desired <- MCDesired
    SchemeOf <- MCSchemeOf
    EditTo <- MCEditTo
    Tlsa <- MCTlsa
    Command <- MCCommand
    MaxCommands = 2
    MaxFaults = 1
INVARIANTS
    CopyComplete
PROPERTIES
    DelegationKept
    NoDuplicates
    PruneDeletesWhatWasShown
    Converges
CHECK_DEADLOCK FALSE
