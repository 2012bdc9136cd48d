SPECIFICATION Spec
CONSTANTS
    Process = {"operator", "other"}
    SourceZone <- AliasSourceZone
    Transferable <- MCTransferable
    Probed <- MCProbed
    TargetZones <- MCTargetZones
    Desired <- MCDesired
    SchemeOf <- MCSchemeOf
    EditTo <- MCEditTo
    Tlsa <- MCTlsa
    Command <- MCCommand
    MaxCommands = 2
    MaxFaults = 1
INVARIANTS
    PulledFromZone
CHECK_DEADLOCK FALSE
