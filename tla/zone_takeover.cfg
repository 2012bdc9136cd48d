SPECIFICATION Spec
CONSTANTS
    Value <- MCValue
    Web <- MCWeb
    Desired <- MCDesired
    SameSecond = FALSE
    FirstId = 3
    MaxId = 8
    MaxSecond = 1
    MaxFaults = 1
    MaxOthers = 1
INVARIANTS
    TakeoverExact
    RestoreExact
PROPERTIES
    RemovesOnlyWhatIsBackedUp
    BackupsSurvive
    WebKept
CHECK_DEADLOCK FALSE
