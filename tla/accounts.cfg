SPECIFICATION Spec
CONSTANTS
    Process = {p, q}
    Domain <- MCDomain
    Address <- MCAddress
    DomainOf <- MCDomainOf
    Command <- MCCommand
    FirstSelector = {"none"}
    NoSelector = "none"
    Manual = "manual"
    MaxCommands = 2
    MaxFaults = 2
    MaxMails = 1
INVARIANTS
    KeyBeforeRow
    AuditFollowsChange
    SyncRepairs
PROPERTIES
    NoOrphansUnlessOvertaken
SYMMETRY Symmetry
CHECK_DEADLOCK FALSE
