\* Two processes, two commands, one failure.
SPECIFICATION Spec
CONSTANTS
    Process = {p, q}
    MaxCommands = 2
    MaxFaults = 1
    ManagedName = "mailadmin"
    Name = {"mailadmin", "roundcube"}
    NoName = "none"
    Body = {"b1", "b2", "huge"}
    NoBody = "empty"
    TooLong = {"huge"}
    QueueId = {"Q1"}
    Address = {"192.0.2.1"}
    Port = {"tcp/25"}
    Allowed = {"postfix"}
    Command <- MCCommand
    Tag <- MCTag
    Installed <- MCInstalled
    NoTag = NoTag
    Pos = {1, 2, 3}
    Folders = 2
    FolderOf <- MCFolderOf
    Mid = {m1}
    NoId = NoId
    NoFile = NoFile
    TailBuffer = 1
    PipeSize = 2
    MaxEntries = 3
    Value <- MCValue
    SlotOf <- MCSlotOf
    ClassOf <- MCClassOf
    Desired = {"spf", "MX mail"}
    Txt <- MCTxt
    Target <- MCTarget
    SpfZones <- MCSpfZones
    KeyBits <- MCKeyBits
    SpfLimit = 5
    SpfDepth = 2
    Policies <- MCPolicies
    MaxHosts = 2
    TlsaValue = {"311 a", "311 b", "211 c"}
    Usable311 = {"311 a", "311 b"}
    ExpectedPort = {25, 993}
    QueryOf <- MCQueryOf
    MaxDomains = 1
INVARIANTS
    NoLostEdit RowTellsOfDeed  InitSucceedsOnce DedupeComplete TailIsTheJournal
    PassIsEarned
PROPERTIES FilterOldOrNew AtomicReplace OnlyUpgrades KeepsFirst
SYMMETRY Symmetric
\* The commands come to an end.
CHECK_DEADLOCK FALSE
