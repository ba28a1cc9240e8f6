SPECIFICATION Spec
CONSTANTS
    Lower <- Names
    UnknownTags <- None
    Kinds <- Everything
    Directories <- OnlyDirectory
    Files <- OnlyFile
    CheckedMethods = {"post"}
    MaxRequests = 3
    Window = 2
    MaxRedeploys = 1
    MaxExpiries = 1
CHECK_DEADLOCK FALSE
INVARIANTS NovaInv AnsweredOnce TokenDecides
PROPERTY LoginLostOnlyToOlderRequest
