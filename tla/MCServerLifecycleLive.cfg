\* One Run, two calls, and a pool that never fills.
SPECIFICATION FairSpec
CONSTANTS
    MaxRuns = 1
    MaxCommands = 2
    Commands = {"stop", "restart", "update"}
    MaxConnections = 1
    MaxJobs = 2
    PoolMaxLength = 2
PROPERTIES
    LeavesWhenTold
    UpdateTakenUp
\* A server that has ended, or is idle, takes no step.
CHECK_DEADLOCK FALSE
