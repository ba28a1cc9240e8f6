\* Safety: any two calls, a restart, a connection that fills the pool.
SPECIFICATION Spec
CONSTANTS
    MaxRuns = 2
    MaxCommands = 2
    Commands = {"stop", "restart", "update"}
    MaxConnections = 1
    MaxJobs = 2
    PoolMaxLength = 1
INVARIANTS
    LifecycleInv
    UpdateIsQuiescent
    SleeperWillBeWoken
\* A server that has ended, or is idle, takes no step.
CHECK_DEADLOCK FALSE
