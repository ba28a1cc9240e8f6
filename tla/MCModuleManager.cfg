\* Two updates, each of which may fail at any step.
SPECIFICATION Spec
CONSTANTS
    a1 = a1
    a2 = a2
    a3 = a3
    f1 = f1
    f2 = f2
    Apps = {a1, a2, a3}
    Files = {f1, f2}
    ModuleOf <- MCModuleOf
    Settings <- MCSettings
    Updatable = {a1, a2, a3}
    Sizes = {10, 20}
    MaxLoads = 5
    MaxStaged = 2
    MaxRuns = 1
    Failures = {"source", "destination", "delete", "move", "open", "methods", "init"}
INVARIANTS
    ModulesInv
    AllUpdated
    ExitBeforeReplace
\* A server that is down, or has failed an assertion, takes no step.
CHECK_DEADLOCK FALSE
