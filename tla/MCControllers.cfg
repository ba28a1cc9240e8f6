SPECIFICATION ControllersSpec
CONSTANTS
    Lower <- LowerCase
    UnknownTags <- Tags
    Names = {"home", "user"}
    Bases <- AlsoWithParameter
    ActionNames = {"", "show"}
    Tails <- MCTails
    RouteMethods = {"get", "any"}
    ClientRequests <- MCRequests
    CreateTwice = FALSE
    MaxContexts = 2
    MaxRoutes = 3
CHECK_DEADLOCK FALSE
INVARIANTS ControllersInv ParametersStandForTags UrlLeadsBack
