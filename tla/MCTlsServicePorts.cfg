SPECIFICATION Spec
CONSTANTS
    Applications <- TwoApplications
    Loadable = {{1, 2}}
    Contested = {}
    MaxRuns = 2
    MaxCommands = 2
    Connections = {c1}
    Answer <- HeadAndBody
    Width = 16
CHECK_DEADLOCK FALSE
INVARIANT PortsBound
