SPECIFICATION Spec
CONSTANTS
    Applications <- TwoApplications
    Loadable = {{}, {1, 2}}
    Contested = {2}
    MaxRuns = 2
    MaxCommands = 1
    Connections = {c1}
    Answer <- HeadAndBody
    Width = 16
CHECK_DEADLOCK FALSE
INVARIANTS TlsInv ListenersWork FreedOnce AnswerHonest
