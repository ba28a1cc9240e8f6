\* Three processes, crashes, reused process ids, forced starts.
SPECIFICATION Spec
CONSTANTS
    Processes = {p1, p2, p3}
    Pids = {2, 3, 4}
    MaxStarts = 4
    MaxCrashes = 2
    ServerName = "Skylar"
    DefaultName = "Skylar"
    CommandLines <- Forced
SYMMETRY MCSymmetry
INVARIANTS
    InstanceInv
    OneServerUnlessBypassed
\* No start is left within the bounds.
CHECK_DEADLOCK FALSE
