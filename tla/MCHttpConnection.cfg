SPECIFICATION Spec
CONSTANTS
    Scripts <- Dialogues
    Negotiations = {"plain", "http/1.1", "h2", "failed"}
    BufferSize = 3
    RequestMaxSize = 2
    KeepAlive = 3
CHECK_DEADLOCK FALSE
INVARIANTS HttpInv ContentWhole RefusalIsLast PromiseKept
PROPERTY EventuallyDone
