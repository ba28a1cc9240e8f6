SPECIFICATION Spec
CONSTANTS
    Requests <- InOrder
    Chunk = 3
    UlongSize = 32
CHECK_DEADLOCK FALSE
INVARIANTS FileInv LengthAsAnnounced ContentRangeHolds
