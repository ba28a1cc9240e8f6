\* Safety: four connections, so the pool (limit 2) can fill, overflow by a
\* batch and drain while a fourth connection is still arriving.
SPECIFICATION FairSpec
CONSTANTS
    Connections = {c1, c2, c3, c4}
    Jobs = {j1, j2}
    PoolMaxLength = 2
    MaxBatch = 2
    NoSocket = NoSocket
INVARIANTS
    TypeOK
    AccountsBalance
    QueueBounded
    NoStrandedConnection
    QuiescentWhenAsleep
\* The server idles for ever once every client has been answered.
PROPERTIES
    EventuallyAnswered
    BackpressureReleases
    ServiceSpec
CHECK_DEADLOCK FALSE
