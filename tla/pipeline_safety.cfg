\* One log, one consumer; rotation, checkpoints that cannot be written, tail failures,
\* shutdowns that drain or time out, kills.
SPECIFICATION PipelineSpec
CONSTANTS
    Sensors = {eve}
    Inodes = {i1, i2}
    NoFile = NoFile
    NoRecord = NoRecord
    QueueMax = 1
    CheckpointEvery = 2
    SelfRotating = {}
    TornWrites = {}
    InodeReuse = FALSE
    DiskFaults = TRUE
    MaxLines = 2
    MaxFaults = 1
    Ips = {src}
    IpOf <- SourceOf
    Stamps = {1, 2}
    StampsOf <- AnyStamp
    Sends = 1
    Ignored <- FirstLines
    Consumers = {c1}
    MaxAttempts = 1
INVARIANTS
    PipelineTypeOK
    Accounted
PROPERTIES
    LedgerKept
SYMMETRY PipelineSymmetry
