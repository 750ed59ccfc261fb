\* SIGTERM with a drain window that closes too early; nothing crashes.
SPECIFICATION OrderlySpec
CONSTANTS
    Sensors = {eve}
    Inodes = {i1, i2}
    NoFile = NoFile
    NoRecord = NoRecord
    QueueMax = 1
    CheckpointEvery = 2
    SelfRotating = {}
    TornWrites = {}
    InodeReuse = FALSE
    DiskFaults = FALSE
    MaxLines = 2
    MaxFaults = 1
    Ips = {src}
    IpOf <- SourceOf
    Stamps = {1}
    StampsOf <- AnyStamp
    Sends = 1
    Ignored = {}
    Consumers = {c1}
    MaxAttempts = 1
INVARIANTS
    AtLeastOnce
SYMMETRY PipelineSymmetry
