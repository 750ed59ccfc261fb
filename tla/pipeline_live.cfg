\* End to end under fairness.
SPECIFICATION FairPipelineSpec
CONSTANTS
    Sensors = {eve}
    Inodes = {i1, i2}
    NoFile = NoFile
    NoRecord = NoRecord
    QueueMax = 1
    CheckpointEvery = 2
    SelfRotating = {}
    TornWrites = {}
    InodeReuse = FALSE
    DiskFaults = FALSE
    MaxLines = 1
    MaxFaults = 1
    Ips = {src}
    IpOf <- SourceOf
    Stamps = {1}
    StampsOf <- AnyStamp
    Sends = 1
    Ignored = {}
    Consumers = {c1}
    MaxAttempts = 2
PROPERTIES
    EventuallyAccounted
