\* A sensor that rotates its own log, under the fairness
\* that asyncio and the restart policy give.
SPECIFICATION FairTailSpec
CONSTANTS
    Sensors = {cowrie}
    Inodes = {i1, i2}
    NoFile = NoFile
    NoRecord = NoRecord
    QueueMax = 1
    CheckpointEvery = 2
    SelfRotating = {cowrie}
    TornWrites = {}
    InodeReuse = FALSE
    DiskFaults = FALSE
    MaxLines = 3
    MaxFaults = 2
INVARIANTS
    DrainedFully
PROPERTIES
    EventuallySettled
