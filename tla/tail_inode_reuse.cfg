\* The file system hands a freed inode number out again.
SPECIFICATION TailSpec
CONSTANTS
    Sensors = {eve}
    Inodes = {i1, i2}
    NoFile = NoFile
    NoRecord = NoRecord
    QueueMax = 1
    CheckpointEvery = 2
    SelfRotating = {}
    TornWrites = {}
    InodeReuse = TRUE
    DiskFaults = FALSE
    MaxLines = 3
    MaxFaults = 2
INVARIANTS
    NoGap
SYMMETRY InodeSymmetry
