\* A sensor that learns of a rotation only afterwards.
SPECIFICATION TailSpec
CONSTANTS
    Sensors = {eve}
    Inodes = {i1, i2}
    NoFile = NoFile
    NoRecord = NoRecord
    QueueMax = 1
    CheckpointEvery = 2
    SelfRotating = {}
    TornWrites = {}
    InodeReuse = FALSE
    DiskFaults = FALSE
    MaxLines = 3
    MaxFaults = 2
INVARIANTS
    AllDrained
SYMMETRY InodeSymmetry
