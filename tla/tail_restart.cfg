\* Two logs, one its sensor rotates and one that rotation moves away from under its
\* sensor: torn lines, tail failures, process deaths.
SPECIFICATION TailSpec
CONSTANTS
    Sensors = {eve, cowrie}
    Inodes = {i1, i2, i3}
    NoFile = NoFile
    NoRecord = NoRecord
    QueueMax = 1
    CheckpointEvery = 2
    SelfRotating = {cowrie}
    TornWrites = {cowrie}
    InodeReuse = FALSE
    DiskFaults = FALSE
    MaxLines = 2
    MaxFaults = 1
INVARIANTS
    TailTypeOK
    NoGap
    CheckpointCovered
    ReplayBounded
    DrainedFully
SYMMETRY InodeSymmetry
