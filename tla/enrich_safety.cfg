\* One address: batches of two, a second attempt, failed calls with and without effect,
\* a loss of Redis, a stop or a kill.
SPECIFICATION QueueSpec
CONSTANTS
    Addrs = {src}
    Ids = {1, 2, 3, 4, 5, 6, 7}
    StreamMax = 2
    BatchMax = 2
    RefreshMax = 1
    MaxAttempts = 2
    MaxFails = 2
    MaxFaults = 1
    MaxEntries = 2
CONSTRAINT FewEntries
INVARIANTS
    QueueTypeOK
    NothingForgotten
    GivenUpLast
