\* One address: a failed lookup and its second attempt, and a loss of Redis, a stop, a kill or
\* another failed call at any point.
SPECIFICATION FairQueueSpec
CONSTANTS
    Addrs = {src}
    Ids = {1, 2, 3}
    StreamMax = 1
    BatchMax = 1
    RefreshMax = 1
    MaxAttempts = 2
    MaxFails = 1
    MaxFaults = 1
    MaxEntries = 4
PROPERTIES
    EventuallyEnriched
    PendingDrains
