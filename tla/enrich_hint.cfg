\* One address, one failed call.
SPECIFICATION QueueSpec
CONSTANTS
    Addrs = {src}
    Ids = {1, 2, 3, 4}
    StreamMax = 1
    BatchMax = 1
    RefreshMax = 1
    MaxAttempts = 2
    MaxFails = 1
    MaxFaults = 0
    MaxEntries = 4
INVARIANTS
    HintFollows
