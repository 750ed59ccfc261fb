\* A call fails after the row is stored.
SPECIFICATION IngestSpec
CONSTANTS
    Records = {1}
    NoRecord = NoRecord
    Ips = {src}
    IpOf <- SourceOf
    Stamps = {1}
    StampsOf <- AnyStamp
    Sends = 1
    Ignored = {}
    Consumers = {c1}
    MaxAttempts = 2
    QueueMax = 1
    MaxRestarts = 0
INVARIANTS
    StoredReachesBus
