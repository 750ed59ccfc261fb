\* As in ingest_safety.cfg, without restarts.
SPECIFICATION IngestSpec
CONSTANTS
    Records = {1, 2, 3}
    NoRecord = NoRecord
    Ips = {src}
    IpOf <- SourceOf
    Stamps = {1, 2}
    StampsOf <- AnyStamp
    Sends = 2
    Ignored = {3}
    Consumers = {c1, c2}
    MaxAttempts = 2
    QueueMax = 1
    MaxRestarts = 0
INVARIANTS
    StoredOnce
