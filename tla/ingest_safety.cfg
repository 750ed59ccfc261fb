\* Two consumers, two records of one address and one that is no event, replays, failures with and without effect, a restart.
SPECIFICATION IngestSpec
CONSTANTS
    Records = {1, 2, 3}
    NoRecord = NoRecord
    Ips = {src}
    IpOf <- SourceOf
    Stamps = {1, 2}
    StampsOf <- AnyStamp
    Sends = 2
    Ignored = {3}
    Consumers = {c1, c2}
    MaxAttempts = 2
    QueueMax = 1
    MaxRestarts = 1
INVARIANTS
    IngestTypeOK
    CountNeverInflated
PROPERTIES
    LedgerKept
SYMMETRY ConsumerSymmetry
