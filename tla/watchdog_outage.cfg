\* One tail that does not fail, one consumer; the calls of an attempt take up to a minute.
SPECIFICATION WatchSpec
CONSTANTS
    Tails = {t1}
    Consumers = {c1}
    QueueMax = 1
    MaxAttempts = 4
    TailStale = 3
    ConsumerStale = 6
    Poll = 2
    IdleBeat = 1
    CallsMax = 3
    Ceiling <- Backoffs
    TailsFail = FALSE
INVARIANTS
    TailsSpared
