\* One tail, one consumer, ticks of twenty seconds; an attempt takes up to three minutes.
SPECIFICATION FairWatchSpec
CONSTANTS
    Tails = {t1}
    Consumers = {c1}
    QueueMax = 1
    MaxAttempts = 4
    TailStale = 3
    ConsumerStale = 6
    Poll = 2
    IdleBeat = 1
    CallsMax = 9
    Ceiling <- Backoffs
    TailsFail = TRUE
INVARIANTS
    WatchTypeOK
    RestartForCause
PROPERTIES
    HangEnds
