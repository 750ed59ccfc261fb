\* As in watchdog.cfg: the calls of an attempt take up to three minutes.
SPECIFICATION WatchSpec
CONSTANTS
    Tails = {t1}
    Consumers = {c1}
    QueueMax = 1
    MaxAttempts = 4
    TailStale = 3
    ConsumerStale = 6
    Poll = 2
    IdleBeat = 1
    CallsMax = 9
    Ceiling <- Backoffs
    TailsFail = FALSE
INVARIANTS
    ConsumersSpared
