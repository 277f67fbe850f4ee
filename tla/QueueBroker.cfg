SPECIFICATION FairSpec
CONSTANTS
    Messages = {m1, m2, m3}
    work = work
    dlq = dlq
    cyclic = FALSE
    large = {m1}
    Queues = {work, dlq}
    Consumed = {work}
    DeadLetter <- MCDeadLetter
    NoQueue = NoQueue
    BatchSize = 2
    BatchTimeout = 1
    MaxRetries = 1
    Bytes <- MCBytes
    Flights = {f1, f2}
    MaxOrphans = 2
    LogMayFail = FALSE
INVARIANTS
    EveryMessageInOnePlace
    BacklogBytesAgree
    FlushIsComing
    FullBatchesGoAtOnce
PROPERTIES
    EveryMessageSettles
CHECK_DEADLOCK FALSE
