SPECIFICATION Spec
CONSTANTS
    Messages = {m1, m2}
    work = work
    dlq = dlq
    cyclic = TRUE
    large = {m1}
    Queues = {work, dlq}
    Consumed = {work, dlq}
    DeadLetter <- MCDeadLetter
    NoQueue = NoQueue
    BatchSize = 2
    BatchTimeout = 1
    MaxRetries = 1
    Bytes <- MCBytes
    Flights = {f1, f2}
    MaxOrphans = 1
    LogMayFail = TRUE
PROPERTIES
    ImplementsDelivery
CHECK_DEADLOCK FALSE
