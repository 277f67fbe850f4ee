--------------------------- MODULE MCQueueBroker ---------------------------
(* Instances of QueueBroker for TLC.                                       *)
EXTENDS QueueBroker

CONSTANTS
    work, dlq,  \* two queues
    cyclic,     \* whether dlq has work as its dead letter queue
    large       \* messages with a larger body

MCDeadLetter ==
    [q \in Queues |-> IF q = work THEN dlq
                      ELSE IF q = dlq /\ cyclic THEN work ELSE NoQueue]

MCBytes == [m \in Messages |-> IF m \in large THEN 2 ELSE 1]
=============================================================================
