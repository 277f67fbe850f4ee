-------------------------- MODULE MessageDelivery --------------------------
(***************************************************************************)
(* What the queues of Miniflare promise the senders and consumers of       *)
(* messages, without batches in the making, timers and flushes: a message  *)
(* is with one consumer at a time, is tried a limited number of times on   *)
(* each queue, and is given up only when the tries are used up.            *)
(***************************************************************************)
EXTENDS Naturals, FiniteSets

CONSTANTS
    Messages, Queues, Consumed, DeadLetter, NoQueue,
    BatchLimit,    \* messages in a batch
    TryLimit       \* deliveries of a message on one queue

VARIABLES
    status,  \* what became of each message
    home,    \* the queue that has each message
    tries    \* failed deliveries of each message on that queue

vars == <<status, home, tries>>

Finished == {"acked", "dropped", "lost"}

Init ==
    /\ status = [m \in Messages |-> "unsent"]
    /\ home = [m \in Messages |-> NoQueue]
    /\ tries = [m \in Messages |-> 0]

(* The messages ms change to status s; a finished message has no home.     *)
Become(ms, s, q) ==
    /\ status' = [m \in Messages |-> IF m \in ms THEN s ELSE status[m]]
    /\ home' = [m \in Messages |->
                  IF m \in ms THEN IF s \in Finished THEN NoQueue ELSE q
                              ELSE home[m]]

At(ms, s, q) == \A m \in ms : status[m] = s /\ home[m] = q

Send(q, ms) ==
    /\ At(ms, "unsent", NoQueue)
    /\ Become(ms, IF q \in Consumed THEN "waiting" ELSE "dropped", q)
    /\ UNCHANGED tries

Dispatch(q, ms) ==
    /\ At(ms, "waiting", q)
    /\ Cardinality(ms) <= BatchLimit
    /\ Become(ms, "out", q)
    /\ UNCHANGED tries

Ack(q, ms) ==
    /\ At(ms, "out", q)
    /\ Become(ms, "acked", q)
    /\ UNCHANGED tries

Fail(q, m) ==
    /\ At({m}, "out", q)
    /\ tries' = [tries EXCEPT ![m] = @ + 1]
    /\ Become({m}, IF tries[m] + 1 < TryLimit THEN "waiting"
                   ELSE IF DeadLetter[q] # NoQueue THEN "moving"
                   ELSE "dropped", q)

Move(q, ms) ==
    LET d == DeadLetter[q]
    IN /\ At(ms, "moving", q)
       /\ IF d \in Consumed
          THEN /\ Become(ms, "waiting", d)
               /\ tries' = [m \in Messages |-> IF m \in ms THEN 0 ELSE tries[m]]
          ELSE /\ Become(ms, "dropped", d)
               /\ UNCHANGED tries

(* A call between the parts of the system failed.                          *)
Lose(ms) ==
    /\ \A m \in ms : status[m] \in {"out", "moving"}
    /\ Become(ms, "lost", NoQueue)
    /\ UNCHANGED tries

Next ==
    \/ \E q \in Queues, ms \in SUBSET Messages :
          \/ Send(q, ms)
          \/ Dispatch(q, ms)
          \/ Ack(q, ms)
          \/ Move(q, ms)
    \/ \E q \in Queues, m \in Messages : Fail(q, m)
    \/ \E ms \in SUBSET Messages : Lose(ms)

Spec == Init /\ [][Next]_vars
=============================================================================
