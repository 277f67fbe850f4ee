---------------------------- MODULE QueueBroker ----------------------------
(***************************************************************************)
(* The queue brokers of Miniflare                                          *)
(* (packages/miniflare/src/workers/queues/broker.worker.ts), one durable   *)
(* object per queue: batches, retries and dead letter queues, all held in  *)
(* memory.                                                                 *)
(*                                                                         *)
(* A flush takes a batch, awaits the consumer, then awaits a log call per  *)
(* failed message; sends, timers and other flushes run in between.  One    *)
(* action is what runs up to the next await.  Time is not modelled: an     *)
(* armed timer may fire at any moment.                                     *)
(***************************************************************************)
EXTENDS Integers, FiniteSets, Sequences, SequencesExt

CONSTANTS
    Messages,      \* messages, each sent once
    Queues,        \* queue names
    Consumed,      \* queues with a consumer in this process
    DeadLetter,    \* consumer.deadLetterQueue of each queue, or NoQueue
    NoQueue,
    BatchSize,     \* consumer.maxBatchSize
    BatchTimeout,  \* consumer.maxBatchTimeout, in seconds
    MaxRetries,    \* consumer.maxRetries
    Bytes,         \* sizes of the bodies
    Flights,       \* bound: flushes in progress at a time
    MaxOrphans,    \* bound: armed timers that #pendingFlush has forgotten
    LogMayFail     \* whether the loopback service that logs may fail

ASSUME QueueAssumption ==
    /\ Consumed \subseteq Queues
    /\ NoQueue \notin Queues
    /\ DeadLetter \in [Queues -> Queues \cup {NoQueue}]
    /\ \A q \in Queues : DeadLetter[q] # q
ASSUME LimitAssumption ==
    /\ BatchSize \in Nat
    /\ BatchTimeout \in Nat
    /\ MaxRetries \in Nat
    /\ Bytes \in [Messages -> Nat]
    /\ MaxOrphans \in Nat
    /\ LogMayFail \in BOOLEAN

VARIABLES
    fate,      \* what became of each message
    attempts,  \* #failedAttempts of each message
    delayed,   \* messages whose delivery timer is armed, by queue
    backlog,   \* #messages of each queue
    bytes,     \* #backlogBytes of each queue
    pending,   \* #pendingFlush of each queue
    orphans,   \* armed flush timers that #pendingFlush no longer refers to
    flush      \* calls of #flush in progress

vars == <<fate, attempts, delayed, backlog, bytes, pending, orphans, flush>>

Fates == {"unsent", "live", "acked", "dropped", "lost"}

(* #pendingFlush outlives its timer: it stays defined, and not armed, while *)
(* the flush that the timer started is in progress.                        *)
PendingFlush == [kind : {"none", "delayed", "immediate"}, armed : BOOLEAN]
NoFlush == [kind |-> "none", armed |-> FALSE]

(* dispatched: the consumer has the batch todo; settling: todo are the     *)
(* failed messages still to look at, dead those found to be out of         *)
(* retries; moving: dead is on its way to the dead letter queue.           *)
IdleFlush == [phase |-> "idle", todo |-> <<>>, dead |-> <<>>]
FlushState ==
    [phase : {"dispatched", "settling", "moving"}, queue : Consumed,
     todo : Seq(Messages), dead : Seq(Messages)] \cup {IdleFlush}

MaxAttempts == MaxRetries + 1

Init ==
    /\ fate = [m \in Messages |-> "unsent"]
    /\ attempts = [m \in Messages |-> 0]
    /\ delayed = [q \in Queues |-> {}]
    /\ backlog = [q \in Queues |-> <<>>]
    /\ bytes = [q \in Queues |-> 0]
    /\ pending = [q \in Queues |-> NoFlush]
    /\ orphans = [q \in Queues |-> 0]
    /\ flush = [f \in Flights |-> IdleFlush]

BytesOf(s) ==
    LET sum[n \in 0..Len(s)] == IF n = 0 THEN 0 ELSE sum[n - 1] + Bytes[s[n]]
    IN sum[Len(s)]

-----------------------------------------------------------------------------
NewFlush(n) ==
    [kind |-> IF n >= BatchSize \/ BatchTimeout = 0 THEN "immediate" ELSE "delayed",
     armed |-> TRUE]

(* Mutated: a delayed flush stays although the batch is full.              *)
EnsureFirst(p, n) == IF p.kind = "none" THEN NewFlush(n) ELSE p

(* #ensurePendingFlush with n messages: #pendingFlush afterwards.  A       *)
(* delayed flush makes way for an immediate one when the batch is full;    *)
(* its timer, if it is still armed, is cleared.                            *)
Ensure(p, n) ==
    IF p.kind = "immediate" \/ (p.kind = "delayed" /\ n < BatchSize)
    THEN p ELSE NewFlush(n)

(* A request is accepted: #enqueue arms a timer for each message.  Without *)
(* a consumer the messages are dropped.                                    *)
Send(q, ms) ==
    /\ ms # {}
    /\ \A m \in ms : fate[m] = "unsent"
    /\ IF q \in Consumed
       THEN /\ fate' = [m \in Messages |-> IF m \in ms THEN "live" ELSE fate[m]]
            /\ delayed' = [delayed EXCEPT ![q] = @ \cup ms]
       ELSE /\ fate' = [m \in Messages |-> IF m \in ms THEN "dropped" ELSE fate[m]]
            /\ UNCHANGED delayed
    /\ UNCHANGED <<attempts, backlog, bytes, pending, orphans, flush>>

(* The timer of a message fires: of its first delivery, or of a retry.     *)
Deliver(q, m) ==
    /\ m \in delayed[q]
    /\ delayed' = [delayed EXCEPT ![q] = @ \ {m}]
    /\ backlog' = [backlog EXCEPT ![q] = Append(@, m)]
    /\ bytes' = [bytes EXCEPT ![q] = @ + Bytes[m]]
    /\ pending' = [pending EXCEPT ![q] = Ensure(@, Len(backlog[q]) + 1)]
    /\ UNCHANGED <<fate, attempts, orphans, flush>>

-----------------------------------------------------------------------------
(* #flush.                                                                 *)

BatchLength(q) == IF Len(backlog[q]) < BatchSize THEN Len(backlog[q]) ELSE BatchSize
Batch(q) == SubSeq(backlog[q], 1, BatchLength(q))

(* Mutated: the messages are copied and not removed.                       *)
RestKept(q) == backlog[q]

RestOf(q) == SubSeq(backlog[q], BatchLength(q) + 1, Len(backlog[q]))

(* Up to the await of the consumer.                                        *)
TakeBatch(q, f) ==
    /\ flush[f] = IdleFlush
    /\ flush' = [flush EXCEPT ![f] = [phase |-> "dispatched", queue |-> q,
                                      todo |-> Batch(q), dead |-> <<>>]]
    /\ backlog' = [backlog EXCEPT ![q] = RestOf(q)]
    /\ bytes' = [bytes EXCEPT ![q] = @ - BytesOf(Batch(q))]
    /\ UNCHANGED <<fate, attempts, delayed>>

PendingFires(q, f) ==
    /\ pending[q].armed
    /\ pending' = [pending EXCEPT ![q].armed = FALSE]
    /\ TakeBatch(q, f)
    /\ UNCHANGED orphans

OrphanFires(q, f) ==
    /\ orphans[q] > 0
    /\ orphans' = [orphans EXCEPT ![q] = @ - 1]
    /\ TakeBatch(q, f)
    /\ UNCHANGED pending

(* Some entries of a sequence, in their order.                             *)
Selections(n, k) ==
    {p \in [1..k -> 1..n] : \A i, j \in 1..k : i < j => p[i] < p[j]}
Subsequences(s) ==
    UNION {{[i \in 1..k |-> s[p[i]]] : p \in Selections(Len(s), k)} : k \in 0..Len(s)}

(* The consumer answers: retryBatch and every outcome other than "ok" fail *)
(* the whole batch, otherwise the messages it asked to retry fail, and     *)
(* the others are acked.                                                   *)
Answer(f, failed) ==
    /\ flush[f].phase = "dispatched"
    /\ flush' = [flush EXCEPT ![f].phase = "settling", ![f].todo = failed]
    /\ fate' = [m \in Messages |->
                  IF m \in ToSet(flush[f].todo) \ ToSet(failed)
                  THEN "acked" ELSE fate[m]]
    /\ UNCHANGED <<attempts, delayed, backlog, bytes, pending, orphans>>

HasRetries(m) == attempts[m] + 1 < MaxAttempts

Retry(f) ==
    LET m == Head(flush[f].todo) q == flush[f].queue
    IN /\ flush[f].phase = "settling"
       /\ flush[f].todo # <<>>
       /\ HasRetries(m)
       /\ attempts' = [attempts EXCEPT ![m] = @ + 1]
       /\ delayed' = [delayed EXCEPT ![q] = @ \cup {m}]
       /\ flush' = [flush EXCEPT ![f].todo = Tail(@)]
       /\ UNCHANGED <<fate, backlog, bytes, pending, orphans>>

GiveUp(f) ==
    LET m == Head(flush[f].todo) q == flush[f].queue
    IN /\ flush[f].phase = "settling"
       /\ flush[f].todo # <<>>
       /\ ~ HasRetries(m)
       /\ attempts' = [attempts EXCEPT ![m] = @ + 1]
       /\ IF DeadLetter[q] # NoQueue
          THEN /\ flush' = [flush EXCEPT ![f].todo = Tail(@),
                                         ![f].dead = Append(@, m)]
               /\ UNCHANGED fate
          ELSE /\ flush' = [flush EXCEPT ![f].todo = Tail(@)]
               /\ fate' = [fate EXCEPT ![m] = "dropped"]
       /\ UNCHANGED <<delayed, backlog, bytes, pending, orphans>>

(* Mutated: the flush does not look for messages that arrived meanwhile.   *)
NoFlushAfter(q) == NoFlush

(* #pendingFlush is reset, whatever it refers to by now, and set again if  *)
(* there are messages.                                                     *)
FlushAfter(q) ==
    IF backlog[q] = <<>> THEN NoFlush ELSE Ensure(NoFlush, Len(backlog[q]))

FinishFlush(f) ==
    LET q == flush[f].queue
    IN /\ flush[f].phase = "settling"
       /\ flush[f].todo = <<>>
       /\ pending[q].armed => orphans[q] < MaxOrphans
       /\ pending' = [pending EXCEPT ![q] = FlushAfter(q)]
       /\ orphans' = [orphans EXCEPT ![q] = IF pending[q].armed THEN @ + 1 ELSE @]
       /\ flush' = [flush EXCEPT ![f] =
                      IF @.dead = <<>> THEN IdleFlush ELSE [@ EXCEPT !.phase = "moving"]]
       /\ UNCHANGED <<fate, attempts, delayed, backlog, bytes>>

(* Mutated: dead letters keep their count of failed attempts.              *)
AttemptsKept(ms) == attempts

(* The broker of the dead letter queue makes new messages of the old.      *)
AttemptsReset(ms) == [m \in Messages |-> IF m \in ms THEN 0 ELSE attempts[m]]

MoveDeadLetters(f) ==
    LET ms == ToSet(flush[f].dead) d == DeadLetter[flush[f].queue]
    IN /\ flush[f].phase = "moving"
       /\ flush' = [flush EXCEPT ![f] = IdleFlush]
       /\ IF d \in Consumed
          THEN /\ delayed' = [delayed EXCEPT ![d] = @ \cup ms]
               /\ attempts' = AttemptsReset(ms)
               /\ UNCHANGED fate
          ELSE /\ fate' = [m \in Messages |-> IF m \in ms THEN "dropped" ELSE fate[m]]
               /\ UNCHANGED <<attempts, delayed>>
       /\ UNCHANGED <<backlog, bytes, pending, orphans>>

(* The request to the dead letter queue fails and is not tried again.      *)
LoseDeadLetters(f) ==
    /\ flush[f].phase = "moving"
    /\ flush' = [flush EXCEPT ![f] = IdleFlush]
    /\ fate' = [m \in Messages |->
                  IF m \in ToSet(flush[f].dead) THEN "lost" ELSE fate[m]]
    /\ UNCHANGED <<attempts, delayed, backlog, bytes, pending, orphans>>

(* A log call rejects and #flush with it: what it held is lost, and        *)
(* #pendingFlush stays as it is.                                           *)
LogFails(f) ==
    /\ LogMayFail
    /\ flush[f].phase = "settling"
    /\ flush' = [flush EXCEPT ![f] = IdleFlush]
    /\ fate' = [m \in Messages |->
                  IF m \in ToSet(flush[f].todo) \cup ToSet(flush[f].dead)
                  THEN "lost" ELSE fate[m]]
    /\ UNCHANGED <<attempts, delayed, backlog, bytes, pending, orphans>>

Settle(f) ==
    \/ Retry(f)
    \/ GiveUp(f)
    \/ FinishFlush(f)
    \/ MoveDeadLetters(f)
    \/ LoseDeadLetters(f)
    \/ LogFails(f)

Next ==
    \/ \E q \in Queues, ms \in SUBSET Messages : Send(q, ms)
    \/ \E q \in Queues, m \in Messages : Deliver(q, m)
    \/ \E q \in Queues, f \in Flights : PendingFires(q, f)
    \/ \E q \in Queues, f \in Flights : OrphanFires(q, f)
    \/ \E f \in Flights : \E failed \in Subsequences(flush[f].todo) :
          Answer(f, failed)
    \/ \E f \in Flights : Settle(f)

Spec == Init /\ [][Next]_vars

(* Timers fire, and every call that #flush awaits is answered: the runtime *)
(* ends a consumer that does not return.                                   *)
Fairness ==
    /\ \A q \in Queues :
          /\ \A m \in Messages : WF_vars(Deliver(q, m))
          /\ WF_vars(\E f \in Flights : PendingFires(q, f))
          /\ WF_vars(\E f \in Flights : OrphanFires(q, f))
    /\ \A f \in Flights :
          /\ WF_vars(\E failed \in Subsequences(flush[f].todo) : Answer(f, failed))
          /\ WF_vars(Settle(f))
FairSpec == Spec /\ Fairness

-----------------------------------------------------------------------------
(* Properties.                                                             *)

(* Every variable has its type.                                            *)
TypeOK ==
    /\ fate \in [Messages -> Fates]
    /\ attempts \in [Messages -> Nat]
    /\ delayed \in [Queues -> SUBSET Messages]
    /\ backlog \in [Queues -> Seq(Messages)]
    /\ bytes \in [Queues -> Nat]
    /\ pending \in [Queues -> PendingFlush]
    /\ orphans \in [Queues -> Nat]
    /\ flush \in [Flights -> FlushState]

Positions(s, m) == {i \in DOMAIN s : s[i] = m}

(* The timers, backlog entries and places in a flush where a message is.   *)
Places(m) ==
    {<<"delayed", q, 0>> : q \in {p \in Queues : m \in delayed[p]}}
    \cup (UNION {{<<"backlog", q, i>> : i \in Positions(backlog[q], m)} : q \in Queues})
    \cup (UNION {{<<"todo", f, i>> : i \in Positions(flush[f].todo, m)} : f \in Flights})
    \cup (UNION {{<<"dead", f, i>> : i \in Positions(flush[f].dead, m)} : f \in Flights})

(* No message is lost or doubled on its way through timers, batches,       *)
(* retries and dead letters: one that was accepted and is not yet acked,   *)
(* dropped or lost by a failed call is in exactly one place, and any other *)
(* is in none.                                                             *)
EveryMessageInOnePlace ==
    /\ TypeOK
    /\ \A m \in Messages :
         Cardinality(Places(m)) = IF fate[m] = "live" THEN 1 ELSE 0

(* #backlogBytes, which metrics report, is the size of the backlog.        *)
BacklogBytesAgree == \A q \in Queues : bytes[q] = BytesOf(backlog[q])

InFlight(q) == \E f \in Flights :
    flush[f].phase \in {"dispatched", "settling"} /\ flush[f].queue = q

(* A backlog is never stranded: a flush of its queue is armed, or one is   *)
(* in progress that looks again when it is done.                           *)
FlushIsComing ==
    \A q \in Queues : backlog[q] # <<>> => pending[q].armed \/ InFlight(q)

(* A full batch waits for a consumer, never for maxBatchTimeout.           *)
FullBatchesGoAtOnce ==
    \A q \in Queues : backlog[q] # <<>> /\ Len(backlog[q]) >= BatchSize =>
        pending[q].kind = "immediate"

(* "If we have a pending immediate flush, or a delayed flush we haven't    *)
(* filled the batch for yet, just wait for it" (broker.worker.ts:412-413): *)
(* a queue has one armed flush timer at a time.                            *)
OneFlushTimer ==
    \A q \in Queues : orphans[q] + (IF pending[q].armed THEN 1 ELSE 0) <= 1

(* "If a message is sent, and this timeout elapses, a partial batch will   *)
(* be dispatched" (README of miniflare, lines 176-177): no message stays   *)
(* in the backlog for ever.                                                *)
BacklogDrains ==
    \A q \in Queues, m \in Messages :
        m \in ToSet(backlog[q]) ~> m \notin ToSet(backlog[q])

(* Every accepted message is acked, dropped or lost in the end, unless     *)
(* dead letter queues form a cycle.                                        *)
EveryMessageSettles ==
    \A m \in Messages : fate[m] = "live" ~> fate[m] # "live"

-----------------------------------------------------------------------------
(* The invariant that steps keep.                                          *)

(* What may hold a message: delivery timers, backlogs, lists of a flush.   *)
Containers == ({"delayed", "backlog"} \X Queues) \cup ({"todo", "dead"} \X Flights)

Content(c) ==
    CASE c[1] = "delayed" -> delayed[c[2]]
      [] c[1] = "backlog" -> ToSet(backlog[c[2]])
      [] c[1] = "todo" -> ToSet(flush[c[2]].todo)
      [] c[1] = "dead" -> ToSet(flush[c[2]].dead)

(* A live message is in one container, once.                               *)
InOneContainer ==
    /\ \A c, d \in Containers : c # d => Content(c) \cap Content(d) = {}
    /\ \A m \in Messages :
          fate[m] = "live" <=> \E c \in Containers : m \in Content(c)
NoRepetitions ==
    /\ \A q \in Queues : IsInjective(backlog[q])
    /\ \A f \in Flights :
          IsInjective(flush[f].todo) /\ IsInjective(flush[f].dead)

(* The lists of a flush in each phase.                                     *)
PhasesInv ==
    \A f \in Flights :
        /\ flush[f].phase = "dispatched" => flush[f].dead = <<>>
        /\ flush[f].phase = "moving" => flush[f].todo = <<>>

(* #pendingFlush is set while there is a backlog.                          *)
PendingInv ==
    \A q \in Queues :
        pending[q].armed \/ backlog[q] # <<>> => pending[q].kind # "none"

(* #flush finds a consumer (broker.worker.ts:297).                         *)
NoFlushWithoutConsumer ==
    \A q \in Queues \ Consumed :
        /\ delayed[q] = {}
        /\ backlog[q] = <<>>
        /\ pending[q] = NoFlush
        /\ orphans[q] = 0

BrokerInv ==
    /\ TypeOK
    /\ NoFlushWithoutConsumer
    /\ BacklogBytesAgree
    /\ InOneContainer
    /\ NoRepetitions
    /\ PhasesInv
    /\ PendingInv
    /\ FullBatchesGoAtOnce

(* Unless a log call fails, #pendingFlush stays set for a reason.          *)
ScheduleInv ==
    \A q \in Queues : pending[q].kind # "none" => pending[q].armed \/ InFlight(q)

-----------------------------------------------------------------------------
(* Refinement.                                                             *)

Waiting(q) == delayed[q] \cup ToSet(backlog[q])
Out(q) == UNION {ToSet(flush[f].todo) : f \in {g \in Flights :
              flush[g].phase \in {"dispatched", "settling"} /\ flush[g].queue = q}}
Moving(q) == UNION {ToSet(flush[f].dead) : f \in {g \in Flights :
              flush[g].phase \in {"settling", "moving"} /\ flush[g].queue = q}}

StatusOf(m) ==
    IF fate[m] # "live" THEN fate[m]
    ELSE IF \E q \in Queues : m \in Waiting(q) THEN "waiting"
    ELSE IF \E q \in Queues : m \in Out(q) THEN "out"
    ELSE "moving"

HomeOf(m) ==
    IF fate[m] # "live" THEN NoQueue
    ELSE CHOOSE q \in Queues : m \in Waiting(q) \cup Out(q) \cup Moving(q)

Delivery == INSTANCE MessageDelivery WITH
    BatchLimit <- BatchSize,
    TryLimit <- MaxAttempts,
    status <- [m \in Messages |-> StatusOf(m)],
    home <- [m \in Messages |-> HomeOf(m)],
    tries <- attempts

(* The brokers keep the promise of MessageDelivery whatever timers,        *)
(* batches and concurrent flushes do.                                      *)
ImplementsDelivery == Delivery!Spec
=============================================================================
