--------------------------- MODULE WorkflowEngine ---------------------------
(***************************************************************************)
(* One workflow instance: the Durable Object that runs it                  *)
(* (packages/workflows-shared/src/engine.ts), the steps it offers to the   *)
(* user's code (context.ts) and the semaphore with which a pause waits for *)
(* the steps in flight (lib/gracePeriodSemaphore.ts).                      *)
(*                                                                         *)
(* The user's code is a sequence of stages; the steps of a stage are       *)
(* called together, as with Promise.all.  When one of them throws, the     *)
(* run ends and the others are left behind in the engine.                  *)
(*                                                                         *)
(* A Durable Object receives no event while it awaits its storage, so what *)
(* a handler does between two events (a call, the answer of the user's     *)
(* code, a timer) is one step.                                             *)
(***************************************************************************)
EXTENDS Naturals, Sequences, FiniteSets, SequencesExt

CONSTANTS
    DoSteps, Sleeps, Waits,   \* the steps by kind: do, sleep, waitForEvent
    Programs,      \* workflows: sequences of sets of steps
    Events,        \* events that are sent, all of the type that is waited for
    None,
    RetryLimit,    \* config.retries.limit
    Fatal,         \* steps of which the code may throw a NonRetryableError
    Catches,       \* steps of which the user's code catches the error
    MaxRuns, MaxPauses,   \* bounds of the instance
    MaxUpsets      \* the bound on crashes and restarts together

Steps == DoSteps \cup Sleeps \cup Waits
Runs == 1 .. MaxRuns
Calls == Runs \X Steps

ASSUME EngineAssumption ==
    /\ DoSteps \cap Sleeps = {} /\ DoSteps \cap Waits = {} /\ Sleeps \cap Waits = {}
    /\ IsFiniteSet(Steps)
    /\ Programs \subseteq Seq(SUBSET Steps)
    /\ None \notin Events \cup Nat
    /\ Events \cap Nat = {}
    /\ RetryLimit \in Nat
    /\ Fatal \subseteq DoSteps
    /\ Catches \subseteq Steps
    /\ {MaxRuns, MaxPauses, MaxUpsets} \subseteq Nat

VARIABLES
    (* storage *)
    status, started,     \* ENGINE_STATUS_KEY; INSTANCE_METADATA is there
    value, failed,       \* the -value key of each step; steps with an -error key
    attempted,           \* attemptedCount in the -metadata key
    registered,          \* waits with a -pending key
    stored,              \* the events under EVENT_MAP_PREFIX, by index
    (* memory of the Durable Object *)
    isRunning, eventMap, waiters,
    counter, canInitiateSteps, pausePending,    \* GracePeriodSemaphore
    pauseAborted,        \* pauseController's signal
    at, tries,           \* where each call stands, and its stepState
    (* the user's code *)
    program, run, stage,
    (* the clients, and what the properties remember *)
    sent, restarting, pauses, upsets, lostAttempts

storage == <<status, started, value, failed, attempted, registered, stored>>
semaphore == <<counter, canInitiateSteps, pausePending>>
history == <<sent, restarting, pauses, upsets, lostAttempts>>
vars == <<storage, isRunning, eventMap, waiters, semaphore, pauseAborted, at,
          tries, program, run, stage, history>>

Finite == {"Complete", "Errored", "Terminated"}
PausedOrPausing == {"Paused", "WaitingForPause"}
Statuses == Finite \cup PausedOrPausing \cup {"Queued", "Running"}

(* acquire: waits in GracePeriodSemaphore.acquire; attempt: the closure    *)
(* runs; backoff: the retry delay; resleep: a sleep that a later run waits *)
(* for, not raced against the pause signal; leaked: a NonRetryableError    *)
(* that the user's code caught.                                            *)
Interruptible == {"sleeping", "waiting", "backoff"}
Thrown == {"paused", "failed", "fatal"}
Settled == {"done", "caught", "leaked"}
Places == {"none", "acquire", "attempt", "resleep"}
            \cup Settled \cup Interruptible \cup Thrown

-----------------------------------------------------------------------------
Init ==
    /\ status = "Queued" /\ started = FALSE
    /\ value = [s \in Steps |-> None] /\ failed = {}
    /\ attempted = [s \in DoSteps |-> 0]
    /\ registered = {} /\ stored = <<>>
    /\ isRunning = FALSE /\ eventMap = <<>> /\ waiters = <<>>
    /\ counter = 0 /\ canInitiateSteps = TRUE /\ pausePending = FALSE
    /\ pauseAborted = FALSE
    /\ at = [c \in Calls |-> "none"] /\ tries = [c \in Calls |-> 0]
    /\ program \in Programs /\ run = 0 /\ stage = 1
    /\ sent = {} /\ restarting = FALSE
    /\ pauses = 0 /\ upsets = 0
    /\ lostAttempts = [s \in DoSteps |-> 0]

In(place) == {c \in Calls : at[c] \in place}

Latest(B, s) == CHOOSE c \in B : c[2] = s /\ \A d \in B : d[2] = s => d[1] <= c[1]

(* The calls of B have got through acquire: each counts its attempt on the *)
(* stepState it read before it waited (`mine`) and stores the count.       *)
StartAttempts(B, mine, persisted) ==
    /\ tries' = [c \in Calls |-> IF c \in B THEN mine[c] + 1 ELSE mine[c]]
    /\ attempted' = [s \in DoSteps |-> IF \E c \in B : c[2] = s
                                         THEN mine[Latest(B, s)] + 1
                                         ELSE persisted[s]]

(* `goto` says where the calls that the handler itself moves go.  The steps *)
(* of B are let through acquire and those of W are told of the pause.      *)
Move(B, W, goto) ==
    at' = [c \in Calls |-> CASE c \in DOMAIN goto -> goto[c]
                             [] c \in B -> "attempt"
                             [] c \in W -> "paused"
                             [] OTHER -> at[c]]

To(c, place) == [d \in {c} |-> place]

(* Variant for a mutant: nobody is let through.                            *)
ForgottenSteps == {}

(* The waitingSteps of the semaphore, all let through together.            *)
HeldSteps == In({"acquire"})

(* The callback that waitUntilNothingIsRunning runs, when `pausing`: the   *)
(* status is stored, the pause signal interrupts the calls that wait for   *)
(* time or events, and the steps held back by acquire start.  Otherwise    *)
(* only what the handler does itself happens.                              *)
PauseWhen(pausing, st, busy, goto, persisted) ==
    LET held == IF pausing THEN HeldSteps ELSE {}
        woken == IF pausing THEN In(Interruptible) ELSE {}
    IN  /\ status' = IF pausing THEN "Paused" ELSE st
        /\ pauseAborted' = (pauseAborted \/ pausing)
        /\ pausePending' = (pausePending /\ ~ pausing)
        /\ canInitiateSteps' = (canInitiateSteps \/ pausing)
        /\ counter' = busy + Cardinality(held)
        /\ Move(held, woken, goto)
        /\ StartAttempts(held, tries, persisted)

(* GracePeriodSemaphore.release: at zero, a pending pause goes through.    *)
AfterRelease == IF counter = 0 THEN 0 ELSE counter - 1

(* Variant for a mutant: the counter is read before it is decremented.     *)
PauseMissesLast == counter = 0 /\ pausePending

PauseGoesThrough == AfterRelease = 0 /\ pausePending

Release(st, goto, persisted) ==
    PauseWhen(PauseGoesThrough, st, AfterRelease, goto, persisted)

-----------------------------------------------------------------------------
(* init, with the status st it finds, the events it has in memory and      *)
(* those in storage; restoreEventMap puts the latter behind the former.    *)
Finished(st) == st \in Finite \cup {"Paused"}

NotBooted(st, kept) ==
    /\ isRunning \/ Finished(st)
    /\ status' = st
    /\ eventMap' = kept
    /\ UNCHANGED <<isRunning, run, stage>>

BootedPaused(st, kept) ==
    /\ ~ isRunning
    /\ st = "WaitingForPause"
    /\ status' = "Paused"
    /\ eventMap' = kept
    /\ UNCHANGED <<isRunning, run, stage>>

Booted(st, kept, disk) ==
    /\ ~ isRunning
    /\ st \in {"Queued", "Running"}
    /\ run < MaxRuns
    /\ status' = "Running"
    /\ isRunning' = TRUE
    /\ run' = run + 1
    /\ stage' = 1
    /\ eventMap' = kept \o disk

Boot(st, kept, disk) ==
    \/ NotBooted(st, kept)
    \/ BootedPaused(st, kept)
    \/ Booted(st, kept, disk)

(* WorkflowBinding.create; also of an identifier that is in use.           *)
Create ==
    /\ Boot(status, eventMap, stored)
    /\ started' = (started \/ isRunning')
    /\ UNCHANGED <<value, failed, attempted, registered, stored, waiters,
                   semaphore, pauseAborted, at, tries, program, history>>

-----------------------------------------------------------------------------
(* Context.do, sleep and waitForEvent, as the run in progress calls them.  *)
Callable(c) ==
    /\ isRunning
    /\ c[1] = run
    /\ stage <= Len(program) /\ c[2] \in program[stage]
    /\ at[c] = "none"

UnchangedByCall == UNCHANGED <<started, stored, isRunning, program, run, stage, history>>

(* Variant for a mutant: only the events received are found again.         *)
OutputForgotten(c) == c[2] \in Waits /\ value[c[2]] # None

Cached(c) == value[c[2]] # None

(* A stored output or error answers the call.                              *)
Replay(c) ==
    /\ Callable(c)
    /\ c[2] \notin Sleeps
    /\ Cached(c) \/ c[2] \in failed
    /\ at' = [at EXCEPT ![c] = IF Cached(c) THEN "done" ELSE "failed"]
    /\ UNCHANGED <<status, value, failed, attempted, registered, eventMap,
                   waiters, semaphore, pauseAborted, tries>>
    /\ UnchangedByCall

Fresh(c) == Callable(c) /\ ~ Cached(c) /\ c[2] \notin failed

Do(c) ==
    /\ Fresh(c)
    /\ c[2] \in DoSteps
    /\ LET mine == [tries EXCEPT ![c] = attempted[c[2]]]
       IN  IF canInitiateSteps
             THEN /\ at' = [at EXCEPT ![c] = "attempt"]
                  /\ counter' = counter + 1
                  /\ StartAttempts({c}, mine, attempted)
             ELSE /\ at' = [at EXCEPT ![c] = "acquire"]
                  /\ tries' = mine
                  /\ UNCHANGED <<attempted, counter>>
    /\ UNCHANGED <<status, value, failed, registered, eventMap, waiters,
                   canInitiateSteps, pausePending, pauseAborted>>
    /\ UnchangedByCall

(* A later run waits for the entry of the priority queue, if it is there.  *)
ReSleep(c) ==
    /\ Callable(c)
    /\ c[2] \in Sleeps
    /\ Cached(c)
    /\ \E place \in {"resleep", "done"} : at' = [at EXCEPT ![c] = place]
    /\ UNCHANGED <<status, value, failed, attempted, registered, eventMap,
                   waiters, semaphore, pauseAborted, tries>>
    /\ UnchangedByCall

(* raceAgainstAbort of a signal that has fired is over at once.            *)
Sleep(c) ==
    /\ Fresh(c)
    /\ c[2] \in Sleeps
    /\ value' = [value EXCEPT ![c[2]] = c[1]]
    /\ at' = [at EXCEPT ![c] = IF ~ pauseAborted THEN "sleeping"
                               ELSE IF status \in PausedOrPausing THEN "paused"
                               ELSE "done"]
    /\ UNCHANGED <<status, failed, attempted, registered, eventMap, waiters,
                   semaphore, pauseAborted, tries>>
    /\ UnchangedByCall

(* The timeout of the wait passed while the instance was paused or down.   *)
WaitFindsTimeout(c) ==
    /\ c[2] \in registered
    /\ failed' = failed \cup {c[2]}
    /\ at' = [at EXCEPT ![c] = "failed"]
    /\ UNCHANGED <<value, eventMap, waiters>>

WaitTakesEvent(c) ==
    /\ eventMap # <<>>
    /\ eventMap' = Tail(eventMap)
    /\ value' = IF pauseAborted THEN value
                                ELSE [value EXCEPT ![c[2]] = Head(eventMap)]
    /\ at' = [at EXCEPT ![c] = IF pauseAborted THEN "paused" ELSE "done"]
    /\ UNCHANGED <<failed, waiters>>

WaitBegins(c) ==
    /\ eventMap = <<>>
    /\ waiters' = Append(waiters, c)
    /\ at' = [at EXCEPT ![c] = IF pauseAborted THEN "paused" ELSE "waiting"]
    /\ UNCHANGED <<failed, value, eventMap>>

WaitForEvent(c) ==
    /\ Fresh(c)
    /\ c[2] \in Waits
    /\ WaitFindsTimeout(c) \/ WaitTakesEvent(c) \/ WaitBegins(c)
    /\ registered' = registered \cup {c[2]}
    /\ UNCHANGED <<status, attempted, semaphore, pauseAborted, tries>>
    /\ UnchangedByCall

-----------------------------------------------------------------------------
(* What becomes of a call: the closure answers or a timer fires.           *)
UnchangedByAnswer == UNCHANGED <<started, registered, stored, isRunning,
                                 eventMap, program, run, stage, history>>

Pausing == status \in PausedOrPausing

(* persistStepResult, release and #checkForPendingPause.                   *)
StepSucceeds(c) ==
    /\ at[c] = "attempt"
    /\ value' = [value EXCEPT ![c[2]] = c[1]]
    /\ LET pausesNow == AfterRelease = 0 /\ Pausing
       IN  Release(IF pausesNow THEN "Paused" ELSE status,
                   To(c, IF pausesNow THEN "paused" ELSE "done"),
                   attempted)
    /\ UNCHANGED <<failed, waiters>>
    /\ UnchangedByAnswer

(* Variant for a mutant: one attempt too many.                             *)
WillRetryOnceMore(c) == tries[c] <= RetryLimit + 1

WillRetry(c) == tries[c] <= RetryLimit

(* The closure throws, or the timeout of the step is first.                *)
StepFails(c) ==
    /\ at[c] = "attempt"
    /\ LET persisted == [attempted EXCEPT ![c[2]] = tries[c]]
           place == IF ~ WillRetry(c) THEN "failed"
                    ELSE IF PauseGoesThrough \/ (pauseAborted /\ Pausing) THEN "paused"
                    ELSE "backoff"
       IN  Release(status, To(c, place), persisted)
    /\ failed' = IF WillRetry(c) THEN failed ELSE failed \cup {c[2]}
    /\ UNCHANGED <<value, waiters>>
    /\ UnchangedByAnswer

(* A NonRetryableError is thrown on, without a release.                    *)
StepFailsForGood(c) ==
    /\ at[c] = "attempt"
    /\ c[2] \in Fatal
    /\ at' = [at EXCEPT ![c] = "fatal"]
    /\ UNCHANGED <<status, value, failed, attempted, waiters, semaphore,
                   pauseAborted, tries>>
    /\ UnchangedByAnswer

(* The retry delay is over: doWrapper starts anew, with the stored state.  *)
BackoffEnds(c) ==
    /\ at[c] = "backoff"
    /\ LET mine == [tries EXCEPT ![c] = attempted[c[2]]]
       IN  \/ /\ Pausing
              /\ at' = [at EXCEPT ![c] = "paused"]
              /\ UNCHANGED <<attempted, tries, counter>>
           \/ /\ ~ Pausing /\ canInitiateSteps
              /\ at' = [at EXCEPT ![c] = "attempt"]
              /\ counter' = counter + 1
              /\ StartAttempts({c}, mine, attempted)
           \/ /\ ~ Pausing /\ ~ canInitiateSteps
              /\ at' = [at EXCEPT ![c] = "acquire"]
              /\ tries' = mine
              /\ UNCHANGED <<attempted, counter>>
    /\ UNCHANGED <<status, value, failed, waiters, canInitiateSteps,
                   pausePending, pauseAborted>>
    /\ UnchangedByAnswer

SleepEnds(c) ==
    /\ at[c] \in {"sleeping", "resleep"}
    /\ at' = [at EXCEPT ![c] = IF at[c] = "sleeping" /\ Pausing THEN "paused"
                                                                ELSE "done"]
    /\ UNCHANGED <<status, value, failed, attempted, waiters, semaphore,
                   pauseAborted, tries>>
    /\ UnchangedByAnswer

(* Variant for a mutant: the waiter stays behind.                          *)
StaleWaiterStays(c) ==
    /\ at[c] = "waiting"
    /\ failed' = failed \cup {c[2]}
    /\ at' = [at EXCEPT ![c] = "failed"]
    /\ UNCHANGED <<status, value, attempted, waiters, semaphore, pauseAborted, tries>>
    /\ UnchangedByAnswer

(* The first resolver of that step is taken out of `waiters`.              *)
WaitTimesOut(c) ==
    /\ at[c] = "waiting"
    /\ waiters' = RemoveFirstMatch(waiters, LAMBDA w : w[2] = c[2])
    /\ failed' = failed \cup {c[2]}
    /\ at' = [at EXCEPT ![c] = "failed"]
    /\ UNCHANGED <<status, value, attempted, semaphore, pauseAborted, tries>>
    /\ UnchangedByAnswer

-----------------------------------------------------------------------------
(* The user's code, and how its run ends (the rest of init).               *)
Live(c) == isRunning /\ c[1] = run

UnchangedByUser == UNCHANGED <<started, value, failed, attempted, registered,
                               stored, eventMap, waiters, semaphore,
                               pauseAborted, tries, program, run,
                               sent, restarting, pauses, upsets>>

(* Nothing is stored of a NonRetryableError, so that a later run, if there *)
(* is one, attempts the step again: it counts as a lost attempt.           *)
Catch(c) ==
    /\ Live(c)
    /\ at[c] \in {"failed", "fatal"}
    /\ c[2] \in Catches
    /\ IF at[c] = "fatal"
         THEN /\ at' = [at EXCEPT ![c] = "leaked"]
              /\ lostAttempts' = [lostAttempts EXCEPT ![c[2]] = @ + 1]
         ELSE /\ at' = [at EXCEPT ![c] = "caught"]
              /\ UNCHANGED lostAttempts
    /\ UNCHANGED <<status, isRunning, stage>>
    /\ UnchangedByUser

NextStage ==
    /\ isRunning
    /\ stage <= Len(program)
    /\ \A s \in program[stage] : at[<<run, s>>] \in Settled
    /\ stage' = stage + 1
    /\ UNCHANGED <<status, isRunning, at, lostAttempts>>
    /\ UnchangedByUser

RunReturns ==
    /\ isRunning
    /\ stage > Len(program)
    /\ status' = "Complete"
    /\ isRunning' = FALSE
    /\ UNCHANGED <<at, stage, lostAttempts>>
    /\ UnchangedByUser

(* isAbortError: the status stays as the pause has left it.                *)
RunPauses(c) ==
    /\ Live(c)
    /\ at[c] = "paused"
    /\ isRunning' = FALSE
    /\ UNCHANGED <<status, at, stage, lostAttempts>>
    /\ UnchangedByUser

RunFails(c) ==
    /\ Live(c)
    /\ at[c] = "failed"
    /\ c[2] \notin Catches
    /\ status' = "Errored"
    /\ isRunning' = FALSE
    /\ UNCHANGED <<at, stage, lostAttempts>>
    /\ UnchangedByUser

-----------------------------------------------------------------------------
(* The memory is lost: abort, or the process ends.  Nothing survives of    *)
(* the calls; `lostAttempts` remembers which attempts were cut short.      *)
Forget ==
    /\ isRunning' = FALSE
    /\ eventMap' = <<>> /\ waiters' = <<>>
    /\ counter' = 0 /\ canInitiateSteps' = TRUE /\ pausePending' = FALSE
    /\ pauseAborted' = FALSE
    /\ at' = [c \in Calls |-> "none"] /\ tries' = [c \in Calls |-> 0]
    /\ lostAttempts' = [s \in DoSteps |-> lostAttempts[s]
                          + Cardinality({c \in In({"attempt", "fatal"}) : c[2] = s})]
    /\ UNCHANGED <<program, run, stage>>

KeepsStorage == UNCHANGED <<value, failed, attempted, registered, stored>>

RunFailsForGood(c) ==
    /\ Live(c)
    /\ at[c] = "fatal"
    /\ c[2] \notin Catches
    /\ status' = "Errored"
    /\ Forget
    /\ KeepsStorage
    /\ UNCHANGED <<started, sent, restarting, pauses, upsets>>

Crash ==
    /\ upsets < MaxUpsets
    /\ upsets' = upsets + 1
    /\ Forget
    /\ KeepsStorage
    /\ UNCHANGED <<status, started, sent, restarting, pauses>>

(* userTriggeredTerminate without rollback.                                *)
Terminate ==
    /\ started
    /\ status \notin Finite
    /\ status' = "Terminated"
    /\ Forget
    /\ KeepsStorage
    /\ UNCHANGED <<started, sent, restarting, pauses, upsets>>

-----------------------------------------------------------------------------
(* WorkflowHandle.restart aborts the Durable Object and calls              *)
(* attemptRestart on a fresh one; other calls may come first.              *)
RestartAborts ==
    /\ started
    /\ ~ restarting
    /\ upsets < MaxUpsets
    /\ upsets' = upsets + 1
    /\ restarting' = TRUE
    /\ Forget
    /\ KeepsStorage
    /\ UNCHANGED <<status, started, sent, pauses>>

AttemptRestart ==
    /\ restarting
    /\ restarting' = FALSE
    /\ value' = [s \in Steps |-> None] /\ failed' = {}
    /\ attempted' = [s \in DoSteps |-> 0]
    /\ registered' = {} /\ stored' = <<>>
    /\ Boot("Queued", eventMap, <<>>)
    /\ UNCHANGED <<started, waiters, semaphore, pauseAborted, at, tries, program,
                   sent, pauses, upsets, lostAttempts>>

(* userTriggeredPause: with no step in flight it takes effect at once.     *)
Pause ==
    /\ started
    /\ status = "Running"
    /\ pauses < MaxPauses
    /\ pauses' = pauses + 1
    /\ IF counter = 0
         THEN PauseWhen(TRUE, status, 0, <<>>, attempted)
         ELSE /\ status' = "WaitingForPause"
              /\ pausePending' = TRUE
              /\ canInitiateSteps' = FALSE
              /\ UNCHANGED <<counter, pauseAborted, at, tries, attempted>>
    /\ UNCHANGED <<started, value, failed, registered, stored, isRunning,
                   eventMap, waiters, program, run, stage, sent, restarting,
                   upsets, lostAttempts>>

(* Resume of a pending pause: cancelWaitingPromisesByType.                 *)
CancelPause ==
    LET held == IF pausePending THEN HeldSteps ELSE {}
    IN  /\ status = "WaitingForPause"
        /\ status' = "Running"
        /\ pausePending' = FALSE
        /\ canInitiateSteps' = (canInitiateSteps \/ pausePending)
        /\ counter' = counter + Cardinality(held)
        /\ Move(held, {}, <<>>)
        /\ StartAttempts(held, tries, attempted)
        /\ UNCHANGED <<started, value, failed, registered, stored, isRunning,
                       eventMap, waiters, pauseAborted, program, run, stage,
                       history>>

(* attemptResume.                                                          *)
Resume ==
    /\ status = "Paused"
    /\ pauseAborted' = FALSE
    /\ waiters' = <<>>
    /\ Boot("Queued", <<>>, stored)
    /\ UNCHANGED <<started, value, failed, attempted, registered, stored,
                   semaphore, at, tries, program, history>>

(* receiveEvent: storeEventMap overwrites the entries with the indices of  *)
(* the events in memory and removes none.                                  *)
StoredWith(mem) == mem \o SubSeq(stored, Len(mem) + 1, Len(stored))

Deliver(e, mem) ==
    LET first == Head(waiters)
        takes == at[first] = "waiting"
    IN  /\ waiters # <<>>
        /\ waiters' = Tail(waiters)
        /\ eventMap' = Tail(mem)
        /\ at' = IF takes THEN [at EXCEPT ![first] = "done"] ELSE at
        /\ value' = IF takes THEN [value EXCEPT ![first[2]] = e] ELSE value
        /\ UNCHANGED <<status, isRunning, run, stage>>

ReceiveEvent(e) ==
    LET mem == Append(eventMap, e)
    IN  /\ started
        /\ e \notin sent
        /\ sent' = sent \cup {e}
        /\ stored' = StoredWith(mem)
        /\ \/ isRunning /\ Deliver(e, mem)
           \/ /\ isRunning /\ waiters = <<>>
              /\ eventMap' = mem
              /\ UNCHANGED <<status, isRunning, run, stage, value, waiters, at>>
           \/ /\ ~ isRunning
              /\ Boot(status, mem, stored')
              /\ UNCHANGED <<value, waiters, at>>
        /\ UNCHANGED <<started, failed, attempted, registered, semaphore,
                       pauseAborted, tries, program, restarting, pauses, upsets,
                       lostAttempts>>

-----------------------------------------------------------------------------
Call(c) == Replay(c) \/ Do(c) \/ ReSleep(c) \/ Sleep(c) \/ WaitForEvent(c)

Answer(c) == \/ StepSucceeds(c) \/ StepFails(c) \/ StepFailsForGood(c)
             \/ BackoffEnds(c) \/ SleepEnds(c) \/ WaitTimesOut(c)

UserCode == \/ NextStage
            \/ RunReturns
            \/ \E c \in Calls : \/ Catch(c) \/ RunPauses(c)
                                \/ RunFails(c) \/ RunFailsForGood(c)

Client == \/ Create \/ Terminate \/ RestartAborts \/ AttemptRestart
          \/ Pause \/ CancelPause \/ Resume
          \/ \E e \in Events : ReceiveEvent(e)

Next ==
    \/ \E c \in Calls : Call(c) \/ Answer(c)
    \/ UserCode
    \/ Client
    \/ Crash

Spec == Init /\ [][Next]_vars

(* Steps time out, timers fire and the user's code goes on; nobody has to  *)
(* call the instance.                                                      *)
Fairness ==
    /\ WF_vars(UserCode)
    /\ \A c \in Calls : WF_vars(Call(c)) /\ WF_vars(Answer(c))

FairSpec == Spec /\ Fairness

-----------------------------------------------------------------------------
TypeOK ==
    /\ status \in Statuses /\ started \in BOOLEAN
    /\ value \in [Steps -> Runs \cup Events \cup {None}] /\ failed \subseteq Steps
    /\ attempted \in [DoSteps -> Nat] /\ registered \subseteq Waits
    /\ stored \in Seq(Events)
    /\ isRunning \in BOOLEAN /\ eventMap \in Seq(Events) /\ waiters \in Seq(Calls)
    /\ counter \in Nat /\ canInitiateSteps \in BOOLEAN /\ pausePending \in BOOLEAN
    /\ pauseAborted \in BOOLEAN
    /\ at \in [Calls -> Places] /\ tries \in [Calls -> Nat]
    /\ program \in Programs /\ run \in 0 .. MaxRuns /\ stage \in Nat \ {0}
    /\ sent \subseteq Events /\ restarting \in BOOLEAN
    /\ {pauses, upsets} \subseteq Nat
    /\ lostAttempts \in [DoSteps -> Nat]

(* The GracePeriodSemaphore counts the attempts in flight and those that   *)
(* ended in a NonRetryableError (never released, context.ts).  Steps are   *)
(* held back only while a pause waits for such an attempt, so that nothing *)
(* is held for ever, and a pause that is still to come waits for one.      *)
SemaphoreAgrees ==
    /\ TypeOK
    /\ counter = Cardinality(In({"attempt", "fatal", "leaked"}))
    /\ canInitiateSteps # pausePending
    /\ pausePending => counter > 0
    /\ In({"acquire"}) # {} => pausePending
    /\ status = "WaitingForPause" /\ isRunning => pausePending

(* The user's code awaits each step before it calls the next.              *)
Sequential == \A i \in DOMAIN program : Cardinality(program[i]) = 1

(* A step with a stored output is never executed again, whatever pauses,   *)
(* resumes, crashes and retries come: its output is that of one run until  *)
(* a restart wipes it (the cached value in Context.do).                    *)
OutputsStable ==
    [][Sequential /\ ~ AttemptRestart =>
          \A s \in DoSteps : value[s] # None => value'[s] = value[s]]_vars

(* A step is attempted at most limit + 1 times over all runs of the        *)
(* workflow, not counting the attempts that an abort or a crash cut short  *)
(* and those whose NonRetryableError the user's code caught, of which      *)
(* nothing is stored: the attemptedCount survives pauses and replays.      *)
AttemptsBounded ==
    Sequential => \A s \in DoSteps :
        attempted[s] <= RetryLimit + 1 + lostAttempts[s]

(* While the first run goes on undisturbed no event waits in memory beside *)
(* a waitForEvent, every waiter is alive (a timeout takes its own away),   *)
(* and each event sent is either still to be taken or the output of        *)
(* exactly one wait.                                                       *)
Uninterrupted == isRunning /\ run = 1 /\ status \in {"Running", "WaitingForPause"}
EventsReachWaits ==
    Uninterrupted =>
        /\ waiters # <<>> => eventMap = <<>>
        /\ \A i \in DOMAIN waiters : at[waiters[i]] = "waiting"
        /\ \A e \in sent : Cardinality({i \in DOMAIN eventMap : eventMap[i] = e})
                            + Cardinality({s \in Steps : value[s] = e}) = 1

(* A pause asked for while steps run takes effect, is cancelled or the run *)
(* ends; it does not wait for ever, unless a NonRetryableError has kept    *)
(* the semaphore.                                                          *)
Leaked == In({"fatal", "leaked"}) # {}
AwaitsPause == status = "WaitingForPause" /\ isRunning
PauseTakesEffect == AwaitsPause ~> (Leaked \/ ~ AwaitsPause)

(* A run comes to an end, whatever steps fail, time out or are held back   *)
(* for a pause, and whatever pauses are asked for and cancelled; it does   *)
(* not hang, unless a NonRetryableError has kept the semaphore.            *)
EveryRunEnds == isRunning ~> (Leaked \/ ~ isRunning)

(* engine.ts:601, 643: a finite status (complete, errored, terminated) is  *)
(* final, so that those who wait for another one are rejected.  The code   *)
(* breaks this: when one of two parallel steps has failed the instance     *)
(* while a pause was pending, the other one's release lets the pause       *)
(* through and stores "paused" over "errored".                             *)
FiniteStatusIsFinal ==
    [][~ AttemptRestart /\ status \in Finite => status' = status]_vars

-----------------------------------------------------------------------------
(* The invariant that steps keep, part by part.                            *)

(* A call has a place only in the runs there have been; attempts are those *)
(* of `do`, and only waits wait for events or have one as their output.    *)
KindsInv ==
    /\ \A c \in Calls : at[c] # "none" => c[1] <= run
    /\ \A c \in In({"acquire", "attempt", "backoff", "fatal", "leaked"}) : c[2] \in DoSteps
    /\ \A c \in In({"waiting"}) : c[2] \in Waits
    /\ \A i \in DOMAIN waiters : waiters[i][2] \in Waits
    /\ \A s \in Steps : value[s] \in Events => s \in Waits

(* With a sequential workflow the only call that is not settled is the one *)
(* of the stage the user's code is at; what earlier runs left behind has   *)
(* failed or was told of a pause.                                          *)
Unsettled == Places \ (Settled \cup {"none"})
OneAtATime ==
    \A c \in In(Unsettled) :
        IF Live(c) THEN stage <= Len(program) /\ c[2] \in program[stage]
                   ELSE at[c] \in {"paused", "failed"}

(* A step on its way to an attempt has neither output nor error yet.  Its  *)
(* count stays one below the bound until it is attempted; the count that   *)
(* the call has read may be older than the one in storage, after a restart.*)
InFlight == In({"attempt", "fatal"})
AttemptsInv ==
    /\ \A c \in In({"acquire", "attempt", "backoff", "fatal"}) :
            value[c[2]] = None /\ c[2] \notin failed
    /\ \A c \in InFlight : tries[c] <= RetryLimit + 1 + lostAttempts[c[2]]
    /\ \A c \in In({"acquire"}) : tries[c] <= RetryLimit + lostAttempts[c[2]]
    /\ \A s \in DoSteps : attempted[s] <= RetryLimit + 1 + lostAttempts[s]
    /\ \A s \in DoSteps :
            (\A c \in InFlight : c[2] # s) /\ value[s] = None /\ s \notin failed
                => attempted[s] <= RetryLimit + lostAttempts[s]

SequentialInv == Sequential => OneAtATime /\ AttemptsInv

(* Before the first run nothing has happened.                              *)
Pristine ==
    /\ ~ isRunning /\ ~ started /\ ~ pauseAborted
    /\ status = "Queued" /\ sent = {}
    /\ stored = <<>> /\ eventMap = <<>> /\ waiters = <<>>
    /\ \A s \in Steps : value[s] = None

(* In the first run each event is at one place in the memory or the output *)
(* of one wait, and the waiters are different calls, all waiting.          *)
EventsInv ==
    /\ ~ pauseAborted
    /\ waiters # <<>> => eventMap = <<>>
    /\ \A i \in DOMAIN waiters : at[waiters[i]] = "waiting"
    /\ \A i, j \in DOMAIN waiters : waiters[i] = waiters[j] => i = j
    /\ \A i, j \in DOMAIN eventMap : eventMap[i] = eventMap[j] => i = j
    /\ \A c \in In({"waiting"}) : value[c[2]] = None
    /\ \A s, t \in Steps : value[s] = value[t] /\ value[s] \in Events => s = t
    /\ \A i \in DOMAIN eventMap : eventMap[i] \in sent /\ \A s \in Steps : value[s] # eventMap[i]
    /\ \A s \in Steps : value[s] \in Events => value[s] \in sent
    /\ \A e \in sent : (\E i \in DOMAIN eventMap : eventMap[i] = e) \/ (\E s \in Steps : value[s] = e)

FirstRunInv == (run = 0 => Pristine) /\ (Uninterrupted => EventsInv)

EngineInv == SemaphoreAgrees /\ KindsInv /\ SequentialInv /\ FirstRunInv
=============================================================================
