------------------------ MODULE WorkflowEngineProofs ------------------------
(***************************************************************************)
(* Proofs about WorkflowEngine: whatever pauses, resumes, crashes,         *)
(* restarts and terminations interleave with the calls, the semaphore      *)
(* agrees with what is in flight; a sequential workflow attempts no step   *)
(* too often and keeps its outputs; in an undisturbed first run each event *)
(* reaches one wait.                                                       *)
(***************************************************************************)
EXTENDS WorkflowEngine, FiniteSetTheorems, NaturalsInduction, TLAPS

-----------------------------------------------------------------------------
(* Calls and sets of calls.                                                *)

LEMMA CallIs ==
    ASSUME NEW c \in Calls
    PROVE  c[1] \in Runs /\ c[1] \in Nat /\ c[2] \in Steps /\ c = <<c[1], c[2]>>
BY DEF Calls, Runs

LEMMA FiniteCalls ==
    ASSUME NEW S, S \subseteq Calls
    PROVE  IsFiniteSet(S) /\ Cardinality(S) \in Nat
<1>1. IsFiniteSet(Runs)
  BY FS_Interval, EngineAssumption DEF Runs
<1>2. IsFiniteSet(Calls)
  BY <1>1, FS_Product, EngineAssumption DEF Calls
<1> QED BY <1>2, FS_Subset, FS_CardinalityType

(* A set of numbers has a least one.                                       *)
LEMMA LeastNat ==
    ASSUME NEW S, S \subseteq Nat, S # {}
    PROVE  \E n \in S : \A m \in S : n <= m
<1>1. IsWellFoundedOn(OpToRel(<, Nat), Nat)
  BY NatLessThanWellFounded
<1>2. PICK n \in S : \A m \in S : ~ (<<m, n>> \in OpToRel(<, Nat))
  BY <1>1, WFMin
<1>3. \A m \in S : ~ (m < n)
  BY <1>2 DEF OpToRel
<1> QED BY <1>3

LEMMA LatestIs ==
    ASSUME NEW B, B \subseteq Calls, NEW s, \E c \in B : c[2] = s
    PROVE  Latest(B, s) \in B /\ Latest(B, s)[2] = s
<1> DEFINE S == {MaxRuns - c[1] : c \in {d \in B : d[2] = s}}
<1>1. S \subseteq Nat
  BY EngineAssumption DEF Calls, Runs
<1>2. PICK n \in S : \A m \in S : n <= m
  BY <1>1, LeastNat
<1>3. PICK c \in B : c[2] = s /\ n = MaxRuns - c[1]
  BY <1>2
<1>4. ASSUME NEW d \in B, d[2] = s
      PROVE  d[1] <= c[1]
  <2>1. MaxRuns - c[1] <= MaxRuns - d[1]
    BY <1>2, <1>3, <1>4
  <2>2. c[1] \in Nat /\ d[1] \in Nat /\ MaxRuns \in Nat
    BY CallIs, EngineAssumption
  <2> QED BY <2>1, <2>2
<1>5. \E x \in B : x[2] = s /\ \A d \in B : d[2] = s => d[1] <= x[1]
  BY <1>3, <1>4
<1> QED BY <1>5 DEF Latest

-----------------------------------------------------------------------------
(* The effects of the operators that several handlers share.               *)

LEMMA StartEffects ==
    ASSUME NEW B, B \subseteq Calls, NEW mine \in [Calls -> Nat],
           NEW persisted \in [DoSteps -> Nat], StartAttempts(B, mine, persisted)
    PROVE  /\ tries' \in [Calls -> Nat] /\ attempted' \in [DoSteps -> Nat]
           /\ \A c \in Calls : tries'[c] = IF c \in B THEN mine[c] + 1 ELSE mine[c]
           /\ \A s \in DoSteps :
                \/ (\E c \in B : c[2] = s /\ attempted'[s] = mine[c] + 1)
                \/ (\A c \in B : c[2] # s) /\ attempted'[s] = persisted[s]
<1>1. tries' \in [Calls -> Nat]
      /\ \A c \in Calls : tries'[c] = IF c \in B THEN mine[c] + 1 ELSE mine[c]
  BY DEF StartAttempts
<1>2. ASSUME NEW s \in DoSteps
      PROVE  /\ attempted'[s] \in Nat
             /\ \/ (\E c \in B : c[2] = s /\ attempted'[s] = mine[c] + 1)
                \/ (\A c \in B : c[2] # s) /\ attempted'[s] = persisted[s]
  <2>1. CASE \E c \in B : c[2] = s
    <3>1. attempted'[s] = mine[Latest(B, s)] + 1
      BY <2>1 DEF StartAttempts
    <3> QED BY <2>1, <3>1, LatestIs
  <2>2. CASE ~ \E c \in B : c[2] = s
    BY <2>2 DEF StartAttempts
  <2> QED BY <2>1, <2>2
<1>3. attempted' = [s \in DoSteps |-> attempted'[s]]
  BY DEF StartAttempts
<1> QED BY <1>1, <1>2, <1>3

LEMMA MoveTo ==
    ASSUME NEW B, NEW W, B \cap W = {}, NEW c \in Calls, c \notin B \cup W,
           NEW place, Move(B, W, To(c, place))
    PROVE  /\ at' = [d \in Calls |-> at'[d]]
           /\ \A d \in Calls : at'[d] = IF d = c THEN place
                                        ELSE IF d \in B THEN "attempt"
                                        ELSE IF d \in W THEN "paused" ELSE at[d]
<1> DEFINE f == To(c, place)
<1>1. DOMAIN f = {c} /\ f[c] = place
  BY DEF To
<1> HIDE DEF f
<1>2. at' = [d \in Calls |-> CASE d \in DOMAIN f -> f[d] [] d \in B -> "attempt"
                              [] d \in W -> "paused" [] OTHER -> at[d]]
  BY DEF Move, f
<1>3. ASSUME NEW d \in Calls
      PROVE  at'[d] = CASE d \in DOMAIN f -> f[d] [] d \in B -> "attempt"
                        [] d \in W -> "paused" [] OTHER -> at[d]
  BY <1>2
<1> QED BY <1>1, <1>2, <1>3

LEMMA MoveNone ==
    ASSUME NEW B, NEW W, B \cap W = {}, Move(B, W, <<>>)
    PROVE  /\ at' = [d \in Calls |-> at'[d]]
           /\ \A d \in Calls : at'[d] = IF d \in B THEN "attempt"
                                        ELSE IF d \in W THEN "paused" ELSE at[d]
<1>1. \A d : d \notin DOMAIN <<>>
  OBVIOUS
<1> QED BY <1>1 DEF Move

LEMMA BootEffects ==
    ASSUME TypeOK, NEW st \in Statuses, NEW kept \in Seq(Events), NEW disk \in Seq(Events),
           Boot(st, kept, disk)
    PROVE  /\ status' \in Statuses /\ isRunning' \in BOOLEAN
           /\ run' \in 0 .. MaxRuns /\ stage' \in Nat \ {0}
           /\ eventMap' \in Seq(Events)
           /\ \/ UNCHANGED <<isRunning, run, stage>>
                 /\ status' \in {st, "Paused"} /\ eventMap' = kept
              \/ /\ ~ isRunning /\ isRunning' /\ run' = run + 1 /\ stage' = 1
                 /\ status' = "Running" /\ eventMap' = kept \o disk
<1>0. /\ run \in Nat /\ MaxRuns \in Nat /\ run <= MaxRuns /\ isRunning \in BOOLEAN
      /\ stage \in Nat \ {0}
  BY EngineAssumption DEF TypeOK
<1>1. CASE NotBooted(st, kept)
  BY <1>0, <1>1 DEF NotBooted, TypeOK
<1>2. CASE BootedPaused(st, kept)
  BY <1>0, <1>2 DEF BootedPaused, Statuses, PausedOrPausing, TypeOK
<1>3. CASE Booted(st, kept, disk)
  <2>1. run + 1 \in 0 .. MaxRuns
    BY <1>0, <1>3 DEF Booted
  <2>2. kept \o disk \in Seq(Events)
    OBVIOUS
  <2>3. status' = "Running" /\ isRunning' = TRUE /\ ~ isRunning /\ run' = run + 1
        /\ stage' = 1 /\ eventMap' = kept \o disk
    BY <1>3 DEF Booted
  <2>4. isRunning' /\ isRunning' \in BOOLEAN
    BY <2>3
  <2>5. status' \in Statuses
    BY <2>3 DEF Statuses
  <2>6. stage' \in Nat \ {0}
    BY <2>3
  <2> QED BY <2>1, <2>2, <2>3, <2>4, <2>5, <2>6
<1> QED BY <1>1, <1>2, <1>3 DEF Boot

(* Where PauseWhen, as a release calls it, puts each call.                 *)
Held(pausing) == IF pausing THEN HeldSteps ELSE {}
Woken(pausing) == IF pausing THEN In(Interruptible) ELSE {}

LEMMA ReleaseEffects ==
    ASSUME TypeOK, NEW c \in Calls, at[c] = "attempt", NEW st \in Statuses,
           NEW place \in Places, NEW persisted \in [DoSteps -> Nat],
           Release(st, To(c, place), persisted)
    PROVE  /\ status' = IF PauseGoesThrough THEN "Paused" ELSE st
           /\ pauseAborted' = (pauseAborted \/ PauseGoesThrough)
           /\ pausePending' = (pausePending /\ ~ PauseGoesThrough)
           /\ canInitiateSteps' = (canInitiateSteps \/ PauseGoesThrough)
           /\ counter' = AfterRelease + Cardinality(Held(PauseGoesThrough))
           /\ at' \in [Calls -> Places]
           /\ \A d \in Calls :
                at'[d] = IF d = c THEN place
                         ELSE IF d \in Held(PauseGoesThrough) THEN "attempt"
                         ELSE IF d \in Woken(PauseGoesThrough) THEN "paused" ELSE at[d]
           /\ StartAttempts(Held(PauseGoesThrough), tries, persisted)
<1> DEFINE B == Held(PauseGoesThrough)
           W == Woken(PauseGoesThrough)
<1>1. B \cap W = {} /\ c \notin B \cup W /\ B \subseteq Calls
  BY DEF Held, Woken, HeldSteps, In, Interruptible
<1>2. /\ status' = IF PauseGoesThrough THEN "Paused" ELSE st
      /\ pauseAborted' = (pauseAborted \/ PauseGoesThrough)
      /\ pausePending' = (pausePending /\ ~ PauseGoesThrough)
      /\ canInitiateSteps' = (canInitiateSteps \/ PauseGoesThrough)
      /\ counter' = AfterRelease + Cardinality(B)
      /\ Move(B, W, To(c, place))
      /\ StartAttempts(B, tries, persisted)
  BY DEF Release, PauseWhen, Held, Woken
<1> HIDE DEF B, W
<1>3. /\ at' = [d \in Calls |-> at'[d]]
      /\ \A d \in Calls : at'[d] = IF d = c THEN place
                                   ELSE IF d \in B THEN "attempt"
                                   ELSE IF d \in W THEN "paused" ELSE at[d]
  BY <1>1, <1>2, MoveTo
<1>4. \A d \in Calls : at'[d] \in Places
  BY <1>3 DEF TypeOK, Places, Thrown
<1> QED BY <1>2, <1>3, <1>4 DEF B, W

-----------------------------------------------------------------------------
(* Types and kinds.                                                        *)


StorageTypes ==
    /\ status \in Statuses /\ started \in BOOLEAN
    /\ value \in [Steps -> Runs \cup Events \cup {None}] /\ failed \subseteq Steps
    /\ attempted \in [DoSteps -> Nat] /\ registered \subseteq Waits
    /\ stored \in Seq(Events)

MemoryTypes ==
    /\ isRunning \in BOOLEAN /\ eventMap \in Seq(Events) /\ waiters \in Seq(Calls)
    /\ counter \in Nat /\ canInitiateSteps \in BOOLEAN /\ pausePending \in BOOLEAN
    /\ pauseAborted \in BOOLEAN
    /\ at \in [Calls -> Places] /\ tries \in [Calls -> Nat]

UserTypes ==
    /\ program \in Programs /\ run \in 0 .. MaxRuns /\ stage \in Nat \ {0}
    /\ sent \subseteq Events /\ restarting \in BOOLEAN
    /\ {pauses, upsets} \subseteq Nat
    /\ lostAttempts \in [DoSteps -> Nat]

LEMMA TypesSplit == /\ TypeOK <=> StorageTypes /\ MemoryTypes /\ UserTypes
                    /\ TypeOK' <=> (StorageTypes /\ MemoryTypes /\ UserTypes)'
BY DEF TypeOK, StorageTypes, MemoryTypes, UserTypes

(* A step of the user's code asks for one call, and moves that one only.   *)
LEMMA CallFrame ==
    ASSUME TypeOK, NEW c \in Calls, Call(c)
    PROVE  /\ isRunning /\ c[1] = run /\ stage <= Len(program) /\ c[2] \in program[stage]
           /\ at[c] = "none"
           /\ UNCHANGED <<started, stored, isRunning, program, run, stage>>
           /\ UNCHANGED <<sent, restarting, pauses, upsets, lostAttempts>>
           /\ UNCHANGED <<status, pauseAborted, canInitiateSteps, pausePending>>
           /\ at' = [at EXCEPT ![c] = at'[c]]
           /\ \A d \in Calls : d # c => at'[d] = at[d]
<1>1. Callable(c)
  BY DEF Call, Replay, Do, ReSleep, Sleep, WaitForEvent, Fresh
<1>2. UnchangedByCall
  BY DEF Call, Replay, Do, ReSleep, Sleep, WaitForEvent
<1>3. UNCHANGED <<status, pauseAborted, canInitiateSteps, pausePending>>
  BY DEF Call, Replay, Do, ReSleep, Sleep, WaitForEvent, semaphore
<1>4. \E place : at' = [at EXCEPT ![c] = place]
  BY DEF Call, Replay, Do, ReSleep, Sleep, WaitForEvent, WaitFindsTimeout,
        WaitTakesEvent, WaitBegins
<1>5. at \in [Calls -> Places]
  BY DEF TypeOK
<1> QED BY <1>1, <1>2, <1>3, <1>4, <1>5 DEF Callable, UnchangedByCall, history

(* Where `do` puts a call, when it comes and when its retry delay is over. *)
Attempts(c, mine) ==
    /\ canInitiateSteps
    /\ at' = [at EXCEPT ![c] = "attempt"]
    /\ counter' = counter + 1
    /\ StartAttempts({c}, mine, attempted)

Queues(c, mine) ==
    /\ ~ canInitiateSteps
    /\ at' = [at EXCEPT ![c] = "acquire"]
    /\ tries' = mine
    /\ UNCHANGED <<attempted, counter>>

LEMMA BeginTypes ==
    ASSUME TypeOK, NEW c \in Calls, c[2] \in DoSteps,
           NEW mine, mine = [tries EXCEPT ![c] = attempted[c[2]]],
           Attempts(c, mine) \/ Queues(c, mine)
    PROVE  /\ at' \in [Calls -> Places] /\ tries' \in [Calls -> Nat]
           /\ attempted' \in [DoSteps -> Nat] /\ counter' \in Nat
           /\ mine \in [Calls -> Nat]
<1>1. /\ at \in [Calls -> Places] /\ tries \in [Calls -> Nat]
      /\ attempted \in [DoSteps -> Nat] /\ counter \in Nat
  BY DEF TypeOK
<1>2. mine \in [Calls -> Nat]
  BY <1>1
<1>3. "attempt" \in Places /\ "acquire" \in Places
  BY DEF Places
<1>4. CASE Attempts(c, mine)
  <2>1. {c} \subseteq Calls
    OBVIOUS
  <2>2. tries' \in [Calls -> Nat] /\ attempted' \in [DoSteps -> Nat]
    BY <1>1, <1>2, <1>4, <2>1, StartEffects DEF Attempts
  <2>3. at' = [at EXCEPT ![c] = "attempt"] /\ counter' = counter + 1
    BY <1>4 DEF Attempts
  <2>4. at' \in [Calls -> Places] /\ counter' \in Nat
    BY <1>1, <1>3, <2>3
  <2> QED BY <1>2, <2>2, <2>4
<1>5. CASE Queues(c, mine)
  BY <1>1, <1>2, <1>3, <1>5 DEF Queues
<1> QED BY <1>4, <1>5

LEMMA DoIs ==
    ASSUME NEW c \in Calls, Do(c)
    PROVE  /\ Fresh(c) /\ c[2] \in DoSteps
           /\ \/ Attempts(c, [tries EXCEPT ![c] = attempted[c[2]]])
              \/ Queues(c, [tries EXCEPT ![c] = attempted[c[2]]])
           /\ UNCHANGED <<value, failed, registered, eventMap, waiters>>
BY DEF Do, Attempts, Queues

LEMMA CallTypes ==
    ASSUME TypeOK, NEW c \in Calls, Call(c)
    PROVE  TypeOK'
<1>0. StorageTypes /\ MemoryTypes /\ UserTypes /\ c[1] \in Runs /\ c[2] \in Steps
  BY CallIs, TypesSplit
<1>1. UserTypes'
  BY <1>0, CallFrame DEF UserTypes
<1>2. CASE Do(c)
  <2>1. /\ at' \in [Calls -> Places] /\ tries' \in [Calls -> Nat]
        /\ attempted' \in [DoSteps -> Nat] /\ counter' \in Nat
    BY <1>2, DoIs, BeginTypes
  <2>2. StorageTypes'
    BY <1>0, <1>2, <2>1, CallFrame, DoIs DEF StorageTypes
  <2>3. MemoryTypes'
    BY <1>0, <1>2, <2>1, CallFrame, DoIs DEF MemoryTypes
  <2> QED BY <1>1, <2>2, <2>3, TypesSplit
<1>3. ASSUME UNCHANGED <<attempted, counter, tries>>,
             at'[c] \in Places, failed' \in {failed, failed \cup {c[2]}},
             registered' \in {registered, registered \cup {c[2]}}, c[2] \in Waits \/ registered' = registered,
             value' = value \/ \E v \in Runs \cup Events : value' = [value EXCEPT ![c[2]] = v],
             eventMap' \in Seq(Events), waiters' \in {waiters, Append(waiters, c)}
      PROVE  TypeOK'
  <2>1. StorageTypes'
    BY <1>0, <1>3, CallFrame DEF StorageTypes
  <2>2. MemoryTypes'
    <3>1. at' \in [Calls -> Places]
      BY <1>0, <1>3, CallFrame DEF MemoryTypes
    <3>2. waiters' \in Seq(Calls)
      <4>1. waiters \in Seq(Calls)
        BY <1>0 DEF MemoryTypes
      <4>2. Append(waiters, c) \in Seq(Calls)
        BY <4>1
      <4>3. waiters' \in {waiters, Append(waiters, c)}
        BY <1>3
      <4> QED BY <4>1, <4>2, <4>3
    <3> QED BY <1>0, <1>3, <3>1, <3>2, CallFrame DEF MemoryTypes
  <2> QED BY <1>1, <2>1, <2>2, TypesSplit
<1>4. at[c] \in Places /\ eventMap \in Seq(Events)
  BY <1>0 DEF MemoryTypes
<1>5. at \in [Calls -> Places]
  BY <1>0 DEF MemoryTypes
<1>6. CASE Replay(c)
  BY <1>3, <1>4, <1>5, <1>6 DEF Replay, semaphore, Places, Settled, Thrown
<1>7. CASE ReSleep(c)
  BY <1>3, <1>4, <1>5, <1>7 DEF ReSleep, semaphore, Places, Settled
<1>8. CASE Sleep(c)
  <2>1. at'[c] \in Places
    BY <1>5, <1>8 DEF Sleep, Places, Settled, Thrown, Interruptible
  <2> QED BY <1>0, <1>3, <1>4, <1>8, <2>1 DEF Sleep, semaphore
<1>9. CASE WaitForEvent(c)
  <2>1. UNCHANGED <<attempted, counter, tries>> /\ registered' = registered \cup {c[2]}
        /\ c[2] \in Waits
    BY <1>9 DEF WaitForEvent, semaphore
  <2>2. CASE WaitFindsTimeout(c)
    BY <1>3, <1>4, <1>5, <2>1, <2>2 DEF WaitFindsTimeout, Places, Thrown
  <2>3. CASE WaitTakesEvent(c)
    <3>1. Head(eventMap) \in Events /\ Tail(eventMap) \in Seq(Events)
      BY <1>4, <2>3 DEF WaitTakesEvent
    <3> QED BY <1>3, <1>4, <1>5, <2>1, <2>3, <3>1 DEF WaitTakesEvent, Places, Thrown, Settled
  <2>4. CASE WaitBegins(c)
    BY <1>3, <1>4, <1>5, <2>1, <2>4 DEF WaitBegins, Places, Thrown, Interruptible
  <2> QED BY <1>9, <2>2, <2>3, <2>4 DEF WaitForEvent
<1> QED BY <1>2, <1>6, <1>7, <1>8, <1>9 DEF Call

(* The answer of a call, or one of its timers.                             *)
LEMMA AnswerFrame ==
    ASSUME NEW c \in Calls, Answer(c)
    PROVE  /\ UNCHANGED <<started, registered, stored, isRunning, eventMap, program, run, stage>>
           /\ UNCHANGED <<sent, restarting, pauses, upsets, lostAttempts>>
BY DEF Answer, StepSucceeds, StepFails, StepFailsForGood, BackoffEnds, SleepEnds,
       WaitTimesOut, UnchangedByAnswer, history

(* The two answers that release, with the place the call goes to.          *)
LEMMA StepSucceedsIs ==
    ASSUME TypeOK, NEW c \in Calls, StepSucceeds(c)
    PROVE  \E st \in {status, "Paused"}, place \in {"done", "paused"} :
             /\ at[c] = "attempt"
             /\ Release(st, To(c, place), attempted)
             /\ value' = [value EXCEPT ![c[2]] = c[1]]
             /\ UNCHANGED <<failed, waiters>>
             /\ st # status => AfterRelease = 0 /\ Pausing
<1> DEFINE now == AfterRelease = 0 /\ Pausing
<1>1. CASE now
  BY <1>1 DEF StepSucceeds
<1>2. CASE ~ now
  BY <1>2 DEF StepSucceeds
<1> QED BY <1>1, <1>2

LEMMA StepFailsIs ==
    ASSUME TypeOK, NEW c \in Calls, StepFails(c)
    PROVE  \E place \in {"failed", "paused", "backoff"} :
             /\ at[c] = "attempt"
             /\ Release(status, To(c, place), [attempted EXCEPT ![c[2]] = tries[c]])
             /\ failed' = IF WillRetry(c) THEN failed ELSE failed \cup {c[2]}
             /\ place = "failed" <=> ~ WillRetry(c)
             /\ UNCHANGED <<value, waiters>>
<1>1. CASE ~ WillRetry(c)
  BY <1>1 DEF StepFails
<1>2. CASE WillRetry(c) /\ (PauseGoesThrough \/ (pauseAborted /\ Pausing))
  BY <1>2 DEF StepFails
<1>3. CASE WillRetry(c) /\ ~ (PauseGoesThrough \/ (pauseAborted /\ Pausing))
  BY <1>3 DEF StepFails
<1> QED BY <1>1, <1>2, <1>3

(* A wait that times out takes the first waiter of its step away.          *)
LEMMA WaiterRemoved ==
    ASSUME waiters \in Seq(Calls), NEW c \in Calls, WaitTimesOut(c)
    PROVE  \/ (\A i \in DOMAIN waiters : waiters[i][2] # c[2]) /\ waiters' = waiters
           \/ \E i \in DOMAIN waiters :
                waiters[i][2] = c[2] /\ waiters' = RemoveAt(waiters, i)
<1> DEFINE I == {i \in 1 .. Len(waiters) : waiters[i][2] = c[2]}
<1>1. DOMAIN waiters = 1 .. Len(waiters)
  OBVIOUS
<1>2. CASE ~ \E i \in 1 .. Len(waiters) : waiters[i][2] = c[2]
  BY <1>1, <1>2 DEF WaitTimesOut, RemoveFirstMatch
<1>3. CASE \E i \in 1 .. Len(waiters) : waiters[i][2] = c[2]
  <2>1. I # {} /\ I \subseteq Nat
    BY <1>3
  <2>2. PICK n \in I : \A m \in I : n <= m
    BY <2>1, LeastNat
  <2>3. Min(I) \in I
    BY <2>2 DEF Min
  <2>4. SelectInSeq(waiters, LAMBDA w : w[2] = c[2]) = Min(I)
    BY <2>1 DEF SelectInSeq
  <2>5. RemoveFirstMatch(waiters, LAMBDA w : w[2] = c[2]) = RemoveAt(waiters, Min(I))
    BY <1>3, <2>4 DEF RemoveFirstMatch
  <2>6. waiters' = RemoveAt(waiters, Min(I))
    BY <2>5 DEF WaitTimesOut
  <2> QED BY <1>1, <2>3, <2>6
<1> QED BY <1>2, <1>3

LEMMA RemoveAtIs ==
    ASSUME NEW S, NEW s \in Seq(S), NEW i \in DOMAIN s
    PROVE  /\ RemoveAt(s, i) \in Seq(S)
           /\ Len(RemoveAt(s, i)) = Len(s) - 1
           /\ DOMAIN RemoveAt(s, i) = 1 .. (Len(s) - 1)
           /\ \A j \in DOMAIN RemoveAt(s, i) :
                RemoveAt(s, i)[j] = IF j < i THEN s[j] ELSE s[j + 1]
<1>1. Len(s) \in Nat /\ i \in 1 .. Len(s)
  OBVIOUS
<1> DEFINE p == SubSeq(s, 1, i - 1)
           q == SubSeq(s, i + 1, Len(s))
<1>2. p \in Seq(S) /\ Len(p) = i - 1 /\ \A j \in 1 .. i - 1 : p[j] = s[j]
  BY <1>1
<1>3. q \in Seq(S) /\ Len(q) = Len(s) - i /\ \A j \in 1 .. Len(s) - i : q[j] = s[j + i]
  BY <1>1
<1> HIDE DEF p, q
<1>4. RemoveAt(s, i) = p \o q
  BY DEF RemoveAt, p, q
<1>5. p \o q \in Seq(S) /\ Len(p \o q) = Len(s) - 1
  BY <1>1, <1>2, <1>3
<1>6. \A j \in 1 .. Len(s) - 1 : (p \o q)[j] = IF j < i THEN s[j] ELSE s[j + 1]
  BY <1>1, <1>2, <1>3
<1>7. DOMAIN (p \o q) = 1 .. (Len(s) - 1)
  BY <1>5
<1> QED BY <1>4, <1>5, <1>6, <1>7

LEMMA ReleaseTypes ==
    ASSUME TypeOK, NEW c \in Calls, at[c] = "attempt", NEW st \in Statuses,
           NEW place \in Places, NEW persisted \in [DoSteps -> Nat],
           Release(st, To(c, place), persisted)
    PROVE  /\ status' \in Statuses /\ pauseAborted' \in BOOLEAN
           /\ pausePending' \in BOOLEAN /\ canInitiateSteps' \in BOOLEAN
           /\ counter' \in Nat /\ at' \in [Calls -> Places]
           /\ tries' \in [Calls -> Nat] /\ attempted' \in [DoSteps -> Nat]
<1> DEFINE B == Held(PauseGoesThrough)
<1>1. B \subseteq Calls
  BY DEF Held, HeldSteps, In
<1>2. Cardinality(B) \in Nat
  BY <1>1, FiniteCalls
<1>3. AfterRelease \in Nat
  BY DEF AfterRelease, TypeOK
<1>4. tries \in [Calls -> Nat]
  BY DEF TypeOK
<1> HIDE DEF B
<1>5. StartAttempts(B, tries, persisted) /\ counter' = AfterRelease + Cardinality(B)
  BY ReleaseEffects DEF B
<1>6. tries' \in [Calls -> Nat] /\ attempted' \in [DoSteps -> Nat]
  BY <1>1, <1>4, <1>5, StartEffects
<1>7. counter' \in Nat
  BY <1>2, <1>3, <1>5
<1>8. status' \in Statuses
  BY ReleaseEffects DEF Statuses, PausedOrPausing
<1>9. /\ pauseAborted' \in BOOLEAN /\ pausePending' \in BOOLEAN
      /\ canInitiateSteps' \in BOOLEAN
  BY ReleaseEffects DEF TypeOK
<1> QED BY <1>6, <1>7, <1>8, <1>9, ReleaseEffects

LEMMA AnswerTypes ==
    ASSUME TypeOK, KindsInv, NEW c \in Calls, Answer(c)
    PROVE  TypeOK'
<1>0. StorageTypes /\ MemoryTypes /\ UserTypes /\ c[1] \in Runs /\ c[2] \in Steps
  BY CallIs, TypesSplit
<1>1. UserTypes'
  BY <1>0, AnswerFrame DEF UserTypes
<1>2. CASE StepSucceeds(c)
  <2>1. PICK st \in {status, "Paused"}, place \in {"done", "paused"} :
             /\ at[c] = "attempt"
             /\ Release(st, To(c, place), attempted)
             /\ value' = [value EXCEPT ![c[2]] = c[1]]
             /\ UNCHANGED <<failed, waiters>>
    BY <1>2, StepSucceedsIs
  <2>2. st \in Statuses /\ place \in Places /\ attempted \in [DoSteps -> Nat]
    BY <1>0 DEF StorageTypes, Statuses, PausedOrPausing, Places, Settled, Thrown
  <2>3. StorageTypes'
    BY <1>0, <2>1, <2>2, AnswerFrame, ReleaseTypes DEF StorageTypes
  <2>4. MemoryTypes'
    BY <1>0, <2>1, <2>2, AnswerFrame, ReleaseTypes DEF MemoryTypes
  <2> QED BY <1>1, <2>3, <2>4, TypesSplit
<1>3. CASE StepFails(c)
  <2> DEFINE persisted == [attempted EXCEPT ![c[2]] = tries[c]]
  <2>1. PICK place \in {"failed", "paused", "backoff"} :
             /\ at[c] = "attempt"
             /\ Release(status, To(c, place), persisted)
             /\ failed' = IF WillRetry(c) THEN failed ELSE failed \cup {c[2]}
             /\ UNCHANGED <<value, waiters>>
    BY <1>3, StepFailsIs
  <2>2. status \in Statuses /\ place \in Places /\ persisted \in [DoSteps -> Nat]
    BY <1>0 DEF StorageTypes, MemoryTypes, Places, Interruptible, Thrown
  <2>3. failed' \subseteq Steps
    BY <1>0, <2>1 DEF StorageTypes
  <2> HIDE DEF persisted
  <2>4. StorageTypes'
    BY <1>0, <2>1, <2>2, <2>3, AnswerFrame, ReleaseTypes DEF StorageTypes
  <2>5. MemoryTypes'
    BY <1>0, <2>1, <2>2, AnswerFrame, ReleaseTypes DEF MemoryTypes
  <2> QED BY <1>1, <2>4, <2>5, TypesSplit
<1>4. ASSUME UNCHANGED <<status, value, attempted, semaphore, pauseAborted, tries>>,
             failed' \in {failed, failed \cup {c[2]}}, waiters' \in Seq(Calls),
             at' \in [Calls -> Places]
      PROVE  TypeOK'
  <2>1. failed' \subseteq Steps
    BY <1>0, <1>4 DEF StorageTypes
  <2>2. StorageTypes'
    BY <1>0, <1>4, <2>1, AnswerFrame DEF StorageTypes
  <2>3. MemoryTypes'
    BY <1>0, <1>4, AnswerFrame DEF MemoryTypes, semaphore
  <2> QED BY <1>1, <2>2, <2>3, TypesSplit
<1>5. waiters \in Seq(Calls) /\ at \in [Calls -> Places]
  BY <1>0 DEF MemoryTypes
<1>6. {"fatal", "done", "paused", "failed"} \subseteq Places
  BY DEF Places, Thrown, Settled
<1>7. CASE StepFailsForGood(c)
  BY <1>4, <1>5, <1>6, <1>7 DEF StepFailsForGood
<1>8. CASE SleepEnds(c)
  BY <1>4, <1>5, <1>6, <1>8 DEF SleepEnds
<1>9. CASE WaitTimesOut(c)
  <2>1. waiters' \in Seq(Calls)
    BY <1>5, <1>9, WaiterRemoved, RemoveAtIs
  <2> QED BY <1>4, <1>5, <1>6, <1>9, <2>1 DEF WaitTimesOut
<1>10. CASE BackoffEnds(c)
  <2>1. c[2] \in DoSteps
    BY <1>10 DEF BackoffEnds, KindsInv, In
  <2> DEFINE mine == [tries EXCEPT ![c] = attempted[c[2]]]
  <2>2. UNCHANGED <<status, value, failed, waiters, canInitiateSteps, pausePending, pauseAborted>>
    BY <1>10 DEF BackoffEnds
  <2>3. CASE Pausing /\ at' = [at EXCEPT ![c] = "paused"] /\ UNCHANGED <<attempted, tries, counter>>
    BY <1>4, <1>5, <1>6, <2>2, <2>3 DEF semaphore
  <2>4. CASE Attempts(c, mine) \/ Queues(c, mine)
    <3>1. /\ at' \in [Calls -> Places] /\ tries' \in [Calls -> Nat]
          /\ attempted' \in [DoSteps -> Nat] /\ counter' \in Nat
      BY <2>1, <2>4, BeginTypes
    <3>2. StorageTypes'
      BY <1>0, <2>2, <3>1, AnswerFrame DEF StorageTypes
    <3>3. MemoryTypes'
      BY <1>0, <2>2, <3>1, AnswerFrame DEF MemoryTypes
    <3> QED BY <1>1, <3>2, <3>3, TypesSplit
  <2> QED BY <1>10, <2>3, <2>4 DEF BackoffEnds, Attempts, Queues
<1> QED BY <1>2, <1>3, <1>7, <1>8, <1>9, <1>10 DEF Answer

LEMMA UserFrame ==
    ASSUME UserCode
    PROVE  /\ UNCHANGED <<started, value, failed, attempted, registered, stored, program, run>>
           /\ UNCHANGED <<sent, restarting, pauses, upsets>>
           /\ UNCHANGED <<eventMap, waiters, semaphore, pauseAborted, tries>> \/ Forget
<1>1. CASE NextStage \/ RunReturns \/ \E c \in Calls : Catch(c) \/ RunPauses(c) \/ RunFails(c)
  BY <1>1 DEF NextStage, RunReturns, Catch, RunPauses, RunFails, UnchangedByUser
<1>2. CASE \E c \in Calls : RunFailsForGood(c)
  BY <1>2 DEF RunFailsForGood, KeepsStorage, Forget
<1> QED BY <1>1, <1>2 DEF UserCode

LEMMA ForgetTypes ==
    ASSUME TypeOK, Forget
    PROVE  /\ MemoryTypes'
           /\ program' \in Programs /\ run' \in 0 .. MaxRuns /\ stage' \in Nat \ {0}
           /\ lostAttempts' \in [DoSteps -> Nat]
           /\ \A s \in DoSteps :
                /\ lostAttempts'[s] >= lostAttempts[s]
                /\ (\E c \in InFlight : c[2] = s) => lostAttempts'[s] >= lostAttempts[s] + 1
<1>1. ASSUME NEW s \in DoSteps
      PROVE  /\ lostAttempts'[s] \in Nat
             /\ lostAttempts'[s] >= lostAttempts[s]
             /\ (\E c \in InFlight : c[2] = s) => lostAttempts'[s] >= lostAttempts[s] + 1
  <2> DEFINE B == {c \in InFlight : c[2] = s}
  <2>1. B \subseteq Calls
    BY DEF InFlight, In
  <2>2. IsFiniteSet(B) /\ Cardinality(B) \in Nat
    BY <2>1, FiniteCalls
  <2>3. lostAttempts'[s] = lostAttempts[s] + Cardinality(B)
    BY DEF Forget, InFlight
  <2>4. lostAttempts[s] \in Nat
    BY DEF TypeOK
  <2>5. B # {} => Cardinality(B) # 0
    BY <2>2, FS_EmptySet
  <2>6. (\E c \in InFlight : c[2] = s) => B # {}
    OBVIOUS
  <2> HIDE DEF B
  <2> QED BY <2>2, <2>3, <2>4, <2>5, <2>6
<1>2. lostAttempts' = [s \in DoSteps |-> lostAttempts'[s]]
  BY DEF Forget
<1>3. MemoryTypes'
  <2>1. <<>> \in Seq(Events) /\ <<>> \in Seq(Calls) /\ "none" \in Places
    BY DEF Places
  <2>2. at' \in [Calls -> Places] /\ tries' \in [Calls -> Nat]
    BY <2>1 DEF Forget
  <2> QED BY <2>1, <2>2 DEF Forget, MemoryTypes
<1> QED BY <1>1, <1>2, <1>3 DEF Forget, TypeOK

LEMMA UserCodeTypes ==
    ASSUME TypeOK, UserCode
    PROVE  TypeOK'
<1>0. StorageTypes /\ MemoryTypes /\ UserTypes
  BY TypesSplit
<1>1. ASSUME UNCHANGED <<started, value, failed, attempted, registered, stored, program, run>>,
             UNCHANGED <<sent, restarting, pauses, upsets>>,
             status' \in Statuses, MemoryTypes', stage' \in Nat \ {0},
             lostAttempts' \in [DoSteps -> Nat]
      PROVE  TypeOK'
  <2>1. StorageTypes' /\ UserTypes'
    BY <1>0, <1>1 DEF StorageTypes, UserTypes
  <2> QED BY <1>1, <2>1, TypesSplit
<1>2. /\ status \in Statuses /\ stage \in Nat \ {0} /\ stage + 1 \in Nat \ {0}
      /\ lostAttempts \in [DoSteps -> Nat]
      /\ at \in [Calls -> Places]
      /\ {"Complete", "Errored"} \subseteq Statuses
  BY <1>0 DEF StorageTypes, MemoryTypes, UserTypes, Statuses, Finite
<1>3. ASSUME NextStage \/ RunReturns \/ \E c \in Calls : RunPauses(c) \/ RunFails(c)
      PROVE  TypeOK'
  <2>1. UNCHANGED <<eventMap, waiters, semaphore, pauseAborted, tries, at, lostAttempts>>
    BY <1>3 DEF NextStage, RunReturns, RunPauses, RunFails, UnchangedByUser
  <2>2. status' \in Statuses /\ isRunning' \in BOOLEAN /\ stage' \in Nat \ {0}
    BY <1>0, <1>2, <1>3 DEF NextStage, RunReturns, RunPauses, RunFails, MemoryTypes
  <2>3. MemoryTypes'
    BY <1>0, <2>1, <2>2 DEF MemoryTypes, semaphore
  <2> QED BY <1>1, <1>2, <2>1, <2>2, <2>3, UserFrame
<1>4. ASSUME NEW c \in Calls, Catch(c)
      PROVE  TypeOK'
  <2>1. /\ UNCHANGED <<eventMap, waiters, semaphore, pauseAborted, tries>>
        /\ UNCHANGED <<status, isRunning, stage>>
    BY <1>4 DEF Catch, UnchangedByUser
  <2>2. {"leaked", "caught"} \subseteq Places
    BY DEF Places, Settled
  <2>3. at' \in [Calls -> Places]
    BY <1>2, <1>4, <2>2 DEF Catch
  <2>4. lostAttempts' \in [DoSteps -> Nat]
    BY <1>2, <1>4 DEF Catch
  <2>5. MemoryTypes'
    BY <1>0, <2>1, <2>3 DEF MemoryTypes, semaphore
  <2> QED BY <1>1, <1>2, <2>1, <2>4, <2>5, UserFrame
<1>5. ASSUME NEW c \in Calls, RunFailsForGood(c)
      PROVE  TypeOK'
  BY <1>1, <1>2, <1>5, ForgetTypes, UserFrame DEF RunFailsForGood
<1> QED BY <1>3, <1>4, <1>5 DEF UserCode

LEMMA LosingTypes ==
    ASSUME TypeOK, Crash \/ Terminate \/ RestartAborts
    PROVE  TypeOK'
<1>0. StorageTypes /\ MemoryTypes /\ UserTypes
  BY TypesSplit
<1>1. MemoryTypes'
  BY ForgetTypes DEF Crash, Terminate, RestartAborts
<1>2. UserTypes'
  <2>1. upsets \in Nat /\ pauses \in Nat
    BY <1>0 DEF UserTypes
  <2>2. /\ upsets' \in Nat /\ pauses' = pauses /\ sent' = sent
        /\ restarting' \in BOOLEAN
    <3>1. restarting \in BOOLEAN
      BY <1>0 DEF UserTypes
    <3>2. CASE Crash
      BY <2>1, <3>1, <3>2 DEF Crash
    <3>3. CASE Terminate
      BY <2>1, <3>1, <3>3 DEF Terminate
    <3>4. CASE RestartAborts
      BY <2>1, <3>1, <3>4 DEF RestartAborts
    <3> QED BY <3>2, <3>3, <3>4
  <2>3. Forget
    BY DEF Crash, Terminate, RestartAborts
  <2> QED BY <1>0, <2>1, <2>2, <2>3, ForgetTypes DEF UserTypes
<1>3. StorageTypes'
  BY <1>0 DEF Crash, Terminate, RestartAborts, KeepsStorage, StorageTypes, Statuses, Finite
<1> QED BY <1>1, <1>2, <1>3, TypesSplit

LEMMA BootingTypes ==
    ASSUME TypeOK, Create \/ AttemptRestart \/ Resume
    PROVE  TypeOK'
<1>0. StorageTypes /\ MemoryTypes /\ UserTypes
  BY TypesSplit
<1>1. /\ "Queued" \in Statuses /\ status \in Statuses
      /\ <<>> \in Seq(Events) /\ stored \in Seq(Events) /\ eventMap \in Seq(Events)
  BY <1>0 DEF Statuses, StorageTypes, MemoryTypes
<1>2. /\ status' \in Statuses /\ isRunning' \in BOOLEAN
      /\ run' \in 0 .. MaxRuns /\ stage' \in Nat \ {0}
      /\ eventMap' \in Seq(Events)
  BY <1>1, BootEffects DEF Create, AttemptRestart, Resume
<1>3. CASE Create
  BY <1>0, <1>2, <1>3, TypesSplit DEF Create, StorageTypes, MemoryTypes, UserTypes,
        semaphore, history
<1>4. CASE AttemptRestart
  <2>1. StorageTypes'
    BY <1>0, <1>2, <1>4 DEF AttemptRestart, StorageTypes
  <2>2. MemoryTypes' /\ UserTypes'
    BY <1>0, <1>2, <1>4 DEF AttemptRestart, MemoryTypes, UserTypes, semaphore
  <2> QED BY <2>1, <2>2, TypesSplit
<1>5. CASE Resume
  <2>1. StorageTypes' /\ UserTypes'
    BY <1>0, <1>2, <1>5 DEF Resume, StorageTypes, UserTypes, history
  <2>2. <<>> \in Seq(Calls)
    OBVIOUS
  <2>3. MemoryTypes'
    BY <1>0, <1>2, <1>5, <2>2 DEF Resume, MemoryTypes, semaphore
  <2> QED BY <2>1, <2>3, TypesSplit
<1> QED BY <1>3, <1>4, <1>5

(* A pause that takes effect at once, and one that is cancelled.           *)
LEMMA PauseNow ==
    ASSUME TypeOK, PauseWhen(TRUE, status, 0, <<>>, attempted)
    PROVE  /\ status' = "Paused" /\ pauseAborted' = TRUE
           /\ pausePending' = FALSE /\ canInitiateSteps' = TRUE
           /\ counter' = Cardinality(HeldSteps)
           /\ at' \in [Calls -> Places]
           /\ \A d \in Calls : at'[d] = IF d \in HeldSteps THEN "attempt"
                                        ELSE IF d \in In(Interruptible) THEN "paused" ELSE at[d]
           /\ StartAttempts(HeldSteps, tries, attempted)
           /\ tries' \in [Calls -> Nat] /\ attempted' \in [DoSteps -> Nat] /\ counter' \in Nat
<1>1. HeldSteps \cap In(Interruptible) = {} /\ HeldSteps \subseteq Calls
  BY DEF HeldSteps, In, Interruptible
<1>2. /\ status' = "Paused" /\ pauseAborted' = TRUE
      /\ pausePending' = FALSE /\ canInitiateSteps' = TRUE
      /\ counter' = 0 + Cardinality(HeldSteps)
      /\ Move(HeldSteps, In(Interruptible), <<>>)
      /\ StartAttempts(HeldSteps, tries, attempted)
  BY DEF PauseWhen
<1>3. /\ at' = [d \in Calls |-> at'[d]]
      /\ \A d \in Calls : at'[d] = IF d \in HeldSteps THEN "attempt"
                                   ELSE IF d \in In(Interruptible) THEN "paused" ELSE at[d]
  BY <1>1, <1>2, MoveNone
<1>4. \A d \in Calls : at'[d] \in Places
  BY <1>3 DEF TypeOK, Places, Thrown
<1>5. Cardinality(HeldSteps) \in Nat
  BY <1>1, FiniteCalls
<1>6. tries' \in [Calls -> Nat] /\ attempted' \in [DoSteps -> Nat]
  BY <1>1, <1>2, StartEffects DEF TypeOK
<1> QED BY <1>2, <1>3, <1>4, <1>5, <1>6

LEMMA PauseCancelled ==
    ASSUME TypeOK, CancelPause
    PROVE  /\ status = "WaitingForPause" /\ status' = "Running"
           /\ pausePending' = FALSE
           /\ canInitiateSteps' = (canInitiateSteps \/ pausePending)
           /\ counter' = counter + Cardinality(Held(pausePending))
           /\ at' \in [Calls -> Places]
           /\ \A d \in Calls : at'[d] = IF d \in Held(pausePending) THEN "attempt" ELSE at[d]
           /\ StartAttempts(Held(pausePending), tries, attempted)
           /\ tries' \in [Calls -> Nat] /\ attempted' \in [DoSteps -> Nat] /\ counter' \in Nat
<1> DEFINE B == Held(pausePending)
<1>1. B \subseteq Calls /\ B \cap {} = {}
  BY DEF Held, HeldSteps, In
<1>2. /\ status = "WaitingForPause" /\ status' = "Running"
      /\ pausePending' = FALSE
      /\ canInitiateSteps' = (canInitiateSteps \/ pausePending)
      /\ counter' = counter + Cardinality(B)
      /\ Move(B, {}, <<>>)
      /\ StartAttempts(B, tries, attempted)
  BY DEF CancelPause, Held
<1> HIDE DEF B
<1>3. /\ at' = [d \in Calls |-> at'[d]]
      /\ \A d \in Calls : at'[d] = IF d \in B THEN "attempt" ELSE at[d]
  BY <1>1, <1>2, MoveNone
<1>4. \A d \in Calls : at'[d] \in Places
  BY <1>3 DEF TypeOK, Places
<1>5. counter' \in Nat
  <2>1. Cardinality(B) \in Nat
    BY <1>1, FiniteCalls
  <2>2. counter \in Nat
    BY DEF TypeOK
  <2> QED BY <1>2, <2>1, <2>2
<1>6. tries' \in [Calls -> Nat] /\ attempted' \in [DoSteps -> Nat]
  BY <1>1, <1>2, StartEffects DEF TypeOK
<1> QED BY <1>2, <1>3, <1>4, <1>5, <1>6 DEF B

LEMMA PausingTypes ==
    ASSUME TypeOK, Pause \/ CancelPause
    PROVE  TypeOK'
<1>0. StorageTypes /\ MemoryTypes /\ UserTypes
  BY TypesSplit
<1>1. {"Paused", "Running", "WaitingForPause"} \subseteq Statuses
  BY DEF Statuses, PausedOrPausing
<1>2. /\ UNCHANGED <<started, value, failed, registered, stored, isRunning, eventMap, waiters,
                     program, run, stage, sent, restarting, upsets, lostAttempts>>
      /\ pauses' \in Nat
  <2>1. pauses \in Nat
    BY <1>0 DEF UserTypes
  <2>2. CASE Pause
    BY <2>1, <2>2 DEF Pause
  <2>3. CASE CancelPause
    BY <2>1, <2>3 DEF CancelPause, history
  <2> QED BY <2>2, <2>3
<1>3. /\ status' \in Statuses /\ pauseAborted' \in BOOLEAN /\ pausePending' \in BOOLEAN
      /\ canInitiateSteps' \in BOOLEAN
      /\ tries' \in [Calls -> Nat] /\ attempted' \in [DoSteps -> Nat] /\ counter' \in Nat
      /\ at' \in [Calls -> Places]
  <2>1. CASE CancelPause
    BY <1>0, <1>1, <2>1, PauseCancelled DEF CancelPause, MemoryTypes
  <2>2. CASE Pause /\ counter = 0
    <3>1. PauseWhen(TRUE, status, 0, <<>>, attempted)
      BY <2>2 DEF Pause
    <3> QED BY <1>1, <3>1, PauseNow
  <2>3. CASE Pause /\ counter # 0
    BY <1>0, <1>1, <2>3 DEF Pause, StorageTypes, MemoryTypes
  <2> QED BY <2>1, <2>2, <2>3
<1>4. StorageTypes'
  BY <1>0, <1>2, <1>3 DEF StorageTypes
<1>5. MemoryTypes'
  BY <1>0, <1>2, <1>3 DEF MemoryTypes
<1>6. UserTypes'
  BY <1>0, <1>2 DEF UserTypes
<1> QED BY <1>4, <1>5, <1>6, TypesSplit

LEMMA ReceiveTypes ==
    ASSUME TypeOK, NEW e \in Events, ReceiveEvent(e)
    PROVE  TypeOK'
<1> DEFINE mem == Append(eventMap, e)
<1>0. StorageTypes /\ MemoryTypes /\ UserTypes
  BY TypesSplit
<1>1. mem \in Seq(Events) /\ stored \in Seq(Events) /\ status \in Statuses
  BY <1>0 DEF MemoryTypes, StorageTypes
<1>2. stored' = StoredWith(mem) /\ sent' = sent \cup {e}
      /\ UNCHANGED <<started, failed, attempted, registered, semaphore,
                     pauseAborted, tries, program, restarting, pauses, upsets,
                     lostAttempts>>
  BY DEF ReceiveEvent
<1>3. \/ isRunning /\ Deliver(e, mem)
      \/ isRunning /\ waiters = <<>> /\ eventMap' = mem
            /\ UNCHANGED <<status, isRunning, run, stage, value, waiters, at>>
      \/ ~ isRunning /\ Boot(status, mem, stored') /\ UNCHANGED <<value, waiters, at>>
  BY DEF ReceiveEvent
<1> HIDE DEF mem
<1>4. stored' \in Seq(Events)
  <2>1. SubSeq(stored, Len(mem) + 1, Len(stored)) \in Seq(Events)
    BY <1>1
  <2> QED BY <1>1, <1>2, <2>1 DEF StoredWith
<1>5. /\ status' \in Statuses /\ isRunning' \in BOOLEAN
      /\ run' \in 0 .. MaxRuns /\ stage' \in Nat \ {0}
      /\ eventMap' \in Seq(Events)
      /\ value' \in [Steps -> Runs \cup Events \cup {None}]
      /\ waiters' \in Seq(Calls) /\ at' \in [Calls -> Places]
  <2>1. CASE Deliver(e, mem)
    <3>1. waiters \in Seq(Calls) /\ at \in [Calls -> Places]
          /\ value \in [Steps -> Runs \cup Events \cup {None}]
      BY <1>0 DEF MemoryTypes, StorageTypes
    <3>2. waiters # <<>> /\ waiters' = Tail(waiters) /\ eventMap' = Tail(mem)
          /\ UNCHANGED <<status, isRunning, run, stage>>
          /\ (at' = at \/ at' = [at EXCEPT ![Head(waiters)] = "done"])
          /\ (value' = value \/ value' = [value EXCEPT ![Head(waiters)[2]] = e])
      BY <2>1 DEF Deliver
    <3>3. "done" \in Places
      BY DEF Places, Settled
    <3>4. at' \in [Calls -> Places]
      BY <3>1, <3>2, <3>3
    <3>5. value' \in [Steps -> Runs \cup Events \cup {None}]
      BY <3>1, <3>2
    <3>6. waiters' \in Seq(Calls)
      BY <3>1, <3>2
    <3>7. eventMap' \in Seq(Events)
      <4>1. mem # <<>>
        <5>1. eventMap \in Seq(Events)
          BY <1>0 DEF MemoryTypes
        <5> QED BY <5>1 DEF mem
      <4> QED BY <1>1, <3>2, <4>1
    <3> QED BY <1>0, <3>2, <3>4, <3>5, <3>6, <3>7 DEF MemoryTypes, StorageTypes, UserTypes
  <2>2. CASE eventMap' = mem /\ UNCHANGED <<status, isRunning, run, stage, value, waiters, at>>
    BY <1>0, <1>1, <2>2 DEF MemoryTypes, StorageTypes, UserTypes
  <2>3. CASE Boot(status, mem, stored') /\ UNCHANGED <<value, waiters, at>>
    BY <1>0, <1>1, <1>4, <2>3, BootEffects DEF MemoryTypes, StorageTypes
  <2> QED BY <1>3, <2>1, <2>2, <2>3
<1>6. StorageTypes'
  BY <1>0, <1>2, <1>4, <1>5 DEF StorageTypes
<1>7. MemoryTypes'
  BY <1>0, <1>2, <1>5 DEF MemoryTypes, semaphore
<1>8. UserTypes'
  BY <1>0, <1>2, <1>5 DEF UserTypes
<1> QED BY <1>6, <1>7, <1>8, TypesSplit

(* Every step keeps the types; what is left is to add the kinds of calls.  *)
LEMMA TypesStep ==
    ASSUME TypeOK, KindsInv, [Next]_vars
    PROVE  TypeOK'
<1>1. CASE \E c \in Calls : Call(c) \/ Answer(c)
  BY <1>1, CallTypes, AnswerTypes
<1>2. CASE UserCode
  BY <1>2, UserCodeTypes
<1>3. CASE Client
  BY <1>3, LosingTypes, BootingTypes, PausingTypes, ReceiveTypes DEF Client
<1>4. CASE Crash
  BY <1>4, LosingTypes
<1>5. CASE UNCHANGED vars
  BY <1>5 DEF vars, storage, semaphore, history, TypeOK
<1> QED BY <1>1, <1>2, <1>3, <1>4, <1>5 DEF Next

DoPlaces == {"acquire", "attempt", "backoff", "fatal", "leaked"}
OtherPlaces == {"none", "done", "caught", "paused", "failed", "sleeping", "resleep"}

LEMMA KindsKept ==
    ASSUME TypeOK, KindsInv, TypeOK', run <= run',
           \A c \in Calls : \/ at'[c] = at[c]
                            \/ /\ at[c] # "none" \/ c[1] <= run'
                               /\ \/ at'[c] \in OtherPlaces
                                  \/ at'[c] \in DoPlaces /\ c[2] \in DoSteps
                                  \/ at'[c] = "waiting" /\ c[2] \in Waits,
           \A i \in DOMAIN waiters' : waiters'[i][2] \in Waits,
           \A s \in Steps : value'[s] \in Events => s \in Waits
    PROVE  KindsInv'
<1>1. ASSUME NEW c \in Calls
      PROVE  /\ at'[c] # "none" => c[1] <= run'
             /\ at'[c] \in DoPlaces => c[2] \in DoSteps
             /\ at'[c] = "waiting" => c[2] \in Waits
  <2>1. c[1] \in Nat /\ run \in Nat /\ run' \in Nat
    BY CallIs DEF TypeOK
  <2>2. /\ at[c] # "none" => c[1] <= run
        /\ at[c] \in DoPlaces => c[2] \in DoSteps
        /\ at[c] = "waiting" => c[2] \in Waits
    BY DEF KindsInv, In, DoPlaces
  <2>3. at[c] # "none" => c[1] <= run'
    BY <2>1, <2>2
  <2> QED BY <2>2, <2>3 DEF DoPlaces, OtherPlaces
<1> QED BY <1>1 DEF KindsInv, In, DoPlaces

LEMMA CallKinds ==
    ASSUME TypeOK, KindsInv, NEW c \in Calls, Call(c)
    PROVE  KindsInv'
<1>0. /\ TypeOK' /\ run' = run /\ c[1] = run /\ run \in Nat
      /\ \A d \in Calls : d # c => at'[d] = at[d]
      /\ at \in [Calls -> Places]
      /\ waiters \in Seq(Calls) /\ value \in [Steps -> Runs \cup Events \cup {None}]
  <2>1. TypeOK'
    BY CallTypes
  <2>2. run' = run /\ c[1] = run /\ \A d \in Calls : d # c => at'[d] = at[d]
    BY CallFrame
  <2>3. /\ run \in Nat /\ at \in [Calls -> Places]
        /\ waiters \in Seq(Calls) /\ value \in [Steps -> Runs \cup Events \cup {None}]
    BY DEF TypeOK
  <2> QED BY <2>1, <2>2, <2>3
<1>1. /\ \A i \in DOMAIN waiters : waiters[i][2] \in Waits
      /\ \A s \in Steps : value[s] \in Events => s \in Waits
  BY DEF KindsInv
<1>2. c[1] \in Nat /\ c[2] \in Steps /\ c[1] \notin Events
  BY CallIs, EngineAssumption
<1>3. ASSUME \/ at'[c] \in OtherPlaces
             \/ at'[c] \in DoPlaces /\ c[2] \in DoSteps
             \/ at'[c] = "waiting" /\ c[2] \in Waits,
             waiters' = waiters \/ (waiters' = Append(waiters, c) /\ c[2] \in Waits),
             \/ value' = value
             \/ \E v \in Runs \cup Events :
                   value' = [value EXCEPT ![c[2]] = v] /\ (v \in Events => c[2] \in Waits)
      PROVE  KindsInv'
  <2>1. \A i \in DOMAIN waiters' : waiters'[i][2] \in Waits
    BY <1>0, <1>1, <1>3
  <2>2. \A s \in Steps : value'[s] \in Events => s \in Waits
    BY <1>0, <1>1, <1>3
  <2>3. run <= run'
    BY <1>0
  <2>4. \A d \in Calls : \/ at'[d] = at[d]
                         \/ /\ at[d] # "none" \/ d[1] <= run'
                            /\ \/ at'[d] \in OtherPlaces
                               \/ at'[d] \in DoPlaces /\ d[2] \in DoSteps
                               \/ at'[d] = "waiting" /\ d[2] \in Waits
    BY <1>0, <1>3, <2>3
  <2> QED BY <1>0, <2>1, <2>2, <2>3, <2>4, KindsKept
<1>4. CASE Replay(c)
  BY <1>0, <1>3, <1>4 DEF Replay, OtherPlaces
<1>5. CASE Do(c)
  <2>1. at'[c] \in {"acquire", "attempt"}
    BY <1>0, <1>5, DoIs DEF Attempts, Queues
  <2> QED BY <1>3, <1>5, <2>1, DoIs DEF DoPlaces
<1>6. CASE ReSleep(c)
  BY <1>0, <1>3, <1>6 DEF ReSleep, OtherPlaces
<1>7. CASE Sleep(c)
  <2>1. at'[c] \in OtherPlaces
    BY <1>0, <1>7 DEF Sleep, OtherPlaces
  <2>2. c[1] \in Runs
    BY CallIs
  <2> QED BY <1>2, <1>3, <1>7, <2>1, <2>2 DEF Sleep
<1>8. CASE WaitForEvent(c)
  <2>1. c[2] \in Waits
    BY <1>8 DEF WaitForEvent
  <2>2. CASE WaitFindsTimeout(c)
    BY <1>0, <1>3, <2>2 DEF WaitFindsTimeout, OtherPlaces
  <2>3. CASE WaitTakesEvent(c)
    <3>1. Head(eventMap) \in Events
      BY <2>3 DEF WaitTakesEvent, TypeOK
    <3> QED BY <1>0, <1>3, <2>1, <2>3, <3>1 DEF WaitTakesEvent, OtherPlaces
  <2>4. CASE WaitBegins(c)
    BY <1>0, <1>3, <2>1, <2>4 DEF WaitBegins, OtherPlaces
  <2> QED BY <1>8, <2>2, <2>3, <2>4 DEF WaitForEvent
<1> QED BY <1>4, <1>5, <1>6, <1>7, <1>8 DEF Call

LEMMA AnswerKinds ==
    ASSUME TypeOK, KindsInv, NEW c \in Calls, Answer(c)
    PROVE  KindsInv'
<1>0. /\ TypeOK' /\ run' = run /\ run <= run' /\ at \in [Calls -> Places]
      /\ waiters \in Seq(Calls)
      /\ value \in [Steps -> Runs \cup Events \cup {None}]
      /\ attempted \in [DoSteps -> Nat] /\ tries \in [Calls -> Nat]
      /\ \A d \in Calls : at[d] \in {"acquire", "attempt", "backoff"} => d[2] \in DoSteps
      /\ status \in Statuses
  BY AnswerTypes, AnswerFrame DEF TypeOK, KindsInv, In
<1>1. /\ \A i \in DOMAIN waiters : waiters[i][2] \in Waits
      /\ \A s \in Steps : value[s] \in Events => s \in Waits
  BY DEF KindsInv
<1>2. c[1] \in Runs /\ c[1] \notin Events /\ c[2] \in Steps
  BY CallIs, EngineAssumption
<1>3. CASE StepSucceeds(c)
  <2>1. PICK st \in {status, "Paused"}, place \in {"done", "paused"} :
             /\ at[c] = "attempt"
             /\ Release(st, To(c, place), attempted)
             /\ value' = [value EXCEPT ![c[2]] = c[1]]
             /\ UNCHANGED waiters
    BY <1>3, StepSucceedsIs
  <2>2. st \in Statuses /\ place \in Places
    BY <1>0 DEF Statuses, PausedOrPausing, Places, Settled, Thrown
  <2>3. \A d \in Calls :
                at'[d] = IF d = c THEN place
                         ELSE IF d \in Held(PauseGoesThrough) THEN "attempt"
                         ELSE IF d \in Woken(PauseGoesThrough) THEN "paused" ELSE at[d]
    BY <1>0, <2>1, <2>2, ReleaseEffects
  <2>4. \A d \in Held(PauseGoesThrough) \cup Woken(PauseGoesThrough) :
           at[d] # "none" /\ (d \in Held(PauseGoesThrough) => d[2] \in DoSteps)
    BY <1>0 DEF Held, Woken, HeldSteps, In, Interruptible
  <2>5. \A s \in Steps : value'[s] \in Events => s \in Waits
    BY <1>0, <1>1, <1>2, <2>1
  <2> QED BY <1>0, <1>1, <2>1, <2>3, <2>4, <2>5, KindsKept DEF OtherPlaces, DoPlaces
<1>4. CASE StepFails(c)
  <2> DEFINE persisted == [attempted EXCEPT ![c[2]] = tries[c]]
  <2>1. PICK place \in {"failed", "paused", "backoff"} :
             /\ at[c] = "attempt"
             /\ Release(status, To(c, place), persisted)
             /\ UNCHANGED <<value, waiters>>
    BY <1>4, StepFailsIs
  <2>2. place \in Places /\ persisted \in [DoSteps -> Nat]
    BY <1>0 DEF Places, Interruptible, Thrown
  <2> HIDE DEF persisted
  <2>3. \A d \in Calls :
                at'[d] = IF d = c THEN place
                         ELSE IF d \in Held(PauseGoesThrough) THEN "attempt"
                         ELSE IF d \in Woken(PauseGoesThrough) THEN "paused" ELSE at[d]
    BY <1>0, <2>1, <2>2, ReleaseEffects
  <2>4. \A d \in Held(PauseGoesThrough) \cup Woken(PauseGoesThrough) :
           at[d] # "none" /\ (d \in Held(PauseGoesThrough) => d[2] \in DoSteps)
    BY <1>0 DEF Held, Woken, HeldSteps, In, Interruptible
  <2> QED BY <1>0, <1>1, <2>1, <2>3, <2>4, KindsKept DEF OtherPlaces, DoPlaces
<1>5. ASSUME at[c] # "none", value' = value,
             \E place \in OtherPlaces \cup DoPlaces :
                /\ at' = [at EXCEPT ![c] = place]
                /\ place \in DoPlaces => c[2] \in DoSteps,
             \A i \in DOMAIN waiters' : waiters'[i][2] \in Waits
      PROVE  KindsInv'
  BY <1>0, <1>1, <1>5, KindsKept
<1>6. CASE StepFailsForGood(c)
  BY <1>0, <1>1, <1>5, <1>6 DEF StepFailsForGood, DoPlaces
<1>7. CASE BackoffEnds(c)
  <2>1. at[c] = "backoff" /\ UNCHANGED <<value, waiters>>
        /\ \E place \in {"paused", "attempt", "acquire"} : at' = [at EXCEPT ![c] = place]
    BY <1>7 DEF BackoffEnds
  <2> QED BY <1>0, <1>1, <1>5, <2>1 DEF OtherPlaces, DoPlaces
<1>8. CASE SleepEnds(c)
  <2>1. at[c] \in {"sleeping", "resleep"} /\ UNCHANGED <<value, waiters>>
        /\ \E place \in {"paused", "done"} : at' = [at EXCEPT ![c] = place]
    BY <1>8 DEF SleepEnds
  <2> QED BY <1>0, <1>1, <1>5, <2>1 DEF OtherPlaces, DoPlaces
<1>9. CASE WaitTimesOut(c)
  <2>1. at[c] = "waiting" /\ UNCHANGED value /\ at' = [at EXCEPT ![c] = "failed"]
    BY <1>9 DEF WaitTimesOut
  <2>2. \A i \in DOMAIN waiters' : \E j \in DOMAIN waiters : waiters'[i] = waiters[j]
    <3>1. CASE waiters' = waiters
      BY <3>1
    <3>2. ASSUME NEW k \in DOMAIN waiters, waiters' = RemoveAt(waiters, k)
          PROVE  \A i \in DOMAIN waiters' : \E j \in DOMAIN waiters : waiters'[i] = waiters[j]
      <4>1. DOMAIN waiters = 1 .. Len(waiters) /\ Len(waiters) \in Nat
        BY <1>0
      <4>2. /\ DOMAIN waiters' = 1 .. (Len(waiters) - 1)
            /\ \A j \in DOMAIN waiters' :
                  waiters'[j] = IF j < k THEN waiters[j] ELSE waiters[j + 1]
        BY <1>0, <3>2, RemoveAtIs
      <4> QED BY <4>1, <4>2
    <3> QED BY <1>0, <1>9, <3>1, <3>2, WaiterRemoved
  <2>3. \A i \in DOMAIN waiters' : waiters'[i][2] \in Waits
    BY <1>1, <2>2
  <2> QED BY <1>5, <2>1, <2>3 DEF OtherPlaces, DoPlaces
<1> QED BY <1>3, <1>4, <1>6, <1>7, <1>8, <1>9 DEF Answer

LEMMA ForgetKinds ==
    ASSUME TypeOK, KindsInv, TypeOK', Forget, value' = value
    PROVE  KindsInv'
<1>1. \A c \in Calls : at'[c] = "none"
  BY DEF Forget
<1>2. waiters' = <<>>
  BY DEF Forget
<1> QED BY <1>1, <1>2 DEF KindsInv, In

LEMMA DeliverIs ==
    ASSUME waiters \in Seq(Calls), NEW e \in Events, NEW mem, Deliver(e, mem)
    PROVE  /\ waiters # <<>> /\ 1 \in DOMAIN waiters /\ waiters[1] \in Calls
           /\ waiters' = Tail(waiters) /\ eventMap' = Tail(mem)
           /\ UNCHANGED <<status, isRunning, run, stage>>
           /\ \/ /\ at[waiters[1]] = "waiting"
                 /\ at' = [at EXCEPT ![waiters[1]] = "done"]
                 /\ value' = [value EXCEPT ![waiters[1][2]] = e]
              \/ /\ at[waiters[1]] # "waiting"
                 /\ at' = at /\ value' = value
<1> DEFINE first == Head(waiters)
<1>1. waiters # <<>>
  BY DEF Deliver
<1>2. first = waiters[1] /\ 1 \in DOMAIN waiters /\ waiters[1] \in Calls
  BY <1>1
<1>3. CASE at[first] = "waiting"
  BY <1>1, <1>2, <1>3 DEF Deliver
<1>4. CASE at[first] # "waiting"
  BY <1>1, <1>2, <1>4 DEF Deliver
<1> QED BY <1>3, <1>4

LEMMA OtherKinds ==
    ASSUME TypeOK, KindsInv, UserCode \/ Client \/ Crash
    PROVE  KindsInv'
<1>0. TypeOK'
  BY TypesStep DEF Next
<1>1. /\ run \in Nat /\ at \in [Calls -> Places] /\ waiters \in Seq(Calls)
      /\ value \in [Steps -> Runs \cup Events \cup {None}]
      /\ stored \in Seq(Events) /\ eventMap \in Seq(Events) /\ <<>> \in Seq(Events)
      /\ status \in Statuses /\ "Queued" \in Statuses
  BY DEF TypeOK, Statuses
<1>2. /\ \A i \in DOMAIN waiters : waiters[i][2] \in Waits
      /\ \A s \in Steps : value[s] \in Events => s \in Waits
      /\ run <= run
  BY <1>1 DEF KindsInv
<1>3. ASSUME UNCHANGED <<run, at, waiters, value>>
      PROVE  KindsInv'
  BY <1>3 DEF KindsInv, In
<1>4. CASE Crash \/ Terminate \/ RestartAborts \/ \E c \in Calls : RunFailsForGood(c)
  <2>1. Forget /\ value' = value
    BY <1>4 DEF Crash, Terminate, RestartAborts, RunFailsForGood, KeepsStorage
  <2> QED BY <1>0, <2>1, ForgetKinds
<1>5. CASE NextStage \/ RunReturns \/ \E c \in Calls : RunPauses(c) \/ RunFails(c)
  BY <1>3, <1>5 DEF NextStage, RunReturns, RunPauses, RunFails, UnchangedByUser
<1>6. ASSUME NEW c \in Calls, Catch(c)
      PROVE  KindsInv'
  <2>1. UNCHANGED <<run, waiters, value>>
    BY <1>6 DEF Catch, UnchangedByUser
  <2>2. /\ at[c] \in {"failed", "fatal"}
        /\ at' = [at EXCEPT ![c] = IF at[c] = "fatal" THEN "leaked" ELSE "caught"]
    BY <1>6 DEF Catch
  <2>3. at[c] = "fatal" => c[2] \in DoSteps
    BY DEF KindsInv, In
  <2>4. ASSUME NEW d \in Calls
        PROVE  /\ at'[d] # "none" => at[d] # "none"
               /\ at'[d] \in DoPlaces => at[d] \in DoPlaces
               /\ at'[d] = "waiting" => at[d] = "waiting"
    BY <1>1, <2>2 DEF DoPlaces
  <2> QED BY <1>2, <2>1, <2>4 DEF KindsInv, In, DoPlaces
<1>7. ASSUME UNCHANGED at, UNCHANGED waiters \/ waiters' = <<>>, run <= run',
             \A s \in Steps : value'[s] \in Events => value'[s] = value[s]
      PROVE  KindsInv'
  <2>1. \A i \in DOMAIN waiters' : waiters'[i][2] \in Waits
    BY <1>2, <1>7
  <2>2. \A s \in Steps : value'[s] \in Events => s \in Waits
    BY <1>2, <1>7
  <2> QED BY <1>0, <1>7, <2>1, <2>2, KindsKept
<1>8. ASSUME NEW st \in Statuses, NEW kept \in Seq(Events), NEW disk \in Seq(Events),
             Boot(st, kept, disk)
      PROVE  run <= run'
  BY <1>1, <1>8, BootEffects
<1>9. CASE Create \/ Resume
  <2>1. run <= run'
    BY <1>1, <1>8, <1>9 DEF Create, Resume
  <2> QED BY <1>7, <1>9, <2>1 DEF Create, Resume
<1>10. CASE AttemptRestart
  <2>1. run <= run'
    BY <1>1, <1>8, <1>10 DEF AttemptRestart
  <2>2. \A s \in Steps : value'[s] = None
    BY <1>10 DEF AttemptRestart
  <2> QED BY <1>7, <1>10, <2>1, <2>2, EngineAssumption DEF AttemptRestart
<1>11. \A d \in HeldSteps : at[d] # "none" /\ d[2] \in DoSteps
  BY DEF KindsInv, HeldSteps, In
<1>12. CASE Pause /\ counter = 0
  <2>1. PauseWhen(TRUE, status, 0, <<>>, attempted) /\ UNCHANGED <<run, waiters, value>>
    BY <1>12 DEF Pause
  <2>2. \A d \in Calls : at'[d] = IF d \in HeldSteps THEN "attempt"
                                  ELSE IF d \in In(Interruptible) THEN "paused" ELSE at[d]
    BY <2>1, PauseNow
  <2>3. \A d \in In(Interruptible) : at[d] # "none"
    BY DEF In, Interruptible
  <2> QED BY <1>0, <1>2, <1>11, <2>1, <2>2, <2>3, KindsKept DEF OtherPlaces, DoPlaces
<1>13. CASE Pause /\ counter # 0
  BY <1>3, <1>13 DEF Pause
<1>14. CASE CancelPause
  <2>1. UNCHANGED <<run, waiters, value>>
    BY <1>14 DEF CancelPause
  <2>2. \A d \in Calls : at'[d] = IF d \in Held(pausePending) THEN "attempt" ELSE at[d]
    BY <1>14, PauseCancelled
  <2>3. Held(pausePending) \subseteq HeldSteps
    BY DEF Held
  <2> QED BY <1>0, <1>2, <1>11, <2>1, <2>2, <2>3, KindsKept DEF DoPlaces
<1>15. ASSUME NEW e \in Events, ReceiveEvent(e)
       PROVE  KindsInv'
  <2> DEFINE mem == Append(eventMap, e)
  <2>1. \/ Deliver(e, mem)
        \/ UNCHANGED <<run, value, waiters, at>>
        \/ Boot(status, mem, stored') /\ UNCHANGED <<value, waiters, at>>
    BY <1>15 DEF ReceiveEvent
  <2>2. CASE Deliver(e, mem)
    <3> HIDE DEF mem
    <3> DEFINE first == waiters[1]
    <3>1. waiters # <<>> /\ waiters' = Tail(waiters) /\ run' = run
          /\ \/ at' = at
             \/ at' = [at EXCEPT ![first] = "done"] /\ at[first] = "waiting"
          /\ (value' = value \/ value' = [value EXCEPT ![first[2]] = e])
          /\ 1 \in DOMAIN waiters /\ first \in Calls
      BY <1>1, <2>2, DeliverIs
    <3>3. first[2] \in Waits /\ first[2] \in Steps
      BY <1>2, <3>1, CallIs
    <3> HIDE DEF first
    <3>4. \A i \in DOMAIN waiters' : waiters'[i][2] \in Waits
      BY <1>1, <1>2, <3>1
    <3>5. \A s \in Steps : value'[s] \in Events => s \in Waits
      BY <1>1, <1>2, <3>1, <3>3
    <3>6. \A d \in Calls : at'[d] = at[d] \/ (at[d] # "none" /\ at'[d] = "done")
      BY <1>1, <3>1
    <3> QED BY <1>0, <1>2, <3>1, <3>4, <3>5, <3>6, KindsKept DEF OtherPlaces
  <2>3. CASE UNCHANGED <<run, value, waiters, at>>
    BY <1>3, <2>3
  <2>4. CASE Boot(status, mem, stored') /\ UNCHANGED <<value, waiters, at>>
    <3>1. mem \in Seq(Events)
      BY <1>1
    <3>2. stored' \in Seq(Events)
      BY <1>0 DEF TypeOK
    <3> HIDE DEF mem
    <3>3. run <= run'
      BY <1>1, <1>8, <2>4, <3>1, <3>2
    <3> QED BY <1>7, <2>4, <3>3
  <2> QED BY <2>1, <2>2, <2>3, <2>4
<1> QED BY <1>4, <1>5, <1>6, <1>9, <1>10, <1>12, <1>13, <1>14, <1>15 DEF UserCode, Client

LEMMA KindsStep ==
    ASSUME TypeOK, KindsInv, [Next]_vars
    PROVE  TypeOK' /\ KindsInv'
<1>1. KindsInv' \/ \E c \in Calls : Call(c) \/ Answer(c)
  <2>1. CASE UNCHANGED vars
    BY <2>1 DEF vars, storage, KindsInv, In
  <2> QED BY <2>1, OtherKinds DEF Next
<1> QED BY <1>1, TypesStep, CallKinds, AnswerKinds

-----------------------------------------------------------------------------
(* The semaphore.                                                          *)
Holding == In({"attempt", "fatal", "leaked"})

SemaphoreInv ==
    /\ counter = Cardinality(Holding)
    /\ canInitiateSteps # pausePending
    /\ pausePending => counter > 0
    /\ HeldSteps # {} => pausePending
    /\ status = "WaitingForPause" /\ isRunning => pausePending

LEMMA SemaphoreIs == /\ SemaphoreAgrees <=> TypeOK /\ SemaphoreInv
                     /\ SemaphoreAgrees' <=> TypeOK' /\ SemaphoreInv'
BY DEF SemaphoreAgrees, SemaphoreInv, Holding, HeldSteps

(* Steps that are let through count, one that releases no longer does.     *)
LEMMA HoldingGrows ==
    ASSUME counter = Cardinality(Holding), NEW B, B \subseteq Calls, B \cap Holding = {},
           Holding' = Holding \cup B
    PROVE  Cardinality(Holding') = counter + Cardinality(B)
<1>1. Holding \subseteq Calls
  BY DEF Holding, In
<1>2. /\ IsFiniteSet(B) /\ IsFiniteSet(Holding)
      /\ Cardinality(B) \in Nat /\ Cardinality(Holding) \in Nat
  BY <1>1, FiniteCalls
<1>3. Cardinality(Holding \cup B)
        = Cardinality(Holding) + Cardinality(B) - Cardinality(Holding \cap B)
  BY <1>2, FS_Union
<1>4. Holding \cap B = {}
  OBVIOUS
<1>5. Cardinality(Holding \cap B) = 0
  BY <1>4, FS_EmptySet
<1> QED BY <1>2, <1>3, <1>5

LEMMA HoldingReleases ==
    ASSUME counter = Cardinality(Holding), NEW c \in Holding,
           NEW B, B \subseteq Calls, B \cap Holding = {},
           Holding' = (Holding \ {c}) \cup B
    PROVE  /\ counter > 0 /\ AfterRelease = counter - 1
           /\ Cardinality(Holding') = AfterRelease + Cardinality(B)
<1>1. Holding \subseteq Calls /\ Holding \ {c} \subseteq Calls
  BY DEF Holding, In
<1>2. /\ IsFiniteSet(B) /\ IsFiniteSet(Holding) /\ IsFiniteSet(Holding \ {c})
      /\ Cardinality(B) \in Nat /\ Cardinality(Holding) \in Nat
      /\ Cardinality(Holding \ {c}) \in Nat
  BY <1>1, FiniteCalls
<1>3. Cardinality(Holding \ {c}) = Cardinality(Holding) - 1
  BY <1>2, FS_RemoveElement
<1>4. Cardinality((Holding \ {c}) \cup B)
        = Cardinality(Holding \ {c}) + Cardinality(B) - Cardinality((Holding \ {c}) \cap B)
  BY <1>2, FS_Union
<1>5. (Holding \ {c}) \cap B = {}
  OBVIOUS
<1>6. Cardinality((Holding \ {c}) \cap B) = 0
  BY <1>5, FS_EmptySet
<1>7. counter > 0 /\ AfterRelease = counter - 1
  BY <1>2, <1>3 DEF AfterRelease
<1> QED BY <1>2, <1>3, <1>4, <1>6, <1>7

(* A step that moves no call into or out of the places that count.         *)
LEMMA SemaphoreKept ==
    ASSUME SemaphoreInv, UNCHANGED semaphore,
           \A d \in Calls : /\ d \in Holding' <=> d \in Holding
                            /\ at'[d] = "acquire" => at[d] = "acquire",
           status' = "WaitingForPause" /\ isRunning' =>
               status = "WaitingForPause" /\ isRunning
    PROVE  SemaphoreInv'
<1>1. Holding' = Holding
  BY DEF Holding, In
<1>2. HeldSteps' # {} => HeldSteps # {}
  BY DEF HeldSteps, In
<1> QED BY <1>1, <1>2 DEF SemaphoreInv, semaphore

LEMMA SemaphoreBegins ==
    ASSUME TypeOK, SemaphoreInv, NEW c \in Calls, c \notin Holding, NEW mine,
           Attempts(c, mine) \/ Queues(c, mine),
           UNCHANGED <<canInitiateSteps, pausePending, status, isRunning>>
    PROVE  SemaphoreInv'
<1>0. at \in [Calls -> Places] /\ counter \in Nat
  BY DEF TypeOK
<1>1. CASE Attempts(c, mine)
  <2>1. Holding' = Holding \cup {c}
    BY <1>0, <1>1 DEF Attempts, Holding, In
  <2>2. Cardinality({c}) = 1
    BY FS_Singleton
  <2>3. counter' = Cardinality(Holding')
    BY <1>1, <2>1, <2>2, HoldingGrows DEF Attempts, SemaphoreInv
  <2>4. ~ pausePending
    BY <1>1 DEF Attempts, SemaphoreInv, TypeOK
  <2>5. HeldSteps' = {}
    BY <1>0, <1>1, <2>4 DEF Attempts, SemaphoreInv, HeldSteps, In
  <2> QED BY <2>3, <2>4, <2>5 DEF SemaphoreInv
<1>2. CASE Queues(c, mine)
  <2>1. Holding' = Holding
    BY <1>0, <1>2 DEF Queues, Holding, In
  <2>2. pausePending
    BY <1>2 DEF Queues, SemaphoreInv, TypeOK
  <2> QED BY <1>2, <2>1, <2>2 DEF Queues, SemaphoreInv
<1> QED BY <1>1, <1>2

LEMMA SemaphoreReleases ==
    ASSUME TypeOK, SemaphoreInv, NEW c \in Calls, at[c] = "attempt",
           NEW st \in Statuses, NEW place \in Places \ {"attempt", "fatal", "leaked", "acquire"},
           NEW persisted \in [DoSteps -> Nat],
           Release(st, To(c, place), persisted), UNCHANGED isRunning,
           st \in {status, "Paused"}
    PROVE  SemaphoreInv'
<1> DEFINE B == Held(PauseGoesThrough)
<1>1. B \subseteq Calls /\ B \cap Holding = {} /\ c \in Holding
  BY DEF Held, HeldSteps, Holding, In
<1>2. \A d \in Calls :
         /\ d \in B => d \in HeldSteps
         /\ d \in Woken(PauseGoesThrough) => d \notin Holding
         /\ d \in Woken(PauseGoesThrough) => d \notin HeldSteps
  BY DEF Held, Woken, In, Interruptible, Holding, HeldSteps
<1> HIDE DEF B
<1>3. /\ status' = IF PauseGoesThrough THEN "Paused" ELSE st
      /\ pausePending' = (pausePending /\ ~ PauseGoesThrough)
      /\ canInitiateSteps' = (canInitiateSteps \/ PauseGoesThrough)
      /\ counter' = AfterRelease + Cardinality(B)
      /\ at' \in [Calls -> Places]
      /\ \A d \in Calls :
                at'[d] = IF d = c THEN place
                         ELSE IF d \in B THEN "attempt"
                         ELSE IF d \in Woken(PauseGoesThrough) THEN "paused" ELSE at[d]
  BY ReleaseEffects DEF B
<1>4. Holding' = (Holding \ {c}) \cup B
  BY <1>1, <1>2, <1>3 DEF Holding, In
<1>5. counter > 0 /\ AfterRelease = counter - 1 /\ counter' = Cardinality(Holding')
  BY <1>1, <1>3, <1>4, HoldingReleases DEF SemaphoreInv
<1>6. Cardinality(B) \in Nat /\ counter \in Nat
  BY <1>1, FiniteCalls DEF TypeOK
<1>7. canInitiateSteps' # pausePending'
  BY <1>3 DEF SemaphoreInv, TypeOK, PauseGoesThrough
<1>8. pausePending' => counter' > 0
  <2>1. pausePending' => AfterRelease # 0
    BY <1>3 DEF PauseGoesThrough
  <2>2. AfterRelease # 0 => AfterRelease + Cardinality(B) > 0
    BY <1>5, <1>6
  <2> QED BY <1>3, <2>1, <2>2
<1>9. HeldSteps' # {} => pausePending'
  <2>1. HeldSteps' \subseteq HeldSteps \ B
    BY <1>1, <1>2, <1>3 DEF HeldSteps, In
  <2>2. PauseGoesThrough => HeldSteps' = {}
    BY <2>1 DEF B, Held
  <2> QED BY <1>3, <2>1, <2>2 DEF SemaphoreInv
<1>10. status' = "WaitingForPause" /\ isRunning' => pausePending'
  BY <1>3 DEF SemaphoreInv
<1> QED BY <1>5, <1>7, <1>8, <1>9, <1>10 DEF SemaphoreInv

LEMMA SemaphoreJoins ==
    ASSUME TypeOK, SemaphoreInv, TypeOK', NEW B \in {{}, HeldSteps}, NEW W \in {{}, In(Interruptible)},
           \A d \in Calls : at'[d] = IF d \in B THEN "attempt"
                                     ELSE IF d \in W THEN "paused" ELSE at[d],
           counter' = counter + Cardinality(B),
           canInitiateSteps' # pausePending',
           ~ pausePending', B = {} => HeldSteps = {},
           status' # "WaitingForPause"
    PROVE  SemaphoreInv'
<1>1. B \subseteq Calls /\ B \cap Holding = {}
  BY DEF Holding, HeldSteps, In
<1>2. B \subseteq HeldSteps /\ HeldSteps \subseteq B
  OBVIOUS
<1>3. \A d \in Calls : d \in W => d \notin Holding /\ d \notin HeldSteps
  BY DEF Holding, HeldSteps, In, Interruptible
<1>4. Holding' = Holding \cup B
  BY <1>1, <1>3 DEF Holding, In
<1>5. counter' = Cardinality(Holding')
  BY <1>1, <1>4, HoldingGrows DEF SemaphoreInv
<1>6. HeldSteps' = {}
  BY <1>2, <1>3 DEF HeldSteps, In
<1> QED BY <1>5, <1>6 DEF SemaphoreInv

LEMMA SemaphoreForgets ==
    ASSUME Forget
    PROVE  SemaphoreInv'
<1>1. Holding' = {} /\ HeldSteps' = {}
  BY DEF Forget, Holding, HeldSteps, In
<1>2. Cardinality(Holding') = 0
  BY <1>1, FS_EmptySet
<1>3. counter' = 0 /\ canInitiateSteps' = TRUE /\ pausePending' = FALSE /\ isRunning' = FALSE
  BY DEF Forget
<1> QED BY <1>1, <1>2, <1>3 DEF SemaphoreInv

LEMMA SemaphoreStep ==
    ASSUME TypeOK, KindsInv, SemaphoreInv, [Next]_vars
    PROVE  SemaphoreInv'
<1>0. /\ TypeOK' /\ at \in [Calls -> Places] /\ status \in Statuses
      /\ isRunning \in BOOLEAN /\ pausePending \in BOOLEAN /\ canInitiateSteps \in BOOLEAN
      /\ waiters \in Seq(Calls) /\ attempted \in [DoSteps -> Nat] /\ tries \in [Calls -> Nat]
      /\ stored \in Seq(Events) /\ eventMap \in Seq(Events) /\ <<>> \in Seq(Events)
      /\ "Queued" \in Statuses
  <2>1. TypeOK'
    BY TypesStep
  <2>2. "Queued" \in Statuses /\ <<>> \in Seq(Events)
    BY DEF Statuses
  <2> QED BY <2>1, <2>2 DEF TypeOK
<1>1. ASSUME NEW c \in Calls, Call(c)
      PROVE  SemaphoreInv'
  <2>1. /\ UNCHANGED <<canInitiateSteps, pausePending, status, isRunning>>
        /\ at[c] = "none"
        /\ \A d \in Calls : d # c => at'[d] = at[d]
    BY <1>1, CallFrame
  <2>2. c \notin Holding
    BY <2>1 DEF Holding, In
  <2>3. CASE Do(c)
    BY <2>1, <2>2, <2>3, DoIs, SemaphoreBegins
  <2>4. ASSUME UNCHANGED semaphore, at'[c] \notin {"attempt", "fatal", "leaked", "acquire"}
        PROVE  SemaphoreInv'
    <3>1. \A d \in Calls : /\ d \in Holding' <=> d \in Holding
                           /\ at'[d] = "acquire" => at[d] = "acquire"
      BY <2>1, <2>2, <2>4 DEF Holding, In
    <3> QED BY <2>1, <2>4, <3>1, SemaphoreKept
  <2>5. CASE Replay(c)
    BY <1>0, <2>4, <2>5 DEF Replay
  <2>6. CASE ReSleep(c)
    BY <1>0, <2>4, <2>6 DEF ReSleep
  <2>7. CASE Sleep(c)
    BY <1>0, <2>4, <2>7 DEF Sleep
  <2>8. CASE WaitForEvent(c)
    <3>1. UNCHANGED semaphore
      BY <2>8 DEF WaitForEvent
    <3>2. at'[c] \in {"failed", "paused", "done", "waiting"}
      BY <1>0, <2>8 DEF WaitForEvent, WaitFindsTimeout, WaitTakesEvent, WaitBegins
    <3> QED BY <2>4, <3>1, <3>2
  <2> QED BY <1>1, <2>3, <2>5, <2>6, <2>7, <2>8 DEF Call
<1>2. ASSUME NEW c \in Calls, Answer(c)
      PROVE  SemaphoreInv'
  <2>0. UNCHANGED isRunning
    BY <1>2, AnswerFrame
  <2>1. CASE StepSucceeds(c)
    <3>1. PICK st \in {status, "Paused"}, place \in {"done", "paused"} :
             /\ at[c] = "attempt"
             /\ Release(st, To(c, place), attempted)
      BY <2>1, StepSucceedsIs
    <3>2. st \in Statuses /\ place \in Places \ {"attempt", "fatal", "leaked", "acquire"}
      BY <1>0 DEF Statuses, PausedOrPausing, Places, Settled, Thrown
    <3> QED BY <1>0, <2>0, <3>1, <3>2, SemaphoreReleases
  <2>2. CASE StepFails(c)
    <3> DEFINE persisted == [attempted EXCEPT ![c[2]] = tries[c]]
    <3>1. PICK place \in {"failed", "paused", "backoff"} :
             /\ at[c] = "attempt"
             /\ Release(status, To(c, place), persisted)
      BY <2>2, StepFailsIs
    <3>2. /\ place \in Places \ {"attempt", "fatal", "leaked", "acquire"}
          /\ persisted \in [DoSteps -> Nat]
      BY <1>0 DEF Places, Thrown, Interruptible
    <3> HIDE DEF persisted
    <3> QED BY <1>0, <2>0, <3>1, <3>2, SemaphoreReleases
  <2>3. CASE BackoffEnds(c)
    <3>1. /\ at[c] = "backoff"
          /\ UNCHANGED <<canInitiateSteps, pausePending, status>>
          /\ \/ at' = [at EXCEPT ![c] = "paused"] /\ UNCHANGED counter
             \/ Attempts(c, [tries EXCEPT ![c] = attempted[c[2]]])
             \/ Queues(c, [tries EXCEPT ![c] = attempted[c[2]]])
      BY <2>3 DEF BackoffEnds, Attempts, Queues
    <3>2. c \notin Holding
      BY <3>1 DEF Holding, In
    <3>3. CASE at' = [at EXCEPT ![c] = "paused"] /\ UNCHANGED counter
      <4>1. \A d \in Calls : /\ d \in Holding' <=> d \in Holding
                             /\ at'[d] = "acquire" => at[d] = "acquire"
        BY <1>0, <3>2, <3>3 DEF Holding, In
      <4> QED BY <2>0, <3>1, <3>3, <4>1, SemaphoreKept DEF semaphore
    <3> QED BY <2>0, <3>1, <3>2, <3>3, SemaphoreBegins
  <2>4. CASE StepFailsForGood(c) \/ SleepEnds(c) \/ WaitTimesOut(c)
    <3>1. UNCHANGED <<semaphore, status>>
      BY <2>4 DEF StepFailsForGood, SleepEnds, WaitTimesOut
    <3>2. \/ at[c] = "attempt" /\ at' = [at EXCEPT ![c] = "fatal"]
          \/ at[c] \in {"sleeping", "resleep", "waiting"}
             /\ \E place \in {"paused", "done", "failed"} : at' = [at EXCEPT ![c] = place]
      BY <2>4 DEF StepFailsForGood, SleepEnds, WaitTimesOut
    <3>3. \A d \in Calls : /\ d \in Holding' <=> d \in Holding
                           /\ at'[d] = "acquire" => at[d] = "acquire"
      BY <1>0, <3>2 DEF Holding, In
    <3> QED BY <2>0, <3>1, <3>3, SemaphoreKept
  <2> QED BY <1>2, <2>1, <2>2, <2>3, <2>4 DEF Answer
<1>3. CASE Crash \/ Terminate \/ RestartAborts \/ \E c \in Calls : RunFailsForGood(c)
  BY <1>3, SemaphoreForgets DEF Crash, Terminate, RestartAborts, RunFailsForGood
<1>4. ASSUME UNCHANGED at, UNCHANGED semaphore,
             status' = "WaitingForPause" /\ isRunning' =>
               status = "WaitingForPause" /\ isRunning
      PROVE  SemaphoreInv'
  BY <1>4, SemaphoreKept DEF Holding, In
<1>5. CASE NextStage \/ RunReturns \/ \E c \in Calls : RunPauses(c) \/ RunFails(c)
  BY <1>4, <1>5 DEF NextStage, RunReturns, RunPauses, RunFails, UnchangedByUser
<1>6. ASSUME NEW c \in Calls, Catch(c)
      PROVE  SemaphoreInv'
  <2>1. UNCHANGED <<semaphore, status, isRunning>>
    BY <1>6 DEF Catch, UnchangedByUser
  <2>2. \/ at[c] = "fatal" /\ at' = [at EXCEPT ![c] = "leaked"]
        \/ at[c] = "failed" /\ at' = [at EXCEPT ![c] = "caught"]
    BY <1>6 DEF Catch
  <2>3. \A d \in Calls : /\ d \in Holding' <=> d \in Holding
                         /\ at'[d] = "acquire" => at[d] = "acquire"
    BY <1>0, <2>2 DEF Holding, In
  <2> QED BY <2>1, <2>3, SemaphoreKept
<1>7. ASSUME NEW st \in Statuses, NEW kept \in Seq(Events), NEW disk \in Seq(Events),
             Boot(st, kept, disk), st = status \/ st = "Queued"
      PROVE  status' = "WaitingForPause" /\ isRunning' =>
               status = "WaitingForPause" /\ isRunning
  BY <1>0, <1>7, BootEffects
<1>8. CASE Create \/ AttemptRestart \/ Resume
  <2>1. UNCHANGED <<at, semaphore>>
    BY <1>8 DEF Create, AttemptRestart, Resume
  <2>2. status' = "WaitingForPause" /\ isRunning' =>
               status = "WaitingForPause" /\ isRunning
    BY <1>0, <1>7, <1>8 DEF Create, AttemptRestart, Resume
  <2> QED BY <1>4, <2>1, <2>2
<1>9. CASE Pause /\ counter = 0
  <2>1. PauseWhen(TRUE, status, 0, <<>>, attempted)
    BY <1>9 DEF Pause
  <2>2. /\ \A d \in Calls : at'[d] = IF d \in HeldSteps THEN "attempt"
                                     ELSE IF d \in In(Interruptible) THEN "paused" ELSE at[d]
        /\ counter' = Cardinality(HeldSteps) /\ counter' \in Nat
        /\ canInitiateSteps' = TRUE /\ pausePending' = FALSE /\ status' = "Paused"
    BY <2>1, PauseNow
  <2>3. counter' = counter + Cardinality(HeldSteps)
    BY <1>9, <2>2
  <2> DEFINE B == HeldSteps
             W == In(Interruptible)
  <2>4. /\ B \in {{}, HeldSteps} /\ W \in {{}, In(Interruptible)} /\ (B = {} => HeldSteps = {})
        /\ \A d \in Calls : at'[d] = IF d \in B THEN "attempt"
                                     ELSE IF d \in W THEN "paused" ELSE at[d]
        /\ counter' = counter + Cardinality(B)
    BY <2>2, <2>3
  <2> HIDE DEF B, W
  <2> QED BY <1>0, <2>2, <2>4, SemaphoreJoins
<1>10. CASE Pause /\ counter # 0
  <2>1. /\ UNCHANGED <<counter, at, isRunning>> /\ pausePending' = TRUE
        /\ canInitiateSteps' = FALSE
    BY <1>10 DEF Pause
  <2>2. Holding' = Holding
    BY <2>1 DEF Holding, In
  <2>3. counter \in Nat
    BY DEF TypeOK
  <2>4. counter' > 0
    BY <1>10, <2>1, <2>3
  <2> QED BY <2>1, <2>2, <2>4 DEF SemaphoreInv
<1>11. CASE CancelPause
  <2>1. /\ \A d \in Calls : at'[d] = IF d \in Held(pausePending) THEN "attempt" ELSE at[d]
        /\ counter' = counter + Cardinality(Held(pausePending))
        /\ canInitiateSteps' = (canInitiateSteps \/ pausePending)
        /\ pausePending' = FALSE /\ status' = "Running"
    BY <1>11, PauseCancelled
  <2> DEFINE B == Held(pausePending)
             W == {}
  <2>2. B \in {{}, HeldSteps} /\ (B = {} => HeldSteps = {})
    BY DEF Held, SemaphoreInv
  <2>3. canInitiateSteps' # pausePending'
    BY <1>0, <2>1 DEF SemaphoreInv
  <2>4. W \in {{}, In(Interruptible)}
        /\ \A d \in Calls : at'[d] = IF d \in B THEN "attempt"
                                     ELSE IF d \in W THEN "paused" ELSE at[d]
    BY <2>1
  <2>5. ~ pausePending' /\ status' # "WaitingForPause" /\ counter' = counter + Cardinality(B)
    BY <2>1
  <2> HIDE DEF B, W
  <2> QED BY <1>0, <2>2, <2>3, <2>4, <2>5, SemaphoreJoins
<1>12. ASSUME NEW e \in Events, ReceiveEvent(e)
       PROVE  SemaphoreInv'
  <2> DEFINE mem == Append(eventMap, e)
  <2>1. /\ UNCHANGED semaphore
        /\ \/ Deliver(e, mem)
           \/ UNCHANGED <<status, isRunning, at>>
           \/ Boot(status, mem, stored') /\ UNCHANGED at
    BY <1>12 DEF ReceiveEvent
  <2>2. mem \in Seq(Events) /\ stored' \in Seq(Events)
    BY <1>0 DEF TypeOK
  <2> HIDE DEF mem
  <2>3. CASE Deliver(e, mem)
    <3>1. /\ UNCHANGED <<status, isRunning>>
          /\ \/ at' = at
             \/ at[waiters[1]] = "waiting" /\ at' = [at EXCEPT ![waiters[1]] = "done"]
      BY <1>0, <2>3, DeliverIs
    <3>2. \A d \in Calls : /\ d \in Holding' <=> d \in Holding
                           /\ at'[d] = "acquire" => at[d] = "acquire"
      BY <1>0, <3>1 DEF Holding, In
    <3> QED BY <2>1, <3>1, <3>2, SemaphoreKept
  <2> QED BY <1>0, <1>4, <1>7, <2>1, <2>2, <2>3
<1>13. CASE UNCHANGED vars
  BY <1>4, <1>13 DEF vars, storage
<1> QED BY <1>1, <1>2, <1>3, <1>5, <1>6, <1>8, <1>9, <1>10, <1>11, <1>12, <1>13
        DEF Next, UserCode, Client

-----------------------------------------------------------------------------
(* Sequential workflows: one call at a time.                               *)

(* Only a call that is asked for, or one of the run in progress, moves.    *)
LEMMA OneKept ==
    ASSUME OneAtATime, UNCHANGED <<isRunning, run, stage, program>>,
           \A d \in Calls : \/ at'[d] = at[d]
                            \/ at'[d] \notin Unsettled
                            \/ at[d] \in Unsettled \ {"paused", "failed"}
                            \/ Callable(d)
    PROVE  OneAtATime'
BY DEF OneAtATime, In, Live, Callable

LEMMA OneForgotten ==
    ASSUME Forget
    PROVE  OneAtATime'
<1>1. \A c \in Calls : at'[c] = "none"
  BY DEF Forget
<1>2. "none" \notin Unsettled
  BY DEF Unsettled
<1> QED BY <1>1, <1>2 DEF OneAtATime, In

LEMMA OneBooted ==
    ASSUME TypeOK, KindsInv, OneAtATime, UNCHANGED <<at, program>>,
           NEW st \in Statuses, NEW kept \in Seq(Events), NEW disk \in Seq(Events),
           Boot(st, kept, disk)
    PROVE  OneAtATime'
<1>1. CASE UNCHANGED <<isRunning, run, stage>>
  BY <1>1 DEF OneAtATime, In, Live
<1>2. CASE ~ isRunning /\ isRunning' /\ run' = run + 1
  <2>1. ASSUME NEW c \in In(Unsettled)
        PROVE  c \in Calls /\ at[c] \in {"paused", "failed"} /\ ~ Live(c)'
    <3>1. c \in Calls /\ ~ Live(c) /\ at[c] # "none"
      BY <1>2 DEF In, Live, Unsettled
    <3>2. c[1] <= run /\ c[1] \in Nat /\ run \in Nat
      BY <3>1, CallIs DEF KindsInv, TypeOK
    <3>3. c[1] # run'
      BY <1>2, <3>2
    <3> QED BY <3>1, <3>3 DEF OneAtATime, Live
  <2> QED BY <2>1 DEF OneAtATime, In
<1> QED BY <1>1, <1>2, BootEffects

LEMMA UnsettledIs == Unsettled = {"acquire", "attempt", "resleep", "sleeping", "waiting", "backoff",
                                  "paused", "failed", "fatal"}
BY DEF Unsettled, Places, Settled, Interruptible, Thrown

LEMMA ReleaseMoves ==
    ASSUME TypeOK, NEW c \in Calls, StepSucceeds(c) \/ StepFails(c)
    PROVE  /\ at[c] = "attempt" /\ at'[c] \in {"done", "failed", "paused", "backoff"}
           /\ at' \in [Calls -> Places]
           /\ \A d \in Calls : d # c =>
                at'[d] = IF d \in Held(PauseGoesThrough) THEN "attempt"
                         ELSE IF d \in Woken(PauseGoesThrough) THEN "paused" ELSE at[d]
<1>0. attempted \in [DoSteps -> Nat] /\ tries \in [Calls -> Nat] /\ status \in Statuses
  BY DEF TypeOK
<1>1. CASE StepSucceeds(c)
  <2>1. PICK st \in {status, "Paused"}, place \in {"done", "paused"} :
             /\ at[c] = "attempt"
             /\ Release(st, To(c, place), attempted)
    BY <1>1, StepSucceedsIs
  <2>2. st \in Statuses /\ place \in Places
    BY <1>0 DEF Statuses, PausedOrPausing, Places, Settled, Thrown
  <2> QED BY <1>0, <2>1, <2>2, ReleaseEffects
<1>2. CASE StepFails(c)
  <2> DEFINE persisted == [attempted EXCEPT ![c[2]] = tries[c]]
  <2>1. PICK place \in {"failed", "paused", "backoff"} :
             /\ at[c] = "attempt"
             /\ Release(status, To(c, place), persisted)
    BY <1>2, StepFailsIs
  <2>2. place \in Places /\ persisted \in [DoSteps -> Nat]
    BY <1>0 DEF Places, Thrown, Interruptible
  <2> HIDE DEF persisted
  <2> QED BY <1>0, <2>1, <2>2, ReleaseEffects
<1> QED BY <1>1, <1>2

LEMMA SingletonStage ==
    ASSUME TypeOK, Sequential, stage <= Len(program), NEW s \in program[stage], NEW t \in program[stage]
    PROVE  s = t
<1>1. program \in Seq(SUBSET Steps) /\ stage \in Nat \ {0}
  BY EngineAssumption DEF TypeOK
<1>2. stage \in DOMAIN program
  BY <1>1
<1>3. IsFiniteSet(program[stage])
  <2>1. program[stage] \subseteq Steps
    BY <1>1, <1>2
  <2> QED BY <2>1, FS_Subset, EngineAssumption
<1>4. Cardinality(program[stage]) = 1
  BY <1>2 DEF Sequential
<1> QED BY <1>3, <1>4, FS_Singleton

LEMMA OneStep ==
    ASSUME TypeOK, KindsInv, Sequential, OneAtATime, [Next]_vars
    PROVE  OneAtATime'
<1>0. /\ at \in [Calls -> Places] /\ status \in Statuses /\ waiters \in Seq(Calls)
      /\ stored \in Seq(Events) /\ eventMap \in Seq(Events) /\ <<>> \in Seq(Events)
      /\ "Queued" \in Statuses /\ isRunning \in BOOLEAN
  <2>1. "Queued" \in Statuses /\ <<>> \in Seq(Events)
    BY DEF Statuses
  <2> QED BY <2>1 DEF TypeOK
<1>1. ASSUME NEW c \in Calls, Call(c)
      PROVE  OneAtATime'
  <2>1. /\ UNCHANGED <<isRunning, run, stage, program>> /\ Callable(c)
        /\ \A d \in Calls : d # c => at'[d] = at[d]
    BY <1>1, CallFrame DEF Callable
  <2> QED BY <2>1, OneKept
<1>2. ASSUME NEW c \in Calls, Answer(c)
      PROVE  OneAtATime'
  <2>1. UNCHANGED <<isRunning, run, stage, program>>
    BY <1>2, AnswerFrame
  <2>2. CASE StepSucceeds(c) \/ StepFails(c)
    <3>1. ASSUME NEW d \in Calls
          PROVE  at'[d] = at[d] \/ at[d] \in Unsettled \ {"paused", "failed"}
      BY <2>2, ReleaseMoves, UnsettledIs DEF Held, Woken, HeldSteps, In, Interruptible
    <3> QED BY <2>1, <3>1, OneKept
  <2>3. CASE StepFailsForGood(c) \/ BackoffEnds(c) \/ SleepEnds(c) \/ WaitTimesOut(c)
    <3>1. /\ \E place : at' = [at EXCEPT ![c] = place]
          /\ at[c] \in {"attempt", "backoff", "sleeping", "resleep", "waiting"}
      BY <2>3 DEF StepFailsForGood, BackoffEnds, SleepEnds, WaitTimesOut
    <3>2. \A d \in Calls : at'[d] = at[d] \/ at[d] \in Unsettled \ {"paused", "failed"}
      BY <1>0, <3>1, UnsettledIs
    <3> QED BY <2>1, <3>2, OneKept
  <2> QED BY <1>2, <2>2, <2>3 DEF Answer
<1>3. CASE Crash \/ Terminate \/ RestartAborts \/ \E c \in Calls : RunFailsForGood(c)
  BY <1>3, OneForgotten DEF Crash, Terminate, RestartAborts, RunFailsForGood
<1>4. CASE NextStage
  <2>1. /\ UNCHANGED <<isRunning, run, program, at>> /\ isRunning
        /\ \A s \in program[stage] : at[<<run, s>>] \in Settled
    BY <1>4 DEF NextStage, UnchangedByUser
  <2>2. ASSUME NEW c \in In(Unsettled), Live(c)
        PROVE  FALSE
    <3>1. c[2] \in program[stage] /\ c \in Calls /\ c[1] = run /\ at[c] \in Unsettled
      BY <2>2 DEF OneAtATime, In, Live
    <3>2. at[<<run, c[2]>>] \in Settled /\ c = <<run, c[2]>>
      BY <2>1, <3>1, CallIs
    <3> QED BY <3>1, <3>2 DEF Unsettled
  <2> QED BY <2>1, <2>2 DEF OneAtATime, In, Live
<1>5. ASSUME NEW c \in Calls, Catch(c)
      PROVE  OneAtATime'
  <2>1. /\ UNCHANGED <<isRunning, run, stage, program>>
        /\ \E place \in Settled : at' = [at EXCEPT ![c] = place]
    BY <1>5 DEF Catch, UnchangedByUser, Settled
  <2>2. \A d \in Calls : at'[d] = at[d] \/ at'[d] \notin Unsettled
    BY <1>0, <2>1 DEF Unsettled
  <2> QED BY <2>1, <2>2, OneKept
<1>6. CASE RunReturns \/ \E c \in Calls : RunPauses(c) \/ RunFails(c)
  <2>1. /\ UNCHANGED <<at, run, stage, program>> /\ isRunning /\ isRunning' = FALSE
        /\ \/ stage > Len(program)
           \/ \E c \in Calls : Live(c) /\ at[c] \in {"paused", "failed"}
    BY <1>6 DEF RunReturns, RunPauses, RunFails, UnchangedByUser, Live
  <2>2. ASSUME NEW d \in In(Unsettled), Live(d)
        PROVE  at[d] \in {"paused", "failed"}
    <3>1. stage <= Len(program) /\ d[2] \in program[stage] /\ d \in Calls /\ d[1] = run
      BY <2>2 DEF OneAtATime, In, Live
    <3>2. ~ (stage > Len(program))
      <4>1. stage \in Nat /\ Len(program) \in Nat
        BY EngineAssumption DEF TypeOK
      <4> QED BY <3>1, <4>1
    <3>3. PICK c \in Calls : Live(c) /\ at[c] \in {"paused", "failed"}
      BY <2>1, <3>2
    <3>4. c[2] \in program[stage] /\ c[1] = run
      BY <3>3, UnsettledIs DEF OneAtATime, In, Live
    <3>5. c[2] = d[2]
      BY <3>1, <3>4, SingletonStage
    <3>6. c = d
      BY <3>1, <3>4, <3>5, CallIs
    <3> QED BY <3>3, <3>6
  <2>3. ASSUME NEW d \in In(Unsettled)
        PROVE  at[d] \in {"paused", "failed"}
    BY <2>2 DEF OneAtATime
  <2> QED BY <2>1, <2>3 DEF OneAtATime, In, Live
<1>7. CASE Create \/ AttemptRestart \/ Resume
  <2>1. UNCHANGED <<at, program>>
    BY <1>7 DEF Create, AttemptRestart, Resume
  <2> QED BY <1>0, <1>7, <2>1, OneBooted DEF Create, AttemptRestart, Resume
<1>8. CASE Pause \/ CancelPause
  <2>1. UNCHANGED <<isRunning, run, stage, program>>
    BY <1>8 DEF Pause, CancelPause
  <2>2. ASSUME NEW d \in Calls
        PROVE  at'[d] = at[d] \/ at[d] \in Unsettled \ {"paused", "failed"}
    <3>1. HeldSteps \cup In(Interruptible) \subseteq In(Unsettled \ {"paused", "failed"})
      BY UnsettledIs DEF HeldSteps, In, Interruptible
    <3>2. CASE CancelPause
      BY <3>1, <3>2, PauseCancelled DEF Held, In
    <3>3. CASE Pause /\ counter = 0
      <4>1. PauseWhen(TRUE, status, 0, <<>>, attempted)
        BY <3>3 DEF Pause
      <4> QED BY <3>1, <4>1, PauseNow DEF In
    <3>4. CASE Pause /\ counter # 0
      BY <3>4 DEF Pause
    <3> QED BY <1>8, <3>2, <3>3, <3>4
  <2> QED BY <2>1, <2>2, OneKept
<1>9. ASSUME NEW e \in Events, ReceiveEvent(e)
      PROVE  OneAtATime'
  <2> DEFINE mem == Append(eventMap, e)
  <2>1. /\ UNCHANGED program
        /\ \/ Deliver(e, mem)
           \/ UNCHANGED <<isRunning, run, stage, at>>
           \/ Boot(status, mem, stored') /\ UNCHANGED at
    BY <1>9 DEF ReceiveEvent
  <2>2. mem \in Seq(Events) /\ stored' \in Seq(Events)
    <3>1. stored' \in Seq(Events)
      BY <1>9, ReceiveTypes DEF TypeOK
    <3> QED BY <1>0, <3>1
  <2> HIDE DEF mem
  <2>3. CASE Deliver(e, mem)
    <3>1. UNCHANGED <<isRunning, run, stage>>
          /\ (at' = at \/ at' = [at EXCEPT ![waiters[1]] = "done"])
      BY <1>0, <2>3, DeliverIs
    <3>2. \A d \in Calls : at'[d] = at[d] \/ at'[d] \notin Unsettled
      BY <1>0, <3>1, UnsettledIs
    <3> QED BY <2>1, <3>1, <3>2, OneKept
  <2>4. CASE UNCHANGED <<isRunning, run, stage, at>>
    BY <2>1, <2>4, OneKept
  <2> QED BY <1>0, <2>1, <2>2, <2>3, <2>4, OneBooted
<1>10. CASE UNCHANGED vars
  BY <1>10, OneKept DEF vars
<1> QED BY <1>1, <1>2, <1>3, <1>4, <1>5, <1>6, <1>7, <1>8, <1>9, <1>10
        DEF Next, UserCode, Client

(* At most one call is on its way to an attempt, or in one.                *)
Going == {"acquire", "attempt", "backoff", "fatal"}

LEMMA OneGoes ==
    ASSUME TypeOK, Sequential, OneAtATime, NEW c \in In(Going), NEW d \in In(Unsettled \ {"paused", "failed"})
    PROVE  c = d
<1>1. c \in In(Unsettled) /\ d \in In(Unsettled) /\ Live(c) /\ Live(d)
  BY UnsettledIs DEF OneAtATime, In, Going
<1>2. stage <= Len(program) /\ c[2] \in program[stage] /\ d[2] \in program[stage]
  BY <1>1 DEF OneAtATime
<1>3. c[2] = d[2]
  BY <1>2, SingletonStage
<1>4. c[1] = d[1] /\ c \in Calls /\ d \in Calls
  BY <1>1 DEF Live, In
<1> QED BY <1>3, <1>4, CallIs

LEMMA NoneGoes ==
    ASSUME TypeOK, Sequential, OneAtATime, NEW c \in Calls, Callable(c)
    PROVE  In(Going) = {}
<1> SUFFICES ASSUME NEW d \in In(Going) PROVE FALSE
  OBVIOUS
<1>1. d \in In(Unsettled) /\ d \in Calls
  BY UnsettledIs DEF In, Going
<1>2. Live(d) /\ stage <= Len(program) /\ d[2] \in program[stage]
  BY <1>1, UnsettledIs DEF OneAtATime, In, Going
<1>3. c[2] = d[2]
  BY <1>2, SingletonStage DEF Callable
<1>4. c = d
  BY <1>1, <1>2, <1>3, CallIs DEF Live, Callable
<1> QED BY <1>4 DEF Callable, In, Going

(* A step that starts no attempt and neither adds to a count nor takes an  *)
(* output or an error away.                                                *)
LEMMA AttemptsKept ==
    ASSUME TypeOK, KindsInv, TypeOK', AttemptsInv, UNCHANGED attempted,
           \A s \in DoSteps : lostAttempts'[s] >= lostAttempts[s],
           \A d \in Calls : at'[d] \in Going =>
               /\ at'[d] = at[d] \/ (at[d] = "attempt" /\ at'[d] = "fatal")
               /\ tries'[d] = tries[d] /\ value'[d[2]] = value[d[2]]
               /\ d[2] \in failed' => d[2] \in failed,
           \A s \in DoSteps : value'[s] = None /\ s \notin failed' =>
               /\ value[s] = None /\ s \notin failed
               /\ (\E d \in InFlight : d[2] = s) =>
                     \/ \E d \in InFlight' : d[2] = s
                     \/ lostAttempts'[s] >= lostAttempts[s] + 1
    PROVE  AttemptsInv'
<1>0. /\ \A s \in DoSteps : /\ lostAttempts[s] \in Nat /\ lostAttempts'[s] \in Nat
                            /\ attempted[s] \in Nat
      /\ \A d \in Calls : tries[d] \in Nat
      /\ RetryLimit \in Nat
      /\ \A d \in In(Going) : d[2] \in DoSteps
      /\ \A d \in Calls : d[2] \in Steps
  <2>1. RetryLimit \in Nat
    BY EngineAssumption
  <2>2. \A d \in In(Going) : d[2] \in DoSteps
    BY DEF KindsInv, In, Going
  <2>3. lostAttempts' \in [DoSteps -> Nat]
    BY DEF TypeOK
  <2> QED BY <2>1, <2>2, <2>3, CallIs DEF TypeOK
<1>1. ASSUME NEW d \in Calls, at'[d] \in Going
      PROVE  /\ value'[d[2]] = None /\ d[2] \notin failed'
             /\ at'[d] \in {"attempt", "fatal"} => tries'[d] <= RetryLimit + 1 + lostAttempts'[d[2]]
             /\ at'[d] = "acquire" => tries'[d] <= RetryLimit + lostAttempts'[d[2]]
  <2>1. /\ at'[d] = at[d] \/ (at[d] = "attempt" /\ at'[d] = "fatal")
        /\ tries'[d] = tries[d] /\ value'[d[2]] = value[d[2]]
        /\ d[2] \in failed' => d[2] \in failed
    BY <1>1
  <2>2. at[d] \in Going /\ d \in In(Going) /\ d[2] \in DoSteps
    BY <1>0, <1>1, <2>1 DEF Going, In
  <2>3. value[d[2]] = None /\ d[2] \notin failed
    BY <2>2 DEF AttemptsInv, In, Going
  <2>4. /\ at[d] \in {"attempt", "fatal"} => tries[d] <= RetryLimit + 1 + lostAttempts[d[2]]
        /\ at[d] = "acquire" => tries[d] <= RetryLimit + lostAttempts[d[2]]
    BY <2>2 DEF AttemptsInv, InFlight, In
  <2>5. /\ lostAttempts'[d[2]] >= lostAttempts[d[2]] /\ lostAttempts[d[2]] \in Nat
        /\ lostAttempts'[d[2]] \in Nat
    BY <1>0, <2>2
  <2>6. at'[d] \in {"attempt", "fatal"} => tries[d] <= RetryLimit + 1 + lostAttempts'[d[2]]
    BY <1>0, <2>1, <2>4, <2>5
  <2>7. at'[d] = "acquire" => tries[d] <= RetryLimit + lostAttempts'[d[2]]
    BY <1>0, <2>1, <2>4, <2>5
  <2> QED BY <2>1, <2>3, <2>6, <2>7
<1>2. ASSUME NEW s \in DoSteps
      PROVE  attempted'[s] <= RetryLimit + 1 + lostAttempts'[s]
  <2>1. attempted[s] <= RetryLimit + 1 + lostAttempts[s]
    BY DEF AttemptsInv
  <2> QED BY <1>0, <2>1
<1>3. ASSUME NEW s \in DoSteps, \A d \in InFlight' : d[2] # s, value'[s] = None, s \notin failed'
      PROVE  attempted'[s] <= RetryLimit + lostAttempts'[s]
  <2>1. CASE \A d \in InFlight : d[2] # s
    <3>1. attempted[s] <= RetryLimit + lostAttempts[s]
      BY <1>3, <2>1 DEF AttemptsInv
    <3> QED BY <1>0, <3>1
  <2>2. CASE ~ \A d \in InFlight : d[2] # s
    <3>1. lostAttempts'[s] >= lostAttempts[s] + 1
      BY <1>3, <2>2
    <3>2. attempted[s] <= RetryLimit + 1 + lostAttempts[s]
      BY DEF AttemptsInv
    <3> QED BY <1>0, <3>1, <3>2
  <2> QED BY <2>1, <2>2
<1> QED BY <1>1, <1>2, <1>3 DEF AttemptsInv, InFlight, In, Going

(* A step is attempted or queued while no other call is going.             *)
LEMMA AttemptsBegin ==
    ASSUME TypeOK, KindsInv, TypeOK', AttemptsInv, NEW c \in Calls, c[2] \in DoSteps,
           \A d \in In(Going) : d = c, c \notin InFlight,
           value[c[2]] = None, c[2] \notin failed,
           NEW mine \in [Calls -> Nat], mine[c] = attempted[c[2]],
           Attempts(c, mine) \/ Queues(c, mine), UNCHANGED <<value, failed, lostAttempts>>
    PROVE  AttemptsInv'
<1>0. /\ attempted \in [DoSteps -> Nat] /\ tries \in [Calls -> Nat] /\ at \in [Calls -> Places]
      /\ lostAttempts \in [DoSteps -> Nat] /\ RetryLimit \in Nat
      /\ {c} \subseteq Calls
  BY EngineAssumption DEF TypeOK
<1>1. InFlight = {} /\ \A d \in Calls : d # c => at[d] \notin Going
  BY DEF InFlight, In, Going
<1>2. attempted[c[2]] <= RetryLimit + lostAttempts[c[2]]
  BY <1>1 DEF AttemptsInv
<1>3. /\ \A s \in DoSteps : attempted[s] <= RetryLimit + 1 + lostAttempts[s]
      /\ \A s \in DoSteps : value[s] = None /\ s \notin failed
            => attempted[s] <= RetryLimit + lostAttempts[s]
  BY <1>1 DEF AttemptsInv
<1>4. CASE Attempts(c, mine)
  <2>1. /\ tries'[c] = attempted[c[2]] + 1
        /\ \A s \in DoSteps : attempted'[s] = IF s = c[2] THEN attempted[c[2]] + 1 ELSE attempted[s]
    <3> DEFINE B == {c}
    <3>1. B \subseteq Calls /\ StartAttempts(B, mine, attempted)
      BY <1>4 DEF Attempts
    <3> HIDE DEF B
    <3>2. /\ \A d \in Calls : tries'[d] = IF d \in B THEN mine[d] + 1 ELSE mine[d]
          /\ \A s \in DoSteps :
                \/ (\E d \in B : d[2] = s /\ attempted'[s] = mine[d] + 1)
                \/ (\A d \in B : d[2] # s) /\ attempted'[s] = attempted[s]
      <4>1. mine \in [Calls -> Nat] /\ attempted \in [DoSteps -> Nat]
        BY <1>0
      <4> QED BY <3>1, <4>1, StartEffects
    <3> QED BY <1>0, <3>2 DEF B
  <2>2. at' = [at EXCEPT ![c] = "attempt"]
    BY <1>4 DEF Attempts
  <2>3. \A d \in Calls : at'[d] \in Going => d = c
    BY <1>0, <1>1, <2>2
  <2>4. InFlight' = {c} /\ at'[c] = "attempt"
    BY <1>0, <2>2, <2>3 DEF InFlight, In, Going
  <2>5. tries'[c] <= RetryLimit + 1 + lostAttempts'[c[2]]
    BY <1>0, <1>2, <2>1
  <2>6. \A s \in DoSteps : attempted'[s] <= RetryLimit + 1 + lostAttempts'[s]
    BY <1>0, <1>2, <1>3, <2>1
  <2>7. \A s \in DoSteps : (\A d \in InFlight' : d[2] # s) /\ value'[s] = None /\ s \notin failed'
            => attempted'[s] <= RetryLimit + lostAttempts'[s]
    BY <1>3, <2>1, <2>4
  <2> QED BY <2>3, <2>4, <2>5, <2>6, <2>7 DEF AttemptsInv, In, Going
<1>5. CASE Queues(c, mine)
  <2>1. at' = [at EXCEPT ![c] = "acquire"] /\ tries' = mine /\ UNCHANGED attempted
    BY <1>5 DEF Queues
  <2>2. \A d \in Calls : at'[d] \in Going => d = c
    BY <1>0, <1>1, <2>1
  <2>3. InFlight' = {} /\ at'[c] = "acquire"
    BY <1>0, <2>1, <2>2 DEF InFlight, In, Going
  <2>4. tries'[c] <= RetryLimit + lostAttempts'[c[2]]
    BY <1>0, <1>2, <2>1
  <2> QED BY <1>3, <2>1, <2>2, <2>3, <2>4 DEF AttemptsInv, In, Going
<1> QED BY <1>4, <1>5

(* The calls that waited in acquire are let through.                       *)
LEMMA AttemptsJoin ==
    ASSUME TypeOK, KindsInv, TypeOK', AttemptsInv,
           NEW B, B = {} \/ B = HeldSteps, NEW W \in {{}, In(Interruptible)},
           \A d \in Calls : at'[d] = IF d \in B THEN "attempt"
                                     ELSE IF d \in W THEN "paused" ELSE at[d],
           StartAttempts(B, tries, attempted), UNCHANGED <<value, failed, lostAttempts>>
    PROVE  AttemptsInv'
<1>0. /\ attempted \in [DoSteps -> Nat] /\ tries \in [Calls -> Nat] /\ at \in [Calls -> Places]
      /\ lostAttempts \in [DoSteps -> Nat] /\ RetryLimit \in Nat
      /\ B \subseteq Calls
  BY EngineAssumption DEF TypeOK, HeldSteps, In
<1>1. \A d \in B : /\ at[d] = "acquire" /\ d[2] \in DoSteps
                   /\ value[d[2]] = None /\ d[2] \notin failed
                   /\ tries[d] <= RetryLimit + lostAttempts[d[2]]
  BY DEF HeldSteps, In, AttemptsInv, KindsInv
<1>2. /\ \A d \in Calls : tries'[d] = IF d \in B THEN tries[d] + 1 ELSE tries[d]
      /\ \A s \in DoSteps :
                \/ (\E d \in B : d[2] = s /\ attempted'[s] = tries[d] + 1)
                \/ (\A d \in B : d[2] # s) /\ attempted'[s] = attempted[s]
  <2>1. tries \in [Calls -> Nat] /\ attempted \in [DoSteps -> Nat] /\ B \subseteq Calls
    BY <1>0
  <2> QED BY <2>1, StartEffects
<1>3. ASSUME NEW d \in Calls, at'[d] \in Going
      PROVE  /\ value'[d[2]] = None /\ d[2] \notin failed'
             /\ at'[d] \in {"attempt", "fatal"} => tries'[d] <= RetryLimit + 1 + lostAttempts'[d[2]]
             /\ at'[d] = "acquire" => tries'[d] <= RetryLimit + lostAttempts'[d[2]]
  <2>1. CASE d \in B
    <3>1. at'[d] = "attempt" /\ tries'[d] = tries[d] + 1 /\ tries[d] \in Nat
          /\ lostAttempts[d[2]] \in Nat
      BY <1>0, <1>1, <1>2, <2>1
    <3>2. tries'[d] <= RetryLimit + 1 + lostAttempts'[d[2]]
      BY <1>0, <1>1, <2>1, <3>1
    <3> QED BY <1>1, <2>1, <3>1, <3>2
  <2>2. CASE d \notin B
    <3>1. at'[d] = at[d] /\ tries'[d] = tries[d]
      BY <1>2, <1>3, <2>2 DEF Going
    <3> QED BY <1>3, <3>1 DEF AttemptsInv, In, InFlight, Going
  <2> QED BY <2>1, <2>2
<1>4. ASSUME NEW s \in DoSteps
      PROVE  attempted'[s] <= RetryLimit + 1 + lostAttempts'[s]
  <2>1. CASE (\A d \in B : d[2] # s) /\ attempted'[s] = attempted[s]
    BY <2>1 DEF AttemptsInv
  <2>2. ASSUME NEW d \in B, d[2] = s, attempted'[s] = tries[d] + 1
        PROVE  attempted'[s] <= RetryLimit + 1 + lostAttempts'[s]
    <3>1. tries[d] \in Nat /\ lostAttempts[s] \in Nat /\ tries[d] <= RetryLimit + lostAttempts[s]
      BY <1>0, <1>1, <2>2
    <3> QED BY <1>0, <2>2, <3>1
  <2> QED BY <1>2, <2>1, <2>2
<1>5. ASSUME NEW s \in DoSteps, \A d \in InFlight' : d[2] # s, value'[s] = None, s \notin failed'
      PROVE  attempted'[s] <= RetryLimit + lostAttempts'[s]
  <2>1. B \subseteq InFlight'
    BY <1>0 DEF InFlight, In
  <2>2. InFlight \subseteq InFlight'
    <3>1. \A d \in InFlight : d \in Calls /\ d \notin W /\ at[d] \in {"attempt", "fatal"}
      BY DEF InFlight, In, Interruptible
    <3> QED BY <3>1 DEF InFlight, In
  <2>3. attempted'[s] = attempted[s]
    BY <1>2, <1>5, <2>1
  <2> QED BY <1>5, <2>2, <2>3 DEF AttemptsInv
<1> QED BY <1>3, <1>4, <1>5 DEF AttemptsInv, InFlight, In, Going

(* With one call at a time, the one that releases lets no other through.   *)
LEMMA AloneReleases ==
    ASSUME TypeOK, Sequential, OneAtATime, NEW c \in Calls, StepSucceeds(c) \/ StepFails(c)
    PROVE  /\ Held(PauseGoesThrough) = {}
           /\ In(Going) = {c} /\ In(Going)' \subseteq {c}
<1>1. at[c] = "attempt" /\ c \in In(Going)
  BY ReleaseMoves DEF In, Going
<1>2. ASSUME NEW d \in In(Going)
      PROVE  d = c
  <2>1. d \in In(Unsettled \ {"paused", "failed"})
    BY UnsettledIs DEF In, Going
  <2> QED BY <1>1, <2>1, OneGoes
<1>3. HeldSteps = {}
  <2>1. \A d \in HeldSteps : d \in In(Going) /\ at[d] = "acquire"
    BY DEF HeldSteps, In, Going
  <2> QED BY <1>1, <1>2, <2>1
<1>4. Held(PauseGoesThrough) = {}
  BY <1>3 DEF Held
<1>5. \A d \in Calls : d # c => at'[d] \notin Going
  <2>1. \A d \in Calls : d # c => at'[d] = at[d] \/ at'[d] = "paused"
    BY <1>4, ReleaseMoves
  <2>2. \A d \in Calls : d # c => at[d] \notin Going
    BY <1>2 DEF In
  <2> QED BY <2>1, <2>2 DEF Going
<1> QED BY <1>1, <1>2, <1>4, <1>5 DEF In

LEMMA StartNone ==
    ASSUME TypeOK, NEW persisted \in [DoSteps -> Nat], StartAttempts({}, tries, persisted)
    PROVE  tries' = tries /\ attempted' = persisted
<1>1. tries \in [Calls -> Nat]
  BY DEF TypeOK
<1>2. /\ tries' = [c \in Calls |-> tries[c]]
      /\ attempted' = [s \in DoSteps |-> persisted[s]]
  BY DEF StartAttempts
<1> QED BY <1>1, <1>2

LEMMA AttemptsStep ==
    ASSUME TypeOK, KindsInv, Sequential, OneAtATime, AttemptsInv, [Next]_vars
    PROVE  AttemptsInv'
<1>0. /\ at \in [Calls -> Places] /\ status \in Statuses /\ waiters \in Seq(Calls)
      /\ value \in [Steps -> Runs \cup Events \cup {None}]
      /\ attempted \in [DoSteps -> Nat] /\ tries \in [Calls -> Nat]
      /\ lostAttempts \in [DoSteps -> Nat]
      /\ DoSteps \cap Sleeps = {} /\ DoSteps \cap Waits = {} /\ DoSteps \subseteq Steps
      /\ None \notin Events /\ None \notin Nat /\ RetryLimit \in Nat
  BY EngineAssumption DEF TypeOK, Steps
<1>1. TypeOK' /\ \A s \in DoSteps : lostAttempts[s] >= lostAttempts[s]
  BY <1>0, TypesStep
<1>2. \A d \in Calls : at[d] \in Going => d[2] \in DoSteps
  BY DEF KindsInv, In, Going
<1>3. ASSUME UNCHANGED <<attempted, tries, lostAttempts>>,
             \A d \in Calls : at'[d] \in Going => at'[d] = at[d],
             \A d \in InFlight : at'[d] = at[d],
             \A s \in DoSteps : value'[s] = value[s] /\ (s \in failed' <=> s \in failed)
      PROVE  AttemptsInv'
  <2>1. \A d \in Calls : at'[d] \in Going => d[2] \in DoSteps
    BY <1>2, <1>3
  <2>2. InFlight \subseteq InFlight'
    BY <1>3 DEF InFlight, In
  <2> QED BY <1>1, <1>3, <2>1, <2>2, AttemptsKept
<1>4. ASSUME NEW c \in Calls, Call(c)
      PROVE  AttemptsInv'
  <2>1. /\ \A d \in Calls : d # c => at'[d] = at[d]
        /\ at[c] = "none" /\ Callable(c) /\ UNCHANGED lostAttempts
    BY <1>4, CallFrame DEF Callable
  <2>2. \A d \in InFlight : at'[d] = at[d]
    BY <2>1 DEF InFlight, In
  <2>3. CASE Do(c)
    <3> DEFINE mine == [tries EXCEPT ![c] = attempted[c[2]]]
    <3>1. In(Going) = {} /\ c \notin InFlight
      BY <2>1, NoneGoes DEF InFlight, In
    <3>2. /\ c[2] \in DoSteps /\ value[c[2]] = None /\ c[2] \notin failed
          /\ Attempts(c, mine) \/ Queues(c, mine)
          /\ UNCHANGED <<value, failed>>
      BY <2>3, DoIs DEF Fresh, Cached
    <3>3. mine \in [Calls -> Nat] /\ mine[c] = attempted[c[2]]
      BY <1>0, <3>2
    <3> HIDE DEF mine
    <3> QED BY <1>1, <2>1, <3>1, <3>2, <3>3, AttemptsBegin
  <2>4. ASSUME UNCHANGED <<attempted, tries>>, at'[c] \notin Going,
               \A s \in DoSteps : value'[s] = value[s] /\ (s \in failed' <=> s \in failed)
        PROVE  AttemptsInv'
    BY <1>3, <2>1, <2>2, <2>4
  <2>5. CASE Replay(c)
    BY <1>0, <2>4, <2>5 DEF Replay, Going
  <2>6. CASE ReSleep(c)
    BY <1>0, <2>4, <2>6 DEF ReSleep, Going
  <2>7. CASE Sleep(c)
    <3>1. at'[c] \notin Going /\ UNCHANGED <<attempted, tries, failed>>
      BY <1>0, <2>7 DEF Sleep, Going
    <3>2. \A s \in DoSteps : value'[s] = value[s]
      BY <1>0, <2>7 DEF Sleep
    <3> QED BY <2>4, <3>1, <3>2
  <2>8. CASE WaitForEvent(c)
    <3>1. c[2] \in Waits /\ UNCHANGED <<attempted, tries>>
      BY <2>8 DEF WaitForEvent
    <3>2. at'[c] \notin Going
      BY <1>0, <2>8 DEF WaitForEvent, WaitFindsTimeout, WaitTakesEvent, WaitBegins, Going
    <3>3. /\ failed' \in {failed, failed \cup {c[2]}}
          /\ \/ value' = value
             \/ value' = [value EXCEPT ![c[2]] = Head(eventMap)]
      BY <2>8 DEF WaitForEvent, WaitFindsTimeout, WaitTakesEvent, WaitBegins
    <3>4. \A s \in DoSteps : value'[s] = value[s] /\ (s \in failed' <=> s \in failed)
      BY <1>0, <3>1, <3>3
    <3> QED BY <2>4, <3>1, <3>2, <3>4
  <2> QED BY <1>4, <2>3, <2>5, <2>6, <2>7, <2>8 DEF Call
<1>5. ASSUME NEW c \in Calls, StepSucceeds(c)
      PROVE  AttemptsInv'
  <2>1. PICK st \in {status, "Paused"}, place \in {"done", "paused"} :
             /\ at[c] = "attempt"
             /\ Release(st, To(c, place), attempted)
             /\ value' = [value EXCEPT ![c[2]] = c[1]]
             /\ UNCHANGED failed
    BY <1>5, StepSucceedsIs
  <2>2. st \in Statuses /\ place \in Places
    BY <1>0 DEF Statuses, PausedOrPausing, Places, Settled, Thrown
  <2>3. Held(PauseGoesThrough) = {} /\ In(Going) = {c} /\ In(Going)' \subseteq {c}
    BY <1>5, AloneReleases
  <2>4. StartAttempts({}, tries, attempted) /\ at'[c] = place
    BY <1>0, <2>1, <2>2, <2>3, ReleaseEffects
  <2>5. tries' = tries /\ attempted' = attempted /\ UNCHANGED lostAttempts
    BY <1>0, <1>5, <2>4, StartNone, AnswerFrame DEF Answer
  <2>6. \A d \in Calls : at'[d] \notin Going
    BY <2>3, <2>4 DEF In, Going
  <2>7. c[1] # None /\ c[2] \in Steps
    BY <1>0, CallIs
  <2>8. \A s \in DoSteps : value'[s] = None => value[s] = None /\ s # c[2]
    BY <1>0, <2>1, <2>7
  <2>9. \A d \in InFlight : d = c
    BY <2>3 DEF InFlight, In, Going
  <2> QED BY <1>1, <2>1, <2>5, <2>6, <2>8, <2>9, AttemptsKept
<1>6. ASSUME NEW c \in Calls, StepFails(c)
      PROVE  AttemptsInv'
  <2> DEFINE persisted == [attempted EXCEPT ![c[2]] = tries[c]]
  <2>1. PICK place \in {"failed", "paused", "backoff"} :
             /\ at[c] = "attempt"
             /\ Release(status, To(c, place), persisted)
             /\ failed' = IF WillRetry(c) THEN failed ELSE failed \cup {c[2]}
             /\ place = "failed" <=> ~ WillRetry(c)
             /\ UNCHANGED value
    BY <1>6, StepFailsIs
  <2>2. place \in Places /\ persisted \in [DoSteps -> Nat]
    BY <1>0 DEF Places, Thrown, Interruptible
  <2>3. Held(PauseGoesThrough) = {} /\ In(Going) = {c} /\ In(Going)' \subseteq {c}
    BY <1>6, AloneReleases
  <2>4. c[2] \in DoSteps /\ c \in InFlight
    BY <1>2, <2>1 DEF Going, InFlight, In
  <2>5. value[c[2]] = None /\ c[2] \notin failed
        /\ tries[c] <= RetryLimit + 1 + lostAttempts[c[2]] /\ tries[c] \in Nat
    BY <1>0, <2>3, <2>4 DEF AttemptsInv, Going
  <2>6. \A s \in DoSteps : persisted[s] = IF s = c[2] THEN tries[c] ELSE attempted[s]
    BY <1>0, <2>4
  <2> HIDE DEF persisted
  <2>7. StartAttempts({}, tries, persisted) /\ at'[c] = place
    BY <1>0, <2>1, <2>2, <2>3, ReleaseEffects
  <2>8. tries' = tries /\ attempted' = persisted /\ UNCHANGED lostAttempts
    BY <1>0, <1>6, <2>2, <2>7, StartNone, AnswerFrame DEF Answer
  <2>9. /\ \A d \in Calls : at'[d] \in Going => d = c /\ at'[d] = "backoff" /\ WillRetry(c)
        /\ InFlight' = {}
    BY <2>1, <2>3, <2>7 DEF In, Going, InFlight
  <2>10. \A s \in DoSteps : attempted'[s] <= RetryLimit + 1 + lostAttempts'[s]
    BY <2>5, <2>6, <2>8 DEF AttemptsInv
  <2>11. ASSUME NEW s \in DoSteps, value'[s] = None, s \notin failed'
         PROVE  attempted'[s] <= RetryLimit + lostAttempts'[s]
    <3>1. CASE s = c[2]
      <4>1. tries[c] <= RetryLimit
        BY <2>1, <2>11, <3>1 DEF WillRetry
      <4>2. attempted'[s] = tries[c] /\ lostAttempts'[s] \in Nat
        BY <1>0, <2>6, <2>8, <3>1
      <4> QED BY <1>0, <2>5, <4>1, <4>2
    <3>2. CASE s # c[2]
      <4>1. \A d \in InFlight : d[2] # s
        BY <2>3, <3>2 DEF InFlight, In, Going
      <4>2. value[s] = None /\ s \notin failed
        BY <2>1, <2>11
      <4> QED BY <2>6, <2>8, <3>2, <4>1, <4>2 DEF AttemptsInv
    <3> QED BY <3>1, <3>2
  <2>12. \A d \in In(Going)' : value'[d[2]] = None /\ d[2] \notin failed'
                               /\ at'[d] = "backoff"
    BY <2>1, <2>5, <2>9 DEF In
  <2> QED BY <2>9, <2>10, <2>11, <2>12 DEF AttemptsInv, In, Going, InFlight
<1>7. ASSUME NEW c \in Calls, BackoffEnds(c)
      PROVE  AttemptsInv'
  <2> DEFINE mine == [tries EXCEPT ![c] = attempted[c[2]]]
  <2>1. /\ at[c] = "backoff" /\ UNCHANGED <<value, failed>>
        /\ \/ at' = [at EXCEPT ![c] = "paused"] /\ UNCHANGED <<attempted, tries>>
           \/ Attempts(c, mine)
           \/ Queues(c, mine)
    BY <1>7 DEF BackoffEnds, Attempts, Queues
  <2>2. UNCHANGED lostAttempts
    BY <1>7, AnswerFrame DEF Answer
  <2>3. c \in In(Going) /\ c[2] \in DoSteps /\ c \notin InFlight
    BY <1>2, <2>1 DEF In, Going, InFlight
  <2>4. \A d \in In(Going) : d = c
    <3>1. In(Going) \subseteq In(Unsettled \ {"paused", "failed"})
      BY UnsettledIs DEF In, Going
    <3> QED BY <2>3, <3>1, OneGoes
  <2>5. value[c[2]] = None /\ c[2] \notin failed
    BY <2>3 DEF AttemptsInv, Going
  <2>6. mine \in [Calls -> Nat] /\ mine[c] = attempted[c[2]]
    BY <1>0, <2>3
  <2> HIDE DEF mine
  <2>7. CASE Attempts(c, mine) \/ Queues(c, mine)
    BY <1>1, <2>1, <2>2, <2>3, <2>4, <2>5, <2>6, <2>7, AttemptsBegin
  <2>8. CASE at' = [at EXCEPT ![c] = "paused"] /\ UNCHANGED <<attempted, tries>>
    <3>1. \A d \in Calls : at'[d] \in Going => at'[d] = at[d]
      BY <1>0, <2>8 DEF Going
    <3>2. \A d \in InFlight : at'[d] = at[d]
      BY <1>0, <2>3, <2>8 DEF InFlight, In
    <3> QED BY <1>3, <2>1, <2>2, <2>8, <3>1, <3>2
  <2> QED BY <2>1, <2>7, <2>8
<1>8. ASSUME NEW c \in Calls, StepFailsForGood(c)
      PROVE  AttemptsInv'
  <2>1. at[c] = "attempt" /\ at' = [at EXCEPT ![c] = "fatal"]
        /\ UNCHANGED <<value, failed, attempted, tries>>
    BY <1>8 DEF StepFailsForGood
  <2>2. UNCHANGED lostAttempts
    BY <1>8, AnswerFrame DEF Answer
  <2>3. \A d \in Calls : at'[d] = at[d] \/ (at[d] = "attempt" /\ at'[d] = "fatal")
    BY <1>0, <2>1
  <2>4. InFlight \subseteq InFlight'
    BY <2>3 DEF InFlight, In
  <2> QED BY <1>1, <2>1, <2>2, <2>3, <2>4, AttemptsKept
<1>9. ASSUME NEW c \in Calls, SleepEnds(c) \/ WaitTimesOut(c)
      PROVE  AttemptsInv'
  <2>1. /\ at[c] \in {"sleeping", "resleep", "waiting"}
        /\ \E place \in {"paused", "done", "failed"} : at' = [at EXCEPT ![c] = place]
        /\ UNCHANGED <<value, attempted, tries>>
        /\ \/ failed' = failed
           \/ at[c] = "waiting" /\ failed' = failed \cup {c[2]}
    BY <1>9 DEF SleepEnds, WaitTimesOut
  <2>2. UNCHANGED lostAttempts
    BY <1>9, AnswerFrame DEF Answer
  <2>3. at[c] = "waiting" => c[2] \in Waits
    BY DEF KindsInv, In
  <2>4. \A s \in DoSteps : s \in failed' <=> s \in failed
    BY <1>0, <2>1, <2>3
  <2>5. \A d \in Calls : at'[d] \in Going => at'[d] = at[d]
    BY <1>0, <2>1 DEF Going
  <2>6. \A d \in InFlight : at'[d] = at[d]
    BY <1>0, <2>1 DEF InFlight, In
  <2> QED BY <1>3, <2>1, <2>2, <2>4, <2>5, <2>6
<1>10. CASE Crash \/ Terminate \/ RestartAborts \/ \E c \in Calls : RunFailsForGood(c)
  <2>1. Forget /\ KeepsStorage
    BY <1>10 DEF Crash, Terminate, RestartAborts, RunFailsForGood
  <2>2. \A d \in Calls : at'[d] \notin Going
    BY <2>1 DEF Forget, Going
  <2>3. \A s \in DoSteps :
                /\ lostAttempts'[s] >= lostAttempts[s]
                /\ (\E c \in InFlight : c[2] = s) => lostAttempts'[s] >= lostAttempts[s] + 1
    BY <2>1, ForgetTypes
  <2>4. UNCHANGED <<value, failed, attempted>>
    BY <2>1 DEF KeepsStorage
  <2> QED BY <1>1, <2>2, <2>3, <2>4, AttemptsKept
<1>11. ASSUME UNCHANGED at, UNCHANGED <<attempted, tries, lostAttempts>>,
              \A s \in DoSteps : value'[s] = value[s], UNCHANGED failed
       PROVE  AttemptsInv'
  BY <1>3, <1>11
<1>12. CASE NextStage \/ RunReturns \/ \E c \in Calls : RunPauses(c) \/ RunFails(c)
  BY <1>11, <1>12 DEF NextStage, RunReturns, RunPauses, RunFails, UnchangedByUser
<1>13. ASSUME NEW c \in Calls, Catch(c)
       PROVE  AttemptsInv'
  <2>1. UNCHANGED <<attempted, tries, value, failed>>
    BY <1>13 DEF Catch, UnchangedByUser
  <2>2. CASE at[c] = "fatal"
    <3>1. at' = [at EXCEPT ![c] = "leaked"] /\ lostAttempts' = [lostAttempts EXCEPT ![c[2]] = @ + 1]
      BY <1>13, <2>2 DEF Catch
    <3>2. c[2] \in DoSteps
      BY <1>2, <2>2 DEF Going
    <3>3. \A s \in DoSteps : lostAttempts'[s] = IF s = c[2] THEN lostAttempts[s] + 1 ELSE lostAttempts[s]
      BY <1>0, <3>1, <3>2
    <3>4. \A d \in Calls : d # c => at'[d] = at[d]
      BY <1>0, <3>1
    <3>5. at'[c] \notin Going
      BY <1>0, <3>1 DEF Going
    <3>6. ASSUME NEW s \in DoSteps, NEW d \in InFlight, d[2] = s
          PROVE  (\E x \in InFlight' : x[2] = s) \/ lostAttempts'[s] >= lostAttempts[s] + 1
      <4>1. CASE d = c
        BY <1>0, <3>3, <3>6, <4>1
      <4>2. CASE d # c
        <5>1. d \in InFlight'
          BY <3>4, <4>2 DEF InFlight, In
        <5> QED BY <3>6, <5>1
      <4> QED BY <4>1, <4>2
    <3>7. ASSUME NEW s \in DoSteps PROVE lostAttempts'[s] >= lostAttempts[s]
      <4>1. lostAttempts[s] \in Nat
        BY <1>0
      <4> QED BY <3>3, <4>1
    <3> QED BY <1>1, <2>1, <3>4, <3>5, <3>6, <3>7, AttemptsKept
  <2>3. CASE at[c] = "failed"
    <3>1. at' = [at EXCEPT ![c] = "caught"] /\ UNCHANGED lostAttempts
      BY <1>13, <2>3 DEF Catch
    <3>2. \A d \in Calls : at'[d] \in Going => at'[d] = at[d]
      BY <1>0, <3>1 DEF Going
    <3>3. \A d \in InFlight : at'[d] = at[d]
      BY <1>0, <2>3, <3>1 DEF InFlight, In
    <3> QED BY <1>3, <2>1, <3>1, <3>2, <3>3
  <2> QED BY <1>13, <2>2, <2>3 DEF Catch
<1>14. CASE Create \/ Resume
  BY <1>11, <1>14 DEF Create, Resume, history
<1>15. CASE AttemptRestart
  <2>1. /\ UNCHANGED <<at, tries, lostAttempts>> /\ failed' = {}
        /\ value' = [s \in Steps |-> None] /\ attempted' = [s \in DoSteps |-> 0]
    BY <1>15 DEF AttemptRestart
  <2>2. \A d \in Calls : value'[d[2]] = None /\ d[2] \notin failed'
    BY <2>1, CallIs
  <2>3. InFlight' = InFlight /\ \A S : In(S)' = In(S)
    BY <2>1 DEF InFlight, In
  <2>4. \A s \in DoSteps : attempted'[s] <= RetryLimit + lostAttempts'[s]
                           /\ attempted'[s] <= RetryLimit + 1 + lostAttempts'[s]
    BY <1>0, <2>1
  <2>5. /\ \A c \in InFlight' : tries'[c] <= RetryLimit + 1 + lostAttempts'[c[2]]
        /\ \A c \in In({"acquire"})' : tries'[c] <= RetryLimit + lostAttempts'[c[2]]
    BY <2>1, <2>3 DEF AttemptsInv, In
  <2> QED BY <2>2, <2>4, <2>5 DEF AttemptsInv, In
<1>16. CASE Pause /\ counter = 0
  <2>1. PauseWhen(TRUE, status, 0, <<>>, attempted) /\ UNCHANGED <<value, failed, lostAttempts>>
    BY <1>16 DEF Pause
  <2> DEFINE B == HeldSteps
             W == In(Interruptible)
  <2>2. /\ \A d \in Calls : at'[d] = IF d \in B THEN "attempt"
                                     ELSE IF d \in W THEN "paused" ELSE at[d]
        /\ StartAttempts(B, tries, attempted)
        /\ B = HeldSteps /\ W \in {{}, In(Interruptible)}
    BY <2>1, PauseNow
  <2> HIDE DEF B, W
  <2> QED BY <1>1, <2>1, <2>2, AttemptsJoin
<1>17. CASE Pause /\ counter # 0
  BY <1>11, <1>17 DEF Pause
<1>18. CASE CancelPause
  <2>1. UNCHANGED <<value, failed, lostAttempts>>
    BY <1>18 DEF CancelPause, history
  <2> DEFINE B == Held(pausePending)
             W == {}
  <2>2. /\ \A d \in Calls : at'[d] = IF d \in B THEN "attempt"
                                     ELSE IF d \in W THEN "paused" ELSE at[d]
        /\ StartAttempts(B, tries, attempted)
        /\ W \in {{}, In(Interruptible)}
    BY <1>18, PauseCancelled
  <2>3. B = {} \/ B = HeldSteps
    BY DEF Held
  <2> HIDE DEF B, W
  <2> QED BY <1>1, <2>1, <2>2, <2>3, AttemptsJoin
<1>19. ASSUME NEW e \in Events, ReceiveEvent(e)
       PROVE  AttemptsInv'
  <2> DEFINE mem == Append(eventMap, e)
  <2>1. /\ UNCHANGED <<failed, attempted, tries, lostAttempts>>
        /\ Deliver(e, mem) \/ UNCHANGED <<value, at>>
    BY <1>19 DEF ReceiveEvent
  <2> HIDE DEF mem
  <2>2. CASE Deliver(e, mem)
    <3>1. /\ 1 \in DOMAIN waiters /\ waiters[1] \in Calls
          /\ \/ /\ at[waiters[1]] = "waiting"
                /\ at' = [at EXCEPT ![waiters[1]] = "done"]
                /\ value' = [value EXCEPT ![waiters[1][2]] = e]
             \/ at' = at /\ value' = value
      BY <1>0, <2>2, DeliverIs
    <3>2. waiters[1][2] \in Waits
      BY <3>1 DEF KindsInv
    <3>3. \A s \in DoSteps : value'[s] = value[s]
      BY <1>0, <3>1, <3>2
    <3>4. \A d \in Calls : at'[d] \in Going => at'[d] = at[d]
      BY <1>0, <3>1 DEF Going
    <3>5. \A d \in InFlight : at'[d] = at[d]
      BY <1>0, <3>1 DEF InFlight, In
    <3> QED BY <1>3, <2>1, <3>3, <3>4, <3>5
  <2> QED BY <1>11, <2>1, <2>2
<1>20. CASE UNCHANGED vars
  BY <1>11, <1>20 DEF vars, storage, history
<1> QED BY <1>4, <1>5, <1>6, <1>7, <1>8, <1>9, <1>10, <1>12, <1>13, <1>14, <1>15, <1>16, <1>17,
           <1>18, <1>19, <1>20
        DEF Next, UserCode, Client, Answer

-----------------------------------------------------------------------------
(* The events of the first run.                                            *)

(* In the first run there is one call of each step.                        *)
LEMMA OneCallEach ==
    ASSUME KindsInv, run = 1, NEW c \in Calls, NEW d \in Calls,
           at[d] # "none", c[1] = 1 \/ at[c] # "none", c[2] = d[2]
    PROVE  c = d
<1>1. \A x \in Calls : at[x] # "none" => x[1] = 1
  BY CallIs DEF KindsInv, Calls, Runs
<1> QED BY <1>1, CallIs

LEMMA EventsKept ==
    ASSUME TypeOK, KindsInv, EventsInv,
           UNCHANGED <<pauseAborted, eventMap, waiters, sent>>,
           \A c \in Calls : at[c] = "waiting" /\ (\E i \in DOMAIN waiters : waiters[i] = c)
                              => at'[c] = "waiting",
           \A c \in Calls : at'[c] = "waiting" => at[c] = "waiting",
           \A s \in Steps : \/ value'[s] = value[s]
                            \/ value[s] \notin Events /\ value'[s] \notin Events /\ s \notin Waits
    PROVE  EventsInv'
<1>0. waiters \in Seq(Calls) /\ eventMap \in Seq(Events) /\ sent \subseteq Events
  BY DEF TypeOK
<1>1. \A i \in DOMAIN waiters : waiters[i] \in Calls
  BY <1>0
<1>2. \A i \in DOMAIN eventMap : eventMap[i] \in Events
  BY <1>0
<1>3. \A i \in DOMAIN waiters' : at'[waiters'[i]] = "waiting"
  BY <1>1 DEF EventsInv
<1>4. \A c \in In({"waiting"})' : value'[c[2]] = None
  <2> SUFFICES ASSUME NEW c \in Calls, at'[c] = "waiting"
               PROVE  value'[c[2]] = None
    BY DEF In
  <2>1. at[c] = "waiting" /\ c[2] \in Waits /\ c[2] \in Steps
    BY CallIs DEF KindsInv, In
  <2> QED BY <2>1 DEF EventsInv, In
<1>5. \A s \in Steps : value'[s] \in Events \/ value[s] \in Events => value'[s] = value[s]
  OBVIOUS
<1>6. \A s, t \in Steps : value'[s] = value'[t] /\ value'[s] \in Events => s = t
  BY <1>5 DEF EventsInv
<1>7. \A i \in DOMAIN eventMap' : eventMap'[i] \in sent' /\ \A s \in Steps : value'[s] # eventMap'[i]
  BY <1>2, <1>5 DEF EventsInv
<1>8. \A s \in Steps : value'[s] \in Events => value'[s] \in sent'
  BY <1>5 DEF EventsInv
<1>9. \A e \in sent' : (\E i \in DOMAIN eventMap' : eventMap'[i] = e) \/ (\E s \in Steps : value'[s] = e)
  BY <1>0, <1>5 DEF EventsInv
<1>10. /\ ~ pauseAborted'
       /\ waiters' # <<>> => eventMap' = <<>>
       /\ \A i, j \in DOMAIN waiters' : waiters'[i] = waiters'[j] => i = j
       /\ \A i, j \in DOMAIN eventMap' : eventMap'[i] = eventMap'[j] => i = j
  BY DEF EventsInv
<1> QED BY <1>3, <1>4, <1>6, <1>7, <1>8, <1>9, <1>10 DEF EventsInv

(* Before the first run only a crash or the first call happens.            *)
LEMMA PristineStep ==
    ASSUME TypeOK, KindsInv, run = 0, Pristine, [Next]_vars
    PROVE  (run' = 0 => Pristine') /\ (run' # 0 => EventsInv')
<1>1. \A c \in Calls : at[c] = "none"
  BY CallIs DEF KindsInv, Calls, Runs
<1>2. ASSUME UNCHANGED <<run, isRunning, started, pauseAborted, status, sent, stored,
                         eventMap, waiters, value>>
      PROVE  Pristine' /\ run' = 0
  BY <1>2 DEF Pristine
<1>3. ASSUME Boot("Queued", <<>>, <<>>), UNCHANGED <<pauseAborted, waiters, at, sent>>,
             \A s \in Steps : value'[s] = None
      PROVE  run' # 0 /\ EventsInv'
  <2>1. run' = run + 1 /\ eventMap' = <<>> \o <<>>
    BY <1>3 DEF Boot, NotBooted, BootedPaused, Booted, Finished, Finite, Pristine
  <2>2. run' # 0 /\ eventMap' = <<>> /\ waiters' = <<>> /\ ~ pauseAborted' /\ sent' = {}
    BY <1>3, <2>1 DEF Pristine
  <2>3. None \notin Events /\ \A c \in Calls : c[2] \in Steps
    BY EngineAssumption, CallIs
  <2> QED BY <1>3, <2>2, <2>3 DEF EventsInv, In
<1>4. CASE \E c \in Calls : Call(c) \/ Answer(c)
  BY <1>1, <1>4 DEF Call, Replay, Do, ReSleep, Sleep, WaitForEvent, Fresh, Callable, Pristine,
     Answer, StepSucceeds, StepFails, StepFailsForGood, BackoffEnds, SleepEnds, WaitTimesOut
<1>5. CASE UserCode
  BY <1>5 DEF UserCode, NextStage, RunReturns, Catch, RunPauses, RunFails, RunFailsForGood, Live,
     Pristine
<1>6. CASE Create
  BY <1>3, <1>6 DEF Create, Pristine, history
<1>7. CASE AttemptRestart
  BY <1>3, <1>7 DEF AttemptRestart, Pristine
<1>8. CASE Crash
  BY <1>2, <1>8 DEF Crash, Forget, KeepsStorage, Pristine
<1>9. CASE Terminate \/ RestartAborts \/ Pause \/ CancelPause \/ Resume
           \/ \E e \in Events : ReceiveEvent(e)
  BY <1>9 DEF Terminate, RestartAborts, Pause, CancelPause, Resume, ReceiveEvent, Pristine
<1>10. CASE UNCHANGED vars
  BY <1>2, <1>10 DEF vars, storage, history
<1> QED BY <1>2, <1>4, <1>5, <1>6, <1>7, <1>8, <1>9, <1>10 DEF Next, Client

(* An undisturbed first run goes on from an undisturbed first run.         *)
LEMMA StaysUninterrupted ==
    ASSUME TypeOK, run # 0, [Next]_vars, Uninterrupted'
    PROVE  /\ Uninterrupted /\ run' = run /\ isRunning' = isRunning
           /\ ~ AttemptRestart /\ ~ Resume
           /\ ~ (Pause /\ counter = 0)
           /\ ~ PauseWhen(TRUE, status, 0, <<>>, attempted)
<1>0. /\ run' = 1 /\ isRunning' /\ status' \in {"Running", "WaitingForPause"}
      /\ run \in Nat /\ isRunning \in BOOLEAN
  BY DEF Uninterrupted, TypeOK
<1>1. ASSUME NEW st, NEW kept, NEW disk, Boot(st, kept, disk)
      PROVE  UNCHANGED run /\ UNCHANGED isRunning /\ isRunning /\ status' = st
  <2>1. ~ Booted(st, kept, disk)
    BY <1>0 DEF Booted
  <2>2. ~ BootedPaused(st, kept)
    BY <1>0 DEF BootedPaused
  <2>3. NotBooted(st, kept)
    BY <1>1, <2>1, <2>2 DEF Boot
  <2>4. UNCHANGED run /\ UNCHANGED isRunning /\ status' = st
    BY <2>3 DEF NotBooted
  <2> QED BY <1>0, <2>4
<1>2. ~ Forget
  BY <1>0 DEF Forget
<1>3. \A st, n, g, p : PauseWhen(TRUE, st, n, g, p) => status' = "Paused"
  BY DEF PauseWhen
<1>4. ~ AttemptRestart /\ ~ Resume
  <2>1. ASSUME NEW kept, NEW disk, Boot("Queued", kept, disk)
        PROVE  FALSE
    <3>1. status' = "Queued"
      BY <1>1, <2>1
    <3> QED BY <1>0, <3>1
  <2> QED BY <2>1 DEF AttemptRestart, Resume
<1>5. ~ (Pause /\ counter = 0) /\ ~ PauseWhen(TRUE, status, 0, <<>>, attempted)
  BY <1>0, <1>3 DEF Pause
<1>6. ASSUME UNCHANGED run, UNCHANGED isRunning, status \in {status', "WaitingForPause", "Running"}
      PROVE  Uninterrupted /\ run' = run /\ isRunning' = isRunning
  BY <1>0, <1>6 DEF Uninterrupted
<1>7. ASSUME NEW c \in Calls, Call(c)
      PROVE  Uninterrupted /\ run' = run /\ isRunning' = isRunning
  <2>1. UNCHANGED run /\ UNCHANGED isRunning /\ UNCHANGED status
    BY <1>7, CallFrame
  <2> QED BY <1>6, <2>1
<1>8. ASSUME NEW c \in Calls, Answer(c)
      PROVE  Uninterrupted /\ run' = run /\ isRunning' = isRunning
  <2>1. UNCHANGED run /\ UNCHANGED isRunning
    BY <1>8, AnswerFrame
  <2>2. CASE StepSucceeds(c) \/ StepFails(c)
    <3>1. ASSUME NEW st, NEW goto, NEW p, Release(st, goto, p)
          PROVE  status' = st
      <4>1. CASE PauseGoesThrough
        BY <1>0, <3>1, <4>1 DEF Release, PauseWhen
      <4>2. CASE ~ PauseGoesThrough
        BY <3>1, <4>2 DEF Release, PauseWhen
      <4> QED BY <4>1, <4>2
    <3>2. CASE StepSucceeds(c)
      <4>1. PICK st \in {status, "Paused"}, place \in {"done", "paused"} :
                Release(st, To(c, place), attempted)
        BY <3>2, StepSucceedsIs
      <4>2. status' = status
        BY <1>0, <3>1, <4>1
      <4> QED BY <1>6, <2>1, <4>2
    <3>3. CASE StepFails(c)
      <4>1. \E place : Release(status, To(c, place), [attempted EXCEPT ![c[2]] = tries[c]])
        BY <3>3 DEF StepFails
      <4>2. status' = status
        BY <3>1, <4>1
      <4> QED BY <1>6, <2>1, <4>2
    <3> QED BY <2>2, <3>2, <3>3
  <2>3. CASE ~ (StepSucceeds(c) \/ StepFails(c))
    <3>1. status' = status
      BY <1>8, <2>3 DEF Answer, StepFailsForGood, BackoffEnds, SleepEnds, WaitTimesOut
    <3> QED BY <1>6, <2>1, <3>1
  <2> QED BY <2>2, <2>3
<1>9. CASE UserCode
  <2>1. UNCHANGED run
    BY <1>9, UserFrame
  <2>2. ~ RunReturns /\ \A c \in Calls : ~ RunPauses(c) /\ ~ RunFails(c) /\ ~ RunFailsForGood(c)
    BY <1>0, <1>2 DEF RunReturns, RunPauses, RunFails, RunFailsForGood
  <2>3. NextStage \/ \E c \in Calls : Catch(c)
    BY <1>9, <2>2 DEF UserCode
  <2>4. isRunning /\ UNCHANGED status
    BY <2>3 DEF NextStage, Catch, Live
  <2>5. UNCHANGED isRunning
    BY <2>3 DEF NextStage, Catch
  <2> QED BY <1>4, <1>5, <1>6, <2>1, <2>4, <2>5
<1>10. CASE Create
  <2>1. UNCHANGED run /\ UNCHANGED isRunning /\ status' = status
    BY <1>1, <1>10 DEF Create
  <2> QED BY <1>4, <1>5, <1>6, <2>1
<1>11. ASSUME NEW e \in Events, ReceiveEvent(e)
        PROVE  Uninterrupted /\ run' = run /\ isRunning' = isRunning
  <2>1. \/ Deliver(e, Append(eventMap, e))
        \/ UNCHANGED <<run, isRunning, status>>
        \/ Boot(status, Append(eventMap, e), stored')
    BY <1>11 DEF ReceiveEvent
  <2>2. UNCHANGED run /\ UNCHANGED isRunning /\ status' = status
    BY <1>1, <2>1 DEF Deliver
  <2> QED BY <1>6, <2>2
<1>12. CASE Pause \/ CancelPause
  <2>1. UNCHANGED run /\ UNCHANGED isRunning /\ status \in {"WaitingForPause", "Running"}
    BY <1>12 DEF Pause, CancelPause
  <2> QED BY <1>4, <1>5, <1>6, <2>1
<1>13. CASE UNCHANGED vars
  <2>1. UNCHANGED run /\ UNCHANGED isRunning /\ UNCHANGED status
    BY <1>13 DEF vars, storage
  <2> QED BY <1>4, <1>5, <1>6, <2>1
<1>14. ~ (Terminate \/ RestartAborts \/ Crash)
  BY <1>2 DEF Terminate, RestartAborts, Crash
<1> QED BY <1>4, <1>5, <1>6, <1>7, <1>8, <1>9, <1>10, <1>11, <1>12, <1>13, <1>14 DEF Next, Client

LEMMA EventsCalls ==
    ASSUME TypeOK, KindsInv, Uninterrupted, EventsInv, NEW c \in Calls, Call(c)
    PROVE  EventsInv'
<1>0. /\ at \in [Calls -> Places] /\ waiters \in Seq(Calls) /\ eventMap \in Seq(Events)
      /\ value \in [Steps -> Runs \cup Events \cup {None}] /\ sent \subseteq Events
      /\ run = 1 /\ ~ pauseAborted
  BY DEF TypeOK, Uninterrupted, EventsInv
<1>1. /\ at[c] = "none" /\ c[1] = 1 /\ UNCHANGED <<pauseAborted, sent>>
      /\ \A d \in Calls : d # c => at'[d] = at[d]
      /\ c[2] \in Steps /\ c[1] \notin Events /\ None \notin Events
  BY <1>0, CallFrame, CallIs, EngineAssumption
<1>2. ASSUME UNCHANGED <<eventMap, waiters>>, at'[c] # "waiting",
             \A s \in Steps : \/ value'[s] = value[s]
                              \/ value[s] \notin Events /\ value'[s] \notin Events /\ s \notin Waits
      PROVE  EventsInv'
  BY <1>1, <1>2, EventsKept
<1>3. CASE Replay(c)
  BY <1>0, <1>2, <1>3 DEF Replay
<1>4. CASE Do(c)
  <2>1. UNCHANGED <<value, eventMap, waiters>>
    BY <1>4 DEF Do
  <2>2. at' = [at EXCEPT ![c] = "attempt"] \/ at' = [at EXCEPT ![c] = "acquire"]
    BY <1>4 DEF Do
  <2> QED BY <1>0, <1>2, <2>1, <2>2
<1>5. CASE ReSleep(c)
  BY <1>0, <1>2, <1>5 DEF ReSleep
<1>6. CASE Sleep(c)
  <2>1. /\ UNCHANGED <<eventMap, waiters>> /\ value' = [value EXCEPT ![c[2]] = c[1]]
        /\ c[2] \in Sleeps /\ value[c[2]] = None
    BY <1>6 DEF Sleep, Fresh, Cached
  <2>2. at'[c] # "waiting"
    BY <1>0, <1>6 DEF Sleep
  <2>3. c[2] \notin Waits
    BY <2>1, EngineAssumption
  <2> QED BY <1>0, <1>1, <1>2, <2>1, <2>2, <2>3
<1>7. ASSUME WaitForEvent(c)
      PROVE  /\ c[2] \in Waits /\ value[c[2]] = None
             /\ WaitFindsTimeout(c) \/ WaitTakesEvent(c) \/ WaitBegins(c)
             /\ \A d \in Calls : at[d] # "none" => d[2] # c[2]
  <2>1. \A d \in Calls : at[d] # "none" => d[2] # c[2]
    BY <1>0, <1>1, OneCallEach
  <2> QED BY <1>7, <2>1 DEF WaitForEvent, Fresh, Cached
<1>8. CASE WaitForEvent(c) /\ WaitFindsTimeout(c)
  BY <1>0, <1>2, <1>8 DEF WaitFindsTimeout
<1>9. CASE WaitForEvent(c) /\ WaitTakesEvent(c)
  <2> DEFINE e == Head(eventMap)
  <2>1. /\ eventMap # <<>> /\ eventMap' = Tail(eventMap)
        /\ value' = [value EXCEPT ![c[2]] = e]
        /\ at' = [at EXCEPT ![c] = "done"] /\ UNCHANGED waiters
    BY <1>0, <1>9 DEF WaitTakesEvent
  <2>2. /\ DOMAIN eventMap = 1 .. Len(eventMap) /\ 1 \in DOMAIN eventMap /\ e = eventMap[1]
        /\ Len(eventMap) \in Nat /\ e \in Events
        /\ DOMAIN eventMap' = 1 .. (Len(eventMap) - 1)
        /\ \A i \in DOMAIN eventMap' : i + 1 \in DOMAIN eventMap /\ i + 1 # 1
                                       /\ eventMap'[i] = eventMap[i + 1]
    BY <1>0, <2>1
  <2> HIDE DEF e
  <2>3. waiters = <<>> /\ waiters' = <<>>
    BY <2>1 DEF EventsInv
  <2>4. /\ c[2] \in Waits /\ value[c[2]] = None
        /\ \A d \in Calls : at[d] # "none" => d[2] # c[2]
    BY <1>7, <1>9
  <2>5. \A s \in Steps : value'[s] = IF s = c[2] THEN e ELSE value[s]
    BY <1>0, <2>1
  <2>6. \A i, j \in DOMAIN eventMap' : eventMap'[i] = eventMap'[j] => i = j
    <3> SUFFICES ASSUME NEW i \in DOMAIN eventMap', NEW j \in DOMAIN eventMap',
                        eventMap'[i] = eventMap'[j]
                 PROVE  i = j
      OBVIOUS
    <3>1. i + 1 = j + 1
      BY <2>2 DEF EventsInv
    <3> QED BY <2>2, <3>1
  <2>7. \A d \in In({"waiting"})' : value'[d[2]] = None
    <3> SUFFICES ASSUME NEW d \in Calls, at'[d] = "waiting"
                 PROVE  value'[d[2]] = None
      BY DEF In
    <3>1. at[d] = "waiting" /\ d[2] \in Steps /\ d[2] # c[2]
      BY <1>0, <2>1, <2>4, CallIs
    <3> QED BY <2>5, <3>1 DEF EventsInv, In
  <2>8. e \in sent /\ \A s \in Steps : value[s] # e
    BY <2>2 DEF EventsInv
  <2>9. \A s, t \in Steps : value'[s] = value'[t] /\ value'[s] \in Events => s = t
    BY <2>5, <2>8 DEF EventsInv
  <2>10. \A i \in DOMAIN eventMap' : eventMap'[i] # e
    BY <2>2 DEF EventsInv
  <2>11. \A i \in DOMAIN eventMap' :
            eventMap'[i] \in sent' /\ \A s \in Steps : value'[s] # eventMap'[i]
    BY <1>1, <2>2, <2>5, <2>10 DEF EventsInv
  <2>12. \A s \in Steps : value'[s] \in Events => value'[s] \in sent'
    BY <1>1, <2>5, <2>8 DEF EventsInv
  <2>13. ASSUME NEW f \in sent
         PROVE  (\E i \in DOMAIN eventMap' : eventMap'[i] = f) \/ (\E s \in Steps : value'[s] = f)
    <3>1. CASE f = e
      BY <1>1, <2>5, <3>1
    <3>2. CASE \E i \in DOMAIN eventMap : eventMap[i] = f /\ f # e
      <4>1. PICK i \in DOMAIN eventMap : eventMap[i] = f /\ i # 1
        BY <2>2, <3>2
      <4>2. i - 1 \in DOMAIN eventMap' /\ (i - 1) + 1 = i
        BY <2>2, <4>1
      <4>3. eventMap'[i - 1] = f
        BY <2>2, <4>1, <4>2
      <4> QED BY <4>2, <4>3
    <3>3. CASE \E s \in Steps : value[s] = f
      <4>1. PICK s \in Steps : value[s] = f
        BY <3>3
      <4>2. s # c[2]
        BY <1>0, <1>1, <2>4, <4>1
      <4> QED BY <2>5, <4>1, <4>2
    <3> QED BY <3>1, <3>2, <3>3 DEF EventsInv
  <2> QED BY <1>0, <1>1, <2>3, <2>6, <2>7, <2>9, <2>11, <2>12, <2>13 DEF EventsInv
<1>10. CASE WaitForEvent(c) /\ WaitBegins(c)
  <2>1. /\ eventMap = <<>> /\ eventMap' = <<>> /\ waiters' = Append(waiters, c)
        /\ value' = value /\ at' = [at EXCEPT ![c] = "waiting"]
    BY <1>0, <1>10 DEF WaitBegins
  <2>2. value[c[2]] = None
    BY <1>7, <1>10
  <2>3. /\ Len(waiters) \in Nat /\ DOMAIN waiters = 1 .. Len(waiters)
        /\ DOMAIN waiters' = 1 .. (Len(waiters) + 1)
        /\ \A i \in DOMAIN waiters' : waiters'[i] = IF i = Len(waiters) + 1 THEN c ELSE waiters[i]
        /\ \A i \in DOMAIN waiters : waiters[i] \in Calls
    BY <1>0, <2>1
  <2>4. \A i \in DOMAIN waiters : waiters[i] # c /\ at'[waiters[i]] = "waiting"
    BY <1>0, <1>1, <2>1, <2>3 DEF EventsInv
  <2>5. \A i \in DOMAIN waiters' : at'[waiters'[i]] = "waiting"
    BY <1>0, <2>1, <2>3, <2>4
  <2>6. \A i, j \in DOMAIN waiters' : waiters'[i] = waiters'[j] => i = j
    BY <2>3, <2>4 DEF EventsInv
  <2>7. \A d \in In({"waiting"})' : value'[d[2]] = None
    BY <1>0, <2>1, <2>2 DEF EventsInv, In
  <2> QED BY <1>1, <2>1, <2>5, <2>6, <2>7 DEF EventsInv
<1> QED BY <1>3, <1>4, <1>5, <1>6, <1>7, <1>8, <1>9, <1>10 DEF Call

LEMMA EventsAnswers ==
    ASSUME TypeOK, KindsInv, Uninterrupted, EventsInv, NEW c \in Calls, Answer(c),
           ~ PauseGoesThrough \/ ~ (StepSucceeds(c) \/ StepFails(c))
    PROVE  EventsInv'
<1>0. /\ at \in [Calls -> Places] /\ waiters \in Seq(Calls) /\ eventMap \in Seq(Events)
      /\ value \in [Steps -> Runs \cup Events \cup {None}] /\ run = 1
      /\ attempted \in [DoSteps -> Nat] /\ tries \in [Calls -> Nat]
      /\ status \in Statuses
      /\ \A d \in Calls : at[d] \in {"acquire", "attempt", "backoff"} => d[2] \in DoSteps
  BY DEF TypeOK, Uninterrupted, KindsInv, In
<1>1. /\ UNCHANGED <<eventMap, sent>>
      /\ c[2] \in Steps /\ c[1] \notin Events /\ None \notin Events
      /\ DoSteps \cap Waits = {}
  BY <1>0, AnswerFrame, CallIs, EngineAssumption
<1>2. ASSUME UNCHANGED <<pauseAborted, waiters>>, at[c] # "waiting", at'[c] # "waiting",
             \A d \in Calls : d # c => at'[d] = at[d],
             \A s \in Steps : \/ value'[s] = value[s]
                              \/ value[s] \notin Events /\ value'[s] \notin Events /\ s \notin Waits
      PROVE  EventsInv'
  BY <1>1, <1>2, EventsKept
<1>3. ASSUME StepSucceeds(c) \/ StepFails(c)
      PROVE  /\ at[c] = "attempt" /\ at'[c] # "waiting" /\ UNCHANGED waiters
             /\ \A d \in Calls : d # c => at'[d] = at[d]
             /\ pauseAborted' = pauseAborted
  <2>1. ~ PauseGoesThrough
    BY <1>3
  <2>2. Held(PauseGoesThrough) = {} /\ Woken(PauseGoesThrough) = {}
    BY <2>1 DEF Held, Woken
  <2>3. /\ at[c] = "attempt" /\ at'[c] # "waiting"
        /\ \A d \in Calls : d # c => at'[d] = at[d]
    BY <1>3, <2>2, ReleaseMoves
  <2>4. \A st, g, p : Release(st, g, p) => pauseAborted' = (pauseAborted \/ PauseGoesThrough)
    BY DEF Release, PauseWhen
  <2>5. \E st, g, p : Release(st, g, p)
    BY <1>3 DEF StepSucceeds, StepFails
  <2>6. pauseAborted \in BOOLEAN
    BY DEF TypeOK
  <2> QED BY <1>3, <2>1, <2>3, <2>4, <2>5, <2>6 DEF StepSucceeds, StepFails
<1>4. CASE StepSucceeds(c)
  <2>1. value' = [value EXCEPT ![c[2]] = c[1]] /\ c[2] \in DoSteps
    BY <1>0, <1>3, <1>4 DEF StepSucceeds
  <2>2. value[c[2]] \notin Events /\ c[2] \notin Waits
    BY <1>1, <2>1 DEF KindsInv
  <2>3. \A s \in Steps : value'[s] = IF s = c[2] THEN c[1] ELSE value[s]
    BY <1>0, <2>1
  <2> QED BY <1>1, <1>2, <1>3, <1>4, <2>2, <2>3
<1>5. CASE StepFails(c)
  BY <1>2, <1>3, <1>5 DEF StepFails
<1>6. ASSUME UNCHANGED <<value, waiters, pauseAborted>>, at[c] # "waiting",
             \E place \in Places \ {"waiting"} : at' = [at EXCEPT ![c] = place]
      PROVE  EventsInv'
  BY <1>0, <1>2, <1>6
<1>7. CASE StepFailsForGood(c)
  BY <1>6, <1>7 DEF StepFailsForGood, Places, Thrown
<1>8. CASE BackoffEnds(c)
  <2>1. /\ at[c] = "backoff" /\ UNCHANGED <<value, waiters, pauseAborted>>
        /\ \E place \in {"paused", "attempt", "acquire"} : at' = [at EXCEPT ![c] = place]
    BY <1>8 DEF BackoffEnds
  <2> QED BY <1>6, <2>1 DEF Places, Thrown
<1>9. CASE SleepEnds(c)
  <2>1. /\ at[c] \in {"sleeping", "resleep"} /\ UNCHANGED <<value, waiters, pauseAborted>>
        /\ \E place \in {"paused", "done"} : at' = [at EXCEPT ![c] = place]
    BY <1>9 DEF SleepEnds
  <2> QED BY <1>6, <2>1 DEF Places, Thrown, Settled
<1>10. CASE WaitTimesOut(c)
  <2>1. at[c] = "waiting" /\ at' = [at EXCEPT ![c] = "failed"] /\ UNCHANGED <<value, pauseAborted>>
    BY <1>10 DEF WaitTimesOut
  <2>2. /\ DOMAIN waiters = 1 .. Len(waiters) /\ Len(waiters) \in Nat
        /\ \A i \in DOMAIN waiters : waiters[i] \in Calls /\ at[waiters[i]] = "waiting"
    BY <1>0 DEF EventsInv
  <2>3. \A i \in DOMAIN waiters : waiters[i][2] = c[2] => waiters[i] = c
    BY <1>0, <2>1, <2>2, OneCallEach
  <2>4. /\ \A i \in DOMAIN waiters' : \E j \in DOMAIN waiters : waiters'[i] = waiters[j] /\ waiters[j] # c
        /\ \A i, j \in DOMAIN waiters' : waiters'[i] = waiters'[j] => i = j
    <3>1. CASE (\A i \in DOMAIN waiters : waiters[i][2] # c[2]) /\ waiters' = waiters
      BY <3>1 DEF EventsInv
    <3>2. ASSUME NEW k \in DOMAIN waiters, waiters[k][2] = c[2], waiters' = RemoveAt(waiters, k)
          PROVE  <2>4!1 /\ <2>4!2
      <4>1. /\ DOMAIN waiters' = 1 .. (Len(waiters) - 1)
            /\ \A j \in DOMAIN waiters' :
                  waiters'[j] = IF j < k THEN waiters[j] ELSE waiters[j + 1]
        BY <1>0, <3>2, RemoveAtIs
      <4>2. waiters[k] = c
        BY <2>3, <3>2
      <4>3. \A i, j \in DOMAIN waiters : waiters[i] = waiters[j] => i = j
        BY DEF EventsInv
      <4> QED BY <2>2, <4>1, <4>2, <4>3
    <3> QED BY <1>0, <1>10, <3>1, <3>2, WaiterRemoved
  <2>5. waiters # <<>> => eventMap = <<>>
    BY DEF EventsInv
  <2>6. waiters' # <<>> => waiters # <<>>
    BY <1>0, <1>10, <2>4, AnswerTypes DEF TypeOK
  <2>7. \A i \in DOMAIN waiters' : at'[waiters'[i]] = "waiting"
    BY <1>0, <2>1, <2>2, <2>4
  <2>8. \A d \in In({"waiting"})' : value'[d[2]] = None
    BY <1>0, <2>1 DEF EventsInv, In
  <2> QED BY <1>1, <2>1, <2>4, <2>5, <2>6, <2>7, <2>8 DEF EventsInv
<1> QED BY <1>4, <1>5, <1>7, <1>8, <1>9, <1>10 DEF Answer

LEMMA EventsReceived ==
    ASSUME TypeOK, KindsInv, Uninterrupted, EventsInv, NEW e \in Events, ReceiveEvent(e)
    PROVE  EventsInv'
<1>0. /\ at \in [Calls -> Places] /\ waiters \in Seq(Calls) /\ eventMap \in Seq(Events)
      /\ value \in [Steps -> Runs \cup Events \cup {None}] /\ sent \subseteq Events
      /\ run = 1 /\ isRunning /\ None \notin Events
  BY EngineAssumption DEF TypeOK, Uninterrupted
<1>1. /\ e \notin sent /\ sent' = sent \cup {e} /\ UNCHANGED pauseAborted
      /\ \A s \in Steps : value[s] # e
      /\ \A i \in DOMAIN eventMap : eventMap[i] # e
  BY DEF ReceiveEvent, EventsInv
<1> DEFINE mem == Append(eventMap, e)
<1>2. CASE Deliver(e, mem)
  <2>1. /\ waiters # <<>> /\ 1 \in DOMAIN waiters /\ waiters[1] \in Calls
        /\ waiters' = Tail(waiters) /\ eventMap' = Tail(mem)
    BY <1>0, <1>2, DeliverIs
  <2> DEFINE w == waiters[1]
  <2>2. at[w] = "waiting"
    BY <2>1 DEF EventsInv
  <2>3. at' = [at EXCEPT ![w] = "done"] /\ value' = [value EXCEPT ![w[2]] = e]
    BY <1>0, <1>2, <2>2, DeliverIs
  <2>4. eventMap = <<>> /\ eventMap' = <<>>
    BY <2>1 DEF EventsInv
  <2>5. w \in Calls /\ w[2] \in Steps /\ value[w[2]] = None
    BY <2>1, <2>2, CallIs DEF EventsInv, In
  <2>6. \A i \in DOMAIN waiters' : i + 1 \in DOMAIN waiters /\ i \in Nat
                                   /\ waiters'[i] = waiters[i + 1] /\ i + 1 # 1
    BY <1>0, <2>1
  <2>7. \A i \in DOMAIN waiters : i # 1 => waiters[i] # w /\ waiters[i] \in Calls
    BY <1>0, <2>1 DEF EventsInv
  <2> HIDE DEF w, mem
  <2>8. \A i \in DOMAIN waiters' : at'[waiters'[i]] = "waiting"
    <3> SUFFICES ASSUME NEW i \in DOMAIN waiters'
                 PROVE  at'[waiters'[i]] = "waiting"
      OBVIOUS
    <3>1. /\ i + 1 \in DOMAIN waiters /\ waiters'[i] = waiters[i + 1]
          /\ waiters[i + 1] # w /\ waiters[i + 1] \in Calls
      BY <2>6, <2>7
    <3>2. at[waiters[i + 1]] = "waiting"
      BY <3>1 DEF EventsInv
    <3> QED BY <1>0, <2>3, <3>1, <3>2
  <2>9. \A i, j \in DOMAIN waiters' : waiters'[i] = waiters'[j] => i = j
    <3> SUFFICES ASSUME NEW i \in DOMAIN waiters', NEW j \in DOMAIN waiters',
                        waiters'[i] = waiters'[j]
                 PROVE  i = j
      OBVIOUS
    <3>1. i + 1 = j + 1
      BY <2>6 DEF EventsInv
    <3> QED BY <2>6, <3>1
  <2>10. \A d \in In({"waiting"})' : value'[d[2]] = None
    <3> SUFFICES ASSUME NEW d \in Calls, at'[d] = "waiting"
                 PROVE  value'[d[2]] = None
      BY DEF In
    <3>1. at[d] = "waiting" /\ d # w
      BY <1>0, <2>3, <2>5
    <3>2. d[2] # w[2]
      BY <1>0, <2>2, <2>5, <3>1, OneCallEach
    <3> QED BY <1>0, <2>3, <3>1, <3>2 DEF EventsInv, In
  <2>11. \A s \in Steps : value'[s] = IF s = w[2] THEN e ELSE value[s]
    BY <1>0, <2>3
  <2>12. \A s, t \in Steps : value'[s] = value'[t] /\ value'[s] \in Events => s = t
    BY <1>1, <2>11 DEF EventsInv
  <2>13. \A s \in Steps : value'[s] \in Events => value'[s] \in sent'
    BY <1>1, <2>11 DEF EventsInv
  <2>14. \A f \in sent' : \E s \in Steps : value'[s] = f
    <3> SUFFICES ASSUME NEW f \in sent
                 PROVE  \E s \in Steps : value'[s] = f
      BY <1>1, <2>5, <2>11
    <3>1. PICK s \in Steps : value[s] = f
      BY <2>4 DEF EventsInv
    <3>2. s # w[2]
      BY <1>0, <2>5, <3>1
    <3> QED BY <2>11, <3>1, <3>2
  <2> QED BY <1>1, <2>4, <2>8, <2>9, <2>10, <2>12, <2>13, <2>14 DEF EventsInv
<1>3. CASE waiters = <<>> /\ eventMap' = mem /\ UNCHANGED <<value, waiters, at>>
  <2>1. /\ DOMAIN eventMap = 1 .. Len(eventMap) /\ Len(eventMap) \in Nat
        /\ DOMAIN eventMap' = 1 .. (Len(eventMap) + 1)
        /\ \A i \in DOMAIN eventMap' :
              eventMap'[i] = IF i = Len(eventMap) + 1 THEN e ELSE eventMap[i]
    BY <1>0, <1>3
  <2>2. \A i, j \in DOMAIN eventMap' : eventMap'[i] = eventMap'[j] => i = j
    BY <1>1, <2>1 DEF EventsInv
  <2>3. \A i \in DOMAIN eventMap' :
            eventMap'[i] \in sent' /\ \A s \in Steps : value'[s] # eventMap'[i]
    <3> SUFFICES ASSUME NEW i \in DOMAIN eventMap'
                 PROVE  eventMap'[i] \in sent' /\ \A s \in Steps : value[s] # eventMap'[i]
      BY <1>3
    <3>1. CASE i = Len(eventMap) + 1
      BY <1>1, <2>1, <3>1
    <3>2. CASE i # Len(eventMap) + 1
      <4>1. i \in DOMAIN eventMap /\ eventMap'[i] = eventMap[i]
        BY <2>1, <3>2
      <4> QED BY <1>1, <4>1 DEF EventsInv
    <3> QED BY <3>1, <3>2
  <2>4. ASSUME NEW f \in sent'
        PROVE  (\E i \in DOMAIN eventMap' : eventMap'[i] = f) \/ (\E s \in Steps : value'[s] = f)
    <3>1. CASE f = e
      <4>1. Len(eventMap) + 1 \in DOMAIN eventMap'
        BY <2>1
      <4> QED BY <2>1, <3>1, <4>1
    <3>2. CASE \E i \in DOMAIN eventMap : eventMap[i] = f
      <4>1. PICK i \in DOMAIN eventMap : eventMap[i] = f
        BY <3>2
      <4>2. i \in DOMAIN eventMap' /\ eventMap'[i] = f
        BY <2>1, <4>1
      <4> QED BY <4>2
    <3> QED BY <1>1, <1>3, <3>1, <3>2 DEF EventsInv
  <2>5. \A d \in In({"waiting"})' : value'[d[2]] = None
    BY <1>3 DEF EventsInv, In
  <2>6. /\ \A s, t \in Steps : value'[s] = value'[t] /\ value'[s] \in Events => s = t
        /\ \A s \in Steps : value'[s] \in Events => value'[s] \in sent'
    BY <1>1, <1>3 DEF EventsInv
  <2> QED BY <1>1, <1>3, <2>2, <2>3, <2>4, <2>5, <2>6 DEF EventsInv
<1> QED BY <1>0, <1>2, <1>3 DEF ReceiveEvent

LEMMA RunGrows ==
    ASSUME TypeOK, [Next]_vars
    PROVE  run' >= run
<1>0. run \in Nat /\ isRunning \in BOOLEAN
  BY DEF TypeOK
<1>1. \A st, kept, disk : Boot(st, kept, disk) => run' \in {run, run + 1}
  BY DEF Boot, NotBooted, BootedPaused, Booted
<1>2. ASSUME NEW c \in Calls, Call(c) \/ Answer(c)
      PROVE  run' = run
  BY <1>2, CallFrame, AnswerFrame
<1>3. ASSUME UserCode
      PROVE  run' = run
  BY <1>3, UserFrame
<1>4. ASSUME Client
      PROVE  run' \in {run, run + 1}
  BY <1>1, <1>4
     DEF Client, Create, Terminate, RestartAborts, AttemptRestart, Pause, CancelPause, Resume,
         ReceiveEvent, Deliver, Forget
<1>5. Crash => run' = run
  BY DEF Crash, Forget
<1>6. UNCHANGED vars => run' = run
  BY DEF vars
<1>7. run' \in {run, run + 1}
  BY <1>2, <1>3, <1>4, <1>5, <1>6 DEF Next
<1> QED BY <1>0, <1>7

LEMMA EventsStep ==
    ASSUME TypeOK, KindsInv, run # 0, Uninterrupted => EventsInv, [Next]_vars, Uninterrupted'
    PROVE  EventsInv'
<1>0. /\ Uninterrupted /\ EventsInv /\ isRunning' = isRunning
      /\ ~ AttemptRestart /\ ~ Resume
      /\ ~ (Pause /\ counter = 0)
      /\ ~ PauseWhen(TRUE, status, 0, <<>>, attempted)
  BY StaysUninterrupted
<1>1. isRunning /\ isRunning' /\ status' # "Paused"
  BY <1>0 DEF Uninterrupted
<1>2. ASSUME UNCHANGED <<pauseAborted, eventMap, waiters, sent, value>>,
             \A d \in Calls : \/ at'[d] = at[d]
                              \/ at[d] # "waiting" /\ at'[d] # "waiting"
      PROVE  EventsInv'
  BY <1>0, <1>2, EventsKept
<1>3. ~ Forget
  BY <1>1 DEF Forget
<1>4. CASE \E c \in Calls : Call(c)
  BY <1>0, <1>4, EventsCalls
<1>5. ASSUME NEW c \in Calls, Answer(c)
      PROVE  EventsInv'
  <2>1. \A st, g, p : Release(st, g, p) /\ PauseGoesThrough => status' = "Paused"
    BY DEF Release, PauseWhen
  <2>2. StepSucceeds(c) \/ StepFails(c) => \E st, g, p : Release(st, g, p)
    BY DEF StepSucceeds, StepFails
  <2> QED BY <1>0, <1>1, <1>5, <2>1, <2>2, EventsAnswers
<1>6. CASE UserCode
  <2>1. ~ RunReturns /\ \A c \in Calls : ~ RunPauses(c) /\ ~ RunFails(c) /\ ~ RunFailsForGood(c)
    BY <1>1, <1>3 DEF RunReturns, RunPauses, RunFails, RunFailsForGood
  <2>2. CASE NextStage
    BY <1>2, <2>2 DEF NextStage, UnchangedByUser
  <2>3. ASSUME NEW c \in Calls, Catch(c)
        PROVE  EventsInv'
    <3>1. /\ UNCHANGED <<pauseAborted, eventMap, waiters, sent, value>>
          /\ at[c] \in {"failed", "fatal"}
          /\ \E place \in {"leaked", "caught"} : at' = [at EXCEPT ![c] = place]
      BY <2>3 DEF Catch, UnchangedByUser
    <3>2. at \in [Calls -> Places]
      BY DEF TypeOK
    <3> QED BY <1>2, <3>1, <3>2
  <2> QED BY <1>6, <2>1, <2>2, <2>3 DEF UserCode
<1>7. CASE Create
  <2>1. eventMap' = eventMap
    BY <1>1, <1>7 DEF Create, Boot, NotBooted, BootedPaused, Booted
  <2> QED BY <1>2, <1>7, <2>1 DEF Create, history
<1>8. CASE Pause
  BY <1>0, <1>2, <1>8 DEF Pause
<1>9. CASE CancelPause
  <2>1. UNCHANGED <<pauseAborted, eventMap, waiters, sent, value>>
    BY <1>9 DEF CancelPause, history
  <2>2. \A d \in Calls : \/ at'[d] = at[d]
                         \/ at[d] # "waiting" /\ at'[d] # "waiting"
    BY <1>9, PauseCancelled DEF Held, HeldSteps, In
  <2> QED BY <1>2, <2>1, <2>2
<1>10. CASE \E e \in Events : ReceiveEvent(e)
  BY <1>0, <1>10, EventsReceived
<1>11. CASE UNCHANGED vars
  <2>1. UNCHANGED <<pauseAborted, eventMap, waiters, sent, value, at>>
    BY <1>11 DEF vars, storage, history
  <2> QED BY <1>2, <2>1
<1>12. ~ (Terminate \/ RestartAborts \/ Crash)
  BY <1>3 DEF Terminate, RestartAborts, Crash
<1> QED BY <1>0, <1>4, <1>5, <1>6, <1>7, <1>8, <1>9, <1>10, <1>11, <1>12 DEF Next, Client

LEMMA FirstRunStep ==
    ASSUME TypeOK, KindsInv, FirstRunInv, [Next]_vars
    PROVE  FirstRunInv'
<1>1. CASE run = 0
  <2>1. (run' = 0 => Pristine') /\ (run' # 0 => EventsInv')
    BY <1>1, PristineStep DEF FirstRunInv
  <2>2. Uninterrupted' => run' # 0
    BY DEF Uninterrupted
  <2> QED BY <2>1, <2>2 DEF FirstRunInv
<1>2. CASE run # 0
  <2>1. run' # 0
    <3>1. run \in Nat /\ run' \in Nat /\ run' >= run
      BY RunGrows, TypesStep DEF TypeOK
    <3> QED BY <1>2, <3>1
  <2>2. Uninterrupted' => EventsInv'
    BY <1>2, EventsStep DEF FirstRunInv
  <2> QED BY <2>1, <2>2 DEF FirstRunInv
<1> QED BY <1>1, <1>2

-----------------------------------------------------------------------------
(* The theorems.                                                           *)

LEMMA SequentialStep ==
    ASSUME TypeOK, KindsInv, SequentialInv, [Next]_vars
    PROVE  SequentialInv'
<1>1. program' = program
  <2>1. ASSUME NEW c \in Calls, Call(c) \/ Answer(c)
        PROVE  program' = program
    BY <2>1, CallFrame, AnswerFrame
  <2>2. UserCode => program' = program
    BY UserFrame
  <2>3. Client \/ Crash => program' = program
    BY DEF Client, Create, Terminate, RestartAborts, AttemptRestart, Pause, CancelPause, Resume,
           ReceiveEvent, Crash, Forget
  <2>4. UNCHANGED vars => program' = program
    BY DEF vars
  <2> QED BY <2>1, <2>2, <2>3, <2>4 DEF Next
<1>2. Sequential' <=> Sequential
  BY <1>1 DEF Sequential
<1>3. ASSUME Sequential
      PROVE  OneAtATime' /\ AttemptsInv'
  BY <1>3, OneStep, AttemptsStep DEF SequentialInv
<1> QED BY <1>2, <1>3 DEF SequentialInv

LEMMA EngineInit ==
    ASSUME Init
    PROVE  EngineInv
<1>0. /\ None \notin Events /\ 0 \in Nat /\ RetryLimit \in Nat
      /\ 0 \in 0 .. MaxRuns
  BY EngineAssumption
<1>1. \A S : "none" \notin S => In(S) = {}
  BY DEF In, Init
<1>2. TypeOK
  <2>0. /\ {started, isRunning, canInitiateSteps, pausePending, pauseAborted, restarting}
              \subseteq BOOLEAN
    BY Zenon DEF Init
  <2>1. StorageTypes
    <3>1. /\ status \in Statuses /\ failed \subseteq Steps
          /\ registered \subseteq Waits /\ stored \in Seq(Events)
      BY DEF Init, Statuses
    <3>2. value \in [Steps -> Runs \cup Events \cup {None}] /\ attempted \in [DoSteps -> Nat]
      BY DEF Init
    <3> QED BY <2>0, <3>1, <3>2 DEF StorageTypes
  <2>2. MemoryTypes
    <3>1. eventMap \in Seq(Events) /\ waiters \in Seq(Calls) /\ counter \in Nat
      BY DEF Init
    <3>2. at \in [Calls -> Places] /\ tries \in [Calls -> Nat]
      BY DEF Init, Places
    <3> QED BY <2>0, <3>1, <3>2 DEF MemoryTypes
  <2>3. UserTypes
    <3>1. program \in Programs /\ run \in 0 .. MaxRuns /\ stage \in Nat \ {0}
      BY <1>0 DEF Init
    <3>2. sent \subseteq Events /\ {pauses, upsets} \subseteq Nat
      BY DEF Init
    <3>3. lostAttempts \in [DoSteps -> Nat]
      BY DEF Init
    <3> QED BY <2>0, <3>1, <3>2, <3>3 DEF UserTypes
  <2> QED BY <2>1, <2>2, <2>3, TypesSplit
<1>3. Cardinality({}) = 0
  BY FS_EmptySet
<1>4. SemaphoreInv
  <2>1. Holding = {} /\ In({"acquire"}) = {}
    BY <1>1 DEF Holding
  <2>2. canInitiateSteps # pausePending /\ ~ pausePending
    BY Zenon DEF Init
  <2>3. counter = 0 /\ status = "Queued"
    BY DEF Init
  <2> QED BY <1>3, <2>1, <2>2, <2>3 DEF SemaphoreInv, HeldSteps
<1>5. KindsInv
  <2>1. \A c \in Calls : at[c] = "none"
    BY DEF Init
  <2>2. \A s \in Steps : value[s] \notin Events
    BY <1>0 DEF Init
  <2>3. DOMAIN waiters = {}
    BY DEF Init
  <2> QED BY <1>1, <2>1, <2>2, <2>3 DEF KindsInv
<1>6. OneAtATime
  <2>1. "none" \notin Unsettled
    BY DEF Unsettled
  <2> QED BY <1>1, <2>1 DEF OneAtATime
<1>7. AttemptsInv
  <2>1. \A s \in DoSteps : attempted[s] = 0 /\ lostAttempts[s] = 0
    BY DEF Init
  <2> QED BY <1>0, <1>1, <2>1 DEF AttemptsInv, InFlight
<1>8. FirstRunInv
  BY DEF Init, FirstRunInv, Pristine, Uninterrupted
<1> QED BY <1>2, <1>4, <1>5, <1>6, <1>7, <1>8, SemaphoreIs DEF EngineInv, SequentialInv

(* In every reachable state the semaphore counts the attempts, calls are   *)
(* of the kind their place asks for, a sequential workflow has one call in *)
(* progress whose counts are within the limit, and the first run knows     *)
(* where each event is.                                                    *)
THEOREM EngineCorrect == Spec => []EngineInv
<1>1. Init => EngineInv
  BY EngineInit
<1>2. EngineInv /\ [Next]_vars => EngineInv'
  <2> SUFFICES ASSUME EngineInv, [Next]_vars
               PROVE  EngineInv'
    OBVIOUS
  <2>1. TypeOK /\ KindsInv /\ SemaphoreInv /\ SequentialInv /\ FirstRunInv
    BY SemaphoreIs DEF EngineInv
  <2>2. TypeOK' /\ KindsInv' /\ SemaphoreInv'
    BY <2>1, KindsStep, SemaphoreStep
  <2>3. SequentialInv' /\ FirstRunInv'
    BY <2>1, SequentialStep, FirstRunStep
  <2> QED BY <2>2, <2>3, SemaphoreIs DEF EngineInv
<1> QED BY <1>1, <1>2, PTL DEF Spec

(* The GracePeriodSemaphore counts the attempts that hold it, and holds    *)
(* steps back only while a pause waits for one of them, however pauses,    *)
(* resumes, retries and crashes interleave with the steps.                 *)
THEOREM SemaphoreCorrect == Spec => []SemaphoreAgrees
<1>1. EngineInv => SemaphoreAgrees
  BY DEF EngineInv
<1> QED BY <1>1, EngineCorrect, PTL

(* A sequential workflow attempts no step more often than its limit allows *)
(* over all its runs, but for the attempts that were lost.                 *)
THEOREM AttemptsCorrect == Spec => []AttemptsBounded
<1>1. EngineInv => AttemptsBounded
  BY DEF EngineInv, SequentialInv, AttemptsInv, AttemptsBounded
<1> QED BY <1>1, EngineCorrect, PTL

(* What is at one place is counted once.                                   *)
LEMMA CountedOnce ==
    ASSUME NEW S, \A x, y \in S : x = y
    PROVE  Cardinality(S) = IF S = {} THEN 0 ELSE 1
<1>1. CASE S = {}
  BY <1>1, FS_EmptySet
<1>2. CASE S # {}
  <2>1. PICK x \in S : TRUE
    BY <1>2
  <2>2. S = {x}
    BY <2>1
  <2> QED BY <1>2, <2>2, FS_Singleton
<1> QED BY <1>1, <1>2

(* While the first run goes on undisturbed every event sent is in memory   *)
(* once, or is the output of one wait, and no wait lacks an event that     *)
(* memory has.                                                             *)
THEOREM EventsCorrect == Spec => []EventsReachWaits
<1>1. ASSUME EngineInv
      PROVE  EventsReachWaits
  <2> SUFFICES ASSUME Uninterrupted
               PROVE  /\ waiters # <<>> => eventMap = <<>>
                      /\ \A i \in DOMAIN waiters : at[waiters[i]] = "waiting"
                      /\ \A e \in sent :
                            Cardinality({i \in DOMAIN eventMap : eventMap[i] = e})
                              + Cardinality({s \in Steps : value[s] = e}) = 1
    BY DEF EventsReachWaits
  <2>1. EventsInv /\ sent \subseteq Events
    BY <1>1 DEF EngineInv, FirstRunInv, SemaphoreAgrees, TypeOK
  <2>2. ASSUME NEW e \in sent
        PROVE  Cardinality({i \in DOMAIN eventMap : eventMap[i] = e})
                 + Cardinality({s \in Steps : value[s] = e}) = 1
    <3> DEFINE I == {i \in DOMAIN eventMap : eventMap[i] = e}
               S == {s \in Steps : value[s] = e}
    <3>1. \A i, j \in I : i = j
      BY <2>1 DEF EventsInv
    <3>2. \A s, t \in S : s = t
      BY <2>1 DEF EventsInv
    <3>3. I # {} => S = {}
      BY <2>1 DEF EventsInv
    <3>4. I # {} \/ S # {}
      BY <2>1 DEF EventsInv
    <3> HIDE DEF I, S
    <3>5. /\ Cardinality(I) = IF I = {} THEN 0 ELSE 1
          /\ Cardinality(S) = IF S = {} THEN 0 ELSE 1
      BY <3>1, <3>2, CountedOnce
    <3>6. Cardinality(I) + Cardinality(S) = 1
      BY <3>3, <3>4, <3>5
    <3> QED BY <3>6 DEF I, S
  <2> QED BY <2>1, <2>2 DEF EventsInv
<1> QED BY <1>1, EngineCorrect, PTL

(* The output of a step of a sequential workflow, once stored, is not      *)
(* stored anew: no later run executes the step again, until a restart.     *)
THEOREM OutputsCorrect == Spec => OutputsStable
<1>1. ASSUME EngineInv, [Next]_vars, Sequential, ~ AttemptRestart,
             NEW s \in DoSteps, value[s] # None
      PROVE  value'[s] = value[s]
  <2>0. /\ TypeOK /\ KindsInv /\ AttemptsInv
        /\ value \in [Steps -> Runs \cup Events \cup {None}] /\ waiters \in Seq(Calls)
        /\ DoSteps \cap Sleeps = {} /\ DoSteps \cap Waits = {}
    BY <1>1, EngineAssumption DEF EngineInv, SemaphoreAgrees, SequentialInv, TypeOK
  <2>1. ASSUME NEW c \in Calls, NEW x, s # c[2], value' = [value EXCEPT ![c[2]] = x]
        PROVE  value'[s] = value[s]
    BY <2>0, <2>1
  <2>2. ASSUME NEW c \in Calls, Call(c)
        PROVE  value'[s] = value[s]
    <3>1. CASE Replay(c) \/ Do(c) \/ ReSleep(c)
      BY <3>1 DEF Replay, Do, ReSleep
    <3>2. CASE Sleep(c)
      BY <2>0, <2>1, <3>2 DEF Sleep
    <3>3. CASE WaitForEvent(c)
      <4>1. c[2] \in Waits
        BY <3>3 DEF WaitForEvent
      <4>2. \/ value' = value
            \/ value' = [value EXCEPT ![c[2]] = Head(eventMap)]
        BY <3>3 DEF WaitForEvent, WaitFindsTimeout, WaitTakesEvent, WaitBegins
      <4> QED BY <2>0, <2>1, <4>1, <4>2
    <3> QED BY <2>2, <3>1, <3>2, <3>3 DEF Call
  <2>3. ASSUME NEW c \in Calls, Answer(c)
        PROVE  value'[s] = value[s]
    <3>1. CASE StepSucceeds(c)
      <4>1. at[c] = "attempt" /\ value' = [value EXCEPT ![c[2]] = c[1]]
        BY <3>1 DEF StepSucceeds
      <4>2. value[c[2]] = None
        BY <2>0, <4>1 DEF AttemptsInv, In
      <4> QED BY <1>1, <2>1, <4>1, <4>2
    <3>2. CASE ~ StepSucceeds(c)
      BY <2>3, <3>2
         DEF Answer, StepFails, StepFailsForGood, BackoffEnds, SleepEnds, WaitTimesOut
    <3> QED BY <3>1, <3>2
  <2>4. CASE UserCode
    BY <2>4, UserFrame
  <2>5. ASSUME NEW e \in Events, ReceiveEvent(e)
        PROVE  value'[s] = value[s]
    <3>1. CASE Deliver(e, Append(eventMap, e))
      <4>1. /\ 1 \in DOMAIN waiters /\ waiters[1] \in Calls
            /\ \/ value' = [value EXCEPT ![waiters[1][2]] = e]
               \/ value' = value
        BY <2>0, <3>1, DeliverIs
      <4>2. waiters[1][2] \in Waits
        BY <2>0, <4>1 DEF KindsInv
      <4> QED BY <2>0, <2>1, <4>1, <4>2
    <3>2. CASE ~ Deliver(e, Append(eventMap, e))
      BY <2>5, <3>2 DEF ReceiveEvent
    <3> QED BY <3>1, <3>2
  <2>6. Create \/ Terminate \/ RestartAborts \/ Pause \/ CancelPause \/ Resume \/ Crash
            => value' = value
    BY DEF Create, Terminate, RestartAborts, Pause, CancelPause, Resume, Crash, KeepsStorage
  <2>7. UNCHANGED vars => value' = value
    BY DEF vars, storage
  <2> QED BY <1>1, <2>2, <2>3, <2>4, <2>5, <2>6, <2>7 DEF Next, Client
<1>2. EngineInv /\ [Next]_vars =>
          [Sequential /\ ~ AttemptRestart =>
              \A s \in DoSteps : value[s] # None => value'[s] = value[s]]_vars
  BY <1>1
<1> QED BY <1>2, EngineCorrect, PTL DEF Spec, OutputsStable
=============================================================================
