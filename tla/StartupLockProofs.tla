------------------------- MODULE StartupLockProofs -------------------------
(***************************************************************************)
(* Proofs about StartupLock, for every set of processes and any limit on   *)
(* their attempts.                                                         *)
(***************************************************************************)
EXTENDS StartupLock, TLAPS

-----------------------------------------------------------------------------
(* The types hold initially and every step keeps them.                     *)
LEMMA TypeInductive == (Init => TypeOK) /\ (TypeOK /\ [Next]_vars => TypeOK')
<1>1. Init => TypeOK
  <2> SUFFICES ASSUME Init PROVE TypeOK
    OBVIOUS
  <2>1. pc \in [Procs -> Places]
    BY DEF Init, Places
  <2>2. attempts \in [Procs -> 0 .. MaxAttempts]
    <3>1. 0 \in 0 .. MaxAttempts
      BY LockAssumption
    <3> QED BY <3>1 DEF Init
  <2> QED BY <2>1, <2>2 DEF Init, TypeOK
<1>2. TypeOK /\ [Next]_vars => TypeOK'
  <2> SUFFICES ASSUME TypeOK, [Next]_vars PROVE TypeOK'
    OBVIOUS
  <2> USE LockAssumption DEF TypeOK, Goto, Places, Waiting, Owning, Ended
  <2>1. ASSUME NEW p \in Procs, Start(p) PROVE TypeOK'
    BY <2>1 DEF Start
  <2>2. ASSUME NEW p \in Procs, Acquire(p) PROVE TypeOK'
    BY <2>2 DEF Acquire
  <2>3. ASSUME NEW p \in Procs, Contend(p) PROVE TypeOK'
    BY <2>3 DEF Contend
  <2>4. ASSUME NEW p \in Procs, CheckStale(p) PROVE TypeOK'
    BY <2>4 DEF CheckStale
  <2>5. ASSUME NEW p \in Procs, RemoveStale(p) PROVE TypeOK'
    BY <2>5 DEF RemoveStale
  <2>6. ASSUME NEW p \in Procs, Retry(p) PROVE TypeOK'
    BY <2>6 DEF Retry, Counted, UsedUp
  <2>7. ASSUME NEW p \in Procs, Finish(p) PROVE TypeOK'
    BY <2>7 DEF Finish
  <2>8. ASSUME NEW p \in Procs, ReadOwn(p) PROVE TypeOK'
    BY <2>8 DEF ReadOwn
  <2>9. ASSUME NEW p \in Procs, RemoveOwn(p) PROVE TypeOK'
    BY <2>9 DEF RemoveOwn
  <2>10. ASSUME NEW p \in Procs, Abandon(p) PROVE TypeOK'
    BY <2>10 DEF Abandon
  <2>11. CASE Age
    BY <2>11 DEF Age
  <2>12. CASE UNCHANGED vars
    BY <2>12 DEF vars
  <2> QED
    BY <2>1, <2>2, <2>3, <2>4, <2>5, <2>6, <2>7, <2>8, <2>9, <2>10, <2>11, <2>12
    DEF Next, Step
<1> QED BY <1>1, <1>2

(* A lock file is that of a call that owns it or was abandoned, however    *)
(* locks were reclaimed in between.                                        *)
THEOREM ReleasedCorrect == Spec => []ReleasedLocksAreGone
<1> DEFINE Inv == TypeOK /\ ReleasedLocksAreGone
<1>1. Init => Inv
  BY TypeInductive DEF Init, ReleasedLocksAreGone
<1>2. Inv /\ [Next]_vars => Inv'
  <2> SUFFICES ASSUME TypeOK, ReleasedLocksAreGone, [Next]_vars
               PROVE  ReleasedLocksAreGone'
    BY TypeInductive
  <2> USE LockAssumption DEF TypeOK, ReleasedLocksAreGone, Goto, Waiting, Owning
  <2>1. ASSUME NEW p \in Procs, Step(p) \/ Abandon(p)
        PROVE  ReleasedLocksAreGone'
    <3>1. CASE Start(p) \/ Acquire(p) \/ Finish(p)
      BY <3>1 DEF Start, Acquire, Finish
    <3>2. CASE Contend(p) \/ CheckStale(p) \/ RemoveStale(p) \/ Retry(p)
      BY <3>2 DEF Contend, CheckStale, RemoveStale, Retry
    <3>3. CASE ReadOwn(p) \/ RemoveOwn(p)
      BY <3>3 DEF ReadOwn, RemoveOwn, Owned
    <3>4. CASE Abandon(p)
      BY <3>4 DEF Abandon
    <3> QED BY <2>1, <3>1, <3>2, <3>3, <3>4 DEF Step
  <2>2. CASE Age
    BY <2>2 DEF Age
  <2>3. CASE UNCHANGED vars
    BY <2>3 DEF vars
  <2> QED BY <2>1, <2>2, <2>3 DEF Next
<1> QED BY <1>1, <1>2, PTL DEF Spec

-----------------------------------------------------------------------------
(* Without failed startups no lock is ever stale, so each owner keeps its  *)
(* lock until it removes it.                                               *)
AllLive == \A p \in Procs : pc[p] # "abandoned"
OwnersHoldTheLock ==
    /\ ~ stale
    /\ \A p \in Procs : pc[p] # "reclaiming"
    /\ \A p \in Procs : pc[p] \in Owning => lock = p

(* If no startup takes longer than LOCK_STALE_MS, startups run one at a    *)
(* time until a process dies or a file system call throws.                 *)
THEOREM ExclusiveCorrect ==
    ASSUME ~ MayOverrun
    PROVE  Spec => []LiveStartupsAreExclusive
<1> DEFINE Inv == TypeOK /\ (AllLive => OwnersHoldTheLock)
<1>1. Init => Inv
  BY TypeInductive DEF Init, OwnersHoldTheLock, Owning
<1>2. Inv /\ [Next]_vars => Inv'
  <2> SUFFICES ASSUME TypeOK, AllLive => OwnersHoldTheLock, [Next]_vars, AllLive'
               PROVE  OwnersHoldTheLock'
    BY TypeInductive
  <2>0. AllLive /\ OwnersHoldTheLock
    <3>1. \A p \in Procs : pc[p] = "abandoned" => pc'[p] = "abandoned"
      BY DEF TypeOK, Next, Step, Start, Acquire, Contend, CheckStale, RemoveStale,
         Retry, Finish, ReadOwn, RemoveOwn, Abandon, Age, Goto, Waiting, Owning, vars
    <3> QED BY <3>1 DEF AllLive
  <2> USE <2>0, LockAssumption DEF TypeOK, OwnersHoldTheLock, Goto, Waiting, Owning
  <2>1. ASSUME NEW p \in Procs, Step(p) \/ Abandon(p)
        PROVE  OwnersHoldTheLock'
    <3>1. CASE Start(p) \/ Finish(p) \/ Retry(p)
      BY <3>1 DEF Start, Finish, Retry
    <3>2. CASE Acquire(p)
      BY <3>2 DEF Acquire, Free
    <3>3. CASE Contend(p) \/ CheckStale(p) \/ RemoveStale(p)
      BY <3>3 DEF Contend, CheckStale, RemoveStale
    <3>4. CASE ReadOwn(p) \/ RemoveOwn(p)
      BY <3>4 DEF ReadOwn, RemoveOwn, Owned
    <3>5. CASE Abandon(p)
      BY <3>5 DEF Abandon, AllLive
    <3> QED BY <2>1, <3>1, <3>2, <3>3, <3>4, <3>5 DEF Step
  <2>2. CASE Age
    BY <2>2 DEF Age, AllLive
  <2>3. CASE UNCHANGED vars
    BY <2>3 DEF vars
  <2> QED BY <2>1, <2>2, <2>3 DEF Next
<1>3. Inv => LiveStartupsAreExclusive
  BY DEF OwnersHoldTheLock, LiveStartupsAreExclusive, AllLive, Exclusive, Owning
<1> QED BY <1>1, <1>2, <1>3, PTL DEF Spec
=============================================================================
