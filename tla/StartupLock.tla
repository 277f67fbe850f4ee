---------------------------- MODULE StartupLock ----------------------------
(***************************************************************************)
(* The on-disk lock under which Miniflare instances that share a           *)
(* persistence root start up                                               *)
(* (packages/miniflare/src/shared/persist-root-lock.ts).                   *)
(*                                                                         *)
(* Every call of the file system is an action: other processes run between *)
(* the look at a file and its removal, and a removal takes the file that   *)
(* is there by then.                                                       *)
(***************************************************************************)
EXTENDS Naturals

CONSTANTS
    Procs,         \* calls of withPersistRootStartupLock, each with its token
    NoLock,        \* there is no lock file
    MaxAttempts,   \* LOCK_MAX_ATTEMPTS
    MayOverrun     \* whether a startup can take longer than LOCK_STALE_MS

ASSUME LockAssumption ==
    /\ NoLock \notin Procs
    /\ MaxAttempts \in Nat
    /\ MayOverrun \in BOOLEAN

VARIABLES
    lock,      \* the token in the lock file
    stale,     \* whether that file is older than LOCK_STALE_MS
    pc,        \* where each call stands
    attempts   \* failed attempts of each call

vars == <<lock, stale, pc, attempts>>

(* trying: writeFile is next; checking: removeStaleLock is; reclaiming: it *)
(* has found a stale lock; sleeping: LOCK_RETRY_MS; holding: the callback  *)
(* runs; releasing: removeOwnedLock reads; removing: it read its token;    *)
(* abandoned: the process died or a file system call threw.                *)
Waiting == {"trying", "checking", "reclaiming", "sleeping"}
Owning == {"holding", "releasing", "removing"}
Ended == {"done", "timedOut", "abandoned"}
Places == {"idle"} \cup Waiting \cup Owning \cup Ended

Init ==
    /\ lock = NoLock
    /\ stale = FALSE
    /\ pc = [p \in Procs |-> "idle"]
    /\ attempts = [p \in Procs |-> 0]

Goto(p, place) == pc' = [pc EXCEPT ![p] = place]

Start(p) ==
    /\ pc[p] = "idle"
    /\ Goto(p, "trying")
    /\ UNCHANGED <<lock, stale, attempts>>

(* Mutated: the lock file is opened without the exclusive flag.            *)
Creatable == TRUE

(* writeFile with flag "wx" fails with EEXIST when there is a file.        *)
Free == lock = NoLock

Acquire(p) ==
    /\ pc[p] = "trying"
    /\ Free
    /\ lock' = p
    /\ stale' = FALSE
    /\ Goto(p, "holding")
    /\ UNCHANGED attempts

UsedUp(p) == attempts[p] >= MaxAttempts

Contend(p) ==
    /\ pc[p] = "trying"
    /\ ~ Free
    /\ Goto(p, IF UsedUp(p) THEN "timedOut" ELSE "checking")
    /\ UNCHANGED <<lock, stale, attempts>>

(* stat: of no file, of a fresh one or of a stale one.                     *)
CheckStale(p) ==
    /\ pc[p] = "checking"
    /\ Goto(p, IF lock # NoLock /\ stale THEN "reclaiming" ELSE "sleeping")
    /\ UNCHANGED <<lock, stale, attempts>>

RemoveStale(p) ==
    /\ pc[p] = "reclaiming"
    /\ lock' = NoLock
    /\ stale' = FALSE
    /\ Goto(p, "sleeping")
    /\ UNCHANGED attempts

(* Mutated: the attempts are not counted.                                  *)
NotCounted(p) == attempts[p]

(* The counter stops at MaxAttempts, where the next failure ends the loop. *)
Counted(p) == IF UsedUp(p) THEN attempts[p] ELSE attempts[p] + 1

Retry(p) ==
    /\ pc[p] = "sleeping"
    /\ attempts' = [attempts EXCEPT ![p] = Counted(p)]
    /\ Goto(p, "trying")
    /\ UNCHANGED <<lock, stale>>

(* The callback resolves or rejects.                                       *)
Finish(p) ==
    /\ pc[p] = "holding"
    /\ Goto(p, "releasing")
    /\ UNCHANGED <<lock, stale, attempts>>

(* Mutated: the finally clause is left without a look at the lock.         *)
NotOwned(p) == FALSE

Owned(p) == lock = p

ReadOwn(p) ==
    /\ pc[p] = "releasing"
    /\ Goto(p, IF Owned(p) THEN "removing" ELSE "done")
    /\ UNCHANGED <<lock, stale, attempts>>

RemoveOwn(p) ==
    /\ pc[p] = "removing"
    /\ lock' = NoLock
    /\ stale' = FALSE
    /\ Goto(p, "done")
    /\ UNCHANGED attempts

(* The process dies, or a file system call throws.                         *)
Abandon(p) ==
    /\ pc[p] \in Waiting \cup Owning
    /\ Goto(p, "abandoned")
    /\ UNCHANGED <<lock, stale, attempts>>

(* LOCK_STALE_MS pass.  "Startup is bounded": within that time a process   *)
(* that lives and whose calls succeed has removed its lock, unless         *)
(* MayOverrun.                                                             *)
Age ==
    /\ lock # NoLock
    /\ MayOverrun \/ pc[lock] = "abandoned"
    /\ stale' = TRUE
    /\ UNCHANGED <<lock, pc, attempts>>

Step(p) ==
    \/ Start(p)
    \/ Acquire(p)
    \/ Contend(p)
    \/ CheckStale(p)
    \/ RemoveStale(p)
    \/ Retry(p)
    \/ Finish(p)
    \/ ReadOwn(p)
    \/ RemoveOwn(p)

Next ==
    \/ \E p \in Procs : Step(p) \/ Abandon(p)
    \/ Age

Spec == Init /\ [][Next]_vars

(* A process that lives goes on: file system calls return, timers fire and *)
(* the callback settles.                                                   *)
FairSpec == Spec /\ \A p \in Procs : WF_vars(Step(p))

-----------------------------------------------------------------------------
(* Properties.                                                             *)

(* Every variable has its type.                                            *)
TypeOK ==
    /\ lock \in Procs \cup {NoLock}
    /\ stale \in BOOLEAN
    /\ pc \in [Procs -> Places]
    /\ attempts \in [Procs -> 0 .. MaxAttempts]

(* "Run `callback` while holding an exclusive on-disk lock ... so          *)
(* concurrent instances sharing the directory start up one at a time"      *)
(* (persist-root-lock.ts:89-90).                                           *)
Exclusive ==
    \A p, q \in Procs : pc[p] = "holding" /\ pc[q] = "holding" => p = q

(* As long as no process died and no file system call threw, startups      *)
(* that keep within LOCK_STALE_MS run one at a time, however many wait and *)
(* whenever they look at the age of the lock.                              *)
LiveStartupsAreExclusive ==
    (\A p \in Procs : pc[p] # "abandoned") => Exclusive

(* A call that has returned leaves no lock of its own behind, so that only *)
(* a failed startup makes others wait for LOCK_STALE_MS.                   *)
ReleasedLocksAreGone ==
    lock # NoLock => pc[lock] \in Owning \cup {"abandoned"}

(* "a lock we can never remove fails loudly instead of hanging startup     *)
(* forever" (persist-root-lock.ts:9-10): every call ends.                  *)
EveryStartupEnds ==
    \A p \in Procs : pc[p] = "trying" ~> pc[p] \in Ended
=============================================================================
