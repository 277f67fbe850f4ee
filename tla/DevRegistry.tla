----------------------------- MODULE DevRegistry -----------------------------
(***************************************************************************)
(* The dev registry: sessions of several processes that offer a worker of  *)
(* the same name to each other through a file                              *)
(* (packages/miniflare/src/shared/dev-registry.ts), together with the part *)
(* of Miniflare (packages/miniflare/src/index.ts) that registers and       *)
(* withdraws it: the updates that queue for #runtimeMutex, crashes of the  *)
(* runtime, and dispose.                                                   *)
(*                                                                         *)
(* The operations of the registry are synchronous: within a process        *)
(* nothing else happens during one.  Other processes may act between two   *)
(* of its file system calls, so each call is a step.                       *)
(***************************************************************************)
EXTENDS Naturals, Sequences

CONSTANTS
    Processes,
    None,
    MaxRuntimes,   \* bound: runtimes started
    MaxWaiting,    \* bound: assemblies at once that setOptions adds to
    MaxSleeps      \* bound: times the system sleeps

ASSUME RegistryAssumption ==
    {MaxRuntimes, MaxWaiting, MaxSleeps} \subseteq Nat

(* Debug ports: 0 is none, each runtime has a new one.                     *)
Ports == 0 .. MaxRuntimes

VARIABLES
    file,          \* the entry, whose mtime may be older than WORKER_STALE_MS
    session,       \* how far the life of each process has come
    assemblies,    \* #assembleAndUpdateConfig calls, in the order of #runtimeMutex
    stage,         \* how far the first of them is
    up,            \* whether the runtime of the process runs
    port,          \* the debug port in #socketPorts
    heartbeat,     \* the definition that the heartbeat timer captured
    retry,         \* the definition that the timer in registrationRetries captured
    registered,    \* whether registeredWorkers has the name
    op,            \* the registry operation in progress
    offered,       \* history: whether it wants the name, since its last update
    sleeps, runtimes

instance == <<session, assemblies, stage, up, port, runtimes>>
timers == <<heartbeat, retry, registered, offered>>
vars == <<file, instance, timers, op, sleeps>>

Operation(kind, step, address) ==
    [kind |-> kind, step |-> step, address |-> address, stale |-> FALSE]

Init ==
    /\ file = None
    /\ session = [p \in Processes |-> "new"]
    /\ assemblies = [p \in Processes |-> <<>>]
    /\ stage = [p \in Processes |-> "idle"]
    /\ up = [p \in Processes |-> FALSE]
    /\ port = [p \in Processes |-> 0]
    /\ heartbeat = [p \in Processes |-> 0]
    /\ retry = [p \in Processes |-> 0]
    /\ registered = [p \in Processes |-> FALSE]
    /\ op = [p \in Processes |-> None]
    /\ offered = [p \in Processes |-> FALSE]
    /\ sleeps = 0 /\ runtimes = 0

(* The event loop of the process is free.                                  *)
Alive(p) == session[p] \in {"open", "disposing", "stopping"}
Free(p) == Alive(p) /\ op[p] = None

-----------------------------------------------------------------------------
(* unregisterWorkers: the timers are cleared, then unregister reads the    *)
(* entry and removes it if it is this process's.                           *)

(* Variant for a mutant: the heartbeat goes on.                            *)
ClearRetry(p) ==
    /\ retry' = [retry EXCEPT ![p] = 0]
    /\ heartbeat' = heartbeat

ClearTimers(p) ==
    /\ retry' = [retry EXCEPT ![p] = 0]
    /\ heartbeat' = [heartbeat EXCEPT ![p] = 0]

UnregisterWorkers(p) ==
    /\ ClearTimers(p)
    /\ registered' = [registered EXCEPT ![p] = FALSE]
    /\ offered' = [offered EXCEPT ![p] = FALSE]
    /\ op' = [op EXCEPT ![p] = IF registered[p] THEN Operation("unregister", "read", 0)
                               ELSE None]

(* Miniflare's constructor.                                                *)
Start(p) ==
    /\ session[p] = "new"
    /\ session' = [session EXCEPT ![p] = "open"]
    /\ assemblies' = [assemblies EXCEPT ![p] = <<"init">>]
    /\ UNCHANGED <<file, stage, up, port, timers, op, sleeps, runtimes>>

SetOptions(p) ==
    /\ session[p] = "open"
    /\ Free(p)
    /\ Len(assemblies[p]) < MaxWaiting
    /\ assemblies' = [assemblies EXCEPT ![p] = Append(@, "options")]
    /\ UNCHANGED <<file, session, stage, up, port, timers, op, sleeps, runtimes>>

(* The first assembly stops the runtime and starts another.                *)
AssemblyStarts(p) ==
    /\ Free(p)
    /\ assemblies[p] # <<>> /\ stage[p] = "idle"
    /\ stage' = [stage EXCEPT ![p] = "starting"]
    /\ up' = [up EXCEPT ![p] = FALSE]
    /\ UNCHANGED <<file, session, assemblies, port, timers, op, sleeps, runtimes>>

RuntimeListens(p) ==
    /\ Free(p)
    /\ stage[p] = "starting"
    /\ session[p] = "open"
    /\ runtimes < MaxRuntimes
    /\ runtimes' = runtimes + 1
    /\ stage' = [stage EXCEPT ![p] = "started"]
    /\ up' = [up EXCEPT ![p] = TRUE]
    /\ port' = [port EXCEPT ![p] = runtimes']
    /\ UNCHANGED <<file, session, assemblies, timers, op, sleeps>>

AssemblyEnds(p) ==
    /\ Free(p)
    /\ assemblies' = [assemblies EXCEPT ![p] = Tail(@)]
    /\ stage' = [stage EXCEPT ![p] = "idle"]
    /\ UNCHANGED <<file, session, up, port, sleeps, runtimes>>

(* #registerWorkers, at the end of an assembly: register replaces the      *)
(* retry by a look at the entry.                                           *)
Register(p) ==
    /\ stage[p] = "started"
    /\ AssemblyEnds(p)
    /\ retry' = [retry EXCEPT ![p] = 0]
    /\ op' = [op EXCEPT ![p] = Operation("register", "stat", port[p])]
    /\ offered' = [offered EXCEPT ![p] = TRUE]
    /\ UNCHANGED <<heartbeat, registered>>

(* The runtime does not start, or the inspector cannot be connected.       *)
AssemblyFails(p) ==
    /\ stage[p] \in {"starting", "started"}
    /\ AssemblyEnds(p)
    /\ IF Head(assemblies[p]) = "init" THEN UNCHANGED <<timers, op>>
       ELSE UnregisterWorkers(p)

(* dispose was called meanwhile.                                           *)
AssemblyAborted(p) ==
    /\ stage[p] = "starting"
    /\ session[p] = "disposing"
    /\ AssemblyEnds(p)
    /\ UNCHANGED <<timers, op>>

(* #handleWorkerdCrash: the entry is withdrawn at once; the restart waits  *)
(* for the mutex.                                                          *)
WorkerdCrash(p) ==
    /\ Free(p)
    /\ session[p] = "open"
    /\ up[p]
    /\ up' = [up EXCEPT ![p] = FALSE]
    /\ assemblies' = [assemblies EXCEPT ![p] = Append(@, "crash")]
    /\ UnregisterWorkers(p)
    /\ UNCHANGED <<file, session, stage, port, sleeps, runtimes>>

-----------------------------------------------------------------------------
(* dispose: the mutex drains, the runtime ends, the entry is withdrawn.    *)
Dispose(p) ==
    /\ Free(p)
    /\ session[p] = "open"
    /\ session' = [session EXCEPT ![p] = "disposing"]
    /\ UNCHANGED <<file, assemblies, stage, up, port, timers, op, sleeps, runtimes>>

DisposeRuntime(p) ==
    /\ Free(p)
    /\ session[p] = "disposing"
    /\ assemblies[p] = <<>>
    /\ session' = [session EXCEPT ![p] = "stopping"]
    /\ up' = [up EXCEPT ![p] = FALSE]
    /\ UNCHANGED <<file, assemblies, stage, port, timers, op, sleeps, runtimes>>

Leave(p) ==
    /\ session' = [session EXCEPT ![p] = "left"]
    /\ assemblies' = [assemblies EXCEPT ![p] = <<>>]
    /\ stage' = [stage EXCEPT ![p] = "idle"]
    /\ up' = [up EXCEPT ![p] = FALSE]
    /\ UNCHANGED <<port, runtimes>>
    /\ UnregisterWorkers(p)

DisposeEnds(p) ==
    /\ Free(p)
    /\ session[p] = "stopping"
    /\ Leave(p)
    /\ UNCHANGED <<file, sleeps>>

(* A signal or process.exit: the exit hook withdraws the entry.            *)
Exit(p) ==
    /\ Free(p)
    /\ Leave(p)
    /\ UNCHANGED <<file, sleeps>>

(* The process is killed, perhaps between two calls, with what it runs.    *)
Kill(p) ==
    /\ Alive(p)
    /\ session' = [session EXCEPT ![p] = "killed"]
    /\ assemblies' = [assemblies EXCEPT ![p] = <<>>]
    /\ stage' = [stage EXCEPT ![p] = "idle"]
    /\ up' = [up EXCEPT ![p] = FALSE]
    /\ heartbeat' = [heartbeat EXCEPT ![p] = 0]
    /\ retry' = [retry EXCEPT ![p] = 0]
    /\ registered' = [registered EXCEPT ![p] = FALSE]
    /\ offered' = [offered EXCEPT ![p] = FALSE]
    /\ op' = [op EXCEPT ![p] = None]
    /\ UNCHANGED <<file, port, sleeps, runtimes>>

-----------------------------------------------------------------------------
(* Timers, and the watcher of the directory.                               *)
Begin(p, operation) ==
    /\ Free(p)
    /\ op' = [op EXCEPT ![p] = operation]
    /\ UNCHANGED <<file, instance, heartbeat, registered, offered, sleeps>>

HeartbeatFires(p) ==
    /\ heartbeat[p] # 0
    /\ Begin(p, Operation("heartbeat", "stat", heartbeat[p]))
    /\ UNCHANGED retry

RetryFires(p) ==
    /\ retry[p] # 0
    /\ Begin(p, Operation("register", "stat", retry[p]))
    /\ retry' = [retry EXCEPT ![p] = 0]

(* getWorkerRegistry; it changes nothing while the entry is fresh.         *)
Sweep(p) ==
    /\ file # None /\ file.stale
    /\ Begin(p, Operation("sweep", "stat", 0))
    /\ UNCHANGED retry

(* The last heartbeat was WORKER_STALE_MS ago.                             *)
GoesStale ==
    /\ file # None /\ ~ file.stale
    /\ heartbeat[file.owner] = 0
    /\ file' = [file EXCEPT !.stale = TRUE]
    /\ UNCHANGED <<instance, timers, op, sleeps>>

SystemSleep ==
    /\ sleeps < MaxSleeps
    /\ sleeps' = sleeps + 1
    /\ file # None
    /\ file' = [file EXCEPT !.stale = TRUE]
    /\ UNCHANGED <<instance, timers, op>>

-----------------------------------------------------------------------------
(* The file system calls of the operations.                                *)
Goto(p, step) == op' = [op EXCEPT ![p].step = step]

(* registerWorker is followed by refresh, which sweeps.                    *)
Done(p) ==
    op' = [op EXCEPT ![p] = IF @.kind = "register" THEN Operation("sweep", "stat", 0)
                            ELSE None]

Owned(p) == file # None /\ file.owner = p

Call(p, step) ==
    /\ op[p] # None
    /\ op[p].step = step
    /\ UNCHANGED sleeps

(* statSync of registerWorker and getWorkerRegistry, existsSync of the     *)
(* heartbeat.                                                              *)
Stat(p) ==
    /\ Call(p, "stat")
    /\ \/ /\ file = None
          /\ IF op[p].kind = "sweep" THEN Done(p) ELSE Goto(p, "write")
       \/ /\ file # None
          /\ op' = [op EXCEPT ![p].step = "read", ![p].stale = file.stale]
    /\ UNCHANGED <<file, instance, timers>>

(* Variant for a mutant: the registration is skipped for good.             *)
Skip(p) == UNCHANGED retry

TryLater(p) == retry' = [retry EXCEPT ![p] = op[p].address]

(* readDefinition in registerWorker: an expired entry is replaced, one of  *)
(* another process is waited for.                                          *)
ReadToRegister(p) ==
    /\ Call(p, "read")
    /\ op[p].kind = "register"
    /\ \/ op[p].stale /\ Goto(p, "unlink") /\ UNCHANGED retry
       \/ ~ op[p].stale /\ Owned(p) /\ Goto(p, "write") /\ UNCHANGED retry
       \/ ~ op[p].stale /\ ~ Owned(p) /\ TryLater(p) /\ Done(p)
    /\ UNCHANGED <<file, instance, heartbeat, registered, offered>>

ReadToSweep(p) ==
    /\ Call(p, "read")
    /\ op[p].kind = "sweep"
    /\ IF file # None /\ op[p].stale THEN Goto(p, "unlink") ELSE Done(p)
    /\ UNCHANGED <<file, instance, timers>>

ReadToUnregister(p) ==
    /\ Call(p, "read")
    /\ op[p].kind = "unregister"
    /\ IF Owned(p) THEN Goto(p, "unlink") ELSE Done(p)
    /\ UNCHANGED <<file, instance, timers>>

(* The heartbeat stops when the entry is not, or no longer, its own.       *)
ReadToTouch(p) ==
    /\ Call(p, "read")
    /\ op[p].kind = "heartbeat"
    /\ \/ Owned(p) /\ Goto(p, "touch") /\ UNCHANGED heartbeat
       \/ ~ Owned(p) /\ Done(p) /\ heartbeat' = [heartbeat EXCEPT ![p] = 0]
    /\ UNCHANGED <<file, instance, retry, registered, offered>>

Unlink(p) ==
    /\ Call(p, "unlink")
    /\ file' = None
    /\ IF op[p].kind = "register" THEN Goto(p, "write") ELSE Done(p)
    /\ UNCHANGED <<instance, timers>>

Entry(p) == [owner |-> p, address |-> op[p].address, stale |-> FALSE]

(* writeWorkerDefinition, and a new heartbeat when it is a registration.   *)
Write(p) ==
    /\ Call(p, "write")
    /\ file' = Entry(p)
    /\ Done(p)
    /\ IF op[p].kind = "heartbeat" THEN UNCHANGED <<heartbeat, retry, registered>>
       ELSE /\ retry' = [retry EXCEPT ![p] = 0]
            /\ heartbeat' = [heartbeat EXCEPT ![p] = op[p].address]
            /\ registered' = [registered EXCEPT ![p] = TRUE]
    /\ UNCHANGED <<instance, offered>>

Touch(p) ==
    /\ Call(p, "touch")
    /\ file # None
    /\ file' = [file EXCEPT !.stale = FALSE]
    /\ Done(p)
    /\ UNCHANGED <<instance, timers>>

(* utimesSync throws in a timer's callback, which ends the process.        *)
TouchThrows(p) ==
    /\ Call(p, "touch")
    /\ file = None
    /\ Leave(p)
    /\ UNCHANGED file

-----------------------------------------------------------------------------
Lifecycle(p) ==
    \/ Start(p) \/ SetOptions(p) \/ WorkerdCrash(p)
    \/ Dispose(p) \/ Exit(p) \/ Kill(p)

Progress(p) ==
    \/ AssemblyStarts(p) \/ RuntimeListens(p) \/ Register(p)
    \/ AssemblyFails(p) \/ AssemblyAborted(p)
    \/ DisposeRuntime(p) \/ DisposeEnds(p)

Calls(p) ==
    \/ Stat(p) \/ Unlink(p) \/ Write(p) \/ Touch(p) \/ TouchThrows(p)
    \/ ReadToRegister(p) \/ ReadToSweep(p) \/ ReadToUnregister(p) \/ ReadToTouch(p)

Next ==
    \/ \E p \in Processes :
         Lifecycle(p) \/ Progress(p) \/ Calls(p)
           \/ HeartbeatFires(p) \/ RetryFires(p) \/ Sweep(p)
    \/ GoesStale \/ SystemSleep

Spec == Init /\ [][Next]_vars

(* A process that lives goes on with its operation, and its timers fire    *)
(* again and again; time passes.  Nobody has to start, update or end a     *)
(* session, and no runtime has to come up.                                 *)
Fairness ==
    /\ \A p \in Processes :
         /\ WF_vars(Calls(p)) /\ SF_vars(RetryFires(p))
    /\ WF_vars(GoesStale)

FairSpec == Spec /\ Fairness

(* A process that lives also sends its heartbeats.                         *)
TimelySpec == FairSpec /\ \A p \in Processes : SF_vars(HeartbeatFires(p))

-----------------------------------------------------------------------------
Entries == [owner : Processes, address : Ports, stale : BOOLEAN]
Operations == [kind : {"register", "sweep", "unregister", "heartbeat"},
               step : {"stat", "read", "unlink", "write", "touch"},
               address : Ports, stale : BOOLEAN]

ASSUME NoneAssumption == None \notin Entries \cup Operations

TypeOK ==
    /\ file \in Entries \cup {None}
    /\ session \in [Processes -> {"new", "open", "disposing", "stopping", "left", "killed"}]
    /\ assemblies \in [Processes -> Seq({"init", "options", "crash"})]
    /\ stage \in [Processes -> {"idle", "starting", "started"}]
    /\ up \in [Processes -> BOOLEAN]
    /\ port \in [Processes -> Ports]
    /\ heartbeat \in [Processes -> Ports] /\ retry \in [Processes -> Ports]
    /\ registered \in [Processes -> BOOLEAN]
    /\ op \in [Processes -> Operations \cup {None}]
    /\ offered \in [Processes -> BOOLEAN]
    /\ sleeps \in 0 .. MaxSleeps /\ runtimes \in Ports

Settled(p) == op[p] = None /\ assemblies[p] = <<>>

(* An entry of a session that is open is that of a runtime that runs, and  *)
(* a session that has left has no entry: whatever reloads, crashes,        *)
(* retries and heartbeats overlapped, and whoever removed or replaced the  *)
(* entry between two calls.  The address is the current one, or else a     *)
(* timer is about to correct it: a heartbeat that outlived a refused       *)
(* registration may have put back the definition it captured.              *)
EntriesAreTruthful ==
    /\ TypeOK
    /\ file # None /\ session[file.owner] \in {"open", "left"} /\ Settled(file.owner) =>
         /\ registered[file.owner]
         /\ up[file.owner]
         /\ port[file.owner] \in {file.address, retry[file.owner]}

(* dev-registry.spec.ts, "registers after a conflicting entry becomes      *)
(* stale": a session that found the name taken does not wait for ever,     *)
(* unless a session that lives holds it.  The entries of sessions that     *)
(* were killed do not stand in its way, whoever sweeps them.               *)
WaitingSessionsGetTheName ==
    \A p \in Processes :
        LET waiting == offered[p] /\ ~ registered[p]
            held == file # None /\ heartbeat[file.owner] # 0
        IN  []<>(~ waiting \/ held)

(* The heartbeat: "Stale cleanup may remove a live Worker's entry after    *)
(* system sleep.  Recreate it so peers can discover this Worker again."    *)
(* The code breaks this: when the entry goes between existsSync and        *)
(* readDefinition, the heartbeat takes it for another process's and stops. *)
RegisteredSessionsAreListed ==
    \A p \in Processes :
        <>[](session[p] = "open" /\ registered[p] /\ assemblies[p] = <<>>)
          => []<>(file # None)

-----------------------------------------------------------------------------
(* The invariant that steps keep, part by part and process by process.     *)
Does(p, kinds) == op[p] # None /\ op[p].kind \in kinds
Silent(p) == ~ registered[p] /\ heartbeat[p] = 0 /\ retry[p] = 0

(* Only a registration or a heartbeat writes an entry, only a heartbeat    *)
(* touches one, and heartbeats are those of a registered worker.           *)
OperationsInv(p) ==
    /\ op[p] # None /\ op[p].step = "stat" => op[p].kind # "unregister"
    /\ op[p] # None /\ op[p].step = "write" => op[p].kind \in {"register", "heartbeat"}
    /\ op[p] # None /\ op[p].step = "touch" => op[p].kind = "heartbeat"
    /\ heartbeat[p] # 0 \/ Does(p, {"heartbeat"}) => registered[p]

(* An entry of a process that is not registered is being withdrawn.        *)
WithdrawnInv(p) ==
    /\ Owned(p) /\ ~ registered[p] /\ session[p] # "killed" => Does(p, {"unregister"})
    /\ session[p] = "new" => Silent(p) /\ op[p] = None /\ assemblies[p] = <<>>
    /\ session[p] = "left" => Silent(p) /\ (op[p] = None \/ Does(p, {"unregister"}))
    /\ session[p] = "killed" => op[p] = None

(* Nothing is registered before the first assembly has ended, nor after    *)
(* the last one while no runtime runs: a crash queues another assembly.    *)
AssembliesInv(p) ==
    /\ \A i \in DOMAIN assemblies[p] : assemblies[p][i] = "init" => i = 1
    /\ stage[p] # "idle" => assemblies[p] # <<>>
    /\ stage[p] = "started" /\ Len(assemblies[p]) = 1 => up[p]
    /\ assemblies[p] # <<>> /\ Head(assemblies[p]) = "init" =>
            Silent(p) /\ (op[p] = None \/ Does(p, {"sweep"}))
    /\ session[p] = "open" /\ assemblies[p] = <<>> /\ ~ up[p] =>
            Silent(p) /\ (op[p] = None \/ Does(p, {"unregister", "sweep"}))

(* With no assembly to come, whatever puts the entry back puts back the    *)
(* current address, or a retry with that address is to come.               *)
AddressInv(p) ==
    session[p] = "open" /\ assemblies[p] = <<>> =>
        /\ Does(p, {"register"}) => op[p].address = port[p]
        /\ retry[p] \in {0, port[p]}
        /\ Does(p, {"heartbeat"}) => port[p] \in {op[p].address, retry[p]}
        /\ heartbeat[p] # 0 /\ ~ Does(p, {"register"}) => port[p] \in {heartbeat[p], retry[p]}
        /\ Owned(p) /\ ~ Does(p, {"register", "unregister"}) =>
                port[p] \in {file.address, retry[p]}

ProcessInv(p) == OperationsInv(p) /\ WithdrawnInv(p) /\ AssembliesInv(p) /\ AddressInv(p)

RegistryInv == TypeOK /\ \A p \in Processes : ProcessInv(p)
=============================================================================
