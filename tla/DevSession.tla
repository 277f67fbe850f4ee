----------------------------- MODULE DevSession -----------------------------
(***************************************************************************)
(* A session of `wrangler dev` with a custom build: the controllers that   *)
(* DevEnv connects (packages/wrangler/src/api/startDevWorker) and the      *)
(* ProxyWorker that keeps the requests of clients while the user's worker  *)
(* is replaced (packages/wrangler/templates/startDevWorker).               *)
(*                                                                         *)
(*   config -> BundlerController -> LocalRuntimeController -> ProxyWorker  *)
(*                                                                         *)
(* What JavaScript does between two awaits is one step; DevEnv.dispatch is *)
(* synchronous, so an event and its handlers are part of the step that     *)
(* emits it.                                                               *)
(***************************************************************************)
EXTENDS Naturals, Sequences, FiniteSets

CONSTANTS
    Requests,      \* requests of clients
    None,
    MaxRetries,    \* MAX_NETWORK_CONNECTION_RETRIES
    SendRetries,   \* the retries of sendMessageToProxyWorker
    MaxConfigs, MaxEdits,      \* bounds of the instance
    MaxStarting,   \* configurations that await the old watcher at once
    MaxLosses,     \* connections that a running worker loses
    MaxSendFailures    \* messages to the ProxyWorker that fail

ASSUME SessionAssumption ==
    /\ {MaxRetries, SendRetries, MaxConfigs, MaxEdits, MaxStarting, MaxLosses,
        MaxSendFailures} \subseteq Nat
    /\ MaxEdits # 0

Configs == 1 .. MaxConfigs
Builds == [config : Configs, from : 1 .. MaxEdits, aborted : BOOLEAN]
Data == [config : Configs, disk : 1 .. MaxEdits, server : Nat]

ASSUME NoneAssumption == None \notin Configs \cup Builds \cup Data

VARIABLES
    config, disk,  \* the latest configuration; the version of the sources
    (* BundlerController *)
    starting,      \* #startCustomBuild calls that await the old watcher
    watch,         \* the watcher of each configuration
    watcher,       \* #customBuildWatcher: the configuration of it
    armed,         \* configurations with a debounced build
    pending,       \* #pendingCustomBuild: its configuration
    running,       \* the build that #drainCustomBuilds awaits
    (* LocalRuntimeController and its Miniflare *)
    currentBundleId,
    jobs,          \* #onBundleComplete calls, in the order of #mutex
    reloading,     \* whether the first of them awaits Miniflare
    server,        \* the runtime process: its number, and whether it is up
    (* ProxyController *)
    messages,      \* the queue of runtimeMessageMutex
    (* ProxyWorker *)
    proxyData,
    retryable,     \* requests with method GET or HEAD
    place,         \* where each request is
    target,        \* the process it was sent to
    connectionRetries,         \* networkConnectionRetries
    (* what the properties and bounds remember *)
    sends,         \* how often a request was sent to its target
    announced,     \* the newest bundle whose reloadStart pause has arrived
    broken,        \* the latest build or reload has failed
    losses, sendFailures

bundler == <<starting, watch, watcher, armed, pending, running>>
runtime == <<currentBundleId, jobs, reloading, server>>
requests == <<retryable, place, target, connectionRetries, sends>>
vars == <<config, disk, bundler, runtime, messages, proxyData, requests,
          announced, broken, losses, sendFailures>>

(* Variant for a mutant: the new requests are forgotten.                   *)
OnlyRetries == {"retrying"}

(* requestRetryQueue and requestQueue, as getOrderedQueue yields them.     *)
Held == {"queued", "retrying"}
Places == Held \cup {"idle", "sent", "answered", "failed"}

Init ==
    /\ config = 0 /\ disk = 1
    /\ starting = <<>> /\ watch = [c \in Configs |-> "none"] /\ watcher = None
    /\ armed = {} /\ pending = None /\ running = None
    /\ currentBundleId = 0 /\ jobs = <<>> /\ reloading = FALSE
    /\ server = [number |-> 0, up |-> FALSE]
    /\ messages = <<>> /\ proxyData = None
    /\ retryable \in SUBSET Requests
    /\ place = [r \in Requests |-> "idle"] /\ target = [r \in Requests |-> 0]
    /\ connectionRetries = [r \in Requests |-> 0]
    /\ sends = [r \in Requests |-> 0]
    /\ announced = 0 /\ broken = FALSE
    /\ losses = 0 /\ sendFailures = 0

(* sendMessageToProxyWorker: `data` is None for a pause; `id` is the bundle *)
(* whose reloadStart a pause belongs to, if any.                           *)
Message(data, id) == [data |-> data, id |-> id, left |-> SendRetries]
Pause == Message(None, 0)

(* Variant for a mutant: messages without a mutex.                         *)
SendAnywhere(m) == messages' \in {Append(messages, m), <<m>> \o messages}

Send(m) == messages' = Append(messages, m)

-----------------------------------------------------------------------------
(* ConfigController.#updateConfig has resolved a configuration:            *)
(* #startCustomBuild closes the watcher and awaits that.                   *)
UnchangedByBundler == UNCHANGED <<runtime, proxyData, requests, announced,
                                  losses, sendFailures>>

Closing(w) == IF w = None THEN watch ELSE [watch EXCEPT ![w] = "closing"]

ConfigUpdate ==
    /\ config < MaxConfigs /\ Len(starting) < MaxStarting
    /\ config' = config + 1
    /\ starting' = Append(starting, config')
    /\ watch' = Closing(watcher)
    /\ Send(Pause)
    /\ UNCHANGED <<disk, watcher, armed, pending, running, broken>>
    /\ UnchangedByBundler

Aborted == IF running = None THEN None ELSE [running EXCEPT !.aborted = TRUE]

(* The rest of it: what the previous configuration has scheduled is        *)
(* discarded and a new watcher takes the place of the last one.            *)
StartCustomBuild ==
    /\ starting # <<>>
    /\ LET c == Head(starting)
       IN  /\ watch' = [d \in Configs |-> IF d = c THEN "starting"
                                          ELSE IF watch[d] = "closing" THEN "closed"
                                          ELSE watch[d]]
           /\ watcher' = c
    /\ starting' = Tail(starting)
    /\ armed' = armed \ {watcher}
    /\ pending' = None
    /\ running' = Aborted
    /\ UNCHANGED <<config, disk, messages, broken>>
    /\ UnchangedByBundler

(* #scheduleCustomBuild: the build in flight is aborted, the one that      *)
(* waits is replaced.                                                      *)
Schedule(c) ==
    /\ running' = Aborted
    /\ pending' = c

WatcherReady(c) ==
    /\ watch[c] = "starting"
    /\ watch' = [watch EXCEPT ![c] = "ready"]
    /\ Schedule(c)
    /\ UNCHANGED <<config, disk, starting, watcher, armed, messages, broken>>
    /\ UnchangedByBundler

(* The watchers that are open, and perhaps one that closes, see the change *)
(* and debounce it.                                                        *)
Edit ==
    /\ disk < MaxEdits
    /\ disk' = disk + 1
    /\ \E late \in SUBSET {c \in Configs : watch[c] = "closing"} :
         armed' = armed \cup late \cup {c \in Configs : watch[c] = "ready"}
    /\ UNCHANGED <<config, starting, watch, watcher, pending, running,
                   messages, broken>>
    /\ UnchangedByBundler

DebounceEnds(c) ==
    /\ c \in armed
    /\ armed' = armed \ {c}
    /\ Schedule(c)
    /\ UNCHANGED <<config, disk, starting, watch, watcher, messages, broken>>
    /\ UnchangedByBundler

(* #drainCustomBuilds takes the pending build; bundleStart pauses.         *)
BuildStarts ==
    /\ running = None
    /\ pending # None
    /\ running' = [config |-> pending, from |-> disk, aborted |-> FALSE]
    /\ pending' = None
    /\ Send(Pause)
    /\ UNCHANGED <<config, disk, starting, watch, watcher, armed, broken>>
    /\ UnchangedByBundler

BuildEnds ==
    /\ running # None
    /\ running' = None
    /\ UNCHANGED <<config, disk, starting, watch, watcher, armed, pending>>

AbortedBuildEnds ==
    /\ BuildEnds
    /\ running.aborted
    /\ UNCHANGED <<messages, broken>>
    /\ UnchangedByBundler

BuildFails ==
    /\ BuildEnds
    /\ ~ running.aborted
    /\ broken' = TRUE
    /\ UNCHANGED messages
    /\ UnchangedByBundler

(* bundleComplete: the bundle has the sources as they were at some time of *)
(* the build.  LocalRuntimeController.onBundleComplete emits reloadStart,  *)
(* which pauses, and queues the reload.                                    *)
BuildSucceeds ==
    /\ BuildEnds
    /\ ~ running.aborted
    /\ currentBundleId' = currentBundleId + 1
    /\ \E d \in running.from .. disk :
         jobs' = Append(jobs, [id |-> currentBundleId',
                               config |-> running.config, disk |-> d])
    /\ Send(Message(None, currentBundleId'))
    /\ broken' = FALSE
    /\ UNCHANGED <<reloading, server, proxyData, requests, announced, losses,
                   sendFailures>>

-----------------------------------------------------------------------------
(* LocalRuntimeController.#onBundleComplete, with #mutex held.             *)
NeverStale(job) == FALSE   \* variant for a mutant

Stale(job) == job.id # currentBundleId

UnchangedByRuntime == UNCHANGED <<config, disk, bundler, currentBundleId,
                                  proxyData, requests, announced,
                                  losses, sendFailures>>

(* A bundle that is overtaken while its options are prepared.              *)
SkipBundle ==
    /\ jobs # <<>> /\ ~ reloading
    /\ Stale(Head(jobs))
    /\ jobs' = Tail(jobs)
    /\ UNCHANGED <<reloading, server, messages, broken>>
    /\ UnchangedByRuntime

(* Miniflare.setOptions ends the running process.                          *)
ReloadStarts ==
    /\ jobs # <<>> /\ ~ reloading
    /\ ~ Stale(Head(jobs))
    /\ reloading' = TRUE
    /\ server' = [number |-> server.number + 1, up |-> FALSE]
    /\ UNCHANGED <<jobs, messages, broken>>
    /\ UnchangedByRuntime

(* The new process listens on a port of its own.  Nobody hears of it when  *)
(* a newer bundle is there.                                                *)
ReloadEnds ==
    /\ reloading
    /\ reloading' = FALSE
    /\ server' = [server EXCEPT !.up = TRUE]
    /\ LET job == Head(jobs)
           data == [config |-> job.config, disk |-> job.disk, server |-> server.number]
       IN  IF Stale(job) THEN UNCHANGED messages ELSE Send(Message(data, job.id))
    /\ jobs' = Tail(jobs)
    /\ UNCHANGED broken
    /\ UnchangedByRuntime

(* An error is reported; the proxy stays paused.                           *)
ReloadFails ==
    /\ jobs # <<>>
    /\ reloading' = FALSE
    /\ broken' = (broken \/ ~ Stale(Head(jobs)))
    /\ jobs' = Tail(jobs)
    /\ UNCHANGED <<server, messages>>
    /\ UnchangedByRuntime

-----------------------------------------------------------------------------
(* ProxyWorker.processQueue with the requests where `at` says: all that    *)
(* are held are sent to the worker of `data`.                              *)
ProcessQueue(data, at) ==
    LET out == {r \in Requests : data # None /\ at[r] \in Held}
    IN  /\ place' = [r \in Requests |-> IF r \in out THEN "sent" ELSE at[r]]
        /\ target' = [r \in Requests |-> IF r \in out THEN data.server ELSE target[r]]
        /\ sends' = [r \in Requests |->
                        IF r \notin out THEN sends[r]
                        ELSE IF target[r] = data.server THEN sends[r] + 1 ELSE 1]

(* processProxyControllerRequest.                                          *)
Handle(m) ==
    /\ proxyData' = m.data
    /\ ProcessQueue(m.data, place)
    /\ announced' = IF m.id > announced THEN m.id ELSE announced
    /\ UNCHANGED <<retryable, connectionRetries>>

UnchangedByMessage == UNCHANGED <<config, disk, bundler, runtime, broken, losses>>

Deliver ==
    /\ messages # <<>>
    /\ Handle(Head(messages))
    /\ messages' = Tail(messages)
    /\ UNCHANGED sendFailures
    /\ UnchangedByMessage

(* The request that carries the message fails, before or after it has been *)
(* handled: the message is sent again, behind those that wait.             *)
MessageFails ==
    /\ messages # <<>>
    /\ sendFailures < MaxSendFailures
    /\ sendFailures' = sendFailures + 1
    /\ LET m == Head(messages)
       IN  /\ \/ Handle(m)
              \/ UNCHANGED <<proxyData, requests, announced>>
           /\ messages' = IF m.left = 0 THEN Tail(messages)
                          ELSE Append(Tail(messages), [m EXCEPT !.left = @ - 1])
    /\ UnchangedByMessage

UnchangedByRequest == UNCHANGED <<config, disk, bundler, runtime, messages,
                                  proxyData, retryable, announced, broken,
                                  sendFailures>>

(* A request comes in.                                                     *)
Fetch(r) ==
    /\ place[r] = "idle"
    /\ ProcessQueue(proxyData, [place EXCEPT ![r] = "queued"])
    /\ UNCHANGED <<connectionRetries, losses>>
    /\ UnchangedByRequest

Reachable(r) == server.up /\ server.number = target[r]

Settle(r, outcome) ==
    /\ place' = [place EXCEPT ![r] = outcome]
    /\ connectionRetries' = [connectionRetries EXCEPT ![r] = 0]
    /\ UNCHANGED <<target, sends>>

Answer(r) ==
    /\ place[r] = "sent"
    /\ Reachable(r)
    /\ Settle(r, "answered")
    /\ UNCHANGED losses
    /\ UnchangedByRequest

(* fetch rejects: the process it was sent to is gone, or the connection is *)
(* lost.                                                                   *)
Rejected(r) ==
    /\ place[r] = "sent"
    /\ \/ ~ Reachable(r) /\ UNCHANGED losses
       \/ Reachable(r) /\ losses < MaxLosses /\ losses' = losses + 1

TargetsCurrentWorker(r) == proxyData # None /\ proxyData.server = target[r]

(* Variant for a mutant: one retry too many.                               *)
RetryLeft(r) == connectionRetries[r] <= MaxRetries

RetriesLeft(r) == connectionRetries[r] < MaxRetries

(* "Network connection lost." of the current worker.                       *)
RetryConnection(r) ==
    /\ Rejected(r)
    /\ TargetsCurrentWorker(r)
    /\ r \in retryable
    /\ RetriesLeft(r)
    /\ connectionRetries' = [connectionRetries EXCEPT ![r] = @ + 1]
    /\ ProcessQueue(proxyData, [place EXCEPT ![r] = "retrying"])
    /\ UnchangedByRequest

(* Any other error of the current worker, or no retry is left, or the      *)
(* client has gone.                                                        *)
GiveUp(r) ==
    /\ Rejected(r)
    /\ TargetsCurrentWorker(r)
    /\ Settle(r, "failed")
    /\ UnchangedByRequest

(* A stale error: the request waits for the next worker.                   *)
Requeue(r) ==
    /\ Rejected(r)
    /\ ~ TargetsCurrentWorker(r)
    /\ Settle(r, IF r \in retryable THEN "retrying" ELSE "failed")
    /\ UnchangedByRequest

-----------------------------------------------------------------------------
Bundler ==
    \/ StartCustomBuild \/ BuildStarts
    \/ \E c \in Configs : WatcherReady(c) \/ DebounceEnds(c)
    \/ AbortedBuildEnds \/ BuildFails \/ BuildSucceeds

Runtime == SkipBundle \/ ReloadStarts \/ ReloadEnds \/ ReloadFails

Transport(r) == Answer(r) \/ RetryConnection(r) \/ GiveUp(r) \/ Requeue(r)

Next ==
    \/ ConfigUpdate \/ Edit
    \/ Bundler
    \/ Runtime
    \/ Deliver \/ MessageFails
    \/ \E r \in Requests : Fetch(r) \/ Transport(r)

Spec == Init /\ [][Next]_vars

(* Builds end, timers fire and messages arrive; nobody has to edit a file, *)
(* no request has to come in and no worker has to answer.                  *)
Fairness ==
    /\ WF_vars(Bundler)
    /\ WF_vars(Runtime)
    /\ WF_vars(Deliver)

FairSpec == Spec /\ Fairness

-----------------------------------------------------------------------------
TypeOK ==
    /\ config \in 0 .. MaxConfigs /\ disk \in 1 .. MaxEdits
    /\ starting \in Seq(Configs) /\ watcher \in Configs \cup {None}
    /\ watch \in [Configs -> {"none", "starting", "ready", "closing", "closed"}]
    /\ armed \subseteq Configs /\ pending \in Configs \cup {None}
    /\ running \in Builds \cup {None}
    /\ currentBundleId \in Nat /\ reloading \in BOOLEAN
    /\ jobs \in Seq([id : Nat, config : Configs, disk : 1 .. MaxEdits])
    /\ server \in [number : Nat, up : BOOLEAN]
    /\ messages \in Seq([data : Data \cup {None}, id : Nat, left : 0 .. SendRetries])
    /\ proxyData \in Data \cup {None}
    /\ retryable \subseteq Requests /\ place \in [Requests -> Places] /\ target \in [Requests -> Nat]
    /\ connectionRetries \in [Requests -> 0 .. MaxRetries]
    /\ sends \in [Requests -> Nat]
    /\ announced \in Nat /\ broken \in BOOLEAN
    /\ losses \in 0 .. MaxLosses /\ sendFailures \in 0 .. MaxSendFailures

(* Nothing is on its way from the configuration to the proxy.              *)
Settled ==
    /\ config > 0
    /\ starting = <<>> /\ \A c \in Configs : watch[c] # "starting"
    /\ armed = {} /\ pending = None /\ running = None
    /\ jobs = <<>> /\ messages = <<>>

(* Once a session has come to rest, the proxy sends requests to the        *)
(* process that runs, never to one that has gone; and unless the last      *)
(* build has failed that process has the latest sources and configuration, *)
(* however the edits, builds, reloads and messages were interleaved.  Not  *)
(* so after a message had to be sent again: a pause may then come behind   *)
(* the play that was to end it.                                            *)
SettledSessionIsCurrent ==
    /\ TypeOK
    /\ Settled /\ sendFailures = 0 =>
         /\ proxyData # None => server.up /\ proxyData.server = server.number
         /\ ~ broken => /\ proxyData # None
                        /\ proxyData.config = config
                        /\ proxyData.disk = disk

(* When the proxy has been told that a bundle is reloading, it plays no    *)
(* older one again: the reloads that were overtaken are silent, and        *)
(* messages arrive in the order in which they were sent.                   *)
ProxyNeverGoesBack ==
    [][sendFailures' = 0 /\ proxyData' # None /\ proxyData' # proxyData =>
          \A m \in {Head(messages)} : m.id >= announced]_vars

(* The code of a worker sees a request that may be repeated at most        *)
(* MaxRetries times again, and any other one once, whatever reloads and    *)
(* lost connections come between (networkConnectionRetries is forgotten    *)
(* when a request moves to the next worker).                               *)
SendsAreBounded ==
    \A r \in Requests :
        /\ r \notin retryable => sends[r] <= 1
        /\ sendFailures = 0 => sends[r] <= 1 + MaxRetries

(* Requests that came in while the proxy was paused are sent to a worker,  *)
(* unless the build is broken or a message had to be sent again.           *)
Queued == {r \in Requests : place[r] = "queued"}
QueuedRequestsAreSent ==
    Queued # {} /\ config > 0 ~> Queued = {} \/ broken \/ sendFailures > 0

(* ProxyWorker.ts: a request is put back for a retry only "in a `pause`d   *)
(* state and expecting a `play` message soon".  The code breaks this: the  *)
(* error of the old worker may come after the play of the new one, and the *)
(* request then waits until somebody makes another one.                    *)
RetriesExpectPlay ==
    \A r \in Requests : place[r] \in Held => proxyData = None

-----------------------------------------------------------------------------
(* The invariant that steps keep.  Most of it is about sessions in which   *)
(* no message had to be sent again.                                        *)
Undisturbed == sendFailures = 0

(* The reloads that wait are in the order of their bundles, and the last   *)
(* of them has the latest.                                                 *)
JobsInv ==
    /\ \A i, j \in DOMAIN jobs : i < j => jobs[i].id < jobs[j].id
    /\ jobs # <<>> => jobs[Len(jobs)].id = currentBundleId
    /\ reloading => jobs # <<>> /\ ~ server.up

(* The process that runs, or that is being started, is the newest.         *)
Started(n) == IF reloading THEN n < server.number ELSE n <= server.number
ServersInv ==
    /\ proxyData # None => Started(proxyData.server)
    /\ \A r \in Requests : Started(target[r])
    /\ \A i \in DOMAIN messages :
          messages[i].data # None => Started(messages[i].data.server)

(* A play on its way is news: of a bundle that is not older than those     *)
(* announced before it, and of a process that nothing was sent to.         *)
PlaysInv ==
    /\ announced <= currentBundleId
    /\ \A i \in DOMAIN messages : messages[i].id <= currentBundleId
    /\ Undisturbed => \A i \in DOMAIN messages : messages[i].data # None =>
         /\ announced <= messages[i].id
         /\ proxyData # None => proxyData.server < messages[i].data.server
         /\ \A r \in Requests : target[r] < messages[i].data.server
         /\ \A j \in 1 .. (i - 1) :
               /\ messages[j].id <= messages[i].id
               /\ messages[j].data # None =>
                     messages[j].data.server < messages[i].data.server

(* A request that waits to be sent again was not sent to the worker that   *)
(* the proxy has; one that was sent has been sent as often as it counts.   *)
RequestsInv == \A r \in Requests :
    /\ place[r] \in {"idle", "queued"} => sends[r] = 0
    /\ place[r] = "retrying" => r \in retryable
    /\ r \notin retryable => sends[r] <= 1
    /\ place[r] # "sent" => connectionRetries[r] = 0
    /\ Undisturbed =>
         /\ place[r] = "sent" => sends[r] <= 1 + connectionRetries[r]
         /\ sends[r] <= 1 + MaxRetries
         /\ place[r] = "retrying" /\ proxyData # None => target[r] # proxyData.server

(* What the proxy has when the messages have arrived: nothing while a      *)
(* reload is to come.                                                      *)
Outcome == IF messages = <<>> THEN proxyData ELSE messages[Len(messages)].data
OutcomeInv ==
    Undisturbed /\ Outcome # None =>
        jobs = <<>> /\ server.up /\ Outcome.server = server.number

SessionInv ==
    /\ TypeOK
    /\ JobsInv
    /\ ServersInv
    /\ PlaysInv
    /\ RequestsInv
    /\ OutcomeInv

(* While one configuration at a time awaits the old watcher, all that is   *)
(* scheduled is of the watcher in use, which is that of the latest         *)
(* configuration unless that one is still to come.                         *)
WatchersInv ==
    /\ starting \in {<<>>, <<config>>}
    /\ starting # <<>> => config > 0
    /\ config > 0 /\ starting = <<>> =>
          watcher = config /\ watch[config] \in {"starting", "ready"}
    /\ \A c \in Configs :
          /\ watch[c] \in {"starting", "ready"} => c = config /\ starting = <<>>
          /\ watch[c] = "closing" => c = watcher
    /\ armed \subseteq {watcher}
    /\ pending \in {watcher, None}
    /\ running # None => running.aborted \/ running.config = watcher

(* Nothing is scheduled, and every change of the sources has been seen.    *)
Quiet ==
    /\ config > 0 /\ starting = <<>> /\ watch[config] = "ready"
    /\ armed = {} /\ pending = None

(* A build that nothing will replace is of the latest sources; and what    *)
(* was built last, unless it failed, waits for its reload or is what the   *)
(* proxy has in the end.                                                   *)
FreshInv ==
    Quiet =>
      /\ running # None => ~ running.aborted /\ running.from = disk
      /\ running = None /\ ~ broken /\ Undisturbed =>
           /\ jobs # <<>> => /\ jobs[Len(jobs)].config = config
                             /\ jobs[Len(jobs)].disk = disk
           /\ jobs = <<>> => /\ Outcome # None
                             /\ Outcome.config = config /\ Outcome.disk = disk

CurrentInv == SessionInv /\ WatchersInv /\ FreshInv
=============================================================================
