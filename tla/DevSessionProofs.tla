--------------------------- MODULE DevSessionProofs ---------------------------
(***************************************************************************)
(* Proofs about DevSession: however edits, builds, reloads, messages and   *)
(* requests interleave, the proxy never goes back to an older bundle, a    *)
(* worker sees a request only so often, and a session at rest is current.  *)
(***************************************************************************)
EXTENDS DevSession, TLAPS

Jobs == [id : Nat, config : Configs, disk : 1 .. MaxEdits]
Messages == [data : Data \cup {None}, id : Nat, left : 0 .. SendRetries]

-----------------------------------------------------------------------------
(* What ProcessQueue does with each request.                               *)

Goes(data, at, r) == data # None /\ at[r] \in Held

LEMMA QueueEffects ==
    ASSUME NEW data, NEW at, ProcessQueue(data, at), NEW r \in Requests
    PROVE  /\ Goes(data, at, r) =>
                 /\ place'[r] = "sent"
                 /\ target'[r] = data.server
                 /\ sends'[r] = IF target[r] = data.server THEN sends[r] + 1 ELSE 1
           /\ ~ Goes(data, at, r) =>
                 /\ place'[r] = at[r]
                 /\ target'[r] = target[r]
                 /\ sends'[r] = sends[r]
BY DEF ProcessQueue, Goes

LEMMA QueueTypes ==
    ASSUME TypeOK, NEW data \in Data \cup {None}, NEW at \in [Requests -> Places],
           ProcessQueue(data, at)
    PROVE  /\ place' \in [Requests -> Places]
           /\ target' \in [Requests -> Nat]
           /\ sends' \in [Requests -> Nat]
<1>1. ASSUME NEW r \in Requests
      PROVE  place'[r] \in Places /\ target'[r] \in Nat /\ sends'[r] \in Nat
  <2>1. target[r] \in Nat /\ sends[r] \in Nat /\ at[r] \in Places
    BY DEF TypeOK
  <2>2. CASE Goes(data, at, r)
    <3>1. data.server \in Nat
      BY <2>2 DEF Goes, Data
    <3> QED BY <2>1, <2>2, <3>1, QueueEffects DEF Places
  <2>3. CASE ~ Goes(data, at, r)
    BY <2>1, <2>3, QueueEffects
  <2> QED BY <2>2, <2>3
<1>2. /\ place' = [r \in Requests |-> place'[r]]
      /\ target' = [r \in Requests |-> target'[r]]
      /\ sends' = [r \in Requests |-> sends'[r]]
  BY DEF ProcessQueue
<1> QED BY <1>1, <1>2

-----------------------------------------------------------------------------
(* Types.                                                                  *)

BundlerTypes ==
    /\ config \in 0 .. MaxConfigs /\ disk \in 1 .. MaxEdits
    /\ starting \in Seq(Configs) /\ watcher \in Configs \cup {None}
    /\ watch \in [Configs -> {"none", "starting", "ready", "closing", "closed"}]
    /\ armed \subseteq Configs /\ pending \in Configs \cup {None}
    /\ running \in Builds \cup {None}

RuntimeTypes ==
    /\ currentBundleId \in Nat /\ reloading \in BOOLEAN
    /\ jobs \in Seq(Jobs)
    /\ server \in [number : Nat, up : BOOLEAN]
    /\ broken \in BOOLEAN

ProxyTypes ==
    /\ messages \in Seq(Messages)
    /\ proxyData \in Data \cup {None}
    /\ announced \in Nat
    /\ sendFailures \in 0 .. MaxSendFailures

RequestTypes ==
    /\ retryable \subseteq Requests /\ place \in [Requests -> Places]
    /\ target \in [Requests -> Nat]
    /\ connectionRetries \in [Requests -> 0 .. MaxRetries]
    /\ sends \in [Requests -> Nat]
    /\ losses \in 0 .. MaxLosses

LEMMA TypesSplit == TypeOK <=> BundlerTypes /\ RuntimeTypes /\ ProxyTypes /\ RequestTypes
BY DEF TypeOK, BundlerTypes, RuntimeTypes, ProxyTypes, RequestTypes, Jobs, Messages

LEMMA Bounds ==
    /\ MaxRetries \in Nat /\ SendRetries \in Nat /\ MaxConfigs \in Nat
    /\ MaxEdits \in Nat \ {0} /\ MaxStarting \in Nat /\ MaxLosses \in Nat
    /\ MaxSendFailures \in Nat
BY SessionAssumption

LEMMA MessageTypes ==
    /\ \A data \in Data \cup {None}, id \in Nat : Message(data, id) \in Messages
    /\ Pause \in Messages
BY Bounds DEF Message, Pause, Messages

LEMMA BundlerStepTypes ==
    ASSUME TypeOK, ConfigUpdate \/ Edit \/ Bundler
    PROVE  BundlerTypes'
<1> USE Bounds DEF TypeOK
<1>1. Aborted \in Builds \cup {None}
  BY DEF Aborted, Builds
<1>2. CASE ConfigUpdate
  <2>1. config' \in Configs
    BY <1>2 DEF ConfigUpdate, Configs
  <2>2. Closing(watcher) \in [Configs -> {"none", "starting", "ready", "closing", "closed"}]
    BY DEF Closing
  <2> QED BY <1>2, <2>1, <2>2 DEF ConfigUpdate, BundlerTypes, Configs
<1>3. CASE Edit
  BY <1>3 DEF Edit, BundlerTypes
<1>4. CASE StartCustomBuild
  <2>1. Head(starting) \in Configs /\ Tail(starting) \in Seq(Configs)
    BY <1>4 DEF StartCustomBuild
  <2> QED BY <1>1, <1>4, <2>1 DEF StartCustomBuild, BundlerTypes
<1>5. CASE BuildStarts
  BY <1>5 DEF BuildStarts, BundlerTypes, Builds
<1>6. ASSUME NEW c \in Configs, WatcherReady(c) \/ DebounceEnds(c)
      PROVE  BundlerTypes'
  <2>1. CASE WatcherReady(c)
    BY <1>1, <2>1 DEF WatcherReady, Schedule, BundlerTypes
  <2>2. CASE DebounceEnds(c)
    BY <1>1, <2>2 DEF DebounceEnds, Schedule, BundlerTypes
  <2> QED BY <1>6, <2>1, <2>2
<1>7. CASE AbortedBuildEnds \/ BuildFails \/ BuildSucceeds
  BY <1>7 DEF AbortedBuildEnds, BuildFails, BuildSucceeds, BuildEnds, BundlerTypes
<1> QED BY <1>2, <1>3, <1>4, <1>5, <1>6, <1>7 DEF Bundler

LEMMA RuntimeStepTypes ==
    ASSUME TypeOK, JobsInv, ConfigUpdate \/ Edit \/ Bundler \/ Runtime
    PROVE  RuntimeTypes' /\ ProxyTypes' /\ RequestTypes'
<1>0. BundlerTypes /\ RuntimeTypes /\ ProxyTypes /\ RequestTypes
  BY TypesSplit
<1> USE DEF RuntimeTypes, ProxyTypes, RequestTypes
<1>1. \A m \in Messages : messages' = Append(messages, m) => messages' \in Seq(Messages)
  BY <1>0
<1>2. CASE ConfigUpdate \/ BuildStarts
  <2>1. messages' \in Seq(Messages)
    BY <1>1, <1>2, MessageTypes DEF ConfigUpdate, BuildStarts, Send
  <2> QED BY <1>0, <1>2, <2>1 DEF ConfigUpdate, BuildStarts, UnchangedByBundler,
            runtime, requests
<1>3. CASE \/ Edit \/ StartCustomBuild
           \/ \E c \in Configs : WatcherReady(c) \/ DebounceEnds(c)
           \/ AbortedBuildEnds \/ BuildFails
  BY <1>0, <1>3 DEF Edit, StartCustomBuild, WatcherReady, DebounceEnds,
        AbortedBuildEnds, BuildFails, UnchangedByBundler, runtime, requests
<1>4. CASE BuildSucceeds
  <2>1. currentBundleId' \in Nat
    BY <1>0, <1>4 DEF BuildSucceeds
  <2>2. PICK d \in running.from .. disk :
          jobs' = Append(jobs, [id |-> currentBundleId',
                                config |-> running.config, disk |-> d])
    BY <1>4 DEF BuildSucceeds
  <2>3. running \in Builds /\ disk \in 1 .. MaxEdits
    BY <1>0, <1>4 DEF BuildSucceeds, BuildEnds, BundlerTypes
  <2>4. d \in 1 .. MaxEdits /\ running.config \in Configs
    BY <2>2, <2>3, Bounds DEF Builds
  <2>5. jobs' \in Seq(Jobs)
    BY <1>0, <2>1, <2>2, <2>4 DEF Jobs
  <2>6. messages' \in Seq(Messages)
    <3>1. Message(None, currentBundleId') \in Messages
      BY <2>1, MessageTypes
    <3> QED BY <1>1, <1>4, <3>1 DEF BuildSucceeds, Send
  <2> QED BY <1>0, <1>4, <2>1, <2>5, <2>6 DEF BuildSucceeds, requests
<1>5. CASE SkipBundle \/ ReloadStarts \/ ReloadFails
  <2>1. CASE SkipBundle
    <3>1. jobs' \in Seq(Jobs)
      <4>1. jobs # <<>> /\ jobs' = Tail(jobs)
        BY <2>1 DEF SkipBundle
      <4> QED BY <1>0, <4>1
    <3> QED BY <1>0, <2>1, <3>1 DEF SkipBundle, UnchangedByRuntime, requests
  <2>2. CASE ReloadStarts
    <3>1. server' \in [number : Nat, up : BOOLEAN]
      <4>1. server' = [number |-> server.number + 1, up |-> FALSE]
        BY <2>2 DEF ReloadStarts
      <4> QED BY <1>0, <4>1
    <3> QED BY <1>0, <2>2, <3>1 DEF ReloadStarts, UnchangedByRuntime, requests
  <2>3. CASE ReloadFails
    <3>1. jobs' \in Seq(Jobs) /\ broken' \in BOOLEAN
      BY <1>0, <2>3 DEF ReloadFails
    <3> QED BY <1>0, <2>3, <3>1 DEF ReloadFails, UnchangedByRuntime, requests
  <2> QED BY <1>5, <2>1, <2>2, <2>3
<1>6. ASSUME ReloadEnds, jobs # <<>>
      PROVE  RuntimeTypes' /\ ProxyTypes' /\ RequestTypes'
  <2> DEFINE job == Head(jobs)
             data == [config |-> job.config, disk |-> job.disk, server |-> server.number]
  <2>1. job \in Jobs /\ jobs' \in Seq(Jobs)
    BY <1>0, <1>6 DEF ReloadEnds
  <2>2. data \in Data
    BY <1>0, <2>1 DEF Jobs, Data
  <2>3. Message(data, job.id) \in Messages
    BY <2>1, <2>2, MessageTypes DEF Jobs
  <2>4. messages' = messages \/ messages' = Append(messages, Message(data, job.id))
    BY <1>6 DEF ReloadEnds, Send
  <2>5. messages' \in Seq(Messages)
    BY <1>0, <1>1, <2>3, <2>4
  <2> QED BY <1>0, <1>6, <2>1, <2>5 DEF ReloadEnds, UnchangedByRuntime, requests
<1> QED BY <1>2, <1>3, <1>4, <1>5, <1>6 DEF Bundler, Runtime, ReloadEnds, JobsInv

LEMMA MessageStepTypes ==
    ASSUME TypeOK, Deliver \/ MessageFails
    PROVE  ProxyTypes' /\ RequestTypes' /\ UNCHANGED <<config, disk, bundler, runtime, broken>>
<1>0. ProxyTypes /\ RequestTypes
  BY TypesSplit
<1> USE DEF ProxyTypes, RequestTypes
<1>1. PICK m \in Messages : m = Head(messages) /\ messages # <<>>
  BY <1>0 DEF Deliver, MessageFails
<1>2. m.data \in Data \cup {None} /\ m.id \in Nat /\ m.left \in 0 .. SendRetries
  BY <1>1 DEF Messages
<1>3. Tail(messages) \in Seq(Messages)
  BY <1>0, <1>1
<1>4. ASSUME Handle(m)
      PROVE  /\ proxyData' \in Data \cup {None} /\ announced' \in Nat
             /\ retryable' = retryable /\ connectionRetries' = connectionRetries
             /\ place' \in [Requests -> Places]
             /\ target' \in [Requests -> Nat]
             /\ sends' \in [Requests -> Nat]
  <2>1. ProcessQueue(m.data, place)
    BY <1>4 DEF Handle
  <2>2. /\ place' \in [Requests -> Places]
        /\ target' \in [Requests -> Nat]
        /\ sends' \in [Requests -> Nat]
    BY <1>0, <1>2, <2>1, QueueTypes
  <2> QED BY <1>0, <1>2, <1>4, <2>2 DEF Handle
<1>5. CASE Deliver
  BY <1>0, <1>1, <1>3, <1>4, <1>5 DEF Deliver, UnchangedByMessage
<1>6. CASE MessageFails
  <2>1. sendFailures' \in 0 .. MaxSendFailures
    BY <1>0, <1>6, Bounds DEF MessageFails
  <2>2. messages' \in Seq(Messages)
    <3>1. m.left # 0 => [m EXCEPT !.left = @ - 1] \in Messages
      BY <1>2, Bounds DEF Messages
    <3>2. m.left # 0 => Append(Tail(messages), [m EXCEPT !.left = @ - 1]) \in Seq(Messages)
      BY <1>3, <3>1
    <3> QED BY <1>1, <1>3, <1>6, <3>2 DEF MessageFails
  <2>3. Handle(m) \/ UNCHANGED <<proxyData, requests, announced>>
    BY <1>1, <1>6 DEF MessageFails
  <2> QED BY <1>0, <1>4, <1>6, <2>1, <2>2, <2>3 DEF MessageFails, UnchangedByMessage, requests
<1> QED BY <1>5, <1>6

LEMMA RequestStepTypes ==
    ASSUME TypeOK, NEW r \in Requests, Fetch(r) \/ Transport(r)
    PROVE  /\ RequestTypes'
           /\ UNCHANGED <<config, disk, bundler, runtime, messages, proxyData, retryable,
                          announced, broken, sendFailures>>
<1>0. RequestTypes /\ proxyData \in Data \cup {None}
  BY TypesSplit DEF ProxyTypes
<1> USE Bounds DEF RequestTypes
<1>1. \A p \in Places : [place EXCEPT ![r] = p] \in [Requests -> Places]
  BY <1>0
<1>2. \A p : p \in {"queued", "retrying", "answered", "failed"} => p \in Places
  BY DEF Places, Held
<1>3. UNCHANGED <<config, disk, bundler, runtime, messages, proxyData, retryable,
                  announced, broken, sendFailures>>
  BY DEF Fetch, Transport, Answer, RetryConnection, GiveUp, Requeue, UnchangedByRequest
<1>4. losses' \in 0 .. MaxLosses
  BY <1>0 DEF Fetch, Transport, Answer, RetryConnection, GiveUp, Requeue, Rejected
<1>5. CASE Fetch(r)
  <2>1. ProcessQueue(proxyData, [place EXCEPT ![r] = "queued"])
    BY <1>5 DEF Fetch
  <2>2. [place EXCEPT ![r] = "queued"] \in [Requests -> Places]
    BY <1>1, <1>2
  <2> QED BY <1>0, <1>3, <1>4, <1>5, <2>1, <2>2, QueueTypes DEF Fetch
<1>6. CASE RetryConnection(r)
  <2>1. ProcessQueue(proxyData, [place EXCEPT ![r] = "retrying"])
    BY <1>6 DEF RetryConnection
  <2>2. [place EXCEPT ![r] = "retrying"] \in [Requests -> Places]
    BY <1>1, <1>2
  <2>3. connectionRetries' \in [Requests -> 0 .. MaxRetries]
    BY <1>0, <1>6 DEF RetryConnection, RetriesLeft
  <2> QED BY <1>0, <1>3, <1>4, <2>1, <2>2, <2>3, QueueTypes
<1>7. CASE Answer(r) \/ GiveUp(r) \/ Requeue(r)
  <2>1. PICK p \in Places : Settle(r, p)
    BY <1>2, <1>7 DEF Answer, GiveUp, Requeue
  <2> QED BY <1>0, <1>1, <1>3, <1>4, <2>1 DEF Settle
<1> QED BY <1>5, <1>6, <1>7 DEF Transport

LEMMA StepTypes == TypeOK /\ JobsInv /\ [Next]_vars => TypeOK'
<1> SUFFICES ASSUME TypeOK, JobsInv, [Next]_vars PROVE TypeOK'
  OBVIOUS
<1>0. BundlerTypes /\ RuntimeTypes /\ ProxyTypes /\ RequestTypes
  BY TypesSplit
<1>1. TypeOK' <=> BundlerTypes' /\ RuntimeTypes' /\ ProxyTypes' /\ RequestTypes'
  BY TypesSplit, PTL
<1>2. CASE ConfigUpdate \/ Edit \/ Bundler
  BY <1>1, <1>2, BundlerStepTypes, RuntimeStepTypes
<1>3. CASE Runtime
  <2>1. BundlerTypes'
    BY <1>0, <1>3 DEF Runtime, SkipBundle, ReloadStarts, ReloadEnds, ReloadFails,
          UnchangedByRuntime, bundler, BundlerTypes
  <2> QED BY <1>1, <1>3, <2>1, RuntimeStepTypes
<1>4. CASE Deliver \/ MessageFails
  <2>1. BundlerTypes' /\ RuntimeTypes'
    BY <1>0, <1>4, MessageStepTypes DEF bundler, runtime, BundlerTypes, RuntimeTypes
  <2> QED BY <1>1, <1>4, <2>1, MessageStepTypes
<1>5. ASSUME NEW r \in Requests, Fetch(r) \/ Transport(r)
      PROVE  TypeOK'
  <2>1. BundlerTypes' /\ RuntimeTypes' /\ ProxyTypes'
    BY <1>0, <1>5, RequestStepTypes DEF bundler, runtime, BundlerTypes, RuntimeTypes, ProxyTypes
  <2> QED BY <1>1, <1>5, <2>1, RequestStepTypes
<1>6. CASE UNCHANGED vars
  BY <1>6 DEF TypeOK, vars, bundler, runtime, requests
<1> QED BY <1>2, <1>3, <1>4, <1>5, <1>6 DEF Next

-----------------------------------------------------------------------------
(* The reloads that wait.                                                  *)

(* The last of an ordered queue is the first only when it is alone.        *)
LEMMA OnlyJob ==
    ASSUME jobs \in Seq(Jobs), JobsInv, jobs # <<>>,
           Head(jobs).id = jobs[Len(jobs)].id
    PROVE  Len(jobs) = 1 /\ Tail(jobs) = <<>>
<1>1. /\ Head(jobs) = jobs[1] /\ Len(jobs) \in Nat \ {0}
      /\ 1 \in DOMAIN jobs /\ Len(jobs) \in DOMAIN jobs
  OBVIOUS
<1>2. jobs[1].id \in Nat
  <2>1. jobs[1] \in Jobs
    BY <1>1
  <2> QED BY <2>1 DEF Jobs
<1>3. Len(jobs) = 1
  <2>1. 1 < Len(jobs) => jobs[1].id < jobs[Len(jobs)].id
    BY <1>1 DEF JobsInv
  <2>2. ~ (jobs[1].id < jobs[1].id)
    BY <1>2
  <2>3. ~ (1 < Len(jobs))
    BY <1>1, <2>1, <2>2
  <2>4. PICK n : n = Len(jobs)
    OBVIOUS
  <2>5. n \in Nat /\ n # 0 /\ ~ (1 < n)
    BY <1>1, <2>3, <2>4
  <2>6. n = 1
    BY <2>5
  <2> QED BY <2>4, <2>6
<1>4. Tail(jobs) \in Seq(Jobs) /\ Len(Tail(jobs)) = 0
  BY <1>1, <1>3
<1>5. \A s \in Seq(Jobs) : Len(s) = 0 => s = <<>>
  OBVIOUS
<1> QED BY <1>3, <1>4, <1>5

LEMMA RuntimeStaysUnless ==
    ASSUME TypeOK, [Next]_vars, ~ SkipBundle, ~ ReloadStarts, ~ ReloadEnds, ~ ReloadFails,
           ~ BuildSucceeds
    PROVE  UNCHANGED <<jobs, currentBundleId, reloading, server>>
<1>1. ASSUME ConfigUpdate \/ Edit \/ Bundler
      PROVE  UNCHANGED <<jobs, currentBundleId, reloading, server>>
  BY <1>1 DEF ConfigUpdate, Edit, Bundler, StartCustomBuild, BuildStarts, WatcherReady,
        DebounceEnds, AbortedBuildEnds, BuildFails, UnchangedByBundler, runtime
<1>2. ASSUME Deliver \/ MessageFails
      PROVE  UNCHANGED <<jobs, currentBundleId, reloading, server>>
  BY <1>2 DEF Deliver, MessageFails, UnchangedByMessage, runtime
<1>3. ASSUME NEW r \in Requests, Fetch(r) \/ Transport(r)
      PROVE  UNCHANGED <<jobs, currentBundleId, reloading, server>>
  BY <1>3, RequestStepTypes DEF runtime
<1>4. ASSUME UNCHANGED vars
      PROVE  UNCHANGED <<jobs, currentBundleId, reloading, server>>
  BY <1>4 DEF vars, runtime
<1> QED BY <1>1, <1>2, <1>3, <1>4 DEF Next, Runtime

LEMMA StepJobs == TypeOK /\ JobsInv /\ [Next]_vars => JobsInv'
<1> SUFFICES ASSUME TypeOK, JobsInv, [Next]_vars PROVE JobsInv'
  OBVIOUS
<1>0. RuntimeTypes
  BY TypesSplit
<1> USE DEF JobsInv, RuntimeTypes
<1>1. CASE BuildSucceeds
  <2>1. PICK job \in Jobs : jobs' = Append(jobs, job) /\ job.id = currentBundleId'
    <3>1. PICK d \in running.from .. disk :
            jobs' = Append(jobs, [id |-> currentBundleId',
                                  config |-> running.config, disk |-> d])
      BY <1>1 DEF BuildSucceeds
    <3>2. jobs' \in Seq(Jobs)
      BY <1>1, RuntimeStepTypes DEF Bundler
    <3>3. [id |-> currentBundleId', config |-> running.config, disk |-> d] \in Jobs
      <4>1. jobs'[Len(jobs) + 1] = [id |-> currentBundleId',
                                    config |-> running.config, disk |-> d]
            /\ Len(jobs) + 1 \in DOMAIN jobs'
        BY <1>0, <3>1
      <4> QED BY <3>2, <4>1
    <3> QED BY <3>1, <3>3
  <2>2. currentBundleId' = currentBundleId + 1 /\ reloading' = reloading /\ server' = server
    BY <1>1 DEF BuildSucceeds
  <2>3. \A i \in DOMAIN jobs : jobs[i].id \in Nat
    <3>1. \A i \in DOMAIN jobs : jobs[i] \in Jobs
      BY <1>0
    <3> QED BY <3>1 DEF Jobs
  <2>4. \A i \in DOMAIN jobs : jobs[i].id <= currentBundleId
    <3> SUFFICES ASSUME NEW i \in DOMAIN jobs PROVE jobs[i].id <= currentBundleId
      OBVIOUS
    <3>1. DOMAIN jobs = 1 .. Len(jobs) /\ Len(jobs) \in Nat
      BY <1>0
    <3>2. CASE i = Len(jobs)
      BY <1>0, <2>3, <3>1, <3>2
    <3>3. CASE i # Len(jobs)
      BY <1>0, <2>3, <3>1, <3>3
    <3> QED BY <3>2, <3>3
  <2>5. /\ Len(jobs') = Len(jobs) + 1 /\ Len(jobs) \in Nat
        /\ DOMAIN jobs' = 1 .. (Len(jobs) + 1) /\ DOMAIN jobs = 1 .. Len(jobs)
        /\ \A i \in DOMAIN jobs : jobs'[i] = jobs[i]
        /\ jobs'[Len(jobs) + 1] = job
    BY <1>0, <2>1
  <2>6. \A i, j \in DOMAIN jobs' : i < j => jobs'[i].id < jobs'[j].id
    <3> SUFFICES ASSUME NEW i \in DOMAIN jobs', NEW j \in DOMAIN jobs', i < j
                 PROVE  jobs'[i].id < jobs'[j].id
      OBVIOUS
    <3>1. CASE j \in DOMAIN jobs
      BY <2>5, <3>1
    <3>2. CASE j = Len(jobs) + 1
      <4>1. i \in DOMAIN jobs
        BY <2>5, <3>2
      <4> QED BY <1>0, <2>1, <2>2, <2>3, <2>4, <2>5, <3>2, <4>1
    <3> QED BY <2>5, <3>1, <3>2
  <2> QED BY <2>1, <2>2, <2>5, <2>6
<1>2. CASE SkipBundle \/ ReloadEnds \/ ReloadFails
  <2>1. /\ jobs # <<>> /\ jobs' = Tail(jobs) /\ reloading' = FALSE
        /\ currentBundleId' = currentBundleId
    BY <1>0, <1>2 DEF SkipBundle, ReloadEnds, ReloadFails, UnchangedByRuntime
  <2> QED BY <1>0, <2>1
<1>3. CASE ReloadStarts
  BY <1>0, <1>3 DEF ReloadStarts, UnchangedByRuntime
<1>4. CASE UNCHANGED <<jobs, currentBundleId, reloading, server>>
  BY <1>4
<1> QED BY <1>1, <1>2, <1>3, <1>4, RuntimeStaysUnless

-----------------------------------------------------------------------------
(* What steps do to the queue of messages and to the proxy.                *)

(* Nothing that the proxy or its messages depend on changes, or a pause is *)
(* appended.                                                               *)
ProxyStays == UNCHANGED <<proxyData, requests, announced, sendFailures>>
Appends(m) == messages' = Append(messages, m) /\ ProxyStays

LEMMA Numbers ==
    ASSUME TypeOK
    PROVE  /\ \A i \in DOMAIN messages : messages[i] \in Messages /\ messages[i].id \in Nat
           /\ \A i \in DOMAIN messages :
                 messages[i].data # None => messages[i].data.server \in Nat
           /\ proxyData # None => proxyData.server \in Nat
           /\ \A r \in Requests : target[r] \in Nat
           /\ server.number \in Nat /\ currentBundleId \in Nat /\ announced \in Nat
           /\ DOMAIN messages = 1 .. Len(messages) /\ Len(messages) \in Nat
<1>0. RuntimeTypes /\ ProxyTypes /\ RequestTypes
  BY TypesSplit
<1>1. \A i \in DOMAIN messages : messages[i] \in Messages
  BY <1>0 DEF ProxyTypes
<1>2. \A m \in Messages : m.id \in Nat /\ m.data \in Data \cup {None}
  BY DEF Messages
<1>3. \A d \in Data : d.server \in Nat
  BY DEF Data
<1>4. DOMAIN messages = 1 .. Len(messages) /\ Len(messages) \in Nat
  BY <1>0 DEF ProxyTypes
<1> QED BY <1>0, <1>1, <1>2, <1>3, <1>4 DEF RuntimeTypes, ProxyTypes, RequestTypes

LEMMA AppendEffects ==
    ASSUME TypeOK, NEW m, messages' = Append(messages, m)
    PROVE  /\ Len(messages') = Len(messages) + 1
           /\ DOMAIN messages' = 1 .. (Len(messages) + 1)
           /\ \A i \in DOMAIN messages : messages'[i] = messages[i]
           /\ messages'[Len(messages) + 1] = m
           /\ Outcome' = m.data
<1>1. messages \in Seq(Messages)
  BY TypesSplit DEF ProxyTypes
<1>2. /\ Len(messages') = Len(messages) + 1
      /\ DOMAIN messages' = 1 .. (Len(messages) + 1)
      /\ \A i \in DOMAIN messages : messages'[i] = messages[i]
      /\ messages'[Len(messages) + 1] = m
      /\ messages' # <<>>
  BY <1>1
<1> QED BY <1>2 DEF Outcome

LEMMA TailEffects ==
    ASSUME TypeOK, messages # <<>>, messages' = Tail(messages),
           proxyData' = Head(messages).data
    PROVE  /\ Head(messages) = messages[1] /\ 1 \in DOMAIN messages
           /\ Head(messages) \in Messages
           /\ DOMAIN messages' = 1 .. (Len(messages) - 1)
           /\ \A i \in DOMAIN messages' : /\ messages'[i] = messages[i + 1]
                                          /\ i + 1 \in DOMAIN messages
           /\ Outcome' = Outcome
<1>1. messages \in Seq(Messages)
  BY TypesSplit DEF ProxyTypes
<1>2. /\ Head(messages) = messages[1] /\ 1 \in DOMAIN messages
      /\ Head(messages) \in Messages
      /\ DOMAIN messages' = 1 .. (Len(messages) - 1) /\ Len(messages') = Len(messages) - 1
      /\ \A i \in DOMAIN messages' : /\ messages'[i] = messages[i + 1]
                                     /\ i + 1 \in DOMAIN messages
      /\ Len(messages) \in Nat
  BY <1>1
<1>3. CASE Len(messages) = 1
  <2>1. messages' = <<>>
    BY <1>1, <1>3
  <2> QED BY <1>2, <1>3, <2>1 DEF Outcome
<1>4. CASE Len(messages) > 1
  <2>1. messages' # <<>> /\ Len(messages') \in DOMAIN messages'
    <3>1. Len(messages') # 0
      BY <1>2, <1>4
    <3> QED BY <1>2, <1>4, <3>1
  <2>2. messages'[Len(messages')] = messages[Len(messages)]
    BY <1>2, <2>1
  <2> QED BY <1>2, <2>1, <2>2 DEF Outcome
<1> QED BY <1>1, <1>2, <1>3, <1>4

(* The steps, by what they do to messages and proxy.                       *)
PauseStep(id) ==
    /\ Appends(Message(None, id))
    /\ id \in {0, currentBundleId'}
    /\ currentBundleId' \in {currentBundleId, currentBundleId + 1}
    /\ UNCHANGED <<server, reloading>>
QuietStep ==
    /\ UNCHANGED messages /\ ProxyStays
    /\ UNCHANGED currentBundleId
RuntimeStep ==
    \/ UNCHANGED <<server, reloading>>
    \/ /\ ~ reloading /\ reloading'
       /\ server' = [number |-> server.number + 1, up |-> FALSE]
    \/ reloading /\ ~ reloading' /\ server' = server
    \/ reloading /\ ~ reloading' /\ server' = [server EXCEPT !.up = TRUE]
PlayStep(m) ==
    /\ Appends(m)
    /\ m \in Messages
    /\ m.data # None => m.data.server = server.number
    /\ m.id = currentBundleId
    /\ UNCHANGED currentBundleId
    /\ reloading /\ ~ reloading' /\ server' = [server EXCEPT !.up = TRUE]

LEMMA StepKinds ==
    ASSUME TypeOK, JobsInv, [Next]_vars
    PROVE  \/ \E id \in Nat : PauseStep(id)
           \/ QuietStep /\ RuntimeStep
           \/ \E m \in Messages : PlayStep(m) /\ ReloadEnds /\ ~ Stale(Head(jobs))
           \/ Deliver \/ MessageFails
           \/ \E r \in Requests : Fetch(r) \/ Transport(r)
<1>0. RuntimeTypes
  BY TypesSplit
<1>1. CASE ConfigUpdate \/ BuildStarts
  <2>1. PauseStep(0)
    BY <1>1 DEF ConfigUpdate, BuildStarts, UnchangedByBundler, runtime, Send, Pause,
          PauseStep, Appends, ProxyStays
  <2> QED BY <2>1
<1>2. CASE BuildSucceeds
  <2>1. currentBundleId' \in Nat
    BY <1>0, <1>2 DEF BuildSucceeds, RuntimeTypes
  <2>2. PauseStep(currentBundleId')
    BY <1>2 DEF BuildSucceeds, Send, PauseStep, Appends, ProxyStays
  <2> QED BY <2>1, <2>2
<1>3. CASE \/ Edit \/ StartCustomBuild
           \/ \E c \in Configs : WatcherReady(c) \/ DebounceEnds(c)
           \/ AbortedBuildEnds \/ BuildFails
  BY <1>3 DEF Edit, StartCustomBuild, WatcherReady, DebounceEnds, AbortedBuildEnds,
        BuildFails, UnchangedByBundler, runtime, QuietStep, ProxyStays, RuntimeStep
<1>4. CASE SkipBundle
  BY <1>4 DEF SkipBundle, UnchangedByRuntime, QuietStep, ProxyStays, RuntimeStep
<1>5. CASE ReloadStarts
  BY <1>5 DEF ReloadStarts, UnchangedByRuntime, QuietStep, ProxyStays, RuntimeStep
<1>6. CASE ReloadFails
  BY <1>0, <1>6 DEF ReloadFails, UnchangedByRuntime, QuietStep, ProxyStays, RuntimeStep,
        RuntimeTypes
<1>7. CASE ReloadEnds
  <2>1. jobs # <<>> /\ reloading /\ ~ reloading'
    BY <1>0, <1>7 DEF ReloadEnds, JobsInv, RuntimeTypes
  <2> DEFINE job == Head(jobs)
             data == [config |-> job.config, disk |-> job.disk, server |-> server.number]
  <2>2. CASE Stale(job)
    BY <1>7, <2>1, <2>2 DEF ReloadEnds, UnchangedByRuntime, QuietStep, ProxyStays, RuntimeStep
  <2>3. CASE ~ Stale(job)
    <3>1. job \in Jobs
      BY <1>0, <2>1 DEF RuntimeTypes
    <3>2. data \in Data
      BY <1>0, <3>1 DEF Jobs, Data, RuntimeTypes
    <3>3. Message(data, job.id) \in Messages
      BY <3>1, <3>2, MessageTypes DEF Jobs
    <3>4. Appends(Message(data, job.id)) /\ UNCHANGED currentBundleId
      BY <1>7, <2>3 DEF ReloadEnds, Send, Appends, ProxyStays, UnchangedByRuntime
    <3>5. job.id = currentBundleId
      BY <2>3 DEF Stale
    <3>6. Message(data, job.id).data.server = server.number
          /\ Message(data, job.id).id = currentBundleId
      BY <3>5 DEF Message
    <3>7. PlayStep(Message(data, job.id))
      BY <1>7, <2>1, <3>3, <3>4, <3>6 DEF PlayStep, ReloadEnds
    <3> QED BY <1>7, <2>3, <3>3, <3>7
  <2> QED BY <2>2, <2>3
<1>8. CASE UNCHANGED vars
  BY <1>8 DEF vars, runtime, QuietStep, ProxyStays, RuntimeStep
<1> QED BY <1>1, <1>2, <1>3, <1>4, <1>5, <1>6, <1>7, <1>8 DEF Next, Bundler, Runtime

(* A message that is sent again says the same.                             *)
LEMMA RequeuedMessages ==
    ASSUME TypeOK, MessageFails
    PROVE  \A i \in DOMAIN messages' : \E j \in DOMAIN messages :
              messages'[i].data = messages[j].data /\ messages'[i].id = messages[j].id
<1> DEFINE m == Head(messages) new == [m EXCEPT !.left = @ - 1]
<1>1. messages # <<>> /\ messages \in Seq(Messages)
  BY TypesSplit DEF MessageFails, ProxyTypes
<1>2. m = messages[1] /\ 1 \in DOMAIN messages /\ m \in Messages
  BY <1>1
<1>3. new.data = m.data /\ new.id = m.id
  BY <1>2 DEF Messages
<1>4. messages' = Tail(messages) \/ messages' = Append(Tail(messages), new)
  BY DEF MessageFails
<1>5. /\ Tail(messages) \in Seq(Messages) /\ Len(messages) \in Nat \ {0}
      /\ Len(Tail(messages)) = Len(messages) - 1
      /\ \A i \in 1 .. (Len(messages) - 1) : Tail(messages)[i] = messages[i + 1]
      /\ DOMAIN messages = 1 .. Len(messages)
  BY <1>1
<1>6. CASE messages' = Tail(messages)
  BY <1>5, <1>6
<1> HIDE DEF new
<1>7. CASE messages' = Append(Tail(messages), new)
  <2>1. /\ DOMAIN messages' = 1 .. Len(messages)
        /\ \A i \in 1 .. (Len(messages) - 1) : messages'[i] = messages[i + 1]
        /\ messages'[Len(messages)] = new
    BY <1>5, <1>7
  <2> QED BY <1>2, <1>3, <1>5, <2>1
<1> QED BY <1>4, <1>6, <1>7

(* The process that runs is the newest.                                    *)
LEMMA StartedStep ==
    ASSUME TypeOK, JobsInv, RuntimeStep, NEW n \in Nat, Started(n)
    PROVE  Started(n)'
<1>1. server.number \in Nat /\ server \in [number : Nat, up : BOOLEAN]
      /\ reloading \in BOOLEAN
  BY DEF TypeOK
<1> QED BY <1>1 DEF RuntimeStep, Started

LEMMA StepServers ==
    ASSUME TypeOK, JobsInv, ServersInv, [Next]_vars
    PROVE  ServersInv'
<1> USE DEF ServersInv
<1>1. ASSUME NEW id \in Nat, PauseStep(id) PROVE ServersInv'
  <2>1. messages' = Append(messages, Message(None, id)) /\ Message(None, id).data = None
    BY <1>1 DEF PauseStep, Appends, Message
  <2>2. \A n : Started(n)' = Started(n)
    BY <1>1 DEF PauseStep, Started
  <2>3. proxyData' = proxyData /\ target' = target
    BY <1>1 DEF PauseStep, Appends, ProxyStays, requests
  <2> QED BY <2>1, <2>2, <2>3, AppendEffects, Numbers
<1>2. CASE QuietStep /\ RuntimeStep
  <2>1. \A n \in Nat : Started(n) => Started(n)'
    BY <1>2, StartedStep
  <2> QED BY <1>2, <2>1, Numbers DEF QuietStep, ProxyStays, requests
<1>3. ASSUME NEW m \in Messages, PlayStep(m) PROVE ServersInv'
  <2>1. RuntimeStep
    BY <1>3 DEF PlayStep, RuntimeStep
  <2>2. \A n \in Nat : Started(n) => Started(n)'
    BY <2>1, StartedStep
  <2>3. Started(server.number)'
    BY <1>3, Numbers DEF PlayStep, Started, TypeOK
  <2>4. proxyData' = proxyData /\ target' = target /\ messages' = Append(messages, m)
    BY <1>3 DEF PlayStep, Appends, ProxyStays, requests
  <2>5. server'.number = server.number /\ (m.data # None => m.data.server = server.number)
    BY <1>3 DEF PlayStep, TypeOK
  <2> QED BY <2>2, <2>3, <2>4, <2>5, AppendEffects, Numbers
<1>4. ASSUME NEW m, Handle(m), m.data # None => Started(m.data.server)
      PROVE  /\ proxyData' # None => Started(proxyData'.server)
             /\ \A r \in Requests : Started(target'[r])
  <2>1. proxyData' = m.data /\ ProcessQueue(m.data, place)
    BY <1>4 DEF Handle
  <2> QED BY <1>4, <2>1, QueueEffects DEF Goes
<1>5. CASE Deliver
  <2>1. \A n : Started(n)' = Started(n)
    BY <1>5 DEF Deliver, UnchangedByMessage, runtime, Started
  <2>2. messages # <<>> /\ messages' = Tail(messages) /\ Handle(Head(messages))
        /\ proxyData' = Head(messages).data
    BY <1>5 DEF Deliver, Handle
  <2>3. /\ Head(messages) = messages[1] /\ 1 \in DOMAIN messages
        /\ \A i \in DOMAIN messages' : /\ messages'[i] = messages[i + 1]
                                       /\ i + 1 \in DOMAIN messages
    BY <2>2, TailEffects
  <2>4. /\ proxyData' # None => Started(proxyData'.server)
        /\ \A r \in Requests : Started(target'[r])
    BY <1>4, <2>2, <2>3
  <2> QED BY <2>1, <2>3, <2>4
<1>6. CASE MessageFails
  <2>1. \A n : Started(n)' = Started(n)
    BY <1>6 DEF MessageFails, UnchangedByMessage, runtime, Started
  <2>2. messages # <<>> /\ messages \in Seq(Messages)
    BY <1>6, TypesSplit DEF MessageFails, ProxyTypes
  <2>3. Head(messages) = messages[1] /\ 1 \in DOMAIN messages
    BY <2>2
  <2>4. /\ proxyData' # None => Started(proxyData'.server)
        /\ \A r \in Requests : Started(target'[r])
    <3>1. CASE Handle(Head(messages))
      BY <1>4, <2>3, <3>1
    <3>2. CASE UNCHANGED <<proxyData, requests, announced>>
      BY <3>2 DEF requests
    <3> QED BY <1>6, <3>1, <3>2 DEF MessageFails
  <2>5. \A i \in DOMAIN messages' : \E j \in DOMAIN messages :
           messages'[i].data = messages[j].data
    BY <1>6, RequeuedMessages
  <2> QED BY <2>1, <2>4, <2>5
<1>7. ASSUME NEW r \in Requests, Fetch(r) \/ Transport(r) PROVE ServersInv'
  <2>1. \A n : Started(n)' = Started(n)
    BY <1>7, RequestStepTypes DEF runtime, Started
  <2>2. messages' = messages /\ proxyData' = proxyData
    BY <1>7, RequestStepTypes
  <2>3. \A q \in Requests : Started(target'[q])
    <3>1. ASSUME NEW at, ProcessQueue(proxyData, at)
          PROVE  \A q \in Requests : Started(target'[q])
      BY <3>1, QueueEffects DEF Goes
    <3>2. CASE target' = target
      BY <3>2
    <3> QED BY <1>7, <3>1, <3>2 DEF Fetch, Transport, Answer, RetryConnection, GiveUp,
              Requeue, Settle
  <2> QED BY <2>1, <2>2, <2>3
<1> QED BY <1>1, <1>2, <1>3, <1>5, <1>6, <1>7, StepKinds

(* A play on its way is news.                                              *)
News(i) ==
    /\ announced <= messages[i].id
    /\ proxyData # None => proxyData.server < messages[i].data.server
    /\ \A r \in Requests : target[r] < messages[i].data.server
    /\ \A j \in 1 .. (i - 1) :
          /\ messages[j].id <= messages[i].id
          /\ messages[j].data # None => messages[j].data.server < messages[i].data.server

NewsInv == Undisturbed => \A i \in DOMAIN messages : messages[i].data # None => News(i)
IdsInv ==
    /\ announced <= currentBundleId
    /\ \A i \in DOMAIN messages : messages[i].id <= currentBundleId

LEMMA PlaysAreNews == PlaysInv <=> IdsInv /\ NewsInv
BY DEF PlaysInv, IdsInv, NewsInv, News

LEMMA StepPlays ==
    ASSUME TypeOK, JobsInv, ServersInv, PlaysInv, [Next]_vars
    PROVE  PlaysInv'
<1>0. IdsInv /\ NewsInv
  BY PlaysAreNews
<1> SUFFICES IdsInv' /\ NewsInv'
  BY PlaysAreNews, PTL
<1> USE DEF IdsInv, NewsInv
<1>1. ASSUME NEW id \in Nat, PauseStep(id)
      PROVE  IdsInv' /\ NewsInv'
  <2>1. messages' = Append(messages, Message(None, id))
        /\ Message(None, id).data = None /\ Message(None, id).id = id
    BY <1>1 DEF PauseStep, Appends, Message
  <2>2. UNCHANGED <<proxyData, target, announced, sendFailures>>
    BY <1>1 DEF PauseStep, Appends, ProxyStays, requests
  <2>3. id <= currentBundleId' /\ currentBundleId <= currentBundleId'
    BY <1>1, Numbers DEF PauseStep
  <2>4. announced' <= currentBundleId'
    <3>1. currentBundleId' \in Nat
      BY <1>1, Numbers DEF PauseStep
    <3> QED BY <1>0, <2>2, <2>3, <3>1, Numbers
  <2>5. /\ DOMAIN messages' = 1 .. (Len(messages) + 1)
        /\ \A i \in DOMAIN messages : messages'[i] = messages[i]
        /\ messages'[Len(messages) + 1] = Message(None, id)
    BY <2>1, AppendEffects
  <2>6. ASSUME NEW i \in DOMAIN messages' PROVE messages'[i].id <= currentBundleId'
    <3>1. currentBundleId' \in Nat
      BY <1>1, Numbers DEF PauseStep
    <3> QED BY <1>0, <2>1, <2>3, <2>5, <3>1, Numbers
  <2>7. ASSUME Undisturbed', NEW i \in DOMAIN messages', messages'[i].data # None
        PROVE  News(i)'
    <3>1. i \in DOMAIN messages /\ \A j \in 1 .. i : messages'[j] = messages[j]
      BY <2>1, <2>5, <2>7, Numbers
    <3>2. News(i)
      BY <1>0, <2>2, <2>7, <3>1, Numbers DEF Undisturbed
    <3> QED BY <2>2, <3>1, <3>2, Numbers DEF News
  <2> QED BY <2>4, <2>6, <2>7
<1>2. ASSUME QuietStep
      PROVE  IdsInv' /\ NewsInv'
  BY <1>0, <1>2 DEF QuietStep, ProxyStays, requests, News, Undisturbed
<1>3. ASSUME NEW m \in Messages, PlayStep(m)
      PROVE  IdsInv' /\ NewsInv'
  <2>1. /\ messages' = Append(messages, m) /\ m.id = currentBundleId
        /\ m.data # None => m.data.server = server.number
    BY <1>3 DEF PlayStep, Appends
  <2>2. UNCHANGED <<proxyData, target, announced, sendFailures, currentBundleId>>
    BY <1>3 DEF PlayStep, Appends, ProxyStays, requests
  <2>3. /\ DOMAIN messages' = 1 .. (Len(messages) + 1)
        /\ \A i \in DOMAIN messages : messages'[i] = messages[i]
        /\ messages'[Len(messages) + 1] = m
    BY <2>1, AppendEffects
  <2>4. ASSUME NEW i \in DOMAIN messages' PROVE messages'[i].id <= currentBundleId'
    BY <1>0, <2>1, <2>2, <2>3, Numbers
  <2>5. ASSUME Undisturbed', NEW i \in DOMAIN messages', messages'[i].data # None
        PROVE  News(i)'
    <3>1. CASE i \in DOMAIN messages
      <4>1. \A j \in 1 .. i : messages'[j] = messages[j]
        BY <2>3, <3>1, Numbers
      <4>2. News(i)
        BY <1>0, <2>2, <2>5, <3>1, <4>1, Numbers DEF Undisturbed
      <4>3. messages'[i] = messages[i] /\ \A j \in 1 .. (i - 1) : messages'[j] = messages[j]
        BY <3>1, <4>1, Numbers
      <4> QED BY <2>2, <4>2, <4>3 DEF News
    <3>2. CASE i = Len(messages) + 1
      <4>1. messages'[i] = m /\ m.data.server = server.number
        BY <2>1, <2>3, <2>5, <3>2
      <4>2. \A n \in Nat : Started(n) => n < server.number
        BY <1>3 DEF PlayStep, Started
      <4>3. \A j \in 1 .. (i - 1) : j \in DOMAIN messages /\ messages'[j] = messages[j]
        BY <2>3, <3>2, Numbers
      <4>4. /\ proxyData # None => proxyData.server < server.number
            /\ \A r \in Requests : target[r] < server.number
            /\ \A j \in DOMAIN messages :
                  messages[j].data # None => messages[j].data.server < server.number
        BY <4>2, Numbers DEF ServersInv
      <4> QED BY <1>0, <2>1, <2>2, <4>1, <4>3, <4>4 DEF News
    <3> QED BY <2>3, <3>1, <3>2, Numbers
  <2> QED BY <1>0, <2>2, <2>4, <2>5
<1>4. ASSUME Deliver
      PROVE  IdsInv' /\ NewsInv'
  <2> DEFINE m == messages[1]
  <2>1. /\ messages # <<>> /\ messages' = Tail(messages) /\ Handle(Head(messages))
        /\ proxyData' = Head(messages).data
        /\ UNCHANGED <<sendFailures, currentBundleId>>
    BY <1>4 DEF Deliver, Handle, UnchangedByMessage, runtime
  <2>2. /\ Head(messages) = m /\ 1 \in DOMAIN messages
        /\ DOMAIN messages' = 1 .. (Len(messages) - 1)
        /\ \A i \in DOMAIN messages' : /\ messages'[i] = messages[i + 1]
                                       /\ i + 1 \in DOMAIN messages
    BY <2>1, TailEffects
  <2>3. announced' = IF m.id > announced THEN m.id ELSE announced
    BY <2>1, <2>2 DEF Handle
  <2>4. announced' <= currentBundleId'
    BY <1>0, <2>1, <2>2, <2>3, Numbers
  <2>5. ASSUME NEW i \in DOMAIN messages' PROVE messages'[i].id <= currentBundleId'
    BY <1>0, <2>1, <2>2
  <2>6. ASSUME Undisturbed', NEW i \in DOMAIN messages', messages'[i].data # None
        PROVE  News(i)'
    <3>1. News(i + 1)
      BY <1>0, <2>1, <2>2, <2>6 DEF Undisturbed
    <3>2. messages'[i] = messages[i + 1] /\ 1 \in 1 .. i /\ i \in Nat
      BY <2>2, Numbers
    <3>3. /\ announced <= messages[i + 1].id
          /\ \A r \in Requests : target[r] < messages[i + 1].data.server
          /\ \A j \in 1 .. i :
               /\ messages[j].id <= messages[i + 1].id
               /\ messages[j].data # None =>
                     messages[j].data.server < messages[i + 1].data.server
      BY <3>1, <3>2 DEF News
    <3>4. announced' <= messages'[i].id
      BY <2>3, <3>2, <3>3
    <3>5. proxyData' # None => proxyData'.server < messages'[i].data.server
      BY <2>1, <2>2, <3>2, <3>3
    <3>6. \A r \in Requests : target'[r] < messages'[i].data.server
      <4>1. ProcessQueue(m.data, place)
        BY <2>1, <2>2 DEF Handle
      <4> QED BY <4>1, <3>2, <3>3, QueueEffects DEF Goes
    <3>7. \A j \in 1 .. (i - 1) :
             /\ messages'[j].id <= messages'[i].id
             /\ messages'[j].data # None =>
                   messages'[j].data.server < messages'[i].data.server
      <4>1. \A j \in 1 .. (i - 1) : j \in DOMAIN messages' /\ j + 1 \in 1 .. i
        <5>1. i \in 1 .. (Len(messages) - 1) /\ Len(messages) \in Nat
          BY <2>2, Numbers
        <5> QED BY <2>2, <5>1
      <4>2. \A j \in 1 .. (i - 1) : messages'[j] = messages[j + 1]
        BY <2>2, <4>1
      <4> QED BY <3>2, <3>3, <4>1, <4>2
    <3> QED BY <3>4, <3>5, <3>6, <3>7 DEF News
  <2> QED BY <2>4, <2>5, <2>6
<1>5. ASSUME MessageFails
      PROVE  IdsInv' /\ NewsInv'
  <2>1. ~ Undisturbed' /\ currentBundleId' = currentBundleId
    BY <1>5, TypesSplit DEF MessageFails, UnchangedByMessage, runtime, Undisturbed, ProxyTypes
  <2>2. announced' \in {announced, Head(messages).id}
    BY <1>5 DEF MessageFails, Handle
  <2>3. messages # <<>> /\ messages \in Seq(Messages)
    BY <1>5, TypesSplit DEF MessageFails, ProxyTypes
  <2>4. Head(messages) = messages[1] /\ 1 \in DOMAIN messages
    BY <2>3
  <2>5. ASSUME NEW i \in DOMAIN messages' PROVE messages'[i].id <= currentBundleId
    BY <1>0, <1>5, <2>3, RequeuedMessages
  <2> QED BY <1>0, <2>1, <2>2, <2>4, <2>5
<1>6. ASSUME NEW r \in Requests, Fetch(r) \/ Transport(r)
      PROVE  IdsInv' /\ NewsInv'
  <2>1. UNCHANGED <<messages, proxyData, announced, sendFailures, currentBundleId>>
    BY <1>6, RequestStepTypes DEF runtime
  <2>2. ASSUME NEW i \in DOMAIN messages, messages[i].data # None, News(i)
        PROVE  News(i)'
    <3>1. ASSUME NEW at, ProcessQueue(proxyData, at), NEW q \in Requests
          PROVE  target'[q] < messages[i].data.server
      BY <2>2, <3>1, QueueEffects DEF Goes, News
    <3>2. CASE target' = target
      BY <2>1, <2>2, <3>2 DEF News
    <3>3. CASE target' # target
      <4>1. \E at : ProcessQueue(proxyData, at)
        BY <1>6, <3>3 DEF Fetch, Transport, Answer, RetryConnection, GiveUp, Requeue, Settle
      <4>2. \A q \in Requests : target'[q] < messages[i].data.server
        BY <3>1, <4>1
      <4> QED BY <2>1, <2>2, <4>2 DEF News
    <3> QED BY <3>2, <3>3
  <2> QED BY <1>0, <2>1, <2>2 DEF Undisturbed
<1> QED BY <1>1, <1>2, <1>3, <1>4, <1>5, <1>6, StepKinds

-----------------------------------------------------------------------------
(* Requests.                                                               *)

Counted(r) ==
    /\ place[r] \in {"idle", "queued"} => sends[r] = 0
    /\ place[r] = "retrying" => r \in retryable
    /\ r \notin retryable => sends[r] <= 1
    /\ place[r] # "sent" => connectionRetries[r] = 0
    /\ Undisturbed =>
         /\ place[r] = "sent" => sends[r] <= 1 + connectionRetries[r]
         /\ sends[r] <= 1 + MaxRetries
         /\ place[r] = "retrying" /\ proxyData # None => target[r] # proxyData.server

LEMMA RequestsAreCounted == RequestsInv <=> \A r \in Requests : Counted(r)
BY DEF RequestsInv, Counted

LEMMA RequestNumbers ==
    ASSUME TypeOK, NEW r \in Requests
    PROVE  /\ sends[r] \in Nat /\ target[r] \in Nat
           /\ connectionRetries[r] \in 0 .. MaxRetries
           /\ place[r] \in Places
BY DEF TypeOK

LEMMA HandleCounts ==
    ASSUME TypeOK, NEW m, Handle(m), NEW r \in Requests, Counted(r),
           Undisturbed' => Undisturbed /\ (m.data # None => target[r] < m.data.server)
    PROVE  Counted(r)'
<1>1. /\ ProcessQueue(m.data, place) /\ proxyData' = m.data
      /\ retryable' = retryable /\ connectionRetries' = connectionRetries
  BY DEF Handle
<1>2. sends[r] \in Nat /\ target[r] \in Nat /\ connectionRetries[r] \in 0 .. MaxRetries
  BY RequestNumbers
<1>3. CASE Goes(m.data, place, r)
  <2>1. /\ place'[r] = "sent"
        /\ sends'[r] = IF target[r] = m.data.server THEN sends[r] + 1 ELSE 1
    BY <1>1, <1>3, QueueEffects
  <2>2. m.data # None /\ (place[r] = "queued" \/ place[r] = "retrying")
    BY <1>3 DEF Goes, Held
  <2>3. place[r] = "queued" \/ Undisturbed' => sends'[r] = 1
    BY <1>2, <2>1, <2>2 DEF Counted
  <2>4. r \notin retryable => place[r] = "queued"
    BY <2>2 DEF Counted
  <2>5. connectionRetries[r] = 0
    BY <2>2 DEF Counted
  <2> QED BY <1>1, <2>1, <2>3, <2>4, <2>5, Bounds DEF Counted
<1>4. CASE ~ Goes(m.data, place, r)
  <2>1. place'[r] = place[r] /\ sends'[r] = sends[r] /\ target'[r] = target[r]
    BY <1>1, <1>4, QueueEffects
  <2>2. place[r] = "retrying" => m.data = None
    BY <1>4 DEF Goes, Held
  <2> QED BY <1>1, <2>1, <2>2 DEF Counted
<1> QED BY <1>3, <1>4

(* The requests beside the one that a step is about.                       *)
LEMMA OthersCount ==
    ASSUME TypeOK, NEW at, ProcessQueue(proxyData, at), NEW r \in Requests,
           at[r] = place[r], Counted(r), connectionRetries'[r] = connectionRetries[r],
           UNCHANGED <<proxyData, retryable, sendFailures>>
    PROVE  Counted(r)'
<1>1. sends[r] \in Nat /\ target[r] \in Nat /\ connectionRetries[r] \in 0 .. MaxRetries
  BY RequestNumbers
<1>2. CASE Goes(proxyData, at, r)
  <2>1. /\ place'[r] = "sent"
        /\ sends'[r] = IF target[r] = proxyData.server THEN sends[r] + 1 ELSE 1
    BY <1>2, QueueEffects
  <2>2. proxyData # None /\ (place[r] = "queued" \/ place[r] = "retrying")
    BY <1>2 DEF Goes, Held
  <2>3. place[r] = "queued" \/ Undisturbed => sends'[r] = 1
    BY <1>1, <2>1, <2>2 DEF Counted
  <2>4. r \notin retryable => place[r] = "queued"
    BY <2>2 DEF Counted
  <2>5. connectionRetries[r] = 0
    BY <2>2 DEF Counted
  <2> QED BY <2>1, <2>3, <2>4, <2>5, Bounds DEF Counted, Undisturbed
<1>3. CASE ~ Goes(proxyData, at, r)
  <2>1. place'[r] = place[r] /\ sends'[r] = sends[r] /\ target'[r] = target[r]
    BY <1>3, QueueEffects
  <2> QED BY <2>1 DEF Counted, Undisturbed
<1> QED BY <1>2, <1>3

LEMMA FetchCounts ==
    ASSUME TypeOK, RequestsInv, NEW q \in Requests, Fetch(q), NEW r \in Requests
    PROVE  Counted(r)'
<1> DEFINE at == [place EXCEPT ![q] = "queued"]
<1>0. Counted(r) /\ sends[r] \in Nat /\ place \in [Requests -> Places]
  BY RequestsAreCounted, RequestNumbers DEF TypeOK
<1>1. /\ ProcessQueue(proxyData, at) /\ connectionRetries' = connectionRetries
      /\ UNCHANGED <<proxyData, retryable, sendFailures>> /\ place[q] = "idle"
  BY DEF Fetch, UnchangedByRequest
<1>2. CASE r # q
  <2>1. at[r] = place[r]
    BY <1>0, <1>2
  <2> HIDE DEF at
  <2> QED BY <1>0, <1>1, <2>1, OthersCount
<1>3. CASE r = q
  <2>1. at[r] = "queued" /\ sends[r] = 0 /\ connectionRetries[r] = 0
    BY <1>0, <1>1, <1>3 DEF Counted
  <2> HIDE DEF at
  <2>2. CASE Goes(proxyData, at, r)
    <3>1. place'[r] = "sent" /\ sends'[r] = 1
      BY <1>1, <2>1, <2>2, QueueEffects
    <3> QED BY <1>1, <2>1, <3>1, Bounds DEF Counted
  <2>3. CASE ~ Goes(proxyData, at, r)
    <3>1. place'[r] = "queued" /\ sends'[r] = 0
      BY <1>1, <2>1, <2>3, QueueEffects
    <3> QED BY <1>1, <2>1, <3>1, Bounds DEF Counted
  <2> QED BY <2>2, <2>3
<1> QED BY <1>2, <1>3

LEMMA RetryCounts ==
    ASSUME TypeOK, RequestsInv, NEW q \in Requests, RetryConnection(q), NEW r \in Requests
    PROVE  Counted(r)'
<1> DEFINE at == [place EXCEPT ![q] = "retrying"]
<1>0. Counted(r) /\ sends[r] \in Nat /\ place \in [Requests -> Places]
      /\ connectionRetries \in [Requests -> 0 .. MaxRetries]
  BY RequestsAreCounted, RequestNumbers DEF TypeOK
<1>1. /\ ProcessQueue(proxyData, at)
      /\ connectionRetries' = [connectionRetries EXCEPT ![q] = @ + 1]
      /\ UNCHANGED <<proxyData, retryable, sendFailures>>
      /\ proxyData # None /\ proxyData.server = target[q]
      /\ q \in retryable /\ connectionRetries[q] < MaxRetries /\ place[q] = "sent"
  BY DEF RetryConnection, UnchangedByRequest, TargetsCurrentWorker, RetriesLeft, Rejected
<1>2. CASE r # q
  <2>1. at[r] = place[r] /\ connectionRetries'[r] = connectionRetries[r]
    BY <1>0, <1>1, <1>2
  <2> HIDE DEF at
  <2> QED BY <1>0, <1>1, <2>1, OthersCount
<1>3. CASE r = q
  <2>1. at[r] = "retrying" /\ connectionRetries'[r] = connectionRetries[r] + 1
        /\ connectionRetries[r] \in 0 .. MaxRetries
    BY <1>0, <1>1, <1>3
  <2> HIDE DEF at
  <2>2. Goes(proxyData, at, r)
    BY <1>1, <2>1 DEF Goes, Held
  <2>3. place'[r] = "sent" /\ sends'[r] = sends[r] + 1
    BY <1>1, <1>3, <2>2, QueueEffects
  <2>4. Undisturbed => sends[r] <= 1 + connectionRetries[r]
    BY <1>0, <1>1, <1>3 DEF Counted
  <2> QED BY <1>0, <1>1, <1>3, <2>1, <2>3, <2>4, Bounds DEF Counted, Undisturbed
<1> QED BY <1>2, <1>3

LEMMA SettleCounts ==
    ASSUME TypeOK, RequestsInv, NEW q \in Requests, Answer(q) \/ GiveUp(q) \/ Requeue(q),
           NEW r \in Requests
    PROVE  Counted(r)'
<1>0. Counted(r) /\ place \in [Requests -> Places]
      /\ connectionRetries \in [Requests -> 0 .. MaxRetries]
  BY RequestsAreCounted DEF TypeOK
<1>1. PICK p \in {"answered", "failed", "retrying"} :
         /\ Settle(q, p)
         /\ p = "retrying" => q \in retryable /\ ~ TargetsCurrentWorker(q)
  BY DEF Answer, GiveUp, Requeue
<1>2. UNCHANGED <<proxyData, retryable, sendFailures, target, sends>> /\ place[q] = "sent"
  BY <1>1 DEF Answer, GiveUp, Requeue, UnchangedByRequest, Rejected, Settle
<1>3. CASE r # q
  <2>1. place'[r] = place[r] /\ connectionRetries'[r] = connectionRetries[r]
    BY <1>0, <1>1, <1>3 DEF Settle
  <2> QED BY <1>0, <1>2, <2>1 DEF Counted, Undisturbed
<1>4. CASE r = q
  <2>1. place'[r] = p /\ connectionRetries'[r] = 0
    BY <1>0, <1>1, <1>4 DEF Settle
  <2> QED BY <1>0, <1>1, <1>2, <1>4, <2>1 DEF Counted, Undisturbed, TargetsCurrentWorker
<1> QED BY <1>3, <1>4

LEMMA StepRequests ==
    ASSUME TypeOK, JobsInv, PlaysInv, RequestsInv, [Next]_vars
    PROVE  RequestsInv'
<1>0. \A r \in Requests : Counted(r)
  BY RequestsAreCounted
<1> SUFFICES ASSUME NEW r \in Requests PROVE Counted(r)'
  BY DEF RequestsInv, Counted
<1>1. ASSUME UNCHANGED <<proxyData, requests, sendFailures>>
      PROVE  Counted(r)'
  BY <1>0, <1>1 DEF requests, Counted, Undisturbed
<1>2. CASE QuietStep \/ (\E id \in Nat : PauseStep(id)) \/ \E m \in Messages : PlayStep(m)
  BY <1>1, <1>2 DEF QuietStep, PauseStep, PlayStep, Appends, ProxyStays
<1>3. ASSUME messages # <<>>
      PROVE  Head(messages) = messages[1] /\ 1 \in DOMAIN messages
  BY <1>3, TypesSplit DEF ProxyTypes
<1>4. CASE Deliver
  <2>1. Handle(Head(messages)) /\ messages # <<>> /\ sendFailures' = sendFailures
    BY <1>4 DEF Deliver
  <2>2. Undisturbed' => Undisturbed /\ (Head(messages).data # None =>
                                           target[r] < Head(messages).data.server)
    BY <1>3, <2>1 DEF PlaysInv, Undisturbed
  <2> QED BY <1>0, <2>1, <2>2, HandleCounts
<1>5. CASE MessageFails
  <2>1. ~ Undisturbed'
    BY <1>5, TypesSplit DEF MessageFails, Undisturbed, ProxyTypes
  <2>2. CASE Handle(Head(messages))
    BY <1>0, <2>1, <2>2, HandleCounts
  <2>3. CASE UNCHANGED <<proxyData, requests, announced>>
    BY <1>0, <2>1, <2>3 DEF requests, Counted
  <2> QED BY <1>5, <2>2, <2>3 DEF MessageFails
<1>6. ASSUME NEW q \in Requests, Fetch(q) \/ Transport(q)
      PROVE  Counted(r)'
  BY <1>6, FetchCounts, RetryCounts, SettleCounts DEF Transport
<1> QED BY <1>2, <1>4, <1>5, <1>6, StepKinds

-----------------------------------------------------------------------------
(* What the proxy has in the end.                                          *)

LEMMA StepOutcome ==
    ASSUME TypeOK, JobsInv, OutcomeInv, [Next]_vars
    PROVE  OutcomeInv'
<1> SUFFICES ASSUME Undisturbed', Outcome' # None
             PROVE  jobs' = <<>> /\ server'.up /\ Outcome'.server = server'.number
  BY DEF OutcomeInv
<1>0. RuntimeTypes
  BY TypesSplit
<1>1. ASSUME NEW id \in Nat, PauseStep(id) PROVE FALSE
  BY <1>1, AppendEffects DEF PauseStep, Appends, Message
<1>2. ASSUME Undisturbed, Outcome' = Outcome
      PROVE  jobs = <<>> /\ server.up /\ Outcome'.server = server.number
  BY <1>2 DEF OutcomeInv
<1>3. CASE QuietStep
  <2>1. Undisturbed /\ Outcome' = Outcome
    BY <1>3 DEF QuietStep, ProxyStays, Undisturbed, Outcome
  <2>2. jobs = <<>> /\ server.up /\ Outcome'.server = server.number
    BY <1>2, <2>1
  <2>3. jobs' = jobs /\ server' = server
    <3>1. ~ SkipBundle /\ ~ ReloadStarts /\ ~ ReloadEnds /\ ~ ReloadFails /\ ~ BuildSucceeds
      BY <1>3, <2>2, <1>0 DEF SkipBundle, ReloadStarts, ReloadEnds, ReloadFails, JobsInv,
            BuildSucceeds, QuietStep, RuntimeTypes
    <3> QED BY <3>1, RuntimeStaysUnless
  <2> QED BY <2>2, <2>3
<1>4. ASSUME NEW m \in Messages, PlayStep(m), ReloadEnds, ~ Stale(Head(jobs))
      PROVE  jobs' = <<>> /\ server'.up /\ Outcome'.server = server'.number
  <2>1. Outcome' = m.data /\ m.data.server = server.number
    BY <1>4, AppendEffects DEF PlayStep, Appends
  <2>2. jobs # <<>> /\ jobs' = Tail(jobs) /\ server' = [server EXCEPT !.up = TRUE]
    BY <1>4 DEF ReloadEnds, JobsInv
  <2>3. Head(jobs).id = jobs[Len(jobs)].id
    BY <1>4, <2>2 DEF Stale, JobsInv
  <2>4. jobs' = <<>>
    BY <1>0, <2>2, <2>3, OnlyJob DEF RuntimeTypes
  <2> QED BY <1>0, <2>1, <2>2, <2>4 DEF RuntimeTypes
<1>5. CASE Deliver
  <2>1. /\ messages # <<>> /\ messages' = Tail(messages) /\ proxyData' = Head(messages).data
        /\ UNCHANGED <<jobs, server, sendFailures>>
    BY <1>5 DEF Deliver, Handle, UnchangedByMessage, runtime
  <2>2. Outcome' = Outcome /\ Undisturbed
    BY <2>1, TailEffects DEF Undisturbed
  <2> QED BY <1>2, <2>1, <2>2
<1>6. CASE MessageFails
  BY <1>6, TypesSplit DEF MessageFails, Undisturbed, ProxyTypes
<1>7. ASSUME NEW r \in Requests, Fetch(r) \/ Transport(r)
      PROVE  jobs' = <<>> /\ server'.up /\ Outcome'.server = server'.number
  <2>1. UNCHANGED <<messages, proxyData, jobs, server, sendFailures>>
    BY <1>7, RequestStepTypes DEF runtime
  <2>2. Undisturbed /\ Outcome' = Outcome
    BY <2>1 DEF Undisturbed, Outcome
  <2> QED BY <1>2, <2>1, <2>2
<1> QED BY <1>1, <1>3, <1>4, <1>5, <1>6, <1>7, StepKinds

LEMMA StepSession == SessionInv /\ [Next]_vars => SessionInv'
BY StepTypes, StepJobs, StepServers, StepPlays, StepRequests, StepOutcome DEF SessionInv

LEMMA InitSession == Init => SessionInv
<1> SUFFICES ASSUME Init PROVE SessionInv
  OBVIOUS
<1>1. BundlerTypes
  BY Bounds DEF Init, BundlerTypes
<1>2. RuntimeTypes
  <2>1. jobs \in Seq(Jobs)
    BY DEF Init
  <2>2. server \in [number : Nat, up : BOOLEAN]
    BY DEF Init
  <2> QED BY <2>1, <2>2 DEF Init, RuntimeTypes
<1>3. ProxyTypes /\ RequestTypes
  BY Bounds DEF Init, ProxyTypes, RequestTypes, Places, Held
<1>4. TypeOK
  BY <1>1, <1>2, <1>3, TypesSplit
<1>5. JobsInv /\ ServersInv /\ PlaysInv /\ RequestsInv /\ OutcomeInv
  BY Bounds DEF Init, JobsInv, ServersInv, PlaysInv, RequestsInv, OutcomeInv, Outcome,
        Started
<1> QED BY <1>4, <1>5 DEF SessionInv

THEOREM SessionCorrect == Spec => []SessionInv
BY InitSession, StepSession, PTL DEF Spec

(* A worker sees a request that may be repeated at most MaxRetries times   *)
(* again, and any other one once (ProxyWorker.ts: networkConnectionRetries *)
(* is forgotten when a request moves to the next worker).                  *)
THEOREM SendsCorrect == Spec => []SendsAreBounded
<1>1. SessionInv => SendsAreBounded
  BY DEF SessionInv, RequestsInv, SendsAreBounded, Undisturbed
<1> QED BY <1>1, SessionCorrect, PTL

(* When the proxy has been told that a bundle is reloading, it plays no    *)
(* older one again (LocalRuntimeController.#onBundleComplete and the order *)
(* of runtimeMessageMutex).                                                *)
THEOREM ProxyCorrect == Spec => ProxyNeverGoesBack
<1> DEFINE Forward ==
      sendFailures' = 0 /\ proxyData' # None /\ proxyData' # proxyData =>
          \A m \in {Head(messages)} : m.id >= announced
<1>1. ASSUME SessionInv, [Next]_vars PROVE Forward
  <2> SUFFICES ASSUME sendFailures' = 0, proxyData' # None, proxyData' # proxyData
               PROVE  Head(messages).id >= announced
    OBVIOUS
  <2>1. TypeOK /\ JobsInv /\ PlaysInv
    BY <1>1 DEF SessionInv
  <2>2. ~ QuietStep /\ ~ (\E id \in Nat : PauseStep(id)) /\ ~ \E m \in Messages : PlayStep(m)
    BY DEF QuietStep, PauseStep, PlayStep, Appends, ProxyStays
  <2>3. ~ \E r \in Requests : Fetch(r) \/ Transport(r)
    BY <2>1, RequestStepTypes
  <2>4. ~ MessageFails
    BY <2>1, TypesSplit DEF MessageFails, ProxyTypes
  <2>5. Deliver
    BY <1>1, <2>1, <2>2, <2>3, <2>4, StepKinds
  <2>6. /\ messages # <<>> /\ proxyData' = Head(messages).data
        /\ sendFailures' = sendFailures
    BY <2>5 DEF Deliver, Handle
  <2>7. Head(messages) = messages[1] /\ 1 \in DOMAIN messages
    BY <2>1, <2>6, TypesSplit DEF ProxyTypes
  <2>8. announced <= messages[1].id
    BY <2>1, <2>6, <2>7 DEF PlaysInv, Undisturbed
  <2> QED BY <2>1, <2>7, <2>8, Numbers
<1>2. SessionInv /\ [Next]_vars => [Forward]_vars
  BY <1>1
<1> QED BY <1>2, SessionCorrect, PTL DEF Spec, ProxyNeverGoesBack

-----------------------------------------------------------------------------
(* Sessions at rest.                                                       *)

LEMMA BundlerStays ==
    ASSUME TypeOK, [Next]_vars, ~ ConfigUpdate, ~ Edit, ~ Bundler
    PROVE  UNCHANGED <<config, disk, starting, watch, watcher, armed, pending, running>>
<1>1. CASE Runtime
  BY <1>1 DEF Runtime, SkipBundle, ReloadStarts, ReloadEnds, ReloadFails,
        UnchangedByRuntime, bundler
<1>2. CASE Deliver \/ MessageFails
  BY <1>2 DEF Deliver, MessageFails, UnchangedByMessage, bundler
<1>3. ASSUME NEW r \in Requests, Fetch(r) \/ Transport(r)
      PROVE  UNCHANGED <<config, disk, starting, watch, watcher, armed, pending, running>>
  BY <1>3, RequestStepTypes DEF bundler
<1>4. CASE UNCHANGED vars
  BY <1>4 DEF vars, bundler
<1> QED BY <1>1, <1>2, <1>3, <1>4 DEF Next

(* The configuration, if there is one, is not None.                        *)
LEMMA ConfigIs ==
    ASSUME TypeOK
    PROVE  /\ config > 0 => config \in Configs
           /\ \A c \in Configs : c # None /\ c > 0
           /\ \A b \in Builds : b # None
           /\ \A d \in Data : d # None
BY Bounds, NoneAssumption DEF TypeOK, Configs

LEMMA StepWatchers ==
    ASSUME MaxStarting = 1, TypeOK, WatchersInv, [Next]_vars
    PROVE  WatchersInv'
<1>0. BundlerTypes
  BY TypesSplit
<1> USE DEF BundlerTypes
<1>1. \A c \in Configs : watch[c] \in {"starting", "ready"} => c = config /\ c = watcher
                                                             /\ starting = <<>>
  BY ConfigIs DEF WatchersInv
<1>2. Aborted # None => Aborted.aborted
  BY <1>0 DEF Aborted, Builds
<1>3. CASE ConfigUpdate
  <2>1. starting = <<>>
    BY <1>3 DEF ConfigUpdate, WatchersInv
  <2>2. /\ config' = config + 1 /\ starting' = <<config'>>
        /\ UNCHANGED <<watcher, armed, pending, running>>
        /\ watch' = Closing(watcher)
    BY <1>3, <2>1 DEF ConfigUpdate
  <2>3. config' > 0
    BY <1>0, <2>2
  <2>4. \A c \in Configs : watch'[c] \notin {"starting", "ready"}
    BY <1>0, <1>1, <2>2, ConfigIs DEF Closing
  <2>5. \A c \in Configs : watch'[c] = "closing" => c = watcher
    BY <1>0, <2>2 DEF Closing, WatchersInv
  <2>6. starting' # <<>>
    BY <2>2
  <2> QED BY <2>2, <2>3, <2>4, <2>5, <2>6 DEF WatchersInv
<1>4. CASE StartCustomBuild
  <2>1. starting = <<config>> /\ config \in Configs
    BY <1>4, ConfigIs DEF StartCustomBuild, WatchersInv
  <2>2. Head(starting) = config /\ Tail(starting) = <<>>
    BY <2>1
  <2>3. /\ watcher' = config /\ starting' = <<>> /\ armed' = armed \ {watcher}
        /\ pending' = None /\ running' = Aborted /\ config' = config
        /\ watch' = [d \in Configs |-> IF d = config THEN "starting"
                                       ELSE IF watch[d] = "closing" THEN "closed"
                                       ELSE watch[d]]
    BY <1>4, <2>2 DEF StartCustomBuild
  <2>4. \A c \in Configs : /\ watch'[c] \in {"starting", "ready"} => c = config
                           /\ watch'[c] # "closing"
    BY <1>1, <2>3, ConfigIs DEF WatchersInv
  <2>5. watch'[config] = "starting"
    BY <2>1, <2>3
  <2>6. armed' = {}
    BY <2>3 DEF WatchersInv
  <2> QED BY <1>2, <2>3, <2>4, <2>5, <2>6 DEF WatchersInv
<1>5. ASSUME NEW c \in Configs, WatcherReady(c)
      PROVE  WatchersInv'
  <2>1. c = config /\ c = watcher /\ starting = <<>>
    BY <1>1, <1>5 DEF WatcherReady
  <2>2. /\ pending' = c /\ running' = Aborted /\ watch' = [watch EXCEPT ![c] = "ready"]
        /\ UNCHANGED <<config, starting, watcher, armed>>
    BY <1>5 DEF WatcherReady, Schedule
  <2> QED BY <1>0, <1>1, <1>2, <2>1, <2>2 DEF WatchersInv
<1>6. ASSUME NEW c \in Configs, DebounceEnds(c)
      PROVE  WatchersInv'
  <2>1. c = watcher /\ armed' \subseteq armed
    BY <1>6 DEF DebounceEnds, WatchersInv
  <2>2. /\ pending' = c /\ running' = Aborted
        /\ UNCHANGED <<config, starting, watcher, watch>>
    BY <1>6 DEF DebounceEnds, Schedule
  <2> QED BY <1>2, <2>1, <2>2 DEF WatchersInv
<1>7. CASE Edit
  <2>1. armed' \subseteq {watcher}
    BY <1>1, <1>7 DEF Edit, WatchersInv
  <2>2. UNCHANGED <<config, starting, watcher, watch, pending, running>>
    BY <1>7 DEF Edit
  <2> QED BY <2>1, <2>2 DEF WatchersInv
<1>8. CASE BuildStarts
  <2>1. /\ pending = watcher /\ pending' = None
        /\ running' = [config |-> pending, from |-> disk, aborted |-> FALSE]
        /\ UNCHANGED <<config, starting, watcher, watch, armed>>
    BY <1>8 DEF BuildStarts, WatchersInv
  <2> QED BY <2>1 DEF WatchersInv
<1>9. CASE AbortedBuildEnds \/ BuildFails \/ BuildSucceeds
  <2>1. /\ running' = None
        /\ UNCHANGED <<config, starting, watcher, watch, armed, pending>>
    BY <1>9 DEF AbortedBuildEnds, BuildFails, BuildSucceeds, BuildEnds
  <2> QED BY <2>1 DEF WatchersInv
<1>10. CASE UNCHANGED <<config, disk, starting, watch, watcher, armed, pending, running>>
  BY <1>10 DEF WatchersInv
<1> QED BY <1>3, <1>4, <1>5, <1>6, <1>7, <1>8, <1>9, <1>10, BundlerStays DEF Bundler

(* A reload that is left out was not the last.                             *)
LEMMA LastStays ==
    ASSUME TypeOK, JobsInv, jobs # <<>>, jobs' = Tail(jobs), Stale(Head(jobs))
    PROVE  jobs' # <<>> /\ jobs'[Len(jobs')] = jobs[Len(jobs)]
<1>0. jobs \in Seq(Jobs)
  BY TypesSplit DEF RuntimeTypes
<1>1. Head(jobs).id # jobs[Len(jobs)].id
  BY DEF JobsInv, Stale
<1>2. /\ Len(jobs) \in Nat /\ Len(jobs) # 0 /\ Head(jobs) = jobs[1]
      /\ Len(Tail(jobs)) = Len(jobs) - 1
      /\ \A i \in 1 .. (Len(jobs) - 1) : Tail(jobs)[i] = jobs[i + 1]
  BY <1>0
<1>3. Len(jobs) # 1
  BY <1>1, <1>2
<1>4. Len(jobs) - 1 \in 1 .. (Len(jobs) - 1) /\ (Len(jobs) - 1) + 1 = Len(jobs)
  BY <1>2, <1>3
<1>5. Tail(jobs) # <<>>
  BY <1>2, <1>3
<1> QED BY <1>2, <1>4, <1>5

LEMMA StepFresh ==
    ASSUME TypeOK, JobsInv, WatchersInv, FreshInv, [Next]_vars
    PROVE  FreshInv'
<1> SUFFICES ASSUME Quiet'
             PROVE  /\ running' # None => ~ running'.aborted /\ running'.from = disk'
                    /\ running' = None /\ ~ broken' /\ Undisturbed' =>
                         /\ jobs' # <<>> => /\ jobs'[Len(jobs')].config = config'
                                            /\ jobs'[Len(jobs')].disk = disk'
                         /\ jobs' = <<>> => /\ Outcome' # None
                                            /\ Outcome'.config = config'
                                            /\ Outcome'.disk = disk'
  BY DEF FreshInv
<1>0. BundlerTypes /\ RuntimeTypes
  BY TypesSplit
<1>1. ~ ConfigUpdate
  BY <1>0 DEF ConfigUpdate, Quiet, BundlerTypes
<1>2. ~ StartCustomBuild
  <2> SUFFICES ASSUME StartCustomBuild PROVE FALSE
    OBVIOUS
  <2>1. starting = <<config>> /\ config \in Configs
    BY ConfigIs DEF StartCustomBuild, WatchersInv
  <2>2. Head(starting) = config /\ config' = config
    BY <2>1 DEF StartCustomBuild
  <2> QED BY <2>1, <2>2 DEF StartCustomBuild, Quiet
<1>3. ~ \E c \in Configs : WatcherReady(c) \/ DebounceEnds(c)
  BY ConfigIs DEF WatcherReady, DebounceEnds, Schedule, Quiet
<1>4. ~ Edit
  BY ConfigIs DEF Edit, Quiet
<1>5. CASE BuildStarts
  BY <1>0, <1>5, ConfigIs DEF BuildStarts, Builds, BundlerTypes
<1>6. ASSUME AbortedBuildEnds \/ BuildFails \/ BuildSucceeds
      PROVE  /\ ~ running.aborted /\ running.from = disk /\ running.config = config
             /\ running' = None /\ UNCHANGED <<config, disk>>
  <2>1. /\ running # None /\ running' = None
        /\ UNCHANGED <<config, disk, starting, watch, watcher, armed, pending>>
    BY <1>6 DEF AbortedBuildEnds, BuildFails, BuildSucceeds, BuildEnds
  <2>2. Quiet
    BY <2>1 DEF Quiet
  <2> QED BY <2>1, <2>2 DEF FreshInv, WatchersInv, Quiet
<1>7. ~ AbortedBuildEnds
  BY <1>6 DEF AbortedBuildEnds
<1>8. CASE BuildFails
  BY <1>6, <1>8 DEF BuildFails
<1>9. CASE BuildSucceeds
  <2>1. PICK d \in running.from .. disk :
          jobs' = Append(jobs, [id |-> currentBundleId',
                                config |-> running.config, disk |-> d])
    BY <1>9 DEF BuildSucceeds
  <2>2. d = disk
    BY <1>0, <1>6, <1>9, <2>1 DEF BundlerTypes
  <2>3. jobs' # <<>> /\ jobs'[Len(jobs')] = [id |-> currentBundleId',
                                             config |-> running.config, disk |-> d]
    BY <1>0, <2>1 DEF RuntimeTypes
  <2> QED BY <1>6, <1>9, <2>2, <2>3
<1>10. ASSUME UNCHANGED <<config, disk, starting, watch, watcher, armed, pending, running>>
       PROVE  /\ Quiet
              /\ running # None => ~ running.aborted /\ running.from = disk
              /\ running = None /\ ~ broken /\ Undisturbed =>
                   /\ jobs # <<>> => /\ jobs[Len(jobs)].config = config
                                     /\ jobs[Len(jobs)].disk = disk
                   /\ jobs = <<>> => /\ Outcome # None
                                     /\ Outcome.config = config /\ Outcome.disk = disk
  BY <1>10 DEF Quiet, FreshInv
<1>11. CASE Runtime
  <2>1. UNCHANGED <<config, disk, starting, watch, watcher, armed, pending, running>>
        /\ UNCHANGED sendFailures
    BY <1>11 DEF Runtime, SkipBundle, ReloadStarts, ReloadEnds, ReloadFails,
          UnchangedByRuntime, bundler
  <2>2. Undisturbed' = Undisturbed
    BY <2>1 DEF Undisturbed
  <2>3. CASE ReloadStarts
    <3>1. Outcome' = Outcome /\ jobs' = jobs /\ broken' = broken
      BY <2>3 DEF ReloadStarts, UnchangedByRuntime, Outcome
    <3> QED BY <1>10, <2>1, <2>2, <3>1
  <2>4. ASSUME SkipBundle \/ ReloadEnds \/ ReloadFails
        PROVE  jobs # <<>> /\ jobs' = Tail(jobs)
    BY <2>4 DEF SkipBundle, ReloadEnds, ReloadFails, JobsInv
  <2>5. ASSUME SkipBundle \/ ReloadEnds \/ ReloadFails, Stale(Head(jobs))
        PROVE  broken' = broken /\ jobs' # <<>> /\ jobs'[Len(jobs')] = jobs[Len(jobs)]
    BY <1>0, <2>4, <2>5, LastStays DEF SkipBundle, ReloadEnds, ReloadFails, RuntimeTypes
  <2>6. CASE (SkipBundle \/ ReloadEnds \/ ReloadFails) /\ Stale(Head(jobs))
    BY <1>10, <2>1, <2>2, <2>4, <2>5, <2>6
  <2>7. CASE ReloadFails /\ ~ Stale(Head(jobs))
    BY <1>10, <2>1, <2>7 DEF ReloadFails
  <2>8. CASE ReloadEnds /\ ~ Stale(Head(jobs))
    <3> DEFINE job == Head(jobs)
               data == [config |-> job.config, disk |-> job.disk, server |-> server.number]
    <3>1. jobs # <<>> /\ jobs' = Tail(jobs) /\ jobs \in Seq(Jobs)
      BY <1>0, <2>4, <2>8 DEF RuntimeTypes
    <3>2. job \in Jobs
      BY <3>1
    <3>3. data \in Data
      BY <1>0, <3>2 DEF Jobs, Data, RuntimeTypes
    <3>4. data # None
      BY <3>3, ConfigIs
    <3>5. messages' = Append(messages, Message(data, job.id)) /\ broken' = broken
      BY <2>8 DEF ReloadEnds, Send
    <3>6. Outcome' = data
      BY <3>5, AppendEffects DEF Message
    <3>7. job.id = jobs[Len(jobs)].id
      BY <2>8, <3>1 DEF Stale, JobsInv
    <3>8. jobs' = <<>> /\ job = jobs[Len(jobs)]
      <4>1. Len(jobs) = 1 /\ Tail(jobs) = <<>>
        BY <3>1, <3>7, OnlyJob
      <4>2. Head(jobs) = jobs[1]
        BY <3>1
      <4> QED BY <3>1, <4>1, <4>2
    <3> QED BY <1>10, <2>1, <2>2, <3>1, <3>4, <3>5, <3>6, <3>8
  <2> QED BY <1>11, <2>3, <2>6, <2>7, <2>8 DEF Runtime, SkipBundle
<1>12. CASE Deliver
  <2>1. /\ UNCHANGED <<config, disk, starting, watch, watcher, armed, pending, running>>
        /\ UNCHANGED <<jobs, broken, sendFailures>>
        /\ messages # <<>> /\ messages' = Tail(messages) /\ proxyData' = Head(messages).data
    BY <1>12 DEF Deliver, Handle, UnchangedByMessage, bundler, runtime
  <2>2. Outcome' = Outcome /\ Undisturbed' = Undisturbed
    BY <2>1, TailEffects DEF Undisturbed
  <2> QED BY <1>10, <2>1, <2>2
<1>13. CASE MessageFails
  <2>1. UNCHANGED <<config, disk, starting, watch, watcher, armed, pending, running>>
    BY <1>13 DEF MessageFails, UnchangedByMessage, bundler
  <2>2. ~ Undisturbed'
    BY <1>13, TypesSplit DEF MessageFails, Undisturbed, ProxyTypes
  <2> QED BY <1>10, <2>1, <2>2
<1>14. ASSUME UNCHANGED <<config, disk, bundler, jobs, messages, proxyData, broken, sendFailures>>
       PROVE  /\ running' # None => ~ running'.aborted /\ running'.from = disk'
              /\ running' = None /\ ~ broken' /\ Undisturbed' =>
                   /\ jobs' # <<>> => /\ jobs'[Len(jobs')].config = config'
                                      /\ jobs'[Len(jobs')].disk = disk'
                   /\ jobs' = <<>> => /\ Outcome' # None
                                      /\ Outcome'.config = config'
                                      /\ Outcome'.disk = disk'
  <2>1. Outcome' = Outcome /\ Undisturbed' = Undisturbed
    BY <1>14 DEF Outcome, Undisturbed
  <2> QED BY <1>10, <1>14, <2>1 DEF bundler
<1>15. ASSUME NEW r \in Requests, Fetch(r) \/ Transport(r)
       PROVE  UNCHANGED <<config, disk, bundler, jobs, messages, proxyData, broken, sendFailures>>
  BY <1>15, RequestStepTypes DEF runtime
<1>16. ASSUME UNCHANGED vars
       PROVE  UNCHANGED <<config, disk, bundler, jobs, messages, proxyData, broken, sendFailures>>
  BY <1>16 DEF vars, runtime
<1> QED BY <1>1, <1>2, <1>3, <1>4, <1>5, <1>7, <1>8, <1>9, <1>11, <1>12, <1>13, <1>14,
           <1>15, <1>16 DEF Next, Bundler

LEMMA InitCurrent == Init => WatchersInv /\ FreshInv
<1> SUFFICES ASSUME Init PROVE WatchersInv /\ FreshInv
  OBVIOUS
<1>1. FreshInv
  BY DEF Init, FreshInv, Quiet
<1>2. WatchersInv
  BY DEF Init, WatchersInv
<1> QED BY <1>1, <1>2

(* Once a session has come to rest, the proxy sends requests to the        *)
(* process that runs, with the latest sources and configuration unless the *)
(* last build has failed, while closing a watcher is over before the next  *)
(* configuration comes (BundlerController.#startCustomBuild).              *)
THEOREM SettledCorrect ==
    ASSUME MaxStarting = 1
    PROVE  Spec => []SettledSessionIsCurrent
<1>1. SessionInv /\ WatchersInv /\ FreshInv /\ [Next]_vars => WatchersInv' /\ FreshInv'
  BY StepWatchers, StepFresh DEF SessionInv
<1>2. SessionInv /\ WatchersInv /\ FreshInv => SettledSessionIsCurrent
  <2> SUFFICES ASSUME SessionInv, WatchersInv, FreshInv, Settled, sendFailures = 0
               PROVE  /\ proxyData # None => server.up /\ proxyData.server = server.number
                      /\ ~ broken => /\ proxyData # None
                                     /\ proxyData.config = config
                                     /\ proxyData.disk = disk
    BY DEF SettledSessionIsCurrent, SessionInv
  <2>1. Outcome = proxyData /\ Undisturbed
    BY DEF Settled, Outcome, Undisturbed
  <2>2. config \in Configs
    BY ConfigIs DEF Settled, SessionInv
  <2>3. Quiet
    BY <2>2 DEF Settled, Quiet, WatchersInv
  <2> QED BY <2>1, <2>3 DEF SessionInv, OutcomeInv, FreshInv, Settled
<1> QED BY <1>1, <1>2, InitCurrent, SessionCorrect, PTL DEF Spec
=============================================================================
