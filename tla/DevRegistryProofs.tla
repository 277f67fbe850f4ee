-------------------------- MODULE DevRegistryProofs --------------------------
(***************************************************************************)
(* Proofs about DevRegistry: whatever reloads, crashes, retries and        *)
(* heartbeats of however many processes overlap, call by call, on the      *)
(* entry that they share, the entry of an open session is that of a        *)
(* runtime that runs.                                                      *)
(***************************************************************************)
EXTENDS DevRegistry, TLAPS

-----------------------------------------------------------------------------
(* What the steps of one process leave alone: the others, and what the     *)
(* entry of another says.                                                  *)
Mine(p) == Lifecycle(p) \/ Progress(p) \/ Calls(p)
             \/ HeartbeatFires(p) \/ RetryFires(p) \/ Sweep(p)

SameAt(q) ==
    /\ session'[q] = session[q] /\ assemblies'[q] = assemblies[q] /\ stage'[q] = stage[q]
    /\ up'[q] = up[q] /\ port'[q] = port[q]
    /\ heartbeat'[q] = heartbeat[q] /\ retry'[q] = retry[q]
    /\ registered'[q] = registered[q] /\ op'[q] = op[q]

EntryKept(q) ==
    file' # None /\ file'.owner = q =>
        file # None /\ file.owner = q /\ file'.address = file.address

LEMMA OthersKept ==
    ASSUME NEW q \in Processes, ProcessInv(q), SameAt(q), EntryKept(q)
    PROVE  ProcessInv(q)'
<1>1. OperationsInv(q)'
  BY DEF ProcessInv, OperationsInv, SameAt, Does
<1>2. WithdrawnInv(q)'
  BY DEF ProcessInv, WithdrawnInv, SameAt, EntryKept, Does, Silent, Owned
<1>3. AssembliesInv(q)'
  BY DEF ProcessInv, AssembliesInv, SameAt, Does, Silent
<1>4. AddressInv(q)'
  BY DEF ProcessInv, AddressInv, SameAt, EntryKept, Does, Owned
<1> QED BY <1>1, <1>2, <1>3, <1>4 DEF ProcessInv

(* An operation, and its next call.                                        *)
LEMMA OperationIs ==
    ASSUME NEW kind \in {"register", "sweep", "unregister", "heartbeat"},
           NEW step \in {"stat", "read", "unlink", "write", "touch"}, NEW a \in Ports
    PROVE  /\ Operation(kind, step, a) \in Operations
           /\ Operation(kind, step, a) # None
           /\ Operation(kind, step, a).kind = kind
           /\ Operation(kind, step, a).step = step
           /\ Operation(kind, step, a).address = a
<1>1. Operation(kind, step, a) \in Operations
  BY DEF Operation, Operations
<1>2. /\ Operation(kind, step, a).kind = kind /\ Operation(kind, step, a).step = step
      /\ Operation(kind, step, a).address = a
  BY DEF Operation
<1> QED BY <1>1, <1>2, NoneAssumption

LEMMA NoPort == 0 \in Ports
BY RegistryAssumption DEF Ports

LEMMA GotoIs ==
    ASSUME TypeOK, NEW p \in Processes, op[p] # None,
           NEW step \in {"stat", "read", "unlink", "write", "touch"}, Goto(p, step)
    PROVE  /\ op' \in [Processes -> Operations \cup {None}]
           /\ \A q \in Processes : q # p => op'[q] = op[q]
           /\ op'[p] # None /\ op'[p].kind = op[p].kind /\ op'[p].step = step
           /\ op'[p].address = op[p].address
<1>1. op \in [Processes -> Operations \cup {None}] /\ op[p] \in Operations
  BY DEF TypeOK
<1>2. op' = [op EXCEPT ![p] = [op[p] EXCEPT !.step = step]]
  BY <1>1 DEF Goto
<1> DEFINE o == [op[p] EXCEPT !.step = step]
<1>3. o \in Operations /\ o.kind = op[p].kind /\ o.step = step /\ o.address = op[p].address
  BY <1>1 DEF Operations
<1> HIDE DEF o
<1>4. op' = [op EXCEPT ![p] = o]
  BY <1>2 DEF o
<1> QED BY <1>1, <1>3, <1>4, NoneAssumption

LEMMA DoneIs ==
    ASSUME TypeOK, NEW p \in Processes, op[p] # None, Done(p)
    PROVE  /\ op' \in [Processes -> Operations \cup {None}]
           /\ \A q \in Processes : q # p => op'[q] = op[q]
           /\ op[p].kind # "register" => op'[p] = None
           /\ op[p].kind = "register" =>
                op'[p] # None /\ op'[p].kind = "sweep" /\ op'[p].step = "stat"
<1>1. op \in [Processes -> Operations \cup {None}]
  BY DEF TypeOK
<1> DEFINE o == Operation("sweep", "stat", 0)
<1>2. o \in Operations /\ o # None /\ o.kind = "sweep" /\ o.step = "stat"
  BY OperationIs, NoPort
<1> HIDE DEF o
<1>3. op' = [op EXCEPT ![p] = IF op[p].kind = "register" THEN o ELSE None]
  BY <1>1 DEF Done, o
<1> QED BY <1>1, <1>2, <1>3

LEMMA UnregisterIs ==
    ASSUME TypeOK, NEW p \in Processes, UnregisterWorkers(p)
    PROVE  /\ op' \in [Processes -> Operations \cup {None}]
           /\ heartbeat' \in [Processes -> Ports] /\ retry' \in [Processes -> Ports]
           /\ registered' \in [Processes -> BOOLEAN] /\ offered' \in [Processes -> BOOLEAN]
           /\ \A q \in Processes : q # p =>
                /\ op'[q] = op[q] /\ heartbeat'[q] = heartbeat[q] /\ retry'[q] = retry[q]
                /\ registered'[q] = registered[q]
           /\ Silent(p)'
           /\ ~ registered[p] => op'[p] = None
           /\ registered[p] => op'[p] # None /\ op'[p].kind = "unregister" /\ op'[p].step = "read"
<1>1. /\ op \in [Processes -> Operations \cup {None}]
      /\ heartbeat \in [Processes -> Ports] /\ retry \in [Processes -> Ports]
      /\ registered \in [Processes -> BOOLEAN] /\ offered \in [Processes -> BOOLEAN]
  BY DEF TypeOK
<1> DEFINE o == Operation("unregister", "read", 0)
<1>2. o \in Operations /\ o # None /\ o.kind = "unregister" /\ o.step = "read"
  BY OperationIs, NoPort
<1> HIDE DEF o
<1>3. /\ op' = [op EXCEPT ![p] = IF registered[p] THEN o ELSE None]
      /\ heartbeat' = [heartbeat EXCEPT ![p] = 0] /\ retry' = [retry EXCEPT ![p] = 0]
      /\ registered' = [registered EXCEPT ![p] = FALSE]
      /\ offered' = [offered EXCEPT ![p] = FALSE]
  BY DEF UnregisterWorkers, ClearTimers, o
<1> QED BY <1>1, <1>2, <1>3, NoPort DEF Silent

-----------------------------------------------------------------------------
(* The steps of one process, by kind.                                      *)

(* What the proof of each step shows of the step of process p.             *)
StepIs(p) ==
    /\ TypeOK'
    /\ \A q \in Processes : q # p => SameAt(q) /\ EntryKept(q)
    /\ ProcessInv(p)'

LEMMA LeaveStep ==
    ASSUME TypeOK, NEW p \in Processes, ProcessInv(p), session[p] # "killed",
           op[p] = None \/ ~ Owned(p), Leave(p), UNCHANGED <<file, sleeps>>
    PROVE  StepIs(p)
<1>1. /\ session' = [session EXCEPT ![p] = "left"]
      /\ assemblies' = [assemblies EXCEPT ![p] = <<>>]
      /\ stage' = [stage EXCEPT ![p] = "idle"]
      /\ up' = [up EXCEPT ![p] = FALSE]
      /\ UNCHANGED <<port, runtimes, file, sleeps>>
      /\ UnregisterWorkers(p)
  BY DEF Leave
<1>2. /\ session \in [Processes -> {"new", "open", "disposing", "stopping", "left", "killed"}]
      /\ assemblies \in [Processes -> Seq({"init", "options", "crash"})]
      /\ stage \in [Processes -> {"idle", "starting", "started"}]
      /\ up \in [Processes -> BOOLEAN]
  BY DEF TypeOK
<1>3. TypeOK'
  BY <1>1, UnregisterIs DEF TypeOK
<1>4. \A q \in Processes : q # p => SameAt(q) /\ EntryKept(q)
  BY <1>1, <1>2, UnregisterIs DEF SameAt, EntryKept
<1>5. session'[p] = "left" /\ assemblies'[p] = <<>> /\ stage'[p] = "idle"
  BY <1>1, <1>2
<1>6. /\ Silent(p)'
      /\ ~ registered[p] => op'[p] = None
      /\ registered[p] => op'[p] # None /\ op'[p].kind = "unregister" /\ op'[p].step = "read"
  BY <1>1, UnregisterIs
<1>7. Owned(p) => registered[p]
  BY DEF ProcessInv, WithdrawnInv, Does
<1>8. OperationsInv(p)'
  BY <1>6 DEF OperationsInv, Does, Silent
<1>9. WithdrawnInv(p)'
  BY <1>1, <1>5, <1>6, <1>7 DEF WithdrawnInv, Does, Owned
<1>10. AssembliesInv(p)' /\ AddressInv(p)'
  BY <1>5 DEF AssembliesInv, AddressInv
<1> QED BY <1>3, <1>4, <1>8, <1>9, <1>10 DEF StepIs, ProcessInv

LEMMA LifecycleStep ==
    ASSUME TypeOK, NEW p \in Processes, ProcessInv(p), Lifecycle(p)
    PROVE  StepIs(p)
<1>0. /\ session \in [Processes -> {"new", "open", "disposing", "stopping", "left", "killed"}]
      /\ assemblies \in [Processes -> Seq({"init", "options", "crash"})]
      /\ stage \in [Processes -> {"idle", "starting", "started"}]
      /\ up \in [Processes -> BOOLEAN]
      /\ op \in [Processes -> Operations \cup {None}]
      /\ heartbeat \in [Processes -> Ports] /\ retry \in [Processes -> Ports]
      /\ registered \in [Processes -> BOOLEAN] /\ offered \in [Processes -> BOOLEAN]
      /\ assemblies[p] \in Seq({"init", "options", "crash"})
  BY DEF TypeOK
<1>1. OperationsInv(p) /\ WithdrawnInv(p) /\ AssembliesInv(p) /\ AddressInv(p)
  BY DEF ProcessInv
<1>2. CASE Start(p)
  <2>1. /\ session' = [session EXCEPT ![p] = "open"]
        /\ assemblies' = [assemblies EXCEPT ![p] = <<"init">>]
        /\ UNCHANGED <<file, stage, up, port, heartbeat, retry, registered, offered, op, sleeps, runtimes>>
        /\ session[p] = "new"
    BY <1>2 DEF Start, timers
  <2>2. TypeOK'
    BY <2>1 DEF TypeOK
  <2>3. \A q \in Processes : q # p => SameAt(q) /\ EntryKept(q)
    BY <1>0, <2>1 DEF SameAt, EntryKept
  <2>4. /\ session'[p] = "open" /\ assemblies'[p] = <<"init">> /\ assemblies'[p] # <<>>
        /\ Silent(p) /\ op[p] = None
    BY <1>0, <1>1, <2>1 DEF WithdrawnInv
  <2>5. OperationsInv(p)' /\ WithdrawnInv(p)'
    BY <1>1, <2>1, <2>4 DEF OperationsInv, WithdrawnInv, Does, Silent, Owned
  <2>6. stage[p] # "started"
    BY <1>0, <1>1, <2>1 DEF AssembliesInv, WithdrawnInv
  <2>7. AssembliesInv(p)'
    BY <2>1, <2>4, <2>6 DEF AssembliesInv, Silent
  <2>8. AddressInv(p)'
    BY <2>4 DEF AddressInv
  <2> QED BY <2>2, <2>3, <2>5, <2>7, <2>8 DEF StepIs, ProcessInv
<1>3. CASE SetOptions(p)
  <2>1. /\ assemblies' = [assemblies EXCEPT ![p] = Append(@, "options")]
        /\ UNCHANGED <<file, session, stage, up, port, heartbeat, retry, registered, offered, op, sleeps, runtimes>>
    BY <1>3 DEF SetOptions, timers
  <2>2. /\ assemblies'[p] = Append(assemblies[p], "options")
        /\ assemblies'[p] \in Seq({"init", "options", "crash"}) /\ assemblies'[p] # <<>>
        /\ (\A i \in DOMAIN assemblies[p] : assemblies[p][i] = "init" => i = 1)
             => \A i \in DOMAIN assemblies'[p] : assemblies'[p][i] = "init" => i = 1
        /\ Head(assemblies'[p]) = "init" => assemblies[p] # <<>> /\ Head(assemblies[p]) = "init"
        /\ Len(assemblies'[p]) = 1 => assemblies[p] = <<>>
    BY <1>0, <2>1
  <2>3. TypeOK'
    BY <1>0, <2>1 DEF TypeOK
  <2>4. \A q \in Processes : q # p => SameAt(q) /\ EntryKept(q)
    BY <1>0, <2>1 DEF SameAt, EntryKept
  <2>5. OperationsInv(p)'
    BY <1>1, <2>1 DEF OperationsInv, Does
  <2>6. WithdrawnInv(p)'
    BY <1>1, <1>3, <2>1 DEF WithdrawnInv, Does, Silent, Owned, SetOptions
  <2>7. AssembliesInv(p)'
    BY <1>1, <2>1, <2>2 DEF AssembliesInv, Does, Silent
  <2>8. AddressInv(p)'
    BY <2>2 DEF AddressInv
  <2> QED BY <2>3, <2>4, <2>5, <2>6, <2>7, <2>8 DEF StepIs, ProcessInv
<1>4. CASE WorkerdCrash(p)
  <2>1. /\ assemblies' = [assemblies EXCEPT ![p] = Append(@, "crash")]
        /\ up' = [up EXCEPT ![p] = FALSE]
        /\ UnregisterWorkers(p)
        /\ UNCHANGED <<file, session, stage, port, sleeps, runtimes>>
        /\ session[p] = "open" /\ op[p] = None
    BY <1>4 DEF WorkerdCrash, Free
  <2>2. /\ assemblies'[p] = Append(assemblies[p], "crash")
        /\ assemblies'[p] \in Seq({"init", "options", "crash"}) /\ assemblies'[p] # <<>>
        /\ (\A i \in DOMAIN assemblies[p] : assemblies[p][i] = "init" => i = 1)
             => \A i \in DOMAIN assemblies'[p] : assemblies'[p][i] = "init" => i = 1
        /\ Head(assemblies'[p]) = "init" => assemblies[p] # <<>> /\ Head(assemblies[p]) = "init"
        /\ Len(assemblies'[p]) = 1 => assemblies[p] = <<>>
    BY <1>0, <2>1
  <2>3. TypeOK'
    BY <1>0, <2>1, UnregisterIs DEF TypeOK
  <2>4. \A q \in Processes : q # p => SameAt(q) /\ EntryKept(q)
    BY <1>0, <2>1, UnregisterIs DEF SameAt, EntryKept
  <2>5. /\ Silent(p)'
        /\ ~ registered[p] => op'[p] = None
        /\ registered[p] => op'[p] # None /\ op'[p].kind = "unregister" /\ op'[p].step = "read"
    BY <2>1, UnregisterIs
  <2>6. OperationsInv(p)'
    BY <2>5 DEF OperationsInv, Does, Silent
  <2>7. WithdrawnInv(p)'
    BY <1>1, <2>1, <2>5 DEF WithdrawnInv, Does, Silent, Owned
  <2>8. AssembliesInv(p)'
    BY <1>1, <2>1, <2>2, <2>5 DEF AssembliesInv, Does, Silent
  <2>9. AddressInv(p)'
    BY <2>2 DEF AddressInv
  <2> QED BY <2>3, <2>4, <2>6, <2>7, <2>8, <2>9 DEF StepIs, ProcessInv
<1>5. CASE Dispose(p)
  <2>1. /\ session' = [session EXCEPT ![p] = "disposing"] /\ session[p] = "open"
        /\ UNCHANGED <<file, assemblies, stage, up, port, heartbeat, retry, registered, offered, op, sleeps, runtimes>>
    BY <1>5 DEF Dispose, timers
  <2>2. TypeOK'
    BY <2>1 DEF TypeOK
  <2>3. \A q \in Processes : q # p => SameAt(q) /\ EntryKept(q)
    BY <1>0, <2>1 DEF SameAt, EntryKept
  <2>4. session'[p] = "disposing"
    BY <1>0, <2>1
  <2>5. OperationsInv(p)' /\ WithdrawnInv(p)' /\ AssembliesInv(p)' /\ AddressInv(p)'
    BY <1>1, <2>1, <2>4
       DEF OperationsInv, WithdrawnInv, AssembliesInv, AddressInv, Does, Silent, Owned
  <2> QED BY <2>2, <2>3, <2>5 DEF StepIs, ProcessInv
<1>6. CASE Exit(p)
  BY <1>6, LeaveStep DEF Exit, Free, Alive
<1>7. CASE Kill(p)
  <2>1. /\ session' = [session EXCEPT ![p] = "killed"]
        /\ assemblies' = [assemblies EXCEPT ![p] = <<>>]
        /\ stage' = [stage EXCEPT ![p] = "idle"]
        /\ up' = [up EXCEPT ![p] = FALSE]
        /\ heartbeat' = [heartbeat EXCEPT ![p] = 0]
        /\ retry' = [retry EXCEPT ![p] = 0]
        /\ registered' = [registered EXCEPT ![p] = FALSE]
        /\ offered' = [offered EXCEPT ![p] = FALSE]
        /\ op' = [op EXCEPT ![p] = None]
        /\ UNCHANGED <<file, port, sleeps, runtimes>>
    BY <1>7 DEF Kill
  <2>2. TypeOK'
    BY <2>1, NoPort DEF TypeOK
  <2>3. \A q \in Processes : q # p => SameAt(q) /\ EntryKept(q)
    BY <1>0, <2>1 DEF SameAt, EntryKept
  <2>4. /\ session'[p] = "killed" /\ assemblies'[p] = <<>> /\ stage'[p] = "idle"
        /\ heartbeat'[p] = 0 /\ op'[p] = None
    BY <1>0, <2>1
  <2>5. OperationsInv(p)' /\ WithdrawnInv(p)' /\ AssembliesInv(p)' /\ AddressInv(p)'
    BY <2>4 DEF OperationsInv, WithdrawnInv, AssembliesInv, AddressInv, Does
  <2> QED BY <2>2, <2>3, <2>5 DEF StepIs, ProcessInv
<1> QED BY <1>2, <1>3, <1>4, <1>5, <1>6, <1>7 DEF Lifecycle

LEMMA ProgressStep ==
    ASSUME TypeOK, NEW p \in Processes, ProcessInv(p), Progress(p)
    PROVE  StepIs(p)
<1>0. /\ session \in [Processes -> {"new", "open", "disposing", "stopping", "left", "killed"}]
      /\ assemblies \in [Processes -> Seq({"init", "options", "crash"})]
      /\ stage \in [Processes -> {"idle", "starting", "started"}]
      /\ up \in [Processes -> BOOLEAN] /\ port \in [Processes -> Ports]
      /\ op \in [Processes -> Operations \cup {None}]
      /\ heartbeat \in [Processes -> Ports] /\ retry \in [Processes -> Ports]
      /\ registered \in [Processes -> BOOLEAN] /\ offered \in [Processes -> BOOLEAN]
      /\ assemblies[p] \in Seq({"init", "options", "crash"}) /\ runtimes \in Ports
  BY DEF TypeOK
<1>1. OperationsInv(p) /\ WithdrawnInv(p) /\ AssembliesInv(p) /\ AddressInv(p)
  BY DEF ProcessInv
<1>2. CASE AssemblyStarts(p)
  <2>1. /\ stage' = [stage EXCEPT ![p] = "starting"] /\ up' = [up EXCEPT ![p] = FALSE]
        /\ assemblies[p] # <<>>
        /\ UNCHANGED <<file, session, assemblies, port, heartbeat, retry, registered, offered, op, sleeps, runtimes>>
    BY <1>2 DEF AssemblyStarts, timers
  <2>2. TypeOK'
    BY <2>1 DEF TypeOK
  <2>3. \A q \in Processes : q # p => SameAt(q) /\ EntryKept(q)
    BY <1>0, <2>1 DEF SameAt, EntryKept
  <2>4. stage'[p] = "starting" /\ assemblies'[p] # <<>>
    BY <1>0, <2>1
  <2>5. OperationsInv(p)' /\ WithdrawnInv(p)'
    BY <1>1, <2>1 DEF OperationsInv, WithdrawnInv, Does, Silent, Owned
  <2>6. AssembliesInv(p)' /\ AddressInv(p)'
    BY <1>1, <2>1, <2>4 DEF AssembliesInv, AddressInv, Does, Silent
  <2> QED BY <2>2, <2>3, <2>5, <2>6 DEF StepIs, ProcessInv
<1>3. CASE RuntimeListens(p)
  <2>1. /\ stage' = [stage EXCEPT ![p] = "started"] /\ up' = [up EXCEPT ![p] = TRUE]
        /\ port' = [port EXCEPT ![p] = runtimes'] /\ runtimes' = runtimes + 1
        /\ runtimes < MaxRuntimes /\ stage[p] = "starting"
        /\ UNCHANGED <<file, session, assemblies, heartbeat, retry, registered, offered, op, sleeps>>
    BY <1>3 DEF RuntimeListens, timers
  <2>2. runtimes' \in Ports
    BY <1>0, <2>1, RegistryAssumption DEF Ports
  <2>3. TypeOK'
    BY <2>1, <2>2 DEF TypeOK
  <2>4. \A q \in Processes : q # p => SameAt(q) /\ EntryKept(q)
    BY <1>0, <2>1 DEF SameAt, EntryKept
  <2>5. up'[p] /\ assemblies'[p] # <<>>
    BY <1>0, <1>1, <2>1 DEF AssembliesInv
  <2>6. OperationsInv(p)' /\ WithdrawnInv(p)'
    BY <1>1, <2>1 DEF OperationsInv, WithdrawnInv, Does, Silent, Owned
  <2>7. AssembliesInv(p)' /\ AddressInv(p)'
    BY <1>1, <2>1, <2>5 DEF AssembliesInv, AddressInv, Does, Silent
  <2> QED BY <2>3, <2>4, <2>6, <2>7 DEF StepIs, ProcessInv
<1>4. ASSUME AssemblyEnds(p), stage[p] # "idle"
      PROVE  /\ assemblies' \in [Processes -> Seq({"init", "options", "crash"})]
             /\ stage' \in [Processes -> {"idle", "starting", "started"}]
             /\ \A q \in Processes : q # p => assemblies'[q] = assemblies[q] /\ stage'[q] = stage[q]
             /\ assemblies[p] # <<>> /\ stage'[p] = "idle"
             /\ assemblies'[p] = <<>> => Len(assemblies[p]) = 1
             /\ \A i \in DOMAIN assemblies'[p] : assemblies'[p][i] # "init"
             /\ assemblies'[p] # <<>> => Head(assemblies'[p]) # "init"
             /\ op[p] = None /\ session[p] \in {"open", "disposing", "stopping"}
             /\ UNCHANGED <<file, session, up, port, sleeps, runtimes>>
  <2>1. /\ assemblies[p] # <<>> /\ op[p] = None
        /\ session[p] \in {"open", "disposing", "stopping"}
        /\ assemblies' = [assemblies EXCEPT ![p] = Tail(@)]
        /\ stage' = [stage EXCEPT ![p] = "idle"]
        /\ UNCHANGED <<file, session, up, port, sleeps, runtimes>>
    BY <1>1, <1>4 DEF AssembliesInv, AssemblyEnds, Free, Alive
  <2>2. /\ assemblies'[p] = Tail(assemblies[p])
        /\ Tail(assemblies[p]) \in Seq({"init", "options", "crash"})
        /\ \A i \in DOMAIN Tail(assemblies[p]) :
              i + 1 \in DOMAIN assemblies[p] /\ i + 1 # 1
              /\ Tail(assemblies[p])[i] = assemblies[p][i + 1]
        /\ Tail(assemblies[p]) = <<>> => Len(assemblies[p]) = 1
        /\ Tail(assemblies[p]) # <<>> =>
              /\ 1 \in DOMAIN Tail(assemblies[p])
              /\ Head(Tail(assemblies[p])) = Tail(assemblies[p])[1]
    <3> DEFINE s == assemblies[p]
               t == Tail(s)
    <3>1. s \in Seq({"init", "options", "crash"}) /\ s # <<>>
      BY <1>0, <2>1
    <3> HIDE DEF s
    <3>2. /\ t \in Seq({"init", "options", "crash"})
          /\ Len(t) = Len(s) - 1 /\ Len(s) \in Nat \ {0}
          /\ DOMAIN t = 1 .. (Len(s) - 1) /\ DOMAIN s = 1 .. Len(s)
          /\ \A i \in 1 .. (Len(s) - 1) : t[i] = s[i + 1]
      BY <3>1
    <3>3. /\ t = <<>> => Len(t) = 0
          /\ t # <<>> => Len(t) # 0 /\ Head(t) = t[1]
      BY <3>2
    <3>4. \A i \in DOMAIN t : i + 1 \in DOMAIN s /\ i + 1 # 1 /\ t[i] = s[i + 1]
      BY <3>2
    <3>5. (t = <<>> => Len(s) = 1) /\ (t # <<>> => 1 \in DOMAIN t)
      BY <3>2, <3>3
    <3>6. assemblies'[p] = t
      BY <1>0, <2>1 DEF s
    <3> QED BY <3>2, <3>3, <3>4, <3>5, <3>6 DEF s
  <2>3. \A i \in DOMAIN assemblies'[p] : assemblies'[p][i] # "init"
    BY <1>1, <2>2 DEF AssembliesInv
  <2>4. /\ assemblies' \in [Processes -> Seq({"init", "options", "crash"})]
        /\ stage' \in [Processes -> {"idle", "starting", "started"}]
        /\ \A q \in Processes : q # p => assemblies'[q] = assemblies[q] /\ stage'[q] = stage[q]
        /\ stage'[p] = "idle"
    BY <1>0, <2>1, <2>2
  <2> QED BY <2>1, <2>2, <2>3, <2>4
<1>5. CASE Register(p)
  <2>1. /\ stage[p] = "started" /\ AssemblyEnds(p)
        /\ retry' = [retry EXCEPT ![p] = 0]
        /\ op' = [op EXCEPT ![p] = Operation("register", "stat", port[p])]
        /\ offered' = [offered EXCEPT ![p] = TRUE]
        /\ UNCHANGED <<heartbeat, registered>>
    BY <1>5 DEF Register
  <2> DEFINE o == Operation("register", "stat", port[p])
  <2>2. /\ o \in Operations /\ o # None /\ o.kind = "register" /\ o.step = "stat"
        /\ o.address = port[p]
    BY <1>0, OperationIs
  <2> HIDE DEF o
  <2>3. op' = [op EXCEPT ![p] = o]
    BY <2>1 DEF o
  <2>4. op' \in [Processes -> Operations \cup {None}] /\ op'[p] = o
        /\ \A q \in Processes : q # p => op'[q] = op[q]
    BY <1>0, <2>2, <2>3
  <2>5. retry'[p] = 0 /\ retry' \in [Processes -> Ports] /\ offered' \in [Processes -> BOOLEAN]
        /\ \A q \in Processes : q # p => retry'[q] = retry[q]
    BY <1>0, <2>1, NoPort
  <2>6. TypeOK'
    BY <1>4, <2>1, <2>4, <2>5 DEF TypeOK
  <2>7. \A q \in Processes : q # p => SameAt(q) /\ EntryKept(q)
    BY <1>4, <2>1, <2>4, <2>5 DEF SameAt, EntryKept
  <2>8. OperationsInv(p)'
    BY <1>1, <2>1, <2>2, <2>4 DEF OperationsInv, Does
  <2>9. WithdrawnInv(p)'
    BY <1>1, <1>4, <2>1 DEF WithdrawnInv, Does, Owned
  <2>10. AssembliesInv(p)'
    BY <1>1, <1>4, <2>1 DEF AssembliesInv
  <2>11. AddressInv(p)'
    BY <1>4, <2>1, <2>2, <2>4, <2>5 DEF AddressInv, Does
  <2> QED BY <2>6, <2>7, <2>8, <2>9, <2>10, <2>11 DEF StepIs, ProcessInv
<1>6. ASSUME AssemblyEnds(p), stage[p] # "idle", Silent(p)', ~ Owned(p) \/ registered[p],
             op' \in [Processes -> Operations \cup {None}],
             heartbeat' \in [Processes -> Ports], retry' \in [Processes -> Ports],
             registered' \in [Processes -> BOOLEAN], offered' \in [Processes -> BOOLEAN],
             \A q \in Processes : q # p =>
                /\ op'[q] = op[q] /\ heartbeat'[q] = heartbeat[q] /\ retry'[q] = retry[q]
                /\ registered'[q] = registered[q],
             \/ op'[p] = None /\ ~ registered[p]
             \/ op'[p] # None /\ op'[p].kind = "unregister" /\ op'[p].step = "read"
      PROVE  StepIs(p)
  <2>1. TypeOK'
    BY <1>4, <1>6 DEF TypeOK
  <2>2. \A q \in Processes : q # p => SameAt(q) /\ EntryKept(q)
    BY <1>4, <1>6 DEF SameAt, EntryKept
  <2>3. OperationsInv(p)'
    BY <1>6 DEF OperationsInv, Does, Silent
  <2>4. WithdrawnInv(p)'
    BY <1>4, <1>6 DEF WithdrawnInv, Does, Owned
  <2>5. AssembliesInv(p)'
    BY <1>4, <1>6 DEF AssembliesInv, Does
  <2>6. AddressInv(p)'
    BY <1>4, <1>6 DEF AddressInv, Does, Owned, Silent
  <2> QED BY <2>1, <2>2, <2>3, <2>4, <2>5, <2>6 DEF StepIs, ProcessInv
<1>7. CASE AssemblyFails(p)
  <2>1. AssemblyEnds(p) /\ stage[p] # "idle"
    BY <1>7 DEF AssemblyFails
  <2>2. Owned(p) => registered[p]
    BY <1>1, <1>4, <2>1 DEF WithdrawnInv, Does
  <2>3. CASE Head(assemblies[p]) = "init"
    <3>1. UNCHANGED <<heartbeat, retry, registered, offered, op>>
      BY <1>7, <2>3 DEF AssemblyFails, timers
    <3>2. Silent(p)' /\ ~ registered[p]
      BY <1>1, <1>4, <2>1, <2>3, <3>1 DEF AssembliesInv, Silent
    <3> QED BY <1>0, <1>4, <1>6, <2>1, <2>2, <3>1, <3>2
  <2>4. CASE Head(assemblies[p]) # "init"
    <3>1. UnregisterWorkers(p)
      BY <1>7, <2>4 DEF AssemblyFails
    <3> QED BY <1>6, <2>1, <2>2, <3>1, UnregisterIs
  <2> QED BY <2>3, <2>4
<1>8. CASE AssemblyAborted(p)
  <2>1. /\ AssemblyEnds(p) /\ stage[p] # "idle" /\ session[p] = "disposing"
        /\ UNCHANGED <<heartbeat, retry, registered, offered, op>>
    BY <1>8 DEF AssemblyAborted, timers
  <2>2. TypeOK'
    BY <1>0, <1>4, <2>1 DEF TypeOK
  <2>3. \A q \in Processes : q # p => SameAt(q) /\ EntryKept(q)
    BY <1>4, <2>1 DEF SameAt, EntryKept
  <2>4. OperationsInv(p)' /\ WithdrawnInv(p)'
    BY <1>1, <1>4, <2>1 DEF OperationsInv, WithdrawnInv, Does, Silent, Owned
  <2>5. AssembliesInv(p)' /\ AddressInv(p)'
    BY <1>4, <2>1 DEF AssembliesInv, AddressInv
  <2> QED BY <2>2, <2>3, <2>4, <2>5 DEF StepIs, ProcessInv
<1>9. CASE DisposeRuntime(p)
  <2>1. /\ session' = [session EXCEPT ![p] = "stopping"] /\ up' = [up EXCEPT ![p] = FALSE]
        /\ assemblies[p] = <<>> /\ session[p] = "disposing"
        /\ UNCHANGED <<file, assemblies, stage, port, heartbeat, retry, registered, offered, op, sleeps, runtimes>>
    BY <1>9 DEF DisposeRuntime, timers
  <2>2. TypeOK'
    BY <2>1 DEF TypeOK
  <2>3. \A q \in Processes : q # p => SameAt(q) /\ EntryKept(q)
    BY <1>0, <2>1 DEF SameAt, EntryKept
  <2>4. session'[p] = "stopping" /\ Len(assemblies'[p]) # 1
    BY <1>0, <2>1
  <2>5. OperationsInv(p)' /\ WithdrawnInv(p)'
    BY <1>1, <2>1, <2>4 DEF OperationsInv, WithdrawnInv, Does, Silent, Owned
  <2>6. AssembliesInv(p)' /\ AddressInv(p)'
    BY <1>1, <2>1, <2>4 DEF AssembliesInv, AddressInv
  <2> QED BY <2>2, <2>3, <2>5, <2>6 DEF StepIs, ProcessInv
<1>10. CASE DisposeEnds(p)
  BY <1>10, LeaveStep DEF DisposeEnds, Free, Alive
<1> QED BY <1>2, <1>3, <1>5, <1>7, <1>8, <1>9, <1>10 DEF Progress

(* An operation goes on, or ends where its end leaves nothing to be done.  *)
LEMMA OperationMoves ==
    ASSUME NEW p \in Processes, ProcessInv(p), op[p] # None,
           UNCHANGED <<instance, retry, registered>>,
           heartbeat' = heartbeat \/ heartbeat'[p] = 0,
           EntryKept(p),
           \/ /\ op'[p] # None /\ op'[p].kind = op[p].kind /\ op'[p].address = op[p].address
              /\ op'[p].step # "stat"
              /\ op'[p].step = "write" => op[p].kind \in {"register", "heartbeat"}
              /\ op'[p].step = "touch" => op[p].kind = "heartbeat"
           \/ /\ op'[p] = None
              /\ op[p].kind # "register"
              /\ op[p].kind = "unregister" => ~ Owned(p)'
    PROVE  ProcessInv(p)'
<1>1. OperationsInv(p) /\ WithdrawnInv(p) /\ AssembliesInv(p) /\ AddressInv(p)
  BY DEF ProcessInv
<1>2. UNCHANGED <<session, assemblies, stage, up, port, retry, registered>>
  BY DEF instance
<1>3. OperationsInv(p)'
  BY <1>1, <1>2 DEF OperationsInv, Does
<1>4. Owned(p)' => Owned(p) /\ file'.address = file.address
  BY DEF EntryKept, Owned
<1>5. WithdrawnInv(p)'
  BY <1>1, <1>2, <1>4 DEF WithdrawnInv, Does, Silent
<1>6. AssembliesInv(p)'
  BY <1>1, <1>2 DEF AssembliesInv, Does, Silent
<1>7. AddressInv(p)'
  BY <1>1, <1>2, <1>4 DEF AddressInv, Does
<1> QED BY <1>3, <1>5, <1>6, <1>7 DEF ProcessInv

LEMMA CallsStep ==
    ASSUME TypeOK, NEW p \in Processes, ProcessInv(p), Calls(p)
    PROVE  StepIs(p)
<1>0. /\ file \in Entries \cup {None}
      /\ op \in [Processes -> Operations \cup {None}]
      /\ heartbeat \in [Processes -> Ports] /\ retry \in [Processes -> Ports]
      /\ registered \in [Processes -> BOOLEAN]
      /\ None \notin Entries /\ None \notin Operations
  BY NoneAssumption DEF TypeOK
<1>1. OperationsInv(p) /\ WithdrawnInv(p) /\ AssembliesInv(p) /\ AddressInv(p)
  BY DEF ProcessInv
<1>2. op[p] # None /\ op[p] \in Operations /\ (sleeps' = sleeps \/ TouchThrows(p))
  BY <1>0 DEF Calls, Call, Stat, Unlink, Write, Touch, TouchThrows, ReadToRegister, ReadToSweep,
              ReadToUnregister, ReadToTouch
<1>3. ASSUME UNCHANGED <<instance, offered, sleeps>>,
             file' \in Entries \cup {None},
             heartbeat' \in [Processes -> Ports], retry' \in [Processes -> Ports],
             registered' \in [Processes -> BOOLEAN],
             op' \in [Processes -> Operations \cup {None}],
             \A q \in Processes : q # p =>
                /\ heartbeat'[q] = heartbeat[q] /\ retry'[q] = retry[q]
                /\ registered'[q] = registered[q] /\ op'[q] = op[q]
                /\ EntryKept(q),
             ProcessInv(p)'
      PROVE  StepIs(p)
  <2>1. TypeOK'
    BY <1>3 DEF TypeOK, instance
  <2>2. \A q \in Processes : q # p => SameAt(q) /\ EntryKept(q)
    BY <1>3 DEF SameAt, instance
  <2> QED BY <1>3, <2>1, <2>2 DEF StepIs
<1>4. file' = file => \A q \in Processes : EntryKept(q)
  BY DEF EntryKept
<1>5. CASE Stat(p)
  <2>1. UNCHANGED <<file, instance, heartbeat, retry, registered, offered, sleeps>>
        /\ op[p].step = "stat"
    BY <1>5 DEF Stat, Call, timers
  <2>2. CASE file = None /\ op[p].kind = "sweep"
    <3>1. Done(p)
      BY <1>5, <2>2 DEF Stat
    <3>2. ProcessInv(p)'
      BY <1>2, <1>4, <2>1, <2>2, <3>1, DoneIs, OperationMoves
    <3> QED BY <1>0, <1>2, <1>3, <1>4, <2>1, <3>1, <3>2, DoneIs
  <2>3. CASE file = None /\ op[p].kind # "sweep"
    <3>1. Goto(p, "write")
      BY <1>5, <2>3 DEF Stat
    <3>2. op[p].kind \in {"register", "heartbeat"}
      BY <1>1, <1>2, <2>1, <2>3 DEF OperationsInv, Operations
    <3>3. ProcessInv(p)'
      BY <1>2, <1>4, <2>1, <3>1, <3>2, GotoIs, OperationMoves
    <3> QED BY <1>0, <1>2, <1>3, <1>4, <2>1, <3>1, <3>3, GotoIs
  <2>4. CASE file # None
    <3> DEFINE o == [op[p] EXCEPT !.step = "read", !.stale = file.stale]
    <3>1. file.stale \in BOOLEAN
      BY <1>0, <2>4 DEF Entries
    <3>2. /\ o \in Operations /\ o # None /\ o.kind = op[p].kind /\ o.step = "read"
          /\ o.address = op[p].address
      BY <1>0, <1>2, <3>1 DEF Operations
    <3> HIDE DEF o
    <3>3. op' = [op EXCEPT ![p] = o]
      BY <1>0, <1>5, <2>4 DEF Stat, o
    <3>4. op' \in [Processes -> Operations \cup {None}] /\ op'[p] = o
          /\ \A q \in Processes : q # p => op'[q] = op[q]
      BY <1>0, <3>2, <3>3
    <3>5. ProcessInv(p)'
      BY <1>2, <1>4, <2>1, <3>2, <3>4, OperationMoves
    <3> QED BY <1>0, <1>3, <1>4, <2>1, <3>4, <3>5
  <2> QED BY <2>2, <2>3, <2>4
<1>6. CASE ReadToRegister(p)
  <2>1. UNCHANGED <<file, instance, heartbeat, registered, offered, sleeps>>
        /\ op[p].kind = "register"
    BY <1>6 DEF ReadToRegister, Call
  <2>2. CASE UNCHANGED retry /\ (Goto(p, "unlink") \/ Goto(p, "write"))
    <3>1. ProcessInv(p)'
      BY <1>2, <1>4, <2>1, <2>2, GotoIs, OperationMoves
    <3> QED BY <1>0, <1>2, <1>3, <1>4, <2>1, <2>2, <3>1, GotoIs
  <2>3. CASE ~ Owned(p) /\ TryLater(p) /\ Done(p)
    <3>1. /\ op' \in [Processes -> Operations \cup {None}]
          /\ \A q \in Processes : q # p => op'[q] = op[q]
          /\ op'[p] # None /\ op'[p].kind = "sweep" /\ op'[p].step = "stat"
      BY <1>2, <2>1, <2>3, DoneIs
    <3>2. op[p].address \in Ports
      BY <1>2 DEF Operations
    <3>3. /\ retry' \in [Processes -> Ports] /\ retry'[p] = op[p].address
          /\ \A q \in Processes : q # p => retry'[q] = retry[q]
      BY <1>0, <2>3, <3>2 DEF TryLater
    <3>4. UNCHANGED <<session, assemblies, stage, up, port>> /\ ~ Owned(p)'
      BY <2>1, <2>3 DEF instance, Owned
    <3>5. OperationsInv(p)'
      BY <1>1, <1>2, <2>1, <3>1 DEF OperationsInv, Does
    <3>6. WithdrawnInv(p)'
      BY <1>1, <1>2, <2>1, <3>4 DEF WithdrawnInv, Does
    <3>7. AssembliesInv(p)'
      BY <1>1, <1>2, <2>1, <3>4 DEF AssembliesInv, Does
    <3>8. AddressInv(p)'
      BY <1>1, <1>2, <2>1, <3>1, <3>3, <3>4 DEF AddressInv, Does
    <3> QED BY <1>0, <1>3, <1>4, <2>1, <3>1, <3>3, <3>5, <3>6, <3>7, <3>8 DEF ProcessInv
  <2> QED BY <1>6, <2>2, <2>3 DEF ReadToRegister
<1>7. CASE ReadToSweep(p) \/ ReadToUnregister(p)
  <2>1. /\ UNCHANGED <<file, instance, heartbeat, retry, registered, offered, sleeps>>
        /\ op[p].kind \in {"sweep", "unregister"}
        /\ \/ Goto(p, "unlink")
           \/ Done(p) /\ (op[p].kind = "unregister" => ~ Owned(p)')
    BY <1>7 DEF ReadToSweep, ReadToUnregister, Call, timers, Owned
  <2>2. ProcessInv(p)'
    BY <1>2, <1>4, <2>1, GotoIs, DoneIs, OperationMoves
  <2> QED BY <1>0, <1>2, <1>3, <1>4, <2>1, <2>2, GotoIs, DoneIs
<1>8. CASE ReadToTouch(p)
  <2>1. /\ UNCHANGED <<file, instance, retry, registered, offered, sleeps>>
        /\ op[p].kind = "heartbeat"
        /\ \/ Goto(p, "touch") /\ UNCHANGED heartbeat
           \/ Done(p) /\ heartbeat' = [heartbeat EXCEPT ![p] = 0]
    BY <1>8 DEF ReadToTouch, Call
  <2>2. /\ heartbeat' \in [Processes -> Ports] /\ (heartbeat' = heartbeat \/ heartbeat'[p] = 0)
        /\ \A q \in Processes : q # p => heartbeat'[q] = heartbeat[q]
    BY <1>0, <2>1, NoPort
  <2>3. ProcessInv(p)'
    BY <1>2, <1>4, <2>1, <2>2, GotoIs, DoneIs, OperationMoves
  <2> QED BY <1>0, <1>2, <1>3, <1>4, <2>1, <2>2, <2>3, GotoIs, DoneIs
<1>9. CASE Unlink(p)
  <2>1. /\ UNCHANGED <<instance, heartbeat, retry, registered, offered, sleeps>>
        /\ file' = None
        /\ IF op[p].kind = "register" THEN Goto(p, "write") ELSE Done(p)
    BY <1>9 DEF Unlink, Call, timers
  <2>2. /\ \A q \in Processes : EntryKept(q)
        /\ ~ Owned(p)'
    BY <2>1 DEF EntryKept, Owned
  <2>3. ProcessInv(p)'
    BY <1>2, <2>1, <2>2, GotoIs, DoneIs, OperationMoves
  <2> QED BY <1>0, <1>2, <1>3, <2>1, <2>2, <2>3, GotoIs, DoneIs
<1>10. CASE Touch(p)
  <2>1. /\ UNCHANGED <<instance, heartbeat, retry, registered, offered, sleeps>>
        /\ file # None /\ file' = [file EXCEPT !.stale = FALSE] /\ Done(p)
    BY <1>10 DEF Touch, Call, timers
  <2>2. /\ file' \in Entries /\ file'.owner = file.owner /\ file'.address = file.address
    BY <1>0, <2>1 DEF Entries
  <2>3. \A q \in Processes : EntryKept(q)
    BY <2>1, <2>2 DEF EntryKept
  <2>4. op[p].kind \notin {"unregister", "register"}
    BY <1>1, <1>2, <1>10 DEF OperationsInv, Touch, Call
  <2>5. ProcessInv(p)'
    BY <1>2, <2>1, <2>3, <2>4, DoneIs, OperationMoves
  <2> QED BY <1>0, <1>2, <1>3, <2>1, <2>2, <2>3, <2>5, DoneIs
<1>11. CASE TouchThrows(p)
  <2>1. ~ Owned(p) /\ Leave(p) /\ UNCHANGED <<file, sleeps>>
    BY <1>11 DEF TouchThrows, Call, Owned
  <2>2. session[p] # "killed"
    BY <1>1, <1>2 DEF WithdrawnInv
  <2> QED BY <2>1, <2>2, LeaveStep
<1>12. CASE Write(p)
  <2>1. /\ file' = Entry(p) /\ Done(p) /\ UNCHANGED <<instance, offered, sleeps>>
        /\ op[p].step = "write"
    BY <1>12 DEF Write, Call
  <2>2. op[p].kind \in {"register", "heartbeat"} /\ op[p].address \in Ports
    BY <1>1, <1>2, <2>1 DEF OperationsInv, Operations
  <2>3. /\ file' \in Entries /\ file' # None /\ file'.owner = p
        /\ file'.address = op[p].address
    <3>1. Entry(p) \in Entries /\ Entry(p).owner = p /\ Entry(p).address = op[p].address
      BY <2>2 DEF Entry, Entries
    <3> QED BY <1>0, <2>1, <3>1
  <2>4. /\ \A q \in Processes : q # p => EntryKept(q)
        /\ Owned(p)'
    BY <2>3 DEF EntryKept, Owned
  <2>5. UNCHANGED <<session, assemblies, stage, up, port>>
    BY <2>1 DEF instance
  <2>6. CASE op[p].kind = "heartbeat"
    <3>1. UNCHANGED <<heartbeat, retry, registered>>
      BY <1>12, <2>6 DEF Write
    <3>2. op'[p] = None /\ registered'[p]
      BY <1>1, <1>2, <2>1, <2>6, <3>1, DoneIs DEF OperationsInv, Does
    <3>3. OperationsInv(p)'
      BY <3>2 DEF OperationsInv
    <3>4. WithdrawnInv(p)'
      BY <1>1, <1>2, <2>5, <2>6, <3>2 DEF WithdrawnInv, Does
    <3>5. AssembliesInv(p)'
      BY <1>1, <1>2, <2>5, <2>6, <3>1, <3>2 DEF AssembliesInv, Does, Silent
    <3>6. AddressInv(p)'
      BY <1>1, <1>2, <2>3, <2>5, <2>6, <3>1, <3>2 DEF AddressInv, Does
    <3> QED BY <1>0, <1>2, <1>3, <2>1, <2>3, <2>4, <3>1, <3>3, <3>4, <3>5, <3>6, DoneIs
            DEF ProcessInv
  <2>7. CASE op[p].kind = "register"
    <3>1. /\ retry' = [retry EXCEPT ![p] = 0]
          /\ heartbeat' = [heartbeat EXCEPT ![p] = op[p].address]
          /\ registered' = [registered EXCEPT ![p] = TRUE]
      BY <1>12, <2>7 DEF Write
    <3>2. op'[p] # None /\ op'[p].kind = "sweep" /\ op'[p].step = "stat"
      BY <1>2, <2>1, <2>7, DoneIs
    <3>3. /\ heartbeat' \in [Processes -> Ports] /\ retry' \in [Processes -> Ports]
          /\ registered' \in [Processes -> BOOLEAN]
          /\ retry'[p] = 0 /\ heartbeat'[p] = op[p].address /\ registered'[p]
          /\ \A q \in Processes : q # p =>
                /\ heartbeat'[q] = heartbeat[q] /\ retry'[q] = retry[q]
                /\ registered'[q] = registered[q]
      BY <1>0, <2>2, <3>1, NoPort
    <3>4. OperationsInv(p)'
      BY <3>2, <3>3 DEF OperationsInv
    <3>5. WithdrawnInv(p)'
      BY <1>1, <1>2, <2>5, <2>7, <3>3 DEF WithdrawnInv, Does
    <3>6. AssembliesInv(p)'
      BY <1>1, <1>2, <2>5, <2>7 DEF AssembliesInv, Does
    <3>7. AddressInv(p)'
      BY <1>1, <1>2, <2>3, <2>5, <2>7, <3>2, <3>3 DEF AddressInv, Does
    <3> QED BY <1>2, <1>3, <2>1, <2>3, <2>4, <3>3, <3>4, <3>5, <3>6, <3>7, DoneIs DEF ProcessInv
  <2> QED BY <2>2, <2>6, <2>7
<1> QED BY <1>5, <1>6, <1>7, <1>8, <1>9, <1>10, <1>11, <1>12 DEF Calls

LEMMA TimersStep ==
    ASSUME TypeOK, NEW p \in Processes, ProcessInv(p),
           HeartbeatFires(p) \/ RetryFires(p) \/ Sweep(p)
    PROVE  StepIs(p)
<1>0. /\ op \in [Processes -> Operations \cup {None}]
      /\ heartbeat \in [Processes -> Ports] /\ retry \in [Processes -> Ports]
  BY DEF TypeOK
<1>1. OperationsInv(p) /\ WithdrawnInv(p) /\ AssembliesInv(p) /\ AddressInv(p)
  BY DEF ProcessInv
<1>2. PICK kind \in {"heartbeat", "register", "sweep"}, a \in Ports :
        /\ Begin(p, Operation(kind, "stat", a))
        /\ \/ kind = "heartbeat" /\ a = heartbeat[p] /\ heartbeat[p] # 0 /\ UNCHANGED retry
           \/ /\ kind = "register" /\ a = retry[p] /\ retry[p] # 0
              /\ retry' = [retry EXCEPT ![p] = 0]
           \/ kind = "sweep" /\ UNCHANGED retry
  BY <1>0, NoPort DEF HeartbeatFires, RetryFires, Sweep
<1> DEFINE o == Operation(kind, "stat", a)
<1>3. /\ o \in Operations /\ o # None /\ o.kind = kind /\ o.step = "stat" /\ o.address = a
  BY OperationIs
<1>4. /\ op' = [op EXCEPT ![p] = o]
      /\ UNCHANGED <<file, instance, heartbeat, registered, offered, sleeps>>
      /\ op[p] = None /\ session[p] \in {"open", "disposing", "stopping"}
  BY <1>2 DEF Begin, Free, Alive
<1> HIDE DEF o
<1>5. /\ op' \in [Processes -> Operations \cup {None}] /\ op'[p] = o
      /\ \A q \in Processes : q # p => op'[q] = op[q]
  BY <1>0, <1>3, <1>4
<1>6. /\ retry' \in [Processes -> Ports]
      /\ kind # "register" => retry'[p] = retry[p]
      /\ kind = "register" => retry'[p] = 0
      /\ \A q \in Processes : q # p => retry'[q] = retry[q]
  BY <1>0, <1>2, NoPort
<1>7. UNCHANGED <<session, assemblies, stage, up, port, runtimes>>
  BY <1>4 DEF instance
<1>8. TypeOK'
  BY <1>4, <1>5, <1>6, <1>7 DEF TypeOK
<1>9. \A q \in Processes : q # p => SameAt(q) /\ EntryKept(q)
  BY <1>4, <1>5, <1>6, <1>7 DEF SameAt, EntryKept
<1>10. OperationsInv(p)'
  BY <1>1, <1>2, <1>3, <1>4, <1>5 DEF OperationsInv, Does
<1>11. WithdrawnInv(p)'
  BY <1>1, <1>4, <1>7 DEF WithdrawnInv, Does, Owned
<1>12. AssembliesInv(p)'
  BY <1>1, <1>2, <1>3, <1>4, <1>5, <1>6, <1>7 DEF AssembliesInv, OperationsInv, Does, Silent
<1>13. AddressInv(p)'
  BY <1>1, <1>2, <1>3, <1>4, <1>5, <1>6, <1>7 DEF AddressInv, Does, Owned
<1> QED BY <1>8, <1>9, <1>10, <1>11, <1>12, <1>13 DEF StepIs, ProcessInv

-----------------------------------------------------------------------------
(* The theorems.                                                           *)

(* In every reachable state each process knows of the entry it has: it is  *)
(* registered or withdraws it, and will correct an outdated address.       *)
THEOREM RegistryCorrect == Spec => []RegistryInv
<1>1. Init => RegistryInv
  <2> SUFFICES ASSUME Init
               PROVE  RegistryInv
    OBVIOUS
  <2>1. TypeOK
    <3>1. sleeps \in 0 .. MaxSleeps /\ 0 \in Ports
      BY NoPort, RegistryAssumption DEF Init
    <3> QED BY <3>1 DEF Init, TypeOK
  <2>2. ASSUME NEW p \in Processes
        PROVE  ProcessInv(p)
    <3>1. /\ file = None /\ session[p] = "new" /\ assemblies[p] = <<>> /\ stage[p] = "idle"
          /\ heartbeat[p] = 0 /\ retry[p] = 0 /\ op[p] = None
      BY DEF Init
    <3>2. ~ registered[p]
      BY DEF Init
    <3> QED BY <3>1, <3>2
            DEF ProcessInv, OperationsInv, WithdrawnInv, AssembliesInv, AddressInv, Does, Silent, Owned
  <2> QED BY <2>1, <2>2 DEF RegistryInv
<1>2. RegistryInv /\ [Next]_vars => RegistryInv'
  <2> SUFFICES ASSUME RegistryInv, [Next]_vars
               PROVE  RegistryInv'
    OBVIOUS
  <2>1. TypeOK /\ \A p \in Processes : ProcessInv(p)
    BY DEF RegistryInv
  <2>2. ASSUME NEW p \in Processes, StepIs(p)
        PROVE  RegistryInv'
    <3>1. \A q \in Processes : q # p => ProcessInv(q)'
      BY <2>1, <2>2, OthersKept DEF StepIs
    <3> QED BY <2>2, <3>1 DEF StepIs, RegistryInv
  <2>3. ASSUME NEW p \in Processes, Mine(p)
        PROVE  RegistryInv'
    BY <2>1, <2>2, <2>3, LifecycleStep, ProgressStep, CallsStep, TimersStep DEF Mine
  <2>4. CASE GoesStale \/ SystemSleep
    <3>1. /\ file # None /\ file' = [file EXCEPT !.stale = TRUE]
          /\ UNCHANGED <<instance, timers, op>> /\ sleeps' \in 0 .. MaxSleeps
      BY <2>1, <2>4, RegistryAssumption DEF GoesStale, SystemSleep, TypeOK
    <3>2. file' \in Entries /\ file'.owner = file.owner /\ file'.address = file.address
      BY <2>1, <3>1 DEF TypeOK, Entries
    <3>3. TypeOK'
      BY <2>1, <3>1, <3>2 DEF TypeOK, instance, timers
    <3>4. \A q \in Processes : SameAt(q) /\ EntryKept(q)
      BY <3>1, <3>2 DEF SameAt, EntryKept, instance, timers
    <3> QED BY <2>1, <3>3, <3>4, OthersKept DEF RegistryInv
  <2>5. CASE UNCHANGED vars
    <3>1. TypeOK'
      BY <2>1, <2>5 DEF TypeOK, vars, instance, timers
    <3>2. \A q \in Processes : SameAt(q) /\ EntryKept(q)
      BY <2>5 DEF SameAt, EntryKept, vars, instance, timers
    <3> QED BY <2>1, <3>1, <3>2, OthersKept DEF RegistryInv
  <2> QED BY <2>3, <2>4, <2>5 DEF Next, Mine
<1> QED BY <1>1, <1>2, PTL DEF Spec

(* The entry of a session that is open and at rest is that of a runtime    *)
(* that runs, at its address or with a correction to come, and a session   *)
(* that has left has no entry: whatever overlapped, between whichever two  *)
(* calls of the file system, for any number of processes.                  *)
THEOREM EntriesCorrect == Spec => []EntriesAreTruthful
<1>1. ASSUME RegistryInv
      PROVE  EntriesAreTruthful
  <2>1. TypeOK
    BY <1>1 DEF RegistryInv
  <2> SUFFICES ASSUME file # None, session[file.owner] \in {"open", "left"}, Settled(file.owner)
               PROVE  /\ registered[file.owner] /\ up[file.owner]
                      /\ port[file.owner] \in {file.address, retry[file.owner]}
    BY <2>1 DEF EntriesAreTruthful
  <2> DEFINE p == file.owner
  <2>2. p \in Processes /\ Owned(p) /\ op[p] = None /\ assemblies[p] = <<>>
    BY <2>1 DEF TypeOK, Entries, Owned, Settled
  <2>3. OperationsInv(p) /\ WithdrawnInv(p) /\ AssembliesInv(p) /\ AddressInv(p)
    BY <1>1, <2>2 DEF RegistryInv, ProcessInv
  <2>4. registered[p]
    BY <2>2, <2>3 DEF WithdrawnInv, Does
  <2>5. session[p] = "open"
    BY <2>3, <2>4 DEF WithdrawnInv, Silent
  <2>6. up[p]
    BY <2>2, <2>3, <2>4, <2>5 DEF AssembliesInv, Silent
  <2>7. port[p] \in {file.address, retry[p]}
    BY <2>2, <2>3, <2>5 DEF AddressInv, Does
  <2> QED BY <2>4, <2>6, <2>7
<1> QED BY <1>1, RegistryCorrect, PTL
=============================================================================
