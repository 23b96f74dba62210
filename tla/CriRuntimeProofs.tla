-------------------------- MODULE CriRuntimeProofs --------------------------
(***************************************************************************)
(* Theorems about CriRuntime for every set of containers, every number of  *)
(* concurrent calls and every kind of fault: the safety invariants and the *)
(* finality of an exit that MCCriRuntime checks for two calls.             *)
(***************************************************************************)
EXTENDS CriRuntime, TLAPS

-----------------------------------------------------------------------------
(* The inductive invariant                                                 *)

RunPcs == {"boot", "track", "add", "persist"}
CreatePcs == {"prepare", "recheck", "insert"}
StartPcs == {"lookup", "mark", "spawn", "register", "supervise"}
SpawnPcs == {"spawn", "register", "supervise"}
StopPcs == {"unstarted", "reread", "stop", "wait", "fallback", "giveback", "markkilled", "release",
            "delete"}
StopOps == {"StopContainer", "RemoveContainer"}
OwnerPcs == {"track", "destroy"}

\* Which call is at which step, and which calls are about a container.
CallFits(h) ==
    /\ req[h].pc = "idle" => req[h] = Idle
    /\ req[h].op = "RunPodSandbox" <=> req[h].pc \in RunPcs
    /\ req[h].op = "CreateContainer" <=> req[h].pc \in CreatePcs
    /\ req[h].op = "StartContainer" <=> req[h].pc \in StartPcs
    /\ req[h].pc \in StopPcs => req[h].op \in StopOps
    /\ req[h].pc \in {"signal", "exits"} => req[h].op = "StopPodSandbox"
    /\ req[h].pc \in {"take", "destroy"} =>
          req[h].op \in {"StopPodSandbox", "RemovePodSandbox"} \cup StopOps
    /\ req[h].pc = "disconnect" => req[h].op \in {"StopPodSandbox", "RemovePodSandbox"}
    /\ req[h].pc = "notready" => req[h].op \in {"StopPodSandbox"} \cup StopOps
    /\ req[h].pc \in {"clean", "unregister", "wipe", "forget"} => req[h].op = "RemovePodSandbox"
    /\ req[h].op \in {"CreateContainer", "StartContainer"} \cup StopOps => req[h].c \in Containers

\* At most one handler has the VmManager in its hands.
OneOwner ==
    \A g, h \in Handlers : req[g].pc \in OwnerPcs /\ req[h].pc \in OwnerPcs => g = h

\* Until RunPodSandbox has answered, it is the only call, and there is nothing
\* that another call could be about.
Alone(h) == \A g \in Handlers \ {h} : req[g].pc = "idle"
NoContainers == \A c \in Containers : ctr[c] = "absent"

RunFits(h) ==
    req[h].op = "RunPodSandbox" =>
        /\ Alone(h) /\ NoContainers
        /\ req[h].pc \in {"boot", "track", "add"} => sandbox = "starting"
        /\ req[h].pc = "boot" => ~vm.alive /\ vm.handle = "none"
        /\ req[h].pc = "add" => vm.handle = "map"
        /\ req[h].pc = "persist" => sandbox = "ready"

BeforeSandbox ==
    /\ sandbox \in {"none", "starting"} => ~reap
    /\ sandbox = "none" => /\ NoContainers /\ \A h \in Handlers : req[h].pc = "idle"
                           /\ ~vm.alive /\ vm.handle = "none"

\* RemovePodSandbox finds no VM that is tracked or that nobody has.
NoLooseVm == vm.handle # "map" /\ (vm.alive => vm.handle \in {"handler", "dropped"})

RemovalFits(h) ==
    req[h].op = "RemovePodSandbox" =>
        /\ sandbox \in {"notready", "removed"}
        /\ req[h].pc \in {"disconnect", "clean", "unregister", "wipe", "forget"} => NoLooseVm
        /\ req[h].pc \in {"clean", "unregister", "wipe", "forget"} => ip # "held"

DownIsQuiet == ~up => \A h \in Handlers : req[h].pc = "idle"

\* A failed or removed sandbox, with what RemovedLeavesNothing needs to last.
GoneLeavesNothing == sandbox \in {"failed", "removed"} => ip # "held" /\ NoLooseVm

\* A container is created by one call, and is not one before.
CreateFits(h) ==
    req[h].op = "CreateContainer" =>
        /\ ctr[req[h].c] = "absent"
        /\ \A g \in Handlers \ {h} : req[g].c # req[h].c
        /\ req[h].pc \in {"recheck", "insert"} /\ sandbox = "ready" => req[h].c \in rootfs

\* Nothing of a container runs, or is being started, before it is running.
UnstartedFits ==
    \A c \in Containers : ctr[c] \in {"absent", "created"} =>
        /\ c \notin work
        /\ \A h \in Handlers : ~Starting(h, c)

SandboxInv ==
    /\ \A h \in Handlers : CallFits(h)
    /\ OneOwner
    /\ \A h \in Handlers : RunFits(h)
    /\ BeforeSandbox
    /\ \A h \in Handlers : RemovalFits(h)
    /\ DownIsQuiet
    /\ ReadySandboxHasVm
    /\ GoneLeavesNothing
    /\ LiveVmHasHolder

ContainerInv ==
    /\ \A h \in Handlers : CreateFits(h)
    /\ UnstartedFits
    /\ OneStarter
    /\ RunningIsBacked
    /\ StartableHasRootfs

IndInv == TypeOK /\ SandboxInv /\ ContainerInv

-----------------------------------------------------------------------------
(* How a handler goes on                                                   *)

\* TypeOK without the clause that ties the VmManager to its handler.
Types ==
    /\ sandbox \in SandboxStates
    /\ saved \in BOOLEAN
    /\ ctr \in [Containers -> ContainerStates]
    /\ vm \in [alive : BOOLEAN, handle : Handles]
    /\ ip \in Addresses
    /\ rootfs \in SUBSET Containers
    /\ work \in SUBSET Containers
    /\ stops \in SUBSET Containers
    /\ sup \in [Containers -> {"none", "queued", "watch", "signalled", "done", "dropped"}]
    /\ reap \in BOOLEAN
    /\ req \in [Handlers -> Request]
    /\ up \in BOOLEAN

HandleFits == vm.handle = "handler" <=> \E h \in Handlers : req[h].pc \in OwnerPcs

LEMMA TypeParts == TypeOK <=> Types /\ HandleFits
  BY DEF TypeOK, Types, HandleFits, OwnerPcs

LEMMA TypesKept == ASSUME Types', HandleFits' PROVE TypeOK'
  BY DEF TypeOK, Types, HandleFits, OwnerPcs

\* A step of one handler leaves the others alone.
LEMMA SetFacts ==
    ASSUME req \in [Handlers -> Request], NEW h \in Handlers, NEW new \in Request, Set(h, new)
    PROVE  /\ req' \in [Handlers -> Request]
           /\ req'[h] = new
           /\ \A g \in Handlers : g # h => req'[g] = req[g]
  BY DEF Set

LEMMA IdleFacts ==
    /\ Idle \in Request /\ Idle.pc = "idle" /\ Idle.op = "none"
    /\ Idle.c = NoContainer /\ Idle.c \notin Containers
  BY CriAssumption DEF Idle, Request, Pcs, Ops

LEMMA FinishFacts ==
    ASSUME req \in [Handlers -> Request], NEW h \in Handlers, Finish(h)
    PROVE  /\ req' \in [Handlers -> Request]
           /\ req'[h] = Idle
           /\ \A g \in Handlers : g # h => req'[g] = req[g]
           /\ CallFits(h)'
  <1>1. /\ req' \in [Handlers -> Request] /\ req'[h] = Idle
        /\ \A g \in Handlers : g # h => req'[g] = req[g]
    BY IdleFacts, SetFacts DEF Finish
  <1>2. CallFits(h)'
    BY <1>1, IdleFacts DEF CallFits, RunPcs, CreatePcs, StartPcs, StopPcs, StopOps
  <1> QED
    BY <1>1, <1>2

LEMMA GotoFacts ==
    ASSUME req \in [Handlers -> Request], NEW h \in Handlers, NEW pc \in Pcs, Goto(h, pc)
    PROVE  /\ req' \in [Handlers -> Request]
           /\ req'[h].pc = pc /\ req'[h].op = req[h].op /\ req'[h].c = req[h].c
           /\ \A g \in Handlers : g # h => req'[g] = req[g]
  <1> DEFINE new == [req[h] EXCEPT !.pc = pc]
  <1>1. req[h] \in Request
    OBVIOUS
  <1>2. new \in Request /\ new.pc = pc /\ new.op = req[h].op /\ new.c = req[h].c
    BY <1>1 DEF Request
  <1> QED
    BY <1>2, SetFacts DEF Goto

\* The loops of StopPodSandbox forget a container they have visited.
LEMMA VisitFacts ==
    ASSUME req \in [Handlers -> Request], NEW h \in Handlers, NEW c \in Containers,
           Set(h, [req[h] EXCEPT !.todo = @ \ {c}])
    PROVE  /\ req' \in [Handlers -> Request]
           /\ req'[h].pc = req[h].pc /\ req'[h].op = req[h].op /\ req'[h].c = req[h].c
           /\ \A g \in Handlers : g # h => req'[g] = req[g]
  <1> DEFINE new == [req[h] EXCEPT !.todo = @ \ {c}]
  <1>1. req[h] \in Request
    OBVIOUS
  <1>2. new \in Request /\ new.pc = req[h].pc /\ new.op = req[h].op /\ new.c = req[h].c
    BY <1>1 DEF Request
  <1> QED
    BY <1>2, SetFacts

\* A call about container c begins.
LEMMA CallFacts ==
    ASSUME req \in [Handlers -> Request], NEW h \in Handlers, NEW op \in Ops, NEW pc \in Pcs,
           NEW c \in Containers, Call(h, op, pc, c)
    PROVE  /\ req' \in [Handlers -> Request]
           /\ req'[h].pc = pc /\ req'[h].op = op /\ req'[h].c = c
           /\ \A g \in Handlers : g # h => req'[g] = req[g]
  <1> DEFINE new == [Idle EXCEPT !.op = op, !.pc = pc, !.c = c]
  <1>1. new \in Request /\ new.pc = pc /\ new.op = op /\ new.c = c
    BY IdleFacts DEF Request
  <1> QED
    BY <1>1, SetFacts DEF Call

-----------------------------------------------------------------------------
(* Steps that leave the sandbox and its VM alone                           *)

\* RunPodSandbox is over.
RunIsOver == sandbox # "none" /\ \A g \in Handlers : req[g].op # "RunPodSandbox"

\* Any other call that is under way shows that it is, and that the service runs.
LEMMA OtherCalls ==
    ASSUME SandboxInv, NEW h \in Handlers, req[h].pc # "idle", req[h].op # "RunPodSandbox"
    PROVE  RunIsOver /\ up
  BY DEF SandboxInv, RunIsOver, RunFits, Alone, BeforeSandbox, DownIsQuiet

\* So does a container that exists.
LEMMA ContainerExists ==
    ASSUME SandboxInv, NEW c \in Containers, ctr[c] # "absent"
    PROVE  RunIsOver
  BY DEF SandboxInv, RunIsOver, RunFits, NoContainers, BeforeSandbox

LEMMA SandboxKept ==
    ASSUME HandleFits, SandboxInv, RunIsOver, up, NEW h \in Handlers,
           UNCHANGED <<sandbox, vm, reap, up>>, ip' = ip \/ ip' # "held",
           \A g \in Handlers : g # h => req'[g] = req[g],
           req[h].pc \notin {"destroy", "disconnect", "notready"},
           req'[h].pc \notin {"destroy"} \cup RunPcs,
           CallFits(h)', RemovalFits(h)'
    PROVE  HandleFits' /\ SandboxInv'
  <1>1. req[h].op # "RunPodSandbox" /\ req[h].pc \notin OwnerPcs /\ req'[h].pc \notin OwnerPcs
    BY DEF RunIsOver, SandboxInv, CallFits, OwnerPcs, RunPcs
  <1>2. HandleFits'
    BY <1>1 DEF HandleFits
  <1>3. \A g \in Handlers : CallFits(g)'
    BY DEF SandboxInv, CallFits
  <1>4. OneOwner'
    BY <1>1 DEF SandboxInv, OneOwner
  <1>5. \A g \in Handlers : RunFits(g)'
    BY <1>3 DEF RunIsOver, RunFits, CallFits
  <1>6. BeforeSandbox'
    BY DEF RunIsOver, SandboxInv, BeforeSandbox
  <1>7. \A g \in Handlers : RemovalFits(g)'
    BY DEF SandboxInv, RemovalFits, NoLooseVm
  <1>8. DownIsQuiet'
    BY DEF DownIsQuiet
  <1>9. ReadySandboxHasVm'
    BY DEF SandboxInv, ReadySandboxHasVm
  <1>10. GoneLeavesNothing' /\ LiveVmHasHolder'
    BY DEF SandboxInv, GoneLeavesNothing, NoLooseVm, LiveVmHasHolder, InStore
  <1> QED
    BY <1>2, <1>3, <1>4, <1>5, <1>6, <1>7, <1>8, <1>9, <1>10 DEF SandboxInv

\* A step of a supervisor or of the guest.
LEMMA SandboxUntouched ==
    ASSUME HandleFits, SandboxInv, UNCHANGED <<sandbox, vm, ip, reap, up, req>>,
           NoContainers => NoContainers'
    PROVE  HandleFits' /\ SandboxInv'
  <1>1. HandleFits' /\ OneOwner' /\ \A g \in Handlers : CallFits(g)'
    BY DEF HandleFits, SandboxInv, OneOwner, CallFits
  <1>2. BeforeSandbox' /\ \A g \in Handlers : RunFits(g)'
    BY DEF SandboxInv, RunFits, Alone, BeforeSandbox
  <1>3. \A g \in Handlers : RemovalFits(g)'
    BY DEF SandboxInv, RemovalFits, NoLooseVm
  <1>4. DownIsQuiet' /\ ReadySandboxHasVm' /\ GoneLeavesNothing' /\ LiveVmHasHolder'
    BY DEF SandboxInv, DownIsQuiet, ReadySandboxHasVm, GoneLeavesNothing, NoLooseVm,
           LiveVmHasHolder, InStore
  <1> QED
    BY <1>1, <1>2, <1>3, <1>4 DEF SandboxInv

-----------------------------------------------------------------------------
(* Steps that start nothing                                                *)

Backing == {"watch", "signalled", "dropped"}

\* Containers exit or are removed, and are otherwise left alone.
ContainersEnd ==
    \A c \in Containers :
        ctr'[c] = ctr[c] \/ (Stored(ctr[c]) /\ ctr'[c] \in {"exited", "removed"})

\* A handler stays where it is, or goes where it neither creates nor spawns.
GoesOn(g) ==
    \/ req'[g] = req[g]
    \/ /\ req'[g].op # "CreateContainer" /\ req'[g].pc \notin SpawnPcs
       /\ \A c \in Containers : Starting(g, c) => ctr'[c] # "running" \/ sup'[c] \in Backing
       /\ \A c \in Containers : req'[g].c = c => req[g].c = c \/ ctr[c] # "absent"

LEMMA ContainersKept ==
    ASSUME SandboxInv, ContainerInv, up' = up,
           ContainersEnd, work' \subseteq work,
           sandbox' = "ready" =>
               /\ sandbox = "ready"
               /\ \A c \in rootfs \ rootfs' : ctr'[c] \in {"exited", "removed"},
           \A c \in Containers :
               sup[c] \in Backing => sup'[c] \in Backing \/ ctr'[c] # "running",
           \A g \in Handlers : GoesOn(g)
    PROVE  ContainerInv'
  <1>1. ASSUME NEW g \in Handlers
        PROVE  CreateFits(g)'
    <2> SUFFICES ASSUME req'[g].op = "CreateContainer"
                 PROVE  CreateFits(g)'
      BY DEF CreateFits
    <2>1. req'[g] = req[g] /\ CreateFits(g) /\ req[g].c \in Containers
      BY DEF GoesOn, ContainerInv, SandboxInv, CallFits
    <2>2. ctr'[req[g].c] = "absent" /\ ctr[req[g].c] = "absent"
      BY <2>1 DEF CreateFits, ContainersEnd, Stored
    <2>3. \A f \in Handlers \ {g} : req'[f].c # req[g].c
      BY <2>1, <2>2 DEF CreateFits, GoesOn
    <2> QED
      BY <2>1, <2>2, <2>3 DEF CreateFits
  <1>2. UnstartedFits'
    BY DEF ContainerInv, UnstartedFits, ContainersEnd, GoesOn, Starting, SpawnPcs
  <1>3. OneStarter'
    BY DEF ContainerInv, OneStarter, GoesOn, Starting, SpawnPcs
  <1>4. RunningIsBacked'
    <2> SUFFICES ASSUME up, NEW c \in Containers, ctr'[c] = "running"
                 PROVE  sup'[c] \in Backing \/ \E h \in Handlers : Starting(h, c)'
      BY DEF RunningIsBacked, Backing
    <2>1. ctr[c] = "running"
      BY DEF ContainersEnd
    <2>2. CASE sup[c] \in Backing
      BY <2>2
    <2>3. CASE \E h \in Handlers : Starting(h, c)
      BY <2>3 DEF GoesOn, Starting
    <2> QED
      BY <2>1, <2>2, <2>3 DEF ContainerInv, RunningIsBacked, Backing
  <1>5. StartableHasRootfs'
    BY DEF ContainerInv, StartableHasRootfs, ContainersEnd
  <1> QED
    BY <1>1, <1>2, <1>3, <1>4, <1>5 DEF ContainerInv

-----------------------------------------------------------------------------
(* What the steps do to the stores                                         *)

LEMMA StoreFacts ==
    ASSUME Types, NEW new \in [Containers -> ContainerStates], StoreContainers(new)
    PROVE  ctr' \in [Containers -> ContainerStates] /\ saved' \in BOOLEAN /\ ctr' = new
  BY DEF Types, StoreContainers

\* mark_exited and mark_exited_if_running.
LEMMA MarkExitedFacts ==
    ASSUME Types, NEW c \in Containers, MarkExited(c) \/ MarkExitedIfRunning(c)
    PROVE  /\ ctr' \in [Containers -> ContainerStates] /\ saved' \in BOOLEAN
           /\ ContainersEnd
           /\ ctr'[c] # "running"
  <1>1. PICK v \in ContainerStates :
           /\ v = ctr[c] \/ (Stored(ctr[c]) /\ v = "exited")
           /\ v # "running"
           /\ StoreContainers([ctr EXCEPT ![c] = v])
    <2>1. ctr[c] \in ContainerStates
      BY DEF Types
    <2>2. CASE MarkExited(c)
      <3>1. (IF Stored(ctr[c]) THEN "exited" ELSE ctr[c]) \in ContainerStates
        BY <2>1 DEF ContainerStates
      <3> QED
        BY <2>1, <2>2, <3>1 DEF MarkExited, Stored
    <2>3. CASE MarkExitedIfRunning(c)
      <3>1. (IF ctr[c] = "running" THEN "exited" ELSE ctr[c]) \in ContainerStates
        BY <2>1 DEF ContainerStates
      <3> QED
        BY <2>1, <2>3, <3>1 DEF MarkExitedIfRunning, Stored
    <2> QED
      BY <2>2, <2>3
  <1>2. [ctr EXCEPT ![c] = v] \in [Containers -> ContainerStates]
    BY <1>1 DEF Types
  <1>3. /\ ctr' \in [Containers -> ContainerStates] /\ saved' \in BOOLEAN
        /\ ctr' = [ctr EXCEPT ![c] = v]
    BY <1>1, <1>2, StoreFacts
  <1>4. ctr'[c] = v /\ \A d \in Containers : d # c => ctr'[d] = ctr[d]
    BY <1>3 DEF Types
  <1> QED
    BY <1>1, <1>3, <1>4 DEF ContainersEnd

LEMMA SignalFacts ==
    ASSUME Types, NEW c \in Containers, SignalStop(c)
    PROVE  /\ stops' \in SUBSET Containers
           /\ sup' \in [Containers -> {"none", "queued", "watch", "signalled", "done", "dropped"}]
           /\ \A d \in Containers : sup[d] \in Backing => sup'[d] \in Backing
  BY DEF Types, SignalStop, Backing

\* One handler moves on without starting anything; the sandbox and its VM stay as
\* they are, and no address is taken.
Calm(h) ==
    /\ UNCHANGED <<sandbox, vm, reap, up>>
    /\ ip' = ip \/ ip' # "held"
    /\ \A g \in Handlers : g # h => req'[g] = req[g]
    /\ req'[h].pc \notin {"destroy"} \cup RunPcs \cup CreatePcs \cup SpawnPcs
    /\ CallFits(h)' /\ RemovalFits(h)'
    /\ \A c \in Containers : req'[h].c = c => req[h].c = c \/ ctr[c] # "absent"
    /\ work' \subseteq work
    /\ ContainersEnd

LEMMA CalmStep ==
    ASSUME IndInv, Types', NEW h \in Handlers, Calm(h), RunIsOver, up,
           req[h].pc \notin {"destroy", "disconnect", "notready"},
           sandbox = "ready" => \A c \in rootfs \ rootfs' : ctr'[c] \in {"exited", "removed"},
           \A c \in Containers :
               sup[c] \in Backing => sup'[c] \in Backing \/ ctr'[c] # "running",
           \A c \in Containers : Starting(h, c) => ctr'[c] # "running" \/ sup'[c] \in Backing
    PROVE  IndInv'
  <1>1. HandleFits /\ SandboxInv /\ ContainerInv
    BY TypeParts DEF IndInv
  <1>2. HandleFits' /\ SandboxInv'
    BY <1>1, SandboxKept DEF Calm
  <1>3. \A g \in Handlers : GoesOn(g)
    BY DEF Calm, GoesOn, CallFits
  <1>4. sandbox' = sandbox
    BY DEF Calm
  <1>5. ContainerInv'
    BY <1>1, <1>3, <1>4, ContainersKept DEF Calm
  <1> QED
    BY <1>2, <1>5, TypesKept DEF IndInv

\* The same with the containers, their files and their supervisors unchanged.
LEMMA PlainStep ==
    ASSUME IndInv, Types', NEW h \in Handlers, RunIsOver, up,
           UNCHANGED <<sandbox, ctr, vm, ip, rootfs, work, sup, reap, up>>,
           \A g \in Handlers : g # h => req'[g] = req[g],
           req[h].pc \notin {"destroy", "disconnect", "notready"} \cup SpawnPcs,
           req'[h].pc \notin {"destroy"} \cup RunPcs \cup CreatePcs \cup SpawnPcs,
           CallFits(h)', RemovalFits(h)',
           \A c \in Containers : req'[h].c = c => req[h].c = c \/ ctr[c] # "absent"
    PROVE  IndInv'
  <1>1. ContainersEnd /\ work' \subseteq work /\ UNCHANGED <<sandbox, vm, ip, reap, up>>
    BY DEF ContainersEnd
  <1>3. Calm(h)
    BY <1>1 DEF Calm
  <1>2. \A c \in Containers : ~Starting(h, c)
    BY DEF Starting, SpawnPcs
  <1> QED
    BY <1>2, <1>3, CalmStep

\* What is known of a handler that is under way.
LEMMA Underway ==
    ASSUME IndInv, NEW h \in Handlers, req[h].pc # "idle", req[h].op # "RunPodSandbox"
    PROVE  /\ Types /\ req \in [Handlers -> Request] /\ CallFits(h) /\ RemovalFits(h)
           /\ RunIsOver /\ up
  BY OtherCalls, TypeParts DEF IndInv, SandboxInv, Types

LEMMA AtRest ==
    ASSUME IndInv
    PROVE  /\ Types /\ req \in [Handlers -> Request]
           /\ \A h \in Handlers : req[h].pc = "idle" => req[h] = Idle
  BY TypeParts DEF IndInv, SandboxInv, Types, CallFits

-----------------------------------------------------------------------------
(* Steps that only move a handler on                                       *)

LEMMA LookupVmInv ==
    ASSUME IndInv, NEW h \in Handlers, LookupVm(h)
    PROVE  IndInv'
  <1>1. req[h].pc \in {"lookup"} /\ req[h].op # "RunPodSandbox" /\ CallFits(h)
    BY DEF LookupVm, IndInv, SandboxInv, CallFits, RunPcs, CreatePcs, StartPcs, StopPcs, StopOps
  <1>2. Types /\ req \in [Handlers -> Request] /\ RunIsOver /\ up
    BY <1>1, Underway
  <1>3. (\E pc \in {"mark"} : Goto(h, pc)) \/ (Finish(h))
    BY IdleFacts DEF LookupVm
  <1>4. ASSUME NEW pc \in {"mark"}, Goto(h, pc)
        PROVE  IndInv'
    <2>1. /\ req' \in [Handlers -> Request]
          /\ req'[h].pc = pc /\ req'[h].op = req[h].op /\ req'[h].c = req[h].c
          /\ \A g \in Handlers : g # h => req'[g] = req[g]
      BY <1>2, <1>4, GotoFacts DEF Pcs
    <2>2. CallFits(h)' /\ RemovalFits(h)'
      BY <1>1, <2>1 DEF CallFits, RunPcs, CreatePcs, StartPcs, StopPcs, StopOps, RemovalFits
    <2>3. Types'
      BY <1>2, <2>1 DEF Types, LookupVm, storeVars, hostVars, taskVars
    <2> QED
      BY <1>1, <1>2, <2>1, <2>2, <2>3, PlainStep
         DEF LookupVm, storeVars, hostVars, taskVars, RunPcs, CreatePcs, SpawnPcs
  <1>5. ASSUME Finish(h)
        PROVE  IndInv'
    <2>1. /\ req' \in [Handlers -> Request] /\ req'[h] = Idle /\ CallFits(h)'
          /\ \A g \in Handlers : g # h => req'[g] = req[g]
      BY <1>2, <1>5, FinishFacts
    <2>2. RemovalFits(h)'
      BY <2>1, IdleFacts DEF RemovalFits
    <2>3. Types'
      BY <1>2, <2>1 DEF Types, LookupVm, storeVars, hostVars, taskVars
    <2> QED
      BY <1>1, <1>2, <2>1, <2>2, <2>3, IdleFacts, PlainStep
         DEF LookupVm, storeVars, hostVars, taskVars, RunPcs, CreatePcs, SpawnPcs
  <1> QED
    BY <1>3, <1>4, <1>5

LEMMA RereadInv ==
    ASSUME IndInv, NEW h \in Handlers, Reread(h)
    PROVE  IndInv'
  <1>1. req[h].pc \in {"reread"} /\ req[h].op # "RunPodSandbox" /\ CallFits(h)
    BY DEF Reread, IndInv, SandboxInv, CallFits, RunPcs, CreatePcs, StartPcs, StopPcs, StopOps
  <1>2. Types /\ req \in [Handlers -> Request] /\ RunIsOver /\ up
    BY <1>1, Underway
  <1>3. (\E pc \in {"stop", "delete"} : Goto(h, pc)) \/ (Finish(h))
    BY IdleFacts DEF Reread
  <1>4. ASSUME NEW pc \in {"stop", "delete"}, Goto(h, pc)
        PROVE  IndInv'
    <2>1. /\ req' \in [Handlers -> Request]
          /\ req'[h].pc = pc /\ req'[h].op = req[h].op /\ req'[h].c = req[h].c
          /\ \A g \in Handlers : g # h => req'[g] = req[g]
      BY <1>2, <1>4, GotoFacts DEF Pcs
    <2>2. CallFits(h)' /\ RemovalFits(h)'
      BY <1>1, <2>1 DEF CallFits, RunPcs, CreatePcs, StartPcs, StopPcs, StopOps, RemovalFits
    <2>3. Types'
      BY <1>2, <2>1 DEF Types, Reread, storeVars, hostVars, taskVars
    <2> QED
      BY <1>1, <1>2, <2>1, <2>2, <2>3, PlainStep
         DEF Reread, storeVars, hostVars, taskVars, RunPcs, CreatePcs, SpawnPcs
  <1>5. ASSUME Finish(h)
        PROVE  IndInv'
    <2>1. /\ req' \in [Handlers -> Request] /\ req'[h] = Idle /\ CallFits(h)'
          /\ \A g \in Handlers : g # h => req'[g] = req[g]
      BY <1>2, <1>5, FinishFacts
    <2>2. RemovalFits(h)'
      BY <2>1, IdleFacts DEF RemovalFits
    <2>3. Types'
      BY <1>2, <2>1 DEF Types, Reread, storeVars, hostVars, taskVars
    <2> QED
      BY <1>1, <1>2, <2>1, <2>2, <2>3, IdleFacts, PlainStep
         DEF Reread, storeVars, hostVars, taskVars, RunPcs, CreatePcs, SpawnPcs
  <1> QED
    BY <1>3, <1>4, <1>5

LEMMA WaitForExitInv ==
    ASSUME IndInv, NEW h \in Handlers, WaitForExit(h)
    PROVE  IndInv'
  <1>1. req[h].pc \in {"wait"} /\ req[h].op # "RunPodSandbox" /\ CallFits(h)
    BY DEF WaitForExit, IndInv, SandboxInv, CallFits, RunPcs, CreatePcs, StartPcs, StopPcs, StopOps
  <1>2. Types /\ req \in [Handlers -> Request] /\ RunIsOver /\ up
    BY <1>1, Underway
  <1>3. \E pc \in {"release", "fallback"} : Goto(h, pc)
    BY IdleFacts DEF WaitForExit
  <1>4. ASSUME NEW pc \in {"release", "fallback"}, Goto(h, pc)
        PROVE  IndInv'
    <2>1. /\ req' \in [Handlers -> Request]
          /\ req'[h].pc = pc /\ req'[h].op = req[h].op /\ req'[h].c = req[h].c
          /\ \A g \in Handlers : g # h => req'[g] = req[g]
      BY <1>2, <1>4, GotoFacts DEF Pcs
    <2>2. CallFits(h)' /\ RemovalFits(h)'
      BY <1>1, <2>1 DEF CallFits, RunPcs, CreatePcs, StartPcs, StopPcs, StopOps, RemovalFits
    <2>3. Types'
      BY <1>2, <2>1 DEF Types, WaitForExit, storeVars, hostVars, taskVars
    <2> QED
      BY <1>1, <1>2, <2>1, <2>2, <2>3, PlainStep
         DEF WaitForExit, storeVars, hostVars, taskVars, RunPcs, CreatePcs, SpawnPcs
  <1> QED
    BY <1>3, <1>4

LEMMA FallbackInv ==
    ASSUME IndInv, NEW h \in Handlers, Fallback(h)
    PROVE  IndInv'
  <1>1. req[h].pc \in {"fallback"} /\ req[h].op # "RunPodSandbox" /\ CallFits(h)
    BY DEF Fallback, IndInv, SandboxInv, CallFits, RunPcs, CreatePcs, StartPcs, StopPcs, StopOps
  <1>2. Types /\ req \in [Handlers -> Request] /\ RunIsOver /\ up
    BY <1>1, Underway
  <1>3. (\E pc \in {"take"} : Goto(h, pc)) \/ (Finish(h))
    BY IdleFacts DEF Fallback
  <1>4. ASSUME NEW pc \in {"take"}, Goto(h, pc)
        PROVE  IndInv'
    <2>1. /\ req' \in [Handlers -> Request]
          /\ req'[h].pc = pc /\ req'[h].op = req[h].op /\ req'[h].c = req[h].c
          /\ \A g \in Handlers : g # h => req'[g] = req[g]
      BY <1>2, <1>4, GotoFacts DEF Pcs
    <2>2. CallFits(h)' /\ RemovalFits(h)'
      BY <1>1, <2>1 DEF CallFits, RunPcs, CreatePcs, StartPcs, StopPcs, StopOps, RemovalFits
    <2>3. Types'
      BY <1>2, <2>1 DEF Types, Fallback, storeVars, hostVars, taskVars
    <2> QED
      BY <1>1, <1>2, <2>1, <2>2, <2>3, PlainStep
         DEF Fallback, storeVars, hostVars, taskVars, RunPcs, CreatePcs, SpawnPcs
  <1>5. ASSUME Finish(h)
        PROVE  IndInv'
    <2>1. /\ req' \in [Handlers -> Request] /\ req'[h] = Idle /\ CallFits(h)'
          /\ \A g \in Handlers : g # h => req'[g] = req[g]
      BY <1>2, <1>5, FinishFacts
    <2>2. RemovalFits(h)'
      BY <2>1, IdleFacts DEF RemovalFits
    <2>3. Types'
      BY <1>2, <2>1 DEF Types, Fallback, storeVars, hostVars, taskVars
    <2> QED
      BY <1>1, <1>2, <2>1, <2>2, <2>3, IdleFacts, PlainStep
         DEF Fallback, storeVars, hostVars, taskVars, RunPcs, CreatePcs, SpawnPcs
  <1> QED
    BY <1>3, <1>4, <1>5

LEMMA ReleaseInv ==
    ASSUME IndInv, NEW h \in Handlers, Release(h)
    PROVE  IndInv'
  <1>1. req[h].pc \in {"release"} /\ req[h].op # "RunPodSandbox" /\ CallFits(h)
    BY DEF Release, IndInv, SandboxInv, CallFits, RunPcs, CreatePcs, StartPcs, StopPcs, StopOps
  <1>2. Types /\ req \in [Handlers -> Request] /\ RunIsOver /\ up
    BY <1>1, Underway
  <1>3. (\E pc \in {"delete"} : Goto(h, pc)) \/ (Finish(h))
    BY IdleFacts DEF Release
  <1>4. ASSUME NEW pc \in {"delete"}, Goto(h, pc)
        PROVE  IndInv'
    <2>1. /\ req' \in [Handlers -> Request]
          /\ req'[h].pc = pc /\ req'[h].op = req[h].op /\ req'[h].c = req[h].c
          /\ \A g \in Handlers : g # h => req'[g] = req[g]
      BY <1>2, <1>4, GotoFacts DEF Pcs
    <2>2. CallFits(h)' /\ RemovalFits(h)'
      BY <1>1, <2>1 DEF CallFits, RunPcs, CreatePcs, StartPcs, StopPcs, StopOps, RemovalFits, Release
    <2>3. Types'
      BY <1>2, <2>1 DEF Types, Release, storeVars, hostVars, taskVars
    <2> QED
      BY <1>1, <1>2, <2>1, <2>2, <2>3, PlainStep
         DEF Release, storeVars, hostVars, taskVars, RunPcs, CreatePcs, SpawnPcs
  <1>5. ASSUME Finish(h)
        PROVE  IndInv'
    <2>1. /\ req' \in [Handlers -> Request] /\ req'[h] = Idle /\ CallFits(h)'
          /\ \A g \in Handlers : g # h => req'[g] = req[g]
      BY <1>2, <1>5, FinishFacts
    <2>2. RemovalFits(h)'
      BY <2>1, IdleFacts DEF RemovalFits
    <2>3. Types'
      BY <1>2, <2>1 DEF Types, Release, storeVars, hostVars, taskVars
    <2> QED
      BY <1>1, <1>2, <2>1, <2>2, <2>3, IdleFacts, PlainStep
         DEF Release, storeVars, hostVars, taskVars, RunPcs, CreatePcs, SpawnPcs
  <1> QED
    BY <1>3, <1>4, <1>5

\* A call about the sandbox: nobody could ask before RunPodSandbox had answered.
LEMMA StopPodSandboxInv ==
    ASSUME IndInv, NEW h \in Handlers, up, StopPodSandbox(h)
    PROVE  IndInv'
  <1>1. Types /\ req \in [Handlers -> Request] /\ req[h] = Idle
    BY AtRest DEF StopPodSandbox
  <1>2. RunIsOver
    BY DEF StopPodSandbox, Known, RunIsOver
  <1>3. /\ req' \in [Handlers -> Request]
        /\ req'[h].pc = "signal" /\ req'[h].op = "StopPodSandbox" /\ req'[h].c = NoContainer
        /\ \A g \in Handlers : g # h => req'[g] = req[g]
    <2> DEFINE T == {c \in Containers : ctr[c] = "running"}
               new == [Idle EXCEPT !.op = "StopPodSandbox", !.pc = "signal", !.todo = T]
    <2>1. T \in SUBSET Containers /\ "StopPodSandbox" \in Ops /\ "signal" \in Pcs
      BY DEF Ops, Pcs
    <2>2. /\ new \in Request /\ new.op = "StopPodSandbox" /\ new.pc = "signal"
          /\ new.c = NoContainer
      <3> HIDE DEF T
      <3> QED
        BY <2>1, IdleFacts DEF Request
    <2>3. Set(h, new)
      BY DEF StopPodSandbox
    <2> HIDE DEF new
    <2> QED
      BY <1>1, <2>2, <2>3, SetFacts
  <1>4. CallFits(h)' /\ RemovalFits(h)'
    BY <1>3 DEF CallFits, RunPcs, CreatePcs, StartPcs, StopPcs, StopOps, RemovalFits
  <1>5. Types'
    BY <1>1, <1>3 DEF Types, StopPodSandbox, storeVars, hostVars, taskVars
  <1> QED
    BY <1>1, <1>2, <1>3, <1>4, <1>5, IdleFacts, PlainStep
       DEF StopPodSandbox, storeVars, hostVars, taskVars, RunPcs, CreatePcs, SpawnPcs

LEMMA RemovePodSandboxInv ==
    ASSUME IndInv, NEW h \in Handlers, up, RemovePodSandbox(h)
    PROVE  IndInv'
  <1>1. Types /\ req \in [Handlers -> Request] /\ req[h] = Idle
    BY AtRest DEF RemovePodSandbox
  <1>2. RunIsOver
    BY DEF RemovePodSandbox, Known, RunIsOver
  <1>3. /\ req' \in [Handlers -> Request]
        /\ req'[h].pc = "take" /\ req'[h].op = "RemovePodSandbox" /\ req'[h].c = NoContainer
        /\ \A g \in Handlers : g # h => req'[g] = req[g]
    <2> DEFINE new == [Idle EXCEPT !.op = "RemovePodSandbox", !.pc = "take"]
    <2>1. /\ new \in Request /\ new.op = "RemovePodSandbox" /\ new.pc = "take"
          /\ new.c = NoContainer
      BY IdleFacts DEF Request, Ops, Pcs
    <2>2. Set(h, new)
      BY DEF RemovePodSandbox
    <2> QED
      BY <1>1, <2>1, <2>2, SetFacts
  <1>4. CallFits(h)' /\ RemovalFits(h)'
    BY <1>3 DEF CallFits, RunPcs, CreatePcs, StartPcs, StopPcs, StopOps, RemovalFits, RemovePodSandbox, storeVars
  <1>5. Types'
    BY <1>1, <1>3 DEF Types, RemovePodSandbox, storeVars, hostVars, taskVars
  <1> QED
    BY <1>1, <1>2, <1>3, <1>4, <1>5, IdleFacts, PlainStep
       DEF RemovePodSandbox, storeVars, hostVars, taskVars, RunPcs, CreatePcs, SpawnPcs

\* A call about a container that exists.
LEMMA ContainerCallInv ==
    ASSUME IndInv, NEW h \in Handlers, up, NEW c \in Containers, ctr[c] # "absent",
           req[h].pc = "idle",
           \/ Call(h, "StartContainer", "lookup", c)
           \/ \E pc \in {"unstarted", "stop"} : Call(h, "StopContainer", pc, c)
           \/ \E pc \in {"reread", "delete"} : Call(h, "RemoveContainer", pc, c),
           UNCHANGED <<storeVars, hostVars, taskVars, up>>
    PROVE  IndInv'
  <1>1. Types /\ req \in [Handlers -> Request] /\ req[h] = Idle
    BY AtRest
  <1>2. RunIsOver
    BY ContainerExists DEF IndInv
  <1>3. /\ req' \in [Handlers -> Request]
        /\ \/ req'[h].pc = "lookup" /\ req'[h].op = "StartContainer"
           \/ req'[h].pc \in {"unstarted", "stop", "reread", "delete"} /\ req'[h].op \in StopOps
        /\ req'[h].c = c
        /\ \A g \in Handlers : g # h => req'[g] = req[g]
    BY <1>1, CallFacts DEF Ops, Pcs, StopOps
  <1>4. CallFits(h)' /\ RemovalFits(h)'
    BY <1>3 DEF CallFits, RunPcs, CreatePcs, StartPcs, StopPcs, StopOps, RemovalFits
  <1>5. Types'
    BY <1>1, <1>3 DEF Types, storeVars, hostVars, taskVars
  <1> QED
    BY <1>1, <1>2, <1>3, <1>4, <1>5, IdleFacts, PlainStep DEF storeVars, hostVars, taskVars, RunPcs, CreatePcs, SpawnPcs

LEMMA ContainerCallsInv ==
    ASSUME IndInv, NEW h \in Handlers, up, NEW c \in Containers,
           StartContainer(h, c) \/ StopContainer(h, c) \/ RemoveContainer(h, c)
    PROVE  IndInv'
  BY ContainerCallInv DEF StartContainer, StopContainer, RemoveContainer, Stored

LEMMA RelistInv ==
    ASSUME IndInv, NEW h \in Handlers, Relist(h)
    PROVE  IndInv'
  <1>1. req[h].pc = "signal" /\ req[h].op = "StopPodSandbox" /\ req[h] \in Request
    BY AtRest DEF Relist, At
  <1>2. Types /\ req \in [Handlers -> Request] /\ CallFits(h) /\ RunIsOver /\ up
    BY <1>1, Underway
  <1> DEFINE new == [req[h] EXCEPT !.pc = "exits",
                             !.seen = {c \in Containers : Stored(ctr[c])},
                             !.todo = {c \in Containers : ctr[c] \in {"created", "running"}}]
  <1>3. new \in Request /\ new.pc = "exits" /\ new.op = req[h].op /\ new.c = req[h].c
    <2> DEFINE S == {c \in Containers : Stored(ctr[c])}
               T == {c \in Containers : ctr[c] \in {"created", "running"}}
    <2>1. S \in SUBSET Containers /\ T \in SUBSET Containers
      OBVIOUS
    <2> HIDE DEF S, T
    <2>2. [req[h] EXCEPT !.pc = "exits", !.seen = S, !.todo = T] \in Request
      BY <1>1, <2>1 DEF Request, Pcs
    <2> QED
      BY <1>1, <2>2 DEF S, T, Request
  <1>4. /\ req' \in [Handlers -> Request] /\ req'[h] = new
        /\ \A g \in Handlers : g # h => req'[g] = req[g]
    BY <1>2, <1>3, SetFacts DEF Relist
  <1>5. CallFits(h)' /\ RemovalFits(h)'
    BY <1>1, <1>3, <1>4 DEF CallFits, RunPcs, CreatePcs, StartPcs, StopPcs, StopOps, RemovalFits
  <1>6. Types'
    BY <1>2, <1>4 DEF Types, Relist, storeVars, hostVars, taskVars
  <1> QED
    BY <1>1, <1>2, <1>3, <1>4, <1>5, <1>6, PlainStep DEF Relist, storeVars, hostVars, taskVars, RunPcs, CreatePcs, SpawnPcs

LEMMA UnregisterInv ==
    ASSUME IndInv, NEW h \in Handlers, Unregister(h)
    PROVE  IndInv'
  <1>1. req[h].pc = "exits" /\ req[h].op = "StopPodSandbox"
    BY DEF Unregister, At
  <1>2. Types /\ req \in [Handlers -> Request] /\ RunIsOver /\ up
    BY <1>1, Underway
  <1>3. /\ req' \in [Handlers -> Request]
        /\ req'[h].pc = "take" /\ req'[h].op = "StopPodSandbox" /\ req'[h].c = NoContainer
        /\ \A g \in Handlers : g # h => req'[g] = req[g]
    <2> DEFINE new == [Idle EXCEPT !.op = "StopPodSandbox", !.pc = "take"]
    <2>1. /\ new \in Request /\ new.op = "StopPodSandbox" /\ new.pc = "take"
          /\ new.c = NoContainer
      BY IdleFacts DEF Request, Ops, Pcs
    <2>2. Set(h, new)
      BY DEF Unregister
    <2> QED
      BY <1>2, <2>1, <2>2, SetFacts
  <1>4. CallFits(h)' /\ RemovalFits(h)'
    BY <1>3 DEF CallFits, RunPcs, CreatePcs, StartPcs, StopPcs, StopOps, RemovalFits
  <1>5. Types'
    BY <1>2, <1>3 DEF Types, Unregister, storeVars, hostVars, taskVars
  <1> QED
    BY <1>1, <1>2, <1>3, <1>4, <1>5, CriAssumption, PlainStep
       DEF Unregister, storeVars, hostVars, taskVars, RunPcs, CreatePcs, SpawnPcs

-----------------------------------------------------------------------------
(* Steps that stop containers                                              *)

LEMMA SignalEachInv ==
    ASSUME IndInv, NEW h \in Handlers, NEW c \in Containers, SignalEach(h, c)
    PROVE  IndInv'
  <1>1. req[h].pc = "signal" /\ req[h].op = "StopPodSandbox"
    BY DEF SignalEach, At
  <1>2. Types /\ req \in [Handlers -> Request] /\ CallFits(h) /\ RunIsOver /\ up
    BY <1>1, Underway
  <1>3. /\ req' \in [Handlers -> Request]
        /\ req'[h].pc = "signal" /\ req'[h].op = "StopPodSandbox" /\ req'[h].c = req[h].c
        /\ \A g \in Handlers : g # h => req'[g] = req[g]
    BY <1>1, <1>2, VisitFacts DEF SignalEach
  <1>4. CallFits(h)' /\ RemovalFits(h)'
    BY <1>1, <1>2, <1>3 DEF CallFits, RunPcs, CreatePcs, StartPcs, StopPcs, StopOps, RemovalFits
  <1>5. /\ stops' \in SUBSET Containers
        /\ sup' \in [Containers -> {"none", "queued", "watch", "signalled", "done", "dropped"}]
        /\ \A d \in Containers : sup[d] \in Backing => sup'[d] \in Backing
    BY <1>2, SignalFacts DEF SignalEach
  <1>6. Types'
    BY <1>2, <1>3, <1>5 DEF Types, SignalEach, storeVars, hostVars
  <1>7. Calm(h)
    BY <1>3, <1>4 DEF Calm, ContainersEnd, SignalEach, storeVars, hostVars, RunPcs, CreatePcs, SpawnPcs
  <1> QED
    BY <1>1, <1>2, <1>5, <1>6, <1>7, CalmStep
       DEF SignalEach, storeVars, hostVars, Starting

LEMMA ExitEachInv ==
    ASSUME IndInv, NEW h \in Handlers, NEW c \in Containers, ExitEach(h, c)
    PROVE  IndInv'
  <1>1. req[h].pc = "exits" /\ req[h].op = "StopPodSandbox"
    BY DEF ExitEach, At
  <1>2. Types /\ req \in [Handlers -> Request] /\ CallFits(h) /\ RunIsOver /\ up
    BY <1>1, Underway
  <1>3. /\ req' \in [Handlers -> Request]
        /\ req'[h].pc = "exits" /\ req'[h].op = "StopPodSandbox" /\ req'[h].c = req[h].c
        /\ \A g \in Handlers : g # h => req'[g] = req[g]
    BY <1>1, <1>2, VisitFacts DEF ExitEach
  <1>4. CallFits(h)' /\ RemovalFits(h)'
    BY <1>1, <1>2, <1>3 DEF CallFits, RunPcs, CreatePcs, StartPcs, StopPcs, StopOps, RemovalFits
  <1>5. /\ ctr' \in [Containers -> ContainerStates] /\ saved' \in BOOLEAN
        /\ ContainersEnd
    BY <1>2, MarkExitedFacts DEF ExitEach
  <1>6. Types'
    BY <1>2, <1>3, <1>5 DEF Types, ExitEach, hostVars, taskVars
  <1>7. Calm(h)
    BY <1>3, <1>4, <1>5 DEF Calm, ExitEach, hostVars, taskVars, RunPcs, CreatePcs, SpawnPcs
  <1> QED
    BY <1>1, <1>2, <1>5, <1>6, <1>7, CalmStep
       DEF ExitEach, hostVars, taskVars, Starting

\* The handler goes on, or ends, after it marked its container exited.
LEMMA MarkStepInv ==
    ASSUME IndInv, NEW h \in Handlers, req[h].pc \in {"spawn", "unstarted", "markkilled"},
           MarkExited(req[h].c) \/ MarkExitedIfRunning(req[h].c),
           Finish(h) \/ (req[h].pc # "spawn" /\ Goto(h, "release")),
           UNCHANGED <<sandbox, hostVars, taskVars, up>>
    PROVE  IndInv'
  <1>1. req[h].op # "RunPodSandbox" /\ CallFits(h) /\ req[h].c \in Containers
    BY DEF IndInv, SandboxInv, CallFits, RunPcs, CreatePcs, StartPcs, StopPcs, StopOps
  <1>2. Types /\ req \in [Handlers -> Request] /\ RunIsOver /\ up
    BY <1>1, Underway
  <1>3. /\ req' \in [Handlers -> Request]
        /\ CallFits(h)' /\ req'[h].op # "RemovePodSandbox"
        /\ req'[h].pc \in {"idle", "release"} /\ req'[h].c \in {req[h].c, NoContainer}
        /\ \A g \in Handlers : g # h => req'[g] = req[g]
    <2>1. CASE Finish(h)
      BY <1>2, <2>1, FinishFacts, IdleFacts
    <2>2. CASE req[h].pc # "spawn" /\ Goto(h, "release")
      <3>1. /\ req' \in [Handlers -> Request]
            /\ req'[h].pc = "release" /\ req'[h].op = req[h].op /\ req'[h].c = req[h].c
            /\ \A g \in Handlers : g # h => req'[g] = req[g]
        BY <1>2, <2>2, GotoFacts DEF Pcs
      <3> QED
        BY <1>1, <2>2, <3>1 DEF CallFits, RunPcs, CreatePcs, StartPcs, StopPcs, StopOps
    <2> QED
      BY <2>1, <2>2
  <1>4. RemovalFits(h)'
    BY <1>3 DEF RemovalFits
  <1>5. /\ ctr' \in [Containers -> ContainerStates] /\ saved' \in BOOLEAN
        /\ ContainersEnd /\ ctr'[req[h].c] # "running"
    BY <1>1, <1>2, MarkExitedFacts
  <1>6. Types'
    BY <1>2, <1>3, <1>5 DEF Types, hostVars, taskVars
  <1>7. Calm(h)
    BY <1>3, <1>4, <1>5, CriAssumption DEF Calm, hostVars, taskVars, RunPcs, CreatePcs, SpawnPcs
  <1>8. \A c \in Containers : Starting(h, c) => ctr'[c] # "running"
    BY <1>5 DEF Starting
  <1> QED
    BY <1>2, <1>5, <1>6, <1>7, <1>8, CalmStep DEF hostVars, taskVars

LEMMA MarkStepsInv ==
    ASSUME IndInv, NEW h \in Handlers, SpawnFails(h) \/ StopUnstarted(h) \/ MarkKilled(h)
    PROVE  IndInv'
  BY MarkStepInv DEF SpawnFails, StopUnstarted, MarkKilled

LEMMA StopWorkloadInv ==
    ASSUME IndInv, NEW h \in Handlers, StopWorkload(h)
    PROVE  IndInv'
  <1>1. req[h].pc = "stop" /\ req[h].op # "RunPodSandbox" /\ CallFits(h) /\ req[h].c \in Containers
    BY DEF StopWorkload, IndInv, SandboxInv, CallFits, RunPcs, CreatePcs, StartPcs, StopPcs, StopOps
  <1>2. Types /\ req \in [Handlers -> Request] /\ RunIsOver /\ up
    BY <1>1, Underway
  <1>3. /\ req' \in [Handlers -> Request]
        /\ req'[h].pc \in {"wait", "fallback"} /\ req'[h].op = req[h].op /\ req'[h].c = req[h].c
        /\ \A g \in Handlers : g # h => req'[g] = req[g]
    <2>1. PICK pc \in {"wait", "fallback"} : Goto(h, pc)
      BY DEF StopWorkload
    <2> QED
      BY <1>2, <2>1, GotoFacts DEF Pcs
  <1>4. CallFits(h)' /\ RemovalFits(h)'
    BY <1>1, <1>3 DEF CallFits, RunPcs, CreatePcs, StartPcs, StopPcs, StopOps, RemovalFits
  <1>5. /\ stops' \in SUBSET Containers
        /\ sup' \in [Containers -> {"none", "queued", "watch", "signalled", "done", "dropped"}]
        /\ \A d \in Containers : sup[d] \in Backing => sup'[d] \in Backing
    BY <1>1, <1>2, SignalFacts DEF StopWorkload
  <1>6. Types'
    BY <1>2, <1>3, <1>5 DEF Types, StopWorkload, storeVars, hostVars
  <1>7. Calm(h)
    BY <1>3, <1>4 DEF Calm, ContainersEnd, StopWorkload, storeVars, hostVars, RunPcs, CreatePcs, SpawnPcs
  <1> QED
    BY <1>1, <1>2, <1>5, <1>6, <1>7, CalmStep
       DEF StopWorkload, storeVars, hostVars, Starting

\* A handler that has nothing else to do ends.
LEMMA EndsFacts ==
    ASSUME IndInv, NEW h \in Handlers, Finish(h)
    PROVE  /\ req' \in [Handlers -> Request]
           /\ req'[h] = Idle
           /\ CallFits(h)' /\ RemovalFits(h)'
           /\ req'[h].pc \notin {"destroy"} \cup RunPcs \cup CreatePcs \cup SpawnPcs
           /\ \A g \in Handlers : g # h => req'[g] = req[g]
           /\ \A c \in Containers : req'[h].c # c
  <1>1. /\ req' \in [Handlers -> Request] /\ req'[h] = Idle /\ CallFits(h)'
        /\ \A g \in Handlers : g # h => req'[g] = req[g]
    BY AtRest, FinishFacts
  <1> QED
    BY <1>1, IdleFacts DEF RemovalFits, RunPcs, CreatePcs, SpawnPcs

LEMMA DeleteContainerInv ==
    ASSUME IndInv, NEW h \in Handlers, DeleteContainer(h)
    PROVE  IndInv'
  <1> DEFINE c == req[h].c
  <1>1. req[h].pc = "delete" /\ req[h].op # "RunPodSandbox" /\ c \in Containers
    BY DEF DeleteContainer, IndInv, SandboxInv, CallFits, RunPcs, CreatePcs, StartPcs, StopPcs, StopOps
  <1>2. Types /\ req \in [Handlers -> Request] /\ RunIsOver /\ up
    BY <1>1, Underway
  <1>3. Finish(h) /\ UNCHANGED <<sandbox, vm, ip, work, sup, reap, up>>
    BY DEF DeleteContainer
  <1>4. /\ ctr' \in [Containers -> ContainerStates] /\ saved' \in BOOLEAN
        /\ stops' \in SUBSET Containers /\ rootfs' \in SUBSET Containers
        /\ ContainersEnd
        /\ \A d \in rootfs \ rootfs' : ctr'[d] = "removed"
    <2>1. CASE Stored(ctr[c])
      <3> DEFINE new == [ctr EXCEPT ![c] = "removed"]
      <3>1. new \in [Containers -> ContainerStates]
        BY <1>2 DEF Types, ContainerStates
      <3>2. ctr' = new /\ saved' \in BOOLEAN /\ stops' = stops \ {c} /\ rootfs' = rootfs \ {c}
        BY <1>2, <2>1, <3>1, StoreFacts DEF DeleteContainer
      <3>3. ContainersEnd
        BY <1>1, <1>2, <2>1, <3>2 DEF Types, ContainersEnd
      <3>4. \A d \in rootfs \ rootfs' : ctr'[d] = "removed"
        BY <1>1, <1>2, <3>2 DEF Types
      <3> QED
        BY <1>2, <3>1, <3>2, <3>3, <3>4 DEF Types
    <2>2. CASE ~Stored(ctr[c])
      BY <1>2, <2>2 DEF Types, DeleteContainer, ContainersEnd
    <2> QED
      BY <2>1, <2>2
  <1>5. Types'
    BY <1>2, <1>3, <1>4, EndsFacts DEF Types
  <1>6. Calm(h)
    BY <1>3, <1>4, EndsFacts DEF Calm
  <1> QED
    BY <1>1, <1>2, <1>3, <1>4, <1>5, <1>6, CalmStep DEF Starting

\* The supervisor backs the container that StartContainer leaves running.
LEMMA SuperviseInv ==
    ASSUME IndInv, NEW h \in Handlers, Supervise(h)
    PROVE  IndInv'
  <1> DEFINE c == req[h].c
  <1>1. req[h].pc = "supervise" /\ req[h].op # "RunPodSandbox" /\ c \in Containers
    BY DEF Supervise, IndInv, SandboxInv, CallFits, RunPcs, CreatePcs, StartPcs, StopPcs, StopOps
  <1>2. Types /\ req \in [Handlers -> Request] /\ RunIsOver /\ up
    BY <1>1, Underway
  <1>3. /\ sup' \in [Containers -> {"none", "queued", "watch", "signalled", "done", "dropped"}]
        /\ sup'[c] \in Backing
        /\ \A d \in Containers : d # c => sup'[d] = sup[d]
    BY <1>1, <1>2 DEF Supervise, Types, Backing
  <1>4. Types'
    BY <1>2, <1>3, EndsFacts DEF Types, Supervise, storeVars, hostVars
  <1>5. Calm(h)
    BY EndsFacts DEF Calm, ContainersEnd, Supervise, storeVars, hostVars
  <1>6. \A d \in Containers : Starting(h, d) => sup'[d] \in Backing
    BY <1>3 DEF Starting
  <1> QED
    BY <1>1, <1>2, <1>3, <1>4, <1>5, <1>6, CalmStep DEF Supervise, storeVars, hostVars

-----------------------------------------------------------------------------
(* Steps that create and start containers                                  *)

\* Only the handler moves on, and the sandbox is left alone.
LEMMA MoverInv ==
    ASSUME IndInv, NEW h \in Handlers, Types', ContainerInv', RunIsOver, up,
           UNCHANGED <<sandbox, vm, ip, reap, up>>,
           \A g \in Handlers : g # h => req'[g] = req[g],
           req[h].pc \notin {"destroy", "disconnect", "notready"},
           req'[h].pc \in {"idle"} \cup CreatePcs \cup StartPcs, CallFits(h)'
    PROVE  IndInv'
  <1>1. HandleFits /\ SandboxInv
    BY TypeParts DEF IndInv
  <1>2. RemovalFits(h)' /\ req'[h].pc \notin {"destroy"} \cup RunPcs
    BY IdleFacts DEF CallFits, RunPcs, CreatePcs, StartPcs, StopPcs, StopOps, RemovalFits
  <1>3. HandleFits' /\ SandboxInv'
    BY <1>1, <1>2, SandboxKept
  <1> QED
    BY <1>3, TypesKept DEF IndInv

LEMMA CreateContainerInv ==
    ASSUME IndInv, NEW h \in Handlers, up, NEW c \in Containers, CreateContainer(h, c)
    PROVE  IndInv'
  <1>1. Types /\ req \in [Handlers -> Request] /\ req[h] = Idle
    BY AtRest DEF CreateContainer
  <1>2. RunIsOver
    BY DEF CreateContainer, Known, RunIsOver
  <1>3. /\ req' \in [Handlers -> Request]
        /\ req'[h].pc = "prepare" /\ req'[h].op = "CreateContainer" /\ req'[h].c = c
        /\ \A g \in Handlers : g # h => req'[g] = req[g]
    BY <1>1, CallFacts DEF CreateContainer, Ops, Pcs
  <1>4. CallFits(h)'
    BY <1>3 DEF CallFits, RunPcs, CreatePcs, StartPcs, StopPcs, StopOps
  <1>5. Types'
    BY <1>1, <1>3 DEF Types, CreateContainer, storeVars, hostVars, taskVars
  <1>6. UNCHANGED <<sandbox, ctr, vm, ip, rootfs, work, sup, reap, up>>
    BY DEF CreateContainer, storeVars, hostVars, taskVars
  <1>7. ContainerInv /\ \A d \in Containers : ~Starting(h, d) /\ ~Starting(h, d)'
    BY <1>1, <1>3, IdleFacts DEF IndInv, Starting
  <1>8. \A g \in Handlers : CreateFits(g)'
    BY <1>3, <1>6, <1>7 DEF CreateContainer, ContainerInv, CreateFits
  <1>9. UnstartedFits' /\ OneStarter' /\ RunningIsBacked' /\ StartableHasRootfs'
    BY <1>3, <1>6, <1>7
       DEF ContainerInv, UnstartedFits, OneStarter, RunningIsBacked, StartableHasRootfs, Starting
  <1>10. ContainerInv'
    BY <1>8, <1>9 DEF ContainerInv
  <1> QED
    BY <1>1, <1>2, <1>3, <1>4, <1>5, <1>6, <1>10, IdleFacts, MoverInv DEF CreatePcs

\* A creation that fails before its container is stored.
LEMMA CreateFailsInv ==
    ASSUME IndInv, NEW h \in Handlers, req[h].pc \in {"prepare", "recheck"}, Finish(h),
           \/ rootfs' = rootfs
           \/ sandbox # "ready" /\ rootfs' = rootfs \ {req[h].c},
           UNCHANGED <<storeVars, vm, ip, work, taskVars, up>>
    PROVE  IndInv'
  <1>1. req[h].op # "RunPodSandbox"
    BY DEF IndInv, SandboxInv, CallFits, RunPcs, CreatePcs, StartPcs, StopPcs, StopOps
  <1>2. Types /\ req \in [Handlers -> Request] /\ RunIsOver /\ up
    BY <1>1, Underway
  <1>3. Types'
    BY <1>2, EndsFacts DEF Types, storeVars, hostVars, taskVars
  <1>4. Calm(h)
    BY EndsFacts DEF Calm, ContainersEnd, storeVars, hostVars, taskVars
  <1> QED
    BY <1>2, <1>3, <1>4, CalmStep DEF Starting, storeVars, hostVars, taskVars

LEMMA PrepareRootfsInv ==
    ASSUME IndInv, NEW h \in Handlers, PrepareRootfs(h)
    PROVE  IndInv'
  <1> DEFINE c == req[h].c
  <1>1. CASE UNCHANGED rootfs /\ Finish(h)
    BY <1>1, CreateFailsInv DEF PrepareRootfs
  <1>2. CASE rootfs' = rootfs \cup {c} /\ Goto(h, "recheck")
    <2>1. req[h].pc = "prepare" /\ req[h].op = "CreateContainer" /\ c \in Containers
      BY DEF PrepareRootfs, IndInv, SandboxInv, CallFits, RunPcs, CreatePcs, StartPcs, StopPcs, StopOps
    <2>2. Types /\ req \in [Handlers -> Request] /\ RunIsOver /\ up
      BY <2>1, Underway
    <2>3. /\ req' \in [Handlers -> Request]
          /\ req'[h].pc = "recheck" /\ req'[h].op = "CreateContainer" /\ req'[h].c = c
          /\ \A g \in Handlers : g # h => req'[g] = req[g]
      BY <1>2, <2>1, <2>2, GotoFacts DEF Pcs
    <2>4. CallFits(h)'
      BY <2>1, <2>3 DEF CallFits, RunPcs, CreatePcs, StartPcs, StopPcs, StopOps
    <2>5. UNCHANGED <<sandbox, saved, ctr, vm, ip, work, stops, sup, reap, up>>
      BY DEF PrepareRootfs, storeVars, hostVars, taskVars
    <2>6. Types'
      BY <1>2, <2>1, <2>2, <2>3, <2>5 DEF Types
    <2>7. ContainerInv /\ \A d \in Containers : ~Starting(h, d) /\ ~Starting(h, d)'
      BY <2>1, <2>3 DEF IndInv, Starting
    <2>8. \A g \in Handlers : CreateFits(g)'
      BY <1>2, <2>1, <2>3, <2>5, <2>7 DEF ContainerInv, CreateFits
    <2>9. UnstartedFits' /\ OneStarter' /\ RunningIsBacked' /\ StartableHasRootfs'
      BY <1>2, <2>3, <2>5, <2>7
         DEF ContainerInv, UnstartedFits, OneStarter, RunningIsBacked, StartableHasRootfs, Starting
    <2>10. ContainerInv'
      BY <2>8, <2>9 DEF ContainerInv
    <2> QED
      BY <2>1, <2>2, <2>3, <2>4, <2>5, <2>6, <2>10, MoverInv DEF CreatePcs
  <1> QED
    BY <1>1, <1>2 DEF PrepareRootfs

LEMMA RecheckInv ==
    ASSUME IndInv, NEW h \in Handlers, Recheck(h)
    PROVE  IndInv'
  <1> DEFINE c == req[h].c
  <1>1. CASE sandbox # "ready"
    BY <1>1, CreateFailsInv DEF Recheck
  <1>2. CASE sandbox = "ready"
    <2>1. req[h].pc = "recheck" /\ req[h].op = "CreateContainer" /\ c \in Containers
      BY DEF Recheck, IndInv, SandboxInv, CallFits, RunPcs, CreatePcs, StartPcs, StopPcs, StopOps
    <2>2. Types /\ req \in [Handlers -> Request] /\ RunIsOver /\ up
      BY <2>1, Underway
    <2>3. /\ req' \in [Handlers -> Request]
          /\ req'[h].pc = "insert" /\ req'[h].op = "CreateContainer" /\ req'[h].c = c
          /\ \A g \in Handlers : g # h => req'[g] = req[g]
      BY <1>2, <2>1, <2>2, GotoFacts DEF Recheck, Pcs
    <2>4. CallFits(h)'
      BY <2>1, <2>3 DEF CallFits, RunPcs, CreatePcs, StartPcs, StopPcs, StopOps
    <2>5. UNCHANGED <<sandbox, saved, ctr, vm, ip, rootfs, work, stops, sup, reap, up>>
      BY <1>2 DEF Recheck, storeVars, hostVars, taskVars
    <2>6. Types'
      BY <2>2, <2>3, <2>5 DEF Types
    <2>7. ContainerInv /\ \A d \in Containers : ~Starting(h, d) /\ ~Starting(h, d)'
      BY <2>1, <2>3 DEF IndInv, Starting
    <2>8. \A g \in Handlers : CreateFits(g)'
      BY <2>1, <2>3, <2>5, <2>7 DEF ContainerInv, CreateFits
    <2>9. UnstartedFits' /\ OneStarter' /\ RunningIsBacked' /\ StartableHasRootfs'
      BY <2>3, <2>5, <2>7
         DEF ContainerInv, UnstartedFits, OneStarter, RunningIsBacked, StartableHasRootfs, Starting
    <2>10. ContainerInv'
      BY <2>8, <2>9 DEF ContainerInv
    <2> QED
      BY <2>1, <2>2, <2>3, <2>4, <2>5, <2>6, <2>10, MoverInv DEF CreatePcs
  <1> QED
    BY <1>1, <1>2

\* The container is stored: its files are there if it can still be started.
LEMMA AddContainerInv ==
    ASSUME IndInv, NEW h \in Handlers, AddContainer(h)
    PROVE  IndInv'
  <1> DEFINE c == req[h].c
             new == [ctr EXCEPT ![c] = "created"]
  <1>1. /\ req[h].pc = "insert" /\ req[h].op = "CreateContainer" /\ c \in Containers
        /\ ContainerInv /\ CreateFits(h) /\ ctr[c] = "absent"
    BY DEF AddContainer, IndInv, SandboxInv, ContainerInv, CreateFits, CallFits, RunPcs, CreatePcs, StartPcs, StopPcs, StopOps
  <1>2. Types /\ req \in [Handlers -> Request] /\ RunIsOver /\ up
    BY <1>1, Underway
  <1>3. /\ ctr' \in [Containers -> ContainerStates] /\ saved' \in BOOLEAN
        /\ ctr'[c] = "created" /\ \A d \in Containers : d # c => ctr'[d] = ctr[d]
    <2>1. new \in [Containers -> ContainerStates]
      BY <1>2 DEF Types, ContainerStates
    <2>2. /\ ctr' \in [Containers -> ContainerStates] /\ saved' \in BOOLEAN /\ ctr' = new
      BY <1>2, <2>1, StoreFacts DEF AddContainer
    <2> QED
      BY <1>1, <1>2, <2>2 DEF Types
  <1>4. /\ req' \in [Handlers -> Request] /\ req'[h] = Idle /\ CallFits(h)'
        /\ \A g \in Handlers : g # h => req'[g] = req[g]
        /\ UNCHANGED <<sandbox, vm, ip, rootfs, work, stops, sup, reap, up>>
    BY EndsFacts DEF AddContainer, hostVars, taskVars
  <1>5. Types'
    BY <1>2, <1>3, <1>4 DEF Types
  <1>6. \A d \in Containers : ~Starting(h, d) /\ ~Starting(h, d)'
    BY <1>1, <1>4, IdleFacts DEF Starting
  <1>7. \A g \in Handlers : CreateFits(g)'
    BY <1>1, <1>3, <1>4, IdleFacts DEF ContainerInv, CreateFits, IndInv, SandboxInv, CallFits
  <1>8. UnstartedFits'
    BY <1>1, <1>3, <1>4, <1>6 DEF ContainerInv, UnstartedFits, Starting
  <1>9. OneStarter' /\ RunningIsBacked'
    BY <1>1, <1>3, <1>4, <1>6 DEF ContainerInv, OneStarter, RunningIsBacked, Starting
  <1>10. StartableHasRootfs'
    BY <1>1, <1>3, <1>4 DEF ContainerInv, StartableHasRootfs, CreateFits
  <1>11. ContainerInv'
    BY <1>7, <1>8, <1>9, <1>10 DEF ContainerInv
  <1> QED
    BY <1>1, <1>2, <1>4, <1>5, <1>11, IdleFacts, MoverInv

\* The transition that only one StartContainer can win.
LEMMA MarkStartedInv ==
    ASSUME IndInv, NEW h \in Handlers, MarkStarted(h)
    PROVE  IndInv'
  <1> DEFINE c == req[h].c
             new == [ctr EXCEPT ![c] = "running"]
  <1>1. /\ req[h].pc = "mark" /\ req[h].op = "StartContainer" /\ c \in Containers
        /\ ContainerInv /\ CallFits(h)
    BY DEF MarkStarted, IndInv, SandboxInv, CallFits, RunPcs, CreatePcs, StartPcs, StopPcs, StopOps
  <1>2. Types /\ req \in [Handlers -> Request] /\ RunIsOver /\ up
    BY <1>1, Underway
  <1>3. UNCHANGED <<sandbox, vm, ip, rootfs, work, stops, sup, reap, up>>
    BY DEF MarkStarted, hostVars, taskVars
  <1>4. CASE ~MarkStartedIfCreated(c)
    <2>1. Finish(h) /\ UNCHANGED <<ctr, saved>>
      BY <1>4 DEF MarkStarted
    <2>2. Types'
      BY <1>2, <1>3, <2>1, EndsFacts DEF Types
    <2> QED
      BY <1>1, <1>2, <1>3, <2>1, <2>2, EndsFacts, PlainStep DEF SpawnPcs
  <1>5. CASE MarkStartedIfCreated(c)
    <2>1. ctr[c] = "created" /\ StoreContainers(new) /\ Goto(h, "spawn")
      BY <1>5 DEF MarkStarted, MarkStartedIfCreated
    <2>2. /\ ctr' \in [Containers -> ContainerStates] /\ saved' \in BOOLEAN
          /\ ctr'[c] = "running" /\ \A d \in Containers : d # c => ctr'[d] = ctr[d]
      <3>1. new \in [Containers -> ContainerStates]
        BY <1>2 DEF Types, ContainerStates
      <3>2. /\ ctr' \in [Containers -> ContainerStates] /\ saved' \in BOOLEAN /\ ctr' = new
        BY <1>2, <2>1, <3>1, StoreFacts
      <3> QED
        BY <1>1, <1>2, <3>2 DEF Types
    <2>3. /\ req' \in [Handlers -> Request]
          /\ req'[h].pc = "spawn" /\ req'[h].op = "StartContainer" /\ req'[h].c = c
          /\ \A g \in Handlers : g # h => req'[g] = req[g]
      BY <1>1, <1>2, <2>1, GotoFacts DEF Pcs
    <2>4. CallFits(h)' /\ Types'
      BY <1>1, <1>2, <1>3, <2>2, <2>3 DEF Types, CallFits, RunPcs, CreatePcs, StartPcs, StopPcs, StopOps
    <2>5. /\ Starting(h, c)' /\ c \notin work
          /\ \A d \in Containers : ~Starting(h, d) /\ (d # c => ~Starting(h, d)')
          /\ \A g \in Handlers : ~Starting(g, c)
      BY <1>1, <2>1, <2>3 DEF Starting, ContainerInv, UnstartedFits
    <2>6. \A g \in Handlers : CreateFits(g)'
      BY <1>1, <1>3, <2>1, <2>2, <2>3 DEF ContainerInv, CreateFits, IndInv, SandboxInv, CallFits
    <2>7. UnstartedFits'
      BY <1>1, <1>3, <2>2, <2>3, <2>5 DEF ContainerInv, UnstartedFits, Starting
    <2>8. OneStarter' /\ RunningIsBacked'
      BY <1>1, <1>3, <2>2, <2>3, <2>5 DEF ContainerInv, OneStarter, RunningIsBacked, Starting
    <2>9. StartableHasRootfs'
      BY <1>1, <1>3, <2>1, <2>2 DEF ContainerInv, StartableHasRootfs
    <2>10. ContainerInv'
      BY <2>6, <2>7, <2>8, <2>9 DEF ContainerInv
    <2> QED
      BY <1>1, <1>2, <1>3, <2>3, <2>4, <2>10, MoverInv DEF StartPcs
  <1> QED
    BY <1>4, <1>5

\* The workload is spawned and its stop control registered.
LEMMA SpawnInv ==
    ASSUME IndInv, NEW h \in Handlers, Spawn(h) \/ Register(h)
    PROVE  IndInv'
  <1> DEFINE c == req[h].c
  <1>1. /\ req[h].pc \in {"spawn", "register"} /\ req[h].op = "StartContainer" /\ c \in Containers
        /\ ContainerInv /\ CallFits(h) /\ Starting(h, c)
    BY DEF Spawn, Register, IndInv, SandboxInv, Starting, CallFits, RunPcs, CreatePcs, StartPcs, StopPcs, StopOps
  <1>2. Types /\ req \in [Handlers -> Request] /\ RunIsOver /\ up
    BY <1>1, Underway
  <1>3. /\ UNCHANGED <<sandbox, saved, ctr, vm, ip, rootfs, sup, reap, up>>
        /\ work \subseteq work' /\ work' \subseteq work \cup {c} /\ stops' \in SUBSET Containers
    BY <1>1, <1>2 DEF Spawn, Register, storeVars, hostVars, taskVars, Types
  <1>4. /\ req' \in [Handlers -> Request]
        /\ req'[h].pc \in {"register", "supervise"} /\ req'[h].op = "StartContainer"
        /\ req'[h].c = c
        /\ \A g \in Handlers : g # h => req'[g] = req[g]
    <2>1. PICK pc \in {"register", "supervise"} : Goto(h, pc)
      BY DEF Spawn, Register
    <2> QED
      BY <1>1, <1>2, <2>1, GotoFacts DEF Pcs
  <1>5. CallFits(h)' /\ Types'
    BY <1>1, <1>2, <1>3, <1>4 DEF Types, CallFits, RunPcs, CreatePcs, StartPcs, StopPcs, StopOps
  <1>6. /\ Starting(h, c)' /\ \A d \in Containers : d # c => ~Starting(h, d) /\ ~Starting(h, d)'
        /\ ctr[c] \notin {"absent", "created"}
        /\ \A g \in Handlers : g # h => ~Starting(g, c)
    BY <1>1, <1>4 DEF Starting, ContainerInv, UnstartedFits, OneStarter
  <1>7. \A g \in Handlers : CreateFits(g)'
    BY <1>1, <1>3, <1>4 DEF ContainerInv, CreateFits
  <1>8. UnstartedFits'
    BY <1>1, <1>3, <1>4, <1>6 DEF ContainerInv, UnstartedFits, Starting
  <1>9. OneStarter'
    BY <1>1, <1>3, <1>4, <1>6 DEF ContainerInv, OneStarter, Starting
  <1>10. RunningIsBacked' /\ StartableHasRootfs'
    BY <1>1, <1>3, <1>4, <1>6 DEF ContainerInv, RunningIsBacked, StartableHasRootfs, Starting
  <1>11. ContainerInv'
    BY <1>7, <1>8, <1>9, <1>10 DEF ContainerInv
  <1> QED
    BY <1>1, <1>2, <1>3, <1>4, <1>5, <1>11, MoverInv DEF StartPcs

\* Whether or not the network store takes the address back, it is not held.
LEMMA DisconnectFacts == Disconnected => ip' \in Addresses /\ ip' # "held"
  BY DEF Disconnected, Addresses

-----------------------------------------------------------------------------
(* RunPodSandbox                                                           *)

\* A step of RunPodSandbox, its end and its cancellation included, while it is
\* the only call.
LEMMA SoloStep ==
    ASSUME IndInv, Types', NEW h \in Handlers, up, up' = up,
           Alone(h), NoContainers, ctr' = ctr, work' = work,
           \A g \in Handlers : g # h => req'[g] = req[g],
           req'[h].pc \in RunPcs \cup {"idle"},
           CallFits(h)', RunFits(h)',
           sandbox' # "none", sandbox' = "starting" => ~reap',
           req'[h].pc = "track" <=> vm'.handle = "handler",
           ReadySandboxHasVm', GoneLeavesNothing', LiveVmHasHolder'
    PROVE  IndInv'
  <1>1. SandboxInv /\ ContainerInv
    BY DEF IndInv
  <1>2. \A g \in Handlers : g # h => req'[g] = Idle
    BY <1>1 DEF Alone, SandboxInv, CallFits
  <1>3. \A g \in Handlers : CallFits(g)'
    BY <1>1 DEF SandboxInv, CallFits
  <1>4. HandleFits' /\ OneOwner'
    BY <1>2, IdleFacts DEF HandleFits, OneOwner, OwnerPcs, RunPcs
  <1>5. \A g \in Handlers : RunFits(g)'
    BY <1>2, IdleFacts DEF RunFits
  <1>6. \A g \in Handlers : RemovalFits(g)'
    BY <1>2, <1>3, IdleFacts DEF RemovalFits, CallFits
  <1>7. BeforeSandbox' /\ DownIsQuiet'
    BY DEF BeforeSandbox, DownIsQuiet
  <1>8. SandboxInv'
    BY <1>3, <1>4, <1>5, <1>6, <1>7 DEF SandboxInv
  <1>9. \A g \in Handlers : req'[g].op # "CreateContainer" /\ \A c \in Containers : ~Starting(g, c)'
    BY <1>2, <1>3, IdleFacts DEF CallFits, Starting, CreatePcs, RunPcs
  <1>10. ContainerInv'
    BY <1>1, <1>9 DEF ContainerInv, CreateFits, UnstartedFits, OneStarter, RunningIsBacked,
                      StartableHasRootfs, NoContainers
  <1> QED
    BY <1>4, <1>8, <1>10, TypesKept DEF IndInv

\* What is known while RunPodSandbox is under way.
LEMMA RunUnderway ==
    ASSUME IndInv, NEW h \in Handlers, req[h].op = "RunPodSandbox"
    PROVE  /\ Types /\ req \in [Handlers -> Request] /\ HandleFits /\ SandboxInv
           /\ CallFits(h) /\ RunFits(h) /\ Alone(h) /\ NoContainers /\ up
  BY TypeParts DEF IndInv, SandboxInv, Types, CallFits, RunFits, RunPcs, DownIsQuiet

LEMMA RunPodSandboxInv ==
    ASSUME IndInv, NEW h \in Handlers, up, RunPodSandbox(h)
    PROVE  IndInv'
  <1> DEFINE new == [Idle EXCEPT !.op = "RunPodSandbox", !.pc = "boot"]
  <1>1. Types /\ req \in [Handlers -> Request] /\ SandboxInv
    BY AtRest DEF IndInv
  <1>2. /\ Alone(h) /\ NoContainers /\ ~reap /\ ~vm.alive /\ vm.handle = "none"
    BY <1>1 DEF RunPodSandbox, SandboxInv, BeforeSandbox, Alone
  <1>3. /\ new \in Request /\ new.pc = "boot" /\ new.op = "RunPodSandbox" /\ new.c = NoContainer
    BY IdleFacts DEF Idle, Request, Pcs, Ops
  <1>4. /\ req' \in [Handlers -> Request]
        /\ req'[h].pc = "boot" /\ req'[h].op = "RunPodSandbox" /\ req'[h].c = NoContainer
        /\ \A g \in Handlers : g # h => req'[g] = req[g]
    BY <1>1, <1>3, SetFacts DEF RunPodSandbox
  <1>5. UNCHANGED <<saved, ctr, vm, rootfs, work, stops, sup, reap, up>> /\ sandbox' = "starting" /\ ip' = "held"
    BY DEF RunPodSandbox, taskVars
  <1>6. Types'
    BY <1>1, <1>4, <1>5 DEF Types, SandboxStates, Addresses
  <1>7. CallFits(h)'
    BY <1>4 DEF CallFits, RunPcs, CreatePcs, StartPcs, StopPcs, StopOps
  <1>8. RunFits(h)'
    BY <1>2, <1>4, <1>5 DEF RunFits, Alone, NoContainers
  <1>9. ReadySandboxHasVm' /\ GoneLeavesNothing' /\ LiveVmHasHolder'
    BY <1>5 DEF ReadySandboxHasVm, GoneLeavesNothing, LiveVmHasHolder, InStore
  <1> QED
    BY <1>2, <1>4, <1>5, <1>6, <1>7, <1>8, <1>9, SoloStep DEF RunPcs

LEMMA BootInv ==
    ASSUME IndInv, NEW h \in Handlers, Boot(h)
    PROVE  IndInv'
  <1>1. /\ req[h].op = "RunPodSandbox" /\ req[h].pc = "boot"
        /\ UNCHANGED <<saved, ctr, rootfs, work, stops, sup, reap, up>>
    BY DEF Boot, At, taskVars
  <1>2. /\ Types /\ req \in [Handlers -> Request] /\ HandleFits /\ SandboxInv
        /\ CallFits(h) /\ RunFits(h) /\ Alone(h) /\ NoContainers /\ up
    BY <1>1, RunUnderway
  <1>3. sandbox = "starting" /\ ~reap /\ ~vm.alive /\ vm.handle = "none"
    BY <1>1, <1>2 DEF RunFits, SandboxInv, BeforeSandbox
  <1>4. CASE vm' = [alive |-> TRUE, handle |-> "handler"] /\ Goto(h, "track") /\ UNCHANGED <<sandbox, ip>>
    <2>1. /\ req' \in [Handlers -> Request]
          /\ req'[h].pc = "track" /\ req'[h].op = "RunPodSandbox" /\ req'[h].c = req[h].c
          /\ \A g \in Handlers : g # h => req'[g] = req[g]
      BY <1>1, <1>2, <1>4, GotoFacts DEF Pcs
    <2>2. Types'
      BY <1>1, <1>2, <1>4, <2>1 DEF Types, Handles
    <2>3. CallFits(h)' /\ RunFits(h)'
      BY <1>1, <1>2, <1>3, <1>4, <2>1
         DEF CallFits, RunPcs, CreatePcs, StartPcs, StopPcs, StopOps, RunFits, Alone, NoContainers
    <2>4. ReadySandboxHasVm' /\ GoneLeavesNothing' /\ LiveVmHasHolder'
      BY <1>3, <1>4 DEF ReadySandboxHasVm, GoneLeavesNothing, LiveVmHasHolder, InStore
    <2> QED
      BY <1>1, <1>2, <1>3, <1>4, <2>1, <2>2, <2>3, <2>4, SoloStep DEF RunPcs
  <1>5. CASE sandbox' = "failed" /\ Disconnected /\ Finish(h) /\ UNCHANGED vm
    <2>1. /\ req' \in [Handlers -> Request] /\ req'[h] = Idle /\ CallFits(h)'
          /\ \A g \in Handlers : g # h => req'[g] = req[g]
      BY <1>2, <1>5, FinishFacts
    <2>2. Types'
      BY <1>1, <1>2, <1>5, <2>1, DisconnectFacts DEF Types, SandboxStates
    <2>3. RunFits(h)'
      BY <2>1, IdleFacts DEF RunFits
    <2>4. ReadySandboxHasVm' /\ GoneLeavesNothing' /\ LiveVmHasHolder'
      BY <1>3, <1>5, DisconnectFacts DEF ReadySandboxHasVm, GoneLeavesNothing, NoLooseVm, LiveVmHasHolder, InStore
    <2> QED
      BY <1>1, <1>2, <1>3, <1>5, <2>1, <2>2, <2>3, <2>4, IdleFacts, SoloStep
  <1> QED
    BY <1>4, <1>5 DEF Boot

\* The VM is tracked, the sandbox is stored, its record is saved.
LEMMA TrackInv ==
    ASSUME IndInv, NEW h \in Handlers, Track(h)
    PROVE  IndInv'
  <1>1. /\ req[h].op = "RunPodSandbox" /\ req[h].pc = "track" /\ Goto(h, "add")
        /\ UNCHANGED <<sandbox, saved, ctr, ip, rootfs, work, stops, sup, reap, up>>
    BY DEF Track, At, storeVars, taskVars
  <1>2. /\ Types /\ req \in [Handlers -> Request] /\ HandleFits /\ SandboxInv
        /\ CallFits(h) /\ RunFits(h) /\ Alone(h) /\ NoContainers /\ up
    BY <1>1, RunUnderway
  <1>3. sandbox = "starting" /\ ~reap
    BY <1>1, <1>2 DEF RunFits, SandboxInv, BeforeSandbox
  <1>4. vm' \in [alive : BOOLEAN, handle : Handles] /\ vm'.handle = "map"
    BY <1>2 DEF Track, Types, Handles
  <1>5. /\ req' \in [Handlers -> Request]
        /\ req'[h].pc = "add" /\ req'[h].op = "RunPodSandbox"
        /\ \A g \in Handlers : g # h => req'[g] = req[g]
    BY <1>1, <1>2, GotoFacts DEF Pcs
  <1>6. Types'
    BY <1>1, <1>2, <1>4, <1>5 DEF Types
  <1>7. CallFits(h)' /\ RunFits(h)'
    BY <1>1, <1>2, <1>3, <1>4, <1>5
       DEF CallFits, RunPcs, CreatePcs, StartPcs, StopPcs, StopOps, RunFits, Alone, NoContainers
  <1>8. ReadySandboxHasVm' /\ GoneLeavesNothing' /\ LiveVmHasHolder'
    BY <1>1, <1>3 DEF ReadySandboxHasVm, GoneLeavesNothing, LiveVmHasHolder, InStore
  <1> QED
    BY <1>1, <1>2, <1>3, <1>4, <1>5, <1>6, <1>7, <1>8, SoloStep DEF RunPcs

LEMMA AddSandboxInv ==
    ASSUME IndInv, NEW h \in Handlers, AddSandbox(h)
    PROVE  IndInv'
  <1>1. /\ req[h].op = "RunPodSandbox" /\ req[h].pc = "add" /\ Goto(h, "persist") /\ sandbox' = "ready"
        /\ UNCHANGED <<saved, ctr, vm, ip, rootfs, work, stops, sup, reap, up>>
    BY DEF AddSandbox, At, hostVars, taskVars
  <1>2. /\ Types /\ req \in [Handlers -> Request] /\ HandleFits /\ SandboxInv
        /\ CallFits(h) /\ RunFits(h) /\ Alone(h) /\ NoContainers /\ up
    BY <1>1, RunUnderway
  <1>3. vm'.handle = "map"
    BY <1>1, <1>2 DEF RunFits
  <1>4. /\ req' \in [Handlers -> Request]
        /\ req'[h].pc = "persist" /\ req'[h].op = "RunPodSandbox"
        /\ \A g \in Handlers : g # h => req'[g] = req[g]
    BY <1>1, <1>2, GotoFacts DEF Pcs
  <1>5. Types'
    BY <1>1, <1>2, <1>4 DEF Types, SandboxStates
  <1>6. CallFits(h)' /\ RunFits(h)'
    BY <1>1, <1>2, <1>4
       DEF CallFits, RunPcs, CreatePcs, StartPcs, StopPcs, StopOps, RunFits, Alone, NoContainers
  <1>7. ReadySandboxHasVm' /\ GoneLeavesNothing' /\ LiveVmHasHolder'
    BY <1>1, <1>3 DEF ReadySandboxHasVm, GoneLeavesNothing, LiveVmHasHolder, InStore
  <1> QED
    BY <1>1, <1>2, <1>3, <1>4, <1>5, <1>6, <1>7, SoloStep DEF RunPcs

\* RunPodSandbox ends: with its answer, or dropped while the record is saved.
LEMMA PersistInv ==
    ASSUME IndInv, NEW h \in Handlers, PersistSandbox(h) \/ CancelPersist(h)
    PROVE  IndInv'
  <1>1. /\ req[h].op = "RunPodSandbox" /\ req[h].pc = "persist" /\ Finish(h)
        /\ UNCHANGED <<sandbox, ctr, vm, rootfs, work, stops, sup, up>>
        /\ saved' \in {TRUE, saved} /\ (ip' = ip \/ Disconnected) /\ reap' \in {TRUE, reap}
    BY DEF PersistSandbox, CancelPersist, At, storeVars, hostVars, taskVars
  <1>2. /\ Types /\ req \in [Handlers -> Request] /\ HandleFits /\ SandboxInv
        /\ CallFits(h) /\ RunFits(h) /\ Alone(h) /\ NoContainers /\ up
    BY <1>1, RunUnderway
  <1>3. /\ req' \in [Handlers -> Request] /\ req'[h] = Idle /\ CallFits(h)'
        /\ \A g \in Handlers : g # h => req'[g] = req[g]
    BY <1>1, <1>2, FinishFacts
  <1>4. sandbox = "ready" /\ vm.handle \in {"map", "dropped", "halted", "guard"}
    BY <1>1, <1>2 DEF RunFits, Alone, SandboxInv, ReadySandboxHasVm
  <1>5. Types'
    BY <1>1, <1>2, <1>3, DisconnectFacts DEF Types
  <1>6. RunFits(h)'
    BY <1>3, IdleFacts DEF RunFits
  <1>7. ReadySandboxHasVm' /\ GoneLeavesNothing' /\ LiveVmHasHolder'
    BY <1>1, <1>2, <1>4 DEF SandboxInv, ReadySandboxHasVm, GoneLeavesNothing, LiveVmHasHolder, InStore
  <1> QED
    BY <1>1, <1>2, <1>3, <1>4, <1>5, <1>6, <1>7, IdleFacts, SoloStep

\* RunPodSandbox is dropped before its sandbox is stored.
LEMMA AbandonInv ==
    ASSUME IndInv, NEW h \in Handlers, Abandon(h) \/ CancelBoot(h)
    PROVE  IndInv'
  <1>1. /\ req[h].op = "RunPodSandbox" /\ req[h].pc \in {"boot", "track", "add"} /\ Finish(h)
        /\ sandbox' = "abandoned"
        /\ UNCHANGED <<saved, ctr, rootfs, work, stops, sup, up>>
        /\ (ip' = ip \/ Disconnected) /\ reap' \in {TRUE, reap}
        /\ \/ vm' = [alive |-> TRUE, handle |-> "dropped"]
           \/ req[h].pc # "track" /\ vm' = vm
    BY DEF Abandon, CancelBoot, At, storeVars, hostVars, taskVars
  <1>2. /\ Types /\ req \in [Handlers -> Request] /\ HandleFits /\ SandboxInv
        /\ CallFits(h) /\ RunFits(h) /\ Alone(h) /\ NoContainers /\ up
    BY <1>1, RunUnderway
  <1>3. /\ req' \in [Handlers -> Request] /\ req'[h] = Idle /\ CallFits(h)'
        /\ \A g \in Handlers : g # h => req'[g] = req[g]
    BY <1>1, <1>2, FinishFacts
  <1>4. vm' \in [alive : BOOLEAN, handle : Handles] /\ vm'.handle # "handler"
    <2>1. CASE vm' = [alive |-> TRUE, handle |-> "dropped"]
      BY <2>1 DEF Handles
    <2>2. CASE req[h].pc # "track" /\ vm' = vm
      BY <1>1, <1>2, <2>2 DEF RunFits, Types
    <2> QED
      BY <1>1, <2>1, <2>2
  <1>5. Types'
    BY <1>1, <1>2, <1>3, <1>4, DisconnectFacts DEF Types, SandboxStates
  <1>6. RunFits(h)'
    BY <1>3, IdleFacts DEF RunFits
  <1>7. ReadySandboxHasVm' /\ GoneLeavesNothing' /\ LiveVmHasHolder'
    BY <1>1 DEF ReadySandboxHasVm, GoneLeavesNothing, LiveVmHasHolder, InStore
  <1> QED
    BY <1>1, <1>2, <1>3, <1>4, <1>5, <1>6, <1>7, IdleFacts, SoloStep

-----------------------------------------------------------------------------
(* The VM is taken, destroyed and given up                                 *)

\* A step of a handler, once RunPodSandbox is over, that may disturb the VM or
\* the sandbox: what is left to show of SandboxInv.
LEMMA SandboxParts ==
    ASSUME SandboxInv, RunIsOver, up, NEW h \in Handlers, UNCHANGED <<reap, up>>,
           sandbox' # "none", sandbox' = "starting" => sandbox = "starting",
           \A g \in Handlers : g # h => req'[g] = req[g],
           req'[h].pc \notin RunPcs, CallFits(h)',
           \A g \in Handlers : RemovalFits(g)',
           OneOwner', ReadySandboxHasVm', GoneLeavesNothing', LiveVmHasHolder'
    PROVE  SandboxInv'
  <1>1. \A g \in Handlers : CallFits(g)'
    BY DEF SandboxInv, CallFits
  <1>2. \A g \in Handlers : RunFits(g)'
    BY <1>1 DEF RunIsOver, RunFits, CallFits
  <1>3. BeforeSandbox' /\ DownIsQuiet'
    BY DEF SandboxInv, BeforeSandbox, DownIsQuiet
  <1> QED
    BY <1>1, <1>2, <1>3 DEF SandboxInv

\* Its containers are left alone.
LEMMA ContainersQuiet ==
    ASSUME SandboxInv, ContainerInv, NEW h \in Handlers,
           UNCHANGED <<ctr, rootfs, sup, up>>, work' \subseteq work,
           sandbox' = "ready" => sandbox = "ready",
           \A g \in Handlers : g # h => req'[g] = req[g],
           req[h].pc \notin SpawnPcs, req'[h].op # "CreateContainer", req'[h].pc \notin SpawnPcs,
           req'[h].c \in {req[h].c, NoContainer}
    PROVE  ContainerInv'
  <1>1. ContainersEnd
    BY DEF ContainersEnd
  <1>2. \A g \in Handlers : GoesOn(g)
    BY CriAssumption DEF GoesOn, Starting, SpawnPcs
  <1>3. \A c \in rootfs \ rootfs' : ctr'[c] \in {"exited", "removed"}
    OBVIOUS
  <1> QED
    BY <1>1, <1>2, <1>3, ContainersKept

LEMMA TakeVmInv ==
    ASSUME IndInv, NEW h \in Handlers, TakeVm(h)
    PROVE  IndInv'
  <1>1. /\ req[h].pc = "take" /\ SandboxInv /\ ContainerInv /\ HandleFits
        /\ req[h].op \in {"StopPodSandbox", "RemovePodSandbox", "StopContainer", "RemoveContainer"}
        /\ UNCHANGED <<sandbox, saved, ctr, ip, rootfs, work, stops, sup, reap, up>>
    BY TypeParts DEF TakeVm, IndInv, SandboxInv, CallFits, StopOps, storeVars, taskVars
  <1>2. /\ Types /\ req \in [Handlers -> Request] /\ CallFits(h) /\ RemovalFits(h)
        /\ RunIsOver /\ up
    BY <1>1, Underway
  <1>3. PICK pc \in {"destroy", "disconnect", "notready"} :
           /\ Goto(h, pc)
           /\ \/ pc = "destroy" /\ vm.handle = "map" /\ vm' = [vm EXCEPT !.handle = "handler"]
              \/ /\ pc # "destroy" /\ vm.handle # "map" /\ vm' = vm
                 /\ pc = "notready" <=> req[h].op \in StopOps
    BY <1>1 DEF TakeVm, AfterDestroy, StopOps
  <1>4. /\ req' \in [Handlers -> Request]
        /\ req'[h].pc = pc /\ req'[h].op = req[h].op /\ req'[h].c = req[h].c
        /\ \A g \in Handlers : g # h => req'[g] = req[g]
    BY <1>2, <1>3, GotoFacts DEF Pcs
  <1>5. vm' \in [alive : BOOLEAN, handle : Handles]
    BY <1>2, <1>3 DEF Types, Handles
  <1>6. Types'
    BY <1>1, <1>2, <1>4, <1>5 DEF Types
  <1>7. CallFits(h)'
    BY <1>1, <1>2, <1>3, <1>4 DEF CallFits, RunPcs, CreatePcs, StartPcs, StopPcs, StopOps
  <1>8. ContainerInv'
    BY <1>1, <1>2, <1>3, <1>4, ContainersQuiet DEF SpawnPcs
  <1>9. CASE pc = "destroy"
    <2>1. /\ vm.handle = "map" /\ vm'.handle = "handler" /\ vm'.alive = vm.alive
          /\ \A g \in Handlers : req[g].pc \notin OwnerPcs
      BY <1>1, <1>2, <1>3, <1>9 DEF HandleFits, Types
    <2>2. HandleFits' /\ OneOwner'
      BY <1>4, <1>9, <2>1 DEF HandleFits, OneOwner, OwnerPcs
    <2>3. \A g \in Handlers : RemovalFits(g)'
      BY <1>1, <1>4, <1>9, <2>1 DEF SandboxInv, RemovalFits, NoLooseVm
    <2>4. ReadySandboxHasVm' /\ GoneLeavesNothing' /\ LiveVmHasHolder'
      BY <1>1, <1>4, <1>9, <2>1 DEF SandboxInv, ReadySandboxHasVm, GoneLeavesNothing, NoLooseVm, LiveVmHasHolder
    <2>5. SandboxInv'
      BY <1>1, <1>2, <1>4, <1>7, <1>9, <2>2, <2>3, <2>4, SandboxParts DEF RunIsOver, RunPcs
    <2> QED
      BY <1>6, <1>8, <2>2, <2>5, TypesKept DEF IndInv
  <1>10. CASE pc # "destroy"
    <2>1. /\ vm.handle # "map" /\ vm' = vm
          /\ req[h].op = "RemovePodSandbox" => sandbox \in {"notready", "removed"} /\ NoLooseVm
      BY <1>1, <1>2, <1>3, <1>10
         DEF RemovalFits, NoLooseVm, SandboxInv, GoneLeavesNothing, LiveVmHasHolder, InStore, Types, Handles
    <2>2. RemovalFits(h)'
      BY <1>1, <1>3, <1>4, <1>10, <2>1 DEF RemovalFits, NoLooseVm
    <2>3. HandleFits' /\ SandboxInv'
      BY <1>1, <1>2, <1>3, <1>4, <1>7, <1>10, <2>1, <2>2, SandboxKept DEF RunPcs
    <2> QED
      BY <1>6, <1>8, <2>3, TypesKept DEF IndInv
  <1> QED
    BY <1>9, <1>10

\* The handler that has the VmManager destroys the VM, or drops the VmManager:
\* the destruction reports an error, or the call is dropped.
LEMMA OwnerActs ==
    ASSUME IndInv, Types', NEW h \in Handlers, req[h].pc = "destroy",
           UNCHANGED <<sandbox, ctr, ip, rootfs, sup, reap, up>>, work' \subseteq work,
           vm'.handle = "dropped" \/ (vm'.handle = "none" /\ ~vm'.alive),
           \A g \in Handlers : g # h => req'[g] = req[g],
           req'[h].c \in {req[h].c, NoContainer}, CallFits(h)',
           req'[h].pc \in {"idle", "disconnect", "notready"},
           vm'.handle = "none" => req'[h].pc # "idle",
           req'[h].op = "RemovePodSandbox" => req[h].op = "RemovePodSandbox"
    PROVE  IndInv'
  <1>1. SandboxInv /\ ContainerInv /\ HandleFits /\ Types
    BY TypeParts DEF IndInv
  <1>2. /\ req[h].op # "RunPodSandbox"
        /\ \A g \in Handlers \ {h} : req[g].pc \notin OwnerPcs
    BY <1>1 DEF SandboxInv, CallFits, RunPcs, OneOwner, OwnerPcs
  <1>3. RunIsOver /\ up /\ RemovalFits(h)
    BY <1>2, Underway
  <1>4. HandleFits' /\ OneOwner'
    BY <1>2 DEF HandleFits, OneOwner, OwnerPcs
  <1>5. NoLooseVm'
    BY DEF NoLooseVm
  <1>6. \A g \in Handlers : RemovalFits(g)'
    BY <1>1, <1>3, <1>5 DEF SandboxInv, RemovalFits
  <1>7. ReadySandboxHasVm'
    BY <1>3 DEF ReadySandboxHasVm, RemovalFits
  <1>8. GoneLeavesNothing' /\ LiveVmHasHolder'
    BY <1>1, <1>5 DEF SandboxInv, GoneLeavesNothing, LiveVmHasHolder
  <1>9. SandboxInv'
    BY <1>1, <1>3, <1>4, <1>6, <1>7, <1>8, SandboxParts DEF RunIsOver, RunPcs
  <1>10. req'[h].op # "CreateContainer" /\ req'[h].pc \notin SpawnPcs
    BY DEF CallFits, CreatePcs, SpawnPcs
  <1>11. ContainerInv'
    BY <1>1, <1>10, ContainersQuiet DEF SpawnPcs
  <1> QED
    BY <1>4, <1>9, <1>11, TypesKept DEF IndInv

LEMMA DestroyVmInv ==
    ASSUME IndInv, NEW h \in Handlers, DestroyVm(h)
    PROVE  IndInv'
  <1>1. /\ req[h].pc = "destroy" /\ SandboxInv
        /\ req[h].op \in {"StopPodSandbox", "RemovePodSandbox", "StopContainer", "RemoveContainer"}
        /\ UNCHANGED <<sandbox, saved, ctr, ip, rootfs, stops, sup, reap, up>>
    BY DEF DestroyVm, IndInv, SandboxInv, CallFits, StopOps, storeVars, taskVars
  <1>2. /\ Types /\ req \in [Handlers -> Request] /\ CallFits(h)
    BY <1>1, Underway
  <1>3. /\ work' \in SUBSET Containers /\ work' \subseteq work
        /\ vm' \in [alive : BOOLEAN, handle : Handles]
        /\ vm'.handle = "dropped" \/ (vm'.handle = "none" /\ ~vm'.alive)
    <2>1. CASE Destroyed("none")
      BY <2>1 DEF Destroyed, Handles
    <2>2. CASE Destroyed("dropped")
      BY <2>2 DEF Destroyed, Handles
    <2>3. CASE vm' = [vm EXCEPT !.handle = "dropped"] /\ UNCHANGED work
      BY <1>2, <2>3 DEF Types, Handles
    <2> QED
      BY <2>1, <2>2, <2>3 DEF DestroyVm
  <1>4. CASE Goto(h, AfterDestroy(req[h].op))
    <2> DEFINE pc == AfterDestroy(req[h].op)
    <2>1. /\ pc \in Pcs
          /\ \/ pc = "disconnect" /\ req[h].op \notin StopOps
             \/ pc = "notready" /\ req[h].op \in StopOps
      BY <1>1 DEF AfterDestroy, Pcs, StopOps
    <2> HIDE DEF pc
    <2>2. /\ req' \in [Handlers -> Request]
          /\ req'[h].pc = pc /\ req'[h].op = req[h].op /\ req'[h].c = req[h].c
          /\ \A g \in Handlers : g # h => req'[g] = req[g]
      BY <1>2, <1>4, <2>1, GotoFacts DEF pc
    <2>3. CallFits(h)'
      BY <1>1, <1>2, <2>1, <2>2 DEF CallFits, RunPcs, CreatePcs, StartPcs, StopPcs, StopOps
    <2>4. Types'
      BY <1>1, <1>2, <1>3, <2>2 DEF Types
    <2> QED
      BY <1>1, <1>3, <2>1, <2>2, <2>3, <2>4, OwnerActs
  <1>5. CASE Finish(h) /\ vm'.handle = "dropped"
    <2>1. /\ req' \in [Handlers -> Request] /\ req'[h] = Idle /\ CallFits(h)'
          /\ \A g \in Handlers : g # h => req'[g] = req[g]
      BY <1>2, <1>5, FinishFacts
    <2>2. Types'
      BY <1>1, <1>2, <1>3, <2>1 DEF Types
    <2> QED
      BY <1>1, <1>3, <1>5, <2>1, <2>2, IdleFacts, OwnerActs
  <1>6. Goto(h, AfterDestroy(req[h].op)) \/ (Finish(h) /\ vm'.handle = "dropped")
    BY <1>2 DEF DestroyVm, Destroyed, Types
  <1> QED
    BY <1>4, <1>5, <1>6

\* StopPodSandbox and RemovePodSandbox give the address back.
LEMMA DisconnectNetworkInv ==
    ASSUME IndInv, NEW h \in Handlers, DisconnectNetwork(h)
    PROVE  IndInv'
  <1>1. /\ req[h].pc = "disconnect" /\ SandboxInv /\ ContainerInv /\ HandleFits
        /\ req[h].op \in {"StopPodSandbox", "RemovePodSandbox"}
        /\ UNCHANGED <<sandbox, saved, ctr, vm, rootfs, work, stops, sup, reap, up>>
    BY TypeParts DEF DisconnectNetwork, IndInv, SandboxInv, CallFits, storeVars, taskVars
  <1>2. /\ Types /\ req \in [Handlers -> Request] /\ CallFits(h) /\ RemovalFits(h) /\ RunIsOver /\ up
    BY <1>1, Underway
  <1>3. ip' \in Addresses /\ ip' # "held"
    BY DisconnectFacts DEF DisconnectNetwork
  <1>4. PICK pc \in {"notready", "clean"} :
           Goto(h, pc) /\ (pc = "notready" <=> req[h].op = "StopPodSandbox")
    BY DEF DisconnectNetwork
  <1>5. /\ req' \in [Handlers -> Request]
        /\ req'[h].pc = pc /\ req'[h].op = req[h].op /\ req'[h].c = req[h].c
        /\ \A g \in Handlers : g # h => req'[g] = req[g]
    BY <1>2, <1>4, GotoFacts DEF Pcs
  <1>6. CallFits(h)'
    BY <1>1, <1>2, <1>4, <1>5 DEF CallFits, RunPcs, CreatePcs, StartPcs, StopPcs, StopOps
  <1>7. Types'
    BY <1>1, <1>2, <1>3, <1>5 DEF Types
  <1>8. HandleFits' /\ OneOwner'
    BY <1>1, <1>5 DEF SandboxInv, HandleFits, OneOwner, OwnerPcs
  <1>9. \A g \in Handlers : RemovalFits(g)'
    BY <1>1, <1>2, <1>3, <1>5 DEF SandboxInv, RemovalFits, NoLooseVm
  <1>10. ReadySandboxHasVm'
    BY <1>1, <1>2, <1>4, <1>5 DEF SandboxInv, ReadySandboxHasVm, RemovalFits
  <1>11. GoneLeavesNothing' /\ LiveVmHasHolder'
    BY <1>1, <1>3 DEF SandboxInv, GoneLeavesNothing, NoLooseVm, LiveVmHasHolder, InStore
  <1>12. SandboxInv'
    BY <1>1, <1>2, <1>4, <1>5, <1>6, <1>8, <1>9, <1>10, <1>11, SandboxParts DEF RunIsOver, RunPcs
  <1>13. ContainerInv'
    BY <1>1, <1>4, <1>5, ContainersQuiet DEF SpawnPcs
  <1> QED
    BY <1>7, <1>8, <1>12, <1>13, TypesKept DEF IndInv

\* The sandbox is marked, whoever destroyed its VM.
LEMMA MarkNotReadyInv ==
    ASSUME IndInv, NEW h \in Handlers, MarkNotReady(h)
    PROVE  IndInv'
  <1>1. /\ req[h].pc = "notready" /\ SandboxInv /\ ContainerInv /\ HandleFits
        /\ req[h].op \in {"StopPodSandbox", "StopContainer", "RemoveContainer"}
        /\ UNCHANGED <<ctr, vm, ip, rootfs, work, stops, sup, reap, up>>
    BY TypeParts DEF MarkNotReady, IndInv, SandboxInv, CallFits, StopOps, hostVars, taskVars
  <1>2. /\ Types /\ req \in [Handlers -> Request] /\ CallFits(h) /\ RunIsOver /\ up
    BY <1>1, Underway
  <1>3. /\ saved' \in BOOLEAN
        /\ sandbox' = IF InStore THEN "notready" ELSE sandbox
    BY <1>2 DEF MarkNotReady, SetNotReady, Types
  <1>4. /\ req' \in [Handlers -> Request] /\ CallFits(h)'
        /\ req'[h].pc \in {"idle", "giveback"} /\ req'[h].op \in {"none", req[h].op}
        /\ req'[h].c \in {req[h].c, NoContainer}
        /\ \A g \in Handlers : g # h => req'[g] = req[g]
    <2>1. CASE Finish(h)
      BY <1>2, <2>1, FinishFacts, IdleFacts
    <2>2. CASE req[h].op # "StopPodSandbox" /\ Goto(h, "giveback")
      <3>1. /\ req' \in [Handlers -> Request]
            /\ req'[h].pc = "giveback" /\ req'[h].op = req[h].op /\ req'[h].c = req[h].c
            /\ \A g \in Handlers : g # h => req'[g] = req[g]
        BY <1>2, <2>2, GotoFacts DEF Pcs
      <3>2. CallFits(h)'
        BY <1>1, <1>2, <2>2, <3>1 DEF CallFits, RunPcs, CreatePcs, StartPcs, StopPcs, StopOps
      <3> QED
        BY <3>1, <3>2
    <2> QED
      BY <2>1, <2>2 DEF MarkNotReady
  <1>5. sandbox' \in SandboxStates
    BY <1>2, <1>3 DEF Types, SandboxStates
  <1>6. Types'
    BY <1>1, <1>2, <1>3, <1>4, <1>5 DEF Types
  <1>7. HandleFits' /\ OneOwner'
    BY <1>1, <1>4 DEF SandboxInv, HandleFits, OneOwner, OwnerPcs
  <1>8. \A g \in Handlers : RemovalFits(g)'
    BY <1>1, <1>3, <1>4 DEF SandboxInv, RemovalFits, NoLooseVm
  <1>9. sandbox' # "ready"
    BY <1>3 DEF InStore
  <1>10. ReadySandboxHasVm' /\ GoneLeavesNothing' /\ LiveVmHasHolder'
    BY <1>1, <1>3, <1>9 DEF SandboxInv, ReadySandboxHasVm, GoneLeavesNothing, NoLooseVm,
                            LiveVmHasHolder, InStore
  <1>11. sandbox' # "none" /\ (sandbox' = "starting" => sandbox = "starting")
    BY <1>2, <1>3 DEF RunIsOver
  <1>12. SandboxInv'
    BY <1>1, <1>2, <1>4, <1>7, <1>8, <1>10, <1>11, SandboxParts DEF RunPcs
  <1>13. ContainerInv'
    BY <1>1, <1>4, <1>9, ContainersQuiet DEF SpawnPcs
  <1> QED
    BY <1>6, <1>7, <1>12, <1>13, TypesKept DEF IndInv

\* stop_container_vm gives the address back after it marked the sandbox.
LEMMA GiveBackInv ==
    ASSUME IndInv, NEW h \in Handlers, GiveBack(h)
    PROVE  IndInv'
  <1>1. /\ req[h].pc = "giveback" /\ req[h].op \in StopOps /\ Goto(h, "markkilled")
        /\ UNCHANGED <<sandbox, saved, ctr, vm, rootfs, work, stops, sup, reap, up>>
    BY DEF GiveBack, IndInv, SandboxInv, CallFits, StopPcs, storeVars, taskVars
  <1>2. /\ Types /\ req \in [Handlers -> Request] /\ CallFits(h) /\ RunIsOver /\ up
    BY <1>1, Underway DEF StopOps
  <1>3. ip' \in Addresses /\ (ip' = ip \/ ip' # "held")
    BY <1>2, DisconnectFacts DEF GiveBack, Types
  <1>4. /\ req' \in [Handlers -> Request]
        /\ req'[h].pc = "markkilled" /\ req'[h].op = req[h].op /\ req'[h].c = req[h].c
        /\ \A g \in Handlers : g # h => req'[g] = req[g]
    BY <1>1, <1>2, GotoFacts DEF Pcs
  <1>5. CallFits(h)' /\ RemovalFits(h)'
    BY <1>1, <1>2, <1>4 DEF CallFits, RunPcs, CreatePcs, StartPcs, StopPcs, StopOps, RemovalFits
  <1>6. Types'
    BY <1>1, <1>2, <1>3, <1>4 DEF Types
  <1>7. Calm(h)
    BY <1>1, <1>3, <1>4, <1>5 DEF Calm, ContainersEnd, RunPcs, CreatePcs, SpawnPcs
  <1> QED
    BY <1>1, <1>2, <1>6, <1>7, CalmStep DEF Starting

LEMMA RemoveContainersInv ==
    ASSUME IndInv, NEW h \in Handlers, RemoveContainers(h)
    PROVE  IndInv'
  <1> DEFINE gone == {c \in Containers : Stored(ctr[c])}
             new == [c \in Containers |-> IF c \in gone THEN "removed" ELSE ctr[c]]
             next == [req[h] EXCEPT !.pc = "unregister", !.seen = gone, !.todo = gone]
  <1>1. /\ req[h].pc = "clean" /\ req[h].op = "RemovePodSandbox"
        /\ StoreContainers(new) /\ Set(h, next)
        /\ UNCHANGED <<sandbox, vm, ip, rootfs, work, stops, sup, reap, up>>
    BY DEF RemoveContainers, At, hostVars, taskVars
  <1>2. /\ Types /\ req \in [Handlers -> Request] /\ CallFits(h) /\ RemovalFits(h) /\ RunIsOver /\ up
    BY <1>1, Underway
  <1>3. ctr' \in [Containers -> ContainerStates] /\ saved' \in BOOLEAN /\ ContainersEnd
    <2>1. new \in [Containers -> ContainerStates]
      BY <1>2 DEF Types, ContainerStates
    <2>2. ctr' \in [Containers -> ContainerStates] /\ saved' \in BOOLEAN /\ ctr' = new
      BY <1>1, <1>2, <2>1, StoreFacts
    <2> QED
      BY <2>2 DEF ContainersEnd
  <1>4. next \in Request /\ next.pc = "unregister" /\ next.op = req[h].op /\ next.c = req[h].c
    <2>1. gone \in SUBSET Containers /\ req[h] \in Request
      BY <1>2
    <2> HIDE DEF gone
    <2> QED
      BY <2>1 DEF Request, Pcs
  <1>5. /\ req' \in [Handlers -> Request] /\ req'[h] = next
        /\ \A g \in Handlers : g # h => req'[g] = req[g]
    <2> HIDE DEF next
    <2> QED
      BY <1>1, <1>2, <1>4, SetFacts
  <1> HIDE DEF next, new
  <1>6. CallFits(h)' /\ RemovalFits(h)'
    BY <1>1, <1>2, <1>4, <1>5
       DEF CallFits, RunPcs, CreatePcs, StartPcs, StopPcs, StopOps, RemovalFits, NoLooseVm
  <1>7. Types'
    BY <1>1, <1>2, <1>3, <1>5 DEF Types
  <1>8. Calm(h)
    BY <1>1, <1>3, <1>4, <1>5, <1>6 DEF Calm, RunPcs, CreatePcs, SpawnPcs
  <1> QED
    BY <1>1, <1>2, <1>3, <1>7, <1>8, CalmStep DEF Starting

\* The rest of RemovePodSandbox, up to the record: a sandbox that is not ready
\* may lose the files of its containers.
LEMMA WipeStep ==
    ASSUME IndInv, NEW h \in Handlers, req[h].op = "RemovePodSandbox",
           req[h].pc \in {"unregister", "wipe"},
           req' \in [Handlers -> Request],
           req'[h].pc \in {"wipe", "forget"}, req'[h].op = req[h].op, req'[h].c = req[h].c,
           \A g \in Handlers : g # h => req'[g] = req[g],
           rootfs' \in SUBSET Containers, stops' \in SUBSET Containers,
           UNCHANGED <<sandbox, saved, ctr, vm, ip, work, sup, reap, up>>
    PROVE  IndInv'
  <1>1. /\ Types /\ CallFits(h) /\ RemovalFits(h) /\ RunIsOver /\ up
    BY Underway
  <1>2. CallFits(h)' /\ RemovalFits(h)'
    BY <1>1 DEF CallFits, RunPcs, CreatePcs, StartPcs, StopPcs, StopOps, RemovalFits, NoLooseVm
  <1>3. Types'
    BY <1>1 DEF Types
  <1>4. Calm(h)
    BY <1>2 DEF Calm, ContainersEnd, RunPcs, CreatePcs, SpawnPcs
  <1>5. sandbox # "ready"
    BY <1>1 DEF RemovalFits
  <1> QED
    BY <1>1, <1>3, <1>4, <1>5, CalmStep DEF Starting

LEMMA UnregisterRemovedInv ==
    ASSUME IndInv, NEW h \in Handlers, UnregisterRemoved(h)
    PROVE  IndInv'
  <1> DEFINE new == [req[h] EXCEPT !.pc = "wipe", !.seen = {}]
  <1>1. /\ req[h].pc = "unregister" /\ req[h].op = "RemovePodSandbox" /\ Set(h, new)
        /\ UNCHANGED <<sandbox, saved, ctr, vm, ip, rootfs, work, sup, reap, up>>
    BY DEF UnregisterRemoved, At, storeVars, hostVars
  <1>2. Types /\ req \in [Handlers -> Request]
    BY <1>1, Underway
  <1>3. new \in Request /\ new.pc = "wipe" /\ new.op = req[h].op /\ new.c = req[h].c
    <2>1. req[h] \in Request
      BY <1>2
    <2> QED
      BY <2>1 DEF Request, Pcs
  <1>4. /\ req' \in [Handlers -> Request] /\ req'[h] = new
        /\ \A g \in Handlers : g # h => req'[g] = req[g]
    <2> HIDE DEF new
    <2> QED
      BY <1>1, <1>2, <1>3, SetFacts
  <1>5. rootfs' \in SUBSET Containers /\ stops' \in SUBSET Containers
    BY <1>1, <1>2 DEF Types, UnregisterRemoved
  <1> QED
    BY <1>1, <1>3, <1>4, <1>5, WipeStep

LEMMA WipeInv ==
    ASSUME IndInv, NEW h \in Handlers, WipeSandbox(h) \/ \E c \in Containers : WipeEach(h, c)
    PROVE  IndInv'
  <1>1. /\ req[h].pc = "wipe" /\ req[h].op = "RemovePodSandbox"
        /\ UNCHANGED <<sandbox, saved, ctr, vm, ip, work, stops, sup, reap, up>>
    BY DEF WipeSandbox, WipeEach, At, storeVars, taskVars
  <1>2. Types /\ req \in [Handlers -> Request]
    BY <1>1, Underway
  <1>3. /\ req' \in [Handlers -> Request]
        /\ req'[h].pc \in {"wipe", "forget"} /\ req'[h].op = req[h].op /\ req'[h].c = req[h].c
        /\ \A g \in Handlers : g # h => req'[g] = req[g]
    <2>1. CASE Goto(h, "forget")
      BY <1>2, <2>1, GotoFacts DEF Pcs
    <2>2. ASSUME NEW c \in Containers, Set(h, [req[h] EXCEPT !.todo = @ \ {c}])
          PROVE  <1>3!:
      BY <1>1, <1>2, <2>2, VisitFacts
    <2> QED
      BY <2>1, <2>2 DEF WipeSandbox, WipeEach
  <1>4. rootfs' \in SUBSET Containers /\ stops' \in SUBSET Containers
    BY <1>1, <1>2 DEF Types, WipeSandbox, WipeEach
  <1> QED
    BY <1>1, <1>3, <1>4, WipeStep

LEMMA RemoveSandboxInv ==
    ASSUME IndInv, NEW h \in Handlers, RemoveSandbox(h)
    PROVE  IndInv'
  <1>1. /\ req[h].pc = "forget" /\ req[h].op = "RemovePodSandbox"
        /\ SandboxInv /\ ContainerInv /\ HandleFits /\ Finish(h)
        /\ sandbox' = (IF InStore THEN "removed" ELSE sandbox) /\ saved' = FALSE
        /\ UNCHANGED <<ctr, vm, ip, rootfs, work, stops, sup, reap, up>>
    BY TypeParts DEF RemoveSandbox, At, IndInv, hostVars, taskVars
  <1>2. /\ Types /\ req \in [Handlers -> Request] /\ RemovalFits(h) /\ RunIsOver /\ up
    BY <1>1, Underway
  <1>3. /\ req' \in [Handlers -> Request] /\ req'[h] = Idle /\ CallFits(h)'
        /\ \A g \in Handlers : g # h => req'[g] = req[g]
    BY <1>1, <1>2, FinishFacts
  <1>4. sandbox' = "removed" /\ NoLooseVm /\ ip # "held"
    BY <1>1, <1>2 DEF RemovalFits, InStore
  <1>5. Types'
    BY <1>1, <1>2, <1>3, <1>4 DEF Types, SandboxStates
  <1>6. \A g \in Handlers : RemovalFits(g)'
    BY <1>1, <1>3, <1>4, IdleFacts DEF SandboxInv, RemovalFits, NoLooseVm
  <1>7. HandleFits' /\ OneOwner'
    BY <1>1, <1>3, IdleFacts DEF SandboxInv, HandleFits, OneOwner, OwnerPcs
  <1>8. ReadySandboxHasVm' /\ GoneLeavesNothing' /\ LiveVmHasHolder'
    BY <1>1, <1>4 DEF ReadySandboxHasVm, GoneLeavesNothing, NoLooseVm, LiveVmHasHolder, InStore
  <1>9. SandboxInv'
    BY <1>1, <1>2, <1>3, <1>4, <1>6, <1>7, <1>8, IdleFacts, SandboxParts DEF RunPcs
  <1>10. ContainerInv'
    BY <1>1, <1>3, <1>4, IdleFacts, ContainersQuiet DEF SpawnPcs
  <1> QED
    BY <1>5, <1>7, <1>9, <1>10, TypesKept DEF IndInv

\* Any call but RunPodSandbox is dropped where it is.
LEMMA CancelCallInv ==
    ASSUME IndInv, NEW h \in Handlers, CancelCall(h)
    PROVE  IndInv'
  <1>1. /\ req[h].pc # "idle" /\ req[h].op # "RunPodSandbox"
        /\ SandboxInv /\ ContainerInv /\ HandleFits /\ Finish(h)
        /\ UNCHANGED <<sandbox, saved, ctr, ip, rootfs, stops, reap, up>>
    BY TypeParts DEF CancelCall, IndInv, storeVars
  <1>2. /\ Types /\ req \in [Handlers -> Request] /\ CallFits(h) /\ RunIsOver /\ up
    BY <1>1, Underway
  <1>3. /\ req' \in [Handlers -> Request] /\ req'[h] = Idle /\ CallFits(h)'
        /\ \A g \in Handlers : g # h => req'[g] = req[g]
    BY <1>1, <1>2, FinishFacts
  <1>4. /\ vm' \in [alive : BOOLEAN, handle : Handles] /\ work' \subseteq work
        /\ vm'.alive => vm.alive
        /\ \/ req[h].pc = "destroy" /\ vm'.handle = "dropped"
           \/ /\ req[h].pc \in {"disconnect", "notready"}
              /\ \/ vm'.handle = vm.handle /\ (vm.handle = "none" => sandbox # "ready")
                 \/ vm'.handle = "halted" /\ vm.handle = "none"
           \/ req[h].pc \notin {"destroy", "disconnect", "notready"} /\ vm' = vm
    <2>1. vm \in [alive : BOOLEAN, handle : Handles]
      BY <1>2 DEF Types
    <2>2. CASE req[h].pc = "destroy" /\ Destroyed("dropped")
      BY <2>2 DEF Destroyed, Handles
    <2>3. CASE req[h].pc = "destroy" /\ vm' = [vm EXCEPT !.handle = "dropped"] /\ UNCHANGED work
      BY <2>1, <2>3 DEF Handles
    <2>4. CASE /\ req[h].pc \in {"disconnect", "notready"} /\ UNCHANGED work
               /\ vm' = [vm EXCEPT !.handle = IF @ = "none" /\ sandbox = "ready" THEN "halted" ELSE @]
      BY <2>1, <2>4 DEF Handles
    <2>5. CASE req[h].pc \notin {"destroy", "disconnect", "notready"} /\ UNCHANGED <<vm, work>>
      BY <2>1, <2>5
    <2> QED
      BY <2>2, <2>3, <2>4, <2>5 DEF CancelCall
  <1>5. /\ sup' \in [Containers -> {"none", "queued", "watch", "signalled", "done", "dropped"}]
        /\ \A c \in Containers : IF Starting(h, c) THEN sup'[c] = "dropped" ELSE sup'[c] = sup[c]
    BY <1>2 DEF CancelCall, Types, Starting
  <1>6. Types'
    BY <1>1, <1>2, <1>3, <1>4, <1>5 DEF Types
  <1>7. HandleFits'
    <2>1. CASE req[h].pc = "destroy"
      BY <1>1, <1>3, <1>4, <2>1, IdleFacts DEF SandboxInv, OneOwner, HandleFits, OwnerPcs
    <2>2. CASE req[h].pc # "destroy"
      <3>1. req[h].pc \notin OwnerPcs
        BY <1>1, <1>2, <2>2 DEF CallFits, OwnerPcs, RunPcs
      <3>2. vm'.handle = "handler" <=> vm.handle = "handler"
        BY <1>4, <2>2
      <3> QED
        BY <1>1, <1>3, <3>1, <3>2, IdleFacts DEF HandleFits, OwnerPcs
    <2> QED
      BY <2>1, <2>2
  <1>8. OneOwner'
    BY <1>1, <1>3, IdleFacts DEF SandboxInv, OneOwner, OwnerPcs
  <1>9. NoLooseVm => NoLooseVm'
    BY <1>4 DEF NoLooseVm
  <1>10. \A g \in Handlers : RemovalFits(g)'
    BY <1>1, <1>3, <1>9, IdleFacts DEF SandboxInv, RemovalFits
  <1>11. ReadySandboxHasVm'
    <2> SUFFICES ASSUME sandbox = "ready", vm'.handle \notin {"map", "dropped", "halted", "guard"}
                 PROVE  \E g \in Handlers : req'[g].pc \in {"destroy", "disconnect", "notready"}
      BY <1>1 DEF ReadySandboxHasVm
    <2>1. CASE vm'.handle = "handler"
      <3>1. PICK g \in Handlers : req'[g].pc \in OwnerPcs
        BY <1>7, <2>1 DEF HandleFits
      <3>2. g # h /\ req[g].pc \in OwnerPcs
        BY <1>3, <3>1, IdleFacts DEF OwnerPcs
      <3>3. CallFits(g) /\ req[g].op # "RunPodSandbox"
        BY <1>1, <1>2 DEF SandboxInv, RunIsOver
      <3>4. req[g].pc = "destroy"
        BY <3>2, <3>3 DEF OwnerPcs, CallFits, RunPcs
      <3> QED
        BY <1>3, <3>2, <3>4
    <2>2. CASE vm'.handle = "none"
      <3>1. vm.handle = "none" /\ req[h].pc \notin {"destroy", "disconnect", "notready"}
        BY <1>4, <2>2
      <3>2. PICK g \in Handlers : req[g].pc \in {"destroy", "disconnect", "notready"}
        BY <1>1, <1>2, <3>1 DEF SandboxInv, ReadySandboxHasVm
      <3> QED
        BY <1>3, <1>4, <3>1, <3>2
    <2> QED
      BY <1>4, <2>1, <2>2 DEF Handles
  <1>12. GoneLeavesNothing' /\ LiveVmHasHolder'
    BY <1>1, <1>4, <1>9 DEF SandboxInv, GoneLeavesNothing, LiveVmHasHolder, InStore
  <1>13. SandboxInv'
    BY <1>1, <1>2, <1>3, <1>8, <1>10, <1>11, <1>12, IdleFacts, SandboxParts DEF RunIsOver, RunPcs
  <1>14. \A g \in Handlers : GoesOn(g)
    BY <1>3, <1>5, IdleFacts DEF GoesOn, SpawnPcs, Backing
  <1>15. ContainersEnd /\ \A c \in rootfs \ rootfs' : ctr'[c] \in {"exited", "removed"}
    BY <1>1 DEF ContainersEnd
  <1>16. \A c \in Containers : sup[c] \in Backing => sup'[c] \in Backing
    BY <1>5 DEF Backing
  <1>17. ContainerInv'
    BY <1>1, <1>4, <1>14, <1>15, <1>16, ContainersKept
  <1> QED
    BY <1>6, <1>7, <1>13, <1>17, TypesKept DEF IndInv

-----------------------------------------------------------------------------
(* What happens beside the calls                                           *)

\* The containers, when no call moves.
LEMMA ContainersApart ==
    ASSUME SandboxInv, ContainerInv, UNCHANGED <<sandbox, rootfs, req, up>>,
           ContainersEnd, work' \subseteq work,
           \A c \in Containers :
               sup[c] \in Backing => sup'[c] \in Backing \/ ctr'[c] # "running"
    PROVE  ContainerInv'
  <1>1. \A g \in Handlers : GoesOn(g)
    BY DEF GoesOn
  <1>2. \A c \in rootfs \ rootfs' : ctr'[c] \in {"exited", "removed"}
    OBVIOUS
  <1> QED
    BY <1>1, <1>2, ContainersKept

LEMMA SupervisorInv ==
    ASSUME IndInv, NEW c \in Containers, Supervisor(c) \/ WorkloadExits(c)
    PROVE  IndInv'
  <1>1. Types /\ HandleFits /\ SandboxInv /\ ContainerInv
    BY TypeParts DEF IndInv
  <1>2. UNCHANGED <<sandbox, vm, ip, rootfs, reap, req, up>>
    BY DEF Supervisor, CancelWorkload, RecordExit, SupervisorEnds, WorkloadExits,
           storeVars, hostVars, taskVars
  <1>3. /\ ctr' \in [Containers -> ContainerStates] /\ saved' \in BOOLEAN /\ ContainersEnd
        /\ ctr'[c] # "running" \/ ~RecordExit(c)
    <2>1. CASE RecordExit(c)
      BY <1>1, <2>1, MarkExitedFacts DEF RecordExit
    <2>2. CASE UNCHANGED <<ctr, saved>> /\ ~RecordExit(c)
      BY <1>1, <2>2 DEF Types, ContainersEnd
    <2> QED
      BY <2>1, <2>2 DEF Supervisor, CancelWorkload, SupervisorEnds, WorkloadExits, storeVars
  <1>4. work' \in SUBSET Containers /\ work' \subseteq work /\ stops' \in SUBSET Containers
    BY <1>1 DEF Supervisor, CancelWorkload, RecordExit, SupervisorEnds, WorkloadExits,
                hostVars, taskVars, Types
  <1>5. /\ sup' \in [Containers -> {"none", "queued", "watch", "signalled", "done", "dropped"}]
        /\ \A d \in Containers : sup[d] \in Backing => sup'[d] \in Backing \/ (d = c /\ RecordExit(c))
    <2>1. CASE sup' = sup
      BY <1>1, <2>1 DEF Types
    <2>2. CASE CancelWorkload(c)
      BY <1>1, <2>2 DEF CancelWorkload, Types, Backing
    <2>3. CASE RecordExit(c)
      <3>1. sup' = [sup EXCEPT ![c] = "done"]
        BY <2>3 DEF RecordExit
      <3> QED
        BY <1>1, <2>3, <3>1 DEF Types, Backing
    <2>4. CASE SupervisorEnds(c)
      BY <1>1, <2>4 DEF SupervisorEnds, Types, Backing
    <2> QED
      BY <2>1, <2>2, <2>3, <2>4 DEF Supervisor, WorkloadExits, taskVars
  <1>6. Types'
    BY <1>1, <1>2, <1>3, <1>4, <1>5 DEF Types
  <1>7. NoContainers => NoContainers'
    BY <1>3 DEF NoContainers, ContainersEnd, Stored
  <1>8. HandleFits' /\ SandboxInv'
    BY <1>1, <1>2, <1>7, SandboxUntouched
  <1>9. ContainerInv'
    BY <1>1, <1>2, <1>3, <1>4, <1>5, ContainersApart
  <1> QED
    BY <1>6, <1>8, <1>9, TypesKept DEF IndInv

\* The VM ends by itself, or the guard's task destroys it or drops its VmManager.
LEMMA VmEndsInv ==
    ASSUME IndInv, VmExits \/ GuardReap
    PROVE  IndInv'
  <1>1. Types /\ HandleFits /\ SandboxInv /\ ContainerInv
    BY TypeParts DEF IndInv
  <1>2. /\ UNCHANGED <<sandbox, saved, ctr, ip, rootfs, stops, sup, req, up>>
        /\ reap' \in BOOLEAN /\ (reap' => reap)
    <2>1. CASE VmExits
      BY <1>1, <2>1 DEF VmExits, storeVars, taskVars, Types
    <2>2. CASE GuardReap
      BY <1>1, <2>2 DEF GuardReap, storeVars, taskVars, Types
    <2> QED
      BY <2>1, <2>2
  <1>3. /\ vm' \in [alive : BOOLEAN, handle : Handles] /\ work' \subseteq work
        /\ vm'.alive => vm.alive
        /\ \/ vm'.handle = vm.handle
           \/ reap /\ vm.handle = "map" /\ (vm'.handle = "dropped" \/ (vm'.handle = "guard" /\ ~vm'.alive))
    <2>1. vm \in [alive : BOOLEAN, handle : Handles]
      BY <1>1 DEF Types
    <2>2. CASE VmExits
      BY <2>1, <2>2 DEF VmExits, Destroyed
    <2>3. CASE reap /\ vm.handle = "map" /\ Destroyed("guard")
      BY <2>3 DEF Destroyed, Handles
    <2>4. CASE reap /\ vm.handle = "map" /\ vm' = [vm EXCEPT !.handle = "dropped"] /\ UNCHANGED work
      BY <2>1, <2>4 DEF Handles
    <2>5. CASE UNCHANGED <<vm, work>>
      BY <2>1, <2>5
    <2> QED
      BY <2>2, <2>3, <2>4, <2>5 DEF GuardReap
  <1>4. Types'
    BY <1>1, <1>2, <1>3 DEF Types
  <1>5. HandleFits' /\ OneOwner' /\ \A g \in Handlers : CallFits(g)'
    BY <1>1, <1>2, <1>3 DEF HandleFits, SandboxInv, OneOwner, CallFits
  <1>6. BeforeSandbox'
    BY <1>1, <1>2, <1>3 DEF SandboxInv, BeforeSandbox, NoContainers
  <1>7. \A g \in Handlers : RunFits(g)'
    BY <1>1, <1>2, <1>3 DEF SandboxInv, BeforeSandbox, RunFits, Alone, NoContainers
  <1>8. NoLooseVm => NoLooseVm'
    BY <1>3 DEF NoLooseVm
  <1>9. \A g \in Handlers : RemovalFits(g)'
    BY <1>1, <1>2, <1>8 DEF SandboxInv, RemovalFits
  <1>10. DownIsQuiet' /\ ReadySandboxHasVm'
    BY <1>1, <1>2, <1>3 DEF SandboxInv, DownIsQuiet, ReadySandboxHasVm
  <1>11. GoneLeavesNothing' /\ LiveVmHasHolder'
    BY <1>1, <1>2, <1>3, <1>8 DEF SandboxInv, GoneLeavesNothing, LiveVmHasHolder, InStore
  <1>12. SandboxInv'
    BY <1>5, <1>6, <1>7, <1>9, <1>10, <1>11 DEF SandboxInv
  <1>13. ContainersEnd
    BY <1>2 DEF ContainersEnd
  <1>14. ContainerInv'
    BY <1>1, <1>2, <1>3, <1>13, ContainersApart
  <1> QED
    BY <1>4, <1>5, <1>12, <1>14, TypesKept DEF IndInv

\* Every call is at rest while the service is down.
LEMMA AllAtRest ==
    ASSUME \A h \in Handlers : req'[h] = Idle
    PROVE  /\ \A h \in Handlers : CallFits(h)' /\ RunFits(h)' /\ RemovalFits(h)' /\ CreateFits(h)'
           /\ OneOwner' /\ DownIsQuiet' /\ OneStarter'
           /\ HandleFits' <=> vm'.handle # "handler"
           /\ \A h \in Handlers, c \in Containers : ~Starting(h, c)'
  <1>1. \A h \in Handlers : CallFits(h)'
    BY IdleFacts DEF CallFits, RunPcs, CreatePcs, StartPcs, StopPcs, StopOps
  <1>2. \A h \in Handlers : RunFits(h)' /\ RemovalFits(h)' /\ CreateFits(h)'
    BY IdleFacts DEF RunFits, RemovalFits, CreateFits
  <1>3. OneOwner' /\ DownIsQuiet' /\ (HandleFits' <=> vm'.handle # "handler")
    BY IdleFacts DEF OneOwner, DownIsQuiet, HandleFits, OwnerPcs
  <1>4. OneStarter' /\ \A h \in Handlers, c \in Containers : ~Starting(h, c)'
    BY IdleFacts DEF OneStarter, Starting
  <1> QED
    BY <1>1, <1>2, <1>3, <1>4

\* The service dies or stops: its tasks and its calls go with it.
LEMMA DownInv ==
    ASSUME IndInv, Crash \/ Shutdown
    PROVE  IndInv'
  <1>1. Types /\ HandleFits /\ SandboxInv /\ ContainerInv
    BY TypeParts DEF IndInv
  <1>2. /\ UNCHANGED <<saved, ctr, ip>> /\ up' = FALSE /\ NoTasks
        /\ sandbox' = sandbox \/ sandbox' = "lost"
    BY DEF Crash, Shutdown, storeVars
  <1>3. /\ req' \in [Handlers -> Request] /\ \A h \in Handlers : req'[h] = Idle
        /\ stops' \in SUBSET Containers /\ reap' = FALSE
        /\ sup' \in [Containers -> {"none", "queued", "watch", "signalled", "done", "dropped"}]
    BY <1>2, IdleFacts DEF NoTasks
  <1>4. /\ vm' \in [alive : BOOLEAN, handle : Handles] /\ work' \subseteq work
        /\ rootfs' \in SUBSET Containers /\ (vm'.alive => vm.alive)
        /\ vm'.handle \notin {"map", "handler"}
        /\ vm'.handle # vm.handle => vm.handle \in {"map", "handler"} /\ vm'.handle \in {"none", "dropped"}
        /\ vm'.alive /\ vm'.handle = "none" => vm.handle \in {"map", "none"}
    <2>1. vm \in [alive : BOOLEAN, handle : Handles] /\ rootfs \in SUBSET Containers
      BY <1>1 DEF Types
    <2>2. CASE Crash
      BY <2>1, <2>2 DEF Crash, Handles
    <2>5. CASE Shutdown /\ vm.handle = "map" /\ ~Destroyed("none")
      <3>1. vm' = [vm EXCEPT !.handle = "dropped"] /\ work' = work /\ rootfs' = {}
        BY <2>5 DEF Shutdown
      <3> QED
        BY <2>1, <2>5, <3>1 DEF Handles
    <2>3. CASE Shutdown /\ vm.handle = "map" /\ Destroyed("none")
      <3>1. vm' = [alive |-> FALSE, handle |-> "none"] /\ work' = {} /\ rootfs' = {}
        BY <2>3 DEF Shutdown, Destroyed
      <3>2. vm' \in [alive : BOOLEAN, handle : Handles] /\ ~vm'.alive /\ vm'.handle = "none"
        BY <3>1 DEF Handles
      <3> QED
        BY <2>3, <3>1, <3>2
    <2>4. CASE Shutdown /\ vm.handle # "map"
      <3>1. vm.handle # "handler"
        BY <1>1, <2>4 DEF Shutdown, HandleFits, OwnerPcs
      <3> QED
        BY <2>1, <2>4, <3>1 DEF Shutdown, Handles
    <2> QED
      BY <2>2, <2>3, <2>4, <2>5
  <1>5. sandbox' \in SandboxStates
    BY <1>1, <1>2 DEF Types, SandboxStates
  <1>6. Types'
    BY <1>1, <1>2, <1>3, <1>4, <1>5 DEF Types
  <1>7. /\ HandleFits' /\ OneOwner' /\ DownIsQuiet' /\ OneStarter'
        /\ \A h \in Handlers : CallFits(h)' /\ RunFits(h)' /\ RemovalFits(h)' /\ CreateFits(h)'
        /\ \A h \in Handlers, c \in Containers : ~Starting(h, c)'
    BY <1>3, <1>4, AllAtRest
  <1>8. BeforeSandbox'
    BY <1>1, <1>2, <1>3, <1>4, IdleFacts DEF SandboxInv, BeforeSandbox, NoContainers
  <1>9. ReadySandboxHasVm' /\ LiveVmHasHolder' /\ RunningIsBacked' /\ StartableHasRootfs'
    BY <1>2 DEF ReadySandboxHasVm, LiveVmHasHolder, RunningIsBacked, StartableHasRootfs
  <1>10. GoneLeavesNothing'
    BY <1>1, <1>2, <1>4 DEF SandboxInv, GoneLeavesNothing, NoLooseVm
  <1>11. UnstartedFits'
    BY <1>1, <1>2, <1>4, <1>7 DEF ContainerInv, UnstartedFits
  <1> QED
    BY <1>6, <1>7, <1>8, <1>9, <1>10, <1>11, TypesKept DEF IndInv, SandboxInv, ContainerInv

\* The service starts again: what it loads has no VM and runs nothing.
LEMMA RestartInv ==
    ASSUME IndInv, Restart
    PROVE  IndInv'
  <1>1. Types /\ HandleFits /\ SandboxInv /\ ContainerInv
    BY TypeParts DEF IndInv
  <1>2. /\ ~up /\ up' = TRUE /\ UNCHANGED <<ip, stops, sup, reap, req>>
        /\ sandbox' = (IF InStore THEN "notready" ELSE sandbox)
        /\ saved' = (saved \/ InStore)
        /\ ctr' = [c \in Containers |-> IF Stored(ctr[c]) THEN "exited" ELSE ctr[c]]
    BY DEF Restart, SetNotReady, taskVars
  <1>3. \A h \in Handlers : req'[h] = Idle
    BY <1>1, <1>2 DEF SandboxInv, DownIsQuiet, CallFits
  <1>4. /\ vm' \in [alive : BOOLEAN, handle : Handles] /\ work' \subseteq work
        /\ rootfs' \in SUBSET Containers
        /\ IF InStore THEN vm'.handle = "none" /\ ~vm'.alive ELSE vm' = vm
    <2>1. CASE InStore
      <3>1. vm' = [alive |-> FALSE, handle |-> "none"] /\ work' = {} /\ rootfs' = {}
        BY <2>1 DEF Restart, Destroyed
      <3>2. vm' \in [alive : BOOLEAN, handle : Handles] /\ ~vm'.alive /\ vm'.handle = "none"
        BY <3>1 DEF Handles
      <3> QED
        BY <2>1, <3>1, <3>2
    <2>2. CASE ~InStore
      BY <1>1, <2>2 DEF Restart, Types
    <2> QED
      BY <2>1, <2>2
  <1>5. /\ ctr' \in [Containers -> ContainerStates]
        /\ \A c \in Containers : /\ ctr'[c] \notin {"created", "running"}
                                 /\ ctr'[c] = "absent" <=> ctr[c] = "absent"
    BY <1>1, <1>2 DEF Types, ContainerStates, Stored
  <1>6. sandbox' \in SandboxStates /\ sandbox' # "ready" /\ saved' \in BOOLEAN
    BY <1>1, <1>2 DEF Types, SandboxStates, InStore
  <1>7. Types'
    BY <1>1, <1>2, <1>4, <1>5, <1>6 DEF Types
  <1>8. vm'.handle # "handler"
    BY <1>1, <1>2, <1>4 DEF HandleFits, SandboxInv, DownIsQuiet, OwnerPcs
  <1>9. /\ HandleFits' /\ OneOwner' /\ DownIsQuiet' /\ OneStarter'
        /\ \A h \in Handlers : CallFits(h)' /\ RunFits(h)' /\ RemovalFits(h)' /\ CreateFits(h)'
        /\ \A h \in Handlers, c \in Containers : ~Starting(h, c)'
    BY <1>3, <1>8, AllAtRest
  <1>10. BeforeSandbox'
    BY <1>1, <1>2, <1>3, <1>4, <1>5, IdleFacts DEF SandboxInv, BeforeSandbox, NoContainers, InStore
  <1>11. ReadySandboxHasVm' /\ LiveVmHasHolder' /\ RunningIsBacked' /\ StartableHasRootfs'
    BY <1>2, <1>4, <1>5, <1>6 DEF ReadySandboxHasVm, LiveVmHasHolder, RunningIsBacked, StartableHasRootfs, InStore
  <1>12. GoneLeavesNothing'
    BY <1>1, <1>2, <1>4 DEF SandboxInv, GoneLeavesNothing, NoLooseVm, InStore
  <1>13. UnstartedFits'
    BY <1>1, <1>4, <1>5, <1>9 DEF ContainerInv, UnstartedFits
  <1> QED
    BY <1>7, <1>9, <1>10, <1>11, <1>12, <1>13, TypesKept DEF IndInv, SandboxInv, ContainerInv

\* The service starts without what it had stored, and leaves the host alone.
LEMMA RestartFreshInv ==
    ASSUME IndInv, RestartFresh
    PROVE  IndInv'
  <1>1. Types /\ HandleFits /\ SandboxInv /\ ContainerInv
    BY TypeParts DEF IndInv
  <1>2. /\ ~up /\ up' = TRUE /\ UNCHANGED <<vm, ip, rootfs, work, stops, sup, reap, req>>
        /\ sandbox' = (IF InStore THEN "lost" ELSE sandbox) /\ saved' = FALSE
        /\ ctr' = [c \in Containers |-> IF Stored(ctr[c]) THEN "removed" ELSE ctr[c]]
    BY DEF RestartFresh, hostVars, taskVars
  <1>3. \A h \in Handlers : req'[h] = Idle
    BY <1>1, <1>2 DEF SandboxInv, DownIsQuiet, CallFits
  <1>4. /\ ctr' \in [Containers -> ContainerStates]
        /\ \A c \in Containers : /\ ctr'[c] \notin {"created", "running"}
                                 /\ ctr'[c] = "absent" <=> ctr[c] = "absent"
    BY <1>1, <1>2 DEF Types, ContainerStates, Stored
  <1>5. sandbox' \in SandboxStates /\ sandbox' \notin {"ready", "notready"}
    BY <1>1, <1>2 DEF Types, SandboxStates, InStore
  <1>6. Types'
    BY <1>1, <1>2, <1>4, <1>5 DEF Types
  <1>7. vm'.handle # "handler"
    BY <1>1, <1>2 DEF HandleFits, SandboxInv, DownIsQuiet, OwnerPcs
  <1>8. /\ HandleFits' /\ OneOwner' /\ DownIsQuiet' /\ OneStarter'
        /\ \A h \in Handlers : CallFits(h)' /\ RunFits(h)' /\ RemovalFits(h)' /\ CreateFits(h)'
        /\ \A h \in Handlers, c \in Containers : ~Starting(h, c)'
    BY <1>3, <1>7, AllAtRest
  <1>9. BeforeSandbox'
    BY <1>1, <1>2, <1>3, <1>4, IdleFacts DEF SandboxInv, BeforeSandbox, NoContainers, InStore
  <1>10. ReadySandboxHasVm' /\ LiveVmHasHolder' /\ RunningIsBacked' /\ StartableHasRootfs'
    BY <1>2, <1>4, <1>5 DEF ReadySandboxHasVm, LiveVmHasHolder, RunningIsBacked, StartableHasRootfs, InStore
  <1>11. GoneLeavesNothing'
    BY <1>1, <1>2 DEF SandboxInv, GoneLeavesNothing, NoLooseVm, InStore
  <1>12. UnstartedFits'
    BY <1>1, <1>2, <1>4, <1>8 DEF ContainerInv, UnstartedFits
  <1> QED
    BY <1>6, <1>8, <1>9, <1>10, <1>11, <1>12, TypesKept DEF IndInv, SandboxInv, ContainerInv

-----------------------------------------------------------------------------
(* Theorems                                                                *)

LEMMA InitInv == Init => IndInv
  <1> SUFFICES ASSUME Init
               PROVE  IndInv
    OBVIOUS
  <1>1. Types
    BY IdleFacts DEF Init, Types, SandboxStates, ContainerStates, Handles, Addresses
  <1>2. \A h \in Handlers : req[h] = Idle
    BY DEF Init
  <1>3. HandleFits /\ OneOwner /\ DownIsQuiet
    BY <1>2, IdleFacts DEF Init, HandleFits, OneOwner, DownIsQuiet, OwnerPcs
  <1>4. \A h \in Handlers : CallFits(h)
    BY <1>2, IdleFacts DEF CallFits, RunPcs, CreatePcs, StartPcs, StopPcs, StopOps
  <1>5. \A h \in Handlers : RunFits(h) /\ RemovalFits(h) /\ CreateFits(h)
    BY <1>2, IdleFacts DEF RunFits, RemovalFits, CreateFits
  <1>6. BeforeSandbox
    BY <1>2, IdleFacts DEF Init, BeforeSandbox, NoContainers
  <1>7. ReadySandboxHasVm /\ GoneLeavesNothing /\ LiveVmHasHolder
    BY DEF Init, ReadySandboxHasVm, GoneLeavesNothing, LiveVmHasHolder, InStore
  <1>8. UnstartedFits /\ OneStarter /\ RunningIsBacked /\ StartableHasRootfs
    BY <1>2, IdleFacts DEF Init, UnstartedFits, OneStarter, RunningIsBacked, StartableHasRootfs, Starting
  <1> QED
    BY <1>1, <1>3, <1>4, <1>5, <1>6, <1>7, <1>8, TypeParts DEF IndInv, SandboxInv, ContainerInv

LEMMA StutterInv == ASSUME IndInv, UNCHANGED vars PROVE IndInv'
  <1>1. Types /\ HandleFits /\ SandboxInv /\ ContainerInv
    BY TypeParts DEF IndInv
  <1>2. UNCHANGED <<sandbox, saved, ctr, vm, ip, rootfs, work, stops, sup, reap, req, up>>
    BY DEF vars, storeVars, hostVars, taskVars
  <1>3. Types' /\ ContainersEnd /\ (NoContainers => NoContainers')
    BY <1>1, <1>2 DEF Types, ContainersEnd, NoContainers
  <1>4. HandleFits' /\ SandboxInv'
    BY <1>1, <1>2, <1>3, SandboxUntouched
  <1>5. ContainerInv'
    BY <1>1, <1>2, <1>3, ContainersApart
  <1> QED
    BY <1>3, <1>4, <1>5, TypesKept DEF IndInv

LEMMA NextInv == IndInv /\ [Next]_vars => IndInv'
  <1> SUFFICES ASSUME IndInv, [Next]_vars
               PROVE  IndInv'
    OBVIOUS
  <1>1. ASSUME NEW h \in Handlers, ClientCall(h)
        PROVE  IndInv'
    BY <1>1, RunPodSandboxInv, StopPodSandboxInv, RemovePodSandboxInv, CreateContainerInv,
       ContainerCallsInv DEF ClientCall
  <1>2. ASSUME NEW h \in Handlers, Handler(h)
        PROVE  IndInv'
    <2>1. CASE Boot(h) \/ Track(h) \/ AddSandbox(h) \/ PersistSandbox(h)
      BY <2>1, BootInv, TrackInv, AddSandboxInv, PersistInv
    <2>2. CASE \/ TakeVm(h) \/ DestroyVm(h) \/ DisconnectNetwork(h) \/ MarkNotReady(h) \/ GiveBack(h)
               \/ RemoveContainers(h) \/ UnregisterRemoved(h) \/ WipeSandbox(h) \/ RemoveSandbox(h)
               \/ \E c \in Containers : WipeEach(h, c)
      BY <2>2, TakeVmInv, DestroyVmInv, DisconnectNetworkInv, MarkNotReadyInv, GiveBackInv,
         RemoveContainersInv, UnregisterRemovedInv, WipeInv, RemoveSandboxInv
    <2>3. CASE \/ \E c \in Containers : SignalEach(h, c) \/ ExitEach(h, c)
               \/ Relist(h) \/ Unregister(h)
      BY <2>3, SignalEachInv, ExitEachInv, RelistInv, UnregisterInv
    <2>4. CASE PrepareRootfs(h) \/ Recheck(h) \/ AddContainer(h)
      BY <2>4, PrepareRootfsInv, RecheckInv, AddContainerInv
    <2>5. CASE LookupVm(h) \/ MarkStarted(h) \/ Spawn(h) \/ SpawnFails(h) \/ Register(h) \/ Supervise(h)
      BY <2>5, LookupVmInv, MarkStartedInv, SpawnInv, MarkStepsInv, SuperviseInv
    <2>6. CASE \/ Reread(h) \/ StopUnstarted(h) \/ StopWorkload(h) \/ WaitForExit(h) \/ Fallback(h)
               \/ MarkKilled(h) \/ Release(h) \/ DeleteContainer(h)
      BY <2>6, RereadInv, MarkStepsInv, StopWorkloadInv, WaitForExitInv, FallbackInv, ReleaseInv,
         DeleteContainerInv
    <2> QED
      BY <1>2, <2>1, <2>2, <2>3, <2>4, <2>5, <2>6 DEF Handler
  <1>3. ASSUME NEW h \in Handlers, Dropped(h)
        PROVE  IndInv'
    BY <1>3, AbandonInv, PersistInv, CancelCallInv DEF Dropped
  <1> QED
    BY <1>1, <1>2, <1>3, SupervisorInv, VmEndsInv, DownInv, RestartInv, RestartFreshInv, StutterInv DEF Next

LEMMA Invariance == Spec => []IndInv
  BY InitInv, NextInv, PTL DEF Spec

\* Every reachable state is well formed, and the VmManager is in a handler's
\* hands exactly while some handler is tracking or destroying it.
THEOREM TypeCorrect == Spec => []TypeOK
  <1>1. IndInv => TypeOK
    BY DEF IndInv
  <1> QED
    BY <1>1, Invariance, PTL

\* However many StartContainer calls race with stops, removals, supervisors and
\* restarts, a workload is spawned by one of them and only where none runs.
THEOREM OnlyOneStarter == Spec => []OneStarter
  <1>1. IndInv => OneStarter
    BY DEF IndInv, ContainerInv
  <1> QED
    BY <1>1, Invariance, PTL

\* A container that is listed as running has a StartContainer under way or a
\* supervisor, unless its StartContainer was dropped half-way.
THEOREM RunningContainersAreBacked == Spec => []RunningIsBacked
  <1>1. IndInv => RunningIsBacked
    BY DEF IndInv, ContainerInv
  <1> QED
    BY <1>1, Invariance, PTL

\* A sandbox that is listed as ready has its VM in vm_managers or a call that has
\* taken the VM and is still to mark it, with three exemptions by name: its
\* destruction failed or was dropped, the call was dropped after the destruction,
\* or the guard of a RunPodSandbox dropped late destroyed it.
THEOREM ReadyMeansVm == Spec => []ReadySandboxHasVm
  <1>1. IndInv => ReadySandboxHasVm
    BY DEF IndInv, SandboxInv
  <1> QED
    BY <1>1, Invariance, PTL

\* A container that may still be started in a ready sandbox has its files.
THEOREM StartableContainersHaveFiles == Spec => []StartableHasRootfs
  <1>1. IndInv => StartableHasRootfs
    BY DEF IndInv, ContainerInv
  <1> QED
    BY <1>1, Invariance, PTL

\* A sandbox that could not be booted or was removed leaves no address that nobody
\* tried to give back, and no VM unless a VmManager was dropped with it.
THEOREM RemovalLeavesNothing == Spec => []RemovedLeavesNothing
  <1>1. IndInv => RemovedLeavesNothing
    BY DEF IndInv, SandboxInv, GoneLeavesNothing, NoLooseVm, RemovedLeavesNothing
  <1> QED
    BY <1>1, Invariance, PTL

\* While the service runs, the live VM of a listed sandbox is in vm_managers or in
\* a handler's hands, unless its VmManager was dropped in a destruction that
\* failed or was dropped: a restart leaves none without an owner.
THEOREM LiveVmIsHeld == Spec => []LiveVmHasHolder
  <1>1. IndInv => LiveVmHasHolder
    BY DEF IndInv, SandboxInv
  <1> QED
    BY <1>1, Invariance, PTL

\* What every step may do to the containers.
ContainersGoForward ==
    \A c \in Containers :
        /\ ctr[c] = "exited" => ctr'[c] \in {"exited", "removed"}
        /\ ctr[c] = "removed" => ctr'[c] = "removed"

LEMMA EndGoesForward == ContainersEnd => ContainersGoForward
  BY DEF ContainersEnd, ContainersGoForward, Stored

LEMMA HandlerGoesForward ==
    ASSUME IndInv, NEW h \in Handlers, Handler(h)
    PROVE  ContainersGoForward
  <1>1. Types /\ CallFits(h) /\ CreateFits(h)
    BY TypeParts DEF IndInv, SandboxInv, ContainerInv
  <1> DEFINE c == req[h].c
  <1>2. CASE ctr' = ctr
    BY <1>2 DEF ContainersGoForward
  <1>3. CASE AddContainer(h)
    <2>1. /\ c \in Containers /\ ctr[c] = "absent" /\ ctr' = [ctr EXCEPT ![c] = "created"]
      BY <1>1, <1>3 DEF AddContainer, CallFits, CreatePcs, CreateFits, StoreContainers
    <2> QED
      BY <1>1, <2>1 DEF Types, ContainersGoForward
  <1>4. CASE MarkStarted(h) /\ ctr' # ctr
    <2>1. ctr[c] = "created" /\ ctr' = [ctr EXCEPT ![c] = "running"]
      BY <1>4 DEF MarkStarted, MarkStartedIfCreated, StoreContainers
    <2> QED
      BY <1>1, <2>1 DEF Types, ContainersGoForward
  <1>5. CASE SpawnFails(h) \/ StopUnstarted(h) \/ MarkKilled(h)
    <2>1. c \in Containers
      BY <1>1, <1>5 DEF SpawnFails, StopUnstarted, MarkKilled, CallFits, StartPcs, StopPcs, StopOps
    <2> QED
      BY <1>1, <1>5, <2>1, MarkExitedFacts, EndGoesForward DEF SpawnFails, StopUnstarted, MarkKilled
  <1>6. CASE \E d \in Containers : ExitEach(h, d)
    BY <1>1, <1>6, MarkExitedFacts, EndGoesForward DEF ExitEach
  <1>7. CASE DeleteContainer(h) /\ ctr' # ctr
    <2>1. ctr' = [ctr EXCEPT ![c] = "removed"]
      BY <1>7 DEF DeleteContainer, StoreContainers
    <2> QED
      BY <1>1, <2>1 DEF Types, ContainersGoForward
  <1>8. CASE RemoveContainers(h)
    <2>1. ctr' = [d \in Containers |-> IF d \in {e \in Containers : Stored(ctr[e])} THEN "removed" ELSE ctr[d]]
      BY <1>8 DEF RemoveContainers, StoreContainers
    <2> QED
      BY <2>1 DEF Stored, ContainersGoForward
  <1>9. CASE \/ Boot(h) \/ Track(h) \/ AddSandbox(h) \/ PersistSandbox(h)
             \/ TakeVm(h) \/ DestroyVm(h) \/ DisconnectNetwork(h) \/ MarkNotReady(h) \/ GiveBack(h)
             \/ UnregisterRemoved(h) \/ WipeSandbox(h) \/ RemoveSandbox(h)
             \/ \E d \in Containers : WipeEach(h, d)
    BY <1>2, <1>9 DEF Boot, Track, AddSandbox, PersistSandbox, TakeVm, DestroyVm, DisconnectNetwork,
                      MarkNotReady, GiveBack, UnregisterRemoved, WipeSandbox, RemoveSandbox, WipeEach,
                      storeVars
  <1>10. CASE \/ (\E d \in Containers : SignalEach(h, d)) \/ Relist(h) \/ Unregister(h)
              \/ PrepareRootfs(h) \/ Recheck(h) \/ LookupVm(h) \/ Spawn(h) \/ Register(h) \/ Supervise(h)
    BY <1>2, <1>10 DEF SignalEach, Relist, Unregister, PrepareRootfs, Recheck, LookupVm, Spawn,
                       Register, Supervise, storeVars
  <1>11. CASE Reread(h) \/ StopWorkload(h) \/ WaitForExit(h) \/ Fallback(h) \/ Release(h)
    BY <1>2, <1>11 DEF Reread, StopWorkload, WaitForExit, Fallback, Release, storeVars
  <1> QED
    BY <1>2, <1>3, <1>4, <1>5, <1>6, <1>7, <1>8, <1>9, <1>10, <1>11 DEF Handler

LEMMA NextGoesForward ==
    ASSUME IndInv, [Next]_vars
    PROVE  ContainersGoForward
  <1>1. Types
    BY TypeParts DEF IndInv
  <1>2. CASE ctr' = ctr
    BY <1>2 DEF ContainersGoForward
  <1>3. ASSUME NEW h \in Handlers, ClientCall(h) \/ Dropped(h)
        PROVE  ContainersGoForward
    BY <1>2, <1>3 DEF ClientCall, RunPodSandbox, StopPodSandbox, RemovePodSandbox, CreateContainer,
       StartContainer, StopContainer, RemoveContainer, Dropped, Abandon, CancelBoot, CancelPersist,
       CancelCall, storeVars
  <1>4. ASSUME NEW c \in Containers, Supervisor(c) \/ WorkloadExits(c)
        PROVE  ContainersGoForward
    <2>1. CASE RecordExit(c)
      BY <1>1, <2>1, MarkExitedFacts, EndGoesForward DEF RecordExit
    <2>2. CASE CancelWorkload(c) \/ SupervisorEnds(c) \/ WorkloadExits(c)
      BY <1>2, <2>2 DEF CancelWorkload, SupervisorEnds, WorkloadExits, storeVars
    <2> QED
      BY <1>4, <2>1, <2>2 DEF Supervisor
  <1>5. CASE GuardReap \/ VmExits \/ Crash \/ Shutdown
    BY <1>2, <1>5 DEF GuardReap, VmExits, Crash, Shutdown, storeVars
  <1>6. CASE Restart \/ RestartFresh
    BY <1>6 DEF Restart, RestartFresh, Stored, ContainersGoForward
  <1>7. CASE UNCHANGED vars
    BY <1>2, <1>7 DEF vars, storeVars
  <1> QED
    BY <1>3, <1>4, <1>5, <1>6, <1>7, HandlerGoesForward DEF Next

\* A container that has exited or was removed stays so: a late StartContainer, a
\* late supervisor, a stop that was overtaken or a restart cannot bring it back.
THEOREM ExitIsFinal == Spec => ExitedIsFinal
  <1>1. IndInv /\ [Next]_vars =>
          [\A c \in Containers :
              /\ ctr[c] = "exited" => ctr'[c] \in {"exited", "removed"}
              /\ ctr[c] = "removed" => ctr'[c] = "removed"]_vars
    BY NextGoesForward DEF ContainersGoForward
  <1> QED
    BY <1>1, Invariance, PTL DEF Spec, ExitedIsFinal

=============================================================================
