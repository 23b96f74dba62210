----------------------------- MODULE CriRuntime -----------------------------
(***************************************************************************)
(* The CRI runtime service (cri/src/runtime_service) for one pod sandbox:  *)
(* the sandbox's MicroVM, its containers, the handlers of concurrent CRI   *)
(* calls, the supervisor task of every started container, and the restart  *)
(* of the service.                                                         *)
(*                                                                         *)
(* A handler is an async function: other handlers run, and the caller may  *)
(* give up and have it dropped, wherever it awaits.  Those are the steps.  *)
(* The store writes its snapshot in the step that changes it, except in    *)
(* add_sandbox, where the guard of RunPodSandbox is still armed between    *)
(* the two.                                                                *)
(***************************************************************************)
EXTENDS Naturals, FiniteSets

CONSTANTS
    Containers,     \* containers of the pod
    NoContainer,    \* a call that is not about one of them
    Handlers,       \* calls that are handled at the same time
    Faults,         \* which of the faults below happen
    MaxRemains      \* bound on what dropped calls leave behind

AllFaults == {"cancel",    \* the caller gives up: its handler is dropped
              "crash",     \* the service dies
              "destroy",   \* the destruction of a VM reports an error
              "exit",      \* the process of the VM ends by itself
              "load",      \* state.json cannot be read at the start
              "network",   \* the network store refuses to give an address back
              "spawn"}     \* the guest refuses a workload

ASSUME CriAssumption ==
    /\ NoContainer \notin Containers
    /\ Faults \subseteq AllFaults
    /\ MaxRemains \in Nat

VARIABLES
    sandbox,  \* the sandbox in the store
    saved,    \* it is in state.json
    ctr,      \* the containers in the store
    vm,       \* the VM: whether its process lives and who has its VmManager
    ip,       \* the address of the sandbox in its bridge network
    rootfs,   \* the containers whose root filesystem exists on the host
    work,     \* the containers whose workload runs in the guest
    stops,    \* the containers with an entry in workload_stops
    sup,      \* the exit supervisor of each container
    reap,     \* the task that a dropped RunPodSandbox spawned is to run
    req,      \* the calls
    up        \* the service runs

hostVars == <<vm, ip, rootfs, work>>
taskVars == <<stops, sup, reap>>
storeVars == <<sandbox, saved, ctr>>
vars == <<storeVars, hostVars, taskVars, req, up>>

\* "none": not asked for; "starting": has an id but no record; "failed": it did
\* not boot; "abandoned": RunPodSandbox was dropped before the record was stored;
\* "lost": the service died before the record was saved, or could not load it.
SandboxStates ==
    {"none", "starting", "ready", "notready", "failed", "abandoned", "removed", "lost"}
\* The VmManager of the sandbox.  "map": in vm_managers; "handler": with a handler;
\* "dropped": its destruction failed, or the call that had it was dropped, and the
\* VM may run on; "guard": the guard of a dropped RunPodSandbox destroyed the VM;
\* "halted": a call destroyed the VM and was dropped before it marked the sandbox.
Handles == {"none", "map", "handler", "dropped", "guard", "halted"}
\* "leaked": the network store refused to take the address back.
Addresses == {"none", "held", "leaked"}
ContainerStates == {"absent", "created", "running", "exited", "removed"}
Stored(s) == s \in {"created", "running", "exited"}

Ops == {"none", "RunPodSandbox", "StopPodSandbox", "RemovePodSandbox",
        "CreateContainer", "StartContainer", "StopContainer", "RemoveContainer"}
Pcs == {"idle", "boot", "track", "add", "persist",
        "signal", "exits", "take", "destroy", "notready", "disconnect",
        "clean", "unregister", "wipe", "forget",
        "prepare", "recheck", "insert",
        "lookup", "mark", "spawn", "register", "supervise",
        "unstarted", "reread", "stop", "wait", "fallback", "giveback", "markkilled",
        "release", "delete"}

\* c: the container; seen: the containers that the handler listed; todo: those
\* that its loop has still to visit.
Request == [pc : Pcs, op : Ops, c : Containers \cup {NoContainer},
            seen : SUBSET Containers, todo : SUBSET Containers]
Idle == [pc |-> "idle", op |-> "none", c |-> NoContainer,
         seen |-> {}, todo |-> {}]

TypeOK ==
    /\ sandbox \in SandboxStates
    /\ saved \in BOOLEAN
    /\ ctr \in [Containers -> ContainerStates]
    /\ vm \in [alive : BOOLEAN, handle : Handles]
    /\ ip \in Addresses
    /\ rootfs \in SUBSET Containers
    /\ work \in SUBSET Containers
    /\ stops \in SUBSET Containers
    /\ sup \in [Containers -> {"none", "queued", "watch", "signalled", "done", "dropped"}]
    /\ reap \in BOOLEAN
    /\ req \in [Handlers -> Request]
    /\ up \in BOOLEAN
    /\ vm.handle = "handler" <=> \E h \in Handlers : req[h].pc \in {"track", "destroy"}

Init ==
    /\ sandbox = "none"
    /\ saved = FALSE
    /\ ctr = [c \in Containers |-> "absent"]
    /\ vm = [alive |-> FALSE, handle |-> "none"]
    /\ ip = "none"
    /\ rootfs = {}
    /\ work = {}
    /\ stops = {}
    /\ sup = [c \in Containers |-> "none"]
    /\ reap = FALSE
    /\ req = [h \in Handlers |-> Idle]
    /\ up = TRUE

-----------------------------------------------------------------------------
(* The stores (container.rs, sandbox.rs).                                  *)

\* Every change is followed by a snapshot of both stores.
InStore == sandbox \in {"ready", "notready"}
StoreContainers(new) ==
    /\ ctr' = new
    /\ saved' = (saved \/ (InStore /\ new # ctr))

\* Mutant of MarkStartedIfCreated: a container that was started may be started.
MarkStartedUnlessExited(c) == ctr[c] \in {"created", "running"}

MarkStartedIfCreated(c) == ctr[c] = "created"

\* mark_exited changes whatever is stored, mark_exited_if_running only what runs.
MarkExited(c) == StoreContainers([ctr EXCEPT ![c] = IF Stored(@) THEN "exited" ELSE @])
MarkExitedIfRunning(c) == StoreContainers([ctr EXCEPT ![c] = IF @ = "running" THEN "exited" ELSE @])

\* update_state: only a sandbox that is stored has a state.
SetNotReady ==
    /\ sandbox' = IF InStore THEN "notready" ELSE sandbox
    /\ saved' = (saved \/ InStore)

(* How a handler goes on.                                                  *)
Set(h, new) == req' = [req EXCEPT ![h] = new]
Goto(h, pc) == Set(h, [req[h] EXCEPT !.pc = pc])
Finish(h) == Set(h, Idle)
At(h, op, pc) == req[h].op = op /\ req[h].pc = pc

\* The guest's workloads end with the VM.
Destroyed(handle) ==
    /\ vm' = [alive |-> FALSE, handle |-> handle]
    /\ work' = {}

\* disconnect_sandbox_network_by_name: an error is logged and the caller goes on.
Disconnected ==
    ip' \in IF ip # "none" /\ "network" \in Faults THEN {"none", "leaked"} ELSE {"none"}

-----------------------------------------------------------------------------
(* RunPodSandbox.                                                          *)

\* Every call has an id of its own: one of them is this sandbox. Its network is
\* a bridge, so that it has an address to give back.
RunPodSandbox(h) ==
    /\ req[h].pc = "idle"
    /\ sandbox = "none"
    /\ sandbox' = "starting"
    /\ ip' = "held"
    /\ Set(h, [Idle EXCEPT !.op = "RunPodSandbox", !.pc = "boot"])
    /\ UNCHANGED <<saved, ctr, vm, rootfs, work, taskVars, up>>

\* Mutant of Boot: a failed boot keeps the address.
BootKeepsAddress(h) ==
    /\ At(h, "RunPodSandbox", "boot")
    /\ \/ /\ vm' = [alive |-> TRUE, handle |-> "handler"]
          /\ Goto(h, "track")
          /\ UNCHANGED <<sandbox, ip>>
       \/ /\ sandbox' = "failed"
          /\ Finish(h)
          /\ UNCHANGED <<vm, ip>>
    /\ UNCHANGED <<saved, ctr, rootfs, work, taskVars, up>>

\* acquire_vm_inner: a failed boot cleans up after itself.
Boot(h) ==
    /\ At(h, "RunPodSandbox", "boot")
    /\ \/ /\ vm' = [alive |-> TRUE, handle |-> "handler"]
          /\ Goto(h, "track")
          /\ UNCHANGED <<sandbox, ip>>
       \/ /\ sandbox' = "failed"
          /\ Disconnected
          /\ Finish(h)
          /\ UNCHANGED vm
    /\ UNCHANGED <<saved, ctr, rootfs, work, taskVars, up>>

\* The VM is tracked and the guard is armed.
Track(h) ==
    /\ At(h, "RunPodSandbox", "track")
    /\ vm' = [vm EXCEPT !.handle = "map"]
    /\ Goto(h, "add")
    /\ UNCHANGED <<storeVars, ip, rootfs, work, taskVars, up>>

AddSandbox(h) ==
    /\ At(h, "RunPodSandbox", "add")
    /\ sandbox' = "ready"
    /\ Goto(h, "persist")
    /\ UNCHANGED <<saved, ctr, hostVars, taskVars, up>>

PersistSandbox(h) ==
    /\ At(h, "RunPodSandbox", "persist")
    /\ saved' = TRUE
    /\ Finish(h)
    /\ UNCHANGED <<sandbox, ctr, hostVars, taskVars, up>>

\* The caller learns the id from the answer.
Known == ~\E h \in Handlers : req[h].op = "RunPodSandbox"

-----------------------------------------------------------------------------
(* Destroying the VM: take it out of vm_managers, destroy it, and go on.   *)

\* Whether the operation goes on after a destruction that reports an error.
\* StopPodSandbox does; StopContainer and RemovePodSandbox return the error.
SurvivesDestroyError(op) == op = "StopPodSandbox"

\* The pod calls give the address back next, the container calls mark the sandbox.
AfterDestroy(op) ==
    IF op \in {"StopPodSandbox", "RemovePodSandbox"} THEN "disconnect" ELSE "notready"

\* Mutant of TakeVm: the VmManager stays in the map.
TakeVmShared(h) ==
    /\ req[h].pc = "take"
    /\ Goto(h, IF vm.handle = "map" THEN "destroy" ELSE AfterDestroy(req[h].op))
    /\ UNCHANGED <<storeVars, hostVars, taskVars, up>>

TakeVm(h) ==
    /\ req[h].pc = "take"
    /\ IF vm.handle = "map"
         THEN vm' = [vm EXCEPT !.handle = "handler"] /\ Goto(h, "destroy")
         ELSE UNCHANGED vm /\ Goto(h, AfterDestroy(req[h].op))
    /\ UNCHANGED <<storeVars, ip, rootfs, work, taskVars, up>>

\* The VmManager is gone whether or not it did its work.
DestroyVm(h) ==
    /\ req[h].pc = "destroy"
    /\ \/ Destroyed("none") /\ Goto(h, AfterDestroy(req[h].op))
       \/ /\ "destroy" \in Faults
          /\ \/ Destroyed("dropped")
             \/ vm' = [vm EXCEPT !.handle = "dropped"] /\ UNCHANGED work
          /\ IF SurvivesDestroyError(req[h].op) THEN Goto(h, AfterDestroy(req[h].op)) ELSE Finish(h)
    /\ UNCHANGED <<storeVars, ip, rootfs, taskVars, up>>

DisconnectNetwork(h) ==
    /\ req[h].pc = "disconnect"
    /\ Disconnected
    /\ Goto(h, IF req[h].op = "StopPodSandbox" THEN "notready" ELSE "clean")
    /\ UNCHANGED <<storeVars, vm, rootfs, work, taskVars, up>>

\* Mutant of MarkNotReady: the sandbox stays ready.
MarkNotReadyForgotten(h) ==
    /\ req[h].pc = "notready"
    /\ IF req[h].op = "StopPodSandbox" THEN Finish(h) ELSE Goto(h, "giveback")
    /\ UNCHANGED <<storeVars, hostVars, taskVars, up>>

\* update_sandbox_state.
MarkNotReady(h) ==
    /\ req[h].pc = "notready"
    /\ SetNotReady
    /\ IF req[h].op = "StopPodSandbox" THEN Finish(h) ELSE Goto(h, "giveback")
    /\ UNCHANGED <<ctr, hostVars, taskVars, up>>

\* The end of stop_container_vm: the sandbox is looked up for its network.
GiveBack(h) ==
    /\ req[h].pc = "giveback"
    /\ IF InStore THEN Disconnected ELSE UNCHANGED ip
    /\ Goto(h, "markkilled")
    /\ UNCHANGED <<storeVars, vm, rootfs, work, taskVars, up>>

-----------------------------------------------------------------------------
(* StopPodSandbox.                                                         *)

StopPodSandbox(h) ==
    /\ req[h].pc = "idle"
    /\ Known
    /\ sandbox = "ready"
    /\ Set(h, [Idle EXCEPT !.op = "StopPodSandbox", !.pc = "signal",
                           !.todo = {c \in Containers : ctr[c] = "running"}])
    /\ UNCHANGED <<storeVars, hostVars, taskVars, up>>

\* The first half of stop_container_workload: the stop control is used up.  The
\* signal waits for a supervisor that StartContainer has still to spawn.
SignalStop(c) ==
    /\ stops' = stops \ {c}
    /\ sup' = [sup EXCEPT ![c] = IF c \notin stops THEN @
                                ELSE IF @ = "watch" THEN "signalled"
                                ELSE IF @ = "none" THEN "queued" ELSE @]

SignalEach(h, c) ==
    /\ At(h, "StopPodSandbox", "signal")
    /\ c \in req[h].todo
    /\ SignalStop(c)
    /\ Set(h, [req[h] EXCEPT !.todo = @ \ {c}])
    /\ UNCHANGED <<storeVars, hostVars, reap, up>>

\* Every wait ends, by the exit of the container or by the timeout; then the
\* containers are listed again.
Relist(h) ==
    /\ At(h, "StopPodSandbox", "signal")
    /\ req[h].todo = {}
    /\ Set(h, [req[h] EXCEPT !.pc = "exits",
                             !.seen = {c \in Containers : Stored(ctr[c])},
                             !.todo = {c \in Containers : ctr[c] \in {"created", "running"}}])
    /\ UNCHANGED <<storeVars, hostVars, taskVars, up>>

ExitEach(h, c) ==
    /\ At(h, "StopPodSandbox", "exits")
    /\ c \in req[h].todo
    /\ MarkExited(c)
    /\ Set(h, [req[h] EXCEPT !.todo = @ \ {c}])
    /\ UNCHANGED <<sandbox, hostVars, taskVars, up>>

\* The four maps are locked together.
Unregister(h) ==
    /\ At(h, "StopPodSandbox", "exits")
    /\ req[h].todo = {}
    /\ stops' = stops \ req[h].seen
    /\ Set(h, [Idle EXCEPT !.op = "StopPodSandbox", !.pc = "take"])
    /\ UNCHANGED <<storeVars, hostVars, sup, reap, up>>

(* RemovePodSandbox.                                                       *)

RemovePodSandbox(h) ==
    /\ req[h].pc = "idle"
    /\ Known
    /\ sandbox = "notready"
    /\ Set(h, [Idle EXCEPT !.op = "RemovePodSandbox", !.pc = "take"])
    /\ UNCHANGED <<storeVars, hostVars, taskVars, up>>

\* remove_containers_by_sandbox returns the containers it took out.
RemoveContainers(h) ==
    LET gone == {c \in Containers : Stored(ctr[c])} IN
    /\ At(h, "RemovePodSandbox", "clean")
    /\ StoreContainers([c \in Containers |-> IF c \in gone THEN "removed" ELSE ctr[c]])
    /\ Set(h, [req[h] EXCEPT !.pc = "unregister", !.seen = gone, !.todo = gone])
    /\ UNCHANGED <<sandbox, hostVars, taskVars, up>>

UnregisterRemoved(h) ==
    /\ At(h, "RemovePodSandbox", "unregister")
    /\ stops' = stops \ req[h].seen
    /\ Set(h, [req[h] EXCEPT !.pc = "wipe", !.seen = {}])
    /\ UNCHANGED <<storeVars, hostVars, sup, reap, up>>

WipeEach(h, c) ==
    /\ At(h, "RemovePodSandbox", "wipe")
    /\ c \in req[h].todo
    /\ rootfs' = rootfs \ {c}
    /\ Set(h, [req[h] EXCEPT !.todo = @ \ {c}])
    /\ UNCHANGED <<storeVars, vm, ip, work, taskVars, up>>

\* The directory that holds the root filesystems of the whole sandbox.
WipeSandbox(h) ==
    /\ At(h, "RemovePodSandbox", "wipe")
    /\ req[h].todo = {}
    /\ rootfs' = {}
    /\ Goto(h, "forget")
    /\ UNCHANGED <<storeVars, vm, ip, work, taskVars, up>>

RemoveSandbox(h) ==
    /\ At(h, "RemovePodSandbox", "forget")
    /\ sandbox' = IF InStore THEN "removed" ELSE sandbox
    /\ saved' = FALSE
    /\ Finish(h)
    /\ UNCHANGED <<ctr, hostVars, taskVars, up>>

-----------------------------------------------------------------------------
(* CreateContainer.                                                        *)

Call(h, op, pc, c) ==
    Set(h, [Idle EXCEPT !.op = op, !.pc = pc, !.c = c])

\* Every call has an id of its own: a container is created once.
CreateContainer(h, c) ==
    /\ req[h].pc = "idle"
    /\ Known
    /\ sandbox = "ready"
    /\ ctr[c] = "absent"
    /\ \A g \in Handlers : req[g].c # c
    /\ c \notin rootfs
    /\ Call(h, "CreateContainer", "prepare", c)
    /\ UNCHANGED <<storeVars, hostVars, taskVars, up>>

\* Mutant of PrepareRootfs: what fails takes the tree of the sandbox with it.
PrepareRootfsCleansSandbox(h) ==
    /\ req[h].pc = "prepare"
    /\ \/ rootfs' = rootfs \cup {req[h].c} /\ Goto(h, "recheck")
       \/ rootfs' = {} /\ Finish(h)
    /\ UNCHANGED <<storeVars, vm, ip, work, taskVars, up>>

\* prepare_container_rootfs and materialize_container_mounts: what fails is
\* cleaned up at once.
PrepareRootfs(h) ==
    /\ req[h].pc = "prepare"
    /\ \/ rootfs' = rootfs \cup {req[h].c} /\ Goto(h, "recheck")
       \/ UNCHANGED rootfs /\ Finish(h)
    /\ UNCHANGED <<storeVars, vm, ip, work, taskVars, up>>

Recheck(h) ==
    /\ req[h].pc = "recheck"
    /\ IF sandbox = "ready"
         THEN Goto(h, "insert") /\ UNCHANGED rootfs
         ELSE Finish(h) /\ rootfs' = rootfs \ {req[h].c}
    /\ UNCHANGED <<storeVars, vm, ip, work, taskVars, up>>

AddContainer(h) ==
    /\ req[h].pc = "insert"
    /\ StoreContainers([ctr EXCEPT ![req[h].c] = "created"])
    /\ Finish(h)
    /\ UNCHANGED <<sandbox, hostVars, taskVars, up>>

(* StartContainer.                                                         *)

\* A caller knows a container from the answer to its creation.
KnownContainer(c) == ~\E h \in Handlers : req[h].op = "CreateContainer" /\ req[h].c = c

StartContainer(h, c) ==
    /\ req[h].pc = "idle"
    /\ KnownContainer(c)
    /\ ctr[c] = "created"
    /\ Call(h, "StartContainer", "lookup", c)
    /\ UNCHANGED <<storeVars, hostVars, taskVars, up>>

\* The sockets of a VM that is tracked and healthy.
LookupVm(h) ==
    /\ req[h].pc = "lookup"
    /\ IF vm.handle = "map" /\ vm.alive THEN Goto(h, "mark") ELSE Finish(h)
    /\ UNCHANGED <<storeVars, hostVars, taskVars, up>>

\* The transition to running is won before the workload is spawned.
MarkStarted(h) ==
    LET c == req[h].c IN
    /\ req[h].pc = "mark"
    /\ IF MarkStartedIfCreated(c)
         THEN StoreContainers([ctr EXCEPT ![c] = "running"]) /\ Goto(h, "spawn")
         ELSE UNCHANGED <<ctr, saved>> /\ Finish(h)
    /\ UNCHANGED <<sandbox, hostVars, taskVars, up>>

\* Mutant of SpawnFails: a failed start is not taken back.
SpawnFailsSilently(h) ==
    /\ req[h].pc = "spawn"
    /\ ~vm.alive \/ "spawn" \in Faults
    /\ Finish(h)
    /\ UNCHANGED <<storeVars, hostVars, taskVars, up>>

SpawnFails(h) ==
    /\ req[h].pc = "spawn"
    /\ ~vm.alive \/ "spawn" \in Faults
    /\ MarkExited(req[h].c)
    /\ Finish(h)
    /\ UNCHANGED <<sandbox, hostVars, taskVars, up>>

Spawn(h) ==
    /\ req[h].pc = "spawn"
    /\ vm.alive
    /\ work' = work \cup {req[h].c}
    /\ Goto(h, "register")
    /\ UNCHANGED <<storeVars, vm, ip, rootfs, taskVars, up>>

Register(h) ==
    /\ req[h].pc = "register"
    /\ stops' = stops \cup {req[h].c}
    /\ Goto(h, "supervise")
    /\ UNCHANGED <<storeVars, hostVars, sup, reap, up>>

Supervise(h) ==
    /\ req[h].pc = "supervise"
    /\ sup' = [sup EXCEPT ![req[h].c] = IF @ = "queued" THEN "signalled" ELSE "watch"]
    /\ Finish(h)
    /\ UNCHANGED <<storeVars, hostVars, stops, reap, up>>

-----------------------------------------------------------------------------
(* StopContainer and RemoveContainer.  What RemoveContainer finds running  *)
(* it stops by calling stop_container, which reads the container again.    *)

StopContainer(h, c) ==
    /\ req[h].pc = "idle"
    /\ KnownContainer(c)
    /\ ctr[c] \in {"created", "running"}
    /\ Call(h, "StopContainer", IF ctr[c] = "created" THEN "unstarted" ELSE "stop", c)
    /\ UNCHANGED <<storeVars, hostVars, taskVars, up>>

RemoveContainer(h, c) ==
    /\ req[h].pc = "idle"
    /\ KnownContainer(c)
    /\ Stored(ctr[c])
    /\ Call(h, "RemoveContainer", IF ctr[c] = "running" THEN "reread" ELSE "delete", c)
    /\ UNCHANGED <<storeVars, hostVars, taskVars, up>>

\* Not found is an error, exited is done.
Reread(h) ==
    /\ req[h].pc = "reread"
    /\ CASE ctr[req[h].c] = "running" -> Goto(h, "stop")
         [] ctr[req[h].c] = "exited" -> Goto(h, "delete")
         [] OTHER -> Finish(h)
    /\ UNCHANGED <<storeVars, hostVars, taskVars, up>>

\* The container had not been started when it was read.
StopUnstarted(h) ==
    /\ req[h].pc = "unstarted"
    /\ MarkExited(req[h].c)
    /\ Goto(h, "release")
    /\ UNCHANGED <<sandbox, hostVars, taskVars, up>>

StopWorkload(h) ==
    /\ req[h].pc = "stop"
    /\ SignalStop(req[h].c)
    /\ Goto(h, IF req[h].c \in stops THEN "wait" ELSE "fallback")
    /\ UNCHANGED <<storeVars, hostVars, reap, up>>

\* The second half of stop_container_workload.
WaitForExit(h) ==
    /\ req[h].pc = "wait"
    /\ \/ ctr[req[h].c] \in {"exited", "removed"} /\ Goto(h, "release")
       \/ ctr[req[h].c] = "running" /\ Goto(h, "fallback")
    /\ UNCHANGED <<storeVars, hostVars, taskVars, up>>

\* has_other_running_containers.
Fallback(h) ==
    /\ req[h].pc = "fallback"
    /\ IF \E c \in Containers \ {req[h].c} : ctr[c] = "running" THEN Finish(h) ELSE Goto(h, "take")
    /\ UNCHANGED <<storeVars, hostVars, taskVars, up>>

MarkKilled(h) ==
    /\ req[h].pc = "markkilled"
    /\ MarkExitedIfRunning(req[h].c)
    /\ Goto(h, "release")
    /\ UNCHANGED <<sandbox, hostVars, taskVars, up>>

Release(h) ==
    /\ req[h].pc = "release"
    /\ stops' = stops \ {req[h].c}
    /\ IF req[h].op = "RemoveContainer" THEN Goto(h, "delete") ELSE Finish(h)
    /\ UNCHANGED <<storeVars, hostVars, sup, reap, up>>

\* Only the handler that takes the record out of the store goes on.
DeleteContainer(h) ==
    LET c == req[h].c IN
    /\ req[h].pc = "delete"
    /\ IF Stored(ctr[c])
         THEN /\ StoreContainers([ctr EXCEPT ![c] = "removed"])
              /\ stops' = stops \ {c}
              /\ rootfs' = rootfs \ {c}
         ELSE UNCHANGED <<ctr, saved, stops, rootfs>>
    /\ Finish(h)
    /\ UNCHANGED <<sandbox, vm, ip, work, sup, reap, up>>

-----------------------------------------------------------------------------
(* The exit supervisor (supervisor.rs) and the guest.                      *)

\* The workload, or its connection with the VM, ends.
WorkloadExits(c) ==
    /\ c \in work
    /\ work' = work \ {c}
    /\ UNCHANGED <<storeVars, vm, ip, rootfs, taskVars, req, up>>

\* workload.cancel kills the workload, or fails; either way the supervisor goes
\* on waiting, and has no stop control any more.
CancelWorkload(c) ==
    /\ sup[c] = "signalled"
    /\ work' \in {work, work \ {c}}
    /\ sup' = [sup EXCEPT ![c] = "watch"]
    /\ UNCHANGED <<storeVars, vm, ip, rootfs, stops, reap, req, up>>

\* Mutant of RecordExit: the exit is recorded over whatever the record says.
RecordExitAlways(c) ==
    /\ sup[c] \in {"watch", "signalled"}
    /\ c \notin work
    /\ StoreContainers([ctr EXCEPT ![c] = "exited"])
    /\ sup' = [sup EXCEPT ![c] = "done"]
    /\ UNCHANGED <<sandbox, hostVars, stops, reap, req, up>>

RecordExit(c) ==
    /\ sup[c] \in {"watch", "signalled"}
    /\ c \notin work
    /\ MarkExitedIfRunning(c)
    /\ sup' = [sup EXCEPT ![c] = "done"]
    /\ UNCHANGED <<sandbox, hostVars, stops, reap, req, up>>

SupervisorEnds(c) ==
    /\ sup[c] = "done"
    /\ stops' = stops \ {c}
    /\ sup' = [sup EXCEPT ![c] = "none"]
    /\ UNCHANGED <<storeVars, hostVars, reap, req, up>>

Supervisor(c) == up /\ (CancelWorkload(c) \/ RecordExit(c) \/ SupervisorEnds(c))

\* The task that the guard of a dropped RunPodSandbox spawned; it looks neither
\* for a record of the sandbox nor at the outcome.
GuardReap ==
    /\ up
    /\ reap
    /\ reap' = FALSE
    /\ \/ vm.handle = "map" /\ Destroyed("guard")
       \/ /\ vm.handle = "map" /\ "destroy" \in Faults
          /\ vm' = [vm EXCEPT !.handle = "dropped"] /\ UNCHANGED work
       \/ vm.handle # "map" /\ UNCHANGED <<vm, work>>
    /\ UNCHANGED <<storeVars, ip, rootfs, stops, sup, req, up>>

VmExits ==
    /\ "exit" \in Faults
    /\ vm.alive
    /\ Destroyed(vm.handle)
    /\ UNCHANGED <<storeVars, ip, rootfs, taskVars, req, up>>

-----------------------------------------------------------------------------
(* A call that is dropped.                                                 *)

\* The guard is armed and the record not yet stored: the case it is for.
Abandon(h) ==
    /\ "cancel" \in Faults
    /\ At(h, "RunPodSandbox", "add")
    /\ sandbox' = "abandoned"
    /\ Disconnected
    /\ reap' = TRUE
    /\ Finish(h)
    /\ UNCHANGED <<saved, ctr, vm, rootfs, work, stops, sup, up>>

\* Before the guard: nothing is undone, and the boot may have started the VM.
CancelBoot(h) ==
    /\ "cancel" \in Faults
    /\ req[h].op = "RunPodSandbox" /\ req[h].pc \in {"boot", "track"}
    /\ sandbox' = "abandoned"
    /\ \/ vm' = [alive |-> TRUE, handle |-> "dropped"]
       \/ req[h].pc = "boot" /\ UNCHANGED vm
    /\ Finish(h)
    /\ UNCHANGED <<saved, ctr, ip, rootfs, work, taskVars, up>>

\* The record is in the store, but the guard is disarmed after it is saved.
CancelPersist(h) ==
    /\ "cancel" \in Faults
    /\ At(h, "RunPodSandbox", "persist")
    /\ Disconnected
    /\ reap' = TRUE
    /\ Finish(h)
    /\ UNCHANGED <<storeVars, vm, rootfs, work, stops, sup, up>>

\* Any other call stops where it is.  Dropping a StartContainer drops the stream
\* of the workload; dropping a destruction drops the VmManager; after it, nobody
\* marks the sandbox any more.
CancelCall(h) ==
    /\ "cancel" \in Faults
    /\ req[h].pc # "idle"
    /\ req[h].op # "RunPodSandbox"
    /\ \/ req[h].pc = "destroy" /\ Destroyed("dropped")
       \/ req[h].pc = "destroy" /\ vm' = [vm EXCEPT !.handle = "dropped"] /\ UNCHANGED work
       \/ /\ req[h].pc \in {"disconnect", "notready"}
          /\ vm' = [vm EXCEPT !.handle = IF @ = "none" /\ sandbox = "ready" THEN "halted" ELSE @]
          /\ UNCHANGED work
       \/ req[h].pc \notin {"destroy", "disconnect", "notready"} /\ UNCHANGED <<vm, work>>
    /\ sup' = [c \in Containers |-> IF c = req[h].c /\ req[h].pc \in {"spawn", "register", "supervise"}
                                    THEN "dropped" ELSE sup[c]]
    /\ Finish(h)
    /\ UNCHANGED <<storeVars, ip, rootfs, stops, reap, up>>

(* The service dies, stops, and starts again.                              *)

NoTasks ==
    /\ stops' = {}
    /\ sup' = [c \in Containers |-> "none"]
    /\ reap' = FALSE
    /\ req' = [h \in Handlers |-> Idle]

Crash ==
    /\ "crash" \in Faults
    /\ up
    /\ up' = FALSE
    /\ sandbox' = IF sandbox \in {"starting", "ready"} /\ ~saved THEN "lost" ELSE sandbox
    /\ vm' = [vm EXCEPT !.handle = IF @ = "map" THEN "none" ELSE IF @ = "handler" THEN "dropped" ELSE @]
    /\ NoTasks
    /\ UNCHANGED <<saved, ctr, ip, rootfs, work>>

\* shutdown_all_sandboxes, once the server has answered the calls it had.  After a
\* destruction that reports an error it cleans up and goes on all the same.
Shutdown ==
    /\ up
    /\ \A h \in Handlers : req[h].pc = "idle"
    /\ up' = FALSE
    /\ IF vm.handle = "map"
         THEN /\ \/ Destroyed("none")
                 \/ "destroy" \in Faults /\ vm' = [vm EXCEPT !.handle = "dropped"] /\ UNCHANGED work
              /\ rootfs' = {}
         ELSE UNCHANGED <<vm, work, rootfs>>
    /\ NoTasks
    /\ UNCHANGED <<storeVars, ip>>

\* Mutant of Restart: the VM of a sandbox that is loaded is left running.
RestartWithoutReaping ==
    /\ ~up
    /\ up' = TRUE
    /\ SetNotReady
    /\ rootfs' = IF InStore THEN {} ELSE rootfs
    /\ ctr' = [c \in Containers |-> IF Stored(ctr[c]) THEN "exited" ELSE ctr[c]]
    /\ UNCHANGED <<vm, work, ip, taskVars, req>>

\* load_state: what is loaded has no VM, so its remains are reaped.
Restart ==
    /\ ~up
    /\ up' = TRUE
    /\ SetNotReady
    /\ IF InStore THEN Destroyed("none") /\ rootfs' = {} ELSE UNCHANGED <<vm, work, rootfs>>
    /\ ctr' = [c \in Containers |-> IF Stored(ctr[c]) THEN "exited" ELSE ctr[c]]
    /\ UNCHANGED <<ip, taskVars, req>>

\* load_state gives up: the service starts with empty stores and reaps nothing.
RestartFresh ==
    /\ "load" \in Faults
    /\ ~up
    /\ up' = TRUE
    /\ sandbox' = IF InStore THEN "lost" ELSE sandbox
    /\ saved' = FALSE
    /\ ctr' = [c \in Containers |-> IF Stored(ctr[c]) THEN "removed" ELSE ctr[c]]
    /\ UNCHANGED <<hostVars, taskVars, req>>

-----------------------------------------------------------------------------

Handler(h) ==
    \/ Boot(h) \/ Track(h) \/ AddSandbox(h) \/ PersistSandbox(h)
    \/ TakeVm(h) \/ DestroyVm(h) \/ DisconnectNetwork(h) \/ MarkNotReady(h) \/ GiveBack(h)
    \/ \E c \in Containers : SignalEach(h, c) \/ ExitEach(h, c) \/ WipeEach(h, c)
    \/ Relist(h) \/ Unregister(h)
    \/ RemoveContainers(h) \/ UnregisterRemoved(h) \/ WipeSandbox(h) \/ RemoveSandbox(h)
    \/ PrepareRootfs(h) \/ Recheck(h) \/ AddContainer(h)
    \/ LookupVm(h) \/ MarkStarted(h) \/ Spawn(h) \/ SpawnFails(h) \/ Register(h) \/ Supervise(h)
    \/ Reread(h) \/ StopUnstarted(h) \/ StopWorkload(h) \/ WaitForExit(h) \/ Fallback(h)
    \/ MarkKilled(h) \/ Release(h) \/ DeleteContainer(h)

ClientCall(h) ==
    /\ up
    /\ \/ RunPodSandbox(h) \/ StopPodSandbox(h) \/ RemovePodSandbox(h)
       \/ \E c \in Containers : \/ CreateContainer(h, c) \/ StartContainer(h, c)
                                \/ StopContainer(h, c) \/ RemoveContainer(h, c)

\* What calls that were dropped left half-way: containers they created or started,
\* and the VM.
Remains ==
    {c \in Containers :
        \/ sup[c] = "dropped"
        \/ ctr[c] = "absent" /\ c \in rootfs /\ \A h \in Handlers : req[h].c # c}
    \cup {c \in {NoContainer} : vm.handle \in {"dropped", "halted", "guard"}}

Dropped(h) ==
    /\ Cardinality(Remains) < MaxRemains
    /\ Abandon(h) \/ CancelBoot(h) \/ CancelPersist(h) \/ CancelCall(h)

Next ==
    \/ \E h \in Handlers : ClientCall(h) \/ Handler(h) \/ Dropped(h)
    \/ \E c \in Containers : Supervisor(c) \/ WorkloadExits(c)
    \/ GuardReap \/ VmExits \/ Crash \/ Shutdown \/ Restart \/ RestartFresh

Spec == Init /\ [][Next]_vars

-----------------------------------------------------------------------------
(* Properties.                                                             *)

Starting(h, c) == req[h].c = c /\ req[h].pc \in {"spawn", "register", "supervise"}

\* Calls that start the same container at the same time, beside stops, removals
\* and restarts: one of them at most spawns the workload, and only where none
\* runs (the Created->Running transition of start_container).
OneStarter ==
    \A c \in Containers : \A h \in Handlers : Starting(h, c) =>
        /\ \A g \in Handlers \ {h} : ~Starting(g, c)
        /\ req[h].pc = "spawn" => c \notin work

\* A container that is listed as running has a StartContainer that has still to
\* answer or a supervisor that will record its exit, unless its StartContainer
\* was dropped half-way.
RunningIsBacked ==
    up => \A c \in Containers : ctr[c] = "running" =>
              \/ sup[c] \in {"watch", "signalled", "dropped"}
              \/ \E h \in Handlers : Starting(h, c)

\* A sandbox that is listed as ready has its VM in vm_managers, or a call that has
\* the VM is still to mark it.  Three cases are exempted, and in each of them the
\* sandbox stays listed as ready without a VM it can use: "dropped", the
\* destruction failed in a container call or the call was dropped during it;
\* "halted", the call was dropped after it, which the comment in stop_pod_sandbox
\* (mod.rs:846-850) means to rule out; "guard", RunPodSandbox was dropped while
\* add_sandbox saved the record, which mod.rs:757-760 says cannot happen.
ReadySandboxHasVm ==
    up /\ sandbox = "ready" =>
        \/ vm.handle \in {"map", "dropped", "halted", "guard"}
        \/ \E h \in Handlers : req[h].pc \in {"destroy", "disconnect", "notready"}

\* The root filesystem of a container that may still be started is there, with
\* removals, restarts and refused creations around it.
StartableHasRootfs ==
    up /\ sandbox = "ready" =>
        \A c \in Containers : ctr[c] \in {"created", "running"} => c \in rootfs

\* When a sandbox could not be booted or was removed, no VM process and no
\* address of it is left, unless its VmManager was dropped in a destruction that
\* failed or was dropped, or the network store refused to take the address back.
RemovedLeavesNothing ==
    sandbox \in {"failed", "removed"} =>
        /\ ip # "held"
        /\ vm.alive => vm.handle \in {"handler", "dropped"}

\* The live VM of a listed sandbox is in vm_managers or with the call that destroys
\* it while the service runs, after restarts too, where load_state reaps what a
\* crash left behind.  The exemption is a VmManager that was dropped in a
\* destruction that failed or was dropped: that VM runs on and nobody owns it.
LiveVmHasHolder ==
    up /\ InStore /\ vm.alive /\ vm.handle # "dropped" => vm.handle \in {"map", "handler"}

\* A container that has exited or was removed stays so, whatever calls,
\* supervisors and restarts were under way.  That includes the container whose
\* workload could not be spawned: start_container refuses it from then on
\* (mod.rs:1477-1481), although the comment at the failed spawn (mod.rs:1594-1596)
\* expects that "a retry can then start it cleanly".
ExitedIsFinal ==
    [][\A c \in Containers :
          /\ ctr[c] = "exited" => ctr'[c] \in {"exited", "removed"}
          /\ ctr[c] = "removed" => ctr'[c] = "removed"]_vars

\* What CancelGuard is documented to do: a RunPodSandbox that is dropped before
\* its sandbox is registered leaves neither VM nor address.
AbandonedRunIsUndone == sandbox = "abandoned" /\ up /\ ~reap => ~vm.alive /\ ip = "none"
=============================================================================
