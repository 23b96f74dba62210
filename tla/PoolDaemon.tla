----------------------------- MODULE PoolDaemon -----------------------------
(***************************************************************************)
(* The pool daemon (cli/src/commands/pool.rs) over one warm pool: `pool    *)
(* run` requests, leases that are granted, executed on and released, the   *)
(* reaper of expired leases, and the drain at shutdown.                    *)
(*                                                                         *)
(* A connection is served by a task.  Each pool has a semaphore of MaxSize *)
(* permits; a permit is held by a task from before acquire until the VM is *)
(* torn down, or lives in the LeasedVm it was granted for.                 *)
(***************************************************************************)
EXTENDS WarmPool

CONSTANTS
    Tasks,     \* connections served at the same time
    LeaseIds,  \* leases granted in one behaviour (identities are UUIDs)
    NoVm, NoLease

ASSUME FiniteAssumption == IsFiniteSet(Tasks) /\ IsFiniteSet(LeaseIds)
ASSUME NoVmAssumption == NoVm \notin VMs
ASSUME NoLeaseAssumption == NoLease \notin LeaseIds

VARIABLES
    task,    \* the connection tasks
    leases,  \* the LeasedVm objects
    reaper,  \* the lease reaper
    daemon   \* the accept loop, and after it the drain

daemonVars == <<task, leases, reaper, daemon>>
vars == <<poolVars, daemonVars>>

Kinds == {"run", "lease", "exec", "release"}
TaskPcs == {"none", "pool", "permit", "acquire", "booting", "exec", "respond", "teardown",
            "insert", "lookup", "vmlock", "running", "remove", "destroy"}
Task == [pc : TaskPcs, kind : Kinds, vm : VMs \cup {NoVm}, lease : LeaseIds \cup {NoLease}]
IdleTask == [pc |-> "none", kind |-> "run", vm |-> NoVm, lease |-> NoLease]

\* at: where the LeasedVm is: not granted, in the registry's map, taken out by
\* a release, the reaper (which may have condemned it) or the drain, or dropped
\* by one of them.  stale: last_used_ms is
\* older than the lease TTL.  execs: active_execs.
Lease == [at : {"none", "map", "release", "reaper", "condemned", "drain",
                "released", "reaped", "drained"},
          vm : VMs \cup {NoVm}, stale : BOOLEAN, execs : Nat]
NewLease == [at |-> "none", vm |-> NoVm, stale |-> FALSE, execs |-> 0]

\* ids: the expired leases the reaper saw.
Reaper == [pc : {"wait", "take", "decide"}, ids : SUBSET LeaseIds]

DaemonStates == {"serving", "leases", "pools", "idle", "drained", "exited"}

TypeOK ==
    /\ PoolTypeOK
    /\ task \in [Tasks -> Task]
    /\ leases \in [LeaseIds -> Lease]
    /\ reaper \in Reaper
    /\ daemon \in DaemonStates

Init ==
    /\ PoolInit
    /\ task = [t \in Tasks |-> IdleTask]
    /\ leases = [l \in LeaseIds |-> NewLease]
    /\ reaper = [pc |-> "wait", ids |-> {}]
    /\ daemon = "serving"

-----------------------------------------------------------------------------
(* Semaphore and locks.                                                    *)

\* Tasks that hold a permit of their own (a granted lease holds its own).
PermitHolders ==
    {t \in Tasks : task[t].kind \in {"run", "lease"}
                     /\ task[t].pc \in {"acquire", "booting", "exec", "respond", "teardown", "insert"}}
Dropped == {"released", "reaped", "drained"}
LeasesWithPermit == {l \in LeaseIds : leases[l].at \notin {"none"} \cup Dropped}
PermitsInUse == Cardinality(PermitHolders) + Cardinality(LeasesWithPermit)

\* drain_all keeps the lease map locked until its last VM is destroyed.
MapUnlocked == daemon # "leases"

\* The mutex of a leased VM is held while a command runs on it.
VmUnlocked(l) == \A t \in Tasks : ~(task[t].pc = "running" /\ task[t].lease = l)

Step(t, pc) == task' = [task EXCEPT ![t].pc = pc]
Finish(t) == task' = [task EXCEPT ![t] = IdleTask]

-----------------------------------------------------------------------------
(* Connections.                                                            *)

\* Bound: no more lease requests than there are lease identities left.
LeasesLeft ==
    Cardinality({l \in LeaseIds : leases[l].at = "none"})
      > Cardinality({t \in Tasks : task[t].pc # "none" /\ task[t].kind = "lease"})

\* The accept loop spawns a task for a connection.  Executions and releases
\* name any lease that was ever granted.
Accept(t, kind, l) ==
    /\ daemon = "serving"
    /\ task[t].pc = "none"
    /\ CASE kind = "run" -> l = NoLease
         [] kind = "lease" -> l = NoLease /\ LeasesLeft
         [] OTHER -> l \in LeaseIds /\ leases[l].at # "none"
    /\ task' = [task EXCEPT ![t] =
         [IdleTask EXCEPT !.kind = kind, !.lease = l,
                          !.pc = CASE kind = "exec" -> "lookup"
                                   [] kind = "release" -> "remove"
                                   [] OTHER -> "pool"]]
    /\ UNCHANGED <<poolVars, leases, reaper, daemon>>

\* get_or_create_with_size: the map of pools stays locked while a pool starts.
GetOrCreate(t) ==
    /\ task[t].pc = "pool"
    /\ daemon # "idle"
    /\ Step(t, "permit")
    /\ \/ pool = "open" /\ UNCHANGED poolVars
       \/ Start
    /\ UNCHANGED <<leases, reaper, daemon>>

AcquirePermit(t) ==
    /\ task[t].pc = "permit"
    /\ PermitsInUse < MaxSize
    /\ Step(t, "acquire")
    /\ UNCHANGED <<poolVars, leases, reaper, daemon>>

AfterAcquire(t) == IF task[t].kind = "run" THEN "exec" ELSE "insert"

Acquire(t) ==
    /\ task[t].pc = "acquire"
    /\ \/ \E v \in VMs : /\ PopIdle(v)
                         /\ task' = [task EXCEPT ![t].pc = AfterAcquire(t), ![t].vm = v]
       \/ \E v \in VMs : /\ BootOnDemand(v)
                         /\ task' = [task EXCEPT ![t].pc = "booting", ![t].vm = v]
    /\ UNCHANGED <<leases, reaper, daemon>>

\* The end of boot_new_vm.  An error is answered, with no VM and no permit.
BootDone(t) ==
    /\ task[t].pc = "booting"
    /\ \E outcome \in BootOutcomes :
         CASE outcome = "ready"   -> Step(t, AfterAcquire(t)) /\ UNCHANGED <<live, lost>>
           [] outcome = "failed"  -> Finish(t) /\ Destroy({task[t].vm})
           [] outcome = "unready" -> Finish(t) /\ Abandon({task[t].vm})
    /\ UNCHANGED <<pool, idle, shutdown, minIdle, maint>>
    /\ UNCHANGED <<leases, reaper, daemon>>

\* The command of a `pool run` ends, with a result or an error.
RunCommand(t) ==
    /\ task[t].pc = "exec"
    /\ Step(t, "respond")
    /\ UNCHANGED <<poolVars, leases, reaper, daemon>>

\* Mutant of Respond: the permit is dropped with the answer, before the teardown.
RespondDropsPermit(t) ==
    /\ task[t].pc = "respond"
    /\ task' = [task EXCEPT ![t].pc = "teardown", ![t].kind = "release"]
    /\ UNCHANGED <<poolVars, leases, reaper, daemon>>

\* write_frame: when the client is gone, `?` drops the VM and its permit.
Respond(t) ==
    /\ task[t].pc = "respond"
    /\ \/ Step(t, "teardown") /\ UNCHANGED <<live, lost>>
       \/ "disconnect" \in Losses /\ Finish(t) /\ Abandon({task[t].vm})
    /\ UNCHANGED <<pool, idle, shutdown, minIdle, maint>>
    /\ UNCHANGED <<leases, reaper, daemon>>

\* The background task destroys the VM, then drops the permit.
Teardown(t) ==
    /\ task[t].pc = "teardown"
    /\ Destroy({task[t].vm})
    /\ Finish(t)
    /\ UNCHANGED <<pool, idle, shutdown, minIdle, maint>>
    /\ UNCHANGED <<leases, reaper, daemon>>

\* lease_vm puts the VM, with the permit, into the map under a fresh identity.
InsertLease(t, l) ==
    /\ task[t].pc = "insert"
    /\ MapUnlocked
    /\ leases[l].at = "none"
    /\ leases' = [leases EXCEPT ![l].at = "map", ![l].vm = task[t].vm]
    /\ Finish(t)
    /\ UNCHANGED <<poolVars, reaper, daemon>>

\* exec_lease: look the lease up and count the execution, under the map's lock.
LookupLease(t) ==
    LET l == task[t].lease IN
    /\ task[t].pc = "lookup"
    /\ MapUnlocked
    /\ IF leases[l].at = "map"
         THEN /\ leases' = [leases EXCEPT ![l].execs = @ + 1]
              /\ Step(t, "vmlock")
         ELSE /\ Finish(t)
              /\ UNCHANGED leases
    /\ UNCHANGED <<poolVars, reaper, daemon>>

LockVm(t) ==
    /\ task[t].pc = "vmlock"
    /\ VmUnlocked(task[t].lease)
    /\ Step(t, "running")
    /\ UNCHANGED <<poolVars, leases, reaper, daemon>>

\* The command ends; LeaseExecGuard's drop sets last_used_ms and uncounts it.
ExecDone(t) ==
    /\ task[t].pc = "running"
    /\ leases' = [leases EXCEPT ![task[t].lease].execs = @ - 1,
                                ![task[t].lease].stale = FALSE]
    /\ Finish(t)
    /\ UNCHANGED <<poolVars, reaper, daemon>>

\* release_lease: out of the map, then destroyed under the VM's own mutex.
RemoveLease(t) ==
    LET l == task[t].lease IN
    /\ task[t].pc = "remove"
    /\ MapUnlocked
    /\ IF leases[l].at = "map"
         THEN /\ leases' = [leases EXCEPT ![l].at = "release"]
              /\ Step(t, "destroy")
         ELSE /\ Finish(t)
              /\ UNCHANGED leases
    /\ UNCHANGED <<poolVars, reaper, daemon>>

\* Destroying a leased VM and dropping the LeasedVm with its permit.
DropLease(l, how) ==
    /\ VmUnlocked(l)
    /\ Destroy({leases[l].vm})
    /\ leases' = [leases EXCEPT ![l].at = how, ![l].vm = NoVm]
    /\ UNCHANGED <<pool, idle, shutdown, minIdle, maint>>

DestroyReleased(t) ==
    /\ task[t].pc = "destroy"
    /\ DropLease(task[t].lease, "released")
    /\ Finish(t)
    /\ UNCHANGED <<reaper, daemon>>

-----------------------------------------------------------------------------
(* The reaper.                                                             *)

\* Time passes for a lease.
Age(l) ==
    /\ daemon # "exited"
    /\ leases[l].at \in {"map", "reaper"}
    /\ ~leases[l].stale
    /\ leases' = [leases EXCEPT ![l].stale = TRUE]
    /\ UNCHANGED <<poolVars, task, reaper, daemon>>

LeaseIsExpired(l) == leases[l].stale /\ leases[l].execs = 0

\* expired_lease_ids
ReaperScan ==
    /\ reaper.pc = "wait"
    /\ MapUnlocked
    /\ LET ids == {l \in LeaseIds : leases[l].at = "map" /\ LeaseIsExpired(l)} IN
       /\ ids # {}
       /\ reaper' = [pc |-> "take", ids |-> ids]
    /\ UNCHANGED <<poolVars, task, leases, daemon>>

\* The map is locked again to take them out; some may have gone meanwhile.
ReaperTake ==
    LET taken == {l \in reaper.ids : leases[l].at = "map"} IN
    /\ reaper.pc = "take"
    /\ MapUnlocked
    /\ leases' = [l \in LeaseIds |->
                    IF l \in taken THEN [leases[l] EXCEPT !.at = "reaper"] ELSE leases[l]]
    /\ reaper' = [pc |-> "decide", ids |-> taken]
    /\ UNCHANGED <<poolVars, task, daemon>>

\* Mutant of ReaperDecide: what was expired at the scan is condemned.
ReaperDecideUnchecked(l) ==
    /\ reaper.pc = "decide"
    /\ l \in reaper.ids
    /\ leases[l].at = "reaper"
    /\ leases' = [leases EXCEPT ![l].at = "condemned"]
    /\ UNCHANGED <<reaper, poolVars, task, daemon>>

\* Per lease: put back one that is in use or was used again, condemn the others.
ReaperDecide(l) ==
    /\ reaper.pc = "decide"
    /\ l \in reaper.ids
    /\ leases[l].at = "reaper"
    /\ \/ /\ ~LeaseIsExpired(l)
          /\ MapUnlocked
          /\ leases' = [leases EXCEPT ![l].at = "map"]
          /\ reaper' = [reaper EXCEPT !.ids = @ \ {l}]
       \/ /\ LeaseIsExpired(l)
          /\ leases' = [leases EXCEPT ![l].at = "condemned"]
          /\ UNCHANGED reaper
    /\ UNCHANGED <<poolVars, task, daemon>>

\* The VM of a condemned lease is destroyed once its mutex is free.
ReaperDestroy(l) ==
    /\ reaper.pc = "decide"
    /\ leases[l].at = "condemned"
    /\ DropLease(l, "reaped")
    /\ reaper' = [reaper EXCEPT !.ids = @ \ {l}]
    /\ UNCHANGED <<task, daemon>>

\* Mutant of ReaperEnd: the reaper makes one round only.
ReaperEndsForEver ==
    /\ reaper.pc = "decide"
    /\ reaper.ids = {}
    /\ UNCHANGED vars

ReaperEnd ==
    /\ reaper.pc = "decide"
    /\ reaper.ids = {}
    /\ reaper' = [reaper EXCEPT !.pc = "wait"]
    /\ UNCHANGED <<poolVars, task, leases, daemon>>

-----------------------------------------------------------------------------
(* Shutdown.                                                               *)

\* A stop request or Ctrl-C: the lease map is locked and emptied.
BeginDrain ==
    /\ daemon = "serving"
    /\ daemon' = "leases"
    /\ leases' = [l \in LeaseIds |->
                    IF leases[l].at = "map" THEN [leases[l] EXCEPT !.at = "drain"] ELSE leases[l]]
    /\ UNCHANGED <<poolVars, task, reaper>>

DrainLease(l) ==
    /\ daemon = "leases"
    /\ leases[l].at = "drain"
    /\ DropLease(l, "drained")
    /\ UNCHANGED <<task, reaper, daemon>>

DrainLeasesDone ==
    /\ daemon = "leases"
    /\ \A l \in LeaseIds : leases[l].at # "drain"
    /\ daemon' = "pools"
    /\ UNCHANGED <<poolVars, task, leases, reaper>>

\* The pools are locked: a pool that exists is signalled, then drained.
DrainPool ==
    /\ daemon = "pools"
    /\ \/ pool = "open" /\ SignalShutdown /\ daemon' = "idle"
       \/ pool = "absent" /\ UNCHANGED poolVars /\ daemon' = "drained"
    /\ UNCHANGED <<task, leases, reaper>>

DrainPoolIdle ==
    /\ daemon = "idle"
    /\ DrainIdle
    /\ daemon' = "drained"
    /\ UNCHANGED <<task, leases, reaper>>

\* serve returns; the tasks end with the process, the VMs do not.
Exit ==
    /\ daemon = "drained"
    /\ daemon' = "exited"
    /\ UNCHANGED <<poolVars, task, leases, reaper>>

-----------------------------------------------------------------------------
TaskStep(t) ==
    \/ GetOrCreate(t)
    \/ AcquirePermit(t)
    \/ Acquire(t)
    \/ BootDone(t)
    \/ RunCommand(t)
    \/ Respond(t)
    \/ Teardown(t)
    \/ \E l \in LeaseIds : InsertLease(t, l)
    \/ LookupLease(t)
    \/ LockVm(t)
    \/ ExecDone(t)
    \/ RemoveLease(t)
    \/ DestroyReleased(t)

ReaperStep ==
    \/ ReaperScan
    \/ ReaperTake
    \/ \E l \in LeaseIds : ReaperDecide(l) \/ ReaperDestroy(l)
    \/ ReaperEnd

\* The steps that end with the process.
Running ==
    \/ \E t \in Tasks, kind \in Kinds, l \in LeaseIds \cup {NoLease} : Accept(t, kind, l)
    \/ \E t \in Tasks : TaskStep(t)
    \/ ReaperStep
    \/ Maintenance /\ UNCHANGED daemonVars
    \/ BeginDrain
    \/ \E l \in LeaseIds : DrainLease(l)
    \/ DrainLeasesDone
    \/ DrainPool
    \/ DrainPoolIdle
    \/ Exit

Next ==
    \/ daemon # "exited" /\ Running
    \/ \E l \in LeaseIds : Age(l)

Spec == Init /\ [][Next]_vars

\* Tasks are scheduled, commands end, the semaphore serves in order, the reaper
\* ticks and time passes.  Nothing is assumed of clients or of shutdown.
FairSpec ==
    /\ Spec
    /\ \A t \in Tasks : /\ WF_vars(daemon # "exited" /\ TaskStep(t))
                       /\ SF_vars(daemon # "exited" /\ AcquirePermit(t))
    /\ WF_vars(daemon # "exited" /\ ReaperStep)
    /\ \A l \in LeaseIds : WF_vars(Age(l))
    /\ WF_vars(\/ \E l \in LeaseIds : DrainLease(l)
               \/ DrainLeasesDone \/ DrainPool \/ DrainPoolIdle)

-----------------------------------------------------------------------------
(* Properties.                                                             *)

\* Whoever holds the manager of v.
Owners(v) ==
    {<<"idle", i>> : i \in {i \in DOMAIN idle : idle[i] = v}}
      \cup {<<"slot", 0>> : x \in {v} \cap maint.slots}
      \cup {<<"doomed", 0>> : x \in {v} \cap maint.doomed}
      \cup {<<"task", t>> : t \in {t \in Tasks : task[t].vm = v}}
      \cup {<<"lease", l>> : l \in {l \in LeaseIds : leases[l].vm = v}}

\* A VM is never handed to two requests, never idle while it is leased, and
\* every running VM has exactly one owner, which will destroy it: neither the
\* replenisher, eviction, the reaper, a release nor the drain loses one
\* (warm_pool.rs, pool.rs: no Drop reaper).  The exceptions are the two error
\* returns that drop a VmManager: a guest that was not ready in time
\* (warm_pool.rs:498) and a client that is gone when its answer is written
\* (pool.rs:1194).  Their VMs are lost, and a lost VM has no owner.
VmHasOneOwner ==
    \A v \in VMs : IF v \in live \ lost THEN Cardinality(Owners(v)) = 1 ELSE Owners(v) = {}

\* The VMs that requests and leases have are never more than the pool's
\* maximum, whatever VMs were lost before: a permit moves with its VM and is
\* given back once, after the teardown.  The lost VMs themselves are beside it
\* (see InUseWithinMax).
InUseWithinPermits ==
    Cardinality(live \ (ToSet(idle) \cup maint.slots \cup maint.doomed \cup lost)) <= MaxSize

\* What pool.rs:1127 says of the permit, "released only once the VM is torn
\* down", and hence of all the VMs that left the pool and still run: they are at
\* most max_size.
InUseWithinMax ==
    Cardinality(live \ (ToSet(idle) \cup maint.slots \cup maint.doomed)) <= MaxSize

\* A command that found its lease is never overtaken by the reaper, although
\* the reaper chose the lease, took it out and judged it at different moments
\* (pool.rs:213: "never reclaimed mid-command").
CommandsOutliveReaper ==
    \A t \in Tasks :
        task[t].pc \in {"vmlock", "running"} => leases[task[t].lease].at \notin {"condemned", "reaped"}

\* Once a pool has been drained nothing is put into it, whatever boots were
\* under way (warm_pool.rs:823).
DrainedPoolStaysEmpty ==
    shutdown /\ daemon \in {"drained", "exited"} => idle = <<>>

\* A command waits for, or runs on, the VM of lease l.
InUse(l) == \E t \in Tasks : task[t].pc \in {"vmlock", "running"} /\ task[t].lease = l

\* A lease that stays granted for ever is used for ever: an abandoned one is
\* reclaimed, even when the reaper found it busy before (pool.rs:210).
AbandonedLeasesReclaimed ==
    \A l \in LeaseIds :
        <>[](leases[l].at \in {"map", "reaper", "condemned"} /\ daemon # "exited") => []<>InUse(l)

\* When clients stop using their leases, every request that waits for a permit
\* gets one: the reaper frees what clients forgot.
RequestsGetPermits ==
    <>[](\A l \in LeaseIds : ~InUse(l))
        => \A t \in Tasks :
             task[t].pc = "permit" ~> task[t].pc # "permit" \/ daemon = "exited"
=============================================================================
