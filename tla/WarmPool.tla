------------------------------ MODULE WarmPool ------------------------------
(***************************************************************************)
(* The warm pool of one key (runtime/src/pool/warm_pool.rs, scaler.rs): a  *)
(* list of booted idle VMs, the maintenance task that evicts, rescales and *)
(* replenishes it, and the operations a request uses.  The requests        *)
(* themselves are in PoolDaemon.                                           *)
(*                                                                         *)
(* A VM is a process: dropping the VmManager that describes it does not    *)
(* stop it (there is no Drop reaper).  A VM therefore belongs to whoever   *)
(* holds its manager, and one that nobody holds runs for ever.             *)
(***************************************************************************)
EXTENDS Naturals, Sequences, FiniteSets, SequencesExt

CONSTANTS
    VMs,           \* identities of VM processes; a dead one is used again
    MaxSize,       \* PoolConfig::max_size
    MinIdle,       \* PoolConfig::min_idle
    MaxMinIdle,    \* the scaler's upper bound for min_idle
    Losses         \* which of the ways to lose a VM happen: "unready", "disconnect"

ASSUME SizeAssumption ==
    /\ MaxSize \in Nat \ {0}
    /\ MinIdle \in 0..MaxSize
    /\ MaxMinIdle \in 1..MaxSize
ASSUME VmsAssumption == IsFiniteSet(VMs)
ASSUME LossAssumption == Losses \subseteq {"unready", "disconnect"}

VARIABLES
    live,      \* the VM processes that run
    lost,      \* ghost: those whose VmManager was dropped without a destroy
    pool,      \* "absent" or "open": whether the registry has this pool
    idle,      \* WarmPool::idle, oldest first
    shutdown,  \* the watch channel's value
    minIdle,   \* the scaler's current_min_idle
    maint      \* the maintenance task

poolVars == <<live, lost, pool, idle, shutdown, minIdle, maint>>

MaintPcs == {"none", "sleep", "evict", "replenish", "done"}

\* slots: VMs of the replenish batch; doomed: evicted VMs not yet destroyed.
Maint == [pc : MaintPcs, slots : SUBSET VMs, doomed : SUBSET VMs]

PoolTypeOK ==
    /\ live \subseteq VMs
    /\ lost \subseteq VMs
    /\ pool \in {"absent", "open"}
    /\ idle \in Seq(VMs)
    /\ shutdown \in BOOLEAN
    /\ minIdle \in 0..MaxSize
    /\ maint \in Maint

PoolInit ==
    /\ live = {}
    /\ lost = {}
    /\ pool = "absent"
    /\ idle = <<>>
    /\ shutdown = FALSE
    /\ minIdle = MinIdle
    /\ maint = [pc |-> "none", slots |-> {}, doomed |-> {}]

-----------------------------------------------------------------------------
(* Booting.                                                                *)

\* The identities that n processes may have when they are started.
Fresh(n, running) == kSubset(n, VMs \ running)
Spawn(vms) == live' = live \cup vms /\ UNCHANGED lost

\* The ways boot_or_restore ends for a process it started, cold or restored from
\* the template: the VM is ready; or boot failed and cleaned up; or the guest was
\* not ready in time, and the error drops the manager of a VM that goes on running.
BootOutcomes == {"ready", "failed"} \cup (Losses \cap {"unready"})

Destroy(vms) == live' = live \ vms /\ UNCHANGED lost

\* An error return drops the manager: the process goes on, and is nobody's.
Abandon(vms) == lost' = lost \cup vms /\ UNCHANGED live

\* fill_to_min before anybody else sees the pool: MinIdle VMs, or, when a boot
\* fails, none (remove_idle_vms destroys the ones added), with perhaps one lost.
Start ==
    /\ pool = "absent"
    /\ pool' = "open"
    /\ maint' = [maint EXCEPT !.pc = "sleep"]
    /\ \/ \E vms \in Fresh(MinIdle, live) : Spawn(vms) /\ idle' \in SetToSeqs(vms)
       \/ UNCHANGED <<live, lost, idle>>
       \/ /\ "unready" \in Losses
          /\ \E vms \in Fresh(1, live) : live' = live \cup vms /\ lost' = lost \cup vms
          /\ UNCHANGED <<idle>>
    /\ UNCHANGED <<shutdown, minIdle>>

-----------------------------------------------------------------------------
(* What a request does with the pool.                                      *)

\* acquire, first half, hit: the youngest idle VM.
PopIdle(v) ==
    /\ idle # <<>>
    /\ v = Last(idle)
    /\ idle' = Front(idle)
    /\ UNCHANGED <<live, lost, pool, shutdown, minIdle, maint>>

\* acquire, miss: boot_new_vm begins, whatever the shutdown flag says.
BootOnDemand(v) ==
    /\ idle = <<>>
    /\ v \notin live
    /\ Spawn({v})
    /\ UNCHANGED <<pool, idle, shutdown, minIdle, maint>>

-----------------------------------------------------------------------------
(* The maintenance task.                                                   *)

\* Mutant of Evict: the expired VMs are destroyed and stay in the list.
EvictKeepsEntries ==
    /\ maint.pc = "sleep"
    /\ \E n \in 0..Len(idle) :
         maint' = [maint EXCEPT !.pc = "evict", !.doomed = ToSet(SubSeq(idle, 1, n))]
    /\ UNCHANGED <<live, lost, pool, idle, shutdown, minIdle>>

\* evict_expired_static, under the idle lock.  VMs are appended as they are
\* created, so the expired ones are a prefix.
Evict ==
    /\ maint.pc = "sleep"
    /\ \E n \in 0..Len(idle) :
         /\ idle' = SubSeq(idle, n + 1, Len(idle))
         /\ maint' = [maint EXCEPT !.pc = "evict",
                                   !.doomed = ToSet(SubSeq(idle, 1, n))]
    /\ UNCHANGED <<live, lost, pool, shutdown, minIdle>>

\* Mutant of Evaluate: scaling up does not stop at the maximum.
EvaluateUnbounded(current) == {current, current + 1}

\* PoolScaler::evaluate: the miss rate is high, low or neither; a decision in
\* the cooldown, or on fewer than three events, is to hold.
Evaluate(current) ==
    {current,
     IF current + 1 <= MaxMinIdle THEN current + 1 ELSE current,
     IF current > 1 THEN current - 1 ELSE current}

\* The rest of eviction, the autoscaler and the decision how many VMs to boot.
EvictThenReplenish ==
    /\ maint.pc = "evict"
    /\ minIdle' \in Evaluate(minIdle)
    /\ LET needed == IF Len(idle) < minIdle' THEN minIdle' - Len(idle) ELSE 0
           kept == live \ maint.doomed IN
       \E slots \in Fresh(needed, kept) :
         /\ live' = kept \cup slots
         /\ maint' = [maint EXCEPT !.pc = "replenish", !.slots = slots, !.doomed = {}]
    /\ UNCHANGED <<lost, pool, idle, shutdown>>

\* Mutant of ReplenishOne: the flag is not read again when a boot ends.
ReplenishOneUnchecked(v) ==
    /\ maint.pc = "replenish"
    /\ v \in maint.slots
    /\ maint' = [maint EXCEPT !.slots = @ \ {v}]
    /\ idle' = Append(idle, v)
    /\ UNCHANGED <<live, lost, pool, shutdown, minIdle>>

\* One boot of the batch ends.  The shutdown flag is read under the idle lock.
ReplenishOne(v) ==
    /\ maint.pc = "replenish"
    /\ v \in maint.slots
    /\ maint' = [maint EXCEPT !.slots = @ \ {v}]
    /\ \E outcome \in BootOutcomes :
         CASE outcome = "ready" /\ ~shutdown ->
                /\ idle' = Append(idle, v)
                /\ UNCHANGED <<live, lost>>
           [] outcome = "failed" \/ (outcome = "ready" /\ shutdown) ->
                /\ Destroy({v})
                /\ UNCHANGED <<idle>>
           [] outcome = "unready" -> Abandon({v}) /\ UNCHANGED idle
    /\ UNCHANGED <<pool, shutdown, minIdle>>

ReplenishEnd ==
    /\ maint.pc = "replenish"
    /\ maint.slots = {}
    /\ maint' = [maint EXCEPT !.pc = "sleep"]
    /\ UNCHANGED <<live, lost, pool, idle, shutdown, minIdle>>

\* The loop sees the shutdown signal when it waits.
MaintenanceStops ==
    /\ maint.pc = "sleep"
    /\ shutdown
    /\ maint' = [maint EXCEPT !.pc = "done"]
    /\ UNCHANGED <<live, lost, pool, idle, shutdown, minIdle>>

Maintenance ==
    \/ Evict
    \/ EvictThenReplenish
    \/ \E v \in VMs : ReplenishOne(v)
    \/ ReplenishEnd
    \/ MaintenanceStops

-----------------------------------------------------------------------------
(* Shutdown.                                                               *)

SignalShutdown ==
    /\ shutdown' = TRUE
    /\ UNCHANGED <<live, lost, pool, idle, minIdle, maint>>

\* drain_idle holds the idle lock until the last VM is destroyed.
DrainIdle ==
    /\ Destroy(ToSet(idle))
    /\ idle' = <<>>
    /\ UNCHANGED <<pool, shutdown, minIdle, maint>>
=============================================================================
