---------------------------- MODULE CliLifecycle ----------------------------
(***************************************************************************)
(* The lifecycle of one box that the CLI commands manage themselves: its   *)
(* record in boxes.json has no managed execution (compose services and     *)
(* boxes restored from a snapshot; auto_remove is false). Several          *)
(* processes work on the record: user commands, the monitor that restarts  *)
(* dead and unhealthy boxes, and one health worker per boot. Commands and  *)
(* boots hold the per-box lifecycle lock; every load reconciles the record *)
(* with the VM process without it. A step is what a process does between   *)
(* two waits: a lock, a boot, a signal and its wait, a probe.              *)
(***************************************************************************)
EXTENDS Naturals, FiniteSets

CONSTANTS
    Users,      \* command processes at one time
    Monitor,    \* the a3s-box monitor process
    Nobody,     \* the lifecycle lock is free
    Pids,       \* shim identities: a PID with its start time
    NoPid,
    Commands,   \* which commands users run
    Policies,   \* restart policies: [kind |-> ..., max |-> ...]
    Retries,    \* failed probes that make a box unhealthy
    Faults      \* {"write"} when a write of boxes.json can fail, else {}

ASSUME RetriesAssumption == Retries \in Nat \ {0}

ASSUME ProcessesAssumption == Monitor \notin Users /\ Nobody \notin Users \cup {Monitor}

ASSUME PidsAssumption == NoPid \notin Pids

ASSUME CommandsAssumption ==
    Commands \subseteq {"start", "stop", "kill", "term", "pause", "unpause", "restart",
                        "rm", "rm_force"}

ASSUME FaultsAssumption == Faults \subseteq {"write"}

ASSUME PoliciesAssumption ==
    Policies \subseteq
        [kind: {"no", "always", "unless-stopped", "on-failure", "on-failure:N"}, max: Nat]

VARIABLES
    rec,        \* the record in boxes.json
    policy,     \* its restart policy
    procs,      \* the shim processes
    marker,     \* the exit code guest-init left in the writable rootfs
    mounted,    \* are the overlay and the volumes of the box mounted?
    lock,       \* holder of the lifecycle lock
    proc,       \* what each command process and the monitor is doing
    workers,    \* boots whose detached health worker runs
    untracked,  \* history: VMs the code loses. A boot that was interrupted or
                \* could not be recorded, a VM that got a stopping signal
                \* other than SIGKILL, which the record forgets at once, and
                \* a VM whose record prune removed
    exposed     \* history: VMs whose mounts a failed write of boxes.json puts
                \* at risk

vars == <<rec, policy, procs, marker, mounted, lock, proc, workers, untracked, exposed>>

Actors == Users \cup {Monitor}
Active == {"running", "paused"}
ExitCodes == {"none", "ok", "fail"}

\* op: the command, "dead" or "unhealthy" for a restart by the monitor
Process ==
    [pc: {"idle", "lock", "end", "settle", "reboot", "boot", "record", "probe", "flush",
          "prune"},
     op: Commands \cup {"none", "ps", "prune", "dead", "unhealthy"},
     pid: Pids \cup {NoPid}]

Idle == [pc |-> "idle", op |-> "none", pid |-> NoPid]

Record ==
    [status: {"created", "running", "paused", "stopped", "dead", "absent"},
     pid: Pids \cup {NoPid}, user: BOOLEAN, restarts: Nat,
     health: {"none", "starting", "healthy", "unhealthy"}, retries: 0..Retries,
     exit: ExitCodes]

Created ==
    [status |-> "created", pid |-> NoPid, user |-> FALSE, restarts |-> 0,
     health |-> "none", retries |-> 0, exit |-> "none"]

Alive(p) == p # NoPid /\ procs[p] # "gone"

\* is_record_pid_live: the recorded PID is alive and is still this process
PidLive(r) == Alive(r.pid)

-----------------------------------------------------------------------------
(* state/file.rs and state/policy.rs                                       *)

\* Mutant: the recorded PID survives the reconciliation of a dead box.
ReconciledKeepsPid(r) ==
    IF r.status \in Active /\ ~PidLive(r)
    THEN [r EXCEPT !.status = "dead", !.health = "none", !.retries = 0]
    ELSE r

Reconciled(r) ==
    IF r.status \in Active /\ ~PidLive(r)
    THEN [r EXCEPT !.status = "dead", !.pid = NoPid, !.health = "none",
                   !.retries = 0, !.exit = IF @ = "none" THEN marker ELSE @]
    ELSE r

\* What a load returns: the record reconciled in memory.
Loaded == Reconciled(rec)

\* Every load: when reconciling changed the record, flush_reconcile tears the
\* dead box down (cleanup_stopped_box) and persists the record in one locked
\* transaction that reads it again. A failed flush is ignored: the file keeps
\* the old record, before or after the teardown.
Reconcile ==
    \/ /\ rec' = Reconciled(rec)
       /\ mounted' = (mounted /\ rec' = rec)
    \/ /\ "write" \in Faults
       /\ Loaded # rec
       /\ rec' = rec
       /\ mounted' \in {mounted, FALSE}

\* max is max_restart_count, where 0 is unlimited, and the N of on-failure:N,
\* where 0 is never.
Limited == policy.max > 0 \/ policy.kind = "on-failure:N"

\* The restart policy asks for a restart, whatever the count.
Wanted(r) ==
    \/ policy.kind = "always"
    \/ policy.kind = "unless-stopped" /\ ~r.user
    \/ policy.kind \in {"on-failure", "on-failure:N"} /\ ~r.user /\ r.exit # "ok"

\* Mutant: one restart too many.
ShouldRestartOnceMore(r) == Wanted(r) /\ (Limited => r.restarts <= policy.max)

should_restart(r) == Wanted(r) /\ (Limited => r.restarts < policy.max)

\* is_unhealthy_restart_candidate
UnhealthyCandidate(r) ==
    r.status = "running" /\ r.health = "unhealthy" /\ should_restart(r)

-----------------------------------------------------------------------------
(* Processes and the lifecycle lock                                        *)

Set(a, state) == proc' = [proc EXCEPT ![a] = state]
Goto(a, pc) == Set(a, [proc[a] EXCEPT !.pc = pc])

\* A command that waits for the lock gets it, loads the record and goes on
\* with the lock, or returns and releases it.
Take(a) == lock = Nobody /\ lock' = a
Drop(a) == lock = a /\ lock' = Nobody
TakeAndReturn(a) == lock = Nobody /\ lock' = Nobody /\ Set(a, Idle)

\* A shim identity nothing refers to any more stands for a new process.
Fresh ==
    {p \in Pids : /\ procs[p] = "gone" /\ p \notin workers /\ rec.pid # p
                  /\ \A a \in Actors : proc[a].pid # p}

\* A user runs a command: it loads the state file and resolves the box.
Begin(a, op) ==
    /\ proc[a].pc = "idle"
    /\ rec.status # "absent"
    /\ Reconcile
    /\ Set(a, [pc |-> "lock", op |-> op, pid |-> NoPid])
    /\ UNCHANGED <<policy, procs, marker, lock, workers, untracked, exposed>>

\* A command that only lists boxes: its load sees a dead box first, and
\* flush_reconcile reads the record again under the state lock.
Observe(a) ==
    /\ proc[a].pc = "idle"
    /\ Loaded # rec
    /\ Set(a, [pc |-> "flush", op |-> "ps", pid |-> NoPid])
    /\ UNCHANGED <<rec, policy, procs, marker, mounted, lock, workers, untracked, exposed>>

\* Mutant: the teardown decided on before the lock is carried out regardless.
FlushUnchecked(a) ==
    /\ proc[a].pc = "flush"
    /\ mounted' = FALSE
    /\ rec' = Reconciled(rec)
    /\ Set(a, Idle)
    /\ UNCHANGED <<policy, procs, marker, lock, workers, untracked, exposed>>

Flush(a) ==
    /\ proc[a].pc = "flush"
    /\ Reconcile
    /\ Set(a, Idle)
    /\ UNCHANGED <<policy, procs, marker, lock, workers, untracked, exposed>>

\* prune: it lists the boxes that are not active, and then removes them.
ListPrunable(a) ==
    /\ proc[a].pc = "idle"
    /\ Reconcile
    /\ Loaded.status \in {"created", "stopped", "dead"}
    /\ Set(a, [pc |-> "prune", op |-> "prune", pid |-> NoPid])
    /\ UNCHANGED <<policy, procs, marker, lock, workers, untracked, exposed>>

\* It holds no lock, and the records it writes back are the ones it listed: the
\* box is removed whatever happened to it meanwhile. A failed write changes
\* nothing.
Prune(a) ==
    /\ proc[a].pc = "prune"
    /\ rec' = [Created EXCEPT !.status = "absent"]
    /\ untracked' = IF PidLive(rec) THEN untracked \cup {rec.pid} ELSE untracked
    /\ Set(a, Idle)
    /\ UNCHANGED <<policy, procs, marker, mounted, lock, workers, exposed>>

\* The states a command accepts, with the live PID that most of them require.
Accepts(op, r) ==
    CASE op = "start" -> r.status \in {"created", "stopped", "dead"}
      [] op \in {"stop", "kill", "term"} -> r.status \in Active /\ PidLive(r)
      [] op = "pause" -> r.status = "running" /\ PidLive(r)
      [] op = "unpause" -> r.status = "paused" /\ PidLive(r)
      [] op = "restart" -> r.status \in {"created", "stopped", "dead"} \/ PidLive(r)
      [] op = "rm" -> r.status \notin Active
      [] op = "rm_force" -> r.status # "absent"
      [] op = "unhealthy" -> UnhealthyCandidate(r) /\ ~r.user /\ PidLive(r)

\* stop_one, start_one, ... under the lock: load again and decide.
Lock(a) ==
    /\ proc[a].pc = "lock"
    /\ Reconcile
    /\ IF Loaded.status = "absent" \/ ~Accepts(proc[a].op, Loaded)
       THEN TakeAndReturn(a)
       ELSE CASE proc[a].op = "start" -> Take(a) /\ Goto(a, "boot")
              [] proc[a].op = "restart" /\ Loaded.status \notin Active
                    -> lock = Nobody /\ UNCHANGED lock /\ Goto(a, "reboot")
              [] OTHER -> Take(a) /\ Set(a, [proc[a] EXCEPT !.pc = "end", !.pid = Loaded.pid])
    /\ UNCHANGED <<policy, procs, marker, workers, untracked, exposed>>

-----------------------------------------------------------------------------
(* Ending and freezing a VM                                                *)

\* A VM that ends by itself writes its exit code, one that is killed does not.
Exits(p) ==
    /\ procs' = [procs EXCEPT ![p] = "gone"]
    /\ marker' \in {marker, "ok", "fail"}
    /\ untracked' = untracked \ {p}
    /\ exposed' = exposed \ {p}

\* Mutant: the monitor's graceful stop gives up instead of forcing the exit.
EndWithoutForce(a) ==
    /\ proc[a].pc = "end"
    /\ Goto(a, "settle")
    /\ \/ proc[a].op \in {"stop", "kill", "rm_force", "restart"} /\ Exits(proc[a].pid)
       \/ proc[a].op = "unhealthy" /\ UNCHANGED <<procs, marker, untracked, exposed>>
    /\ UNCHANGED <<rec, policy, mounted, lock, workers>>

\* graceful_stop and graceful_stop_via_guest wait for the exit and force it;
\* SIGKILL is taken as immediate. Another stopping signal ("term") resumes a
\* paused VM, is delivered and not waited for. pause and unpause signal the
\* shim.
End(a) ==
    /\ proc[a].pc = "end"
    /\ LET p == proc[a].pid IN
       CASE proc[a].op \in {"stop", "kill", "rm", "rm_force", "restart", "unhealthy"} ->
              /\ IF Alive(p) THEN Exits(p) ELSE UNCHANGED <<procs, marker, untracked, exposed>>
              /\ Goto(a, "settle") /\ UNCHANGED lock
         [] proc[a].op = "term" /\ Alive(p) ->
              /\ \/ Exits(p)
                 \/ /\ procs' = [procs EXCEPT ![p] = "live"]
                    /\ UNCHANGED <<marker, untracked, exposed>>
              /\ Goto(a, "settle") /\ UNCHANGED lock
         [] proc[a].op \in {"pause", "unpause"} /\ Alive(p) ->
              /\ procs' = [procs EXCEPT ![p] = IF proc[a].op = "pause" THEN "frozen" ELSE "live"]
              /\ Goto(a, "settle") /\ UNCHANGED <<marker, lock, untracked, exposed>>
         [] OTHER -> \* the signal fails: the command returns its error
              /\ Drop(a) /\ Set(a, Idle) /\ UNCHANGED <<procs, marker, untracked, exposed>>
    /\ UNCHANGED <<rec, policy, mounted, workers>>

\* What the command writes when the record still names the execution that it
\* acted on.
Settled(op, r) ==
    CASE op \in {"stop", "kill", "term"} ->
            [r EXCEPT !.status = "stopped", !.pid = NoPid, !.user = TRUE,
                      !.exit = "fail", !.health = "none", !.retries = 0]
      [] op = "restart" -> [r EXCEPT !.status = "stopped", !.pid = NoPid]
      [] op = "pause" -> [r EXCEPT !.status = "paused"]
      [] op = "unpause" -> [r EXCEPT !.status = "running"]
      [] op = "unhealthy" -> [r EXCEPT !.status = "dead", !.pid = NoPid,
                                       !.health = "none", !.retries = 0]
      [] op \in {"rm", "rm_force"} -> [Created EXCEPT !.status = "absent"]

\* matches_execution, health_restart_matches_execution; rm removes in any case.
Matches(a) ==
    \/ proc[a].op \in {"rm", "rm_force"}
    \/ /\ rec.pid = proc[a].pid
       /\ proc[a].op = "unhealthy" => UnhealthyCandidate(rec) /\ ~rec.user

\* stop, kill and rm tear the box down before they write the record.
Teardown(a) ==
    mounted' = (mounted /\ proc[a].op \in {"restart", "pause", "unpause", "unhealthy"})

\* The record write after the wait.
SettleRecord(a) ==
    /\ rec' = IF Matches(a) THEN Settled(proc[a].op, rec) ELSE rec
    /\ untracked' = IF proc[a].op = "term" /\ Alive(proc[a].pid)
                    THEN untracked \cup {proc[a].pid} ELSE untracked
    /\ Set(a, IF proc[a].op \in {"restart", "unhealthy"} /\ Matches(a)
              THEN [proc[a] EXCEPT !.pc = "reboot", !.pid = NoPid]
              ELSE Idle)
    /\ UNCHANGED exposed

\* The write fails and the command returns its error; a box torn down under a
\* VM that has not exited yet keeps its record.
SettleFails(a) ==
    /\ "write" \in Faults
    /\ exposed' = IF proc[a].op = "term" /\ Alive(proc[a].pid)
                  THEN exposed \cup {proc[a].pid} ELSE exposed
    /\ Set(a, Idle)
    /\ UNCHANGED <<rec, untracked>>

\* Mutant: restart enters boot_and_record with the lifecycle lock in its hands.
SettleKeepsLock(a) ==
    /\ proc[a].pc = "settle"
    /\ Teardown(a)
    /\ SettleRecord(a)
    /\ IF proc'[a].pc = "reboot" THEN UNCHANGED lock ELSE Drop(a)
    /\ UNCHANGED <<policy, procs, marker, workers>>

\* A restart, by a user or by the monitor, gives the lock back before it boots.
Settle(a) ==
    /\ proc[a].pc = "settle"
    /\ Teardown(a)
    /\ SettleRecord(a) \/ SettleFails(a)
    /\ Drop(a)
    /\ UNCHANGED <<policy, procs, marker, workers>>

-----------------------------------------------------------------------------
(* Booting: boot.rs and start_one                                          *)

\* Mutant: the loser of a race for the lock does not look who is running.
RebootUnchecked(a) ==
    /\ proc[a].pc = "reboot"
    /\ Reconcile
    /\ IF Loaded.status = "absent" THEN TakeAndReturn(a) ELSE Take(a) /\ Goto(a, "boot")
    /\ UNCHANGED <<policy, procs, marker, workers, untracked, exposed>>

\* boot_and_record under the lock: another process may have started or removed
\* the box meanwhile. Whether the restart is still wanted is not asked again.
Reboot(a) ==
    /\ proc[a].pc = "reboot"
    /\ Reconcile
    /\ IF Loaded.status = "absent" \/ PidLive(Loaded)
       THEN TakeAndReturn(a)
       ELSE Take(a) /\ Goto(a, "boot")
    /\ workers' = IF proc[a].op = "restart" /\ PidLive(Loaded)
                  THEN workers \cup {Loaded.pid} ELSE workers
    /\ UNCHANGED <<policy, procs, marker, untracked, exposed>>

\* boot_from_record: a failed boot rolls its resources back. When a failed
\* flush left the dead VM in the record, the next load tears the box down
\* again, under the new VM.
Boot(a) ==
    /\ proc[a].pc = "boot"
    /\ \/ \E p \in Fresh :
             /\ procs' = [procs EXCEPT ![p] = "live"]
             /\ mounted' = TRUE
             /\ Set(a, [proc[a] EXCEPT !.pc = "record", !.pid = p])
             /\ exposed' = IF rec.pid # NoPid THEN exposed \cup {p} ELSE exposed
             /\ UNCHANGED lock
       \/ /\ Drop(a) /\ Set(a, Idle)
          /\ mounted' = FALSE
          /\ UNCHANGED <<procs, exposed>>
    /\ UNCHANGED <<rec, policy, marker, workers, untracked>>

\* restart_count: start resets it, restart preserves it, the monitor counts.
apply_boot_result(r, p, op) ==
    [status |-> "running", pid |-> p, user |-> FALSE, health |-> "starting",
     retries |-> 0, exit |-> "none",
     restarts |-> CASE op = "start" -> 0
                    [] op = "restart" -> r.restarts
                    [] OTHER -> r.restarts + 1]

\* The boot is published. Only user commands start a health worker.
PublishBoot(a) ==
    /\ rec' = apply_boot_result(rec, proc[a].pid, proc[a].op)
    /\ workers' = IF a = Monitor THEN workers ELSE workers \cup {proc[a].pid}
    /\ UNCHANGED <<procs, marker, mounted, untracked, exposed>>

\* The write fails and the error is returned: nothing stops the VM.
LoseBoot(a) ==
    /\ "write" \in Faults
    /\ untracked' = IF Alive(proc[a].pid) THEN untracked \cup {proc[a].pid} ELSE untracked
    /\ UNCHANGED <<rec, procs, marker, mounted, workers, exposed>>

\* prune removed the record meanwhile: the VM is stopped and the box torn down.
UndoBoot(a) ==
    /\ Exits(proc[a].pid)
    /\ mounted' = FALSE
    /\ UNCHANGED <<rec, workers>>

RecordBoot(a) ==
    /\ proc[a].pc = "record"
    /\ IF rec.status = "absent" THEN UndoBoot(a) ELSE PublishBoot(a) \/ LoseBoot(a)
    /\ Drop(a) /\ Set(a, Idle)
    /\ UNCHANGED policy

-----------------------------------------------------------------------------
(* The monitor and the health workers                                      *)

\* apply_probe_result
Probed(r, healthy) ==
    CASE r.status # "running" -> r
      [] r.status = "running" /\ healthy -> [r EXCEPT !.health = "healthy", !.retries = 0]
      [] OTHER -> [r EXCEPT !.retries = IF @ < Retries THEN @ + 1 ELSE @,
                            !.health = IF r.retries + 1 >= Retries THEN "unhealthy" ELSE @]

\* A candidate of this poll: dead boxes go straight to the boot, unhealthy
\* ones are stopped first. A box in backoff is skipped.
Pursue(op) ==
    [Idle EXCEPT !.op = op,
                 !.pc = CASE op = "none" -> "idle" [] op = "dead" -> "reboot"
                          [] op = "unhealthy" -> "lock"]

Candidate(r) ==
    CASE r.status = "dead" /\ should_restart(r) -> "dead"
      [] UnhealthyCandidate(r) -> "unhealthy"
      [] OTHER -> "none"

\* poll_once loads the records once: the candidates are the ones of this
\* load, also when due probes are waited for in between.
Poll ==
    /\ proc[Monitor].pc = "idle"
    /\ Reconcile
    /\ \E op \in {"none", Candidate(Loaded)} :
          \/ Set(Monitor, Pursue(op))
          \/ /\ Loaded.status = "running" /\ Loaded.pid \notin workers
             /\ Set(Monitor, [Pursue(op) EXCEPT !.pc = "probe"])
    /\ UNCHANGED <<policy, procs, marker, lock, workers, untracked, exposed>>

\* The verdict is written to whatever execution is running by then.
ProbeDone ==
    /\ proc[Monitor].pc = "probe"
    /\ \E healthy \in BOOLEAN : rec' = Probed(rec, healthy)
    /\ Set(Monitor, Pursue(proc[Monitor].op))
    /\ UNCHANGED <<policy, procs, marker, mounted, lock, workers, untracked, exposed>>

\* run_health_loop of the worker of boot p: its verdicts are for that boot
\* only, and it ends with it.
Worker(p) ==
    /\ p \in workers
    /\ \/ /\ rec.status = "running" /\ rec.pid = p
          /\ \E healthy \in BOOLEAN : rec' = Probed(rec, healthy)
          /\ UNCHANGED <<mounted, workers>>
       \/ /\ Reconcile
          /\ ~(Loaded.status = "running" /\ Loaded.pid = p)
          /\ workers' = workers \ {p}
    /\ UNCHANGED <<policy, procs, marker, lock, proc, untracked, exposed>>

-----------------------------------------------------------------------------
(* The environment, and the specification                                  *)

\* The VM ends by itself, with or without an exit code.
VmExit(p) ==
    /\ procs[p] = "live"
    /\ Exits(p)
    /\ UNCHANGED <<rec, policy, mounted, lock, proc, workers>>

\* A command is interrupted: the kernel releases its lock. The monitor ends
\* only between two polls.
Interrupt(a) ==
    /\ proc[a].pc # "idle"
    /\ Set(a, Idle)
    /\ lock' = IF lock = a THEN Nobody ELSE lock
    /\ untracked' = IF proc[a].pc = "record" /\ Alive(proc[a].pid)
                    THEN untracked \cup {proc[a].pid} ELSE untracked
    /\ UNCHANGED <<rec, policy, procs, marker, mounted, workers, exposed>>

Init ==
    /\ rec = Created
    /\ policy \in Policies
    /\ procs = [p \in Pids |-> "gone"]
    /\ marker = "none"
    /\ mounted = FALSE
    /\ lock = Nobody
    /\ proc = [a \in Actors |-> Idle]
    /\ workers = {}
    /\ untracked = {}
    /\ exposed = {}

\* The steps a process takes once it has begun.
Step(a) ==
    \/ Lock(a) \/ End(a) \/ Settle(a) \/ Reboot(a) \/ Boot(a) \/ RecordBoot(a)

Next ==
    \/ \E u \in Users, op \in Commands : Begin(u, op)
    \/ \E u \in Users : Observe(u) \/ Flush(u) \/ Interrupt(u)
    \/ \E u \in Users : ListPrunable(u) \/ Prune(u)
    \/ \E a \in Actors : Step(a)
    \/ Poll \/ ProbeDone
    \/ \E p \in Pids : Worker(p) \/ VmExit(p)

Spec == Init /\ [][Next]_vars

-----------------------------------------------------------------------------
(* Properties                                                              *)

\* A record names a process exactly while it is running or paused.
TypeOK ==
    /\ rec \in Record /\ (rec.pid # NoPid <=> rec.status \in Active)
    /\ policy \in Policies
    /\ procs \in [Pids -> {"gone", "live", "frozen"}]
    /\ marker \in ExitCodes
    /\ mounted \in BOOLEAN
    /\ lock \in Actors \cup {Nobody}
    /\ proc \in [Actors -> Process]
    /\ workers \subseteq Pids
    /\ untracked \subseteq Pids
    /\ exposed \subseteq Pids

\* The VMs the code accounts for. The others are the ones it loses: the VM of a
\* boot that was interrupted or could not be recorded, the VM of a box killed
\* with a stopping signal other than SIGKILL, whose exit kill does not wait for
\* before it clears the PID, and the VM of a box started between prune's
\* listing and its removal. While a lost VM runs, the next start boots a second
\* one.
Ours == {p \in Pids : Alive(p) /\ p \notin untracked}

\* "Cannot boot the same box twice": user starts and restarts and the monitor's
\* restarts race for the lock on records that are old by the time they boot,
\* and the box has one VM, next to the VMs that Ours leaves out.
OneVm == Cardinality(Ours) <= 1

\* A live VM is the one its record names, or the one the holder of the lock is
\* about to record: apart from the losses that Ours leaves out, no reader,
\* failed write or command drops the PID of a VM that still runs.
LiveVmIsTracked ==
    \A p \in Ours :
        \/ rec.pid = p
        \/ \E a \in Actors : lock = a /\ proc[a].pc = "record" /\ proc[a].pid = p

\* The teardown of a dead box by a reader without the lifecycle lock never
\* takes the mounts of the VM that replaced it, unless a write of boxes.json
\* failed: the reconciliation of the dead VM, before the boot of this one, or
\* the record of a kill that does not wait.
TeardownSparesLiveVm == Ours \ exposed # {} => mounted

\* The monitor restarts a box at most max times since a user started it, though
\* it decides on a record that is old when it boots; on-failure:0 never.
RestartBudget == Limited => rec.restarts <= policy.max

\* Nobody waits for the lock that it holds: a restart by a user or by the
\* monitor gives it back before boot_and_record takes it.
NobodyWaitsForItself ==
    \A a \in Actors : proc[a].pc \in {"lock", "reboot"} => lock # a

\* "so we don't resurrect a box the user explicitly stopped": the monitor never
\* boots a box whose record says that the user stopped it.
MonitorRespectsStop ==
    [][proc[Monitor].pc = "boot" /\ proc'[Monitor].pc = "record" => ~rec.user]_vars

=============================================================================
