--------------------------- MODULE LocalExecution ---------------------------
(***************************************************************************)
(* LocalExecutionManager (runtime/src/local_execution/): the lifecycle of  *)
(* one managed Sandbox execution. Every lifecycle operation runs under the *)
(* execution's cross-process lock (lifecycle_lock.rs), so at most one      *)
(* operation "op" is in progress; its steps are the points at which a      *)
(* crash of the manager process, an exit of the container or a failing     *)
(* host command leaves different durable state behind. A crash releases    *)
(* the lock and forgets the registered VmManager; the record, the          *)
(* container, runtime.json, the rootfs and the attachments survive.        *)
(***************************************************************************)
EXTENDS SandboxBackend

CONSTANT PausePolicies \* the keep_memory arguments callers use

ASSUME PausePoliciesAssumption == PausePolicies \subseteq BOOLEAN

VARIABLES
    rec,   \* the durable record (boxes.json)
    op,    \* the operation that holds the lifecycle lock
    snaps  \* the published filesystem snapshots

vars == <<rec, op, snaps, crun, runtimeJson, owner, rootfs, attached, freezeFailed,
          faults>>

-----------------------------------------------------------------------------
(* Requests and the operation in progress.                                 *)

Requests ==
    [name: {"inspect", "reconcile"}]
      \cup [name: {"start", "resume", "kill", "remove"}, gen: Generations]
      \cup [name: {"pause"}, gen: Generations, keep: PausePolicies]
      \cup [name: {"snapshot"}, gen: Generations, snap: SnapshotIds]
      \cup [name: {"restart"}, gen: Generations, id: OperationIds, opts: RestartOptions]

\* Steps that query the backend and decide on what they see.
InspectSteps == {"observe", "ensure_started", "recover_start", "start_failed",
                 "pause_failed", "resume_failed", "cold_resume", "cold_pause_failed",
                 "kill_failed", "restart_stop_failed", "snapshot_inspect",
                 "snapshot_pause_failed", "snapshot_resume_failed"}

Steps == InspectSteps \cup
    {"idle", "dispatch", "claim_start", "start", "launch", "record", "ready",
     "pause", "resume", "cold_pause", "kill", "restart_stop", "snapshot_pause",
     "snapshot_capture", "snapshot_resume", "release", "commit",
     "remove_release", "remove_cleanup", "remove_forget"}

\* The transition an operation has decided on, and the step after it.
Decisions == [to: States, upd: RuntimeUpdates,
              next: {"idle", "dispatch", "claim_start", "start"}]

Operation == [req: Requests, pc: Steps, then: Decisions,
              acquired: BOOLEAN, reuse: BOOLEAN]

NoDecision == [to |-> "created", upd |-> "none", next |-> "idle"]

NewOperation(req) ==
    [req |-> req, pc |-> "dispatch", then |-> NoDecision,
     acquired |-> FALSE, reuse |-> FALSE]

Idle == [NewOperation([name |-> "inspect"]) EXCEPT !.pc = "idle"]

\* The operation returns to its caller and releases the lock.
Done == Idle

Goto(pc) == [op EXCEPT !.pc = pc]

CommitThen(to, upd, next) ==
    [op EXCEPT !.pc = "commit", !.then = [to |-> to, upd |-> upd, next |-> next]]

Commit(to, upd) == CommitThen(to, upd, "idle")

ReleaseThen(to, upd, next) ==
    [op EXCEPT !.pc = "release", !.then = [to |-> to, upd |-> upd, next |-> next]]

Release(to, upd) == ReleaseThen(to, upd, "idle")

\* Persist a claim before any side effect and go on at step pc.
Claim(to, intent, pc) ==
    /\ CanTransition(rec, to, intent)
    /\ rec' = TransitionWith(rec, to, "none", intent)
    /\ op' = Goto(pc)

Continue(pc) ==
    /\ op' = Goto(pc)
    /\ UNCHANGED rec

Refuse ==
    /\ op' = Done
    /\ UNCHANGED rec

-----------------------------------------------------------------------------
Init ==
    /\ rec = NewRecord("absent")
    /\ op = Idle
    /\ snaps = {}
    /\ BackendInit

\* create: reserve writes the record once; a retry returns the existing one.
Create ==
    /\ rec.state = "absent"
    /\ rec' = NewRecord("created")
    /\ UNCHANGED <<op, snaps, backendVars>>

\* A caller obtains the lifecycle lock. pause, resume and restart requests of
\* the last generation are left out: the counter is bounded here.
Acquire(req) ==
    /\ op.pc = "idle"
    /\ rec.state \notin Vacant
    /\ req.name \in {"pause", "resume", "restart"} => rec.gen < MaxGeneration
    /\ op' = NewOperation(req)
    /\ UNCHANGED <<rec, snaps, backendVars>>

\* drive_snapshot, entered by the snapshot operation, by reconcile, and by
\* stabilize_snapshot before inspect, pause, resume, restart and kill.
DriveSnapshot ==
    Continue(IF rec.pending.src = "paused" /\ ~rec.warm
             THEN "snapshot_capture" ELSE "snapshot_inspect")

Fenced == op.req.gen = rec.gen

DispatchStart ==
    /\ op.req.name = "start"
    /\ \/ Fenced /\ rec.state \in {"creating", "created"} /\ Claim("starting", NoOperation, "start")
       \/ Fenced /\ rec.state = "starting" /\ Continue("ensure_started")
       \/ ~(Fenced /\ rec.state \in {"creating", "created", "starting"}) /\ Refuse

DispatchPause ==
    /\ op.req.name = "pause"
    /\ \/ rec.state = "snapshotting" /\ DriveSnapshot
       \/ /\ Fenced /\ rec.state = "running"
          /\ Claim("pausing", [kind |-> "pause", keep |-> op.req.keep],
                   IF op.req.keep THEN "pause" ELSE "cold_pause")
       \/ rec.state # "snapshotting" /\ ~(Fenced /\ rec.state = "running") /\ Refuse

DispatchResume ==
    /\ op.req.name = "resume"
    /\ \/ rec.state = "snapshotting" /\ DriveSnapshot
       \/ /\ Fenced /\ rec.state = "paused"
          /\ Claim("resuming", NoOperation, IF rec.warm THEN "resume" ELSE "cold_resume")
       \/ rec.state # "snapshotting" /\ ~(Fenced /\ rec.state = "paused") /\ Refuse

DispatchKill ==
    /\ op.req.name = "kill"
    /\ \/ rec.state = "snapshotting" /\ DriveSnapshot
       \/ Fenced /\ rec.state = "killing" /\ Continue("kill")
       \/ /\ Fenced /\ <<rec.state, "killing">> \in LegalEdges
          /\ Claim("killing", Intent("kill"), "kill")
       \/ /\ rec.state # "snapshotting"
          /\ ~(Fenced /\ (rec.state = "killing" \/ <<rec.state, "killing">> \in LegalEdges))
          /\ Refuse

DispatchRemove ==
    /\ op.req.name = "remove"
    /\ \/ /\ Fenced /\ CanBeginRemove(rec)
          /\ rec' = BeginRemove(rec)
          /\ op' = Goto("remove_release")
       \/ ~(Fenced /\ CanBeginRemove(rec)) /\ Refuse

DispatchSnapshot ==
    /\ op.req.name = "snapshot"
    /\ \/ Fenced /\ rec.state = "snapshotting" /\ rec.pending.snap = op.req.snap /\ DriveSnapshot
       \/ /\ Fenced /\ rec.state \in SnapshotSources /\ op.req.snap \notin snaps
          /\ Claim("snapshotting",
                   [kind |-> "snapshot", snap |-> op.req.snap, src |-> rec.state],
                   IF rec.state = "paused" /\ ~rec.warm
                   THEN "snapshot_capture" ELSE "snapshot_inspect")
       \/ /\ ~(Fenced /\ rec.state = "snapshotting" /\ rec.pending.snap = op.req.snap)
          /\ ~(Fenced /\ rec.state \in SnapshotSources /\ op.req.snap \notin snaps)
          /\ Refuse

\* completed_restart_result: the retried identity already ran to an end.
CompletedRestart == rec.last.done /\ rec.last.id = op.req.id

\* require_matching_restart
MatchingRestart ==
    /\ rec.pending.id = op.req.id
    /\ rec.pending.srcGen = op.req.gen
    /\ rec.pending.opts = op.req.opts

\* Mutant: the runtime of a paused source is not stopped.
ContinueRestartOfRunning(r) ==
    IF r.state = "restart_starting" THEN Goto("start")
    ELSE IF r.pending.src = "running" THEN Goto("restart_stop")
    ELSE ReleaseThen("restart_starting", "restart_advance", "start")

\* continue_restart on record r: only a restart of a running or paused source
\* has a runtime to stop.
ContinueRestart(r) ==
    IF r.state = "restart_starting" THEN Goto("start")
    ELSE IF r.pending.src \in {"running", "paused"} THEN Goto("restart_stop")
    ELSE ReleaseThen("restart_starting", "restart_advance", "start")

\* Mutant: a completed restart is executed again.
RestartAllowedAgain == op.req.id # CreationId

RestartAllowed == ~CompletedRestart /\ op.req.id # CreationId

DispatchRestart ==
    /\ op.req.name = "restart"
    /\ \/ rec.state = "snapshotting" /\ DriveSnapshot
       \/ /\ RestartAllowed
          /\ rec.state \in {"restart_stopping", "restart_starting"} /\ MatchingRestart
          /\ op' = ContinueRestart(rec)
          /\ UNCHANGED rec
       \/ /\ RestartAllowed
          /\ rec.state \in RestartSources /\ Fenced
          /\ LET intent == [kind |-> "restart", id |-> op.req.id, srcGen |-> rec.gen,
                            src |-> rec.state, opts |-> op.req.opts]
             IN  /\ CanTransition(rec, "restart_stopping", intent)
                 /\ rec' = TransitionWith(rec, "restart_stopping", "none", intent)
          /\ op' = ContinueRestart(rec')
       \/ /\ rec.state # "snapshotting"
          /\ ~(/\ RestartAllowed
               /\ \/ rec.state \in {"restart_stopping", "restart_starting"} /\ MatchingRestart
                  \/ rec.state \in RestartSources /\ Fenced)
          /\ Refuse

\* The part of observe_record that comes before the backend query.
ObserveRecord ==
    \/ rec.state = "pausing" /\ ~rec.pending.keep /\ Continue("cold_pause")
    \/ rec.state = "resuming" /\ ~rec.warm /\ Continue("cold_resume")
    \/ /\ \/ rec.state \in {"creating", "created", "stopped", "failed", "removing"}
          \/ rec.state = "paused" /\ ~rec.warm
          \/ rec.state = "restart_stopping" /\ rec.pending.src \notin {"running", "paused"}
       /\ Refuse
    \/ /\ \/ rec.state \in {"starting", "running", "killing", "restart_starting"}
          \/ rec.state = "pausing" /\ rec.pending.keep
          \/ rec.state \in {"resuming", "paused"} /\ rec.warm
          \/ rec.state = "restart_stopping" /\ rec.pending.src \in {"running", "paused"}
       /\ Continue("observe")

DispatchInspect ==
    /\ op.req.name = "inspect"
    /\ \/ rec.state = "snapshotting" /\ DriveSnapshot
       \/ rec.state # "snapshotting" /\ ObserveRecord

DispatchReconcile ==
    /\ op.req.name = "reconcile"
    /\ \/ rec.state = "starting" /\ Continue("recover_start")
       \/ rec.state = "snapshotting" /\ DriveSnapshot
       \/ rec.state = "killing" /\ Continue("kill")
       \/ rec.state = "removing" /\ Continue("remove_release")
       \/ /\ rec.state \in {"restart_stopping", "restart_starting"}
          /\ op' = ContinueRestart(rec)
          /\ UNCHANGED rec
       \/ /\ rec.state \in States \ {"starting", "snapshotting", "killing", "removing",
                                     "restart_stopping", "restart_starting"}
          /\ ObserveRecord

Dispatch ==
    /\ op.pc = "dispatch"
    /\ \/ DispatchStart
       \/ DispatchPause
       \/ DispatchResume
       \/ DispatchKill
       \/ DispatchRemove
       \/ DispatchSnapshot
       \/ DispatchRestart
       \/ DispatchInspect
       \/ DispatchReconcile
    /\ UNCHANGED <<snaps, backendVars>>

-----------------------------------------------------------------------------
(* What an operation decides once it has inspected the backend.            *)

\* Backend evidence that the runtime is gone.
Gone(obs) == obs \in {"stopped", "not_found"}

\* observe_record after the query; reconcile then finishes a pause or resume
\* the runtime has not performed yet.
Observe(obs) ==
    CASE obs = "not_found" /\ rec.state \in {"starting", "restart_stopping", "restart_starting"}
            -> Done
      [] obs = "not_found" /\ rec.state = "killing" -> Release("stopped", "terminal")
      [] obs = "not_found" /\ rec.state \in {"running", "pausing", "paused", "resuming"}
            -> Release("failed", "terminal")
      [] obs = "running" /\ rec.state = "starting" -> Commit("running", "start_handle")
      [] obs = "paused" /\ rec.state = "pausing" -> Commit("paused", "handle")
      [] obs = "running" /\ rec.state = "resuming" -> Commit("running", "handle")
      [] obs = "running" /\ rec.state = "restart_starting" -> Commit("running", "restart_handle")
      [] obs = "stopped" /\ rec.state = "restart_starting" -> Commit("failed", "restart_failed")
      [] obs = "stopped" /\ rec.state \in {"starting", "running", "pausing", "paused",
                                           "resuming", "killing"}
            -> Release("stopped", "terminal")
      [] obs = "running" /\ rec.state = "pausing" /\ op.req.name = "reconcile" -> Goto("pause")
      [] obs = "paused" /\ rec.state = "resuming" /\ op.req.name = "reconcile" -> Goto("resume")
      [] OTHER -> Done

\* ensure_started on a record that is already starting
EnsureStarted(obs) ==
    CASE obs = "running" -> Commit("running", "start_handle")
      [] obs = "stopped" -> Commit("failed", "terminal")
      [] OTHER -> Done

\* Mutant: a start that left no evidence is left alone.
RecoverStartedOnly(obs) ==
    IF obs = "running" THEN Commit("running", "start_handle") ELSE Done

\* recover_start: a start that left no evidence is claimed again.
RecoverStart(obs) ==
    CASE obs = "not_found" -> CommitThen("created", "none", "claim_start")
      [] obs = "running" -> Commit("running", "start_handle")
      [] obs \in {"stopped", "paused"} -> Commit("failed", "terminal")
      [] OTHER -> Done

\* Mutant: a start whose runtime is gone is tried again without end.
RetryStartForEver(obs) ==
    IF Gone(obs) THEN Goto("start") ELSE Done

\* resolve_start_error, resolve_cold_resume_error, resolve_restart_start_error
ResolveStartError(obs) ==
    CASE rec.state = "starting" /\ obs = "running" -> Commit("running", "start_handle")
      [] rec.state = "starting" /\ Gone(obs) -> Commit("failed", "terminal")
      [] rec.state = "resuming" /\ obs = "running" -> Commit("running", "start_handle")
      [] rec.state = "resuming" /\ (Gone(obs) \/ obs = "paused") -> Release("paused", "none")
      [] rec.state = "restart_starting" /\ obs = "running" -> Commit("running", "restart_handle")
      [] rec.state = "restart_starting" /\ Gone(obs) -> Release("failed", "restart_failed")
      [] OTHER -> Done

ResolvePauseError(obs) ==
    CASE obs = "paused" -> Commit("paused", "handle")
      [] obs = "running" -> Commit("running", "none")
      [] OTHER -> Done

ResolveResumeError(obs) ==
    CASE obs = "running" -> Commit("running", "handle")
      [] obs = "paused" -> Commit("paused", "none")
      [] OTHER -> Done

\* finish_cold_resume looks for the replacement runtime before it starts one.
FinishColdResume(obs) ==
    CASE obs = "running" -> Commit("running", "start_handle")
      [] Gone(obs) -> Goto("start")
      [] OTHER -> Done

\* finish_cold_pause after stop_for_restart failed
ResolveColdPauseError(obs) ==
    CASE Gone(obs) -> Release("paused", "cold_pause")
      [] obs = "running" -> Commit("running", "none")
      [] OTHER -> Done

\* Mutants: a failed kill is published as stopped without evidence, or without
\* releasing the attachments.
ResolveKillErrorUnseen(obs) == Release("stopped", "kill_terminal")

ResolveKillErrorUnreleased(obs) ==
    IF Gone(obs) THEN Commit("stopped", "kill_terminal") ELSE Done

ResolveKillError(obs) ==
    IF Gone(obs) THEN Release("stopped", "kill_terminal") ELSE Done

\* Mutant: the stop of a restart is finished like a kill.
ConfirmRestartKillAsKill(obs) ==
    IF Gone(obs) THEN Release("stopped", "kill_terminal") ELSE Done

\* confirm_restart_kill after stop_for_restart failed
ConfirmRestartKill(obs) ==
    IF Gone(obs) THEN ReleaseThen("restart_starting", "restart_advance", "start") ELSE Done

\* drive_snapshot: only a live runtime with a handle can be captured.
SnapshotInspected(obs) ==
    CASE rec.pending.src = "running" /\ obs = "running" -> Goto("snapshot_pause")
      [] obs = "paused" -> Goto("snapshot_capture")
      [] OTHER -> Done

SnapshotRestored == CommitThen("running", "handle", op.then.next)

Decide(obs) ==
    CASE op.pc = "observe" -> Observe(obs)
      [] op.pc = "ensure_started" -> EnsureStarted(obs)
      [] op.pc = "recover_start" -> RecoverStart(obs)
      [] op.pc = "start_failed" -> ResolveStartError(obs)
      [] op.pc = "pause_failed" -> ResolvePauseError(obs)
      [] op.pc = "resume_failed" -> ResolveResumeError(obs)
      [] op.pc = "cold_resume" -> FinishColdResume(obs)
      [] op.pc = "cold_pause_failed" -> ResolveColdPauseError(obs)
      [] op.pc = "kill_failed" -> ResolveKillError(obs)
      [] op.pc = "restart_stop_failed" -> ConfirmRestartKill(obs)
      [] op.pc = "snapshot_inspect" -> SnapshotInspected(obs)
      [] op.pc = "snapshot_pause_failed" -> IF obs = "paused" THEN Goto("snapshot_capture") ELSE Done
      [] op.pc = "snapshot_resume_failed" -> IF obs = "running" THEN SnapshotRestored ELSE Done

InspectBackend ==
    /\ op.pc \in InspectSteps
    /\ \E obs \in Observations :
          /\ InspectSandbox(rec, obs)
          /\ op' = Decide(obs)
    /\ UNCHANGED <<rec, snaps>>

-----------------------------------------------------------------------------
(* Starting a runtime: claim_and_start, backend start in four steps.       *)

ClaimStart ==
    /\ op.pc = "claim_start"
    /\ Claim("starting", NoOperation, "start")
    /\ UNCHANGED <<snaps, backendVars>>

AfterStart(ok, next) == IF ok THEN next ELSE Goto("start_failed")

StartPrepare ==
    /\ op.pc = "start"
    /\ \E ok \in BOOLEAN :
          /\ PrepareResources(ok)
          /\ op' = AfterStart(ok,
                     [op EXCEPT !.pc = "launch", !.acquired = ~attached,
                                !.reuse = ShouldReusePreservedRootfs(rec) /\ rootfs])
    /\ UNCHANGED <<rec, snaps>>

StartLaunch ==
    /\ op.pc = "launch"
    /\ \E ok \in BOOLEAN :
          /\ Launch(op.acquired, op.reuse, ok)
          /\ op' = AfterStart(ok, Goto("record"))
    /\ UNCHANGED <<rec, snaps>>

StartRecord ==
    /\ op.pc = "record"
    /\ \E ok \in BOOLEAN :
          /\ RecordRuntime(op.acquired, op.reuse, ok)
          /\ op' = AfterStart(ok, Goto("ready"))
    /\ UNCHANGED <<rec, snaps>>

\* claim_and_start, finish_cold_resume and finish_restart_start commit the
\* handle of the runtime they started.
StartReady ==
    /\ op.pc = "ready"
    /\ \E ok \in BOOLEAN :
          /\ AwaitReady(op.acquired, op.reuse, ok)
          /\ op' = AfterStart(ok, Commit("running",
                      IF rec.state = "restart_starting" THEN "restart_handle"
                      ELSE "start_handle"))
    /\ UNCHANGED <<rec, snaps>>

-----------------------------------------------------------------------------
(* Backend calls of pause, resume, kill, restart and snapshot.             *)

Results == {"ok", "not_found", "error"}

AfterCall(result, failed, finished) ==
    IF result = "error" THEN Goto(failed) ELSE finished

\* finish_pause with memory
PauseRuntime ==
    /\ op.pc = "pause"
    /\ \E result \in Results :
          /\ TransitionSandbox("paused", result)
          /\ op' = AfterCall(result, "pause_failed", Commit("paused", "handle"))
    /\ UNCHANGED <<rec, snaps>>

\* finish_resume of a runtime that kept its memory
ResumeRuntime ==
    /\ op.pc = "resume"
    /\ \E result \in Results :
          /\ TransitionSandbox("running", result)
          /\ op' = AfterCall(result, "resume_failed", Commit("running", "handle"))
    /\ UNCHANGED <<rec, snaps>>

\* finish_cold_pause: stop, preserve the rootfs, release, then publish.
ColdPause ==
    /\ op.pc = "cold_pause"
    /\ \E result \in Results :
          /\ StopForRestart(rec, result)
          /\ op' = AfterCall(result, "cold_pause_failed", Release("paused", "cold_pause"))
    /\ UNCHANGED <<rec, snaps>>

\* finish_kill: NotFound is a finished kill too.
FinishKill ==
    /\ op.pc = "kill"
    /\ \E result \in Results :
          /\ KillRuntime(rec, result)
          /\ op' = AfterCall(result, "kill_failed", Release("stopped", "kill_terminal"))
    /\ UNCHANGED <<rec, snaps>>

FinishRestartStop ==
    /\ op.pc = "restart_stop"
    /\ \E result \in Results :
          /\ StopForRestart(rec, result)
          /\ op' = AfterCall(result, "restart_stop_failed",
                     ReleaseThen("restart_starting", "restart_advance", "start"))
    /\ UNCHANGED <<rec, snaps>>

PauseForSnapshot ==
    /\ op.pc = "snapshot_pause"
    /\ \E result \in Results :
          /\ TransitionSandbox("paused", result)
          /\ op' = AfterCall(result, "snapshot_pause_failed", Goto("snapshot_capture"))
    /\ UNCHANGED <<rec, snaps>>

\* restore_snapshot_source_state of a running source
RestoreSnapshotSource ==
    /\ op.pc = "snapshot_resume"
    /\ \E result \in Results :
          /\ TransitionSandbox("running", result)
          /\ op' = AfterCall(result, "snapshot_resume_failed", SnapshotRestored)
    /\ UNCHANGED <<rec, snaps>>

\* Mutant: the source is not resumed after the capture.
AfterCaptureFrozen(captured) == CommitThen(rec.pending.src, "handle", "idle")

\* After a captured snapshot the operation that stabilised it starts over on
\* the reloaded record; a failed capture ends it once the source is restored.
AfterCapture(captured) ==
    LET next == IF captured /\ op.req.name \notin {"snapshot", "reconcile"}
                THEN "dispatch" ELSE "idle"
    IN  IF rec.pending.src = "running"
        THEN [op EXCEPT !.pc = "snapshot_resume", !.then.next = next]
        ELSE CommitThen("paused", IF rec.warm THEN "handle" ELSE "none", next)

\* capture_snapshot_rootfs publishes atomically and finds its own earlier
\* publication; drive_cold_paused_snapshot also unmounts what it prepared.
CaptureSnapshot ==
    /\ op.pc = "snapshot_capture"
    /\ \/ /\ rootfs \/ rec.pending.snap \in snaps
          /\ snaps' = snaps \cup {rec.pending.snap}
          /\ op' = AfterCapture(TRUE)
          /\ NoFault
       \/ /\ ~rootfs /\ rec.pending.snap \notin snaps
          /\ op' = AfterCapture(FALSE)
          /\ UNCHANGED <<snaps, faults>>
       \/ /\ Fault("error")
          /\ op' = AfterCapture(FALSE)
          /\ UNCHANGED snaps
       \/ /\ rec.pending.src = "paused" /\ ~rec.warm  \* the unmount fails
          /\ Fault("error")
          /\ snaps' = IF rootfs THEN snaps \cup {rec.pending.snap} ELSE snaps
          /\ op' = Done
    /\ UNCHANGED <<rec, crun, runtimeJson, owner, rootfs, attached, freezeFailed>>

\* delete_filesystem_snapshot takes the snapshot store's lock, not the
\* lifecycle lock. This execution is not based on a snapshot.
DeleteSnapshot ==
    /\ \E snap \in snaps : snaps' = snaps \ {snap}
    /\ UNCHANGED <<rec, op, backendVars>>

-----------------------------------------------------------------------------
(* Publishing a decision, removing the record.                             *)

ReleaseStep ==
    /\ op.pc = "release"
    /\ \E ok \in BOOLEAN :
          /\ ReleaseResources(ok)
          /\ op' = IF ok THEN Goto("commit") ELSE Done
    /\ UNCHANGED <<rec, snaps>>

CommitStep ==
    /\ op.pc = "commit"
    /\ \/ /\ CanTransition(rec, op.then.to, rec.pending)
          /\ rec' = TransitionWith(rec, op.then.to, op.then.upd, rec.pending)
          /\ op' = IF op.then.next = "idle" THEN Done
                   ELSE [op EXCEPT !.pc = op.then.next, !.then = NoDecision]
          /\ NoFault
       \/ Fault("error") /\ Refuse     \* the state file cannot be written
    /\ UNCHANGED <<snaps, crun, runtimeJson, owner, rootfs, attached, freezeFailed>>

RemoveRelease ==
    /\ op.pc = "remove_release"
    /\ \E ok \in BOOLEAN :
          /\ ReleaseResources(ok)
          /\ op' = IF ok THEN Goto("remove_cleanup") ELSE Done
    /\ UNCHANGED <<rec, snaps>>

RemoveCleanup ==
    /\ op.pc = "remove_cleanup"
    /\ \E ok \in BOOLEAN :
          /\ CleanupExecutionPaths(ok)
          /\ op' = IF ok THEN Goto("remove_forget") ELSE Done
    /\ UNCHANGED <<rec, snaps>>

RemoveForget ==
    /\ op.pc = "remove_forget"
    /\ \/ rec' = FinishRemove /\ op' = Done /\ NoFault
       \/ Fault("error") /\ Refuse
    /\ UNCHANGED <<snaps, crun, runtimeJson, owner, rootfs, attached, freezeFailed>>

-----------------------------------------------------------------------------
(* The environment.                                                        *)

\* The manager process dies and is restarted.
Crash ==
    /\ op.pc # "idle" \/ owner
    /\ Fault("crash")
    /\ op' = Idle
    /\ owner' = FALSE
    /\ UNCHANGED <<rec, snaps, crun, runtimeJson, rootfs, attached, freezeFailed>>

\* The container's init process exits or is killed from outside.
RuntimeExit ==
    /\ Live
    /\ crun' = "stopped"
    /\ UNCHANGED <<rec, op, snaps, runtimeJson, owner, rootfs, attached, freezeFailed,
                   faults>>

OperationStep ==
    \/ Dispatch \/ InspectBackend
    \/ ClaimStart \/ StartPrepare \/ StartLaunch \/ StartRecord \/ StartReady
    \/ PauseRuntime \/ ResumeRuntime \/ ColdPause \/ FinishKill \/ FinishRestartStop
    \/ PauseForSnapshot \/ RestoreSnapshotSource \/ CaptureSnapshot
    \/ ReleaseStep \/ CommitStep
    \/ RemoveRelease \/ RemoveCleanup \/ RemoveForget

Next ==
    \/ Create
    \/ \E req \in Requests : Acquire(req)
    \/ OperationStep
    \/ DeleteSnapshot
    \/ Crash
    \/ RuntimeExit

Spec == Init /\ [][Next]_vars

\* An operation that holds the lock goes on until it returns.  Nothing is assumed
\* of who asks for one: a service reconciles once, when it starts.
FairSpec == Spec /\ WF_vars(OperationStep)

-----------------------------------------------------------------------------
TypeOK ==
    /\ rec \in Records
    /\ op \in Operation
    /\ snaps \subseteq SnapshotIds
    /\ BackendTypeOK

\* No stored record is rejected when it is read back: the intent is the one
\* its state needs, a restart is at its source generation before the advance
\* and one past it after, only an execution paused without memory or on its
\* way out of that pause carries the cold marker, and a completed restart
\* spans one generation.
RecordConsistent ==
    rec.state \in States => ValidPendingOperation(rec) /\ ValidMetadata(rec)

\* No operation ever decides on a transition that transition_with would refuse
\* as illegal: whatever the backend reported, the record can follow.
DecisionsAreLegal ==
    op.pc = "commit" => CanTransition(rec, op.then.to, rec.pending)

\* A live container that runtime.json names (and so recovery can find) is
\* never left behind by a record that stopped, failed, is being removed or is
\* gone, nor by one that was never started.
TrackedRuntimeHasLiveRecord ==
    Live /\ runtimeJson = "current" => KeepsResources(rec.state) /\ rec.state # "removing"

\* remove "must never imply an unrequested kill": when it deletes the recorded
\* container by force, that container is not running.
RemoveNeverKills ==
    op.pc = "remove_cleanup" => ~(Live /\ runtimeJson # "none")

\* A stopped or removed execution holds no volume or network attachment.
StoppedReleasesResources ==
    rec.state \in {"stopped", "removed"} => ~attached

\* A restart enters the next generation only when the runtime of the previous
\* one, if runtime.json names it, is no longer live.
RestartReplacesRuntime ==
    [][ rec.state = "restart_stopping" /\ rec'.state = "restart_starting"
          => ~(Live /\ runtimeJson # "none") ]_vars

\* Once the lock is free, the record and the container agree: an execution
\* recorded as running is not frozen, one paused with memory is not running,
\* and one paused without memory has no live container that recovery can see.
\* The exception is a container of which a crun pause or resume has reported an
\* error: what is observed after it is derived from the record, not from the
\* container (VisibleActiveState), and the two may differ until the container
\* is replaced.
RecordAgreesWithRuntime ==
    op.pc = "idle" /\ ~freezeFailed =>
        /\ rec.state = "running" => crun # "paused"
        /\ rec.state = "paused" /\ rec.warm => crun # "running"
        /\ rec.state = "paused" /\ ~rec.warm => ~(Live /\ runtimeJson = "current")

\* Once a pause without memory has kept the writable rootfs, it is kept until
\* the resume that boots it is published or the execution is killed, whatever
\* crashes, failed resumes, restarts and snapshots come in between. (A resume
\* that finds no rootfs boots a new one, which is not the paused one.)
ColdPaused == rec.state \in {"paused", "resuming"} /\ ~rec.warm

BootsNewRootfs == op.pc \in {"launch", "record", "ready"} /\ ~op.reuse

ColdPauseKeepsRootfs ==
    [][ColdPaused /\ rootfs /\ ~BootsNewRootfs /\ ColdPaused' => rootfs']_vars

-----------------------------------------------------------------------------
(* The promise to callers, and the mapping onto it.                        *)

Phase ==
    CASE rec.state \in {"creating", "created", "starting"} -> "created"
      [] rec.state \in {"running", "pausing"} -> "running"
      [] rec.state \in {"paused", "resuming"} -> "paused"
      [] rec.state = "snapshotting" -> rec.pending.src
      [] rec.state \in {"restart_stopping", "restart_starting"} -> "restarting"
      [] rec.state \in {"stopped", "failed"} -> "ended"
      [] OTHER -> rec.state

\* Callers see the new generation when the restart completes.
CallerGeneration == IF rec.state = "restart_starting" THEN rec.gen - 1 ELSE rec.gen

ClaimedRestart ==
    IF rec.state \in {"restart_stopping", "restart_starting"} THEN {rec.pending.id} ELSE {}

ServedRestart == IF rec.last.done THEN {rec.last.id} ELSE {}

Lifecycle == INSTANCE ExecutionLifecycle
    WITH phase <- Phase, generation <- CallerGeneration,
         claimed <- ClaimedRestart, served <- ServedRestart

\* Every crash, fault, exit and recovery path included, the manager implements
\* the atomic lifecycle its trait promises.
ImplementsLifecycle == Lifecycle!Spec

-----------------------------------------------------------------------------
(* Liveness.                                                               *)

\* A live container whose pid is not the one in runtime.json, or that has no
\* runtime.json: no operation can reach it.
Untracked == Live /\ runtimeJson # "current"

\* Every operation returns and frees the lifecycle lock.
OperationsReturn == op.pc # "idle" ~> op.pc = "idle"

\* A claim that a reconciliation should finish or undo.
Claimed == rec.state \in Transitional \ {"snapshotting"}

\* The container exited by itself since it was in state c.
ExitedSince(c) == c # "stopped" /\ crun = "stopped"

\* One reconciliation is enough: whatever crashes and failures left the claim
\* behind, a reconciliation that meets no fault of its own finishes or undoes it.
\* The exceptions: a snapshot, an untracked container in the way, and a container
\* that exits while the reconciliation is at work (the next one settles it).
ClaimsResolve ==
    \A n \in 0..MaxFaults, c \in {"none", "running", "paused", "stopped"} :
        op.req.name = "reconcile" /\ op.pc = "dispatch" /\ Claimed /\ faults = n /\ crun = c
          ~> ~Claimed \/ Untracked \/ faults # n \/ ExitedSince(c)

=============================================================================
