---------------------- MODULE LocalExecutionHostProofs ----------------------
(***************************************************************************)
(* Theorems about what LocalExecution leaves on the host, for every value  *)
(* of the constants and every kind and number of faults: no tracked        *)
(* container outlives its record, remove never kills, a stopped execution  *)
(* holds no attachment and a restart replaces the runtime.                 *)
(***************************************************************************)
EXTENDS LocalExecutionProofs

-----------------------------------------------------------------------------
(* The inductive invariant relates the record and the step of the          *)
(* operation to the container, runtime.json and the attachments.           *)

\* A live container recovery can find, or could mistake for the recorded one.
Visible == Live /\ runtimeJson # "none"

\* States in which the execution never was, or is no longer, given a runtime.
Quiet == {"absent", "creating", "created", "stopped", "failed", "removing", "removed"}

\* A restart of a source without a runtime has none to stop.
WithoutRuntime(r) ==
    \/ r.state \in Quiet
    \/ r.state = "restart_stopping" /\ r.pending.src \notin {"running", "paused"}

\* The operation has decided that the runtime is gone.
Ends(o) ==
    /\ o.pc \in {"release", "commit"}
    /\ o.then.to \in {"created", "stopped", "failed", "restart_starting"}

RuntimeIsGone == WithoutRuntime(rec) \/ Ends(op) => ~Visible

\* Nothing freezes a container that is being started.
StartIsNotFrozen ==
    /\ rec.state = "starting" => ~(Visible /\ crun = "paused")
    /\ op.pc \in {"record", "ready"} => crun # "paused"

\* The attachments are released before the record says so.
Detached(r, o) ==
    \/ r.state \in {"stopped", "removed"}
    \/ o.pc = "commit" /\ o.then.to = "stopped"
    \/ o.pc \in {"remove_cleanup", "remove_forget"}

ResourcesReleased == Detached(rec, op) => ~attached

HostInv == RuntimeIsGone /\ StartIsNotFrozen /\ ResourcesReleased

-----------------------------------------------------------------------------
(* What the backend operations do to the container.                        *)

\* Every operation but a start, a pause and a resume only takes away.
Shrinks ==
    /\ crun' \in {crun, "none", "stopped"}
    /\ runtimeJson' \in {runtimeJson, "none"}

\* What is taken away does not become visible or frozen.
LEMMA ShrinksHides ==
    ASSUME Shrinks
    PROVE  /\ Visible' => Visible
           /\ crun' = "paused" => crun = "paused"
  BY DEF Shrinks, Visible, Live

\* The state a live runtime is reported in is never an absence.
LEMMA ActiveStateIsLive ==
    ASSUME IndInv, rec.state \in States
    PROVE  ~Gone(VisibleActiveState(rec))
  <1>1. rec \in Records /\ Readable(rec)
    BY DEF IndInv, TypeOK, RecordReadable
  <1>2. rec.pending \in Operations
    BY <1>1 DEF Records
  <1>3. rec.state = "snapshotting" => rec.pending.src \in {"running", "paused"}
    BY <1>1, <1>2, OperationFields
       DEF Readable, ValidPendingOperation, PendingKind, SnapshotSources
  <1> QED
    BY <1>3 DEF Gone, VisibleActiveState

\* destroy deletes the container when it succeeds.
LEMMA DestroyShrinks ==
    ASSUME NEW preserve, NEW result,
           DestroyRegistered(preserve, result) \/ Destroyed(preserve)
             \/ DestroyFailed(preserve)
    PROVE  Shrinks
  BY DEF DestroyRegistered, Destroyed, DestroyFailed, Shrinks

LEMMA DestroyedIsGone ==
    ASSUME NEW preserve, Destroyed(preserve) \/ ExitsUnderInspection
    PROVE  Shrinks /\ ~Visible'
  BY DEF Destroyed, ExitsUnderInspection, Shrinks, Visible, Live

LEMMA InspectRegisteredFacts ==
    ASSUME NEW r, ~Gone(VisibleActiveState(r)), NEW obs, InspectRegistered(r, obs)
    PROVE  /\ Shrinks
           /\ Gone(obs) => ~Visible'
           /\ obs = "paused" => VisibleActiveState(r) = "paused"
  <1> DEFINE force == ShouldForceRootfsPreservation(r)
  <1>1. CASE obs \in {"error", "creating"} /\ UNCHANGED <<crun, runtimeJson>>
    BY <1>1 DEF Shrinks, Gone
  <1>2. CASE obs = VisibleActiveState(r) /\ UNCHANGED <<crun, runtimeJson>>
    BY <1>2 DEF Shrinks
  <1>3. CASE obs \in {"not_found", "stopped"} /\ (Destroyed(force) \/ ExitsUnderInspection)
    BY <1>3, DestroyedIsGone
  <1>4. CASE obs = "error" /\ DestroyFailed(force)
    BY <1>4, DestroyShrinks DEF Gone
  <1> QED
    BY <1>1, <1>2, <1>3, <1>4 DEF InspectRegistered

LEMMA InspectDetachedFacts ==
    ASSUME NEW r, ~Gone(VisibleActiveState(r)), NEW obs, InspectDetached(r, obs)
    PROVE  /\ Shrinks
           /\ Gone(obs) => ~Visible'
           /\ obs = "paused" => VisibleActiveState(r) = "paused" \/ (Visible /\ crun = "paused")
  <1> DEFINE force == ShouldForceRootfsPreservation(r)
  <1>1. CASE runtimeJson = "none" /\ obs = "not_found" /\ UNCHANGED <<crun, runtimeJson>>
    BY <1>1 DEF Shrinks, Visible
  <1>2. CASE obs = "error" /\ UNCHANGED <<crun, runtimeJson>>
    BY <1>2 DEF Shrinks, Gone
  <1>3. CASE InspectRegistered(r, obs)
    BY <1>3, InspectRegisteredFacts
  <1>4. CASE runtimeJson = "current" /\ crun = "paused" /\ obs = "paused"
             /\ UNCHANGED <<crun, runtimeJson>>
    BY <1>4 DEF Shrinks, Gone, Visible, Live
  <1>5. CASE obs \in {"not_found", "stopped"} /\ (Destroyed(force) \/ ExitsUnderInspection)
    BY <1>5, DestroyedIsGone
  <1> QED
    BY <1>1, <1>2, <1>3, <1>4, <1>5 DEF InspectDetached

\* inspect_sandbox: what it reports gone is gone, and only a frozen container
\* or a record that expects one is reported paused.
LEMMA InspectFacts ==
    ASSUME NEW r, ~Gone(VisibleActiveState(r)), NEW obs, InspectSandbox(r, obs)
    PROVE  /\ Shrinks /\ attached' = attached
           /\ Gone(obs) => ~Visible'
           /\ obs = "paused" => VisibleActiveState(r) = "paused" \/ (Visible /\ crun = "paused")
  BY InspectRegisteredFacts, InspectDetachedFacts DEF InspectSandbox

LEMMA DestroyRegisteredFacts ==
    ASSUME NEW preserve, NEW result, DestroyRegistered(preserve, result)
    PROVE  Shrinks /\ (result \in {"ok", "not_found"} => ~Visible')
  <1>1. CASE result = "ok" /\ Destroyed(preserve)
    BY <1>1, DestroyedIsGone
  <1>2. CASE result = "error" /\ DestroyFailed(preserve)
    BY <1>2, DestroyShrinks
  <1> QED
    BY <1>1, <1>2 DEF DestroyRegistered

LEMMA DestroyDetachedFacts ==
    ASSUME NEW r, ~Gone(VisibleActiveState(r)), NEW preserve, NEW result,
           DestroyDetachedSandbox(r, preserve, result)
    PROVE  Shrinks /\ (result \in {"ok", "not_found"} => ~Visible')
  <1>1. CASE DestroyRegistered(preserve, result)
    BY <1>1, DestroyRegisteredFacts
  <1>2. CASE ExitsUnderInspection
    BY <1>2, DestroyedIsGone
  <1>3. CASE result = "ok" /\ InspectDetached(r, "stopped")
    BY <1>3, InspectDetachedFacts DEF Gone
  <1>4. CASE result \in {"not_found", "error"} /\ InspectDetached(r, result)
    BY <1>4, InspectDetachedFacts DEF Gone
  <1>5. CASE result = "error" /\ UNCHANGED <<crun, runtimeJson>>
    BY <1>5 DEF Shrinks
  <1> QED
    BY <1>1, <1>2, <1>3, <1>4, <1>5 DEF DestroyDetachedSandbox

\* kill and stop_for_restart leave no visible container unless they fail.
LEMMA StopFacts ==
    ASSUME NEW r, ~Gone(VisibleActiveState(r)), NEW result \in Results,
           KillRuntime(r, result) \/ StopForRestart(r, result)
    PROVE  /\ Shrinks /\ attached' = attached
           /\ result # "error" => ~Visible'
  <1>1. CASE DestroyRegistered(TRUE, result) \/ DestroyRegistered(FALSE, result)
    BY <1>1, DestroyRegisteredFacts DEF Results, KillRuntime, StopForRestart
  <1>2. CASE DestroyWithoutHandler(result)
    BY <1>2 DEF DestroyWithoutHandler, Shrinks, Visible, KillRuntime, StopForRestart
  <1>3. CASE DestroyDetachedSandbox(r, TRUE, result) \/ DestroyDetachedSandbox(r, FALSE, result)
    BY <1>3, DestroyDetachedFacts DEF Results, KillRuntime, StopForRestart
  <1>4. CASE result = "error" /\ UNCHANGED <<crun, runtimeJson>>
    BY <1>4 DEF Shrinks, KillRuntime, StopForRestart
  <1> QED
    BY <1>1, <1>2, <1>3, <1>4 DEF KillRuntime, StopForRestart

\* pause and resume keep runtime.json, which names what they freeze or thaw.
LEMMA TransitionSandboxFacts ==
    ASSUME NEW target \in {"running", "paused"}, NEW result, TransitionSandbox(target, result)
    PROVE  attached' = attached /\ (Visible' => Visible)
  BY DEF TransitionSandbox, Visible, Live

-----------------------------------------------------------------------------
(* Steps that keep the record.                                             *)

\* Steps the invariant asks nothing of.
Neutral(o) ==
    /\ ~Ends(o)
    /\ o.pc \notin {"record", "ready", "remove_cleanup", "remove_forget"}

\* The operation just decided that the runtime is gone; a stopped record is
\* published only after the release.
Concluding(o) == Ends(o) /\ ~(o.pc = "commit" /\ o.then.to = "stopped")

LEMMA NeutralSteps ==
    ASSUME op \in Operation
    PROVE  /\ Neutral(Done)
           /\ \A pc \in Steps \ {"release", "commit", "record", "ready", "remove_cleanup",
                                 "remove_forget"} : Neutral(Goto(pc))
           /\ \A to \in {"running", "paused"}, upd \in RuntimeUpdates,
                 next \in {"idle", "dispatch", "claim_start", "start"} :
                 /\ Neutral(CommitThen(to, upd, next))
                 /\ Neutral(ReleaseThen(to, upd, next))
  <1>1. Neutral(Done)
    BY IdleType DEF Neutral, Ends
  <1>2. ASSUME NEW pc \in Steps \ {"release", "commit", "record", "ready", "remove_cleanup",
                                   "remove_forget"}
        PROVE  Neutral(Goto(pc))
    BY <1>2, GotoType DEF Neutral, Ends
  <1>3. ASSUME NEW to \in {"running", "paused"}, NEW upd \in RuntimeUpdates,
               NEW next \in {"idle", "dispatch", "claim_start", "start"}
        PROVE  Neutral(CommitThen(to, upd, next)) /\ Neutral(ReleaseThen(to, upd, next))
    <2>1. to \in States
      BY DEF States
    <2> QED
      BY <2>1, CommitThenType DEF Neutral, Ends
  <1> QED
    BY <1>1, <1>2, <1>3

LEMMA NeutralCommits ==
    ASSUME op \in Operation, NEW to \in {"running", "paused"}, NEW upd \in RuntimeUpdates
    PROVE  Neutral(Commit(to, upd)) /\ Neutral(Release(to, upd))
  BY NeutralSteps DEF Commit, Release

LEMMA ConcludingCommits ==
    ASSUME op \in Operation, NEW upd \in RuntimeUpdates,
           NEW next \in {"idle", "dispatch", "claim_start", "start"}
    PROVE  /\ \A to \in {"created", "failed"} : Concluding(CommitThen(to, upd, next))
           /\ \A to \in {"stopped", "failed", "restart_starting"} :
                 Concluding(ReleaseThen(to, upd, next))
  <1>1. {"created", "stopped", "failed", "restart_starting"} \subseteq States
    BY DEF States
  <1> QED
    BY <1>1, CommitThenType DEF Concluding, Ends

\* A step that keeps the record and only takes away.
LEMMA QuietStep ==
    ASSUME HostInv, rec' = rec, Shrinks,
           rec.state \in {"stopped", "removed"} => (attached' => attached),
           Neutral(op') \/ (Concluding(op') /\ ~Visible')
    PROVE  HostInv'
  <1>1. RuntimeIsGone'
    BY ShrinksHides DEF HostInv, RuntimeIsGone, Neutral, Concluding
  <1>2. StartIsNotFrozen'
    BY ShrinksHides DEF HostInv, StartIsNotFrozen, Neutral, Concluding, Ends
  <1>3. ResourcesReleased'
    BY DEF HostInv, ResourcesReleased, Detached, Neutral, Concluding, Ends
  <1> QED
    BY <1>1, <1>2, <1>3 DEF HostInv

-----------------------------------------------------------------------------
(* Every decision that ends the runtime rests on evidence that it is gone. *)

\* What an operation decides on an observation.
Justified(o, obs) ==
    \/ Neutral(o)
    \/ Concluding(o) /\ (Gone(obs) \/ (rec.state = "starting" /\ obs = "paused"))

LEMMA ObserveJustified ==
    ASSUME op \in Operation, NEW obs \in Observations
    PROVE  Justified(Observe(obs), obs)
  <1>1. Neutral(Done) /\ Neutral(Goto("pause")) /\ Neutral(Goto("resume"))
    BY NeutralSteps DEF Steps
  <1>2. /\ Neutral(Commit("running", "start_handle")) /\ Neutral(Commit("paused", "handle"))
        /\ Neutral(Commit("running", "handle")) /\ Neutral(Commit("running", "restart_handle"))
    BY NeutralCommits DEF RuntimeUpdates
  <1>3. /\ Concluding(Release("stopped", "terminal")) /\ Concluding(Release("failed", "terminal"))
        /\ Concluding(Commit("failed", "restart_failed"))
    BY ConcludingCommits DEF RuntimeUpdates, Commit, Release
  <1> QED
    BY <1>1, <1>2, <1>3 DEF Justified, Observe, Gone

LEMMA StartDecisionsJustified ==
    ASSUME op \in Operation, NEW obs \in Observations
    PROVE  /\ Justified(EnsureStarted(obs), obs)
           /\ rec.state = "starting" => Justified(RecoverStart(obs), obs)
           /\ Justified(ResolveStartError(obs), obs)
           /\ Justified(FinishColdResume(obs), obs)
  <1>1. Neutral(Done) /\ Neutral(Goto("start"))
    BY NeutralSteps DEF Steps
  <1>2. /\ Neutral(Commit("running", "start_handle")) /\ Neutral(Release("paused", "none"))
        /\ Neutral(Commit("running", "restart_handle"))
    BY NeutralCommits DEF RuntimeUpdates
  <1>3. /\ Concluding(Commit("failed", "terminal"))
        /\ Concluding(Release("failed", "restart_failed"))
        /\ Concluding(CommitThen("created", "none", "claim_start"))
    BY ConcludingCommits DEF RuntimeUpdates, Commit, Release
  <1>4. Justified(EnsureStarted(obs), obs)
    BY <1>1, <1>2, <1>3 DEF Justified, EnsureStarted, Gone
  <1>5. rec.state = "starting" => Justified(RecoverStart(obs), obs)
    BY <1>1, <1>2, <1>3 DEF Justified, RecoverStart, Gone
  <1>6. Justified(ResolveStartError(obs), obs)
    BY <1>1, <1>2, <1>3 DEF Justified, ResolveStartError
  <1>7. Justified(FinishColdResume(obs), obs)
    BY <1>1, <1>2 DEF Justified, FinishColdResume
  <1> QED
    BY <1>4, <1>5, <1>6, <1>7

LEMMA ErrorDecisionsJustified ==
    ASSUME op \in Operation, NEW obs \in Observations
    PROVE  /\ Justified(ResolvePauseError(obs), obs)
           /\ Justified(ResolveResumeError(obs), obs)
           /\ Justified(ResolveColdPauseError(obs), obs)
           /\ Justified(ResolveKillError(obs), obs)
           /\ Justified(ConfirmRestartKill(obs), obs)
  <1>1. Neutral(Done)
    BY NeutralSteps
  <1>2. /\ Neutral(Commit("paused", "handle")) /\ Neutral(Commit("running", "none"))
        /\ Neutral(Commit("running", "handle")) /\ Neutral(Commit("paused", "none"))
        /\ Neutral(Release("paused", "cold_pause"))
    BY NeutralCommits DEF RuntimeUpdates
  <1>3. /\ Concluding(Release("stopped", "kill_terminal"))
        /\ Concluding(ReleaseThen("restart_starting", "restart_advance", "start"))
    BY ConcludingCommits DEF RuntimeUpdates, Release
  <1>4. Justified(ResolvePauseError(obs), obs) /\ Justified(ResolveResumeError(obs), obs)
    BY <1>1, <1>2 DEF Justified, ResolvePauseError, ResolveResumeError
  <1>5. Justified(ResolveColdPauseError(obs), obs)
    BY <1>1, <1>2 DEF Justified, ResolveColdPauseError
  <1>6. Justified(ResolveKillError(obs), obs) /\ Justified(ConfirmRestartKill(obs), obs)
    BY <1>1, <1>3 DEF Justified, ResolveKillError, ConfirmRestartKill
  <1> QED
    BY <1>4, <1>5, <1>6

LEMMA RestoredIsNeutral ==
    ASSUME op \in Operation
    PROVE  Neutral(SnapshotRestored)
  <1>1. op.then.next \in {"idle", "dispatch", "claim_start", "start"}
    BY DEF Operation, Decisions
  <1> QED
    BY <1>1, NeutralSteps DEF SnapshotRestored, RuntimeUpdates

LEMMA DecideJustified ==
    ASSUME IndInv, op.pc \in InspectSteps, NEW obs \in Observations
    PROVE  Justified(Decide(obs), obs)
  <1>1. op \in Operation /\ Allowed(op.pc, rec.state)
    BY DecideContext DEF InspectSteps, Steps
  <1>2. op.pc = "recover_start" => rec.state = "starting"
    BY <1>1 DEF Allowed
  <1>3. /\ Neutral(Done) /\ Neutral(Goto("snapshot_pause"))
        /\ Neutral(Goto("snapshot_capture")) /\ Neutral(SnapshotRestored)
    BY <1>1, NeutralSteps, RestoredIsNeutral DEF Steps
  <1>4. CASE op.pc \in {"snapshot_inspect", "snapshot_pause_failed", "snapshot_resume_failed"}
    BY <1>3, <1>4 DEF Decide, SnapshotInspected, Justified
  <1>5. CASE op.pc \notin {"snapshot_inspect", "snapshot_pause_failed", "snapshot_resume_failed"}
    BY <1>1, <1>2, <1>5, ObserveJustified, StartDecisionsJustified, ErrorDecisionsJustified
       DEF Decide, InspectSteps
  <1> QED
    BY <1>4, <1>5

\* A step that inspects the backend keeps the invariant: a record is ended
\* only on evidence, and no container that is starting is reported paused.
LEMMA InspectKeepsHost == IndInv /\ HostInv /\ InspectBackend => HostInv'
  <1>1. SUFFICES ASSUME IndInv, HostInv, InspectBackend PROVE HostInv'
    OBVIOUS
  <1>2. PICK obs \in Observations : InspectSandbox(rec, obs) /\ op' = Decide(obs)
    BY <1>1 DEF InspectBackend
  <1>3. op.pc \in InspectSteps /\ rec' = rec /\ rec.state \in States
    BY <1>1, DecideContext DEF InspectBackend, InspectSteps, Steps
  <1>4. ~Gone(VisibleActiveState(rec))
    BY <1>1, <1>3, ActiveStateIsLive
  <1>5. /\ Shrinks /\ attached' = attached /\ (Gone(obs) => ~Visible')
        /\ obs = "paused" => VisibleActiveState(rec) = "paused" \/ (Visible /\ crun = "paused")
    BY <1>2, <1>4, InspectFacts
  <1>6. Justified(op', obs)
    BY <1>1, <1>2, <1>3, DecideJustified
  <1>7. ~(rec.state = "starting" /\ obs = "paused")
    BY <1>1, <1>5 DEF HostInv, StartIsNotFrozen, VisibleActiveState
  <1> QED
    BY <1>1, <1>3, <1>5, <1>6, <1>7, QuietStep DEF Justified

-----------------------------------------------------------------------------
(* Starting a runtime.                                                     *)

\* A start never runs for a record that has no runtime coming.
LEMMA StartContext ==
    ASSUME IndInv, op.pc \in {"start", "launch", "record", "ready"}
    PROVE  /\ op \in Operation
           /\ rec.state \in {"starting", "resuming", "restart_starting"}
           /\ ~WithoutRuntime(rec)
           /\ Neutral(Goto("start_failed"))
  <1>1. op \in Operation /\ rec.state \in {"starting", "resuming", "restart_starting"}
    BY DecideContext DEF Allowed, StartSteps, Steps
  <1> QED
    BY <1>1, NeutralSteps DEF WithoutRuntime, Quiet, Steps, InspectSteps

\* A start that does not go on only takes away.
LEMMA StartFails ==
    ASSUME IndInv, HostInv, op.pc \in {"start", "launch", "record", "ready"}, rec' = rec,
           Shrinks, op' = Goto("start_failed")
    PROVE  HostInv'
  <1>1. Neutral(op') /\ rec.state \in {"starting", "resuming", "restart_starting"}
    BY StartContext
  <1> QED
    BY <1>1, QuietStep

LEMMA PrepareKeepsHost == IndInv /\ HostInv /\ StartPrepare => HostInv'
  <1>1. SUFFICES ASSUME IndInv, HostInv, StartPrepare PROVE HostInv'
    OBVIOUS
  <1>2. op.pc = "start" /\ rec' = rec /\ Shrinks
    BY <1>1 DEF StartPrepare, PrepareResources, Shrinks, backendVars
  <1>3. op \in Operation /\ rec.state \in {"starting", "resuming", "restart_starting"}
    BY <1>1, <1>2, StartContext
  <1>4. op' = Goto("start_failed") \/ op'.pc = "launch"
    BY <1>1, <1>3 DEF StartPrepare, AfterStart, Operation
  <1>5. CASE op' = Goto("start_failed")
    BY <1>1, <1>2, <1>5, StartFails
  <1>6. CASE op'.pc = "launch"
    <2>1. Neutral(op')
      BY <1>6 DEF Neutral, Ends
    <2> QED
      BY <1>1, <1>2, <1>3, <2>1, QuietStep
  <1> QED
    BY <1>4, <1>5, <1>6

LEMMA LaunchKeepsHost == IndInv /\ HostInv /\ StartLaunch => HostInv'
  <1>1. SUFFICES ASSUME IndInv, HostInv, StartLaunch PROVE HostInv'
    OBVIOUS
  <1>2. PICK ok \in BOOLEAN : Launch(op.acquired, op.reuse, ok)
                              /\ op' = AfterStart(ok, Goto("record"))
    BY <1>1 DEF StartLaunch
  <1>3. op.pc = "launch" /\ rec' = rec
    BY <1>1 DEF StartLaunch
  <1>4. /\ op \in Operation /\ rec.state \in {"starting", "resuming", "restart_starting"}
        /\ ~WithoutRuntime(rec)
    BY <1>1, <1>3, StartContext
  <1>5. CASE ~ok
    <2>1. Shrinks
      BY <1>2, <1>5 DEF Launch, Shrinks
    <2>2. op' = Goto("start_failed")
      BY <1>2, <1>5 DEF AfterStart
    <2> QED
      BY <1>1, <1>3, <2>1, <2>2, StartFails
  <1>6. CASE ok
    <2>1. crun' = "running"
      BY <1>2, <1>6 DEF Launch
    <2>2. op'.pc = "record"
      BY <1>2, <1>4, <1>6, GotoType DEF AfterStart, Steps
    <2> QED
      BY <1>3, <1>4, <2>1, <2>2
         DEF HostInv, RuntimeIsGone, StartIsNotFrozen, ResourcesReleased, Ends, Detached,
             WithoutRuntime
  <1> QED
    BY <1>5, <1>6

LEMMA RecordKeepsHost == IndInv /\ HostInv /\ StartRecord => HostInv'
  <1>1. SUFFICES ASSUME IndInv, HostInv, StartRecord PROVE HostInv'
    OBVIOUS
  <1>2. PICK ok \in BOOLEAN : RecordRuntime(op.acquired, op.reuse, ok)
                              /\ op' = AfterStart(ok, Goto("ready"))
    BY <1>1 DEF StartRecord
  <1>3. op.pc = "record" /\ rec' = rec
    BY <1>1 DEF StartRecord
  <1>4. /\ op \in Operation /\ rec.state \in {"starting", "resuming", "restart_starting"}
        /\ ~WithoutRuntime(rec)
    BY <1>1, <1>3, StartContext
  <1>5. CASE ~ok
    <2>1. Shrinks
      BY <1>2, <1>5 DEF RecordRuntime, Shrinks
    <2>2. op' = Goto("start_failed")
      BY <1>2, <1>5 DEF AfterStart
    <2> QED
      BY <1>1, <1>3, <2>1, <2>2, StartFails
  <1>6. CASE ok
    <2>1. crun' = crun /\ crun # "paused"
      BY <1>1, <1>2, <1>3, <1>6 DEF RecordRuntime, HostInv, StartIsNotFrozen
    <2>2. op'.pc = "ready"
      BY <1>2, <1>4, <1>6, GotoType DEF AfterStart, Steps
    <2> QED
      BY <1>3, <1>4, <2>1, <2>2
         DEF HostInv, RuntimeIsGone, StartIsNotFrozen, ResourcesReleased, Ends, Detached,
             WithoutRuntime
  <1> QED
    BY <1>5, <1>6

LEMMA ReadyKeepsHost == IndInv /\ HostInv /\ StartReady => HostInv'
  <1>1. SUFFICES ASSUME IndInv, HostInv, StartReady PROVE HostInv'
    OBVIOUS
  <1>2. op.pc = "ready" /\ rec' = rec /\ Shrinks
    BY <1>1 DEF StartReady, AwaitReady, Shrinks, backendVars
  <1>3. /\ op \in Operation /\ rec.state \in {"starting", "resuming", "restart_starting"}
        /\ Neutral(Goto("start_failed"))
    BY <1>1, <1>2, StartContext
  <1>4. /\ Neutral(Commit("running", "restart_handle"))
        /\ Neutral(Commit("running", "start_handle"))
    BY <1>3, NeutralCommits DEF RuntimeUpdates
  <1>5. Neutral(op')
    BY <1>1, <1>3, <1>4 DEF StartReady, AfterStart
  <1> QED
    BY <1>1, <1>2, <1>3, <1>5, QuietStep

-----------------------------------------------------------------------------
(* Backend calls of pause, resume, kill, restart and snapshot.             *)

\* kill, stop_for_restart: the operation goes on only once nothing visible
\* is left.
LEMMA StopKeepsHost ==
    IndInv /\ HostInv /\ (ColdPause \/ FinishKill \/ FinishRestartStop) => HostInv'
  <1> DEFINE advance == ReleaseThen("restart_starting", "restart_advance", "start")
  <1>1. SUFFICES ASSUME IndInv, HostInv, ColdPause \/ FinishKill \/ FinishRestartStop
                 PROVE  HostInv'
    OBVIOUS
  <1>2. op.pc \in {"cold_pause", "kill", "restart_stop"} /\ rec' = rec
    BY <1>1 DEF ColdPause, FinishKill, FinishRestartStop
  <1>3. op \in Operation /\ rec.state \in States
    BY <1>1, <1>2, DecideContext DEF Steps
  <1>4. ~Gone(VisibleActiveState(rec))
    BY <1>1, <1>3, ActiveStateIsLive
  <1>5. /\ Neutral(Goto("cold_pause_failed")) /\ Neutral(Goto("kill_failed"))
        /\ Neutral(Goto("restart_stop_failed")) /\ Neutral(Release("paused", "cold_pause"))
    BY <1>3, NeutralSteps, NeutralCommits DEF Steps, InspectSteps, RuntimeUpdates
  <1>6. Concluding(Release("stopped", "kill_terminal")) /\ Concluding(advance)
    BY <1>3, ConcludingCommits DEF RuntimeUpdates, Release
  <1>7. PICK result \in Results :
           /\ KillRuntime(rec, result) \/ StopForRestart(rec, result)
           /\ \/ Neutral(op')
              \/ result # "error" /\ Concluding(op')
    BY <1>1, <1>5, <1>6 DEF ColdPause, FinishKill, FinishRestartStop, AfterCall
  <1>8. Shrinks /\ attached' = attached /\ (result # "error" => ~Visible')
    BY <1>4, <1>7, StopFacts
  <1> QED
    BY <1>1, <1>2, <1>7, <1>8, QuietStep

\* crun pause and resume act on a runtime the record still has.
LEMMA TransitionKeepsHost ==
    IndInv /\ HostInv
      /\ (PauseRuntime \/ ResumeRuntime \/ PauseForSnapshot \/ RestoreSnapshotSource)
      => HostInv'
  <1>1. SUFFICES ASSUME IndInv, HostInv,
                        PauseRuntime \/ ResumeRuntime \/ PauseForSnapshot
                          \/ RestoreSnapshotSource
                 PROVE  HostInv'
    OBVIOUS
  <1>2. op.pc \in {"pause", "resume", "snapshot_pause", "snapshot_resume"} /\ rec' = rec
    BY <1>1 DEF PauseRuntime, ResumeRuntime, PauseForSnapshot, RestoreSnapshotSource
  <1>3. op \in Operation /\ rec.state \in {"pausing", "resuming", "snapshotting"}
    BY <1>1, <1>2, DecideContext DEF Allowed, Steps, SnapshotSteps
  <1>4. /\ Neutral(Goto("pause_failed")) /\ Neutral(Goto("resume_failed"))
        /\ Neutral(Goto("snapshot_pause_failed")) /\ Neutral(Goto("snapshot_resume_failed"))
        /\ Neutral(Goto("snapshot_capture"))
        /\ Neutral(Commit("paused", "handle")) /\ Neutral(Commit("running", "handle"))
        /\ Neutral(SnapshotRestored)
    BY <1>3, NeutralSteps, NeutralCommits, RestoredIsNeutral
       DEF Steps, InspectSteps, RuntimeUpdates
  <1>5. Neutral(op')
    BY <1>1, <1>4
       DEF PauseRuntime, ResumeRuntime, PauseForSnapshot, RestoreSnapshotSource, AfterCall
  <1> QED
    BY <1>2, <1>3, <1>5
       DEF HostInv, RuntimeIsGone, StartIsNotFrozen, ResourcesReleased, WithoutRuntime, Quiet,
           Neutral, Detached, Ends

LEMMA CaptureKeepsHost == IndInv /\ HostInv /\ CaptureSnapshot => HostInv'
  <1>1. SUFFICES ASSUME IndInv, HostInv, CaptureSnapshot PROVE HostInv'
    OBVIOUS
  <1>2. op.pc = "snapshot_capture" /\ rec' = rec /\ Shrinks /\ attached' = attached
    BY <1>1 DEF CaptureSnapshot, Shrinks
  <1>3. op \in Operation
    BY <1>1 DEF IndInv, TypeOK
  <1>4. ASSUME NEW captured \in BOOLEAN PROVE Neutral(AfterCapture(captured))
    <2> DEFINE next == IF captured /\ op.req.name \notin {"snapshot", "reconcile"}
                       THEN "dispatch" ELSE "idle"
               o == [op EXCEPT !.pc = "snapshot_resume", !.then.next = next]
    <2>1. next \in {"idle", "dispatch", "claim_start", "start"}
      OBVIOUS
    <2> HIDE DEF next
    <2>2. Neutral(CommitThen("paused", "handle", next)) /\ Neutral(CommitThen("paused", "none", next))
      BY <1>3, <2>1, NeutralSteps DEF RuntimeUpdates
    <2>3. o.pc = "snapshot_resume"
      BY <1>3 DEF Operation
    <2>4. Neutral(o)
      BY <2>3 DEF Neutral, Ends
    <2>5. \/ AfterCapture(captured) = o
          \/ AfterCapture(captured) = CommitThen("paused", "handle", next)
          \/ AfterCapture(captured) = CommitThen("paused", "none", next)
      BY DEF AfterCapture, next
    <2> QED
      BY <2>2, <2>4, <2>5
  <1>5. Neutral(op')
    BY <1>1, <1>3, <1>4, NeutralSteps DEF CaptureSnapshot
  <1> QED
    BY <1>1, <1>2, <1>5, QuietStep

-----------------------------------------------------------------------------
(* Releasing, publishing, removing.                                        *)

\* The decision stays the same while the attachments are released.
LEMMA ReleaseKeepsHost ==
    IndInv /\ HostInv /\ (ReleaseStep \/ RemoveRelease) => HostInv'
  <1>1. SUFFICES ASSUME IndInv, HostInv, ReleaseStep \/ RemoveRelease PROVE HostInv'
    OBVIOUS
  <1>2. /\ op.pc \in {"release", "remove_release"} /\ rec' = rec
        /\ UNCHANGED <<crun, runtimeJson>> /\ (attached' => attached)
    BY <1>1 DEF ReleaseStep, RemoveRelease, ReleaseResources
  <1>3. op \in Operation
    BY <1>1 DEF IndInv, TypeOK
  <1>4. CASE op' = Done
    BY <1>1, <1>2, <1>3, <1>4, NeutralSteps, QuietStep DEF Shrinks
  <1>5. CASE op' # Done
    <2>1. /\ ~attached'
          /\ \/ op.pc = "release" /\ op' = Goto("commit")
             \/ op.pc = "remove_release" /\ op' = Goto("remove_cleanup")
      BY <1>1, <1>5 DEF ReleaseStep, RemoveRelease, ReleaseResources
    <2>2. /\ op'.then = op.then
          /\ \/ op.pc = "release" /\ op'.pc = "commit"
             \/ op'.pc = "remove_cleanup"
      BY <1>3, <2>1, GotoType DEF Steps
    <2>3. (Visible' <=> Visible) /\ crun' = crun
      BY <1>2 DEF Visible, Live
    <2> QED
      BY <1>1, <1>2, <2>1, <2>2, <2>3
         DEF HostInv, RuntimeIsGone, StartIsNotFrozen, ResourcesReleased, WithoutRuntime, Ends
  <1> QED
    BY <1>4, <1>5

\* A published record has no runtime only if the decision says so.
LEMMA CommitKeepsHost == IndInv /\ HostInv /\ CommitStep => HostInv'
  <1>1. SUFFICES ASSUME IndInv, HostInv, CommitStep PROVE HostInv'
    OBVIOUS
  <1>2. /\ op.pc = "commit" /\ op \in Operation /\ DecisionFits(rec, op)
        /\ UNCHANGED <<crun, runtimeJson, attached>>
    BY <1>1 DEF CommitStep, IndInv, TypeOK, StepFits
  <1>3. (Visible' <=> Visible) /\ Shrinks
    BY <1>2 DEF Visible, Live, Shrinks
  <1>4. CASE Refuse
    BY <1>1, <1>2, <1>3, <1>4, NeutralSteps, QuietStep DEF Refuse
  <1>5. CASE /\ rec' = TransitionWith(rec, op.then.to, op.then.upd, rec.pending)
             /\ op' = IF op.then.next = "idle" THEN Done
                      ELSE [op EXCEPT !.pc = op.then.next, !.then = NoDecision]
    <2>1. rec'.state = op.then.to /\ rec'.state \in Published
      BY <1>2, <1>5 DEF TransitionWith, DecisionFits
    <2>2. Neutral(op')
      <3>1. op'.pc \in {"idle", "dispatch", "claim_start", "start"}
        BY <1>2, <1>5, IdleType DEF Operation, Decisions
      <3> QED
        BY <3>1 DEF Neutral, Ends
    <2>3. RuntimeIsGone'
      <3>1. WithoutRuntime(rec') => Ends(op)
        BY <1>2, <2>1 DEF WithoutRuntime, Quiet, Published, Ends
      <3> QED
        BY <1>1, <1>3, <2>2, <3>1 DEF HostInv, RuntimeIsGone, Neutral
    <2>4. StartIsNotFrozen'
      BY <2>1, <2>2 DEF StartIsNotFrozen, Published, Neutral
    <2>5. ResourcesReleased'
      BY <1>1, <1>2, <2>1, <2>2
         DEF HostInv, ResourcesReleased, Detached, Published, Neutral, Ends
    <2> QED
      BY <2>3, <2>4, <2>5 DEF HostInv
  <1> QED
    BY <1>1, <1>4, <1>5 DEF CommitStep

LEMMA RemoveKeepsHost ==
    IndInv /\ HostInv /\ (RemoveCleanup \/ RemoveForget) => HostInv'
  <1>1. SUFFICES ASSUME IndInv, HostInv, RemoveCleanup \/ RemoveForget PROVE HostInv'
    OBVIOUS
  <1>2. /\ op.pc \in {"remove_cleanup", "remove_forget"}
        /\ op \in Operation /\ rec.state = "removing"
    BY <1>1, DecideContext DEF RemoveCleanup, RemoveForget, Allowed, Steps
  <1>3. Shrinks /\ attached' = attached
    BY <1>1 DEF RemoveCleanup, RemoveForget, CleanupExecutionPaths, Shrinks
  <1>4. ~Visible' /\ ~attached'
    <2>1. ~Visible /\ ~attached
      BY <1>1, <1>2 DEF HostInv, RuntimeIsGone, WithoutRuntime, Quiet, ResourcesReleased,
                        Detached
    <2> QED
      BY <1>3, <2>1, ShrinksHides
  <1>5. (rec' = rec \/ rec'.state = "removed") /\ (op' = Done \/ op' = Goto("remove_forget"))
    BY <1>1 DEF RemoveCleanup, RemoveForget, Refuse, FinishRemove, NewRecord
  <1>6. op'.pc \in {"idle", "remove_forget"}
    BY <1>2, <1>5, IdleType, GotoType DEF Steps
  <1> QED
    BY <1>2, <1>4, <1>5, <1>6
       DEF HostInv, RuntimeIsGone, StartIsNotFrozen, ResourcesReleased

-----------------------------------------------------------------------------
(* Claims and the environment.                                             *)

\* A claim leaves the host alone: it starts only a record without a runtime.
LEMMA ClaimKeepsHost ==
    ASSUME IndInv, HostInv, UNCHANGED backendVars,
           NEW to \in {"starting", "pausing", "resuming", "snapshotting", "killing"},
           NEW intent,
           NEW pc \in Steps \ {"release", "commit", "record", "ready", "remove_cleanup",
                               "remove_forget"},
           Claim(to, intent, pc)
    PROVE  HostInv'
  <1>1. /\ op \in Operation /\ op' = Goto(pc) /\ rec'.state = to
        /\ <<rec.state, to>> \in LegalEdges
        /\ UNCHANGED <<crun, runtimeJson, attached>>
    BY DEF Claim, CanTransition, TransitionWith, IndInv, TypeOK, backendVars
  <1>2. Neutral(op')
    BY <1>1, NeutralSteps
  <1>3. to = "starting" => WithoutRuntime(rec)
    BY <1>1 DEF LegalEdges, WithoutRuntime, Quiet
  <1>4. Visible' <=> Visible
    BY <1>1 DEF Visible, Live
  <1>5. RuntimeIsGone'
    BY <1>1, <1>2 DEF RuntimeIsGone, WithoutRuntime, Quiet, Neutral
  <1>6. StartIsNotFrozen'
    BY <1>1, <1>2, <1>3, <1>4 DEF HostInv, RuntimeIsGone, StartIsNotFrozen, Neutral
  <1>7. ResourcesReleased'
    BY <1>1, <1>2 DEF ResourcesReleased, Detached, Neutral, Ends
  <1> QED
    BY <1>5, <1>6, <1>7 DEF HostInv

\* Going on without a claim, or refusing.
LEMMA ContinueKeepsHost ==
    ASSUME HostInv, UNCHANGED backendVars, rec' = rec, Neutral(op')
    PROVE  HostInv'
  <1>1. Shrinks /\ attached' = attached
    BY DEF Shrinks, backendVars
  <1> QED
    BY <1>1, QuietStep

LEMMA RefuseKeepsHost ==
    ASSUME HostInv, op \in Operation, UNCHANGED backendVars, Refuse
    PROVE  HostInv'
  BY ContinueKeepsHost, NeutralSteps DEF Refuse

LEMMA ContinuesKeepHost ==
    ASSUME HostInv, op \in Operation, UNCHANGED backendVars,
           NEW pc \in Steps \ {"release", "commit", "record", "ready", "remove_cleanup",
                               "remove_forget"},
           Continue(pc)
    PROVE  HostInv'
  BY ContinueKeepsHost, NeutralSteps DEF Continue

\* continue_restart skips the stop only for a source without a runtime.
LEMMA ContinueRestartKeepsHost ==
    ASSUME IndInv, HostInv, UNCHANGED backendVars,
           \/ rec' = rec /\ rec.state \in {"restart_stopping", "restart_starting"}
           \/ /\ rec'.state = "restart_stopping" /\ rec'.pending.src = rec.state
              /\ rec.state \in RestartSources,
           op' = ContinueRestart(rec')
    PROVE  HostInv'
  <1> DEFINE advance == ReleaseThen("restart_starting", "restart_advance", "start")
  <1>1. op \in Operation
    BY DEF IndInv, TypeOK
  <1>2. (Visible' <=> Visible) /\ UNCHANGED <<crun, attached>>
    BY DEF Visible, Live, backendVars
  <1>3. WithoutRuntime(rec') => ~Visible
    <2>1. WithoutRuntime(rec') => WithoutRuntime(rec)
      BY DEF WithoutRuntime, Quiet, RestartSources
    <2> QED
      BY <2>1 DEF HostInv, RuntimeIsGone
  <1>4. Neutral(Goto("start")) /\ Neutral(Goto("restart_stop")) /\ Concluding(advance)
    BY <1>1, NeutralSteps, ConcludingCommits DEF Steps, RuntimeUpdates
  <1>5. Neutral(op') \/ (Concluding(op') /\ WithoutRuntime(rec'))
    BY <1>4 DEF ContinueRestart, WithoutRuntime
  <1>6. RuntimeIsGone'
    BY <1>2, <1>3, <1>5 DEF RuntimeIsGone, Neutral
  <1>7. StartIsNotFrozen'
    BY <1>5 DEF StartIsNotFrozen, Neutral, Concluding, Ends
  <1>8. ResourcesReleased'
    BY <1>5 DEF ResourcesReleased, Detached, Neutral, Concluding, Ends
  <1> QED
    BY <1>6, <1>7, <1>8 DEF HostInv

LEMMA ObserveRecordKeepsHost ==
    ASSUME HostInv, op \in Operation, UNCHANGED backendVars, ObserveRecord
    PROVE  HostInv'
  <1>1. Refuse \/ Continue("cold_pause") \/ Continue("cold_resume") \/ Continue("observe")
    BY DEF ObserveRecord
  <1> QED
    BY <1>1, RefuseKeepsHost, ContinuesKeepHost DEF Steps, InspectSteps

LEMMA DriveSnapshotKeepsHost ==
    ASSUME HostInv, op \in Operation, UNCHANGED backendVars, DriveSnapshot
    PROVE  HostInv'
  <1>1. Continue("snapshot_capture") \/ Continue("snapshot_inspect")
    BY DEF DriveSnapshot
  <1> QED
    BY <1>1, ContinuesKeepHost DEF Steps, InspectSteps

\* begin_remove claims only a record without a runtime.
LEMMA BeginRemoveKeepsHost ==
    ASSUME IndInv, HostInv, UNCHANGED backendVars, CanBeginRemove(rec),
           rec' = BeginRemove(rec), op' = Goto("remove_release")
    PROVE  HostInv'
  <1>1. op \in Operation /\ rec \in Records
    BY DEF IndInv, TypeOK
  <1>2. Neutral(op') /\ rec'.state = "removing"
    BY <1>1, NeutralSteps DEF Steps, BeginRemove, Records
  <1>3. ~Visible
    BY DEF CanBeginRemove, HostInv, RuntimeIsGone, WithoutRuntime, Quiet
  <1>4. ~Visible'
    BY <1>3 DEF Visible, Live, backendVars
  <1> QED
    BY <1>2, <1>4
       DEF HostInv, RuntimeIsGone, StartIsNotFrozen, ResourcesReleased, Detached, Neutral, Ends

LEMMA DispatchKeepsHost == IndInv /\ HostInv /\ Dispatch => HostInv'
  <1>1. SUFFICES ASSUME IndInv, HostInv, Dispatch PROVE HostInv'
    OBVIOUS
  <1>2. op \in Operation /\ UNCHANGED backendVars /\ op.pc = "dispatch"
    BY <1>1 DEF IndInv, TypeOK, Dispatch
  <1>3. CASE Refuse
    BY <1>1, <1>2, <1>3, RefuseKeepsHost
  <1>4. CASE DriveSnapshot
    BY <1>1, <1>2, <1>4, DriveSnapshotKeepsHost
  <1>5. CASE ObserveRecord
    BY <1>1, <1>2, <1>5, ObserveRecordKeepsHost
  <1>6. CASE Continue("ensure_started") \/ Continue("recover_start") \/ Continue("kill")
             \/ Continue("remove_release")
    BY <1>1, <1>2, <1>6, ContinuesKeepHost DEF Steps, InspectSteps
  <1>7. ASSUME NEW to \in {"starting", "pausing", "resuming", "snapshotting", "killing"},
               NEW intent,
               NEW pc \in {"start", "pause", "cold_pause", "resume", "cold_resume", "kill",
                           "snapshot_capture", "snapshot_inspect"},
               Claim(to, intent, pc)
        PROVE  HostInv'
    BY <1>1, <1>2, <1>7, ClaimKeepsHost DEF Steps, InspectSteps
  <1>8. CASE DispatchStart
    BY <1>3, <1>6, <1>7, <1>8 DEF DispatchStart
  <1>9. CASE DispatchPause
    BY <1>3, <1>4, <1>7, <1>9 DEF DispatchPause
  <1>10. CASE DispatchResume
    BY <1>3, <1>4, <1>7, <1>10 DEF DispatchResume
  <1>11. CASE DispatchKill
    BY <1>3, <1>4, <1>6, <1>7, <1>11 DEF DispatchKill
  <1>12. CASE DispatchRemove
    BY <1>1, <1>2, <1>3, <1>12, BeginRemoveKeepsHost DEF DispatchRemove
  <1>13. CASE DispatchSnapshot
    BY <1>3, <1>4, <1>7, <1>13 DEF DispatchSnapshot
  <1>14. CASE rec.state \in {"restart_stopping", "restart_starting"}
              /\ rec' = rec /\ op' = ContinueRestart(rec)
    BY <1>1, <1>2, <1>14, ContinueRestartKeepsHost
  <1>15. CASE DispatchRestart
    <2> DEFINE intent == [kind |-> "restart", id |-> op.req.id, srcGen |-> rec.gen,
                          src |-> rec.state, opts |-> op.req.opts]
    <2>1. CASE /\ rec.state \in RestartSources
               /\ rec' = TransitionWith(rec, "restart_stopping", "none", intent)
               /\ op' = ContinueRestart(rec')
      <3>1. rec'.state = "restart_stopping" /\ rec'.pending.src = rec.state
        BY <2>1 DEF TransitionWith, NextPending
      <3> QED
        BY <1>1, <1>2, <2>1, <3>1, ContinueRestartKeepsHost
    <2> QED
      BY <1>3, <1>4, <1>14, <1>15, <2>1 DEF DispatchRestart
  <1>16. CASE DispatchInspect
    BY <1>4, <1>5, <1>16 DEF DispatchInspect
  <1>17. CASE DispatchReconcile
    BY <1>4, <1>5, <1>6, <1>14, <1>17 DEF DispatchReconcile
  <1> QED
    BY <1>1, <1>8, <1>9, <1>10, <1>11, <1>12, <1>13, <1>15, <1>16, <1>17 DEF Dispatch

LEMMA EnvironmentKeepsHost ==
    ASSUME IndInv, HostInv, Create \/ (\E req \in Requests : Acquire(req))
                              \/ DeleteSnapshot \/ Crash \/ RuntimeExit
    PROVE  HostInv'
  <1>1. CASE Create
    <2>1. rec.state = "absent" /\ rec'.state = "created" /\ op' = op /\ op.pc = "idle"
      BY <1>1 DEF Create, NewRecord, IndInv, StepFits, Allowed, States
    <2>2. ~Visible
      BY <2>1 DEF HostInv, RuntimeIsGone, WithoutRuntime, Quiet
    <2>3. ~Visible'
      BY <1>1, <2>2 DEF Create, Visible, Live, backendVars
    <2> QED
      BY <2>1, <2>3
         DEF HostInv, RuntimeIsGone, StartIsNotFrozen, ResourcesReleased, Detached
  <1>2. ASSUME NEW req \in Requests, Acquire(req) PROVE HostInv'
    <2>1. Neutral(op')
      BY <1>2, NewOperationType DEF Acquire, Neutral, Ends
    <2> QED
      BY <1>2, <2>1, ContinueKeepsHost DEF Acquire
  <1>3. CASE DeleteSnapshot \/ RuntimeExit
    <2>1. rec' = rec /\ op' = op /\ attached' = attached /\ Shrinks
      BY <1>3 DEF DeleteSnapshot, RuntimeExit, Shrinks, backendVars
    <2> QED
      BY <2>1, ShrinksHides
         DEF HostInv, RuntimeIsGone, StartIsNotFrozen, ResourcesReleased
  <1>4. CASE Crash
    <2>1. rec' = rec /\ Neutral(op') /\ attached' = attached /\ Shrinks
      BY <1>4, IdleType DEF Crash, Neutral, Ends, Shrinks
    <2> QED
      BY <2>1, QuietStep
  <1> QED
    BY <1>1, <1>2, <1>3, <1>4

-----------------------------------------------------------------------------
LEMMA InitHost == Init => HostInv
  BY IdleType
     DEF Init, BackendInit, HostInv, RuntimeIsGone, StartIsNotFrozen, ResourcesReleased,
         Visible, Live, NewRecord

LEMMA NextKeepsHost == IndInv /\ HostInv /\ [Next]_vars => HostInv'
  <1>1. SUFFICES ASSUME IndInv, HostInv, [Next]_vars PROVE HostInv'
    OBVIOUS
  <1>2. CASE UNCHANGED vars
    BY <1>1, <1>2
       DEF vars, HostInv, RuntimeIsGone, StartIsNotFrozen, ResourcesReleased, Visible, Live
  <1>3. CASE OperationStep
    <2>1. CASE ClaimStart
      BY <1>1, <2>1, ClaimKeepsHost DEF ClaimStart, Steps
    <2> QED
      BY <1>1, <1>3, <2>1, DispatchKeepsHost, InspectKeepsHost, PrepareKeepsHost,
         LaunchKeepsHost, RecordKeepsHost, ReadyKeepsHost, StopKeepsHost, TransitionKeepsHost,
         CaptureKeepsHost, ReleaseKeepsHost, CommitKeepsHost, RemoveKeepsHost
         DEF OperationStep
  <1> QED
    BY <1>1, <1>2, <1>3, EnvironmentKeepsHost DEF Next

\* Every crash, fault and exit included, the container, runtime.json and the
\* attachments stay in step with the record and the operation.
LEMMA HostInvariance == Spec => [](IndInv /\ HostInv)
  <1>1. Init => IndInv /\ HostInv
    BY InitInv, InitHost
  <1>2. (IndInv /\ HostInv) /\ [Next]_vars => (IndInv /\ HostInv)'
    BY NextKeepsInv, NextKeepsHost
  <1> QED
    BY <1>1, <1>2, PTL DEF Spec

\* A record that stopped, failed, was never started or is being removed never
\* leaves behind a live container that runtime.json names.
THEOREM NoTrackedLeftover == Spec => []TrackedRuntimeHasLiveRecord
  <1>1. IndInv /\ HostInv => TrackedRuntimeHasLiveRecord
    BY DEF HostInv, RuntimeIsGone, TrackedRuntimeHasLiveRecord, Visible, WithoutRuntime, Quiet,
           KeepsResources
  <1> QED
    BY <1>1, HostInvariance, PTL

\* remove deletes the recorded container by force only when it is not live: it
\* never implies a kill the caller did not request.
THEOREM RemoveSparesRuntime == Spec => []RemoveNeverKills
  <1>1. IndInv /\ HostInv => RemoveNeverKills
    <2>1. SUFFICES ASSUME IndInv, HostInv, op.pc = "remove_cleanup" PROVE ~Visible
      BY DEF RemoveNeverKills, Visible
    <2>2. rec.state = "removing"
      BY <2>1 DEF IndInv, StepFits, Allowed
    <2> QED
      BY <2>1, <2>2 DEF HostInv, RuntimeIsGone, WithoutRuntime, Quiet
  <1> QED
    BY <1>1, HostInvariance, PTL

\* A stopped or removed execution holds no volume or network attachment.
THEOREM StoppedHoldsNothing == Spec => []StoppedReleasesResources
  <1>1. IndInv /\ HostInv => StoppedReleasesResources
    BY DEF HostInv, ResourcesReleased, Detached, StoppedReleasesResources
  <1> QED
    BY <1>1, HostInvariance, PTL

\* Only a published decision takes a restart into its next generation.
LEMMA OnlyCommitAdvances ==
    ASSUME IndInv, Next, rec.state = "restart_stopping", rec'.state = "restart_starting"
    PROVE  Ends(op)
  <1>1. ASSUME NEW to \in {"starting", "pausing", "resuming", "snapshotting", "killing"},
               NEW intent, NEW pc, Claim(to, intent, pc)
        PROVE  FALSE
    BY <1>1 DEF Claim, TransitionWith
  <1>2. rec' # rec
    OBVIOUS
  <1>3. CASE Dispatch
    <2>1. ~DispatchRemove
      BY <1>2 DEF DispatchRemove, CanBeginRemove, Refuse
    <2>2. ~DispatchRestart
      BY <1>2 DEF DispatchRestart, RestartSources, DriveSnapshot, Continue, Refuse
    <2>3. ~(DispatchStart \/ DispatchPause \/ DispatchResume \/ DispatchKill
              \/ DispatchSnapshot)
      BY <1>1, <1>2 DEF DispatchStart, DispatchPause, DispatchResume, DispatchKill,
         DispatchSnapshot, DriveSnapshot, Continue, Refuse
    <2>4. ~(DispatchInspect \/ DispatchReconcile)
      BY <1>2 DEF DispatchInspect, DispatchReconcile, DriveSnapshot, ObserveRecord, Continue,
         Refuse
    <2> QED
      BY <1>3, <2>1, <2>2, <2>3, <2>4 DEF Dispatch
  <1>4. CASE ClaimStart
    BY <1>1, <1>4 DEF ClaimStart
  <1>5. CASE CommitStep
    BY <1>2, <1>5 DEF CommitStep, TransitionWith, Refuse, Ends
  <1>6. CASE Create \/ RemoveForget
    BY <1>2, <1>6 DEF Create, RemoveForget, FinishRemove, NewRecord, Refuse
  <1> QED
    BY <1>2, <1>3, <1>4, <1>5, <1>6
       DEF Next, OperationStep, Acquire, DeleteSnapshot, Crash, RuntimeExit, InspectBackend,
           StartPrepare, StartLaunch, StartRecord, StartReady, PauseRuntime, ResumeRuntime,
           ColdPause, FinishKill, FinishRestartStop, PauseForSnapshot, RestoreSnapshotSource,
           CaptureSnapshot, ReleaseStep, RemoveRelease, RemoveCleanup

\* A restart enters the next generation only once the runtime of the previous
\* one, if runtime.json names it, is no longer live.
THEOREM RestartReplaces == Spec => RestartReplacesRuntime
  <1>1. IndInv /\ HostInv /\ [Next]_vars
        => [rec.state = "restart_stopping" /\ rec'.state = "restart_starting"
              => ~(Live /\ runtimeJson # "none")]_vars
    <2>1. SUFFICES ASSUME IndInv, HostInv, Next, rec.state = "restart_stopping",
                          rec'.state = "restart_starting"
                   PROVE  ~Visible
      BY DEF vars, Visible
    <2>2. Ends(op)
      BY <2>1, OnlyCommitAdvances
    <2> QED
      BY <2>1, <2>2 DEF HostInv, RuntimeIsGone
  <1> QED
    BY <1>1, HostInvariance, PTL DEF Spec, RestartReplacesRuntime

=============================================================================
