-------------------- MODULE LocalExecutionAgreementProofs --------------------
(***************************************************************************)
(* Theorems about LocalExecution: between operations the record and the    *)
(* container agree on who is running and who is frozen, whatever crashes,  *)
(* exits and failures happen, unless a crun pause or resume of that        *)
(* container reported an error; and a pause without memory keeps its       *)
(* writable rootfs whatever fails.                                         *)
(***************************************************************************)
EXTENDS LocalExecutionHostProofs

-----------------------------------------------------------------------------
(* Which kind of pause and resume each step belongs to. This part holds    *)
(* whatever fails.                                                         *)

StepKeepsMode(r, o) ==
    /\ o.pc = "observe" => /\ r.state \in {"paused", "resuming"} => r.warm
                           /\ r.state = "pausing" => r.pending.keep
    /\ o.pc \in {"pause", "pause_failed"} => r.pending.keep
    /\ o.pc \in {"cold_pause", "cold_pause_failed"} => ~r.pending.keep
    /\ o.pc \in {"resume", "resume_failed"} => r.warm
    /\ o.pc = "cold_resume" => ~r.warm
    /\ o.pc \in StartSteps /\ r.state = "resuming" => ~r.warm
    /\ o.pc \in {"snapshot_pause", "snapshot_pause_failed"} => r.pending.src = "running"

ModeInv == StepKeepsMode(rec, op)

-----------------------------------------------------------------------------
(* The container and the record.                                           *)

\* The records whose container may be frozen.
MayBeFrozen(r) ==
    /\ r.warm
    /\ \/ r.state \in {"paused", "resuming", "snapshotting", "killing"}
       \/ r.state = "pausing" /\ r.pending.keep
       \/ r.state = "restart_stopping" /\ r.pending.src = "paused"

FrozenIsTracked == crun = "paused" => runtimeJson = "current" /\ MayBeFrozen(rec)

\* The records whose container must not run, or only where it can be found.
PausedIsFrozen ==
    /\ rec.warm /\ rec.state = "paused" => crun # "running"
    /\ rec.warm /\ rec.state = "snapshotting" /\ rec.pending.src = "paused" => crun # "running"
    /\ rec.warm /\ rec.state = "resuming" /\ crun = "running" => runtimeJson = "current"

ColdIsGone == ~rec.warm /\ rec.state \in {"paused", "snapshotting"} => ~Visible

\* The decision leads to a pause without memory.
PausesCold(r, o) == o.then.upd = "cold_pause" \/ (o.then.upd = "none" /\ ~r.warm)

DecisionAgrees ==
    op.pc \in {"release", "commit"} =>
        /\ op.then.to = "running" => crun # "paused"
        /\ op.then.to = "paused" => IF PausesCold(rec, op) THEN ~Visible ELSE crun # "running"

\* A pause or resume that fails although crun reported no error found no
\* container to act on.
StepAgrees ==
    /\ op.pc \in {"pause_failed", "snapshot_resume_failed"} => crun # "paused"
    /\ op.pc = "resume_failed" => ~Live

\* A frozen container that a failing kill left without runtime.json: no manager
\* finds it any more, and no start gets past it.
LeakStates == {"killing", "stopped", "failed", "removing", "removed", "restart_stopping",
               "restart_starting"}

Leaked ==
    /\ crun = "paused" /\ runtimeJson = "none"
    /\ rec.state \in LeakStates
    /\ owner => op.pc = "launch"
    /\ op.pc \notin {"record", "ready"}
    /\ op.pc \in {"release", "commit"} => op.then.to # "running"

AgreeInv ==
    FrozenIsTracked /\ PausedIsFrozen /\ ColdIsGone /\ DecisionAgrees /\ StepAgrees

-----------------------------------------------------------------------------
(* ModeInv is inductive.                                                   *)

\* The steps that belong to one kind of pause, resume or snapshot.
Moded ==
    {"observe", "pause", "pause_failed", "cold_pause", "cold_pause_failed", "resume",
     "resume_failed", "cold_resume", "snapshot_pause", "snapshot_pause_failed"}
      \cup StartSteps

LEMMA PlainStep ==
    ASSUME NEW r, NEW o, o.pc \notin Moded
    PROVE  StepKeepsMode(r, o)
  BY DEF Moded, StepKeepsMode

\* The steps at which decisions are published.
LEMMA PublishingSteps ==
    ASSUME op \in Operation, NEW to \in States, NEW upd \in RuntimeUpdates,
           NEW next \in {"idle", "dispatch", "claim_start", "start"}
    PROVE  /\ CommitThen(to, upd, next).pc = "commit" /\ Commit(to, upd).pc = "commit"
           /\ ReleaseThen(to, upd, next).pc = "release" /\ Release(to, upd).pc = "release"
  BY CommitThenType DEF Commit, Release

LEMMA ObserveGoes ==
    ASSUME op \in Operation, NEW obs \in Observations
    PROVE  \/ Observe(obs).pc \in {"idle", "commit", "release"}
           \/ rec.state = "pausing" /\ Observe(obs) = Goto("pause")
           \/ rec.state = "resuming" /\ Observe(obs) = Goto("resume")
  <1>1. Done.pc = "idle"
    BY IdleType
  <1>2. /\ Release("stopped", "terminal").pc = "release"
        /\ Release("failed", "terminal").pc = "release"
        /\ Commit("running", "start_handle").pc = "commit"
        /\ Commit("paused", "handle").pc = "commit"
        /\ Commit("running", "handle").pc = "commit"
        /\ Commit("running", "restart_handle").pc = "commit"
        /\ Commit("failed", "restart_failed").pc = "commit"
    BY PublishingSteps DEF States, RuntimeUpdates
  <1> QED
    BY <1>1, <1>2 DEF Observe

LEMMA ResolveGoes ==
    ASSUME op \in Operation, NEW obs \in Observations
    PROVE  /\ EnsureStarted(obs).pc \in {"idle", "commit", "release"}
           /\ RecoverStart(obs).pc \in {"idle", "commit", "release"}
           /\ ResolveStartError(obs).pc \in {"idle", "commit", "release"}
           /\ ResolvePauseError(obs).pc \in {"idle", "commit", "release"}
           /\ ResolveResumeError(obs).pc \in {"idle", "commit", "release"}
           /\ ResolveColdPauseError(obs).pc \in {"idle", "commit", "release"}
           /\ ResolveKillError(obs).pc \in {"idle", "commit", "release"}
           /\ ConfirmRestartKill(obs).pc \in {"idle", "commit", "release"}
           /\ SnapshotRestored.pc = "commit"
           /\ \/ FinishColdResume(obs).pc \in {"idle", "commit", "release"}
              \/ FinishColdResume(obs) = Goto("start")
  <1>1. Done.pc = "idle"
    BY IdleType
  <1>2. /\ Commit("running", "start_handle").pc = "commit"
        /\ Commit("failed", "terminal").pc = "commit"
        /\ CommitThen("created", "none", "claim_start").pc = "commit"
        /\ Release("paused", "none").pc = "release"
        /\ Commit("running", "restart_handle").pc = "commit"
        /\ Release("failed", "restart_failed").pc = "release"
    BY PublishingSteps DEF States, RuntimeUpdates
  <1>3. /\ Commit("paused", "handle").pc = "commit" /\ Commit("running", "none").pc = "commit"
        /\ Commit("running", "handle").pc = "commit" /\ Commit("paused", "none").pc = "commit"
        /\ Release("paused", "cold_pause").pc = "release"
        /\ Release("stopped", "kill_terminal").pc = "release"
        /\ ReleaseThen("restart_starting", "restart_advance", "start").pc = "release"
    BY PublishingSteps DEF States, RuntimeUpdates
  <1>4. SnapshotRestored.pc = "commit"
    BY DEF SnapshotRestored, CommitThen, Operation
  <1>5. /\ EnsureStarted(obs).pc \in {"idle", "commit", "release"}
        /\ RecoverStart(obs).pc \in {"idle", "commit", "release"}
    BY <1>1, <1>2 DEF EnsureStarted, RecoverStart
  <1>6. ResolveStartError(obs).pc \in {"idle", "commit", "release"}
    BY <1>1, <1>2 DEF ResolveStartError
  <1>7. /\ ResolvePauseError(obs).pc \in {"idle", "commit", "release"}
        /\ ResolveResumeError(obs).pc \in {"idle", "commit", "release"}
        /\ ResolveColdPauseError(obs).pc \in {"idle", "commit", "release"}
    BY <1>1, <1>3 DEF ResolvePauseError, ResolveResumeError, ResolveColdPauseError
  <1>8. /\ ResolveKillError(obs).pc \in {"idle", "commit", "release"}
        /\ ConfirmRestartKill(obs).pc \in {"idle", "commit", "release"}
    BY <1>1, <1>3 DEF ResolveKillError, ConfirmRestartKill
  <1>9. \/ FinishColdResume(obs).pc \in {"idle", "commit", "release"}
        \/ FinishColdResume(obs) = Goto("start")
    BY <1>1, <1>2 DEF FinishColdResume
  <1> QED
    BY <1>4, <1>5, <1>6, <1>7, <1>8, <1>9

LEMMA InspectKeepsMode == IndInv /\ ModeInv /\ InspectBackend => ModeInv'
  <1>1. SUFFICES ASSUME IndInv, ModeInv, InspectBackend PROVE StepKeepsMode(rec', op')
    BY DEF ModeInv
  <1>2. PICK obs \in Observations : op' = Decide(obs)
    BY <1>1 DEF InspectBackend
  <1>3. op.pc \in InspectSteps /\ rec' = rec /\ op \in Operation
    BY <1>1 DEF InspectBackend, IndInv, TypeOK
  <1>4. CASE op'.pc \notin Moded
    BY <1>4, PlainStep
  <1>5. {"idle", "commit", "release", "snapshot_capture"} \cap Moded = {}
    BY DEF Moded, StartSteps
  <1>6. CASE op.pc = "observe"
    <2>1. op' = Observe(obs)
      BY <1>2, <1>6 DEF Decide
    <2>2. CASE rec.state = "pausing" /\ op' = Goto("pause")
      BY <1>1, <1>3, <1>6, <2>2, GotoType DEF ModeInv, StepKeepsMode, Steps, StartSteps
    <2>3. CASE rec.state = "resuming" /\ op' = Goto("resume")
      BY <1>1, <1>3, <1>6, <2>3, GotoType DEF ModeInv, StepKeepsMode, Steps, StartSteps
    <2> QED
      BY <1>3, <1>4, <1>5, <2>1, <2>2, <2>3, ObserveGoes
  <1>7. CASE op.pc = "cold_resume"
    <2>1. op' = FinishColdResume(obs)
      BY <1>2, <1>7 DEF Decide
    <2>2. CASE op' = Goto("start")
      BY <1>1, <1>3, <1>7, <2>2, GotoType DEF ModeInv, StepKeepsMode, Steps, StartSteps
    <2> QED
      BY <1>3, <1>4, <1>5, <2>1, <2>2, ResolveGoes
  <1>8. CASE op.pc = "snapshot_inspect"
    <2>1. op' = SnapshotInspected(obs)
      BY <1>2, <1>8 DEF Decide
    <2>2. CASE rec.pending.src = "running" /\ op' = Goto("snapshot_pause")
      BY <1>3, <2>2, GotoType DEF StepKeepsMode, Steps, StartSteps
    <2>3. CASE op' = Goto("snapshot_capture") \/ op' = Done
      BY <1>3, <1>4, <1>5, <2>3, GotoType, IdleType DEF Steps
    <2> QED
      BY <2>1, <2>2, <2>3 DEF SnapshotInspected
  <1>9. CASE op.pc \notin {"observe", "cold_resume", "snapshot_inspect"}
    <2>1. op'.pc \in {"idle", "commit", "release", "snapshot_capture"}
      <3>1. Done.pc = "idle" /\ Goto("snapshot_capture").pc = "snapshot_capture"
        BY <1>3, IdleType, GotoType DEF Steps
      <3> QED
        BY <1>2, <1>3, <1>9, <3>1, ResolveGoes DEF Decide, InspectSteps
    <2> QED
      BY <1>4, <1>5, <2>1
  <1> QED
    BY <1>6, <1>7, <1>8, <1>9

LEMMA StartKeepsMode ==
    IndInv /\ ModeInv /\ (StartPrepare \/ StartLaunch \/ StartRecord \/ StartReady) => ModeInv'
  <1>1. SUFFICES ASSUME IndInv, ModeInv,
                        StartPrepare \/ StartLaunch \/ StartRecord \/ StartReady
                 PROVE  StepKeepsMode(rec', op')
    BY DEF ModeInv
  <1>2. op.pc \in StartSteps /\ rec' = rec /\ op \in Operation
    BY <1>1 DEF StartPrepare, StartLaunch, StartRecord, StartReady, StartSteps, IndInv, TypeOK
  <1>3. op'.pc \in StartSteps \cup {"commit"}
    <2>1. /\ Goto("start_failed").pc = "start_failed" /\ Goto("record").pc = "record"
          /\ Goto("ready").pc = "ready"
      BY <1>2, GotoType DEF Steps, InspectSteps
    <2>2. /\ Commit("running", "restart_handle").pc = "commit"
          /\ Commit("running", "start_handle").pc = "commit"
      BY <1>2, PublishingSteps DEF States, RuntimeUpdates
    <2>3. CASE StartPrepare
      BY <1>2, <2>1, <2>3 DEF StartPrepare, AfterStart, StartSteps, Operation
    <2>4. CASE StartLaunch \/ StartRecord
      BY <2>1, <2>4 DEF StartLaunch, StartRecord, AfterStart, StartSteps
    <2>5. CASE StartReady
      BY <2>1, <2>2, <2>5 DEF StartReady, AfterStart, StartSteps
    <2> QED
      BY <1>1, <2>3, <2>4, <2>5
  <1> QED
    BY <1>1, <1>2, <1>3 DEF ModeInv, StepKeepsMode, StartSteps

LEMMA CallsKeepMode ==
    IndInv /\ ModeInv
      /\ (PauseRuntime \/ ResumeRuntime \/ ColdPause \/ FinishKill \/ FinishRestartStop
            \/ PauseForSnapshot \/ RestoreSnapshotSource)
      => ModeInv'
  <1>1. SUFFICES ASSUME IndInv, ModeInv, PauseRuntime \/ ResumeRuntime \/ ColdPause
                          \/ FinishKill \/ FinishRestartStop \/ PauseForSnapshot
                          \/ RestoreSnapshotSource
                 PROVE  StepKeepsMode(rec', op')
    BY DEF ModeInv
  <1>2. rec' = rec /\ op \in Operation
    BY <1>1 DEF PauseRuntime, ResumeRuntime, ColdPause, FinishKill, FinishRestartStop,
         PauseForSnapshot, RestoreSnapshotSource, IndInv, TypeOK
  <1>3. \A pc \in Steps : Goto(pc).pc = pc
    BY <1>2, GotoType
  <1>4. /\ Commit("paused", "handle").pc = "commit" /\ Commit("running", "handle").pc = "commit"
        /\ Release("paused", "cold_pause").pc = "release"
        /\ Release("stopped", "kill_terminal").pc = "release"
        /\ ReleaseThen("restart_starting", "restart_advance", "start").pc = "release"
        /\ SnapshotRestored.pc = "commit"
    BY <1>2, PublishingSteps, ResolveGoes DEF States, RuntimeUpdates, Observations
  <1>5. \/ op'.pc \notin Moded
        \/ op.pc = "pause" /\ op'.pc = "pause_failed"
        \/ op.pc = "resume" /\ op'.pc = "resume_failed"
        \/ op.pc = "cold_pause" /\ op'.pc = "cold_pause_failed"
        \/ op.pc = "snapshot_pause" /\ op'.pc = "snapshot_pause_failed"
    <2>1. CASE PauseRuntime \/ ResumeRuntime
      BY <1>3, <1>4, <2>1
         DEF PauseRuntime, ResumeRuntime, AfterCall, Steps, InspectSteps, Moded, StartSteps
    <2>2. CASE ColdPause \/ FinishKill \/ FinishRestartStop
      BY <1>3, <1>4, <2>2 DEF ColdPause, FinishKill, FinishRestartStop, AfterCall, Steps,
         InspectSteps, Moded, StartSteps
    <2>3. CASE PauseForSnapshot \/ RestoreSnapshotSource
      BY <1>3, <1>4, <2>3 DEF PauseForSnapshot, RestoreSnapshotSource, AfterCall, Steps,
         InspectSteps, Moded, StartSteps
    <2> QED
      BY <1>1, <2>1, <2>2, <2>3
  <1> QED
    BY <1>1, <1>2, <1>5, PlainStep DEF ModeInv, StepKeepsMode, StartSteps

\* Capturing, releasing, publishing, removing and the environment lead to
\* steps of no particular kind, or to the start of a restart.
LEMMA PublishKeepsMode ==
    IndInv /\ ModeInv /\ (CaptureSnapshot \/ ReleaseStep \/ CommitStep \/ RemoveRelease
                            \/ RemoveCleanup \/ RemoveForget)
      => ModeInv'
  <1>1. SUFFICES ASSUME IndInv, CaptureSnapshot \/ ReleaseStep \/ CommitStep \/ RemoveRelease
                                  \/ RemoveCleanup \/ RemoveForget
                 PROVE  StepKeepsMode(rec', op')
    BY DEF ModeInv
  <1>2. op \in Operation /\ Done.pc = "idle"
    BY <1>1, IdleType DEF IndInv, TypeOK
  <1>3. \A pc \in Steps : Goto(pc).pc = pc
    BY <1>2, GotoType
  <1>4. CASE op'.pc \notin Moded
    BY <1>4, PlainStep
  <1>5. CASE CaptureSnapshot
    <2>1. \A captured \in BOOLEAN : AfterCapture(captured).pc \in {"snapshot_resume", "commit"}
      BY <1>2 DEF AfterCapture, CommitThen, Operation
    <2> QED
      BY <1>2, <1>4, <1>5, <2>1 DEF CaptureSnapshot, Moded, StartSteps
  <1>6. CASE ReleaseStep \/ RemoveRelease \/ RemoveCleanup \/ RemoveForget
    BY <1>2, <1>3, <1>4, <1>6 DEF ReleaseStep, RemoveRelease, RemoveCleanup, RemoveForget, Refuse,
       Moded, StartSteps, Steps
  <1>7. CASE CommitStep
    <2>1. CASE op' = Done
      BY <1>2, <1>4, <2>1 DEF Moded, StartSteps
    <2>2. CASE op' # Done
      <3>1. /\ op'.pc = op.then.next /\ rec'.state = op.then.to /\ DecisionFits(rec, op)
            /\ op.then.next \in {"idle", "dispatch", "claim_start", "start"}
        <4>1. op.then.next \in {"idle", "dispatch", "claim_start", "start"}
          BY <1>2 DEF Operation, Decisions
        <4>2. /\ rec' = TransitionWith(rec, op.then.to, op.then.upd, rec.pending)
              /\ op' = [op EXCEPT !.pc = op.then.next, !.then = NoDecision]
              /\ op.pc = "commit"
          BY <1>7, <2>2 DEF CommitStep, Refuse
        <4>3. op'.pc = op.then.next /\ rec'.state = op.then.to
          BY <1>2, <4>2 DEF TransitionWith, Operation
        <4> QED
          BY <1>1, <4>1, <4>2, <4>3 DEF IndInv, StepFits
      <3>2. CASE op.then.next = "start"
        BY <3>1, <3>2 DEF StepKeepsMode, DecisionFits
      <3>3. CASE op.then.next # "start"
        BY <1>4, <3>1, <3>3 DEF Moded, StartSteps
      <3> QED
        BY <3>2, <3>3
    <2> QED
      BY <2>1, <2>2
  <1> QED
    BY <1>1, <1>5, <1>6, <1>7

LEMMA EnvironmentKeepsMode ==
    ASSUME IndInv, ModeInv, Create \/ (\E req \in Requests : Acquire(req))
                              \/ DeleteSnapshot \/ Crash \/ RuntimeExit
    PROVE  ModeInv'
  <1>1. CASE Create
    <2>1. op.pc = "idle" /\ op' = op
      BY <1>1 DEF Create, IndInv, StepFits, Allowed, States
    <2> QED
      BY <2>1, PlainStep DEF ModeInv, Moded, StartSteps
  <1>2. ASSUME NEW req \in Requests, Acquire(req) PROVE ModeInv'
    BY <1>2, NewOperationType, PlainStep DEF Acquire, ModeInv, Moded, StartSteps
  <1>3. CASE DeleteSnapshot \/ RuntimeExit
    BY <1>3 DEF DeleteSnapshot, RuntimeExit, ModeInv
  <1>4. CASE Crash
    BY <1>4, IdleType, PlainStep DEF Crash, ModeInv, Moded, StartSteps
  <1> QED
    BY <1>1, <1>2, <1>3, <1>4

\* What a claim does to the record.
LEMMA ClaimFacts ==
    ASSUME IndInv, NEW to, NEW intent, NEW pc \in Steps, Claim(to, intent, pc)
    PROVE  /\ rec'.state = to /\ (rec'.warm <=> rec.warm)
           /\ rec'.pending = NextPending(to, intent)
           /\ <<rec.state, to>> \in LegalEdges
           /\ op'.pc = pc
  BY GotoType DEF Claim, CanTransition, TransitionWith, UpdatedWarm, IndInv, TypeOK

LEMMA DispatchKeepsMode == IndInv /\ ModeInv /\ Dispatch => ModeInv'
  <1>1. SUFFICES ASSUME IndInv, Dispatch PROVE StepKeepsMode(rec', op')
    BY DEF ModeInv
  <1>2. op \in Operation /\ Done.pc = "idle"
    BY <1>1, IdleType DEF IndInv, TypeOK
  <1>3. \A pc \in Steps : Goto(pc).pc = pc
    BY <1>2, GotoType
  <1>4. CASE op'.pc \notin Moded
    BY <1>4, PlainStep
  <1>5. CASE Refuse
    BY <1>2, <1>4, <1>5 DEF Refuse, Moded, StartSteps
  <1>6. CASE DriveSnapshot
    BY <1>3, <1>4, <1>6 DEF DriveSnapshot, Continue, Moded, StartSteps, Steps, InspectSteps
  <1>7. CASE ObserveRecord
    <2>1. CASE rec.state = "pausing" /\ ~rec.pending.keep /\ Continue("cold_pause")
      BY <1>3, <2>1 DEF Continue, StepKeepsMode, StartSteps, Steps
    <2>2. CASE rec.state = "resuming" /\ ~rec.warm /\ Continue("cold_resume")
      BY <1>3, <2>2 DEF Continue, StepKeepsMode, StartSteps, Steps, InspectSteps
    <2>3. CASE /\ \/ rec.state \in {"starting", "running", "killing", "restart_starting"}
                  \/ rec.state = "pausing" /\ rec.pending.keep
                  \/ rec.state \in {"resuming", "paused"} /\ rec.warm
                  \/ rec.state = "restart_stopping"
               /\ Continue("observe")
      BY <1>3, <2>3 DEF Continue, StepKeepsMode, StartSteps, Steps, InspectSteps
    <2> QED
      BY <1>5, <1>7, <2>1, <2>2, <2>3 DEF ObserveRecord
  <1>8. CASE Continue("ensure_started") \/ Continue("recover_start") \/ Continue("kill")
               \/ Continue("remove_release")
    BY <1>3, <1>4, <1>8 DEF Continue, Moded, StartSteps, Steps, InspectSteps
  <1>9. ASSUME NEW to \in {"snapshotting", "killing"}, NEW intent,
               NEW pc \in {"kill", "snapshot_capture", "snapshot_inspect"},
               Claim(to, intent, pc)
        PROVE  StepKeepsMode(rec', op')
    BY <1>1, <1>4, <1>9, ClaimFacts DEF Moded, StartSteps, Steps, InspectSteps
  <1>10. CASE Claim("starting", NoOperation, "start")
    <2>1. rec'.state = "starting" /\ op'.pc = "start"
      BY <1>1, <1>10, ClaimFacts DEF Steps
    <2> QED
      BY <2>1 DEF StepKeepsMode
  <1>11. CASE DispatchPause
    <2> DEFINE intent == [kind |-> "pause", keep |-> op.req.keep]
    <2>1. CASE Claim("pausing", intent, IF op.req.keep THEN "pause" ELSE "cold_pause")
      <3>1. /\ NextPending("pausing", intent).keep = op.req.keep
            /\ "pause" \in Steps /\ "cold_pause" \in Steps
        BY DEF NextPending, Steps
      <3>2. CASE op.req.keep
        <4>1. Claim("pausing", intent, "pause")
          BY <2>1, <3>2
        <4>2. /\ rec'.state = "pausing" /\ op'.pc = "pause"
              /\ rec'.pending = NextPending("pausing", intent)
          BY <1>1, <3>1, <4>1, ClaimFacts
        <4>3. rec'.pending.keep
          BY <3>1, <3>2, <4>2
        <4> QED
          BY <4>2, <4>3 DEF StepKeepsMode, StartSteps
      <3>3. CASE ~op.req.keep
        <4>1. Claim("pausing", intent, "cold_pause")
          BY <2>1, <3>3
        <4>2. /\ rec'.state = "pausing" /\ op'.pc = "cold_pause"
              /\ rec'.pending = NextPending("pausing", intent)
          BY <1>1, <3>1, <4>1, ClaimFacts
        <4>3. ~rec'.pending.keep
          BY <3>1, <3>3, <4>2
        <4> QED
          BY <4>2, <4>3 DEF StepKeepsMode, StartSteps
      <3> QED
        BY <3>2, <3>3
    <2> QED
      BY <1>5, <1>6, <1>11, <2>1 DEF DispatchPause
  <1>12. CASE DispatchResume
    <2>1. CASE Claim("resuming", NoOperation, IF rec.warm THEN "resume" ELSE "cold_resume")
      <3>1. CASE rec.warm
        <4>1. Claim("resuming", NoOperation, "resume")
          BY <2>1, <3>1
        <4>2. rec'.state = "resuming" /\ op'.pc = "resume" /\ rec'.warm
          BY <1>1, <3>1, <4>1, ClaimFacts DEF Steps
        <4> QED
          BY <4>2 DEF StepKeepsMode, StartSteps
      <3>2. CASE ~rec.warm
        <4>1. Claim("resuming", NoOperation, "cold_resume")
          BY <2>1, <3>2
        <4>2. rec'.state = "resuming" /\ op'.pc = "cold_resume" /\ ~rec'.warm
          BY <1>1, <3>2, <4>1, ClaimFacts DEF Steps, InspectSteps
        <4> QED
          BY <4>2 DEF StepKeepsMode, StartSteps
      <3> QED
        BY <3>1, <3>2
    <2> QED
      BY <1>5, <1>6, <1>12, <2>1 DEF DispatchResume
  <1>13. CASE DispatchStart
    BY <1>5, <1>8, <1>10, <1>13 DEF DispatchStart
  <1>14. CASE DispatchKill \/ DispatchSnapshot
    BY <1>5, <1>6, <1>8, <1>9, <1>14 DEF DispatchKill, DispatchSnapshot
  <1>15. CASE DispatchRemove
    BY <1>3, <1>4, <1>5, <1>15 DEF DispatchRemove, Moded, StartSteps, Steps
  <1>16. CASE op' = ContinueRestart(rec') /\ rec'.state \in {"restart_stopping", "restart_starting"}
    <2>1. ReleaseThen("restart_starting", "restart_advance", "start").pc = "release"
      BY <1>2, PublishingSteps DEF States, RuntimeUpdates
    <2>2. op'.pc \in {"start", "restart_stop", "release"}
      BY <1>3, <1>16, <2>1 DEF ContinueRestart, Steps
    <2> QED
      BY <1>16, <2>2 DEF StepKeepsMode, StartSteps
  <1>17. CASE DispatchRestart
    BY <1>5, <1>6, <1>16, <1>17 DEF DispatchRestart, TransitionWith
  <1>18. CASE DispatchInspect \/ DispatchReconcile
    BY <1>6, <1>7, <1>8, <1>16, <1>18 DEF DispatchInspect, DispatchReconcile
  <1> QED
    BY <1>1, <1>11, <1>12, <1>13, <1>14, <1>15, <1>17, <1>18 DEF Dispatch

LEMMA NextKeepsMode == IndInv /\ ModeInv /\ [Next]_vars => ModeInv'
  <1>1. SUFFICES ASSUME IndInv, ModeInv, [Next]_vars PROVE ModeInv'
    OBVIOUS
  <1>2. CASE UNCHANGED vars
    BY <1>1, <1>2 DEF vars, ModeInv
  <1>3. CASE ClaimStart
    <2>1. Claim("starting", NoOperation, "start")
      BY <1>3 DEF ClaimStart
    <2> QED
      <3>1. rec'.state = "starting" /\ op'.pc = "start"
        BY <1>1, <2>1, ClaimFacts DEF Steps
      <3> QED
        BY <3>1 DEF ModeInv, StepKeepsMode
  <1> QED
    BY <1>1, <1>2, <1>3, DispatchKeepsMode, InspectKeepsMode, StartKeepsMode, CallsKeepMode,
       PublishKeepsMode, EnvironmentKeepsMode DEF Next, OperationStep

LEMMA ModeInvariance == Spec => [](IndInv /\ HostInv /\ ModeInv)
  <1>1. Init => ModeInv
    BY IdleType, PlainStep DEF Init, ModeInv, Moded, StartSteps
  <1>2. IndInv /\ ModeInv /\ [Next]_vars => ModeInv'
    BY NextKeepsMode
  <1>3. Spec => [](IndInv /\ HostInv)
    BY HostInvariance
  <1> QED
    BY <1>1, <1>2, <1>3, PTL DEF Spec

-----------------------------------------------------------------------------
(* A pause without memory keeps its rootfs.                                *)

\* A step of an operation on a record paused without memory, or resuming from
\* such a pause, keeps the rootfs unless it boots a new one.
LEMMA ColdStepKeepsRootfs ==
    ASSUME IndInv, ModeInv, Next, ColdPaused, rootfs, ~BootsNewRootfs, ColdPaused'
    PROVE  rootfs'
  <1>1. /\ op \in Operation /\ Allowed(op.pc, rec.state)
        /\ rec.state \in {"paused", "resuming"} /\ ~rec.warm
    BY DEF IndInv, TypeOK, StepFits, ColdPaused
  <1>2. CASE UNCHANGED rootfs
    BY <1>2
  <1>3. CASE InspectBackend
    <2>1. rec.state = "resuming"
      BY <1>1, <1>3 DEF InspectBackend, InspectSteps, Allowed, SnapshotSteps, StartSteps,
         ModeInv, StepKeepsMode
    <2>2. ShouldForceRootfsPreservation(rec)
      BY <1>1, <2>1 DEF ShouldForceRootfsPreservation
    <2>3. ASSUME NEW obs, InspectRegistered(rec, obs) PROVE rootfs'
      BY <2>2, <2>3 DEF InspectRegistered, ExitsUnderInspection, Destroyed, DestroyFailed
    <2>4. ASSUME NEW obs, InspectDetached(rec, obs) PROVE rootfs'
      BY <2>2, <2>3, <2>4 DEF InspectDetached, ExitsUnderInspection, Destroyed
    <2> QED
      BY <1>3, <2>3, <2>4 DEF InspectBackend, InspectSandbox
  <1>4. CASE StartPrepare
    BY <1>4 DEF StartPrepare, PrepareResources, backendVars
  <1>5. CASE StartLaunch \/ StartRecord \/ StartReady
    <2>1. op.reuse
      BY <1>5 DEF BootsNewRootfs, StartLaunch, StartRecord, StartReady
    <2> QED
      BY <1>5, <2>1 DEF StartLaunch, StartRecord, StartReady, Launch, RecordRuntime, AwaitReady,
         BootFailed, backendVars
  <1>6. CASE PauseRuntime \/ ResumeRuntime \/ PauseForSnapshot \/ RestoreSnapshotSource
    BY <1>6 DEF PauseRuntime, ResumeRuntime, PauseForSnapshot, RestoreSnapshotSource,
       TransitionSandbox
  <1>7. ~(ColdPause \/ FinishKill \/ FinishRestartStop \/ RemoveCleanup)
    BY <1>1 DEF ColdPause, FinishKill, FinishRestartStop, RemoveCleanup, Allowed
  <1>8. CASE Dispatch \/ ClaimStart \/ Create \/ (\E req \in Requests : Acquire(req))
               \/ DeleteSnapshot \/ Crash \/ RuntimeExit
    BY <1>8 DEF Dispatch, ClaimStart, Create, Acquire, DeleteSnapshot, Crash, RuntimeExit,
       backendVars
  <1>9. CASE CaptureSnapshot \/ ReleaseStep \/ CommitStep \/ RemoveRelease \/ RemoveForget
    BY <1>9 DEF CaptureSnapshot, ReleaseStep, CommitStep, RemoveRelease, RemoveForget,
       ReleaseResources
  <1> QED
    BY <1>3, <1>4, <1>5, <1>6, <1>7, <1>8, <1>9 DEF Next, OperationStep

\* Whatever crashes, failing commands, resumes, restarts and snapshots come in
\* between, the rootfs a pause without memory kept is kept until its resume is
\* published or the execution is killed (stop_for_restart and
\* cleanup_boot_failure preserve it).
THEOREM ColdPauseKeeps == Spec => ColdPauseKeepsRootfs
  <1>1. IndInv /\ HostInv /\ ModeInv /\ [Next]_vars
          => [ColdPaused /\ rootfs /\ ~BootsNewRootfs /\ ColdPaused' => rootfs']_vars
    <2>1. SUFFICES ASSUME IndInv, ModeInv, Next, ColdPaused, rootfs, ~BootsNewRootfs, ColdPaused'
                   PROVE  rootfs'
      BY DEF vars
    <2> QED
      BY <2>1, ColdStepKeepsRootfs
  <1> QED
    BY <1>1, ModeInvariance, PTL DEF Spec, ColdPauseKeepsRootfs

-----------------------------------------------------------------------------
(* Agreement. The steps considered leave freezeFailed FALSE: no crun pause *)
(* or resume of this container reported an error, after which it may or    *)
(* may not have acted.                                                     *)

\* The container and runtime.json stay as they are, or the container is dead.
Settles == UNCHANGED <<crun, runtimeJson>> \/ ~Live'

LEMMA SettlesFacts ==
    ASSUME Settles
    PROVE  /\ Visible' => Visible
           /\ Live' => Live
           /\ crun' = "paused" => crun = "paused" /\ runtimeJson' = runtimeJson
           /\ crun' = "running" => crun = "running" /\ runtimeJson' = runtimeJson
  BY DEF Settles, Visible, Live

LEMMA RegisteredSettles ==
    ASSUME NEW r, NEW obs, InspectRegistered(r, obs)
    PROVE  /\ Settles
           /\ obs = "running" => VisibleActiveState(r) = "running"
           /\ obs = "paused" => VisibleActiveState(r) = "paused"
           /\ UNCHANGED <<crun, runtimeJson>> \/ ~Live'
  BY DEF InspectRegistered, ExitsUnderInspection, Destroyed, DestroyFailed, Settles, Live

LEMMA DetachedSettles ==
    ASSUME NEW r, NEW obs, InspectDetached(r, obs)
    PROVE  /\ Settles
           /\ obs = "running" => VisibleActiveState(r) = "running" /\ crun' # "paused"
           /\ obs = "paused" => VisibleActiveState(r) = "paused" \/ crun' = "paused"
  <1>1. CASE InspectRegistered(r, obs) /\ crun = "running"
    BY <1>1, RegisteredSettles DEF Settles, Live
  <1>2. CASE ~(InspectRegistered(r, obs) /\ crun = "running")
    BY <1>2 DEF InspectDetached, ExitsUnderInspection, Destroyed, Settles, Live
  <1> QED
    BY <1>1, <1>2

\* inspect_sandbox whatever fails: a container that is reported
\* running or paused is, as far as the manager can see.
LEMMA InspectSettles ==
    ASSUME NEW r, NEW obs, InspectSandbox(r, obs)
    PROVE  /\ Settles
           /\ obs = "running" => VisibleActiveState(r) = "running"
           /\ obs = "paused" => VisibleActiveState(r) = "paused" \/ crun' = "paused"
  <1>1. CASE owner /\ InspectRegistered(r, obs)
    BY <1>1, RegisteredSettles DEF Settles
  <1>2. CASE ~owner /\ InspectDetached(r, obs)
    BY <1>2, DetachedSettles DEF Settles
  <1> QED
    BY <1>1, <1>2 DEF InspectSandbox

\* kill and stop_for_restart. A failing kill deletes runtime.json all the same,
\* and one of a cold-paused execution does not look for a container.
LEMMA StopSettles ==
    ASSUME NEW r, NEW result
    PROVE  /\ StopForRestart(r, result) => Settles
           /\ KillRuntime(r, result) =>
                \/ Settles
                \/ /\ crun' = crun /\ runtimeJson' = "none"
                   /\ ~r.warm \/ (owner' = FALSE /\ result = "error")
  <1>1. ASSUME NEW preserve, DestroyRegistered(preserve, result)
        PROVE  Settles \/ (/\ ~preserve /\ crun' = crun /\ runtimeJson' = "none"
                           /\ owner' = FALSE /\ result = "error")
    BY <1>1 DEF DestroyRegistered, Destroyed, DestroyFailed, Settles, Live
  <1>2. ASSUME NEW preserve, DestroyDetachedSandbox(r, preserve, result)
        PROVE  Settles \/ (/\ ~preserve /\ crun' = crun /\ runtimeJson' = "none"
                           /\ owner' = FALSE /\ result = "error")
    <2>1. CASE InspectDetached(r, "stopped") \/ InspectDetached(r, result)
      BY <2>1, DetachedSettles
    <2>2. CASE ExitsUnderInspection \/ UNCHANGED <<crun, runtimeJson>>
      BY <2>2 DEF ExitsUnderInspection, Settles, Live
    <2> QED
      BY <1>1, <1>2, <2>1, <2>2 DEF DestroyDetachedSandbox
  <1>3. CASE StopForRestart(r, result)
    BY <1>1, <1>2, <1>3 DEF StopForRestart, Settles
  <1>4. ASSUME KillRuntime(r, result)
        PROVE  \/ Settles
               \/ /\ crun' = crun /\ runtimeJson' = "none"
                  /\ ~r.warm \/ (owner' = FALSE /\ result = "error")
    <2>1. CASE DestroyRegistered(FALSE, result)
      BY <1>1, <2>1
    <2>2. CASE DestroyDetachedSandbox(r, FALSE, result)
      BY <1>2, <2>2
    <2>3. CASE ~r.warm /\ DestroyWithoutHandler(result)
      BY <2>3 DEF DestroyWithoutHandler
    <2> QED
      BY <1>4, <2>1, <2>2, <2>3 DEF KillRuntime
  <1> QED
    BY <1>3, <1>4

\* crun pause and resume that report no error of crun.
LEMMA TransitionSettles ==
    ASSUME ~freezeFailed', NEW target, NEW result, TransitionSandbox(target, result)
    PROVE  \/ /\ result = "ok" /\ crun' = target
              /\ Live /\ runtimeJson = "current" /\ runtimeJson' = "current"
           \/ /\ result = "error" /\ Settles
              /\ crun' = "stopped" \/ (~(runtimeJson = "current" /\ Live)
                                         /\ UNCHANGED <<crun, runtimeJson, owner>>)
  BY DEF TransitionSandbox, Settles, Live

-----------------------------------------------------------------------------
(* What the next step of the operation needs of the container.             *)

FailureSteps == {"pause_failed", "resume_failed", "snapshot_resume_failed"}

Backed(o) ==
    /\ o.pc \notin FailureSteps
    /\ o.pc \in {"release", "commit"} =>
         /\ o.then.to = "running" => crun' # "paused"
         /\ o.then.to = "paused" => IF PausesCold(rec, o) THEN ~Visible' ELSE crun' # "running"

LEMMA BackedSteps ==
    ASSUME op \in Operation
    PROVE  /\ Backed(Done)
           /\ \A pc \in Steps \ ({"release", "commit"} \cup FailureSteps) : Backed(Goto(pc))
  <1>1. Backed(Done)
    BY IdleType DEF Backed, FailureSteps
  <1>2. ASSUME NEW pc \in Steps \ ({"release", "commit"} \cup FailureSteps) PROVE Backed(Goto(pc))
    BY <1>2, GotoType DEF Backed
  <1> QED
    BY <1>1, <1>2

LEMMA BackedDecision ==
    ASSUME op \in Operation, NEW to \in States, NEW upd \in RuntimeUpdates,
           NEW next \in {"idle", "dispatch", "claim_start", "start"},
           to = "running" => crun' # "paused",
           (to = "paused" /\ (upd = "cold_pause" \/ (upd = "none" /\ ~rec.warm))) => ~Visible',
           (to = "paused" /\ ~(upd = "cold_pause" \/ (upd = "none" /\ ~rec.warm)))
             => crun' # "running"
    PROVE  Backed(CommitThen(to, upd, next)) /\ Backed(ReleaseThen(to, upd, next))
  BY CommitThenType DEF Backed, FailureSteps, PausesCold

LEMMA BackedCommit ==
    ASSUME op \in Operation, NEW to \in States, NEW upd \in RuntimeUpdates,
           to = "running" => crun' # "paused",
           (to = "paused" /\ (upd = "cold_pause" \/ (upd = "none" /\ ~rec.warm))) => ~Visible',
           (to = "paused" /\ ~(upd = "cold_pause" \/ (upd = "none" /\ ~rec.warm)))
             => crun' # "running"
    PROVE  Backed(Commit(to, upd)) /\ Backed(Release(to, upd))
  BY BackedDecision DEF Commit, Release

\* A step that keeps the record and the container, or finds it dead.
LEMMA SettleStep ==
    ASSUME AgreeInv, rec' = rec, Settles, Backed(op')
    PROVE  AgreeInv'
  <1>1. FrozenIsTracked' /\ PausedIsFrozen' /\ ColdIsGone'
    BY SettlesFacts DEF AgreeInv, FrozenIsTracked, PausedIsFrozen, ColdIsGone
  <1>2. DecisionAgrees' /\ StepAgrees'
    BY DEF Backed, DecisionAgrees, StepAgrees, PausesCold, FailureSteps
  <1> QED
    BY <1>1, <1>2 DEF AgreeInv

-----------------------------------------------------------------------------
(* Decisions agree with the container they are about.                      *)

\* Only an execution that is, or is being, paused with memory is frozen.
LEMMA NotFrozen ==
    ASSUME AgreeInv, ~MayBeFrozen(rec)
    PROVE  crun # "paused"
  BY DEF AgreeInv, FrozenIsTracked

LEMMA ObserveBacked ==
    ASSUME IndInv, ModeInv, AgreeInv, op.pc = "observe",
           NEW obs \in Observations, InspectSandbox(rec, obs)
    PROVE  Backed(Observe(obs))
  <1>1. op \in Operation
    BY DEF IndInv, TypeOK
  <1>2. /\ Settles
        /\ obs = "running" => VisibleActiveState(rec) = "running"
        /\ obs = "paused" => VisibleActiveState(rec) = "paused" \/ crun' = "paused"
    BY InspectSettles
  <1>3. /\ rec.state = "resuming" => rec.warm
        /\ rec.state = "pausing" => rec.pending.keep
    BY DEF ModeInv, StepKeepsMode
  <1>4. Backed(Done) /\ Backed(Goto("pause")) /\ Backed(Goto("resume"))
    BY <1>1, BackedSteps DEF Steps, FailureSteps
  <1>5. /\ Backed(Release("stopped", "terminal")) /\ Backed(Release("failed", "terminal"))
        /\ Backed(Commit("failed", "restart_failed"))
    BY <1>1, BackedCommit DEF States, RuntimeUpdates
  <1>6. rec.state \in {"starting", "restart_starting"} =>
           Backed(Commit("running", "start_handle")) /\ Backed(Commit("running", "restart_handle"))
    <2>1. SUFFICES ASSUME rec.state \in {"starting", "restart_starting"} PROVE crun' # "paused"
      BY <1>1, BackedCommit DEF States, RuntimeUpdates
    <2> QED
      BY <1>2, <2>1, NotFrozen, SettlesFacts DEF MayBeFrozen
  <1>7. ~(rec.state = "resuming" /\ obs = "running")
    BY <1>2, <1>3 DEF VisibleActiveState
  <1>8. rec.state = "pausing" /\ obs = "paused" => Backed(Commit("paused", "handle"))
    <2>1. SUFFICES ASSUME rec.state = "pausing", obs = "paused" PROVE crun' # "running"
      BY <1>1, BackedCommit DEF States, RuntimeUpdates
    <2> QED
      BY <1>2, <2>1 DEF VisibleActiveState
  <1> QED
    BY <1>4, <1>5, <1>6, <1>7, <1>8 DEF Observe

\* The handlers of a start: the container they publish was just started.
LEMMA StartDecisionsBacked ==
    ASSUME IndInv, ModeInv, AgreeInv,
           op.pc \in {"ensure_started", "recover_start", "start_failed", "cold_resume"},
           NEW obs \in Observations, InspectSandbox(rec, obs)
    PROVE  Backed(Decide(obs))
  <1>1. /\ op \in Operation /\ rec.state \in States
        /\ rec.state \in {"starting", "resuming", "restart_starting"}
    BY DecideContext DEF Allowed, StartSteps, Steps, InspectSteps
  <1>2. rec.state = "resuming" => ~rec.warm
    BY <1>1, DecideContext DEF ModeInv, StepKeepsMode, StartSteps, Allowed, Steps, InspectSteps
  <1>3. /\ Settles
        /\ obs = "paused" => VisibleActiveState(rec) = "paused" \/ crun' = "paused"
    BY InspectSettles
  <1>4. crun' # "paused"
    BY <1>1, <1>2, <1>3, NotFrozen, SettlesFacts DEF MayBeFrozen
  <1>5. rec.state = "resuming" /\ (Gone(obs) \/ obs = "paused") => ~Visible'
    <2>1. SUFFICES ASSUME rec.state = "resuming", Gone(obs) \/ obs = "paused" PROVE ~Visible'
      OBVIOUS
    <2>2. obs # "paused"
      BY <1>2, <1>3, <1>4, <2>1 DEF VisibleActiveState
    <2>3. ~Gone(VisibleActiveState(rec))
      BY <1>1, ActiveStateIsLive
    <2> QED
      BY <2>1, <2>2, <2>3, InspectFacts
  <1>6. Backed(Done) /\ Backed(Goto("start"))
    BY <1>1, BackedSteps DEF Steps, FailureSteps
  <1>7. /\ Backed(Commit("running", "start_handle")) /\ Backed(Commit("running", "restart_handle"))
        /\ Backed(Commit("failed", "terminal")) /\ Backed(Release("failed", "restart_failed"))
    BY <1>1, <1>4, BackedCommit DEF States, RuntimeUpdates
  <1>8. Backed(CommitThen("created", "none", "claim_start"))
    BY <1>1, BackedDecision DEF States, RuntimeUpdates
  <1>9. rec.state = "resuming" /\ (Gone(obs) \/ obs = "paused") => Backed(Release("paused", "none"))
    BY <1>1, <1>2, <1>5, BackedCommit DEF States, RuntimeUpdates
  <1>10. /\ Backed(EnsureStarted(obs)) /\ Backed(RecoverStart(obs))
         /\ Backed(ResolveStartError(obs)) /\ Backed(FinishColdResume(obs))
    BY <1>6, <1>7, <1>8, <1>9
       DEF EnsureStarted, RecoverStart, ResolveStartError, FinishColdResume
  <1> QED
    BY <1>1, <1>10 DEF Decide

\* The handlers of a failed pause or resume.
LEMMA ErrorDecisionsBacked ==
    ASSUME IndInv, ModeInv, AgreeInv,
           op.pc \in {"pause_failed", "cold_pause_failed", "resume_failed", "kill_failed",
                      "restart_stop_failed", "snapshot_inspect", "snapshot_pause_failed",
                      "snapshot_resume_failed"},
           NEW obs \in Observations, InspectSandbox(rec, obs)
    PROVE  Backed(Decide(obs))
  <1>1. op \in Operation /\ rec.state \in States /\ Allowed(op.pc, rec.state)
    BY DecideContext DEF Steps, InspectSteps
  <1>2. Settles /\ ~Gone(VisibleActiveState(rec))
    BY <1>1, InspectSettles, ActiveStateIsLive
  <1>3. Gone(obs) => ~Visible'
    BY <1>2, InspectFacts
  <1>4. Backed(Done)
    BY <1>1, BackedSteps
  <1>5. CASE op.pc = "pause_failed"
    <2>1. crun' # "paused"
      BY <1>2, <1>5, SettlesFacts DEF AgreeInv, StepAgrees
    <2>2. Backed(Commit("running", "none"))
      BY <1>1, <2>1, BackedCommit DEF States, RuntimeUpdates
    <2>3. rec.state = "pausing"
      BY <1>1, <1>5 DEF Allowed
    <2>4. obs # "paused"
      BY <2>1, <2>3, InspectSettles DEF VisibleActiveState
    <2>5. Backed(ResolvePauseError(obs))
      BY <1>4, <2>2, <2>4 DEF ResolvePauseError
    <2> QED
      BY <1>5, <2>5 DEF Decide
  <1>6. CASE op.pc = "cold_pause_failed"
    <2>1. rec.state = "pausing" /\ ~rec.pending.keep
      BY <1>1, <1>6 DEF Allowed, ModeInv, StepKeepsMode
    <2>2. crun' # "paused"
      BY <1>2, <2>1, NotFrozen, SettlesFacts DEF MayBeFrozen
    <2>3. Backed(Commit("running", "none"))
      BY <1>1, <2>2, BackedCommit DEF States, RuntimeUpdates
    <2>4. Gone(obs) => Backed(Release("paused", "cold_pause"))
      BY <1>1, <1>3, BackedCommit DEF States, RuntimeUpdates
    <2>5. Backed(ResolveColdPauseError(obs))
      BY <1>4, <2>3, <2>4 DEF ResolveColdPauseError
    <2> QED
      BY <1>6, <2>5 DEF Decide
  <1>7. CASE op.pc = "resume_failed"
    <2>1. ~Live'
      BY <1>2, <1>7, SettlesFacts DEF AgreeInv, StepAgrees
    <2>2. crun' \notin {"running", "paused"} /\ ~Visible'
      BY <2>1 DEF Live, Visible
    <2>3. Backed(Commit("running", "handle")) /\ Backed(Commit("paused", "none"))
      BY <1>1, <2>2, BackedCommit DEF States, RuntimeUpdates
    <2>4. Backed(ResolveResumeError(obs))
      BY <1>4, <2>3 DEF ResolveResumeError
    <2> QED
      BY <1>7, <2>4 DEF Decide
  <1>8. CASE op.pc \in {"kill_failed", "restart_stop_failed"}
    <2>1. Backed(Release("stopped", "kill_terminal"))
      BY <1>1, BackedCommit DEF States, RuntimeUpdates
    <2>2. Backed(ReleaseThen("restart_starting", "restart_advance", "start"))
      BY <1>1, BackedDecision DEF States, RuntimeUpdates
    <2>3. Backed(ResolveKillError(obs)) /\ Backed(ConfirmRestartKill(obs))
      BY <1>4, <2>1, <2>2 DEF ResolveKillError, ConfirmRestartKill
    <2> QED
      BY <1>8, <2>3 DEF Decide
  <1>9. CASE op.pc \in {"snapshot_inspect", "snapshot_pause_failed", "snapshot_resume_failed"}
    <2>2. Backed(Goto("snapshot_pause")) /\ Backed(Goto("snapshot_capture"))
      BY <1>1, BackedSteps DEF Steps, FailureSteps
    <2>3. op.pc = "snapshot_resume_failed" => Backed(SnapshotRestored)
      <3>1. SUFFICES ASSUME op.pc = "snapshot_resume_failed" PROVE Backed(SnapshotRestored)
        OBVIOUS
      <3>2. crun' # "paused"
        BY <1>2, <3>1, SettlesFacts DEF AgreeInv, StepAgrees
      <3>3. op.then.next \in {"idle", "dispatch", "claim_start", "start"}
        BY <1>1 DEF Operation, Decisions
      <3> QED
        BY <1>1, <3>2, <3>3, BackedDecision DEF SnapshotRestored, States, RuntimeUpdates
    <2> QED
      BY <1>4, <1>9, <2>2, <2>3 DEF Decide, SnapshotInspected
  <1> QED
    BY <1>5, <1>6, <1>7, <1>8, <1>9

LEMMA InspectAgrees ==
    ASSUME IndInv, ModeInv, AgreeInv, InspectBackend
    PROVE  AgreeInv'
  <1>1. PICK obs \in Observations : InspectSandbox(rec, obs) /\ op' = Decide(obs)
    BY DEF InspectBackend
  <1>2. op.pc \in InspectSteps /\ rec' = rec /\ op \in Operation
    BY DEF InspectBackend, IndInv, TypeOK
  <1>3. Settles
    BY <1>1, InspectSettles
  <1>4. CASE op.pc = "observe"
    <2>1. op' = Observe(obs)
      BY <1>1, <1>4 DEF Decide
    <2>2. Backed(op')
      BY <1>1, <1>4, <2>1, ObserveBacked
    <2> QED
      BY <1>2, <1>3, <2>2, SettleStep
  <1>5. CASE op.pc \in {"ensure_started", "recover_start", "start_failed", "cold_resume"}
    BY <1>1, <1>2, <1>3, <1>5, StartDecisionsBacked, SettleStep
  <1>6. CASE op.pc \in {"pause_failed", "cold_pause_failed", "resume_failed", "kill_failed",
                        "restart_stop_failed", "snapshot_inspect", "snapshot_pause_failed",
                        "snapshot_resume_failed"}
    BY <1>1, <1>2, <1>3, <1>6, ErrorDecisionsBacked, SettleStep
  <1> QED
    BY <1>2, <1>4, <1>5, <1>6 DEF InspectSteps

-----------------------------------------------------------------------------
(* Starting a runtime and calling the backend.                             *)

\* The container of a start runs: what went before it does not matter.
LEMMA StartedAgrees ==
    ASSUME rec' = rec, rec.state \in {"starting", "resuming", "restart_starting"},
           rec.state = "resuming" => ~rec.warm,
           crun' = "running", Backed(op')
    PROVE  AgreeInv'
  <1>1. FrozenIsTracked' /\ PausedIsFrozen' /\ ColdIsGone'
    BY DEF FrozenIsTracked, PausedIsFrozen, ColdIsGone
  <1>2. DecisionAgrees' /\ StepAgrees'
    BY DEF Backed, DecisionAgrees, StepAgrees, PausesCold, FailureSteps
  <1> QED
    BY <1>1, <1>2 DEF AgreeInv

LEMMA StartAgrees ==
    ASSUME IndInv, ModeInv, AgreeInv,
           StartPrepare \/ StartLaunch \/ StartRecord \/ StartReady
    PROVE  AgreeInv'
  <1>1. op.pc \in {"start", "launch", "record", "ready"} /\ rec' = rec
    BY DEF StartPrepare, StartLaunch, StartRecord, StartReady
  <1>2. op \in Operation /\ rec.state \in {"starting", "resuming", "restart_starting"}
    BY <1>1, StartContext
  <1>3. rec.state = "resuming" => ~rec.warm
    BY <1>1 DEF ModeInv, StepKeepsMode, StartSteps
  <1>4. ~MayBeFrozen(rec) /\ crun # "paused"
    BY <1>2, <1>3, NotFrozen DEF MayBeFrozen
  <1>5. Backed(Goto("start_failed")) /\ Backed(Goto("record")) /\ Backed(Goto("ready"))
    BY <1>2, BackedSteps DEF Steps, InspectSteps, FailureSteps
  <1>6. CASE Settles /\ Backed(op')
    BY <1>1, <1>2, <1>6, SettleStep
  <1>7. CASE crun' = "running" /\ Backed(op')
    BY <1>1, <1>2, <1>3, <1>7, StartedAgrees
  <1>8. CASE StartPrepare
    <2>1. Settles
      BY <1>8 DEF StartPrepare, PrepareResources, backendVars, Settles
    <2>2. op' = Goto("start_failed") \/ op'.pc = "launch"
      BY <1>2, <1>8 DEF StartPrepare, AfterStart, Operation
    <2>3. op'.pc = "launch" => Backed(op')
      BY DEF Backed, FailureSteps
    <2> QED
      BY <1>5, <1>6, <2>1, <2>2, <2>3
  <1>9. CASE StartLaunch
    <2>1. Backed(op')
      BY <1>5, <1>9 DEF StartLaunch, AfterStart
    <2>2. Settles \/ crun' = "running"
      BY <1>9 DEF StartLaunch, Launch, Settles, Live
    <2> QED
      BY <1>6, <1>7, <2>1, <2>2
  <1>10. CASE StartRecord
    <2>1. Backed(op')
      BY <1>5, <1>10 DEF StartRecord, AfterStart
    <2>2. Settles \/ crun' = "running"
      BY <1>4, <1>10 DEF StartRecord, RecordRuntime, Settles, Live
    <2> QED
      BY <1>6, <1>7, <2>1, <2>2
  <1>11. CASE StartReady
    <2>1. Settles \/ crun' = "running"
      BY <1>4, <1>11 DEF StartReady, AwaitReady, BootFailed, backendVars, Settles, Live
    <2>2. crun' # "paused"
      BY <1>4, <2>1, SettlesFacts
    <2>3. Backed(Commit("running", "restart_handle")) /\ Backed(Commit("running", "start_handle"))
      BY <1>2, <2>2, BackedCommit DEF States, RuntimeUpdates
    <2>4. Backed(op')
      BY <1>5, <1>11, <2>3 DEF StartReady, AfterStart
    <2> QED
      BY <1>6, <1>7, <2>1, <2>4
  <1> QED
    BY <1>8, <1>9, <1>10, <1>11

LEMMA StopAgrees ==
    ASSUME IndInv, HostInv, ModeInv, AgreeInv,
           ColdPause \/ FinishKill \/ FinishRestartStop
    PROVE  AgreeInv' \/ Leaked'
  <1> DEFINE advance == ReleaseThen("restart_starting", "restart_advance", "start")
  <1>1. op.pc \in {"cold_pause", "kill", "restart_stop"} /\ rec' = rec
    BY DEF ColdPause, FinishKill, FinishRestartStop
  <1>2. op \in Operation /\ rec.state \in States /\ Allowed(op.pc, rec.state)
    BY <1>1, DecideContext DEF Steps
  <1>3. ~Gone(VisibleActiveState(rec))
    BY <1>2, ActiveStateIsLive
  <1>4. /\ Backed(Goto("cold_pause_failed")) /\ Backed(Goto("kill_failed"))
        /\ Backed(Goto("restart_stop_failed"))
    BY <1>2, BackedSteps DEF Steps, InspectSteps, FailureSteps
  <1>5. Backed(Release("stopped", "kill_terminal")) /\ Backed(advance)
    BY <1>2, BackedCommit, BackedDecision DEF States, RuntimeUpdates
  <1>6. CASE ColdPause
    <2>1. rec.state = "pausing" /\ ~rec.pending.keep
      BY <1>2, <1>6 DEF ColdPause, Allowed, ModeInv, StepKeepsMode
    <2>2. PICK result \in Results : StopForRestart(rec, result)
             /\ op' = AfterCall(result, "cold_pause_failed", Release("paused", "cold_pause"))
      BY <1>6 DEF ColdPause
    <2>4. Settles
      BY <2>2, StopSettles
    <2>5. result # "error" => ~Visible'
      BY <1>3, <2>2, StopFacts
    <2>6. result # "error" => Backed(Release("paused", "cold_pause"))
      BY <1>2, <2>5, BackedCommit DEF States, RuntimeUpdates
    <2>7. Backed(op')
      BY <1>4, <2>2, <2>6 DEF AfterCall
    <2> QED
      BY <1>1, <2>4, <2>7, SettleStep
  <1>7. CASE FinishRestartStop
    <2>1. rec.state = "restart_stopping" /\ Backed(op')
      BY <1>2, <1>4, <1>5, <1>7 DEF FinishRestartStop, Allowed, AfterCall
    <2>2. PICK result \in Results : StopForRestart(rec, result)
      BY <1>7 DEF FinishRestartStop
    <2>3. Settles
      BY <2>2, StopSettles
    <2> QED
      BY <1>1, <2>1, <2>3, SettleStep
  <1>8. CASE FinishKill
    <2>1. rec.state = "killing" /\ Backed(op')
      BY <1>2, <1>4, <1>5, <1>8 DEF FinishKill, Allowed, AfterCall
    <2>2. PICK result \in Results : KillRuntime(rec, result)
             /\ op' = AfterCall(result, "kill_failed", Release("stopped", "kill_terminal"))
      BY <1>8 DEF FinishKill
    <2>3. CASE Settles
      BY <1>1, <2>1, <2>3, SettleStep
    <2>4. CASE crun' # "paused"
      BY <1>1, <2>1, <2>4 DEF AgreeInv, FrozenIsTracked, PausedIsFrozen, ColdIsGone,
         DecisionAgrees, StepAgrees, Backed, PausesCold, FailureSteps
    <2>5. CASE /\ crun' = "paused" /\ crun = "paused" /\ runtimeJson' = "none"
               /\ owner' = FALSE /\ result = "error"
      <3>1. op'.pc = "kill_failed"
        BY <1>2, <2>2, <2>5, GotoType DEF AfterCall, Steps, InspectSteps
      <3> QED
        BY <1>1, <2>1, <2>5, <3>1 DEF Leaked, LeakStates
    <2>6. crun = "paused" => rec.warm
      BY NotFrozen DEF MayBeFrozen
    <2> QED
      BY <2>2, <2>3, <2>4, <2>5, <2>6, StopSettles
  <1> QED
    BY <1>6, <1>7, <1>8

\* pause and resume with memory.
LEMMA PauseAgrees ==
    ASSUME ~freezeFailed', IndInv, ModeInv, AgreeInv, PauseRuntime
    PROVE  AgreeInv'
  <1>1. op.pc = "pause" /\ rec' = rec
    BY DEF PauseRuntime
  <1>2. op \in Operation /\ rec.state \in States /\ rec.state = "pausing" /\ rec.pending.keep
    BY <1>1, DecideContext DEF Allowed, Steps, ModeInv, StepKeepsMode
  <1>3. rec.warm
    BY <1>2 DEF IndInv, RecordReadable, Readable, ColdMarker
  <1>4. PICK result \in Results : TransitionSandbox("paused", result)
           /\ op' = AfterCall(result, "pause_failed", Commit("paused", "handle"))
    BY DEF PauseRuntime
  <1>5. "paused" \in States /\ "handle" \in RuntimeUpdates
    BY DEF States, RuntimeUpdates
  <1>6. CASE result = "ok" /\ crun' = "paused" /\ runtimeJson' = "current"
    <2>1. op' = CommitThen("paused", "handle", "idle")
      BY <1>4, <1>6 DEF AfterCall, Commit
    <2>2. op'.pc = "commit" /\ op'.then.to = "paused" /\ op'.then.upd = "handle"
      BY <1>2, <1>5, <2>1, CommitThenType
    <2> QED
      BY <1>1, <1>2, <1>3, <1>6, <2>2
         DEF AgreeInv, FrozenIsTracked, MayBeFrozen, PausedIsFrozen, ColdIsGone, DecisionAgrees,
             PausesCold, StepAgrees
  <1>7. CASE /\ result = "error" /\ Settles
             /\ crun' = "stopped" \/ (~(runtimeJson = "current" /\ Live) /\ crun' = crun)
    <2>1. op'.pc = "pause_failed"
      BY <1>2, <1>4, <1>7, GotoType DEF AfterCall, Steps, InspectSteps
    <2>2. crun' # "paused"
      BY <1>7 DEF AgreeInv, FrozenIsTracked, Live
    <2>3. FrozenIsTracked' /\ PausedIsFrozen' /\ ColdIsGone'
      BY <1>1, <1>2, <2>2 DEF FrozenIsTracked, PausedIsFrozen, ColdIsGone
    <2> QED
      BY <2>1, <2>2, <2>3 DEF AgreeInv, DecisionAgrees, StepAgrees
  <1> QED
    BY <1>4, <1>6, <1>7, TransitionSettles

LEMMA ResumeAgrees ==
    ASSUME ~freezeFailed', IndInv, ModeInv, AgreeInv, ResumeRuntime
    PROVE  AgreeInv'
  <1>1. op.pc = "resume" /\ rec' = rec
    BY DEF ResumeRuntime
  <1>2. op \in Operation /\ rec.state \in States /\ rec.state = "resuming" /\ rec.warm
    BY <1>1, DecideContext DEF Allowed, Steps, ModeInv, StepKeepsMode
  <1>3. PICK result \in Results : TransitionSandbox("running", result)
           /\ op' = AfterCall(result, "resume_failed", Commit("running", "handle"))
    BY DEF ResumeRuntime
  <1>4. "running" \in States /\ "handle" \in RuntimeUpdates
    BY DEF States, RuntimeUpdates
  <1>5. CASE result = "ok" /\ crun' = "running" /\ runtimeJson' = "current"
    <2>1. op' = CommitThen("running", "handle", "idle")
      BY <1>3, <1>5 DEF AfterCall, Commit
    <2>2. op'.pc = "commit" /\ op'.then.to = "running"
      BY <1>2, <1>4, <2>1, CommitThenType
    <2> QED
      BY <1>1, <1>2, <1>5, <2>2
         DEF AgreeInv, FrozenIsTracked, PausedIsFrozen, ColdIsGone, DecisionAgrees, StepAgrees
  <1>6. CASE /\ result = "error" /\ Settles
             /\ crun' = "stopped" \/ (~(runtimeJson = "current" /\ Live) /\ crun' = crun)
    <2>1. op'.pc = "resume_failed"
      BY <1>2, <1>3, <1>6, GotoType DEF AfterCall, Steps, InspectSteps
    <2>2. crun' \notin {"running", "paused"}
      BY <1>2, <1>6 DEF AgreeInv, FrozenIsTracked, PausedIsFrozen, Live
    <2>3. FrozenIsTracked' /\ PausedIsFrozen' /\ ColdIsGone'
      BY <1>1, <1>2, <2>2 DEF FrozenIsTracked, PausedIsFrozen, ColdIsGone
    <2> QED
      BY <2>1, <2>2, <2>3 DEF AgreeInv, DecisionAgrees, StepAgrees, Live
  <1> QED
    BY <1>3, <1>5, <1>6, TransitionSettles

\* The pause and resume around a capture: only a running source is frozen and
\* thawed, and it is published as running only when it is not frozen.
LEMMA SnapshotCallsAgree ==
    ASSUME ~freezeFailed', IndInv, ModeInv, AgreeInv, PauseForSnapshot \/ RestoreSnapshotSource
    PROVE  AgreeInv'
  <1>1. op.pc \in {"snapshot_pause", "snapshot_resume"} /\ rec' = rec
    BY DEF PauseForSnapshot, RestoreSnapshotSource
  <1>2. op \in Operation /\ rec.state \in States /\ rec.state = "snapshotting"
    BY <1>1, DecideContext DEF Steps, SnapshotSteps
  <1>3. rec.pending.src = "running"
    BY <1>1 DEF ModeInv, StepKeepsMode, IndInv, StepFits, RestoreSteps
  <1>4. rec.warm
    BY <1>2, <1>3 DEF IndInv, RecordReadable, Readable, ColdMarker
  <1>5. ASSUME crun' \in {"paused", "running"} => runtimeJson' = "current"
        PROVE  FrozenIsTracked' /\ PausedIsFrozen' /\ ColdIsGone'
    BY <1>1, <1>2, <1>3, <1>4, <1>5
       DEF FrozenIsTracked, MayBeFrozen, PausedIsFrozen, ColdIsGone
  <1>6. CASE PauseForSnapshot
    <2>1. PICK result \in Results : TransitionSandbox("paused", result)
             /\ op' = AfterCall(result, "snapshot_pause_failed", Goto("snapshot_capture"))
      BY <1>6 DEF PauseForSnapshot
    <2>2. Backed(Goto("snapshot_pause_failed")) /\ Backed(Goto("snapshot_capture"))
      BY <1>2, BackedSteps DEF Steps, InspectSteps, FailureSteps
    <2>3. Backed(op')
      BY <2>1, <2>2 DEF AfterCall
    <2>4. CASE Settles
      BY <1>1, <1>2, <2>3, <2>4, SettleStep
    <2>5. CASE crun' = "paused" /\ runtimeJson' = "current"
      BY <1>1, <1>2, <1>5, <2>3, <2>5
         DEF AgreeInv, DecisionAgrees, StepAgrees, Backed, PausesCold, FailureSteps
    <2> QED
      BY <2>1, <2>4, <2>5, TransitionSettles
  <1>7. CASE RestoreSnapshotSource
    <2>1. PICK result \in Results : TransitionSandbox("running", result)
             /\ op' = AfterCall(result, "snapshot_resume_failed", SnapshotRestored)
      BY <1>7 DEF RestoreSnapshotSource
    <2>2. op.then.next \in {"idle", "dispatch", "claim_start", "start"}
      BY <1>2 DEF Operation, Decisions
    <2>3. CASE result = "ok" /\ crun' = "running" /\ runtimeJson' = "current"
      <3>1. op' = CommitThen("running", "handle", op.then.next)
        BY <2>1, <2>3 DEF AfterCall, SnapshotRestored
      <3>2. Backed(op')
        BY <1>2, <2>2, <2>3, <3>1, BackedDecision DEF States, RuntimeUpdates
      <3> QED
        BY <1>1, <1>2, <1>5, <2>3, <3>2
           DEF AgreeInv, DecisionAgrees, StepAgrees, Backed, PausesCold, FailureSteps
    <2>4. CASE /\ result = "error" /\ Settles
               /\ crun' = "stopped" \/ (~(runtimeJson = "current" /\ Live) /\ crun' = crun)
      <3>1. op'.pc = "snapshot_resume_failed"
        BY <1>2, <2>1, <2>4, GotoType DEF AfterCall, Steps, InspectSteps
      <3>2. crun' # "paused"
        BY <2>4 DEF AgreeInv, FrozenIsTracked, Live
      <3>3. FrozenIsTracked' /\ PausedIsFrozen' /\ ColdIsGone'
        BY <1>1, <2>4, SettlesFacts DEF AgreeInv, FrozenIsTracked, PausedIsFrozen, ColdIsGone
      <3> QED
        BY <3>1, <3>2, <3>3 DEF AgreeInv, DecisionAgrees, StepAgrees
    <2> QED
      BY <2>1, <2>3, <2>4, TransitionSettles
  <1> QED
    BY <1>6, <1>7

LEMMA CaptureAgrees ==
    ASSUME IndInv, AgreeInv, CaptureSnapshot
    PROVE  AgreeInv'
  <1>1. op.pc = "snapshot_capture" /\ rec' = rec /\ UNCHANGED <<crun, runtimeJson>>
    BY DEF CaptureSnapshot
  <1>2. /\ op \in Operation /\ rec.state \in States /\ rec.state = "snapshotting"
        /\ rec.pending.src \in {"running", "paused"}
    BY <1>1, DecideContext DEF Steps, SnapshotSteps, SnapshotSources
  <1>3. (Visible' <=> Visible) /\ Settles
    BY <1>1 DEF Visible, Live, Settles
  <1>4. ASSUME NEW captured \in BOOLEAN PROVE Backed(AfterCapture(captured))
    <2> DEFINE next == IF captured /\ op.req.name \notin {"snapshot", "reconcile"}
                       THEN "dispatch" ELSE "idle"
    <2>1. next \in {"idle", "dispatch", "claim_start", "start"}
      OBVIOUS
    <2> HIDE DEF next
    <2>2. CASE rec.pending.src = "running"
      <3>1. AfterCapture(captured).pc = "snapshot_resume"
        BY <1>2, <2>2 DEF AfterCapture, Operation
      <3> QED
        BY <3>1 DEF Backed, FailureSteps
    <2>3. CASE rec.pending.src = "paused" /\ rec.warm
      <3>1. crun' # "running"
        BY <1>1, <1>2, <2>3 DEF AgreeInv, PausedIsFrozen
      <3>2. AfterCapture(captured) = CommitThen("paused", "handle", next)
        BY <2>3 DEF AfterCapture, next
      <3> QED
        BY <1>2, <2>1, <3>1, <3>2, BackedDecision DEF States, RuntimeUpdates
    <2>4. CASE rec.pending.src = "paused" /\ ~rec.warm
      <3>1. ~Visible'
        BY <1>2, <1>3, <2>4 DEF AgreeInv, ColdIsGone
      <3>2. AfterCapture(captured) = CommitThen("paused", "none", next)
        BY <2>4 DEF AfterCapture, next
      <3> QED
        BY <1>2, <2>1, <2>4, <3>1, <3>2, BackedDecision DEF States, RuntimeUpdates
    <2> QED
      BY <1>2, <2>2, <2>3, <2>4
  <1>5. Backed(op')
    BY <1>2, <1>4, BackedSteps DEF CaptureSnapshot
  <1> QED
    BY <1>1, <1>2, <1>3, <1>5, SettleStep

-----------------------------------------------------------------------------
(* Releasing, publishing, removing.                                        *)

LEMMA ReleaseAgrees ==
    ASSUME IndInv, AgreeInv, ReleaseStep \/ RemoveRelease
    PROVE  AgreeInv'
  <1>1. /\ op.pc \in {"release", "remove_release"} /\ rec' = rec
        /\ UNCHANGED <<crun, runtimeJson, owner>>
    BY DEF ReleaseStep, RemoveRelease, ReleaseResources
  <1>2. op \in Operation
    BY DEF IndInv, TypeOK
  <1>3. (Visible' <=> Visible) /\ Settles
    BY <1>1 DEF Visible, Live, Settles
  <1>5. Backed(Done) /\ Backed(Goto("remove_cleanup"))
    BY <1>2, BackedSteps DEF Steps, FailureSteps
  <1>6. op.pc = "release" => Backed(Goto("commit"))
    BY <1>1, <1>2, <1>3, GotoType
       DEF Steps, Backed, FailureSteps, AgreeInv, DecisionAgrees, PausesCold
  <1>7. Backed(op')
    BY <1>5, <1>6 DEF ReleaseStep, RemoveRelease
  <1> QED
    BY <1>1, <1>3, <1>7, SettleStep

\* The published record says what the decision found.
LEMMA CommitAgrees ==
    ASSUME IndInv, HostInv, AgreeInv, CommitStep
    PROVE  AgreeInv'
  <1>1. /\ op.pc = "commit" /\ op \in Operation /\ DecisionFits(rec, op)
        /\ UNCHANGED <<crun, runtimeJson>>
    BY DEF CommitStep, IndInv, TypeOK, StepFits
  <1>0. CASE Refuse
    <2>1. rec' = rec /\ Settles /\ Backed(op')
      BY <1>0, <1>1, BackedSteps DEF Refuse, Settles
    <2> QED
      BY <2>1, SettleStep
  <1>2. SUFFICES ASSUME /\ rec' = TransitionWith(rec, op.then.to, op.then.upd, rec.pending)
                        /\ op' = IF op.then.next = "idle" THEN Done
                                 ELSE [op EXCEPT !.pc = op.then.next, !.then = NoDecision]
                 PROVE  AgreeInv'
    BY <1>0 DEF CommitStep
  <1>3. /\ rec'.state = op.then.to /\ rec'.state \in Published
        /\ rec'.warm <=> UpdatedWarm(rec.warm, op.then.upd)
    BY <1>1, <1>2 DEF TransitionWith, DecisionFits
  <1>4. op'.pc \in {"idle", "dispatch", "claim_start", "start"}
    BY <1>1, <1>2, IdleType DEF Operation, Decisions
  <1>5. Visible' <=> Visible
    BY <1>1 DEF Visible, Live
  <1>6. crun = "paused" => Visible /\ runtimeJson = "current"
    BY DEF AgreeInv, FrozenIsTracked, Visible, Live
  <1>7. FrozenIsTracked' /\ PausedIsFrozen' /\ ColdIsGone'
    <2>1. CASE op.then.to = "running"
      BY <1>1, <1>3, <2>1
         DEF AgreeInv, DecisionAgrees, FrozenIsTracked, PausedIsFrozen, ColdIsGone
    <2>2. CASE op.then.to = "paused" /\ PausesCold(rec, op)
      <3>1. ~rec'.warm /\ ~Visible
        BY <1>1, <1>3, <2>2 DEF PausesCold, UpdatedWarm, AgreeInv, DecisionAgrees
      <3> QED
        BY <1>1, <1>3, <1>5, <1>6, <2>2, <3>1 DEF FrozenIsTracked, PausedIsFrozen, ColdIsGone
    <2>3. CASE op.then.to = "paused" /\ ~PausesCold(rec, op)
      <3>1. rec'.warm /\ crun # "running"
        BY <1>1, <1>3, <2>3 DEF PausesCold, UpdatedWarm, AgreeInv, DecisionAgrees
      <3> QED
        BY <1>1, <1>3, <1>6, <2>3, <3>1
           DEF FrozenIsTracked, MayBeFrozen, PausedIsFrozen, ColdIsGone
    <2>4. CASE op.then.to \notin {"running", "paused"}
      <3>1. ~Visible
        BY <1>1, <1>3, <2>4 DEF HostInv, RuntimeIsGone, Ends, Published
      <3> QED
        BY <1>1, <1>3, <1>6, <2>4, <3>1
           DEF FrozenIsTracked, PausedIsFrozen, ColdIsGone, Published
    <2> QED
      BY <2>1, <2>2, <2>3, <2>4
  <1>8. DecisionAgrees' /\ StepAgrees'
    BY <1>3, <1>4 DEF DecisionAgrees, StepAgrees, Published
  <1> QED
    BY <1>7, <1>8 DEF AgreeInv

LEMMA RemoveAgrees ==
    ASSUME IndInv, AgreeInv, RemoveCleanup \/ RemoveForget
    PROVE  AgreeInv'
  <1>1. /\ op.pc \in {"remove_cleanup", "remove_forget"}
        /\ op \in Operation /\ rec.state = "removing"
    BY DecideContext DEF RemoveCleanup, RemoveForget, Allowed, Steps
  <1>2. crun' # "paused"
    <2>1. crun # "paused" /\ crun' \in {crun, "none"}
      BY <1>1, NotFrozen DEF MayBeFrozen, RemoveCleanup, RemoveForget, CleanupExecutionPaths
    <2> QED
      BY <2>1
  <1>3. rec'.state \in {"removing", "removed"} /\ (op' = Done \/ op' = Goto("remove_forget"))
    BY <1>1 DEF RemoveCleanup, RemoveForget, Refuse, FinishRemove, NewRecord
  <1>4. op'.pc \in {"idle", "remove_forget"}
    BY <1>1, <1>3, IdleType, GotoType DEF Steps
  <1> QED
    BY <1>2, <1>3, <1>4
       DEF AgreeInv, FrozenIsTracked, PausedIsFrozen, ColdIsGone, DecisionAgrees, StepAgrees

-----------------------------------------------------------------------------
(* Claims and the environment.                                             *)

\* A claim that leaves the container alone.
LEMMA ClaimAgrees ==
    ASSUME IndInv, HostInv, AgreeInv, UNCHANGED backendVars,
           NEW to \in {"starting", "pausing", "resuming", "snapshotting", "killing"},
           NEW intent, NEW pc \in Steps \ ({"release", "commit"} \cup FailureSteps),
           Claim(to, intent, pc),
           to = "snapshotting" => intent.src = rec.state
    PROVE  AgreeInv'
  <1>1. /\ rec'.state = to /\ (rec'.warm <=> rec.warm)
        /\ rec'.pending = NextPending(to, intent)
        /\ <<rec.state, to>> \in LegalEdges
        /\ op'.pc = pc
    BY ClaimFacts
  <1>2. UNCHANGED <<crun, runtimeJson>> /\ (Visible' <=> Visible)
    BY DEF backendVars, Visible, Live
  <1>3. crun = "paused" => Visible /\ runtimeJson = "current" /\ MayBeFrozen(rec)
    BY DEF AgreeInv, FrozenIsTracked, Visible, Live
  <1>4. DecisionAgrees'
    BY <1>1 DEF DecisionAgrees
  <1>5. CASE to = "starting"
    <2>1. ~Visible
      BY <1>1, <1>5 DEF LegalEdges, HostInv, RuntimeIsGone, WithoutRuntime, Quiet
    <2> QED
      BY <1>1, <1>2, <1>3, <1>4, <1>5, <2>1
         DEF AgreeInv, FrozenIsTracked, PausedIsFrozen, ColdIsGone, StepAgrees, FailureSteps
  <1>6. CASE to = "pausing"
    <2>1. rec.state = "running"
      BY <1>1, <1>6 DEF LegalEdges
    <2>2. crun # "paused"
      BY <1>3, <2>1 DEF MayBeFrozen
    <2> QED
      BY <1>1, <1>2, <1>4, <1>6, <2>2
         DEF AgreeInv, FrozenIsTracked, PausedIsFrozen, ColdIsGone, StepAgrees, FailureSteps
  <1>7. CASE to = "resuming"
    <2>1. rec.state = "paused"
      BY <1>1, <1>7 DEF LegalEdges
    <2>2. FrozenIsTracked'
      BY <1>1, <1>2, <1>3, <1>7 DEF FrozenIsTracked, MayBeFrozen
    <2>3. PausedIsFrozen' /\ ColdIsGone'
      BY <1>1, <1>2, <1>7, <2>1 DEF AgreeInv, PausedIsFrozen, ColdIsGone
    <2> QED
      BY <1>1, <1>4, <1>7, <2>2, <2>3 DEF AgreeInv, StepAgrees, FailureSteps
  <1>8. CASE to = "snapshotting"
    <2>1. rec.state \in {"running", "paused"} /\ rec'.pending.src = rec.state
      BY <1>1, <1>8 DEF LegalEdges, NextPending
    <2>2. rec.state = "running" => rec.warm
      BY <2>1 DEF IndInv, RecordReadable, Readable, ColdMarker, States
    <2>3. FrozenIsTracked'
      BY <1>1, <1>2, <1>3, <1>8 DEF FrozenIsTracked, MayBeFrozen
    <2>4. PausedIsFrozen' /\ ColdIsGone'
      BY <1>1, <1>2, <1>8, <2>1, <2>2 DEF AgreeInv, PausedIsFrozen, ColdIsGone
    <2> QED
      BY <1>1, <1>4, <1>8, <2>3, <2>4 DEF AgreeInv, StepAgrees, FailureSteps
  <1>9. CASE to = "killing"
    <2>1. FrozenIsTracked'
      BY <1>1, <1>2, <1>3, <1>9 DEF FrozenIsTracked, MayBeFrozen
    <2>2. PausedIsFrozen' /\ ColdIsGone'
      BY <1>1, <1>9 DEF PausedIsFrozen, ColdIsGone
    <2> QED
      BY <1>1, <1>4, <1>9, <2>1, <2>2 DEF AgreeInv, StepAgrees, FailureSteps
  <1> QED
    BY <1>5, <1>6, <1>7, <1>8, <1>9

\* Going on without a claim, or refusing.
LEMMA ContinueAgrees ==
    ASSUME AgreeInv, UNCHANGED backendVars, rec' = rec, Backed(op')
    PROVE  AgreeInv'
  <1>1. Settles
    BY DEF Settles, backendVars
  <1> QED
    BY <1>1, SettleStep

\* restart_record, and continue_restart of a restart that was claimed before.
LEMMA ContinueRestartAgrees ==
    ASSUME IndInv, HostInv, AgreeInv, UNCHANGED backendVars, op.pc = "dispatch",
           \/ rec' = rec /\ rec.state \in {"restart_stopping", "restart_starting"}
           \/ /\ rec'.state = "restart_stopping" /\ rec'.pending.src = rec.state
              /\ rec.state \in RestartSources /\ (rec'.warm <=> rec.warm),
           op' = ContinueRestart(rec')
    PROVE  AgreeInv'
  <1>1. op \in Operation
    BY DEF IndInv, TypeOK
  <1>2. Backed(Goto("start")) /\ Backed(Goto("restart_stop"))
        /\ Backed(ReleaseThen("restart_starting", "restart_advance", "start"))
    <2>1. Backed(Goto("start")) /\ Backed(Goto("restart_stop"))
      BY <1>1, BackedSteps DEF Steps, FailureSteps
    <2>2. Backed(ReleaseThen("restart_starting", "restart_advance", "start"))
      BY <1>1, BackedDecision DEF States, RuntimeUpdates
    <2> QED
      BY <2>1, <2>2
  <1>3. Backed(op')
    BY <1>2 DEF ContinueRestart
  <1>4. CASE rec' = rec
    BY <1>3, <1>4, ContinueAgrees
  <1>5. CASE /\ rec'.state = "restart_stopping" /\ rec'.pending.src = rec.state
             /\ rec.state \in RestartSources /\ (rec'.warm <=> rec.warm)
    <2>1. UNCHANGED <<crun, runtimeJson>>
      BY DEF backendVars
    <2>2. FrozenIsTracked'
      BY <1>5, <2>1 DEF AgreeInv, FrozenIsTracked, MayBeFrozen, RestartSources
    <2>3. PausedIsFrozen' /\ ColdIsGone'
      BY <1>5 DEF PausedIsFrozen, ColdIsGone
    <2>4. op' = Goto("restart_stop")
            \/ op' = ReleaseThen("restart_starting", "restart_advance", "start")
      BY <1>5 DEF ContinueRestart
    <2>5. DecisionAgrees' /\ StepAgrees'
      <3>1. /\ op'.pc \in {"restart_stop", "release"}
            /\ op'.pc = "release" => op'.then.to = "restart_starting"
        <4>1. /\ "restart_starting" \in States /\ "restart_advance" \in RuntimeUpdates
              /\ "restart_stop" \in Steps
          BY DEF States, RuntimeUpdates, Steps
        <4>2. Goto("restart_stop").pc = "restart_stop"
          BY <1>1, <4>1, GotoType
        <4>3. LET r == ReleaseThen("restart_starting", "restart_advance", "start") IN
                r.pc = "release" /\ r.then.to = "restart_starting"
          BY <1>1, <4>1, CommitThenType
        <4> QED
          BY <2>4, <4>2, <4>3
      <3> QED
        BY <1>5, <3>1 DEF DecisionAgrees, StepAgrees
    <2> QED
      BY <2>2, <2>3, <2>5 DEF AgreeInv
  <1> QED
    BY <1>4, <1>5

LEMMA DispatchAgrees ==
    ASSUME IndInv, HostInv, AgreeInv, Dispatch
    PROVE  AgreeInv'
  <1>1. op \in Operation /\ UNCHANGED backendVars /\ op.pc = "dispatch"
    BY DEF IndInv, TypeOK, Dispatch
  <1>2. /\ Backed(Done)
        /\ \A pc \in Steps \ ({"release", "commit"} \cup FailureSteps) : Backed(Goto(pc))
    BY <1>1, BackedSteps
  <1>3. CASE Refuse
    BY <1>1, <1>2, <1>3, ContinueAgrees DEF Refuse
  <1>4. ASSUME NEW pc \in Steps \ ({"release", "commit"} \cup FailureSteps), Continue(pc)
        PROVE  AgreeInv'
    BY <1>1, <1>2, <1>4, ContinueAgrees DEF Continue
  <1>5. CASE DriveSnapshot
    BY <1>4, <1>5 DEF DriveSnapshot, Steps, InspectSteps, FailureSteps
  <1>6. CASE ObserveRecord
    BY <1>3, <1>4, <1>6 DEF ObserveRecord, Steps, InspectSteps, FailureSteps
  <1>7. CASE Continue("ensure_started") \/ Continue("recover_start") \/ Continue("kill")
               \/ Continue("remove_release")
    BY <1>4, <1>7 DEF Steps, InspectSteps, FailureSteps
  <1>8. ASSUME NEW to \in {"starting", "pausing", "resuming", "snapshotting", "killing"},
               NEW intent,
               NEW pc \in {"start", "pause", "cold_pause", "resume", "cold_resume", "kill",
                           "snapshot_capture", "snapshot_inspect"},
               Claim(to, intent, pc),
               to = "snapshotting" => intent.src = rec.state
        PROVE  AgreeInv'
    BY <1>1, <1>8, ClaimAgrees DEF Steps, InspectSteps, FailureSteps
  <1>9. CASE DispatchStart
    BY <1>3, <1>7, <1>8, <1>9 DEF DispatchStart
  <1>10. CASE DispatchPause
    BY <1>3, <1>5, <1>8, <1>10 DEF DispatchPause
  <1>11. CASE DispatchResume
    BY <1>3, <1>5, <1>8, <1>11 DEF DispatchResume
  <1>12. CASE DispatchKill
    BY <1>3, <1>5, <1>7, <1>8, <1>12 DEF DispatchKill
  <1>13. CASE DispatchRemove
    <2>1. CASE CanBeginRemove(rec) /\ rec' = BeginRemove(rec) /\ op' = Goto("remove_release")
      <3>1. rec \in Records
        BY DEF IndInv, TypeOK
      <3>2. rec'.state = "removing" /\ op'.pc = "remove_release"
        BY <1>1, <2>1, <3>1, GotoType DEF BeginRemove, Records, Steps
      <3>3. crun' # "paused"
        BY <1>1, <2>1, NotFrozen DEF CanBeginRemove, MayBeFrozen, backendVars
      <3> QED
        BY <3>2, <3>3
           DEF AgreeInv, FrozenIsTracked, PausedIsFrozen, ColdIsGone, DecisionAgrees, StepAgrees
    <2> QED
      BY <1>3, <1>13, <2>1 DEF DispatchRemove
  <1>14. CASE DispatchSnapshot
    <2> DEFINE intent == [kind |-> "snapshot", snap |-> op.req.snap, src |-> rec.state]
    <2>1. CASE Claim("snapshotting", intent, IF rec.state = "paused" /\ ~rec.warm
                                             THEN "snapshot_capture" ELSE "snapshot_inspect")
      <3>1. Claim("snapshotting", intent, "snapshot_capture")
              \/ Claim("snapshotting", intent, "snapshot_inspect")
        BY <2>1
      <3>2. intent.src = rec.state
        OBVIOUS
      <3> QED
        BY <1>8, <3>1, <3>2
    <2> QED
      BY <1>3, <1>5, <1>14, <2>1 DEF DispatchSnapshot
  <1>15. CASE rec.state \in {"restart_stopping", "restart_starting"}
              /\ rec' = rec /\ op' = ContinueRestart(rec)
    BY <1>1, <1>15, ContinueRestartAgrees
  <1>16. CASE DispatchRestart
    <2> DEFINE intent == [kind |-> "restart", id |-> op.req.id, srcGen |-> rec.gen,
                          src |-> rec.state, opts |-> op.req.opts]
    <2>1. CASE /\ rec.state \in RestartSources
               /\ rec' = TransitionWith(rec, "restart_stopping", "none", intent)
               /\ op' = ContinueRestart(rec')
      <3>1. /\ rec'.state = "restart_stopping" /\ rec'.pending.src = rec.state
            /\ rec'.warm <=> rec.warm
        BY <2>1 DEF TransitionWith, NextPending, UpdatedWarm
      <3> QED
        BY <1>1, <2>1, <3>1, ContinueRestartAgrees
    <2> QED
      BY <1>3, <1>5, <1>15, <1>16, <2>1 DEF DispatchRestart
  <1>17. CASE DispatchInspect
    BY <1>5, <1>6, <1>17 DEF DispatchInspect
  <1>18. CASE DispatchReconcile
    BY <1>5, <1>6, <1>7, <1>15, <1>18 DEF DispatchReconcile
  <1> QED
    BY <1>9, <1>10, <1>11, <1>12, <1>13, <1>14, <1>16, <1>17, <1>18 DEF Dispatch

LEMMA EnvironmentAgrees ==
    ASSUME IndInv, AgreeInv, Create \/ (\E req \in Requests : Acquire(req))
                               \/ DeleteSnapshot \/ Crash \/ RuntimeExit
    PROVE  AgreeInv'
  <1>1. CASE Create
    <2>1. rec.state = "absent" /\ rec'.state = "created" /\ op' = op /\ op.pc = "idle"
      BY <1>1 DEF Create, NewRecord, IndInv, StepFits, Allowed, States
    <2>2. crun' # "paused"
      BY <1>1, <2>1, NotFrozen DEF MayBeFrozen, Create, backendVars
    <2> QED
      BY <2>1, <2>2
         DEF AgreeInv, FrozenIsTracked, PausedIsFrozen, ColdIsGone, DecisionAgrees, StepAgrees
  <1>2. ASSUME NEW req \in Requests, Acquire(req) PROVE AgreeInv'
    <2>1. Backed(op')
      BY <1>2, NewOperationType DEF Acquire, Backed, FailureSteps
    <2> QED
      BY <1>2, <2>1, ContinueAgrees DEF Acquire
  <1>3. CASE DeleteSnapshot
    <2>1. UNCHANGED <<rec, op, crun, runtimeJson, owner>>
      BY <1>3 DEF DeleteSnapshot, backendVars
    <2> QED
      BY <2>1 DEF AgreeInv, FrozenIsTracked, PausedIsFrozen, ColdIsGone, DecisionAgrees,
         StepAgrees, Visible, Live
  <1>4. CASE RuntimeExit
    BY <1>4 DEF RuntimeExit, AgreeInv, FrozenIsTracked, PausedIsFrozen, ColdIsGone,
       DecisionAgrees, StepAgrees, Visible, Live
  <1>5. CASE Crash
    <2>1. rec' = rec /\ UNCHANGED <<crun, runtimeJson>> /\ owner' = FALSE /\ op'.pc = "idle"
      BY <1>5, IdleType DEF Crash
    <2>2. Settles /\ Backed(op')
      BY <2>1 DEF Settles, Backed, FailureSteps
    <2> QED
      BY <2>1, <2>2, SettleStep
  <1> QED
    BY <1>1, <1>2, <1>3, <1>4, <1>5

-----------------------------------------------------------------------------
(* A leaked container stays leaked, or exits.                              *)

\* Nothing is registered and runtime.json is absent: an inspection finds nothing.
LEMMA LeakedIsNotFound ==
    ASSUME Leaked, op.pc # "launch", NEW r, NEW obs, InspectSandbox(r, obs)
    PROVE  obs = "not_found" /\ UNCHANGED <<crun, runtimeJson, owner>>
  BY DEF Leaked, InspectSandbox, InspectDetached

\* A kill or stop of a container that nothing names leaves it alone.
LEMMA LeakedIsNotStopped ==
    ASSUME Leaked, op.pc # "launch", NEW r, NEW result,
           KillRuntime(r, result) \/ StopForRestart(r, result)
    PROVE  UNCHANGED <<crun, owner>> /\ runtimeJson' = "none"
  BY DEF Leaked, KillRuntime, StopForRestart, DestroyWithoutHandler, DestroyDetachedSandbox,
         InspectDetached

\* Steps that keep the record, the container and the registration.
LEMMA LeakedKeeps ==
    ASSUME Leaked, rec' = rec, crun' = crun, runtimeJson' = "none",
           owner' => op'.pc = "launch",
           op'.pc \notin {"record", "ready"},
           op'.pc \in {"release", "commit"} => op'.then.to # "running"
    PROVE  Leaked'
  BY DEF Leaked

LEMMA DispatchKeepsLeaked ==
    ASSUME IndInv, Leaked, Dispatch
    PROVE  Leaked'
  <1>1. /\ op \in Operation /\ op.pc = "dispatch" /\ ~owner /\ rec.state \in LeakStates
        /\ UNCHANGED <<crun, runtimeJson, owner>> /\ runtimeJson = "none" /\ crun = "paused"
    BY DEF IndInv, TypeOK, Dispatch, Leaked, backendVars
  <1>2. Done.pc = "idle" /\ (\A pc \in Steps : Goto(pc).pc = pc)
    BY <1>1, IdleType, GotoType
  <1>3. LET r == ReleaseThen("restart_starting", "restart_advance", "start") IN
          r.pc = "release" /\ r.then.to = "restart_starting"
    <2>1. "restart_starting" \in States /\ "restart_advance" \in RuntimeUpdates
      BY DEF States, RuntimeUpdates
    <2> QED
      BY <1>1, <2>1, CommitThenType
  <1>4. ASSUME rec'.state \in LeakStates,
               op'.pc \notin {"record", "ready", "commit"},
               op'.pc = "release" => op'.then.to = "restart_starting"
        PROVE  Leaked'
    BY <1>1, <1>4 DEF Leaked
  <1>5. CASE Refuse
    BY <1>1, <1>2, <1>4, <1>5 DEF Refuse
  <1>6. ASSUME NEW pc \in Steps \ {"record", "ready", "commit", "release"}, Continue(pc)
        PROVE  Leaked'
    BY <1>1, <1>2, <1>4, <1>6 DEF Continue
  <1>7. CASE DriveSnapshot
    BY <1>6, <1>7 DEF DriveSnapshot, Steps, InspectSteps
  <1>8. CASE ObserveRecord
    BY <1>5, <1>6, <1>8 DEF ObserveRecord, Steps, InspectSteps
  <1>9. CASE Continue("ensure_started") \/ Continue("recover_start") \/ Continue("kill")
               \/ Continue("remove_release")
    BY <1>6, <1>9 DEF Steps, InspectSteps
  <1>10. ASSUME NEW to \in {"starting", "pausing", "resuming", "snapshotting", "killing"},
                NEW intent, NEW pc, Claim(to, intent, pc)
         PROVE  FALSE
    BY <1>1, <1>10 DEF Claim, CanTransition, LegalEdges, LeakStates
  <1>11. CASE /\ op' = ContinueRestart(rec')
              /\ rec' = rec \/ rec'.state = "restart_stopping"
    <2>1. rec'.state \in LeakStates
      BY <1>1, <1>11 DEF LeakStates
    <2> QED
      BY <1>2, <1>3, <1>4, <1>11, <2>1 DEF ContinueRestart, Steps
  <1>12. CASE DispatchStart \/ DispatchPause \/ DispatchResume \/ DispatchKill \/ DispatchSnapshot
    <2>1. CASE DispatchStart
      BY <1>5, <1>9, <1>10, <2>1 DEF DispatchStart
    <2>2. CASE DispatchPause
      BY <1>5, <1>7, <1>10, <2>2 DEF DispatchPause
    <2>3. CASE DispatchResume
      BY <1>5, <1>7, <1>10, <2>3 DEF DispatchResume
    <2>4. CASE DispatchKill
      BY <1>5, <1>7, <1>9, <1>10, <2>4 DEF DispatchKill
    <2>5. CASE DispatchSnapshot
      BY <1>5, <1>7, <1>10, <2>5 DEF DispatchSnapshot
    <2> QED
      BY <1>12, <2>1, <2>2, <2>3, <2>4, <2>5
  <1>13. CASE DispatchRemove
    <2>1. CASE rec' = BeginRemove(rec) /\ op' = Goto("remove_release")
      <3>1. rec'.state = "removing" /\ op'.pc = "remove_release"
        BY <1>2, <2>1 DEF BeginRemove, Records, Steps, IndInv, TypeOK
      <3> QED
        BY <1>4, <3>1 DEF LeakStates
    <2> QED
      BY <1>5, <1>13, <2>1 DEF DispatchRemove
  <1>14. CASE DispatchRestart
    <2>1. CASE Refuse \/ DriveSnapshot
      BY <1>5, <1>7, <2>1
    <2>2. CASE op' = ContinueRestart(rec) /\ rec' = rec
      BY <1>11, <2>2
    <2>3. ASSUME NEW intent, op' = ContinueRestart(rec'),
                 rec' = TransitionWith(rec, "restart_stopping", "none", intent)
          PROVE  Leaked'
      BY <1>11, <2>3 DEF TransitionWith
    <2> QED
      BY <1>14, <2>1, <2>2, <2>3 DEF DispatchRestart
  <1>15. CASE DispatchInspect
    BY <1>7, <1>8, <1>15 DEF DispatchInspect
  <1>16. CASE DispatchReconcile
    BY <1>7, <1>8, <1>9, <1>11, <1>16 DEF DispatchReconcile
  <1> QED
    BY <1>12, <1>13, <1>14, <1>15, <1>16 DEF Dispatch

\* What an operation decides when it finds nothing.
LEMMA InspectKeepsLeaked ==
    ASSUME IndInv, Leaked, InspectBackend
    PROVE  Leaked'
  <1>1. PICK obs \in Observations : InspectSandbox(rec, obs) /\ op' = Decide(obs)
    BY DEF InspectBackend
  <1>2. /\ op \in Operation /\ op.pc \in InspectSteps /\ rec' = rec /\ ~owner
        /\ obs = "not_found" /\ UNCHANGED <<crun, runtimeJson, owner>> /\ runtimeJson = "none"
    BY <1>1, LeakedIsNotFound DEF InspectBackend, IndInv, TypeOK, Leaked, InspectSteps
  <1>3. Allowed(op.pc, rec.state) /\ rec.state \in LeakStates
    BY <1>2 DEF IndInv, StepFits, Leaked
  <1>4. op.pc \in {"observe", "start_failed", "kill_failed", "restart_stop_failed"}
    BY <1>2, <1>3 DEF Allowed, LeakStates, InspectSteps, SnapshotSteps
  <1>5. Done.pc = "idle"
    BY IdleType
  <1>6. \A to \in States, upd \in RuntimeUpdates :
          /\ Release(to, upd).pc = "release" /\ Release(to, upd).then.to = to
          /\ ReleaseThen(to, upd, "start").pc = "release"
          /\ ReleaseThen(to, upd, "start").then.to = to
    BY <1>2, CommitThenType DEF Release
  <1>7. ASSUME op'.pc \notin {"record", "ready", "commit"},
               op'.pc = "release" => op'.then.to # "running"
        PROVE  Leaked'
    BY <1>2, <1>7, LeakedKeeps
  <1>8. \/ op' = Done \/ op' = Release("stopped", "terminal") \/ op' = Release("failed", "terminal")
        \/ op' = Release("failed", "restart_failed") \/ op' = Release("stopped", "kill_terminal")
        \/ op' = ReleaseThen("restart_starting", "restart_advance", "start")
    <2>1. op.pc = "start_failed" => rec.state = "restart_starting"
      BY <1>3 DEF Allowed, StartSteps, LeakStates
    <2>2. CASE op.pc = "observe"
      BY <1>1, <1>2, <2>2 DEF Decide, Observe
    <2>3. CASE op.pc = "start_failed"
      BY <1>1, <1>2, <2>1, <2>3 DEF Decide, ResolveStartError, Gone
    <2>4. CASE op.pc = "kill_failed"
      BY <1>1, <1>2, <2>4 DEF Decide, ResolveKillError, Gone
    <2>5. CASE op.pc = "restart_stop_failed"
      BY <1>1, <1>2, <2>5 DEF Decide, ConfirmRestartKill, Gone
    <2> QED
      BY <1>4, <2>2, <2>3, <2>4, <2>5
  <1>9. /\ {"stopped", "failed", "restart_starting"} \subseteq States
        /\ {"terminal", "restart_failed", "kill_terminal", "restart_advance"} \subseteq RuntimeUpdates
    BY DEF States, RuntimeUpdates
  <1>10. \/ op'.pc = "idle"
         \/ op'.pc = "release" /\ op'.then.to \in {"stopped", "failed", "restart_starting"}
    BY <1>5, <1>6, <1>8, <1>9
  <1> QED
    BY <1>7, <1>10

LEMMA LeakedStays ==
    ASSUME IndInv, Leaked, [Next]_vars
    PROVE  Leaked' \/ ~Live'
  <1>1. /\ op \in Operation /\ StepFits(rec, op) /\ Allowed(op.pc, rec.state)
        /\ rec.state \in LeakStates /\ crun = "paused" /\ runtimeJson = "none"
    BY DEF IndInv, TypeOK, StepFits, Leaked
  <1>2. /\ op.pc \notin SnapshotSteps /\ op.pc # "claim_start"
        /\ op.pc \notin {"pause", "cold_pause", "resume", "record", "ready"}
    BY <1>1 DEF Leaked, Allowed, LeakStates
  <1>3. ~(PauseForSnapshot \/ RestoreSnapshotSource \/ CaptureSnapshot \/ ClaimStart
            \/ PauseRuntime \/ ColdPause \/ ResumeRuntime \/ StartRecord \/ StartReady)
    BY <1>2 DEF PauseForSnapshot, RestoreSnapshotSource, CaptureSnapshot, ClaimStart,
       PauseRuntime, ColdPause, ResumeRuntime, StartRecord, StartReady, SnapshotSteps
  <1>4. ~Create
    BY <1>1 DEF Create, LeakStates
  <1>5. Done.pc = "idle" /\ Idle.pc = "idle" /\ (\A pc \in Steps : Goto(pc).pc = pc)
    BY <1>1, IdleType, GotoType DEF Done
  <1>6. CASE UNCHANGED vars \/ DeleteSnapshot
    <2>1. UNCHANGED <<rec, op, crun, runtimeJson, owner>>
      BY <1>6 DEF vars, DeleteSnapshot, backendVars
    <2> QED
      BY <2>1 DEF Leaked
  <1>7. ASSUME NEW req \in Requests, Acquire(req) PROVE Leaked'
    <2>1. op'.pc = "dispatch" /\ ~owner /\ rec' = rec /\ UNCHANGED <<crun, runtimeJson, owner>>
      BY <1>7 DEF Acquire, NewOperation, Leaked, backendVars
    <2> QED
      BY <2>1 DEF Leaked
  <1>8. CASE RuntimeExit
    BY <1>8 DEF RuntimeExit, Live
  <1>9. CASE Crash
    BY <1>5, <1>9 DEF Crash, Leaked
  <1>10. CASE StartPrepare \/ StartLaunch
    <2>1. rec' = rec /\ crun' = crun /\ runtimeJson' = "none"
      BY <1>1, <1>10 DEF StartPrepare, PrepareResources, StartLaunch, Launch, Live, backendVars
    <2>2. \/ op'.pc = "launch"
          \/ op'.pc = "start_failed" /\ ~owner'
      <3>1. Goto("start_failed").pc = "start_failed"
        BY <1>5 DEF Steps, InspectSteps
      <3>2. CASE StartPrepare
        <4>1. ~owner
          BY <3>2 DEF Leaked, StartPrepare
        <4> QED
          BY <1>1, <3>1, <3>2, <4>1 DEF StartPrepare, PrepareResources, AfterStart, Operation, backendVars
      <3>3. CASE StartLaunch
        BY <1>1, <3>1, <3>3 DEF StartLaunch, Launch, Live, AfterStart
      <3> QED
        BY <1>10, <3>2, <3>3
    <2> QED
      BY <2>1, <2>2, LeakedKeeps
  <1>11. CASE FinishKill \/ FinishRestartStop
    <2>1. op.pc # "launch" /\ ~owner
      BY <1>11 DEF FinishKill, FinishRestartStop, Leaked
    <2>2. UNCHANGED <<crun, owner>> /\ runtimeJson' = "none" /\ rec' = rec
      BY <1>11, <2>1, LeakedIsNotStopped DEF FinishKill, FinishRestartStop
    <2>3. /\ Release("stopped", "kill_terminal").pc = "release"
          /\ Release("stopped", "kill_terminal").then.to = "stopped"
          /\ ReleaseThen("restart_starting", "restart_advance", "start").pc = "release"
          /\ ReleaseThen("restart_starting", "restart_advance", "start").then.to = "restart_starting"
      <3>1. \A to \in States, upd \in RuntimeUpdates, next \in {"idle", "start"} :
              ReleaseThen(to, upd, next).pc = "release" /\ ReleaseThen(to, upd, next).then.to = to
        BY <1>1, CommitThenType
      <3> QED
        BY <3>1 DEF Release, States, RuntimeUpdates
    <2>4. op'.pc \in {"kill_failed", "restart_stop_failed", "release"}
          /\ (op'.pc = "release" => op'.then.to # "running")
      BY <1>5, <1>11, <2>3 DEF FinishKill, FinishRestartStop, AfterCall, Steps, InspectSteps
    <2> QED
      BY <2>1, <2>2, <2>4, LeakedKeeps
  <1>12. CASE ReleaseStep \/ RemoveRelease \/ RemoveCleanup
    <2>1. ~owner /\ rec' = rec /\ UNCHANGED <<crun, owner>> /\ runtimeJson' = "none"
      BY <1>1, <1>12 DEF ReleaseStep, RemoveRelease, RemoveCleanup, ReleaseResources,
         CleanupExecutionPaths, Leaked
    <2>2. \/ op'.pc \in {"idle", "remove_cleanup", "remove_forget"}
          \/ op.pc = "release" /\ op'.pc = "commit" /\ op'.then = op.then
      <3>1. Goto("commit").then = op.then
        BY <1>1, GotoType DEF Steps
      <3> QED
        BY <1>5, <1>12, <3>1 DEF ReleaseStep, RemoveRelease, RemoveCleanup, Steps
    <2>3. op.pc = "release" => op.then.to # "running"
      BY DEF Leaked
    <2> QED
      BY <2>1, <2>2, <2>3, LeakedKeeps
  <1>13. CASE CommitStep
    <2>1. ~owner /\ UNCHANGED <<crun, runtimeJson, owner>> /\ op.then.to # "running"
      BY <1>13 DEF CommitStep, Leaked
    <2>2. DecisionFits(rec, op)
      BY <1>1, <1>13 DEF CommitStep, StepFits
    <2>3. rec'.state \in LeakStates
      BY <1>1, <1>13, <2>1, <2>2
         DEF CommitStep, Refuse, TransitionWith, DecisionFits, LegalEdges, LeakStates
    <2>4. op'.pc \in {"idle", "dispatch", "claim_start", "start"}
      BY <1>1, <1>5, <1>13 DEF CommitStep, Refuse, Operation, Decisions
    <2> QED
      BY <1>1, <2>1, <2>3, <2>4 DEF Leaked
  <1>14. CASE RemoveForget
    <2>1. ~owner /\ UNCHANGED <<crun, runtimeJson, owner>> /\ op'.pc = "idle"
      BY <1>5, <1>14 DEF RemoveForget, Refuse, Leaked
    <2>2. rec'.state \in LeakStates
      BY <1>1, <1>14 DEF RemoveForget, Refuse, FinishRemove, NewRecord, LeakStates
    <2> QED
      BY <1>1, <2>1, <2>2 DEF Leaked
  <1> QED
    BY <1>3, <1>4, <1>6, <1>7, <1>8, <1>9, <1>10, <1>11, <1>12, <1>13, <1>14,
       DispatchKeepsLeaked, InspectKeepsLeaked DEF Next, OperationStep

-----------------------------------------------------------------------------
(* The invariant, and what callers see of it.                              *)

AgreementInv == freezeFailed \/ Leaked \/ AgreeInv

\* Only a new container ends the time after a failed pause or resume.
LEMMA FreezeFailureEnds ==
    ASSUME [Next]_vars, freezeFailed, ~freezeFailed'
    PROVE  StartLaunch /\ crun' = "running" /\ op' = Goto("record")
  <1>1. StartLaunch
    BY DEF Next, OperationStep, vars, backendVars, Create, Acquire, DeleteSnapshot, Crash,
       RuntimeExit, Dispatch, InspectBackend, InspectSandbox, ClaimStart, StartPrepare,
       PrepareResources, StartRecord, RecordRuntime, StartReady, AwaitReady, PauseRuntime,
       ResumeRuntime, PauseForSnapshot, RestoreSnapshotSource, TransitionSandbox, ColdPause,
       FinishRestartStop, StopForRestart, FinishKill, KillRuntime, CaptureSnapshot, ReleaseStep,
       ReleaseResources, CommitStep, RemoveRelease, RemoveCleanup, CleanupExecutionPaths,
       RemoveForget
  <1> QED
    BY <1>1 DEF StartLaunch, Launch, AfterStart

\* Nothing is claimed of a container that is not live.
LEMMA NotLiveAgrees == ~Live' => AgreeInv'
  BY DEF AgreeInv, FrozenIsTracked, PausedIsFrozen, ColdIsGone, DecisionAgrees, StepAgrees,
         Visible, Live

LEMMA NextAgrees ==
    IndInv /\ HostInv /\ ModeInv /\ AgreementInv /\ [Next]_vars => AgreementInv'
  <1>1. SUFFICES ASSUME IndInv, HostInv, ModeInv, AgreementInv, [Next]_vars, ~freezeFailed'
                 PROVE  Leaked' \/ AgreeInv'
    BY DEF AgreementInv
  <1>2. CASE Leaked
    BY <1>1, <1>2, LeakedStays, NotLiveAgrees
  <1>3. CASE freezeFailed
    <2>1. StartLaunch /\ crun' = "running" /\ op' = Goto("record")
      BY <1>1, <1>3, FreezeFailureEnds
    <2>2. op.pc = "launch" /\ rec' = rec /\ op \in Operation
      BY <1>1, <2>1 DEF StartLaunch, IndInv, TypeOK
    <2>3. rec.state \in {"starting", "resuming", "restart_starting"}
      BY <1>1, <2>2, StartContext
    <2>4. rec.state = "resuming" => ~rec.warm
      BY <1>1, <2>2 DEF ModeInv, StepKeepsMode, StartSteps
    <2>5. Backed(op')
      BY <2>1, <2>2, BackedSteps DEF Steps, FailureSteps
    <2> QED
      BY <2>1, <2>2, <2>3, <2>4, <2>5, StartedAgrees
  <1>4. CASE AgreeInv
    <2>1. CASE UNCHANGED vars
      BY <1>4, <2>1 DEF vars, AgreeInv, FrozenIsTracked, PausedIsFrozen, ColdIsGone,
         DecisionAgrees, StepAgrees, Visible, Live
    <2>2. CASE ClaimStart
      BY <1>1, <1>4, <2>2, ClaimAgrees DEF ClaimStart, Steps, FailureSteps
    <2> QED
      BY <1>1, <1>4, <2>1, <2>2, DispatchAgrees, InspectAgrees, StartAgrees, StopAgrees,
         PauseAgrees, ResumeAgrees, SnapshotCallsAgree, CaptureAgrees, ReleaseAgrees,
         CommitAgrees, RemoveAgrees, EnvironmentAgrees DEF Next, OperationStep
  <1> QED
    BY <1>1, <1>2, <1>3, <1>4 DEF AgreementInv

\* Whatever crashes, exits, slow guests and failing host commands there are: when
\* the lifecycle lock is free, an execution recorded as running is not frozen, one
\* paused with memory does not run, and one paused without memory has no container
\* recovery can see, except while a container is there of which a crun pause or
\* resume reported an error.
THEOREM RecordAndRuntimeAgree == Spec => []RecordAgreesWithRuntime
  <1>1. Init => AgreementInv
    BY IdleType DEF Init, BackendInit, AgreementInv, AgreeInv, FrozenIsTracked, PausedIsFrozen,
       ColdIsGone, DecisionAgrees, StepAgrees, NewRecord, Visible, Live
  <1>2. IndInv /\ HostInv /\ ModeInv /\ AgreementInv /\ [Next]_vars => AgreementInv'
    BY NextAgrees
  <1>3. AgreementInv => RecordAgreesWithRuntime
    BY NotFrozen DEF AgreementInv, Leaked, LeakStates, AgreeInv, PausedIsFrozen, ColdIsGone,
       MayBeFrozen, Visible, RecordAgreesWithRuntime
  <1>4. Spec => [](IndInv /\ HostInv /\ ModeInv)
    BY ModeInvariance
  <1> QED
    BY <1>1, <1>2, <1>3, <1>4, PTL DEF Spec

==============================================================================
