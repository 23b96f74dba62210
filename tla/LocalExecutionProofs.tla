------------------------ MODULE LocalExecutionProofs ------------------------
(***************************************************************************)
(* Theorems about LocalExecution for every set of identities, options and  *)
(* snapshots, every bound on generations and faults and every kind of      *)
(* fault: its records stay readable, every decision is a legal transition  *)
(* and the manager implements ExecutionLifecycle.                          *)
(***************************************************************************)
EXTENDS LocalExecution, TLAPS

-----------------------------------------------------------------------------
(* The inductive invariant: besides types and readable records it says     *)
(* which record states each step of an operation can meet.                 *)

StartSteps == {"start", "launch", "record", "ready", "start_failed"}
SnapshotSteps == {"snapshot_inspect", "snapshot_pause", "snapshot_pause_failed",
                  "snapshot_capture", "snapshot_resume", "snapshot_resume_failed"}
RestoreSteps == {"snapshot_resume", "snapshot_resume_failed"}
ObservedStates == {"starting", "running", "pausing", "paused", "resuming", "killing",
                   "restart_stopping", "restart_starting"}

\* The states operations decide on: all others are entered by a claim.
Published == {"created", "running", "paused", "restart_starting", "stopped", "failed"}

\* A published decision is a legal edge that ends a snapshot in its source
\* state, and the step after it fits the state it leads to.
DecisionFits(r, o) ==
    /\ <<r.state, o.then.to>> \in LegalEdges
    /\ r.state = "snapshotting" => o.then.to = r.pending.src
    /\ o.then.to \in Published
    /\ o.then.upd = "cold_pause" => o.then.to = "paused"
    /\ o.then.upd = "none" => o.then.to = "paused" \/ r.state \in {"starting", "pausing"}
    /\ o.then.next = "claim_start" => o.then.to = "created"
    /\ o.then.next = "start" => o.then.to = "restart_starting"
    /\ o.then.next = "dispatch" => r.state = "snapshotting"

\* The states of the record an operation at step pc can meet.
Allowed(pc, state) ==
    /\ pc # "idle" => state \in States
    /\ pc \in SnapshotSteps => state = "snapshotting"
    /\ pc \in {"ensure_started", "recover_start"} => state = "starting"
    /\ pc \in StartSteps => state \in {"starting", "resuming", "restart_starting"}
    /\ pc \in {"pause", "pause_failed", "cold_pause", "cold_pause_failed"}
         => state = "pausing"
    /\ pc \in {"resume", "resume_failed", "cold_resume"} => state = "resuming"
    /\ pc \in {"kill", "kill_failed"} => state = "killing"
    /\ pc \in {"restart_stop", "restart_stop_failed"} => state = "restart_stopping"
    /\ pc = "claim_start" => state = "created"
    /\ pc \in {"remove_release", "remove_cleanup", "remove_forget"} => state = "removing"
    /\ pc = "observe" => state \in ObservedStates

StepFits(r, o) ==
    /\ Allowed(o.pc, r.state)
    /\ o.pc \in RestoreSteps => r.pending.src = "running"
                                  /\ o.then.next \in {"idle", "dispatch"}
    /\ o.pc \in {"release", "commit"} => DecisionFits(r, o)

\* The marker of a pause without memory never leaves the states between that
\* pause and the resume, kill or restart that ends it: stronger than what
\* validation asks for, and what keeps a published record valid.
ColdMarker(r) ==
    \/ r.warm
    \/ r.state \in {"paused", "resuming", "killing"}
    \/ r.state \in {"snapshotting", "restart_stopping"} /\ r.pending.src = "paused"

Readable(r) == ValidPendingOperation(r) /\ ValidMetadata(r) /\ ColdMarker(r)

RecordReadable == rec.state \in States => Readable(rec)

\* A transition that advances the generation is only under way below the bound.
HasRoom(r, o) ==
    /\ r.state \in {"pausing", "resuming", "restart_stopping"} => r.gen < MaxGeneration
    /\ (/\ o.req.name \in {"pause", "resume", "restart"}
        /\ o.pc = "dispatch" \/ (o.pc # "idle" /\ r.state = "snapshotting"))
         => r.gen < MaxGeneration

IndInv ==
    /\ TypeOK
    /\ RecordReadable
    /\ StepFits(rec, op)
    /\ HasRoom(rec, op)

-----------------------------------------------------------------------------
(* Fields of intents and requests.                                         *)

\* An intent carries the arguments of its kind (ManagedExecutionOperation).
LEMMA OperationFields ==
    ASSUME NEW o \in Operations
    PROVE  /\ o.kind \in {"none", "start", "resume", "kill", "remove", "pause",
                          "snapshot", "restart"}
           /\ o.kind = "snapshot" => o.snap \in SnapshotIds /\ o.src \in SnapshotSources
           /\ o.kind = "restart" => /\ o.id \in OperationIds
                                    /\ o.srcGen \in Generations
                                    /\ o.src \in RestartSources
                                    /\ o.opts \in RestartOptions
  BY DEF Operations

\* The claims of start, resume, kill and remove carry no argument.
LEMMA IntentTypes ==
    /\ NoOperation \in Operations
    /\ \A kind \in {"none", "start", "resume", "kill", "remove"} :
          Intent(kind) \in Operations
  BY DEF NoOperation, Intent, Operations

\* A request carries the arguments of its operation.
LEMMA RequestFields ==
    ASSUME NEW q \in Requests
    PROVE  /\ q.name = "pause" => q.keep \in BOOLEAN
           /\ q.name = "snapshot" => q.snap \in SnapshotIds
           /\ q.name = "restart" => /\ q.gen \in Generations
                                    /\ q.id \in OperationIds
                                    /\ q.opts \in RestartOptions
  BY PausePoliciesAssumption DEF Requests

\* The generation of a record can be compared with the bound.
LEMMA GenerationFacts ==
    /\ MaxGeneration \in Nat /\ 1 \in Generations
    /\ \A g \in Generations : g \in Nat /\ (g < MaxGeneration => g + 1 \in Generations)
  BY MaxGenerationAssumption DEF Generations

-----------------------------------------------------------------------------
(* The operators that move an operation on.                                *)

LEMMA IdleType == Idle \in Operation /\ Idle.pc = "idle" /\ Done = Idle
  BY DEF Idle, Done, NewOperation, NoDecision, Operation, Requests, Steps, InspectSteps,
         Decisions, States, RuntimeUpdates

LEMMA NewOperationType ==
    ASSUME NEW req \in Requests
    PROVE  /\ NewOperation(req) \in Operation
           /\ NewOperation(req).pc = "dispatch"
           /\ NewOperation(req).req = req
  BY DEF NewOperation, NoDecision, Operation, Steps, InspectSteps, Decisions, States,
         RuntimeUpdates

LEMMA GotoType ==
    ASSUME op \in Operation, NEW pc \in Steps
    PROVE  /\ Goto(pc) \in Operation
           /\ Goto(pc).pc = pc
           /\ Goto(pc).req = op.req
           /\ Goto(pc).then = op.then
  BY DEF Goto, Operation

LEMMA CommitThenType ==
    ASSUME op \in Operation, NEW to \in States, NEW upd \in RuntimeUpdates,
           NEW next \in {"idle", "dispatch", "claim_start", "start"}
    PROVE  /\ CommitThen(to, upd, next) \in Operation
           /\ CommitThen(to, upd, next).pc = "commit"
           /\ CommitThen(to, upd, next).req = op.req
           /\ CommitThen(to, upd, next).then.to = to
           /\ CommitThen(to, upd, next).then.upd = upd
           /\ CommitThen(to, upd, next).then.next = next
           /\ ReleaseThen(to, upd, next) \in Operation
           /\ ReleaseThen(to, upd, next).pc = "release"
           /\ ReleaseThen(to, upd, next).req = op.req
           /\ ReleaseThen(to, upd, next).then.to = to
           /\ ReleaseThen(to, upd, next).then.upd = upd
           /\ ReleaseThen(to, upd, next).then.next = next
  <1>1. {"commit", "release"} \subseteq Steps
    BY DEF Steps
  <1>2. [to |-> to, upd |-> upd, next |-> next] \in Decisions
    BY DEF Decisions
  <1> QED
    BY <1>1, <1>2 DEF CommitThen, ReleaseThen, Operation

-----------------------------------------------------------------------------
(* A legal transition keeps records typed and readable.                    *)

LEMMA NextPendingType ==
    ASSUME NEW to \in States, NEW claimed \in Operations
    PROVE  NextPending(to, claimed) \in Operations
  BY IntentTypes DEF NextPending, Operations, Intent

LEMMA TransitionType ==
    ASSUME NEW r \in Records, NEW to \in States, NEW upd \in RuntimeUpdates,
           NEW claimed \in Operations,
           CanTransition(r, to, claimed),
           r.state = "restart_starting" => r.pending.kind = "restart"
    PROVE  TransitionWith(r, to, upd, claimed) \in Records
  <1> DEFINE t == TransitionWith(r, to, upd, claimed)
  <1>1. TransitionGeneration(r.state, to, r.gen) \in Generations
    BY DEF CanTransition
  <1>2. NextPending(to, claimed) \in Operations
    BY NextPendingType
  <1>3. UpdatedWarm(r.warm, upd) \in BOOLEAN /\ UpdatedByUser(r.byUser, upd) \in BOOLEAN
    BY DEF UpdatedWarm, UpdatedByUser
  <1>4. NextLast(r, to) \in Completions
    <2>1. r.last \in Completions /\ r.pending \in Operations /\ r.gen \in Generations
      BY DEF Records
    <2>2. CASE r.state = "restart_starting"
      BY <2>1, <2>2, OperationFields DEF NextLast, Completions
    <2>3. CASE r.state # "restart_starting"
      BY <2>1, <2>3 DEF NextLast
    <2> QED
      BY <2>2, <2>3
  <1> QED
    BY <1>1, <1>2, <1>3, <1>4 DEF TransitionWith, Records

\* transition_with: the new record is readable when a restart claim names the
\* generation it starts from and the advance keeps the claim.
LEMMA TransitionReadable ==
    ASSUME NEW r \in Records, NEW to \in States, NEW upd \in RuntimeUpdates,
           NEW claimed \in Operations,
           CanTransition(r, to, claimed),
           Readable(r),
           to = "snapshotting" => claimed.src = r.state,
           to = "restart_stopping" => claimed.srcGen = r.gen /\ claimed.src = r.state,
           to = "restart_starting" => claimed = r.pending,
           upd = "cold_pause" => to = "paused",
           (upd = "none" /\ to \in Published)
             => to = "paused" \/ r.state \in {"starting", "pausing"}
    PROVE  Readable(TransitionWith(r, to, upd, claimed))
  <1> DEFINE t == TransitionWith(r, to, upd, claimed)
  <1>1. /\ t.state = to
        /\ t.gen = TransitionGeneration(r.state, to, r.gen)
        /\ t.pending = NextPending(to, claimed)
        /\ t.last = NextLast(r, to)
    BY DEF TransitionWith
  <1>2. r.gen \in Nat /\ <<r.state, to>> \in LegalEdges
    BY GenerationFacts DEF Records, CanTransition
  <1>3. t.pending.kind = PendingKind(to)
    <2>1. to # "removing"
      BY <1>2 DEF LegalEdges
    <2> QED
      BY <1>1, <2>1 DEF CanTransition, NextPending, PendingKind, Intent, NoOperation, States
  <1>4. to = "restart_stopping" => t.gen = t.pending.srcGen
    BY <1>1, <1>2 DEF TransitionGeneration, BumpEdges, NextPending
  <1>5. to = "restart_starting" => t.gen = t.pending.srcGen + 1
    <2>1. SUFFICES ASSUME to = "restart_starting" PROVE t.gen = t.pending.srcGen + 1
      OBVIOUS
    <2>2. r.state = "restart_stopping"
      BY <1>2, <2>1 DEF LegalEdges
    <2> QED
      BY <1>1, <2>1, <2>2 DEF Readable, ValidPendingOperation, TransitionGeneration,
                              BumpEdges, NextPending
  <1>6. ValidMetadata(t)
    BY <1>1 DEF Readable, ValidPendingOperation, ValidMetadata, NextLast
  <1>7. ColdMarker(t)
    <2>1. t.warm = UpdatedWarm(r.warm, upd)
      BY DEF TransitionWith
    <2>2. CASE UpdatedWarm(r.warm, upd)
      BY <2>1, <2>2 DEF ColdMarker
    <2>3. CASE upd = "cold_pause"
      BY <1>1, <2>3 DEF ColdMarker
    <2>4. CASE upd = "none" /\ ~r.warm
      <3>1. \/ r.state \in {"paused", "resuming", "killing"}
            \/ r.state \in {"snapshotting", "restart_stopping"}
        BY <2>4 DEF Readable, ColdMarker
      <3>2. \/ to \in {"paused", "resuming", "killing"}
            \/ to \in {"snapshotting", "restart_stopping"} /\ r.state = "paused"
        BY <1>2, <2>4, <3>1 DEF LegalEdges, Published
      <3>3. to \in {"snapshotting", "restart_stopping"} => t.pending = claimed
        BY <1>1 DEF NextPending
      <3> QED
        BY <1>1, <3>2, <3>3 DEF ColdMarker
    <2>5. UpdatedWarm(r.warm, upd) \/ upd = "cold_pause" \/ (upd = "none" /\ ~r.warm)
      BY DEF UpdatedWarm
    <2> QED
      BY <2>2, <2>3, <2>4, <2>5
  <1> QED
    BY <1>1, <1>3, <1>4, <1>5, <1>6, <1>7
       DEF Readable, ValidPendingOperation, ValidColdPause, ColdMarker

-----------------------------------------------------------------------------
(* The backend operators keep the types of the backend's state.            *)

\* The fault counter stays within its bound.
LEMMA FaultType ==
    ASSUME BackendTypeOK,
           Fault("error") \/ Fault("slow") \/ Fault("crash") \/ NoFault \/ UNCHANGED faults
    PROVE  faults' \in 0..MaxFaults
  BY FaultAssumption DEF BackendTypeOK, Fault, NoFault

\* The values of the backend's variables other than the fault counter.
Values ==
    /\ crun \in {"none", "running", "paused", "stopped"}
    /\ runtimeJson \in {"none", "current", "stale"}

Flags ==
    /\ owner \in BOOLEAN /\ rootfs \in BOOLEAN
    /\ attached \in BOOLEAN /\ freezeFailed \in BOOLEAN

LEMMA BackendParts ==
    /\ BackendTypeOK => Values /\ Flags
    /\ (Values /\ Flags /\ faults \in 0..MaxFaults)' => BackendTypeOK'
  BY DEF BackendTypeOK, Values, Flags

LEMMA DestroyTypes ==
    ASSUME BackendTypeOK, NEW preserve, NEW result,
           DestroyRegistered(preserve, result) \/ Destroyed(preserve)
             \/ DestroyFailed(preserve) \/ ExitsUnderInspection
             \/ DestroyWithoutHandler(result),
           UNCHANGED <<attached, freezeFailed>>
    PROVE  BackendTypeOK'
  <1>1. faults' \in 0..MaxFaults
    BY FaultType DEF DestroyRegistered, Destroyed, DestroyFailed,
        ExitsUnderInspection, DestroyWithoutHandler
  <1>2. Values'
    BY BackendParts DEF Values, DestroyRegistered, Destroyed, DestroyFailed,
        ExitsUnderInspection, DestroyWithoutHandler
  <1>3. Flags'
    BY BackendParts, Zenon DEF Flags, DestroyRegistered, Destroyed, DestroyFailed,
        ExitsUnderInspection, DestroyWithoutHandler
  <1> QED
    BY <1>1, <1>2, <1>3, BackendParts

LEMMA InspectRegisteredType ==
    ASSUME BackendTypeOK, NEW r, NEW obs, InspectRegistered(r, obs),
           UNCHANGED <<attached, freezeFailed>>
    PROVE  BackendTypeOK'
  <1> DEFINE force == ShouldForceRootfsPreservation(r)
  <1>1. CASE Destroyed(force) \/ DestroyFailed(force) \/ ExitsUnderInspection
    BY <1>1, DestroyTypes
  <1>2. CASE owner' = TRUE /\ UNCHANGED <<crun, runtimeJson, rootfs>>
             /\ (Fault("error") \/ Fault("slow") \/ UNCHANGED faults)
    BY <1>2, FaultType, BackendParts DEF Values, Flags
  <1> QED
    BY <1>1, <1>2 DEF InspectRegistered

LEMMA InspectDetachedType ==
    ASSUME BackendTypeOK, NEW r, NEW obs, InspectDetached(r, obs),
           UNCHANGED <<attached, freezeFailed>>
    PROVE  BackendTypeOK'
  <1> DEFINE force == ShouldForceRootfsPreservation(r)
  <1>1. CASE Destroyed(force) \/ ExitsUnderInspection
    BY <1>1, DestroyTypes
  <1>2. CASE InspectRegistered(r, obs)
    BY <1>2, InspectRegisteredType
  <1>3. CASE owner' \in {owner, TRUE} /\ UNCHANGED <<crun, runtimeJson, rootfs>>
             /\ (Fault("error") \/ UNCHANGED faults)
    BY <1>3, FaultType, BackendParts DEF Values, Flags
  <1> QED
    BY <1>1, <1>2, <1>3 DEF InspectDetached

LEMMA InspectSandboxType ==
    ASSUME BackendTypeOK, NEW r, NEW obs, InspectSandbox(r, obs)
    PROVE  BackendTypeOK'
  BY InspectRegisteredType, InspectDetachedType DEF InspectSandbox

LEMMA DestroyDetachedType ==
    ASSUME BackendTypeOK, NEW r, NEW preserve, NEW result,
           DestroyDetachedSandbox(r, preserve, result),
           UNCHANGED <<attached, freezeFailed>>
    PROVE  BackendTypeOK'
  <1>1. CASE DestroyRegistered(preserve, result) \/ ExitsUnderInspection
    BY <1>1, DestroyTypes
  <1>2. CASE InspectDetached(r, "stopped") \/ InspectDetached(r, result)
    BY <1>2, InspectDetachedType
  <1>3. CASE /\ Fault("error") /\ owner' \in {owner, TRUE}
             /\ UNCHANGED <<crun, runtimeJson, rootfs>>
    BY <1>3, FaultType, BackendParts DEF Values, Flags
  <1> QED
    BY <1>1, <1>2, <1>3 DEF DestroyDetachedSandbox

LEMMA KillRuntimeType ==
    ASSUME BackendTypeOK, NEW r, NEW result, KillRuntime(r, result)
    PROVE  BackendTypeOK'
  BY DestroyTypes, DestroyDetachedType DEF KillRuntime

LEMMA StopForRestartType ==
    ASSUME BackendTypeOK, NEW r, NEW result, StopForRestart(r, result)
    PROVE  BackendTypeOK'
  <1>1. CASE DestroyRegistered(TRUE, result)
    BY <1>1, DestroyTypes DEF StopForRestart
  <1>2. CASE DestroyDetachedSandbox(r, TRUE, result)
    BY <1>2, DestroyDetachedType DEF StopForRestart
  <1>3. CASE UNCHANGED <<crun, runtimeJson, owner, rootfs, attached, freezeFailed>>
             /\ (Fault("error") \/ UNCHANGED faults)
    BY <1>3, FaultType, BackendParts DEF Values, Flags
  <1> QED
    BY <1>1, <1>2, <1>3 DEF StopForRestart

LEMMA TransitionSandboxType ==
    ASSUME BackendTypeOK, NEW target \in {"running", "paused"}, NEW result,
           TransitionSandbox(target, result)
    PROVE  BackendTypeOK'
  <1>1. faults' \in 0..MaxFaults
    BY FaultType DEF TransitionSandbox
  <1>2. Values'
    BY BackendParts DEF Values, TransitionSandbox
  <1>3. Flags'
    BY BackendParts, Zenon DEF Flags, TransitionSandbox
  <1> QED
    BY <1>1, <1>2, <1>3, BackendParts

LEMMA StartTypes ==
    ASSUME BackendTypeOK, NEW acquired \in BOOLEAN, NEW reuse \in BOOLEAN, NEW ok \in BOOLEAN,
           PrepareResources(ok) \/ Launch(acquired, reuse, ok)
             \/ RecordRuntime(acquired, reuse, ok) \/ AwaitReady(acquired, reuse, ok)
    PROVE  BackendTypeOK'
  <1>1. faults' \in 0..MaxFaults
    BY FaultType DEF PrepareResources, Launch, RecordRuntime, AwaitReady, backendVars
  <1>2. Values'
    BY BackendParts DEF Values, PrepareResources, Launch, RecordRuntime, AwaitReady, backendVars
  <1>3. Flags'
    BY BackendParts, Zenon DEF Flags, PrepareResources, Launch, RecordRuntime, AwaitReady,
                               Rollback, BootFailed, backendVars
  <1> QED
    BY <1>1, <1>2, <1>3, BackendParts

LEMMA ReleaseTypes ==
    ASSUME BackendTypeOK, NEW ok \in BOOLEAN,
           ReleaseResources(ok) \/ CleanupExecutionPaths(ok)
    PROVE  BackendTypeOK'
  <1>1. faults' \in 0..MaxFaults
    BY FaultType DEF ReleaseResources, CleanupExecutionPaths
  <1>2. Values'
    BY BackendParts DEF Values, ReleaseResources, CleanupExecutionPaths
  <1>3. Flags'
    BY BackendParts, Zenon DEF Flags, ReleaseResources, CleanupExecutionPaths
  <1> QED
    BY <1>1, <1>2, <1>3, BackendParts

-----------------------------------------------------------------------------
(* Steps that keep the record.                                             *)

\* Where an operation may go on without touching the record.
Fits(o) ==
    /\ o \in Operation
    /\ StepFits(rec, o)
    /\ o.pc = "idle" \/ (o.req = op.req /\ o.pc # "dispatch")

\* Returning to the caller is always possible.
LEMMA DoneFits == Fits(Done)
  BY IdleType DEF Fits, StepFits, Allowed, SnapshotSteps, RestoreSteps, StartSteps

\* Publishing a decision that fits.
LEMMA DecisionsFit ==
    ASSUME op \in Operation, rec.state \in States,
           NEW to \in States, NEW upd \in RuntimeUpdates,
           NEW next \in {"idle", "dispatch", "claim_start", "start"},
           <<rec.state, to>> \in LegalEdges,
           rec.state = "snapshotting" => to = rec.pending.src,
           to \in Published,
           upd = "cold_pause" => to = "paused",
           upd = "none" => to = "paused" \/ rec.state \in {"starting", "pausing"},
           next = "claim_start" => to = "created",
           next = "start" => to = "restart_starting",
           next = "dispatch" => rec.state = "snapshotting"
    PROVE  Fits(CommitThen(to, upd, next)) /\ Fits(ReleaseThen(to, upd, next))
  <1>1. ASSUME NEW o \in Operation, o.req = op.req, o.pc \in {"commit", "release"},
               o.then.to = to, o.then.upd = upd, o.then.next = next
        PROVE  Fits(o)
    <2>1. DecisionFits(rec, o)
      BY <1>1 DEF DecisionFits
    <2> QED
      BY <1>1, <2>1 DEF Fits, StepFits, Allowed, SnapshotSteps, RestoreSteps, StartSteps
  <1>2. Fits(CommitThen(to, upd, next))
    BY <1>1, CommitThenType
  <1>3. Fits(ReleaseThen(to, upd, next))
    BY <1>1, CommitThenType
  <1> QED
    BY <1>2, <1>3

\* The common case: publish and return.
LEMMA CommitFits ==
    ASSUME op \in Operation, rec.state \in States, rec.state # "snapshotting",
           NEW to \in States, NEW upd \in RuntimeUpdates,
           <<rec.state, to>> \in LegalEdges,
           to \in Published,
           upd = "cold_pause" => to = "paused",
           upd = "none" => to = "paused" \/ rec.state \in {"starting", "pausing"}
    PROVE  Fits(Commit(to, upd)) /\ Fits(Release(to, upd))
  BY DecisionsFit DEF Commit, Release

\* A step that keeps the record and goes on where the operation fits keeps the
\* inductive invariant.
LEMMA KeepRecord ==
    ASSUME IndInv, op.pc # "idle", rec' = rec, Fits(op'), BackendTypeOK',
           snaps' \subseteq SnapshotIds
    PROVE  IndInv'
  <1>1. HasRoom(rec, op')
    BY DEF IndInv, HasRoom, Fits
  <1> QED
    BY <1>1 DEF IndInv, Fits, TypeOK, RecordReadable, StepFits, HasRoom, DecisionFits

-----------------------------------------------------------------------------
(* Steps that claim or publish a transition.                               *)

\* A transition of the record to state "to" by intent "claimed", after which
\* the operation is o.
LEMMA TransitionKeepsRecords ==
    ASSUME IndInv, rec.state \in States, NEW to \in States, NEW upd \in RuntimeUpdates,
           NEW claimed \in Operations,
           CanTransition(rec, to, claimed),
           rec' = TransitionWith(rec, to, upd, claimed),
           to = "snapshotting" => claimed.src = rec.state,
           to = "restart_stopping" => claimed.srcGen = rec.gen /\ claimed.src = rec.state,
           to = "restart_starting" => claimed = rec.pending,
           upd = "cold_pause" => to = "paused",
           (upd = "none" /\ to \in Published)
             => to = "paused" \/ rec.state \in {"starting", "pausing"}
    PROVE  /\ rec' \in Records /\ RecordReadable'
           /\ rec'.state = to
           /\ rec'.pending = NextPending(to, claimed)
           /\ rec'.gen = TransitionGeneration(rec.state, to, rec.gen)
  <1>1. rec \in Records /\ Readable(rec)
    BY DEF IndInv, TypeOK, RecordReadable
  <1>2. rec.state = "restart_starting" => rec.pending.kind = "restart"
    BY <1>1 DEF Readable, ValidPendingOperation, PendingKind
  <1>3. rec' \in Records
    BY <1>1, <1>2, TransitionType
  <1>4. Readable(rec')
    BY <1>1, TransitionReadable
  <1>5. RecordReadable'
    BY <1>4 DEF RecordReadable
  <1> QED
    BY <1>3, <1>5 DEF TransitionWith

\* A claim other than the one of a restart, from any step of an operation.
LEMMA ClaimKeepsInv ==
    ASSUME IndInv, op.pc # "idle", rec.state \in States,
           NEW to \in {"starting", "pausing", "resuming", "snapshotting", "killing"},
           NEW intent \in Operations, NEW pc \in Steps,
           Claim(to, intent, pc),
           UNCHANGED <<snaps, backendVars>>,
           pc \notin {"idle", "dispatch", "release", "commit"} \cup RestoreSteps,
           Allowed(pc, to),
           to = "snapshotting" => intent.src = rec.state,
           to \in {"pausing", "resuming"} => rec.gen < MaxGeneration,
           (to = "snapshotting" /\ op.req.name \in {"pause", "resume", "restart"})
             => rec.gen < MaxGeneration
    PROVE  IndInv'
  <1>1. CanTransition(rec, to, intent) /\ rec' = TransitionWith(rec, to, "none", intent)
        /\ op' = Goto(pc)
    BY DEF Claim
  <1>2. to \in States /\ "none" \in RuntimeUpdates /\ to \notin Published
    BY DEF States, RuntimeUpdates, Published
  <1>3. /\ rec' \in Records /\ RecordReadable'
        /\ rec'.state = to
        /\ rec'.gen = TransitionGeneration(rec.state, to, rec.gen)
    BY <1>1, <1>2, TransitionKeepsRecords
  <1>4. rec'.gen = rec.gen
    BY <1>3 DEF TransitionGeneration, BumpEdges
  <1>5. op \in Operation
    BY DEF IndInv, TypeOK
  <1>6. op' \in Operation /\ op'.pc = pc /\ op'.req = op.req
    BY <1>1, <1>5, GotoType
  <1>7. StepFits(rec', op')
    BY <1>2, <1>3, <1>6 DEF StepFits, RestoreSteps
  <1>8. HasRoom(rec', op')
    BY <1>3, <1>4, <1>6 DEF HasRoom
  <1>9. BackendTypeOK' /\ snaps' \subseteq SnapshotIds
    BY DEF IndInv, TypeOK, BackendTypeOK, backendVars
  <1> QED
    BY <1>3, <1>6, <1>7, <1>8, <1>9 DEF IndInv, TypeOK

-----------------------------------------------------------------------------
(* What operations decide fits, whatever the backend reports.              *)

LEMMA GotoFits ==
    ASSUME op \in Operation, NEW pc \in Steps, Allowed(pc, rec.state),
           pc \notin {"dispatch", "release", "commit"} \cup RestoreSteps
    PROVE  Fits(Goto(pc))
  BY GotoType DEF Fits, StepFits

\* The state an operation that inspects the backend is in.
LEMMA DecideContext ==
    ASSUME IndInv, op.pc \in Steps, op.pc # "idle"
    PROVE  /\ op \in Operation /\ rec.state \in States
           /\ Allowed(op.pc, rec.state)
           /\ op.pc \in SnapshotSteps =>
                /\ rec.state = "snapshotting"
                /\ rec.pending \in Operations
                /\ rec.pending.kind = "snapshot"
                /\ rec.pending.src \in SnapshotSources
                /\ rec.pending.snap \in SnapshotIds
  <1>1. op \in Operation /\ rec \in Records
    BY DEF IndInv, TypeOK
  <1>2. Allowed(op.pc, rec.state) /\ rec.state \in States
    BY DEF IndInv, StepFits, Allowed
  <1>3. op.pc \in SnapshotSteps => rec.state = "snapshotting"
    BY <1>2 DEF Allowed
  <1>4. rec.state = "snapshotting" => rec.pending.kind = "snapshot"
    BY <1>2 DEF IndInv, RecordReadable, Readable, ValidPendingOperation, PendingKind
  <1>5. rec.pending \in Operations
    BY <1>1 DEF Records
  <1> QED
    BY <1>1, <1>2, <1>3, <1>4, <1>5, OperationFields

LEMMA ObserveFits ==
    ASSUME IndInv, op.pc = "observe", NEW obs \in Observations
    PROVE  Fits(Observe(obs))
  <1>1. op \in Operation /\ rec.state \in States /\ rec.state \in ObservedStates
    BY DecideContext DEF Allowed, Steps, InspectSteps
  <1> DEFINE S == rec.state
  <1>2. ASSUME S \in {"starting", "running", "pausing", "paused", "resuming", "killing"}
        PROVE  Fits(Release("stopped", "terminal"))
    BY <1>1, <1>2, CommitFits DEF LegalEdges, Published, States, RuntimeUpdates
  <1>3. ASSUME S \in {"running", "pausing", "paused", "resuming"}
        PROVE  Fits(Release("failed", "terminal"))
    BY <1>1, <1>3, CommitFits DEF LegalEdges, Published, States, RuntimeUpdates
  <1>4. S = "starting" => Fits(Commit("running", "start_handle"))
    BY <1>1, CommitFits DEF LegalEdges, Published, States, RuntimeUpdates
  <1>5. S = "pausing" => Fits(Commit("paused", "handle")) /\ Fits(Goto("pause"))
    BY <1>1, CommitFits, GotoFits
       DEF LegalEdges, Published, States, RuntimeUpdates, Steps, Allowed, RestoreSteps, SnapshotSteps,
           StartSteps
  <1>6. S = "resuming" => Fits(Commit("running", "handle")) /\ Fits(Goto("resume"))
    BY <1>1, CommitFits, GotoFits
       DEF LegalEdges, Published, States, RuntimeUpdates, Steps, Allowed, RestoreSteps, SnapshotSteps,
           StartSteps
  <1>7. S = "restart_starting" => /\ Fits(Commit("running", "restart_handle"))
                                  /\ Fits(Commit("failed", "restart_failed"))
    BY <1>1, CommitFits DEF LegalEdges, Published, States, RuntimeUpdates
  <1> HIDE DEF S
  <1> QED
    BY <1>2, <1>3, <1>4, <1>5, <1>6, <1>7, DoneFits DEF Observe, S

\* The error handlers of start, pause, resume, kill and restart.
LEMMA ResolveFits ==
    ASSUME IndInv, op.pc \in InspectSteps \ {"observe"}, op.pc \notin SnapshotSteps,
           NEW obs \in Observations
    PROVE  Fits(Decide(obs))
  <1>1. op \in Operation /\ rec.state \in States /\ Allowed(op.pc, rec.state)
    BY DecideContext DEF Steps, InspectSteps
  <1>2. CASE op.pc \in {"ensure_started", "recover_start"}
    <2>1. rec.state = "starting"
      BY <1>1, <1>2 DEF Allowed
    <2>2. Fits(Commit("running", "start_handle")) /\ Fits(Commit("failed", "terminal"))
      BY <1>1, <2>1, CommitFits DEF LegalEdges, Published, States, RuntimeUpdates
    <2>3. Fits(CommitThen("created", "none", "claim_start"))
      BY <1>1, <2>1, DecisionsFit DEF LegalEdges, Published, States, RuntimeUpdates
    <2>4. Decide(obs) = EnsureStarted(obs) \/ Decide(obs) = RecoverStart(obs)
      BY <1>2 DEF Decide
    <2>5. Fits(EnsureStarted(obs))
      BY <2>2, DoneFits DEF EnsureStarted
    <2>6. Fits(RecoverStart(obs))
      BY <2>2, <2>3, DoneFits DEF RecoverStart
    <2> QED
      BY <2>4, <2>5, <2>6
  <1>3. CASE op.pc = "start_failed"
    <2>1. rec.state \in {"starting", "resuming", "restart_starting"}
      BY <1>1, <1>3 DEF Allowed, StartSteps
    <2>2. rec.state = "starting" => /\ Fits(Commit("running", "start_handle"))
                                    /\ Fits(Commit("failed", "terminal"))
      BY <1>1, CommitFits DEF LegalEdges, Published, States, RuntimeUpdates
    <2>3. rec.state = "resuming" => /\ Fits(Commit("running", "start_handle"))
                                    /\ Fits(Release("paused", "none"))
      BY <1>1, CommitFits DEF LegalEdges, Published, States, RuntimeUpdates
    <2>4. rec.state = "restart_starting" => /\ Fits(Commit("running", "restart_handle"))
                                            /\ Fits(Release("failed", "restart_failed"))
      BY <1>1, CommitFits DEF LegalEdges, Published, States, RuntimeUpdates
    <2>5. Decide(obs) = ResolveStartError(obs)
      BY <1>3 DEF Decide
    <2> QED
      BY <2>2, <2>3, <2>4, <2>5, DoneFits DEF ResolveStartError
  <1>4. CASE op.pc \in {"pause_failed", "cold_pause_failed"}
    <2>1. rec.state = "pausing"
      BY <1>1, <1>4 DEF Allowed
    <2>2. /\ Fits(Commit("paused", "handle")) /\ Fits(Commit("running", "none"))
          /\ Fits(Release("paused", "cold_pause"))
      BY <1>1, <2>1, CommitFits DEF LegalEdges, Published, States, RuntimeUpdates
    <2>3. Decide(obs) = ResolvePauseError(obs) \/ Decide(obs) = ResolveColdPauseError(obs)
      BY <1>4 DEF Decide
    <2>4. Fits(ResolvePauseError(obs)) /\ Fits(ResolveColdPauseError(obs))
      BY <2>2, DoneFits DEF ResolvePauseError, ResolveColdPauseError
    <2> QED
      BY <2>3, <2>4
  <1>5. CASE op.pc \in {"resume_failed", "cold_resume"}
    <2>1. rec.state = "resuming"
      BY <1>1, <1>5 DEF Allowed
    <2>2. /\ Fits(Commit("running", "handle")) /\ Fits(Commit("paused", "none"))
          /\ Fits(Commit("running", "start_handle"))
      BY <1>1, <2>1, CommitFits DEF LegalEdges, Published, States, RuntimeUpdates
    <2>3. Fits(Goto("start"))
      BY <1>1, <2>1, GotoFits DEF Steps, Allowed, RestoreSteps, SnapshotSteps, StartSteps
    <2>4. Decide(obs) = ResolveResumeError(obs) \/ Decide(obs) = FinishColdResume(obs)
      BY <1>5 DEF Decide
    <2>5. Fits(ResolveResumeError(obs)) /\ Fits(FinishColdResume(obs))
      BY <2>2, <2>3, DoneFits DEF ResolveResumeError, FinishColdResume
    <2> QED
      BY <2>4, <2>5
  <1>6. CASE op.pc = "kill_failed"
    <2>1. Fits(Release("stopped", "kill_terminal"))
      BY <1>1, <1>6, CommitFits DEF Allowed, LegalEdges, Published, States, RuntimeUpdates
    <2>2. Decide(obs) = ResolveKillError(obs)
      BY <1>6 DEF Decide
    <2> QED
      BY <2>1, <2>2, DoneFits DEF ResolveKillError
  <1>7. CASE op.pc = "restart_stop_failed"
    <2>1. Fits(ReleaseThen("restart_starting", "restart_advance", "start"))
      BY <1>1, <1>7, DecisionsFit DEF Allowed, LegalEdges, Published, States, RuntimeUpdates
    <2>2. Decide(obs) = ConfirmRestartKill(obs)
      BY <1>7 DEF Decide
    <2> QED
      BY <2>1, <2>2, DoneFits DEF ConfirmRestartKill
  <1> QED
    BY <1>2, <1>3, <1>4, <1>5, <1>6, <1>7 DEF InspectSteps, SnapshotSteps

\* restore_snapshot_source_state publishes the running source again.
LEMMA SnapshotRestoredFits ==
    ASSUME IndInv, op.pc \in RestoreSteps
    PROVE  Fits(SnapshotRestored)
  <1>1. /\ op \in Operation /\ rec.state = "snapshotting" /\ rec.state \in States
        /\ rec.pending.src = "running" /\ op.then.next \in {"idle", "dispatch"}
    BY DEF IndInv, TypeOK, StepFits, Allowed, RestoreSteps, SnapshotSteps
  <1> QED
    BY <1>1, DecisionsFit DEF SnapshotRestored, LegalEdges, Published, States, RuntimeUpdates

LEMMA SnapshotDecisionsFit ==
    ASSUME IndInv, op.pc \in InspectSteps, op.pc \in SnapshotSteps, NEW obs \in Observations
    PROVE  Fits(Decide(obs))
  <1>1. op \in Operation /\ rec.state \in States /\ rec.state = "snapshotting"
    BY DecideContext DEF Steps, InspectSteps
  <1>2. Fits(Goto("snapshot_pause")) /\ Fits(Goto("snapshot_capture"))
    BY <1>1, GotoFits DEF Steps, Allowed, RestoreSteps, SnapshotSteps, StartSteps
  <1>3. CASE op.pc = "snapshot_inspect"
    <2>1. Decide(obs) = SnapshotInspected(obs)
      BY <1>3 DEF Decide
    <2> QED
      BY <1>2, <2>1, DoneFits DEF SnapshotInspected
  <1>4. CASE op.pc = "snapshot_pause_failed"
    BY <1>2, <1>4, DoneFits DEF Decide
  <1>5. CASE op.pc = "snapshot_resume_failed"
    <2>1. Fits(SnapshotRestored)
      BY <1>5, SnapshotRestoredFits DEF RestoreSteps
    <2> QED
      BY <1>5, <2>1, DoneFits DEF Decide
  <1> QED
    BY <1>3, <1>4, <1>5 DEF InspectSteps, SnapshotSteps

LEMMA InspectBackendKeepsInv == IndInv /\ InspectBackend => IndInv'
  <1>1. SUFFICES ASSUME IndInv, InspectBackend PROVE IndInv'
    OBVIOUS
  <1>2. PICK obs \in Observations : InspectSandbox(rec, obs) /\ op' = Decide(obs)
    BY <1>1 DEF InspectBackend
  <1>3. op.pc \in InspectSteps /\ rec' = rec /\ snaps' = snaps
    BY <1>1 DEF InspectBackend
  <1>4. Fits(Decide(obs))
    <2>1. CASE op.pc = "observe"
      BY <1>1, <2>1, ObserveFits DEF Decide
    <2>2. CASE op.pc \in SnapshotSteps
      BY <1>1, <1>3, <2>2, SnapshotDecisionsFit
    <2>3. CASE op.pc # "observe" /\ op.pc \notin SnapshotSteps
      BY <1>1, <1>3, <2>3, ResolveFits
    <2> QED
      BY <2>1, <2>2, <2>3
  <1>5. Fits(op')
    BY <1>2, <1>4
  <1>6. BackendTypeOK'
    BY <1>1, <1>2, InspectSandboxType DEF IndInv, TypeOK
  <1>7. op.pc # "idle" /\ snaps' \subseteq SnapshotIds
    BY <1>1, <1>3 DEF IndInv, TypeOK, InspectSteps
  <1> QED
    BY <1>1, <1>3, <1>5, <1>6, <1>7, KeepRecord

-----------------------------------------------------------------------------
(* The steps of a start and the other backend calls.                       *)

LEMMA StartKeepsInv ==
    IndInv /\ (StartPrepare \/ StartLaunch \/ StartRecord \/ StartReady) => IndInv'
  <1>1. SUFFICES ASSUME IndInv, StartPrepare \/ StartLaunch \/ StartRecord \/ StartReady
                 PROVE  IndInv'
    OBVIOUS
  <1>2. op.pc \in StartSteps /\ op.pc # "start_failed" /\ rec' = rec /\ snaps' = snaps
    BY <1>1 DEF StartPrepare, StartLaunch, StartRecord, StartReady, StartSteps
  <1>3. /\ op \in Operation /\ rec.state \in States
        /\ rec.state \in {"starting", "resuming", "restart_starting"}
    BY <1>1, <1>2, DecideContext DEF Allowed, StartSteps, Steps
  <1>4. op.acquired \in BOOLEAN /\ op.reuse \in BOOLEAN
    BY <1>3 DEF Operation
  <1>5. BackendTypeOK'
    <2>1. BackendTypeOK
      BY <1>1 DEF IndInv, TypeOK
    <2>2. \E ok \in BOOLEAN : PrepareResources(ok) \/ Launch(op.acquired, op.reuse, ok)
             \/ RecordRuntime(op.acquired, op.reuse, ok)
             \/ AwaitReady(op.acquired, op.reuse, ok)
      BY <1>1 DEF StartPrepare, StartLaunch, StartRecord, StartReady
    <2> QED
      BY <1>4, <2>1, <2>2, StartTypes
  <1>6. /\ Fits(Goto("start_failed")) /\ Fits(Goto("record")) /\ Fits(Goto("ready"))
    BY <1>3, GotoFits DEF Steps, InspectSteps, Allowed, RestoreSteps, SnapshotSteps, StartSteps
  <1>7. Fits(op')
    <2>1. CASE StartPrepare
      <3> DEFINE reuse == ShouldReusePreservedRootfs(rec) /\ rootfs
                 o == [op EXCEPT !.pc = "launch", !.acquired = ~attached, !.reuse = reuse]
      <3>1. reuse \in BOOLEAN /\ (~attached) \in BOOLEAN
        BY Zenon
      <3>2. o \in Operation /\ o.pc = "launch" /\ o.req = op.req
        <4> HIDE DEF reuse
        <4> QED
          BY <1>3, <3>1 DEF Operation, Steps
      <3>3. Fits(o)
        BY <1>3, <3>2 DEF Fits, StepFits, Allowed, RestoreSteps, SnapshotSteps, StartSteps
      <3>4. op' = o \/ op' = Goto("start_failed")
        BY <2>1 DEF StartPrepare, AfterStart
      <3> QED
        BY <1>6, <3>3, <3>4
    <2>2. CASE StartLaunch
      BY <1>6, <2>2 DEF StartLaunch, AfterStart
    <2>3. CASE StartRecord
      BY <1>6, <2>3 DEF StartRecord, AfterStart
    <2>4. CASE StartReady
      <3>1. /\ rec.state = "restart_starting" => Fits(Commit("running", "restart_handle"))
            /\ rec.state # "restart_starting" => Fits(Commit("running", "start_handle"))
        BY <1>3, CommitFits DEF LegalEdges, Published, States, RuntimeUpdates
      <3> QED
        BY <1>6, <2>4, <3>1 DEF StartReady, AfterStart
    <2> QED
      BY <1>1, <2>1, <2>2, <2>3, <2>4
  <1>8. op.pc # "idle" /\ snaps' \subseteq SnapshotIds
    BY <1>1, <1>2 DEF IndInv, TypeOK, StartSteps
  <1> QED
    BY <1>1, <1>2, <1>5, <1>7, <1>8, KeepRecord

\* A backend call leads to its error handler or to the step that follows it.
LEMMA CallKeepsInv ==
    ASSUME IndInv, op.pc # "idle", rec' = rec, snaps' = snaps, BackendTypeOK',
           NEW failed \in Steps, NEW finished, NEW result,
           op' = AfterCall(result, failed, finished),
           Fits(Goto(failed)), Fits(finished)
    PROVE  IndInv'
  <1>1. Fits(op')
    BY DEF AfterCall
  <1>2. snaps' \subseteq SnapshotIds
    BY DEF IndInv, TypeOK
  <1> QED
    BY <1>1, <1>2, KeepRecord

LEMMA CallsKeepInv ==
    IndInv /\ (PauseRuntime \/ ResumeRuntime \/ ColdPause \/ FinishKill
                 \/ FinishRestartStop \/ PauseForSnapshot \/ RestoreSnapshotSource)
      => IndInv'
  <1> USE DEF RestoreSteps, SnapshotSteps, StartSteps
  <1>1. SUFFICES ASSUME IndInv PROVE (PauseRuntime \/ ResumeRuntime \/ ColdPause
                   \/ FinishKill \/ FinishRestartStop \/ PauseForSnapshot
                   \/ RestoreSnapshotSource) => IndInv'
    OBVIOUS
  <1>2. BackendTypeOK /\ op \in Operation
    BY <1>1 DEF IndInv, TypeOK
  <1>3. ASSUME PauseRuntime PROVE IndInv'
    <2>1. op.pc = "pause" /\ rec.state = "pausing" /\ rec.state \in States
      BY <1>1, <1>3, DecideContext DEF PauseRuntime, Allowed, Steps
    <2>2. Fits(Goto("pause_failed")) /\ Fits(Commit("paused", "handle"))
      BY <1>2, <2>1, GotoFits, CommitFits
         DEF Steps, InspectSteps, Allowed, LegalEdges, Published, States, RuntimeUpdates
    <2>3. PICK result \in Results : TransitionSandbox("paused", result)
             /\ op' = AfterCall(result, "pause_failed", Commit("paused", "handle"))
      BY <1>3 DEF PauseRuntime
    <2>4. BackendTypeOK' /\ rec' = rec /\ snaps' = snaps
      BY <1>2, <1>3, <2>3, TransitionSandboxType DEF PauseRuntime
    <2> QED
      BY <1>1, <2>1, <2>2, <2>3, <2>4, CallKeepsInv DEF Steps, InspectSteps
  <1>4. ASSUME ResumeRuntime PROVE IndInv'
    <2>1. op.pc = "resume" /\ rec.state = "resuming" /\ rec.state \in States
      BY <1>1, <1>4, DecideContext DEF ResumeRuntime, Allowed, Steps
    <2>2. Fits(Goto("resume_failed")) /\ Fits(Commit("running", "handle"))
      BY <1>2, <2>1, GotoFits, CommitFits
         DEF Steps, InspectSteps, Allowed, LegalEdges, Published, States, RuntimeUpdates
    <2>3. PICK result \in Results : TransitionSandbox("running", result)
             /\ op' = AfterCall(result, "resume_failed", Commit("running", "handle"))
      BY <1>4 DEF ResumeRuntime
    <2>4. BackendTypeOK' /\ rec' = rec /\ snaps' = snaps
      BY <1>2, <1>4, <2>3, TransitionSandboxType DEF ResumeRuntime
    <2> QED
      BY <1>1, <2>1, <2>2, <2>3, <2>4, CallKeepsInv DEF Steps, InspectSteps
  <1>5. ASSUME ColdPause PROVE IndInv'
    <2>1. op.pc = "cold_pause" /\ rec.state = "pausing" /\ rec.state \in States
      BY <1>1, <1>5, DecideContext DEF ColdPause, Allowed, Steps
    <2>2. Fits(Goto("cold_pause_failed")) /\ Fits(Release("paused", "cold_pause"))
      BY <1>2, <2>1, GotoFits, CommitFits
         DEF Steps, InspectSteps, Allowed, LegalEdges, Published, States, RuntimeUpdates
    <2>3. PICK result \in Results : StopForRestart(rec, result)
             /\ op' = AfterCall(result, "cold_pause_failed", Release("paused", "cold_pause"))
      BY <1>5 DEF ColdPause
    <2>4. BackendTypeOK' /\ rec' = rec /\ snaps' = snaps
      BY <1>2, <1>5, <2>3, StopForRestartType DEF ColdPause
    <2> QED
      BY <1>1, <2>1, <2>2, <2>3, <2>4, CallKeepsInv DEF Steps, InspectSteps
  <1>6. ASSUME FinishKill PROVE IndInv'
    <2>1. op.pc = "kill" /\ rec.state = "killing" /\ rec.state \in States
      BY <1>1, <1>6, DecideContext DEF FinishKill, Allowed, Steps
    <2>2. Fits(Goto("kill_failed")) /\ Fits(Release("stopped", "kill_terminal"))
      BY <1>2, <2>1, GotoFits, CommitFits
         DEF Steps, InspectSteps, Allowed, LegalEdges, Published, States, RuntimeUpdates
    <2>3. PICK result \in Results : KillRuntime(rec, result)
             /\ op' = AfterCall(result, "kill_failed", Release("stopped", "kill_terminal"))
      BY <1>6 DEF FinishKill
    <2>4. BackendTypeOK' /\ rec' = rec /\ snaps' = snaps
      BY <1>2, <1>6, <2>3, KillRuntimeType DEF FinishKill
    <2> QED
      BY <1>1, <2>1, <2>2, <2>3, <2>4, CallKeepsInv DEF Steps, InspectSteps
  <1>7. ASSUME FinishRestartStop PROVE IndInv'
    <2> DEFINE advance == ReleaseThen("restart_starting", "restart_advance", "start")
    <2>1. op.pc = "restart_stop" /\ rec.state = "restart_stopping" /\ rec.state \in States
      BY <1>1, <1>7, DecideContext DEF FinishRestartStop, Allowed, Steps
    <2>2. Fits(Goto("restart_stop_failed")) /\ Fits(advance)
      BY <1>2, <2>1, GotoFits, DecisionsFit
         DEF Steps, InspectSteps, Allowed, LegalEdges, Published, States, RuntimeUpdates
    <2>3. PICK result \in Results : StopForRestart(rec, result)
             /\ op' = AfterCall(result, "restart_stop_failed", advance)
      BY <1>7 DEF FinishRestartStop
    <2>4. BackendTypeOK' /\ rec' = rec /\ snaps' = snaps
      BY <1>2, <1>7, <2>3, StopForRestartType DEF FinishRestartStop
    <2> QED
      BY <1>1, <2>1, <2>2, <2>3, <2>4, CallKeepsInv DEF Steps, InspectSteps
  <1>8. ASSUME PauseForSnapshot PROVE IndInv'
    <2>1. op.pc = "snapshot_pause" /\ rec.state = "snapshotting" /\ rec.state \in States
      BY <1>1, <1>8, DecideContext DEF PauseForSnapshot, Allowed, Steps
    <2>2. Fits(Goto("snapshot_pause_failed")) /\ Fits(Goto("snapshot_capture"))
      BY <1>2, <2>1, GotoFits DEF Steps, InspectSteps, Allowed
    <2>3. PICK result \in Results : TransitionSandbox("paused", result)
             /\ op' = AfterCall(result, "snapshot_pause_failed", Goto("snapshot_capture"))
      BY <1>8 DEF PauseForSnapshot
    <2>4. BackendTypeOK' /\ rec' = rec /\ snaps' = snaps
      BY <1>2, <1>8, <2>3, TransitionSandboxType DEF PauseForSnapshot
    <2> QED
      BY <1>1, <2>1, <2>2, <2>3, <2>4, CallKeepsInv DEF Steps, InspectSteps
  <1>9. ASSUME RestoreSnapshotSource PROVE IndInv'
    <2>1. op.pc = "snapshot_resume" /\ rec.state = "snapshotting" /\ rec.state \in States
      BY <1>1, <1>9, DecideContext DEF RestoreSnapshotSource, Allowed, Steps
    <2>2. Fits(SnapshotRestored)
      BY <1>1, <2>1, SnapshotRestoredFits
    <2>3. Fits(Goto("snapshot_resume_failed"))
      <3>1. rec.pending.src = "running" /\ op.then.next \in {"idle", "dispatch"}
        BY <1>1, <2>1 DEF IndInv, StepFits
      <3> QED
        BY <1>2, <2>1, <3>1, GotoType DEF Fits, StepFits, Allowed, Steps, InspectSteps
    <2>4. PICK result \in Results : TransitionSandbox("running", result)
             /\ op' = AfterCall(result, "snapshot_resume_failed", SnapshotRestored)
      BY <1>9 DEF RestoreSnapshotSource
    <2>5. BackendTypeOK' /\ rec' = rec /\ snaps' = snaps
      BY <1>2, <1>9, <2>4, TransitionSandboxType DEF RestoreSnapshotSource
    <2> QED
      BY <1>1, <2>1, <2>2, <2>3, <2>4, <2>5, CallKeepsInv DEF Steps, InspectSteps
  <1> QED
    BY <1>3, <1>4, <1>5, <1>6, <1>7, <1>8, <1>9

-----------------------------------------------------------------------------
(* Capturing, releasing and removing.                                      *)

LEMMA AfterCaptureFits ==
    ASSUME IndInv, op.pc = "snapshot_capture", NEW captured \in BOOLEAN
    PROVE  Fits(AfterCapture(captured))
  <1>1. /\ op \in Operation /\ rec.state \in States /\ rec.state = "snapshotting"
        /\ rec.pending.src \in {"running", "paused"}
    BY DecideContext DEF Steps, SnapshotSteps, SnapshotSources
  <1> DEFINE next == IF captured /\ op.req.name \notin {"snapshot", "reconcile"}
                     THEN "dispatch" ELSE "idle"
             o == [op EXCEPT !.pc = "snapshot_resume", !.then.next = next]
  <1>2. next \in {"idle", "dispatch"}
    OBVIOUS
  <1> HIDE DEF next
  <1>3. CASE rec.pending.src = "running"
    <2>1. /\ o \in Operation /\ o.pc = "snapshot_resume" /\ o.req = op.req
          /\ o.then.next = next
      BY <1>1, <1>2 DEF Operation, Decisions, Steps
    <2>2. Fits(o)
      BY <1>1, <1>2, <1>3, <2>1
         DEF Fits, StepFits, Allowed, RestoreSteps, SnapshotSteps, StartSteps
    <2>3. AfterCapture(captured) = o
      BY <1>3 DEF AfterCapture, next
    <2> QED
      BY <2>2, <2>3
  <1>4. CASE rec.pending.src = "paused"
    <2>1. Fits(CommitThen("paused", "handle", next)) /\ Fits(CommitThen("paused", "none", next))
      BY <1>1, <1>2, <1>4, DecisionsFit DEF LegalEdges, Published, States, RuntimeUpdates
    <2>2. \/ AfterCapture(captured) = CommitThen("paused", "handle", next)
          \/ AfterCapture(captured) = CommitThen("paused", "none", next)
      BY <1>4 DEF AfterCapture, next
    <2> QED
      BY <2>1, <2>2
  <1> QED
    BY <1>1, <1>3, <1>4

LEMMA CaptureKeepsInv == IndInv /\ CaptureSnapshot => IndInv'
  <1>1. SUFFICES ASSUME IndInv, CaptureSnapshot PROVE IndInv'
    OBVIOUS
  <1>2. op.pc = "snapshot_capture" /\ rec' = rec /\ rec.pending.snap \in SnapshotIds
    BY <1>1, DecideContext DEF CaptureSnapshot, Steps, SnapshotSteps
  <1>3. Fits(op')
    BY <1>1, <1>2, AfterCaptureFits, DoneFits DEF CaptureSnapshot
  <1>4. snaps' \subseteq SnapshotIds
    BY <1>1, <1>2 DEF CaptureSnapshot, IndInv, TypeOK
  <1>5. BackendTypeOK'
    <2>1. BackendTypeOK
      BY <1>1 DEF IndInv, TypeOK
    <2>2. (Fault("error") \/ NoFault \/ UNCHANGED faults)
          /\ UNCHANGED <<crun, runtimeJson, owner, rootfs, attached, freezeFailed>>
      BY <1>1 DEF CaptureSnapshot
    <2> QED
      BY <2>1, <2>2, FaultType, BackendParts DEF Values, Flags
  <1> QED
    BY <1>1, <1>2, <1>3, <1>4, <1>5, KeepRecord

LEMMA ReleaseKeepsInv == IndInv /\ (ReleaseStep \/ RemoveRelease \/ RemoveCleanup) => IndInv'
  <1>1. SUFFICES ASSUME IndInv, ReleaseStep \/ RemoveRelease \/ RemoveCleanup PROVE IndInv'
    OBVIOUS
  <1>2. op.pc \in {"release", "remove_release", "remove_cleanup"} /\ rec' = rec /\ snaps' = snaps
    BY <1>1 DEF ReleaseStep, RemoveRelease, RemoveCleanup
  <1>3. op \in Operation /\ rec.state \in States /\ Allowed(op.pc, rec.state)
    BY <1>1, <1>2, DecideContext DEF Steps
  <1>4. BackendTypeOK' /\ snaps' \subseteq SnapshotIds
    BY <1>1, <1>2, ReleaseTypes DEF IndInv, TypeOK, ReleaseStep, RemoveRelease, RemoveCleanup
  <1>5. Fits(op')
    <2>1. CASE ReleaseStep
      <3>1. Goto("commit") \in Operation /\ Goto("commit").pc = "commit"
            /\ Goto("commit").req = op.req /\ Goto("commit").then = op.then
        BY <1>3, GotoType DEF Steps
      <3>2. DecisionFits(rec, op)
        BY <1>1, <2>1 DEF ReleaseStep, IndInv, StepFits
      <3>3. Fits(Goto("commit"))
        BY <1>3, <3>1, <3>2 DEF Fits, StepFits, DecisionFits, Allowed, RestoreSteps,
                                SnapshotSteps, StartSteps
      <3> QED
        BY <2>1, <3>3, DoneFits DEF ReleaseStep
    <2>2. CASE RemoveRelease \/ RemoveCleanup
      <3>1. rec.state = "removing"
        BY <1>3, <2>2 DEF RemoveRelease, RemoveCleanup, Allowed
      <3>2. Fits(Goto("remove_cleanup")) /\ Fits(Goto("remove_forget"))
        BY <1>3, <3>1, GotoFits DEF Allowed, Steps, RestoreSteps, SnapshotSteps, StartSteps
      <3> QED
        BY <2>2, <3>2, DoneFits DEF RemoveRelease, RemoveCleanup
    <2> QED
      BY <1>1, <2>1, <2>2
  <1> QED
    BY <1>1, <1>2, <1>4, <1>5, KeepRecord

LEMMA ForgetKeepsInv == IndInv /\ RemoveForget => IndInv'
  <1>1. SUFFICES ASSUME IndInv, RemoveForget PROVE IndInv'
    OBVIOUS
  <1>2. BackendTypeOK' /\ snaps' \subseteq SnapshotIds
    <2>1. BackendTypeOK
      BY <1>1 DEF IndInv, TypeOK
    <2>2. (Fault("error") \/ NoFault)
          /\ UNCHANGED <<snaps, crun, runtimeJson, owner, rootfs, attached, freezeFailed>>
      BY <1>1 DEF RemoveForget
    <2> QED
      BY <1>1, <2>1, <2>2, FaultType, BackendParts DEF Values, Flags, IndInv, TypeOK
  <1>3. CASE op' = Done /\ rec' = rec
    BY <1>1, <1>2, <1>3, DoneFits, KeepRecord DEF RemoveForget
  <1>4. CASE op' = Done /\ rec' = FinishRemove
    <2>1. rec' \in Records /\ rec'.state = "removed"
      BY <1>4, IntentTypes, GenerationFacts
         DEF FinishRemove, NewRecord, Records, Vacant, Completions, NoRestart
    <2>2. RecordReadable'
      BY <2>1 DEF RecordReadable, States
    <2>3. StepFits(rec', op') /\ HasRoom(rec', op') /\ op' \in Operation
      BY <1>4, <2>1, IdleType DEF StepFits, HasRoom, Allowed, RestoreSteps, SnapshotSteps, StartSteps
    <2> QED
      BY <1>2, <2>1, <2>2, <2>3 DEF IndInv, TypeOK
  <1> QED
    BY <1>1, <1>3, <1>4 DEF RemoveForget, Refuse

-----------------------------------------------------------------------------
(* Publishing a decision.                                                  *)

\* The decision of an operation at its commit is one transition_with accepts.
LEMMA DecisionIsLegal ==
    ASSUME IndInv, op.pc = "commit"
    PROVE  CanTransition(rec, op.then.to, rec.pending)
  <1>1. DecisionFits(rec, op) /\ rec \in Records /\ rec.state \in States
    BY DEF IndInv, TypeOK, StepFits, Allowed
  <1>2. ValidPendingOperation(rec) /\ HasRoom(rec, op)
    BY <1>1 DEF IndInv, RecordReadable, Readable
  <1>3. TransitionGeneration(rec.state, op.then.to, rec.gen) \in Generations
    <2>1. rec.gen \in Generations
      BY <1>1 DEF Records
    <2>2. <<rec.state, op.then.to>> \in BumpEdges => rec.gen < MaxGeneration
      BY <1>2 DEF BumpEdges, HasRoom
    <2> QED
      BY <2>1, <2>2, GenerationFacts DEF TransitionGeneration
  <1>4. /\ op.then.to # "snapshotting" /\ op.then.to # "restart_stopping"
        /\ op.then.to = "restart_starting" => rec.state = "restart_stopping"
        /\ <<rec.state, op.then.to>> \in LegalEdges
    BY <1>1 DEF DecisionFits, Published, LegalEdges
  <1>5. rec.state \in {"restart_stopping", "restart_starting"} => rec.pending.kind = "restart"
    BY <1>2 DEF ValidPendingOperation, PendingKind
  <1> QED
    BY <1>3, <1>4, <1>5 DEF CanTransition

LEMMA CommitKeepsInv == IndInv /\ CommitStep => IndInv'
  <1>1. SUFFICES ASSUME IndInv, CommitStep PROVE IndInv'
    OBVIOUS
  <1>2. /\ op.pc = "commit" /\ op \in Operation /\ rec \in Records
        /\ rec.state \in States /\ DecisionFits(rec, op)
    BY <1>1 DEF CommitStep, IndInv, TypeOK, StepFits, Allowed
  <1>3. BackendTypeOK' /\ snaps' \subseteq SnapshotIds
    <2>1. BackendTypeOK
      BY <1>1 DEF IndInv, TypeOK
    <2>2. (Fault("error") \/ NoFault)
          /\ UNCHANGED <<snaps, crun, runtimeJson, owner, rootfs, attached, freezeFailed>>
      BY <1>1 DEF CommitStep
    <2> QED
      BY <1>1, <2>1, <2>2, FaultType, BackendParts DEF Values, Flags, IndInv, TypeOK
  <1>4. CASE Refuse
    BY <1>1, <1>2, <1>3, <1>4, DoneFits, KeepRecord DEF Refuse
  <1>5. CASE /\ CanTransition(rec, op.then.to, rec.pending)
             /\ rec' = TransitionWith(rec, op.then.to, op.then.upd, rec.pending)
             /\ op' = IF op.then.next = "idle" THEN Done
                      ELSE [op EXCEPT !.pc = op.then.next, !.then = NoDecision]
    <2>1. /\ op.then.to \in States /\ op.then.upd \in RuntimeUpdates
          /\ op.then.next \in {"idle", "dispatch", "claim_start", "start"}
          /\ rec.pending \in Operations /\ rec.gen \in Generations
      BY <1>2 DEF Operation, Decisions, Records
    <2>2. /\ op.then.to \in Published
          /\ op.then.to # "restart_stopping" /\ op.then.to # "snapshotting"
          /\ op.then.upd = "cold_pause" => op.then.to = "paused"
          /\ op.then.upd = "none" => op.then.to = "paused" \/ rec.state \in {"starting", "pausing"}
      BY <1>2 DEF DecisionFits, Published
    <2>3. /\ rec' \in Records /\ RecordReadable'
          /\ rec'.state = op.then.to
          /\ rec'.gen = TransitionGeneration(rec.state, op.then.to, rec.gen)
      BY <1>1, <1>2, <1>5, <2>1, <2>2, TransitionKeepsRecords
    <2>4. CASE op.then.next = "idle"
      <3>1. op' = Idle /\ op' \in Operation /\ op'.pc = "idle"
        BY <1>5, <2>4, IdleType
      <3>2. StepFits(rec', op')
        BY <3>1 DEF StepFits, Allowed, RestoreSteps, SnapshotSteps, StartSteps
      <3>3. HasRoom(rec', op')
        BY <2>2, <2>3, <3>1 DEF HasRoom, Published
      <3> QED
        BY <1>3, <2>3, <3>1, <3>2, <3>3 DEF IndInv, TypeOK
    <2>5. CASE op.then.next # "idle"
      <3>1. /\ op' \in Operation /\ op'.pc = op.then.next /\ op'.req = op.req
        <4>1. op' = [op EXCEPT !.pc = op.then.next, !.then = NoDecision]
          BY <1>5, <2>5
        <4>2. op.then.next \in Steps /\ NoDecision \in Decisions
          BY <2>1 DEF Steps, NoDecision, Decisions, States, RuntimeUpdates
        <4> QED
          BY <1>2, <4>1, <4>2 DEF Operation
      <3>2. StepFits(rec', op')
        <4>1. op.then.next = "claim_start" => rec'.state = "created"
          BY <1>2, <2>3 DEF DecisionFits
        <4>2. op.then.next = "start" => rec'.state = "restart_starting"
          BY <1>2, <2>3 DEF DecisionFits
        <4> QED
          BY <2>1, <2>3, <2>5, <3>1, <4>1, <4>2
             DEF StepFits, Allowed, RestoreSteps, SnapshotSteps, StartSteps
      <3>3. HasRoom(rec', op')
        <4>1. op.then.next = "dispatch" => rec.state = "snapshotting" /\ rec'.gen = rec.gen
          BY <1>2, <2>3 DEF DecisionFits, TransitionGeneration, BumpEdges
        <4>2. rec'.state \in Published
          BY <2>2, <2>3
        <4> QED
          BY <1>1, <1>2, <2>1, <2>5, <3>1, <4>1, <4>2 DEF IndInv, HasRoom, Published
      <3> QED
        BY <1>3, <2>3, <3>1, <3>2, <3>3 DEF IndInv, TypeOK
    <2> QED
      BY <2>4, <2>5
  <1> QED
    BY <1>1, <1>4, <1>5 DEF CommitStep

-----------------------------------------------------------------------------
(* Creating, acquiring the lock, the environment.                          *)

LEMMA EnvironmentKeepsInv ==
    ASSUME IndInv, Create \/ (\E req \in Requests : Acquire(req))
                     \/ DeleteSnapshot \/ Crash \/ RuntimeExit
    PROVE  IndInv'
  <1>0. /\ rec \in Records /\ op \in Operation /\ snaps \subseteq SnapshotIds
        /\ BackendTypeOK /\ RecordReadable /\ StepFits(rec, op) /\ HasRoom(rec, op)
    BY DEF IndInv, TypeOK
  <1>1. CASE Create
    <2>1. rec' = NewRecord("created") /\ op' = op /\ snaps' = snaps /\ rec.state = "absent"
      BY <1>1 DEF Create
    <2>2. rec' \in Records /\ rec'.state = "created" /\ RecordReadable'
      BY <2>1, IntentTypes, GenerationFacts
         DEF NewRecord, Records, Completions, NoRestart, RecordReadable, Readable, States, ColdMarker,
             ValidColdPause, ValidPendingOperation, ValidMetadata, PendingKind, NoOperation, Intent
    <2>3. op.pc = "idle"
      BY <1>0, <2>1 DEF StepFits, Allowed, States
    <2>4. StepFits(rec', op') /\ HasRoom(rec', op')
      BY <2>1, <2>2, <2>3 DEF StepFits, HasRoom, Allowed, RestoreSteps, SnapshotSteps, StartSteps
    <2>5. BackendTypeOK'
      BY <1>0, <1>1 DEF Create, BackendTypeOK, backendVars
    <2> QED
      BY <1>0, <2>1, <2>2, <2>4, <2>5 DEF IndInv, TypeOK
  <1>2. ASSUME NEW req \in Requests, Acquire(req) PROVE IndInv'
    <2>1. /\ rec' = rec /\ op' = NewOperation(req) /\ snaps' = snaps /\ op.pc = "idle"
          /\ rec.state \in States
          /\ req.name \in {"pause", "resume", "restart"} => rec.gen < MaxGeneration
      BY <1>0, <1>2 DEF Acquire, Records
    <2>2. op' \in Operation /\ op'.pc = "dispatch" /\ op'.req = req
      BY <2>1, NewOperationType
    <2>3. StepFits(rec', op')
      BY <2>1, <2>2 DEF StepFits, Allowed, RestoreSteps, SnapshotSteps, StartSteps
    <2>4. HasRoom(rec', op')
      BY <1>0, <2>1, <2>2 DEF HasRoom
    <2>5. BackendTypeOK'
      BY <1>0, <1>2 DEF Acquire, BackendTypeOK, backendVars
    <2>6. RecordReadable'
      BY <1>0, <2>1 DEF RecordReadable
    <2> QED
      BY <1>0, <2>1, <2>2, <2>3, <2>4, <2>5, <2>6 DEF IndInv, TypeOK
  <1>3. CASE DeleteSnapshot \/ RuntimeExit
    <2>1. rec' = rec /\ op' = op /\ snaps' \subseteq SnapshotIds
      BY <1>0, <1>3 DEF DeleteSnapshot, RuntimeExit
    <2>2. BackendTypeOK'
      BY <1>0, <1>3 DEF DeleteSnapshot, RuntimeExit, BackendTypeOK, backendVars
    <2>3. RecordReadable' /\ StepFits(rec', op') /\ HasRoom(rec', op')
      BY <1>0, <2>1 DEF RecordReadable
    <2> QED
      BY <1>0, <2>1, <2>2, <2>3 DEF IndInv, TypeOK
  <1>4. CASE Crash
    <2>1. rec' = rec /\ op' = Idle /\ snaps' = snaps /\ op' \in Operation /\ op'.pc = "idle"
      BY <1>4, IdleType DEF Crash
    <2>2. BackendTypeOK'
      BY <1>0, <1>4, FaultType, BackendParts DEF Crash, Values, Flags
    <2>3. StepFits(rec', op') /\ HasRoom(rec', op')
      BY <1>0, <2>1 DEF StepFits, HasRoom, Allowed, RestoreSteps, SnapshotSteps, StartSteps
    <2>4. RecordReadable'
      BY <1>0, <2>1 DEF RecordReadable
    <2> QED
      BY <1>0, <2>1, <2>2, <2>3, <2>4 DEF IndInv, TypeOK
  <1> QED
    BY <1>1, <1>2, <1>3, <1>4

-----------------------------------------------------------------------------
(* Dispatching a request.                                                  *)

\* Going on without a claim, or refusing, from the dispatch.
LEMMA DispatchContinues ==
    ASSUME IndInv, op.pc = "dispatch", UNCHANGED <<snaps, backendVars>>, rec' = rec, Fits(op')
    PROVE  IndInv'
  <1>1. BackendTypeOK' /\ snaps' \subseteq SnapshotIds
    BY DEF IndInv, TypeOK, BackendTypeOK, backendVars
  <1> QED
    BY <1>1, KeepRecord

LEMMA RefuseFits == Refuse => Fits(op') /\ rec' = rec
  BY DoneFits DEF Refuse

LEMMA ContinueFits ==
    ASSUME IndInv, NEW pc \in Steps, Allowed(pc, rec.state), Continue(pc),
           pc \notin {"dispatch", "release", "commit"} \cup RestoreSteps
    PROVE  Fits(op') /\ rec' = rec
  BY GotoFits DEF Continue, IndInv, TypeOK

LEMMA DriveSnapshotFits ==
    ASSUME IndInv, rec.state = "snapshotting", DriveSnapshot
    PROVE  Fits(op') /\ rec' = rec
  <1>1. \A pc \in {"snapshot_capture", "snapshot_inspect"} :
            /\ pc \in Steps /\ Allowed(pc, rec.state)
            /\ pc \notin {"dispatch", "release", "commit"} \cup RestoreSteps
    BY DEF Steps, InspectSteps, Allowed, States, RestoreSteps, SnapshotSteps, StartSteps
  <1>2. Continue("snapshot_capture") \/ Continue("snapshot_inspect")
    BY DEF DriveSnapshot
  <1> QED
    BY <1>1, <1>2, ContinueFits

LEMMA ObserveRecordFits ==
    ASSUME IndInv, rec.state \in States, ObserveRecord
    PROVE  Fits(op') /\ rec' = rec
  <1>1. CASE Refuse
    BY <1>1, RefuseFits
  <1>2. CASE rec.state = "pausing" /\ Continue("cold_pause")
    BY <1>2, ContinueFits DEF Steps, Allowed, States, RestoreSteps, SnapshotSteps, StartSteps
  <1>3. CASE rec.state = "resuming" /\ Continue("cold_resume")
    BY <1>3, ContinueFits
       DEF Steps, InspectSteps, Allowed, States, RestoreSteps, SnapshotSteps, StartSteps
  <1>4. CASE rec.state \in ObservedStates /\ Continue("observe")
    BY <1>4, ContinueFits
       DEF Steps, InspectSteps, Allowed, States, RestoreSteps, SnapshotSteps, StartSteps
  <1> QED
    BY <1>1, <1>2, <1>3, <1>4 DEF ObserveRecord, ObservedStates

\* continue_restart of a restart that was claimed before.
LEMMA ContinueRestartFits ==
    ASSUME IndInv, rec.state \in {"restart_stopping", "restart_starting"},
           op' = ContinueRestart(rec)
    PROVE  Fits(op')
  <1>1. op \in Operation /\ rec.state \in States
    BY DEF IndInv, TypeOK, States
  <1>2. rec.state = "restart_starting" => Fits(Goto("start"))
    BY <1>1, GotoFits DEF Steps, Allowed, States, RestoreSteps, SnapshotSteps, StartSteps
  <1>3. rec.state = "restart_stopping" =>
            Fits(Goto("restart_stop"))
              /\ Fits(ReleaseThen("restart_starting", "restart_advance", "start"))
    BY <1>1, GotoFits, DecisionsFit DEF Steps, Allowed, LegalEdges, Published, States,
         RuntimeUpdates, RestoreSteps, SnapshotSteps, StartSteps
  <1> QED
    BY <1>2, <1>3 DEF ContinueRestart

\* restart_record claims the restart and goes on with it.
LEMMA ClaimRestartKeepsInv ==
    ASSUME IndInv, op.pc = "dispatch", op.req.name = "restart", rec.state \in RestartSources,
           NEW intent, intent = [kind |-> "restart", id |-> op.req.id, srcGen |-> rec.gen,
                                 src |-> rec.state, opts |-> op.req.opts],
           CanTransition(rec, "restart_stopping", intent),
           rec' = TransitionWith(rec, "restart_stopping", "none", intent),
           op' = ContinueRestart(rec'),
           UNCHANGED <<snaps, backendVars>>
    PROVE  IndInv'
  <1>1. /\ op \in Operation /\ rec \in Records /\ rec.state \in States
        /\ op.req \in Requests /\ rec.gen \in Generations
    BY DEF IndInv, TypeOK, Operation, Records, RestartSources, States
  <1>2. intent \in Operations /\ intent.srcGen = rec.gen /\ intent.src = rec.state
    BY <1>1, RequestFields DEF Operations
  <1>3. /\ "restart_stopping" \in States /\ "none" \in RuntimeUpdates
        /\ "restart_stopping" \notin Published
    BY DEF States, RuntimeUpdates, Published
  <1>4. /\ rec' \in Records /\ RecordReadable'
        /\ rec'.state = "restart_stopping"
        /\ rec'.gen = TransitionGeneration(rec.state, "restart_stopping", rec.gen)
    BY <1>1, <1>2, <1>3, TransitionKeepsRecords
  <1>5. rec'.gen = rec.gen /\ rec.gen < MaxGeneration
    BY <1>4 DEF TransitionGeneration, BumpEdges, IndInv, HasRoom
  <1>6. \/ op' = Goto("restart_stop")
        \/ op' = ReleaseThen("restart_starting", "restart_advance", "start")
    BY <1>4 DEF ContinueRestart
  <1>7. /\ op' \in Operation /\ op'.req = op.req
        /\ \/ op'.pc = "restart_stop"
           \/ /\ op'.pc = "release" /\ op'.then.to = "restart_starting"
              /\ op'.then.upd = "restart_advance" /\ op'.then.next = "start"
    <2>1. CASE op' = Goto("restart_stop")
      BY <1>1, <2>1, GotoType DEF Steps
    <2>2. CASE op' = ReleaseThen("restart_starting", "restart_advance", "start")
      <3> DEFINE o == ReleaseThen("restart_starting", "restart_advance", "start")
      <3>1. "restart_starting" \in States /\ "restart_advance" \in RuntimeUpdates
        BY DEF States, RuntimeUpdates
      <3>2. /\ o \in Operation /\ o.pc = "release" /\ o.req = op.req
            /\ o.then.to = "restart_starting" /\ o.then.upd = "restart_advance"
            /\ o.then.next = "start"
        BY <1>1, <3>1, CommitThenType
      <3> QED
        BY <2>2, <3>2
    <2> QED
      BY <1>6, <2>1, <2>2
  <1>8. StepFits(rec', op')
    BY <1>3, <1>4, <1>7 DEF StepFits, Allowed, DecisionFits, LegalEdges, Published, RestoreSteps,
                            SnapshotSteps, StartSteps
  <1>9. HasRoom(rec', op')
    BY <1>4, <1>5 DEF HasRoom
  <1>10. BackendTypeOK' /\ snaps' \subseteq SnapshotIds
    BY DEF IndInv, TypeOK, BackendTypeOK, backendVars
  <1> QED
    BY <1>4, <1>7, <1>8, <1>9, <1>10 DEF IndInv, TypeOK

\* begin_remove claims the removal.
LEMMA BeginRemoveKeepsInv ==
    ASSUME IndInv, op.pc = "dispatch", CanBeginRemove(rec), rec' = BeginRemove(rec),
           op' = Goto("remove_release"), UNCHANGED <<snaps, backendVars>>
    PROVE  IndInv'
  <1>1. op \in Operation /\ rec \in Records /\ rec.state \in States /\ RecordReadable
    BY DEF IndInv, TypeOK, CanBeginRemove, States
  <1>2. /\ rec' \in Records /\ rec'.state = "removing" /\ rec'.pending = Intent("remove")
        /\ rec'.last = rec.last /\ rec'.warm = rec.warm
    BY <1>1, IntentTypes DEF BeginRemove, Records, States
  <1>3. RecordReadable'
    <2>1. rec.warm
      BY <1>1 DEF CanBeginRemove, RecordReadable, Readable, ColdMarker
    <2>2. ValidColdPause(rec') /\ ColdMarker(rec')
      BY <1>2, <2>1 DEF ValidColdPause, ColdMarker
    <2> QED
      BY <1>1, <1>2, <2>2
         DEF RecordReadable, Readable, ValidPendingOperation, ValidMetadata, PendingKind, Intent
  <1>4. op' \in Operation /\ op'.pc = "remove_release"
    BY <1>1, GotoType DEF Steps
  <1>5. StepFits(rec', op') /\ HasRoom(rec', op')
    BY <1>2, <1>4 DEF StepFits, HasRoom, Allowed, States, RestoreSteps, SnapshotSteps, StartSteps
  <1>6. BackendTypeOK' /\ snaps' \subseteq SnapshotIds
    BY DEF IndInv, TypeOK, BackendTypeOK, backendVars
  <1> QED
    BY <1>2, <1>3, <1>4, <1>5, <1>6 DEF IndInv, TypeOK

LEMMA DispatchKeepsInv == IndInv /\ Dispatch => IndInv'
  <1> USE DEF RestoreSteps, SnapshotSteps, StartSteps
  <1>1. SUFFICES ASSUME IndInv, Dispatch PROVE IndInv'
    OBVIOUS
  <1>2. /\ op.pc = "dispatch" /\ op.pc # "idle" /\ UNCHANGED <<snaps, backendVars>>
        /\ rec.state \in States /\ op.req \in Requests
        /\ op.req.name \in {"pause", "resume", "restart"} => rec.gen < MaxGeneration
    BY <1>1 DEF Dispatch, IndInv, StepFits, Allowed, HasRoom, TypeOK, Operation
  <1>3. CASE Fits(op') /\ rec' = rec
    BY <1>1, <1>2, <1>3, DispatchContinues
  <1>4. CASE Refuse
    BY <1>3, <1>4, RefuseFits
  <1>5. CASE rec.state = "snapshotting" /\ DriveSnapshot
    BY <1>1, <1>3, <1>5, DriveSnapshotFits
  <1>6. CASE DispatchStart
    <2>1. CASE Claim("starting", NoOperation, "start")
      BY <1>1, <1>2, <2>1, ClaimKeepsInv, IntentTypes DEF Steps, Allowed, States
    <2>2. CASE rec.state = "starting" /\ Continue("ensure_started")
      BY <1>1, <1>3, <2>2, ContinueFits DEF Steps, InspectSteps, Allowed, States
    <2> QED
      BY <1>4, <1>6, <2>1, <2>2 DEF DispatchStart
  <1>7. CASE DispatchPause
    <2> DEFINE intent == [kind |-> "pause", keep |-> op.req.keep]
    <2>1. intent \in Operations /\ rec.gen < MaxGeneration
      BY <1>2, <1>7, RequestFields DEF DispatchPause, Operations
    <2>2. ASSUME NEW pc \in {"pause", "cold_pause"}, Claim("pausing", intent, pc)
          PROVE  IndInv'
      BY <1>1, <1>2, <2>1, <2>2, ClaimKeepsInv DEF Steps, Allowed, States
    <2>3. CASE Claim("pausing", intent, IF op.req.keep THEN "pause" ELSE "cold_pause")
      BY <2>2, <2>3
    <2> QED
      BY <1>4, <1>5, <1>7, <2>3 DEF DispatchPause
  <1>8. CASE DispatchResume
    <2>1. rec.gen < MaxGeneration
      BY <1>2, <1>8 DEF DispatchResume
    <2>2. ASSUME NEW pc \in {"resume", "cold_resume"}, Claim("resuming", NoOperation, pc)
          PROVE  IndInv'
      BY <1>1, <1>2, <2>1, <2>2, ClaimKeepsInv, IntentTypes DEF Steps, InspectSteps, Allowed, States
    <2>3. CASE Claim("resuming", NoOperation, IF rec.warm THEN "resume" ELSE "cold_resume")
      BY <2>2, <2>3
    <2> QED
      BY <1>4, <1>5, <1>8, <2>3 DEF DispatchResume
  <1>9. CASE DispatchKill
    <2>1. CASE rec.state = "killing" /\ Continue("kill")
      BY <1>1, <1>3, <2>1, ContinueFits DEF Steps, Allowed, States
    <2>2. CASE Claim("killing", Intent("kill"), "kill")
      BY <1>1, <1>2, <2>2, ClaimKeepsInv, IntentTypes DEF Steps, Allowed, States
    <2> QED
      BY <1>4, <1>5, <1>9, <2>1, <2>2 DEF DispatchKill
  <1>10. CASE DispatchRemove
    BY <1>1, <1>2, <1>4, <1>10, BeginRemoveKeepsInv DEF DispatchRemove
  <1>11. CASE DispatchSnapshot
    <2> DEFINE intent == [kind |-> "snapshot", snap |-> op.req.snap, src |-> rec.state]
               pc == IF rec.state = "paused" /\ ~rec.warm
                     THEN "snapshot_capture" ELSE "snapshot_inspect"
    <2>1. op.req.name = "snapshot"
      BY <1>11 DEF DispatchSnapshot
    <2>2. ASSUME rec.state \in SnapshotSources, Claim("snapshotting", intent, pc)
          PROVE  IndInv'
      <3>1. intent \in Operations
        BY <1>2, <2>1, <2>2, RequestFields DEF Operations
      <3>2. pc \in {"snapshot_capture", "snapshot_inspect"} /\ intent.src = rec.state
        OBVIOUS
      <3> HIDE DEF intent, pc
      <3> QED
        BY <1>1, <1>2, <2>1, <2>2, <3>1, <3>2, ClaimKeepsInv DEF Steps, InspectSteps, Allowed, States
    <2> QED
      BY <1>4, <1>5, <1>11, <2>2 DEF DispatchSnapshot
  <1>12. CASE DispatchRestart
    <2>1. op.req.name = "restart"
      BY <1>12 DEF DispatchRestart
    <2>2. CASE rec.state \in {"restart_stopping", "restart_starting"}
               /\ op' = ContinueRestart(rec) /\ rec' = rec
      BY <1>1, <1>3, <2>2, ContinueRestartFits
    <2> DEFINE intent == [kind |-> "restart", id |-> op.req.id, srcGen |-> rec.gen,
                          src |-> rec.state, opts |-> op.req.opts]
    <2>3. CASE /\ rec.state \in RestartSources
               /\ CanTransition(rec, "restart_stopping", intent)
               /\ rec' = TransitionWith(rec, "restart_stopping", "none", intent)
               /\ op' = ContinueRestart(rec')
      BY <1>1, <1>2, <2>1, <2>3, ClaimRestartKeepsInv
    <2> QED
      BY <1>4, <1>5, <1>12, <2>2, <2>3 DEF DispatchRestart
  <1>13. CASE DispatchInspect
    BY <1>1, <1>2, <1>3, <1>5, <1>13, ObserveRecordFits DEF DispatchInspect
  <1>14. CASE DispatchReconcile
    <2>1. CASE rec.state = "starting" /\ Continue("recover_start")
      BY <1>1, <1>3, <2>1, ContinueFits DEF Steps, InspectSteps, Allowed, States
    <2>2. CASE rec.state = "killing" /\ Continue("kill")
      BY <1>1, <1>3, <2>2, ContinueFits DEF Steps, Allowed, States
    <2>3. CASE rec.state = "removing" /\ Continue("remove_release")
      BY <1>1, <1>3, <2>3, ContinueFits DEF Steps, Allowed, States
    <2>4. CASE rec.state \in {"restart_stopping", "restart_starting"}
               /\ op' = ContinueRestart(rec) /\ rec' = rec
      BY <1>1, <1>3, <2>4, ContinueRestartFits
    <2>5. CASE ObserveRecord
      BY <1>1, <1>2, <1>3, <2>5, ObserveRecordFits
    <2> QED
      BY <1>5, <1>14, <2>1, <2>2, <2>3, <2>4, <2>5 DEF DispatchReconcile
  <1> QED
    BY <1>1, <1>6, <1>7, <1>8, <1>9, <1>10, <1>11, <1>12, <1>13, <1>14 DEF Dispatch

LEMMA ClaimStartKeepsInv == IndInv /\ ClaimStart => IndInv'
  <1>1. SUFFICES ASSUME IndInv, ClaimStart PROVE IndInv'
    OBVIOUS
  <1>2. rec.state \in States /\ op.pc # "idle" /\ Claim("starting", NoOperation, "start")
        /\ UNCHANGED <<snaps, backendVars>>
    BY <1>1 DEF ClaimStart, IndInv, StepFits, Allowed
  <1> QED
    BY <1>1, <1>2, ClaimKeepsInv, IntentTypes
       DEF Steps, Allowed, States, RestoreSteps, SnapshotSteps, StartSteps

-----------------------------------------------------------------------------
(* The theorems.                                                           *)

LEMMA InitInv == Init => IndInv
  <1>1. SUFFICES ASSUME Init PROVE IndInv
    OBVIOUS
  <1>2. rec \in Records /\ rec.state = "absent"
    BY <1>1, IntentTypes, GenerationFacts
       DEF Init, NewRecord, Records, Vacant, Completions, NoRestart
  <1>3. op \in Operation /\ op.pc = "idle"
    BY <1>1, IdleType DEF Init
  <1>4. BackendTypeOK /\ snaps \subseteq SnapshotIds
    <2>1. faults \in 0..MaxFaults /\ snaps \subseteq SnapshotIds
      BY <1>1, FaultAssumption DEF Init, BackendInit
    <2> QED
      BY <1>1, <2>1, Zenon DEF Init, BackendInit, BackendTypeOK
  <1>5. StepFits(rec, op) /\ HasRoom(rec, op)
    BY <1>2, <1>3 DEF StepFits, HasRoom, Allowed, RestoreSteps, SnapshotSteps, StartSteps
  <1>6. RecordReadable
    BY <1>2 DEF RecordReadable, States
  <1> QED
    BY <1>2, <1>3, <1>4, <1>5, <1>6 DEF IndInv, TypeOK

LEMMA NextKeepsInv == IndInv /\ [Next]_vars => IndInv'
  <1>1. SUFFICES ASSUME IndInv, [Next]_vars PROVE IndInv'
    OBVIOUS
  <1>2. CASE OperationStep
    BY <1>1, <1>2, DispatchKeepsInv, InspectBackendKeepsInv, ClaimStartKeepsInv, StartKeepsInv,
       CallsKeepInv, CaptureKeepsInv, ReleaseKeepsInv, CommitKeepsInv, ForgetKeepsInv
       DEF OperationStep
  <1>3. CASE Create \/ (\E req \in Requests : Acquire(req))
               \/ DeleteSnapshot \/ Crash \/ RuntimeExit
    BY <1>1, <1>3, EnvironmentKeepsInv
  <1>4. CASE UNCHANGED vars
    BY <1>1, <1>4 DEF vars, IndInv, TypeOK, BackendTypeOK, RecordReadable
  <1> QED
    BY <1>1, <1>2, <1>3, <1>4 DEF Next

LEMMA Invariance == Spec => []IndInv
  BY InitInv, NextKeepsInv, PTL DEF Spec

\* Every variable keeps its type whatever faults occur.
THEOREM TypeCorrect == Spec => []TypeOK
  <1>1. IndInv => TypeOK
    BY DEF IndInv
  <1> QED
    BY <1>1, Invariance, PTL

\* No interleaving of operations, crashes and faults stores a record that
\* validate_pending_operation or ManagedExecutionMetadata::validate rejects.
THEOREM RecordsReadBack == Spec => []RecordConsistent
  <1>1. IndInv => RecordConsistent
    BY DEF IndInv, RecordReadable, Readable, RecordConsistent
  <1> QED
    BY <1>1, Invariance, PTL

\* Whatever the backend reports, an operation only decides on transitions that
\* transition_with accepts.
THEOREM OnlyLegalDecisions == Spec => []DecisionsAreLegal
  <1>1. IndInv => DecisionsAreLegal
    BY DecisionIsLegal DEF DecisionsAreLegal
  <1> QED
    BY <1>1, Invariance, PTL

-----------------------------------------------------------------------------
(* LocalExecution implements ExecutionLifecycle.                           *)

\* What the caller sees of a step: a step of the lifecycle, or nothing.
Mapped == Lifecycle!Next \/ UNCHANGED Lifecycle!lifecycleVars

\* A transition of the record is one lifecycle step or invisible: claims and
\* their cancellations are invisible except those of kill and restart, which
\* are never cancelled.
LEMMA TransitionMaps ==
    ASSUME IndInv, rec.state \in States, NEW to \in States, NEW upd \in RuntimeUpdates,
           NEW claimed \in Operations,
           CanTransition(rec, to, claimed),
           rec' = TransitionWith(rec, to, upd, claimed),
           rec.state = "snapshotting" => to = rec.pending.src,
           to = "snapshotting" => claimed.src = rec.state,
           to = "restart_stopping" => /\ claimed.id \in OperationIds \ {CreationId}
                                      /\ rec.last.done => rec.last.id # claimed.id,
           to = "restart_starting" => claimed = rec.pending
    PROVE  Mapped
  <1> USE DEF Mapped, Lifecycle!lifecycleVars, Phase, CallerGeneration, ClaimedRestart,
              ServedRestart
  <1>1. /\ rec'.state = to
        /\ rec'.gen = TransitionGeneration(rec.state, to, rec.gen)
        /\ rec'.pending = NextPending(to, claimed)
        /\ rec'.last = NextLast(rec, to)
    BY DEF TransitionWith
  <1>2. <<rec.state, to>> \in LegalEdges /\ rec.gen \in Nat
    BY GenerationFacts DEF CanTransition, IndInv, TypeOK, Records
  <1>3. CASE to = "killing"
    <2>1. Lifecycle!BeginKill
      BY <1>1, <1>2, <1>3 DEF Lifecycle!BeginKill, LegalEdges, TransitionGeneration, BumpEdges,
                              NextLast
    <2> QED
      BY <2>1 DEF Lifecycle!Next
  <1>4. CASE to \in {"stopped", "failed"} /\ rec.state # "restart_starting"
    <2>1. rec.state # "snapshotting"
      <3>1. rec.state = "snapshotting" => rec.pending.kind = "snapshot"
        BY DEF IndInv, RecordReadable, Readable, ValidPendingOperation, PendingKind
      <3>2. rec.pending \in Operations
        BY DEF IndInv, TypeOK, Records
      <3> QED
        BY <1>4, <3>1, <3>2, OperationFields DEF SnapshotSources
    <2>2. Lifecycle!End
      BY <1>1, <1>2, <1>4, <2>1 DEF Lifecycle!End, LegalEdges, TransitionGeneration, BumpEdges,
                                    NextLast
    <2> QED
      BY <2>2 DEF Lifecycle!Next
  <1>5. CASE to = "restart_stopping"
    <2>1. claimed.kind = "restart" /\ rec'.pending = claimed
      BY <1>1, <1>5 DEF CanTransition, NextPending
    <2>2. Lifecycle!BeginRestart(claimed.id)
      BY <1>1, <1>2, <1>5, <2>1 DEF Lifecycle!BeginRestart, LegalEdges, TransitionGeneration,
                                    BumpEdges, NextLast
    <2>3. claimed.id \in OperationIds
      BY <1>5
    <2> QED
      BY <2>2, <2>3 DEF Lifecycle!Next
  <1>6. CASE to = "restart_starting"
    <2>1. rec.state = "restart_stopping" /\ rec'.pending = rec.pending /\ rec'.gen = rec.gen + 1
      BY <1>1, <1>2, <1>6 DEF LegalEdges, NextPending, TransitionGeneration, BumpEdges
    <2> QED
      BY <1>1, <1>2, <1>6, <2>1 DEF NextLast
  <1>7. CASE rec.state = "restart_starting"
    <2>1. to \in {"running", "failed"} /\ rec'.gen = rec.gen
      BY <1>1, <1>2, <1>7 DEF LegalEdges, TransitionGeneration, BumpEdges
    <2>2. rec'.last.done = TRUE /\ rec'.last.id = rec.pending.id
      BY <1>1, <1>7, <2>1 DEF NextLast
    <2>3. Lifecycle!EndRestart
      BY <1>1, <1>2, <1>7, <2>1, <2>2 DEF Lifecycle!EndRestart
    <2> QED
      BY <2>3 DEF Lifecycle!Next
  <1>8. CASE rec.state = "pausing" /\ to = "paused"
    <2>1. Lifecycle!Pause
      BY <1>1, <1>2, <1>8 DEF Lifecycle!Pause, TransitionGeneration, BumpEdges, NextLast
    <2> QED
      BY <2>1 DEF Lifecycle!Next
  <1>9. CASE rec.state = "resuming" /\ to = "running"
    <2>1. Lifecycle!Resume
      BY <1>1, <1>2, <1>9 DEF Lifecycle!Resume, TransitionGeneration, BumpEdges, NextLast
    <2> QED
      BY <2>1 DEF Lifecycle!Next
  <1>10. CASE rec.state = "starting" /\ to = "running"
    <2>1. Lifecycle!Start
      BY <1>1, <1>2, <1>10 DEF Lifecycle!Start, TransitionGeneration, BumpEdges, NextLast
    <2> QED
      BY <2>1 DEF Lifecycle!Next
  <1>11. CASE \/ rec.state \in {"creating", "created", "starting"}
                   /\ to \in {"creating", "created", "starting"}
              \/ rec.state = "running" /\ to \in {"pausing", "snapshotting"}
              \/ rec.state = "pausing" /\ to = "running"
              \/ rec.state = "paused" /\ to \in {"resuming", "snapshotting"}
              \/ rec.state = "resuming" /\ to = "paused"
              \/ rec.state = "snapshotting" /\ to \in {"running", "paused"}
    <2>1. rec'.gen = rec.gen /\ rec'.last = rec.last
      BY <1>1, <1>11 DEF TransitionGeneration, BumpEdges, NextLast
    <2>2. to = "snapshotting" => rec'.pending = claimed
      BY <1>1 DEF NextPending
    <2> QED
      BY <1>1, <1>11, <2>1, <2>2
  <1>12. \/ to \in {"killing", "restart_stopping", "restart_starting"}
         \/ to \in {"stopped", "failed"} /\ rec.state # "restart_starting"
         \/ rec.state = "restart_starting"
         \/ rec.state = "pausing" /\ to = "paused"
         \/ rec.state = "resuming" /\ to = "running"
         \/ rec.state = "starting" /\ to = "running"
         \/ rec.state \in {"creating", "created", "starting"}
              /\ to \in {"creating", "created", "starting"}
         \/ rec.state = "running" /\ to \in {"pausing", "snapshotting"}
         \/ rec.state = "pausing" /\ to = "running"
         \/ rec.state = "paused" /\ to \in {"resuming", "snapshotting"}
         \/ rec.state = "resuming" /\ to = "paused"
         \/ rec.state = "snapshotting" /\ to \in {"running", "paused"}
    BY <1>2 DEF LegalEdges
  <1> QED
    BY <1>3, <1>4, <1>5, <1>6, <1>7, <1>8, <1>9, <1>10, <1>11, <1>12

\* The ways a step can change the record.
Transitioned ==
    \E to \in States, upd \in RuntimeUpdates, claimed \in Operations :
        /\ CanTransition(rec, to, claimed)
        /\ rec' = TransitionWith(rec, to, upd, claimed)
        /\ rec.state = "snapshotting" => to = rec.pending.src
        /\ to = "snapshotting" => claimed.src = rec.state
        /\ to = "restart_stopping" => /\ claimed.id \in OperationIds \ {CreationId}
                                      /\ rec.last.done => rec.last.id # claimed.id
        /\ to = "restart_starting" => claimed = rec.pending

Changed ==
    \/ rec' = rec
    \/ rec.state = "absent" /\ rec' = NewRecord("created")
    \/ rec.state \in States /\ Transitioned
    \/ CanBeginRemove(rec) /\ rec' = BeginRemove(rec)
    \/ rec.state = "removing" /\ rec' = FinishRemove

LEMMA ClaimTransitions ==
    ASSUME rec.state \in States, rec.state # "snapshotting",
           NEW to \in {"starting", "pausing", "resuming", "snapshotting", "killing"},
           NEW intent \in Operations, NEW pc, Claim(to, intent, pc),
           to = "snapshotting" => intent.src = rec.state
    PROVE  Changed
  <1>1. to \in States /\ "none" \in RuntimeUpdates
    BY DEF States, RuntimeUpdates
  <1> QED
    BY <1>1 DEF Claim, Changed, Transitioned

LEMMA DispatchChanges == IndInv /\ Dispatch => Changed
  <1>1. SUFFICES ASSUME IndInv, Dispatch PROVE Changed
    OBVIOUS
  <1>2. rec.state \in States /\ op.req \in Requests /\ rec.gen \in Generations
    BY <1>1 DEF Dispatch, IndInv, StepFits, Allowed, TypeOK, Operation, Records
  <1>3. CASE rec' = rec
    BY <1>3 DEF Changed
  <1>4. CASE DispatchStart
    BY <1>2, <1>3, <1>4, ClaimTransitions, IntentTypes DEF DispatchStart, Continue, Refuse
  <1>5. CASE DispatchPause
    <2> DEFINE intent == [kind |-> "pause", keep |-> op.req.keep]
               pc == IF op.req.keep THEN "pause" ELSE "cold_pause"
    <2>1. intent \in Operations
      BY <1>2, <1>5, RequestFields DEF DispatchPause, Operations
    <2>2. rec' = rec \/ (rec.state = "running" /\ Claim("pausing", intent, pc))
      BY <1>5 DEF DispatchPause, DriveSnapshot, Continue, Refuse
    <2> HIDE DEF intent, pc
    <2> QED
      BY <1>2, <1>3, <2>1, <2>2, ClaimTransitions
  <1>6. CASE DispatchResume
    <2> DEFINE pc == IF rec.warm THEN "resume" ELSE "cold_resume"
    <2>1. rec' = rec \/ (rec.state = "paused" /\ Claim("resuming", NoOperation, pc))
      BY <1>6 DEF DispatchResume, DriveSnapshot, Continue, Refuse
    <2> HIDE DEF pc
    <2> QED
      BY <1>2, <1>3, <2>1, ClaimTransitions, IntentTypes
  <1>7. CASE DispatchKill
    <2>1. \/ rec' = rec
          \/ rec.state # "snapshotting" /\ Claim("killing", Intent("kill"), "kill")
      BY <1>7 DEF DispatchKill, DriveSnapshot, Continue, Refuse, LegalEdges
    <2> QED
      BY <1>2, <1>3, <2>1, ClaimTransitions, IntentTypes
  <1>8. CASE DispatchRemove
    BY <1>8 DEF DispatchRemove, Refuse, Changed
  <1>9. CASE DispatchSnapshot
    <2> DEFINE intent == [kind |-> "snapshot", snap |-> op.req.snap, src |-> rec.state]
               pc == IF rec.state = "paused" /\ ~rec.warm
                     THEN "snapshot_capture" ELSE "snapshot_inspect"
    <2>1. \/ rec' = rec
          \/ rec.state \in SnapshotSources /\ Claim("snapshotting", intent, pc)
      BY <1>9 DEF DispatchSnapshot, DriveSnapshot, Continue, Refuse
    <2>2. rec.state \in SnapshotSources => intent \in Operations /\ rec.state # "snapshotting"
      BY <1>2, <1>9, RequestFields DEF DispatchSnapshot, Operations, SnapshotSources
    <2>3. intent.src = rec.state
      OBVIOUS
    <2> HIDE DEF intent, pc
    <2> QED
      BY <1>2, <1>3, <2>1, <2>2, <2>3, ClaimTransitions
  <1>10. CASE DispatchRestart
    <2> DEFINE intent == [kind |-> "restart", id |-> op.req.id, srcGen |-> rec.gen,
                          src |-> rec.state, opts |-> op.req.opts]
    <2>1. \/ rec' = rec
          \/ /\ RestartAllowed /\ rec.state \in RestartSources
             /\ CanTransition(rec, "restart_stopping", intent)
             /\ rec' = TransitionWith(rec, "restart_stopping", "none", intent)
      BY <1>10 DEF DispatchRestart, DriveSnapshot, Continue, Refuse
    <2>2. rec.state \in RestartSources => intent \in Operations /\ rec.state # "snapshotting"
      BY <1>2, <1>10, RequestFields DEF DispatchRestart, Operations, RestartSources
    <2>3. RestartAllowed => /\ intent.id \in OperationIds \ {CreationId}
                            /\ rec.last.done => rec.last.id # intent.id
      BY <1>2, <1>10, RequestFields DEF DispatchRestart, RestartAllowed, CompletedRestart
    <2>4. "restart_stopping" \in States /\ "none" \in RuntimeUpdates
      BY DEF States, RuntimeUpdates
    <2> HIDE DEF intent
    <2> QED
      BY <1>2, <2>1, <2>2, <2>3, <2>4 DEF Changed, Transitioned
  <1>11. CASE DispatchInspect \/ DispatchReconcile
    BY <1>3, <1>11 DEF DispatchInspect, DispatchReconcile, DriveSnapshot, ObserveRecord, Continue,
                       Refuse
  <1> QED
    BY <1>1, <1>4, <1>5, <1>6, <1>7, <1>8, <1>9, <1>10, <1>11 DEF Dispatch

LEMMA StepChanges == IndInv /\ [Next]_vars => Changed
  <1>1. SUFFICES ASSUME IndInv, [Next]_vars PROVE Changed
    OBVIOUS
  <1>2. CASE Dispatch
    BY <1>1, <1>2, DispatchChanges
  <1>3. CASE ClaimStart
    <2>1. rec.state = "created" /\ Claim("starting", NoOperation, "start")
      BY <1>1, <1>3 DEF ClaimStart, IndInv, StepFits, Allowed
    <2> QED
      BY <2>1, ClaimTransitions, IntentTypes DEF States
  <1>4. CASE CommitStep
    <2>1. /\ op.pc = "commit" /\ op \in Operation /\ rec \in Records
          /\ rec.state \in States /\ DecisionFits(rec, op)
      BY <1>1, <1>4 DEF CommitStep, IndInv, TypeOK, StepFits, Allowed
    <2>2. op.then.to \in States /\ op.then.upd \in RuntimeUpdates /\ rec.pending \in Operations
      BY <2>1 DEF Operation, Decisions, Records
    <2>3. \/ rec' = rec
          \/ /\ CanTransition(rec, op.then.to, rec.pending)
             /\ rec' = TransitionWith(rec, op.then.to, op.then.upd, rec.pending)
      BY <1>4 DEF CommitStep, Refuse
    <2>4. /\ op.then.to # "snapshotting" /\ op.then.to # "restart_stopping"
          /\ rec.state = "snapshotting" => op.then.to = rec.pending.src
      BY <2>1 DEF DecisionFits, Published
    <2> QED
      BY <2>1, <2>2, <2>3, <2>4 DEF Changed, Transitioned
  <1>5. CASE RemoveForget
    <2>1. rec.state = "removing"
      BY <1>1, <1>5 DEF RemoveForget, IndInv, StepFits, Allowed
    <2> QED
      BY <1>5, <2>1 DEF RemoveForget, Refuse, Changed
  <1>6. CASE Create
    BY <1>6 DEF Create, Changed
  <1>7. CASE rec' = rec
    BY <1>7 DEF Changed
  <1>8. CASE InspectBackend \/ StartPrepare \/ StartLaunch \/ StartRecord \/ StartReady
               \/ PauseRuntime \/ ResumeRuntime \/ ColdPause \/ FinishKill
               \/ FinishRestartStop \/ PauseForSnapshot \/ RestoreSnapshotSource
               \/ CaptureSnapshot \/ ReleaseStep \/ RemoveRelease \/ RemoveCleanup
               \/ (\E req \in Requests : Acquire(req))
               \/ DeleteSnapshot \/ Crash \/ RuntimeExit
    <2>1. rec' = rec
      BY <1>8 DEF InspectBackend, StartPrepare, StartLaunch, StartRecord, StartReady,
           PauseRuntime, ResumeRuntime, ColdPause, FinishKill, FinishRestartStop,
           PauseForSnapshot, RestoreSnapshotSource, CaptureSnapshot, ReleaseStep,
           RemoveRelease, RemoveCleanup, Acquire, DeleteSnapshot, Crash, RuntimeExit
    <2> QED
      BY <1>7, <2>1
  <1> QED
    BY <1>1, <1>2, <1>3, <1>4, <1>5, <1>6, <1>7, <1>8 DEF Next, OperationStep, vars

\* A record that does not exist carries no history.
VacantIsNew == rec.state \in Vacant => rec = NewRecord(rec.state)

LEMMA ChangedKeepsVacant ==
    ASSUME rec \in Records, VacantIsNew, Changed
    PROVE  VacantIsNew'
  <1>1. CASE rec' = rec
    BY <1>1 DEF VacantIsNew
  <1>2. CASE rec' = NewRecord("created") \/ rec' = FinishRemove
    BY <1>2 DEF VacantIsNew, FinishRemove, NewRecord, Vacant
  <1>3. CASE Transitioned
    BY <1>3 DEF Transitioned, TransitionWith, VacantIsNew, Vacant, States
  <1>4. CASE CanBeginRemove(rec) /\ rec' = BeginRemove(rec)
    <2>1. rec'.state = "removing"
      BY <1>4 DEF BeginRemove, Records
    <2> QED
      BY <2>1 DEF VacantIsNew, Vacant
  <1> QED
    BY <1>1, <1>2, <1>3, <1>4 DEF Changed

LEMMA StepMaps == IndInv /\ VacantIsNew /\ [Next]_vars => VacantIsNew' /\ Mapped
  <1>1. SUFFICES ASSUME IndInv, VacantIsNew, Changed PROVE VacantIsNew' /\ Mapped
    BY StepChanges
  <1>2. rec \in Records
    BY <1>1 DEF IndInv, TypeOK
  <1>3. VacantIsNew'
    BY <1>1, <1>2, ChangedKeepsVacant
  <1>4. Mapped
    <2> USE DEF Mapped, Lifecycle!lifecycleVars, Phase, CallerGeneration, ClaimedRestart,
                ServedRestart
    <2>1. CASE rec' = rec
      BY <2>1
    <2>2. CASE rec.state = "absent" /\ rec' = NewRecord("created")
      <3>1. rec = NewRecord("absent")
        BY <1>1, <2>2 DEF VacantIsNew, Vacant
      <3>2. Lifecycle!Reserve
        BY <2>2, <3>1 DEF NewRecord, NoRestart, Lifecycle!Reserve
      <3> QED
        BY <3>2 DEF Lifecycle!Next
    <2>3. CASE rec.state \in States /\ Transitioned
      BY <1>1, <2>3, TransitionMaps DEF Transitioned
    <2>4. CASE CanBeginRemove(rec) /\ rec' = BeginRemove(rec)
      <3>1. /\ rec'.state = "removing" /\ rec'.gen = rec.gen /\ rec'.last = rec.last
        BY <1>2, <2>4 DEF BeginRemove, Records
      <3>2. CASE rec.state = "removing"
        BY <3>1, <3>2
      <3>3. CASE rec.state \in {"created", "stopped", "failed"}
        <4>1. Lifecycle!BeginRemove
          BY <3>1, <3>3 DEF Lifecycle!BeginRemove
        <4> QED
          BY <4>1 DEF Lifecycle!Next
      <3> QED
        BY <2>4, <3>2, <3>3 DEF CanBeginRemove
    <2>5. CASE rec.state = "removing" /\ rec' = FinishRemove
      <3>1. Lifecycle!EndRemove
        BY <2>5 DEF FinishRemove, NewRecord, NoRestart, Lifecycle!EndRemove
      <3> QED
        BY <3>1 DEF Lifecycle!Next
    <2> QED
      BY <1>1, <2>1, <2>2, <2>3, <2>4, <2>5 DEF Changed
  <1> QED
    BY <1>3, <1>4

LEMMA InitMaps == Init => VacantIsNew /\ Lifecycle!Init
  BY DEF Init, VacantIsNew, NewRecord, NoRestart, Lifecycle!Init, Phase, CallerGeneration,
         ClaimedRestart, ServedRestart

\* The manager, with its claims, crashes, faults and recoveries, implements the
\* atomic lifecycle of the ExecutionManager trait: a start, pause or resume
\* happens once or not at all, only pause, resume and a completed restart
\* advance the generation, a served restart identity is not executed again.
THEOREM Refinement == Spec => ImplementsLifecycle
  <1>1. IndInv /\ VacantIsNew /\ [Next]_vars => [Lifecycle!Next]_(Lifecycle!lifecycleVars)
    BY StepMaps DEF Mapped
  <1>2. IndInv /\ VacantIsNew /\ [Next]_vars => VacantIsNew'
    BY StepMaps
  <1> QED
    BY <1>1, <1>2, InitMaps, Invariance, PTL DEF Spec, ImplementsLifecycle, Lifecycle!Spec

=============================================================================
