--------------------------- MODULE SandboxControl ---------------------------
(***************************************************************************)
(* The compatibility control plane (compat/src/control) for one sandbox:   *)
(* the durable lifecycle record that every writer replaces by compare and  *)
(* swap, the requests of clients, and the supervisor that reconciles the   *)
(* record with the runtime after a start of the service and reaps expired  *)
(* sandboxes.                                                              *)
(*                                                                         *)
(* The runtime is the ExecutionManager, reduced to what LocalExecution     *)
(* implements: one operation at a time holds the lifecycle lock, claims a  *)
(* transitional phase and completes it; an operation that is interrupted   *)
(* leaves its claim.  ManagerKeepsItsPromise states that this reduction    *)
(* stays within ExecutionLifecycle.                                        *)
(***************************************************************************)
EXTENDS Naturals, FiniteSets

CONSTANTS
    Requests,       \* requests the service handles at the same time
    Supervisor,     \* its maintenance task
    Free,           \* nobody: the lifecycle lock is free
    NoRecord,       \* the repository has no such sandbox
    Ops,            \* the requests that clients make
    Faults,         \* which of the faults below happen
    MaxGeneration   \* Bound: requests are made while the generation is smaller

AllOps == {"create", "connect", "pause", "timeout", "kill"}
AllFaults == {"crash",    \* the service dies
              "cancel",   \* a client goes away, which drops its handler
              "exit",     \* the sandbox's processes end by themselves
              "envd",     \* envd in the sandbox does not become ready
              "slow",     \* the guest's exec endpoint is not ready yet
              "error",    \* the manager fails and rolls back
              "stuck"}    \* the manager fails and cannot tell what happened

ASSUME ControlAssumption ==
    /\ Supervisor \notin Requests
    /\ Free \notin Requests \cup {Supervisor}
    /\ Ops \subseteq AllOps
    /\ Faults \subseteq AllFaults
    /\ MaxGeneration \in Nat

Actors == Requests \cup {Supervisor}

VARIABLES
    rec,      \* the persisted SandboxRecord
    expired,  \* its expires_at has passed
    exec,     \* the manager's record of the execution
    lock,     \* who holds the lifecycle lock of the execution
    act,      \* the requests and the supervisor
    up        \* the service runs

vars == <<rec, expired, exec, lock, act, up>>

LifecycleStates == {"creating", "running", "pausing", "paused", "resuming",
                    "killing", "killed", "failed"}
Terminal == {"killed", "failed"}
Transitional == {"creating", "pausing", "resuming", "killing"}
Policies == {"kill", "pause", "coldpause"}

\* execGen: execution_id and execution_generation, 0 for none; memory:
\* paused_with_memory; failure: whether a failure category is set.
SandboxRecord == [state : LifecycleStates, gen : Nat \ {0}, execGen : Nat,
                  memory : BOOLEAN, failure : BOOLEAN, policy : Policies]

ASSUME NoRecordAssumption == NoRecord \notin SandboxRecord

Phases == {"absent", "created", "starting", "running", "pausing", "paused",
           "resuming", "killing", "ended"}

\* cold: the pause (claimed or done) does not keep memory; alive: the runtime
\* has processes; frozen: they are paused. Two ghosts: unnamed, a client killed
\* the sandbox when its record named no execution yet; early, a client called
\* while the supervisor was reconciling after a start.
Execution == [phase : Phases, gen : Nat \ {0}, cold : BOOLEAN, alive : BOOLEAN,
              frozen : BOOLEAN, unnamed : BOOLEAN, early : BOOLEAN]

Pcs == {"idle", "begin", "reserve", "start", "pause", "resume", "kill", "list", "reconcile",
        "inspect", "envd", "publish", "abort", "fail", "expiry"}

\* copy: the actor's copy of the record; lease: the generation of the lease it
\* was given; keep: the argument of a pause.
Actor == [pc : Pcs, op : AllOps \cup {"none", "startup", "reap"},
          copy : SandboxRecord \cup {NoRecord}, lease : Nat, keep : BOOLEAN]
Idle == [pc |-> "idle", op |-> "none", copy |-> NoRecord, lease |-> 0, keep |-> TRUE]

TypeOK ==
    /\ rec \in SandboxRecord \cup {NoRecord}
    /\ expired \in BOOLEAN
    /\ exec \in Execution
    /\ lock \in Actors \cup {Free}
    /\ act \in [Actors -> Actor]
    /\ up \in BOOLEAN
    /\ lock # Free => act[lock].pc \in {"start", "pause", "resume", "kill"}

Starting == [Idle EXCEPT !.pc = "list", !.op = "startup"]

Init ==
    /\ rec = NoRecord
    /\ expired = FALSE
    /\ exec = [phase |-> "absent", gen |-> 1, cold |-> FALSE, alive |-> FALSE,
               frozen |-> FALSE, unnamed |-> FALSE, early |-> FALSE]
    /\ lock = Free
    /\ act = [a \in Actors |-> IF a = Supervisor THEN Starting ELSE Idle]
    /\ up = TRUE

-----------------------------------------------------------------------------
(* The record's transitions (model.rs).                                    *)

NewSandboxRecord(policy) ==
    [state |-> "creating", gen |-> 1, execGen |-> 0, memory |-> TRUE,
     failure |-> FALSE, policy |-> policy]

Advance(r, state) == [r EXCEPT !.state = state, !.gen = @ + 1]

MarkRunning(r, lease) ==
    [Advance(r, "running") EXCEPT !.execGen = lease, !.memory = TRUE, !.failure = FALSE]
BeginPause(r, keep) == [Advance(r, "pausing") EXCEPT !.memory = keep]
MarkPaused(r, lease) == [Advance(r, "paused") EXCEPT !.execGen = lease]

\* Mutant of AbortPause: the pause policy of the aborted pause is kept.
AbortPauseKeepsPolicy(r) == Advance(r, "running")

AbortPause(r) == [Advance(r, "running") EXCEPT !.memory = TRUE]
BeginResume(r) == Advance(r, "resuming")
AbortResume(r) == Advance(r, "paused")
BeginKill(r) == [Advance(r, "killing") EXCEPT !.memory = TRUE]
MarkKilled(r) == [Advance(r, "killed") EXCEPT !.memory = TRUE]
MarkFailed(r) == [Advance(r, "failed") EXCEPT !.memory = TRUE, !.failure = TRUE]
ReplaceExpiry(r) == [r EXCEPT !.gen = @ + 1]

\* validate_execution_lease: the manager's lease is newer than the one recorded,
\* or the record stays as it is.
LeaseIsNewer(r, lease) == lease > r.execGen

\* compare_and_swap: a transition advances the generation by one, so the
\* generation expected is the one before.
Swappable(new) == rec # NoRecord /\ rec.gen = new.gen - 1

-----------------------------------------------------------------------------
(* The execution manager.                                                  *)

NeedsManager == {"start", "pause", "resume", "kill"}

\* The generation with which the actor calls the manager.
Target(a) == IF act[a].lease # 0 THEN act[a].lease ELSE act[a].copy.execGen

\* A call is refused when the generation or the state is not the expected one.
Granted(a) ==
    CASE act[a].pc = "start"  -> exec.phase \in {"created", "running"} \/ (exec.phase = "starting" /\ exec.alive)
      [] act[a].pc = "pause"  -> exec.gen = Target(a) /\ exec.phase = "running"
      [] act[a].pc = "resume" -> exec.gen = Target(a) /\ exec.phase = "paused"
      [] act[a].pc = "kill"   -> exec.gen = Target(a)
      [] OTHER -> TRUE

\* The claim that a granted call writes before it touches the runtime.
Claimed(a) ==
    CASE act[a].pc = "start" /\ exec.phase = "created" -> [exec EXCEPT !.phase = "starting"]
      [] act[a].pc = "pause"  -> [exec EXCEPT !.phase = "pausing", !.cold = ~act[a].keep]
      [] act[a].pc = "resume" -> [exec EXCEPT !.phase = "resuming"]
      [] act[a].pc = "kill" /\ exec.phase # "ended" -> [exec EXCEPT !.phase = "killing"]
      [] OTHER -> exec

Running(e) == [e EXCEPT !.phase = "running", !.alive = TRUE, !.cold = FALSE, !.frozen = FALSE]
Ended(e) == [e EXCEPT !.phase = "ended", !.alive = FALSE, !.cold = FALSE, !.frozen = FALSE]

\* Mutant of Resumed: a resume keeps the generation.
ResumedKeepsGeneration(e) == Running(e)

Resumed(e) == [Running(e) EXCEPT !.gen = @ + 1]

\* Mutant of Paused: a pause keeps the generation.
PausedKeepsGeneration(e) == [e EXCEPT !.phase = "paused", !.alive = ~e.cold, !.frozen = ~e.cold]

Paused(e) == [e EXCEPT !.phase = "paused", !.gen = @ + 1, !.alive = ~e.cold, !.frozen = ~e.cold]

\* The effect of a claimed operation on the runtime, before it is recorded.
Effect(e) ==
    CASE e.phase = "starting" -> [e EXCEPT !.alive = TRUE]
      [] e.phase = "pausing" -> [e EXCEPT !.alive = @ /\ ~e.cold, !.frozen = e.alive /\ ~e.cold]
      [] e.phase = "resuming" -> [e EXCEPT !.alive = @ \/ e.cold, !.frozen = FALSE]
      [] e.phase = "killing" -> [e EXCEPT !.alive = FALSE, !.frozen = FALSE]
      [] OTHER -> e

\* The record that an operation leaves and whether it answers with a lease.
\* What fails is rolled back, or its claim stays.
Ok(e) == <<e, "ok">>
Fails(rollbacks, e) ==
    {<<f, "error">> : f \in (IF "error" \in Faults THEN rollbacks ELSE {})
                              \cup (IF "stuck" \in Faults THEN {e, Effect(e)} ELSE {})}

\* A runtime that is gone cannot be frozen or thawed: the claim stays.
Completions(e) ==
    CASE e.phase = "starting" ->
           {Ok(Running(e))} \cup Fails({[e EXCEPT !.phase = "created"], Ended(e)}, e)
      [] e.phase = "pausing" /\ e.alive -> {Ok(Paused(e))} \cup Fails({Running(e)}, e)
      [] e.phase = "pausing" /\ e.cold /\ ~e.alive -> {Ok(Paused(e))}
      [] e.phase = "resuming" /\ (e.alive \/ e.cold) ->
           {Ok(Resumed(e))} \cup Fails({[e EXCEPT !.phase = "paused"]}, e)
      [] e.phase \in {"pausing", "resuming"} /\ ~e.alive /\ ~e.cold ->
           {<<e, "error">>, <<e, "notfound">>}
      [] e.phase = "killing" -> {Ok(Ended(e))} \cup Fails({e}, e)
      [] OTHER -> {Ok(e)}

\* observe_record: what the runtime shows completes a claim or ends the
\* execution; a pause or resume without memory is carried out.
Observations(e) ==
    CASE e.phase = "starting" /\ e.alive ->
           {Ok(Running(e))} \cup (IF "slow" \in Faults THEN {<<e, "creating">>} ELSE {})
      [] e.phase \in {"pausing", "resuming"} /\ e.cold -> Completions(e)
      [] e.phase = "pausing" /\ ~e.cold /\ e.frozen -> {Ok(Paused(e))}
      [] e.phase = "resuming" /\ ~e.cold /\ e.alive /\ ~e.frozen -> {Ok(Resumed(e))}
      [] \/ e.phase = "killing" /\ ~e.alive
         \/ e.phase \in {"running", "pausing", "paused", "resuming"} /\ ~e.alive /\ ~e.cold -> {Ok(Ended(e))}
      [] OTHER -> {Ok(e)}

\* reconcile: an interrupted operation is finished, a reservation is not started
\* and a guest that is still starting is left alone.
Reconciled ==
    UNION {IF o[2] = "ok" /\ o[1].phase \in {"starting", "pausing", "resuming", "killing"}
             THEN Completions(o[1]) ELSE {o} : o \in Observations(exec)}

\* What a service that dies, or a handler that is dropped, in the middle of a
\* manager call leaves: the claim, with or without its effect on the runtime.
Interrupted == {exec, Effect(exec)}

-----------------------------------------------------------------------------
(* How an actor goes on.                                                   *)

Set(a, new) == act' = [act EXCEPT ![a] = new]
Goto(a, pc) == Set(a, [act[a] EXCEPT !.pc = pc])
Finish(a) == Set(a, Idle)

\* A service or supervisor write: the copy becomes the record or, when somebody
\* else was faster, the actor gives up.
Write(a, new, next) ==
    IF Swappable(new)
      THEN rec' = new /\ Set(a, next)
      ELSE UNCHANGED rec /\ Finish(a)

\* Initialising envd is needed unless the sandbox resumed with its memory.
AfterLease(c) == IF c.state = "resuming" /\ c.memory THEN "publish" ELSE "envd"

\* What follows the answer of a manager call.  A cleanup kill (create, connect)
\* goes on to record the failure whatever its result.
AfterCall(a, result) ==
    LET me == act[a]
        leased == [me EXCEPT !.lease = exec'.gen] IN
    CASE me.pc = "start" /\ result = "ok" -> [leased EXCEPT !.pc = "envd"]
      [] me.pc = "start" /\ result # "ok" -> IF a = Supervisor THEN Idle ELSE [me EXCEPT !.pc = "fail"]
      [] me.pc \in {"pause", "resume"} /\ result = "ok" ->
           [leased EXCEPT !.pc = IF me.pc = "pause" THEN "publish" ELSE AfterLease(me.copy)]
      [] me.pc \in {"pause", "resume"} /\ result # "ok" ->
           IF a # Supervisor THEN [me EXCEPT !.pc = "abort"]
           ELSE IF result = "notfound" THEN [me EXCEPT !.pc = "fail"] ELSE Idle
      [] me.pc = "kill" /\ me.copy.state # "killing" -> [me EXCEPT !.pc = "fail"]
      [] me.pc = "kill" /\ me.copy.state = "killing" ->
           IF result = "ok" THEN [me EXCEPT !.pc = "publish"] ELSE Idle

Refuse(a) ==
    /\ act[a].pc \in NeedsManager
    /\ lock = Free
    /\ ~Granted(a)
    /\ UNCHANGED exec
    /\ Set(a, AfterCall(a, "conflict"))
    /\ UNCHANGED <<rec, expired, lock, up>>

Claim(a) ==
    /\ act[a].pc \in NeedsManager
    /\ lock = Free
    /\ Granted(a)
    /\ exec' = Claimed(a)
    /\ lock' = a
    /\ UNCHANGED <<rec, expired, act, up>>

Complete(a) ==
    /\ act[a].pc \in NeedsManager
    /\ lock = a
    /\ lock' = Free
    /\ \E c \in Completions(exec) :
         /\ exec' = c[1]
         /\ Set(a, AfterCall(a, c[2]))
    /\ UNCHANGED <<rec, expired, up>>

\* Mutant of InitializeEnvd: the failure is recorded and the runtime forgotten.
InitializeEnvdKeepsRuntime(a) ==
    /\ act[a].pc = "envd"
    /\ \/ Goto(a, "publish")
       \/ ("envd" \in Faults \/ ~exec.alive) /\ Goto(a, "fail")
    /\ UNCHANGED <<rec, expired, exec, lock, up>>

\* initialize_runtime_envd: until it answers, or the deadline passes.
InitializeEnvd(a) ==
    /\ act[a].pc = "envd"
    /\ \/ Goto(a, "publish")
       \/ ("envd" \in Faults \/ ~exec.alive) /\ Goto(a, "kill")
    /\ UNCHANGED <<rec, expired, exec, lock, up>>

\* The end of an operation that succeeded.  A create sets the expiry.
Published(c, lease) ==
    CASE c.state \in {"creating", "resuming"} -> MarkRunning(c, lease)
      [] c.state = "pausing" -> MarkPaused(c, lease)
      [] c.state = "killing" -> MarkKilled(c)

Publish(a) ==
    LET me == act[a]
        new == Published(me.copy, me.lease) IN
    /\ me.pc = "publish"
    /\ IF me.copy.state = "killing" \/ LeaseIsNewer(me.copy, me.lease)
         THEN Write(a, new, IF me.op = "connect" THEN [me EXCEPT !.pc = "expiry", !.copy = new]
                            ELSE Idle)
         ELSE UNCHANGED rec /\ Finish(a)
    /\ expired' = (expired /\ ~(me.copy.state = "creating" /\ Swappable(new)))
    /\ UNCHANGED <<exec, lock, up>>

\* A pause or resume that failed is taken back.
Abort(a) ==
    LET c == act[a].copy IN
    /\ act[a].pc = "abort"
    /\ Write(a, IF c.state = "pausing" THEN AbortPause(c) ELSE AbortResume(c), Idle)
    /\ UNCHANGED <<expired, exec, lock, up>>

\* mark_failed, or for the supervisor finish_missing.
Fail(a) ==
    LET c == act[a].copy IN
    /\ act[a].pc = "fail"
    /\ Write(a, IF c.state = "killing" THEN MarkKilled(c) ELSE MarkFailed(c), Idle)
    /\ UNCHANGED <<expired, exec, lock, up>>

-----------------------------------------------------------------------------
(* Requests (service.rs).                                                  *)

\* A client's request arrives.
Arrive(r, new) ==
    /\ act[r].pc = "idle"
    /\ Set(r, new)
    /\ exec' = [exec EXCEPT !.early = @ \/ act[Supervisor].op = "startup"]

\* create_with_mounts: the record is inserted before the runtime is asked.
Create(r) ==
    /\ "create" \in Ops
    /\ rec = NoRecord
    /\ \E policy \in Policies :
         /\ rec' = NewSandboxRecord(policy)
         /\ Arrive(r, [Idle EXCEPT !.pc = "reserve", !.op = "create", !.copy = NewSandboxRecord(policy)])
    /\ UNCHANGED <<expired, lock, up>>

\* create_and_start: ExecutionManager::create, then start.
Reserve(r) ==
    /\ act[r].pc = "reserve"
    /\ \/ exec' = [exec EXCEPT !.phase = "created"] /\ Goto(r, "start")
       \/ "error" \in Faults /\ Goto(r, "fail") /\ UNCHANGED exec
    /\ UNCHANGED <<rec, expired, lock, up>>

\* The reading of the record and the conditions that end a request at once.
Visible == rec # NoRecord /\ rec.state \in {"running", "paused"} /\ rec.gen < MaxGeneration

Connect(r) ==
    /\ "connect" \in Ops
    /\ Visible
    /\ Arrive(r, [Idle EXCEPT !.pc = IF rec.state = "running" THEN "expiry" ELSE "begin",
                              !.op = "connect", !.copy = rec])
    /\ UNCHANGED <<rec, expired, lock, up>>

Pause(r) ==
    /\ "pause" \in Ops
    /\ Visible
    /\ rec.state = "running"
    /\ \E keep \in BOOLEAN :
         Arrive(r, [Idle EXCEPT !.pc = "begin", !.op = "pause", !.copy = rec, !.keep = keep])
    /\ UNCHANGED <<rec, expired, lock, up>>

\* set_timeout and refresh_timeout
SetTimeout(r) ==
    /\ "timeout" \in Ops
    /\ Visible
    /\ Arrive(r, [Idle EXCEPT !.pc = "expiry", !.op = "timeout", !.copy = rec])
    /\ UNCHANGED <<rec, expired, lock, up>>

Kill(r) ==
    /\ "kill" \in Ops
    /\ rec # NoRecord
    /\ rec.state \notin Terminal \cup {"killing"}
    /\ Arrive(r, [Idle EXCEPT !.pc = "begin", !.op = "kill", !.copy = rec])
    /\ UNCHANGED <<rec, expired, lock, up>>

\* The manager call that follows; a kill of a record without execution has none.
CallOf(me) ==
    CASE me.op = "connect" -> "resume"
      [] me.op = "kill" /\ me.copy.execGen = 0 -> "publish"
      [] OTHER -> me.op

\* begin_resume, begin_pause or begin_kill, published before the runtime acts.
Begin(r) ==
    LET me == act[r]
        new == CASE me.op = "connect" -> BeginResume(me.copy)
                 [] me.op = "pause" -> BeginPause(me.copy, me.keep)
                 [] me.op = "kill" -> BeginKill(me.copy) IN
    /\ me.pc = "begin"
    /\ Write(r, new, [me EXCEPT !.copy = new, !.pc = CallOf(me)])
    /\ exec' = [exec EXCEPT !.unnamed = @ \/ (me.copy.execGen = 0 /\ Swappable(new))]
    /\ UNCHANGED <<expired, lock, up>>

\* The expiry is replaced, or is late enough already.
Extend(r) ==
    LET new == ReplaceExpiry(act[r].copy) IN
    /\ act[r].pc = "expiry"
    /\ \/ Finish(r) /\ UNCHANGED <<rec, expired>>
       \/ Write(r, new, Idle) /\ expired' = (expired /\ ~Swappable(new))
    /\ UNCHANGED <<exec, lock, up>>

-----------------------------------------------------------------------------
(* The supervisor (supervisor.rs, run_maintenance).                        *)

\* Mutant of List: a sandbox that was being created is not listed.
ListSkipsCreating ==
    /\ act[Supervisor].pc = "list"
    /\ Set(Supervisor, IF rec # NoRecord /\ rec.state \notin Terminal \cup {"creating"}
                         THEN [act[Supervisor] EXCEPT !.pc = "reconcile", !.copy = rec]
                         ELSE Idle)
    /\ UNCHANGED <<rec, expired, exec, lock, up>>

\* list_reconcilable
List ==
    /\ act[Supervisor].pc = "list"
    /\ Set(Supervisor, IF rec # NoRecord /\ rec.state \notin Terminal
                         THEN [act[Supervisor] EXCEPT !.pc = "reconcile", !.copy = rec]
                         ELSE Idle)
    /\ UNCHANGED <<rec, expired, exec, lock, up>>

\* ExecutionManager::reconcile and the dispatch on its outcome.
Reconcile ==
    LET me == act[Supervisor]
        c == me.copy IN
    /\ me.pc = "reconcile"
    /\ lock = Free
    /\ \E r \in Reconciled :
         /\ exec' = r[1]
         /\ LET phase == r[1].phase
                leased == [me EXCEPT !.lease = r[1].gen]
                known == c.execGen \in {0, r[1].gen} IN
            CASE r[2] # "ok" -> Finish(Supervisor)
              [] r[2] = "ok" /\ phase \in {"absent", "ended"} -> Goto(Supervisor, "fail")
              [] r[2] = "ok" /\ phase = "created" ->
                   Set(Supervisor, IF ~known THEN Idle
                                   ELSE IF c.state = "creating" THEN [me EXCEPT !.pc = "start"]
                                   ELSE IF c.state = "killing" THEN [leased EXCEPT !.pc = "kill"]
                                   ELSE Idle)
              [] OTHER -> Set(Supervisor, [leased EXCEPT !.pc = "inspect"])
    /\ UNCHANGED <<rec, expired, lock, up>>

\* ensure_kill_target
KillTarget(c, lease) == c.execGen \in {0, lease}

\* Mutant of Reported: a runtime that is being killed counts as stopped.
ReportedKillingAsEnded(e) == IF e.phase = "killing" THEN "ended" ELSE e.phase

\* The state an inspection reports.
Reported(e) ==
    CASE e.phase = "pausing" -> "running"
      [] e.phase = "resuming" -> "paused"
      [] e.phase = "killing" -> IF e.frozen THEN "paused" ELSE "running"
      [] OTHER -> e.phase

\* reconcile_ready: inspect, then finish what the record says was going on.
\* The evidence that does not fit leaves the record as it is.
Inspect ==
    LET me == act[Supervisor]
        c == me.copy
        current == c.execGen = me.lease IN
    /\ me.pc = "inspect"
    /\ lock = Free
    /\ \E o \in Observations(exec) :
       /\ exec' = o[1]
       /\ LET state == Reported(o[1]) IN Set(Supervisor,
         IF o[2] # "ok" \/ o[1].gen # me.lease THEN Idle
         ELSE CASE state = "ended" -> [me EXCEPT !.pc = "fail"]
                [] state = "running" /\ c.state \in {"creating", "resuming"} ->
                     [me EXCEPT !.pc = AfterLease(c)]
                [] state = "running" /\ c.state = "pausing" /\ current ->
                     [me EXCEPT !.pc = "pause", !.keep = c.memory]
                [] state = "paused" /\ c.state = "pausing" -> [me EXCEPT !.pc = "publish"]
                [] state = "paused" /\ c.state = "resuming" /\ current -> [me EXCEPT !.pc = "resume"]
                [] state \in {"running", "paused"} /\ c.state = "killing" /\ KillTarget(c, me.lease) ->
                     [me EXCEPT !.pc = "kill"]
                [] OTHER -> Idle)
    /\ UNCHANGED <<rec, expired, lock, up>>

\* claim_expired selects running sandboxes, and paused ones that are to be killed.
Claimable(r) ==
    /\ r # NoRecord
    /\ r.state = "running" \/ (r.state = "paused" /\ r.policy = "kill")

\* claim_expired, one transaction, and finish_claim.
ReapExpired ==
    /\ act[Supervisor].pc = "idle"
    /\ expired
    /\ Claimable(rec)
    /\ rec' = IF rec.policy = "kill" THEN BeginKill(rec) ELSE BeginPause(rec, rec.policy = "pause")
    /\ Set(Supervisor, [Idle EXCEPT !.op = "reap", !.copy = rec', !.keep = rec'.memory,
                                    !.pc = IF rec.policy = "kill" THEN "kill" ELSE "pause"])
    /\ UNCHANGED <<expired, exec, lock, up>>

-----------------------------------------------------------------------------
(* The world.                                                              *)

\* Bound: a lifetime ends only while the generation is small.
Expire ==
    /\ rec # NoRecord
    /\ rec.gen < MaxGeneration
    /\ ~expired
    /\ expired' = TRUE
    /\ UNCHANGED <<rec, exec, lock, act, up>>

RuntimeExits ==
    /\ "exit" \in Faults
    /\ exec.alive
    /\ exec' = [exec EXCEPT !.alive = FALSE, !.frozen = FALSE]
    /\ UNCHANGED <<rec, expired, lock, act, up>>

\* Mutant of Cancel: a dropped handler leaves the lifecycle lock locked.
CancelKeepsLock(r) ==
    /\ "cancel" \in Faults
    /\ act[r].pc # "idle"
    /\ Finish(r)
    /\ UNCHANGED <<rec, expired, exec, lock, up>>

Cancel(r) ==
    /\ "cancel" \in Faults
    /\ act[r].pc # "idle"
    /\ Finish(r)
    /\ IF lock = r THEN exec' \in Interrupted /\ lock' = Free ELSE UNCHANGED <<exec, lock>>
    /\ UNCHANGED <<rec, expired, up>>

Crash ==
    /\ "crash" \in Faults
    /\ up
    /\ up' = FALSE
    /\ act' = [a \in Actors |-> Idle]
    /\ lock' = Free
    /\ IF lock # Free THEN exec' \in Interrupted ELSE UNCHANGED exec
    /\ UNCHANGED <<rec, expired>>

\* serve: the supervisor starts beside the listener, not before it.
Restart ==
    /\ ~up
    /\ up' = TRUE
    /\ Set(Supervisor, Starting)
    /\ UNCHANGED <<rec, expired, exec, lock>>

-----------------------------------------------------------------------------
Progress(a) ==
    \/ Refuse(a) \/ Claim(a) \/ Complete(a)
    \/ InitializeEnvd(a) \/ Publish(a) \/ Abort(a) \/ Fail(a)

RequestStep(r) == Reserve(r) \/ Begin(r) \/ Extend(r) \/ Progress(r)

SupervisorStep == List \/ Reconcile \/ Inspect \/ ReapExpired \/ Progress(Supervisor)

Next ==
    \/ /\ up
       /\ \/ \E r \in Requests :
               \/ Create(r) \/ Connect(r) \/ Pause(r) \/ SetTimeout(r) \/ Kill(r)
               \/ RequestStep(r)
               \/ Cancel(r)
          \/ SupervisorStep
    \/ Expire
    \/ RuntimeExits
    \/ Crash
    \/ Restart

Spec == Init /\ [][Next]_vars

\* Handlers and the supervisor are scheduled, the service is restarted; nothing
\* is assumed of clients, faults or time.
FairSpec ==
    /\ Spec
    /\ \A r \in Requests : WF_vars(up /\ RequestStep(r))
    /\ WF_vars(up /\ SupervisorStep)
    /\ WF_vars(Restart)

-----------------------------------------------------------------------------
(* Properties.                                                             *)

\* Every record that is written can be read back: it passes
\* validate_persisted_record, whichever operations raced to write it.
RecordsReadBack ==
    rec # NoRecord =>
        /\ rec.state \in {"running", "pausing", "paused", "resuming"} => rec.execGen # 0
        /\ ~rec.memory => rec.state \in {"pausing", "paused", "resuming"}
        /\ rec.state = "failed" => rec.failure
        /\ rec.failure => rec.state \in {"failed", "killing", "killed"}

\* A sandbox that is recorded as killed does not run, whatever pause, resume,
\* recovery or expiry was under way when it was killed. The exception is a sandbox
\* that was killed while it was being created: its record names no execution, so
\* nothing is asked of the manager, and the create may bring the runtime up later.
KilledDoesNotRun ==
    rec # NoRecord /\ rec.state = "killed" /\ ~exec.unnamed => ~exec.alive

\* The generation is a fence: a running or paused record with the generation of
\* the runtime names the runtime's own state.
FencedStateIsTrue ==
    rec # NoRecord /\ rec.execGen = exec.gen =>
        /\ rec.state = "running" => exec.phase \in {"running", "pausing", "killing", "ended"}
        /\ rec.state = "paused" => exec.phase \in {"paused", "resuming", "killing", "ended"}

InTransition == rec # NoRecord /\ rec.state \in Transitional

\* The supervisor is through, and deferred a guest that was still starting.
Deferred ==
    up /\ act[Supervisor].pc = "idle" /\ exec.phase = "starting" /\ exec.alive

\* After a crash the supervisor finishes what was interrupted: the record
\* becomes running, paused, killed or failed (doc: "retries generation-fenced
\* pause, resume, and kill work after a service crash"), if the service stays
\* up, no client calls before it has reconciled (early) and the manager's calls
\* do not fail. The exception is a guest that is still starting when the supervisor
\* looks: it looks once per start of the service, and leaves the record.
InterruptedWorkIsFinished ==
    <>[]up => ((~up /\ InTransition) ~> (~InTransition \/ Deferred \/ exec.early))

\* A sandbox that is recorded as failed or killed has left no runtime behind,
\* unless somebody is still at work on it: no later request would look for one.
\* The exceptions: a start or a kill (the cleanup after a failed create or
\* connect) that the manager could not finish, whose claim stays with the
\* manager while the record is marked failed all the same; a sandbox that was
\* killed while it was being created; and a client that called before the
\* supervisor had reconciled.
TerminalLeavesNoRuntime ==
    exec.alive /\ rec # NoRecord /\ rec.state \in Terminal =>
        \/ \E a \in Actors : act[a].pc # "idle"
        \/ exec.phase \in {"starting", "killing"}
        \/ exec.unnamed \/ exec.early

Lifecycle == INSTANCE ExecutionLifecycle WITH
    OperationIds <- {}, CreationId <- 0, generation <- exec.gen, claimed <- {}, served <- {},
    phase <- CASE exec.phase = "starting" -> "created"
               [] exec.phase = "pausing" -> "running"
               [] exec.phase = "resuming" -> "paused"
               [] OTHER -> exec.phase

\* The manager assumed here does only what LocalExecution was shown to do.
ManagerKeepsItsPromise == Lifecycle!Spec
=============================================================================
