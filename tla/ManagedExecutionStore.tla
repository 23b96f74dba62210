------------------------ MODULE ManagedExecutionStore ------------------------
(***************************************************************************)
(* The durable record of one managed execution and the compare-and-swap    *)
(* operations of ManagedExecutionStore on it                               *)
(* (runtime/src/managed_execution_store.rs, runtime/src/box_record.rs,     *)
(* local_execution/store.rs, local_execution/record.rs).                   *)
(*                                                                         *)
(* A record is [state, gen, pending, warm, byUser, last]:                  *)
(*   state    BoxRecord.status, the ManagedExecutionState                  *)
(*   gen      metadata.generation                                          *)
(*   pending  metadata.pending_operation, the durable intent of a          *)
(*            transitional state                                           *)
(*   warm     metadata.paused_with_memory                                  *)
(*   byUser   BoxRecord.stopped_by_user                                    *)
(*   last     metadata.last_restart, the last completed restart            *)
(* The creation request and plan never change and are left out, as are the *)
(* process evidence, health, exit code and timestamps of the record.       *)
(***************************************************************************)
EXTENDS Integers, FiniteSets

CONSTANTS
    OperationIds,   \* idempotency identities callers use for create and restart
    CreationId,     \* the identity that reserved this execution
    RestartOptions, \* RestartExecutionOptions (the stop timeout)
    SnapshotIds,    \* filesystem snapshot identities
    MaxGeneration   \* bound on the generation counter (u64 in the code)

ASSUME CreationIdAssumption == CreationId \in OperationIds
ASSUME MaxGenerationAssumption == MaxGeneration \in Nat \ {0}

Generations == 1..MaxGeneration

States == {"creating", "created", "starting", "running", "pausing", "paused",
           "resuming", "snapshotting", "killing", "restart_stopping",
           "restart_starting", "removing", "stopped", "failed"}

\* No record of the execution yet, and a record that was forgotten.
Vacant == {"absent", "removed"}

KeepsResources(state) ==
    state \notin {"creating", "created", "stopped", "failed"}

\* States with a durable intent that recovery has to finish.
Transitional == {"starting", "pausing", "resuming", "snapshotting", "killing",
                 "restart_stopping", "restart_starting", "removing"}

SnapshotSources == {"running", "paused"}

RestartSources == {"created", "running", "paused", "stopped", "failed"}

-----------------------------------------------------------------------------
(* ManagedExecutionOperation and ManagedRestartCompletion.                 *)

Operations ==
    [kind: {"none", "start", "resume", "kill", "remove"}]
      \cup [kind: {"pause"}, keep: BOOLEAN]
      \cup [kind: {"snapshot"}, snap: SnapshotIds, src: SnapshotSources]
      \cup [kind: {"restart"}, id: OperationIds, srcGen: Generations,
            src: RestartSources, opts: RestartOptions]

Intent(kind) == [kind |-> kind]

NoOperation == Intent("none")

Completions ==
    [done: {FALSE}]
      \cup [done: {TRUE}, id: OperationIds, srcGen: Generations,
            tgtGen: Generations, running: BOOLEAN, opts: RestartOptions]

NoRestart == [done |-> FALSE]

Records ==
    [state: States \cup Vacant, gen: Generations, pending: Operations,
     warm: BOOLEAN, byUser: BOOLEAN, last: Completions]

\* Mutant: the generation of a new record starts at zero.
NewRecordFromZero(state) ==
    [state |-> state, gen |-> 0, pending |-> NoOperation, warm |-> TRUE,
     byUser |-> FALSE, last |-> NoRestart]

NewRecord(state) ==
    [state |-> state, gen |-> 1, pending |-> NoOperation, warm |-> TRUE,
     byUser |-> FALSE, last |-> NoRestart]

-----------------------------------------------------------------------------
(* transition_with: one legal edge, its runtime update and its intent.     *)

LegalEdges ==
    ({"creating"} \X {"created", "starting", "killing", "stopped", "failed"})
      \cup ({"created"} \X {"starting", "killing", "restart_stopping", "stopped", "failed"})
      \cup ({"starting"} \X {"created", "creating", "running", "killing", "stopped", "failed"})
      \cup ({"running"} \X {"pausing", "snapshotting", "killing", "restart_stopping",
                            "stopped", "failed"})
      \cup ({"pausing"} \X {"paused", "running", "killing", "stopped", "failed"})
      \cup ({"paused"} \X {"resuming", "snapshotting", "killing", "restart_stopping",
                           "stopped", "failed"})
      \cup ({"resuming"} \X {"running", "paused", "killing", "stopped", "failed"})
      \cup ({"snapshotting"} \X {"running", "paused", "stopped", "failed"})
      \cup ({"killing"} \X {"stopped", "failed"})
      \cup ({"stopped", "failed"} \X {"restart_stopping"})
      \cup ({"restart_stopping"} \X {"restart_starting"})
      \cup ({"restart_starting"} \X {"running", "failed"})

\* Mutant: the restart does not advance the generation.
BumpEdgesWithoutRestart == {<<"pausing", "paused">>, <<"resuming", "running">>}

\* The three edges that hand the execution to a new generation.
BumpEdges == {<<"pausing", "paused">>, <<"resuming", "running">>,
              <<"restart_stopping", "restart_starting">>}

TransitionGeneration(from, to, gen) ==
    IF <<from, to>> \in BumpEdges THEN gen + 1 ELSE gen

\* RuntimeUpdate: what a transition does to the runtime evidence.
RuntimeUpdates == {"none", "handle", "start_handle", "terminal", "kill_terminal",
                   "cold_pause", "restart_advance", "restart_handle",
                   "restart_failed"}

\* apply_handle and clear_live_runtime set paused_with_memory, only the cold
\* pause clears it.
UpdatedWarm(warm, upd) ==
    \/ upd = "none" /\ warm
    \/ upd \notin {"none", "cold_pause"}

\* initialize_health resets stopped_by_user, only a completed kill sets it.
UpdatedByUser(byUser, upd) ==
    \/ upd = "kill_terminal"
    \/ byUser /\ upd \notin {"start_handle", "restart_handle"}

\* The intent the next state carries. "claimed" is the record's intent after
\* the update closure ran: a claim installs its own, other updates keep it.
NextPending(to, claimed) ==
    CASE to = "starting" -> Intent("start")
      [] to = "pausing" -> IF claimed.kind = "pause" THEN claimed
                           ELSE [kind |-> "pause", keep |-> FALSE]
      [] to = "resuming" -> Intent("resume")
      [] to = "killing" -> Intent("kill")
      [] to \in {"snapshotting", "restart_stopping", "restart_starting"} -> claimed
      [] OTHER -> NoOperation

\* transition_with refuses an illegal edge, an exhausted generation, and a
\* snapshot or restart state without its intent.
CanTransition(r, to, claimed) ==
    /\ <<r.state, to>> \in LegalEdges
    /\ TransitionGeneration(r.state, to, r.gen) \in Generations
    /\ to = "snapshotting" => claimed.kind = "snapshot"
    /\ to \in {"restart_stopping", "restart_starting"} => claimed.kind = "restart"
    /\ r.state = "restart_starting" => claimed.kind = "restart"

NextLast(r, to) ==
    IF r.state = "restart_starting" /\ to \in {"running", "failed"}
    THEN [done |-> TRUE, id |-> r.pending.id, srcGen |-> r.pending.srcGen,
          tgtGen |-> r.gen, running |-> (to = "running"), opts |-> r.pending.opts]
    ELSE r.last

TransitionWith(r, to, upd, claimed) ==
    [state |-> to,
     gen |-> TransitionGeneration(r.state, to, r.gen),
     pending |-> NextPending(to, claimed),
     warm |-> UpdatedWarm(r.warm, upd),
     byUser |-> UpdatedByUser(r.byUser, upd),
     last |-> NextLast(r, to)]

\* Mutant: a running execution can be removed.
CanBeginRemoveRunning(r) ==
    r.state \in {"removing", "created", "running", "stopped", "failed"}

\* begin_remove claims a created or terminal record, or finds its own claim.
CanBeginRemove(r) == r.state \in {"removing", "created", "stopped", "failed"}

BeginRemove(r) == [r EXCEPT !.state = "removing", !.pending = Intent("remove")]

\* finish_remove forgets the record. Execution ids are fresh UUIDs, so the
\* id is never reserved again.
FinishRemove == NewRecord("removed")

-----------------------------------------------------------------------------
(* validate_pending_operation and ManagedExecutionMetadata::validate, the  *)
(* conditions under which a stored record can be read back at all.         *)

PendingKind(state) ==
    CASE state = "starting" -> "start"
      [] state = "pausing" -> "pause"
      [] state = "resuming" -> "resume"
      [] state = "snapshotting" -> "snapshot"
      [] state = "killing" -> "kill"
      [] state = "removing" -> "remove"
      [] state \in {"restart_stopping", "restart_starting"} -> "restart"
      [] OTHER -> "none"

\* Only these states may retain the marker of a filesystem-only pause.
ValidColdPause(r) ==
    \/ r.warm
    \/ r.state \in {"paused", "resuming", "killing", "removing"}
    \/ r.state = "pausing" /\ ~r.pending.keep
    \/ r.state \in {"snapshotting", "restart_stopping"} /\ r.pending.src = "paused"

ValidPendingOperation(r) ==
    /\ r.pending.kind = PendingKind(r.state)
    /\ r.state = "restart_stopping" => r.gen = r.pending.srcGen
    /\ r.state = "restart_starting" => r.gen = r.pending.srcGen + 1
    /\ ValidColdPause(r)

ValidMetadata(r) == r.last.done => r.last.tgtGen = r.last.srcGen + 1

=============================================================================
