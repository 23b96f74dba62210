--------------------------- MODULE SandboxBackend ---------------------------
(***************************************************************************)
(* The local execution backend for Sandbox (crun) executions, as the       *)
(* manager sees it: VmLocalExecutionBackend                                *)
(* (local_execution/vm_backend.rs, vm_sandbox.rs), the VmManager it        *)
(* registers in process (vm/mod.rs, vm/sandbox.rs), the crun controller    *)
(* and handler (sandbox/controller.rs, sandbox/handler.rs), and the        *)
(* volume/network attachments (local_execution/resources.rs).              *)
(*                                                                         *)
(* The execution is not configured persistent, so a destroy that does not  *)
(* preserve the rootfs removes the whole box directory, sandbox/           *)
(* runtime.json included.                                                  *)
(***************************************************************************)
EXTENDS ManagedExecutionStore

CONSTANTS
    FaultKinds, \* which environment faults happen: see Fault
    MaxFaults   \* how many faults happen in one behaviour

ASSUME FaultAssumption ==
    /\ FaultKinds \subseteq {"crash", "error", "slow"}
    /\ MaxFaults \in Nat

VARIABLES
    crun,        \* the container crun knows under the execution id
    runtimeJson, \* box_dir/sandbox/runtime.json: names this container, an
                 \* earlier one, or is absent
    owner,       \* is a VmManager registered in this process?
    rootfs,      \* does box_dir hold a writable rootfs generation?
    attached,    \* are named volumes and the network attached to the execution?
    freezeFailed, \* ghost: did a crun pause or resume of this container report
                  \* an error?
    faults       \* environment faults so far

backendVars == <<crun, runtimeJson, owner, rootfs, attached, freezeFailed, faults>>

BackendTypeOK ==
    /\ crun \in {"none", "running", "paused", "stopped"}
    /\ runtimeJson \in {"none", "current", "stale"}
    /\ owner \in BOOLEAN
    /\ rootfs \in BOOLEAN
    /\ attached \in BOOLEAN
    /\ freezeFailed \in BOOLEAN
    /\ faults \in 0..MaxFaults

BackendInit ==
    /\ crun = "none"
    /\ runtimeJson = "none"
    /\ owner = FALSE
    /\ rootfs = FALSE
    /\ attached = FALSE
    /\ freezeFailed = FALSE
    /\ faults = 0

Live == crun \in {"running", "paused"}

\* A fault of the environment: the manager process dies ("crash"), a host
\* command, file or store operation fails ("error"), or the guest's exec
\* endpoint is not ready yet ("slow").
Fault(kind) ==
    /\ kind \in FaultKinds
    /\ faults < MaxFaults
    /\ faults' = faults + 1

NoFault == UNCHANGED faults

-----------------------------------------------------------------------------
(* Rootfs policy and the state a live runtime is reported in.              *)

\* Mutant: the resume of a cold pause does not protect the rootfs.
ForcePreservationOfPauseOnly(r) ==
    \/ r.state = "pausing" /\ r.pending.kind = "pause" /\ ~r.pending.keep
    \/ r.state \in {"restart_stopping", "restart_starting"}

ShouldForceRootfsPreservation(r) ==
    \/ r.state = "pausing" /\ r.pending.kind = "pause" /\ ~r.pending.keep
    \/ r.state = "resuming" /\ ~r.warm
    \/ r.state \in {"restart_stopping", "restart_starting"}

ShouldReusePreservedRootfs(r) ==
    /\ r.state \in {"resuming", "restart_starting"}
    /\ ShouldForceRootfsPreservation(r)

\* The observation is derived from the record, not from the container.
VisibleActiveState(r) ==
    CASE r.state = "paused" -> "paused"
      [] r.state = "resuming" -> IF r.warm THEN "paused" ELSE "running"
      [] r.state \in {"starting", "restart_starting", "running", "pausing", "killing"}
            -> "running"
      [] r.state = "snapshotting" -> r.pending.src
      [] r.state = "restart_stopping" /\ r.pending.src \in {"running", "paused"}
            -> r.pending.src
      [] OTHER -> "error"

-----------------------------------------------------------------------------
(* VmManager::destroy and destroy_preserving_rootfs with a handler.        *)

\* The handler stopped and deleted the container, and the manager is
\* unregistered.
Destroyed(preserve) ==
    /\ crun' = "none"
    /\ runtimeJson' = "none"
    /\ owner' = FALSE
    /\ rootfs' = (preserve /\ rootfs)
    /\ NoFault

\* The handler failed to stop or delete the container (or reported a failure
\* after deleting it). The host teardown continues all the same.
DestroyFailed(preserve) ==
    /\ Fault("error")
    /\ crun' \in {crun, "none"}
    /\ runtimeJson' = IF preserve /\ crun' = crun THEN runtimeJson ELSE "none"
    /\ owner' = FALSE
    /\ rootfs' = (preserve /\ rootfs)

DestroyRegistered(preserve, result) ==
    \/ result = "ok" /\ Destroyed(preserve)
    \/ result = "error" /\ DestroyFailed(preserve)

-----------------------------------------------------------------------------
(* inspect_sandbox, inspect_registered and cleanup_detached_sandbox.       *)

Observations == {"running", "paused", "creating", "stopped", "not_found", "error"}

\* The container exits after the health check and before its process
\* identity is read: handle_from_manager reports NotFound and the manager
\* stays registered.
ExitsUnderInspection ==
    /\ crun' = "stopped"
    /\ owner' = TRUE
    /\ UNCHANGED <<runtimeJson, rootfs, faults>>

InspectRegistered(r, obs) ==
    \/ /\ obs = "error"
       /\ Fault("error")
       /\ owner' = TRUE
       /\ UNCHANGED <<crun, runtimeJson, rootfs>>
    \/ /\ Live
       /\ obs = "creating"
       /\ r.state \in {"starting", "restart_starting"}
       /\ Fault("slow")
       /\ owner' = TRUE
       /\ UNCHANGED <<crun, runtimeJson, rootfs>>
    \/ /\ Live
       /\ obs = VisibleActiveState(r)
       /\ owner' = TRUE
       /\ UNCHANGED <<crun, runtimeJson, rootfs, faults>>
    \/ Live /\ obs = "not_found" /\ ExitsUnderInspection
    \/ ~Live /\ obs = "stopped" /\ Destroyed(ShouldForceRootfsPreservation(r))
    \/ ~Live /\ obs = "error" /\ DestroyFailed(ShouldForceRootfsPreservation(r))

\* No manager is registered in this process: runtime.json decides. A live
\* container whose pid is not the recorded one is an error.
InspectDetached(r, obs) ==
    \/ /\ runtimeJson = "none"
       /\ obs = "not_found"
       /\ UNCHANGED <<crun, runtimeJson, owner, rootfs, faults>>
    \/ /\ runtimeJson # "none"
       /\ obs = "error"
       /\ Fault("error")
       /\ UNCHANGED <<crun, runtimeJson, owner, rootfs>>
    \/ /\ runtimeJson = "stale" /\ Live
       /\ obs = "error"
       /\ UNCHANGED <<crun, runtimeJson, owner, rootfs, faults>>
    \/ /\ runtimeJson = "current" /\ crun = "running"
       /\ InspectRegistered(r, obs)
    \/ /\ runtimeJson = "current" /\ crun = "paused"
       /\ obs = "paused"
       /\ owner' = TRUE
       /\ UNCHANGED <<crun, runtimeJson, rootfs, faults>>
    \/ /\ runtimeJson = "current" /\ crun = "paused"
       /\ obs = "not_found"
       /\ ExitsUnderInspection
    \/ /\ runtimeJson # "none" /\ ~Live
       /\ obs = "stopped"
       /\ Destroyed(ShouldForceRootfsPreservation(r))

InspectSandbox(r, obs) ==
    /\ \/ owner /\ InspectRegistered(r, obs)
       \/ ~owner /\ InspectDetached(r, obs)
    /\ UNCHANGED <<attached, freezeFailed>>

-----------------------------------------------------------------------------
(* kill and stop_for_restart.                                              *)

\* Attach through runtime.json first, then destroy what was found.
DestroyDetachedSandbox(r, preserve, result) ==
    \/ /\ runtimeJson = "current" /\ Live
       /\ DestroyRegistered(preserve, result)
    \/ /\ runtimeJson = "current" /\ Live
       /\ result = "not_found"
       /\ ExitsUnderInspection
    \/ /\ ~(runtimeJson = "current" /\ Live)
       /\ \/ result = "ok" /\ InspectDetached(r, "stopped")
          \/ result \in {"not_found", "error"} /\ InspectDetached(r, result)
    \/ /\ runtimeJson = "current" /\ Live
       /\ result = "error"                        \* before or after the attach
       /\ Fault("error")
       /\ owner' \in {owner, TRUE}
       /\ UNCHANGED <<crun, runtimeJson, rootfs>>

\* A cold-paused record is destroyed through a fresh manager that has no
\* handler: only the box directory goes.
DestroyWithoutHandler(result) ==
    /\ result = "ok"
    /\ runtimeJson' = "none"
    /\ rootfs' = FALSE
    /\ UNCHANGED <<crun, owner, faults>>

KillRuntime(r, result) ==
    /\ \/ owner /\ DestroyRegistered(FALSE, result)
       \/ ~owner /\ ~r.warm /\ DestroyWithoutHandler(result)
       \/ ~owner /\ r.warm /\ DestroyDetachedSandbox(r, FALSE, result)
    /\ UNCHANGED <<attached, freezeFailed>>

\* The id mappings are persisted first, and that needs the box directory.
StopForRestart(r, result) ==
    /\ \/ /\ ~rootfs
          /\ result = "error"
          /\ UNCHANGED <<crun, runtimeJson, owner, rootfs, faults>>
       \/ /\ result = "error"
          /\ Fault("error")
          /\ UNCHANGED <<crun, runtimeJson, owner, rootfs>>
       \/ rootfs /\ owner /\ DestroyRegistered(TRUE, result)
       \/ rootfs /\ ~owner /\ DestroyDetachedSandbox(r, TRUE, result)
    /\ UNCHANGED <<attached, freezeFailed>>

-----------------------------------------------------------------------------
(* pause_sandbox and resume_sandbox: crun pause and resume are idempotent. *)

TransitionSandbox(target, result) ==
    /\ \/ /\ runtimeJson = "current" /\ Live
          /\ result = "ok"
          /\ crun' = target
          /\ owner' = TRUE
          /\ NoFault
          /\ UNCHANGED freezeFailed
       \/ /\ ~(runtimeJson = "current" /\ Live)
          /\ result = "error"
          /\ UNCHANGED <<crun, owner, freezeFailed, faults>>
       \/ /\ runtimeJson = "current" /\ Live      \* it exits before the handle is read
          /\ result = "error"
          /\ crun' = "stopped"
          /\ owner' = TRUE
          /\ NoFault
          /\ UNCHANGED freezeFailed
       \/ /\ result = "error"
          /\ Fault("error")
          /\ crun' \in IF Live THEN {crun, target} ELSE {crun}
          /\ owner' \in {owner, TRUE}
          /\ freezeFailed' = TRUE
    /\ UNCHANGED <<runtimeJson, rootfs, attached>>

-----------------------------------------------------------------------------
(* start: resource guard, boot_sandbox, CrunController::start, readiness.  *)
(* acquired: this start attached the resources and rolls them back;        *)
(* reuse: it boots a preserved rootfs, which a boot failure must keep.     *)

PrepareResources(ok) ==
    \/ /\ ~ok /\ owner                     \* another in-process owner
       /\ UNCHANGED backendVars
    \/ /\ ~ok /\ ~owner                    \* a volume or network is missing
       /\ Fault("error")
       /\ UNCHANGED <<crun, runtimeJson, owner, rootfs, attached, freezeFailed>>
    \/ /\ ok /\ ~owner
       /\ owner' = TRUE
       /\ attached' = TRUE
       /\ UNCHANGED <<crun, runtimeJson, rootfs, freezeFailed, faults>>

Rollback(acquired) == attached' = (attached /\ ~acquired)

\* cleanup_boot_failure after the container is gone or was never spawned.
BootFailed(acquired, reuse) ==
    /\ Rollback(acquired)
    /\ owner' = FALSE
    /\ rootfs' = (reuse /\ rootfs)

\* require_absent refuses a live container before anything is touched and
\* deletes a stopped one; then the rootfs is prepared and crun is spawned.
Launch(acquired, reuse, ok) ==
    \/ /\ Live /\ ~ok
       /\ Rollback(acquired)
       /\ owner' = FALSE
       /\ UNCHANGED <<crun, runtimeJson, rootfs, freezeFailed, faults>>
    \/ /\ ~Live /\ ~ok
       /\ Fault("error")
       /\ BootFailed(acquired, reuse)
       /\ crun' = "none"
       /\ runtimeJson' = IF reuse THEN runtimeJson ELSE "none"
       /\ UNCHANGED freezeFailed
    \/ /\ ~Live /\ ok
       /\ crun' = "running"
       /\ runtimeJson' = IF runtimeJson = "none" THEN "none" ELSE "stale"
       /\ rootfs' = TRUE
       /\ freezeFailed' = FALSE
       /\ UNCHANGED <<owner, attached, faults>>

\* The container is running, runtime.json is written last. cleanup_failed_start
\* ignores a failing crun delete.
RecordRuntime(acquired, reuse, ok) ==
    \/ /\ ok /\ Live
       /\ runtimeJson' = "current"
       /\ UNCHANGED <<crun, owner, rootfs, attached, freezeFailed, faults>>
    \/ /\ ~ok /\ ~Live
       /\ BootFailed(acquired, reuse)
       /\ crun' = "none"
       /\ runtimeJson' = "none"
       /\ UNCHANGED <<freezeFailed, faults>>
    \/ /\ ~ok /\ Live
       /\ Fault("error")
       /\ BootFailed(acquired, reuse)
       /\ crun' \in {crun, "none"}
       /\ runtimeJson' = "none"
       /\ UNCHANGED freezeFailed

\* wait_for_exec_ready, then handle_from_manager. A container that already
\* exited has no process identity: start fails with the manager registered
\* and the resources disarmed, hence kept.
AwaitReady(acquired, reuse, ok) ==
    \/ /\ ok = Live
       /\ UNCHANGED backendVars
    \/ /\ ~ok
       /\ Fault("error")
       /\ BootFailed(acquired, reuse)
       /\ crun' \in {crun, "none"}
       /\ runtimeJson' = IF reuse /\ crun' = crun THEN runtimeJson ELSE "none"
       /\ UNCHANGED freezeFailed

-----------------------------------------------------------------------------
(* release_resources, and cleanup_execution_paths of remove.               *)

ReleaseResources(ok) ==
    /\ \/ ok /\ attached' = FALSE /\ NoFault
       \/ ~ok /\ Fault("error") /\ UNCHANGED attached
    /\ UNCHANGED <<crun, runtimeJson, owner, rootfs, freezeFailed>>

\* The recorded runtime is deleted by force and the box directory removed. A
\* container without runtime.json is not looked for.
CleanupExecutionPaths(ok) ==
    /\ \/ /\ ok
          /\ crun' = IF runtimeJson = "none" THEN crun ELSE "none"
          /\ runtimeJson' = "none"
          /\ rootfs' = FALSE
          /\ NoFault
       \/ /\ ~ok
          /\ Fault("error")
          /\ UNCHANGED <<crun, runtimeJson, rootfs>>
    /\ UNCHANGED <<owner, attached, freezeFailed>>

=============================================================================
