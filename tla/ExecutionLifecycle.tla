------------------------- MODULE ExecutionLifecycle -------------------------
(***************************************************************************)
(* What ExecutionManager (core/src/traits/execution.rs) promises to the    *)
(* callers of one execution: a lifecycle whose operations are atomic. A    *)
(* start, pause or resume happens or does not; pause, resume and a         *)
(* completed restart advance the generation by exactly one and nothing     *)
(* else does; a restart identity that was served is never executed again;  *)
(* a removed execution never comes back.                                   *)
(***************************************************************************)
EXTENDS Integers

CONSTANTS OperationIds, CreationId

VARIABLES
    phase,      \* the stable state a caller reasons about
    generation, \* the fencing token of leases
    claimed,    \* the restart identity in progress: empty or a singleton
    served      \* the restart identity completed last: empty or a singleton

lifecycleVars == <<phase, generation, claimed, served>>

Init ==
    /\ phase = "absent"
    /\ generation = 1
    /\ claimed = {}
    /\ served = {}

Reserve ==
    /\ phase = "absent"
    /\ phase' = "created"
    /\ UNCHANGED <<generation, claimed, served>>

Start ==
    /\ phase = "created"
    /\ phase' = "running"
    /\ UNCHANGED <<generation, claimed, served>>

Pause ==
    /\ phase = "running"
    /\ phase' = "paused"
    /\ generation' = generation + 1
    /\ UNCHANGED <<claimed, served>>

Resume ==
    /\ phase = "paused"
    /\ phase' = "running"
    /\ generation' = generation + 1
    /\ UNCHANGED <<claimed, served>>

BeginKill ==
    /\ phase \in {"created", "running", "paused"}
    /\ phase' = "killing"
    /\ UNCHANGED <<generation, claimed, served>>

\* A kill ends, or a runtime is found gone.
End ==
    /\ phase \in {"created", "running", "paused", "killing"}
    /\ phase' = "ended"
    /\ UNCHANGED <<generation, claimed, served>>

BeginRestart(id) ==
    /\ phase \in {"created", "running", "paused", "ended"}
    /\ id \notin served \cup {CreationId}
    /\ phase' = "restarting"
    /\ claimed' = {id}
    /\ UNCHANGED <<generation, served>>

EndRestart ==
    /\ phase = "restarting"
    /\ phase' \in {"running", "ended"}
    /\ generation' = generation + 1
    /\ served' = claimed
    /\ claimed' = {}

BeginRemove ==
    /\ phase \in {"created", "ended"}
    /\ phase' = "removing"
    /\ UNCHANGED <<generation, claimed, served>>

\* The record, its generation and its restart history are forgotten.
EndRemove ==
    /\ phase = "removing"
    /\ phase' = "removed"
    /\ generation' = 1
    /\ served' = {}
    /\ UNCHANGED claimed

Next ==
    \/ Reserve \/ Start \/ Pause \/ Resume \/ BeginKill \/ End
    \/ \E id \in OperationIds : BeginRestart(id)
    \/ EndRestart \/ BeginRemove \/ EndRemove

Spec == Init /\ [][Next]_lifecycleVars

=============================================================================
