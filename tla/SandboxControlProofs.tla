------------------------ MODULE SandboxControlProofs ------------------------
(***************************************************************************)
(* Theorems about SandboxControl for every set of requests and faults and  *)
(* every bound: the safety invariants that MCSandboxControl checks for two *)
(* requests, and that the manager it assumes stays within                  *)
(* ExecutionLifecycle.                                                     *)
(***************************************************************************)
EXTENDS SandboxControl, TLAPS

-----------------------------------------------------------------------------
(* The inductive invariant                                                 *)

\* Where an execution of one generation can be once it ran, once it was paused.
RunPhases == {"running", "pausing", "killing", "ended"}
PausePhases == {"paused", "resuming", "killing", "ended"}

GoodExecution(e) ==
    /\ e.phase = "absent" => e.gen = 1 /\ ~e.alive
    /\ e.phase = "ended" => ~e.alive

\* What the record says of the runtime: FencedStateIsTrue with the transitions
\* that may be aborted, KilledDoesNotRun with what makes it last, and what
\* validate_persisted_record asks of it.
GoodRecord(r, e) ==
    /\ r.execGen <= e.gen
    /\ e.phase = "absent" => r.execGen = 0
    /\ r.execGen = e.gen =>
          /\ r.state \in {"running", "pausing"} => e.phase \in RunPhases
          /\ r.state \in {"paused", "resuming"} => e.phase \in PausePhases
    /\ r.state = "killed" /\ ~e.unnamed => e.phase = "ended"
    /\ r.state \in {"running", "pausing", "paused", "resuming"} => r.execGen # 0
    /\ r.state = "killing" /\ ~e.unnamed => r.execGen # 0
    /\ ~r.memory => r.state \in {"pausing", "paused", "resuming"}
    /\ r.state = "failed" => r.failure
    /\ r.failure => r.state \in {"failed", "killing", "killed"}

RecordFits == IF rec = NoRecord THEN exec.phase = "absent" ELSE GoodRecord(rec, exec)

\* The actor has a copy of the record.
Holds(m) == m.pc \notin {"idle", "list"}

\* Every write advances the generation: a copy with the generation of the record
\* is the record, which is why a compare and swap is enough.
GoodCopy(c, r, e) ==
    /\ r # NoRecord
    /\ c \in SandboxRecord
    /\ c.gen <= r.gen
    /\ c.gen = r.gen => c = r
    /\ c.execGen <= e.gen
    /\ e.phase = "absent" => c.execGen = 0
    /\ c.state = "killing" /\ ~e.unnamed => c.execGen # 0

\* What an actor's copy says at each of its steps.
GoodStep(m) ==
    /\ m.pc \in {"reserve", "start"} => m.copy.state = "creating"
    /\ m.pc = "pause" => m.copy.state = "pausing"
    /\ m.pc = "resume" => m.copy.state = "resuming"
    /\ m.pc = "kill" => m.copy.state \in {"creating", "resuming", "killing"}
    /\ m.pc = "envd" => m.copy.state \in {"creating", "resuming"}
    /\ m.pc = "publish" => m.copy.state \in Transitional
    /\ m.pc = "abort" => m.copy.state \in {"pausing", "resuming"}
    /\ m.pc \in {"fail", "reconcile", "inspect"} => m.copy.state \notin Terminal
    /\ m.pc = "begin" =>
          \/ m.op = "connect" /\ m.copy.state = "paused"
          \/ m.op = "pause" /\ m.copy.state = "running"
          \/ m.op = "kill"

\* A lease of the runtime's generation that is about to be published says what
\* the runtime does; a kill is published when nothing runs, unless the record
\* named no execution when it was killed.
GoodLease(m, e) ==
    /\ m.lease <= e.gen
    /\ e.phase = "absent" => m.lease = 0
    /\ m.pc \in {"envd", "publish"} /\ m.lease = e.gen =>
          /\ m.copy.state \in {"creating", "resuming"} => e.phase \in RunPhases
          /\ m.copy.state = "pausing" => e.phase \in PausePhases
    /\ m.pc \in {"publish", "fail"} /\ m.copy.state = "killing" /\ ~e.unnamed => e.phase = "ended"
    /\ m.pc = "reserve" => e.phase = "absent"

GoodActor(m, r, e) ==
    /\ Holds(m) => GoodCopy(m.copy, r, e) /\ GoodStep(m)
    /\ GoodLease(m, e)

OneReserver ==
    \A a, b \in Actors : act[a].pc = "reserve" /\ act[b].pc = "reserve" => a = b

\* The claim of the operation that holds the lifecycle lock.
GoodClaim(pc, phase) ==
    \/ pc = "start" /\ phase \in {"starting", "running"}
    \/ pc = "pause" /\ phase = "pausing"
    \/ pc = "resume" /\ phase = "resuming"
    \/ pc = "kill" /\ phase \in {"killing", "ended"}

LockFits == lock # Free => up /\ GoodClaim(act[lock].pc, exec.phase)

IndInv ==
    /\ TypeOK
    /\ GoodExecution(exec)
    /\ RecordFits
    /\ \A a \in Actors : GoodActor(act[a], rec, exec)
    /\ OneReserver
    /\ LockFits

-----------------------------------------------------------------------------
(* The manager                                                             *)

\* The stable phase that a caller of the manager reasons about.
Stable(phase) ==
    CASE phase = "starting" -> "created"
      [] phase = "pausing" -> "running"
      [] phase = "resuming" -> "paused"
      [] OTHER -> phase

\* What a step of the manager makes of an execution that exists: what
\* ExecutionLifecycle allows.
Evolves(e, f) ==
    /\ f \in Execution
    /\ GoodExecution(f)
    /\ e.unnamed => f.unnamed
    /\ \/ f.gen = e.gen /\ Stable(f.phase) = Stable(e.phase)
       \/ f.gen = e.gen /\ Stable(e.phase) = "created" /\ Stable(f.phase) = "running"
       \/ f.gen = e.gen + 1 /\ Stable(e.phase) = "running" /\ Stable(f.phase) = "paused"
       \/ f.gen = e.gen + 1 /\ Stable(e.phase) = "paused" /\ Stable(f.phase) = "running"
       \/ f.gen = e.gen /\ Stable(e.phase) \in {"created", "running", "paused"} /\ Stable(f.phase) = "killing"
       \/ f.gen = e.gen /\ Stable(e.phase) \in {"created", "running", "paused", "killing"} /\ Stable(f.phase) = "ended"

LEMMA EvolveFacts ==
    ASSUME NEW e \in Execution, NEW f, Evolves(e, f)
    PROVE  /\ f.gen >= e.gen
           /\ f.phase = "absent" <=> e.phase = "absent"
           /\ e.phase = "ended" => f.phase = "ended"
           /\ ~f.unnamed => ~e.unnamed
           /\ f.gen = e.gen => /\ e.phase \in RunPhases => f.phase \in RunPhases
                               /\ e.phase \in PausePhases => f.phase \in PausePhases
  BY DEF Evolves, Execution, Phases, Stable, RunPhases, PausePhases

LEMMA EvolveSame ==
    ASSUME NEW e \in Execution, GoodExecution(e)
    PROVE  Evolves(e, e)
  BY DEF Evolves

\* A client's call only marks the execution.
Marks(e, f) ==
    /\ f \in Execution
    /\ f.phase = e.phase /\ f.gen = e.gen /\ f.alive = e.alive
    /\ e.unnamed => f.unnamed

LEMMA MarkEvolves ==
    ASSUME NEW e \in Execution, GoodExecution(e), NEW f, Marks(e, f)
    PROVE  Evolves(e, f)
  BY DEF Marks, Evolves, GoodExecution

\* The new execution, field by field.
LEMMA ExecutionFacts ==
    ASSUME NEW e \in Execution
    PROVE  /\ Running(e) \in Execution /\ Running(e).phase = "running" /\ Running(e).gen = e.gen /\ Running(e).unnamed = e.unnamed
           /\ Ended(e) \in Execution /\ Ended(e).phase = "ended" /\ Ended(e).gen = e.gen /\ ~Ended(e).alive /\ Ended(e).unnamed = e.unnamed
           /\ Resumed(e) \in Execution /\ Resumed(e).phase = "running" /\ Resumed(e).gen = e.gen + 1 /\ Resumed(e).unnamed = e.unnamed
           /\ Paused(e) \in Execution /\ Paused(e).phase = "paused" /\ Paused(e).gen = e.gen + 1 /\ Paused(e).unnamed = e.unnamed
           /\ Effect(e) \in Execution /\ Effect(e).phase = e.phase /\ Effect(e).gen = e.gen /\ Effect(e).unnamed = e.unnamed
           /\ e.phase \in {"absent", "ended"} => Effect(e) = e
  <1>1. /\ e.phase \in Phases /\ e.gen \in Nat \ {0} /\ e.gen + 1 \in Nat \ {0}
        /\ e.cold \in BOOLEAN /\ e.alive \in BOOLEAN /\ e.frozen \in BOOLEAN
        /\ e.unnamed \in BOOLEAN /\ e.early \in BOOLEAN
    BY DEF Execution
  <1>2. /\ Running(e) \in Execution /\ Running(e).phase = "running" /\ Running(e).gen = e.gen /\ Running(e).unnamed = e.unnamed
    BY DEF Running, Execution, Phases
  <1>3. /\ Ended(e) \in Execution /\ Ended(e).phase = "ended" /\ Ended(e).gen = e.gen /\ ~Ended(e).alive /\ Ended(e).unnamed = e.unnamed
    BY DEF Ended, Execution, Phases
  <1>4. /\ Resumed(e) \in Execution /\ Resumed(e).phase = "running" /\ Resumed(e).gen = e.gen + 1 /\ Resumed(e).unnamed = e.unnamed
    BY <1>1, <1>2 DEF Resumed, Execution
  <1>5. /\ Paused(e) \in Execution /\ Paused(e).phase = "paused" /\ Paused(e).gen = e.gen + 1 /\ Paused(e).unnamed = e.unnamed
    BY <1>1 DEF Paused, Execution, Phases
  <1>6. /\ Effect(e) \in Execution /\ Effect(e).phase = e.phase /\ Effect(e).gen = e.gen /\ Effect(e).unnamed = e.unnamed
        /\ e.phase \in {"absent", "ended"} => Effect(e) = e
    BY <1>1 DEF Effect, Execution
  <1> QED
    BY <1>2, <1>3, <1>4, <1>5, <1>6

LEMMA FailsFacts ==
    ASSUME NEW rollbacks, NEW e, NEW c \in Fails(rollbacks, e)
    PROVE  c[2] = "error" /\ (c[1] \in rollbacks \/ c[1] = e \/ c[1] = Effect(e))
  BY DEF Fails

\* What completes an operation, and where the runtime is when it answers.
Answers(e, f) ==
    /\ e.phase \in {"starting", "running", "resuming"} => f.phase = "running"
    /\ e.phase = "pausing" => f.phase = "paused"
    /\ e.phase \in {"killing", "ended"} => f.phase = "ended"

LEMMA CompletionFacts ==
    ASSUME NEW e \in Execution, GoodExecution(e), NEW c \in Completions(e)
    PROVE  /\ Evolves(e, c[1])
           /\ c[2] \in {"ok", "error", "notfound"}
           /\ c[2] = "ok" => Answers(e, c[1])
  <1>1. Evolves(e, e)
    BY EvolveSame
  <1>2. Evolves(e, Effect(e))
    BY ExecutionFacts DEF Evolves, GoodExecution
  <1>3. e.phase \in Phases
    BY DEF Execution
  <1>4. CASE e.phase = "starting"
    <2>1. /\ Evolves(e, Running(e)) /\ Evolves(e, Ended(e)) /\ Answers(e, Running(e))
          /\ Evolves(e, [e EXCEPT !.phase = "created"])
      <3>1. /\ [e EXCEPT !.phase = "created"] \in Execution /\ [e EXCEPT !.phase = "created"].gen = e.gen
            /\ [e EXCEPT !.phase = "created"].phase = "created" /\ [e EXCEPT !.phase = "created"].unnamed = e.unnamed
        BY DEF Execution, Phases
      <3> QED
        BY <1>4, <3>1, ExecutionFacts DEF Evolves, GoodExecution, Stable, Answers
    <2>2. c = Ok(Running(e)) \/ c \in Fails({[e EXCEPT !.phase = "created"], Ended(e)}, e)
      BY <1>4 DEF Completions
    <2>3. CASE c = Ok(Running(e))
      BY <2>1, <2>3 DEF Ok
    <2>4. CASE c \in Fails({[e EXCEPT !.phase = "created"], Ended(e)}, e)
      BY <1>1, <1>2, <2>1, <2>4, FailsFacts
    <2> QED
      BY <2>2, <2>3, <2>4
  <1>5. CASE e.phase = "pausing"
    <2>1. Evolves(e, Running(e)) /\ Evolves(e, Paused(e)) /\ Answers(e, Paused(e))
      BY <1>5, ExecutionFacts DEF Evolves, GoodExecution, Stable, Answers
    <2>2. \/ c = Ok(Paused(e)) \/ c \in Fails({Running(e)}, e)
          \/ c \in {<<e, "error">>, <<e, "notfound">>}
      BY <1>5 DEF Completions, Execution
    <2>3. CASE c = Ok(Paused(e))
      BY <2>1, <2>3 DEF Ok
    <2>4. CASE c \in Fails({Running(e)}, e)
      BY <1>1, <1>2, <2>1, <2>4, FailsFacts
    <2>5. CASE c \in {<<e, "error">>, <<e, "notfound">>}
      BY <1>1, <2>5
    <2> QED
      BY <2>2, <2>3, <2>4, <2>5
  <1>6. CASE e.phase = "resuming"
    <2> DEFINE back == [e EXCEPT !.phase = "paused"]
    <2>1. Evolves(e, back) /\ Evolves(e, Resumed(e)) /\ Answers(e, Resumed(e))
      <3>1. back \in Execution /\ back.gen = e.gen /\ back.phase = "paused" /\ back.unnamed = e.unnamed
        BY DEF Execution, Phases
      <3> HIDE DEF back
      <3> QED
        BY <1>6, <3>1, ExecutionFacts DEF Evolves, GoodExecution, Stable, Answers
    <2>2. \/ c = Ok(Resumed(e)) \/ c \in Fails({back}, e)
          \/ c \in {<<e, "error">>, <<e, "notfound">>}
      BY <1>6 DEF Completions, Execution
    <2>3. CASE c = Ok(Resumed(e))
      BY <2>1, <2>3 DEF Ok
    <2>4. CASE c \in Fails({back}, e)
      BY <1>1, <1>2, <2>1, <2>4, FailsFacts
    <2>5. CASE c \in {<<e, "error">>, <<e, "notfound">>}
      BY <1>1, <2>5
    <2> QED
      BY <2>2, <2>3, <2>4, <2>5
  <1>7. CASE e.phase = "killing"
    <2>1. Evolves(e, Ended(e)) /\ Answers(e, Ended(e))
      BY <1>7, ExecutionFacts DEF Evolves, GoodExecution, Stable, Answers
    <2>2. c = Ok(Ended(e)) \/ c \in Fails({e}, e)
      BY <1>7 DEF Completions
    <2>3. CASE c = Ok(Ended(e))
      BY <2>1, <2>3 DEF Ok
    <2>4. CASE c \in Fails({e}, e)
      BY <1>1, <1>2, <2>4, FailsFacts
    <2> QED
      BY <2>2, <2>3, <2>4
  <1>8. CASE e.phase \notin {"starting", "pausing", "resuming", "killing"}
    <2>1. c = Ok(e)
      BY <1>8 DEF Completions
    <2> QED
      BY <1>1, <1>8, <2>1 DEF Ok, Answers
  <1> QED
    BY <1>4, <1>5, <1>6, <1>7, <1>8

\* What an observation leaves transitional is the execution as it was.
LEMMA ObservationFacts ==
    ASSUME NEW e \in Execution, GoodExecution(e), NEW o \in Observations(e)
    PROVE  /\ Evolves(e, o[1])
           /\ o[2] = "ok" /\ o[1].phase \in {"starting", "pausing", "resuming", "killing"} => o[1] = e
  <1>1. Evolves(e, e)
    BY EvolveSame
  <1>2. CASE o = Ok(e)
    BY <1>1, <1>2 DEF Ok
  <1>3. CASE e.phase = "starting" /\ o = Ok(Running(e))
    BY <1>3, ExecutionFacts DEF Ok, Evolves, GoodExecution, Stable
  <1>8. CASE o = <<e, "creating">>
    BY <1>1, <1>8
  <1>4. CASE e.phase \in {"pausing", "resuming"} /\ o \in Completions(e)
    BY <1>4, CompletionFacts DEF Answers
  <1>5. CASE e.phase = "pausing" /\ o = Ok(Paused(e))
    BY <1>5, ExecutionFacts DEF Ok, Evolves, GoodExecution, Stable
  <1>6. CASE e.phase = "resuming" /\ o = Ok(Resumed(e))
    BY <1>6, ExecutionFacts DEF Ok, Evolves, GoodExecution, Stable
  <1>7. CASE e.phase \in {"killing", "running", "pausing", "paused", "resuming"} /\ o = Ok(Ended(e))
    BY <1>7, ExecutionFacts DEF Ok, Evolves, GoodExecution, Stable
  <1> QED
    BY <1>2, <1>3, <1>4, <1>5, <1>6, <1>7, <1>8 DEF Observations, Execution

LEMMA ReconciledFacts ==
    ASSUME exec \in Execution, GoodExecution(exec), NEW c \in Reconciled
    PROVE  Evolves(exec, c[1])
  <1>1. PICK o \in Observations(exec) :
           c \in IF o[2] = "ok" /\ o[1].phase \in {"starting", "pausing", "resuming", "killing"}
                   THEN Completions(o[1]) ELSE {o}
    BY DEF Reconciled
  <1>2. CASE o[2] = "ok" /\ o[1].phase \in {"starting", "pausing", "resuming", "killing"}
    <2>1. o[1] = exec /\ c \in Completions(exec)
      BY <1>1, <1>2, ObservationFacts
    <2> QED
      BY <2>1, CompletionFacts
  <1>3. CASE ~(o[2] = "ok" /\ o[1].phase \in {"starting", "pausing", "resuming", "killing"})
    BY <1>1, <1>3, ObservationFacts
  <1> QED
    BY <1>2, <1>3

LEMMA InterruptedFacts ==
    ASSUME exec \in Execution, GoodExecution(exec), NEW e \in Interrupted
    PROVE  Evolves(exec, e) /\ e.phase = exec.phase
  BY EvolveSame, ExecutionFacts DEF Interrupted, Evolves, GoodExecution

-----------------------------------------------------------------------------
(* How an actor goes on                                                    *)

\* The record stays or is replaced by a later one.
RecordMoves(r, s) == s = r \/ (r \in SandboxRecord /\ s \in SandboxRecord /\ s.gen > r.gen)

LEMMA RecordTypes ==
    ASSUME NEW r \in SandboxRecord
    PROVE  /\ r.gen \in Nat \ {0} /\ r.execGen \in Nat /\ r.state \in LifecycleStates
           /\ r.memory \in BOOLEAN /\ r.failure \in BOOLEAN /\ r.policy \in Policies
           /\ r # NoRecord
  BY NoRecordAssumption DEF SandboxRecord

\* Who does not move keeps what is known of it.
LEMMA ActorKept ==
    ASSUME NEW m \in Actor, NEW r \in SandboxRecord \cup {NoRecord}, NEW s, RecordMoves(r, s),
           NEW e \in Execution, NEW f, Evolves(e, f), GoodActor(m, r, e)
    PROVE  GoodActor(m, s, f)
  <1>1. /\ e.gen \in Nat /\ f.gen \in Nat /\ m.lease \in Nat /\ f.gen >= e.gen
        /\ f.phase = "absent" <=> e.phase = "absent"
        /\ e.phase = "ended" => f.phase = "ended"
        /\ ~f.unnamed => ~e.unnamed
        /\ f.gen = e.gen => /\ e.phase \in RunPhases => f.phase \in RunPhases
                            /\ e.phase \in PausePhases => f.phase \in PausePhases
    <2>1. f \in Execution
      BY DEF Evolves
    <2> QED
      BY <2>1, EvolveFacts DEF Execution, Actor
  <1>2. ASSUME Holds(m)
        PROVE  GoodCopy(m.copy, s, f) /\ GoodStep(m)
    <2>1. GoodCopy(m.copy, r, e) /\ GoodStep(m) /\ r \in SandboxRecord
      BY <1>2 DEF GoodActor, GoodCopy
    <2>2. /\ m.copy \in SandboxRecord /\ m.copy.gen \in Nat /\ m.copy.execGen \in Nat
          /\ r.gen \in Nat /\ s.gen \in Nat /\ s # NoRecord
      BY <2>1, RecordTypes DEF GoodCopy, RecordMoves
    <2> QED
      BY <1>1, <2>1, <2>2 DEF GoodCopy, RecordMoves
  <1>3. GoodLease(m, f)
    BY <1>1 DEF GoodActor, GoodLease
  <1> QED
    BY <1>2, <1>3 DEF GoodActor

\* Neither does the record, when only the runtime moves.
LEMMA RecordKept ==
    ASSUME NEW r \in SandboxRecord, NEW e \in Execution, NEW f, Evolves(e, f), GoodRecord(r, e)
    PROVE  GoodRecord(r, f)
  <1>1. /\ e.gen \in Nat /\ f.gen \in Nat /\ f.gen >= e.gen
        /\ f.phase = "absent" <=> e.phase = "absent"
        /\ e.phase = "ended" => f.phase = "ended"
        /\ ~f.unnamed => ~e.unnamed
        /\ f.gen = e.gen => /\ e.phase \in RunPhases => f.phase \in RunPhases
                            /\ e.phase \in PausePhases => f.phase \in PausePhases
    <2>1. f \in Execution
      BY DEF Evolves
    <2> QED
      BY <2>1, EvolveFacts DEF Execution
  <1>2. r.execGen \in Nat
    BY RecordTypes
  <1> QED
    BY <1>1, <1>2 DEF GoodRecord

LEMMA IdleFacts ==
    /\ Idle \in Actor /\ Idle.pc = "idle" /\ Idle.lease = 0
    /\ Starting \in Actor /\ Starting.pc = "list" /\ Starting.lease = 0
  BY DEF Idle, Starting, Actor, Pcs, AllOps

LEMMA AtEase ==
    ASSUME NEW m, m.pc \in {"idle", "list"}, m.lease = 0, NEW r, NEW e \in Execution
    PROVE  GoodActor(m, r, e)
  BY DEF GoodActor, Holds, GoodLease, Execution

\* An actor with another step, and with the lease it was given.
LEMMA ActorFacts ==
    ASSUME NEW m \in Actor, NEW pc \in Pcs, NEW lease \in Nat
    PROVE  /\ [m EXCEPT !.pc = pc] \in Actor
           /\ [m EXCEPT !.pc = pc].pc = pc /\ [m EXCEPT !.pc = pc].op = m.op
           /\ [m EXCEPT !.pc = pc].copy = m.copy /\ [m EXCEPT !.pc = pc].lease = m.lease
           /\ [[m EXCEPT !.lease = lease] EXCEPT !.pc = pc] \in Actor
           /\ [[m EXCEPT !.lease = lease] EXCEPT !.pc = pc].pc = pc
           /\ [[m EXCEPT !.lease = lease] EXCEPT !.pc = pc].op = m.op
           /\ [[m EXCEPT !.lease = lease] EXCEPT !.pc = pc].copy = m.copy
           /\ [[m EXCEPT !.lease = lease] EXCEPT !.pc = pc].lease = lease
  BY DEF Actor

LEMMA SetFacts ==
    ASSUME act \in [Actors -> Actor], NEW a \in Actors, NEW new \in Actor, Set(a, new)
    PROVE  /\ act' \in [Actors -> Actor]
           /\ act'[a] = new
           /\ \A b \in Actors : b # a => act'[b] = act[b]
  BY DEF Set

LEMMA FinishFacts ==
    ASSUME act \in [Actors -> Actor], NEW a \in Actors, Finish(a)
    PROVE  /\ act' \in [Actors -> Actor]
           /\ act'[a] = Idle
           /\ \A b \in Actors : b # a => act'[b] = act[b]
  BY IdleFacts, SetFacts DEF Finish

LEMMA GotoFacts ==
    ASSUME act \in [Actors -> Actor], NEW a \in Actors, NEW pc \in Pcs, Goto(a, pc)
    PROVE  /\ act' \in [Actors -> Actor]
           /\ act'[a].pc = pc /\ act'[a].op = act[a].op
           /\ act'[a].copy = act[a].copy /\ act'[a].lease = act[a].lease
           /\ \A b \in Actors : b # a => act'[b] = act[b]
  <1> DEFINE new == [act[a] EXCEPT !.pc = pc]
  <1>1. act[a] \in Actor /\ 0 \in Nat
    OBVIOUS
  <1>2. /\ new \in Actor /\ new.pc = pc /\ new.op = act[a].op
        /\ new.copy = act[a].copy /\ new.lease = act[a].lease
    BY <1>1, ActorFacts
  <1> QED
    BY <1>2, SetFacts DEF Goto

\* A step of one actor, or of none.
LEMMA OneActorStep ==
    ASSUME IndInv, NEW a \in Actors,
           act' \in [Actors -> Actor], \A b \in Actors : b # a => act'[b] = act[b],
           rec' \in SandboxRecord \cup {NoRecord}, RecordMoves(rec, rec'),
           rec' = rec \/ GoodRecord(rec', exec'),
           Evolves(exec, exec'),
           expired' \in BOOLEAN, up' \in BOOLEAN, lock' \in Actors \cup {Free}, LockFits',
           act'[a] = act[a] \/ (GoodActor(act'[a], rec', exec') /\ act'[a].pc # "reserve")
    PROVE  IndInv'
  <1>1. exec \in Execution /\ GoodExecution(exec) /\ rec \in SandboxRecord \cup {NoRecord}
    BY DEF IndInv, TypeOK
  <1>2. exec' \in Execution /\ GoodExecution(exec)'
    BY DEF Evolves
  <1>3. \A b \in Actors : GoodActor(act[b], rec', exec')
    BY <1>1, ActorKept DEF IndInv, TypeOK
  <1>4. \A b \in Actors : GoodActor(act'[b], rec', exec')
    BY <1>3
  <1>5. OneReserver'
    BY DEF IndInv, OneReserver
  <1>6. RecordFits'
    <2>1. CASE rec' = rec
      <3>1. CASE rec = NoRecord
        BY <1>1, <2>1, <3>1, EvolveFacts DEF IndInv, RecordFits
      <3>2. CASE rec # NoRecord
        BY <1>1, <2>1, <3>2, RecordKept DEF IndInv, RecordFits
      <3> QED
        BY <3>1, <3>2
    <2>2. CASE rec' # rec
      BY <2>2, RecordTypes DEF RecordMoves, RecordFits
    <2> QED
      BY <2>1, <2>2
  <1>7. TypeOK'
    BY <1>2 DEF TypeOK, LockFits, GoodClaim
  <1> QED
    BY <1>2, <1>4, <1>5, <1>6, <1>7 DEF IndInv

\* An actor that is not in a call of the manager moves; the runtime does not.
LEMMA LockKept ==
    ASSUME IndInv, NEW a \in Actors, act[a].pc \notin NeedsManager,
           \A b \in Actors : b # a => act'[b] = act[b],
           UNCHANGED <<lock, up>>, exec'.phase = exec.phase
    PROVE  LockFits' /\ lock # a
  <1>1. lock \in Actors \cup {Free} /\ LockFits /\ a # Free
    BY ControlAssumption DEF IndInv, TypeOK, Actors
  <1>2. lock # a
    <2> SUFFICES ASSUME lock = a PROVE act[a].pc \in NeedsManager
      OBVIOUS
    <2>1. GoodClaim(act[a].pc, exec.phase)
      BY <1>1 DEF LockFits
    <2> QED
      BY <2>1 DEF GoodClaim, NeedsManager
  <1>3. CASE lock = Free
    BY <1>2, <1>3 DEF LockFits
  <1>4. CASE lock # Free
    <2>1. act'[lock] = act[lock]
      BY <1>1, <1>2, <1>4
    <2> QED
      BY <1>1, <1>2, <1>4, <2>1 DEF LockFits
  <1> QED
    BY <1>2, <1>3, <1>4

LEMMA QuietStep ==
    ASSUME IndInv, NEW a \in Actors, act[a].pc \notin NeedsManager,
           UNCHANGED <<rec, lock, up>>, Marks(exec, exec'), expired' \in BOOLEAN,
           act' \in [Actors -> Actor], \A b \in Actors : b # a => act'[b] = act[b],
           GoodActor(act'[a], rec, exec'), act'[a].pc # "reserve"
    PROVE  IndInv'
  <1>1. LockFits'
    BY LockKept DEF Marks
  <1>2. /\ rec' \in SandboxRecord \cup {NoRecord} /\ RecordMoves(rec, rec') /\ rec' = rec
        /\ up' \in BOOLEAN /\ lock' \in Actors \cup {Free}
    BY DEF IndInv, TypeOK, RecordMoves
  <1>3. Evolves(exec, exec')
    BY MarkEvolves DEF IndInv, TypeOK
  <1> QED
    BY <1>1, <1>2, <1>3, OneActorStep

\* No mark is one too.
LEMMA MarkSame ==
    ASSUME IndInv, UNCHANGED exec
    PROVE  Marks(exec, exec')
  BY DEF Marks, IndInv, TypeOK

\* An actor ends without having written anything.
LEMMA EndsQuietly ==
    ASSUME IndInv, NEW a \in Actors, act[a].pc \notin NeedsManager, Finish(a),
           UNCHANGED <<rec, lock, up>>, Marks(exec, exec'), expired' \in BOOLEAN
    PROVE  IndInv'
  <1>1. /\ act' \in [Actors -> Actor] /\ act'[a] = Idle /\ \A b \in Actors : b # a => act'[b] = act[b]
    BY FinishFacts DEF IndInv, TypeOK
  <1>2. GoodActor(Idle, rec, exec')
    BY IdleFacts, AtEase DEF Marks
  <1> QED
    BY <1>1, <1>2, IdleFacts, QuietStep

\* What a write by compare and swap does: the record was the actor's copy.
LEMMA WriteInv ==
    ASSUME IndInv, NEW a \in Actors, Holds(act[a]), act[a].pc \notin NeedsManager,
           NEW new \in SandboxRecord, new.gen = act[a].copy.gen + 1, NEW next \in Actor,
           Write(a, new, next), UNCHANGED <<lock, up>>, Marks(exec, exec'), expired' \in BOOLEAN,
           rec = act[a].copy => GoodRecord(new, exec'),
           rec = act[a].copy => GoodActor(next, new, exec'), next.pc # "reserve"
    PROVE  IndInv'
  <1>1. act \in [Actors -> Actor] /\ exec \in Execution /\ rec \in SandboxRecord \cup {NoRecord}
    BY DEF IndInv, TypeOK
  <1>2. CASE ~Swappable(new)
    BY <1>2, EndsQuietly DEF Write
  <1>3. CASE Swappable(new)
    <2>1. GoodCopy(act[a].copy, rec, exec)
      BY DEF IndInv, GoodActor
    <2>2. rec = act[a].copy /\ rec \in SandboxRecord /\ new.gen > rec.gen
      <3>1. act[a].copy \in SandboxRecord /\ act[a].copy.gen \in Nat /\ rec.gen \in Nat
        BY <1>1, <1>3, <2>1, RecordTypes DEF GoodCopy, Swappable
      <3>2. act[a].copy.gen = rec.gen
        BY <1>3, <3>1 DEF Swappable
      <3> QED
        BY <2>1, <3>1, <3>2 DEF GoodCopy
    <2>3. rec' = new /\ Set(a, next)
      BY <1>3 DEF Write
    <2>4. act' \in [Actors -> Actor] /\ act'[a] = next /\ \A b \in Actors : b # a => act'[b] = act[b]
      BY <1>1, <2>3, SetFacts
    <2>5. LockFits'
      BY <2>4, LockKept DEF Marks
    <2>6. RecordMoves(rec, rec') /\ up' \in BOOLEAN /\ lock' \in Actors \cup {Free}
      BY <2>2, <2>3 DEF IndInv, TypeOK, RecordMoves
    <2>7. Evolves(exec, exec')
      BY MarkEvolves DEF IndInv, TypeOK
    <2> QED
      BY <2>2, <2>3, <2>4, <2>5, <2>6, <2>7, OneActorStep
  <1> QED
    BY <1>2, <1>3

-----------------------------------------------------------------------------
(* The transitions of the record                                           *)

LEMMA AdvanceFacts ==
    ASSUME NEW r \in SandboxRecord, NEW state \in LifecycleStates
    PROVE  /\ Advance(r, state) \in SandboxRecord
           /\ Advance(r, state).state = state /\ Advance(r, state).gen = r.gen + 1
           /\ Advance(r, state).execGen = r.execGen /\ Advance(r, state).memory = r.memory
           /\ Advance(r, state).failure = r.failure /\ Advance(r, state).policy = r.policy
  <1>1. r.gen + 1 \in Nat \ {0}
    BY RecordTypes
  <1> DEFINE n == r.gen + 1
  <1>2. Advance(r, state) = [r EXCEPT !.state = state, !.gen = n]
    BY DEF Advance
  <1> HIDE DEF n
  <1> QED
    BY <1>1, <1>2 DEF SandboxRecord, n

LEMMA BeginResumeFacts ==
    ASSUME NEW r \in SandboxRecord
    PROVE  /\ BeginResume(r) \in SandboxRecord /\ BeginResume(r).gen = r.gen + 1
           /\ BeginResume(r).state = "resuming"
           /\ BeginResume(r).execGen = r.execGen
           /\ BeginResume(r).memory = r.memory
           /\ BeginResume(r).failure = r.failure
  BY AdvanceFacts DEF BeginResume, LifecycleStates

LEMMA BeginPauseFacts ==
    ASSUME NEW r \in SandboxRecord, NEW keep \in BOOLEAN
    PROVE  /\ BeginPause(r, keep) \in SandboxRecord /\ BeginPause(r, keep).gen = r.gen + 1
           /\ BeginPause(r, keep).state = "pausing"
           /\ BeginPause(r, keep).execGen = r.execGen
           /\ BeginPause(r, keep).memory = keep
           /\ BeginPause(r, keep).failure = r.failure
  <1> DEFINE adv == Advance(r, "pausing")
  <1>1. /\ adv \in SandboxRecord /\ adv.state = "pausing" /\ adv.gen = r.gen + 1
        /\ adv.execGen = r.execGen /\ adv.failure = r.failure
    BY AdvanceFacts DEF LifecycleStates
  <1> HIDE DEF adv
  <1> QED
    BY <1>1 DEF BeginPause, SandboxRecord, adv

LEMMA BeginKillFacts ==
    ASSUME NEW r \in SandboxRecord
    PROVE  /\ BeginKill(r) \in SandboxRecord /\ BeginKill(r).gen = r.gen + 1
           /\ BeginKill(r).state = "killing"
           /\ BeginKill(r).execGen = r.execGen
           /\ BeginKill(r).memory = TRUE
           /\ BeginKill(r).failure = r.failure
  <1> DEFINE adv == Advance(r, "killing")
  <1>1. /\ adv \in SandboxRecord /\ adv.state = "killing" /\ adv.gen = r.gen + 1
        /\ adv.execGen = r.execGen /\ adv.failure = r.failure
    BY AdvanceFacts DEF LifecycleStates
  <1> HIDE DEF adv
  <1> QED
    BY <1>1 DEF BeginKill, SandboxRecord, adv

LEMMA MarkRunningFacts ==
    ASSUME NEW r \in SandboxRecord, NEW lease \in Nat
    PROVE  /\ MarkRunning(r, lease) \in SandboxRecord /\ MarkRunning(r, lease).gen = r.gen + 1
           /\ MarkRunning(r, lease).state = "running"
           /\ MarkRunning(r, lease).execGen = lease
           /\ MarkRunning(r, lease).memory = TRUE
           /\ MarkRunning(r, lease).failure = FALSE
  <1> DEFINE adv == Advance(r, "running")
  <1>1. /\ adv \in SandboxRecord /\ adv.state = "running" /\ adv.gen = r.gen + 1
        /\ adv.execGen = r.execGen /\ adv.failure = r.failure
    BY AdvanceFacts DEF LifecycleStates
  <1> HIDE DEF adv
  <1> QED
    BY <1>1 DEF MarkRunning, SandboxRecord, adv

LEMMA MarkPausedFacts ==
    ASSUME NEW r \in SandboxRecord, NEW lease \in Nat
    PROVE  /\ MarkPaused(r, lease) \in SandboxRecord /\ MarkPaused(r, lease).gen = r.gen + 1
           /\ MarkPaused(r, lease).state = "paused"
           /\ MarkPaused(r, lease).execGen = lease
           /\ MarkPaused(r, lease).failure = r.failure
  <1> DEFINE adv == Advance(r, "paused")
  <1>1. /\ adv \in SandboxRecord /\ adv.state = "paused" /\ adv.gen = r.gen + 1
        /\ adv.execGen = r.execGen /\ adv.failure = r.failure
    BY AdvanceFacts DEF LifecycleStates
  <1> HIDE DEF adv
  <1> QED
    BY <1>1 DEF MarkPaused, SandboxRecord, adv

LEMMA MarkKilledFacts ==
    ASSUME NEW r \in SandboxRecord
    PROVE  /\ MarkKilled(r) \in SandboxRecord /\ MarkKilled(r).gen = r.gen + 1
           /\ MarkKilled(r).state = "killed"
           /\ MarkKilled(r).execGen = r.execGen
           /\ MarkKilled(r).memory = TRUE
  <1> DEFINE adv == Advance(r, "killed")
  <1>1. /\ adv \in SandboxRecord /\ adv.state = "killed" /\ adv.gen = r.gen + 1
        /\ adv.execGen = r.execGen /\ adv.failure = r.failure
    BY AdvanceFacts DEF LifecycleStates
  <1> HIDE DEF adv
  <1> QED
    BY <1>1 DEF MarkKilled, SandboxRecord, adv

LEMMA MarkFailedFacts ==
    ASSUME NEW r \in SandboxRecord
    PROVE  /\ MarkFailed(r) \in SandboxRecord /\ MarkFailed(r).gen = r.gen + 1
           /\ MarkFailed(r).state = "failed"
           /\ MarkFailed(r).execGen = r.execGen
           /\ MarkFailed(r).memory = TRUE
           /\ MarkFailed(r).failure = TRUE
  <1> DEFINE adv == Advance(r, "failed")
  <1>1. /\ adv \in SandboxRecord /\ adv.state = "failed" /\ adv.gen = r.gen + 1
        /\ adv.execGen = r.execGen /\ adv.failure = r.failure
    BY AdvanceFacts DEF LifecycleStates
  <1> HIDE DEF adv
  <1> QED
    BY <1>1 DEF MarkFailed, SandboxRecord, adv

LEMMA TakeBackFacts ==
    ASSUME NEW r \in SandboxRecord
    PROVE  /\ AbortPause(r) \in SandboxRecord /\ AbortPause(r).gen = r.gen + 1
           /\ AbortPause(r).state = "running" /\ AbortPause(r).execGen = r.execGen
           /\ AbortPause(r).memory = TRUE /\ AbortPause(r).failure = r.failure
           /\ AbortResume(r) \in SandboxRecord /\ AbortResume(r).gen = r.gen + 1
           /\ AbortResume(r).state = "paused" /\ AbortResume(r).execGen = r.execGen
           /\ AbortResume(r).memory = r.memory /\ AbortResume(r).failure = r.failure
           /\ ReplaceExpiry(r) \in SandboxRecord /\ ReplaceExpiry(r).gen = r.gen + 1
           /\ ReplaceExpiry(r).state = r.state /\ ReplaceExpiry(r).execGen = r.execGen
           /\ ReplaceExpiry(r).memory = r.memory /\ ReplaceExpiry(r).failure = r.failure
  <1>1. /\ AbortPause(r) \in SandboxRecord /\ AbortPause(r).gen = r.gen + 1
        /\ AbortPause(r).state = "running" /\ AbortPause(r).execGen = r.execGen
        /\ AbortPause(r).memory = TRUE /\ AbortPause(r).failure = r.failure
    <2> DEFINE adv == Advance(r, "running")
    <2>1. /\ adv \in SandboxRecord /\ adv.state = "running" /\ adv.gen = r.gen + 1
          /\ adv.execGen = r.execGen /\ adv.failure = r.failure
      BY AdvanceFacts DEF LifecycleStates
    <2> HIDE DEF adv
    <2> QED
      BY <2>1 DEF AbortPause, SandboxRecord, adv
  <1>2. AbortResume(r) = Advance(r, "paused")
    BY DEF AbortResume
  <1>3. /\ ReplaceExpiry(r) \in SandboxRecord /\ ReplaceExpiry(r).gen = r.gen + 1
        /\ ReplaceExpiry(r).state = r.state /\ ReplaceExpiry(r).execGen = r.execGen
        /\ ReplaceExpiry(r).memory = r.memory /\ ReplaceExpiry(r).failure = r.failure
    BY DEF ReplaceExpiry, SandboxRecord
  <1> QED
    BY <1>1, <1>2, <1>3, AdvanceFacts DEF LifecycleStates

-----------------------------------------------------------------------------
(* The writers of the record                                               *)

\* What is known of an actor that has a copy of the record.
LEMMA HolderFacts ==
    ASSUME IndInv, NEW a \in Actors, Holds(act[a])
    PROVE  /\ act[a] \in Actor /\ act[a].lease \in Nat /\ act[a].keep \in BOOLEAN
           /\ act[a].copy \in SandboxRecord /\ act[a].copy.execGen \in Nat
           /\ GoodCopy(act[a].copy, rec, exec) /\ GoodStep(act[a]) /\ GoodLease(act[a], exec)
           /\ rec \in SandboxRecord /\ GoodRecord(rec, exec)
           /\ exec \in Execution /\ exec.gen \in Nat /\ GoodActor(Idle, NoRecord, exec)
           /\ \A r \in SandboxRecord : GoodActor(Idle, r, exec)
  <1>1. /\ act[a] \in Actor /\ exec \in Execution /\ rec \in SandboxRecord \cup {NoRecord}
        /\ GoodActor(act[a], rec, exec) /\ RecordFits
    BY DEF IndInv, TypeOK
  <1>2. /\ GoodCopy(act[a].copy, rec, exec) /\ GoodStep(act[a]) /\ GoodLease(act[a], exec)
        /\ rec \in SandboxRecord /\ GoodRecord(rec, exec) /\ act[a].copy \in SandboxRecord
    BY <1>1 DEF GoodActor, GoodCopy, RecordFits
  <1>3. act[a].lease \in Nat /\ act[a].keep \in BOOLEAN /\ exec.gen \in Nat
    BY <1>1 DEF Actor, Execution
  <1>4. \A r \in SandboxRecord \cup {NoRecord} : GoodActor(Idle, r, exec)
    BY <1>1, IdleFacts, AtEase
  <1> QED
    BY <1>1, <1>2, <1>3, <1>4, RecordTypes

\* The record that the end of an operation publishes.
LEMMA PublishedFacts ==
    ASSUME NEW c \in SandboxRecord, NEW lease \in Nat
    PROVE  /\ c.state \in {"creating", "resuming"} =>
                /\ Published(c, lease) \in SandboxRecord /\ Published(c, lease).gen = c.gen + 1
                /\ Published(c, lease).state = "running" /\ Published(c, lease).execGen = lease
                /\ Published(c, lease).memory = TRUE /\ Published(c, lease).failure = FALSE
           /\ c.state = "pausing" =>
                /\ Published(c, lease) \in SandboxRecord /\ Published(c, lease).gen = c.gen + 1
                /\ Published(c, lease).state = "paused" /\ Published(c, lease).execGen = lease
                /\ Published(c, lease).failure = c.failure
           /\ c.state = "killing" =>
                /\ Published(c, lease) \in SandboxRecord /\ Published(c, lease).gen = c.gen + 1
                /\ Published(c, lease).state = "killed" /\ Published(c, lease).execGen = c.execGen
                /\ Published(c, lease).memory = TRUE
  <1>1. /\ c.state \in {"creating", "resuming"} => Published(c, lease) = MarkRunning(c, lease)
        /\ c.state = "pausing" => Published(c, lease) = MarkPaused(c, lease)
        /\ c.state = "killing" => Published(c, lease) = MarkKilled(c)
    BY DEF Published
  <1>2. CASE c.state \in {"creating", "resuming"}
    <2>1. Published(c, lease) = MarkRunning(c, lease)
      BY <1>1, <1>2
    <2>2. /\ MarkRunning(c, lease) \in SandboxRecord /\ MarkRunning(c, lease).gen = c.gen + 1
          /\ MarkRunning(c, lease).state = "running" /\ MarkRunning(c, lease).execGen = lease
          /\ MarkRunning(c, lease).memory = TRUE /\ MarkRunning(c, lease).failure = FALSE
      BY MarkRunningFacts
    <2> QED
      BY <1>2, <2>1, <2>2
  <1>3. CASE c.state = "pausing"
    BY <1>1, <1>3, MarkPausedFacts
  <1>4. CASE c.state = "killing"
    BY <1>1, <1>4, MarkKilledFacts
  <1> QED
    BY <1>2, <1>3, <1>4

LEMMA PublishInv ==
    ASSUME IndInv, NEW a \in Actors, Publish(a)
    PROVE  IndInv'
  <1> DEFINE me == act[a]
             new == Published(me.copy, me.lease)
             go == [me EXCEPT !.pc = "expiry", !.copy = new]
             next == IF me.op = "connect" THEN go ELSE Idle
  <1>1. /\ me.pc = "publish" /\ Holds(me) /\ me.pc \notin NeedsManager
        /\ UNCHANGED <<exec, lock, up>> /\ expired' \in BOOLEAN
    BY DEF Publish, Holds, NeedsManager
  <1>2. /\ me \in Actor /\ me.lease \in Nat /\ me.copy \in SandboxRecord /\ me.copy.execGen \in Nat
        /\ GoodStep(me) /\ GoodLease(me, exec) /\ rec \in SandboxRecord /\ GoodRecord(rec, exec)
        /\ exec.gen \in Nat /\ \A r \in SandboxRecord : GoodActor(Idle, r, exec)
    BY <1>1, HolderFacts
  <1>3. me.copy.state \in {"creating", "resuming", "pausing", "killing"}
    BY <1>1, <1>2 DEF GoodStep, Transitional
  <1>4. CASE ~(me.copy.state = "killing" \/ LeaseIsNewer(me.copy, me.lease))
    BY <1>1, <1>4, MarkSame, EndsQuietly DEF Publish
  <1>5. CASE me.copy.state = "killing" \/ LeaseIsNewer(me.copy, me.lease)
    <2>1. /\ new \in SandboxRecord /\ new.gen = me.copy.gen + 1
          /\ new.state \notin {"killing", "pausing", "resuming", "failed"}
          /\ IF me.copy.state = "killing" THEN new.execGen = me.copy.execGen ELSE new.execGen = me.lease
          /\ me.copy.state \in {"creating", "resuming"} => new.state = "running" /\ new.memory = TRUE /\ new.failure = FALSE
          /\ me.copy.state = "pausing" => new.state = "paused" /\ new.failure = me.copy.failure
          /\ me.copy.state = "killing" => new.state = "killed" /\ new.memory = TRUE
      <3>0. /\ me.copy.state \in {"creating", "resuming"} =>
                  /\ new \in SandboxRecord /\ new.gen = me.copy.gen + 1
                  /\ new.state = "running" /\ new.execGen = me.lease
                  /\ new.memory = TRUE /\ new.failure = FALSE
            /\ me.copy.state = "pausing" =>
                  /\ new \in SandboxRecord /\ new.gen = me.copy.gen + 1
                  /\ new.state = "paused" /\ new.execGen = me.lease
                  /\ new.failure = me.copy.failure
            /\ me.copy.state = "killing" =>
                  /\ new \in SandboxRecord /\ new.gen = me.copy.gen + 1
                  /\ new.state = "killed" /\ new.execGen = me.copy.execGen
                  /\ new.memory = TRUE
        BY <1>2, PublishedFacts
      <3> HIDE DEF new
      <3>1. CASE me.copy.state \in {"creating", "resuming"}
        BY <3>0, <3>1
      <3>2. CASE me.copy.state = "pausing"
        BY <3>0, <3>2
      <3>3. CASE me.copy.state = "killing"
        BY <3>0, <3>3
      <3> QED
        BY <1>3, <3>1, <3>2, <3>3
    <2> HIDE DEF new
    <2>2. ASSUME rec = me.copy
          PROVE  GoodRecord(new, exec)
      <3>1. CASE me.copy.state \in {"creating", "resuming"}
        BY <1>1, <1>2, <1>5, <2>1, <2>2, <3>1 DEF GoodRecord, GoodLease, LeaseIsNewer
      <3>2. CASE me.copy.state = "pausing"
        BY <1>1, <1>2, <1>5, <2>1, <2>2, <3>2 DEF GoodRecord, GoodLease, LeaseIsNewer
      <3>3. CASE me.copy.state = "killing"
        BY <1>1, <1>2, <2>1, <2>2, <3>3 DEF GoodRecord, GoodLease
      <3> QED
        BY <1>3, <3>1, <3>2, <3>3
    <2>3. /\ go \in Actor /\ go.pc = "expiry" /\ go.copy = new /\ go.lease = me.lease
      BY <1>2, <2>1 DEF Actor, Pcs
    <2> HIDE DEF go
    <2>4. ASSUME rec = me.copy
          PROVE  GoodActor(next, new, exec)
      <3>1. CASE next = Idle
        BY <1>2, <2>1, <3>1
      <3>2. CASE next = go
        <4>1. GoodCopy(new, new, exec)
          BY <2>1, <2>2, <2>4, RecordTypes DEF GoodCopy, GoodRecord
        <4>2. GoodStep(go) /\ GoodLease(go, exec)
          BY <1>2, <2>3 DEF GoodStep, GoodLease
        <4> QED
          BY <2>3, <3>2, <4>1, <4>2 DEF GoodActor
      <3> QED
        BY <3>1, <3>2
    <2>5. next \in Actor /\ next.pc # "reserve"
      BY <2>3, IdleFacts
    <2> HIDE DEF next
    <2>6. Write(a, new, next)
      BY <1>5 DEF Publish, new, next, go
    <2> QED
      BY <1>1, <2>1, <2>2, <2>4, <2>5, <2>6, MarkSame, WriteInv
  <1> QED
    BY <1>4, <1>5

LEMMA AbortInv ==
    ASSUME IndInv, NEW a \in Actors, Abort(a)
    PROVE  IndInv'
  <1> DEFINE c == act[a].copy
             new == IF c.state = "pausing" THEN AbortPause(c) ELSE AbortResume(c)
  <1>1. /\ act[a].pc = "abort" /\ Holds(act[a]) /\ act[a].pc \notin NeedsManager
        /\ UNCHANGED <<expired, exec, lock, up>> /\ Write(a, new, Idle) /\ expired' \in BOOLEAN
    BY DEF Abort, Holds, NeedsManager, IndInv, TypeOK
  <1>2. /\ c \in SandboxRecord /\ GoodStep(act[a]) /\ rec \in SandboxRecord /\ GoodRecord(rec, exec)
        /\ \A r \in SandboxRecord : GoodActor(Idle, r, exec)
    BY <1>1, HolderFacts
  <1>3. c.state \in {"pausing", "resuming"}
    BY <1>1, <1>2 DEF GoodStep
  <1>4. /\ new \in SandboxRecord /\ new.gen = c.gen + 1 /\ new.execGen = c.execGen /\ new.failure = c.failure
        /\ c.state = "pausing" => new.state = "running" /\ new.memory
        /\ c.state = "resuming" => new.state = "paused"
    BY <1>2, <1>3, TakeBackFacts
  <1> HIDE DEF new
  <1>5. rec = c => GoodRecord(new, exec)
    BY <1>2, <1>3, <1>4 DEF GoodRecord
  <1> QED
    BY <1>1, <1>2, <1>4, <1>5, IdleFacts, MarkSame, WriteInv

LEMMA FailInv ==
    ASSUME IndInv, NEW a \in Actors, Fail(a)
    PROVE  IndInv'
  <1> DEFINE c == act[a].copy
             new == IF c.state = "killing" THEN MarkKilled(c) ELSE MarkFailed(c)
  <1>1. /\ act[a].pc = "fail" /\ Holds(act[a]) /\ act[a].pc \notin NeedsManager
        /\ UNCHANGED <<expired, exec, lock, up>> /\ Write(a, new, Idle) /\ expired' \in BOOLEAN
    BY DEF Fail, Holds, NeedsManager, IndInv, TypeOK
  <1>2. /\ c \in SandboxRecord /\ GoodLease(act[a], exec) /\ rec \in SandboxRecord /\ GoodRecord(rec, exec)
        /\ \A r \in SandboxRecord : GoodActor(Idle, r, exec)
    BY <1>1, HolderFacts
  <1>3. /\ new \in SandboxRecord /\ new.gen = c.gen + 1 /\ new.execGen = c.execGen /\ new.memory
        /\ IF c.state = "killing" THEN new.state = "killed" ELSE new.state = "failed" /\ new.failure
    <2>1. CASE c.state = "killing"
      BY <1>2, <2>1, MarkKilledFacts
    <2>2. CASE c.state # "killing"
      BY <1>2, <2>2, MarkFailedFacts
    <2> QED
      BY <2>1, <2>2
  <1> HIDE DEF new
  <1>4. rec = c => GoodRecord(new, exec)
    BY <1>1, <1>2, <1>3 DEF GoodRecord, GoodLease
  <1> QED
    BY <1>1, <1>2, <1>3, <1>4, IdleFacts, MarkSame, WriteInv

LEMMA ExtendInv ==
    ASSUME IndInv, NEW a \in Actors, Extend(a)
    PROVE  IndInv'
  <1> DEFINE new == ReplaceExpiry(act[a].copy)
  <1>1. /\ act[a].pc = "expiry" /\ Holds(act[a]) /\ act[a].pc \notin NeedsManager
        /\ UNCHANGED <<exec, lock, up>>
    BY DEF Extend, Holds, NeedsManager
  <1>2. /\ act[a].copy \in SandboxRecord /\ rec \in SandboxRecord /\ GoodRecord(rec, exec)
        /\ \A r \in SandboxRecord : GoodActor(Idle, r, exec)
    BY <1>1, HolderFacts
  <1>3. CASE Finish(a) /\ UNCHANGED <<rec, expired>>
    BY <1>1, <1>3, MarkSame, EndsQuietly DEF IndInv, TypeOK
  <1>4. CASE Write(a, new, Idle) /\ expired' = (expired /\ ~Swappable(new))
    <2>1. /\ new \in SandboxRecord /\ new.gen = act[a].copy.gen + 1
          /\ new.execGen = act[a].copy.execGen /\ new.state = act[a].copy.state
          /\ new.memory = act[a].copy.memory /\ new.failure = act[a].copy.failure
      BY <1>2, TakeBackFacts
    <2> HIDE DEF new
    <2>2. rec = act[a].copy => GoodRecord(new, exec)
      BY <1>2, <2>1 DEF GoodRecord
    <2>3. expired' \in BOOLEAN
      BY <1>4
    <2> QED
      BY <1>1, <1>2, <1>4, <2>1, <2>2, <2>3, IdleFacts, MarkSame, WriteInv
  <1> QED
    BY <1>3, <1>4 DEF Extend

\* begin_resume, begin_pause and begin_kill.
LEMMA BeginInv ==
    ASSUME IndInv, NEW a \in Actors, Begin(a)
    PROVE  IndInv' /\ Evolves(exec, exec')
  <1> DEFINE me == act[a]
             new == CASE me.op = "connect" -> BeginResume(me.copy)
                      [] me.op = "pause" -> BeginPause(me.copy, me.keep)
                      [] me.op = "kill" -> BeginKill(me.copy)
             pc == CallOf(me)
             next == [me EXCEPT !.copy = new, !.pc = pc]
  <1>1. /\ me.pc = "begin" /\ Holds(me) /\ me.pc \notin NeedsManager
        /\ UNCHANGED <<expired, lock, up>> /\ Write(a, new, next) /\ expired' \in BOOLEAN
        /\ exec' = [exec EXCEPT !.unnamed = @ \/ (me.copy.execGen = 0 /\ Swappable(new))]
    BY DEF Begin, Holds, NeedsManager, IndInv, TypeOK
  <1>2. /\ me \in Actor /\ me.keep \in BOOLEAN /\ me.copy \in SandboxRecord
        /\ GoodStep(me) /\ GoodLease(me, exec) /\ exec \in Execution
        /\ rec \in SandboxRecord /\ GoodRecord(rec, exec) /\ exec.gen \in Nat
    BY <1>1, HolderFacts
  <1>3. \/ me.op = "connect" /\ me.copy.state = "paused"
        \/ me.op = "pause" /\ me.copy.state = "running"
        \/ me.op = "kill"
    BY <1>1, <1>2 DEF GoodStep
  <1>4. /\ new \in SandboxRecord /\ new.gen = me.copy.gen + 1
        /\ new.execGen = me.copy.execGen /\ new.failure = me.copy.failure
        /\ \/ pc = "resume" /\ new.state = "resuming" /\ me.copy.state = "paused"
           \/ pc = "pause" /\ new.state = "pausing" /\ me.copy.state = "running"
           \/ pc = "kill" /\ new.state = "killing" /\ new.memory /\ new.execGen # 0
           \/ pc = "publish" /\ new.state = "killing" /\ new.memory /\ new.execGen = 0
    <2>1. CASE me.op = "connect" /\ me.copy.state = "paused"
      <3>1. new = BeginResume(me.copy) /\ pc = "resume"
        BY <2>1 DEF CallOf
      <3> QED
        BY <1>2, <2>1, <3>1, BeginResumeFacts
    <2>2. CASE me.op = "pause" /\ me.copy.state = "running"
      <3>1. new = BeginPause(me.copy, me.keep) /\ pc = "pause"
        BY <2>2 DEF CallOf
      <3> QED
        BY <1>2, <2>2, <3>1, BeginPauseFacts
    <2>3. CASE me.op = "kill"
      <3>1. new = BeginKill(me.copy) /\ pc = IF me.copy.execGen = 0 THEN "publish" ELSE "kill"
        BY <2>3 DEF CallOf
      <3> HIDE DEF new, pc
      <3>2. /\ new \in SandboxRecord /\ new.gen = me.copy.gen + 1 /\ new.state = "killing" /\ new.memory
            /\ new.execGen = me.copy.execGen /\ new.failure = me.copy.failure
        BY <1>2, <3>1, BeginKillFacts
      <3> QED
        BY <3>1, <3>2
    <2> QED
      BY <1>3, <2>1, <2>2, <2>3
  <1> HIDE DEF new, pc
  <1>5. next \in Actor /\ next.pc = pc /\ next.copy = new /\ next.lease = me.lease
    BY <1>2, <1>4 DEF Actor, Pcs
  <1> HIDE DEF next
  <1>6. Marks(exec, exec') /\ Evolves(exec, exec') /\ exec' \in Execution
    <2>1. Marks(exec, exec')
      BY <1>1, <1>2 DEF Marks, Execution
    <2> QED
      BY <1>2, <2>1, MarkEvolves DEF Marks, IndInv
  <1>7. rec = me.copy /\ me.copy.execGen = 0 => exec'.unnamed
    <2> SUFFICES ASSUME rec = me.copy, me.copy.execGen = 0 PROVE exec'.unnamed
      OBVIOUS
    <2>1. rec.gen \in Nat /\ rec # NoRecord /\ new.gen = rec.gen + 1
      BY <1>2, <1>4, RecordTypes
    <2>2. Swappable(new)
      BY <2>1 DEF Swappable
    <2>3. exec' = [exec EXCEPT !.unnamed = TRUE]
      BY <1>1, <2>2
    <2> QED
      BY <1>2, <2>3 DEF Execution
  <1>8. GoodRecord(rec, exec') /\ GoodLease(me, exec')
    <2>1. GoodRecord(rec, exec')
      BY <1>2, <1>6, RecordKept
    <2> QED
      BY <1>2, <1>6, <2>1 DEF GoodLease, Marks
  <1>9. rec = me.copy => GoodRecord(new, exec')
    BY <1>2, <1>4, <1>7, <1>8 DEF GoodRecord
  <1>10. rec = me.copy => GoodActor(next, new, exec')
    <2> SUFFICES ASSUME rec = me.copy PROVE GoodActor(next, new, exec')
      OBVIOUS
    <2>1. GoodCopy(new, new, exec')
      BY <1>4, <1>9, RecordTypes DEF GoodCopy, GoodRecord
    <2>2. GoodStep(next) /\ GoodLease(next, exec')
      BY <1>2, <1>4, <1>5, <1>7, <1>8 DEF GoodStep, GoodLease, Transitional
    <2> QED
      BY <1>5, <2>1, <2>2 DEF GoodActor
  <1>11. next.pc # "reserve"
    BY <1>4, <1>5
  <1>12. IndInv'
    BY <1>1, <1>4, <1>5, <1>6, <1>9, <1>10, <1>11, WriteInv
  <1> QED
    BY <1>6, <1>12

-----------------------------------------------------------------------------
(* The readers of the record                                               *)

\* A copy that was just read is good.
LEMMA FreshCopy ==
    ASSUME IndInv, rec # NoRecord
    PROVE  rec \in SandboxRecord /\ GoodRecord(rec, exec) /\ GoodCopy(rec, rec, exec) /\ exec.gen \in Nat
  <1>1. rec \in SandboxRecord /\ exec \in Execution /\ GoodRecord(rec, exec)
    BY DEF IndInv, TypeOK, RecordFits
  <1> QED
    BY <1>1, RecordTypes DEF GoodCopy, GoodRecord, Execution

\* A request reads the record and goes on with its copy.
LEMMA ReadInv ==
    ASSUME IndInv, NEW a \in Actors, act[a].pc \in {"idle", "list"}, rec # NoRecord,
           UNCHANGED <<rec, expired, lock, up>>, Marks(exec, exec'), NEW new \in Actor, Set(a, new),
           new.pc \in {"begin", "expiry", "reconcile"}, new.copy = rec, new.lease = 0, GoodStep(new)
    PROVE  IndInv'
  <1>1. act \in [Actors -> Actor] /\ expired' \in BOOLEAN
    BY DEF IndInv, TypeOK
  <1>2. act' \in [Actors -> Actor] /\ act'[a] = new /\ \A b \in Actors : b # a => act'[b] = act[b]
    BY <1>1, SetFacts
  <1>3. GoodActor(new, rec, exec')
    <2>1. GoodCopy(rec, rec, exec')
      BY FreshCopy DEF GoodCopy, Marks
    <2>2. exec'.gen \in Nat
      BY DEF Marks, Execution
    <2> QED
      BY <2>1, <2>2 DEF GoodActor, GoodLease
  <1> QED
    BY <1>1, <1>2, <1>3, QuietStep DEF NeedsManager

\* A client's call is marked when it comes too early.
LEMMA ArriveFacts ==
    ASSUME IndInv, NEW r \in Requests, NEW new, Arrive(r, new)
    PROVE  /\ r \in Actors /\ act[r].pc = "idle" /\ Set(r, new)
           /\ Marks(exec, exec') /\ Evolves(exec, exec')
  <1>1. exec \in Execution /\ GoodExecution(exec)
    BY DEF IndInv, TypeOK
  <1>2. Marks(exec, exec')
    BY <1>1 DEF Arrive, Marks, Execution
  <1> QED
    BY <1>1, <1>2, MarkEvolves DEF Arrive, Actors

LEMMA RequestInv ==
    ASSUME IndInv, NEW r \in Requests, Connect(r) \/ Pause(r) \/ SetTimeout(r) \/ Kill(r)
    PROVE  IndInv' /\ Evolves(exec, exec')
  <1>1. /\ r \in Actors /\ act[r].pc = "idle" /\ rec # NoRecord /\ UNCHANGED <<rec, expired, lock, up>>
        /\ Marks(exec, exec') /\ Evolves(exec, exec')
    <2>1. rec # NoRecord /\ UNCHANGED <<rec, expired, lock, up>> /\ \E new : Arrive(r, new)
      BY DEF Connect, Pause, SetTimeout, Kill, Visible
    <2> QED
      BY <2>1, ArriveFacts
  <1>2. rec \in SandboxRecord
    BY <1>1, FreshCopy
  <1>3. CASE Connect(r)
    <2> DEFINE pc == IF rec.state = "running" THEN "expiry" ELSE "begin"
               new == [Idle EXCEPT !.pc = pc, !.op = "connect", !.copy = rec]
    <2>1. /\ new \in Actor /\ new.pc = pc /\ new.op = "connect" /\ new.copy = rec /\ new.lease = 0
          /\ pc \in {"expiry", "begin"} /\ (pc = "begin" => rec.state = "paused")
      <3>1. pc \in {"expiry", "begin"} /\ (pc = "begin" => rec.state = "paused")
        BY <1>3 DEF Connect, Visible
      <3> HIDE DEF pc
      <3> QED
        BY <1>2, <3>1, IdleFacts DEF Actor, Pcs, AllOps
    <2>2. Set(r, new)
      BY <1>3, ArriveFacts DEF Connect
    <2> HIDE DEF pc, new
    <2>3. GoodStep(new)
      BY <2>1 DEF GoodStep
    <2> QED
      BY <1>1, <2>1, <2>2, <2>3, ReadInv
  <1>4. CASE Pause(r)
    <2>1. PICK keep \in BOOLEAN :
             Set(r, [Idle EXCEPT !.pc = "begin", !.op = "pause", !.copy = rec, !.keep = keep])
      BY <1>4, ArriveFacts DEF Pause
    <2> DEFINE new == [Idle EXCEPT !.pc = "begin", !.op = "pause", !.copy = rec, !.keep = keep]
    <2>2. new \in Actor /\ new.pc = "begin" /\ new.op = "pause" /\ new.copy = rec /\ new.lease = 0
      BY <1>2, IdleFacts DEF Actor, Pcs, AllOps
    <2>3. Set(r, new) /\ rec.state = "running"
      BY <1>4, <2>1 DEF Pause
    <2> HIDE DEF new
    <2>4. GoodStep(new)
      BY <2>2, <2>3 DEF GoodStep
    <2> QED
      BY <1>1, <2>2, <2>3, <2>4, ReadInv
  <1>5. CASE SetTimeout(r)
    <2> DEFINE new == [Idle EXCEPT !.pc = "expiry", !.op = "timeout", !.copy = rec]
    <2>1. new \in Actor /\ new.pc = "expiry" /\ new.op = "timeout" /\ new.copy = rec /\ new.lease = 0
      BY <1>2, IdleFacts DEF Actor, Pcs, AllOps
    <2>2. Set(r, new)
      BY <1>5, ArriveFacts DEF SetTimeout
    <2> HIDE DEF new
    <2>3. GoodStep(new)
      BY <2>1 DEF GoodStep
    <2> QED
      BY <1>1, <2>1, <2>2, <2>3, ReadInv
  <1>6. CASE Kill(r)
    <2> DEFINE new == [Idle EXCEPT !.pc = "begin", !.op = "kill", !.copy = rec]
    <2>1. new \in Actor /\ new.pc = "begin" /\ new.op = "kill" /\ new.copy = rec /\ new.lease = 0
      BY <1>2, IdleFacts DEF Actor, Pcs, AllOps
    <2>2. Set(r, new)
      BY <1>6, ArriveFacts DEF Kill
    <2> HIDE DEF new
    <2>3. GoodStep(new)
      BY <2>1, <2>2 DEF GoodStep
    <2> QED
      BY <1>1, <2>1, <2>2, <2>3, ReadInv
  <1> QED
    BY <1>3, <1>4, <1>5, <1>6

LEMMA ListInv ==
    ASSUME IndInv, List
    PROVE  IndInv'
  <1> DEFINE me == act[Supervisor]
             new == [me EXCEPT !.pc = "reconcile", !.copy = rec]
  <1>1. /\ Supervisor \in Actors /\ me.pc = "list" /\ me \in Actor /\ me.lease \in Nat
        /\ UNCHANGED <<rec, expired, exec, lock, up>>
    BY DEF Actors, List, IndInv, TypeOK, Actor
  <1>2. CASE rec # NoRecord /\ rec.state \notin Terminal
    <2>1. rec \in SandboxRecord
      BY <1>2, FreshCopy
    <2>2. new \in Actor /\ new.pc = "reconcile" /\ new.copy = rec /\ new.lease = me.lease
      BY <1>1, <2>1 DEF Actor, Pcs
    <2>3. Set(Supervisor, new)
      BY <1>2 DEF List
    <2> HIDE DEF new
    <2>4. GoodStep(new)
      BY <1>2, <2>2 DEF GoodStep
    <2>5. GoodLease(me, exec) /\ GoodCopy(rec, rec, exec)
      BY <1>1, <1>2, FreshCopy DEF IndInv, GoodActor
    <2>6. GoodActor(new, rec, exec)
      BY <2>2, <2>4, <2>5 DEF GoodActor, GoodLease
    <2>7. act \in [Actors -> Actor] /\ expired' \in BOOLEAN
      BY <1>1 DEF IndInv, TypeOK
    <2>8. /\ act' \in [Actors -> Actor] /\ act'[Supervisor] = new
          /\ \A b \in Actors : b # Supervisor => act'[b] = act[b]
      BY <1>1, <2>2, <2>3, <2>7, SetFacts
    <2> QED
      BY <1>1, <2>2, <2>6, <2>7, <2>8, MarkSame, QuietStep DEF NeedsManager
  <1>3. CASE ~(rec # NoRecord /\ rec.state \notin Terminal)
    <2>1. Finish(Supervisor) /\ expired' \in BOOLEAN
      BY <1>1, <1>3 DEF List, Finish, IndInv, TypeOK
    <2> QED
      BY <1>1, <2>1, MarkSame, EndsQuietly DEF NeedsManager
  <1> QED
    BY <1>2, <1>3

LEMMA InitializeEnvdInv ==
    ASSUME IndInv, NEW a \in Actors, InitializeEnvd(a)
    PROVE  IndInv'
  <1>1. /\ act[a].pc = "envd" /\ Holds(act[a]) /\ act \in [Actors -> Actor]
        /\ UNCHANGED <<rec, expired, exec, lock, up>> /\ expired' \in BOOLEAN
    BY DEF InitializeEnvd, Holds, IndInv, TypeOK
  <1>2. GoodCopy(act[a].copy, rec, exec) /\ GoodStep(act[a]) /\ GoodLease(act[a], exec)
    BY <1>1, HolderFacts
  <1>3. PICK pc \in {"publish", "kill"} : Goto(a, pc)
    BY DEF InitializeEnvd
  <1>4. /\ act' \in [Actors -> Actor] /\ \A b \in Actors : b # a => act'[b] = act[b]
        /\ act'[a].pc = pc /\ act'[a].copy = act[a].copy /\ act'[a].lease = act[a].lease
    BY <1>1, <1>3, GotoFacts DEF Pcs
  <1>5. GoodActor(act'[a], rec, exec)
    BY <1>1, <1>2, <1>4 DEF GoodActor, GoodStep, GoodLease, Transitional
  <1> QED
    BY <1>1, <1>4, <1>5, MarkSame, QuietStep DEF NeedsManager

-----------------------------------------------------------------------------
(* The reservation                                                         *)

\* Nobody works on a sandbox that is not recorded.
LEMMA NobodyBefore ==
    ASSUME IndInv, rec = NoRecord
    PROVE  /\ exec \in Execution /\ exec.phase = "absent" /\ exec.gen \in Nat
           /\ lock = Free
           /\ \A b \in Actors : act[b].pc \in {"idle", "list"} /\ act[b].lease = 0
  <1>1. /\ exec \in Execution /\ exec.phase = "absent" /\ exec.gen \in Nat
        /\ act \in [Actors -> Actor] /\ lock \in Actors \cup {Free}
    BY DEF IndInv, TypeOK, RecordFits, Execution
  <1>2. \A b \in Actors : act[b].pc \in {"idle", "list"} /\ act[b].lease = 0
    BY <1>1 DEF IndInv, GoodActor, GoodCopy, GoodLease, Holds
  <1>3. lock = Free
    BY <1>1 DEF IndInv, LockFits, GoodClaim
  <1> QED
    BY <1>1, <1>2, <1>3

LEMMA CreateInv ==
    ASSUME IndInv, NEW r \in Requests, Create(r)
    PROVE  IndInv' /\ Evolves(exec, exec')
  <1>1. PICK policy \in Policies :
           /\ rec' = NewSandboxRecord(policy)
           /\ Arrive(r, [Idle EXCEPT !.pc = "reserve", !.op = "create", !.copy = NewSandboxRecord(policy)])
    BY DEF Create
  <1> DEFINE new == NewSandboxRecord(policy)
             go == [Idle EXCEPT !.pc = "reserve", !.op = "create", !.copy = new]
  <1>2. /\ new \in SandboxRecord /\ new.state = "creating" /\ new.gen = 1 /\ new.execGen = 0
        /\ new.memory = TRUE /\ new.failure = FALSE
    <2>1. 1 \in Nat \ {0} /\ 0 \in Nat
      OBVIOUS
    <2> QED
      BY <2>1 DEF NewSandboxRecord, SandboxRecord, LifecycleStates
  <1>3. rec' = new /\ Set(r, go) /\ Marks(exec, exec') /\ Evolves(exec, exec')
    BY <1>1, ArriveFacts
  <1> HIDE DEF new
  <1>4. go \in Actor /\ go.pc = "reserve" /\ go.copy = new /\ go.lease = 0
    BY <1>2, IdleFacts DEF Actor, Pcs, AllOps
  <1> HIDE DEF go
  <1>5. rec = NoRecord /\ r \in Actors /\ UNCHANGED <<expired, lock, up>>
    BY DEF Create, Actors
  <1>6. /\ exec' \in Execution /\ exec'.phase = "absent" /\ exec'.gen \in Nat /\ lock = Free
        /\ \A b \in Actors : act[b].pc \in {"idle", "list"} /\ act[b].lease = 0
    BY <1>3, <1>5, NobodyBefore DEF Marks, Execution
  <1>7. act' \in [Actors -> Actor] /\ act'[r] = go /\ \A b \in Actors : b # r => act'[b] = act[b]
    BY <1>3, <1>4, <1>5, SetFacts DEF IndInv, TypeOK
  <1>8. \A b \in Actors : GoodActor(act'[b], new, exec')
    <2>1. GoodActor(go, new, exec')
      <3>1. GoodCopy(new, new, exec')
        BY <1>2, <1>6, RecordTypes DEF GoodCopy
      <3>2. GoodStep(go) /\ GoodLease(go, exec')
        BY <1>2, <1>4, <1>6 DEF GoodStep, GoodLease
      <3> QED
        BY <1>4, <3>1, <3>2 DEF GoodActor
    <2>2. \A b \in Actors : GoodActor(act[b], new, exec')
      BY <1>6, AtEase
    <2> QED
      BY <1>7, <2>1, <2>2
  <1>9. OneReserver'
    BY <1>6, <1>7 DEF OneReserver
  <1>10. GoodRecord(new, exec') /\ new # NoRecord
    BY <1>2, <1>6, RecordTypes DEF GoodRecord, Execution
  <1>11. RecordFits' /\ LockFits'
    BY <1>3, <1>5, <1>6, <1>10 DEF RecordFits, LockFits
  <1>12. TypeOK'
    BY <1>2, <1>3, <1>5, <1>6, <1>7 DEF IndInv, TypeOK
  <1>13. GoodExecution(exec)'
    BY <1>3 DEF Evolves
  <1> QED
    BY <1>3, <1>5, <1>8, <1>9, <1>11, <1>12, <1>13 DEF IndInv

\* What is known of an actor when the execution appears.
LEMMA Appears ==
    ASSUME NEW m \in Actor, m.pc # "reserve", NEW r, NEW e \in Execution, e.phase = "absent",
           NEW f \in Execution, f.phase = "created", f.gen = e.gen, f.unnamed = e.unnamed, GoodActor(m, r, e)
    PROVE  GoodActor(m, r, f)
  <1>1. m.lease = 0 /\ e.gen \in Nat \ {0}
    BY DEF GoodActor, GoodLease, Execution
  <1>2. GoodLease(m, f)
    BY <1>1 DEF GoodActor, GoodLease
  <1>3. Holds(m) => GoodCopy(m.copy, r, f) /\ GoodStep(m)
    BY DEF GoodActor, GoodCopy
  <1> QED
    BY <1>2, <1>3 DEF GoodActor

LEMMA ReserveFails ==
    ASSUME IndInv, NEW r \in Requests, act[r].pc = "reserve", Goto(r, "fail"), UNCHANGED <<rec, expired, exec, lock, up>>
    PROVE  IndInv' /\ Evolves(exec, exec')
  <1>1. /\ r \in Actors /\ Holds(act[r]) /\ act \in [Actors -> Actor] /\ expired' \in BOOLEAN
    BY DEF Actors, Holds, IndInv, TypeOK
  <1>2. GoodCopy(act[r].copy, rec, exec) /\ GoodStep(act[r]) /\ GoodLease(act[r], exec)
    BY <1>1, HolderFacts
  <1>3. /\ act' \in [Actors -> Actor] /\ \A b \in Actors : b # r => act'[b] = act[b]
        /\ act'[r].pc = "fail" /\ act'[r].copy = act[r].copy /\ act'[r].lease = act[r].lease
    BY <1>1, GotoFacts DEF Pcs
  <1>4. GoodActor(act'[r], rec, exec)
    BY <1>1, <1>2, <1>3 DEF GoodActor, GoodStep, GoodLease, Terminal
  <1>5. Marks(exec, exec') /\ Evolves(exec, exec')
    BY MarkSame, MarkEvolves DEF IndInv, TypeOK
  <1> QED
    BY <1>1, <1>3, <1>4, <1>5, QuietStep DEF NeedsManager

LEMMA ReserveInv ==
    ASSUME IndInv, NEW r \in Requests, act[r].pc = "reserve", Goto(r, "start"),
           UNCHANGED <<rec, expired, lock, up>>, exec' = [exec EXCEPT !.phase = "created"]
    PROVE  IndInv' /\ exec.phase = "absent" /\ exec'.phase = "created" /\ exec'.gen = exec.gen
  <1>1. /\ r \in Actors /\ act[r].pc = "reserve" /\ Holds(act[r]) /\ Goto(r, "start")
        /\ UNCHANGED <<rec, expired, lock, up>> /\ exec' = [exec EXCEPT !.phase = "created"]
    BY DEF Actors, Holds
  <1>2. /\ act[r] \in Actor /\ GoodCopy(act[r].copy, rec, exec) /\ GoodStep(act[r]) /\ GoodLease(act[r], exec)
        /\ rec \in SandboxRecord /\ GoodRecord(rec, exec) /\ exec \in Execution
    BY <1>1, HolderFacts
  <1>3. exec.phase = "absent" /\ exec.gen \in Nat \ {0} /\ act[r].lease = 0
    BY <1>1, <1>2 DEF GoodLease, Execution
  <1>4. exec' \in Execution /\ exec'.phase = "created" /\ exec'.gen = exec.gen /\ exec'.unnamed = exec.unnamed
    BY <1>1, <1>2 DEF Execution, Phases
  <1>5. /\ act' \in [Actors -> Actor] /\ act'[r].pc = "start" /\ act'[r].copy = act[r].copy
        /\ act'[r].lease = act[r].lease /\ \A b \in Actors : b # r => act'[b] = act[b]
    BY <1>1, GotoFacts DEF IndInv, TypeOK, Pcs
  <1>6. lock = Free
    BY <1>3 DEF IndInv, TypeOK, LockFits, GoodClaim
  <1>7. GoodActor(act'[r], rec, exec')
    <2>1. GoodCopy(act[r].copy, rec, exec')
      BY <1>2, <1>4 DEF GoodCopy
    <2>2. GoodStep(act'[r])
      BY <1>1, <1>2, <1>5 DEF GoodStep
    <2>3. GoodLease(act'[r], exec')
      BY <1>3, <1>4, <1>5 DEF GoodLease
    <2> QED
      BY <1>5, <2>1, <2>2, <2>3 DEF GoodActor
  <1>8. \A b \in Actors : b # r => act[b].pc # "reserve" /\ act[b] \in Actor /\ GoodActor(act[b], rec, exec)
    BY <1>1 DEF IndInv, OneReserver, TypeOK
  <1>9. \A b \in Actors : b # r => GoodActor(act'[b], rec, exec')
    BY <1>2, <1>3, <1>4, <1>5, <1>8, Appears
  <1>10. OneReserver'
    BY <1>5, <1>8 DEF OneReserver
  <1>11. RecordFits'
    <2>1. GoodRecord(rec, exec') /\ rec # NoRecord
      BY <1>2, <1>3, <1>4, RecordTypes DEF GoodRecord
    <2> QED
      BY <1>1, <2>1 DEF RecordFits
  <1>12. TypeOK' /\ LockFits' /\ GoodExecution(exec)'
    BY <1>1, <1>4, <1>5, <1>6 DEF IndInv, TypeOK, LockFits, GoodExecution
  <1> QED
    BY <1>1, <1>3, <1>4, <1>7, <1>9, <1>10, <1>11, <1>12 DEF IndInv

-----------------------------------------------------------------------------
(* Calls of the manager                                                    *)

LEMMA ClaimInv ==
    ASSUME IndInv, up, NEW a \in Actors, Claim(a)
    PROVE  IndInv' /\ Evolves(exec, exec')
  <1> DEFINE me == act[a]
  <1>1. /\ me.pc \in NeedsManager /\ Holds(me) /\ lock = Free /\ Granted(a) /\ exec' = Claimed(a)
        /\ lock' = a /\ UNCHANGED <<rec, expired, act, up>>
    BY DEF Claim, NeedsManager, Holds
  <1>2. /\ me \in Actor /\ me.lease \in Nat /\ me.keep \in BOOLEAN /\ me.copy.execGen \in Nat
        /\ GoodCopy(me.copy, rec, exec) /\ GoodLease(me, exec) /\ exec \in Execution
    BY <1>1, HolderFacts
  <1>3. /\ exec.phase \in Phases /\ exec.gen \in Nat \ {0} /\ GoodExecution(exec)
    BY <1>2 DEF Execution, IndInv
  <1>4. exec.phase # "absent"
    <2>1. CASE me.pc = "kill"
      BY <1>1, <1>2, <1>3, <2>1 DEF Granted, Target, GoodCopy, GoodLease
    <2>2. CASE me.pc \in {"start", "pause", "resume"}
      BY <1>1, <2>2 DEF Granted
    <2> QED
      BY <1>1, <2>1, <2>2 DEF NeedsManager
  <1>5. Evolves(exec, exec') /\ GoodClaim(me.pc, exec'.phase)
    <2>1. CASE me.pc = "start"
      <3>1. CASE exec.phase = "created"
        <4>1. exec' = [exec EXCEPT !.phase = "starting"]
          BY <1>1, <2>1, <3>1 DEF Claimed
        <4>2. exec' \in Execution /\ exec'.phase = "starting" /\ exec'.gen = exec.gen /\ exec'.unnamed = exec.unnamed
          BY <1>2, <4>1 DEF Execution, Phases
        <4> QED
          BY <2>1, <3>1, <4>2 DEF Evolves, GoodExecution, Stable, GoodClaim
      <3>2. CASE exec.phase # "created"
        <4>1. exec' = exec /\ exec.phase \in {"running", "starting"}
          BY <1>1, <2>1, <3>2 DEF Claimed, Granted
        <4> QED
          BY <1>2, <1>3, <2>1, <4>1, EvolveSame DEF GoodClaim
      <3> QED
        BY <3>1, <3>2
    <2>2. CASE me.pc = "pause"
      <3>1. exec' = [exec EXCEPT !.phase = "pausing", !.cold = ~me.keep] /\ exec.phase = "running"
        BY <1>1, <2>2 DEF Claimed, Granted
      <3>2. exec' \in Execution /\ exec'.phase = "pausing" /\ exec'.gen = exec.gen /\ exec'.unnamed = exec.unnamed
        BY <1>2, <3>1 DEF Execution, Phases
      <3> QED
        BY <2>2, <3>1, <3>2 DEF Evolves, GoodExecution, Stable, GoodClaim
    <2>3. CASE me.pc = "resume"
      <3>1. exec' = [exec EXCEPT !.phase = "resuming"] /\ exec.phase = "paused"
        BY <1>1, <2>3 DEF Claimed, Granted
      <3>2. exec' \in Execution /\ exec'.phase = "resuming" /\ exec'.gen = exec.gen /\ exec'.unnamed = exec.unnamed
        BY <1>2, <3>1 DEF Execution, Phases
      <3> QED
        BY <2>3, <3>1, <3>2 DEF Evolves, GoodExecution, Stable, GoodClaim
    <2>4. CASE me.pc = "kill"
      <3>1. CASE exec.phase = "ended"
        <4>1. exec' = exec
          BY <1>1, <2>4, <3>1 DEF Claimed
        <4> QED
          BY <1>2, <1>3, <2>4, <3>1, <4>1, EvolveSame DEF GoodClaim
      <3>2. CASE exec.phase # "ended"
        <4>1. exec' = [exec EXCEPT !.phase = "killing"]
          BY <1>1, <2>4, <3>2 DEF Claimed
        <4>2. exec' \in Execution /\ exec'.phase = "killing" /\ exec'.gen = exec.gen /\ exec'.unnamed = exec.unnamed
          BY <1>2, <4>1 DEF Execution, Phases
        <4> QED
          BY <1>3, <1>4, <2>4, <3>2, <4>2 DEF Evolves, GoodExecution, Stable, GoodClaim, Phases
      <3> QED
        BY <3>1, <3>2
    <2> QED
      BY <1>1, <2>1, <2>2, <2>3, <2>4 DEF NeedsManager
  <1>6. LockFits'
    BY <1>1, <1>5 DEF LockFits
  <1>7. /\ rec' \in SandboxRecord \cup {NoRecord} /\ RecordMoves(rec, rec') /\ rec' = rec
        /\ up' \in BOOLEAN /\ lock' \in Actors \cup {Free} /\ expired' \in BOOLEAN
        /\ act' \in [Actors -> Actor] /\ act' = act
    BY <1>1 DEF IndInv, TypeOK, RecordMoves
  <1>8. IndInv'
    BY <1>5, <1>6, <1>7, OneActorStep
  <1> QED
    BY <1>5, <1>8

\* The runtime when a call answers with a lease.
Delivers(pc, phase) ==
    /\ pc \in {"start", "resume"} => phase = "running"
    /\ pc = "pause" => phase = "paused"
    /\ pc = "kill" => phase = "ended"

LEMMA AfterCallGood ==
    ASSUME NEW a \in Actors, act[a] \in Actor, act[a].pc \in NeedsManager, NEW r,
           exec' \in Execution, GoodActor(act[a], r, exec'),
           NEW result, result = "ok" => Delivers(act[a].pc, exec'.phase)
    PROVE  /\ AfterCall(a, result) \in Actor
           /\ AfterCall(a, result).pc # "reserve"
           /\ GoodActor(AfterCall(a, result), r, exec')
  <1> DEFINE me == act[a]
             n == AfterCall(a, result)
             e == exec'
  <1>1. /\ Holds(me) /\ GoodCopy(me.copy, r, e) /\ GoodStep(me) /\ GoodLease(me, e)
        /\ e.gen \in Nat /\ me.pc \in {"start", "pause", "resume", "kill"}
    BY DEF GoodActor, Holds, NeedsManager, Execution
  <1>2. ASSUME n = Idle
        PROVE  n \in Actor /\ n.pc # "reserve" /\ GoodActor(n, r, e)
    BY <1>2, IdleFacts, AtEase
  <1>3. ASSUME NEW pc \in {"abort", "fail", "publish"}, n = [me EXCEPT !.pc = pc],
               pc = "abort" => me.copy.state \in {"pausing", "resuming"},
               pc = "fail" => me.copy.state \notin Terminal \cup {"killing"},
               pc = "publish" => me.copy.state = "killing" /\ e.phase = "ended"
        PROVE  n \in Actor /\ n.pc # "reserve" /\ GoodActor(n, r, e)
    <2>1. n \in Actor /\ n.pc = pc /\ n.op = me.op /\ n.copy = me.copy /\ n.lease = me.lease
      BY <1>3 DEF Actor, Pcs
    <2> HIDE DEF n
    <2>2. GoodStep(n) /\ GoodLease(n, e)
      BY <1>1, <1>3, <2>1 DEF GoodStep, GoodLease, Transitional
    <2> QED
      BY <1>1, <1>3, <2>1, <2>2 DEF GoodActor
  <1>4. ASSUME NEW pc \in {"envd", "publish"}, n = [[me EXCEPT !.lease = e.gen] EXCEPT !.pc = pc],
               \/ me.copy.state \in {"creating", "resuming"} /\ e.phase = "running"
               \/ pc = "publish" /\ me.copy.state = "pausing" /\ e.phase = "paused"
        PROVE  n \in Actor /\ n.pc # "reserve" /\ GoodActor(n, r, e)
    <2>1. n \in Actor /\ n.pc = pc /\ n.op = me.op /\ n.copy = me.copy /\ n.lease = e.gen
      BY <1>1, <1>4 DEF Actor, Pcs
    <2> HIDE DEF n
    <2>2. GoodStep(n) /\ GoodLease(n, e)
      BY <1>1, <1>4, <2>1 DEF GoodStep, GoodLease, Transitional, RunPhases, PausePhases
    <2> QED
      BY <1>1, <1>4, <2>1, <2>2 DEF GoodActor
  <1>5. CASE me.pc = "start"
    <2>1. me.copy.state = "creating"
      BY <1>1, <1>5 DEF GoodStep
    <2>2. CASE result = "ok"
      <3>1. n = [[me EXCEPT !.lease = e.gen] EXCEPT !.pc = "envd"] /\ e.phase = "running"
        BY <1>5, <2>2 DEF AfterCall, Delivers
      <3> QED
        BY <1>4, <2>1, <3>1
    <2>3. CASE result # "ok"
      <3>1. n = Idle \/ n = [me EXCEPT !.pc = "fail"]
        BY <1>5, <2>3 DEF AfterCall
      <3> QED
        BY <1>2, <1>3, <2>1, <3>1 DEF Terminal
    <2> QED
      BY <2>2, <2>3
  <1>6. CASE me.pc = "pause"
    <2>1. me.copy.state = "pausing"
      BY <1>1, <1>6 DEF GoodStep
    <2>2. CASE result = "ok"
      <3>1. n = [[me EXCEPT !.lease = e.gen] EXCEPT !.pc = "publish"] /\ e.phase = "paused"
        BY <1>6, <2>2 DEF AfterCall, Delivers
      <3> QED
        BY <1>4, <2>1, <3>1
    <2>3. CASE result # "ok"
      <3>1. n = Idle \/ n = [me EXCEPT !.pc = "fail"] \/ n = [me EXCEPT !.pc = "abort"]
        BY <1>6, <2>3 DEF AfterCall
      <3> QED
        BY <1>2, <1>3, <2>1, <3>1 DEF Terminal
    <2> QED
      BY <2>2, <2>3
  <1>7. CASE me.pc = "resume"
    <2>1. me.copy.state = "resuming"
      BY <1>1, <1>7 DEF GoodStep
    <2>2. CASE result = "ok"
      <3>1. /\ n = [[me EXCEPT !.lease = e.gen] EXCEPT !.pc = AfterLease(me.copy)] /\ e.phase = "running"
            /\ AfterLease(me.copy) \in {"publish", "envd"}
        BY <1>7, <2>2 DEF AfterCall, Delivers, AfterLease
      <3> QED
        BY <1>4, <2>1, <3>1
    <2>3. CASE result # "ok"
      <3>1. n = Idle \/ n = [me EXCEPT !.pc = "fail"] \/ n = [me EXCEPT !.pc = "abort"]
        BY <1>7, <2>3 DEF AfterCall
      <3> QED
        BY <1>2, <1>3, <2>1, <3>1 DEF Terminal
    <2> QED
      BY <2>2, <2>3
  <1>8. CASE me.pc = "kill"
    <2>1. me.copy.state \in {"creating", "resuming", "killing"}
      BY <1>1, <1>8 DEF GoodStep
    <2>2. CASE me.copy.state # "killing"
      <3>1. n = [me EXCEPT !.pc = "fail"]
        BY <1>8, <2>2 DEF AfterCall
      <3> QED
        BY <1>3, <2>1, <2>2, <3>1 DEF Terminal
    <2>3. CASE me.copy.state = "killing"
      <3>1. n = Idle \/ (n = [me EXCEPT !.pc = "publish"] /\ e.phase = "ended")
        BY <1>8, <2>3 DEF AfterCall, Delivers
      <3> QED
        BY <1>2, <1>3, <2>3, <3>1
    <2> QED
      BY <2>2, <2>3
  <1> QED
    BY <1>1, <1>5, <1>6, <1>7, <1>8

\* A call ends: Complete and Refuse.
LEMMA CallEnds ==
    ASSUME IndInv, NEW a \in Actors, act[a].pc \in NeedsManager, lock' = Free,
           UNCHANGED <<rec, expired, up>>, Evolves(exec, exec'),
           NEW result, result = "ok" => Delivers(act[a].pc, exec'.phase),
           Set(a, AfterCall(a, result))
    PROVE  IndInv'
  <1>1. /\ exec \in Execution /\ exec' \in Execution /\ act \in [Actors -> Actor]
        /\ rec \in SandboxRecord \cup {NoRecord} /\ GoodActor(act[a], rec, exec) /\ RecordMoves(rec, rec)
    BY DEF IndInv, TypeOK, Evolves, RecordMoves
  <1>2. GoodActor(act[a], rec, exec')
    BY <1>1, ActorKept
  <1> DEFINE n == AfterCall(a, result)
  <1>3. n \in Actor /\ n.pc # "reserve" /\ GoodActor(n, rec, exec')
    BY <1>1, <1>2, AfterCallGood
  <1>4. Set(a, n)
    OBVIOUS
  <1> HIDE DEF n
  <1>5. act' \in [Actors -> Actor] /\ act'[a] = n /\ \A b \in Actors : b # a => act'[b] = act[b]
    BY <1>1, <1>3, <1>4, SetFacts
  <1>6. /\ rec' \in SandboxRecord \cup {NoRecord} /\ RecordMoves(rec, rec') /\ rec' = rec
        /\ up' \in BOOLEAN /\ lock' \in Actors \cup {Free} /\ expired' \in BOOLEAN /\ LockFits'
    BY <1>1 DEF IndInv, TypeOK, LockFits
  <1> QED
    BY <1>3, <1>5, <1>6, OneActorStep

LEMMA RefuseInv ==
    ASSUME IndInv, NEW a \in Actors, Refuse(a)
    PROVE  IndInv' /\ Evolves(exec, exec')
  <1>1. Evolves(exec, exec')
    BY EvolveSame DEF IndInv, TypeOK, Refuse
  <1>2. /\ act[a].pc \in NeedsManager /\ lock' = Free /\ UNCHANGED <<rec, expired, up>>
        /\ Set(a, AfterCall(a, "conflict")) /\ "conflict" # "ok"
    BY DEF Refuse
  <1> DEFINE result == "conflict"
  <1>3. (result = "ok" => Delivers(act[a].pc, exec'.phase)) /\ Set(a, AfterCall(a, result))
    BY <1>2
  <1> HIDE DEF result
  <1> QED
    BY <1>1, <1>2, <1>3, CallEnds

LEMMA CompleteInv ==
    ASSUME IndInv, NEW a \in Actors, Complete(a)
    PROVE  IndInv' /\ Evolves(exec, exec')
  <1>1. /\ act[a].pc \in NeedsManager /\ lock = a /\ lock' = Free /\ UNCHANGED <<rec, expired, up>>
    BY DEF Complete
  <1>2. PICK c \in Completions(exec) : exec' = c[1] /\ Set(a, AfterCall(a, c[2]))
    BY DEF Complete
  <1>3. exec \in Execution /\ GoodExecution(exec) /\ GoodClaim(act[a].pc, exec.phase)
    BY <1>1, ControlAssumption DEF IndInv, TypeOK, LockFits, Actors
  <1>4. Evolves(exec, exec') /\ (c[2] = "ok" => Answers(exec, exec'))
    BY <1>2, <1>3, CompletionFacts
  <1>5. c[2] = "ok" => Delivers(act[a].pc, exec'.phase)
    BY <1>3, <1>4 DEF Answers, Delivers, GoodClaim
  <1> DEFINE result == c[2]
  <1>6. (result = "ok" => Delivers(act[a].pc, exec'.phase)) /\ Set(a, AfterCall(a, result))
    BY <1>2, <1>5
  <1> HIDE DEF result
  <1> QED
    BY <1>1, <1>4, <1>6, CallEnds

-----------------------------------------------------------------------------
(* The supervisor                                                          *)

\* A step that asks the manager while nobody else does.
LEMMA AsksManager ==
    ASSUME IndInv, NEW a \in Actors, Holds(act[a]), lock = Free, UNCHANGED <<rec, expired, lock, up>>,
           Evolves(exec, exec'), NEW n \in Actor, n.pc # "reserve", GoodActor(n, rec, exec'), Set(a, n)
    PROVE  IndInv'
  <1>1. act' \in [Actors -> Actor] /\ act'[a] = n /\ \A b \in Actors : b # a => act'[b] = act[b]
    BY SetFacts DEF IndInv, TypeOK
  <1>2. /\ rec' \in SandboxRecord \cup {NoRecord} /\ RecordMoves(rec, rec') /\ rec' = rec
        /\ up' \in BOOLEAN /\ lock' \in Actors \cup {Free} /\ expired' \in BOOLEAN /\ LockFits'
    BY DEF IndInv, TypeOK, LockFits, RecordMoves
  <1> QED
    BY <1>1, <1>2, OneActorStep

LEMMA ReconcileInv ==
    ASSUME IndInv, Reconcile
    PROVE  IndInv' /\ Evolves(exec, exec')
  <1> DEFINE me == act[Supervisor]
             c == me.copy
             e == exec'
  <1>1. /\ Supervisor \in Actors /\ me.pc = "reconcile" /\ Holds(me) /\ lock = Free
        /\ UNCHANGED <<rec, expired, lock, up>>
    BY DEF Reconcile, Holds, Actors
  <1>2. PICK r \in Reconciled :
         /\ exec' = r[1]
         /\ LET phase == r[1].phase
                leased == [me EXCEPT !.lease = r[1].gen]
                known == c.execGen \in {0, r[1].gen} IN
            CASE r[2] # "ok" -> Finish(Supervisor)
              [] r[2] = "ok" /\ phase \in {"absent", "ended"} -> Goto(Supervisor, "fail")
              [] r[2] = "ok" /\ phase = "created" ->
                   Set(Supervisor, IF ~known THEN Idle
                                   ELSE IF c.state = "creating" THEN [me EXCEPT !.pc = "start"]
                                   ELSE IF c.state = "killing" THEN [leased EXCEPT !.pc = "kill"]
                                   ELSE Idle)
              [] OTHER -> Set(Supervisor, [leased EXCEPT !.pc = "inspect"])
    BY DEF Reconcile
  <1>3. /\ me \in Actor /\ exec \in Execution /\ GoodExecution(exec) /\ GoodActor(me, rec, exec)
        /\ rec \in SandboxRecord \cup {NoRecord} /\ RecordMoves(rec, rec)
    BY <1>1 DEF IndInv, TypeOK, RecordMoves
  <1>4. Evolves(exec, e) /\ e \in Execution /\ e.gen \in Nat
    BY <1>2, <1>3, ReconciledFacts DEF Evolves, Execution
  <1>5. GoodActor(me, rec, e)
    BY <1>3, <1>4, ActorKept
  <1>6. GoodCopy(c, rec, e) /\ GoodStep(me) /\ GoodLease(me, e) /\ c.state \notin Terminal
    BY <1>1, <1>5 DEF GoodActor, GoodStep
  <1>7. ASSUME Finish(Supervisor)
        PROVE  IndInv'
    <2>1. Set(Supervisor, Idle) /\ Idle \in Actor /\ Idle.pc # "reserve" /\ GoodActor(Idle, rec, e)
      BY <1>4, <1>7, IdleFacts, AtEase DEF Finish
    <2> QED
      BY <1>1, <1>4, <2>1, AsksManager
  <1>8. ASSUME Goto(Supervisor, "fail"), e.phase \in {"absent", "ended"}
        PROVE  IndInv'
    <2> DEFINE n == [me EXCEPT !.pc = "fail"]
    <2>1. Set(Supervisor, n)
      BY <1>8 DEF Goto
    <2>2. n \in Actor /\ n.pc = "fail" /\ n.copy = c /\ n.lease = me.lease
      BY <1>3 DEF Actor, Pcs
    <2> HIDE DEF n
    <2>3. GoodActor(n, rec, e)
      BY <1>6, <1>8, <2>2 DEF GoodActor, GoodStep, GoodLease, GoodCopy
    <2> QED
      BY <1>1, <1>4, <2>1, <2>2, <2>3, AsksManager
  <1>9. ASSUME Set(Supervisor, [me EXCEPT !.pc = "start"]), c.state = "creating"
        PROVE  IndInv'
    <2> DEFINE n == [me EXCEPT !.pc = "start"]
    <2>1. Set(Supervisor, n)
      BY <1>9
    <2>2. n \in Actor /\ n.pc = "start" /\ n.copy = c /\ n.lease = me.lease
      BY <1>3 DEF Actor, Pcs
    <2> HIDE DEF n
    <2>3. GoodActor(n, rec, e)
      BY <1>6, <1>9, <2>2 DEF GoodActor, GoodStep, GoodLease
    <2> QED
      BY <1>1, <1>4, <2>1, <2>2, <2>3, AsksManager
  <1>10. ASSUME NEW pc \in {"kill", "inspect"}, pc = "kill" => c.state = "killing",
                Set(Supervisor, [[me EXCEPT !.lease = e.gen] EXCEPT !.pc = pc]), e.phase # "absent"
         PROVE  IndInv'
    <2> DEFINE n == [[me EXCEPT !.lease = e.gen] EXCEPT !.pc = pc]
    <2>1. Set(Supervisor, n)
      BY <1>10
    <2>2. n \in Actor /\ n.pc = pc /\ n.copy = c /\ n.lease = e.gen
      BY <1>3, <1>4, <1>10 DEF Actor, Pcs
    <2> HIDE DEF n
    <2>3. GoodActor(n, rec, e)
      BY <1>4, <1>6, <1>10, <2>2 DEF GoodActor, GoodStep, GoodLease
    <2> QED
      BY <1>1, <1>4, <1>10, <2>1, <2>2, <2>3, AsksManager
  <1>11. CASE r[2] # "ok"
    BY <1>2, <1>4, <1>7, <1>11
  <1>12. CASE r[2] = "ok" /\ e.phase \in {"absent", "ended"}
    BY <1>2, <1>4, <1>8, <1>12
  <1>13. CASE r[2] = "ok" /\ e.phase = "created"
    <2>1. \/ Set(Supervisor, Idle)
          \/ Set(Supervisor, [me EXCEPT !.pc = "start"]) /\ c.state = "creating"
          \/ Set(Supervisor, [[me EXCEPT !.lease = e.gen] EXCEPT !.pc = "kill"]) /\ c.state = "killing"
      BY <1>2, <1>13
    <2>2. CASE Set(Supervisor, Idle)
      BY <1>4, <1>7, <2>2 DEF Finish
    <2>3. CASE Set(Supervisor, [me EXCEPT !.pc = "start"]) /\ c.state = "creating"
      BY <1>4, <1>9, <2>3
    <2>4. CASE Set(Supervisor, [[me EXCEPT !.lease = e.gen] EXCEPT !.pc = "kill"]) /\ c.state = "killing"
      BY <1>4, <1>10, <1>13, <2>4
    <2> QED
      BY <2>1, <2>2, <2>3, <2>4
  <1>14. CASE r[2] = "ok" /\ e.phase \notin {"absent", "ended", "created"}
    <2>1. Set(Supervisor, [[me EXCEPT !.lease = e.gen] EXCEPT !.pc = "inspect"])
      BY <1>2, <1>14
    <2> QED
      BY <1>4, <1>10, <1>14, <2>1
  <1> QED
    BY <1>11, <1>12, <1>13, <1>14

\* What an inspection reports is what the generation of the lease did.
LEMMA ReportedFacts ==
    ASSUME NEW e \in Execution
    PROVE  /\ Reported(e) = "ended" => e.phase = "ended"
           /\ Reported(e) = "running" => e.phase \in RunPhases
           /\ Reported(e) = "paused" => e.phase \in PausePhases
  BY DEF Reported, RunPhases, PausePhases, Execution, Phases

LEMMA InspectInv ==
    ASSUME IndInv, Inspect
    PROVE  IndInv' /\ Evolves(exec, exec')
  <1> DEFINE me == act[Supervisor]
             c == me.copy
             e == exec'
             state == Reported(e)
  <1>1. /\ Supervisor \in Actors /\ me.pc = "inspect" /\ Holds(me) /\ lock = Free
        /\ UNCHANGED <<rec, expired, lock, up>>
    BY DEF Inspect, Holds, Actors
  <1>2. PICK o \in Observations(exec) :
         /\ e = o[1]
         /\ Set(Supervisor,
              IF o[2] # "ok" \/ o[1].gen # me.lease THEN Idle
              ELSE CASE Reported(o[1]) = "ended" -> [me EXCEPT !.pc = "fail"]
                     [] Reported(o[1]) = "running" /\ c.state \in {"creating", "resuming"} ->
                          [me EXCEPT !.pc = AfterLease(c)]
                     [] Reported(o[1]) = "running" /\ c.state = "pausing" /\ c.execGen = me.lease ->
                          [me EXCEPT !.pc = "pause", !.keep = c.memory]
                     [] Reported(o[1]) = "paused" /\ c.state = "pausing" -> [me EXCEPT !.pc = "publish"]
                     [] Reported(o[1]) = "paused" /\ c.state = "resuming" /\ c.execGen = me.lease ->
                          [me EXCEPT !.pc = "resume"]
                     [] Reported(o[1]) \in {"running", "paused"} /\ c.state = "killing" /\ KillTarget(c, me.lease) ->
                          [me EXCEPT !.pc = "kill"]
                     [] OTHER -> Idle)
    BY DEF Inspect
  <1>3. /\ me \in Actor /\ exec \in Execution /\ GoodExecution(exec) /\ GoodActor(me, rec, exec)
        /\ rec \in SandboxRecord \cup {NoRecord} /\ RecordMoves(rec, rec)
    BY <1>1 DEF IndInv, TypeOK, RecordMoves
  <1>4. Evolves(exec, e) /\ e \in Execution /\ e.gen \in Nat
    <2>1. Evolves(exec, e)
      <3>1. Evolves(exec, o[1])
        BY <1>3, ObservationFacts
      <3> QED
        BY <1>2, <3>1
    <2>2. e \in Execution
      BY <2>1 DEF Evolves
    <2> QED
      BY <2>1, <2>2 DEF Execution
  <1>5. GoodActor(me, rec, e)
    BY <1>3, <1>4, ActorKept
  <1>6. GoodCopy(c, rec, e) /\ GoodStep(me) /\ GoodLease(me, e) /\ c.state \notin Terminal
    BY <1>1, <1>5 DEF GoodActor, GoodStep
  <1>7. c \in SandboxRecord /\ c.memory \in BOOLEAN
    BY <1>6, RecordTypes DEF GoodCopy
  <1>8. /\ state = "ended" => e.phase = "ended"
        /\ state = "running" => e.phase \in RunPhases
        /\ state = "paused" => e.phase \in PausePhases
    BY <1>4, ReportedFacts
  <1> DEFINE Fits(pc) ==
        \/ pc = "fail" /\ e.phase = "ended"
        \/ pc \in {"envd", "publish"} /\ c.state \in {"creating", "resuming"} /\ e.phase \in RunPhases
        \/ pc = "publish" /\ c.state = "pausing" /\ e.phase \in PausePhases
        \/ pc = "resume" /\ c.state = "resuming"
        \/ pc = "kill" /\ c.state = "killing"
  <1>9. ASSUME Set(Supervisor, Idle)
        PROVE  IndInv'
    <2>1. Idle \in Actor /\ Idle.pc # "reserve" /\ GoodActor(Idle, rec, e)
      BY <1>4, IdleFacts, AtEase
    <2> QED
      BY <1>1, <1>4, <1>9, <2>1, AsksManager
  <1>10. ASSUME NEW pc \in {"fail", "envd", "publish", "resume", "kill"}, Fits(pc),
                Set(Supervisor, [me EXCEPT !.pc = pc])
         PROVE  IndInv'
    <2> DEFINE n == [me EXCEPT !.pc = pc]
    <2>1. Set(Supervisor, n)
      BY <1>10
    <2>2. n \in Actor /\ n.pc = pc /\ n.copy = c /\ n.lease = me.lease
      BY <1>3, <1>10 DEF Actor, Pcs
    <2> HIDE DEF n
    <2>3. GoodStep(n) /\ GoodLease(n, e)
      BY <1>6, <1>10, <2>2 DEF GoodStep, GoodLease, Transitional
    <2>4. GoodActor(n, rec, e)
      BY <1>6, <2>2, <2>3 DEF GoodActor
    <2> QED
      BY <1>1, <1>4, <1>10, <2>1, <2>2, <2>4, AsksManager
  <1>11. ASSUME Set(Supervisor, [me EXCEPT !.pc = "pause", !.keep = c.memory]), c.state = "pausing"
         PROVE  IndInv'
    <2> DEFINE n == [me EXCEPT !.pc = "pause", !.keep = c.memory]
    <2>1. Set(Supervisor, n)
      BY <1>11
    <2>2. n \in Actor /\ n.pc = "pause" /\ n.copy = c /\ n.lease = me.lease
      BY <1>3, <1>7 DEF Actor, Pcs
    <2> HIDE DEF n
    <2>3. GoodStep(n) /\ GoodLease(n, e)
      BY <1>6, <1>11, <2>2 DEF GoodStep, GoodLease
    <2>4. GoodActor(n, rec, e)
      BY <1>6, <2>2, <2>3 DEF GoodActor
    <2> QED
      BY <1>1, <1>4, <2>1, <2>2, <2>4, AsksManager
  <1>12. \/ Set(Supervisor, Idle)
         \/ Set(Supervisor, [me EXCEPT !.pc = "fail"]) /\ state = "ended"
         \/ /\ Set(Supervisor, [me EXCEPT !.pc = AfterLease(c)])
            /\ state = "running" /\ c.state \in {"creating", "resuming"}
         \/ Set(Supervisor, [me EXCEPT !.pc = "pause", !.keep = c.memory]) /\ c.state = "pausing"
         \/ Set(Supervisor, [me EXCEPT !.pc = "publish"]) /\ state = "paused" /\ c.state = "pausing"
         \/ Set(Supervisor, [me EXCEPT !.pc = "resume"]) /\ c.state = "resuming"
         \/ Set(Supervisor, [me EXCEPT !.pc = "kill"]) /\ c.state = "killing"
    BY <1>2
  <1>13. CASE Set(Supervisor, Idle)
    BY <1>4, <1>9, <1>13
  <1>14. CASE Set(Supervisor, [me EXCEPT !.pc = "fail"]) /\ state = "ended"
    BY <1>4, <1>8, <1>10, <1>14
  <1>15. CASE /\ Set(Supervisor, [me EXCEPT !.pc = AfterLease(c)])
              /\ state = "running" /\ c.state \in {"creating", "resuming"}
    <2>1. AfterLease(c) \in {"publish", "envd"}
      BY DEF AfterLease
    <2> QED
      BY <1>4, <1>8, <1>10, <1>15, <2>1
  <1>16. CASE Set(Supervisor, [me EXCEPT !.pc = "pause", !.keep = c.memory]) /\ c.state = "pausing"
    BY <1>4, <1>11, <1>16
  <1>17. CASE Set(Supervisor, [me EXCEPT !.pc = "publish"]) /\ state = "paused" /\ c.state = "pausing"
    BY <1>4, <1>8, <1>10, <1>17
  <1>18. CASE Set(Supervisor, [me EXCEPT !.pc = "resume"]) /\ c.state = "resuming"
    BY <1>4, <1>10, <1>18
  <1>19. CASE Set(Supervisor, [me EXCEPT !.pc = "kill"]) /\ c.state = "killing"
    BY <1>4, <1>10, <1>19
  <1> QED
    BY <1>4, <1>12, <1>13, <1>14, <1>15, <1>16, <1>17, <1>18, <1>19

LEMMA ReapExpiredInv ==
    ASSUME IndInv, ReapExpired
    PROVE  IndInv'
  <1> DEFINE new == IF rec.policy = "kill" THEN BeginKill(rec) ELSE BeginPause(rec, rec.policy = "pause")
             pc == IF rec.policy = "kill" THEN "kill" ELSE "pause"
             n == [Idle EXCEPT !.op = "reap", !.copy = rec', !.keep = rec'.memory, !.pc = pc]
  <1>1. /\ Supervisor \in Actors /\ act[Supervisor].pc = "idle" /\ act[Supervisor].pc \notin NeedsManager
        /\ rec # NoRecord /\ (rec.state = "running" \/ (rec.state = "paused" /\ rec.policy = "kill"))
        /\ UNCHANGED <<expired, exec, lock, up>> /\ rec' = new /\ Set(Supervisor, n)
    BY DEF ReapExpired, Claimable, Actors, NeedsManager
  <1>2. rec \in SandboxRecord /\ GoodRecord(rec, exec) /\ exec.gen \in Nat /\ rec.gen \in Nat
    BY <1>1, FreshCopy, RecordTypes
  <1>3. /\ new \in SandboxRecord /\ new.gen = rec.gen + 1
        /\ new.execGen = rec.execGen /\ new.failure = rec.failure
        /\ \/ pc = "kill" /\ new.state = "killing" /\ new.memory = TRUE
           \/ pc = "pause" /\ new.state = "pausing" /\ rec.state = "running"
    <2>1. CASE rec.policy = "kill"
      BY <1>2, <2>1, BeginKillFacts
    <2>2. CASE rec.policy # "kill"
      <3> DEFINE keep == rec.policy = "pause"
      <3>1. keep \in BOOLEAN /\ new = BeginPause(rec, keep) /\ pc = "pause" /\ rec.state = "running"
        BY <1>1, <2>2
      <3> HIDE DEF keep
      <3> QED
        BY <1>2, <3>1, BeginPauseFacts
    <2> QED
      BY <2>1, <2>2
  <1> HIDE DEF new, pc
  <1>4. GoodRecord(rec', exec') /\ RecordMoves(rec, rec') /\ rec' \in SandboxRecord
    BY <1>1, <1>2, <1>3 DEF GoodRecord, RecordMoves
  <1>5. n \in Actor /\ n.pc = pc /\ n.copy = rec' /\ n.lease = 0
    BY <1>3, <1>4, IdleFacts, RecordTypes DEF Actor, Pcs
  <1>6. Set(Supervisor, n)
    BY <1>1
  <1> HIDE DEF n
  <1>7. GoodActor(n, rec', exec')
    <2>1. GoodCopy(rec', rec', exec')
      BY <1>1, <1>2, <1>3, <1>4, RecordTypes DEF GoodCopy, GoodRecord
    <2>2. GoodStep(n)
      BY <1>1, <1>3, <1>5 DEF GoodStep
    <2>3. GoodLease(n, exec')
      BY <1>1, <1>2, <1>3, <1>5 DEF GoodLease
    <2> QED
      BY <1>5, <2>1, <2>2, <2>3 DEF GoodActor
  <1>8. /\ act' \in [Actors -> Actor] /\ act'[Supervisor] = n
        /\ \A b \in Actors : b # Supervisor => act'[b] = act[b]
    BY <1>1, <1>5, <1>6, SetFacts DEF IndInv, TypeOK
  <1>9. LockFits'
    BY <1>1, <1>8, LockKept
  <1>10. Evolves(exec, exec') /\ expired' \in BOOLEAN /\ up' \in BOOLEAN /\ lock' \in Actors \cup {Free}
    BY <1>1, EvolveSame DEF IndInv, TypeOK
  <1>11. n.pc # "reserve"
    BY <1>3, <1>5
  <1> QED
    BY <1>1, <1>4, <1>7, <1>8, <1>9, <1>10, <1>11, OneActorStep

-----------------------------------------------------------------------------
(* The world                                                               *)

\* No actor moves.
LEMMA WorldStep ==
    ASSUME IndInv, UNCHANGED <<rec, lock, act, up>>, expired' \in BOOLEAN,
           Evolves(exec, exec'), exec'.phase = exec.phase
    PROVE  IndInv'
  <1>1. /\ Supervisor \in Actors /\ act' \in [Actors -> Actor] /\ act' = act
        /\ rec' \in SandboxRecord \cup {NoRecord} /\ RecordMoves(rec, rec') /\ rec' = rec
        /\ up' \in BOOLEAN /\ lock' \in Actors \cup {Free} /\ LockFits'
    BY DEF IndInv, TypeOK, LockFits, RecordMoves, Actors
  <1> QED
    BY <1>1, OneActorStep

LEMMA ExpireInv ==
    ASSUME IndInv, Expire
    PROVE  IndInv'
  <1>1. UNCHANGED <<rec, exec, lock, act, up>> /\ expired' \in BOOLEAN /\ Evolves(exec, exec')
    BY EvolveSame DEF Expire, IndInv, TypeOK
  <1> QED
    BY <1>1, WorldStep

LEMMA RuntimeExitsInv ==
    ASSUME IndInv, RuntimeExits
    PROVE  IndInv' /\ Evolves(exec, exec')
  <1>1. /\ UNCHANGED <<rec, expired, lock, act, up>> /\ expired' \in BOOLEAN /\ exec \in Execution
        /\ exec' = [exec EXCEPT !.alive = FALSE, !.frozen = FALSE] /\ GoodExecution(exec) /\ exec.alive
    BY DEF RuntimeExits, IndInv, TypeOK
  <1>2. /\ exec' \in Execution /\ exec'.phase = exec.phase /\ exec'.gen = exec.gen /\ ~exec'.alive
        /\ exec'.unnamed = exec.unnamed
    BY <1>1 DEF Execution
  <1>3. Evolves(exec, exec')
    BY <1>1, <1>2 DEF Evolves, GoodExecution
  <1> QED
    BY <1>1, <1>2, <1>3, WorldStep

LEMMA CancelInv ==
    ASSUME IndInv, NEW r \in Requests, Cancel(r)
    PROVE  IndInv' /\ Evolves(exec, exec')
  <1>1. /\ r \in Actors /\ r # Free /\ Finish(r) /\ UNCHANGED <<rec, expired, up>>
        /\ act \in [Actors -> Actor] /\ exec \in Execution /\ GoodExecution(exec)
    BY ControlAssumption DEF Cancel, Actors, IndInv, TypeOK
  <1>2. /\ act' \in [Actors -> Actor] /\ act'[r] = Idle /\ \A b \in Actors : b # r => act'[b] = act[b]
    BY <1>1, FinishFacts
  <1>3. Evolves(exec, exec') /\ lock' \in Actors \cup {Free} /\ LockFits'
    <2>1. CASE lock = r
      <3>1. exec' \in Interrupted /\ lock' = Free
        BY <2>1 DEF Cancel
      <3> QED
        BY <1>1, <3>1, InterruptedFacts DEF LockFits
    <2>2. CASE lock # r
      <3>1. UNCHANGED <<exec, lock, up>>
        BY <1>1, <2>2 DEF Cancel
      <3>2. lock # Free => act'[lock] = act[lock]
        BY <1>2, <2>2 DEF IndInv, TypeOK
      <3> QED
        BY <1>1, <3>1, <3>2, EvolveSame DEF IndInv, TypeOK, LockFits
    <2> QED
      BY <2>1, <2>2
  <1>4. exec' \in Execution
    BY <1>3 DEF Evolves
  <1>5. GoodActor(Idle, rec', exec') /\ Idle.pc # "reserve"
    BY <1>4, IdleFacts, AtEase
  <1>6. /\ rec' \in SandboxRecord \cup {NoRecord} /\ RecordMoves(rec, rec') /\ rec' = rec
        /\ up' \in BOOLEAN /\ expired' \in BOOLEAN
    BY <1>1 DEF IndInv, TypeOK, RecordMoves
  <1> QED
    BY <1>1, <1>2, <1>3, <1>5, <1>6, OneActorStep

\* The record and the execution survive, the actors do not.
LEMMA CrashInv ==
    ASSUME IndInv, Crash
    PROVE  IndInv' /\ Evolves(exec, exec')
  <1>1. /\ act' = [a \in Actors |-> Idle] /\ lock' = Free /\ up' = FALSE /\ UNCHANGED <<rec, expired>>
        /\ exec \in Execution /\ GoodExecution(exec)
    BY DEF Crash, IndInv, TypeOK
  <1>2. Evolves(exec, exec')
    <2>1. CASE lock # Free
      BY <1>1, <2>1, InterruptedFacts DEF Crash
    <2>2. CASE lock = Free
      BY <1>1, <2>2, EvolveSame DEF Crash
    <2> QED
      BY <2>1, <2>2
  <1>3. exec' \in Execution /\ GoodExecution(exec)'
    BY <1>2 DEF Evolves
  <1>4. \A a \in Actors : act'[a] = Idle /\ GoodActor(act'[a], rec', exec') /\ act'[a].pc # "reserve"
    BY <1>1, <1>3, IdleFacts, AtEase
  <1>5. RecordFits'
    <2>1. CASE rec = NoRecord
      BY <1>1, <1>2, <2>1, EvolveFacts DEF IndInv, RecordFits
    <2>2. CASE rec # NoRecord
      <3>1. rec \in SandboxRecord /\ GoodRecord(rec, exec)
        BY <2>2, FreshCopy
      <3>2. GoodRecord(rec, exec')
        BY <1>1, <1>2, <3>1, RecordKept
      <3> QED
        BY <1>1, <2>2, <3>2 DEF RecordFits
    <2> QED
      BY <2>1, <2>2
  <1>6. OneReserver' /\ LockFits'
    BY <1>1, <1>4 DEF OneReserver, LockFits
  <1>7. TypeOK'
    BY <1>1, <1>3, IdleFacts DEF IndInv, TypeOK
  <1> QED
    BY <1>2, <1>3, <1>4, <1>5, <1>6, <1>7 DEF IndInv

LEMMA RestartInv ==
    ASSUME IndInv, Restart
    PROVE  IndInv'
  <1>1. /\ ~up /\ up' = TRUE /\ Set(Supervisor, Starting) /\ UNCHANGED <<rec, expired, exec, lock>>
        /\ Supervisor \in Actors /\ act \in [Actors -> Actor] /\ exec \in Execution
    BY DEF Restart, IndInv, TypeOK, Actors
  <1>2. /\ act' \in [Actors -> Actor] /\ act'[Supervisor] = Starting
        /\ \A b \in Actors : b # Supervisor => act'[b] = act[b]
    BY <1>1, IdleFacts, SetFacts
  <1>3. lock = Free
    BY <1>1 DEF IndInv, LockFits
  <1>4. GoodActor(Starting, rec', exec') /\ Starting.pc # "reserve"
    BY <1>1, IdleFacts, AtEase
  <1>5. /\ rec' \in SandboxRecord \cup {NoRecord} /\ RecordMoves(rec, rec') /\ rec' = rec
        /\ up' \in BOOLEAN /\ expired' \in BOOLEAN /\ lock' \in Actors \cup {Free} /\ LockFits'
        /\ Evolves(exec, exec')
    BY <1>1, <1>3, EvolveSame DEF IndInv, TypeOK, RecordMoves, LockFits
  <1> QED
    BY <1>1, <1>2, <1>4, <1>5, OneActorStep

-----------------------------------------------------------------------------
(* The specification                                                       *)

LEMMA InitInv ==
    ASSUME Init
    PROVE  IndInv
  <1>1. exec \in Execution /\ exec.phase = "absent" /\ exec.gen = 1 /\ ~exec.alive
    <2>1. 1 \in Nat \ {0}
      OBVIOUS
    <2> QED
      BY <2>1 DEF Init, Execution, Phases
  <1>2. /\ rec = NoRecord /\ expired = FALSE /\ lock = Free /\ up = TRUE
        /\ act = [a \in Actors |-> IF a = Supervisor THEN Starting ELSE Idle]
    BY DEF Init
  <1>3. \A a \in Actors : /\ act[a] \in Actor /\ act[a].pc \in {"idle", "list"} /\ act[a].lease = 0
                          /\ GoodActor(act[a], rec, exec)
    BY <1>1, <1>2, IdleFacts, AtEase
  <1>4. act \in [Actors -> Actor]
    BY <1>2, IdleFacts
  <1>5. TypeOK /\ GoodExecution(exec) /\ RecordFits /\ LockFits
    BY <1>1, <1>2, <1>4 DEF TypeOK, GoodExecution, RecordFits, LockFits
  <1>6. OneReserver
    BY <1>3 DEF OneReserver
  <1> QED
    BY <1>3, <1>5, <1>6 DEF IndInv

LEMMA ProgressInv ==
    ASSUME IndInv, up, NEW a \in Actors, Progress(a)
    PROVE  IndInv' /\ Evolves(exec, exec')
  <1>1. UNCHANGED exec => Evolves(exec, exec')
    BY EvolveSame DEF IndInv, TypeOK
  <1>2. CASE Refuse(a)
    BY <1>2, RefuseInv
  <1>3. CASE Claim(a)
    BY <1>3, ClaimInv
  <1>4. CASE Complete(a)
    BY <1>4, CompleteInv
  <1>5. CASE InitializeEnvd(a)
    BY <1>1, <1>5, InitializeEnvdInv DEF InitializeEnvd
  <1>6. CASE Publish(a)
    BY <1>1, <1>6, PublishInv DEF Publish
  <1>7. CASE Abort(a)
    BY <1>1, <1>7, AbortInv DEF Abort
  <1>8. CASE Fail(a)
    BY <1>1, <1>8, FailInv DEF Fail
  <1> QED
    BY <1>2, <1>3, <1>4, <1>5, <1>6, <1>7, <1>8 DEF Progress

\* Only a reservation makes an execution appear; every other step is one that
\* the manager may make of an execution that exists, or leaves it alone.
Appeared == exec.phase = "absent" /\ exec'.phase = "created" /\ exec'.gen = exec.gen

LEMMA NextInv ==
    ASSUME IndInv, Next
    PROVE  IndInv' /\ (Evolves(exec, exec') \/ Appeared)
  <1>1. UNCHANGED exec => Evolves(exec, exec')
    BY EvolveSame DEF IndInv, TypeOK
  <1>2. ASSUME up, NEW r \in Requests,
               \/ Create(r) \/ Connect(r) \/ Pause(r) \/ SetTimeout(r) \/ Kill(r)
               \/ RequestStep(r)
               \/ Cancel(r)
        PROVE  IndInv' /\ (Evolves(exec, exec') \/ Appeared)
    <2>1. r \in Actors
      BY DEF Actors
    <2>2. CASE Create(r)
      BY <2>2, CreateInv
    <2>3. CASE Connect(r) \/ Pause(r) \/ SetTimeout(r) \/ Kill(r)
      BY <2>3, RequestInv
    <2>4. CASE Reserve(r)
      <3>1. CASE exec' = [exec EXCEPT !.phase = "created"] /\ Goto(r, "start")
        BY <2>4, <3>1, ReserveInv DEF Reserve, Appeared
      <3>2. CASE Goto(r, "fail") /\ UNCHANGED exec
        BY <2>4, <3>2, ReserveFails DEF Reserve
      <3> QED
        BY <2>4, <3>1, <3>2 DEF Reserve
    <2>5. CASE Begin(r)
      BY <2>1, <2>5, BeginInv
    <2>6. CASE Extend(r)
      BY <1>1, <2>1, <2>6, ExtendInv DEF Extend
    <2>7. CASE Progress(r)
      BY <1>2, <2>1, <2>7, ProgressInv
    <2>8. CASE Cancel(r)
      BY <2>8, CancelInv
    <2> QED
      BY <1>2, <2>2, <2>3, <2>4, <2>5, <2>6, <2>7, <2>8 DEF RequestStep
  <1>3. ASSUME up, SupervisorStep
        PROVE  IndInv' /\ Evolves(exec, exec')
    <2>1. Supervisor \in Actors
      BY DEF Actors
    <2>2. CASE List
      BY <1>1, <2>2, ListInv DEF List
    <2>3. CASE Reconcile
      BY <2>3, ReconcileInv
    <2>4. CASE Inspect
      BY <2>4, InspectInv
    <2>5. CASE ReapExpired
      BY <1>1, <2>5, ReapExpiredInv DEF ReapExpired
    <2>6. CASE Progress(Supervisor)
      BY <1>3, <2>1, <2>6, ProgressInv
    <2> QED
      BY <1>3, <2>2, <2>3, <2>4, <2>5, <2>6 DEF SupervisorStep
  <1>4. CASE Expire
    BY <1>1, <1>4, ExpireInv DEF Expire
  <1>5. CASE RuntimeExits
    BY <1>5, RuntimeExitsInv
  <1>6. CASE Crash
    BY <1>6, CrashInv
  <1>7. CASE Restart
    BY <1>1, <1>7, RestartInv DEF Restart
  <1> QED
    BY <1>2, <1>3, <1>4, <1>5, <1>6, <1>7 DEF Next

LEMMA StutterInv ==
    ASSUME IndInv, UNCHANGED vars
    PROVE  IndInv' /\ Evolves(exec, exec')
  <1>1. UNCHANGED <<rec, expired, exec, lock, act, up>> /\ expired' \in BOOLEAN /\ Evolves(exec, exec')
    BY EvolveSame DEF vars, IndInv, TypeOK
  <1> QED
    BY <1>1, WorldStep

LEMMA Invariance == Spec => []IndInv
  <1>1. Init => IndInv
    BY InitInv
  <1>2. IndInv /\ [Next]_vars => IndInv'
    BY NextInv, StutterInv
  <1> QED
    BY <1>1, <1>2, PTL DEF Spec

\* Every value keeps its type, and who holds the lifecycle lock is in a call of
\* the manager, for any number of requests and whatever faults happen.
THEOREM TypeCorrect == Spec => []TypeOK
  BY Invariance, PTL DEF IndInv

\* Every record that a compare and swap of the control plane publishes passes
\* validate_persisted_record when it is read back.
THEOREM RecordsAreReadable == Spec => []RecordsReadBack
  <1>1. IndInv => RecordsReadBack
    BY DEF IndInv, RecordFits, GoodRecord, RecordsReadBack
  <1> QED
    BY <1>1, Invariance, PTL

\* No sandbox that is recorded as killed runs, unless it was killed while its
\* record named no execution: mark_killed is otherwise only published after the
\* manager ended the execution, which is final.
THEOREM KilledIsDead == Spec => []KilledDoesNotRun
  <1>1. IndInv => KilledDoesNotRun
    BY DEF IndInv, RecordFits, GoodRecord, GoodExecution, KilledDoesNotRun
  <1> QED
    BY <1>1, Invariance, PTL

\* The execution generation fences: a running or paused record that names the
\* runtime's generation names its state.
THEOREM GenerationFences == Spec => []FencedStateIsTrue
  <1>1. IndInv => FencedStateIsTrue
    <2> SUFFICES ASSUME IndInv, rec # NoRecord, rec.execGen = exec.gen
                 PROVE  /\ rec.state = "running" => exec.phase \in RunPhases
                        /\ rec.state = "paused" => exec.phase \in PausePhases
      BY DEF FencedStateIsTrue, RunPhases, PausePhases
    <2> QED
      BY DEF IndInv, RecordFits, GoodRecord
  <1> QED
    BY <1>1, Invariance, PTL

-----------------------------------------------------------------------------
(* The manager's promise                                                   *)

Promised == [Lifecycle!Next]_(Lifecycle!lifecycleVars)

LEMMA StepPromised ==
    ASSUME IndInv, [Next]_vars
    PROVE  Promised
  <1>1. exec \in Execution
    BY DEF IndInv, TypeOK
  <1>2. CASE Evolves(exec, exec')
    <2>1. \/ exec'.gen = exec.gen /\ Stable(exec'.phase) = Stable(exec.phase)
          \/ exec'.gen = exec.gen /\ Stable(exec.phase) = "created" /\ Stable(exec'.phase) = "running"
          \/ exec'.gen = exec.gen + 1 /\ Stable(exec.phase) = "running" /\ Stable(exec'.phase) = "paused"
          \/ exec'.gen = exec.gen + 1 /\ Stable(exec.phase) = "paused" /\ Stable(exec'.phase) = "running"
          \/ /\ exec'.gen = exec.gen /\ Stable(exec.phase) \in {"created", "running", "paused"}
             /\ Stable(exec'.phase) = "killing"
          \/ /\ exec'.gen = exec.gen /\ Stable(exec.phase) \in {"created", "running", "paused", "killing"}
             /\ Stable(exec'.phase) = "ended"
      BY <1>2 DEF Evolves
    <2> QED
      BY <2>1 DEF Promised, Lifecycle!Next, Lifecycle!lifecycleVars, Lifecycle!Start, Lifecycle!Pause,
                  Lifecycle!Resume, Lifecycle!BeginKill, Lifecycle!End, Stable
  <1>3. CASE Appeared
    BY <1>3 DEF Appeared, Promised, Lifecycle!Next, Lifecycle!Reserve
  <1> QED
    BY <1>2, <1>3, NextInv, StutterInv

\* The manager that the control plane is verified against stays within the
\* lifecycle that LocalExecution was proved to implement: every step of the
\* service, of its faults and of the runtime is a step of ExecutionLifecycle
\* or none.
THEOREM ManagerWithinLifecycle == Spec => ManagerKeepsItsPromise
  <1>1. Init => Lifecycle!Init
    BY DEF Init, Lifecycle!Init
  <1>2. IndInv /\ [Next]_vars => [Lifecycle!Next]_(Lifecycle!lifecycleVars)
    BY StepPromised DEF Promised
  <1> QED
    BY <1>1, <1>2, Invariance, PTL DEF Spec, ManagerKeepsItsPromise, Lifecycle!Spec

=============================================================================
