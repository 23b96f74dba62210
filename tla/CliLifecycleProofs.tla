------------------------- MODULE CliLifecycleProofs -------------------------
(***************************************************************************)
(* Theorems about CliLifecycle for every set of processes and shim         *)
(* identities, every set of commands and restart policies: a box has one   *)
(* VM, its record or the holder of the lifecycle lock names it, no         *)
(* teardown takes its mounts, and the monitor stays within its budget. The *)
(* VMs the code loses are named by untracked and exposed, and only they    *)
(* are left out.                                                           *)
(***************************************************************************)
EXTENDS CliLifecycle, TLAPS, FiniteSetTheorems

-----------------------------------------------------------------------------
(* The inductive invariant                                                 *)

\* The steps a process takes with the lifecycle lock in its hands.
Holding == {"end", "settle", "boot", "record"}

LockHeld == \A a \in Actors : proc[a].pc \in Holding <=> lock = a

\* The monitor pursues a restart only while the budget has room for it.
WithinBudget == Limited => rec.restarts < policy.max

\* The commands that reach each step, and the PID they carry there.
StepFits(a) ==
    /\ proc[a].pc \notin {"end", "settle", "record"} => proc[a].pid = NoPid
    /\ proc[a].pc = "lock" => proc[a].op \in Commands \cup {"unhealthy"}
    /\ proc[a].pc \in {"end", "settle"} =>
          /\ proc[a].op \in (Commands \ {"start"}) \cup {"unhealthy"}
          /\ proc[a].op \notin {"rm", "rm_force"} => proc[a].pid \in Pids
    /\ proc[a].pc \in {"reboot", "boot", "record"} =>
          proc[a].op \in {"start", "restart", "dead", "unhealthy"}
    /\ proc[a].pc = "record" => proc[a].pid \in Pids
    /\ proc[a].pc = "probe" => proc[a].op \in {"none", "dead", "unhealthy"}
    /\ proc[a].op \in {"dead", "unhealthy"} => a = Monitor /\ WithinBudget

\* What the record and the VM of a process that holds the lock can be: nobody
\* else replaces the PID, but a reader may find it dead and drop it, and prune
\* may remove the record.
HolderFits(a) ==
    /\ proc[a].pc \in {"end", "settle"} =>
          \/ rec.pid = proc[a].pid
          \/ ~Alive(rec.pid) /\ (Alive(proc[a].pid) => proc[a].pid \in untracked)
    /\ proc[a].pc = "settle" /\ proc[a].op \notin {"term", "pause", "unpause"} =>
          ~Alive(proc[a].pid)
    /\ proc[a].pc \in {"boot", "record"} => ~Alive(rec.pid)
    /\ proc[a].pc = "record" =>
          /\ proc[a].pid \notin untracked
          /\ rec.pid # NoPid /\ Alive(proc[a].pid) => proc[a].pid \in exposed

\* Only live VMs are given up, and no record names one of them.
UntrackedFits ==
    /\ \A p \in untracked : procs[p] # "gone"
    /\ rec.pid \notin untracked

IndInv ==
    /\ TypeOK
    /\ LockHeld
    /\ \A a \in Actors : StepFits(a)
    /\ \A a \in Actors : HolderFits(a)
    /\ UntrackedFits
    /\ LiveVmIsTracked
    /\ TeardownSparesLiveVm
    /\ RestartBudget

-----------------------------------------------------------------------------
(* The operators of the model                                              *)

\* A step of one process leaves the others alone.
LEMMA SetFacts ==
    ASSUME TypeOK, NEW b \in Actors, NEW s \in Process, Set(b, s)
    PROVE  /\ proc' \in [Actors -> Process]
           /\ proc'[b] = s
           /\ \A a \in Actors : a # b => proc'[a] = proc[a]
  BY DEF TypeOK, Set

\* Moving on with the same command and PID.
LEMMA GotoFacts ==
    ASSUME TypeOK, NEW b \in Actors, NEW pc \in {"end", "settle", "reboot", "boot", "record"},
           Goto(b, pc)
    PROVE  /\ proc' \in [Actors -> Process]
           /\ proc'[b].pc = pc /\ proc'[b].op = proc[b].op /\ proc'[b].pid = proc[b].pid
           /\ \A a \in Actors : a # b => proc'[a] = proc[a]
  <1>1. proc[b] \in Process
    BY DEF TypeOK
  <1>2. [proc[b] EXCEPT !.pc = pc] \in Process
    BY <1>1 DEF Process
  <1> QED
    BY <1>1, <1>2, SetFacts DEF Goto, Process

LEMMA IdleFacts == Idle \in Process /\ Idle.pc = "idle" /\ Idle.op = "none" /\ Idle.pid = NoPid
  BY DEF Idle, Process

LEMMA NoRetries == 0 \in 0..Retries
  BY RetriesAssumption

\* What a load returns names a VM only while it is alive.
LEMMA LoadedFacts ==
    ASSUME TypeOK
    PROVE  /\ Loaded \in Record
           /\ Loaded.pid # NoPid <=> Loaded.status \in Active
           /\ Loaded.restarts = rec.restarts
           /\ Loaded.pid # NoPid => Loaded = rec /\ Alive(rec.pid)
           /\ Loaded.pid = NoPid => ~Alive(rec.pid)
           /\ Loaded # rec => rec.pid # NoPid /\ ~Alive(rec.pid)
  <1> rec \in Record /\ (rec.pid # NoPid <=> rec.status \in Active) /\ marker \in ExitCodes
    BY DEF TypeOK
  <1>1. CASE rec.status \in Active /\ ~PidLive(rec)
    <2>1. PICK e \in ExitCodes :
             Loaded = [rec EXCEPT !.status = "dead", !.pid = NoPid, !.health = "none",
                                  !.retries = 0, !.exit = e]
      <3>1. rec.exit \in ExitCodes
        BY DEF Record
      <3> QED
        BY <1>1, <3>1 DEF Loaded, Reconciled
    <2>2. /\ Loaded \in Record /\ Loaded.status = "dead" /\ Loaded.pid = NoPid
          /\ Loaded.restarts = rec.restarts
      BY <2>1, NoRetries DEF Record
    <2> QED
      BY <1>1, <2>2 DEF Active, PidLive
  <1>2. CASE ~(rec.status \in Active /\ ~PidLive(rec))
    <2>1. Loaded = rec
      BY <1>2 DEF Loaded, Reconciled
    <2> QED
      BY <1>2, <2>1 DEF PidLive, Alive
  <1> QED
    BY <1>1, <1>2

\* A load drops the PID of a dead VM, or leaves the record alone when its flush
\* fails, and touches neither a live VM nor the restart count.
LEMMA ReconcileFacts ==
    ASSUME TypeOK, Reconcile
    PROVE  /\ rec' \in Record
           /\ rec'.pid # NoPid <=> rec'.status \in Active
           /\ mounted' \in BOOLEAN
           /\ rec'.restarts = rec.restarts
           /\ rec'.pid = rec.pid \/ (rec'.pid = NoPid /\ ~Alive(rec.pid))
           /\ mounted' # mounted => rec.pid # NoPid /\ ~Alive(rec.pid)
  <1>1. /\ rec \in Record /\ (rec.pid # NoPid <=> rec.status \in Active) /\ mounted \in BOOLEAN
    BY DEF TypeOK
  <1>2. CASE rec' = Loaded /\ mounted' = (mounted /\ rec' = rec)
    BY <1>1, <1>2, LoadedFacts
  <1>3. CASE Loaded # rec /\ rec' = rec /\ mounted' \in {mounted, FALSE}
    BY <1>1, <1>3, LoadedFacts
  <1> QED
    BY <1>2, <1>3 DEF Reconcile, Loaded

\* What readers, loads and probe verdicts do to the record: they keep the PID
\* of a live VM, the restart count and the mounts of a live VM.
Eased ==
    /\ rec' \in Record
    /\ rec'.pid # NoPid <=> rec'.status \in Active
    /\ rec'.restarts = rec.restarts
    /\ rec'.pid = rec.pid \/ (rec'.pid = NoPid /\ ~Alive(rec.pid))
    /\ mounted' \in BOOLEAN
    /\ mounted' # mounted => rec.pid # NoPid /\ ~Alive(rec.pid)

\* A process that such a step leaves alone still fits.
LEMMA EasedKeeps ==
    ASSUME IndInv, Eased, UNCHANGED <<policy, procs, untracked, exposed>>,
           NEW a \in Actors, proc'[a] = proc[a]
    PROVE  StepFits(a)' /\ HolderFits(a)'
  <1>1. WithinBudget => WithinBudget'
    BY DEF Eased, WithinBudget, Limited
  <1>2. StepFits(a)'
    BY <1>1 DEF IndInv, StepFits
  <1>3. HolderFits(a)'
    <2>1. \A q : Alive(q)' <=> Alive(q)
      BY DEF Alive
    <2>2. ~Alive(NoPid)
      BY DEF Alive
    <2> QED
      BY <2>1, <2>2 DEF IndInv, HolderFits, Eased
  <1> QED
    BY <1>2, <1>3

Undisturbed(a) == proc'[a] = proc[a] /\ (lock' = a <=> lock = a)

\* A process that did not hold the lock moves to a step that fits.
Moved(a) ==
    /\ proc[a].pc \notin Holding
    /\ proc'[a].pc \in Holding <=> lock' = a
    /\ StepFits(a)' /\ HolderFits(a)'

LEMMA EasedStep ==
    ASSUME IndInv, Eased, UNCHANGED <<policy, procs, marker, untracked, exposed>>,
           lock' \in Actors \cup {Nobody}, workers' \subseteq Pids,
           proc' \in [Actors -> Process],
           \A a \in Actors : Undisturbed(a) \/ Moved(a)
    PROVE  IndInv'
  <1>1. TypeOK
    BY DEF IndInv
  <1>3. TypeOK'
    BY <1>1 DEF TypeOK, Eased
  <1>4. LockHeld'
    BY DEF IndInv, LockHeld, Undisturbed, Moved
  <1>5. \A a \in Actors : StepFits(a)' /\ HolderFits(a)'
    BY EasedKeeps DEF Undisturbed, Moved
  <1>6. UntrackedFits'
    BY <1>1, PidsAssumption DEF IndInv, UntrackedFits, TypeOK, Eased
  <1>7. Ours' = Ours
    BY DEF Ours, Alive
  <1>8. LiveVmIsTracked'
    <2> SUFFICES ASSUME NEW p \in Ours
                 PROVE  rec'.pid = p
                          \/ \E a \in Actors : lock' = a /\ proc'[a].pc = "record"
                                              /\ proc'[a].pid = p
      BY <1>7 DEF LiveVmIsTracked
    <2>1. CASE rec.pid = p
      BY <2>1 DEF Ours, Eased
    <2>2. CASE \E a \in Actors : lock = a /\ proc[a].pc = "record" /\ proc[a].pid = p
      BY <2>2 DEF Holding, Undisturbed, Moved
    <2> QED
      BY <2>1, <2>2 DEF IndInv, LiveVmIsTracked
  <1>9. TeardownSparesLiveVm'
    <2> SUFFICES ASSUME Ours \ exposed # {}, ~mounted'
                 PROVE  FALSE
      BY <1>7 DEF TeardownSparesLiveVm
    <2>1. mounted
      BY DEF IndInv, TeardownSparesLiveVm
    <2>2. rec.pid # NoPid /\ ~Alive(rec.pid)
      BY <2>1 DEF Eased
    <2>3. PICK p \in Ours : p \notin exposed
      OBVIOUS
    <2>4. \E a \in Actors : lock = a /\ proc[a].pc = "record" /\ proc[a].pid = p
      BY <2>2, <2>3 DEF IndInv, LiveVmIsTracked, Ours
    <2> QED
      BY <2>2, <2>3, <2>4 DEF IndInv, HolderFits, Ours
  <1>10. RestartBudget'
    BY <1>1 DEF IndInv, RestartBudget, Limited, Eased
  <1> QED
    BY <1>3, <1>4, <1>5, <1>6, <1>8, <1>9, <1>10 DEF IndInv

\* The step of one process that loads the record.
LEMMA ReconcileStep ==
    ASSUME IndInv, Reconcile, UNCHANGED <<policy, procs, marker, untracked, exposed>>,
           NEW b \in Actors, NEW s \in Process, Set(b, s),
           proc[b].pc \notin Holding,
           lock' \in Actors \cup {Nobody}, workers' \subseteq Pids,
           \A a \in Actors : a # b => (lock' = a <=> lock = a),
           s.pc \in Holding <=> lock' = b,
           StepFits(b)', HolderFits(b)'
    PROVE  IndInv'
  <1>1. TypeOK
    BY DEF IndInv
  <1>2. /\ proc' \in [Actors -> Process] /\ proc'[b] = s
        /\ \A a \in Actors : a # b => proc'[a] = proc[a]
    BY <1>1, SetFacts
  <1>3. \A a \in Actors : Undisturbed(a) \/ Moved(a)
    BY <1>2 DEF Undisturbed, Moved
  <1> QED
    BY <1>1, <1>2, <1>3, ReconcileFacts, EasedStep DEF Eased

-----------------------------------------------------------------------------
(* The initial state and the steps that load the record                    *)

LEMMA InitInv == Init => IndInv
  <1> SUFFICES ASSUME Init
               PROVE  IndInv
    OBVIOUS
  <1>1. Created \in Record /\ Created.pid = NoPid /\ Created.status \notin Active
          /\ Created.restarts = 0
    BY NoRetries DEF Created, Record, Active, ExitCodes
  <1>2. TypeOK
    BY <1>1, IdleFacts DEF Init, TypeOK, ExitCodes
  <1>3. \A a \in Actors : proc[a] = Idle
    BY DEF Init
  <1>4. LockHeld /\ \A a \in Actors : StepFits(a) /\ HolderFits(a)
    BY <1>3, IdleFacts, ProcessesAssumption
       DEF Init, LockHeld, Holding, Actors, StepFits, HolderFits
  <1>5. Ours = {}
    BY DEF Init, Ours, Alive
  <1>6. LiveVmIsTracked /\ TeardownSparesLiveVm
    BY <1>5 DEF LiveVmIsTracked, TeardownSparesLiveVm
  <1>7. UntrackedFits
    BY DEF Init, UntrackedFits
  <1>8. RestartBudget
    <2>1. policy.max \in Nat
      BY PoliciesAssumption DEF Init
    <2> QED
      BY <1>1, <2>1 DEF Init, RestartBudget
  <1> QED
    BY <1>2, <1>4, <1>6, <1>7, <1>8 DEF IndInv

LEMMA BeginInv ==
    ASSUME IndInv, NEW b \in Users, NEW op \in Commands, Begin(b, op)
    PROVE  IndInv'
  <1> DEFINE s == [pc |-> "lock", op |-> op, pid |-> NoPid]
  <1>1. s \in Process /\ b \in Actors
    BY DEF Process, Actors
  <1>2. TypeOK /\ proc'[b] = s
    BY <1>1, SetFacts DEF Begin, IndInv
  <1>3. StepFits(b)' /\ HolderFits(b)'
    BY <1>2, CommandsAssumption DEF StepFits, HolderFits
  <1>4. lock # b /\ workers' \subseteq Pids /\ lock \in Actors \cup {Nobody}
    BY <1>1, <1>2 DEF Begin, IndInv, LockHeld, Holding, TypeOK
  <1> QED
    BY <1>1, <1>2, <1>3, <1>4, ReconcileStep DEF Begin, Holding

LEMMA ListPrunableInv ==
    ASSUME IndInv, NEW b \in Users, ListPrunable(b)
    PROVE  IndInv'
  <1> DEFINE s == [pc |-> "prune", op |-> "prune", pid |-> NoPid]
  <1>1. s \in Process /\ b \in Actors
    BY DEF Process, Actors
  <1>2. TypeOK /\ proc'[b] = s
    BY <1>1, SetFacts DEF ListPrunable, IndInv
  <1>3. StepFits(b)' /\ HolderFits(b)'
    BY <1>2 DEF StepFits, HolderFits
  <1>4. lock # b /\ workers' \subseteq Pids /\ lock \in Actors \cup {Nobody}
    BY <1>1, <1>2 DEF ListPrunable, IndInv, LockHeld, Holding, TypeOK
  <1> QED
    BY <1>1, <1>2, <1>3, <1>4, ReconcileStep DEF ListPrunable, Holding

LEMMA FlushInv ==
    ASSUME IndInv, NEW b \in Users, Flush(b)
    PROVE  IndInv'
  <1>1. b \in Actors
    BY DEF Actors
  <1>2. TypeOK /\ proc'[b] = Idle
    BY <1>1, IdleFacts, SetFacts DEF Flush, IndInv
  <1>3. StepFits(b)' /\ HolderFits(b)'
    BY <1>2, IdleFacts DEF StepFits, HolderFits
  <1>4. lock # b /\ workers' \subseteq Pids /\ lock \in Actors \cup {Nobody}
    BY <1>1, <1>2 DEF Flush, IndInv, LockHeld, Holding, TypeOK
  <1> QED
    BY <1>1, <1>2, <1>3, <1>4, IdleFacts, ReconcileStep DEF Flush, Holding

\* TakeAndReturn: nothing but the load has happened.
LEMMA ReturnInv ==
    ASSUME IndInv, NEW b \in Actors, proc[b].pc \notin Holding, TakeAndReturn(b), Reconcile,
           UNCHANGED <<policy, procs, marker, untracked, exposed>>, workers' \subseteq Pids
    PROVE  IndInv'
  <1>2. TypeOK /\ proc'[b] = Idle
    BY IdleFacts, SetFacts DEF TakeAndReturn, IndInv
  <1>3. StepFits(b)' /\ HolderFits(b)'
    BY <1>2, IdleFacts DEF StepFits, HolderFits
  <1>4. Nobody # b
    BY ProcessesAssumption DEF Actors
  <1> QED
    BY <1>2, <1>3, <1>4, IdleFacts, ReconcileStep DEF TakeAndReturn, Holding

\* A load that finds the box not running, and the boot that follows.
LEMMA TakeToBootInv ==
    ASSUME IndInv, NEW b \in Actors, proc[b].pc \in {"lock", "reboot"},
           proc[b].op \in {"start", "restart", "dead", "unhealthy"},
           Take(b), Goto(b, "boot"), Reconcile, ~Alive(rec.pid),
           UNCHANGED <<policy, procs, marker, untracked, exposed>>, workers' \subseteq Pids
    PROVE  IndInv'
  <1>1. TypeOK /\ StepFits(b) /\ proc[b].pid = NoPid /\ proc[b] \in Process
    BY DEF IndInv, StepFits, TypeOK
  <1> DEFINE s == [proc[b] EXCEPT !.pc = "boot"]
  <1>2. s \in Process /\ s.pc = "boot" /\ s.op = proc[b].op /\ s.pid = NoPid
    BY <1>1 DEF Process
  <1>3. proc'[b] = s /\ Set(b, s)
    BY <1>1, <1>2, SetFacts DEF Goto
  <1>4. WithinBudget => WithinBudget'
    BY <1>1, ReconcileFacts DEF WithinBudget, Limited
  <1>5. StepFits(b)' /\ HolderFits(b)'
    <2>1. ~Alive(rec.pid)'
      BY <1>1, ReconcileFacts DEF Alive
    <2> QED
      BY <1>1, <1>2, <1>3, <1>4, <2>1 DEF StepFits, HolderFits
  <1>6. lock' = b /\ Nobody # b /\ \A a \in Actors : a # Nobody
    BY ProcessesAssumption DEF Actors, Take
  <1> QED
    BY <1>2, <1>3, <1>5, <1>6, ReconcileStep DEF Holding, Take

LEMMA LockInv ==
    ASSUME IndInv, NEW b \in Actors, Lock(b)
    PROVE  IndInv'
  <1>1. TypeOK /\ StepFits(b) /\ proc[b].pid = NoPid /\ proc[b] \in Process
          /\ proc[b].op \in Commands \cup {"unhealthy"} /\ proc[b].pc = "lock"
          /\ workers' \subseteq Pids
    BY DEF IndInv, StepFits, TypeOK, Lock
  <1>2. /\ Loaded \in Record /\ (Loaded.pid # NoPid <=> Loaded.status \in Active)
        /\ (Loaded.pid # NoPid => Loaded = rec /\ Alive(rec.pid))
        /\ (Loaded.pid = NoPid => ~Alive(rec.pid))
    BY <1>1, LoadedFacts
  <1>3. WithinBudget => WithinBudget'
    BY <1>1, ReconcileFacts DEF WithinBudget, Limited, Lock
  <1>4. CASE Loaded.status = "absent" \/ ~Accepts(proc[b].op, Loaded)
    BY <1>1, <1>4, ReturnInv DEF Lock, Holding
  <1>5. CASE ~(Loaded.status = "absent" \/ ~Accepts(proc[b].op, Loaded)) /\ proc[b].op = "start"
    <2>1. ~Alive(rec.pid)
      BY <1>2, <1>5 DEF Accepts, Active
    <2> QED
      BY <1>1, <1>5, <2>1, TakeToBootInv DEF Lock
  <1>6. CASE /\ ~(Loaded.status = "absent" \/ ~Accepts(proc[b].op, Loaded))
             /\ proc[b].op = "restart" /\ Loaded.status \notin Active
    <2> DEFINE s == [proc[b] EXCEPT !.pc = "reboot"]
    <2>1. s \in Process /\ s.pc = "reboot" /\ s.op = proc[b].op /\ s.pid = NoPid
      BY <1>1 DEF Process
    <2>2. proc'[b] = s /\ Set(b, s)
      BY <1>1, <1>6, <2>1, SetFacts DEF Goto, Lock
    <2>3. StepFits(b)' /\ HolderFits(b)'
      BY <1>1, <1>3, <1>6, <2>1, <2>2 DEF StepFits, HolderFits
    <2>4. lock' = lock /\ lock = Nobody /\ Nobody # b
      BY <1>6, ProcessesAssumption DEF Actors, Lock
    <2> QED
      BY <1>1, <2>1, <2>2, <2>3, <2>4, ReconcileStep DEF Holding, Lock
  <1>7. CASE /\ ~(Loaded.status = "absent" \/ ~Accepts(proc[b].op, Loaded))
             /\ proc[b].op # "start"
             /\ ~(proc[b].op = "restart" /\ Loaded.status \notin Active)
    <2> DEFINE s == [proc[b] EXCEPT !.pc = "end", !.pid = Loaded.pid]
    <2>1. Loaded.pid \in Pids \cup {NoPid}
      BY <1>2 DEF Record
    <2>2. s \in Process /\ s.pc = "end" /\ s.op = proc[b].op /\ s.pid = Loaded.pid
      BY <1>1, <2>1 DEF Process
    <2>3. Take(b) /\ Set(b, s)
      BY <1>7 DEF Lock
    <2>4. proc'[b] = s
      BY <1>1, <2>2, <2>3, SetFacts
    <2>5. proc[b].op \notin {"rm", "rm_force"} => Loaded.pid \in Pids
      BY <1>1, <1>2, <1>7, <2>1, CommandsAssumption DEF Accepts, PidLive, Alive, Active
    <2>6. StepFits(b)' /\ HolderFits(b)'
      <3>1. rec'.pid = Loaded.pid \/ (~Alive(rec.pid)' /\ ~Alive(Loaded.pid))
        BY <1>1, <1>2, ReconcileFacts DEF Alive, Lock
      <3>2. Alive(Loaded.pid) <=> (Loaded.pid # NoPid /\ procs'[Loaded.pid] # "gone")
        BY DEF Alive, Lock
      <3>3. HolderFits(b)'
        BY <2>2, <2>4, <3>1, <3>2 DEF HolderFits, Alive
      <3>4. StepFits(b)'
        BY <1>1, <1>3, <1>7, <2>2, <2>4, <2>5 DEF StepFits
      <3> QED
        BY <3>3, <3>4
    <2>7. lock' = b /\ lock = Nobody /\ \A a \in Actors : a # Nobody
      BY <2>3, ProcessesAssumption DEF Actors, Take
    <2> QED
      BY <1>1, <2>2, <2>3, <2>4, <2>6, <2>7, ReconcileStep DEF Holding, Lock
  <1> QED
    BY <1>4, <1>5, <1>6, <1>7

LEMMA RebootInv ==
    ASSUME IndInv, NEW b \in Actors, Reboot(b)
    PROVE  IndInv'
  <1>1. TypeOK /\ proc[b].pc = "reboot" /\ StepFits(b)
    BY DEF IndInv, Reboot
  <1>2. /\ Loaded \in Record
        /\ (Loaded.pid # NoPid => Loaded = rec /\ Alive(rec.pid))
        /\ (Loaded.pid = NoPid => ~Alive(rec.pid))
    BY <1>1, LoadedFacts
  <1>3. workers' \subseteq Pids
    BY <1>1, <1>2 DEF Reboot, TypeOK, Record, PidLive, Alive
  <1>4. CASE Loaded.status = "absent" \/ PidLive(Loaded)
    BY <1>1, <1>3, <1>4, ReturnInv DEF Reboot, Holding
  <1>5. CASE ~(Loaded.status = "absent" \/ PidLive(Loaded))
    <2>1. ~Alive(rec.pid)
      BY <1>2, <1>5 DEF PidLive
    <2> QED
      BY <1>1, <1>3, <1>5, <2>1, TakeToBootInv DEF Reboot, StepFits
  <1> QED
    BY <1>4, <1>5

\* A candidate of a poll is one the budget has room for.
LEMMA CandidateFacts ==
    ASSUME NEW r
    PROVE  /\ Candidate(r) \in {"none", "dead", "unhealthy"}
           /\ Candidate(r) # "none" /\ Limited => r.restarts < policy.max
  BY DEF Candidate, UnhealthyCandidate, should_restart

LEMMA PursueFacts ==
    ASSUME NEW op \in {"none", "dead", "unhealthy"}
    PROVE  /\ Pursue(op) \in Process
           /\ Pursue(op).op = op /\ Pursue(op).pid = NoPid
           /\ Pursue(op).pc \in {"idle", "reboot", "lock"}
           /\ Pursue(op).pc = "reboot" => op = "dead"
           /\ Pursue(op).pc = "lock" => op = "unhealthy"
           /\ [Pursue(op) EXCEPT !.pc = "probe"] \in Process
           /\ [Pursue(op) EXCEPT !.pc = "probe"].pc = "probe"
           /\ [Pursue(op) EXCEPT !.pc = "probe"].op = op
           /\ [Pursue(op) EXCEPT !.pc = "probe"].pid = NoPid
  BY DEF Pursue, Idle, Process

LEMMA PollInv ==
    ASSUME IndInv, Poll
    PROVE  IndInv'
  <1>1. TypeOK /\ Monitor \in Actors /\ proc[Monitor].pc = "idle" /\ Reconcile
          /\ UNCHANGED <<policy, procs, marker, lock, workers, untracked, exposed>>
    BY DEF IndInv, Poll, Actors
  <1>2. PICK op \in {"none", Candidate(Loaded)} :
          \/ Set(Monitor, Pursue(op))
          \/ Set(Monitor, [Pursue(op) EXCEPT !.pc = "probe"])
    BY DEF Poll
  <1>3. op \in {"none", "dead", "unhealthy"}
    BY <1>2, CandidateFacts
  <1>4. op # "none" => WithinBudget'
    <2>1. op # "none" => (Limited => Loaded.restarts < policy.max)
      BY <1>2, CandidateFacts
    <2> QED
      BY <1>1, <2>1, LoadedFacts, ReconcileFacts DEF WithinBudget, Limited
  <1>5. PICK s \in Process : /\ Set(Monitor, s) /\ s.op = op /\ s.pid = NoPid
                             /\ s.pc \in {"idle", "reboot", "lock", "probe"}
                             /\ s.pc = "reboot" => op = "dead"
                             /\ s.pc = "lock" => op = "unhealthy"
    BY <1>2, <1>3, PursueFacts
  <1>6. proc'[Monitor] = s
    BY <1>1, <1>5, SetFacts
  <1>7. StepFits(Monitor)' /\ HolderFits(Monitor)'
    BY <1>3, <1>4, <1>5, <1>6 DEF StepFits, HolderFits
  <1>8. lock # Monitor /\ workers \subseteq Pids /\ lock \in Actors \cup {Nobody}
    BY <1>1 DEF IndInv, LockHeld, Holding, TypeOK
  <1> QED
    BY <1>1, <1>5, <1>7, <1>8, ReconcileStep DEF Holding

-----------------------------------------------------------------------------
(* Readers and probes                                                      *)

LEMMA ObserveInv ==
    ASSUME IndInv, NEW b \in Users, Observe(b)
    PROVE  IndInv'
  <1> DEFINE s == [pc |-> "flush", op |-> "ps", pid |-> NoPid]
  <1>1. s \in Process /\ b \in Actors /\ TypeOK
    BY DEF Process, Actors, IndInv
  <1>2. /\ proc' \in [Actors -> Process] /\ proc'[b] = s
        /\ \A a \in Actors : a # b => proc'[a] = proc[a]
    BY <1>1, SetFacts DEF Observe
  <1>3. StepFits(b)' /\ HolderFits(b)'
    BY <1>2 DEF StepFits, HolderFits
  <1>4. Eased
    BY <1>1 DEF Observe, Eased, TypeOK
  <1>5. \A a \in Actors : Undisturbed(a) \/ Moved(a)
    BY <1>1, <1>2, <1>3 DEF Observe, Undisturbed, Moved, IndInv, LockHeld, Holding
  <1> QED
    BY <1>1, <1>2, <1>4, <1>5, EasedStep DEF Observe, TypeOK

\* A probe verdict touches the health of a running box and nothing else.
LEMMA ProbedFacts ==
    ASSUME NEW r \in Record, NEW healthy \in BOOLEAN
    PROVE  /\ Probed(r, healthy) \in Record
           /\ Probed(r, healthy).pid = r.pid
           /\ Probed(r, healthy).status = r.status
           /\ Probed(r, healthy).restarts = r.restarts
  <1>1. CASE r.status # "running"
    BY <1>1 DEF Probed
  <1>2. CASE r.status = "running" /\ healthy
    BY <1>2, NoRetries DEF Probed, Record
  <1>3. CASE r.status = "running" /\ ~healthy
    <2>1. r.retries \in 0..Retries /\ r.health \in {"none", "starting", "healthy", "unhealthy"}
      BY DEF Record
    <2>2. PICK n \in 0..Retries, h \in {"none", "starting", "healthy", "unhealthy"} :
             Probed(r, healthy) = [r EXCEPT !.retries = n, !.health = h]
      <3>1. (IF r.retries < Retries THEN r.retries + 1 ELSE r.retries) \in 0..Retries
        BY <2>1, RetriesAssumption
      <3>2. (IF r.retries + 1 >= Retries THEN "unhealthy" ELSE r.health)
              \in {"none", "starting", "healthy", "unhealthy"}
        BY <2>1
      <3> QED
        BY <1>3, <3>1, <3>2 DEF Probed
    <2> QED
      BY <2>2 DEF Record
  <1> QED
    BY <1>1, <1>2, <1>3

LEMMA ProbeDoneInv ==
    ASSUME IndInv, ProbeDone
    PROVE  IndInv'
  <1> DEFINE op == proc[Monitor].op
             s == Pursue(op)
  <1>1. Monitor \in Actors /\ TypeOK /\ proc[Monitor].pc = "probe"
          /\ op \in {"none", "dead", "unhealthy"} /\ (op # "none" => WithinBudget)
    BY DEF Actors, IndInv, ProbeDone, StepFits
  <1>2. /\ proc' \in [Actors -> Process] /\ proc'[Monitor] = s
        /\ \A a \in Actors : a # Monitor => proc'[a] = proc[a]
    BY <1>1, PursueFacts, SetFacts DEF ProbeDone
  <1>3. Eased
    BY <1>1, ProbedFacts DEF ProbeDone, Eased, TypeOK
  <1>4. WithinBudget => WithinBudget'
    BY <1>3 DEF Eased, WithinBudget, Limited, ProbeDone
  <1>5. StepFits(Monitor)' /\ HolderFits(Monitor)'
    BY <1>1, <1>2, <1>4, PursueFacts DEF StepFits, HolderFits
  <1>6. \A a \in Actors : Undisturbed(a) \/ Moved(a)
    BY <1>1, <1>2, <1>5, PursueFacts
       DEF ProbeDone, Undisturbed, Moved, IndInv, LockHeld, Holding
  <1> QED
    BY <1>1, <1>2, <1>3, <1>6, EasedStep DEF ProbeDone, TypeOK

LEMMA WorkerInv ==
    ASSUME IndInv, NEW p \in Pids, Worker(p)
    PROVE  IndInv'
  <1>1. TypeOK /\ \A a \in Actors : Undisturbed(a)
    BY DEF Worker, IndInv, Undisturbed
  <1>2. Eased /\ workers' \subseteq Pids
    <2>1. CASE (\E healthy \in BOOLEAN : rec' = Probed(rec, healthy)) /\ UNCHANGED <<mounted, workers>>
      BY <1>1, <2>1, ProbedFacts DEF Eased, TypeOK
    <2>2. CASE Reconcile /\ workers' = workers \ {p}
      BY <1>1, <2>2, ReconcileFacts DEF Eased, TypeOK
    <2> QED
      BY <2>1, <2>2 DEF Worker
  <1> QED
    BY <1>1, <1>2, EasedStep DEF Worker, TypeOK

-----------------------------------------------------------------------------
(* The steps of the holder of the lock                                     *)

\* When the holder moves on, the steps of the others still fit: none of them
\* says anything about the record but the budget of the monitor.
LEMMA HolderStep ==
    ASSUME IndInv, NEW b \in Actors, proc[b].pc \in Holding,
           NEW s \in Process, Set(b, s),
           lock' = IF s.pc \in Holding THEN b ELSE Nobody,
           b # Monitor /\ WithinBudget => WithinBudget',
           StepFits(b)', HolderFits(b)'
    PROVE  /\ proc' \in [Actors -> Process]
           /\ lock' \in Actors \cup {Nobody}
           /\ LockHeld'
           /\ \A a \in Actors : StepFits(a)'
           /\ \A a \in Actors : HolderFits(a)'
  <1>1. /\ proc' \in [Actors -> Process] /\ proc'[b] = s
        /\ \A a \in Actors : a # b => proc'[a] = proc[a]
    BY SetFacts DEF IndInv
  <1>2. \A a \in Actors : a # b => proc[a].pc \notin Holding
    BY DEF IndInv, LockHeld
  <1>3. \A a \in Actors : a # Nobody
    BY ProcessesAssumption DEF Actors
  <1>4. LockHeld'
    BY <1>1, <1>2, <1>3 DEF LockHeld
  <1>5. ASSUME NEW a \in Actors
        PROVE  StepFits(a)' /\ HolderFits(a)'
    <2>1. CASE a = b
      BY <2>1
    <2>2. CASE a # b
      BY <1>1, <1>2, <2>2 DEF IndInv, StepFits, HolderFits, Holding
    <2> QED
      BY <2>1, <2>2
  <1> QED
    BY <1>1, <1>4, <1>5

\* The only VM of the box is the one that the holder carries.
LEMMA HolderVm ==
    ASSUME IndInv, NEW b \in Actors, proc[b].pc \in Holding
    PROVE  /\ proc[b].pc # "boot" => Ours \subseteq {proc[b].pid}
           /\ proc[b].pc = "boot" => Ours = {}
           /\ proc[b].pc # "record" => \A p \in Ours : rec.pid = p
           /\ proc[b].pc = "record" => proc[b].pid \notin untracked
  <1>1. \A a \in Actors : lock = a => a = b
    BY DEF IndInv, LockHeld
  <1>2. \A p \in Ours : rec.pid = p \/ (proc[b].pc = "record" /\ proc[b].pid = p)
    BY <1>1 DEF IndInv, LiveVmIsTracked
  <1>3. \A p \in Ours : p # NoPid /\ Alive(p)
    BY PidsAssumption DEF Ours
  <1>4. HolderFits(b) /\ UntrackedFits /\ untracked \subseteq Pids /\ StepFits(b)
    BY DEF IndInv, TypeOK
  <1> QED
    BY <1>2, <1>3, <1>4 DEF HolderFits, Holding

\* An exit, a freeze or a thaw of the holder's VM, whose record stays.
LEMMA EndInv ==
    ASSUME IndInv, NEW b \in Actors, End(b)
    PROVE  IndInv'
  <1> DEFINE p == proc[b].pid
  <1>1. /\ TypeOK /\ proc[b].pc = "end" /\ proc[b].pc \in Holding /\ proc[b] \in Process
        /\ StepFits(b) /\ HolderFits(b) /\ UntrackedFits
        /\ p \in Pids \cup {NoPid} /\ lock = b
    BY DEF IndInv, End, Holding, TypeOK, Process, LockHeld
  <1>2. /\ UNCHANGED <<rec, policy, mounted, workers>>
        /\ \/ /\ UNCHANGED <<untracked, exposed>>
              /\ \A q \in Pids : procs'[q] = "gone" <=> procs[q] = "gone"
           \/ /\ untracked' = untracked \ {p} /\ exposed' = exposed \ {p}
              /\ p \in Pids /\ procs'[p] = "gone"
    BY <1>1 DEF End, Exits, TypeOK, Alive
  <1>3. /\ procs' \in [Pids -> {"gone", "live", "frozen"}] /\ marker' \in ExitCodes
        /\ \A q \in Pids : q # p => procs'[q] = procs[q]
        /\ \A q \in Pids : procs'[q] # "gone" => procs[q] # "gone"
    <2>1. p = NoPid => ~Alive(p)
      BY DEF Alive
    <2>2. \A v \in {"gone", "live", "frozen"} :
            Alive(p) /\ procs' = [procs EXCEPT ![p] = v] =>
               /\ procs' \in [Pids -> {"gone", "live", "frozen"}]
               /\ \A q \in Pids : q # p => procs'[q] = procs[q]
               /\ \A q \in Pids : procs'[q] # "gone" => procs[q] # "gone"
      BY <1>1 DEF TypeOK, Alive
    <2>3. \/ UNCHANGED <<procs, marker>>
          \/ /\ Alive(p) /\ marker' \in {marker, "ok", "fail"}
             /\ \E v \in {"gone", "live", "frozen"} : procs' = [procs EXCEPT ![p] = v]
      BY DEF End, Exits
    <2> QED
      BY <1>1, <2>2, <2>3 DEF TypeOK, ExitCodes
  <1>4. \/ Drop(b) /\ Set(b, Idle)
        \/ /\ Goto(b, "settle") /\ UNCHANGED lock
           /\ proc[b].op \notin {"term", "pause", "unpause"} =>
                 p = NoPid \/ procs'[p] = "gone"
    <2>1. CASE proc[b].op \in {"stop", "kill", "rm", "rm_force", "restart", "unhealthy"}
      BY <1>1, <2>1 DEF End, Exits, Alive, TypeOK
    <2>2. CASE proc[b].op \in {"term", "pause", "unpause"}
      BY <2>2 DEF End
    <2> QED
      BY <1>1, <2>1, <2>2, CommandsAssumption DEF StepFits
  <1>5. /\ proc' \in [Actors -> Process]
        /\ lock' \in Actors \cup {Nobody}
        /\ LockHeld'
        /\ \A a \in Actors : StepFits(a)'
        /\ \A a \in Actors : HolderFits(a)'
    <2>1. WithinBudget => WithinBudget'
      BY <1>2 DEF WithinBudget, Limited
    <2>2. CASE Drop(b) /\ Set(b, Idle)
      <3>1. proc'[b] = Idle /\ lock' = Nobody
        BY <1>1, <2>2, IdleFacts, SetFacts DEF Drop
      <3>2. StepFits(b)' /\ HolderFits(b)'
        BY <3>1, IdleFacts DEF StepFits, HolderFits
      <3> QED
        BY <1>1, <2>1, <2>2, <3>1, <3>2, IdleFacts, HolderStep DEF Holding
    <2>3. CASE /\ Goto(b, "settle") /\ UNCHANGED lock
               /\ proc[b].op \notin {"term", "pause", "unpause"} =>
                 p = NoPid \/ procs'[p] = "gone"
      <3> DEFINE s == [proc[b] EXCEPT !.pc = "settle"]
      <3>1. s \in Process /\ s.pc = "settle" /\ s.op = proc[b].op /\ s.pid = p
        BY <1>1 DEF Process
      <3>2. Set(b, s) /\ proc'[b] = s
        BY <1>1, <2>3, <3>1, SetFacts DEF Goto
      <3>3. StepFits(b)'
        BY <1>1, <2>1, <3>1, <3>2 DEF StepFits
      <3>4. HolderFits(b)'
        <4>1. \A q \in Pids \cup {NoPid} : Alive(q)' => Alive(q)
          BY <1>3 DEF Alive
        <4>2. rec.pid \in Pids \cup {NoPid}
          BY <1>1 DEF TypeOK, Record
        <4>4. proc'[b].pid = p /\ proc'[b].pc = "settle" /\ proc'[b].op = proc[b].op
          BY <3>1, <3>2
        <4>5. rec.pid = p \/ (~Alive(rec.pid) /\ (Alive(p) => p \in untracked))
          BY <1>1 DEF HolderFits
        <4>6. p' = p /\ rec' = rec
          BY <1>2, <4>4
        <4>3. proc[b].op \notin {"term", "pause", "unpause"} => ~Alive(p)'
          BY <2>3, <4>6 DEF Alive
        <4>8. Alive(p)' => Alive(p) /\ untracked' = untracked
          BY <1>1, <1>2, <4>1, <4>6 DEF Alive
        <4>7. rec'.pid = p \/ (~Alive(rec.pid)' /\ (Alive(p)' => p \in untracked'))
          BY <1>1, <4>1, <4>2, <4>5, <4>6, <4>8
        <4> QED
          BY <4>3, <4>4, <4>6, <4>7 DEF HolderFits
      <3> QED
        BY <1>1, <2>1, <2>3, <3>1, <3>2, <3>3, <3>4, HolderStep DEF Holding
    <2> QED
      BY <1>4, <2>2, <2>3
  <1>6. TypeOK'
    BY <1>1, <1>2, <1>3, <1>5 DEF TypeOK
  <1>7. UntrackedFits'
    BY <1>1, <1>2, <1>3, HolderVm DEF UntrackedFits, TypeOK
  <1>8. Ours' \subseteq Ours /\ (exposed' # exposed => p \notin Ours')
    BY <1>2, <1>3 DEF Ours, Alive
  <1>9. LiveVmIsTracked' /\ TeardownSparesLiveVm'
    <2>1. LiveVmIsTracked'
      BY <1>1, <1>2, <1>8, HolderVm DEF LiveVmIsTracked
    <2>2. Ours' \ exposed' \subseteq Ours \ exposed
      BY <1>2, <1>8
    <2> QED
      BY <1>2, <2>1, <2>2 DEF TeardownSparesLiveVm, IndInv
  <1>10. RestartBudget'
    BY <1>2 DEF RestartBudget, Limited, IndInv
  <1> QED
    BY <1>5, <1>6, <1>7, <1>9, <1>10 DEF IndInv

\* A write that does not raise the restart count stays within the budget.
LEMMA RestartBudgetKept ==
    ASSUME IndInv, policy' = policy, rec'.restarts \in {0, rec.restarts}
    PROVE  RestartBudget'
  <1>1. policy.max \in Nat /\ rec.restarts \in Nat
    BY PoliciesAssumption DEF IndInv, TypeOK, Record
  <1> QED
    BY <1>1 DEF IndInv, RestartBudget, Limited

\* What a command writes keeps or drops the PID with the active status, and
\* never raises the restart count.
LEMMA SettledFacts ==
    ASSUME NEW r \in Record, NEW op \in (Commands \ {"start"}) \cup {"unhealthy"}
    PROVE  /\ Settled(op, r) \in Record
           /\ Settled(op, r).restarts \in {0, r.restarts}
           /\ op \in {"restart", "unhealthy"} => Settled(op, r).restarts = r.restarts
           /\ op \in {"pause", "unpause"} =>
                 Settled(op, r).pid = r.pid /\ Settled(op, r).status \in Active
           /\ op \notin {"pause", "unpause"} =>
                 Settled(op, r).pid = NoPid /\ Settled(op, r).status \notin Active
  <1>1. CASE op \in {"stop", "kill", "term"}
    BY <1>1, NoRetries DEF Settled, Record, Active, ExitCodes
  <1>2. CASE op = "restart"
    BY <1>2 DEF Settled, Record, Active
  <1>3. CASE op \in {"pause", "unpause"}
    BY <1>3 DEF Settled, Record, Active
  <1>4. CASE op = "unhealthy"
    BY <1>4, NoRetries DEF Settled, Record, Active
  <1>5. CASE op \in {"rm", "rm_force"}
    BY <1>5, NoRetries DEF Settled, Created, Record, Active, ExitCodes
  <1> QED
    BY <1>1, <1>2, <1>3, <1>4, <1>5, CommandsAssumption

LEMMA SettleInv ==
    ASSUME IndInv, NEW b \in Actors, Settle(b)
    PROVE  IndInv'
  <1> DEFINE p == proc[b].pid
             op == proc[b].op
  <1>1. /\ TypeOK /\ proc[b].pc = "settle" /\ proc[b].pc \in Holding /\ proc[b] \in Process
        /\ StepFits(b) /\ HolderFits(b) /\ UntrackedFits
        /\ p \in Pids \cup {NoPid} /\ rec \in Record /\ lock' = Nobody
        /\ op \in (Commands \ {"start"}) \cup {"unhealthy"}
    BY DEF IndInv, Settle, Holding, TypeOK, Process, StepFits, Drop
  <1>2. /\ UNCHANGED <<policy, procs, marker, workers>> /\ Teardown(b)
        /\ mounted' \in BOOLEAN
        /\ SettleRecord(b) \/ SettleFails(b)
    BY <1>1 DEF Settle, Teardown, TypeOK
  <1>3. /\ rec' \in Record /\ (rec'.pid # NoPid <=> rec'.status \in Active)
        /\ rec'.restarts \in {0, rec.restarts}
        /\ op \in {"restart", "unhealthy"} => rec'.restarts = rec.restarts
        /\ op \in {"pause", "unpause"} => rec'.pid = rec.pid
        /\ SettleRecord(b) /\ op = "term" /\ rec.pid = p => rec'.pid = NoPid
        /\ rec'.pid \in {NoPid, rec.pid}
    <2>1. CASE Matches(b) /\ SettleRecord(b)
      <3>1. rec' = Settled(op, rec)
        BY <2>1 DEF SettleRecord
      <3>2. op \in {"pause", "unpause"} => rec.pid # NoPid
        BY <1>1, <2>1, PidsAssumption DEF Matches, StepFits
      <3> QED
        BY <1>1, <3>1, <3>2, SettledFacts
    <2>2. CASE ~Matches(b) /\ SettleRecord(b)
      <3>1. rec' = rec
        BY <2>2 DEF SettleRecord
      <3> QED
        BY <1>1, <2>2, <3>1 DEF TypeOK, Matches
    <2>3. CASE SettleFails(b) /\ ~SettleRecord(b)
      BY <1>1, <2>3 DEF TypeOK, SettleFails
    <2> QED
      BY <1>2, <2>1, <2>2, <2>3
  <1>4. WithinBudget => WithinBudget'
    <2>1. policy.max \in Nat /\ rec.restarts \in Nat
      BY <1>1, PoliciesAssumption DEF TypeOK, Record
    <2> QED
      BY <1>2, <1>3, <2>1 DEF WithinBudget, Limited
  <1>5. PICK s \in Process :
           /\ Set(b, s)
           /\ s = Idle \/ (s.pc = "reboot" /\ s.op = op /\ op \in {"restart", "unhealthy"}
                             /\ s.pid = NoPid)
    <2> DEFINE again == [proc[b] EXCEPT !.pc = "reboot", !.pid = NoPid]
    <2>1. again \in Process /\ again.pc = "reboot" /\ again.op = op /\ again.pid = NoPid
      BY <1>1 DEF Process
    <2> QED
      BY <1>2, <2>1, IdleFacts DEF SettleRecord, SettleFails
  <1>6. proc'[b] = s
    BY <1>1, <1>5, SetFacts
  <1>7. StepFits(b)' /\ HolderFits(b)'
    BY <1>1, <1>4, <1>5, <1>6, IdleFacts DEF StepFits, HolderFits
  <1>8. /\ proc' \in [Actors -> Process]
        /\ lock' \in Actors \cup {Nobody}
        /\ LockHeld'
        /\ \A a \in Actors : StepFits(a)'
        /\ \A a \in Actors : HolderFits(a)'
    BY <1>1, <1>4, <1>5, <1>7, IdleFacts, HolderStep DEF Holding
  <1>9. CASE op = "term" /\ Alive(p) /\ SettleRecord(b)
    <2>1. rec'.pid # p /\ untracked' = untracked \cup {p} /\ p \in Pids /\ exposed' = exposed
      <3>1. rec.pid = p => rec'.pid = NoPid
        BY <1>3, <1>9
      <3> QED
        BY <1>1, <1>3, <1>9, <3>1 DEF SettleRecord, Alive
    <2>2. TypeOK'
      BY <1>1, <1>2, <1>3, <1>8, <2>1 DEF TypeOK
    <2>3. UntrackedFits'
      BY <1>1, <1>2, <1>3, <1>9, <2>1, PidsAssumption DEF UntrackedFits, TypeOK, Alive
    <2>4. Ours' = {}
      BY <1>1, <1>2, <2>1, HolderVm DEF Ours, Alive
    <2> QED
      BY <1>2, <1>3, <1>8, <2>2, <2>3, <2>4, RestartBudgetKept
         DEF IndInv, LiveVmIsTracked, TeardownSparesLiveVm
  <1>10. CASE ~(op = "term" /\ Alive(p)) \/ SettleFails(b)
    <2>1. /\ untracked' = untracked /\ exposed' \subseteq Pids
          /\ exposed \subseteq exposed'
          /\ op = "term" /\ Alive(p) => p \in exposed' /\ rec' = rec
      BY <1>1, <1>2, <1>10 DEF SettleRecord, SettleFails, TypeOK, Alive
    <2>2. TypeOK'
      BY <1>1, <1>2, <1>3, <1>8, <2>1 DEF TypeOK
    <2>3. UntrackedFits'
      BY <1>1, <1>2, <1>3, <2>1, PidsAssumption DEF UntrackedFits, TypeOK
    <2>4. Ours' = Ours
      BY <1>2, <2>1 DEF Ours, Alive
    <2>5. Ours # {} => op \in {"term", "pause", "unpause"} /\ Alive(p)
      BY <1>1, HolderVm DEF HolderFits, Ours
    <2>6. LiveVmIsTracked'
      <3>1. Ours # {} => rec'.pid = rec.pid
        BY <1>3, <2>1, <2>5
      <3> QED
        BY <1>1, <2>4, <3>1, HolderVm DEF LiveVmIsTracked
    <2>7. TeardownSparesLiveVm'
      <3>1. Ours \ exposed' # {} => op \in {"pause", "unpause"}
        BY <1>1, <2>1, <2>5, HolderVm
      <3>2. Ours \ exposed' # {} => Ours \ exposed # {}
        BY <2>1
      <3>3. op \in {"pause", "unpause"} => mounted' = mounted
        BY <1>1, <1>2 DEF Teardown, TypeOK
      <3> QED
        BY <2>4, <3>1, <3>2, <3>3 DEF IndInv, TeardownSparesLiveVm
    <2> QED
      BY <1>2, <1>3, <1>8, <2>2, <2>3, <2>6, <2>7, RestartBudgetKept DEF IndInv
  <1> QED
    BY <1>2, <1>9, <1>10

LEMMA BootInv ==
    ASSUME IndInv, NEW b \in Actors, Boot(b)
    PROVE  IndInv'
  <1>1. /\ TypeOK /\ proc[b].pc = "boot" /\ proc[b].pc \in Holding /\ proc[b] \in Process
        /\ StepFits(b) /\ HolderFits(b) /\ UntrackedFits /\ ~Alive(rec.pid)
        /\ Ours = {} /\ lock = b
    BY HolderVm DEF IndInv, Boot, Holding, TypeOK, HolderFits, LockHeld
  <1>2. UNCHANGED <<rec, policy, marker, workers, untracked>>
    BY DEF Boot
  <1>3. WithinBudget => WithinBudget'
    BY <1>2 DEF WithinBudget, Limited
  <1>4. RestartBudget'
    BY <1>2 DEF RestartBudget, Limited, IndInv
  <1>5. ASSUME NEW p \in Fresh,
               procs' = [procs EXCEPT ![p] = "live"], mounted' = TRUE,
               Set(b, [proc[b] EXCEPT !.pc = "record", !.pid = p]), UNCHANGED lock,
               exposed' = IF rec.pid # NoPid THEN exposed \cup {p} ELSE exposed
        PROVE  IndInv'
    <2> DEFINE s == [proc[b] EXCEPT !.pc = "record", !.pid = p]
    <2>1. p \in Pids /\ procs[p] = "gone" /\ p \notin untracked
      BY <1>1 DEF Fresh, UntrackedFits
    <2>2. s \in Process /\ s.pc = "record" /\ s.op = proc[b].op /\ s.pid = p
      BY <1>1, <2>1 DEF Process
    <2>3. proc'[b] = s
      BY <1>1, <1>5, <2>2, SetFacts
    <2>4. StepFits(b)' /\ HolderFits(b)'
      <3>1. StepFits(b)'
        BY <1>1, <1>2, <1>3, <2>1, <2>2, <2>3 DEF StepFits
      <3>2. rec.pid \in Pids \cup {NoPid} /\ rec.pid # p
        BY <1>1, <2>1 DEF Fresh, TypeOK, Record
      <3>3. ~Alive(rec.pid)'
        BY <1>1, <1>2, <1>5, <2>1, <3>2 DEF Alive, TypeOK
      <3>4. rec.pid # NoPid => p \in exposed'
        BY <1>5
      <3> QED
        BY <1>2, <2>1, <2>2, <2>3, <3>1, <3>3, <3>4 DEF HolderFits
    <2>5. /\ proc' \in [Actors -> Process]
          /\ lock' \in Actors \cup {Nobody}
          /\ LockHeld'
          /\ \A a \in Actors : StepFits(a)'
          /\ \A a \in Actors : HolderFits(a)'
      BY <1>1, <1>3, <1>5, <2>2, <2>4, HolderStep DEF Holding
    <2>6. TypeOK'
      BY <1>1, <1>2, <1>5, <2>1, <2>5 DEF TypeOK
    <2>7. UntrackedFits'
      BY <1>1, <1>2, <1>5, <2>1 DEF UntrackedFits, TypeOK
    <2>8. Ours' \subseteq {p}
      BY <1>1, <1>2, <1>5, <2>1 DEF Ours, Alive, TypeOK
    <2>9. LiveVmIsTracked'
      BY <1>1, <1>5, <2>2, <2>3, <2>8 DEF LiveVmIsTracked
    <2> QED
      BY <1>4, <1>5, <2>5, <2>6, <2>7, <2>9 DEF IndInv, TeardownSparesLiveVm
  <1>6. ASSUME Drop(b), Set(b, Idle), mounted' = FALSE, UNCHANGED <<procs, exposed>>
        PROVE  IndInv'
    <2>1. proc'[b] = Idle /\ lock' = Nobody
      BY <1>1, <1>6, IdleFacts, SetFacts DEF Drop
    <2>2. StepFits(b)' /\ HolderFits(b)'
      BY <2>1, IdleFacts DEF StepFits, HolderFits
    <2>3. /\ proc' \in [Actors -> Process]
          /\ lock' \in Actors \cup {Nobody}
          /\ LockHeld'
          /\ \A a \in Actors : StepFits(a)'
          /\ \A a \in Actors : HolderFits(a)'
      BY <1>1, <1>3, <1>6, <2>1, <2>2, IdleFacts, HolderStep DEF Holding
    <2>4. TypeOK' /\ UntrackedFits'
      BY <1>1, <1>2, <1>6, <2>3 DEF TypeOK, UntrackedFits
    <2>5. Ours' = {}
      BY <1>1, <1>2, <1>6 DEF Ours, Alive
    <2> QED
      BY <1>4, <2>3, <2>4, <2>5 DEF IndInv, LiveVmIsTracked, TeardownSparesLiveVm
  <1> QED
    BY <1>5, <1>6 DEF Boot

\* restart_count is raised only by the monitor, which has room for it.
LEMMA BootResultFacts ==
    ASSUME IndInv, NEW b \in Actors, proc[b].pc = "record"
    PROVE  LET r == apply_boot_result(rec, proc[b].pid, proc[b].op) IN
           /\ r \in Record /\ r.pid = proc[b].pid /\ r.status = "running"
           /\ b # Monitor => r.restarts \in {0, rec.restarts}
           /\ Limited => r.restarts <= policy.max
  <1> DEFINE r == apply_boot_result(rec, proc[b].pid, proc[b].op)
  <1>1. /\ StepFits(b) /\ proc[b].pid \in Pids /\ RestartBudget /\ rec.restarts \in Nat
        /\ policy.max \in Nat
        /\ proc[b].op \in {"start", "restart", "dead", "unhealthy"}
    BY PoliciesAssumption DEF IndInv, StepFits, TypeOK, Record
  <1>2. /\ r.restarts \in Nat /\ r.pid = proc[b].pid /\ r.status = "running"
        /\ b # Monitor => r.restarts \in {0, rec.restarts}
        /\ Limited => r.restarts <= policy.max
    <2>1. CASE proc[b].op = "start"
      BY <1>1, <2>1 DEF apply_boot_result
    <2>2. CASE proc[b].op = "restart"
      BY <1>1, <2>2 DEF apply_boot_result, RestartBudget, Limited
    <2>3. CASE proc[b].op \in {"dead", "unhealthy"}
      <3>1. r.restarts = rec.restarts + 1 /\ r.pid = proc[b].pid /\ r.status = "running"
        BY <2>3 DEF apply_boot_result
      <3>2. b = Monitor /\ WithinBudget
        BY <1>1, <2>3 DEF StepFits
      <3> QED
        BY <1>1, <3>1, <3>2 DEF WithinBudget, Limited
    <2> QED
      BY <1>1, <2>1, <2>2, <2>3
  <1>3. \A n \in Nat : [status |-> "running", pid |-> proc[b].pid, user |-> FALSE,
                        health |-> "starting", retries |-> 0, exit |-> "none",
                        restarts |-> n] \in Record
    BY <1>1, NoRetries DEF Record, ExitCodes
  <1>4. r \in Record
    BY <1>2, <1>3 DEF apply_boot_result
  <1> QED
    BY <1>2, <1>4

LEMMA RecordBootInv ==
    ASSUME IndInv, NEW b \in Actors, RecordBoot(b)
    PROVE  IndInv'
  <1> DEFINE p == proc[b].pid
  <1>1. /\ TypeOK /\ proc[b].pc = "record" /\ proc[b].pc \in Holding /\ p \in Pids
        /\ UntrackedFits /\ p \notin untracked /\ Ours \subseteq {p} /\ HolderFits(b)
    BY HolderVm DEF IndInv, RecordBoot, Holding, StepFits
  <1>2. policy' = policy /\ Drop(b) /\ Set(b, Idle)
    BY DEF RecordBoot
  <1>3. proc'[b] = Idle /\ lock' = Nobody
    BY <1>1, <1>2, IdleFacts, SetFacts DEF Drop
  <1>4. StepFits(b)' /\ HolderFits(b)'
    BY <1>3, IdleFacts DEF StepFits, HolderFits
  <1>5. (b # Monitor /\ WithinBudget => WithinBudget') =>
           /\ proc' \in [Actors -> Process]
           /\ lock' \in Actors \cup {Nobody}
           /\ LockHeld'
           /\ \A a \in Actors : StepFits(a)'
           /\ \A a \in Actors : HolderFits(a)'
    BY <1>1, <1>2, <1>3, <1>4, IdleFacts, HolderStep DEF Holding
  <1>6. CASE PublishBoot(b)
    <2>1. /\ rec' \in Record /\ rec'.pid = p /\ rec'.status = "running"
          /\ b # Monitor => rec'.restarts \in {0, rec.restarts}
          /\ Limited => rec'.restarts <= policy.max
      BY <1>1, <1>6, BootResultFacts DEF PublishBoot
    <2>2. UNCHANGED <<procs, marker, mounted, untracked, exposed>> /\ workers' \subseteq Pids
      BY <1>1, <1>6 DEF PublishBoot, TypeOK
    <2>3. b # Monitor /\ WithinBudget => WithinBudget'
      <3>1. policy.max \in Nat /\ rec.restarts \in Nat
        BY <1>1, PoliciesAssumption DEF TypeOK, Record
      <3> QED
        BY <1>2, <2>1, <3>1 DEF WithinBudget, Limited
    <2>4. TypeOK'
      BY <1>1, <1>2, <1>5, <2>1, <2>2, <2>3, PidsAssumption DEF TypeOK, Active
    <2>5. UntrackedFits'
      BY <1>1, <2>1, <2>2 DEF UntrackedFits
    <2>6. Ours' = Ours
      BY <2>2 DEF Ours, Alive
    <2>7. LiveVmIsTracked' /\ TeardownSparesLiveVm'
      BY <1>1, <2>1, <2>2, <2>6 DEF IndInv, LiveVmIsTracked, TeardownSparesLiveVm
    <2>8. RestartBudget'
      BY <1>2, <2>1 DEF RestartBudget, Limited
    <2> QED
      BY <1>5, <2>3, <2>4, <2>5, <2>7, <2>8 DEF IndInv
  <1>7. CASE LoseBoot(b)
    <2>1. /\ UNCHANGED <<rec, procs, marker, mounted, workers, exposed>>
          /\ untracked' = IF Alive(p) THEN untracked \cup {p} ELSE untracked
      BY <1>7 DEF LoseBoot
    <2>2. WithinBudget => WithinBudget'
      BY <1>2, <2>1 DEF WithinBudget, Limited
    <2>3. TypeOK'
      BY <1>1, <1>2, <1>5, <2>1, <2>2 DEF TypeOK
    <2>4. UntrackedFits'
      BY <1>1, <2>1 DEF UntrackedFits, HolderFits, Alive
    <2>5. Ours' = {}
      BY <1>1, <2>1 DEF Ours, Alive
    <2>6. RestartBudget'
      BY <1>2, <2>1 DEF RestartBudget, Limited, IndInv
    <2> QED
      BY <1>5, <2>2, <2>3, <2>4, <2>5, <2>6
         DEF IndInv, LiveVmIsTracked, TeardownSparesLiveVm
  <1>8. CASE UndoBoot(b)
    <2>1. /\ UNCHANGED <<rec, workers>> /\ mounted' = FALSE /\ untracked' = untracked \ {p}
          /\ procs' = [procs EXCEPT ![p] = "gone"] /\ marker' \in {marker, "ok", "fail"}
          /\ exposed' = exposed \ {p}
      BY <1>8 DEF UndoBoot, Exits
    <2>2. WithinBudget => WithinBudget'
      BY <1>2, <2>1 DEF WithinBudget, Limited
    <2>3. TypeOK'
      BY <1>1, <1>2, <1>5, <2>1, <2>2 DEF TypeOK, ExitCodes
    <2>4. UntrackedFits'
      BY <1>1, <2>1 DEF UntrackedFits, TypeOK
    <2>5. Ours' = {}
      BY <1>1, <2>1 DEF Ours, Alive, TypeOK
    <2>6. RestartBudget'
      BY <1>2, <2>1 DEF RestartBudget, Limited, IndInv
    <2> QED
      BY <1>5, <2>2, <2>3, <2>4, <2>5, <2>6
         DEF IndInv, LiveVmIsTracked, TeardownSparesLiveVm
  <1> QED
    BY <1>6, <1>7, <1>8 DEF RecordBoot

-----------------------------------------------------------------------------
(* Exits and interruptions                                                 *)

LEMMA VmExitInv ==
    ASSUME IndInv, NEW p \in Pids, VmExit(p)
    PROVE  IndInv'
  <1>1. /\ TypeOK /\ UNCHANGED <<rec, policy, mounted, lock, proc, workers>>
        /\ untracked' = untracked \ {p} /\ procs' = [procs EXCEPT ![p] = "gone"]
        /\ marker' \in {marker, "ok", "fail"} /\ exposed' = exposed \ {p}
        /\ procs[p] = "live"
    BY DEF IndInv, VmExit, Exits
  <1>2. TypeOK'
    BY <1>1 DEF TypeOK, ExitCodes
  <1>3. LockHeld'
    BY <1>1 DEF IndInv, LockHeld
  <1>4. WithinBudget => WithinBudget'
    BY <1>1 DEF WithinBudget, Limited
  <1>5. \A a \in Actors : StepFits(a)'
    BY <1>1, <1>4 DEF IndInv, StepFits
  <1>6. \A a \in Actors : HolderFits(a)'
    <2> SUFFICES ASSUME NEW a \in Actors
                 PROVE  HolderFits(a)'
      OBVIOUS
    <2>1. \A q \in Pids \cup {NoPid} : Alive(q)' => Alive(q)
      BY <1>1 DEF TypeOK, Alive
    <2>2. proc[a].pid \in Pids \cup {NoPid} /\ rec.pid \in Pids \cup {NoPid}
      BY <1>1 DEF TypeOK, Process, Record
    <2>3. /\ ~Alive(proc[a].pid) => ~Alive(proc[a].pid)'
          /\ ~Alive(rec.pid) => ~Alive(rec.pid)'
      BY <1>1, <2>1, <2>2
    <2>4. HolderFits(a)
      BY DEF IndInv
    <2>5. proc[a].pc = "record" /\ rec.pid # NoPid /\ Alive(proc[a].pid)'
             => proc[a].pid \in exposed'
      BY <1>1, <2>2, <2>3, <2>4 DEF HolderFits, Alive, TypeOK
    <2>6. Alive(proc[a].pid)' /\ proc[a].pid \in untracked => proc[a].pid \in untracked'
      BY <1>1, <2>2 DEF Alive, TypeOK
    <2> QED
      BY <1>1, <2>3, <2>4, <2>5, <2>6 DEF HolderFits
  <1>7. UntrackedFits'
    BY <1>1 DEF IndInv, UntrackedFits, TypeOK
  <1>8. Ours' \subseteq Ours
    BY <1>1 DEF Ours, Alive, TypeOK
  <1>9. LiveVmIsTracked' /\ RestartBudget'
    BY <1>1, <1>8 DEF IndInv, LiveVmIsTracked, RestartBudget, Limited
  <1>10. TeardownSparesLiveVm'
    <2>1. p \notin Ours'
      BY <1>1 DEF Ours, Alive, TypeOK
    <2>2. Ours' \ exposed' \subseteq Ours \ exposed
      BY <1>1, <1>8, <2>1
    <2> QED
      BY <1>1, <2>2 DEF IndInv, TeardownSparesLiveVm
  <1> QED
    BY <1>2, <1>3, <1>5, <1>6, <1>7, <1>9, <1>10 DEF IndInv

\* The lock of an interrupted command is released and its unrecorded VM is
\* given up.
LEMMA InterruptInv ==
    ASSUME IndInv, NEW b \in Users, Interrupt(b)
    PROVE  IndInv'
  <1>1. /\ TypeOK /\ b \in Actors /\ Set(b, Idle) /\ b # Nobody
        /\ UNCHANGED <<rec, policy, procs, marker, mounted, workers, exposed>>
    BY ProcessesAssumption DEF IndInv, Interrupt, Actors
  <1>2. /\ proc' \in [Actors -> Process] /\ proc'[b] = Idle
        /\ \A a \in Actors : a # b => proc'[a] = proc[a]
    BY <1>1, IdleFacts, SetFacts
  <1>3. StepFits(b)' /\ HolderFits(b)'
    BY <1>2, IdleFacts DEF StepFits, HolderFits
  <1>4. CASE proc[b].pc \notin Holding
    <2>1. UNCHANGED <<lock, untracked>> /\ lock # b
      BY <1>1, <1>4 DEF Interrupt, IndInv, LockHeld, Holding
    <2>2. Eased
      BY <1>1 DEF Eased, TypeOK
    <2>3. \A a \in Actors : Undisturbed(a) \/ Moved(a)
      BY <1>2, <1>3, <1>4, <2>1, IdleFacts DEF Undisturbed, Moved, Holding
    <2> QED
      BY <1>1, <1>2, <2>1, <2>2, <2>3, EasedStep DEF TypeOK
  <1>5. CASE proc[b].pc \in Holding
    <2>1. lock = b /\ lock' = Nobody
      BY <1>1, <1>5 DEF Interrupt, IndInv, LockHeld
    <2>2. WithinBudget => WithinBudget'
      BY <1>1 DEF WithinBudget, Limited
    <2>3. /\ LockHeld'
          /\ \A a \in Actors : StepFits(a)'
          /\ \A a \in Actors : HolderFits(a)'
      BY <1>1, <1>3, <1>5, <2>1, <2>2, IdleFacts, HolderStep DEF Holding
    <2>4. /\ \A q \in untracked' : q \in untracked \/ (q = proc[b].pid /\ Alive(q)
                                                        /\ proc[b].pc = "record")
          /\ proc[b].pc = "record" => proc[b].pid \in Pids /\ ~Alive(rec.pid)
          /\ untracked' \subseteq Pids
      BY <1>1 DEF Interrupt, IndInv, HolderFits, StepFits, TypeOK
    <2>5. TypeOK'
      BY <1>1, <1>2, <2>1, <2>4 DEF TypeOK
    <2>6. UntrackedFits'
      BY <1>1, <2>4, PidsAssumption DEF IndInv, UntrackedFits, Alive
    <2>7. /\ Ours' \subseteq Ours
          /\ proc[b].pc = "record" => Ours' = {}
      BY <1>1, <1>5, HolderVm DEF Interrupt, Ours, Alive
    <2>8. LiveVmIsTracked'
      BY <1>1, <1>5, <2>7, HolderVm DEF LiveVmIsTracked
    <2>9. TeardownSparesLiveVm' /\ RestartBudget'
      BY <1>1, <2>7 DEF IndInv, TeardownSparesLiveVm, RestartBudget, Limited
    <2> QED
      BY <2>3, <2>5, <2>6, <2>8, <2>9 DEF IndInv
  <1> QED
    BY <1>4, <1>5

\* prune gives the VM of the record it removes up, whoever holds the lock.
LEMMA PruneInv ==
    ASSUME IndInv, NEW b \in Users, Prune(b)
    PROVE  IndInv'
  <1>1. /\ TypeOK /\ b \in Actors /\ Set(b, Idle) /\ proc[b].pc = "prune"
        /\ UNCHANGED <<policy, procs, marker, mounted, lock, workers, exposed>>
        /\ rec' = [Created EXCEPT !.status = "absent"]
        /\ untracked' = IF Alive(rec.pid) THEN untracked \cup {rec.pid} ELSE untracked
    BY DEF IndInv, Prune, Actors, PidLive
  <1>2. /\ proc' \in [Actors -> Process] /\ proc'[b] = Idle
        /\ \A a \in Actors : a # b => proc'[a] = proc[a]
    BY <1>1, IdleFacts, SetFacts
  <1>3. rec' \in Record /\ rec'.pid = NoPid /\ rec'.status \notin Active /\ rec'.restarts = 0
    BY <1>1, NoRetries DEF Created, Record, Active, ExitCodes
  <1>4. rec.pid \in Pids \cup {NoPid} /\ rec.restarts \in Nat /\ policy.max \in Nat
    BY <1>1, PoliciesAssumption DEF TypeOK, Record
  <1>5. TypeOK'
    BY <1>1, <1>2, <1>3, <1>4 DEF TypeOK, Alive
  <1>6. LockHeld'
    BY <1>1, <1>2, IdleFacts DEF IndInv, LockHeld, Holding
  <1>7. WithinBudget => WithinBudget'
    BY <1>1, <1>3, <1>4 DEF WithinBudget, Limited
  <1>8. \A a \in Actors : StepFits(a)'
    BY <1>2, <1>7, IdleFacts DEF IndInv, StepFits
  <1>9. \A a \in Actors : HolderFits(a)'
    <2> SUFFICES ASSUME NEW a \in Actors, a # b
                 PROVE  HolderFits(a)'
      BY <1>2, IdleFacts DEF HolderFits
    <2>1. proc'[a] = proc[a] /\ HolderFits(a)
      BY <1>2 DEF IndInv
    <2>2. (\A q : Alive(q)' <=> Alive(q)) /\ ~Alive(NoPid)
      BY <1>1 DEF Alive
    <2>3. proc[a].pc = "record" => proc[a].pid \notin untracked'
      BY <1>1, <2>1 DEF HolderFits
    <2> QED
      BY <1>1, <1>3, <2>1, <2>2, <2>3 DEF HolderFits
  <1>10. UntrackedFits'
    BY <1>1, <1>3, <1>4, PidsAssumption DEF IndInv, UntrackedFits, TypeOK, Alive
  <1>11. Ours' \subseteq Ours /\ rec.pid \notin Ours'
    BY <1>1 DEF Ours, Alive
  <1>12. LiveVmIsTracked'
    BY <1>1, <1>2, <1>11 DEF IndInv, LiveVmIsTracked
  <1>13. TeardownSparesLiveVm' /\ RestartBudget'
    BY <1>1, <1>3, <1>4, <1>11 DEF IndInv, TeardownSparesLiveVm, RestartBudget, Limited
  <1> QED
    BY <1>5, <1>6, <1>8, <1>9, <1>10, <1>12, <1>13 DEF IndInv

-----------------------------------------------------------------------------
(* Theorems                                                                *)

LEMMA StutterInv == ASSUME IndInv, UNCHANGED vars PROVE IndInv'
  BY DEF IndInv, vars, TypeOK, LockHeld, StepFits, WithinBudget, HolderFits, UntrackedFits,
         LiveVmIsTracked, TeardownSparesLiveVm, RestartBudget, Limited, Ours, Alive

LEMMA NextInv == IndInv /\ [Next]_vars => IndInv'
  <1> SUFFICES ASSUME IndInv, [Next]_vars
               PROVE  IndInv'
    OBVIOUS
  <1>1. ASSUME NEW a \in Actors, Step(a)
        PROVE  IndInv'
    BY <1>1, LockInv, EndInv, SettleInv, RebootInv, BootInv, RecordBootInv DEF Step
  <1> QED
    BY <1>1, BeginInv, ObserveInv, FlushInv, ListPrunableInv, PruneInv, InterruptInv, PollInv,
       ProbeDoneInv, WorkerInv, VmExitInv, StutterInv DEF Next

LEMMA Invariance == Spec => []IndInv
  BY InitInv, NextInv, PTL DEF Spec

\* Every reachable state is well formed, and a record names a process exactly
\* while it is running or paused.
THEOREM TypeCorrect == Spec => []TypeOK
  <1>1. IndInv => TypeOK
    BY DEF IndInv
  <1> QED
    BY <1>1, Invariance, PTL

\* However user commands, readers, health workers, exits, interruptions, failed
\* writes and the monitor interleave, the box has at most one VM next to the
\* ones the code has lost: the VM of a boot that was interrupted or could not
\* be recorded, the VM of a box killed with a signal that kill does not wait
\* for, and the VM of a box started between prune's listing and its removal.
THEOREM AtMostOneVm == Spec => []OneVm
  <1>1. IndInv => OneVm
    <2> SUFFICES ASSUME IndInv
                 PROVE  OneVm
      OBVIOUS
    <2>1. PICK q : Ours \subseteq {q}
      <3>1. CASE \E b \in Actors : proc[b].pc \in Holding
        BY <3>1, HolderVm
      <3>2. CASE ~\E b \in Actors : proc[b].pc \in Holding
        BY <3>2 DEF IndInv, LiveVmIsTracked, Holding
      <3> QED
        BY <3>1, <3>2
    <2>2. Ours = {} \/ Ours = {q}
      BY <2>1
    <2>3. Cardinality({}) = 0 /\ Cardinality({q}) = 1
      BY FS_EmptySet, FS_Singleton, Zenon
    <2>4. Cardinality(Ours) \in {0, 1}
      BY <2>2, <2>3, Zenon
    <2> QED
      BY <2>4 DEF OneVm
  <1> QED
    BY <1>1, Invariance, PTL

\* Those losses apart, no path drops the PID of a VM that still runs: its record
\* names it or the holder of the lifecycle lock is about to record it.
THEOREM LiveVmTracked == Spec => []LiveVmIsTracked
  <1>1. IndInv => LiveVmIsTracked
    BY DEF IndInv
  <1> QED
    BY <1>1, Invariance, PTL

\* The teardown of a dead box by a process without the lifecycle lock never
\* unmounts the overlay of the VM that replaced it, unless a write of the state
\* file failed before.
THEOREM TeardownIsSafe == Spec => []TeardownSparesLiveVm
  <1>1. IndInv => TeardownSparesLiveVm
    BY DEF IndInv
  <1> QED
    BY <1>1, Invariance, PTL

\* The monitor never restarts a box more often than its policy allows.
THEOREM BudgetIsKept == Spec => []RestartBudget
  <1>1. IndInv => RestartBudget
    BY DEF IndInv
  <1> QED
    BY <1>1, Invariance, PTL

\* No process waits for the lifecycle lock that it holds.
THEOREM NoSelfDeadlock == Spec => []NobodyWaitsForItself
  <1>1. IndInv => NobodyWaitsForItself
    BY DEF IndInv, LockHeld, Holding, NobodyWaitsForItself
  <1> QED
    BY <1>1, Invariance, PTL

=============================================================================
