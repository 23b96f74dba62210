-------------------------- MODULE PoolDaemonProofs --------------------------
(***************************************************************************)
(* Theorems about PoolDaemon for every number of tasks, leases and VMs and *)
(* every size of the pool: the safety invariants that MCPoolDaemon checks  *)
(* for two tasks and two leases, with every boot and every client that can *)
(* lose a VM.                                                              *)
(***************************************************************************)
EXTENDS PoolDaemon, FiniteSetTheorems, SequenceTheorems, TLAPS

-----------------------------------------------------------------------------
(* The inductive invariant                                                 *)

\* Where a task has a VM of its own, uses a lease's, or names a lease.
VmPcs == {"booting", "exec", "respond", "teardown", "insert"}
UsePcs == {"vmlock", "running"}
LeasePcs == {"lookup", "remove", "destroy"} \cup UsePcs

GoodTask(m) ==
    /\ m.vm # NoVm <=> m.pc \in VmPcs
    /\ m.pc \in {"pool", "permit", "acquire"} \cup VmPcs => m.kind \in {"run", "lease"}
    /\ m.pc \in LeasePcs => m.lease \in LeaseIds

GoodLease(k) == k.vm # NoVm <=> k.at \notin {"none"} \cup Dropped

TasksFit == \A t \in Tasks : GoodTask(task[t])
LeasesFit == \A l \in LeaseIds : GoodLease(leases[l])

\* A release destroys what it took out of the map, alone.
DestroyersFit ==
    /\ \A t \in Tasks : task[t].pc = "destroy" => leases[task[t].lease].at = "release"
    /\ \A t, u \in Tasks :
          task[t].pc = "destroy" /\ task[u].pc = "destroy" /\ task[t].lease = task[u].lease => t = u

\* active_execs counts the commands, which is what the reaper relies on.
Users(l) == {t \in Tasks : task[t].pc \in UsePcs /\ task[t].lease = l}

CountsFit ==
    \A l \in LeaseIds :
        /\ leases[l].execs = Cardinality(Users(l))
        /\ leases[l].at \in {"condemned", "reaped"} => Users(l) = {}

\* The VMs of the pool itself.
Pooled == ToSet(idle) \cup maint.slots \cup maint.doomed

PoolFits ==
    /\ IsInjective(idle)
    /\ ToSet(idle) \cap maint.slots = {}
    /\ ToSet(idle) \cap maint.doomed = {}
    /\ maint.slots # {} => maint.pc = "replenish"
    /\ maint.doomed # {} => maint.pc = "evict"
    /\ Pooled \subseteq live
    /\ lost \subseteq live \ Pooled

\* The VMs that left it: each with one task or one lease.
HoldersFit ==
    /\ \A t \in Tasks : task[t].vm # NoVm => task[t].vm \in live \ (Pooled \cup lost)
    /\ \A l \in LeaseIds : leases[l].vm # NoVm => leases[l].vm \in live \ (Pooled \cup lost)
    /\ \A t, u \in Tasks : task[t].vm # NoVm /\ task[t].vm = task[u].vm => t = u
    /\ \A l, m \in LeaseIds : leases[l].vm # NoVm /\ leases[l].vm = leases[m].vm => l = m
    /\ \A t \in Tasks, l \in LeaseIds : task[t].vm # NoVm => task[t].vm # leases[l].vm

\* Every VM that was not lost is somebody's.
Covered ==
    \A v \in live : \/ v \in Pooled \cup lost
                    \/ \E t \in Tasks : task[t].vm = v
                    \/ \E l \in LeaseIds : leases[l].vm = v

PermitsFit == PermitsInUse <= MaxSize

\* The pool is empty before it exists and after it is drained.
DrainFits ==
    /\ pool = "absent" => idle = <<>> /\ maint.pc = "none"
    /\ daemon = "idle" => shutdown /\ pool = "open"
    /\ shutdown => pool = "open" /\ daemon \in {"idle", "drained", "exited"}
    /\ DrainedPoolStaysEmpty

Fits == TasksFit /\ LeasesFit /\ DestroyersFit
Owned == PoolFits /\ HoldersFit /\ Covered
IndInv == TypeOK /\ Fits /\ CountsFit /\ Owned /\ PermitsFit /\ DrainFits

-----------------------------------------------------------------------------
(* The list of idle VMs                                                    *)

\* A list of VMs as a set.
LEMMA ToSetFacts ==
    ASSUME NEW s \in Seq(VMs)
    PROVE  /\ DOMAIN s = 1..Len(s)
           /\ Len(s) \in Nat
           /\ \A i \in 1..Len(s) : s[i] \in VMs
           /\ \A v : v \in ToSet(s) <=> \E i \in 1..Len(s) : s[i] = v
BY LenProperties, ElementOfSeq DEF ToSet

\* A stretch of a list.
LEMMA StretchFacts ==
    ASSUME NEW s \in Seq(VMs), NEW a \in Nat \ {0}, NEW b \in 0..Len(s)
    PROVE  /\ SubSeq(s, a, b) \in Seq(VMs)
           /\ IsInjective(s) => IsInjective(SubSeq(s, a, b))
           /\ \A v : v \in ToSet(SubSeq(s, a, b)) <=> \E i \in a..b : s[i] = v
<1> DEFINE r == SubSeq(s, a, b)
<1>1. Len(s) \in Nat /\ DOMAIN s = 1..Len(s) /\ (\A i \in a..b : s[i] \in VMs)
  BY ToSetFacts
<1>2. /\ r \in Seq(VMs)
      /\ Len(r) = IF a <= b THEN b - a + 1 ELSE 0
      /\ \A i \in 1..(b - a + 1) : r[i] = s[a + i - 1]
  BY <1>1, SubSeqProperties
<1> HIDE DEF r
<1>3. DOMAIN r = 1..Len(r)
  BY <1>2, ToSetFacts
<1>4. ASSUME IsInjective(s) PROVE IsInjective(r)
  <2> SUFFICES ASSUME NEW i \in 1..Len(r), NEW j \in 1..Len(r), r[i] = r[j] PROVE i = j
    BY <1>3 DEF IsInjective
  <2>1. a + i - 1 \in DOMAIN s /\ a + j - 1 \in DOMAIN s /\ s[a + i - 1] = s[a + j - 1]
    BY <1>1, <1>2
  <2> QED BY <2>1, <1>4 DEF IsInjective
<1>5. ASSUME NEW v PROVE v \in ToSet(r) <=> \E i \in a..b : s[i] = v
  <2>1. ASSUME NEW i \in 1..Len(r), r[i] = v PROVE \E j \in a..b : s[j] = v
    <3>1. a + i - 1 \in a..b /\ s[a + i - 1] = v
      BY <1>1, <1>2, <2>1
    <3> QED BY <3>1
  <2>2. ASSUME NEW j \in a..b, s[j] = v PROVE \E i \in 1..Len(r) : r[i] = v
    <3> DEFINE i == j - a + 1
    <3>1. a <= b /\ i \in 1..(b - a + 1) /\ a + i - 1 = j
      BY <1>1
    <3> HIDE DEF i
    <3>2. i \in 1..Len(r) /\ r[i] = s[a + i - 1]
      BY <1>2, <3>1
    <3> QED BY <3>1, <3>2, <2>2
  <2> QED BY <2>1, <2>2, <1>2, ToSetFacts
<1> QED BY <1>2, <1>4, <1>5 DEF r

\* The youngest VM leaves the list.
LEMMA PopFacts ==
    ASSUME NEW s \in Seq(VMs), s # <<>>, IsInjective(s)
    PROVE  /\ Front(s) \in Seq(VMs)
           /\ IsInjective(Front(s))
           /\ Last(s) \in ToSet(s)
           /\ ToSet(Front(s)) = ToSet(s) \ {Last(s)}
<1>1. Len(s) \in Nat \ {0} /\ DOMAIN s = 1..Len(s)
  BY EmptySeq, ToSetFacts
<1>2. 1 \in Nat \ {0} /\ Len(s) - 1 \in 0..Len(s)
  BY <1>1
<1>3. /\ Front(s) \in Seq(VMs)
      /\ IsInjective(Front(s))
      /\ \A v : v \in ToSet(Front(s)) <=> \E i \in 1..(Len(s) - 1) : s[i] = v
  BY <1>2, StretchFacts DEF Front
<1>4. Last(s) \in ToSet(s)
  BY <1>1, ToSetFacts DEF Last
<1>5. ASSUME NEW v PROVE v \in ToSet(Front(s)) <=> v \in ToSet(s) /\ v # Last(s)
  <2>1. v \in ToSet(s) <=> \E i \in 1..Len(s) : s[i] = v
    BY ToSetFacts
  <2>2. \A i \in 1..(Len(s) - 1) : i \in 1..Len(s) /\ s[i] # Last(s)
    BY <1>1 DEF Last, IsInjective
  <2>3. \A i \in 1..Len(s) : i \in 1..(Len(s) - 1) \/ s[i] = Last(s)
    BY <1>1 DEF Last
  <2> QED BY <2>1, <2>2, <2>3, <1>3
<1> QED BY <1>3, <1>4, <1>5

\* The oldest VMs leave the list.
LEMMA SplitFacts ==
    ASSUME NEW s \in Seq(VMs), IsInjective(s), NEW n \in 0..Len(s)
    PROVE  /\ SubSeq(s, n + 1, Len(s)) \in Seq(VMs)
           /\ IsInjective(SubSeq(s, n + 1, Len(s)))
           /\ ToSet(SubSeq(s, 1, n)) \subseteq ToSet(s)
           /\ ToSet(SubSeq(s, n + 1, Len(s))) = ToSet(s) \ ToSet(SubSeq(s, 1, n))
<1>1. Len(s) \in Nat /\ DOMAIN s = 1..Len(s)
  BY ToSetFacts
<1>2. n + 1 \in Nat \ {0} /\ 1 \in Nat \ {0} /\ Len(s) \in 0..Len(s)
  BY <1>1
<1>3. /\ SubSeq(s, n + 1, Len(s)) \in Seq(VMs)
      /\ IsInjective(SubSeq(s, n + 1, Len(s)))
      /\ \A v : v \in ToSet(SubSeq(s, n + 1, Len(s))) <=> \E i \in (n + 1)..Len(s) : s[i] = v
  BY <1>2, StretchFacts
<1>4. \A v : v \in ToSet(SubSeq(s, 1, n)) <=> \E i \in 1..n : s[i] = v
  BY <1>2, StretchFacts
<1>5. ASSUME NEW v
      PROVE  /\ v \in ToSet(SubSeq(s, 1, n)) => v \in ToSet(s)
             /\ v \in ToSet(SubSeq(s, n + 1, Len(s)))
                  <=> v \in ToSet(s) /\ v \notin ToSet(SubSeq(s, 1, n))
  <2>1. v \in ToSet(s) <=> \E i \in 1..Len(s) : s[i] = v
    BY ToSetFacts
  <2>2. \A i \in 1..n : i \in 1..Len(s)
    BY <1>1
  <2>3. \A i \in (n + 1)..Len(s) : i \in 1..Len(s) /\ \A j \in 1..n : s[i] # s[j]
    BY <1>1 DEF IsInjective
  <2>4. \A i \in 1..Len(s) : i \in 1..n \/ i \in (n + 1)..Len(s)
    BY <1>1
  <2> QED BY <2>1, <2>2, <2>3, <2>4, <1>3, <1>4
<1> QED BY <1>3, <1>5

\* A VM joins the list.
LEMMA AppendFacts ==
    ASSUME NEW s \in Seq(VMs), IsInjective(s), NEW v \in VMs, v \notin ToSet(s)
    PROVE  /\ Append(s, v) \in Seq(VMs)
           /\ IsInjective(Append(s, v))
           /\ ToSet(Append(s, v)) = ToSet(s) \cup {v}
<1> DEFINE r == Append(s, v)
<1>1. /\ r \in Seq(VMs)
      /\ Len(r) = Len(s) + 1
      /\ \A i \in 1..Len(s) : r[i] = s[i]
      /\ r[Len(s) + 1] = v
  BY AppendProperties
<1> HIDE DEF r
<1>2. /\ Len(s) \in Nat
      /\ DOMAIN s = 1..Len(s)
      /\ DOMAIN r = 1..Len(r)
      /\ \A w : w \in ToSet(r) <=> \E i \in 1..Len(r) : r[i] = w
      /\ \A w : w \in ToSet(s) <=> \E i \in 1..Len(s) : s[i] = w
  BY <1>1, ToSetFacts
<1>3. \A i \in 1..Len(r) : i \in 1..Len(s) \/ i = Len(s) + 1
  BY <1>1, <1>2
<1>4. \A i \in 1..Len(s) : i \in 1..Len(r) /\ r[i] # v
  BY <1>1, <1>2
<1>5. IsInjective(r)
  BY <1>1, <1>2, <1>3, <1>4 DEF IsInjective
<1>6. Len(s) + 1 \in 1..Len(r)
  BY <1>1, <1>2
<1>7. ASSUME NEW w PROVE w \in ToSet(r) <=> w \in ToSet(s) \/ w = v
  BY <1>1, <1>2, <1>3, <1>4, <1>6
<1> QED BY <1>1, <1>5, <1>7 DEF r

\* A list made of a set of new VMs.
LEMMA ListFacts ==
    ASSUME NEW vms \in SUBSET VMs, NEW s \in SetToSeqs(vms)
    PROVE  /\ s \in Seq(VMs)
           /\ IsInjective(s)
           /\ ToSet(s) = vms
<1> DEFINE n == Cardinality(vms)
<1>1. IsFiniteSet(vms) /\ n \in Nat
  BY VmsAssumption, FS_Subset, FS_CardinalityType
<1>2. s \in [1..n -> vms] /\ (\A i, j \in 1..n : i # j => s[i] # s[j])
  BY DEF SetToSeqs
<1> HIDE DEF n
<1>3. s \in Seq(VMs)
  <2>1. s \in [1..n -> VMs]
    BY <1>2
  <2> QED BY <2>1, <1>1, SeqDef
<1>4. s \in Injection(1..n, vms)
  BY <1>2 DEF Injection, IsInjective
<1>5. Cardinality(1..n) = n
  BY <1>1, FS_Interval
<1>6. s \in Surjection(1..n, vms)
  BY <1>1, <1>4, <1>5, FS_Injection DEF n
<1>7. ToSet(s) = vms
  BY <1>2, <1>6 DEF ToSet, Surjection
<1> QED BY <1>3, <1>4, <1>7 DEF Injection

-----------------------------------------------------------------------------
(* What a step must respect to preserve each part                          *)

\* Every task but t is as it was.
OthersWait(t) == \A u \in Tasks \ {t} : task'[u] = task[u]
SameLeaseVms == \A l \in LeaseIds : leases'[l].vm = leases[l].vm
SameTaskVms == \A t \in Tasks : task'[t].vm = task[t].vm

\* The VMs in use.
Out == live \ (Pooled \cup lost)

\* A task's new record.
LEMMA TaskUpdate ==
    ASSUME TypeOK, NEW t \in Tasks, NEW m \in Task, task' = [task EXCEPT ![t] = m]
    PROVE  task' \in [Tasks -> Task] /\ task'[t] = m /\ OthersWait(t)
BY DEF TypeOK, OthersWait

LEMMA StepFacts ==
    ASSUME TypeOK, NEW t \in Tasks, NEW pc \in TaskPcs, Step(t, pc)
    PROVE  /\ task' \in [Tasks -> Task]
           /\ task'[t].pc = pc
           /\ task'[t].kind = task[t].kind
           /\ task'[t].vm = task[t].vm
           /\ task'[t].lease = task[t].lease
           /\ OthersWait(t)
BY DEF TypeOK, Step, Task, OthersWait

LEMMA FinishFacts ==
    ASSUME TypeOK, NEW t \in Tasks, Finish(t)
    PROVE  /\ task' \in [Tasks -> Task]
           /\ task'[t].pc = "none"
           /\ task'[t].vm = NoVm
           /\ GoodTask(task'[t])
           /\ OthersWait(t)
<1>1. IdleTask \in Task
  BY DEF IdleTask, Task, TaskPcs, Kinds
<1>2. task' \in [Tasks -> Task] /\ task'[t] = IdleTask /\ OthersWait(t)
  BY <1>1, TaskUpdate DEF Finish
<1> QED BY <1>2 DEF IdleTask, GoodTask, VmPcs, LeasePcs, UsePcs

\* A lease's new record.
LEMMA LeaseUpdate ==
    ASSUME TypeOK, NEW l \in LeaseIds, NEW k \in Lease, leases' = [leases EXCEPT ![l] = k]
    PROVE  /\ leases' \in [LeaseIds -> Lease]
           /\ leases'[l] = k
           /\ \A m \in LeaseIds \ {l} : leases'[m] = leases[m]
BY DEF TypeOK

\* Tasks and leases stay well formed.
LEMMA FitsKept ==
    ASSUME Fits, NEW t \in Tasks, OthersWait(t),
           GoodTask(task'[t]), task'[t].pc # "destroy",
           \A l \in LeaseIds : GoodLease(leases'[l]),
           \A l \in LeaseIds : leases[l].at = "release" => leases'[l].at = "release"
    PROVE  Fits'
<1>1. TasksFit'
  BY DEF Fits, TasksFit, OthersWait
<1>2. LeasesFit'
  BY DEF LeasesFit
<1>3. \A u \in Tasks : task'[u].pc = "destroy" => task'[u] = task[u] /\ task[u].lease \in LeaseIds
  BY DEF OthersWait, Fits, TasksFit, GoodTask, LeasePcs
<1>4. DestroyersFit'
  BY <1>3 DEF Fits, DestroyersFit
<1> QED BY <1>1, <1>2, <1>4 DEF Fits

LEMMA FitsKeptByLeases ==
    ASSUME Fits, task' = task,
           \A l \in LeaseIds : GoodLease(leases'[l]),
           \A l \in LeaseIds : leases[l].at = "release" => leases'[l].at = "release"
    PROVE  Fits'
<1>1. TasksFit' /\ LeasesFit'
  BY DEF Fits, TasksFit, LeasesFit
<1>2. \A u \in Tasks : task[u].pc = "destroy" => task[u].lease \in LeaseIds
  BY DEF Fits, TasksFit, GoodTask, LeasePcs
<1>3. DestroyersFit'
  BY <1>2 DEF Fits, DestroyersFit
<1> QED BY <1>1, <1>3 DEF Fits

\* The count of commands stays right.
LEMMA CountsKept ==
    ASSUME CountsFit,
           \A u \in Tasks : task'[u].pc \in UsePcs <=> task[u].pc \in UsePcs,
           \A u \in Tasks : task[u].pc \in UsePcs => task'[u].lease = task[u].lease,
           \A l \in LeaseIds : leases'[l].execs = leases[l].execs,
           \A l \in LeaseIds : leases'[l].at \in {"condemned", "reaped"}
                                 => leases[l].at \in {"condemned", "reaped"}
    PROVE  CountsFit'
<1>1. \A l \in LeaseIds : Users(l)' = Users(l)
  BY DEF Users
<1> QED BY <1>1 DEF CountsFit

\* The number of permits in use does not grow.
LEMMA PermitFacts ==
    /\ IsFiniteSet(PermitHolders) /\ Cardinality(PermitHolders) \in Nat
    /\ IsFiniteSet(LeasesWithPermit) /\ Cardinality(LeasesWithPermit) \in Nat
    /\ MaxSize \in Nat
<1>1. PermitHolders \in SUBSET Tasks /\ LeasesWithPermit \in SUBSET LeaseIds
  BY DEF PermitHolders, LeasesWithPermit
<1>2. IsFiniteSet(PermitHolders) /\ IsFiniteSet(LeasesWithPermit)
  BY <1>1, FiniteAssumption, FS_Subset
<1> QED BY <1>2, FS_CardinalityType, SizeAssumption

LEMMA PermitsKept ==
    ASSUME PermitsFit, PermitHolders' \subseteq PermitHolders,
           LeasesWithPermit' \subseteq LeasesWithPermit
    PROVE  PermitsFit'
<1> DEFINE p == PermitHolders
           q == PermitHolders'
           m == LeasesWithPermit
           n == LeasesWithPermit'
<1>1. /\ IsFiniteSet(p) /\ Cardinality(p) \in Nat
      /\ IsFiniteSet(m) /\ Cardinality(m) \in Nat
      /\ MaxSize \in Nat
  BY PermitFacts
<1>2. q \in SUBSET p /\ n \in SUBSET m
  OBVIOUS
<1>3. Cardinality(p) + Cardinality(m) <= MaxSize
  BY DEF PermitsFit, PermitsInUse
<1>4. PermitsFit' <=> Cardinality(q) + Cardinality(n) <= MaxSize
  BY DEF PermitsFit, PermitsInUse
<1> HIDE DEF p, q, m, n
<1>5. Cardinality(q) <= Cardinality(p) /\ IsFiniteSet(q)
  BY <1>1, <1>2, FS_Subset
<1>6. Cardinality(n) <= Cardinality(m) /\ IsFiniteSet(n)
  BY <1>1, <1>2, FS_Subset
<1>7. Cardinality(q) \in Nat /\ Cardinality(n) \in Nat
  BY <1>5, <1>6, FS_CardinalityType
<1>8. Cardinality(q) + Cardinality(n) <= MaxSize
  BY <1>1, <1>3, <1>5, <1>6, <1>7
<1> QED BY <1>4, <1>8

\* A drained pool stays drained while the daemon is where it was.
LEMMA DrainKept ==
    ASSUME DrainFits, UNCHANGED <<daemon, shutdown>>, pool' = "open" \/ UNCHANGED <<pool, idle, maint>>,
           shutdown /\ daemon \in {"drained", "exited"} /\ idle = <<>> => idle' = <<>>
    PROVE  DrainFits'
BY DEF DrainFits, DrainedPoolStaysEmpty

-----------------------------------------------------------------------------
(* What happens to the VMs in use                                          *)

Held == HoldersFit /\ Covered

\* HoldersFit and Covered in terms of Out.
LEMMA HeldFacts ==
    Held <=>
      /\ \A t \in Tasks : task[t].vm # NoVm => task[t].vm \in Out
      /\ \A l \in LeaseIds : leases[l].vm # NoVm => leases[l].vm \in Out
      /\ \A t, u \in Tasks : task[t].vm # NoVm /\ task[t].vm = task[u].vm => t = u
      /\ \A l, m \in LeaseIds : leases[l].vm # NoVm /\ leases[l].vm = leases[m].vm => l = m
      /\ \A t \in Tasks, l \in LeaseIds : task[t].vm # NoVm => task[t].vm # leases[l].vm
      /\ \A v \in Out : \/ \E t \in Tasks : task[t].vm = v
                        \/ \E l \in LeaseIds : leases[l].vm = v
BY DEF Held, HoldersFit, Covered, Out

\* The same after a step.
LEMMA HeldFactsNext ==
    Held' <=>
      /\ \A t \in Tasks : task'[t].vm # NoVm => task'[t].vm \in Out'
      /\ \A l \in LeaseIds : leases'[l].vm # NoVm => leases'[l].vm \in Out'
      /\ \A t, u \in Tasks : task'[t].vm # NoVm /\ task'[t].vm = task'[u].vm => t = u
      /\ \A l, m \in LeaseIds : leases'[l].vm # NoVm /\ leases'[l].vm = leases'[m].vm => l = m
      /\ \A t \in Tasks, l \in LeaseIds : task'[t].vm # NoVm => task'[t].vm # leases'[l].vm
      /\ \A v \in Out' : \/ \E t \in Tasks : task'[t].vm = v
                         \/ \E l \in LeaseIds : leases'[l].vm = v
BY DEF Held, HoldersFit, Covered, Out

\* Nobody's VM changes.
LEMMA HeldKept ==
    ASSUME Held, SameTaskVms, SameLeaseVms, Out' = Out
    PROVE  Held'
BY HeldFacts, HeldFactsNext DEF SameTaskVms, SameLeaseVms

\* A task gives its VM up: it is destroyed, or lost.
LEMMA HeldTaskDrops ==
    ASSUME Held, NEW t \in Tasks, task'[t].vm = NoVm, OthersWait(t), SameLeaseVms,
           Out' = Out \ {task[t].vm}
    PROVE  Held'
<1>1. \A u \in Tasks : task'[u].vm = IF u = t THEN NoVm ELSE task[u].vm
  BY DEF OthersWait
<1> QED BY <1>1, HeldFacts, HeldFactsNext DEF SameLeaseVms

\* The VM of a lease is destroyed.
LEMMA HeldLeaseDrops ==
    ASSUME Held, NEW l \in LeaseIds, leases'[l].vm = NoVm, SameTaskVms,
           \A m \in LeaseIds \ {l} : leases'[m] = leases[m],
           Out' = Out \ {leases[l].vm}
    PROVE  Held'
<1>1. \A m \in LeaseIds : leases'[m].vm = IF m = l THEN NoVm ELSE leases[m].vm
  OBVIOUS
<1> QED BY <1>1, HeldFacts, HeldFactsNext DEF SameTaskVms

\* A task gets a VM that nobody used.
LEMMA HeldTaskTakes ==
    ASSUME Held, live \subseteq VMs,
           NEW t \in Tasks, task[t].vm = NoVm, OthersWait(t), SameLeaseVms,
           NEW v \in VMs, v \notin Out, task'[t].vm = v, Out' = Out \cup {v}
    PROVE  Held'
<1>1. \A u \in Tasks : task'[u].vm = IF u = t THEN v ELSE task[u].vm
  BY DEF OthersWait
<1>2. v # NoVm
  BY NoVmAssumption
<1>3. \A u \in Tasks : task[u].vm # v
  BY <1>2, HeldFacts
<1>4. \A l \in LeaseIds : leases[l].vm # v
  BY <1>2, HeldFacts
<1>5. \A w \in Out' : w \in Out \/ w = v
  OBVIOUS
<1>6. Out \subseteq Out' /\ v \in Out'
  OBVIOUS
<1>7. /\ \A u \in Tasks : task'[u].vm # NoVm => task'[u].vm \in Out'
      /\ \A l \in LeaseIds : leases'[l].vm # NoVm => leases'[l].vm \in Out'
  BY <1>1, <1>6, HeldFacts DEF SameLeaseVms
<1>8. /\ \A u, w \in Tasks : task'[u].vm # NoVm /\ task'[u].vm = task'[w].vm => u = w
      /\ \A l, m \in LeaseIds : leases'[l].vm # NoVm /\ leases'[l].vm = leases'[m].vm => l = m
      /\ \A u \in Tasks, l \in LeaseIds : task'[u].vm # NoVm => task'[u].vm # leases'[l].vm
  BY <1>1, <1>3, <1>4, HeldFacts DEF SameLeaseVms
<1>9. ASSUME NEW w \in Out'
      PROVE  \/ \E u \in Tasks : task'[u].vm = w
             \/ \E l \in LeaseIds : leases'[l].vm = w
  <2>1. CASE w = v
    BY <2>1
  <2>2. CASE w \in Out
    <3>1. CASE \E u \in Tasks : task[u].vm = w
      <4>1. PICK u \in Tasks : task[u].vm = w
        BY <3>1
      <4>2. CASE u = t
        <5>1. w = NoVm
          BY <4>1, <4>2
        <5> QED BY <5>1, <2>2, NoVmAssumption DEF Out
      <4>3. CASE u # t
        BY <4>1, <4>3, <1>1
      <4> QED BY <4>2, <4>3
    <3>2. CASE \E l \in LeaseIds : leases[l].vm = w
      BY <3>2 DEF SameLeaseVms
    <3> QED BY <3>1, <3>2, <2>2, HeldFacts
  <2> QED BY <2>1, <2>2, <1>5
<1> QED BY <1>7, <1>8, <1>9, HeldFactsNext

\* A task's VM becomes a lease's.
LEMMA HeldTaskGives ==
    ASSUME Held, NEW t \in Tasks, NEW l \in LeaseIds, OthersWait(t),
           task[t].vm # NoVm, leases[l].vm = NoVm,
           task'[t].vm = NoVm, leases'[l].vm = task[t].vm,
           \A m \in LeaseIds \ {l} : leases'[m] = leases[m],
           Out' = Out
    PROVE  Held'
<1>1. \A u \in Tasks : task'[u].vm = IF u = t THEN NoVm ELSE task[u].vm
  BY DEF OthersWait
<1>2. \A m \in LeaseIds : leases'[m].vm = IF m = l THEN task[t].vm ELSE leases[m].vm
  OBVIOUS
<1> QED BY <1>1, <1>2, HeldFacts, HeldFactsNext

\* The pool itself is as it was.
LEMMA SamePool ==
    ASSUME UNCHANGED <<live, lost, idle, maint>>
    PROVE  Pooled' = Pooled /\ Out' = Out /\ PoolFits' = PoolFits
BY DEF Pooled, Out, PoolFits

\* A VM in use is destroyed, which the pool does not notice.
LEMMA DestroyOutside ==
    ASSUME PoolFits, NEW v, v \in Out, Destroy({v}), UNCHANGED <<idle, maint>>
    PROVE  Pooled' = Pooled /\ Out' = Out \ {v} /\ PoolFits'
BY DEF Pooled, Out, PoolFits, Destroy

\* A VM in use is lost, which the pool does not notice either.
LEMMA AbandonOutside ==
    ASSUME PoolFits, NEW v, v \in Out, Abandon({v}), UNCHANGED <<idle, maint>>
    PROVE  Pooled' = Pooled /\ Out' = Out \ {v} /\ PoolFits'
BY DEF Pooled, Out, PoolFits, Abandon

-----------------------------------------------------------------------------
(* Connections                                                             *)

LEMMA LeasesAreGood ==
    ASSUME Fits, leases' = leases
    PROVE  /\ \A l \in LeaseIds : GoodLease(leases'[l])
           /\ \A l \in LeaseIds : leases[l].at = "release" => leases'[l].at = "release"
BY DEF Fits, LeasesFit

\* No task but t can have got a permit, and no lease.
LEMMA PermitsKeptByTask ==
    ASSUME PermitsFit, NEW t \in Tasks, OthersWait(t), t \in PermitHolders' => t \in PermitHolders,
           LeasesWithPermit' \subseteq LeasesWithPermit
    PROVE  PermitsFit'
<1>1. PermitHolders' \subseteq PermitHolders
  BY DEF PermitHolders, OthersWait
<1> QED BY <1>1, PermitsKept

\* A task goes on, and nothing else happens.
LEMMA QuietStep ==
    ASSUME IndInv, NEW t \in Tasks, task' \in [Tasks -> Task], OthersWait(t),
           UNCHANGED <<poolVars, leases, reaper, daemon>>,
           GoodTask(task'[t]), task'[t].vm = task[t].vm, task'[t].pc # "destroy",
           task'[t].pc \in UsePcs <=> task[t].pc \in UsePcs,
           task[t].pc \in UsePcs => task'[t].lease = task[t].lease,
           PermitsFit'
    PROVE  IndInv'
<1> USE DEF IndInv
<1>1. TypeOK'
  BY DEF TypeOK, PoolTypeOK, poolVars
<1>2. Fits'
  BY LeasesAreGood, FitsKept
<1>3. CountsFit'
  BY CountsKept DEF OthersWait
<1>4. Owned'
  <2>1. Out' = Out /\ PoolFits' /\ SameLeaseVms /\ SameTaskVms /\ Held
    BY SamePool DEF poolVars, Owned, Held, SameLeaseVms, SameTaskVms, OthersWait
  <2>2. Held'
    BY <2>1, HeldKept
  <2> QED BY <2>1, <2>2 DEF Owned, Held
<1>5. DrainFits'
  BY DrainKept DEF poolVars
<1> QED BY <1>1, <1>2, <1>3, <1>4, <1>5

LEMMA AcceptInv ==
    ASSUME IndInv, NEW t \in Tasks, NEW kind \in Kinds, NEW l \in LeaseIds \cup {NoLease},
           Accept(t, kind, l)
    PROVE  IndInv'
<1> DEFINE pc == CASE kind = "exec" -> "lookup" [] kind = "release" -> "remove" [] OTHER -> "pool"
           m == [IdleTask EXCEPT !.kind = kind, !.lease = l, !.pc = pc]
<1>1. /\ m \in Task
      /\ m.pc = pc /\ m.kind = kind /\ m.vm = NoVm /\ m.lease = l
      /\ pc \in {"lookup", "remove", "pool"}
      /\ pc \in {"lookup", "remove"} => l \in LeaseIds
      /\ pc = "pool" => kind \in {"run", "lease"}
  BY DEF Accept, Task, TaskPcs, Kinds, IdleTask
<1>2. task' = [task EXCEPT ![t] = m]
  BY DEF Accept
<1> HIDE DEF m, pc
<1>3. task' \in [Tasks -> Task] /\ task'[t] = m /\ OthersWait(t)
  BY <1>1, <1>2, TaskUpdate DEF IndInv
<1>4. task[t].pc = "none" /\ UNCHANGED <<poolVars, leases, reaper, daemon>>
  BY DEF Accept
<1>5. task[t].vm = NoVm
  BY <1>4 DEF IndInv, Fits, TasksFit, GoodTask, VmPcs
<1>6. GoodTask(m)
  BY <1>1 DEF GoodTask, VmPcs, LeasePcs, UsePcs
<1>7. PermitsFit'
  <2>1. t \notin PermitHolders'
    BY <1>1, <1>3 DEF PermitHolders
  <2>2. LeasesWithPermit' = LeasesWithPermit
    BY <1>4 DEF LeasesWithPermit
  <2> QED BY <2>1, <2>2, <1>3, PermitsKeptByTask DEF IndInv
<1>8. /\ m.pc # "destroy"
      /\ m.pc \notin UsePcs
      /\ task[t].pc \notin UsePcs
  BY <1>1, <1>4 DEF UsePcs
<1> QED BY <1>1, <1>3, <1>4, <1>5, <1>6, <1>7, <1>8, QuietStep

\* A task moves on with the VM it has, or none.
LEMMA StepInv ==
    ASSUME IndInv, NEW t \in Tasks, NEW pc \in TaskPcs, Step(t, pc),
           UNCHANGED <<poolVars, leases, reaper, daemon>>,
           pc # "destroy",
           pc \in VmPcs <=> task[t].pc \in VmPcs,
           pc \in UsePcs <=> task[t].pc \in UsePcs,
           pc \in LeasePcs => task[t].pc \in LeasePcs,
           pc \in {"pool", "permit", "acquire"} \cup VmPcs
             => task[t].pc \in {"pool", "permit", "acquire"} \cup VmPcs,
           PermitsFit'
    PROVE  IndInv'
<1>1. /\ task' \in [Tasks -> Task]
      /\ task'[t].pc = pc
      /\ task'[t].kind = task[t].kind
      /\ task'[t].vm = task[t].vm
      /\ task'[t].lease = task[t].lease
      /\ OthersWait(t)
  BY StepFacts DEF IndInv
<1>2. GoodTask(task[t])
  BY DEF IndInv, Fits, TasksFit
<1>3. GoodTask(task'[t])
  BY <1>1, <1>2 DEF GoodTask
<1> QED BY <1>1, <1>3, QuietStep

\* A task that moves on without gaining a permit.
LEMMA StepPermits ==
    ASSUME IndInv, NEW t \in Tasks, NEW pc \in TaskPcs, Step(t, pc), leases' = leases,
           pc \in {"acquire"} \cup VmPcs => task[t].pc \in {"acquire"} \cup VmPcs
    PROVE  PermitsFit'
<1>1. task'[t].pc = pc /\ task'[t].kind = task[t].kind /\ OthersWait(t)
  BY StepFacts DEF IndInv
<1>2. t \in PermitHolders' => t \in PermitHolders
  BY <1>1 DEF PermitHolders, VmPcs
<1>3. LeasesWithPermit' = LeasesWithPermit
  BY DEF LeasesWithPermit
<1> QED BY <1>1, <1>2, <1>3, PermitsKeptByTask DEF IndInv

LEMMA AcquirePermitInv ==
    ASSUME IndInv, NEW t \in Tasks, AcquirePermit(t)
    PROVE  IndInv'
<1>1. Step(t, "acquire") /\ task[t].pc = "permit" /\ PermitsInUse < MaxSize
  BY DEF AcquirePermit
<1>2. UNCHANGED <<poolVars, leases, reaper, daemon>> /\ "acquire" \in TaskPcs
  BY DEF AcquirePermit, TaskPcs
<1>3. OthersWait(t)
  BY <1>1, <1>2, StepFacts DEF IndInv
<1>4. PermitsFit'
  <2> DEFINE p == PermitHolders
             q == PermitHolders'
             n == LeasesWithPermit
  <2>1. q \in SUBSET (p \cup {t})
    BY <1>3 DEF PermitHolders, OthersWait
  <2>2. PermitsFit' <=> Cardinality(q) + Cardinality(n) <= MaxSize
    <3>1. LeasesWithPermit' = LeasesWithPermit
      BY <1>2 DEF LeasesWithPermit
    <3> QED BY <3>1 DEF PermitsFit, PermitsInUse
  <2>3. /\ Cardinality(p) + Cardinality(n) < MaxSize
        /\ IsFiniteSet(p) /\ Cardinality(p) \in Nat /\ Cardinality(n) \in Nat /\ MaxSize \in Nat
    BY <1>1, PermitFacts DEF PermitsInUse
  <2> HIDE DEF p, q, n
  <2>4. /\ IsFiniteSet(p \cup {t})
        /\ Cardinality(p \cup {t}) <= Cardinality(p) + 1
        /\ Cardinality(p \cup {t}) \in Nat
    BY <2>3, FS_AddElement
  <2>5. IsFiniteSet(q) /\ Cardinality(q) <= Cardinality(p \cup {t})
    BY <2>1, <2>4, FS_Subset
  <2>6. Cardinality(q) \in Nat
    BY <2>5, FS_CardinalityType
  <2>7. Cardinality(q) + Cardinality(n) <= MaxSize
    BY <2>3, <2>4, <2>5, <2>6
  <2> QED BY <2>2, <2>7
<1> QED BY <1>1, <1>2, <1>4, StepInv DEF VmPcs, UsePcs, LeasePcs

LEMMA RunCommandInv ==
    ASSUME IndInv, NEW t \in Tasks, RunCommand(t)
    PROVE  IndInv'
<1>1. Step(t, "respond") /\ task[t].pc = "exec" /\ UNCHANGED <<poolVars, leases, reaper, daemon>>
  BY DEF RunCommand
<1>2. "respond" \in TaskPcs
  BY DEF TaskPcs
<1>3. PermitsFit'
  BY <1>1, <1>2, StepPermits DEF VmPcs
<1> QED BY <1>1, <1>2, <1>3, StepInv DEF VmPcs, UsePcs, LeasePcs

LEMMA LockVmInv ==
    ASSUME IndInv, NEW t \in Tasks, LockVm(t)
    PROVE  IndInv'
<1>1. Step(t, "running") /\ task[t].pc = "vmlock" /\ UNCHANGED <<poolVars, leases, reaper, daemon>>
  BY DEF LockVm
<1>2. "running" \in TaskPcs
  BY DEF TaskPcs
<1>3. PermitsFit'
  BY <1>1, <1>2, StepPermits DEF VmPcs
<1> QED BY <1>1, <1>2, <1>3, StepInv DEF VmPcs, UsePcs, LeasePcs

\* A task that has no VM and does not run on one ends.
LEMMA QuietFinishInv ==
    ASSUME IndInv, NEW t \in Tasks, Finish(t), UNCHANGED <<poolVars, leases, reaper, daemon>>,
           task[t].pc \notin VmPcs \cup UsePcs
    PROVE  IndInv'
<1>1. /\ task' \in [Tasks -> Task]
      /\ task'[t].pc = "none" /\ task'[t].vm = NoVm
      /\ GoodTask(task'[t])
      /\ OthersWait(t)
  BY FinishFacts DEF IndInv
<1>2. task[t].vm = NoVm
  BY DEF IndInv, Fits, TasksFit, GoodTask
<1>3. PermitsFit'
  <2>1. t \notin PermitHolders'
    BY <1>1 DEF PermitHolders
  <2>2. LeasesWithPermit' = LeasesWithPermit
    BY DEF LeasesWithPermit
  <2> QED BY <2>1, <2>2, <1>1, PermitsKeptByTask DEF IndInv
<1>4. task'[t].pc \notin UsePcs
  BY <1>1 DEF UsePcs
<1> QED BY <1>1, <1>2, <1>3, <1>4, QuietStep

\* A task gives up the VM it has: destroyed, or lost.
LEMMA DropVmInv ==
    ASSUME IndInv, NEW t \in Tasks, task[t].pc \in VmPcs, Finish(t),
           UNCHANGED <<pool, idle, shutdown, minIdle, maint>>,
           UNCHANGED <<leases, reaper, daemon>>,
           Destroy({task[t].vm}) \/ Abandon({task[t].vm})
    PROVE  IndInv'
<1> USE DEF IndInv
<1>1. /\ task' \in [Tasks -> Task]
      /\ task'[t].pc = "none" /\ task'[t].vm = NoVm
      /\ GoodTask(task'[t])
      /\ OthersWait(t)
  BY FinishFacts
<1>2. TypeOK'
  <2>1. task[t].vm \in VMs
    BY DEF TypeOK, Task, Fits, TasksFit, GoodTask
  <2> QED BY <1>1, <2>1 DEF TypeOK, PoolTypeOK, Destroy, Abandon
<1>3. Fits'
  BY <1>1, LeasesAreGood, FitsKept
<1>4. task[t].pc \notin UsePcs /\ task'[t].pc \notin UsePcs
  BY <1>1 DEF UsePcs, VmPcs
<1>5. CountsFit'
  BY <1>1, <1>4, CountsKept DEF OthersWait
<1>6. Owned'
  <2>1. task[t].vm \in Out /\ PoolFits /\ Held /\ SameLeaseVms
    BY DEF Fits, TasksFit, GoodTask, Owned, HoldersFit, Held, SameLeaseVms, Out
  <2>2. PoolFits' /\ Out' = Out \ {task[t].vm}
    BY <2>1, DestroyOutside, AbandonOutside
  <2>3. Held'
    BY <1>1, <2>1, <2>2, HeldTaskDrops
  <2> QED BY <2>2, <2>3 DEF Owned, Held
<1>7. PermitsFit'
  <2>1. t \notin PermitHolders'
    BY <1>1 DEF PermitHolders
  <2>2. LeasesWithPermit' = LeasesWithPermit
    BY DEF LeasesWithPermit
  <2> QED BY <2>1, <2>2, <1>1, PermitsKeptByTask
<1>8. DrainFits'
  BY DrainKept
<1> QED BY <1>2, <1>3, <1>5, <1>6, <1>7, <1>8

LEMMA TeardownInv ==
    ASSUME IndInv, NEW t \in Tasks, Teardown(t)
    PROVE  IndInv'
BY DropVmInv DEF Teardown, VmPcs

LEMMA RespondInv ==
    ASSUME IndInv, NEW t \in Tasks, Respond(t)
    PROVE  IndInv'
<1>1. /\ task[t].pc = "respond"
      /\ UNCHANGED <<pool, idle, shutdown, minIdle, maint>>
      /\ UNCHANGED <<leases, reaper, daemon>>
  BY DEF Respond
<1>2. CASE Step(t, "teardown") /\ UNCHANGED <<live, lost>>
  <2>1. "teardown" \in TaskPcs
    BY DEF TaskPcs
  <2>2. PermitsFit'
    BY <1>1, <1>2, <2>1, StepPermits DEF VmPcs
  <2>3. UNCHANGED <<poolVars, leases, reaper, daemon>>
    BY <1>1, <1>2 DEF poolVars
  <2> QED BY <1>1, <1>2, <2>1, <2>2, <2>3, StepInv DEF VmPcs, UsePcs, LeasePcs
<1>3. CASE Finish(t) /\ Abandon({task[t].vm})
  BY <1>1, <1>3, DropVmInv DEF VmPcs
<1> QED BY <1>2, <1>3 DEF Respond

\* AfterAcquire is where a request that has its VM goes on.
LEMMA AfterAcquireFacts ==
    ASSUME NEW t \in Tasks
    PROVE  AfterAcquire(t) \in {"exec", "insert"}
BY DEF AfterAcquire

LEMMA BootDoneInv ==
    ASSUME IndInv, NEW t \in Tasks, BootDone(t)
    PROVE  IndInv'
<1>1. /\ task[t].pc = "booting"
      /\ UNCHANGED <<pool, idle, shutdown, minIdle, maint>>
      /\ UNCHANGED <<leases, reaper, daemon>>
  BY DEF BootDone
<1>2. CASE Step(t, AfterAcquire(t)) /\ UNCHANGED <<live, lost>>
  <2> DEFINE pc == AfterAcquire(t)
  <2>1. pc \in {"exec", "insert"} /\ Step(t, pc)
    BY <1>2, AfterAcquireFacts
  <2> HIDE DEF pc
  <2>2. pc \in TaskPcs
    BY <2>1 DEF TaskPcs
  <2>3. PermitsFit'
    BY <1>1, <2>1, <2>2, StepPermits DEF VmPcs
  <2>4. UNCHANGED <<poolVars, leases, reaper, daemon>>
    BY <1>1, <1>2 DEF poolVars
  <2> QED BY <1>1, <2>1, <2>2, <2>3, <2>4, StepInv DEF VmPcs, UsePcs, LeasePcs
<1>3. CASE Finish(t) /\ Destroy({task[t].vm})
  BY <1>1, <1>3, DropVmInv DEF VmPcs
<1>4. CASE Finish(t) /\ Abandon({task[t].vm})
  BY <1>1, <1>4, DropVmInv DEF VmPcs
<1>5. PICK outcome \in BootOutcomes :
        CASE outcome = "ready"   -> Step(t, AfterAcquire(t)) /\ UNCHANGED <<live, lost>>
          [] outcome = "failed"  -> Finish(t) /\ Destroy({task[t].vm})
          [] outcome = "unready" -> Finish(t) /\ Abandon({task[t].vm})
  BY DEF BootDone
<1>6. outcome \in {"ready", "failed", "unready"}
  BY DEF BootOutcomes
<1> QED BY <1>2, <1>3, <1>4, <1>5, <1>6

\* Starting the pool: the VMs it boots are its own, but for one it may lose.
LEMMA StartFacts ==
    ASSUME IndInv, Start
    PROVE  /\ PoolTypeOK'
           /\ PoolFits'
           /\ Out' = Out
           /\ daemon' = daemon => DrainFits'
<1>1. /\ PoolTypeOK /\ PoolFits /\ DrainFits
      /\ pool = "absent" /\ idle = <<>> /\ maint.pc = "none"
      /\ pool' = "open" /\ maint' = [maint EXCEPT !.pc = "sleep"]
      /\ UNCHANGED <<shutdown, minIdle>>
  BY DEF IndInv, TypeOK, Owned, DrainFits, Start
<1>2. maint' \in Maint /\ maint'.slots = maint.slots /\ maint'.doomed = maint.doomed
  BY <1>1 DEF PoolTypeOK, Maint, MaintPcs
<1>3. ToSet(idle) = {} /\ ~shutdown
  <2>1. idle \in Seq(VMs) /\ Len(idle) = 0
    BY <1>1, EmptySeq DEF PoolTypeOK
  <2>2. 1..Len(idle) = {}
    BY <2>1
  <2>3. ~shutdown
    BY <1>1 DEF DrainFits
  <2> QED BY <2>1, <2>2, <2>3, ToSetFacts
<1>4. daemon' = daemon => DrainFits'
  BY <1>1, <1>3, DrainKept
<1>5. ASSUME NEW vms \in Fresh(MinIdle, live), Spawn(vms), idle' \in SetToSeqs(vms)
      PROVE  PoolTypeOK' /\ PoolFits' /\ Out' = Out
  <2>1. vms \subseteq VMs /\ vms \cap live = {} /\ live' = live \cup vms /\ lost' = lost
    BY <1>5 DEF Fresh, kSubset, Spawn
  <2>2. idle' \in Seq(VMs) /\ IsInjective(idle') /\ ToSet(idle') = vms
    BY <2>1, <1>5, ListFacts
  <2>3. PoolTypeOK'
    BY <1>1, <1>2, <2>1, <2>2 DEF PoolTypeOK
  <2>4. PoolFits'
    BY <1>1, <1>2, <2>1, <2>2 DEF PoolFits, Pooled
  <2>5. Out' = Out
    BY <1>1, <1>2, <1>3, <2>1, <2>2 DEF Out, Pooled, PoolFits
  <2> QED BY <2>3, <2>4, <2>5
<1>6. ASSUME UNCHANGED <<live, lost, idle>>
      PROVE  PoolTypeOK' /\ PoolFits' /\ Out' = Out
  <2>1. PoolTypeOK'
    BY <1>1, <1>2, <1>6 DEF PoolTypeOK
  <2>2. PoolFits' /\ Out' = Out
    BY <1>1, <1>2, <1>6 DEF PoolFits, Pooled, Out
  <2> QED BY <2>1, <2>2
<1>7. ASSUME NEW vms \in Fresh(1, live), live' = live \cup vms, lost' = lost \cup vms,
             UNCHANGED <<idle>>
      PROVE  PoolTypeOK' /\ PoolFits' /\ Out' = Out
  <2>1. vms \subseteq VMs /\ vms \cap live = {}
    BY <1>7 DEF Fresh, kSubset
  <2>2. PoolTypeOK'
    BY <1>1, <1>2, <1>7, <2>1 DEF PoolTypeOK
  <2>3. PoolFits' /\ Out' = Out
    BY <1>1, <1>2, <1>7, <2>1 DEF PoolFits, Pooled, Out
  <2> QED BY <1>7, <2>2, <2>3
<1> QED BY <1>4, <1>5, <1>6, <1>7 DEF Start

LEMMA GetOrCreateInv ==
    ASSUME IndInv, NEW t \in Tasks, GetOrCreate(t)
    PROVE  IndInv'
<1>1. task[t].pc = "pool" /\ Step(t, "permit") /\ UNCHANGED <<leases, reaper, daemon>>
  BY DEF GetOrCreate
<1>2. "permit" \in TaskPcs
  BY DEF TaskPcs
<1>3. PermitsFit'
  BY <1>1, <1>2, StepPermits DEF VmPcs
<1>4. CASE pool = "open" /\ UNCHANGED poolVars
  BY <1>1, <1>2, <1>3, <1>4, StepInv DEF VmPcs, UsePcs, LeasePcs
<1>5. CASE Start
  <2> USE DEF IndInv
  <2>1. /\ task' \in [Tasks -> Task]
        /\ task'[t].pc = "permit"
        /\ task'[t].kind = task[t].kind
        /\ task'[t].vm = task[t].vm
        /\ OthersWait(t)
    BY <1>1, <1>2, StepFacts
  <2>2. /\ PoolTypeOK' /\ PoolFits' /\ DrainFits'
        /\ Out' = Out
    BY <1>1, <1>5, StartFacts
  <2>3. TypeOK'
    BY <1>1, <2>1, <2>2 DEF TypeOK
  <2>4. GoodTask(task'[t]) /\ task'[t].pc # "destroy"
    BY <1>1, <2>1 DEF GoodTask, Fits, TasksFit, VmPcs, LeasePcs, UsePcs
  <2>5. Fits'
    BY <1>1, <2>1, <2>4, LeasesAreGood, FitsKept
  <2>6. CountsFit'
    <3>1. task[t].pc \notin UsePcs /\ task'[t].pc \notin UsePcs
      BY <1>1, <2>1 DEF UsePcs
    <3> QED BY <1>1, <2>1, <3>1, CountsKept DEF OthersWait
  <2>7. Held'
    BY <1>1, <2>1, <2>2, HeldKept DEF SameLeaseVms, SameTaskVms, OthersWait, Owned, Held
  <2> QED BY <1>3, <2>2, <2>3, <2>5, <2>6, <2>7 DEF Owned, Held
<1> QED BY <1>4, <1>5 DEF GetOrCreate

\* A task that holds a permit gets a VM that was idle, or that it boots.
LEMMA TakeVmInv ==
    ASSUME IndInv, NEW t \in Tasks, task[t].pc = "acquire",
           NEW v \in VMs, NEW pc \in {"exec", "insert", "booting"},
           task' = [task EXCEPT ![t].pc = pc, ![t].vm = v],
           PoolTypeOK', PoolFits', v \notin Out, Out' = Out \cup {v}, DrainFits',
           UNCHANGED <<leases, reaper, daemon>>
    PROVE  IndInv'
<1> USE DEF IndInv
<1>1. /\ task' \in [Tasks -> Task]
      /\ task'[t].pc = pc
      /\ task'[t].kind = task[t].kind
      /\ task'[t].vm = v
      /\ OthersWait(t)
  BY DEF TypeOK, Task, TaskPcs, OthersWait
<1>2. TypeOK'
  BY <1>1 DEF TypeOK
<1>3. GoodTask(task[t]) /\ task[t].vm = NoVm /\ v # NoVm
  BY NoVmAssumption DEF Fits, TasksFit, GoodTask, VmPcs
<1>4. GoodTask(task'[t]) /\ task'[t].pc # "destroy"
  BY <1>1, <1>3 DEF GoodTask, VmPcs, LeasePcs, UsePcs
<1>5. Fits'
  BY <1>1, <1>4, LeasesAreGood, FitsKept
<1>6. CountsFit'
  <2>1. task[t].pc \notin UsePcs /\ task'[t].pc \notin UsePcs
    BY <1>1 DEF UsePcs
  <2> QED BY <1>1, <2>1, CountsKept DEF OthersWait
<1>7. Held'
  <2>1. live \subseteq VMs
    BY DEF TypeOK, PoolTypeOK
  <2> QED BY <2>1, <1>1, <1>3, HeldTaskTakes DEF SameLeaseVms, Owned, Held
<1>8. PermitsFit'
  <2>1. t \in PermitHolders' => t \in PermitHolders
    BY <1>1 DEF PermitHolders
  <2>2. LeasesWithPermit' = LeasesWithPermit
    BY DEF LeasesWithPermit
  <2> QED BY <2>1, <2>2, <1>1, PermitsKeptByTask
<1> QED BY <1>2, <1>5, <1>6, <1>7, <1>8 DEF Owned, Held

LEMMA AcquireInv ==
    ASSUME IndInv, NEW t \in Tasks, Acquire(t)
    PROVE  IndInv'
<1>1. task[t].pc = "acquire" /\ UNCHANGED <<leases, reaper, daemon>>
  BY DEF Acquire
<1>2. PoolTypeOK /\ PoolFits /\ DrainFits
  BY DEF IndInv, TypeOK, Owned
<1>3. ASSUME NEW v \in VMs, PopIdle(v),
             task' = [task EXCEPT ![t].pc = AfterAcquire(t), ![t].vm = v]
      PROVE  IndInv'
  <2>1. /\ idle # <<>> /\ v = Last(idle) /\ idle' = Front(idle)
        /\ UNCHANGED <<live, lost, pool, shutdown, minIdle, maint>>
    BY <1>3 DEF PopIdle
  <2>2. /\ idle' \in Seq(VMs) /\ IsInjective(idle')
        /\ v \in ToSet(idle) /\ ToSet(idle') = ToSet(idle) \ {v}
    BY <2>1, <1>2, PopFacts DEF PoolTypeOK, PoolFits
  <2>3. PoolTypeOK'
    BY <1>2, <2>1, <2>2 DEF PoolTypeOK
  <2>4. PoolFits' /\ v \notin Out /\ Out' = Out \cup {v}
    BY <1>2, <2>1, <2>2 DEF PoolFits, Pooled, Out
  <2>5. DrainFits'
    <3>1. pool = "open"
      BY <1>2, <2>1 DEF DrainFits, PoolTypeOK
    <3> QED BY <1>1, <1>2, <2>1, <3>1, DrainKept
  <2> DEFINE pc == AfterAcquire(t)
  <2>6. pc \in {"exec", "insert", "booting"} /\ task' = [task EXCEPT ![t].pc = pc, ![t].vm = v]
    BY <1>3, AfterAcquireFacts
  <2> HIDE DEF pc
  <2> QED BY <1>1, <2>3, <2>4, <2>5, <2>6, TakeVmInv
<1>4. ASSUME NEW v \in VMs, BootOnDemand(v),
             task' = [task EXCEPT ![t].pc = "booting", ![t].vm = v]
      PROVE  IndInv'
  <2>1. v \notin live /\ live' = live \cup {v} /\ UNCHANGED <<lost, pool, idle, shutdown, minIdle, maint>>
    BY <1>4 DEF BootOnDemand, Spawn
  <2>2. PoolTypeOK'
    BY <1>2, <2>1 DEF PoolTypeOK
  <2>3. PoolFits' /\ v \notin Out /\ Out' = Out \cup {v}
    BY <1>2, <2>1 DEF PoolFits, Pooled, Out
  <2>4. DrainFits'
    BY <1>1, <1>2, <2>1, DrainKept
  <2> QED BY <1>1, <1>4, <2>2, <2>3, <2>4, TakeVmInv
<1> QED BY <1>3, <1>4 DEF Acquire

-----------------------------------------------------------------------------
(* Leases                                                                  *)

\* Steps that change neither the pool nor whose VM is whose.
LEMMA SameVmsInv ==
    ASSUME IndInv, UNCHANGED poolVars, SameTaskVms, SameLeaseVms,
           task' \in [Tasks -> Task], leases' \in [LeaseIds -> Lease],
           reaper' \in Reaper, daemon' = daemon,
           Fits', CountsFit', PermitsFit'
    PROVE  IndInv'
<1> USE DEF IndInv
<1>1. TypeOK'
  BY DEF TypeOK, PoolTypeOK, poolVars
<1>2. Owned'
  <2>1. Out' = Out /\ PoolFits' /\ Held
    BY SamePool DEF poolVars, Owned, Held
  <2>2. Held'
    BY <2>1, HeldKept
  <2> QED BY <2>1, <2>2 DEF Owned, Held
<1>3. DrainFits'
  BY DrainKept DEF poolVars
<1> QED BY <1>1, <1>2, <1>3

LEMMA InsertLeaseInv ==
    ASSUME IndInv, NEW t \in Tasks, NEW l \in LeaseIds, InsertLease(t, l)
    PROVE  IndInv'
<1> USE DEF IndInv
<1>1. /\ task[t].pc = "insert" /\ leases[l].at = "none" /\ Finish(t)
      /\ leases' = [leases EXCEPT ![l].at = "map", ![l].vm = task[t].vm]
      /\ UNCHANGED <<poolVars, reaper, daemon>>
  BY DEF InsertLease
<1>2. /\ task' \in [Tasks -> Task]
      /\ task'[t].pc = "none" /\ task'[t].vm = NoVm
      /\ GoodTask(task'[t])
      /\ OthersWait(t)
  BY <1>1, FinishFacts
<1>3. /\ leases' \in [LeaseIds -> Lease]
      /\ leases'[l].at = "map" /\ leases'[l].vm = task[t].vm
      /\ leases'[l].execs = leases[l].execs
      /\ \A m \in LeaseIds \ {l} : leases'[m] = leases[m]
  BY <1>1 DEF TypeOK, Lease, Task
<1>4. /\ GoodTask(task[t]) /\ GoodLease(leases[l])
      /\ task[t].vm # NoVm /\ leases[l].vm = NoVm /\ task[t].kind \in {"run", "lease"}
  BY <1>1 DEF Fits, TasksFit, LeasesFit, GoodTask, GoodLease, VmPcs
<1>5. TypeOK'
  BY <1>1, <1>2, <1>3 DEF TypeOK, PoolTypeOK, poolVars
<1>6. Fits'
  <2>1. \A m \in LeaseIds : GoodLease(leases'[m])
    BY <1>3, <1>4 DEF Fits, LeasesFit, GoodLease, Dropped
  <2>2. \A m \in LeaseIds : leases[m].at = "release" => leases'[m].at = "release"
    BY <1>1, <1>3
  <2> QED BY <1>2, <2>1, <2>2, FitsKept
<1>7. CountsFit'
  <2>1. task[t].pc \notin UsePcs /\ task'[t].pc \notin UsePcs
    BY <1>1, <1>2 DEF UsePcs
  <2> QED BY <1>2, <1>3, <2>1, CountsKept DEF OthersWait
<1>8. Owned'
  <2>1. Out' = Out /\ PoolFits' /\ Held
    BY <1>1, SamePool DEF poolVars, Owned, Held
  <2>2. Held'
    BY <1>2, <1>3, <1>4, <2>1, HeldTaskGives
  <2> QED BY <2>1, <2>2 DEF Owned, Held
<1>9. PermitsFit'
  <2> DEFINE p == PermitHolders
             q == PermitHolders'
             m == LeasesWithPermit
             n == LeasesWithPermit'
  <2>1. q = p \ {t} /\ t \in p
    BY <1>1, <1>2, <1>4 DEF PermitHolders, OthersWait
  <2>2. n = m \cup {l} /\ l \notin m
    BY <1>1, <1>3 DEF LeasesWithPermit, Dropped
  <2>3. /\ Cardinality(p) + Cardinality(m) <= MaxSize
        /\ PermitsFit' <=> Cardinality(q) + Cardinality(n) <= MaxSize
    BY DEF PermitsFit, PermitsInUse
  <2>4. /\ IsFiniteSet(p) /\ Cardinality(p) \in Nat
        /\ IsFiniteSet(m) /\ Cardinality(m) \in Nat
        /\ MaxSize \in Nat
    BY PermitFacts
  <2> HIDE DEF p, q, m, n
  <2>5. Cardinality(q) = Cardinality(p) - 1
    BY <2>1, <2>4, FS_RemoveElement
  <2>6. Cardinality(n) = Cardinality(m) + 1
    BY <2>2, <2>4, FS_AddElement
  <2>7. Cardinality(q) + Cardinality(n) <= MaxSize
    BY <2>3, <2>4, <2>5, <2>6
  <2> QED BY <2>3, <2>7
<1>10. DrainFits'
  BY <1>1, DrainKept DEF poolVars
<1> QED BY <1>5, <1>6, <1>7, <1>8, <1>9, <1>10

\* The commands on a lease are finitely many.
LEMMA UsersFacts ==
    ASSUME NEW l
    PROVE  IsFiniteSet(Users(l)) /\ Cardinality(Users(l)) \in Nat
<1>1. Users(l) \in SUBSET Tasks
  BY DEF Users
<1> QED BY <1>1, FiniteAssumption, FS_Subset, FS_CardinalityType

LEMMA LookupLeaseInv ==
    ASSUME IndInv, NEW t \in Tasks, LookupLease(t)
    PROVE  IndInv'
<1>1. task[t].pc = "lookup" /\ UNCHANGED <<poolVars, reaper, daemon>>
  BY DEF LookupLease
<1>2. GoodTask(task[t]) /\ task[t].lease \in LeaseIds
  BY <1>1 DEF IndInv, Fits, TasksFit, GoodTask, LeasePcs
<1> PICK l \in LeaseIds : l = task[t].lease
  BY <1>2
<1>3. CASE leases[l].at # "map"
  <2>1. Finish(t) /\ UNCHANGED leases
    BY <1>3 DEF LookupLease
  <2> QED BY <1>1, <2>1, QuietFinishInv DEF VmPcs, UsePcs
<1>4. CASE leases[l].at = "map"
  <2> USE DEF IndInv
  <2>1. leases' = [leases EXCEPT ![l].execs = @ + 1] /\ Step(t, "vmlock")
    BY <1>4 DEF LookupLease
  <2>2. /\ task' \in [Tasks -> Task]
        /\ task'[t].pc = "vmlock"
        /\ task'[t].kind = task[t].kind
        /\ task'[t].vm = task[t].vm
        /\ task'[t].lease = l
        /\ OthersWait(t)
    <3>1. "vmlock" \in TaskPcs
      BY DEF TaskPcs
    <3> QED BY <2>1, <3>1, StepFacts
  <2>3. leases[l].execs + 1 \in Nat /\ leases \in [LeaseIds -> Lease]
    BY <1>2 DEF TypeOK, Lease
  <2>4. /\ leases' \in [LeaseIds -> Lease]
        /\ leases'[l].execs = leases[l].execs + 1
        /\ leases'[l].at = leases[l].at /\ leases'[l].vm = leases[l].vm
        /\ \A m \in LeaseIds \ {l} : leases'[m] = leases[m]
    BY <1>2, <2>1, <2>3 DEF Lease
  <2>5. Fits'
    <3>1. GoodTask(task'[t]) /\ task'[t].pc # "destroy"
      BY <1>1, <1>2, <2>2 DEF GoodTask, VmPcs, LeasePcs, UsePcs
    <3>2. \A m \in LeaseIds : leases'[m].at = leases[m].at /\ leases'[m].vm = leases[m].vm
      BY <2>4
    <3>3. \A m \in LeaseIds : GoodLease(leases'[m])
      BY <3>2 DEF Fits, LeasesFit, GoodLease
    <3> QED BY <2>2, <3>1, <3>2, <3>3, FitsKept
  <2>6. CountsFit'
    <3>1. /\ \A m \in LeaseIds \ {l} : Users(m)' = Users(m)
          /\ Users(l)' = Users(l) \cup {t} /\ t \notin Users(l)
      BY <1>1, <2>2 DEF Users, UsePcs, OthersWait
    <3>2. Cardinality(Users(l) \cup {t}) = Cardinality(Users(l)) + 1
      BY <3>1, UsersFacts, FS_AddElement
    <3>3. leases'[l].execs = Cardinality(Users(l)') /\ leases'[l].at = "map"
      BY <1>2, <1>4, <2>4, <3>1, <3>2 DEF CountsFit
    <3> QED BY <1>2, <2>4, <3>1, <3>3 DEF CountsFit
  <2>7. PermitsFit'
    <3>1. t \notin PermitHolders'
      BY <2>2 DEF PermitHolders
    <3>2. LeasesWithPermit' = LeasesWithPermit
      BY <2>4 DEF LeasesWithPermit
    <3> QED BY <2>2, <3>1, <3>2, PermitsKeptByTask
  <2>8. SameTaskVms /\ SameLeaseVms
    BY <1>2, <2>2, <2>4 DEF SameTaskVms, SameLeaseVms, OthersWait
  <2>9. reaper' \in Reaper
    BY <1>1 DEF TypeOK
  <2> QED BY <1>1, <2>2, <2>4, <2>5, <2>6, <2>7, <2>8, <2>9, SameVmsInv
<1> QED BY <1>3, <1>4

LEMMA ExecDoneInv ==
    ASSUME IndInv, NEW t \in Tasks, ExecDone(t)
    PROVE  IndInv'
<1> USE DEF IndInv
<1>0. task[t].pc = "running" /\ task[t].lease \in LeaseIds
  BY DEF ExecDone, Fits, TasksFit, GoodTask, LeasePcs, UsePcs
<1> PICK l \in LeaseIds : l = task[t].lease
  BY <1>0
<1>1. /\ task[t].pc = "running" /\ Finish(t)
      /\ leases' = [leases EXCEPT ![l].execs = @ - 1, ![l].stale = FALSE]
      /\ UNCHANGED <<poolVars, reaper, daemon>>
  BY DEF ExecDone
<1>2. task[t].vm = NoVm
  BY <1>1 DEF Fits, TasksFit, GoodTask, VmPcs
<1>3. /\ task' \in [Tasks -> Task]
      /\ task'[t].pc = "none" /\ task'[t].vm = NoVm
      /\ GoodTask(task'[t])
      /\ OthersWait(t)
  BY <1>1, FinishFacts
<1>4. t \in Users(l)
  BY <1>1 DEF Users, UsePcs
<1>5. /\ \A m \in LeaseIds \ {l} : Users(m)' = Users(m)
      /\ Users(l)' = Users(l) \ {t}
  BY <1>3 DEF Users, UsePcs, OthersWait
<1>6. /\ Cardinality(Users(l) \ {t}) = Cardinality(Users(l)) - 1
      /\ Cardinality(Users(l) \ {t}) \in Nat
      /\ Cardinality(Users(l)) \in Nat
  <2>1. IsFiniteSet(Users(l)) /\ Cardinality(Users(l)) \in Nat
    BY UsersFacts
  <2>2. /\ IsFiniteSet(Users(l) \ {t})
        /\ Cardinality(Users(l) \ {t}) = Cardinality(Users(l)) - 1
    BY <1>4, <2>1, FS_RemoveElement
  <2> QED BY <2>1, <2>2, FS_CardinalityType
<1>7. leases[l].execs - 1 \in Nat /\ leases[l].execs - 1 = Cardinality(Users(l) \ {t})
  BY <1>2, <1>6 DEF CountsFit
<1>8. /\ leases' \in [LeaseIds -> Lease]
      /\ leases'[l].execs = leases[l].execs - 1
      /\ leases'[l].at = leases[l].at /\ leases'[l].vm = leases[l].vm
      /\ \A m \in LeaseIds \ {l} : leases'[m] = leases[m]
  BY <1>1, <1>2, <1>7 DEF TypeOK, Lease
<1>9. \A m \in LeaseIds : leases'[m].at = leases[m].at /\ leases'[m].vm = leases[m].vm
  BY <1>8
<1>10. Fits'
  <2>1. \A m \in LeaseIds : GoodLease(leases'[m])
    BY <1>9 DEF Fits, LeasesFit, GoodLease
  <2> QED BY <1>3, <1>9, <2>1, FitsKept
<1>11. CountsFit'
  <2>1. leases[l].at \notin {"condemned", "reaped"}
    BY <1>2, <1>4 DEF CountsFit
  <2>2. leases'[l].execs = Cardinality(Users(l)') /\ leases'[l].at \notin {"condemned", "reaped"}
    BY <1>5, <1>7, <1>8, <2>1
  <2>3. \A m \in LeaseIds \ {l} :
          /\ leases'[m].execs = Cardinality(Users(m)')
          /\ leases'[m].at \in {"condemned", "reaped"} => Users(m)' = {}
    BY <1>5, <1>8 DEF CountsFit
  <2> QED BY <2>2, <2>3 DEF CountsFit
<1>12. PermitsFit'
  <2>1. t \notin PermitHolders'
    BY <1>3 DEF PermitHolders
  <2>2. LeasesWithPermit' = LeasesWithPermit
    BY <1>9 DEF LeasesWithPermit
  <2> QED BY <1>3, <2>1, <2>2, PermitsKeptByTask
<1>13. SameTaskVms /\ SameLeaseVms
  BY <1>2, <1>3, <1>9 DEF SameTaskVms, SameLeaseVms, OthersWait
<1>14. reaper' \in Reaper
  BY <1>1 DEF TypeOK
<1> QED BY <1>1, <1>3, <1>8, <1>10, <1>11, <1>12, <1>13, <1>14, SameVmsInv

LEMMA RemoveLeaseInv ==
    ASSUME IndInv, NEW t \in Tasks, RemoveLease(t)
    PROVE  IndInv'
<1>1. task[t].pc = "remove" /\ UNCHANGED <<poolVars, reaper, daemon>>
  BY DEF RemoveLease
<1>2. GoodTask(task[t]) /\ task[t].lease \in LeaseIds
  BY <1>1 DEF IndInv, Fits, TasksFit, GoodTask, LeasePcs
<1> PICK l \in LeaseIds : l = task[t].lease
  BY <1>2
<1>3. CASE leases[l].at # "map"
  <2>1. Finish(t) /\ UNCHANGED leases
    BY <1>3 DEF RemoveLease
  <2> QED BY <1>1, <2>1, QuietFinishInv DEF VmPcs, UsePcs
<1>4. CASE leases[l].at = "map"
  <2> USE DEF IndInv
  <2>1. leases' = [leases EXCEPT ![l].at = "release"] /\ Step(t, "destroy")
    BY <1>4 DEF RemoveLease
  <2>2. /\ task' \in [Tasks -> Task]
        /\ task'[t].pc = "destroy"
        /\ task'[t].kind = task[t].kind
        /\ task'[t].vm = task[t].vm
        /\ task'[t].lease = l
        /\ OthersWait(t)
    <3>1. "destroy" \in TaskPcs
      BY DEF TaskPcs
    <3> QED BY <2>1, <3>1, StepFacts
  <2>3. /\ leases' \in [LeaseIds -> Lease]
        /\ leases'[l].execs = leases[l].execs
        /\ leases'[l].at = "release" /\ leases'[l].vm = leases[l].vm
        /\ \A m \in LeaseIds \ {l} : leases'[m] = leases[m]
    BY <2>1 DEF TypeOK, Lease
  <2>4. Fits'
    <3>1. GoodTask(task'[t])
      BY <1>1, <1>2, <2>2 DEF GoodTask, VmPcs, LeasePcs, UsePcs
    <3>2. TasksFit'
      BY <2>2, <3>1 DEF Fits, TasksFit, OthersWait
    <3>3. LeasesFit'
      BY <1>4, <2>3 DEF Fits, LeasesFit, GoodLease, Dropped
    <3>4. \A u \in Tasks \ {t} : task'[u].pc = "destroy"
                => /\ task'[u] = task[u]
                   /\ task[u].lease \in LeaseIds \ {l}
                   /\ leases'[task[u].lease].at = "release"
      BY <1>4, <2>2, <2>3 DEF OthersWait, Fits, TasksFit, GoodTask, LeasePcs, DestroyersFit
    <3>5. DestroyersFit'
      BY <2>2, <2>3, <3>4 DEF Fits, DestroyersFit
    <3> QED BY <3>2, <3>3, <3>5 DEF Fits
  <2>5. CountsFit'
    <3>1. task[t].pc \notin UsePcs /\ task'[t].pc \notin UsePcs
      BY <1>1, <2>2 DEF UsePcs
    <3> QED BY <2>2, <2>3, <3>1, CountsKept DEF OthersWait
  <2>6. PermitsFit'
    <3>1. t \notin PermitHolders'
      BY <2>2 DEF PermitHolders
    <3>2. LeasesWithPermit' \subseteq LeasesWithPermit
      BY <1>4, <2>3 DEF LeasesWithPermit, Dropped
    <3> QED BY <2>2, <3>1, <3>2, PermitsKeptByTask
  <2>7. SameTaskVms /\ SameLeaseVms
    BY <2>2, <2>3 DEF SameTaskVms, SameLeaseVms, OthersWait
  <2>8. reaper' \in Reaper
    BY <1>1 DEF TypeOK
  <2> QED BY <1>1, <2>2, <2>3, <2>4, <2>5, <2>6, <2>7, <2>8, SameVmsInv
<1> QED BY <1>3, <1>4

\* A lease taken out of the map is destroyed with its VM, its permit goes back.
LEMMA DropLeaseFacts ==
    ASSUME IndInv, NEW l \in LeaseIds, NEW how \in Dropped, DropLease(l, how),
           leases[l].at \in {"release", "condemned", "drain"}, SameTaskVms
    PROVE  /\ leases' \in [LeaseIds -> Lease]
           /\ leases'[l].at = how /\ leases'[l].execs = leases[l].execs
           /\ \A m \in LeaseIds \ {l} : leases'[m] = leases[m]
           /\ \A m \in LeaseIds : GoodLease(leases'[m])
           /\ PoolTypeOK'
           /\ Owned'
           /\ LeasesWithPermit' \subseteq LeasesWithPermit
           /\ UNCHANGED <<pool, idle, shutdown, minIdle, maint>>
<1> USE DEF IndInv
<1>1. /\ Destroy({leases[l].vm})
      /\ leases' = [leases EXCEPT ![l].at = how, ![l].vm = NoVm]
      /\ UNCHANGED <<pool, idle, shutdown, minIdle, maint>>
  BY DEF DropLease
<1>2. /\ leases' \in [LeaseIds -> Lease]
      /\ leases'[l].at = how /\ leases'[l].execs = leases[l].execs
      /\ leases'[l].vm = NoVm
      /\ \A m \in LeaseIds \ {l} : leases'[m] = leases[m]
  BY <1>1 DEF TypeOK, Lease, Dropped
<1>3. \A m \in LeaseIds : GoodLease(leases'[m])
  BY <1>2 DEF Fits, LeasesFit, GoodLease
<1>4. leases[l].vm # NoVm
  BY DEF Fits, LeasesFit, GoodLease, Dropped
<1>5. PoolFits /\ Held /\ leases[l].vm \in Out
  BY <1>4 DEF Owned, Held, HoldersFit, Out
<1>6. PoolFits' /\ Out' = Out \ {leases[l].vm}
  BY <1>1, <1>5, DestroyOutside
<1>7. Held'
  BY <1>2, <1>5, <1>6, HeldLeaseDrops
<1>8. PoolTypeOK'
  BY <1>1 DEF TypeOK, PoolTypeOK, Destroy
<1>9. LeasesWithPermit' \subseteq LeasesWithPermit
  BY <1>2 DEF LeasesWithPermit
<1> QED BY <1>1, <1>2, <1>3, <1>6, <1>7, <1>8, <1>9 DEF Owned, Held

LEMMA DestroyReleasedInv ==
    ASSUME IndInv, NEW t \in Tasks, DestroyReleased(t)
    PROVE  IndInv'
<1> USE DEF IndInv
<1>1. task[t].pc = "destroy" /\ Finish(t) /\ UNCHANGED <<reaper, daemon>>
  BY DEF DestroyReleased
<1>2. GoodTask(task[t]) /\ task[t].vm = NoVm /\ task[t].lease \in LeaseIds
  BY <1>1 DEF Fits, TasksFit, GoodTask, LeasePcs, VmPcs
<1> PICK l \in LeaseIds : l = task[t].lease
  BY <1>2
<1>3. leases[l].at = "release" /\ DropLease(l, "released")
  BY <1>1 DEF Fits, DestroyersFit, DestroyReleased
<1>4. /\ task' \in [Tasks -> Task]
      /\ task'[t].pc = "none" /\ task'[t].vm = NoVm
      /\ GoodTask(task'[t])
      /\ OthersWait(t)
  BY <1>1, FinishFacts
<1>5. SameTaskVms
  BY <1>2, <1>4 DEF SameTaskVms, OthersWait
<1>6. /\ leases' \in [LeaseIds -> Lease]
      /\ leases'[l].at = "released" /\ leases'[l].execs = leases[l].execs
      /\ \A m \in LeaseIds \ {l} : leases'[m] = leases[m]
      /\ \A m \in LeaseIds : GoodLease(leases'[m])
      /\ PoolTypeOK' /\ Owned'
      /\ LeasesWithPermit' \subseteq LeasesWithPermit
      /\ UNCHANGED <<pool, idle, shutdown, minIdle, maint>>
  <2>1. "released" \in Dropped
    BY DEF Dropped
  <2> QED BY <1>3, <1>5, <2>1, DropLeaseFacts
<1>7. TypeOK'
  BY <1>1, <1>4, <1>6 DEF TypeOK
<1>8. Fits'
  <2>1. TasksFit'
    BY <1>4 DEF Fits, TasksFit, OthersWait
  <2>2. LeasesFit'
    BY <1>6 DEF LeasesFit
  <2>3. \A u \in Tasks : task'[u].pc = "destroy"
              => u # t /\ task'[u] = task[u] /\ task[u].lease \in LeaseIds
    BY <1>4 DEF OthersWait, Fits, TasksFit, GoodTask, LeasePcs
  <2>4. \A u \in Tasks : task'[u].pc = "destroy" => task[u].lease # l
    BY <1>1, <2>3 DEF Fits, DestroyersFit
  <2>5. DestroyersFit'
    BY <1>6, <2>3, <2>4 DEF Fits, DestroyersFit
  <2> QED BY <2>1, <2>2, <2>5 DEF Fits
<1>9. CountsFit'
  <2>1. task[t].pc \notin UsePcs /\ task'[t].pc \notin UsePcs
    BY <1>1, <1>4 DEF UsePcs
  <2> QED BY <1>4, <1>6, <2>1, CountsKept DEF OthersWait
<1>10. PermitsFit'
  <2>1. t \notin PermitHolders'
    BY <1>4 DEF PermitHolders
  <2> QED BY <1>4, <1>6, <2>1, PermitsKeptByTask
<1>11. DrainFits'
  BY <1>1, <1>6, DrainKept
<1> QED BY <1>6, <1>7, <1>8, <1>9, <1>10, <1>11

-----------------------------------------------------------------------------
(* The reaper                                                              *)

\* Leases move between the map and the reaper, or age: the VMs stay theirs.
LEMMA LeaseMovesInv ==
    ASSUME IndInv, UNCHANGED <<poolVars, task, daemon>>, reaper' \in Reaper,
           leases' \in [LeaseIds -> Lease],
           \A l \in LeaseIds : /\ leases'[l].vm = leases[l].vm
                               /\ leases'[l].execs = leases[l].execs
                               /\ \/ leases'[l].at = leases[l].at
                                  \/ /\ leases[l].at \in {"map", "reaper"}
                                     /\ leases'[l].at \in {"map", "reaper"}
    PROVE  IndInv'
<1> USE DEF IndInv
<1>1. SameTaskVms /\ SameLeaseVms
  BY DEF SameTaskVms, SameLeaseVms
<1>2. \A l \in LeaseIds : GoodLease(leases'[l])
  BY DEF Fits, LeasesFit, GoodLease, Dropped
<1>3. Fits'
  BY <1>2, FitsKeptByLeases
<1>4. CountsFit'
  BY CountsKept
<1>5. PermitsFit'
  <2>1. PermitHolders' = PermitHolders /\ LeasesWithPermit' \subseteq LeasesWithPermit
    BY DEF PermitHolders, LeasesWithPermit, Dropped
  <2> QED BY <2>1, PermitsKept
<1>6. task' \in [Tasks -> Task]
  BY DEF TypeOK
<1> QED BY <1>1, <1>3, <1>4, <1>5, <1>6, SameVmsInv

LEMMA AgeInv ==
    ASSUME IndInv, NEW l \in LeaseIds, Age(l)
    PROVE  IndInv'
<1>1. /\ leases' = [leases EXCEPT ![l].stale = TRUE]
      /\ UNCHANGED <<poolVars, task, reaper, daemon>>
  BY DEF Age
<1>2. /\ leases' \in [LeaseIds -> Lease] /\ reaper' \in Reaper
      /\ \A m \in LeaseIds : /\ leases'[m].vm = leases[m].vm
                             /\ leases'[m].execs = leases[m].execs
                             /\ leases'[m].at = leases[m].at
  BY <1>1 DEF IndInv, TypeOK, Lease
<1> QED BY <1>1, <1>2, LeaseMovesInv

LEMMA ReaperScanInv ==
    ASSUME IndInv, ReaperScan
    PROVE  IndInv'
<1>1. reaper' \in Reaper /\ UNCHANGED <<poolVars, task, leases, daemon>>
  BY DEF ReaperScan, Reaper
<1> QED BY <1>1, LeaseMovesInv DEF IndInv, TypeOK

LEMMA ReaperTakeInv ==
    ASSUME IndInv, ReaperTake
    PROVE  IndInv'
<1> DEFINE taken == {l \in reaper.ids : leases[l].at = "map"}
<1>1. /\ leases' = [l \in LeaseIds |->
                      IF l \in taken THEN [leases[l] EXCEPT !.at = "reaper"] ELSE leases[l]]
      /\ reaper' = [pc |-> "decide", ids |-> taken]
      /\ UNCHANGED <<poolVars, task, daemon>>
  BY DEF ReaperTake
<1>2. reaper' \in Reaper
  BY <1>1 DEF IndInv, TypeOK, Reaper
<1>3. \A l \in LeaseIds : /\ leases'[l] \in Lease
                          /\ leases'[l].vm = leases[l].vm
                          /\ leases'[l].execs = leases[l].execs
                          /\ \/ leases'[l].at = leases[l].at
                             \/ leases[l].at = "map" /\ leases'[l].at = "reaper"
  BY <1>1 DEF IndInv, TypeOK, Lease
<1>4. leases' \in [LeaseIds -> Lease]
  BY <1>1, <1>3
<1> QED BY <1>1, <1>2, <1>3, <1>4, LeaseMovesInv

LEMMA ReaperDecideInv ==
    ASSUME IndInv, NEW l \in LeaseIds, ReaperDecide(l)
    PROVE  IndInv'
<1>1. leases[l].at = "reaper" /\ UNCHANGED <<poolVars, task, daemon>>
  BY DEF ReaperDecide
<1>2. CASE /\ leases' = [leases EXCEPT ![l].at = "map"]
           /\ reaper' = [reaper EXCEPT !.ids = @ \ {l}]
  <2>1. /\ leases' \in [LeaseIds -> Lease] /\ reaper' \in Reaper
        /\ leases'[l].at = "map"
        /\ \A m \in LeaseIds : /\ leases'[m].vm = leases[m].vm
                               /\ leases'[m].execs = leases[m].execs
                               /\ m # l => leases'[m].at = leases[m].at
    BY <1>2 DEF IndInv, TypeOK, Lease, Reaper
  <2> QED BY <1>1, <2>1, LeaseMovesInv
<1>3. CASE /\ LeaseIsExpired(l)
           /\ leases' = [leases EXCEPT ![l].at = "condemned"]
           /\ UNCHANGED reaper
  <2> USE DEF IndInv
  <2>1. /\ leases' \in [LeaseIds -> Lease]
        /\ leases'[l].at = "condemned" /\ leases'[l].vm = leases[l].vm
        /\ leases'[l].execs = leases[l].execs
        /\ \A m \in LeaseIds \ {l} : leases'[m] = leases[m]
    BY <1>3 DEF TypeOK, Lease
  <2>2. SameTaskVms /\ SameLeaseVms
    BY <1>1, <2>1 DEF SameTaskVms, SameLeaseVms
  <2>3. Fits'
    <3>1. \A m \in LeaseIds : GoodLease(leases'[m])
      BY <1>1, <2>1 DEF Fits, LeasesFit, GoodLease, Dropped
    <3>2. \A m \in LeaseIds : leases[m].at = "release" => leases'[m].at = "release"
      BY <1>1, <2>1
    <3> QED BY <1>1, <3>1, <3>2, FitsKeptByLeases
  <2>4. CountsFit'
    <3>1. \A m \in LeaseIds : Users(m)' = Users(m)
      BY <1>1 DEF Users
    <3>2. Users(l) = {}
      BY <1>3, UsersFacts, FS_EmptySet DEF CountsFit, LeaseIsExpired
    <3> QED BY <2>1, <3>1, <3>2 DEF CountsFit
  <2>5. PermitsFit'
    <3>1. PermitHolders' = PermitHolders /\ LeasesWithPermit' \subseteq LeasesWithPermit
      BY <1>1, <2>1 DEF PermitHolders, LeasesWithPermit, Dropped
    <3> QED BY <3>1, PermitsKept
  <2>6. task' \in [Tasks -> Task] /\ reaper' \in Reaper
    BY <1>1, <1>3 DEF TypeOK
  <2> QED BY <1>1, <2>1, <2>2, <2>3, <2>4, <2>5, <2>6, SameVmsInv
<1> QED BY <1>2, <1>3 DEF ReaperDecide

LEMMA ReaperEndInv ==
    ASSUME IndInv, ReaperEnd
    PROVE  IndInv'
<1>1. reaper' \in Reaper /\ UNCHANGED <<poolVars, task, leases, daemon>>
  BY DEF ReaperEnd, Reaper, IndInv, TypeOK
<1> QED BY <1>1, LeaseMovesInv DEF IndInv, TypeOK

\* The reaper or the drain destroys a lease that nobody releases.
LEMMA DropLeaseInv ==
    ASSUME IndInv, NEW l \in LeaseIds, NEW how \in Dropped, DropLease(l, how),
           leases[l].at \in {"condemned", "drain"}, how = "reaped" => leases[l].at = "condemned",
           reaper' \in Reaper, UNCHANGED <<task, daemon>>
    PROVE  IndInv'
<1> USE DEF IndInv
<1>1. SameTaskVms
  BY DEF SameTaskVms
<1>2. /\ leases' \in [LeaseIds -> Lease]
      /\ leases'[l].at = how /\ leases'[l].execs = leases[l].execs
      /\ \A m \in LeaseIds \ {l} : leases'[m] = leases[m]
      /\ \A m \in LeaseIds : GoodLease(leases'[m])
      /\ PoolTypeOK' /\ Owned'
      /\ LeasesWithPermit' \subseteq LeasesWithPermit
      /\ UNCHANGED <<pool, idle, shutdown, minIdle, maint>>
  BY <1>1, DropLeaseFacts
<1>3. TypeOK'
  BY <1>2 DEF TypeOK
<1>4. Fits'
  <2>1. \A m \in LeaseIds : leases[m].at = "release" => leases'[m].at = "release"
    BY <1>2
  <2> QED BY <1>2, <2>1, FitsKeptByLeases
<1>5. CountsFit'
  <2>1. \A m \in LeaseIds : leases'[m].execs = leases[m].execs
    BY <1>2
  <2>2. \A m \in LeaseIds : leases'[m].at \in {"condemned", "reaped"}
                              => leases[m].at \in {"condemned", "reaped"}
    BY <1>2 DEF Dropped
  <2> QED BY <2>1, <2>2, CountsKept
<1>6. PermitsFit'
  <2>1. PermitHolders' = PermitHolders
    BY DEF PermitHolders
  <2> QED BY <1>2, <2>1, PermitsKept
<1>7. DrainFits'
  BY <1>2, DrainKept
<1> QED BY <1>2, <1>3, <1>4, <1>5, <1>6, <1>7

LEMMA ReaperDestroyInv ==
    ASSUME IndInv, NEW l \in LeaseIds, ReaperDestroy(l)
    PROVE  IndInv'
<1>1. /\ leases[l].at = "condemned" /\ DropLease(l, "reaped")
      /\ reaper' = [reaper EXCEPT !.ids = @ \ {l}]
      /\ UNCHANGED <<task, daemon>>
  BY DEF ReaperDestroy
<1>2. reaper' \in Reaper /\ "reaped" \in Dropped
  BY <1>1 DEF IndInv, TypeOK, Reaper, Dropped
<1> QED BY <1>1, <1>2, DropLeaseInv

-----------------------------------------------------------------------------
(* Shutdown                                                                *)

\* Steps of the pool and of the drain: requests and leases are as they were.
LEMMA PoolStepInv ==
    ASSUME IndInv, UNCHANGED <<task, leases, reaper>>, daemon' \in DaemonStates,
           PoolTypeOK', PoolFits', DrainFits',
           Out' = Out
    PROVE  IndInv'
<1> USE DEF IndInv
<1>1. TypeOK'
  BY DEF TypeOK
<1>2. Fits'
  BY LeasesAreGood, FitsKeptByLeases
<1>3. CountsFit'
  BY CountsKept
<1>4. Held'
  BY HeldKept DEF SameTaskVms, SameLeaseVms, Owned, Held
<1>5. PermitsFit'
  <2>1. PermitHolders' = PermitHolders /\ LeasesWithPermit' = LeasesWithPermit
    BY DEF PermitHolders, LeasesWithPermit
  <2> QED BY <2>1, PermitsKept
<1> QED BY <1>1, <1>2, <1>3, <1>4, <1>5 DEF Owned, Held

LEMMA BeginDrainInv ==
    ASSUME IndInv, BeginDrain
    PROVE  IndInv'
<1> USE DEF IndInv
<1>1. /\ daemon = "serving" /\ daemon' = "leases"
      /\ leases' = [l \in LeaseIds |->
                      IF leases[l].at = "map" THEN [leases[l] EXCEPT !.at = "drain"] ELSE leases[l]]
      /\ UNCHANGED <<poolVars, task, reaper>>
  BY DEF BeginDrain
<1>2. \A l \in LeaseIds : /\ leases'[l] \in Lease
                          /\ leases'[l].vm = leases[l].vm
                          /\ leases'[l].execs = leases[l].execs
                          /\ \/ leases'[l].at = leases[l].at
                             \/ leases[l].at = "map" /\ leases'[l].at = "drain"
  BY <1>1 DEF TypeOK, Lease
<1>3. leases' \in [LeaseIds -> Lease]
  BY <1>1, <1>2
<1>4. TypeOK'
  BY <1>1, <1>3 DEF TypeOK, PoolTypeOK, poolVars, DaemonStates
<1>5. Fits'
  <2>1. \A l \in LeaseIds : GoodLease(leases'[l])
    BY <1>2 DEF Fits, LeasesFit, GoodLease, Dropped
  <2>2. \A l \in LeaseIds : leases[l].at = "release" => leases'[l].at = "release"
    BY <1>2
  <2> QED BY <1>1, <2>1, <2>2, FitsKeptByLeases
<1>6. CountsFit'
  <2>1. \A l \in LeaseIds : leases'[l].at \in {"condemned", "reaped"}
                              => leases[l].at \in {"condemned", "reaped"}
    BY <1>2
  <2> QED BY <1>1, <1>2, <2>1, CountsKept
<1>7. Owned'
  <2>1. Out' = Out /\ PoolFits' /\ Held
    BY <1>1, SamePool DEF poolVars, Owned, Held
  <2>2. Held'
    BY <1>1, <1>2, <2>1, HeldKept DEF SameTaskVms, SameLeaseVms
  <2> QED BY <2>1, <2>2 DEF Owned, Held
<1>8. PermitsFit'
  <2>1. PermitHolders' = PermitHolders /\ LeasesWithPermit' \subseteq LeasesWithPermit
    BY <1>1, <1>2 DEF PermitHolders, LeasesWithPermit, Dropped
  <2> QED BY <2>1, PermitsKept
<1>9. DrainFits'
  BY <1>1 DEF DrainFits, DrainedPoolStaysEmpty, poolVars
<1> QED BY <1>4, <1>5, <1>6, <1>7, <1>8, <1>9

LEMMA DrainLeaseInv ==
    ASSUME IndInv, NEW l \in LeaseIds, DrainLease(l)
    PROVE  IndInv'
<1>1. /\ leases[l].at = "drain" /\ DropLease(l, "drained")
      /\ UNCHANGED <<task, reaper, daemon>>
  BY DEF DrainLease
<1>2. reaper' \in Reaper /\ "drained" \in Dropped
  BY <1>1 DEF IndInv, TypeOK, Dropped
<1> QED BY <1>1, <1>2, DropLeaseInv

\* The daemon goes on, and the pool stays as it is.
LEMMA DaemonStepInv ==
    ASSUME IndInv, UNCHANGED <<poolVars, task, leases, reaper>>, daemon' \in DaemonStates, DrainFits'
    PROVE  IndInv'
<1>1. PoolTypeOK'
  BY DEF IndInv, TypeOK, PoolTypeOK, poolVars
<1>2. PoolFits' /\ Out' = Out
  BY SamePool DEF IndInv, Owned, poolVars
<1> QED BY <1>1, <1>2, PoolStepInv

LEMMA DrainLeasesDoneInv ==
    ASSUME IndInv, DrainLeasesDone
    PROVE  IndInv'
<1>1. daemon = "leases" /\ daemon' = "pools" /\ UNCHANGED <<poolVars, task, leases, reaper>>
  BY DEF DrainLeasesDone
<1>2. DrainFits' /\ daemon' \in DaemonStates
  BY <1>1 DEF IndInv, DrainFits, DrainedPoolStaysEmpty, poolVars, DaemonStates
<1> QED BY <1>1, <1>2, DaemonStepInv

LEMMA ExitInv ==
    ASSUME IndInv, Exit
    PROVE  IndInv'
<1>1. daemon = "drained" /\ daemon' = "exited" /\ UNCHANGED <<poolVars, task, leases, reaper>>
  BY DEF Exit
<1>2. DrainFits' /\ daemon' \in DaemonStates
  BY <1>1 DEF IndInv, DrainFits, DrainedPoolStaysEmpty, poolVars, DaemonStates
<1> QED BY <1>1, <1>2, DaemonStepInv

LEMMA DrainPoolInv ==
    ASSUME IndInv, DrainPool
    PROVE  IndInv'
<1>1. daemon = "pools" /\ UNCHANGED <<task, leases, reaper>>
  BY DEF DrainPool
<1>2. CASE pool = "open" /\ SignalShutdown /\ daemon' = "idle"
  <2>1. shutdown' = TRUE /\ UNCHANGED <<live, lost, pool, idle, minIdle, maint>>
    BY <1>2 DEF SignalShutdown
  <2>2. PoolTypeOK' /\ daemon' \in DaemonStates
    BY <1>2, <2>1 DEF IndInv, TypeOK, PoolTypeOK, DaemonStates
  <2>3. PoolFits' /\ Out' = Out
    BY <2>1, SamePool DEF IndInv, Owned
  <2>4. DrainFits'
    BY <1>2, <2>1 DEF DrainFits, DrainedPoolStaysEmpty
  <2> QED BY <1>1, <2>2, <2>3, <2>4, PoolStepInv
<1>3. CASE pool = "absent" /\ UNCHANGED poolVars /\ daemon' = "drained"
  <2>1. DrainFits' /\ daemon' \in DaemonStates
    BY <1>1, <1>3 DEF IndInv, DrainFits, DrainedPoolStaysEmpty, poolVars, DaemonStates
  <2> QED BY <1>1, <1>3, <2>1, DaemonStepInv
<1> QED BY <1>2, <1>3 DEF DrainPool

\* The empty list is a list of VMs that has none.
LEMMA EmptyListFacts == <<>> \in Seq(VMs) /\ IsInjective(<<>>) /\ ToSet(<<>>) = {}
<1>1. <<>> \in Seq(VMs) /\ Len(<<>>) = 0
  BY EmptySeq
<1>2. 1..Len(<<>>) = {}
  BY <1>1
<1> QED BY <1>1, <1>2, ToSetFacts DEF IsInjective

LEMMA DrainPoolIdleInv ==
    ASSUME IndInv, DrainPoolIdle
    PROVE  IndInv'
<1>1. /\ daemon = "idle" /\ daemon' = "drained"
      /\ live' = live \ ToSet(idle) /\ lost' = lost /\ idle' = <<>>
      /\ UNCHANGED <<pool, shutdown, minIdle, maint>>
      /\ UNCHANGED <<task, leases, reaper>>
  BY DEF DrainPoolIdle, DrainIdle, Destroy
<1>2. PoolTypeOK' /\ daemon' \in DaemonStates
  BY <1>1, EmptyListFacts DEF IndInv, TypeOK, PoolTypeOK, DaemonStates
<1>3. PoolFits /\ IsInjective(idle') /\ ToSet(idle') = {}
  BY <1>1, EmptyListFacts DEF IndInv, Owned
<1>4. PoolFits'
  BY <1>1, <1>3 DEF PoolFits, Pooled
<1>5. Out' = Out
  BY <1>1, <1>3 DEF Out, Pooled, PoolFits
<1>6. DrainFits'
  BY <1>1 DEF IndInv, DrainFits, DrainedPoolStaysEmpty
<1> QED BY <1>1, <1>2, <1>4, <1>5, <1>6, PoolStepInv

-----------------------------------------------------------------------------
(* Maintenance                                                             *)

\* The pool exists when it is maintained.
LEMMA MaintenanceFacts ==
    ASSUME IndInv, maint.pc # "none"
    PROVE  PoolTypeOK /\ PoolFits /\ DrainFits /\ pool = "open" /\ daemon \in DaemonStates
BY DEF IndInv, TypeOK, PoolTypeOK, Owned, DrainFits

LEMMA EvictInv ==
    ASSUME IndInv, Evict, UNCHANGED daemonVars
    PROVE  IndInv'
<1>1. PICK n \in 0..Len(idle) :
        /\ idle' = SubSeq(idle, n + 1, Len(idle))
        /\ maint' = [maint EXCEPT !.pc = "evict", !.doomed = ToSet(SubSeq(idle, 1, n))]
  BY DEF Evict
<1>2. UNCHANGED <<live, lost, pool, shutdown, minIdle>> /\ UNCHANGED <<task, leases, reaper, daemon>>
  BY DEF Evict, daemonVars
<1>3. PoolTypeOK /\ PoolFits /\ DrainFits /\ pool = "open" /\ daemon \in DaemonStates
  BY MaintenanceFacts DEF Evict
<1>4. idle \in Seq(VMs) /\ IsInjective(idle) /\ ToSet(idle) \subseteq VMs
  BY <1>3, ToSetFacts DEF PoolTypeOK, PoolFits
<1> DEFINE gone == ToSet(SubSeq(idle, 1, n))
<1>5. /\ idle' \in Seq(VMs) /\ IsInjective(idle')
      /\ gone \subseteq ToSet(idle) /\ ToSet(idle') = ToSet(idle) \ gone
  BY <1>1, <1>4, SplitFacts
<1>6. maint' = [maint EXCEPT !.pc = "evict", !.doomed = gone]
  BY <1>1
<1> HIDE DEF gone
<1>7. maint' \in Maint /\ maint'.slots = maint.slots /\ maint'.doomed = gone
  BY <1>3, <1>4, <1>5, <1>6 DEF PoolTypeOK, Maint, MaintPcs
<1>8. maint.doomed = {} /\ maint.slots = {} /\ maint'.pc = "evict"
  BY <1>3, <1>6 DEF Evict, PoolFits, PoolTypeOK, Maint
<1>9. PoolTypeOK'
  BY <1>2, <1>3, <1>5, <1>7 DEF PoolTypeOK
<1>10. PoolFits' /\ Out' = Out
  BY <1>2, <1>3, <1>5, <1>7, <1>8 DEF PoolFits, Pooled, Out
<1>11. DrainFits'
  <2>1. idle = <<>> => idle' = <<>>
    <3> SUFFICES ASSUME idle = <<>> PROVE idle' = <<>>
      OBVIOUS
    <3>1. Len(idle) = 0 /\ n = 0
      BY EmptySeq
    <3> QED BY <3>1, <1>1, SubSeqEmpty
  <2> QED BY <1>2, <1>3, <2>1, DrainKept
<1> QED BY <1>2, <1>3, <1>9, <1>10, <1>11, PoolStepInv

\* The scaler stays between its bounds.
LEMMA EvaluateFacts ==
    ASSUME NEW n \in 0..MaxSize
    PROVE  Evaluate(n) \subseteq 0..MaxSize
BY SizeAssumption DEF Evaluate

LEMMA EvictThenReplenishInv ==
    ASSUME IndInv, EvictThenReplenish, UNCHANGED daemonVars
    PROVE  IndInv'
<1> DEFINE needed == IF Len(idle) < minIdle' THEN minIdle' - Len(idle) ELSE 0
           kept == live \ maint.doomed
<1>1. PICK slots \in Fresh(needed, kept) :
        /\ live' = kept \cup slots
        /\ maint' = [maint EXCEPT !.pc = "replenish", !.slots = slots, !.doomed = {}]
  BY DEF EvictThenReplenish
<1>2. slots \subseteq VMs /\ slots \cap kept = {}
  BY DEF Fresh, kSubset
<1>3. /\ maint.pc = "evict" /\ minIdle' \in Evaluate(minIdle)
      /\ UNCHANGED <<lost, pool, idle, shutdown>> /\ UNCHANGED <<task, leases, reaper, daemon>>
  BY DEF EvictThenReplenish, daemonVars
<1>4. PoolTypeOK /\ PoolFits /\ DrainFits /\ pool = "open" /\ daemon \in DaemonStates
  BY <1>3, MaintenanceFacts
<1>5. /\ maint' \in Maint /\ maint'.slots = slots /\ maint'.doomed = {}
      /\ maint'.pc = "replenish" /\ maint.slots = {}
  BY <1>1, <1>2, <1>3, <1>4 DEF PoolTypeOK, PoolFits, Maint, MaintPcs
<1>6. minIdle' \in 0..MaxSize
  BY <1>3, <1>4, EvaluateFacts DEF PoolTypeOK
<1>7. PoolTypeOK'
  BY <1>1, <1>2, <1>3, <1>4, <1>5, <1>6 DEF PoolTypeOK
<1>8. PoolFits' /\ Out' = Out
  <2>1. PoolFits'
    BY <1>1, <1>2, <1>3, <1>4, <1>5 DEF PoolFits, Pooled
  <2>2. Out' = Out
    BY <1>1, <1>2, <1>3, <1>4, <1>5 DEF PoolFits, Pooled, Out
  <2> QED BY <2>1, <2>2
<1>9. DrainFits'
  BY <1>3, <1>4, DrainKept
<1> QED BY <1>3, <1>4, <1>7, <1>8, <1>9, PoolStepInv

LEMMA ReplenishOneInv ==
    ASSUME IndInv, NEW v \in VMs, ReplenishOne(v), UNCHANGED daemonVars
    PROVE  IndInv'
<1>1. /\ maint.pc = "replenish" /\ v \in maint.slots
      /\ maint' = [maint EXCEPT !.slots = @ \ {v}]
      /\ UNCHANGED <<pool, shutdown, minIdle>> /\ UNCHANGED <<task, leases, reaper, daemon>>
  BY DEF ReplenishOne, daemonVars
<1>2. PoolTypeOK /\ PoolFits /\ DrainFits /\ pool = "open" /\ daemon \in DaemonStates
  BY <1>1, MaintenanceFacts
<1>3. /\ maint' \in Maint /\ maint'.slots = maint.slots \ {v}
      /\ maint'.doomed = maint.doomed /\ maint'.pc = "replenish"
  BY <1>1, <1>2 DEF PoolTypeOK, Maint, MaintPcs
<1>4. CASE ~shutdown /\ idle' = Append(idle, v) /\ UNCHANGED <<live, lost>>
  <2>1. v \notin ToSet(idle) /\ idle \in Seq(VMs) /\ IsInjective(idle)
    BY <1>1, <1>2 DEF PoolFits, PoolTypeOK
  <2>2. idle' \in Seq(VMs) /\ IsInjective(idle') /\ ToSet(idle') = ToSet(idle) \cup {v}
    BY <1>4, <2>1, AppendFacts
  <2>3. PoolTypeOK'
    BY <1>1, <1>2, <1>3, <1>4, <2>2 DEF PoolTypeOK
  <2>4. PoolFits' /\ Out' = Out
    BY <1>1, <1>2, <1>3, <1>4, <2>2 DEF PoolFits, Pooled, Out
  <2>5. DrainFits'
    BY <1>1, <1>2, <1>4, DrainKept
  <2> QED BY <1>1, <1>2, <2>3, <2>4, <2>5, PoolStepInv
<1>5. CASE live' = live \ {v} /\ UNCHANGED <<lost, idle>>
  <2>1. PoolTypeOK'
    BY <1>1, <1>2, <1>3, <1>5 DEF PoolTypeOK
  <2>2. PoolFits' /\ Out' = Out
    BY <1>1, <1>2, <1>3, <1>5 DEF PoolFits, Pooled, Out
  <2>3. DrainFits'
    BY <1>1, <1>2, <1>5, DrainKept
  <2> QED BY <1>1, <1>2, <2>1, <2>2, <2>3, PoolStepInv
<1>6. CASE lost' = lost \cup {v} /\ UNCHANGED <<live, idle>>
  <2>1. PoolTypeOK'
    BY <1>1, <1>2, <1>3, <1>6 DEF PoolTypeOK
  <2>2. PoolFits' /\ Out' = Out
    BY <1>1, <1>2, <1>3, <1>6 DEF PoolFits, Pooled, Out
  <2>3. DrainFits'
    BY <1>1, <1>2, <1>6, DrainKept
  <2> QED BY <1>1, <1>2, <1>6, <2>1, <2>2, <2>3, PoolStepInv
<1>7. PICK outcome \in BootOutcomes :
        CASE outcome = "ready" /\ ~shutdown ->
               /\ idle' = Append(idle, v)
               /\ UNCHANGED <<live, lost>>
          [] outcome = "failed" \/ (outcome = "ready" /\ shutdown) ->
               /\ Destroy({v})
               /\ UNCHANGED <<idle>>
          [] outcome = "unready" -> Abandon({v}) /\ UNCHANGED idle
  BY DEF ReplenishOne
<1>8. outcome \in {"ready", "failed", "unready"}
  BY DEF BootOutcomes
<1> QED BY <1>4, <1>5, <1>6, <1>7, <1>8 DEF Destroy, Abandon

\* A round of maintenance ends, or the task does.
LEMMA MaintPcInv ==
    ASSUME IndInv, UNCHANGED daemonVars, NEW pc \in {"sleep", "done"},
           maint.pc \in {"sleep", "replenish"}, maint.slots = {},
           maint' = [maint EXCEPT !.pc = pc],
           UNCHANGED <<live, lost, pool, idle, shutdown, minIdle>>
    PROVE  IndInv'
<1>1. PoolTypeOK /\ PoolFits /\ DrainFits /\ pool = "open" /\ daemon \in DaemonStates
  BY MaintenanceFacts
<1>2. /\ maint' \in Maint /\ maint'.slots = maint.slots /\ maint'.doomed = maint.doomed
      /\ maint.doomed = {}
  BY <1>1 DEF PoolTypeOK, PoolFits, Maint, MaintPcs
<1>3. PoolTypeOK'
  BY <1>1, <1>2 DEF PoolTypeOK
<1>4. PoolFits' /\ Out' = Out
  BY <1>1, <1>2 DEF PoolFits, Pooled, Out
<1>5. DrainFits'
  BY <1>1, DrainKept DEF daemonVars
<1> QED BY <1>1, <1>3, <1>4, <1>5, PoolStepInv DEF daemonVars

LEMMA MaintenanceInv ==
    ASSUME IndInv, Maintenance, UNCHANGED daemonVars
    PROVE  IndInv'
<1>1. ASSUME ReplenishEnd PROVE IndInv'
  BY <1>1, MaintPcInv DEF ReplenishEnd
<1>2. ASSUME MaintenanceStops PROVE IndInv'
  <2>1. maint.slots = {}
    BY <1>2 DEF MaintenanceStops, IndInv, Owned, PoolFits
  <2> QED BY <1>2, <2>1, MaintPcInv DEF MaintenanceStops
<1> QED BY <1>1, <1>2, EvictInv, EvictThenReplenishInv, ReplenishOneInv DEF Maintenance

-----------------------------------------------------------------------------
(* The invariant                                                           *)

LEMMA InitInv == Init => IndInv
<1> SUFFICES ASSUME Init PROVE IndInv
  OBVIOUS
<1>1. /\ live = {} /\ lost = {} /\ pool = "absent" /\ idle = <<>> /\ shutdown = FALSE
      /\ maint = [pc |-> "none", slots |-> {}, doomed |-> {}]
      /\ task = [t \in Tasks |-> IdleTask]
      /\ leases = [l \in LeaseIds |-> NewLease]
      /\ daemon = "serving"
  BY DEF Init, PoolInit
<1>2. IdleTask \in Task /\ NewLease \in Lease
  <2>1. 0 \in Nat
    OBVIOUS
  <2> QED BY <2>1 DEF IdleTask, NewLease, Task, Lease, TaskPcs, Kinds
<1>3. TypeOK
  BY <1>2, EmptyListFacts, SizeAssumption
  DEF TypeOK, PoolTypeOK, Init, PoolInit, Maint, MaintPcs, Reaper, DaemonStates
<1>4. /\ \A t \in Tasks : task[t].pc = "none" /\ task[t].vm = NoVm
      /\ \A l \in LeaseIds : leases[l].at = "none" /\ leases[l].vm = NoVm /\ leases[l].execs = 0
  BY <1>1 DEF IdleTask, NewLease
<1>5. Fits
  BY <1>4 DEF Fits, TasksFit, LeasesFit, DestroyersFit, GoodTask, GoodLease, VmPcs, LeasePcs, UsePcs
<1>6. CountsFit
  <2>1. \A l \in LeaseIds : Users(l) = {}
    BY <1>4 DEF Users, UsePcs
  <2> QED BY <1>4, <2>1, FS_EmptySet DEF CountsFit
<1>7. Owned
  BY <1>1, <1>4, EmptyListFacts DEF Owned, PoolFits, HoldersFit, Covered, Pooled
<1>8. PermitsFit
  <2>1. PermitHolders = {} /\ LeasesWithPermit = {}
    BY <1>4 DEF PermitHolders, LeasesWithPermit
  <2>2. Cardinality({}) = 0 /\ MaxSize \in Nat
    BY FS_EmptySet, SizeAssumption
  <2> QED BY <2>1, <2>2 DEF PermitsFit, PermitsInUse
<1>9. DrainFits
  BY <1>1 DEF DrainFits, DrainedPoolStaysEmpty
<1> QED BY <1>3, <1>5, <1>6, <1>7, <1>8, <1>9 DEF IndInv

\* A step that changes nothing.
LEMMA StutterInv ==
    ASSUME IndInv, UNCHANGED vars
    PROVE  IndInv'
<1>1. UNCHANGED <<poolVars, task, leases, reaper, daemon>>
  BY DEF vars, daemonVars
<1>2. daemon' \in DaemonStates
  BY <1>1 DEF IndInv, TypeOK
<1>3. DrainFits'
  BY <1>1, DrainKept DEF IndInv, poolVars
<1> QED BY <1>1, <1>2, <1>3, DaemonStepInv

LEMMA TaskStepInv ==
    ASSUME IndInv, NEW t \in Tasks, TaskStep(t)
    PROVE  IndInv'
BY GetOrCreateInv, AcquirePermitInv, AcquireInv, BootDoneInv, RunCommandInv, RespondInv,
   TeardownInv, InsertLeaseInv, LookupLeaseInv, LockVmInv, ExecDoneInv, RemoveLeaseInv,
   DestroyReleasedInv
DEF TaskStep

LEMMA NextInv ==
    ASSUME IndInv, [Next]_vars
    PROVE  IndInv'
<1>1. CASE UNCHANGED vars
  BY <1>1, StutterInv
<1>2. CASE \E t \in Tasks, kind \in Kinds, l \in LeaseIds \cup {NoLease} : Accept(t, kind, l)
  BY <1>2, AcceptInv
<1>3. CASE \E t \in Tasks : TaskStep(t)
  BY <1>3, TaskStepInv
<1>4. CASE ReaperStep
  BY <1>4, ReaperScanInv, ReaperTakeInv, ReaperDecideInv, ReaperDestroyInv, ReaperEndInv
  DEF ReaperStep
<1>5. CASE Maintenance /\ UNCHANGED daemonVars
  BY <1>5, MaintenanceInv
<1>6. CASE \/ BeginDrain \/ \E l \in LeaseIds : DrainLease(l)
           \/ DrainLeasesDone \/ DrainPool \/ DrainPoolIdle \/ Exit
  BY <1>6, BeginDrainInv, DrainLeaseInv, DrainLeasesDoneInv, DrainPoolInv, DrainPoolIdleInv, ExitInv
<1>7. CASE \E l \in LeaseIds : Age(l)
  BY <1>7, AgeInv
<1> QED BY <1>1, <1>2, <1>3, <1>4, <1>5, <1>6, <1>7 DEF Next, Running

\* Every reachable state of the daemon satisfies the inductive invariant.
THEOREM Invariance == Spec => []IndInv
<1>1. Init => IndInv
  BY InitInv
<1>2. IndInv /\ [Next]_vars => IndInv'
  BY NextInv
<1> QED BY <1>1, <1>2, PTL DEF Spec

-----------------------------------------------------------------------------
(* What follows from it                                                    *)

\* The daemon's state keeps its shape: in particular no count of commands is
\* ever decremented below zero, and the scaler's target stays within max_size.
THEOREM TypeCorrect == Spec => []TypeOK
<1>1. IndInv => TypeOK
  BY DEF IndInv
<1> QED BY <1>1, Invariance, PTL

\* A command that found its lease is never overtaken by the reaper, however
\* many commands and rounds of the reaper there are (reap_expired).
THEOREM ReaperSparesCommands == Spec => []CommandsOutliveReaper
<1>1. ASSUME IndInv PROVE CommandsOutliveReaper
  <2> SUFFICES ASSUME NEW t \in Tasks, task[t].pc \in {"vmlock", "running"}
               PROVE  leases[task[t].lease].at \notin {"condemned", "reaped"}
    BY DEF CommandsOutliveReaper
  <2>1. task[t].lease \in LeaseIds /\ t \in Users(task[t].lease)
    BY <1>1 DEF IndInv, Fits, TasksFit, GoodTask, LeasePcs, UsePcs, Users
  <2> QED BY <1>1, <2>1 DEF IndInv, CountsFit
<1> QED BY <1>1, Invariance, PTL

\* Nothing is put into a drained pool, by however many boots were under way
\* (replenish reads the shutdown flag under the idle lock).
THEOREM DrainIsFinal == Spec => []DrainedPoolStaysEmpty
<1>1. IndInv => DrainedPoolStaysEmpty
  BY DEF IndInv, DrainFits
<1> QED BY <1>1, Invariance, PTL

\* Who owns a VM: one when it runs and was not lost, else none.
LEMMA OwnersFacts ==
    ASSUME IndInv, NEW v \in VMs
    PROVE  /\ \A x, y \in Owners(v) : x = y
           /\ v \notin live \ lost => Owners(v) = {}
           /\ v \in live \ lost => Owners(v) # {}
<1>1. /\ idle \in Seq(VMs) /\ IsInjective(idle)
      /\ PoolFits /\ Held /\ v # NoVm
  BY NoVmAssumption DEF IndInv, TypeOK, PoolTypeOK, Owned, PoolFits, Held
<1>2. \A x : x \in Owners(v) <=>
             \/ \E i \in DOMAIN idle : idle[i] = v /\ x = <<"idle", i>>
             \/ v \in maint.slots /\ x = <<"slot", 0>>
             \/ v \in maint.doomed /\ x = <<"doomed", 0>>
             \/ \E t \in Tasks : task[t].vm = v /\ x = <<"task", t>>
             \/ \E l \in LeaseIds : leases[l].vm = v /\ x = <<"lease", l>>
  BY DEF Owners
<1>3. \A i \in DOMAIN idle : idle[i] = v => v \in ToSet(idle)
  BY DEF ToSet
<1>4. \A i, j \in DOMAIN idle : idle[i] = v /\ idle[j] = v => i = j
  BY <1>1 DEF IsInjective
<1>5. /\ ~(v \in ToSet(idle) /\ v \in maint.slots)
      /\ ~(v \in ToSet(idle) /\ v \in maint.doomed)
      /\ ~(v \in maint.slots /\ v \in maint.doomed)
      /\ v \in ToSet(idle) \cup maint.slots \cup maint.doomed => v \in live \ lost /\ v \notin Out
  BY <1>1 DEF PoolFits, Pooled, Out
<1>6. /\ \A t \in Tasks : task[t].vm = v => v \in Out
      /\ \A l \in LeaseIds : leases[l].vm = v => v \in Out
      /\ \A t, u \in Tasks : task[t].vm = v /\ task[u].vm = v => t = u
      /\ \A l, m \in LeaseIds : leases[l].vm = v /\ leases[m].vm = v => l = m
      /\ \A t \in Tasks, l \in LeaseIds : ~(task[t].vm = v /\ leases[l].vm = v)
  BY <1>1, HeldFacts
<1>7. v \in Out => v \in live \ lost
  BY DEF Out
<1>8. \A x, y \in Owners(v) : x = y
  BY <1>2, <1>3, <1>4, <1>5, <1>6
<1>9. v \notin live \ lost => Owners(v) = {}
  BY <1>2, <1>3, <1>5, <1>6, <1>7
<1>10. ASSUME v \in live \ lost PROVE Owners(v) # {}
  <2>1. CASE v \in ToSet(idle)
    <3>1. PICK i \in DOMAIN idle : idle[i] = v
      BY <2>1 DEF ToSet
    <3>2. <<"idle", i>> \in Owners(v)
      BY <3>1, <1>2
    <3> QED BY <3>2
  <2>2. CASE v \in maint.slots
    BY <2>2, <1>2
  <2>3. CASE v \in maint.doomed
    BY <2>3, <1>2
  <2>4. CASE v \in Out
    <3>1. (\E t \in Tasks : task[t].vm = v) \/ (\E l \in LeaseIds : leases[l].vm = v)
      BY <1>1, <2>4, HeldFacts
    <3>2. ASSUME NEW t \in Tasks, task[t].vm = v PROVE <<"task", t>> \in Owners(v)
      BY <3>2, <1>2
    <3>3. ASSUME NEW l \in LeaseIds, leases[l].vm = v PROVE <<"lease", l>> \in Owners(v)
      BY <3>3, <1>2
    <3> QED BY <3>1, <3>2, <3>3
  <2> QED BY <1>10, <2>1, <2>2, <2>3, <2>4 DEF Out, Pooled
<1> QED BY <1>8, <1>9, <1>10

\* Every running VM has exactly one owner, except the ones whose manager an
\* error return dropped (a guest not ready in time, a client gone before its
\* answer), which have none: the replenisher, eviction, the reaper, releases and
\* the drain hand VMs over without losing or sharing one, also after such losses.
THEOREM EveryVmIsOwned == Spec => []VmHasOneOwner
<1>1. ASSUME IndInv PROVE VmHasOneOwner
  <2> SUFFICES ASSUME NEW v \in VMs
               PROVE  IF v \in live \ lost THEN Cardinality(Owners(v)) = 1 ELSE Owners(v) = {}
    BY DEF VmHasOneOwner
  <2>1. v \notin live \ lost => Owners(v) = {}
    BY <1>1, OwnersFacts
  <2>2. ASSUME v \in live \ lost PROVE Cardinality(Owners(v)) = 1
    <3>1. PICK x \in Owners(v) : TRUE
      BY <1>1, <2>2, OwnersFacts
    <3>2. Owners(v) = {x}
      BY <1>1, <3>1, OwnersFacts
    <3> QED BY <3>2, FS_Singleton
  <2> QED BY <2>1, <2>2
<1> QED BY <1>1, Invariance, PTL

\* The VMs that tasks and leases have are no more than the permits in use.
LEMMA HeldVmsBound ==
    ASSUME IndInv, NEW S \in SUBSET VMs,
           \A v \in S : \/ \E t \in Tasks : task[t].vm = v
                        \/ \E l \in LeaseIds : leases[l].vm = v
    PROVE  Cardinality(S) <= MaxSize
<1> DEFINE A == {v \in S : \E t \in Tasks : task[t].vm = v}
           B == {v \in S : \E l \in LeaseIds : leases[l].vm = v}
           p == PermitHolders
           m == LeasesWithPermit
           f == [v \in A |-> CHOOSE t \in Tasks : task[t].vm = v]
           g == [v \in B |-> CHOOSE l \in LeaseIds : leases[l].vm = v]
<1>1. \A v \in S : v # NoVm
  BY NoVmAssumption
<1>2. \A v \in A : f[v] \in Tasks /\ task[f[v]].vm = v
  OBVIOUS
<1>3. \A v \in B : g[v] \in LeaseIds /\ leases[g[v]].vm = v
  OBVIOUS
<1>4. \A t \in Tasks : task[t].vm # NoVm => t \in p
  BY DEF IndInv, Fits, TasksFit, GoodTask, VmPcs, PermitHolders
<1>5. \A l \in LeaseIds : leases[l].vm # NoVm => l \in m
  BY DEF IndInv, Fits, LeasesFit, GoodLease, LeasesWithPermit
<1>6. f \in [A -> p]
  BY <1>1, <1>2, <1>4
<1>7. g \in [B -> m]
  BY <1>1, <1>3, <1>5
<1>8. S = A \cup B
  OBVIOUS
<1>9. /\ IsFiniteSet(p) /\ Cardinality(p) \in Nat
      /\ IsFiniteSet(m) /\ Cardinality(m) \in Nat
      /\ MaxSize \in Nat /\ Cardinality(p) + Cardinality(m) <= MaxSize
  BY PermitFacts DEF IndInv, PermitsFit, PermitsInUse
<1> HIDE DEF A, B, p, m, f, g
<1>10. f \in Injection(A, p)
  BY <1>2, <1>6 DEF Injection, IsInjective
<1>11. g \in Injection(B, m)
  BY <1>3, <1>7 DEF Injection, IsInjective
<1>12. IsFiniteSet(A) /\ Cardinality(A) <= Cardinality(p)
  BY <1>9, <1>10, FS_Injection
<1>13. IsFiniteSet(B) /\ Cardinality(B) <= Cardinality(m)
  BY <1>9, <1>11, FS_Injection
<1>14. /\ Cardinality(A \cup B) = Cardinality(A) + Cardinality(B) - Cardinality(A \cap B)
       /\ IsFiniteSet(A \cap B)
  BY <1>12, <1>13, FS_Union, FS_Intersection
<1>15. Cardinality(A) \in Nat /\ Cardinality(B) \in Nat /\ Cardinality(A \cap B) \in Nat
  BY <1>12, <1>13, <1>14, FS_CardinalityType
<1>16. Cardinality(A \cup B) <= MaxSize
  BY <1>9, <1>12, <1>13, <1>14, <1>15
<1> QED BY <1>8, <1>16

\* The VMs that requests and leases have are never more than max_size, whatever
\* VMs were lost before: a permit is given back after the teardown, and moves
\* with the VM to a lease.  A lost VM runs beside this bound.
THEOREM PermitsBoundUse == Spec => []InUseWithinPermits
<1>1. ASSUME IndInv PROVE InUseWithinPermits
  <2>1. Out \in SUBSET VMs
    BY <1>1 DEF Out, IndInv, TypeOK, PoolTypeOK
  <2>2. \A v \in Out : \/ \E t \in Tasks : task[t].vm = v
                       \/ \E l \in LeaseIds : leases[l].vm = v
    BY <1>1, HeldFacts DEF IndInv, Owned, Held
  <2>3. Cardinality(Out) <= MaxSize
    BY <1>1, <2>1, <2>2, HeldVmsBound
  <2> QED BY <2>3 DEF InUseWithinPermits, Out, Pooled
<1> QED BY <1>1, Invariance, PTL

=============================================================================
