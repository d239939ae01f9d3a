------------------------ MODULE SegmentLevelsProofs -------------------------
(***************************************************************************)
(* Proofs about SegmentLevels, for any number of processes, documents and  *)
(* levels, and also when vacuum and forced merges overlap with spills:     *)
(* spills exclude each other; when ChainFrom returns a given sequence of   *)
(* blocks, and what pushing, cutting, replacing and truncating do to it.   *)
(***************************************************************************)
EXTENDS SegmentLevels, SequenceTheorems, FiniteSetTheorems, WellFoundedInduction, TLAPS

MergeSteps == {"read", "merge", "swap", "free"}
SpillSteps == {"write", "link", "check", "recheck", "unlock"}

\* A process is in a spill or in the compaction that belongs to it.
InSpill(p) ==
    \/ run[p].at \in SpillSteps
    \/ run[p].at \in MergeSteps /\ run[p].task # "force"

\* Two processes never spill or compact at the same time.
SpillsAlone == \A p, q \in Procs : InSpill(p) /\ InSpill(q) => p = q

HoldLock    == \A p \in Procs : InSpill(p) => lock = p
ForcedSteps == \A p \in Procs :
    /\ run[p].at \in {"force", "truncate"} => run[p].task = "force"
    /\ run[p].at \in SpillSteps \cup {"lock"} => run[p].task # "force"
RunsTyped   == run \in [Procs -> Runs]
IInv        == RunsTyped /\ HoldLock /\ ForcedSteps

\* Nobody is not a process, so a free lock means that nobody spills.
LEMMA FreeLock == IInv /\ lock = Nobody => \A p \in Procs : ~InSpill(p)
  BY ProcessesAssumption DEF IInv, HoldLock, Procs

\* A step of one process that leaves the lock alone and, if it leads into a spill,
\* starts in one, keeps the invariant.
LEMMA StepKeeps ==
    ASSUME IInv, NEW p \in Procs, NEW step \in Steps, Goto(p, step), lock' = lock,
           step \in SpillSteps => run[p].at \in SpillSteps \cup MergeSteps
                                    /\ run[p].task # "force",
           step \in MergeSteps => run[p].at \in SpillSteps \cup MergeSteps
                                    \/ run[p].task = "force",
           step \in {"force", "truncate"} => run[p].task = "force",
           step # "lock"
    PROVE  IInv'
<1> USE DEF IInv, RunsTyped, HoldLock, ForcedSteps, InSpill, Runs
<1>1. run' = [run EXCEPT ![p].at = step]
  BY DEF Goto
<1>2. RunsTyped'
  BY <1>1
<1>3. HoldLock'
  <2> SUFFICES ASSUME NEW q \in Procs, InSpill(q)' PROVE lock = q
    OBVIOUS
  <2>1. CASE q = p
    BY <1>1, <2>1
  <2>2. CASE q # p
    BY <1>1, <2>2
  <2> QED
    BY <2>1, <2>2
<1>4. ForcedSteps'
  <2> SUFFICES ASSUME NEW q \in Procs
               PROVE  /\ run'[q].at \in {"force", "truncate"} => run'[q].task = "force"
                      /\ run'[q].at \in SpillSteps \cup {"lock"} => run'[q].task # "force"
    OBVIOUS
  <2>1. CASE q = p
    BY <1>1, <2>1
  <2>2. CASE q # p
    BY <1>1, <2>2
  <2> QED
    BY <2>1, <2>2
<1> QED
  BY <1>2, <1>3, <1>4

\* A process that begins or ends a task.
LEMMA BeginKeeps ==
    ASSUME IInv, NEW p \in Procs, NEW t \in Tasks, NEW step \in Steps, Begin(p, t, step),
           step \in SpillSteps => t = "spill" /\ lock = Nobody /\ lock' = p,
           step \notin SpillSteps => lock' = lock,
           step \notin MergeSteps,
           step \in {"force", "truncate"} => t = "force",
           step = "lock" => t # "force"
    PROVE  IInv'
<1> USE DEF IInv, RunsTyped, HoldLock, ForcedSteps, InSpill, Runs
<1>1. run' = [run EXCEPT ![p] = [task |-> t, at |-> step]]
  BY DEF Begin
<1>2. RunsTyped'
  BY <1>1
<1>3. HoldLock'
  <2> SUFFICES ASSUME NEW q \in Procs, InSpill(q)' PROVE lock' = q
    OBVIOUS
  <2>1. CASE q = p
    BY <1>1, <2>1 DEF SpillSteps, MergeSteps
  <2>2. CASE q # p
    <3>1. InSpill(q)
      BY <1>1, <2>2
    <3> QED
      BY <3>1, FreeLock
  <2> QED
    BY <2>1, <2>2
<1>4. ForcedSteps'
  <2> SUFFICES ASSUME NEW q \in Procs
               PROVE  /\ run'[q].at \in {"force", "truncate"} => run'[q].task = "force"
                      /\ run'[q].at \in SpillSteps \cup {"lock"} => run'[q].task # "force"
    OBVIOUS
  <2>1. CASE q = p
    BY <1>1, <2>1
  <2>2. CASE q # p
    BY <1>1, <2>2
  <2> QED
    BY <2>1, <2>2
<1> QED
  BY <1>2, <1>3, <1>4

\* Vacuum takes the lock when nobody has it.
LEMMA LockForVacuumKeeps == IInv /\ LockForVacuum => IInv'
<1> SUFFICES ASSUME IInv, LockForVacuum PROVE IInv'
  OBVIOUS
<1> USE DEF IInv, RunsTyped, HoldLock, ForcedSteps, InSpill, Runs, Procs
<1>1. /\ run' = [run EXCEPT ![Vacuum].at = "write"]
      /\ run[Vacuum].at = "lock" /\ lock = Nobody /\ lock' = Vacuum
  BY DEF LockForVacuum, Goto
<1>2. RunsTyped'
  BY <1>1 DEF Steps
<1>3. HoldLock'
  <2> SUFFICES ASSUME NEW q \in Procs, InSpill(q)', q # Vacuum PROVE FALSE
    BY <1>1
  <2> QED
    BY <1>1, FreeLock
<1>4. ForcedSteps'
  BY <1>1 DEF SpillSteps
<1> QED
  BY <1>2, <1>3, <1>4

\* Whoever ends its spill held the lock, so nobody else was in a spill.
LEMMA EndSpillKeeps == ASSUME IInv, NEW p \in Procs, EndSpill(p) PROVE IInv'
<1> USE DEF IInv, RunsTyped, HoldLock, ForcedSteps, InSpill, Runs
<1>1. run[p].at = "unlock" /\ lock = p
  BY DEF EndSpill, SpillSteps
<1>2. \E r \in Runs : /\ run' = [run EXCEPT ![p] = r]
                      /\ r.at \in {"survey", "idle"}
  <2>1. CASE p = Vacuum
    BY <2>1, <1>1 DEF EndSpill, Goto, Steps
  <2>2. CASE p # Vacuum
    BY <2>2 DEF EndSpill, Begin, Steps, Tasks
  <2> QED
    BY <2>1, <2>2
<1>3. PICK r \in Runs : run' = [run EXCEPT ![p] = r] /\ r.at \in {"survey", "idle"}
  BY <1>2
<1>4. RunsTyped'
  BY <1>3
<1>5. HoldLock'
  BY <1>1, <1>3 DEF SpillSteps, MergeSteps
<1>6. ForcedSteps'
  <2> SUFFICES ASSUME NEW q \in Procs
               PROVE  /\ run'[q].at \in {"force", "truncate"} => run'[q].task = "force"
                      /\ run'[q].at \in SpillSteps \cup {"lock"} => run'[q].task # "force"
    OBVIOUS
  <2>1. CASE q = p
    BY <1>3, <2>1 DEF SpillSteps
  <2>2. CASE q # p
    BY <1>3, <2>2
  <2> QED
    BY <2>1, <2>2
<1> QED
  BY <1>4, <1>5, <1>6

\* The steps of a merge keep the invariant.
LEMMA MergingKeeps == ASSUME IInv, NEW p \in Procs, Merging(p) PROVE IInv'
<1> USE DEF IInv, ForcedSteps, MergeSteps, SpillSteps, Steps
<1>1. CASE CheckLevel(p)
  <2>1. PICK step \in {"read", "unlock"} : Goto(p, step)
    BY <1>1 DEF CheckLevel
  <2> QED
    BY <1>1, <2>1, StepKeeps DEF CheckLevel
<1>2. CASE Recheck(p)
  <2>1. PICK step \in {"read", "check"} : Goto(p, step)
    BY <1>2 DEF Recheck
  <2> QED
    BY <1>2, <2>1, StepKeeps DEF Recheck
<1>3. CASE MergeRead(p)
  <2>1. PICK step \in {"merge", "force", "check"} :
          /\ Goto(p, step)
          /\ step = "force" => run[p].task = "force"
          /\ step = "check" => run[p].task # "force"
    BY <1>3 DEF MergeRead
  <2> QED
    BY <1>3, <2>1, StepKeeps DEF MergeRead
<1>4. CASE MergeWrite(p)
  BY <1>4, StepKeeps DEF MergeWrite
<1>5. CASE MergeSwap(p)
  BY <1>5, StepKeeps DEF MergeSwap
<1>6. CASE MergeFree(p)
  <2>1. PICK step \in {"force", "recheck"} :
          /\ Goto(p, step)
          /\ step = "force" => run[p].task = "force"
          /\ step = "recheck" => run[p].task # "force"
    BY <1>6 DEF MergeFree
  <2> QED
    BY <1>6, <2>1, StepKeeps DEF MergeFree
<1> QED
  BY <1>1, <1>2, <1>3, <1>4, <1>5, <1>6 DEF Merging

\* So do the steps of a spill.
LEMMA SpillingKeeps == ASSUME IInv, NEW p \in Procs, Spilling(p) PROVE IInv'
<1> USE DEF IInv, ForcedSteps, SpillSteps, MergeSteps, Steps
<1>1. CASE NothingToSpill(p)
  BY <1>1, StepKeeps DEF NothingToSpill
<1>2. CASE WriteSegment(p)
  BY <1>2, StepKeeps DEF WriteSegment
<1>3. CASE LinkSegment(p)
  BY <1>3, StepKeeps DEF LinkSegment
<1> QED
  BY <1>1, <1>2, <1>3, EndSpillKeeps DEF Spilling

\* Of the steps of vacuum outside its spill, none takes or needs the lock.
LEMMA VacuumingKeeps == IInv /\ Vacuuming => IInv'
<1> SUFFICES ASSUME IInv, Vacuuming PROVE IInv'
  OBVIOUS
<1> USE DEF MergeSteps, SpillSteps, Steps, Tasks
<1>0. Vacuum \in Procs
  BY DEF Procs
<1>1. CASE StartVacuum
  <2>1. PICK step \in {"lock", "survey"} : Begin(Vacuum, "vacuum", step)
    BY <1>1 DEF StartVacuum
  <2> QED
    BY <1>0, <1>1, <2>1, BeginKeeps DEF StartVacuum
<1>2. CASE Survey
  <2>1. PICK step \in {"finish", "sweep"} : Goto(Vacuum, step)
    BY <1>2 DEF Survey
  <2> QED
    BY <1>0, <1>2, <2>1, StepKeeps DEF Survey
<1>3. CASE FinishVacuum
  BY <1>0, <1>3, BeginKeeps DEF FinishVacuum
<1>4. CASE UNCHANGED <<run, lock>>
  BY <1>4 DEF IInv, RunsTyped, HoldLock, ForcedSteps, InSpill
<1>5. CASE PassLevel
  BY <1>0, <1>4, <1>5, StepKeeps DEF PassLevel
<1>6. CASE RebuildSegment
  BY <1>0, <1>6, StepKeeps DEF RebuildSegment
<1>7. CASE ReplaceSegment
  BY <1>0, <1>7, StepKeeps DEF ReplaceSegment
<1> QED
  BY <1>1, <1>2, <1>3, <1>4, <1>5, <1>6, <1>7, LockForVacuumKeeps DEF Vacuuming, PassSegment

\* Every step keeps the invariant.
LEMMA NextKeeps == IInv /\ [Next]_vars => IInv'
<1> SUFFICES ASSUME IInv, [Next]_vars PROVE IInv'
  OBVIOUS
<1> USE DEF MergeSteps, SpillSteps, Steps, Tasks
<1>1. CASE UNCHANGED <<run, lock>>
  BY <1>1 DEF IInv, RunsTyped, HoldLock, ForcedSteps, InSpill
<1>2. ASSUME NEW d \in Docs, Insert(d) \/ Delete(d) PROVE IInv'
  BY <1>1, <1>2 DEF Insert, Delete
<1>3. ASSUME NEW p \in Backends, StartSpill(p) PROVE IInv'
  BY <1>3, BeginKeeps DEF StartSpill, Procs
<1>4. ASSUME NEW p \in Backends, StartForce(p) PROVE IInv'
  BY <1>4, BeginKeeps DEF StartForce, Procs
<1>5. ASSUME NEW p \in Backends, ForceLevel(p) PROVE IInv'
  <2>1. run[p].task = "force"
    BY <1>5 DEF ForceLevel, IInv, ForcedSteps, Procs
  <2>2. PICK step \in {"read", "truncate"} : Goto(p, step)
    BY <1>5 DEF ForceLevel
  <2> QED
    BY <1>5, <2>1, <2>2, StepKeeps DEF ForceLevel, Procs
<1>6. ASSUME NEW p \in Backends, Truncate(p) PROVE IInv'
  BY <1>6, BeginKeeps DEF Truncate, Procs
<1>7. CASE UNCHANGED vars
  BY <1>1, <1>7 DEF vars
<1> QED
  BY <1>2, <1>3, <1>4, <1>5, <1>6, <1>7, SpillingKeeps, MergingKeeps, VacuumingKeeps DEF Next

\* At most one process at a time is in a spill or in the compaction after it,
\* whatever vacuum and forced merges do (tp_acquire_index_lock).
THEOREM SpillsAloneAlways == Spec => []SpillsAlone
<1>1. Init => IInv
  BY DEF Init, IInv, RunsTyped, HoldLock, ForcedSteps, InSpill, Idle, Runs, Tasks, Steps,
         SpillSteps, MergeSteps
<1>2. IInv => SpillsAlone
  BY DEF IInv, HoldLock, SpillsAlone
<1> QED
  BY <1>1, <1>2, NextKeeps, PTL DEF Spec

-----------------------------------------------------------------------------
(* Chains as sequences of blocks. *)

\* The numbers below 1, 2, ... in order: a set of them has a least one.
LEMMA LeastNumber ==
    ASSUME NEW T, T \subseteq Nat, T # {}
    PROVE  \E m \in T : \A n \in T : m <= n
<1>1. PICK m \in T : \A n \in T : ~ (<<n, m>> \in OpToRel(<, Nat))
  BY WFMin, NatLessThanWellFounded
<1>2. \A n \in T : n \in Nat /\ m \in Nat /\ ~ (n < m)
  BY <1>1 DEF OpToRel
<1> QED
  BY <1>2

\* The first n numbers.
LEMMA CountNumbers ==
    ASSUME NEW n \in Nat
    PROVE  IsFiniteSet(1 .. n) /\ Cardinality(1 .. n) = n
<1>1. 1 \in Int /\ n \in Int /\ (1 > n <=> n = 0) /\ n - 1 + 1 = n
  OBVIOUS
<1>2. IsFiniteSet(1 .. n) /\ Cardinality(1 .. n) = IF 1 > n THEN 0 ELSE n - 1 + 1
  BY <1>1, FS_Interval
<1> QED
  BY <1>1, <1>2

\* s lists the blocks of a chain that starts at b and ends: each leads to the
\* next, and none comes twice.
Sound(b, s, ps) ==
    /\ s \in Seq(1 .. Len(ps))
    /\ \A i, j \in 1 .. Len(s) : s[i] = s[j] => i = j
    /\ b = Remainder(s, 0)
    /\ \A i \in 1 .. Len(s) : ps[s[i]].next = Remainder(s, i)

\* Such a chain has at most as many blocks as there are.
LEMMA SoundShort ==
    ASSUME NEW ps \in Seq(Segments), NEW b, NEW s, Sound(b, s, ps)
    PROVE  Len(s) \in 0 .. Len(ps)
<1>1. Len(ps) \in Nat /\ Len(s) \in Nat /\ s \in [1 .. Len(s) -> 1 .. Len(ps)]
  BY LenProperties DEF Sound
<1>2. s \in Injection(1 .. Len(s), 1 .. Len(ps))
  BY <1>1 DEF Sound, Injection, IsInjective
<1>3. IsFiniteSet(1 .. Len(ps)) /\ Cardinality(1 .. Len(ps)) = Len(ps)
  BY <1>1, CountNumbers
<1>4. Cardinality(1 .. Len(s)) = Len(s)
  BY <1>1, CountNumbers
<1>5. Cardinality(1 .. Len(s)) <= Cardinality(1 .. Len(ps))
  BY <1>2, <1>3, FS_Injection
<1> QED
  BY <1>1, <1>3, <1>4, <1>5

\* Following next in a sound chain gives its blocks one by one, then None.
LEMMA SoundNext ==
    ASSUME NEW ps \in Seq(Segments), NEW b, NEW s, Sound(b, s, ps), NEW n \in Nat
    PROVE  NextOf(Remainder(s, n), ps) = Remainder(s, n + 1)
<1>1. DOMAIN ps = 1 .. Len(ps) /\ Len(ps) \in Nat /\ Len(s) \in Nat
  BY LenProperties DEF Sound
<1>2. CASE n < Len(s)
  <2>1. n + 1 \in 1 .. Len(s) /\ s[n + 1] \in 1 .. Len(ps)
    BY <1>1, <1>2, ElementOfSeq DEF Sound
  <2> QED
    BY <1>1, <1>2, <2>1 DEF Sound, Remainder, NextOf
<1>3. CASE ~ (n < Len(s))
  BY <1>1, <1>3 DEF Remainder, NextOf, None
<1> QED
  BY <1>2, <1>3

\* ChainFrom finds a chain that is there.
LEMMA SoundIsChain ==
    ASSUME NEW ps \in Seq(Segments), NEW b, NEW s, Sound(b, s, ps)
    PROVE  ChainFrom(b, ps) = s
<1> DEFINE N == Len(ps)
           step(f) == [n \in 1 .. N + 1 |-> IF n = 1 THEN b ELSE NextOf(f[n - 1], ps)]
           at == CHOOSE f : f = step(f)
           len == CHOOSE k \in 0 .. N + 1 :
                    (k <= N => at[k + 1] = None) /\ \A n \in 1 .. k : at[n] # None
           path == [n \in 1 .. N + 1 |-> Remainder(s, n - 1)]
<1>1. N \in Nat /\ Len(s) \in 0 .. N
  BY SoundShort, LenProperties
<1>2. path = step(path)
  <2>1. ASSUME NEW n \in 1 .. N + 1
        PROVE  Remainder(s, n - 1) = IF n = 1 THEN b ELSE NextOf(path[n - 1], ps)
    <3>1. CASE n = 1
      BY <3>1 DEF Sound
    <3>2. CASE n # 1
      <4>1. n - 2 \in Nat /\ n - 1 \in 1 .. N + 1 /\ (n - 2) + 1 = n - 1 /\ (n - 1) - 1 = n - 2
        BY <1>1, <2>1, <3>2
      <4>2. path[n - 1] = Remainder(s, n - 2)
        BY <4>1
      <4> QED
        BY <3>2, <4>1, <4>2, SoundNext
    <3> QED
      BY <3>1, <3>2
  <2> QED
    BY <2>1
<1>3. at = step(at)
  BY <1>2
<1> HIDE DEF at
<1>4. ASSUME NEW n \in 1 .. N + 1 PROVE at[n] = path[n]
  <2> DEFINE T == {m \in 1 .. N + 1 : at[m] # path[m]}
  <2> SUFFICES ASSUME T # {} PROVE FALSE
    OBVIOUS
  <2>1. PICK m \in T : \A k \in T : m <= k
    <3>1. T \subseteq Nat
      BY <1>1
    <3> HIDE DEF T
    <3> QED
      BY <3>1, LeastNumber
  <2>2. m \in 1 .. N + 1 /\ at[m] # path[m]
    OBVIOUS
  <2>3. at[m] = (IF m = 1 THEN b ELSE NextOf(at[m - 1], ps))
    BY <1>3, <2>2
  <2>4. path[m] = (IF m = 1 THEN b ELSE NextOf(path[m - 1], ps))
    BY <1>2, <2>2
  <2>5. m # 1 => m - 1 \in 1 .. N + 1 /\ ~ (m <= m - 1)
    BY <1>1, <2>2
  <2>6. m # 1 => at[m - 1] = path[m - 1]
    BY <2>1, <2>5
  <2> QED
    BY <2>2, <2>3, <2>4, <2>6
<1>5. \A n \in 1 .. N + 1 : at[n] = None <=> n > Len(s)
  <2> SUFFICES ASSUME NEW n \in 1 .. N + 1 PROVE at[n] = None <=> n > Len(s)
    OBVIOUS
  <2>1. at[n] = Remainder(s, n - 1)
    BY <1>4
  <2>2. CASE n > Len(s)
    BY <1>1, <2>1, <2>2 DEF Remainder
  <2>3. CASE ~ (n > Len(s))
    <3>1. n \in 1 .. Len(s) /\ n - 1 < Len(s) /\ (n - 1) + 1 = n
      BY <1>1, <2>3
    <3>2. s[n] \in 1 .. N
      BY <3>1, ElementOfSeq DEF Sound
    <3> QED
      BY <1>1, <2>1, <2>3, <3>1, <3>2 DEF Remainder, None
  <2> QED
    BY <2>2, <2>3
<1>6. \A k \in 0 .. N + 1 :
          ((k <= N => at[k + 1] = None) /\ \A n \in 1 .. k : at[n] # None) <=> k = Len(s)
  <2> SUFFICES ASSUME NEW k \in 0 .. N + 1
               PROVE  ((k <= N => at[k + 1] = None) /\ \A n \in 1 .. k : at[n] # None)
                          <=> k = Len(s)
    OBVIOUS
  <2>1. CASE k = Len(s)
    <3>1. k <= N => k + 1 \in 1 .. N + 1 /\ k + 1 > Len(s)
      BY <1>1, <2>1
    <3>2. \A n \in 1 .. k : n \in 1 .. N + 1 /\ ~ (n > Len(s))
      BY <1>1, <2>1
    <3> QED
      BY <1>5, <2>1, <3>1, <3>2
  <2>2. CASE k < Len(s)
    <3>1. k <= N /\ k + 1 \in 1 .. N + 1 /\ ~ (k + 1 > Len(s))
      BY <1>1, <2>2
    <3> QED
      BY <1>1, <1>5, <2>2, <3>1
  <2>3. CASE k > Len(s)
    <3>1. Len(s) + 1 \in 1 .. k /\ Len(s) + 1 \in 1 .. N + 1 /\ Len(s) + 1 > Len(s)
      BY <1>1, <2>3
    <3> QED
      BY <1>1, <1>5, <2>3, <3>1
  <2> QED
    BY <1>1, <2>1, <2>2, <2>3
<1>7. Len(s) \in 0 .. N + 1
  BY <1>1
<1>8. len = Len(s)
  BY <1>6, <1>7
<1> HIDE DEF len
<1>9. \A n \in 1 .. Len(s) : at[n] = s[n]
  <2> SUFFICES ASSUME NEW n \in 1 .. Len(s) PROVE at[n] = s[n]
    OBVIOUS
  <2>1. n \in 1 .. N + 1 /\ n - 1 < Len(s) /\ (n - 1) + 1 = n
    BY <1>1
  <2> QED
    BY <1>4, <2>1 DEF Remainder
<1>10. ChainFrom(b, ps) = [n \in 1 .. len |-> at[n]]
  BY DEF ChainFrom, len, at
<1>11. s = [n \in 1 .. Len(s) |-> s[n]]
  BY LenProperties DEF Sound
<1> QED
  BY <1>8, <1>9, <1>10, <1>11

-----------------------------------------------------------------------------
(* What happens to a chain. *)

\* A sound chain is a sequence, and its elements are the blocks in it.
LEMMA SoundSeq ==
    ASSUME NEW ps \in Seq(Segments), NEW b, NEW s, Sound(b, s, ps)
    PROVE  /\ Len(s) \in Nat /\ DOMAIN s = 1 .. Len(s) /\ s \in [1 .. Len(s) -> 1 .. Len(ps)]
           /\ \A i \in 1 .. Len(s) : s[i] \in 1 .. Len(ps)
           /\ Elements(s) = {s[i] : i \in 1 .. Len(s)}
<1>1. Len(s) \in Nat /\ DOMAIN s = 1 .. Len(s) /\ s \in [1 .. Len(s) -> 1 .. Len(ps)]
  BY LenProperties DEF Sound
<1> QED
  BY <1>1 DEF Elements

\* What becomes of a chain: a block in front of it, what is behind its first n
\* blocks, another block in the place of its k-th, its k-th block unlinked.
Front(b, s)       == <<b>> \o s
Behind(s, n)      == SubSeq(s, n + 1, Len(s))
Replaced(s, k, b) == [s EXCEPT ![k] = b]
Without(s, k)     == [i \in 1 .. Len(s) - 1 |-> s[IF i < k THEN i ELSE i + 1]]

\* The m-th to the n-th of its blocks.
Among(s, m, n) == {s[i] : i \in m .. n}

\* Its blocks keep their successors in qs: all of them, or all but the k-th and
\* the one before.
Keeps(s, ps, qs) == \A i \in 1 .. Len(s) : qs[s[i]].next = ps[s[i]].next
KeepsBut(s, k, ps, qs) ==
    \A i \in 1 .. Len(s) : i # k /\ i # k - 1 => qs[s[i]].next = ps[s[i]].next

\* It stays the same chain as long as its blocks stay and keep their successors.
LEMMA SoundKept ==
    ASSUME NEW ps \in Seq(Segments), NEW qs \in Seq(Segments), NEW b, NEW s, Sound(b, s, ps),
           Elements(s) \subseteq 1 .. Len(qs), Keeps(s, ps, qs)
    PROVE  Sound(b, s, qs)
<1>1. Len(s) \in Nat /\ s = [i \in 1 .. Len(s) |-> s[i]]
  BY SoundSeq
<1>2. \A i \in 1 .. Len(s) : s[i] \in 1 .. Len(qs)
  BY SoundSeq
<1>3. s \in Seq(1 .. Len(qs))
  BY <1>1, <1>2, SeqDef
<1> QED
  BY <1>3 DEF Sound, Keeps

\* A block in front of it whose successor is its first block.
LEMMA SoundPushed ==
    ASSUME NEW ps \in Seq(Segments), NEW qs \in Seq(Segments), Len(qs) = Len(ps),
           NEW h, NEW s, Sound(h, s, ps),
           NEW b \in 1 .. Len(ps), b \notin Elements(s), qs[b].next = h, Keeps(s, ps, qs)
    PROVE  /\ Sound(b, Front(b, s), qs)
           /\ Len(Front(b, s)) = Len(s) + 1
           /\ Elements(Front(b, s)) = Elements(s) \cup {b}
<1> DEFINE t == Front(b, s)
<1>1. /\ Len(s) \in Nat /\ Elements(s) = {s[i] : i \in 1 .. Len(s)} /\ Len(ps) \in Nat
      /\ s \in Seq(1 .. Len(ps)) /\ <<b>> \in Seq(1 .. Len(ps)) /\ Len(<<b>>) = 1
  <2>1. Len(s) \in Nat /\ Elements(s) = {s[i] : i \in 1 .. Len(s)} /\ Len(ps) \in Nat
    BY SoundSeq, LenProperties
  <2>2. s \in Seq(1 .. Len(ps))
    BY DEF Sound
  <2>3. <<b>> \in Seq(1 .. Len(ps)) /\ Len(<<b>>) = 1
    OBVIOUS
  <2> QED
    BY <2>1, <2>2, <2>3
<1>2. /\ t \in Seq(1 .. Len(ps)) /\ Len(t) = Len(s) + 1
      /\ \A i \in 1 .. Len(s) + 1 : t[i] = IF i = 1 THEN b ELSE s[i - 1]
  <2>1. /\ t \in Seq(1 .. Len(ps)) /\ Len(t) = 1 + Len(s)
        /\ \A i \in 1 .. 1 + Len(s) : t[i] = IF i <= 1 THEN <<b>>[i] ELSE s[i - 1]
    BY <1>1, ConcatProperties DEF Front
  <2> QED
    BY <1>1, <2>1
<1> HIDE DEF t
<1>3. DOMAIN t = 1 .. Len(s) + 1
  BY <1>2, LenProperties
<1>4. Elements(t) = Elements(s) \cup {b}
  <2>1. \A i \in 1 .. Len(s) : i + 1 \in 1 .. Len(s) + 1 /\ t[i + 1] = s[i]
    BY <1>1, <1>2
  <2>2. 1 \in 1 .. Len(s) + 1 /\ t[1] = b
    BY <1>1, <1>2
  <2>3. \A i \in 1 .. Len(s) + 1 : i # 1 => i - 1 \in 1 .. Len(s) /\ t[i] = s[i - 1]
    BY <1>1, <1>2
  <2>4. Elements(t) = {t[i] : i \in 1 .. Len(s) + 1}
    BY <1>3 DEF Elements
  <2>5. Elements(t) \subseteq Elements(s) \cup {b}
    BY <1>1, <2>2, <2>3, <2>4
  <2>6. Elements(s) \cup {b} \subseteq Elements(t)
    BY <1>1, <2>1, <2>2, <2>4
  <2> QED
    BY <2>5, <2>6
<1>5. ASSUME NEW i \in 1 .. Len(t), NEW j \in 1 .. Len(t), t[i] = t[j] PROVE i = j
  <2>1. \A k \in 1 .. Len(t) : k # 1 => k - 1 \in 1 .. Len(s) /\ t[k] = s[k - 1]
    BY <1>1, <1>2
  <2>2. \A k \in 1 .. Len(s) : s[k] # b
    BY <1>1
  <2>3. t[1] = b /\ i \in Nat /\ j \in Nat
    BY <1>1, <1>2
  <2>4. CASE i # 1 /\ j # 1
    <3>1. i - 1 \in 1 .. Len(s) /\ j - 1 \in 1 .. Len(s) /\ s[i - 1] = s[j - 1]
      BY <1>5, <2>1, <2>4
    <3>2. i - 1 = j - 1
      BY <3>1 DEF Sound
    <3> QED
      BY <2>3, <3>2
  <2>5. CASE i = 1 \/ j = 1
    BY <1>5, <2>1, <2>2, <2>3, <2>5
  <2> QED
    BY <2>4, <2>5
<1>6. b = Remainder(t, 0)
  <2>1. 0 < Len(t) /\ 0 + 1 = 1 /\ 1 \in 1 .. Len(s) + 1
    BY <1>1, <1>2
  <2> QED
    BY <1>2, <2>1 DEF Remainder
<1>7. ASSUME NEW i \in 1 .. Len(t) PROVE qs[t[i]].next = Remainder(t, i)
  <2>1. \A n \in 1 .. Len(t) : Remainder(t, n) = Remainder(s, n - 1)
    <3> TAKE n \in 1 .. Len(t)
    <3>1. n < Len(t) <=> n - 1 < Len(s)
      BY <1>1, <1>2
    <3>2. n < Len(t) => t[n + 1] = s[(n - 1) + 1]
      <4>1. n < Len(t) => n + 1 \in 1 .. Len(s) + 1 /\ n + 1 # 1 /\ (n + 1) - 1 = (n - 1) + 1
        BY <1>1, <1>2
      <4> QED
        BY <1>2, <4>1
    <3> QED
      BY <3>1, <3>2 DEF Remainder
  <2>2. CASE i = 1
    BY <1>1, <1>2, <2>1, <2>2 DEF Sound
  <2>3. CASE i # 1
    <3>1. i - 1 \in 1 .. Len(s) /\ t[i] = s[i - 1]
      BY <1>1, <1>2, <2>3
    <3> QED
      BY <2>1, <3>1 DEF Sound, Keeps
  <2> QED
    BY <2>2, <2>3
<1> QED
  BY <1>2, <1>4, <1>5, <1>6, <1>7 DEF Sound, t

\* What is left of it behind its first n blocks.
LEMMA SoundCut ==
    ASSUME NEW ps \in Seq(Segments), NEW b, NEW s, Sound(b, s, ps), NEW n \in 0 .. Len(s)
    PROVE  /\ Sound(Remainder(s, n), Behind(s, n), ps)
           /\ Len(Behind(s, n)) = Len(s) - n
           /\ Elements(Behind(s, n)) = Among(s, n + 1, Len(s))
<1> DEFINE t == Behind(s, n)
<1>1. Len(s) \in Nat /\ n \in Nat /\ n <= Len(s) /\ \A i \in 1 .. Len(s) : s[i] \in 1 .. Len(ps)
  BY SoundSeq
<1>2. /\ t \in Seq(1 .. Len(ps)) /\ Len(t) = Len(s) - n
      /\ \A i \in 1 .. Len(s) - n : t[i] = s[n + i]
  <2>1. /\ n + 1 \in Int /\ Len(s) \in Int
        /\ \A i \in n + 1 .. Len(s) : s[i] \in 1 .. Len(ps)
    BY <1>1
  <2>2. /\ t \in Seq(1 .. Len(ps))
        /\ Len(t) = IF n + 1 <= Len(s) THEN Len(s) - (n + 1) + 1 ELSE 0
        /\ \A i \in 1 .. Len(s) - (n + 1) + 1 : t[i] = s[n + 1 + i - 1]
    BY <2>1, SubSeqProperties DEF Behind
  <2>3. /\ Len(s) - (n + 1) + 1 = Len(s) - n /\ (~ (n + 1 <= Len(s)) => Len(s) - n = 0)
        /\ \A i \in 1 .. Len(s) - n : n + 1 + i - 1 = n + i
    BY <1>1
  <2> HIDE DEF t
  <2>4. Len(t) = Len(s) - n
    BY <2>2, <2>3
  <2>5. \A i \in 1 .. Len(s) - n : t[i] = s[n + i]
    BY <2>2, <2>3
  <2> QED
    BY <2>2, <2>4, <2>5
<1> HIDE DEF t
<1>3. DOMAIN t = 1 .. Len(s) - n
  BY <1>2, LenProperties
<1>4. Elements(t) = {s[i] : i \in n + 1 .. Len(s)}
  <2>1. \A i \in n + 1 .. Len(s) : i - n \in 1 .. Len(s) - n /\ n + (i - n) = i
    BY <1>1
  <2>2. \A i \in 1 .. Len(s) - n : n + i \in n + 1 .. Len(s)
    BY <1>1
  <2>3. Elements(t) = {t[i] : i \in 1 .. Len(s) - n}
    BY <1>3 DEF Elements
  <2>4. Elements(t) \subseteq {s[i] : i \in n + 1 .. Len(s)}
    BY <1>2, <2>2, <2>3
  <2>5. {s[i] : i \in n + 1 .. Len(s)} \subseteq Elements(t)
    BY <1>2, <2>1, <2>3
  <2> QED
    BY <2>4, <2>5
<1>5. ASSUME NEW i \in 1 .. Len(t), NEW j \in 1 .. Len(t), t[i] = t[j] PROVE i = j
  <2>1. n + i \in 1 .. Len(s) /\ n + j \in 1 .. Len(s) /\ s[n + i] = s[n + j]
    BY <1>1, <1>2, <1>5
  <2>2. n + i = n + j
    BY <2>1 DEF Sound
  <2> QED
    BY <1>1, <1>2, <2>2
<1>6. \A i \in 0 .. Len(t) : Remainder(t, i) = Remainder(s, n + i)
  <2> TAKE i \in 0 .. Len(t)
  <2>1. i < Len(t) <=> n + i < Len(s)
    BY <1>1, <1>2
  <2>2. i < Len(t) => i + 1 \in 1 .. Len(s) - n /\ n + (i + 1) = n + i + 1
    BY <1>1, <1>2
  <2> QED
    BY <1>2, <2>1, <2>2 DEF Remainder
<1>7. Remainder(s, n) = Remainder(t, 0)
  BY <1>1, <1>2, <1>6
<1>8. ASSUME NEW i \in 1 .. Len(t) PROVE ps[t[i]].next = Remainder(t, i)
  <2>1. n + i \in 1 .. Len(s) /\ i \in 0 .. Len(t) /\ t[i] = s[n + i]
    BY <1>1, <1>2
  <2> QED
    BY <1>6, <2>1 DEF Sound
<1> QED
  BY <1>2, <1>4, <1>5, <1>7, <1>8 DEF Sound, Among, t

\* A chain falls apart into its first n blocks and the others.
LEMMA Apart ==
    ASSUME NEW ps \in Seq(Segments), NEW b, NEW s, Sound(b, s, ps), NEW n \in 0 .. Len(s)
    PROVE  /\ Among(s, 1, n) \cap Among(s, n + 1, Len(s)) = {}
           /\ Among(s, 1, n) \cup Among(s, n + 1, Len(s)) = Elements(s)
<1>1. Len(s) \in Nat /\ Elements(s) = {s[i] : i \in 1 .. Len(s)}
  BY SoundSeq
<1>2. \A i \in 1 .. Len(s) : i \in 1 .. n \/ i \in n + 1 .. Len(s)
  BY <1>1
<1>3. \A i \in 1 .. n : i \in 1 .. Len(s) /\ \A j \in n + 1 .. Len(s) : j \in 1 .. Len(s) /\ i # j
  BY <1>1
<1>4. \A j \in n + 1 .. Len(s) : j \in 1 .. Len(s)
  BY <1>1
<1>5. \A i, j \in 1 .. Len(s) : s[i] = s[j] => i = j
  BY DEF Sound
<1> QED
  BY <1>1, <1>2, <1>3, <1>4, <1>5 DEF Among

\* Another block in the place of its k-th.
LEMMA SoundReplaced ==
    ASSUME NEW ps \in Seq(Segments), NEW qs \in Seq(Segments), Len(qs) = Len(ps),
           NEW h, NEW s, Sound(h, s, ps), NEW k \in 1 .. Len(s),
           NEW b \in 1 .. Len(ps), b \notin Elements(s), qs[b].next = Remainder(s, k),
           k > 1 => qs[s[k - 1]].next = b, KeepsBut(s, k, ps, qs)
    PROVE  /\ Sound(IF k = 1 THEN b ELSE h, Replaced(s, k, b), qs)
           /\ Len(Replaced(s, k, b)) = Len(s)
           /\ Elements(Replaced(s, k, b)) = (Elements(s) \ {s[k]}) \cup {b}
           /\ \A i \in 1 .. Len(s) : Replaced(s, k, b)[i] = IF i = k THEN b ELSE s[i]
<1> DEFINE t == Replaced(s, k, b)
<1>1. /\ Len(s) \in Nat /\ Elements(s) = {s[i] : i \in 1 .. Len(s)} /\ Len(ps) \in Nat
      /\ s \in Seq(1 .. Len(ps)) /\ \A i \in 1 .. Len(s) : s[i] \in 1 .. Len(ps)
  BY SoundSeq, LenProperties DEF Sound
<1>2. /\ t \in Seq(1 .. Len(ps)) /\ Len(t) = Len(s)
      /\ \A i \in 1 .. Len(s) : t[i] = IF i = k THEN b ELSE s[i]
  BY <1>1, ExceptSeq DEF Replaced
<1> HIDE DEF t
<1>3. Elements(t) = {t[i] : i \in 1 .. Len(s)}
  BY <1>2, LenProperties DEF Elements
<1>4. Elements(t) = (Elements(s) \ {s[k]}) \cup {b}
  <2>1. Elements(t) \subseteq (Elements(s) \ {s[k]}) \cup {b}
    BY <1>1, <1>2, <1>3 DEF Sound
  <2>2. b \in Elements(t)
    BY <1>2, <1>3
  <2>3. ASSUME NEW i \in 1 .. Len(s), s[i] # s[k] PROVE s[i] \in Elements(t)
    <3>1. t[i] = s[i]
      BY <1>2, <2>3
    <3> QED
      BY <1>3, <3>1
  <2>4. Elements(s) \ {s[k]} \subseteq Elements(t)
    BY <1>1, <2>3
  <2> QED
    BY <2>1, <2>2, <2>4
<1>5. ASSUME NEW i \in 1 .. Len(t), NEW j \in 1 .. Len(t), t[i] = t[j] PROVE i = j
  <2>1. \A m, n \in 1 .. Len(s) : s[m] = s[n] => m = n
    BY DEF Sound
  <2>2. \A m \in 1 .. Len(s) : s[m] # b
    BY <1>1
  <2>3. i \in 1 .. Len(s) /\ j \in 1 .. Len(s)
    BY <1>2, <1>5
  <2>4. t[i] = (IF i = k THEN b ELSE s[i]) /\ t[j] = (IF j = k THEN b ELSE s[j])
    BY <1>2, <2>3
  <2> QED
    BY <1>5, <2>1, <2>2, <2>3, <2>4
<1>6. \A i \in 0 .. Len(s) : Remainder(t, i) = IF i = k - 1 THEN b ELSE Remainder(s, i)
  <2> TAKE i \in 0 .. Len(s)
  <2>1. i < Len(s) => i + 1 \in 1 .. Len(s) /\ (i + 1 = k <=> i = k - 1)
    BY <1>1
  <2>2. k - 1 < Len(s)
    BY <1>1
  <2> QED
    BY <1>2, <2>1, <2>2 DEF Remainder
<1>7. (IF k = 1 THEN b ELSE h) = Remainder(t, 0)
  <2>1. 0 \in 0 .. Len(s) /\ (0 = k - 1 <=> k = 1)
    BY <1>1
  <2> QED
    BY <1>6, <2>1 DEF Sound
<1>8. ASSUME NEW i \in 1 .. Len(t) PROVE qs[t[i]].next = Remainder(t, i)
  <2>0. i \in 1 .. Len(s) /\ i \in 0 .. Len(s) /\ ps[s[i]].next = Remainder(s, i)
    BY <1>1, <1>2 DEF Sound
  <2>1. CASE i = k
    <3>1. k # k - 1
      BY <1>1
    <3> QED
      BY <1>2, <1>6, <2>0, <2>1, <3>1
  <2>2. CASE i = k - 1
    <3>1. i # k /\ k > 1
      BY <2>0, <2>2
    <3> QED
      BY <1>2, <1>6, <2>0, <2>2, <3>1
  <2>3. CASE i # k /\ i # k - 1
    BY <1>2, <1>6, <2>0, <2>3 DEF KeepsBut
  <2> QED
    BY <2>1, <2>2, <2>3
<1> QED
  BY <1>2, <1>4, <1>5, <1>7, <1>8 DEF Sound, t

\* Its k-th block unlinked.
LEMMA SoundDropped ==
    ASSUME NEW ps \in Seq(Segments), NEW qs \in Seq(Segments), Len(qs) = Len(ps),
           NEW h, NEW s, Sound(h, s, ps), NEW k \in 1 .. Len(s),
           k > 1 => qs[s[k - 1]].next = Remainder(s, k), KeepsBut(s, k, ps, qs)
    PROVE  /\ Sound(IF k = 1 THEN Remainder(s, 1) ELSE h, Without(s, k), qs)
           /\ Len(Without(s, k)) = Len(s) - 1
           /\ Elements(Without(s, k)) = Elements(s) \ {s[k]}
           /\ \A i \in 1 .. Len(s) - 1 : Without(s, k)[i] = s[IF i < k THEN i ELSE i + 1]
<1> DEFINE t == Without(s, k)
           up(i) == IF i < k THEN i ELSE i + 1
<1>1. /\ Len(s) \in Nat /\ Elements(s) = {s[i] : i \in 1 .. Len(s)} /\ Len(ps) \in Nat
      /\ \A i \in 1 .. Len(s) : s[i] \in 1 .. Len(ps)
  BY SoundSeq, LenProperties
<1>2. /\ \A i \in 1 .. Len(s) - 1 : up(i) \in 1 .. Len(s) /\ up(i) # k
      /\ \A i, j \in 1 .. Len(s) - 1 : up(i) = up(j) => i = j
      /\ Len(s) - 1 \in Nat
  BY <1>1
<1>3. \A j \in 1 .. Len(s) : j # k => \E i \in 1 .. Len(s) - 1 : up(i) = j
  <2> SUFFICES ASSUME NEW j \in 1 .. Len(s), j # k
               PROVE  \E i \in 1 .. Len(s) - 1 : up(i) = j
    OBVIOUS
  <2>1. CASE j < k
    <3>1. j \in 1 .. Len(s) - 1 /\ up(j) = j
      BY <1>1, <2>1
    <3> QED
      BY <3>1
  <2>2. CASE ~ (j < k)
    <3>1. j - 1 \in 1 .. Len(s) - 1 /\ up(j - 1) = j
      BY <1>1, <2>2
    <3> QED
      BY <3>1
  <2> QED
    BY <2>1, <2>2
<1>4. t = [i \in 1 .. Len(s) - 1 |-> s[up(i)]]
  BY DEF Without
<1>5. /\ t \in Seq(1 .. Len(ps)) /\ Len(t) = Len(s) - 1
      /\ \A i \in 1 .. Len(s) - 1 : t[i] = s[up(i)]
  <2>1. t \in [1 .. Len(s) - 1 -> 1 .. Len(ps)]
    BY <1>1, <1>2, <1>4
  <2>2. t \in Seq(1 .. Len(ps))
    <3> DEFINE n == Len(s) - 1
    <3>1. n \in Nat /\ t \in [1 .. n -> 1 .. Len(ps)]
      BY <1>2, <2>1
    <3> HIDE DEF n, t
    <3> QED
      BY <3>1, SeqDef
  <2>3. DOMAIN t = 1 .. Len(t) /\ DOMAIN t = 1 .. Len(s) - 1 /\ Len(t) \in Nat
    BY <2>1, <2>2, LenProperties
  <2>4. Len(t) = Len(s) - 1
    BY <1>2, <2>3
  <2> QED
    BY <1>4, <2>2, <2>4
<1> HIDE DEF t, up
<1>6. Elements(t) = {t[i] : i \in 1 .. Len(s) - 1}
  BY <1>5, LenProperties DEF Elements
<1>7. Elements(t) = Elements(s) \ {s[k]}
  <2>1. Elements(t) \subseteq Elements(s) \ {s[k]}
    <3> SUFFICES ASSUME NEW i \in 1 .. Len(s) - 1 PROVE t[i] \in Elements(s) /\ t[i] # s[k]
      BY <1>6
    <3> QED
      BY <1>1, <1>2, <1>5 DEF Sound
  <2>2. Elements(s) \ {s[k]} \subseteq Elements(t)
    <3> SUFFICES ASSUME NEW j \in 1 .. Len(s), j # k PROVE s[j] \in Elements(t)
      BY <1>1
    <3>1. PICK i \in 1 .. Len(s) - 1 : up(i) = j
      BY <1>3
    <3> QED
      BY <1>5, <1>6, <3>1
  <2> QED
    BY <2>1, <2>2
<1>8. ASSUME NEW i \in 1 .. Len(t), NEW j \in 1 .. Len(t), t[i] = t[j] PROVE i = j
  <2>1. i \in 1 .. Len(s) - 1 /\ j \in 1 .. Len(s) - 1 /\ s[up(i)] = s[up(j)]
    BY <1>5, <1>8
  <2>2. up(i) = up(j)
    BY <1>2, <2>1 DEF Sound
  <2> QED
    BY <1>2, <2>1, <2>2
<1>9. \A i \in 0 .. Len(s) - 1 : Remainder(t, i) = Remainder(s, IF i < k - 1 THEN i ELSE i + 1)
  <2> TAKE i \in 0 .. Len(s) - 1
  <2>1. CASE i < k - 1
    <3>1. /\ i < Len(s) - 1 /\ i < Len(s) /\ i + 1 \in 1 .. Len(s) - 1
          /\ up(i + 1) = i + 1
      BY <1>1, <2>1 DEF up
    <3> QED
      BY <1>5, <2>1, <3>1 DEF Remainder
  <2>2. CASE ~ (i < k - 1)
    <3>1. i < Len(s) - 1 <=> i + 1 < Len(s)
      BY <1>1
    <3>2. i < Len(s) - 1 => i + 1 \in 1 .. Len(s) - 1 /\ up(i + 1) = i + 1 + 1
      BY <1>1, <2>2 DEF up
    <3>3. i < Len(s) - 1 => t[i + 1] = s[i + 1 + 1]
      <4>1. ASSUME i + 1 \in 1 .. Len(s) - 1 PROVE t[i + 1] = s[up(i + 1)]
        BY <1>5, <4>1
      <4> QED
        BY <3>2, <4>1
    <3> QED
      BY <1>5, <2>2, <3>1, <3>3 DEF Remainder
  <2> QED
    BY <2>1, <2>2
<1>10. (IF k = 1 THEN Remainder(s, 1) ELSE h) = Remainder(t, 0)
  <2>1. 0 \in 0 .. Len(s) - 1 /\ (0 < k - 1 <=> k # 1) /\ 0 + 1 = 1
    BY <1>1
  <2> QED
    BY <1>9, <2>1 DEF Sound
<1>11. ASSUME NEW i \in 1 .. Len(t) PROVE qs[t[i]].next = Remainder(t, i)
  <2>0. i \in 1 .. Len(s) - 1 /\ i \in 0 .. Len(s) - 1 /\ i \in 1 .. Len(s) /\ i + 1 \in 1 .. Len(s)
    BY <1>1, <1>5
  <2>1. CASE i < k - 1
    <3>1. up(i) = i /\ i # k /\ i # k - 1
      BY <2>0, <2>1 DEF up
    <3> QED
      BY <1>5, <1>9, <2>0, <2>1, <3>1 DEF Sound, KeepsBut
  <2>2. CASE i = k - 1
    <3>1. up(i) = i /\ i + 1 = k /\ k > 1 /\ ~ (i < k - 1)
      BY <2>0, <2>2 DEF up
    <3> QED
      BY <1>5, <1>9, <2>0, <2>2, <3>1
  <2>3. CASE ~ (i < k - 1) /\ i # k - 1
    <3>1. up(i) = i + 1 /\ i + 1 # k /\ i + 1 # k - 1 /\ ~ (i < k - 1)
      BY <2>0, <2>3 DEF up
    <3>2. qs[s[i + 1]].next = Remainder(s, i + 1)
      BY <2>0, <3>1 DEF Sound, KeepsBut
    <3> QED
      BY <1>5, <1>9, <2>0, <3>1, <3>2
  <2> QED
    BY <2>0, <2>1, <2>2, <2>3
<1> QED
  BY <1>5, <1>7, <1>8, <1>10, <1>11 DEF Sound, t, up

\* The pages after vacuum passed the k + 1st block of chain s: a new block took
\* its place, or none did; what followed it is next.
Spliced(ps, qs, s, k, new, next) ==
    /\ qs \in Seq(Segments) /\ Len(qs) = Len(ps)
    /\ \A c \in 1 .. Len(ps) : qs[c].docs = ps[c].docs
    /\ \A c \in 1 .. Len(ps) :
          (new = None \/ c # new) /\ (k = 0 \/ c # s[k]) => qs[c].next = ps[c].next
    /\ new # None => qs[new].next = next
    /\ k # 0 => qs[s[k]].next = IF new # None THEN new ELSE next

\* The chain t that this makes of s: the same blocks up to the k-th, the new one
\* if there is one, and the same blocks behind.
Passed(t, s, k, new) ==
    LET j == IF new = None THEN k ELSE k + 1
    IN  /\ Len(t) = IF new = None THEN Len(s) - 1 ELSE Len(s)
        /\ Elements(t) = (Elements(s) \ {s[k + 1]}) \cup IF new = None THEN {} ELSE {new}
        /\ \A n \in 1 .. Len(s) - (k + 1) : t[j + n] = s[k + 1 + n]
        /\ \A n \in 1 .. k : t[n] = s[n]
        /\ new # None => t[k + 1] = new

LEMMA SoundPassed ==
    ASSUME NEW ps \in Seq(Segments), NEW qs, NEW h, NEW s, Sound(h, s, ps),
           NEW k \in Nat, k < Len(s), NEW new \in Nat, new \notin Elements(s),
           new # None => new \in 1 .. Len(ps),
           Spliced(ps, qs, s, k, new, Remainder(s, k + 1))
    PROVE  \E t : /\ Sound(IF k # 0 THEN h ELSE IF new # None THEN new ELSE Remainder(s, k + 1),
                           t, qs)
                  /\ Passed(t, s, k, new)
<1>1. PICK m : m = k + 1
  OBVIOUS
<1>2. /\ Len(s) \in Nat /\ m \in 1 .. Len(s) /\ m - 1 = k /\ (m = 1 <=> k = 0) /\ (m > 1 <=> k # 0)
      /\ \A i \in 1 .. Len(s) : s[i] \in 1 .. Len(ps) /\ s[i] \in Elements(s)
      /\ \A i, j \in 1 .. Len(s) : s[i] = s[j] => i = j
  <2>1. Len(s) \in Nat /\ \A i \in 1 .. Len(s) : s[i] \in 1 .. Len(ps) /\ s[i] \in Elements(s)
    BY SoundSeq
  <2>2. m \in 1 .. Len(s) /\ m - 1 = k /\ (m = 1 <=> k = 0) /\ (m > 1 <=> k # 0)
    BY <1>1, <2>1
  <2>3. \A i, j \in 1 .. Len(s) : s[i] = s[j] => i = j
    BY DEF Sound
  <2> QED
    BY <2>1, <2>2, <2>3
<1>3. qs \in Seq(Segments) /\ Len(qs) = Len(ps)
  BY DEF Spliced
<1>4. KeepsBut(s, m, ps, qs)
  <2> SUFFICES ASSUME NEW i \in 1 .. Len(s), i # m, i # m - 1
               PROVE  qs[s[i]].next = ps[s[i]].next
    BY DEF KeepsBut
  <2>1. k \in 1 .. Len(s) \/ k = 0
    BY <1>2
  <2>2. s[i] # new /\ (k = 0 \/ s[i] # s[k])
    BY <1>2, <2>1
  <2> QED
    BY <1>2, <2>2 DEF Spliced
<1>5. CASE new # None
  <2>1. PICK t : t = Replaced(s, m, new)
    OBVIOUS
  <2>2. new \in 1 .. Len(ps) /\ qs[new].next = Remainder(s, m) /\ (m > 1 => qs[s[m - 1]].next = new)
    BY <1>1, <1>2, <1>5 DEF Spliced
  <2>3. Sound(IF m = 1 THEN new ELSE h, t, qs) /\ Len(t) = Len(s)
    BY <1>2, <1>3, <1>4, <2>1, <2>2, SoundReplaced
  <2>4. Elements(t) = (Elements(s) \ {s[m]}) \cup {new}
    BY <1>2, <1>3, <1>4, <2>1, <2>2, SoundReplaced
  <2>5. \A i \in 1 .. Len(s) : t[i] = IF i = m THEN new ELSE s[i]
    BY SMTT(30), <1>2, <1>3, <1>4, <2>1, <2>2, SoundReplaced
  <2>6. \A n \in 1 .. Len(s) - (k + 1) : t[(k + 1) + n] = s[k + 1 + n]
    <3> TAKE n \in 1 .. Len(s) - (k + 1)
    <3>1. (k + 1) + n \in 1 .. Len(s) /\ (k + 1) + n # m
      BY <1>1, <1>2
    <3> QED
      BY <2>5, <3>1
  <2>7. \A n \in 1 .. k : n \in 1 .. Len(s) /\ n # m
    BY <1>1, <1>2
  <2>8. Passed(t, s, k, new)
    BY <1>1, <1>2, <1>5, <2>3, <2>4, <2>5, <2>6, <2>7 DEF Passed
  <2> QED
    BY <1>2, <1>5, <2>3, <2>8
<1>6. CASE new = None
  <2>1. PICK t : t = Without(s, m)
    OBVIOUS
  <2>2. m > 1 => qs[s[m - 1]].next = Remainder(s, m)
    BY <1>1, <1>2, <1>6 DEF Spliced
  <2>3. Sound(IF m = 1 THEN Remainder(s, 1) ELSE h, t, qs) /\ Len(t) = Len(s) - 1
    BY <1>2, <1>3, <1>4, <2>1, <2>2, SoundDropped
  <2>4. Elements(t) = Elements(s) \ {s[m]}
    BY <1>2, <1>3, <1>4, <2>1, <2>2, SoundDropped
  <2>5. \A i \in 1 .. Len(s) - 1 : t[i] = s[IF i < m THEN i ELSE i + 1]
    BY <1>2, <1>3, <1>4, <2>1, <2>2, SoundDropped
  <2>6. \A n \in 1 .. Len(s) - (k + 1) : t[k + n] = s[k + 1 + n]
    <3> TAKE n \in 1 .. Len(s) - (k + 1)
    <3>1. k + n \in 1 .. Len(s) - 1 /\ ~ (k + n < m) /\ (k + n) + 1 = k + 1 + n
      BY <1>1, <1>2
    <3> QED
      BY <2>5, <3>1
  <2>7. \A n \in 1 .. k : n \in 1 .. Len(s) - 1 /\ n < m
    BY <1>1, <1>2
  <2>8. \A n \in 1 .. k : t[n] = s[n]
    BY <2>5, <2>7
  <2>9. Passed(t, s, k, new)
    BY <1>1, <1>2, <1>6, <2>3, <2>4, <2>6, <2>8 DEF Passed
  <2>10. (IF m = 1 THEN Remainder(s, 1) ELSE h)
            = IF k # 0 THEN h ELSE IF new # None THEN new ELSE Remainder(s, k + 1)
    BY <1>1, <1>2, <1>6
  <2> QED
    BY <2>3, <2>9, <2>10
<1> QED
  BY <1>5, <1>6

-----------------------------------------------------------------------------
(* Safety, as long as vacuum and forced merges do not overlap with other    *)
(* work on the chains: blocks, counts, documents and levels are right, and  *)
(* the index keeps what IndexContents promises.                             *)

DocsAt(b) == SegmentAt(b).docs

\* At most one process works on the chains.
Alone == \A p, q \in Procs : ~Resting(p) /\ ~Resting(q) => p = q

\* Every chain ends, is as long as its count, and shares no block with another.
ChainsSound ==
    /\ \A l \in Levels :
          Sound(meta.heads[l], Chain(l), pages) /\ meta.counts[l] = Len(Chain(l))
    /\ \A l, m \in Levels : l # m => Linked(l) \cap Linked(m) = {}

\* How many segments of its level the job of p takes.
Taken(p) == Smaller(Len(Chain(job[p].level)), job[p].max)

\* What a process knows and holds at each step: what it read of a chain before a
\* merge still holds, and the segment in its hands has the documents it is for.
JobRight(p) ==
    /\ run[p].at \notin {"link", "swap", "replace"} => job[p].new = None
    /\ run[p].at \in {"link", "swap"} => job[p].new # None
    /\ run[p].at \in {"check", "force"} => job[p].level <= Top
    /\ run[p].at \in MergeSteps \cup {"recheck"} => job[p].level < Top
    /\ run[p].at \in {"write", "link", "check", "recheck"} \cup MergeSteps =>
          IF run[p].task = "force" THEN job[p].max = All ELSE job[p].max \in Fanouts
    /\ run[p].at = "force" => job[p].max = All
    /\ run[p].at \in {"merge", "swap"} =>
          LET chain == Chain(job[p].level)
          IN  /\ job[p].total = Len(chain) /\ Len(chain) > 0
              /\ job[p].sources = SubSeq(chain, 1, Taken(p))
              /\ job[p].rest = Remainder(chain, Taken(p))
    /\ run[p].at = "link" => DocsAt(job[p].new) # {}
    /\ run[p].at = "swap" => DocsAt(job[p].new) = DocsOn(Elements(job[p].sources))
    /\ run[p].at = "free" /\ run[p].task = "force" => meta.counts[job[p].level] = 0
JobsRight == \A p \in Procs : JobRight(p)

Held == UNION {InHand(p) : p \in Procs}

\* Every block is linked, free or in somebody's hands.
BlocksPlaced ==
    /\ AllLinked \cap free = {} /\ AllLinked \cap Held = {} /\ free \cap Held = {}
    /\ AllLinked \cup free \cup Held = 1 .. Len(pages)

\* No document is in two places, no linked segment is empty, and the index holds
\* no document whose ctid is not in use.
DocsRight ==
    /\ NoDocTwice
    /\ \A b \in AllLinked : DocsAt(b) # {}
    /\ \A d \in Found : heap[d] \in {"live", "dead"}

\* The levels that a process is about to look at: they may be too long.
Excused(p) ==
    IF run[p].at \in {"check", "force"} THEN {job[p].level}
    ELSE IF run[p].at \in MergeSteps \cup {"recheck"} THEN {job[p].level, job[p].level + 1}
    ELSE {}
Bounded(l) == \E f \in Fanouts : meta.counts[l] < f
LongExcused ==
    \A l \in Levels \ {Top} : Bounded(l) \/ \E p \in Procs : l \in Excused(p)

\* What vacuum surveyed of level l from the i-th segment on is what the chain
\* still holds behind its k-th block.
Ahead(l, i, k) ==
    /\ Len(Chain(l)) + i = Len(vac.segs[l]) + k + 1
    /\ \A n \in 1 .. Len(Chain(l)) - k :
          /\ vac.segs[l][i - 1 + n].root = Chain(l)[k + n]
          /\ vac.segs[l][i - 1 + n].hit <=> DocsAt(Chain(l)[k + n]) \cap vac.dead # {}

Clean(bs) == DocsOn(bs) \cap vac.dead = {}

\* Vacuum stands behind the k-th block of the chain of its level, and every
\* segment up to there holds no dead document.
Standing(k) ==
    /\ vac.prev = IF k = 0 THEN None ELSE Chain(vac.level)[k]
    /\ Ahead(vac.level, vac.i, k)
    /\ \A n \in 1 .. k : Clean({Chain(vac.level)[n]})

SweepRight ==
    run[Vacuum].at \in {"sweep", "replace"} =>
        /\ vac.level \in Levels /\ vac.i \in 1 .. Len(vac.segs[vac.level]) + 1
        /\ \E k \in 0 .. Len(Chain(vac.level)) : Standing(k)
        /\ \A l \in Levels : l < vac.level => Clean(Linked(l))
        /\ \A l \in Levels : l > vac.level => Ahead(l, 1, 0)

\* The segment that replaces the one vacuum is at.
ReplaceRight ==
    run[Vacuum].at = "replace" =>
        /\ InLevel
        /\ IF job[Vacuum].new = None THEN DocsAt(Here.root) \subseteq vac.dead
           ELSE /\ DocsAt(job[Vacuum].new) = DocsAt(Here.root) \ vac.dead
                /\ DocsAt(job[Vacuum].new) # {}

VacuumRight ==
    /\ \A d \in vac.dead : heap[d] = "dead"
    /\ run[Vacuum].at = "idle" => vac.dead = {}
    /\ run[Vacuum].at \notin {"sweep", "replace", "finish"} =>
          vac.level = 0 /\ vac.i = 1 /\ vac.prev = None
    /\ run[Vacuum].at \notin {"lock", "write"} => memtable \cap vac.dead = {}
    /\ run[Vacuum].at = "finish" => Clean(AllLinked)
    /\ SweepRight /\ ReplaceRight

Right ==
    /\ TypeOK /\ Alone /\ ChainsSound /\ JobsRight /\ BlocksPlaced
    /\ DocsRight /\ LongExcused /\ VacuumRight

\* The inductive invariant of this part; IInv is that of the part above.
Safe == IInv /\ Right

-----------------------------------------------------------------------------
(* One process works, the others rest. *)

\* p is the only one who holds blocks, has a spill to link, or excuses a level.
Works(p) ==
    /\ \A q \in Procs \ {p} : Resting(q) /\ JobRight(q)
    /\ InHand(p) = Held
    /\ Spilled = IF run[p].at = "link" THEN DocsAt(job[p].new) ELSE {}
    /\ \A l : (\E q \in Procs : l \in Excused(q)) <=> l \in Excused(p)
    /\ Alone

\* A process that rests has nothing in its hands.
LEMMA RestingIs ==
    \A q : Resting(q) =>
        /\ JobRight(q) <=> job[q].new = None
        /\ JobRight(q) => InHand(q) = {}
        /\ Excused(q) = {}
        /\ run[q].at # "link"
  BY DEF Resting, JobRight, InHand, Excused, MergeSteps

\* So one works when the others rest.
LEMMA OneWorks ==
    \A p \in Procs : (\A q \in Procs \ {p} : Resting(q) /\ job[q].new = None) => Works(p)
<1> SUFFICES ASSUME NEW p \in Procs, \A q \in Procs \ {p} : Resting(q) /\ job[q].new = None
             PROVE  Works(p)
  OBVIOUS
<1>1. \A q \in Procs \ {p} :
          Resting(q) /\ JobRight(q) /\ InHand(q) = {} /\ Excused(q) = {} /\ run[q].at # "link"
  BY RestingIs
<1>2. InHand(p) = Held
  BY <1>1 DEF Held
<1>3. Spilled = IF run[p].at = "link" THEN DocsAt(job[p].new) ELSE {}
  BY <1>1 DEF Spilled, DocsAt
<1>4. Alone
  BY <1>1 DEF Alone
<1> QED
  BY <1>1, <1>2, <1>3, <1>4 DEF Works

\* The same in the next state.
LEMMA OneWorksThen ==
    (\A p \in Procs : (\A q \in Procs \ {p} : Resting(q) /\ job[q].new = None) => Works(p))'
  BY OneWorks, PTL
LEMMA RestingThen ==
    (\A q : Resting(q) =>
        /\ JobRight(q) <=> job[q].new = None
        /\ JobRight(q) => InHand(q) = {}
        /\ Excused(q) = {}
        /\ run[q].at # "link")'
  BY RestingIs, PTL

\* A process goes on to a step, begins something, or gets a job: only that
\* process.
LEMMA Steps1 ==
    ASSUME TypeOK, NEW p \in Procs, NEW step, Goto(p, step)
    PROVE  /\ run'[p] = [task |-> run[p].task, at |-> step]
           /\ \A q \in Procs \ {p} : run'[q] = run[q]
           /\ step \in Steps => run' \in [Procs -> Runs]
BY DEF TypeOK, Goto, Runs

LEMMA Begins1 ==
    ASSUME TypeOK, NEW p \in Procs, NEW t, NEW step, Begin(p, t, step)
    PROVE  /\ run'[p] = [task |-> t, at |-> step]
           /\ \A q \in Procs \ {p} : run'[q] = run[q]
           /\ t \in Tasks /\ step \in Steps => run' \in [Procs -> Runs]
BY DEF TypeOK, Begin, Runs

LEMMA Works1 ==
    ASSUME TypeOK, NEW p \in Procs, NEW j, With(p, j)
    PROVE  /\ job'[p] = j
           /\ \A q \in Procs \ {p} : job'[q] = job[q]
           /\ j \in Jobs => job' \in [Procs -> Jobs]
BY DEF TypeOK, With

\* Whoever is at work, or starts to when the others are quiet, works alone.
LEMMA WorksAlone ==
    ASSUME ~Overlap, Right, NEW p \in Procs, ~Resting(p) \/ Quiet(p)
    PROVE  Works(p)
<1>1. \A q \in Procs \ {p} : Resting(q)
  BY DEF Right, Alone, Quiet
<1>2. \A q \in Procs \ {p} : job[q].new = None
  BY <1>1, RestingIs DEF Right, JobsRight
<1> QED
  BY <1>1, <1>2, OneWorks

\* And still does afterwards.
LEMMA StillAlone ==
    ASSUME NEW p \in Procs, Works(p), \A q \in Procs \ {p} : run'[q] = run[q] /\ job'[q] = job[q]
    PROVE  Works(p)' /\ (JobRight(p)' => JobsRight')
<1>1. \A q \in Procs \ {p} : Resting(q) /\ job[q].new = None
  BY RestingIs DEF Works
<1>2. \A q \in Procs \ {p} : Resting(q)' /\ (job[q].new = None)'
  BY <1>1 DEF Resting
<1>3. Works(p)'
  BY <1>2, OneWorksThen
<1>4. \A q \in Procs \ {p} : JobRight(q)'
  BY <1>2, RestingThen
<1> QED
  BY <1>3, <1>4 DEF JobsRight

\* When no block, count or pointer changes, the chains are what they were.
LEMMA SameBlocks ==
    ASSUME UNCHANGED blocks
    PROVE  /\ meta' = meta /\ pages' = pages /\ free' = free
           /\ \A l : Chain(l)' = Chain(l) /\ Linked(l)' = Linked(l)
           /\ AllLinked' = AllLinked
           /\ \A b : DocsAt(b)' = DocsAt(b)
           /\ \A bs : DocsOn(bs)' = DocsOn(bs)
           /\ \A l : Bounded(l)' <=> Bounded(l)
           /\ ChainsSound' <=> ChainsSound
<1>1. meta' = meta /\ pages' = pages /\ free' = free
  BY DEF blocks
<1>2. \A l : Chain(l)' = Chain(l)
  BY <1>1 DEF Chain
<1>3. \A l : Linked(l)' = Linked(l)
  BY <1>2 DEF Linked
<1>4. \A b : DocsAt(b)' = DocsAt(b) /\ SegmentAt(b)' = SegmentAt(b)
  BY <1>1 DEF DocsAt, SegmentAt
<1>5. \A bs : DocsOn(bs)' = DocsOn(bs)
  BY <1>4 DEF DocsOn
<1>6. AllLinked' = AllLinked
  BY <1>3 DEF AllLinked
<1>7. ChainsSound' <=> ChainsSound
  BY <1>1, <1>2, <1>3 DEF ChainsSound
<1>8. \A l : Bounded(l)' <=> Bounded(l)
  BY <1>1 DEF Bounded
<1> QED
  BY <1>1, <1>2, <1>3, <1>4, <1>5, <1>6, <1>7, <1>8

\* A step of the working process that changes neither the blocks nor the
\* documents, and has no block in its hands.
LEMMA ThinkingStep ==
    ASSUME Right, NEW p \in Procs, Works(p),
           \A q \in Procs \ {p} : run'[q] = run[q] /\ job'[q] = job[q],
           UNCHANGED <<heap, memtable, blocks>>,
           {run[p].at, run'[p].at} \cap {"link", "swap", "replace", "free"} = {},
           TypeOK', JobRight(p)', VacuumRight',
           \A l \in Levels \ {Top} : l \in Excused(p) => Bounded(l) \/ l \in Excused(p)'
    PROVE  Right' /\ Found' = Found
<1>1. Works(p)' /\ JobsRight'
  BY StillAlone
<1>2. UNCHANGED blocks
  OBVIOUS
<1>3. InHand(p) = {} /\ InHand(p)' = {}
  BY DEF InHand, JobRight, Right, JobsRight
<1>4. Held = {} /\ Held' = {}
  BY <1>1, <1>3 DEF Works
<1>5. Spilled = {} /\ Spilled' = {}
  BY <1>1 DEF Works
<1>6. BlocksPlaced'
  BY <1>2, <1>4, SameBlocks DEF Right, BlocksPlaced
<1>7. Found' = Found
  BY <1>2, <1>5, SameBlocks DEF Found
<1>8. NoDocTwice'
  BY <1>2, <1>5, SameBlocks DEF Right, DocsRight, NoDocTwice, DocsAt
<1>9. DocsRight'
  BY <1>2, <1>7, <1>8, SameBlocks DEF Right, DocsRight
<1>10. LongExcused'
  BY <1>1, <1>2, SameBlocks DEF Right, LongExcused, Works
<1> QED
  BY <1>1, <1>2, <1>6, <1>7, <1>9, <1>10, SameBlocks DEF Right, Works

\* A step that is not one of vacuum's own beyond its spill.
LEMMA VacuumElsewhere ==
    ASSUME Right, NEW p \in Procs, Works(p), \A q \in Procs \ {p} : run'[q] = run[q],
           UNCHANGED <<heap, vac>>, memtable' \in {memtable, {}},
           p = Vacuum =>
              /\ run[p].at \notin {"sweep", "replace", "finish"}
              /\ run'[p].at \notin {"sweep", "replace", "finish", "idle"}
              /\ run[p].at \in {"lock", "write"} =>
                    run'[p].at \in {"lock", "write"} \/ memtable' = {}
    PROVE  VacuumRight'
<1> USE DEF VacuumRight, SweepRight, ReplaceRight
<1>1. CASE p = Vacuum
  BY <1>1 DEF Right
<1>2. CASE p # Vacuum
  <2>1. run'[Vacuum] = run[Vacuum] /\ Resting(Vacuum)
    BY <1>2 DEF Works, Procs
  <2> QED
    BY <2>1 DEF Right, Resting
<1> QED
  BY <1>1, <1>2

\* What the chain of a level is made of.
LEMMA ChainTyped ==
    ASSUME Right, NEW l \in Levels
    PROVE  /\ Sound(meta.heads[l], Chain(l), pages) /\ meta.counts[l] = Len(Chain(l))
           /\ Chain(l) \in Seq(1 .. Len(pages)) /\ Chain(l) \in Seq(Nat)
           /\ Len(Chain(l)) \in Nat /\ Len(pages) \in Nat
           /\ \A i \in 1 .. Len(Chain(l)) : Chain(l)[i] \in 1 .. Len(pages)
           /\ Linked(l) = {Chain(l)[i] : i \in 1 .. Len(Chain(l))}
<1>1. Sound(meta.heads[l], Chain(l), pages) /\ meta.counts[l] = Len(Chain(l)) /\ pages \in Seq(Segments)
  BY DEF Right, ChainsSound, TypeOK
<1>2. Chain(l) \in Seq(1 .. Len(pages)) /\ Len(pages) \in Nat
  BY <1>1, LenProperties DEF Sound
<1>3. Chain(l) \in Seq(Nat)
  BY <1>2, SeqMonotonic
<1> QED
  BY <1>1, <1>2, <1>3, SoundSeq DEF Linked

\* The level of a job is one of the index.
LEMMA JobLevels ==
    ASSUME Right, NEW p \in Procs
    PROVE  /\ Top \in Levels /\ 0 \in Levels
           /\ job[p].level \in Nat
           /\ job[p].level <= Top => job[p].level \in Levels
           /\ job[p].level < Top => job[p].level + 1 \in Levels /\ job[p].level + 1 <= Top
<1>1. job[p].level \in Nat
  BY DEF Right, TypeOK, Jobs
<1>2. MaxLevels \in Nat /\ MaxLevels >= 1
  BY LevelsAssumption
<1>3. \A n \in Nat : /\ n <= MaxLevels - 1 => n \in 0 .. MaxLevels - 1
                     /\ n < MaxLevels - 1 => n + 1 \in 0 .. MaxLevels - 1
                                               /\ n + 1 <= MaxLevels - 1
  BY <1>2
<1>4. MaxLevels - 1 \in 0 .. MaxLevels - 1 /\ 0 \in 0 .. MaxLevels - 1
  BY <1>2
<1> QED
  BY <1>1, <1>3, <1>4 DEF Top, Levels

-----------------------------------------------------------------------------
(* Steps that only decide what comes next. *)

\* A backend takes the lock for its spill.
LEMMA StartSpillKeeps ==
    ASSUME ~Overlap, Right, NEW p \in Backends, StartSpill(p)
    PROVE  Right' /\ Found' = Found /\ heap' = heap
<1> p \in Procs
  BY DEF Procs
<1>1. TypeOK /\ Works(p)
  BY WorksAlone DEF StartSpill, Right
<1>2. PICK f \in Fanouts : With(p, Job(0, f))
  BY DEF StartSpill
<1>3. /\ run'[p] = [task |-> "spill", at |-> "write"] /\ job'[p] = Job(0, f)
      /\ \A q \in Procs \ {p} : run'[q] = run[q] /\ job'[q] = job[q]
      /\ run' \in [Procs -> Runs]
  BY <1>1, <1>2, Begins1, Works1 DEF StartSpill, Tasks, Steps
<1>4. TypeOK'
  <2>1. Job(0, f) \in Jobs
    BY LevelsAssumption DEF Job, Jobs, None
  <2> QED
    BY <1>1, <1>2, <1>3, <2>1, Works1 DEF StartSpill, TypeOK, blocks
<1>5. JobRight(p)'
  BY <1>3 DEF JobRight, Job, MergeSteps
<1>6. VacuumRight'
  BY <1>1, <1>3, VacuumElsewhere, ProcessesAssumption DEF StartSpill
<1>7. \A l : l \notin Excused(p)
  BY DEF StartSpill, Excused, MergeSteps
<1> QED
  BY <1>1, <1>3, <1>4, <1>5, <1>6, <1>7, ThinkingStep DEF StartSpill

\* bm25_force_merge begins.
LEMMA StartForceKeeps ==
    ASSUME ~Overlap, Right, NEW p \in Backends, StartForce(p)
    PROVE  Right' /\ Found' = Found /\ heap' = heap
<1> p \in Procs
  BY DEF Procs
<1>1. TypeOK /\ Works(p)
  BY WorksAlone DEF StartForce, Right
<1>2. /\ run'[p] = [task |-> "force", at |-> "force"] /\ job'[p] = Job(0, All)
      /\ \A q \in Procs \ {p} : run'[q] = run[q] /\ job'[q] = job[q]
      /\ run' \in [Procs -> Runs]
  BY <1>1, Begins1, Works1 DEF StartForce, Tasks, Steps
<1>3. TypeOK'
  <2>1. Job(0, All) \in Jobs
    BY LevelsAssumption DEF Job, Jobs, None, All
  <2> QED
    BY <1>1, <1>2, <2>1, Works1 DEF StartForce, TypeOK, blocks
<1>4. JobRight(p)'
  BY <1>2, LevelsAssumption DEF JobRight, Job, MergeSteps, Top
<1>5. VacuumRight'
  BY <1>1, <1>2, VacuumElsewhere, ProcessesAssumption DEF StartForce
<1>6. \A l : l \notin Excused(p)
  BY DEF StartForce, Excused, MergeSteps
<1> QED
  BY <1>1, <1>2, <1>3, <1>4, <1>5, <1>6, ThinkingStep DEF StartForce

\* The memtable is empty by the time vacuum has the lock.
LEMMA NothingToSpillKeeps ==
    ASSUME ~Overlap, Right, NEW p \in Procs, NothingToSpill(p)
    PROVE  Right' /\ Found' = Found /\ heap' = heap
<1>1. TypeOK /\ Works(p)
  BY WorksAlone DEF NothingToSpill, Right, Resting
<1>2. /\ run'[p] = [task |-> run[p].task, at |-> "unlock"] /\ job' = job
      /\ \A q \in Procs \ {p} : run'[q] = run[q] /\ job'[q] = job[q]
      /\ run' \in [Procs -> Runs]
  BY <1>1, Steps1 DEF NothingToSpill, Steps
<1>3. TypeOK'
  BY <1>1, <1>2 DEF NothingToSpill, TypeOK, blocks
<1>4. JobRight(p)'
  BY <1>2 DEF NothingToSpill, Right, JobsRight, JobRight, MergeSteps
<1>5. VacuumRight'
  BY <1>1, <1>2, VacuumElsewhere DEF NothingToSpill
<1>6. \A l : l \notin Excused(p)
  BY DEF NothingToSpill, Excused, MergeSteps
<1> QED
  BY <1>1, <1>2, <1>3, <1>4, <1>5, <1>6, ThinkingStep DEF NothingToSpill

\* A spill and its compaction are over.
LEMMA EndSpillKeepsRight ==
    ASSUME ~Overlap, Right, NEW p \in Procs, EndSpill(p)
    PROVE  Right' /\ Found' = Found /\ heap' = heap
<1>1. TypeOK /\ Works(p)
  BY WorksAlone DEF EndSpill, Right, Resting
<1>2. PICK r \in Runs : /\ r.at = IF p = Vacuum THEN "survey" ELSE "idle"
                        /\ run' = [run EXCEPT ![p] = r]
  <2>1. CASE p = Vacuum
    BY SMTT(30), <1>1, <2>1 DEF EndSpill, Goto, Runs, Steps, TypeOK
  <2>2. CASE p # Vacuum
    BY <1>1, <2>2 DEF EndSpill, Begin, Runs, Steps, Tasks
  <2> QED
    BY <2>1, <2>2
<1>3. /\ run'[p] = r /\ job'[p] = NoJob
      /\ \A q \in Procs \ {p} : run'[q] = run[q] /\ job'[q] = job[q]
      /\ run' \in [Procs -> Runs]
  BY <1>1, <1>2, Works1 DEF EndSpill, TypeOK
<1>4. TypeOK'
  <2>1. NoJob \in Jobs
    BY DEF Job, NoJob, Jobs, None
  <2> QED
    BY <1>1, <1>3, <2>1, Works1 DEF EndSpill, TypeOK, blocks
<1>5. JobRight(p)'
  BY <1>2, <1>3 DEF JobRight, NoJob, Job, MergeSteps
<1>6. VacuumRight'
  BY <1>1, <1>2, <1>3, VacuumElsewhere DEF EndSpill
<1>7. \A l : l \notin Excused(p)
  BY DEF EndSpill, Excused, MergeSteps
<1> QED
  BY <1>1, <1>2, <1>3, <1>4, <1>5, <1>6, <1>7, ThinkingStep DEF EndSpill

\* The level is full, or the spill is over.
LEMMA CheckLevelKeeps ==
    ASSUME ~Overlap, Right, IInv, NEW p \in Procs, CheckLevel(p)
    PROVE  Right' /\ Found' = Found /\ heap' = heap
<1>1. TypeOK /\ Works(p) /\ run[p].task # "force"
  BY WorksAlone DEF CheckLevel, Right, Resting, IInv, ForcedSteps, SpillSteps
<1>2. PICK step \in {"read", "unlock"} :
          /\ Goto(p, step)
          /\ step = (IF job[p].level < Top /\ Full(p) THEN "read" ELSE "unlock")
  BY DEF CheckLevel
<1>3. /\ run'[p] = [task |-> run[p].task, at |-> step] /\ job' = job
      /\ \A q \in Procs \ {p} : run'[q] = run[q] /\ job'[q] = job[q]
      /\ run' \in [Procs -> Runs]
  BY <1>1, <1>2, Steps1 DEF CheckLevel, Steps
<1>4. TypeOK'
  BY <1>1, <1>3 DEF CheckLevel, TypeOK, blocks
<1>5. JobRight(p)'
  BY <1>1, <1>2, <1>3 DEF CheckLevel, Right, JobsRight, JobRight, MergeSteps
<1>6. VacuumRight'
  BY <1>1, <1>2, <1>3, VacuumElsewhere DEF CheckLevel
<1>7. ASSUME NEW l \in Levels \ {Top}, l \in Excused(p)
      PROVE  Bounded(l) \/ l \in Excused(p)'
  <2>1. l = job[p].level /\ job[p].max \in Fanouts /\ l <= Top
    BY <1>1, <1>7 DEF CheckLevel, Excused, Right, JobsRight, JobRight, MergeSteps
  <2>2. CASE step = "read"
    BY <1>3, <2>1, <2>2 DEF Excused, MergeSteps
  <2>3. CASE step = "unlock"
    <3>1. l < Top
      BY <1>7, <2>1, JobLevels DEF Levels, Top
    <3>2. ~ Full(p)
      BY <1>2, <2>1, <2>3, <3>1
    <3>3. meta.counts[l] \in Nat /\ job[p].max \in Nat /\ ~ (meta.counts[l] >= job[p].max)
      BY <2>1, <3>2, <1>7, ChainTyped, LevelsAssumption DEF Full
    <3> QED
      BY <2>1, <3>3 DEF Bounded
  <2> QED
    BY <2>2, <2>3
<1> QED
  BY <1>1, <1>2, <1>3, <1>4, <1>5, <1>6, <1>7, ThinkingStep DEF CheckLevel

\* Another batch of the level, or the level above.
LEMMA RecheckKeeps ==
    ASSUME ~Overlap, Right, IInv, NEW p \in Procs, Recheck(p)
    PROVE  Right' /\ Found' = Found /\ heap' = heap
<1> DEFINE k == job[p].level
<1>1. TypeOK /\ Works(p) /\ run[p].task # "force"
  BY WorksAlone DEF Recheck, Right, Resting, IInv, ForcedSteps, SpillSteps
<1>2. k < Top /\ job[p].max \in Fanouts /\ job[p].new = None
  BY <1>1 DEF Recheck, Right, JobsRight, JobRight, MergeSteps
<1>3. PICK step \in {"read", "check"} :
          /\ Goto(p, step)
          /\ step = (IF Full(p) THEN "read" ELSE "check")
  BY DEF Recheck
<1>4. /\ run'[p] = [task |-> run[p].task, at |-> step]
      /\ \A q \in Procs \ {p} : run'[q] = run[q]
      /\ run' \in [Procs -> Runs]
  BY <1>1, <1>3, Steps1 DEF Steps
<1>5. /\ step = "read" => job' = job
      /\ step = "check" => With(p, Job(k + 1, job[p].max))
  BY <1>3 DEF Recheck, Goto
<1>6. Job(k + 1, job[p].max) \in Jobs
  <2>1. job[p] \in Jobs
    BY <1>1 DEF TypeOK
  <2>2. k + 1 \in Nat /\ job[p].max \in Nat
    BY <2>1 DEF Jobs
  <2> HIDE DEF k
  <2> QED
    BY <2>1, <2>2 DEF Job, Jobs, None
<1>7. /\ \A q \in Procs \ {p} : job'[q] = job[q]
      /\ job' \in [Procs -> Jobs]
      /\ step = "check" => job'[p] = Job(k + 1, job[p].max)
  BY <1>1, <1>5, <1>6, Works1 DEF TypeOK
<1>8. TypeOK'
  BY <1>1, <1>4, <1>7 DEF Recheck, TypeOK, blocks
<1>9. JobRight(p)'
  <2>1. CASE step = "read"
    BY <1>1, <1>2, <1>4, <1>5, <2>1 DEF JobRight, MergeSteps
  <2>2. CASE step = "check"
    BY <1>1, <1>2, <1>4, <1>7, <2>2, JobLevels DEF JobRight, Job, MergeSteps
  <2> QED
    BY <2>1, <2>2
<1>10. VacuumRight'
  BY <1>1, <1>4, VacuumElsewhere DEF Recheck
<1>11. ASSUME NEW l \in Levels \ {Top}, l \in Excused(p)
       PROVE  Bounded(l) \/ l \in Excused(p)'
  <2>1. l \in {k, k + 1}
    BY <1>11 DEF Recheck, Excused, MergeSteps
  <2>2. CASE step = "read"
    BY <1>4, <1>5, <2>1, <2>2 DEF Excused, MergeSteps
  <2>3. CASE step = "check" /\ l = k + 1
    BY <1>4, <1>7, <2>3 DEF Excused, Job
  <2>4. CASE step = "check" /\ l = k
    <3>1. meta.counts[l] \in Nat /\ job[p].max \in Nat /\ ~ (meta.counts[l] >= job[p].max)
      BY <1>2, <1>3, <2>4, <1>11, ChainTyped, LevelsAssumption DEF Full
    <3> QED
      BY <1>2, <3>1 DEF Bounded
  <2> QED
    BY <2>1, <2>2, <2>3, <2>4
<1> QED
  BY <1>1, <1>4, <1>7, <1>8, <1>9, <1>10, <1>11, ThinkingStep DEF Recheck

\* The next level of a forced merge, or its end.
LEMMA ForceLevelKeeps ==
    ASSUME ~Overlap, Right, IInv, NEW p \in Backends, ForceLevel(p)
    PROVE  Right' /\ Found' = Found /\ heap' = heap
<1> p \in Procs
  BY DEF Procs
<1>1. TypeOK /\ Works(p) /\ run[p].task = "force"
  BY WorksAlone DEF ForceLevel, Right, Resting, IInv, ForcedSteps
<1>2. PICK step \in {"read", "truncate"} :
          /\ Goto(p, step)
          /\ step = (IF job[p].level < Top /\ meta.counts[job[p].level] >= 2
                     THEN "read" ELSE "truncate")
  BY DEF ForceLevel
<1>3. /\ run'[p] = [task |-> run[p].task, at |-> step] /\ job' = job
      /\ \A q \in Procs \ {p} : run'[q] = run[q] /\ job'[q] = job[q]
      /\ run' \in [Procs -> Runs]
  BY <1>1, <1>2, Steps1 DEF ForceLevel, Steps
<1>4. TypeOK'
  BY <1>1, <1>3 DEF ForceLevel, TypeOK, blocks
<1>5. JobRight(p)'
  BY <1>1, <1>2, <1>3 DEF ForceLevel, Right, JobsRight, JobRight, MergeSteps
<1>6. VacuumRight'
  BY <1>1, <1>3, VacuumElsewhere, ProcessesAssumption DEF ForceLevel
<1>7. ASSUME NEW l \in Levels \ {Top}, l \in Excused(p)
      PROVE  Bounded(l) \/ l \in Excused(p)'
  <2>1. l = job[p].level /\ l <= Top
    BY <1>1, <1>7 DEF ForceLevel, Excused, Right, JobsRight, JobRight, MergeSteps
  <2>2. CASE step = "read"
    BY <1>3, <2>1, <2>2 DEF Excused, MergeSteps
  <2>3. CASE step = "truncate"
    <3>1. l < Top
      BY <1>7, <2>1, JobLevels DEF Levels, Top
    <3>2. meta.counts[l] \in Nat /\ ~ (meta.counts[l] >= 2)
      BY <1>2, <2>1, <2>3, <3>1, <1>7, ChainTyped
    <3>3. PICK f \in Fanouts : f \in Nat /\ f # 0 /\ f # 1
      BY LevelsAssumption
    <3>4. meta.counts[l] < f
      BY <3>2, <3>3
    <3> QED
      BY <3>4 DEF Bounded
  <2> QED
    BY <2>2, <2>3
<1> QED
  BY <1>1, <1>2, <1>3, <1>4, <1>5, <1>6, <1>7, ThinkingStep DEF ForceLevel

\* The first n blocks of the chain of a level.
LEMMA FirstOfChain ==
    ASSUME Right, NEW l \in Levels, NEW n \in 0 .. Len(Chain(l))
    PROVE  /\ SubSeq(Chain(l), 1, n) \in Seq(Nat)
           /\ Len(SubSeq(Chain(l), 1, n)) = n
           /\ Elements(SubSeq(Chain(l), 1, n)) = {Chain(l)[i] : i \in 1 .. n}
           /\ Remainder(Chain(l), n) \in Nat
<1> DEFINE s == Chain(l)
           t == SubSeq(s, 1, n)
<1>1. Len(s) \in Nat /\ n \in Nat /\ n <= Len(s) /\ \A i \in 1 .. Len(s) : s[i] \in Nat
  BY ChainTyped, ElementOfSeq
<1> HIDE DEF s
<1>2. /\ t \in Seq(Nat) /\ Len(t) = n
      /\ \A i \in 1 .. n : t[i] = s[i]
  <2>1. 1 \in Int /\ n \in Int /\ \A i \in 1 .. n : s[i] \in Nat
    BY <1>1
  <2>2. /\ t \in Seq(Nat)
        /\ Len(t) = IF 1 <= n THEN n - 1 + 1 ELSE 0
        /\ \A i \in 1 .. n - 1 + 1 : t[i] = s[1 + i - 1]
    BY <2>1, SubSeqProperties
  <2>3. n - 1 + 1 = n /\ (~ (1 <= n) => n = 0) /\ \A i \in 1 .. n : 1 + i - 1 = i
    BY <1>1
  <2> QED
    BY <2>2, <2>3
<1>3. DOMAIN t = 1 .. n
  BY <1>2, LenProperties
<1>4. Elements(t) = {s[i] : i \in 1 .. n}
  <2>1. Elements(t) = {t[i] : i \in 1 .. n}
    BY <1>3 DEF Elements
  <2> HIDE DEF t
  <2> QED
    BY <1>2, <2>1
<1>5. Remainder(s, n) \in Nat
  BY <1>1 DEF Remainder, None
<1> QED
  BY <1>2, <1>4, <1>5 DEF s

LEMMA SmallerIs ==
    ASSUME NEW m \in Nat, NEW n \in Nat
    PROVE  /\ Smaller(m, n) \in 0 .. m /\ Smaller(m, n) <= n
           /\ Smaller(Smaller(m, n), m) = Smaller(m, n)
           /\ m <= n => Smaller(m, n) = m
           /\ m > 0 /\ n > 0 => Smaller(m, n) > 0
BY DEF Smaller

\* A limit on the segments of a merge is positive.
LEMMA LimitPositive ==
    ASSUME NEW forced \in BOOLEAN, NEW m, IF forced THEN m = All ELSE m \in Fanouts
    PROVE  m \in Nat /\ m > 0
<1>1. CASE forced
  <2>1. m = MaxDocs + 1 /\ MaxDocs \in Nat
    BY <1>1, LevelsAssumption DEF All
  <2> QED
    BY <2>1
<1>2. CASE ~ forced
  <2>1. m \in Nat \ {0, 1}
    BY <1>2, LevelsAssumption
  <2> QED
    BY <2>1
<1> QED
  BY <1>1, <1>2

\* A merge has read the chain, or found the level empty.
LEMMA MergeReadKeeps ==
    ASSUME ~Overlap, Right, IInv, NEW p \in Procs, MergeRead(p)
    PROVE  Right' /\ Found' = Found /\ heap' = heap
<1> DEFINE k == job[p].level
           n == Smaller(Smaller(meta.counts[k], job[p].max), Len(Chain(k)))
           taken == [job[p] EXCEPT !.sources = SubSeq(Chain(k), 1, n),
                                   !.rest = Remainder(Chain(k), n), !.total = meta.counts[k]]
           later == Job(k + 1, job[p].max)
           step == IF n > 0 THEN "merge"
                   ELSE IF run[p].task = "force" THEN "force" ELSE "check"
<1>1. TypeOK /\ Works(p) /\ job[p] \in Jobs
  BY WorksAlone DEF MergeRead, Right, Resting, TypeOK
<1>2. /\ k < Top /\ k \in Levels /\ k + 1 <= Top /\ k + 1 \in Nat /\ job[p].new = None
      /\ IF run[p].task = "force" THEN job[p].max = All ELSE job[p].max \in Fanouts
  BY <1>1, JobLevels DEF MergeRead, Right, JobsRight, JobRight, MergeSteps, Levels, Top
<1>3. /\ meta.counts[k] = Len(Chain(k)) /\ Len(Chain(k)) \in Nat /\ job[p].max \in Nat
      /\ n = Smaller(Len(Chain(k)), job[p].max) /\ n \in 0 .. Len(Chain(k))
  <2>1. meta.counts[k] = Len(Chain(k)) /\ Len(Chain(k)) \in Nat
    BY <1>2, ChainTyped
  <2>2. job[p].max \in Nat
    BY <1>1 DEF Jobs
  <2> QED
    BY <2>1, <2>2, SmallerIs
<1>4. taken \in Jobs /\ later \in Jobs
  <2>1. SubSeq(Chain(k), 1, n) \in Seq(Nat) /\ Remainder(Chain(k), n) \in Nat
    BY <1>2, <1>3, FirstOfChain
  <2>2. meta.counts[k] \in Nat /\ job[p].max \in Nat
    BY <1>3
  <2> HIDE DEF n
  <2>3. taken \in Jobs
    BY <1>1, <2>1, <2>2 DEF Jobs
  <2>4. later \in Jobs
    BY <1>2, <2>2 DEF Jobs, Job, None
  <2> QED
    BY <2>3, <2>4
<1>5. Goto(p, step) /\ With(p, IF n > 0 THEN taken ELSE later)
  BY DEF MergeRead
<1>6. /\ run'[p] = [task |-> run[p].task, at |-> step]
      /\ \A q \in Procs \ {p} : run'[q] = run[q] /\ job'[q] = job[q]
      /\ run' \in [Procs -> Runs] /\ job' \in [Procs -> Jobs]
      /\ job'[p] = IF n > 0 THEN taken ELSE later
  <2>1. step \in Steps
    BY DEF Steps
  <2> QED
    BY <1>1, <1>4, <1>5, <2>1, Steps1, Works1
<1>7. TypeOK'
  BY <1>1, <1>6 DEF MergeRead, TypeOK, blocks
<1>8. \A l : Chain(l)' = Chain(l)
  BY SameBlocks DEF MergeRead
<1>9. JobRight(p)'
  <2>1. CASE n > 0
    <3>1. job'[p] = taken /\ run'[p].at = "merge"
      BY <1>6, <2>1
    <3>2. /\ job'[p].level = k /\ job'[p].max = job[p].max /\ job'[p].new = None
          /\ job'[p].sources = SubSeq(Chain(k), 1, n) /\ job'[p].rest = Remainder(Chain(k), n)
          /\ job'[p].total = Len(Chain(k))
      BY <1>1, <1>2, <1>3, <3>1 DEF Jobs
    <3>3. Taken(p)' = n
      BY <1>3, <1>8, <3>2 DEF Taken
    <3>4. Len(Chain(k)) > 0
      BY <1>3, <2>1
    <3> HIDE DEF k, n, taken
    <3> QED
      BY <1>2, <1>6, <1>8, <3>1, <3>2, <3>3, <3>4 DEF JobRight, MergeSteps
  <2>2. CASE ~ (n > 0)
    <3>1. /\ job'[p].level = k + 1 /\ job'[p].max = job[p].max /\ job'[p].new = None
          /\ run'[p].at = IF run[p].task = "force" THEN "force" ELSE "check"
          /\ run'[p].task = run[p].task
      BY <1>6, <2>2 DEF Job
    <3> HIDE DEF k, n
    <3> QED
      BY <1>2, <3>1 DEF JobRight, MergeSteps
  <2> QED
    BY <2>1, <2>2
<1>10. VacuumRight'
  <2>1. run'[p].at \in {"merge", "force", "check"}
    BY <1>6
  <2> QED
    BY <1>1, <1>6, <2>1, VacuumElsewhere DEF MergeRead
<1>11. ASSUME NEW l \in Levels \ {Top}, l \in Excused(p)
       PROVE  Bounded(l) \/ l \in Excused(p)'
  <2>1. l \in {k, k + 1}
    BY <1>11 DEF MergeRead, Excused, MergeSteps
  <2>2. CASE n > 0
    <3>1. job'[p].level = k /\ run'[p].at = "merge"
      BY <1>1, <1>6, <2>2 DEF Jobs
    <3> HIDE DEF k, n
    <3> QED
      BY <2>1, <3>1 DEF Excused, MergeSteps
  <2>3. CASE ~ (n > 0) /\ l = k + 1
    <3>1. job'[p].level = k + 1 /\ run'[p].at \in {"force", "check"}
      BY <1>6, <2>3 DEF Job
    <3> HIDE DEF k, n
    <3> QED
      BY <2>3, <3>1 DEF Excused
  <2>4. CASE ~ (n > 0) /\ l = k
    <3>1. PICK f \in Fanouts : f \in Nat /\ f # 0
      BY LevelsAssumption
    <3>2. job[p].max \in Nat /\ job[p].max > 0
      BY <1>2, LimitPositive
    <3>3. ~ (Len(Chain(k)) > 0)
      BY <1>3, <2>4, <3>2, SmallerIs
    <3>4. meta.counts[l] = 0
      BY <1>3, <2>4, <3>3
    <3> QED
      BY <3>1, <3>4 DEF Bounded
  <2> QED
    BY <2>1, <2>2, <2>3, <2>4
<1> QED
  <2>1. {run[p].at, run'[p].at} \cap {"link", "swap", "replace", "free"} = {}
    BY <1>6 DEF MergeRead
  <2> QED
    BY <1>1, <1>6, <1>7, <1>9, <1>10, <1>11, <2>1, ThinkingStep DEF MergeRead

-----------------------------------------------------------------------------
(* Steps that anybody may take while another process works on the chains. *)

\* Blocks and jobs stay, and whoever changes its step rests before and after.
LEMMA OthersKeep ==
    ASSUME Right, UNCHANGED <<blocks, job>>,
           \A q \in Procs : run'[q] = run[q] \/ (Resting(q) /\ Resting(q)')
    PROVE  /\ Alone' /\ ChainsSound' /\ JobsRight' /\ BlocksPlaced' /\ LongExcused'
           /\ Spilled' = Spilled /\ AllLinked' = AllLinked
           /\ DocsOn(AllLinked)' = DocsOn(AllLinked)
<1>1. UNCHANGED blocks /\ job' = job
  OBVIOUS
<1>2. \A q \in Procs : Resting(q)' => Resting(q)
  BY DEF Resting
<1>3. Alone'
  BY <1>2 DEF Right, Alone, Resting
<1>4. ASSUME NEW q \in Procs
      PROVE  /\ JobRight(q)' /\ InHand(q)' = InHand(q) /\ Excused(q)' = Excused(q)
             /\ run'[q].at = "link" <=> run[q].at = "link"
  <2>1. CASE run'[q] = run[q]
    <3>1. Taken(q)' = Taken(q)
      BY <1>1, <2>1, SameBlocks DEF Taken
    <3>2. JobRight(q)
      BY DEF Right, JobsRight
    <3>3. JobRight(q)'
      BY <1>1, <2>1, <3>1, <3>2, SameBlocks DEF JobRight, Top
    <3> QED
      BY <1>1, <2>1, <3>3 DEF InHand, Excused
  <2>2. CASE Resting(q) /\ Resting(q)'
    <3>1. JobRight(q)
      BY DEF Right, JobsRight
    <3>2. job[q].new = None /\ (job[q].new = None)'
      BY <1>1, <2>2, <3>1, RestingIs
    <3> QED
      BY <2>2, <3>1, <3>2, RestingIs, RestingThen
  <2> QED
    BY <2>1, <2>2
<1>5. Held' = Held
  BY <1>4 DEF Held
<1>6. Spilled' = Spilled
  BY <1>1, <1>4, SameBlocks DEF Spilled, DocsAt
<1>7. BlocksPlaced'
  BY <1>1, <1>5, SameBlocks DEF Right, BlocksPlaced
<1>8. LongExcused'
  BY <1>1, <1>4, SameBlocks DEF Right, LongExcused
<1>9. AllLinked' = AllLinked /\ DocsOn(AllLinked)' = DocsOn(AllLinked)
  BY <1>1, SameBlocks
<1> QED
  BY <1>1, <1>3, <1>4, <1>6, <1>7, <1>8, <1>9, SameBlocks DEF Right, JobsRight

\* What vacuum knows stays right while blocks, jobs and steps stay as they are.
LEMMA VacuumStays ==
    ASSUME VacuumRight, UNCHANGED <<blocks, job, run, vac>>,
           \A d \in vac.dead : heap'[d] = "dead",
           memtable' \cap vac.dead \subseteq memtable
    PROVE  VacuumRight'
<1>1. SweepRight' <=> SweepRight
  BY DEF SweepRight, Standing, Ahead, Clean, DocsOn, DocsAt, SegmentAt, Linked, Chain, blocks
<1>2. ReplaceRight' <=> ReplaceRight
  BY DEF ReplaceRight, InLevel, Here, DocsAt, SegmentAt, blocks
<1>3. Clean(AllLinked)' <=> Clean(AllLinked)
  BY SameBlocks DEF Clean
<1> QED
  BY <1>1, <1>2, <1>3 DEF VacuumRight

\* A row is inserted.
LEMMA InsertKeeps ==
    ASSUME Right, NEW d \in Docs, Insert(d)
    PROVE  Right' /\ heap' = [heap EXCEPT ![d] = "live"] /\ Found' = Found \cup {d}
<1>1. /\ UNCHANGED <<blocks, job>> /\ UNCHANGED <<blocks, job, run, vac>> /\ run' = run
      /\ heap[d] = "absent" /\ heap' = [heap EXCEPT ![d] = "live"] /\ TypeOK
      /\ memtable' = memtable \cup {d}
  BY DEF Insert, Right
<1>2. TypeOK'
  BY <1>1 DEF Insert, TypeOK, blocks
<1>3. /\ Alone' /\ ChainsSound' /\ JobsRight' /\ BlocksPlaced' /\ LongExcused'
      /\ Spilled' = Spilled /\ AllLinked' = AllLinked
      /\ DocsOn(AllLinked)' = DocsOn(AllLinked)
  BY <1>1, OthersKeep
<1>4. Found' = Found \cup {d}
  BY <1>1, <1>3 DEF Found
<1>5. d \notin Found
  BY <1>1 DEF Right, DocsRight
<1>6. NoDocTwice'
  <2>1. \A b : SegmentAt(b)' = SegmentAt(b)
    BY <1>1 DEF SegmentAt, blocks
  <2> QED
    BY <1>1, <1>3, <1>5, <2>1 DEF Right, DocsRight, NoDocTwice, Found
<1>7. DocsRight'
  <2>1. \A e \in Found : heap'[e] \in {"live", "dead"}
    BY <1>1, <1>5 DEF Right, DocsRight, TypeOK
  <2>2. heap'[d] = "live"
    BY <1>1 DEF TypeOK
  <2> QED
    BY <1>1, <1>3, <1>4, <1>6, <2>1, <2>2, SameBlocks DEF Right, DocsRight
<1>8. VacuumRight'
  <2>1. d \notin vac.dead
    BY <1>1 DEF Right, VacuumRight
  <2> QED
    BY <1>1, <2>1, VacuumStays DEF Right, VacuumRight
<1> QED
  BY <1>1, <1>2, <1>3, <1>4, <1>7, <1>8 DEF Right

\* A row is deleted: its heap tuple is dead, the index still holds it.
LEMMA DeleteKeeps ==
    ASSUME Right, NEW d \in Docs, Delete(d)
    PROVE  Right' /\ heap' = [heap EXCEPT ![d] = "dead"] /\ Found' = Found
<1>1. /\ UNCHANGED <<blocks, job>> /\ UNCHANGED <<blocks, job, run, vac>> /\ run' = run
      /\ heap[d] = "live" /\ heap' = [heap EXCEPT ![d] = "dead"] /\ TypeOK
      /\ memtable' = memtable
  BY DEF Delete, Right
<1>2. TypeOK'
  BY <1>1 DEF Delete, TypeOK, blocks
<1>3. /\ Alone' /\ ChainsSound' /\ JobsRight' /\ BlocksPlaced' /\ LongExcused'
      /\ Spilled' = Spilled /\ AllLinked' = AllLinked
      /\ DocsOn(AllLinked)' = DocsOn(AllLinked)
  BY <1>1, OthersKeep
<1>4. Found' = Found
  BY <1>1, <1>3 DEF Found
<1>5. NoDocTwice'
  <2>1. \A b : SegmentAt(b)' = SegmentAt(b)
    BY <1>1 DEF SegmentAt, blocks
  <2> QED
    BY <1>1, <1>3, <2>1 DEF Right, DocsRight, NoDocTwice
<1>6. DocsRight'
  <2>1. \A e \in Found : heap'[e] \in {"live", "dead"}
    BY <1>1 DEF Right, DocsRight, TypeOK
  <2> QED
    BY <1>1, <1>3, <1>4, <1>5, <2>1, SameBlocks DEF Right, DocsRight
<1>7. VacuumRight'
  BY <1>1, VacuumStays DEF Right, VacuumRight, TypeOK
<1> QED
  BY <1>1, <1>2, <1>3, <1>4, <1>6, <1>7 DEF Right

\* Vacuum begins: it knows the dead rows of the heap.
LEMMA StartVacuumKeeps ==
    ASSUME Right, StartVacuum
    PROVE  Right' /\ Found' = Found /\ heap' = heap
<1> DEFINE dead == {d \in Docs : heap[d] = "dead"}
<1>0. Vacuum \in Procs /\ TypeOK
  BY DEF Procs, Right
<1>1. PICK step \in {"lock", "survey"} :
          /\ Begin(Vacuum, "vacuum", step)
          /\ step = IF memtable # {} THEN "lock" ELSE "survey"
  BY DEF StartVacuum, SpillNeeded
<1>2. /\ run'[Vacuum] = [task |-> "vacuum", at |-> step] /\ run[Vacuum].at = "idle"
      /\ \A q \in Procs \ {Vacuum} : run'[q] = run[q]
      /\ run' \in [Procs -> Runs]
  BY <1>0, <1>1, Begins1 DEF StartVacuum, Tasks, Steps
<1>3. /\ UNCHANGED <<blocks, job>> /\ UNCHANGED <<heap, memtable, blocks, job>>
      /\ vac' = [NoVacuum EXCEPT !.dead = dead]
  BY DEF StartVacuum
<1>4. /\ vac'.dead = dead /\ vac'.level = 0 /\ vac'.i = 1 /\ vac'.prev = None
      /\ vac' \in Vacuums
  <2>1. [l \in Levels |-> <<>>] \in [Levels -> Seq(Surveyed)]
    OBVIOUS
  <2> QED
    BY <1>3, <2>1 DEF NoVacuum, Vacuums, None
<1>5. TypeOK'
  BY <1>0, <1>2, <1>3, <1>4 DEF TypeOK, blocks, StartVacuum
<1>6. /\ Alone' /\ ChainsSound' /\ JobsRight' /\ BlocksPlaced' /\ LongExcused'
      /\ Spilled' = Spilled /\ AllLinked' = AllLinked
      /\ DocsOn(AllLinked)' = DocsOn(AllLinked)
  <2>1. \A q \in Procs : run'[q] = run[q] \/ (Resting(q) /\ Resting(q)')
    BY <1>2 DEF Resting
  <2> QED
    BY <1>3, <2>1, OthersKeep
<1>7. Found' = Found
  BY <1>3, <1>6 DEF Found
<1>8. NoDocTwice'
  <2>1. \A b : SegmentAt(b)' = SegmentAt(b)
    BY <1>3 DEF SegmentAt, blocks
  <2> QED
    BY <1>3, <1>6, <2>1 DEF Right, DocsRight, NoDocTwice
<1>9. DocsRight'
  BY <1>3, <1>6, <1>7, <1>8, SameBlocks DEF Right, DocsRight
<1>10. VacuumRight'
  BY <1>1, <1>2, <1>3, <1>4 DEF VacuumRight, SweepRight, ReplaceRight
<1> QED
  BY <1>3, <1>5, <1>6, <1>7, <1>9, <1>10 DEF Right

-----------------------------------------------------------------------------
(* Vacuum looks at the chains. *)

LEMMA DocsFinite ==
    ASSUME NEW docs \in SUBSET Docs
    PROVE  IsFiniteSet(docs) /\ Cardinality(docs) \in Nat /\ (Cardinality(docs) = 0 <=> docs = {})
<1>1. IsFiniteSet(Docs)
  BY CountNumbers, LevelsAssumption DEF Docs
<1> QED
  BY <1>1, FS_Subset, FS_CardinalityType, FS_EmptySet

LEMMA SegmentTyped ==
    ASSUME TypeOK
    PROVE  /\ \A b : SegmentAt(b) \in Segments /\ DocsAt(b) \in SUBSET Docs
           /\ \A bs : DocsOn(bs) \in SUBSET Docs
<1>1. \A b : SegmentAt(b) \in Segments
  <2>1. \A b \in DOMAIN pages : pages[b] \in Segments
    BY LenProperties, ElementOfSeq DEF TypeOK
  <2> QED
    BY <2>1 DEF SegmentAt, Segment, Segments, None
<1> QED
  BY <1>1 DEF DocsAt, DocsOn, Segments

LEMMA CleanIs ==
    \A bs : Clean(bs) <=> \A b \in bs : DocsAt(b) \cap vac.dead = {}
  BY DEF Clean, DocsOn, DocsAt

\* Vacuum takes the lock for its spill.
LEMMA LockForVacuumRight ==
    ASSUME ~Overlap, Right, IInv, LockForVacuum
    PROVE  Right' /\ Found' = Found /\ heap' = heap
<1>0. Vacuum \in Procs
  BY DEF Procs
<1>1. TypeOK /\ Works(Vacuum)
  BY <1>0, WorksAlone DEF LockForVacuum, Right
<1>2. PICK f \in Fanouts : With(Vacuum, Job(0, f))
  BY DEF LockForVacuum
<1>3. /\ run'[Vacuum] = [task |-> run[Vacuum].task, at |-> "write"] /\ job'[Vacuum] = Job(0, f)
      /\ \A q \in Procs \ {Vacuum} : run'[q] = run[q] /\ job'[q] = job[q]
      /\ run' \in [Procs -> Runs]
  BY <1>0, <1>1, <1>2, Steps1, Works1 DEF LockForVacuum, Steps
<1>4. TypeOK'
  <2>1. Job(0, f) \in Jobs
    BY LevelsAssumption DEF Job, Jobs, None
  <2> QED
    BY <1>0, <1>1, <1>2, <1>3, <2>1, Works1 DEF LockForVacuum, TypeOK, blocks
<1>5. JobRight(Vacuum)'
  <2>1. run[Vacuum].task # "force"
    BY <1>0 DEF LockForVacuum, IInv, ForcedSteps
  <2> QED
    BY <1>3, <2>1 DEF JobRight, Job, MergeSteps
<1>6. VacuumRight'
  BY <1>0, <1>1, <1>3, VacuumElsewhere DEF LockForVacuum
<1>7. \A l : l \notin Excused(Vacuum)
  BY DEF LockForVacuum, Excused, MergeSteps
<1> QED
  BY <1>0, <1>1, <1>3, <1>4, <1>5, <1>6, <1>7, ThinkingStep DEF LockForVacuum

\* Vacuum has read every chain and knows where the dead documents are.
LEMMA SurveyKeeps ==
    ASSUME ~Overlap, Right, Survey
    PROVE  Right' /\ Found' = Found /\ heap' = heap
<1> DEFINE segs == [l \in Levels |-> [i \in 1 .. Len(Chain(l)) |-> SurveyOf(Chain(l)[i])]]
           hits == DocsOn(AllLinked) \cap vac.dead
<1>0. Vacuum \in Procs
  BY DEF Procs
<1>1. TypeOK /\ Works(Vacuum) /\ run[Vacuum].at = "survey" /\ UNCHANGED blocks
  BY <1>0, WorksAlone DEF Survey, Right
<1>2. PICK step \in {"finish", "sweep"} :
          Goto(Vacuum, step) /\ step = IF hits = {} THEN "finish" ELSE "sweep"
  BY DEF Survey
<1>3. /\ run'[Vacuum] = [task |-> run[Vacuum].task, at |-> step] /\ job' = job
      /\ \A q \in Procs \ {Vacuum} : run'[q] = run[q] /\ job'[q] = job[q]
      /\ run' \in [Procs -> Runs]
  BY <1>0, <1>1, <1>2, Steps1 DEF Survey, Steps
<1>4. vac' = [vac EXCEPT !.segs = segs, !.found = Cardinality(hits)]
  BY DEF Survey
<1>5. ASSUME NEW l \in Levels
      PROVE  /\ segs[l] \in Seq(Surveyed) /\ Len(segs[l]) = Len(Chain(l))
             /\ \A i \in 1 .. Len(Chain(l)) : segs[l][i] = SurveyOf(Chain(l)[i])
  <2>1. \A b \in Nat : SurveyOf(b) \in Surveyed
    BY <1>1, SegmentTyped, DocsFinite DEF SurveyOf, Surveyed, Segments
  <2>2. Len(Chain(l)) \in Nat /\ \A i \in 1 .. Len(Chain(l)) : Chain(l)[i] \in Nat
    BY ChainTyped, ElementOfSeq
  <2>3. segs[l] = [i \in 1 .. Len(Chain(l)) |-> SurveyOf(Chain(l)[i])]
    OBVIOUS
  <2> HIDE DEF segs
  <2>4. segs[l] \in [1 .. Len(Chain(l)) -> Surveyed]
    BY <2>1, <2>2, <2>3
  <2>5. segs[l] \in Seq(Surveyed)
    BY <2>2, <2>4, SeqDef
  <2>6. Len(segs[l]) = Len(Chain(l))
    BY <2>2, <2>4, <2>5, LenProperties
  <2> QED
    BY <2>3, <2>5, <2>6
<1>6. /\ vac' \in Vacuums /\ vac'.segs = segs /\ vac'.dead = vac.dead
      /\ vac'.level = vac.level /\ vac'.i = vac.i /\ vac'.prev = vac.prev
  <2>1. segs \in [Levels -> Seq(Surveyed)]
    <3> HIDE DEF segs
    <3>1. segs = [l \in Levels |-> segs[l]]
      BY DEF segs
    <3> QED
      BY <1>5, <3>1
  <2>2. Cardinality(hits) \in Nat
    BY <1>1, SegmentTyped, DocsFinite
  <2>3. vac \in Vacuums
    BY <1>1 DEF TypeOK
  <2> HIDE DEF segs, hits
  <2> QED
    BY <1>4, <2>1, <2>2, <2>3 DEF Vacuums
<1>7. TypeOK'
  BY <1>1, <1>3, <1>6 DEF Survey, TypeOK, blocks
<1>8. JobRight(Vacuum)'
  BY <1>0, <1>1, <1>3 DEF Right, JobsRight, JobRight, MergeSteps
<1>9. vac.level = 0 /\ vac.i = 1 /\ vac.prev = None /\ memtable \cap vac.dead = {}
  BY <1>1 DEF Right, VacuumRight
<1>10. \A l \in Levels : Ahead(l, 1, 0)'
  <2> SUFFICES ASSUME NEW l \in Levels PROVE Ahead(l, 1, 0)'
    OBVIOUS
  <2>1. Chain(l)' = Chain(l) /\ (\A b : DocsAt(b)' = DocsAt(b)) /\ Len(Chain(l)) \in Nat
    BY <1>1, SameBlocks, ChainTyped
  <2>2. vac'.segs[l] = segs[l]
    BY <1>6
  <2>3. \A b : SurveyOf(b).root = b /\ (SurveyOf(b).hit <=> DocsAt(b) \cap vac.dead # {})
    BY DEF SurveyOf, DocsAt
  <2> HIDE DEF segs
  <2>4. \A n \in 1 .. Len(Chain(l)) - 0 : 1 - 1 + n = n /\ 0 + n = n /\ n \in 1 .. Len(Chain(l))
    BY <2>1
  <2>5. Len(Chain(l)) + 1 = Len(Chain(l)) + 0 + 1
    BY <2>1
  <2> QED
    BY <1>5, <1>6, <2>1, <2>2, <2>3, <2>4, <2>5 DEF Ahead
<1>11. VacuumRight'
  <2>1. Clean(AllLinked)' <=> hits = {}
    BY <1>1, <1>6, SameBlocks DEF Clean
  <2>2. SweepRight'
    <3> SUFFICES ASSUME run'[Vacuum].at = "sweep"
                 PROVE  /\ vac'.level \in Levels /\ vac'.i \in 1 .. Len(vac'.segs[vac'.level]) + 1
                        /\ \E k \in 0 .. Len(Chain(vac.level)') : Standing(k)'
                        /\ \A l \in Levels : l < vac'.level => Clean(Linked(l))'
                        /\ \A l \in Levels : l > vac'.level => Ahead(l, 1, 0)'
      BY <1>2, <1>3 DEF SweepRight
    <3>1. vac'.level = 0 /\ vac'.i = 1 /\ vac'.prev = None
      BY <1>6, <1>9
    <3>2. 0 \in Levels /\ \A l \in Levels : ~ (l < 0)
      BY <1>0, JobLevels DEF Levels
    <3>3. Ahead(0, 1, 0)'
      BY <1>10, <3>2
    <3>4. Standing(0)'
      BY <3>1, <3>3 DEF Standing
    <3>5. Len(vac'.segs[0]) \in Nat /\ Len(Chain(0)') \in Nat
      BY <1>1, <1>5, <1>6, <3>2, ChainTyped, SameBlocks
    <3>6. 0 \in 0 .. Len(Chain(0)') /\ 1 \in 1 .. Len(vac'.segs[0]) + 1
      BY <3>5
    <3> QED
      BY <1>9, <1>10, <3>1, <3>2, <3>4, <3>6
  <2> QED
    BY <1>1, <1>2, <1>3, <1>6, <1>9, <2>1, <2>2 DEF Survey, Right, VacuumRight, ReplaceRight
<1>12. \A l : l \notin Excused(Vacuum)
  BY <1>1 DEF Excused, MergeSteps
<1> QED
  BY <1>0, <1>1, <1>2, <1>3, <1>7, <1>8, <1>11, <1>12, ThinkingStep DEF Survey

\* Where vacuum stands in the chain of its level, when it has not reached its end.
LEMMA HereIs ==
    ASSUME Right, run[Vacuum].at \in {"sweep", "replace"}, InLevel,
           NEW k \in 0 .. Len(Chain(vac.level)), Standing(k)
    PROVE  /\ vac.level \in Levels /\ vac.i \in Nat \ {0} /\ Here \in Surveyed
           /\ k + 1 \in 1 .. Len(Chain(vac.level)) /\ Here.root = Chain(vac.level)[k + 1]
           /\ Here.hit <=> DocsAt(Here.root) \cap vac.dead # {}
           /\ Len(vac.segs[vac.level]) \in Nat
<1> DEFINE s == Chain(vac.level)
           found == vac.segs[vac.level]
<1>1. /\ vac.level \in Levels /\ vac.i \in 1 .. Len(found) + 1
  BY DEF Right, VacuumRight, SweepRight
<1>2. found \in Seq(Surveyed) /\ Len(found) \in Nat
  BY <1>1, LenProperties DEF Right, TypeOK, Vacuums
<1>3. vac.i \in 1 .. Len(found)
  BY <1>1, <1>2 DEF InLevel
<1>4. Here = found[vac.i] /\ Here \in Surveyed
  BY <1>2, <1>3, ElementOfSeq DEF Here
<1>5. Len(s) \in Nat
  BY <1>1, ChainTyped
<1>6. Ahead(vac.level, vac.i, k)
  BY DEF Standing
<1>7. Len(s) + vac.i = Len(found) + k + 1
  BY <1>6 DEF Ahead
<1>8. k + 1 \in 1 .. Len(s) /\ 1 \in 1 .. Len(s) - k /\ vac.i - 1 + 1 = vac.i
  BY <1>2, <1>3, <1>5, <1>7
<1>9. /\ vac.segs[vac.level][vac.i - 1 + 1].root = Chain(vac.level)[k + 1]
      /\ vac.segs[vac.level][vac.i - 1 + 1].hit
            <=> DocsAt(Chain(vac.level)[k + 1]) \cap vac.dead # {}
  BY <1>6, <1>8 DEF Ahead
<1>10. vac.segs[vac.level][vac.i - 1 + 1] = Here
  BY <1>4, <1>8
<1>11. vac.i \in Nat \ {0}
  BY <1>2, <1>3
<1> QED
  BY <1>1, <1>2, <1>4, <1>8, <1>9, <1>10, <1>11

\* At the end of a level, none of its segments holds a dead document.
LEMMA LevelPassed ==
    ASSUME Right, run[Vacuum].at \in {"sweep", "replace"}, ~InLevel
    PROVE  vac.level \in Levels /\ Clean(Linked(vac.level))
<1> DEFINE s == Chain(vac.level)
           found == vac.segs[vac.level]
<1>1. vac.level \in Levels /\ vac.i \in 1 .. Len(found) + 1
  BY DEF Right, VacuumRight, SweepRight
<1>2. PICK k \in 0 .. Len(s) : Standing(k)
  BY DEF Right, VacuumRight, SweepRight
<1>3. Len(found) \in Nat /\ Len(s) \in Nat /\ k \in Nat
  <2>1. Len(s) \in Nat
    BY <1>1, ChainTyped
  <2>2. vac.segs[vac.level] \in Seq(Surveyed)
    BY <1>1 DEF Right, TypeOK, Vacuums
  <2> QED
    BY <1>2, <2>1, <2>2, LenProperties
<1>4. vac.i = Len(found) + 1
  BY <1>1, <1>3 DEF InLevel
<1>5. Len(s) + vac.i = Len(found) + k + 1
  BY <1>2 DEF Standing, Ahead
<1>6. k = Len(s)
  <2>1. \A m, n, j \in Nat : m + (n + 1) = n + j + 1 => j = m
    OBVIOUS
  <2> QED
    BY <1>3, <1>4, <1>5, <2>1
<1>7. \A n \in 1 .. Len(s) : Clean({s[n]})
  BY <1>2, <1>6 DEF Standing
<1>8. Linked(vac.level) = {s[n] : n \in 1 .. Len(s)}
  BY <1>1, ChainTyped
<1> QED
  BY <1>1, <1>7, <1>8, CleanIs

\* What is known of blocks stays known when vacuum only moves on.
LEMMA LookingAt ==
    ASSUME UNCHANGED blocks, vac'.dead = vac.dead, vac'.segs = vac.segs
    PROVE  /\ \A bs : Clean(bs)' <=> Clean(bs)
           /\ \A l, i, k : Ahead(l, i, k)' <=> Ahead(l, i, k)
<1>1. \A bs : Clean(bs)' <=> Clean(bs)
  BY SameBlocks DEF Clean
<1>2. \A l, i, k : Ahead(l, i, k)' <=> Ahead(l, i, k)
  BY SameBlocks DEF Ahead
<1> QED
  BY <1>1, <1>2

\* A segment without dead documents stays.
LEMMA PassSegmentKeeps ==
    ASSUME ~Overlap, Right, PassSegment
    PROVE  Right' /\ Found' = Found /\ heap' = heap
<1>0. Vacuum \in Procs
  BY DEF Procs
<1> PICK l : l = vac.level
  OBVIOUS
<1>1. /\ TypeOK /\ Works(Vacuum) /\ run[Vacuum].at = "sweep" /\ UNCHANGED blocks
      /\ InLevel /\ ~Here.hit /\ run' = run /\ job' = job
  BY <1>0, WorksAlone DEF PassSegment, Sweeping, Right, Resting
<1>2. PICK k \in 0 .. Len(Chain(l)) : Standing(k)
  BY <1>1 DEF Right, VacuumRight, SweepRight
<1>3. /\ l \in Levels /\ vac.i \in Nat \ {0} /\ Here \in Surveyed
      /\ k + 1 \in 1 .. Len(Chain(l)) /\ Here.root = Chain(l)[k + 1]
      /\ DocsAt(Chain(l)[k + 1]) \cap vac.dead = {}
      /\ Len(vac.segs[l]) \in Nat /\ Len(Chain(l)) \in Nat /\ vac.i <= Len(vac.segs[l])
  BY <1>1, <1>2, HereIs, ChainTyped DEF InLevel
<1>4. k \in Nat /\ vac.i \in Nat /\ vac.i + 1 \in Nat /\ k + 1 \in 0 .. Len(Chain(l))
  BY <1>2, <1>3
<1>5. vac.i + 1 \in 1 .. Len(vac.segs[l]) + 1
  BY <1>3, <1>4
<1>6. /\ vac' = [vac EXCEPT !.i = @ + 1, !.prev = Here.root, !.kept = @ + Here.size]
      /\ vac \in Vacuums
  BY <1>1 DEF PassSegment, TypeOK
<1>7. /\ vac'.dead = vac.dead /\ vac'.segs = vac.segs /\ vac'.level = l
      /\ vac'.i = vac.i + 1 /\ vac'.prev = Chain(l)[k + 1] /\ vac' \in Vacuums
  <2>1. Here.root \in Nat /\ Here.size \in Nat /\ vac.kept \in Nat
    BY <1>3, <1>6 DEF Surveyed, Vacuums
  <2>2. vac.kept + Here.size \in Nat
    BY <2>1
  <2> QED
    BY <1>3, <1>4, <1>6, <2>1, <2>2 DEF Vacuums
<1>8. TypeOK'
  BY <1>1, <1>7 DEF PassSegment, TypeOK, blocks
<1>9. JobRight(Vacuum)'
  BY <1>0, <1>1 DEF Right, JobsRight, JobRight, MergeSteps
<1>10. Standing(k + 1)'
  <2>1. Ahead(l, vac.i, k)
    BY <1>2 DEF Standing
  <2>2. Ahead(l, vac.i + 1, k + 1)
    <3>1. Len(Chain(l)) + (vac.i + 1) = Len(vac.segs[l]) + (k + 1) + 1
      <4>1. Len(Chain(l)) + vac.i = Len(vac.segs[l]) + k + 1
        BY <2>1 DEF Ahead
      <4>2. \A m, n, i \in Nat : m + i = n + k + 1 => m + (i + 1) = n + (k + 1) + 1
        BY <1>4
      <4> QED
        BY <1>3, <1>4, <4>1, <4>2
    <3>2. \A n \in 1 .. Len(Chain(l)) - (k + 1) :
              /\ n + 1 \in 1 .. Len(Chain(l)) - k /\ k + 1 + n = k + (n + 1)
              /\ (vac.i + 1) - 1 + n = vac.i - 1 + (n + 1)
      <4>1. \A i \in Nat, n \in Nat : (i + 1) - 1 + n = i - 1 + (n + 1)
        OBVIOUS
      <4>2. \A m \in Nat : \A n \in 1 .. m - (k + 1) :
                n \in Nat /\ n + 1 \in 1 .. m - k /\ k + 1 + n = k + (n + 1)
        BY <1>4
      <4> QED
        BY <1>3, <1>4, <4>1, <4>2
    <3>3. \A n \in 1 .. Len(Chain(l)) - k :
              /\ vac.segs[l][vac.i - 1 + n].root = Chain(l)[k + n]
              /\ vac.segs[l][vac.i - 1 + n].hit <=> DocsAt(Chain(l)[k + n]) \cap vac.dead # {}
      BY <2>1 DEF Ahead
    <3>4. \A n \in 1 .. Len(Chain(l)) - (k + 1) :
              /\ vac.segs[l][(vac.i + 1) - 1 + n].root = Chain(l)[k + 1 + n]
              /\ vac.segs[l][(vac.i + 1) - 1 + n].hit <=> DocsAt(Chain(l)[k + 1 + n]) \cap vac.dead # {}
      BY <3>2, <3>3
    <3> QED
      BY <3>1, <3>4 DEF Ahead
  <2>3. vac'.prev = IF k + 1 = 0 THEN None ELSE Chain(l)[k + 1]
    BY <1>3, <1>7
  <2>4. \A n \in 1 .. k + 1 : Clean({Chain(l)[n]})
    <3>1. \A n \in 1 .. k + 1 : n \in 1 .. k \/ n = k + 1
      BY <1>3
    <3>2. Clean({Chain(l)[k + 1]})
      BY <1>3, CleanIs
    <3>3. \A n \in 1 .. k : Clean({Chain(l)[n]})
      BY <1>2 DEF Standing
    <3> QED
      BY <3>1, <3>2, <3>3
  <2>5. Chain(l)' = Chain(l)
    BY <1>1, SameBlocks
  <2> QED
    BY <1>1, <1>7, <2>2, <2>3, <2>4, <2>5, LookingAt DEF Standing
<1>11. VacuumRight'
  <2>1. SweepRight
    BY DEF Right, VacuumRight
  <2>2. k + 1 \in 0 .. Len(Chain(l)) /\ vac'.i \in 1 .. Len(vac'.segs[l]) + 1
    BY <1>4, <1>5, <1>7
  <2>3. \A m : Linked(m)' = Linked(m) /\ Chain(m)' = Chain(m)
    BY <1>1, SameBlocks
  <2>4. SweepRight'
    BY <1>1, <1>3, <1>7, <1>10, <2>1, <2>2, <2>3, LookingAt DEF SweepRight
  <2> QED
    BY <1>1, <1>7, <2>4 DEF PassSegment, Right, VacuumRight, ReplaceRight
<1>12. \A m : m \notin Excused(Vacuum)
  BY <1>1 DEF Excused, MergeSteps
<1> QED
  BY <1>0, <1>1, <1>8, <1>9, <1>11, <1>12, ThinkingStep DEF PassSegment

\* A level is done: the next one, or the end of the sweep.
LEMMA PassLevelKeeps ==
    ASSUME ~Overlap, Right, PassLevel
    PROVE  Right' /\ Found' = Found /\ heap' = heap
<1> PICK l : l = vac.level
  OBVIOUS
<1>0. Vacuum \in Procs
  BY DEF Procs
<1>1. /\ TypeOK /\ Works(Vacuum) /\ run[Vacuum].at = "sweep" /\ UNCHANGED blocks
      /\ ~InLevel /\ job' = job /\ vac \in Vacuums
  BY <1>0, WorksAlone DEF PassLevel, Sweeping, Right, Resting, TypeOK
<1>2. l \in Levels /\ Clean(Linked(l)) /\ SweepRight
  BY <1>1, LevelPassed DEF Right, VacuumRight
<1>3. \A m \in Levels : m <= l => Clean(Linked(m))
  <2>1. \A m \in Levels : m <= l => m < l \/ m = l
    BY <1>2 DEF Levels
  <2> QED
    BY <1>1, <1>2, <2>1 DEF SweepRight
<1>4. \A m : Linked(m)' = Linked(m) /\ Chain(m)' = Chain(m)
  BY <1>1, SameBlocks
<1>5. \A m : m \notin Excused(Vacuum)
  BY <1>1 DEF Excused, MergeSteps
<1>6. CASE l = Top
  <2>1. vac' = vac /\ Goto(Vacuum, "finish")
    BY <1>6 DEF PassLevel
  <2>2. /\ run'[Vacuum] = [task |-> run[Vacuum].task, at |-> "finish"]
        /\ \A q \in Procs \ {Vacuum} : run'[q] = run[q] /\ job'[q] = job[q]
        /\ run' \in [Procs -> Runs]
    BY <1>0, <1>1, <2>1, Steps1 DEF Steps
  <2>3. TypeOK'
    BY <1>1, <2>1, <2>2 DEF PassLevel, TypeOK, blocks
  <2>4. JobRight(Vacuum)'
    BY <1>0, <1>1, <2>2 DEF Right, JobsRight, JobRight, MergeSteps
  <2>5. Clean(AllLinked)'
    <3>1. \A m \in Levels : m <= l
      BY <1>0, <1>6, JobLevels, LevelsAssumption DEF Levels, Top
    <3>2. Clean(AllLinked)
      BY <1>3, <3>1, CleanIs DEF AllLinked
    <3>3. AllLinked' = AllLinked
      BY <1>1, SameBlocks
    <3> QED
      BY <1>1, <2>1, <3>2, <3>3, LookingAt
  <2>6. VacuumRight'
    BY <1>1, <2>1, <2>2, <2>5 DEF PassLevel, Right, VacuumRight, SweepRight, ReplaceRight
  <2> QED
    BY <1>0, <1>1, <1>5, <2>2, <2>3, <2>4, <2>6, ThinkingStep DEF PassLevel
<1>7. CASE l # Top
  <2>1. vac' = [vac EXCEPT !.level = @ + 1, !.i = 1, !.prev = None] /\ run' = run
    BY <1>7 DEF PassLevel
  <2>2. /\ l + 1 \in Levels /\ l + 1 > l
        /\ \A m \in Levels : (m < l + 1 => m <= l) /\ (m > l + 1 => m > l)
    BY <1>2, <1>7, LevelsAssumption DEF Levels, Top
  <2>3. /\ vac'.dead = vac.dead /\ vac'.segs = vac.segs /\ vac'.level = l + 1
        /\ vac'.i = 1 /\ vac'.prev = None /\ vac' \in Vacuums
    <3>1. l + 1 \in Nat /\ 1 \in Nat /\ None \in Nat
      BY <1>2 DEF Levels, None
    <3> QED
      BY <1>1, <2>1, <3>1 DEF Vacuums
  <2>4. TypeOK'
    BY <1>1, <2>1, <2>3 DEF PassLevel, TypeOK, blocks
  <2>5. JobRight(Vacuum)'
    BY <1>0, <1>1, <2>1 DEF Right, JobsRight, JobRight, MergeSteps
  <2>6. Ahead(l + 1, 1, 0)
    BY <1>1, <1>2, <2>2 DEF SweepRight
  <2>7. Standing(0)'
    BY <1>1, <2>3, <2>6, LookingAt DEF Standing
  <2>8. 0 \in 0 .. Len(Chain(l + 1)) /\ 1 \in 1 .. Len(vac.segs[l + 1]) + 1
    BY <1>1, <2>2, ChainTyped, LenProperties DEF Vacuums
  <2>9. SweepRight'
    <3>1. ASSUME NEW m \in Levels, m > l + 1
          PROVE  Ahead(m, 1, 0)'
      <4>1. Ahead(m, 1, 0)
        BY <1>1, <1>2, <2>2, <3>1 DEF SweepRight
      <4> QED
        BY <1>1, <2>3, <4>1, LookingAt
    <3>2. ASSUME NEW m \in Levels, m < l + 1
          PROVE  Clean(Linked(m))'
      <4>1. Clean(Linked(m))
        BY <1>3, <2>2, <3>2
      <4> QED
        BY <1>1, <1>4, <2>3, <4>1, LookingAt
    <3>3. vac'.level \in Levels /\ vac'.i \in 1 .. Len(vac'.segs[vac'.level]) + 1
      BY <2>2, <2>3, <2>8
    <3>4. \E k \in 0 .. Len(Chain(vac.level)') : Standing(k)'
      BY <1>4, <2>3, <2>7, <2>8
    <3> QED
      BY <2>3, <3>1, <3>2, <3>3, <3>4 DEF SweepRight
  <2>10. VacuumRight'
    BY <1>1, <2>1, <2>3, <2>9 DEF PassLevel, Right, VacuumRight, ReplaceRight
  <2> QED
    BY <1>0, <1>1, <1>5, <2>1, <2>4, <2>5, <2>10, ThinkingStep DEF PassLevel
<1> QED
  BY <1>6, <1>7

=============================================================================
