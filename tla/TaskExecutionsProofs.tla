------------------------ MODULE TaskExecutionsProofs ------------------------
(***************************************************************************)
(* Proofs about TaskExecutions for any runs, plans, times to live and      *)
(* number of faults.                                                       *)
(***************************************************************************)
EXTENDS TaskExecutions, FiniteSetTheorems, TLAPS

USE LockAssumption, NobodyAssumption, FaultsAssumption, PlanAssumption

-----------------------------------------------------------------------------
(* Types                                                                    *)

LEMMA InitType == Init => TypeOK
BY DEF Init, TypeOK, LocksInit, LocksType

LEMMA SetType ==
  ASSUME LocksType, NEW k \in Lock, NEW e \in Run, Set(k, e)
  PROVE  /\ holder' \in [Lock -> Run \cup {Nobody}]
         /\ until' \in [Lock -> Nat]
         /\ took' \in [Lock -> [Run -> Nat]]
<1>1. now + Ttl[k] \in Nat
  BY DEF LocksType
<1>2. QED BY <1>1 DEF LocksType, Set

LEMMA EntersType ==
  ASSUME LocksType, NEW k \in Lock, NEW e \in Run,
         Enters(k, e) \/ GivesUp(k, e), redis' = redis, now' = now
  PROVE  LocksType'
<1>1. faults' \in Nat
  BY DEF LocksType, Enters, GivesUp, Answers, Fails
<1>2. CASE Set(k, e)
  BY <1>1, <1>2, SetType DEF LocksType
<1>3. CASE UNCHANGED keys
  BY <1>1, <1>3 DEF LocksType, keys
<1>4. QED BY <1>2, <1>3 DEF Enters, GivesUp, SetNX

LEMMA ReleasesType ==
  ASSUME LocksType, NEW k \in Lock, NEW e \in Run, Releases(k, e),
         redis' = redis, now' = now
  PROVE  LocksType'
<1>1. faults' \in Nat
  BY DEF LocksType, Releases, Answers, Fails
<1>2. holder' \in [Lock -> Run \cup {Nobody}] /\ until' \in [Lock -> Nat]
  BY DEF LocksType, Releases, Deletes, Delete
<1>3. took' \in [Lock -> [Run -> Nat]]
  BY DEF LocksType, Releases
<1>4. QED BY <1>1, <1>2, <1>3 DEF LocksType

LEMMA StillType ==
  ASSUME LocksType, UNCHANGED locks, faults' = faults \/ Fails
  PROVE  LocksType'
BY DEF LocksType, locks, keys, Fails

LEMMA SetLastType ==
  ASSUME TypeOK, NEW e \in Run, plan[e] \in Plan, NEW s \in Status, SetLast(e, s)
  PROVE  last' \in [Plan -> [at : Nat, st : Status \cup {"none"}]]
<1>1. [at |-> began[e], st |-> s] \in [at : Nat, st : Status \cup {"none"}]
  BY DEF TypeOK
<1>2. QED BY <1>1 DEF TypeOK, SetLast

LEMMA WritesType ==
  ASSUME NEW s \in {"success", "failure", "skipped"}
  PROVE  Writes(s) \subseteq Update
BY DEF Writes, Update

LEMMA StepType == ASSUME TypeOK, NEW e \in Run, Step(e) PROVE TypeOK'
<1> USE DEF Goto
<1>1. CASE InsertLog(e)
  <2>1. LocksType'
    BY <1>1, StillType DEF InsertLog, TypeOK, Answered, Answers, Fault
  <2>2. QED BY <1>1, <2>1 DEF InsertLog, TypeOK, Answered, Fault, Status
<1>2. CASE MarkRunning(e)
  <2>1. LocksType'
    BY <1>2, StillType DEF MarkRunning, TypeOK, Answered, Answers, Fault
  <2>2. last' \in [Plan -> [at : Nat, st : Status \cup {"none"}]]
    <3>1. plan[e] \in Plan /\ "running" \in Status
      BY <1>2 DEF MarkRunning, TypeOK, Status
    <3>2. CASE SetLast(e, "running")
      BY <3>1, <3>2, SetLastType
    <3>3. CASE UNCHANGED last
      BY <3>3 DEF TypeOK
    <3>4. QED BY <1>2, <3>2, <3>3 DEF MarkRunning
  <2>3. QED BY <1>2, <2>1, <2>2 DEF MarkRunning, TypeOK, Answered, Fault
<1>3. CASE AcquireTask(e)
  <2>1. LocksType'
    BY <1>3, EntersType, KeysAssumption DEF AcquireTask, TypeOK
  <2>2. CASE Finish(e, "skipped")
    BY <1>3, <2>1, <2>2, WritesType DEF AcquireTask, Finish, TypeOK, table
  <2>3. CASE ~Finish(e, "skipped")
    BY <1>3, <2>1, <2>3 DEF AcquireTask, TypeOK, table
  <2>4. QED BY <2>2, <2>3
<1>4. CASE AcquireCleanup(e)
  <2>1. LocksType'
    BY <1>4, EntersType, KeysAssumption DEF AcquireCleanup, TypeOK
  <2>2. QED BY <1>4, <2>1 DEF AcquireCleanup, AfterCleanup, TypeOK, table
<1>5. CASE Cleanup(e)
  <2>1. LocksType'
    BY <1>5, StillType DEF Cleanup, TypeOK
  <2>2. QED BY <1>5, <2>1 DEF Cleanup, TypeOK, table
<1>6. CASE ReleaseCleanup(e)
  <2>1. LocksType'
    BY <1>6, ReleasesType, KeysAssumption DEF ReleaseCleanup, TypeOK
  <2>2. QED BY <1>6, <2>1 DEF ReleaseCleanup, AfterCleanup, TypeOK, table
<1>7. CASE ReleaseTask(e)
  <2>1. LocksType'
    BY <1>7, ReleasesType, KeysAssumption DEF ReleaseTask, TypeOK
  <2>2. Writes(Outcome(e)) \subseteq Update
    BY WritesType DEF Outcome
  <2>3. QED BY <1>7, <2>1, <2>2 DEF ReleaseTask, Finish, TypeOK, table
<1>8. CASE Record(e)
  <2>1. LocksType'
    BY <1>8, StillType DEF Record, TypeOK, Answered, Answers, Fault
  <2>2. PICK w \in sent[e] : Apply(e, w) \/ UNCHANGED <<last, log>>
    BY <1>8 DEF Record
  <2>3. w \in Update
    BY <2>2 DEF TypeOK
  <2>4. w[2] \in Status /\ w[2] \in {"success", "failure", "skipped"}
    BY <2>3 DEF Update, Status
  <2>5. last' \in [Plan -> [at : Nat, st : Status \cup {"none"}]]
    BY <1>8, <2>2, <2>4, SetLastType DEF Record, Apply, TypeOK
  <2>6. log' \in [Run -> Status \cup {"none"}]
    BY <2>2, <2>4 DEF Apply, TypeOK
  <2>7. sent' \in [Run -> SUBSET Update]
    BY <1>8, WritesType DEF Record, TypeOK
  <2>8. pc' \in [Run -> {"new", "insert", "mark", "lockTask", "lockCleanup", "cleanup",
                   "unlockCleanup", "unlockTask", "record", "recordFailure",
                   "done", "dead"}]
    BY <1>8 DEF Record, TypeOK
  <2>9. /\ UNCHANGED <<alive, plan, began, did>> 
        /\ faulted' \in [Run -> BOOLEAN]
    BY <1>8 DEF Record, TypeOK, Answered, Fault
  <2>10. \A f \in Run :
           pc'[f] \in {"insert", "mark", "lockTask", "unlockTask", "record", "recordFailure"} =>
             plan'[f] \in Plan
    BY <1>8, <2>9 DEF Record, TypeOK
  <2>11. \A f \in Run : pc'[f] = "new" => plan'[f] = NoPlan
    BY <1>8, <2>9 DEF Record, TypeOK
  <2>12. QED BY <2>1, <2>5, <2>6, <2>7, <2>8, <2>9, <2>10, <2>11 DEF TypeOK
<1>9. QED BY <1>1, <1>2, <1>3, <1>4, <1>5, <1>6, <1>7, <1>8 DEF Step

LEMMA NextType == TypeOK /\ [Next]_vars => TypeOK'
<1> SUFFICES ASSUME TypeOK, [Next]_vars PROVE TypeOK'
  OBVIOUS
<1>1. ASSUME NEW e \in Run, NEW p \in Plan, Begin(e, p) PROVE TypeOK'
  <2>1. LocksType'
    BY <1>1, StillType DEF Begin, BeginCleanup, TypeOK
  <2>2. now \in Nat
    BY DEF TypeOK, LocksType
  <2>3. QED BY <1>1, <2>1, <2>2 DEF Begin, BeginCleanup, Goto, TypeOK, table
<1>2. ASSUME NEW e \in Run, Die(e) PROVE TypeOK'
  <2>1. LocksType'
    BY <1>2, StillType DEF Die, TypeOK
  <2>2. QED BY <1>2, <2>1 DEF Die, TypeOK, table
<1>3. ASSUME NEW p \in Plan, Remove(p) PROVE TypeOK'
  <2>1. LocksType'
    BY <1>3, StillType DEF Remove, TypeOK
  <2>2. QED BY <1>3, <2>1 DEF Remove, TypeOK
<1>4. CASE Clock
  <2>1. LocksType'
    BY <1>4 DEF Clock, Ticks, TypeOK, LocksType
  <2>2. QED BY <1>4, <2>1 DEF Clock, TypeOK, table
<1>5. CASE UNCHANGED vars
  <2>1. LocksType'
    BY <1>5, StillType DEF vars, TypeOK
  <2>2. QED BY <1>5, <2>1 DEF vars, TypeOK, table
<1>6. ASSUME NEW e \in Run, BeginCleanup(e) PROVE TypeOK'
  <2>1. LocksType'
    BY <1>6, StillType DEF BeginCleanup, TypeOK
  <2>2. QED BY <1>6, <2>1 DEF BeginCleanup, Goto, TypeOK, table
<1>7. QED BY <1>1, <1>2, <1>3, <1>4, <1>5, <1>6, StepType DEF Next

(* Every variable keeps its type; in particular only outcomes are recorded, *)
(* and every run that records one belongs to a plan.                        *)
THEOREM TypeCorrect == Spec => []TypeOK
BY InitType, NextType, PTL DEF Spec
-----------------------------------------------------------------------------
(* Locks                                                                    *)

(* inside, a run still holds the lock it took, or has outlived it           *)
LockInv(e, k) ==
  redis /\ Inside(e, k) =>
    (holder[k] = e /\ until[k] = took[k][e]) \/ took[k][e] <= now

(* a step in which e neither takes nor gives up k, and no time passes       *)
LEMMA KeptLock ==
  ASSUME TypeOK, NEW e \in Run, NEW k \in Lock, LockInv(e, k),
         redis' = redis, now' = now, Inside(e, k)' => Inside(e, k),
         NEW f \in Run, NEW j \in Lock, f # e \/ j # k,
         UNCHANGED keys \/ SetNX(j, f) \/ Releases(j, f)
  PROVE  LockInv(e, k)'
<1> SUFFICES ASSUME redis, Inside(e, k) PROVE
      ((holder[k] = e /\ until[k] = took[k][e]) \/ took[k][e] <= now)'
  BY DEF LockInv
<1> USE DEF TypeOK, LocksType
<1>1. CASE UNCHANGED keys
  BY <1>1 DEF LockInv, keys
<1>2. CASE SetNX(j, f)
  <2>1. took'[k][e] = took[k][e]
    BY <1>2 DEF SetNX, Set
  <2>2. holder[k] = e => j # k
    BY <1>2 DEF SetNX, Held
  <2>3. holder[k] = e => holder'[k] = e /\ until'[k] = until[k]
    BY <1>2, <2>2 DEF SetNX, Set
  <2>4. QED BY <2>1, <2>3 DEF LockInv
<1>3. CASE Releases(j, f)
  <2>1. took'[k][e] = took[k][e]
    BY <1>3 DEF Releases
  <2>2. holder[k] = e => holder'[k] = e /\ until'[k] = until[k]
    BY <1>3 DEF Releases, Deletes, Delete
  <2>3. QED BY <2>1, <2>2 DEF LockInv
<1>4. QED BY <1>1, <1>2, <1>3

LEMMA StepLock ==
  ASSUME TypeOK, NEW f \in Run, Step(f), NEW e \in Run, NEW k \in Lock, LockInv(e, k)
  PROVE  LockInv(e, k)'
<1>1. redis' = redis /\ now' = now
  BY DEF Step, InsertLog, MarkRunning, AcquireTask, AcquireCleanup, Cleanup,
     ReleaseCleanup, ReleaseTask, Record, locks
<1>2. CASE AcquireTask(f)
  <2>1. UNCHANGED keys \/ SetNX("task", f)
    BY <1>2 DEF AcquireTask, Enters, GivesUp
  <2>2. CASE f = e /\ k = "task"
    <3>1. redis /\ Inside(e, k)' => SetNX(k, e)
      BY <1>2, <2>2 DEF AcquireTask, Enters, Finish, Inside, TypeOK
    <3>2. SetNX(k, e) => LockInv(e, k)'
      BY DEF SetNX, Set, LockInv, TypeOK, LocksType
    <3>3. QED BY <3>1, <3>2, <1>1 DEF LockInv
  <2>3. CASE ~(f = e /\ k = "task")
    <3>1. Inside(e, k)' => Inside(e, k)
      BY <1>2, <2>3, KeysAssumption DEF AcquireTask, Finish, Goto, Inside, TypeOK
    <3>2. QED BY <1>1, <2>1, <2>3, <3>1, KeptLock, KeysAssumption
  <2>4. QED BY <2>2, <2>3
<1>3. CASE AcquireCleanup(f)
  <2>1. UNCHANGED keys \/ SetNX("cleanup", f)
    BY <1>3 DEF AcquireCleanup, Enters, GivesUp
  <2>2. CASE f = e /\ k = "cleanup"
    <3>1. redis /\ Inside(e, k)' => SetNX(k, e)
      BY <1>3, <2>2, KeysAssumption DEF AcquireCleanup, AfterCleanup, Enters, Goto, Inside, TypeOK
    <3>2. SetNX(k, e) => LockInv(e, k)'
      BY DEF SetNX, Set, LockInv, TypeOK, LocksType
    <3>3. QED BY <3>1, <3>2, <1>1 DEF LockInv
  <2>3. CASE ~(f = e /\ k = "cleanup")
    <3>1. Inside(e, k)' => Inside(e, k)
      BY <1>3, <2>3, KeysAssumption DEF AcquireCleanup, AfterCleanup, Goto, Inside, TypeOK
    <3>2. QED BY <1>1, <2>1, <2>3, <3>1, KeptLock, KeysAssumption
  <2>4. QED BY <2>2, <2>3
<1>4. CASE ReleaseCleanup(f)
  <2>1. Releases("cleanup", f)
    BY <1>4 DEF ReleaseCleanup
  <2>2. CASE f = e /\ k = "cleanup"
    BY <1>4, <2>2 DEF ReleaseCleanup, AfterCleanup, Goto, Inside, LockInv, TypeOK
  <2>3. CASE ~(f = e /\ k = "cleanup")
    <3>1. Inside(e, k)' => Inside(e, k)
      BY <1>4, KeysAssumption DEF ReleaseCleanup, AfterCleanup, Goto, Inside, TypeOK
    <3>2. QED BY <1>1, <2>1, <2>3, <3>1, KeptLock, KeysAssumption
  <2>4. QED BY <2>2, <2>3
<1>5. CASE ReleaseTask(f)
  <2>1. Releases("task", f)
    BY <1>5 DEF ReleaseTask
  <2>2. CASE f = e /\ k = "task"
    BY <1>5, <2>2 DEF ReleaseTask, Finish, Inside, LockInv, TypeOK
  <2>3. CASE ~(f = e /\ k = "task")
    <3>1. Inside(e, k)' => Inside(e, k)
      BY <1>5, KeysAssumption DEF ReleaseTask, Finish, Inside, TypeOK
    <3>2. QED BY <1>1, <2>1, <2>3, <3>1, KeptLock, KeysAssumption
  <2>4. QED BY <2>2, <2>3
<1>6. CASE InsertLog(f) \/ MarkRunning(f) \/ Cleanup(f) \/ Record(f)
  <2>1. UNCHANGED keys
    BY <1>6 DEF InsertLog, MarkRunning, Cleanup, Record, locks
  <2>2. Inside(e, k)' => Inside(e, k)
    BY <1>6, KeysAssumption DEF InsertLog, MarkRunning, Cleanup, Record, Goto, Inside, TypeOK
  <2>3. QED BY <1>1, <2>1, <2>2 DEF LockInv, keys, Inside
<1>7. QED BY <1>2, <1>3, <1>4, <1>5, <1>6 DEF Step

LEMMA NextLock ==
  ASSUME TypeOK, [Next]_vars, NEW e \in Run, NEW k \in Lock, LockInv(e, k)
  PROVE  LockInv(e, k)'
<1>1. ASSUME NEW f \in Run, (\E p \in Plan : Begin(f, p)) \/ BeginCleanup(f) \/ Die(f)
      PROVE  LockInv(e, k)'
  <2>1. UNCHANGED locks /\ (Inside(e, k)' => Inside(e, k))
    BY <1>1, KeysAssumption DEF Begin, BeginCleanup, Die, Goto, Inside, TypeOK
  <2>2. QED BY <2>1 DEF LockInv, locks, keys
<1>2. CASE (\E p \in Plan : Remove(p)) \/ UNCHANGED vars
  <2>1. UNCHANGED <<locks, pc, plan>>
    BY <1>2 DEF Remove, vars
  <2>2. QED BY <2>1 DEF LockInv, locks, keys, Inside
<1>3. CASE Clock
  <2>1. /\ now' = now + 1 /\ UNCHANGED <<redis, took, pc, plan>>
        /\ holder'[k] = IF until[k] <= now' THEN Nobody ELSE holder[k]
        /\ until'[k] = IF until[k] <= now' THEN 0 ELSE until[k]
    BY <1>3 DEF Clock, Ticks, TypeOK, LocksType
  <2>2. now \in Nat /\ took[k][e] \in Nat /\ until[k] \in Nat
    BY DEF TypeOK, LocksType
  <2>3. Inside(e, k)' = Inside(e, k)
    BY <2>1 DEF Inside
  <2>4. QED BY <2>1, <2>2, <2>3 DEF LockInv
<1>4. QED BY <1>1, <1>2, <1>3, StepLock DEF Next

LocksInv == TypeOK /\ \A e \in Run, k \in Lock : LockInv(e, k)

LEMMA LocksInvariant == Spec => []LocksInv
<1>1. Init => LocksInv
  <2> SUFFICES ASSUME Init PROVE LocksInv
    OBVIOUS
  <2>1. \A e \in Run, k \in Lock : ~Inside(e, k)
    BY DEF Init, Inside
  <2>2. QED BY <2>1, InitType DEF LocksInv, LockInv
<1>2. LocksInv /\ [Next]_vars => LocksInv'
  BY NextType, NextLock DEF LocksInv
<1>3. QED BY <1>1, <1>2, PTL DEF Spec

(* Two runs are inside what a lock protects only if one of them outlived    *)
(* it; whatever expires, dies, or is answered too late.                     *)
THEOREM CleanupsExclude == Spec => []Exclusion
<1>1. LocksInv => Exclusion
  <2> SUFFICES ASSUME LocksInv, redis, NEW k \in Lock, NEW e \in Run, NEW f \in Run,
                      e # f, Inside(e, k), Inside(f, k)
               PROVE  took[k][e] <= now \/ took[k][f] <= now
    BY DEF Exclusion
  <2>1. QED BY DEF LocksInv, LockInv
<1>2. QED BY <1>1, LocksInvariant, PTL

(* Of the runs, only e may go in or out of the part that k protects, and     *)
(* only the term of e may change.                                          *)
Others(e, k) ==
  \A f \in Run \ {e} : (Inside(f, k)' <=> Inside(f, k)) /\ took'[k][f] = took[k][f]

Term(e, k) == <<e, took[k][e]>>
In(k) == {Term(e, k) : e \in {f \in Run : Inside(f, k)}}

LEMMA LeaseKept ==
  ASSUME NEW k \in Lock, now' = now, holder'[k] = holder[k], until'[k] = until[k],
         \A f \in Run : (Inside(f, k)' <=> Inside(f, k)) /\ took'[k][f] = took[k][f]
  PROVE  UNCHANGED LeaseOf(k)!lvars
<1>1. In(k)' = In(k)
  BY DEF In, Term
<1>2. QED BY <1>1 DEF LeaseOf!lvars, In, Term

LEMMA LeaseTaken ==
  ASSUME TypeOK, NEW k \in Lock, NEW e \in Run, SetNX(k, e), now' = now, ~Inside(e, k),
         Others(e, k)
  PROVE  LeaseOf(k)!Take(e)
<1>1. /\ holder[k] = Nobody /\ holder'[k] = e
      /\ until'[k] = now + Ttl[k] /\ took'[k][e] = now + Ttl[k]
  BY DEF SetNX, Set, Held, TypeOK, LocksType
<1>2. until'[k] > now
  BY <1>1 DEF TypeOK, LocksType
<1>3. In(k)' = In(k) \/ In(k)' = In(k) \cup {<<e, until'[k]>>}
  BY <1>1 DEF In, Term, Others
<1>4. QED BY <1>1, <1>2, <1>3 DEF LeaseOf!Take, In, Term

LEMMA LeaseLeft ==
  ASSUME NEW k \in Lock, NEW e \in Run, now' = now, Inside(e, k), ~Inside(e, k)', Others(e, k),
         \/ holder[k] = e /\ holder'[k] = Nobody /\ until'[k] = 0
         \/ holder'[k] = holder[k] /\ until'[k] = until[k]
  PROVE  LeaseOf(k)!LNext
<1>1. Term(e, k) \in In(k) /\ Term(e, k)[1] = e /\ Term(e, k)[2] = took[k][e]
  BY DEF In, Term
<1>2. In(k)' = In(k) \ {Term(e, k)}
  BY DEF In, Term, Others
<1>3. \E p \in In(k) : p[1] = e /\ In(k)' = In(k) \ {p}
  BY <1>1, <1>2
<1>4. LeaseOf(k)!Leave(e)
  BY <1>3 DEF LeaseOf!Leave, In, Term
<1>5. QED BY <1>4 DEF LeaseOf!LNext

(* A release frees the lock of the run that leaves, or nothing.              *)
LEMMA ReleaseLeaves ==
  ASSUME TypeOK, NEW k \in Lock, NEW e \in Run, Releases(k, e)
  PROVE  /\ \/ holder[k] = e /\ holder'[k] = Nobody /\ until'[k] = 0
            \/ holder'[k] = holder[k] /\ until'[k] = until[k]
         /\ \A f \in Run \ {e} : took'[k][f] = took[k][f]
         /\ \A j \in Lock \ {k} : /\ holder'[j] = holder[j] /\ until'[j] = until[j]
                                 /\ took'[j] = took[j]
BY DEF Releases, Deletes, Delete, TypeOK, LocksType

LEMMA SetLeaves ==
  ASSUME TypeOK, NEW k \in Lock, NEW e \in Run, SetNX(k, e)
  PROVE  /\ \A f \in Run \ {e} : took'[k][f] = took[k][f]
         /\ \A j \in Lock \ {k} : /\ holder'[j] = holder[j] /\ until'[j] = until[j]
                                 /\ took'[j] = took[j]
BY DEF SetNX, Set, TypeOK, LocksType

(* Which steps lead a run in and out.                                       *)
LEMMA GoingIn ==
  ASSUME TypeOK, NEW e \in Run, NEW k \in Lock, AcquireTask(e) \/ AcquireCleanup(e)
  PROVE  LET j == IF AcquireTask(e) THEN "task" ELSE "cleanup" IN
         /\ k = j => ~Inside(e, k)
         /\ k # j => (Inside(e, k)' <=> Inside(e, k))
         /\ now' = now
         /\ redis => (UNCHANGED keys /\ (k = j => ~Inside(e, k)')) \/ SetNX(j, e)
         /\ \A f \in Run \ {e} : Inside(f, k)' <=> Inside(f, k)
<1> USE KeysAssumption DEF TypeOK, Inside, Goto, Finish
<1>1. CASE AcquireTask(e)
  BY <1>1 DEF AcquireTask, Enters, GivesUp
<1>2. CASE AcquireCleanup(e) /\ ~AcquireTask(e)
  <2>1. /\ now' = now /\ ~Inside(e, "cleanup") /\ (Inside(e, "task")' <=> Inside(e, "task"))
        /\ \A f \in Run \ {e} : Inside(f, k)' <=> Inside(f, k)
    BY <1>2 DEF AcquireCleanup, AfterCleanup
  <2>2. redis => (UNCHANGED keys /\ ~Inside(e, "cleanup")') \/ SetNX("cleanup", e)
    BY <1>2 DEF AcquireCleanup, AfterCleanup, Enters, GivesUp
  <2> HIDE DEF TypeOK, Inside, Goto, Finish
  <2>3. CASE k = "task"
    BY <1>2, <2>1, <2>2, <2>3
  <2>4. CASE k = "cleanup"
    BY <1>2, <2>1, <2>2, <2>4
  <2>5. QED BY <2>3, <2>4
<1>3. QED BY <1>1, <1>2

LEMMA GoingOut ==
  ASSUME TypeOK, NEW e \in Run, NEW k \in Lock, ReleaseTask(e) \/ ReleaseCleanup(e)
  PROVE  LET j == IF ReleaseTask(e) THEN "task" ELSE "cleanup" IN
         /\ k = j => Inside(e, k) /\ ~Inside(e, k)'
         /\ k # j => (Inside(e, k)' <=> Inside(e, k))
         /\ now' = now
         /\ Releases(j, e)
         /\ \A f \in Run \ {e} : Inside(f, k)' <=> Inside(f, k)
<1> USE KeysAssumption DEF TypeOK, Inside, Goto, Finish
<1>1. CASE ReleaseTask(e)
  BY <1>1 DEF ReleaseTask
<1>2. CASE ~ReleaseTask(e)
  BY <1>2 DEF ReleaseCleanup, AfterCleanup
<1>3. QED BY <1>1, <1>2

LEMMA LeaseStep ==
  ASSUME TypeOK, [Next]_vars, redis, NEW k \in Lock
  PROVE  [LeaseOf(k)!LNext]_(LeaseOf(k)!lvars)
<1>1. ASSUME NEW e \in Run, AcquireTask(e) \/ AcquireCleanup(e)
      PROVE  [LeaseOf(k)!LNext]_(LeaseOf(k)!lvars)
  <2> DEFINE j == IF AcquireTask(e) THEN "task" ELSE "cleanup"
  <2>1. j \in Lock
    BY KeysAssumption
  <2>2. /\ k = j => ~Inside(e, k)
        /\ k # j => (Inside(e, k)' <=> Inside(e, k))
        /\ now' = now
        /\ (UNCHANGED keys /\ (k = j => ~Inside(e, k)')) \/ SetNX(j, e)
        /\ \A f \in Run \ {e} : Inside(f, k)' <=> Inside(f, k)
    BY <1>1, GoingIn
  <2> HIDE DEF j
  <2>3. CASE SetNX(j, e) /\ k = j
    <3>1. Others(e, k)
      BY <2>2, <2>3, SetLeaves DEF Others
    <3>2. LeaseOf(k)!Take(e)
      BY <2>2, <2>3, <3>1, LeaseTaken
    <3>3. QED BY <3>2 DEF LeaseOf!LNext
  <2>4. CASE SetNX(j, e) /\ k # j
    <3>1. holder'[k] = holder[k] /\ until'[k] = until[k] /\ took'[k] = took[k]
      BY <2>1, <2>4, SetLeaves
    <3>2. QED BY <2>2, <2>4, <3>1, LeaseKept
  <2>5. CASE UNCHANGED keys /\ (k = j => ~Inside(e, k)')
    <3>1. Inside(e, k)' <=> Inside(e, k)
      BY <2>2, <2>5
    <3>2. holder'[k] = holder[k] /\ until'[k] = until[k] /\ took'[k] = took[k]
      BY <2>5 DEF keys
    <3>3. QED BY <2>2, <3>1, <3>2, LeaseKept
  <2>6. QED BY <2>2, <2>3, <2>4, <2>5
<1>2. ASSUME NEW e \in Run, ReleaseTask(e) \/ ReleaseCleanup(e)
      PROVE  [LeaseOf(k)!LNext]_(LeaseOf(k)!lvars)
  <2> DEFINE j == IF ReleaseTask(e) THEN "task" ELSE "cleanup"
  <2>1. j \in Lock
    BY KeysAssumption
  <2>2. /\ k = j => Inside(e, k) /\ ~Inside(e, k)'
        /\ k # j => (Inside(e, k)' <=> Inside(e, k))
        /\ now' = now
        /\ Releases(j, e)
        /\ \A f \in Run \ {e} : Inside(f, k)' <=> Inside(f, k)
    BY <1>2, GoingOut
  <2> HIDE DEF j
  <2>3. CASE k = j
    <3>1. Others(e, k)
      BY <2>2, <2>3, ReleaseLeaves DEF Others
    <3>2. \/ holder[k] = e /\ holder'[k] = Nobody /\ until'[k] = 0
          \/ holder'[k] = holder[k] /\ until'[k] = until[k]
      BY <2>2, <2>3, ReleaseLeaves
    <3>3. LeaseOf(k)!LNext
      BY <2>2, <2>3, <3>1, <3>2, LeaseLeft
    <3>4. QED BY <3>3
  <2>4. CASE k # j
    <3>1. holder'[k] = holder[k] /\ until'[k] = until[k] /\ took'[k] = took[k]
      BY <2>1, <2>2, <2>4, ReleaseLeaves
    <3>2. QED BY <2>2, <2>4, <3>1, LeaseKept
  <2>5. QED BY <2>3, <2>4
<1>3. ASSUME NEW e \in Run, Die(e) PROVE [LeaseOf(k)!LNext]_(LeaseOf(k)!lvars)
  <2>1. UNCHANGED locks /\ ~Inside(e, k)' /\ \A f \in Run \ {e} : Inside(f, k)' <=> Inside(f, k)
    BY <1>3 DEF Die, Inside, TypeOK
  <2>2. now' = now /\ holder' = holder /\ until' = until /\ took' = took
    BY <2>1 DEF locks, keys
  <2>3. CASE Inside(e, k)
    <3>1. Others(e, k)
      BY <2>1, <2>2 DEF Others
    <3>2. LeaseOf(k)!LNext
      BY <2>1, <2>2, <2>3, <3>1, LeaseLeft
    <3>3. QED BY <3>2
  <2>4. CASE ~Inside(e, k)
    BY <2>1, <2>2, <2>4, LeaseKept
  <2>5. QED BY <2>3, <2>4
<1>4. CASE Clock
  <2>1. /\ now' = now + 1 /\ now' > now /\ UNCHANGED <<took, pc, plan>>
        /\ holder'[k] = IF until[k] <= now' THEN Nobody ELSE holder[k]
        /\ until'[k] = IF until[k] <= now' THEN 0 ELSE until[k]
    BY <1>4 DEF Clock, Ticks, TypeOK, LocksType
  <2>2. In(k)' = In(k)
    BY <2>1 DEF In, Term, Inside
  <2>3. LeaseOf(k)!Pass
    BY <2>1, <2>2 DEF LeaseOf!Pass, In, Term
  <2>4. QED BY <2>3 DEF LeaseOf!LNext
<1>5. ASSUME NEW e \in Run,
             \/ (\E p \in Plan : Begin(e, p)) \/ BeginCleanup(e) \/ InsertLog(e) \/ MarkRunning(e)
             \/ Cleanup(e) \/ Record(e)
      PROVE  [LeaseOf(k)!LNext]_(LeaseOf(k)!lvars)
  <2>1. UNCHANGED locks
    BY <1>5 DEF Begin, BeginCleanup, InsertLog, MarkRunning, Cleanup, Record
  <2>2. \A f \in Run : Inside(f, k)' <=> Inside(f, k)
    BY <1>5, KeysAssumption DEF Begin, BeginCleanup, InsertLog, MarkRunning, Cleanup, Record, Goto, Inside, TypeOK
  <2>3. QED BY <2>1, <2>2, LeaseKept DEF locks, keys
<1>6. CASE (\E p \in Plan : Remove(p)) \/ UNCHANGED vars
  <2>1. UNCHANGED <<locks, pc, plan>>
    BY <1>6 DEF Remove, vars
  <2>2. \A f \in Run : Inside(f, k)' <=> Inside(f, k)
    BY <2>1 DEF Inside
  <2>3. QED BY <2>1, <2>2, LeaseKept DEF locks, keys
<1>7. QED BY <1>1, <1>2, <1>3, <1>4, <1>5, <1>6 DEF Next, Step

(* The runs of scheduled tasks implement the abstract lock, twice over: it  *)
(* is taken only when free, and ends before its term only as the run that   *)
(* took it leaves.                                                         *)
THEOREM ImplementsLeases == Spec => LeasesSpec
<1> DEFINE Granted == \A k \in Lock : LeaseOf(k)!LInit
           Stepped == \A k \in Lock : redis => [LeaseOf(k)!LNext]_(LeaseOf(k)!lvars)
<1>1. Init => Granted
  <2>1. ASSUME Init, NEW k \in Lock PROVE LeaseOf(k)!LInit
    <3>1. \A e \in Run : ~Inside(e, k)
      BY <2>1 DEF Init, Inside
    <3>2. QED BY <2>1, <3>1 DEF Init, LocksInit, LeaseOf!LInit
  <2>2. QED BY <2>1
<1>2. TypeOK /\ [Next]_vars => [Stepped]_vars
  BY LeaseStep
<1>3. QED BY <1>1, <1>2, TypeCorrect, PTL DEF Spec, LeasesSpec
-----------------------------------------------------------------------------
(* What is recorded                                                         *)

(* what status s says of run e                                              *)
Tells(e, s) ==
  /\ s = "skipped" => did[e] = "nothing"
  /\ s = "success" => did[e] \in {"nothing", "cleaned"}
  /\ s = "failure" => did[e] = "threw" \/ faulted[e]

Before == {"new", "insert", "mark", "lockTask", "lockCleanup"}
Running == {"lockTask", "lockCleanup", "cleanup", "unlockCleanup", "unlockTask"}
Recording == {"record", "recordFailure"}

(* the outcome of a run is not in the log before it is known, and then      *)
(* whatever is in the log or on its way there is true                       *)
RunInv(e) ==
  /\ pc[e] \in Before => did[e] = "nothing"
  /\ pc[e] = "cleanup" => did[e] = "cleaning"
  /\ pc[e] \in {"unlockCleanup", "unlockTask"} =>
       did[e] \in {"nothing", "cleaned", "threw"}
  /\ pc[e] \in Before \cup Running => log[e] \in {"none", "running"}
  /\ pc[e] \notin Recording => sent[e] = {}
  /\ Tells(e, log[e])
  /\ \A w \in sent[e] : Tells(e, w[2])

LEMMA OtherRun ==
  ASSUME NEW e \in Run, RunInv(e),
         pc'[e] = pc[e], log'[e] = log[e], sent'[e] = sent[e], did'[e] = did[e],
         faulted'[e] = faulted[e]
  PROVE  RunInv(e)'
BY DEF RunInv, Tells

LEMMA FinishRun ==
  ASSUME TypeOK, NEW e \in Run, RunInv(e), NEW s \in {"success", "failure", "skipped"},
         Finish(e, s), log' = log, did' = did, faulted' = faulted, Tells(e, s)
  PROVE  RunInv(e)'
<1>1. pc'[e] \in Recording
  BY DEF Finish, Recording, TypeOK
<1>2. sent'[e] = {<<"log", s>>, <<"task", s>>}
  BY DEF Finish, Writes, TypeOK
<1>3. \A w \in sent'[e] : w[2] = s
  BY <1>2
<1>4. QED BY <1>1, <1>3 DEF RunInv, Tells, Recording, Before, Running

LEMMA RecordRun ==
  ASSUME TypeOK, NEW e \in Run, RunInv(e), Record(e)
  PROVE  RunInv(e)'
<1>1. PICK w \in sent[e] :
        /\ Apply(e, w) \/ UNCHANGED <<last, log>>
        /\ \/ Answered /\ sent'[e] = sent[e] \ {w}
           \/ Fault(e) /\ sent'[e] \in {sent[e] \ {w}, (sent[e] \ {w}) \cup Writes("failure")}
        /\ pc'[e] \in Recording \/ (pc'[e] = "done" /\ sent'[e] = {})
  <2>1. PICK w \in sent[e] :
          \/ /\ Apply(e, w) /\ Answered
             /\ sent' = [sent EXCEPT ![e] = sent[e] \ {w}]
             /\ pc' = [pc EXCEPT ![e] = IF sent[e] \ {w} = {} THEN "done" ELSE pc[e]]
          \/ /\ Fault(e)
             /\ Apply(e, w) \/ UNCHANGED <<last, log>>
             /\ IF pc[e] = "record"
                THEN /\ sent' = [sent EXCEPT ![e] = (sent[e] \ {w}) \cup Writes("failure")]
                     /\ pc' = [pc EXCEPT ![e] = "recordFailure"]
                ELSE /\ sent' = [sent EXCEPT ![e] = sent[e] \ {w}]
                     /\ pc' = [pc EXCEPT ![e] =
                              IF sent[e] \ {w} = {} THEN "done" ELSE pc[e]]
    BY Zenon DEF Record
  <2>2. pc[e] \in Recording
    BY DEF Record, Recording
  <2>3. /\ Apply(e, w) \/ UNCHANGED <<last, log>>
        /\ \/ Answered /\ sent'[e] = sent[e] \ {w}
           \/ Fault(e) /\ sent'[e] \in {sent[e] \ {w}, (sent[e] \ {w}) \cup Writes("failure")}
    BY <2>1 DEF TypeOK
  <2>4. pc'[e] \in Recording \/ (pc'[e] = "done" /\ sent'[e] = {})
    <3>1. CASE sent' = [sent EXCEPT ![e] = sent[e] \ {w}]
      BY <2>1, <2>2, <3>1 DEF Recording, TypeOK
    <3>2. CASE pc' = [pc EXCEPT ![e] = "recordFailure"]
      BY <3>2 DEF Recording, TypeOK
    <3>3. QED BY <2>1, <3>1, <3>2
  <2>5. QED BY <2>3, <2>4
<1>2. (faulted[e] => faulted'[e]) /\ (Fault(e) => faulted'[e])
  BY <1>1 DEF Answered, Fault, TypeOK
<1>3. did' = did
  BY DEF Record
<1>4. log'[e] = log[e] \/ log'[e] = w[2]
  BY <1>1 DEF Apply, TypeOK
<1>5. \A x \in Writes("failure") : x[2] = "failure"
  BY DEF Writes
<1>6. \A x \in sent'[e] : x \in sent[e] \/ (faulted'[e] /\ x[2] = "failure")
  BY <1>1, <1>2, <1>5
<1>7. Tells(e, log'[e]) /\ \A x \in sent[e] : Tells(e, x[2])
  BY <1>4 DEF RunInv
<1>8. Tells(e, log[e])' /\ \A x \in sent'[e] : Tells(e, x[2])'
  BY <1>3, <1>6, <1>7, <1>2 DEF Tells
<1>9. QED BY <1>1, <1>8 DEF RunInv, Recording, Before, Running

LEMMA StepRun ==
  ASSUME TypeOK, NEW f \in Run, Step(f), NEW e \in Run, RunInv(e)
  PROVE  RunInv(e)'
<1>1. CASE f # e
  <2>1. UNCHANGED <<pc[e], log[e], sent[e], did[e], faulted[e]>>
    BY <1>1 DEF Step, InsertLog, MarkRunning, AcquireTask, AcquireCleanup, Cleanup,
       ReleaseCleanup, ReleaseTask, Record, Goto, Finish, Apply, Answered, Fault,
       table, TypeOK
  <2>2. QED BY <2>1, OtherRun
<1>2. CASE f = e
  <2> USE <1>2
  <2>1. CASE InsertLog(e)
    BY <2>1 DEF InsertLog, Goto, Answered, Fault, RunInv, Tells, Before, Running,
       Recording, TypeOK
  <2>2. CASE MarkRunning(e)
    BY <2>2 DEF MarkRunning, Goto, Answered, Fault, RunInv, Tells, Before, Running,
       Recording, TypeOK
  <2>3. CASE AcquireTask(e)
    <3>1. CASE Finish(e, "skipped")
      <4>1. Tells(e, "skipped")
        BY <2>3 DEF AcquireTask, RunInv, Tells, Before
      <4>2. QED BY <2>3, <3>1, <4>1, FinishRun DEF AcquireTask, table
    <3>2. CASE Goto(e, "lockTask", "lockCleanup") /\ UNCHANGED sent
      BY <2>3, <3>2 DEF AcquireTask, Goto, RunInv, Tells, Before, Running, Recording,
         table, TypeOK
    <3>3. QED BY <2>3, <3>1, <3>2 DEF AcquireTask
  <2>4. CASE AcquireCleanup(e)
    BY <2>4 DEF AcquireCleanup, AfterCleanup, Goto, RunInv, Tells, Before, Running, Recording,
       table, TypeOK
  <2>5. CASE Cleanup(e)
    BY <2>5 DEF Cleanup, Goto, RunInv, Tells, Before, Running, Recording, table, TypeOK
  <2>6. CASE ReleaseCleanup(e)
    BY <2>6 DEF ReleaseCleanup, AfterCleanup, Goto, RunInv, Tells, Before, Running, Recording, table,
       TypeOK
  <2>7. CASE ReleaseTask(e)
    <3>1. Tells(e, Outcome(e)) /\ Outcome(e) \in {"success", "failure", "skipped"}
      BY <2>7 DEF ReleaseTask, RunInv, Tells, Outcome
    <3>2. QED BY <2>7, <3>1, FinishRun DEF ReleaseTask, table
  <2>8. CASE Record(e)
    BY <2>8, RecordRun
  <2>9. QED BY <2>1, <2>2, <2>3, <2>4, <2>5, <2>6, <2>7, <2>8 DEF Step
<1>3. QED BY <1>1, <1>2

LEMMA NextRun ==
  ASSUME TypeOK, [Next]_vars, NEW e \in Run, RunInv(e)
  PROVE  RunInv(e)'
<1>1. ASSUME NEW f \in Run, NEW p \in Plan, Begin(f, p) PROVE RunInv(e)'
  BY <1>1 DEF Begin, BeginCleanup, Goto, RunInv, Tells, Before, Running, Recording, table, TypeOK
<1>2. ASSUME NEW f \in Run, Die(f) PROVE RunInv(e)'
  BY <1>2 DEF Die, RunInv, Tells, Before, Running, Recording, table, TypeOK
<1>3. CASE (\E p \in Plan : Remove(p)) \/ Clock \/ UNCHANGED vars
  <2>1. UNCHANGED <<pc, log, sent, did, faulted>>
    BY <1>3 DEF Remove, Clock, vars, table
  <2>2. QED BY <2>1, OtherRun
<1>4. ASSUME NEW f \in Run, BeginCleanup(f) PROVE RunInv(e)'
  BY <1>4 DEF BeginCleanup, Goto, RunInv, Tells, Before, Running, Recording, table, TypeOK
<1>5. QED BY <1>1, <1>2, <1>3, <1>4, StepRun DEF Next

RunsInv == TypeOK /\ \A e \in Run : RunInv(e)

LEMMA RunsInvariant == Spec => []RunsInv
<1>1. Init => RunsInv
  <2> SUFFICES ASSUME Init PROVE RunsInv
    OBVIOUS
  <2>1. ASSUME NEW e \in Run PROVE RunInv(e)
    BY DEF Init, RunInv, Tells, Before, Running, Recording
  <2>2. QED BY <2>1, InitType DEF RunsInv
<1>2. RunsInv /\ [Next]_vars => RunsInv'
  BY NextType, NextRun DEF RunsInv
<1>3. QED BY <1>1, <1>2, PTL DEF Spec

(* However the UPDATEs of a failed and a repeated recording are ordered, no *)
(* log entry says of a run what did not happen.                             *)
THEOREM LogsTellTheTruth == Spec => []LogTells
<1>1. RunsInv => LogTells
  BY DEF RunsInv, RunInv, Tells, LogTells
<1>2. QED BY <1>1, RunsInvariant, PTL
-----------------------------------------------------------------------------
(* The last-run columns                                                     *)

Outcomes == {"success", "failure", "skipped"}
Starting == {"new", "insert", "mark"}
Recorded == Recording \cup {"done"}

(* s is the outcome that e has recorded in its log, or is about to          *)
Records(e, s) ==
  sent[e] \subseteq Writes(s) /\ (log[e] = s \/ <<"log", s>> \in sent[e])

RecInv(e) ==
  ~faulted[e] /\ pc[e] \in Recorded /\ plan[e] \in Plan =>
    \E s \in Outcomes : Records(e, s)

Undisturbed(p) == \A e \in Run : plan[e] = p => pc[e] # "dead" /\ ~faulted[e]

(* the columns are those of e, and still "running" only while e is to write *)
(* its outcome there                                                        *)
Wrote(e) ==
  LET l == last[plan[e]] IN
  /\ pc[e] \notin Starting /\ l.at = began[e]
  /\ \/ l.st = "running" /\ pc[e] \in Running
     \/ l.st = "running" /\ \E s \in Outcomes : <<"task", s>> \in sent[e]
     \/ /\ pc[e] \in Recorded /\ l.st \in Outcomes
        /\ Records(e, l.st) /\ <<"task", l.st>> \notin sent[e]

PlanInv(p) ==
  alive[p] /\ Undisturbed(p) /\ (\E e \in Run : plan[e] = p /\ pc[e] \notin Starting) =>
    \E e \in Run : plan[e] = p /\ Wrote(e)

LEMMA WritesApart ==
  ASSUME NEW s, NEW t, NEW w \in Writes(s)
  PROVE  /\ w = <<"log", s>> \/ w = <<"task", s>>
         /\ w = <<"log", t>> \/ w = <<"task", t>> => t = s
         /\ <<"log", s>> # <<"task", t>>
BY DEF Writes

(* an UPDATE of the outcome, answered without an error                      *)
LEMMA RecordAnswered ==
  ASSUME TypeOK, NEW e \in Run, Record(e), ~faulted'[e]
  PROVE  \E w \in sent[e] :
           /\ Apply(e, w)
           /\ sent' = [sent EXCEPT ![e] = sent[e] \ {w}]
           /\ pc'[e] \in Recorded
<1>1. ~Fault(e)
  BY DEF Fault, TypeOK
<1>2. PICK w \in sent[e] :
        /\ Apply(e, w)
        /\ sent' = [sent EXCEPT ![e] = sent[e] \ {w}]
        /\ pc' = [pc EXCEPT ![e] = IF sent[e] \ {w} = {} THEN "done" ELSE pc[e]]
  BY <1>1, Zenon DEF Record
<1>3. pc'[e] \in Recorded
  BY <1>2 DEF Record, Recorded, Recording, TypeOK
<1>4. QED BY <1>2, <1>3

LEMMA FinishRecords ==
  ASSUME TypeOK, NEW e \in Run, NEW s \in Outcomes, Finish(e, s)
  PROVE  Records(e, s)' /\ <<"task", s>> \in sent'[e] /\ pc'[e] \in Recorded
BY DEF Finish, Records, Writes, Recorded, Recording, TypeOK

LEMMA StepRec ==
  ASSUME TypeOK, NEW e \in Run, RecInv(e), Step(e)
  PROVE  RecInv(e)'
<1>0. plan' = plan
  BY DEF Step, InsertLog, MarkRunning, AcquireTask, AcquireCleanup, Cleanup,
     ReleaseCleanup, ReleaseTask, Record
<1> SUFFICES ASSUME ~faulted'[e], pc'[e] \in Recorded, plan[e] \in Plan
             PROVE  \E s \in Outcomes : Records(e, s)'
  BY <1>0 DEF RecInv
<1>1. AcquireTask(e) \/ ReleaseTask(e) \/ Record(e)
  BY DEF Step, InsertLog, MarkRunning, AcquireCleanup, AfterCleanup, Cleanup, ReleaseCleanup,
     Goto, Fault, Recorded, Recording, TypeOK
<1>2. CASE AcquireTask(e)
  <2>1. Finish(e, "skipped")
    BY <1>2 DEF AcquireTask, Goto, Recorded, Recording, TypeOK
  <2>2. QED BY <2>1, FinishRecords DEF Outcomes
<1>3. CASE ReleaseTask(e)
  BY <1>3, FinishRecords DEF ReleaseTask, Outcome, Outcomes
<1>4. CASE Record(e)
  <2>1. ~faulted[e] /\ pc[e] \in Recorded
    BY <1>4 DEF Record, Answered, Fault, Recorded, Recording, TypeOK
  <2>2. PICK s \in Outcomes : Records(e, s)
    BY <2>1 DEF RecInv
  <2>3. PICK w \in sent[e] : Apply(e, w) /\ sent' = [sent EXCEPT ![e] = sent[e] \ {w}]
    BY <1>4, RecordAnswered
  <2>4. w = <<"log", s>> \/ w = <<"task", s>>
    BY <2>2, WritesApart DEF Records
  <2>5. Records(e, s)'
    <3>1. sent'[e] = sent[e] \ {w}
      BY <2>3 DEF TypeOK
    <3>2. CASE w = <<"log", s>>
      BY <2>2, <2>3, <3>1, <3>2 DEF Records, Apply, Writes, TypeOK
    <3>3. CASE w = <<"task", s>>
      <4>1. log' = log /\ w # <<"log", s>>
        BY <2>3, <3>3 DEF Apply
      <4>2. QED BY <2>2, <3>1, <4>1 DEF Records, Writes
    <3>4. QED BY <2>4, <3>2, <3>3
  <2>6. QED BY <2>5
<1>5. QED BY <1>1, <1>2, <1>3, <1>4

(* a step of f leaves everything that concerns e alone                      *)
LEMMA StepLocal ==
  ASSUME TypeOK, NEW f \in Run, Step(f), NEW e \in Run, e # f
  PROVE  UNCHANGED <<pc[e], log[e], sent[e], faulted[e]>>
BY DEF Step, InsertLog, MarkRunning, AcquireTask, AcquireCleanup, Cleanup,
   ReleaseCleanup, ReleaseTask, Record, Goto, Finish, Apply, Answered, Fault, table, TypeOK

LEMMA NextRec ==
  ASSUME TypeOK, [Next]_vars, NEW e \in Run, RecInv(e)
  PROVE  RecInv(e)'
<1>1. ASSUME NEW f \in Run, Step(f) PROVE RecInv(e)'
  <2>1. CASE f = e
    BY <1>1, <2>1, StepRec
  <2>2. CASE f # e
    <3>1. plan' = plan
      BY <1>1 DEF Step, InsertLog, MarkRunning, AcquireTask, AcquireCleanup, Cleanup,
         ReleaseCleanup, ReleaseTask, Record
    <3>2. QED BY <1>1, <2>2, <3>1, StepLocal DEF RecInv, Records
  <2>3. QED BY <2>1, <2>2
<1>2. ASSUME NEW f \in Run, (\E p \in Plan : Begin(f, p)) \/ BeginCleanup(f) \/ Die(f) PROVE RecInv(e)'
  <2>1. CASE e = f
    BY <1>2, <2>1 DEF Begin, BeginCleanup, Die, Goto, RecInv, Recorded, Recording, TypeOK
  <2>2. CASE e # f
    <3>1. UNCHANGED <<pc[e], log[e], sent[e], faulted[e], plan[e]>>
      BY <1>2, <2>2 DEF Begin, BeginCleanup, Die, Goto, table, TypeOK
    <3>2. QED BY <3>1 DEF RecInv, Records
  <2>3. QED BY <2>1, <2>2
<1>3. CASE (\E p \in Plan : Remove(p)) \/ Clock \/ UNCHANGED vars
  BY <1>3 DEF Remove, Clock, vars, table, RecInv, Records
<1>4. QED BY <1>1, <1>2, <1>3 DEF Next

(* a run that wrote the columns last has still done so after a step of its  *)
(* own, unless that step failed                                             *)
LEMMA WroteStep ==
  ASSUME TypeOK, NEW e \in Run, RunInv(e), RecInv(e), Step(e), ~faulted'[e],
         plan[e] \in Plan, alive[plan[e]],
         Wrote(e) \/ MarkRunning(e) \/ (Record(e) /\ \E w \in sent[e] : w[1] = "task" /\ w \notin sent'[e])
  PROVE  Wrote(e)'
<1>0. plan[e] \in Plan /\ plan' = plan /\ began' = began
  BY DEF Step, InsertLog, MarkRunning, AcquireTask, AcquireCleanup, Cleanup,
     ReleaseCleanup, ReleaseTask, Record, Goto, TypeOK
<1>1. CASE MarkRunning(e)
  BY <1>0, <1>1 DEF MarkRunning, Goto, Fault, SetLast, Wrote, Running, Starting, TypeOK
<1>2. CASE AcquireTask(e)
  <2>1. Wrote(e) /\ last' = last /\ pc[e] = "lockTask" /\ sent[e] = {}
    BY <1>2 DEF AcquireTask, MarkRunning, Record, Goto, table, RunInv, Recording
  <2>2. last[plan[e]].st = "running" /\ last[plan[e]].at = began[e]
    BY <2>1 DEF Wrote, Recorded, Recording
  <2>3. CASE Finish(e, "skipped")
    BY <1>0, <2>1, <2>2, <2>3, FinishRecords DEF Wrote, Outcomes, Recorded, Recording, Starting
  <2>4. CASE Goto(e, "lockTask", "lockCleanup")
    BY <1>0, <2>1, <2>2, <2>4 DEF Goto, Wrote, Running, Starting, TypeOK
  <2>5. QED BY <1>2, <2>3, <2>4 DEF AcquireTask
<1>3. CASE AcquireCleanup(e) \/ Cleanup(e) \/ ReleaseCleanup(e)
  <2>1. /\ Wrote(e) /\ last' = last /\ pc[e] \in Running /\ pc'[e] \in Running
        /\ sent[e] = {}
    BY <1>3 DEF AcquireCleanup, AfterCleanup, Cleanup, ReleaseCleanup, MarkRunning, Record, Goto, table,
       Running, RunInv, Recording, TypeOK
  <2>2. last[plan[e]].st = "running" /\ last[plan[e]].at = began[e]
    BY <2>1 DEF Wrote, Recorded, Recording, Running
  <2>3. QED BY <1>0, <2>1, <2>2 DEF Wrote, Running, Starting
<1>4. CASE ReleaseTask(e)
  <2>1. Wrote(e) /\ last' = last /\ pc[e] = "unlockTask" /\ sent[e] = {}
    BY <1>4 DEF ReleaseTask, MarkRunning, Record, Goto, table, RunInv, Recording
  <2>2. last[plan[e]].st = "running" /\ last[plan[e]].at = began[e]
    BY <2>1 DEF Wrote, Recorded, Recording
  <2>3. PICK s \in Outcomes : Finish(e, s)
    BY <1>4 DEF ReleaseTask, Outcome, Outcomes
  <2>4. QED
    BY <1>0, <2>1, <2>2, <2>3, FinishRecords DEF Wrote, Recorded, Recording, Starting
<1>5. CASE Record(e)
  <2>1. ~faulted[e] /\ pc[e] \in Recording
    BY <1>5 DEF Record, Recording, Answered, Fault, TypeOK
  <2>2. PICK s \in Outcomes : Records(e, s)
    BY <2>1 DEF RecInv, Recorded
  <2>3. PICK w \in sent[e] : /\ Apply(e, w)
                             /\ sent' = [sent EXCEPT ![e] = sent[e] \ {w}]
                             /\ pc'[e] \in Recorded
    BY <1>5, RecordAnswered
  <2>4. sent'[e] = sent[e] \ {w} /\ sent[e] \subseteq {<<"log", s>>, <<"task", s>>}
    BY <2>2, <2>3 DEF Records, Writes, TypeOK
  <2>5. pc'[e] \notin Starting
    BY <2>3 DEF Recorded, Recording, Starting
  <2>6. CASE w = <<"task", s>>
    <3>1. last'[plan[e]] = [at |-> began[e], st |-> s] /\ log' = log
      BY <1>0, <2>3, <2>6 DEF Apply, SetLast, TypeOK
    <3>2. Records(e, s)' /\ <<"task", s>> \notin sent'[e]
      BY <2>2, <2>4, <2>6, <3>1, WritesApart DEF Records, Writes
    <3>3. QED BY <1>0, <2>3, <2>5, <3>1, <3>2 DEF Wrote, Outcomes
  <2>7. CASE w = <<"log", s>>
    <3>1. Wrote(e) /\ last' = last /\ log'[e] = s
      BY <1>5, <2>3, <2>4, <2>7 DEF Apply, MarkRunning, Record, Goto, TypeOK
    <3>2. CASE last[plan[e]].st = "running"
      <4>1. \E t \in Outcomes : <<"task", t>> \in sent[e]
        BY <2>1, <3>1, <3>2 DEF Wrote, Running, Recording, Outcomes
      <4>2. \E t \in Outcomes : <<"task", t>> \in sent'[e]
        BY <2>4, <2>7, <4>1
      <4>3. QED BY <1>0, <2>5, <3>1, <3>2, <4>2 DEF Wrote
    <3>3. CASE last[plan[e]].st # "running"
      <4>1. /\ last[plan[e]].st \in Outcomes /\ Records(e, last[plan[e]].st)
            /\ <<"task", last[plan[e]].st>> \notin sent[e]
        BY <3>1, <3>3 DEF Wrote
      <4>2. last[plan[e]].st = s
        BY <2>7, <4>1, WritesApart DEF Records
      <4>3. Records(e, s)' /\ <<"task", s>> \notin sent'[e]
        BY <2>2, <2>4, <3>1, <4>1, <4>2 DEF Records, Writes
      <4>4. QED BY <1>0, <2>3, <2>5, <3>1, <4>1, <4>2, <4>3 DEF Wrote
    <3>4. QED BY <3>2, <3>3
  <2>8. QED BY <2>4, <2>6, <2>7
<1>6. CASE InsertLog(e)
  BY <1>6 DEF InsertLog, MarkRunning, Record, Wrote, Goto, Starting
<1>7. QED BY <1>1, <1>2, <1>3, <1>4, <1>5, <1>6 DEF Step

LEMMA StepPlan ==
  ASSUME TypeOK, NEW f \in Run, Step(f), NEW p \in Plan, PlanInv(p),
         \A e \in Run : RunInv(e) /\ RecInv(e)
  PROVE  PlanInv(p)'
<1> SUFFICES ASSUME alive'[p], Undisturbed(p)',
                    NEW g \in Run, plan'[g] = p, pc'[g] \notin Starting
             PROVE  \E e \in Run : plan'[e] = p /\ Wrote(e)'
  BY DEF PlanInv
<1>1. alive' = alive /\ plan' = plan /\ began' = began
  BY DEF Step, InsertLog, MarkRunning, AcquireTask, AcquireCleanup, Cleanup,
     ReleaseCleanup, ReleaseTask, Record, table
<1>2. Undisturbed(p)
  <2>1. pc[f] # "dead" /\ (faulted[f] => faulted'[f])
    BY DEF Step, InsertLog, MarkRunning, AcquireTask, AcquireCleanup, Cleanup,
       ReleaseCleanup, ReleaseTask, Record, Goto, Answered, Fault, TypeOK
  <2>2. QED BY <1>1, <2>1, StepLocal DEF Undisturbed
<1>3. plan[f] = p => ~faulted'[f]
  BY <1>1 DEF Undisturbed
<1> DEFINE WritesPlan ==
      \/ MarkRunning(f)
      \/ Record(f) /\ \E w \in sent[f] : w[1] = "task" /\ w \notin sent'[f]
<1>4. CASE WritesPlan /\ plan[f] = p
  BY <1>1, <1>3, <1>4, WroteStep
<1>5. CASE ~(WritesPlan /\ plan[f] = p)
  <2>1. last'[p] = last[p]
    <3>1. CASE plan[f] # p
      BY <3>1 DEF Step, InsertLog, MarkRunning, AcquireTask, AcquireCleanup, Cleanup,
         ReleaseCleanup, ReleaseTask, Record, Apply, SetLast, table, TypeOK
    <3>2. CASE plan[f] = p /\ Record(f)
      <4>1. PICK w \in sent[f] : Apply(f, w) /\ sent' = [sent EXCEPT ![f] = sent[f] \ {w}]
        BY <1>3, <3>2, RecordAnswered
      <4>2. w \notin sent'[f]
        BY <4>1 DEF TypeOK
      <4>3. w[1] # "task"
        BY <1>5, <3>2, <4>2
      <4>4. w[1] = "log"
        BY <4>3 DEF TypeOK, Update
      <4>5. QED BY <4>1, <4>4 DEF Apply
    <3>3. CASE plan[f] = p /\ ~Record(f)
      BY <1>5, <3>3 DEF Step, InsertLog, MarkRunning, AcquireTask, AcquireCleanup,
         Cleanup, ReleaseCleanup, ReleaseTask, table
    <3>4. QED BY <3>1, <3>2, <3>3
  <2>2. pc[g] \notin Starting
    <3>1. CASE g # f
      BY <3>1, StepLocal
    <3>2. CASE g = f
      BY <1>1, <1>3, <1>5, <3>2 DEF Step, InsertLog, MarkRunning, AcquireTask, AcquireCleanup,
         Cleanup, ReleaseCleanup, ReleaseTask, Record, Goto, Fault, Starting, TypeOK
    <3>3. QED BY <3>1, <3>2
  <2>3. PICK e \in Run : plan[e] = p /\ Wrote(e)
    BY <1>1, <1>2, <2>2 DEF PlanInv
  <2>4. Wrote(e)'
    <3>1. CASE e = f
      BY <1>1, <1>3, <2>3, <3>1, WroteStep
    <3>2. CASE e # f
      BY <1>1, <2>1, <2>3, <3>2, StepLocal DEF Wrote, Records
    <3>3. QED BY <3>1, <3>2
  <2>5. QED BY <1>1, <2>3, <2>4
<1>6. QED BY <1>4, <1>5

LEMMA NextPlan ==
  ASSUME TypeOK, [Next]_vars, NEW p \in Plan, PlanInv(p),
         \A e \in Run : RunInv(e) /\ RecInv(e)
  PROVE  PlanInv(p)'
<1>1. ASSUME NEW f \in Run, NEW q \in Plan, Begin(f, q) PROVE PlanInv(p)'
  <2>1. /\ pc[f] = "new" /\ pc' = [pc EXCEPT ![f] = "insert"] /\ plan' = [plan EXCEPT ![f] = q]
        /\ began' = [began EXCEPT ![f] = now] /\ UNCHANGED <<alive, last, log, sent, faulted>>
    BY <1>1 DEF Begin, BeginCleanup, Goto, table
  <2>2. ASSUME NEW e \in Run, e # f
        PROVE  /\ plan'[e] = plan[e] /\ pc'[e] = pc[e]
               /\ Wrote(e) => Wrote(e)'
    BY <2>1, <2>2 DEF Wrote, Records, TypeOK
  <2>3. ~Wrote(f) /\ pc'[f] \in Starting /\ pc[f] \in Starting
    BY <2>1 DEF Wrote, Starting, TypeOK
  <2>4. SUFFICES ASSUME alive'[p], Undisturbed(p)',
                        NEW g \in Run, plan'[g] = p, pc'[g] \notin Starting
                 PROVE  \E e \in Run : plan'[e] = p /\ Wrote(e)'
    BY DEF PlanInv
  <2>5. g # f /\ plan[g] = p /\ pc[g] \notin Starting
    BY <2>2, <2>3, <2>4
  <2>6. plan[f] # p
    BY <2>1 DEF TypeOK
  <2>7. Undisturbed(p)
    BY <2>1, <2>2, <2>4, <2>6 DEF Undisturbed
  <2>8. PICK e \in Run : plan[e] = p /\ Wrote(e)
    BY <2>1, <2>4, <2>5, <2>7 DEF PlanInv
  <2>9. QED BY <2>2, <2>6, <2>8
<1>2. ASSUME NEW f \in Run, Die(f) PROVE PlanInv(p)'
  <2>1. /\ pc' = [pc EXCEPT ![f] = "dead"] /\ sent' = [sent EXCEPT ![f] = {}]
        /\ UNCHANGED <<alive, last, log, plan, began, faulted>>
    BY <1>2 DEF Die, table
  <2>2. CASE plan[f] = p
    BY <2>1, <2>2 DEF PlanInv, Undisturbed, TypeOK
  <2>3. CASE plan[f] # p
    <3>1. ASSUME NEW e \in Run, plan[e] = p
          PROVE  pc'[e] = pc[e] /\ sent'[e] = sent[e]
      BY <2>1, <2>3, <3>1 DEF TypeOK
    <3>2. ASSUME NEW e \in Run, plan[e] = p, Wrote(e) PROVE Wrote(e)'
      BY <2>1, <3>1, <3>2 DEF Wrote, Records
    <3>3. QED BY <2>1, <3>1, <3>2 DEF PlanInv, Undisturbed
  <2>4. QED BY <2>2, <2>3
<1>3. ASSUME NEW q \in Plan, Remove(q) PROVE PlanInv(p)'
  <2>1. (alive'[p] => alive[p]) /\ UNCHANGED <<last, log, pc, plan, began, sent, faulted>>
    BY <1>3 DEF Remove, TypeOK
  <2>2. QED BY <2>1 DEF PlanInv, Undisturbed, Wrote, Records
<1>4. CASE Clock \/ UNCHANGED vars
  <2>1. UNCHANGED <<alive, last, log, pc, plan, began, sent, faulted>>
    BY <1>4 DEF Clock, vars, table
  <2>2. QED BY <2>1 DEF PlanInv, Undisturbed, Wrote, Records
<1>5. ASSUME NEW f \in Run, BeginCleanup(f) PROVE PlanInv(p)'
  <2>1. /\ pc[f] = "new" /\ pc' = [pc EXCEPT ![f] = "lockCleanup"] /\ plan[f] # p
        /\ UNCHANGED <<alive, last, log, plan, began, sent, faulted>>
    BY <1>5 DEF BeginCleanup, Goto, table, TypeOK
  <2>2. ASSUME NEW e \in Run, plan[e] = p
        PROVE  pc'[e] = pc[e] /\ (Wrote(e) => Wrote(e)')
    BY <2>1, <2>2 DEF Wrote, Records, TypeOK
  <2>3. QED BY <2>1, <2>2 DEF PlanInv, Undisturbed
<1>6. QED BY <1>1, <1>2, <1>3, <1>4, <1>5, StepPlan DEF Next

PlansInv == RunsInv /\ (\A e \in Run : RecInv(e)) /\ (\A p \in Plan : PlanInv(p))

(* Once the runs of a plan have ended undisturbed, its last-run columns are *)
(* those of one of them.                                                    *)
THEOREM LastRunsSettle == Spec => []LastRunSettles
<1>1. Init => PlansInv
  <2> SUFFICES ASSUME Init PROVE PlansInv
    OBVIOUS
  <2>1. RunsInv
    BY InitType DEF Init, RunsInv, RunInv, Tells, Before, Running, Recording
  <2>2. \A e \in Run : RecInv(e)
    BY DEF Init, RecInv, Recorded, Recording
  <2>3. \A p \in Plan : PlanInv(p)
    BY DEF Init, PlanInv, Starting
  <2>4. QED BY <2>1, <2>2, <2>3 DEF PlansInv
<1>2. PlansInv /\ [Next]_vars => PlansInv'
  BY NextType, NextRun, NextRec, NextPlan DEF PlansInv, RunsInv
<1>3. PlansInv => LastRunSettles
  <2> SUFFICES ASSUME PlansInv, NEW p \in Plan, alive[p],
                      NEW g \in Run, plan[g] = p,
                      \A e \in Run : plan[e] = p => pc[e] = "done" /\ ~faulted[e]
               PROVE  \E e \in Run : plan[e] = p /\ last[p] = [at |-> began[e], st |-> log[e]]
    BY DEF LastRunSettles
  <2>1. PICK e \in Run : plan[e] = p /\ Wrote(e)
    BY DEF PlansInv, PlanInv, Undisturbed, Starting
  <2>2. pc[e] = "done" /\ sent[e] = {}
    BY <2>1 DEF PlansInv, RunsInv, RunInv, Recording
  <2>3. last[p].at = began[e] /\ last[p].st = log[e]
    BY <2>1, <2>2 DEF Wrote, Running, Records
  <2>4. last[p] \in [at : Nat, st : Status \cup {"none"}]
    BY DEF PlansInv, RunsInv, TypeOK
  <2>5. last[p] = [at |-> began[e], st |-> log[e]]
    BY <2>3, <2>4
  <2>6. QED BY <2>1, <2>5
<1>4. QED BY <1>1, <1>2, <1>3, PTL DEF Spec
-----------------------------------------------------------------------------
(* Runs come to an end                                                      *)

(* How many steps a run can still take, at most: an error may make it repeat *)
(* what it recorded, but only once.                                         *)
Left(e) ==
  CASE pc[e] \in {"new", "insert"} -> 13
    [] pc[e] = "mark"          -> 12
    [] pc[e] = "lockTask"      -> 11
    [] pc[e] = "lockCleanup"   -> 10
    [] pc[e] = "cleanup"       -> 9
    [] pc[e] = "unlockCleanup" -> 8
    [] pc[e] = "unlockTask"    -> 7
    [] pc[e] = "record"        -> 4 + Cardinality(sent[e])
    [] pc[e] = "recordFailure" -> 1 + Cardinality(sent[e])
    [] OTHER -> 0

(* Every step of a run, its death included, brings it closer to its end, and *)
(* no step of anything else takes it further away.                          *)
OnlyForward ==
  [][\A e \in Run : /\ Left(e) \in 0 .. 13
                    /\ Step(e) \/ Die(e) => Left(e)' < Left(e)
                    /\ Left(e)' <= Left(e)]_vars

(* What a run has sent: an outcome, or what is left of one and a failure.   *)
SentInv(e) ==
  /\ IsFiniteSet(sent[e])
  /\ pc[e] = "record" => Cardinality(sent[e]) <= 2
  /\ pc[e] = "recordFailure" => Cardinality(sent[e]) <= 3

LEMMA LeftBounds ==
  ASSUME TypeOK, NEW e \in Run, SentInv(e)
  PROVE  /\ Left(e) \in 0 .. 13
         /\ pc[e] \notin {"done", "dead"} => Left(e) > 0
<1> DEFINE n == Cardinality(sent[e])
<1>1. n \in Nat /\ (pc[e] = "record" => n <= 2) /\ (pc[e] = "recordFailure" => n <= 3)
  BY FS_CardinalityType DEF SentInv
<1>2. pc[e] = "record" => Left(e) = 4 + n
  BY DEF Left
<1>3. pc[e] = "recordFailure" => Left(e) = 1 + n
  BY DEF Left
<1> HIDE DEF n
<1>4. CASE pc[e] \in {"record", "recordFailure"}
  BY <1>1, <1>2, <1>3, <1>4
<1>5. CASE pc[e] \notin {"record", "recordFailure"}
  BY <1>5 DEF Left, TypeOK
<1>6. QED BY <1>4, <1>5

LEMMA WritesCount == ASSUME NEW s PROVE IsFiniteSet(Writes(s)) /\ Cardinality(Writes(s)) = 2
<1> DEFINE l == <<"log", s>>
<1> DEFINE t == <<"task", s>>
<1>1. Writes(s) = {l} \cup {t} /\ t \notin {l}
  BY DEF Writes
<1> HIDE DEF l, t
<1>2. IsFiniteSet({l}) /\ Cardinality({l}) = 1
  BY FS_Singleton
<1>3. IsFiniteSet({l} \cup {t}) /\ Cardinality({l} \cup {t}) = Cardinality({l}) + 1
  BY <1>1, <1>2, FS_AddElement
<1>4. QED BY <1>1, <1>2, <1>3

LEMMA FinishSends ==
  ASSUME TypeOK, NEW e \in Run, NEW s, Finish(e, s)
  PROVE  SentInv(e)' /\ Left(e)' <= 6
<1>1. /\ sent'[e] = Writes(s)
      /\ pc'[e] = "record" \/ pc'[e] = "recordFailure"
  BY DEF Finish, TypeOK
<1>2. QED BY <1>1, WritesCount DEF SentInv, Left

LEMMA RecordSends ==
  ASSUME TypeOK, NEW e \in Run, SentInv(e), Record(e)
  PROVE  SentInv(e)' /\ Left(e)' < Left(e)
<1>1. PICK w \in sent[e] :
        LET rest == sent[e] \ {w} IN
        \/ /\ sent'[e] = rest
           /\ pc'[e] = IF rest = {} THEN "done" ELSE pc[e]
        \/ /\ pc[e] = "record"
           /\ sent'[e] = rest \cup Writes("failure") /\ pc'[e] = "recordFailure"
  BY DEF Record, TypeOK
<1> DEFINE rest == sent[e] \ {w}
<1> DEFINE both == rest \cup Writes("failure")
<1>2. IsFiniteSet(rest) /\ Cardinality(rest) = Cardinality(sent[e]) - 1
  BY FS_RemoveElement DEF SentInv
<1>3. Cardinality(rest) \in Nat /\ Cardinality(sent[e]) \in Nat
  BY <1>2, FS_CardinalityType DEF SentInv
<1>4. IsFiniteSet(both) /\ Cardinality(both) <= Cardinality(rest) + 2
  <2>1. IsFiniteSet(both) /\
        Cardinality(both) = Cardinality(rest) + 2 - Cardinality(rest \cap Writes("failure"))
    BY <1>2, WritesCount, FS_Union
  <2>2. Cardinality(rest \cap Writes("failure")) \in Nat
    BY <1>2, FS_Subset, FS_CardinalityType
  <2>3. QED BY <1>3, <2>1, <2>2
<1>5. Cardinality(both) \in Nat
  BY <1>4, FS_CardinalityType
<1>6. pc[e] = "record" \/ pc[e] = "recordFailure"
  BY DEF Record
<1>7. \/ sent'[e] = rest /\ (pc'[e] = "done" \/ pc'[e] = pc[e])
      \/ pc[e] = "record" /\ sent'[e] = both /\ pc'[e] = "recordFailure"
  BY <1>1
<1> HIDE DEF rest, both
<1>8. QED BY <1>2, <1>3, <1>4, <1>5, <1>6, <1>7 DEF SentInv, Left

LEMMA StepForward ==
  ASSUME TypeOK, NEW e \in Run, SentInv(e), Step(e) \/ Die(e)
  PROVE  SentInv(e)' /\ Left(e)' < Left(e)
<1> USE DEF Goto
<1>1. CASE InsertLog(e) \/ MarkRunning(e) \/ AcquireCleanup(e) \/ Cleanup(e) \/ ReleaseCleanup(e)
  BY <1>1 DEF InsertLog, MarkRunning, AcquireCleanup, AfterCleanup, Cleanup, ReleaseCleanup,
     SentInv, Left, TypeOK
<1>2. CASE AcquireTask(e)
  <2>1. Left(e) = 11
    BY <1>2 DEF AcquireTask, Left
  <2>2. CASE Goto(e, "lockTask", "lockCleanup") /\ UNCHANGED sent
    BY <2>1, <2>2 DEF SentInv, Left, TypeOK
  <2>3. CASE Finish(e, "skipped")
    BY <2>1, <2>3, FinishSends, FS_CardinalityType DEF SentInv, Left
  <2>4. QED BY <1>2, <2>2, <2>3 DEF AcquireTask
<1>3. CASE ReleaseTask(e)
  <2>1. Left(e) = 7 /\ Finish(e, Outcome(e))
    BY <1>3 DEF ReleaseTask, Left
  <2>2. QED BY <2>1, FinishSends, FS_CardinalityType DEF SentInv, Left
<1>4. CASE Record(e)
  BY <1>4, RecordSends
<1>5. CASE Die(e)
  <2>1. pc'[e] = "dead" /\ sent'[e] = {} /\ pc[e] \notin {"done", "dead"}
    BY <1>5 DEF Die, TypeOK
  <2>2. SentInv(e)' /\ Left(e)' = 0
    BY <2>1, FS_EmptySet DEF SentInv, Left
  <2>3. Left(e) \in 0 .. 13 /\ Left(e) > 0
    BY <2>1, LeftBounds
  <2>4. QED BY <2>2, <2>3
<1>6. QED BY <1>1, <1>2, <1>3, <1>4, <1>5 DEF Step

LEMMA NextForward ==
  ASSUME TypeOK, NEW e \in Run, SentInv(e), [Next]_vars
  PROVE  SentInv(e)' /\ Left(e)' <= Left(e)
<1>0. Left(e) \in 0 .. 13
  BY LeftBounds
<1>1. CASE Step(e) \/ Die(e)
  <2>1. SentInv(e)' /\ Left(e)' < Left(e)
    BY <1>1, StepForward
  <2>2. Cardinality(sent'[e]) \in Nat
    BY <2>1, FS_CardinalityType DEF SentInv
  <2>3. Left(e)' \in Nat
    BY <2>2 DEF Left
  <2>4. QED BY <1>0, <2>1, <2>3
<1>2. ASSUME NEW p \in Plan, Begin(e, p) PROVE SentInv(e)' /\ Left(e)' <= Left(e)
  <2>1. pc[e] = "new" /\ pc'[e] = "insert" /\ sent' = sent
    BY <1>2 DEF Begin, BeginCleanup, Goto, TypeOK
  <2>2. QED BY <2>1 DEF SentInv, Left
<1>3. CASE UNCHANGED <<pc[e], sent[e]>>
  BY <1>0, <1>3 DEF SentInv, Left
<1>6. ASSUME BeginCleanup(e) PROVE SentInv(e)' /\ Left(e)' <= Left(e)
  <2>1. pc[e] = "new" /\ pc'[e] = "lockCleanup" /\ sent' = sent
    BY <1>6 DEF BeginCleanup, Goto, TypeOK
  <2>2. QED BY <2>1 DEF SentInv, Left
<1>4. ASSUME NEW f \in Run, f # e, (\E p \in Plan : Begin(f, p)) \/ BeginCleanup(f) \/ Step(f) \/ Die(f)
      PROVE  UNCHANGED <<pc[e], sent[e]>>
  BY <1>4, StepLocal DEF Begin, BeginCleanup, Die, Goto, TypeOK
<1>5. (\E p \in Plan : Remove(p)) \/ Clock \/ UNCHANGED vars => UNCHANGED <<pc[e], sent[e]>>
  BY DEF Remove, Clock, vars
<1>7. QED BY <1>1, <1>2, <1>3, <1>4, <1>5, <1>6 DEF Next

(* However locks, errors and other runs interleave with it, no run takes     *)
(* more than 13 steps once it has begun: with NeverWaits, every run that     *)
(* does not die comes to its end.                                           *)
THEOREM RunsOnlyGoForward == Spec => OnlyForward
<1> DEFINE AllSent == \A e \in Run : SentInv(e)
<1>1. Init => AllSent
  <2> SUFFICES ASSUME Init, NEW e \in Run PROVE SentInv(e)
    OBVIOUS
  <2>1. sent[e] = {} /\ pc[e] = "new"
    BY DEF Init
  <2>2. QED BY <2>1, FS_EmptySet DEF SentInv
<1>2. TypeOK /\ AllSent /\ [Next]_vars => AllSent'
  BY NextForward
<1>3. TypeOK /\ AllSent /\ [Next]_vars =>
        [\A e \in Run : /\ Left(e) \in 0 .. 13
                        /\ Step(e) \/ Die(e) => Left(e)' < Left(e)
                        /\ Left(e)' <= Left(e)]_vars
  BY NextForward, StepForward, LeftBounds
<1>4. QED BY <1>1, <1>2, <1>3, TypeCorrect, PTL DEF Spec, OnlyForward
-----------------------------------------------------------------------------
(* A run that records has an answer to come.                                *)
Awaiting == \A e \in Run : pc[e] \in Recording => sent[e] # {}

LEMMA WritesSomething == ASSUME NEW s PROVE Writes(s) # {}
BY DEF Writes

LEMMA AwaitingStep == TypeOK /\ Awaiting /\ [Next]_vars => Awaiting'
<1> SUFFICES ASSUME TypeOK, Awaiting, [Next]_vars PROVE Awaiting'
  OBVIOUS
<1> USE DEF Awaiting, Recording, TypeOK
<1>1. ASSUME NEW e \in Run, NEW s, Finish(e, s) PROVE Awaiting'
  BY <1>1, WritesSomething DEF Finish
<1>2. ASSUME NEW e \in Run, Record(e) PROVE Awaiting'
  <2>1. pc'[e] \in Recording => sent'[e] # {}
    BY <1>2, WritesSomething DEF Record
  <2>2. \A f \in Run \ {e} : pc'[f] = pc[f] /\ sent'[f] = sent[f]
    BY <1>2 DEF Record
  <2>3. QED BY <2>1, <2>2
<1>3. ASSUME NEW e \in Run, Step(e), ~Record(e), \A s : ~Finish(e, s) PROVE Awaiting'
  BY <1>3 DEF Step, InsertLog, MarkRunning, AcquireTask, AcquireCleanup, AfterCleanup, Cleanup,
     ReleaseCleanup, ReleaseTask, Goto
<1>4. ASSUME NEW e \in Run, (\E p \in Plan : Begin(e, p)) \/ BeginCleanup(e) \/ Die(e) PROVE Awaiting'
  BY <1>4 DEF Begin, BeginCleanup, Die, Goto
<1>5. CASE (\E p \in Plan : Remove(p)) \/ Clock \/ UNCHANGED vars
  BY <1>5 DEF Remove, Clock, vars
<1>6. QED BY <1>1, <1>2, <1>3, <1>4, <1>5 DEF Next

(* A run that records its outcome has an UPDATE under way, after errors and  *)
(* repetitions as well, so that there is always an answer to go on with.    *)
THEOREM OutcomesAreOnTheirWay == Spec => [](\A e \in Run : pc[e] \in Recording => sent[e] # {})
<1>1. Init => Awaiting
  BY DEF Init, Awaiting, Recording
<1>2. Awaiting => \A e \in Run : pc[e] \in Recording => sent[e] # {}
  BY DEF Awaiting
<1>3. QED BY <1>1, <1>2, AwaitingStep, TypeCorrect, PTL DEF Spec
=============================================================================
