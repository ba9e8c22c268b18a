--------------------------- MODULE TaskExecutions ---------------------------
(***************************************************************************)
(* The executions of scheduled tasks: createExecution, performExecution    *)
(* and finishExecution of scheduled-task.service.ts, whether a cron job of *)
(* some process or an administrator starts them.  The one registered       *)
(* handler, the log cleanup, takes a lock of its own inside the lock of    *)
(* the task.  Plans share the handler, so runs of all plans and processes  *)
(* meet at the same two locks.  POST /operation-logs/cleanup runs the same *)
(* cleanup under its own lock alone, for no plan and without an entry.     *)
(*                                                                         *)
(* A run writes a log entry and the last-run columns of its plan: first    *)
(* "running", at the end the outcome, by two UPDATEs sent at once.  Each   *)
(* action is one statement or Redis call; each may fail, with or without   *)
(* effect, and a process may die at any time.                              *)
(***************************************************************************)
EXTENDS RedisLocks, FiniteSets

CONSTANTS
  Plan,      \* rows of sys_scheduled_task
  BuiltIn,   \* those that cannot be removed
  NoPlan,
  MaxNow     \* bound on the clock

ASSUME PlanAssumption == BuiltIn \subseteq Plan /\ NoPlan \notin Plan
ASSUME KeysAssumption == Lock = {"task", "cleanup"}

VARIABLES
  alive,     \* deleted_at IS NULL
  last,      \* last_run_at and last_run_status
  log,       \* the status of the log entry of run e, "none" without entry
  pc, plan,
  began,     \* startedAt
  sent,      \* UPDATEs of the outcome that MySQL has not answered
  did,       \* history: what became of cleanup()
  faulted    \* history: a statement of e failed

table == <<alive, last, log>>
locks == <<redis, now, keys>>   \* without the count of faults
vars == <<locks, faults, table, pc, plan, began, sent, did, faulted>>

Status == {"running", "success", "failure", "skipped"}
Update == {"log", "task"} \X {"success", "failure", "skipped"}

TypeOK ==
  /\ LocksType
  /\ alive \in [Plan -> BOOLEAN]
  /\ last \in [Plan -> [at : Nat, st : Status \cup {"none"}]]
  /\ log \in [Run -> Status \cup {"none"}]
  /\ pc \in [Run -> {"new", "insert", "mark", "lockTask", "lockCleanup", "cleanup",
                     "unlockCleanup", "unlockTask", "record", "recordFailure",
                     "done", "dead"}]
  /\ plan \in [Run -> Plan \cup {NoPlan}]
  /\ began \in [Run -> Nat]
  /\ sent \in [Run -> SUBSET Update]
  /\ did \in [Run -> {"nothing", "cleaning", "cleaned", "threw"}]
  /\ faulted \in [Run -> BOOLEAN]
  /\ \A e \in Run : pc[e] = "new" => plan[e] = NoPlan
  /\ \A e \in Run :
       pc[e] \in {"insert", "mark", "lockTask", "unlockTask", "record", "recordFailure"} =>
         plan[e] \in Plan

Init ==
  /\ LocksInit
  /\ alive = [p \in Plan |-> TRUE]
  /\ last = [p \in Plan |-> [at |-> 0, st |-> "none"]]
  /\ log = [e \in Run |-> "none"]
  /\ pc = [e \in Run |-> "new"]
  /\ plan = [e \in Run |-> NoPlan]
  /\ began = [e \in Run |-> 0]
  /\ sent = [e \in Run |-> {}]
  /\ did = [e \in Run |-> "nothing"]
  /\ faulted = [e \in Run |-> FALSE]

Goto(e, at, to) == pc[e] = at /\ pc' = [pc EXCEPT ![e] = to]
Answered == Answers /\ UNCHANGED faulted
Fault(e) == Fails /\ faulted' = [faulted EXCEPT ![e] = TRUE]
-----------------------------------------------------------------------------
(* createExecution(): the plan is read, whatever its status, and the start *)
(* of the run noted                                                        *)
Begin(e, p) ==
  /\ alive[p]
  /\ Goto(e, "new", "insert")
  /\ plan' = [plan EXCEPT ![e] = p]
  /\ began' = [began EXCEPT ![e] = now]
  /\ UNCHANGED <<locks, faults, table, sent, did, faulted>>

(* OperationLogController.runCleanup(): a run of no plan, which needs the  *)
(* lock of the cleanup only                                                *)
BeginCleanup(e) ==
  /\ Goto(e, "new", "lockCleanup")
  /\ UNCHANGED <<locks, faults, table, plan, began, sent, did, faulted>>

(* createExecution(): the INSERT of the log entry                          *)
InsertLog(e) ==
  /\ \/ /\ Goto(e, "insert", "mark") /\ Answered
        /\ log' = [log EXCEPT ![e] = "running"]
     \/ /\ Goto(e, "insert", "done") /\ Fault(e)
        /\ log' \in {log, [log EXCEPT ![e] = "running"]}
  /\ UNCHANGED <<locks, alive, last, plan, began, sent, did>>

(* UPDATE of the last-run columns, of a plan that is not removed           *)
SetLast(e, s) ==
  last' = IF alive[plan[e]]
          THEN [last EXCEPT ![plan[e]] = [at |-> began[e], st |-> s]] ELSE last

(* createExecution(): the plan is marked as running.  An error ends the    *)
(* execution and leaves the log entry as it is.                            *)
MarkRunning(e) ==
  /\ \/ Goto(e, "mark", "lockTask") /\ Answered /\ SetLast(e, "running")
     \/ /\ Goto(e, "mark", "done") /\ Fault(e)
        /\ UNCHANGED last \/ SetLast(e, "running")
  /\ UNCHANGED <<locks, alive, log, plan, began, sent, did>>
-----------------------------------------------------------------------------
(* mutation: a skipped run leaves its plan alone *)
WritesSkipNotPlan(s) ==
  {<<t, s>> : t \in IF s = "skipped" THEN {"log"} ELSE {"log", "task"}}

Writes(s) == {<<"log", s>>, <<"task", s>>}

(* finishExecution(): both UPDATEs are sent                                *)
Finish(e, s) ==
  /\ pc' = [pc EXCEPT ![e] = IF s = "failure" THEN "recordFailure" ELSE "record"]
  /\ sent' = [sent EXCEPT ![e] = Writes(s)]

(* performExecution(): runExclusive() for the lock of the task             *)
AcquireTask(e) ==
  /\ pc[e] = "lockTask"
  /\ \/ Enters("task", e) /\ Goto(e, "lockTask", "lockCleanup") /\ UNCHANGED sent
     \/ GivesUp("task", e) /\ Finish(e, "skipped")
  /\ UNCHANGED <<redis, now, table, plan, began, did, faulted>>

(* where LogCleanupService.runManually() returns to: the handler of the    *)
(* task, or the administrator's request                                    *)
AfterCleanup(e) == IF plan[e] \in Plan THEN "unlockTask" ELSE "done"

(* LogCleanupService.runManually(): runExclusive() for the lock of the     *)
(* cleanup; a cleanup that is skipped returns zeros and thus succeeds      *)
AcquireCleanup(e) ==
  /\ \/ /\ Enters("cleanup", e) /\ Goto(e, "lockCleanup", "cleanup")
        /\ did' = [did EXCEPT ![e] = "cleaning"]
     \/ /\ GivesUp("cleanup", e) /\ Goto(e, "lockCleanup", AfterCleanup(e))
        /\ UNCHANGED did
  /\ UNCHANGED <<redis, now, table, plan, began, sent, faulted>>

(* cleanup() returns or throws                                             *)
Cleanup(e) ==
  /\ Goto(e, "cleanup", "unlockCleanup")
  /\ \E r \in {"cleaned", "threw"} : did' = [did EXCEPT ![e] = r]
  /\ UNCHANGED <<locks, faults, table, plan, began, sent, faulted>>

(* the finally of runExclusive() for the cleanup                           *)
ReleaseCleanup(e) ==
  /\ Releases("cleanup", e) /\ Goto(e, "unlockCleanup", AfterCleanup(e))
  /\ UNCHANGED <<redis, now, table, plan, began, sent, did, faulted>>

(* mutation: the finally returns and thereby swallows the error *)
OutcomeSwallowed(e) == "success"

(* mutation: the status that was read is written back *)
OutcomeUnset(e) == IF did[e] = "threw" THEN "failure" ELSE log[e]

(* what runExclusive() for the task ends with: an error passes through     *)
(* both of its finally blocks                                              *)
Outcome(e) == IF did[e] = "threw" THEN "failure" ELSE "success"

(* the finally of runExclusive() for the task, and finishExecution()       *)
ReleaseTask(e) ==
  /\ pc[e] = "unlockTask"
  /\ Releases("task", e) /\ Finish(e, Outcome(e))
  /\ UNCHANGED <<redis, now, table, plan, began, did, faulted>>
-----------------------------------------------------------------------------
Apply(e, w) ==
  IF w[1] = "log" THEN log' = [log EXCEPT ![e] = w[2]] /\ UNCHANGED last
                  ELSE SetLast(e, w[2]) /\ UNCHANGED log

(* finishExecution(): one of its UPDATEs is answered.  The first error     *)
(* inside the try of performExecution() makes its catch record a failure,  *)
(* while the other UPDATE may still be under way.                          *)
Record(e) ==
  /\ pc[e] \in {"record", "recordFailure"}
  /\ \E w \in sent[e] :
       LET rest == sent[e] \ {w} IN
       \/ /\ Apply(e, w) /\ Answered
          /\ sent' = [sent EXCEPT ![e] = rest]
          /\ pc' = [pc EXCEPT ![e] = IF rest = {} THEN "done" ELSE pc[e]]
       \/ /\ Fault(e)
          /\ Apply(e, w) \/ UNCHANGED <<last, log>>
          /\ IF pc[e] = "record"
             THEN /\ sent' = [sent EXCEPT ![e] = rest \cup Writes("failure")]
                  /\ pc' = [pc EXCEPT ![e] = "recordFailure"]
             ELSE /\ sent' = [sent EXCEPT ![e] = rest]
                  /\ pc' = [pc EXCEPT ![e] = IF rest = {} THEN "done" ELSE pc[e]]
  /\ UNCHANGED <<locks, alive, plan, began, did>>

(* the process of a run ends; what it had sent is lost or already applied  *)
Die(e) ==
  /\ Fails
  /\ pc[e] \notin {"new", "done", "dead"}
  /\ pc' = [pc EXCEPT ![e] = "dead"]
  /\ sent' = [sent EXCEPT ![e] = {}]
  /\ UNCHANGED <<locks, table, plan, began, did, faulted>>

(* remove(): a plan that is not built in is deleted                        *)
Remove(p) ==
  /\ alive[p] /\ p \notin BuiltIn
  /\ alive' = [alive EXCEPT ![p] = FALSE]
  /\ UNCHANGED <<locks, faults, last, log, pc, plan, began, sent, did, faulted>>

Clock ==
  /\ now < MaxNow /\ Ticks
  /\ UNCHANGED <<redis, faults, table, pc, plan, began, sent, did, faulted>>
-----------------------------------------------------------------------------
Step(e) ==
  \/ InsertLog(e)
  \/ MarkRunning(e)
  \/ AcquireTask(e)
  \/ AcquireCleanup(e)
  \/ Cleanup(e)
  \/ ReleaseCleanup(e)
  \/ ReleaseTask(e)
  \/ Record(e)

Next ==
  \/ \E e \in Run : (\E p \in Plan : Begin(e, p)) \/ BeginCleanup(e) \/ Step(e) \/ Die(e)
  \/ \E p \in Plan : Remove(p)
  \/ Clock

Spec == Init /\ [][Next]_vars
-----------------------------------------------------------------------------
(* the part of a run that one of its locks is to protect                    *)
Inside(e, k) ==
  IF k = "task"
  THEN plan[e] \in Plan /\ pc[e] \in {"lockCleanup", "cleanup", "unlockCleanup", "unlockTask"}
  ELSE pc[e] \in {"cleanup", "unlockCleanup"}

(* Two runs are inside what a lock protects only if one of them held that   *)
(* lock past its time to live.  So two cleanups at once mean that the lock  *)
(* of the cleanup was outlived, and if both are runs of plans, the lock of  *)
(* the task as well, though not always by the same run; a cleanup started   *)
(* from the log page meets the lock of the cleanup alone.                   *)
Exclusion ==
  redis =>
    \A k \in Lock : \A e, f \in Run :
      e # f /\ Inside(e, k) /\ Inside(f, k) => took[k][e] <= now \/ took[k][f] <= now

(* Where there is Redis, each of the two locks, with the runs inside the    *)
(* part it protects, implements Leases: it is taken only when nobody has    *)
(* it, and before its term is over it is given up by no other than the run  *)
(* that took it, as it leaves; although answers are lost on either side of  *)
(* their effect, runs outlive their locks and processes die holding them    *)
(* (redis-lock.service.ts:36, 50).                                         *)
LeaseOf(k) == INSTANCE Leases WITH
  owner <- holder[k], until <- until[k], time <- now,
  inside <- {<<e, took[k][e]>> : e \in {f \in Run : Inside(f, k)}}
LeasesSpec ==
  /\ \A k \in Lock : LeaseOf(k)!LInit
  /\ [][\A k \in Lock : redis => [LeaseOf(k)!LNext]_(LeaseOf(k)!lvars)]_vars

(* What a log entry says of a run, however the UPDATEs of a failed and a   *)
(* repeated recording are ordered: a skipped run has cleaned nothing, a    *)
(* success has not thrown, and a failure has, unless MySQL failed.         *)
LogTells ==
  \A e \in Run :
    /\ log[e] = "skipped" => did[e] = "nothing"
    /\ log[e] = "success" => did[e] \in {"nothing", "cleaned"}
    /\ log[e] = "failure" => did[e] = "threw" \/ faulted[e]

(* Runs of one plan that overlap overwrite each other's last-run columns,  *)
(* but once all have ended undisturbed these are the start and outcome of  *)
(* one of them, never a "running" that stays.                              *)
LastRunSettles ==
  \A p \in Plan :
    LET runs == {e \in Run : plan[e] = p} IN
    alive[p] /\ runs # {} /\ (\A e \in runs : pc[e] = "done" /\ ~faulted[e]) =>
      \E e \in runs : last[p] = [at |-> began[e], st |-> log[e]]

(* A run in progress waits for nobody: whatever the other runs do, and      *)
(* whatever locks dead processes left behind, its next step is possible.   *)
(* No step leads back, so every run that does not die comes to its end.    *)
NeverWaits ==
  \A e \in Run : pc[e] \notin {"new", "done", "dead"} => ENABLED Step(e)
=============================================================================
