---------------------------- MODULE UsageCleanup ----------------------------
(***************************************************************************)
(* Tasks that delete usage logs in batches.  An instance of the service    *)
(* runs one task at a time; it claims the oldest one that is pending, or   *)
(* that has been running for longer than a task may take, and looks before *)
(* every batch whether an administrator has cancelled it.  A batch is one  *)
(* row, and tasks are numbered in the order of their creation.             *)
(***************************************************************************)
EXTENDS Naturals, FiniteSets

CONSTANTS
  MaxTasks,
  Runners,           \* the instances of the service
  MaxLogs,           \* bound: rows in the range of a task
  MaxCleanupFaults,  \* bound: errors, timeouts and crashes
  NoTask

Tasks == 1 .. MaxTasks

ASSUME CleanupAssumption ==
  /\ MaxTasks \in Nat /\ MaxLogs \in Nat \ {0} /\ MaxCleanupFaults \in Nat
  /\ NoTask \notin Tasks

VARIABLES
  taskStatus,
  deletedRows,    \* the column: what the task says it has deleted
  reallyDeleted,  \* the rows that it has deleted
  logs,           \* the rows that are left in the range of a task
  runner,         \* what an instance does
  canceled,       \* tasks whose cancellation an administrator was told of
  late,           \* tasks that began a batch after that
  shared,         \* tasks claimed while another runner still held them
  cleanupFaults

cleanupVars ==
  <<taskStatus, deletedRows, reallyDeleted, logs, runner, canceled, late, shared, cleanupFaults>>

Statuses == {"none", "pending", "running", "succeeded", "failed", "canceled"}

CleanupTypeOK ==
  /\ taskStatus \in [Tasks -> Statuses]
  /\ deletedRows \in [Tasks -> 0 .. MaxLogs]
  /\ reallyDeleted \in [Tasks -> 0 .. MaxLogs]
  /\ logs \in [Tasks -> 0 .. MaxLogs]
  /\ runner \in [Runners -> [at : {"idle", "check", "batch", "progress", "finish", "fail"},
                             task : Tasks \cup {NoTask}, total : 0 .. MaxLogs, expired : BOOLEAN]]
  /\ canceled \subseteq Tasks /\ late \subseteq Tasks /\ shared \subseteq Tasks
  /\ cleanupFaults \in 0 .. MaxCleanupFaults

NotRunning == [at |-> "idle", task |-> NoTask, total |-> 0, expired |-> FALSE]

CleanupInit ==
  /\ taskStatus = [k \in Tasks |-> "none"]
  /\ deletedRows = [k \in Tasks |-> 0]
  /\ reallyDeleted = [k \in Tasks |-> 0]
  /\ logs = [k \in Tasks |-> 1]
  /\ runner = [n \in Runners |-> NotRunning]
  /\ canceled = {} /\ late = {} /\ shared = {}
  /\ cleanupFaults = 0

CleanupFault ==
  /\ cleanupFaults < MaxCleanupFaults
  /\ cleanupFaults' = cleanupFaults + 1

-----------------------------------------------------------------------------
CreateTask(k) ==
  /\ taskStatus[k] = "none"
  /\ \A j \in 1 .. k - 1 : taskStatus[j] # "none"
  /\ taskStatus' = [taskStatus EXCEPT ![k] = "pending"]
  /\ UNCHANGED <<deletedRows, reallyDeleted, logs, runner, canceled, late, shared, cleanupFaults>>

\* The range of a task may reach into the future.
LogsArrive(k) ==
  /\ logs[k] + reallyDeleted[k] < MaxLogs
  /\ logs' = [logs EXCEPT ![k] = @ + 1]
  /\ UNCHANGED <<taskStatus, deletedRows, reallyDeleted, runner, canceled, late, shared, cleanupFaults>>

Holders(k) == {n \in Runners : runner[n].task = k}

\* Mutant of Claimable: a task that was interrupted is not taken up again.
PendingOnly(k) == taskStatus[k] = "pending"

\* A runner counts its time from before its claim: when started_at is that
\* long ago, whoever set it is out of time.
Claimable(k) ==
  \/ taskStatus[k] = "pending"
  \/ taskStatus[k] = "running" /\ \A n \in Holders(k) : runner[n].expired

ClaimNextPendingTask(n) ==
  /\ runner[n].at = "idle"
  /\ \E k \in Tasks :
       /\ Claimable(k)
       /\ \A j \in 1 .. k - 1 : ~Claimable(j)
       /\ runner' = [runner EXCEPT ![n] = [at |-> "check", task |-> k, total |-> deletedRows[k], expired |-> FALSE]]
       /\ taskStatus' = [taskStatus EXCEPT ![k] = "running"]
       /\ shared' = IF Holders(k) = {} THEN shared ELSE shared \cup {k}
  /\ UNCHANGED <<deletedRows, reallyDeleted, logs, canceled, late, cleanupFaults>>

Moves(n, from, to) ==
  /\ runner[n].at = from
  /\ runner' = [runner EXCEPT ![n].at = to]

Leaves(n) == runner' = [runner EXCEPT ![n] = NotRunning]

-----------------------------------------------------------------------------
(* One round of executeTask. *)

\* Mutant of MayGoOn: a task may also go on when it is no longer running.
GoesOnWhateverStatus(k) == k \in Tasks

MayGoOn(k) == taskStatus[k] # "canceled"

\* Out of time, cancelled, or on to a batch; the status may not be readable.
CheckCanceled(n) ==
  LET k == runner[n].task IN
  /\ runner[n].at = "check"
  /\ \/ /\ runner[n].expired \/ ~MayGoOn(k)
        /\ Leaves(n)
        /\ UNCHANGED <<late, cleanupFaults>>
     \/ /\ ~runner[n].expired
        /\ MayGoOn(k)
        /\ Moves(n, "check", "batch")
        /\ late' = IF k \in canceled THEN late \cup {k} ELSE late
        /\ UNCHANGED cleanupFaults
     \/ /\ ~runner[n].expired
        /\ Moves(n, "check", "fail")
        /\ CleanupFault
        /\ UNCHANGED late
  /\ UNCHANGED <<taskStatus, deletedRows, reallyDeleted, logs, canceled, shared>>

RowsGo(k) ==
  /\ logs' = [logs EXCEPT ![k] = @ - 1]
  /\ reallyDeleted' = [reallyDeleted EXCEPT ![k] = @ + 1]

DeleteUsageLogsBatch(n) ==
  LET k == runner[n].task IN
  /\ runner[n].at = "batch"
  /\ \/ /\ logs[k] > 0
        /\ RowsGo(k)
        /\ runner' = [runner EXCEPT ![n].at = "progress", ![n].total = @ + 1]
     \/ /\ logs[k] = 0
        /\ Moves(n, "batch", "finish")
        /\ UNCHANGED <<logs, reallyDeleted>>
  /\ UNCHANGED <<taskStatus, deletedRows, canceled, late, shared, cleanupFaults>>

\* It fails, perhaps after its commit: an interrupted task is left running.
BatchFails(n) ==
  LET k == runner[n].task IN
  /\ runner[n].at = "batch"
  /\ IF runner[n].expired
     THEN Leaves(n) /\ UNCHANGED cleanupFaults
     ELSE Moves(n, "batch", "fail") /\ CleanupFault
  /\ \/ UNCHANGED <<logs, reallyDeleted>>
     \/ logs[k] > 0 /\ RowsGo(k)
  /\ UNCHANGED <<taskStatus, deletedRows, canceled, late, shared>>

\* Mutant of StatusWithProgress: progress is written with the status "running".
RunningWithProgress(k) == "running"

\* Progress is written without a look at the status.
StatusWithProgress(k) == taskStatus[k]

\* Mutant of Progress: what a runner has counted is added to the column.
ProgressAdded(n) == deletedRows[runner[n].task] + runner[n].total

\* A runner goes on counting from the column it has read with its claim.
Progress(n) == runner[n].total

\* A failure to write it is only logged.
UpdateTaskProgress(n) ==
  LET k == runner[n].task IN
  /\ Moves(n, "progress", "check")
  /\ \/ /\ deletedRows' = [deletedRows EXCEPT ![k] = Progress(n)]
        /\ taskStatus' = [taskStatus EXCEPT ![k] = StatusWithProgress(k)]
        /\ UNCHANGED cleanupFaults
     \/ /\ CleanupFault
        /\ UNCHANGED <<deletedRows, taskStatus>>
  /\ UNCHANGED <<reallyDeleted, logs, canceled, late, shared>>

\* MarkTaskSucceeded and markTaskFailed write over any status; when the write
\* fails the task is left running.
MarkTask(n, at, result) ==
  LET k == runner[n].task IN
  /\ runner[n].at = at
  /\ Leaves(n)
  /\ \/ /\ taskStatus' = [taskStatus EXCEPT ![k] = result]
        /\ deletedRows' = [deletedRows EXCEPT ![k] = runner[n].total]
        /\ UNCHANGED cleanupFaults
     \/ /\ CleanupFault
        /\ UNCHANGED <<taskStatus, deletedRows>>
  /\ UNCHANGED <<reallyDeleted, logs, canceled, late, shared>>

-----------------------------------------------------------------------------
\* The context of runOnce ends.
TimesOut(n) ==
  /\ runner[n].at # "idle" /\ ~runner[n].expired
  /\ runner' = [runner EXCEPT ![n].expired = TRUE]
  /\ CleanupFault
  /\ UNCHANGED <<taskStatus, deletedRows, reallyDeleted, logs, canceled, late, shared>>

RunnerCrashes(n) ==
  /\ runner[n].at # "idle"
  /\ Leaves(n)
  /\ CleanupFault
  /\ UNCHANGED <<taskStatus, deletedRows, reallyDeleted, logs, canceled, late, shared>>

CancelTask(k) ==
  /\ taskStatus[k] \in {"pending", "running"}
  /\ taskStatus' = [taskStatus EXCEPT ![k] = "canceled"]
  /\ canceled' = canceled \cup {k}
  /\ UNCHANGED <<deletedRows, reallyDeleted, logs, runner, late, shared, cleanupFaults>>

-----------------------------------------------------------------------------
ExecuteTask(n) ==
  \/ CheckCanceled(n)
  \/ DeleteUsageLogsBatch(n) \/ BatchFails(n)
  \/ UpdateTaskProgress(n)
  \/ MarkTask(n, "finish", "succeeded")
  \/ MarkTask(n, "fail", "failed")

CleanupNext ==
  \/ \E k \in Tasks : CreateTask(k) \/ LogsArrive(k) \/ CancelTask(k)
  \/ \E n \in Runners :
       ClaimNextPendingTask(n) \/ ExecuteTask(n) \/ TimesOut(n) \/ RunnerCrashes(n)

CleanupSpec == CleanupInit /\ [][CleanupNext]_cleanupVars

\* When an administrator has been told that a task is cancelled, no further
\* batch of it begins: the one in flight is the last (executeTask).  Only a
\* task that two runners have held at once is excepted: the first one may mark
\* it succeeded after the cancellation, and the second one goes on.
CancelStopsDeleting == late \subseteq shared

\* A task says no more than it has deleted: batches that are interrupted, whose
\* answer is lost, or that follow on those of an earlier runner, are not counted
\* twice (executeTask, ClaimNextPendingTask).
RecordsNoMoreThanDeleted == \A k \in Tasks : deletedRows[k] <= reallyDeleted[k]

\* Every task that was created has come to an end.
AllEnded == \A k \in Tasks : taskStatus[k] \notin {"pending", "running"}
=============================================================================
