---------------------------- MODULE Services_proofs ----------------------------
(***************************************************************************)
(* Proofs about the cleanup of usage logs, the entries of an API key, the  *)
(* scheduler's snapshot and the breaker of the billing checks, for any     *)
(* instances, requests, writers, tasks, checks, bounds and faults.  They   *)
(* share nothing: each has an invariant of its own.  The last section is   *)
(* about MCServices as a whole, which has them beside the tokens.          *)
(***************************************************************************)
EXTENDS MCServices, TokenRefresh_proofs, FiniteSetTheorems, TLAPS

-----------------------------------------------------------------------------
(* UsageCleanup *)

\* A runner that is not idle has a task.
Holding == \A n \in Runners : runner[n].at = "idle" \/ runner[n].task \in Tasks
IdleFree == \A n \in Runners : runner[n].at = "idle" => runner[n] = NotRunning

\* No row is deleted that was not there.
LogsFit == \A k \in Tasks : logs[k] + reallyDeleted[k] <= MaxLogs

\* A runner counts no more than its task has deleted.
CountsDeleted ==
  \A n \in Runners, k \in Tasks : runner[n].task = k => runner[n].total <= reallyDeleted[k]

\* A task that was never claimed twice has one runner.
OneHolder ==
  \A k \in Tasks \ shared, m, n \in Runners : runner[m].task = k /\ runner[n].task = k => m = n

\* A cancelled task is not claimed again, and if it is no longer "canceled" its
\* only runner has marked it and left.
CanceledEnds ==
  \A k \in canceled :
    /\ taskStatus[k] \in {"canceled", "succeeded", "failed"}
    /\ taskStatus[k] # "canceled" /\ k \notin shared => \A n \in Runners : runner[n].task # k

CleanupInv ==
  /\ CleanupTypeOK /\ Holding /\ IdleFree /\ LogsFit
  /\ CountsDeleted /\ RecordsNoMoreThanDeleted
  /\ OneHolder /\ CanceledEnds /\ CancelStopsDeleting

Runs ==
  [at : {"idle", "check", "batch", "progress", "finish", "fail"},
   task : Tasks \cup {NoTask}, total : 0 .. MaxLogs, expired : BOOLEAN]

\* What a runner is about, for the steps that leave the tasks alone.
Aside == <<taskStatus, deletedRows, reallyDeleted, logs, canceled, late, shared>>

LEMMA CleanupFaultCounted ==
  ASSUME CleanupTypeOK, CleanupFault \/ UNCHANGED cleanupFaults
  PROVE  cleanupFaults' \in 0 .. MaxCleanupFaults
  BY CleanupAssumption DEF CleanupTypeOK, CleanupFault

LEMMA NotRunningIsRun == NotRunning \in Runs /\ NotRunning.at = "idle" /\ NotRunning.task \notin Tasks
  BY CleanupAssumption DEF NotRunning, Runs

\* A runner leaves, or keeps its task and its count, and the tasks keep what
\* they are but for the rows they have deleted.
LEMMA RunnerSteps ==
  ASSUME CleanupInv, NEW n \in Runners, NEW r \in Runs,
         runner' = [runner EXCEPT ![n] = r],
         \/ r = NotRunning
         \/ /\ runner[n].at # "idle" /\ r.at # "idle"
            /\ r.task = runner[n].task /\ r.total <= reallyDeleted'[runner[n].task],
         \A k \in Tasks : reallyDeleted[k] <= reallyDeleted'[k],
         reallyDeleted' \in [Tasks -> 0 .. MaxLogs]
  PROVE  /\ runner' \in [Runners -> Runs]
         /\ Holding' /\ IdleFree' /\ CountsDeleted'
         /\ \A m \in Runners, k \in Tasks : runner'[m].task = k => runner[m].task = k
  <1>1. runner \in [Runners -> Runs]
    BY DEF CleanupInv, CleanupTypeOK, Runs
  <1>2. runner'[n] = r /\ \A m \in Runners \ {n} : runner'[m] = runner[m]
    BY <1>1
  <1>3. runner' \in [Runners -> Runs]
    BY <1>1
  <1>4. Holding' /\ IdleFree'
    BY <1>2, NotRunningIsRun DEF CleanupInv, Holding, IdleFree
  <1>5. CountsDeleted'
    <2> SUFFICES ASSUME NEW m \in Runners, NEW k \in Tasks, runner'[m].task = k
                 PROVE  runner'[m].total <= reallyDeleted'[k]
      BY DEF CountsDeleted
    <2>1. CASE m = n
      BY <1>2, <2>1, NotRunningIsRun
    <2>2. CASE m # n
      <3>1. runner[m].total <= reallyDeleted[k] /\ runner'[m].total = runner[m].total
        BY <1>2, <2>2 DEF CleanupInv, CountsDeleted
      <3>2. runner[m].total \in Nat /\ reallyDeleted[k] \in Nat /\ reallyDeleted'[k] \in Nat
        BY <1>1 DEF Runs, CleanupInv, CleanupTypeOK
      <3> QED
        BY <3>1, <3>2
    <2> QED
      BY <2>1, <2>2
  <1>6. \A m \in Runners, k \in Tasks : runner'[m].task = k => runner[m].task = k
    BY <1>2, NotRunningIsRun
  <1> QED
    BY <1>3, <1>4, <1>5, <1>6

\* Runners that have no new task keep OneHolder and CanceledEnds, unless a status
\* changes.
LEMMA HoldersShrink ==
  ASSUME CleanupInv, \A m \in Runners, k \in Tasks : runner'[m].task = k => runner[m].task = k,
         UNCHANGED <<taskStatus, canceled, shared>>
  PROVE  OneHolder' /\ CanceledEnds'
  BY DEF CleanupInv, OneHolder, CanceledEnds, CleanupTypeOK

-----------------------------------------------------------------------------
LEMMA ClaimKeeps ==
  ASSUME CleanupInv, NEW n \in Runners, ClaimNextPendingTask(n)
  PROVE  CleanupInv'
  <1>1. PICK k \in Tasks :
          /\ Claimable(k)
          /\ runner' = [runner EXCEPT ![n] = [at |-> "check", task |-> k, total |-> deletedRows[k], expired |-> FALSE]]
          /\ taskStatus' = [taskStatus EXCEPT ![k] = "running"]
          /\ shared' = IF Holders(k) = {} THEN shared ELSE shared \cup {k}
    BY DEF ClaimNextPendingTask
  <1>2. /\ runner[n].at = "idle" /\ runner[n].task \notin Tasks
        /\ UNCHANGED <<deletedRows, reallyDeleted, logs, canceled, late, cleanupFaults>>
    BY NotRunningIsRun DEF ClaimNextPendingTask, CleanupInv, IdleFree
  <1> DEFINE r == [at |-> "check", task |-> k, total |-> deletedRows[k], expired |-> FALSE]
  <1>3. runner \in [Runners -> Runs] /\ r \in Runs
    BY DEF CleanupInv, CleanupTypeOK, Runs
  <1>4. runner'[n] = r /\ \A m \in Runners \ {n} : runner'[m] = runner[m]
    BY <1>1, <1>3
  <1>5. CleanupTypeOK'
    <2>1. runner' \in [Runners -> Runs]
      BY <1>1, <1>3
    <2>2. taskStatus' \in [Tasks -> Statuses]
      BY <1>1 DEF CleanupInv, CleanupTypeOK, Statuses
    <2>3. shared' \subseteq Tasks
      BY <1>1 DEF CleanupInv, CleanupTypeOK
    <2> QED
      BY <1>2, <2>1, <2>2, <2>3 DEF CleanupInv, CleanupTypeOK, Runs
  <1>6. Holding' /\ IdleFree'
    BY <1>4 DEF CleanupInv, Holding, IdleFree
  <1>7. LogsFit' /\ RecordsNoMoreThanDeleted'
    BY <1>2 DEF CleanupInv, LogsFit, RecordsNoMoreThanDeleted
  <1>8. CountsDeleted'
    BY <1>2, <1>4 DEF CleanupInv, CountsDeleted, RecordsNoMoreThanDeleted
  <1>9. OneHolder'
    <2>1. CASE Holders(k) = {}
      BY <1>1, <1>4, <2>1 DEF CleanupInv, OneHolder, Holders
    <2>2. CASE Holders(k) # {}
      BY <1>1, <1>4, <2>2 DEF CleanupInv, OneHolder
    <2> QED
      BY <2>1, <2>2
  <1>10. k \notin canceled
    BY <1>1 DEF CleanupInv, CanceledEnds, Claimable
  <1>11. CanceledEnds'
    BY <1>1, <1>2, <1>4, <1>10 DEF CleanupInv, CanceledEnds, CleanupTypeOK
  <1>12. CancelStopsDeleting'
    BY <1>1, <1>2 DEF CleanupInv, CancelStopsDeleting
  <1> QED
    BY <1>5, <1>6, <1>7, <1>8, <1>9, <1>11, <1>12 DEF CleanupInv

\* The steps that leave the rows alone: a check, a timeout, a crash.
LEMMA AsideKeeps ==
  ASSUME CleanupInv, NEW n \in Runners, NEW r \in Runs,
         runner' = [runner EXCEPT ![n] = r],
         r = NotRunning \/ (runner[n].at # "idle" /\ r.at # "idle"
                              /\ r.task = runner[n].task /\ r.total = runner[n].total),
         CleanupFault \/ UNCHANGED cleanupFaults,
         late' \subseteq Tasks, late' \subseteq shared,
         UNCHANGED <<taskStatus, deletedRows, reallyDeleted, logs, canceled, shared>>
  PROVE  CleanupInv'
  <1>1. runner[n].at # "idle" => runner[n].total <= reallyDeleted[runner[n].task]
    BY DEF CleanupInv, Holding, CountsDeleted
  <1>2. /\ \A k \in Tasks : reallyDeleted[k] <= reallyDeleted'[k]
        /\ reallyDeleted' \in [Tasks -> 0 .. MaxLogs]
    BY DEF CleanupInv, CleanupTypeOK
  <1>3. /\ runner' \in [Runners -> Runs]
        /\ Holding' /\ IdleFree' /\ CountsDeleted'
        /\ \A m \in Runners, k \in Tasks : runner'[m].task = k => runner[m].task = k
    BY <1>1, <1>2, RunnerSteps
  <1>4. OneHolder' /\ CanceledEnds'
    BY <1>3, HoldersShrink
  <1>5. CleanupTypeOK'
    BY <1>3, CleanupFaultCounted DEF CleanupInv, CleanupTypeOK, Runs
  <1>6. LogsFit' /\ RecordsNoMoreThanDeleted' /\ CancelStopsDeleting'
    BY DEF CleanupInv, LogsFit, RecordsNoMoreThanDeleted, CancelStopsDeleting
  <1> QED
    BY <1>3, <1>4, <1>5, <1>6 DEF CleanupInv

\* A batch begins only for a task that is not cancelled, or that two runners have
\* held.
LEMMA CheckKeeps ==
  ASSUME CleanupInv, NEW n \in Runners, CheckCanceled(n)
  PROVE  CleanupInv'
  <1> DEFINE k == runner[n].task
  <1>1. /\ runner[n].at = "check" /\ runner[n] \in Runs /\ k \in Tasks
        /\ UNCHANGED <<taskStatus, deletedRows, reallyDeleted, logs, canceled, shared>>
    BY DEF CheckCanceled, CleanupInv, CleanupTypeOK, Runs, Holding
  <1>2. k \in canceled /\ taskStatus[k] # "canceled" => k \in shared
    BY <1>1 DEF CleanupInv, CanceledEnds
  <1>3. late' \subseteq Tasks /\ late' \subseteq shared
    BY <1>1, <1>2 DEF CheckCanceled, MayGoOn, CleanupInv, CleanupTypeOK, CancelStopsDeleting
  <1>4. PICK r \in Runs :
          /\ runner' = [runner EXCEPT ![n] = r]
          /\ r = NotRunning \/ (r.at # "idle" /\ r.task = runner[n].task /\ r.total = runner[n].total)
    <2>1. /\ [runner[n] EXCEPT !.at = "batch"] \in Runs
          /\ [runner[n] EXCEPT !.at = "batch"].at = "batch"
          /\ [runner[n] EXCEPT !.at = "batch"].task = runner[n].task
          /\ [runner[n] EXCEPT !.at = "batch"].total = runner[n].total
          /\ [runner[n] EXCEPT !.at = "fail"] \in Runs
          /\ [runner[n] EXCEPT !.at = "fail"].at = "fail"
          /\ [runner[n] EXCEPT !.at = "fail"].task = runner[n].task
          /\ [runner[n] EXCEPT !.at = "fail"].total = runner[n].total
      BY <1>1 DEF Runs
    <2>2. \/ runner' = [runner EXCEPT ![n] = NotRunning]
          \/ runner' = [runner EXCEPT ![n] = [runner[n] EXCEPT !.at = "batch"]]
          \/ runner' = [runner EXCEPT ![n] = [runner[n] EXCEPT !.at = "fail"]]
      BY DEF CheckCanceled, Moves, Leaves
    <2> QED
      BY <2>1, <2>2, NotRunningIsRun
  <1>5. CleanupFault \/ UNCHANGED cleanupFaults
    BY DEF CheckCanceled
  <1> QED
    BY <1>1, <1>3, <1>4, <1>5, AsideKeeps

LEMMA StopKeeps ==
  ASSUME CleanupInv, NEW n \in Runners, TimesOut(n) \/ RunnerCrashes(n)
  PROVE  CleanupInv'
  <1>1. /\ runner[n].at # "idle" /\ runner[n] \in Runs
        /\ CleanupFault
        /\ UNCHANGED <<taskStatus, deletedRows, reallyDeleted, logs, canceled, late, shared>>
    BY DEF TimesOut, RunnerCrashes, CleanupInv, CleanupTypeOK, Runs
  <1>2. late \subseteq Tasks /\ late \subseteq shared
    BY DEF CleanupInv, CleanupTypeOK, CancelStopsDeleting
  <1>3. PICK r \in Runs :
          /\ runner' = [runner EXCEPT ![n] = r]
          /\ r = NotRunning \/ (r.at # "idle" /\ r.task = runner[n].task /\ r.total = runner[n].total)
    <2>1. /\ [runner[n] EXCEPT !.expired = TRUE] \in Runs
          /\ [runner[n] EXCEPT !.expired = TRUE].at = runner[n].at
          /\ [runner[n] EXCEPT !.expired = TRUE].task = runner[n].task
          /\ [runner[n] EXCEPT !.expired = TRUE].total = runner[n].total
      BY <1>1 DEF Runs
    <2>2. \/ runner' = [runner EXCEPT ![n] = NotRunning]
          \/ runner' = [runner EXCEPT ![n] = [runner[n] EXCEPT !.expired = TRUE]]
      BY DEF TimesOut, RunnerCrashes, Leaves
    <2> QED
      BY <1>1, <2>1, <2>2, NotRunningIsRun
  <1> QED
    BY <1>1, <1>2, <1>3, AsideKeeps

\* A row goes: the task has deleted one more.
LEMMA RowsGoFacts ==
  ASSUME CleanupInv, NEW k \in Tasks, logs[k] > 0, RowsGo(k)
  PROVE  /\ logs' \in [Tasks -> 0 .. MaxLogs] /\ reallyDeleted' \in [Tasks -> 0 .. MaxLogs]
         /\ LogsFit'
         /\ reallyDeleted'[k] = reallyDeleted[k] + 1
         /\ \A j \in Tasks : reallyDeleted[j] <= reallyDeleted'[j]
  <1>1. /\ logs \in [Tasks -> 0 .. MaxLogs] /\ reallyDeleted \in [Tasks -> 0 .. MaxLogs]
        /\ \A j \in Tasks : logs[j] \in Nat /\ reallyDeleted[j] \in Nat
        /\ \A j \in Tasks : logs[j] + reallyDeleted[j] <= MaxLogs
        /\ MaxLogs \in Nat
    BY CleanupAssumption DEF CleanupInv, CleanupTypeOK, LogsFit
  <1>2. /\ logs'[k] = logs[k] - 1 /\ reallyDeleted'[k] = reallyDeleted[k] + 1
        /\ \A j \in Tasks \ {k} : logs'[j] = logs[j] /\ reallyDeleted'[j] = reallyDeleted[j]
    BY <1>1 DEF RowsGo
  <1>3. \A j \in Tasks : /\ logs'[j] \in 0 .. MaxLogs /\ reallyDeleted'[j] \in 0 .. MaxLogs
                         /\ logs'[j] + reallyDeleted'[j] <= MaxLogs
                         /\ reallyDeleted[j] <= reallyDeleted'[j]
    <2> TAKE j \in Tasks
    <2>1. CASE j = k
      BY <1>1, <1>2, <2>1
    <2>2. CASE j # k
      BY <1>1, <1>2, <2>2
    <2> QED
      BY <2>1, <2>2
  <1>4. logs' \in [Tasks -> 0 .. MaxLogs] /\ reallyDeleted' \in [Tasks -> 0 .. MaxLogs]
    BY <1>1, <1>3 DEF RowsGo
  <1> QED
    BY <1>2, <1>3, <1>4 DEF LogsFit

LEMMA BatchKeeps ==
  ASSUME CleanupInv, NEW n \in Runners, DeleteUsageLogsBatch(n) \/ BatchFails(n)
  PROVE  CleanupInv'
  <1> DEFINE k == runner[n].task
  <1>1. /\ runner[n].at = "batch" /\ runner[n] \in Runs /\ k \in Tasks
        /\ runner[n].total <= reallyDeleted[k]
        /\ UNCHANGED <<taskStatus, deletedRows, canceled, late, shared>>
        /\ CleanupFault \/ UNCHANGED cleanupFaults
    BY DEF DeleteUsageLogsBatch, BatchFails, CleanupInv, CleanupTypeOK, Runs, Holding, CountsDeleted
  <1>2. \/ UNCHANGED <<logs, reallyDeleted>>
        \/ logs[k] > 0 /\ RowsGo(k)
    BY DEF DeleteUsageLogsBatch, BatchFails
  <1>3. /\ logs' \in [Tasks -> 0 .. MaxLogs] /\ reallyDeleted' \in [Tasks -> 0 .. MaxLogs]
        /\ LogsFit'
        /\ \A j \in Tasks : reallyDeleted[j] <= reallyDeleted'[j]
        /\ \A j \in Tasks : deletedRows[j] \in Nat /\ reallyDeleted[j] \in Nat /\ reallyDeleted'[j] \in Nat
    <2>1. CASE UNCHANGED <<logs, reallyDeleted>>
      BY <2>1 DEF CleanupInv, CleanupTypeOK, LogsFit
    <2>2. CASE logs[k] > 0 /\ RowsGo(k)
      BY <1>1, <2>2, RowsGoFacts DEF CleanupInv, CleanupTypeOK
    <2> QED
      BY <1>2, <2>1, <2>2
  <1>4. PICK r \in Runs :
          /\ runner' = [runner EXCEPT ![n] = r]
          /\ r = NotRunning \/ (r.at # "idle" /\ r.task = runner[n].task /\ r.total <= reallyDeleted'[k])
    <2>1. CASE logs[k] > 0 /\ RowsGo(k)
               /\ runner' = [runner EXCEPT ![n].at = "progress", ![n].total = @ + 1]
      <3> DEFINE r == [runner[n] EXCEPT !.at = "progress", !.total = @ + 1]
      <3>1. reallyDeleted'[k] = reallyDeleted[k] + 1 /\ reallyDeleted'[k] \in 0 .. MaxLogs
        BY <1>1, <1>3, <2>1, RowsGoFacts
      <3>2. runner[n].total + 1 <= reallyDeleted'[k] /\ runner[n].total + 1 \in 0 .. MaxLogs
        BY <1>1, <1>3, <3>1, CleanupAssumption DEF Runs
      <3>3. /\ r \in Runs /\ r.at = "progress" /\ r.task = k /\ r.total = runner[n].total + 1
        BY <1>1, <3>2 DEF Runs
      <3>4. runner' = [runner EXCEPT ![n] = r]
        BY <2>1 DEF CleanupInv, CleanupTypeOK
      <3> HIDE DEF r
      <3> QED
        BY <3>2, <3>3, <3>4
    <2>2. ASSUME NEW to \in {"finish", "fail"}, runner' = [runner EXCEPT ![n].at = to]
          PROVE  \E r \in Runs :
                   /\ runner' = [runner EXCEPT ![n] = r]
                   /\ r = NotRunning \/ (r.at # "idle" /\ r.task = runner[n].task /\ r.total <= reallyDeleted'[k])
      <3> DEFINE r == [runner[n] EXCEPT !.at = to]
      <3>1. r \in Runs /\ r.at = to /\ r.task = k /\ r.total = runner[n].total
        BY <1>1 DEF Runs
      <3>2. r.total <= reallyDeleted'[k]
        BY <1>1, <1>3, <3>1 DEF Runs
      <3>3. runner' = [runner EXCEPT ![n] = r]
        BY <2>2
      <3> HIDE DEF r
      <3> QED
        BY <3>1, <3>2, <3>3
    <2>3. CASE runner' = [runner EXCEPT ![n] = NotRunning]
      BY <2>3, NotRunningIsRun
    <2> QED
      BY <2>1, <2>2, <2>3 DEF DeleteUsageLogsBatch, BatchFails, Moves, Leaves
  <1>5. /\ runner' \in [Runners -> Runs]
        /\ Holding' /\ IdleFree' /\ CountsDeleted'
        /\ \A m \in Runners, j \in Tasks : runner'[m].task = j => runner[m].task = j
    BY <1>1, <1>3, <1>4, RunnerSteps
  <1>6. OneHolder' /\ CanceledEnds'
    BY <1>1, <1>5, HoldersShrink
  <1>7. CleanupTypeOK'
    BY <1>1, <1>3, <1>5, CleanupFaultCounted DEF CleanupInv, CleanupTypeOK, Runs
  <1>8. RecordsNoMoreThanDeleted'
    BY <1>1, <1>3 DEF CleanupInv, RecordsNoMoreThanDeleted
  <1>9. CancelStopsDeleting'
    BY <1>1 DEF CleanupInv, CancelStopsDeleting
  <1> QED
    BY <1>3, <1>5, <1>6, <1>7, <1>8, <1>9 DEF CleanupInv

\* What a runner writes into the column is no more than its task has deleted.
LEMMA ColumnWritten ==
  ASSUME CleanupInv, NEW n \in Runners, runner[n].task \in Tasks,
         \/ deletedRows' = [deletedRows EXCEPT ![runner[n].task] = runner[n].total]
         \/ UNCHANGED deletedRows,
         UNCHANGED reallyDeleted
  PROVE  deletedRows' \in [Tasks -> 0 .. MaxLogs] /\ RecordsNoMoreThanDeleted'
  <1>1. runner[n].total \in 0 .. MaxLogs /\ runner[n].total <= reallyDeleted[runner[n].task]
    BY DEF CleanupInv, CleanupTypeOK, CountsDeleted
  <1> QED
    BY <1>1 DEF CleanupInv, CleanupTypeOK, RecordsNoMoreThanDeleted

LEMMA ProgressKeeps ==
  ASSUME CleanupInv, NEW n \in Runners, UpdateTaskProgress(n)
  PROVE  CleanupInv'
  <1> DEFINE k == runner[n].task
             r == [runner[n] EXCEPT !.at = "check"]
  <1>1. /\ runner[n].at = "progress" /\ runner[n] \in Runs /\ k \in Tasks
        /\ runner[n].total <= reallyDeleted[k]
        /\ runner' = [runner EXCEPT ![n] = r]
        /\ UNCHANGED <<reallyDeleted, logs, canceled, late, shared>>
        /\ CleanupFault \/ UNCHANGED cleanupFaults
    BY DEF UpdateTaskProgress, Moves, CleanupInv, CleanupTypeOK, Runs, Holding, CountsDeleted
  <1>2. UNCHANGED taskStatus
    BY DEF UpdateTaskProgress, StatusWithProgress, CleanupInv, CleanupTypeOK
  <1>3. deletedRows' \in [Tasks -> 0 .. MaxLogs] /\ RecordsNoMoreThanDeleted'
    <2>1. \/ deletedRows' = [deletedRows EXCEPT ![k] = runner[n].total]
          \/ UNCHANGED deletedRows
      BY DEF UpdateTaskProgress, Progress
    <2> QED
      BY <1>1, <2>1, ColumnWritten
  <1>4. r \in Runs /\ r.at = "check" /\ r.task = k /\ r.total = runner[n].total
    BY <1>1 DEF Runs
  <1>5. /\ \A j \in Tasks : reallyDeleted[j] <= reallyDeleted'[j]
        /\ reallyDeleted' \in [Tasks -> 0 .. MaxLogs]
    BY <1>1 DEF CleanupInv, CleanupTypeOK
  <1> HIDE DEF r
  <1>6. /\ runner' \in [Runners -> Runs]
        /\ Holding' /\ IdleFree' /\ CountsDeleted'
        /\ \A m \in Runners, j \in Tasks : runner'[m].task = j => runner[m].task = j
    BY <1>1, <1>4, <1>5, RunnerSteps
  <1>7. OneHolder' /\ CanceledEnds'
    BY <1>1, <1>2, <1>6, HoldersShrink
  <1>8. CleanupTypeOK'
    BY <1>1, <1>2, <1>3, <1>6, CleanupFaultCounted DEF CleanupInv, CleanupTypeOK, Runs
  <1>9. LogsFit' /\ CancelStopsDeleting'
    BY <1>1 DEF CleanupInv, LogsFit, CancelStopsDeleting
  <1> QED
    BY <1>3, <1>6, <1>7, <1>8, <1>9 DEF CleanupInv

\* Who marks a task leaves it, and was its only runner unless it is shared.
LEMMA MarkKeeps ==
  ASSUME CleanupInv, NEW n \in Runners,
         MarkTask(n, "finish", "succeeded") \/ MarkTask(n, "fail", "failed")
  PROVE  CleanupInv'
  <1> DEFINE k == runner[n].task
  <1>1. /\ runner[n].at \in {"finish", "fail"} /\ runner[n] \in Runs /\ k \in Tasks
        /\ runner' = [runner EXCEPT ![n] = NotRunning]
        /\ UNCHANGED <<reallyDeleted, logs, canceled, late, shared>>
        /\ CleanupFault \/ UNCHANGED cleanupFaults
    BY DEF MarkTask, Leaves, CleanupInv, CleanupTypeOK, Runs, Holding
  <1>2. PICK result \in {"succeeded", "failed"} :
          taskStatus' = [taskStatus EXCEPT ![k] = result] \/ UNCHANGED taskStatus
    BY DEF MarkTask
  <1>3. deletedRows' \in [Tasks -> 0 .. MaxLogs] /\ RecordsNoMoreThanDeleted'
    <2>1. \/ deletedRows' = [deletedRows EXCEPT ![k] = runner[n].total]
          \/ UNCHANGED deletedRows
      BY DEF MarkTask
    <2> QED
      BY <1>1, <2>1, ColumnWritten
  <1>4. /\ \A j \in Tasks : reallyDeleted[j] <= reallyDeleted'[j]
        /\ reallyDeleted' \in [Tasks -> 0 .. MaxLogs]
    BY <1>1 DEF CleanupInv, CleanupTypeOK
  <1>5. /\ runner' \in [Runners -> Runs]
        /\ Holding' /\ IdleFree' /\ CountsDeleted'
        /\ \A m \in Runners, j \in Tasks : runner'[m].task = j => runner[m].task = j
    BY <1>1, <1>4, NotRunningIsRun, RunnerSteps
  <1>6. OneHolder'
    BY <1>1, <1>5 DEF CleanupInv, OneHolder
  <1>7. CanceledEnds'
    <2> SUFFICES ASSUME NEW j \in canceled
                 PROVE  /\ taskStatus'[j] \in {"canceled", "succeeded", "failed"}
                        /\ taskStatus'[j] # "canceled" /\ j \notin shared =>
                             \A m \in Runners : runner'[m].task # j
      BY <1>1 DEF CanceledEnds
    <2>1. j \in Tasks /\ taskStatus \in [Tasks -> Statuses]
      BY DEF CleanupInv, CleanupTypeOK
    <2>2. /\ taskStatus[j] \in {"canceled", "succeeded", "failed"}
          /\ taskStatus[j] # "canceled" /\ j \notin shared => \A m \in Runners : runner[m].task # j
      BY DEF CleanupInv, CanceledEnds
    <2>3. CASE j = k
      <3>1. j \notin shared => \A m \in Runners : runner[m].task = j => m = n
        BY <2>1, <2>3 DEF CleanupInv, OneHolder
      <3>2. runner'[n].task # j
        BY <1>1, <2>1, NotRunningIsRun DEF CleanupInv, CleanupTypeOK
      <3>3. j \notin shared => \A m \in Runners : runner'[m].task # j
        BY <1>5, <2>1, <3>1, <3>2
      <3> QED
        BY <1>2, <2>1, <2>2, <2>3, <3>3
    <2>4. CASE j # k
      BY <1>2, <1>5, <2>1, <2>2, <2>4
    <2> QED
      BY <2>3, <2>4
  <1>8. CleanupTypeOK'
    <2>1. taskStatus' \in [Tasks -> Statuses]
      BY <1>2 DEF CleanupInv, CleanupTypeOK, Statuses
    <2> QED
      BY <1>1, <1>3, <1>5, <2>1, CleanupFaultCounted DEF CleanupInv, CleanupTypeOK, Runs
  <1>9. LogsFit' /\ CancelStopsDeleting'
    BY <1>1 DEF CleanupInv, LogsFit, CancelStopsDeleting
  <1> QED
    BY <1>3, <1>5, <1>6, <1>7, <1>8, <1>9 DEF CleanupInv

LEMMA TaskKeeps ==
  ASSUME CleanupInv, NEW k \in Tasks, CreateTask(k) \/ LogsArrive(k) \/ CancelTask(k)
  PROVE  CleanupInv'
  <1> USE DEF CleanupInv
  <1>1. CASE CreateTask(k)
    <2>1. taskStatus' \in [Tasks -> Statuses] /\ k \notin canceled
      BY <1>1 DEF CreateTask, CleanupTypeOK, Statuses, CanceledEnds
    <2> QED
      BY <1>1, <2>1 DEF CreateTask, CleanupTypeOK, Holding, IdleFree, LogsFit, CountsDeleted,
                        RecordsNoMoreThanDeleted, OneHolder, CanceledEnds, CancelStopsDeleting
  <1>2. CASE LogsArrive(k)
    <2>1. logs' \in [Tasks -> 0 .. MaxLogs]
      BY <1>2, CleanupAssumption DEF LogsArrive, CleanupTypeOK
    <2>2. LogsFit'
      BY <1>2, CleanupAssumption DEF LogsArrive, CleanupTypeOK, LogsFit
    <2> QED
      BY <1>2, <2>1, <2>2 DEF LogsArrive, CleanupTypeOK, Holding, IdleFree, CountsDeleted,
                              RecordsNoMoreThanDeleted, OneHolder, CanceledEnds, CancelStopsDeleting
  <1>3. CASE CancelTask(k)
    <2>1. taskStatus' \in [Tasks -> Statuses] /\ canceled' \subseteq Tasks
      BY <1>3 DEF CancelTask, CleanupTypeOK, Statuses
    <2>2. CanceledEnds'
      BY <1>3 DEF CancelTask, CleanupTypeOK, CanceledEnds
    <2> QED
      BY <1>3, <2>1, <2>2 DEF CancelTask, CleanupTypeOK, Holding, IdleFree, LogsFit, CountsDeleted,
                              RecordsNoMoreThanDeleted, OneHolder, CancelStopsDeleting
  <1> QED
    BY <1>1, <1>2, <1>3

\* CleanupInv is inductive.
THEOREM CleanupInvariant == CleanupSpec => []CleanupInv
  <1>1. CleanupInit => CleanupInv
    <2> SUFFICES ASSUME CleanupInit
                 PROVE  CleanupInv
      OBVIOUS
    <2>1. CleanupTypeOK
      BY NotRunningIsRun, CleanupAssumption DEF CleanupInit, CleanupTypeOK, Statuses, Runs
    <2>2. LogsFit /\ RecordsNoMoreThanDeleted
      BY CleanupAssumption DEF CleanupInit, LogsFit, RecordsNoMoreThanDeleted
    <2> QED
      BY <2>1, <2>2, NotRunningIsRun DEF CleanupInit, CleanupInv, Holding, IdleFree, CountsDeleted,
                                         OneHolder, CanceledEnds, CancelStopsDeleting
  <1>2. CleanupInv /\ [CleanupNext]_cleanupVars => CleanupInv'
    <2> SUFFICES ASSUME CleanupInv, [CleanupNext]_cleanupVars
                 PROVE  CleanupInv'
      OBVIOUS
    <2>1. CASE UNCHANGED cleanupVars
      BY <2>1 DEF cleanupVars, CleanupInv, CleanupTypeOK, Holding, IdleFree, LogsFit, CountsDeleted,
                  RecordsNoMoreThanDeleted, OneHolder, CanceledEnds, CancelStopsDeleting
    <2>2. ASSUME NEW n \in Runners, ExecuteTask(n)
          PROVE  CleanupInv'
      BY <2>2, CheckKeeps, BatchKeeps, ProgressKeeps, MarkKeeps DEF ExecuteTask
    <2> QED
      BY <2>1, <2>2, TaskKeeps, ClaimKeeps, StopKeeps DEF CleanupNext
  <1> QED
    BY <1>1, <1>2, PTL DEF CleanupSpec

\* Every variable of the cleanup has its type, and no counter passes its bound.
THEOREM CleanupTypeCorrect == CleanupSpec => []CleanupTypeOK
  <1>1. CleanupInv => CleanupTypeOK
    BY DEF CleanupInv
  <1> QED
    BY <1>1, CleanupInvariant, PTL

\* For any tasks, runners, rows, timeouts and crashes: once an administrator was
\* told that a task is cancelled no batch of it begins, unless two runners have
\* held it at once.
THEOREM CancelStops == CleanupSpec => []CancelStopsDeleting
  <1>1. CleanupInv => CancelStopsDeleting
    BY DEF CleanupInv
  <1> QED
    BY <1>1, CleanupInvariant, PTL

\* For any tasks, runners, rows, timeouts and crashes: the column never says more
\* than was deleted.
THEOREM ColumnIsNoMore == CleanupSpec => []RecordsNoMoreThanDeleted
  <1>1. CleanupInv => RecordsNoMoreThanDeleted
    BY DEF CleanupInv
  <1> QED
    BY <1>1, CleanupInvariant, PTL

-----------------------------------------------------------------------------
(* AuthCache *)

\* What a request has read and not yet written is wrong only until Redis has
\* been emptied: from then on it counts as read too early.
RequestsWarned ==
  \A q \in Requests : Wrong(request[q].entry) => changer.at \in {"delete L1", "delete L2"}

AuthInv == AuthTypeOK /\ StaleOnlyByOverlap /\ RequestsWarned

Slots == Entries \cup {NoEntry}

\* Marking an entry leaves it an entry, and it is not wrong any more.
LEMMA EarlyFacts ==
  ASSUME NEW e \in Slots, NEW k \in Keys
  PROVE  /\ Early(e, k) \in Slots
         /\ Early(e, k) # NoEntry /\ ~Early(e, k).early => Early(e, k).key = k
  <1>1. CASE e = NoEntry \/ e.key = k
    BY <1>1 DEF Early, Slots
  <1>2. CASE ~(e = NoEntry \/ e.key = k)
    <2>1. Early(e, k) = [e EXCEPT !.early = TRUE] /\ e \in Entries
      BY <1>2 DEF Early, Slots
    <2>2. Early(e, k) \in Entries /\ Early(e, k).early = TRUE
      BY <2>1 DEF Entries
    <2> QED
      BY <2>2 DEF Slots
  <1> QED
    BY <1>1, <1>2

\* Where requests are.
Asks == [at : {"idle", "load", "fill", "share", "write"}, entry : Slots]

LEMMA EarlyRequestsFacts ==
  ASSUME AuthTypeOK, NEW k \in Keys, EarlyRequests(k)
  PROVE  /\ request' \in [Requests -> Asks]
         /\ \A q \in Requests : LET e == request'[q].entry IN e # NoEntry /\ ~e.early => e.key = k
  <1>1. \A q \in Requests : request[q] \in Asks
    BY DEF AuthTypeOK, Asks, Slots
  <1>2. \A q \in Requests :
          /\ request'[q] = [request[q] EXCEPT !.entry = Early(request[q].entry, k)]
          /\ request'[q].entry = Early(request[q].entry, k)
          /\ request'[q] \in Asks
    <2> TAKE q \in Requests
    <2>1. request[q] \in Asks /\ Early(request[q].entry, k) \in Slots
      BY <1>1, EarlyFacts DEF Asks
    <2>2. request'[q] = [request[q] EXCEPT !.entry = Early(request[q].entry, k)]
      BY DEF EarlyRequests
    <2> QED
      BY <2>1, <2>2 DEF Asks
  <1>3. request' \in [Requests -> Asks]
    BY <1>2 DEF EarlyRequests
  <1>4. \A q \in Requests : request[q].entry \in Slots
    BY <1>1 DEF Asks
  <1> QED
    BY <1>2, <1>3, <1>4, EarlyFacts

LEMMA AuthFaultCounted ==
  ASSUME AuthTypeOK, AuthFault \/ UNCHANGED authFaults
  PROVE  authFaults' \in 0 .. MaxAuthFaults
  BY AuthAssumption DEF AuthTypeOK, AuthFault

-----------------------------------------------------------------------------
\* A change begins: whatever is cached may be wrong.
LEMMA ChangeBegins ==
  ASSUME AuthInv, ChangeKey \/ BeginDelete
  PROVE  AuthInv'
  <1>1. /\ \E d \in BOOLEAN : changer' = [at |-> "delete L1", deletes |-> d]
        /\ UNCHANGED <<L1, L2, pending, request, authFaults>>
    <2>1. CASE ChangeKey
      BY <2>1 DEF ChangeKey
    <2>2. CASE BeginDelete
      BY <2>2 DEF BeginDelete
    <2> QED
      BY <2>1, <2>2
  <1>2. changer'.at = "delete L1" /\ changer' \in [at : ChangerSteps, deletes : BOOLEAN]
    <2>1. PICK d \in BOOLEAN : changer' = [at |-> "delete L1", deletes |-> d]
      BY <1>1
    <2> QED
      BY <2>1 DEF ChangerSteps
  <1>3. key' \in Keys
    BY DEF ChangeKey, BeginDelete, AuthInv, AuthTypeOK, Keys
  <1>4. keyChanges' \in 0 .. MaxKeyChanges
    <2>1. keyChanges < MaxKeyChanges /\ keyChanges' = keyChanges + 1
      BY DEF ChangeKey, BeginDelete
    <2> QED
      BY <2>1, AuthAssumption DEF AuthInv, AuthTypeOK
  <1>5. AuthTypeOK'
    BY <1>1, <1>2, <1>3, <1>4 DEF AuthInv, AuthTypeOK
  <1> QED
    BY <1>1, <1>2, <1>5 DEF AuthInv, StaleOnlyByOverlap, RequestsWarned

LEMMA DeleteKeyKeeps ==
  ASSUME AuthInv, DeleteKey
  PROVE  AuthInv'
  <1>1. changer.at = "change" /\ changer' = NoChange /\ UNCHANGED <<pending, keyChanges>>
    BY DEF DeleteKey
  <1>2. changer' \in [at : ChangerSteps, deletes : BOOLEAN] /\ "none" \in Keys
    BY <1>1 DEF NoChange, ChangerSteps, Keys
  <1>3. CASE /\ key' = "none"
             /\ L1' = [i \in Instances |-> Early(L1[i], "none")]
             /\ L2' = Early(L2, "none")
             /\ EarlyRequests("none")
             /\ UNCHANGED authFaults
    <2>1. /\ request' \in [Requests -> Asks]
          /\ \A q \in Requests : LET e == request'[q].entry IN e # NoEntry /\ ~e.early => e.key = "none"
      BY <1>2, <1>3, EarlyRequestsFacts DEF AuthInv
    <2>2. /\ L2' \in Slots /\ (L2' # NoEntry /\ ~L2'.early => L2'.key = "none")
          /\ \A i \in Instances : /\ L1'[i] \in Slots
                                  /\ L1'[i] # NoEntry /\ ~L1'[i].early => L1'[i].key = "none"
      BY <1>2, <1>3, EarlyFacts DEF AuthInv, AuthTypeOK, Slots
    <2>3. AuthTypeOK'
      BY <1>1, <1>2, <1>3, <2>1, <2>2 DEF AuthInv, AuthTypeOK, Slots, Asks
    <2> QED
      BY <1>3, <2>1, <2>2, <2>3 DEF AuthInv, StaleOnlyByOverlap, RequestsWarned, Wrong
  <1>4. CASE AuthFault /\ UNCHANGED <<key, L1, L2, request>>
    <2>1. AuthTypeOK'
      BY <1>1, <1>2, <1>4, AuthFaultCounted DEF AuthInv, AuthTypeOK
    <2> QED
      BY <1>1, <1>4, <2>1 DEF AuthInv, StaleOnlyByOverlap, RequestsWarned, Wrong
  <1> QED
    BY <1>3, <1>4 DEF DeleteKey

LEMMA DeleteL1Keeps ==
  ASSUME AuthInv, DeleteL1
  PROVE  AuthInv'
  <1>1. /\ changer.at = "delete L1" /\ changer'.at = "delete L2"
        /\ changer' \in [at : ChangerSteps, deletes : BOOLEAN]
        /\ L1' = [L1 EXCEPT ![Home] = NoEntry]
        /\ UNCHANGED <<key, L2, pending, request, keyChanges, authFaults>>
    BY DEF DeleteL1, Then, AuthInv, AuthTypeOK, ChangerSteps
  <1>2. AuthTypeOK'
    BY <1>1 DEF AuthInv, AuthTypeOK
  <1> QED
    BY <1>1, <1>2 DEF AuthInv, StaleOnlyByOverlap, RequestsWarned

\* Redis is emptied, or what it keeps is marked, and so is what requests have.
LEMMA DeleteL2Keeps ==
  ASSUME AuthInv, DeleteL2
  PROVE  AuthInv'
  <1>1. /\ changer'.at = "publish"
        /\ changer' \in [at : ChangerSteps, deletes : BOOLEAN]
        /\ EarlyRequests(key)
        /\ L2' \in {NoEntry, Early(L2, key)}
        /\ AuthFault \/ UNCHANGED authFaults
        /\ UNCHANGED <<key, L1, pending, keyChanges>>
    BY DEF DeleteL2, AfterL2, Then, AuthInv, AuthTypeOK, ChangerSteps
  <1>2. /\ request' \in [Requests -> Asks]
        /\ \A q \in Requests : LET e == request'[q].entry IN e # NoEntry /\ ~e.early => e.key = key
    BY <1>1, EarlyRequestsFacts DEF AuthInv, AuthTypeOK
  <1>3. L2' \in Slots /\ (L2' # NoEntry /\ ~L2'.early => L2'.key = key)
    BY <1>1, EarlyFacts DEF AuthInv, AuthTypeOK, Slots
  <1>4. AuthTypeOK'
    BY <1>1, <1>2, <1>3, AuthFaultCounted DEF AuthInv, AuthTypeOK, Slots, Asks
  <1> QED
    BY <1>1, <1>2, <1>3, <1>4 DEF AuthInv, StaleOnlyByOverlap, RequestsWarned, Wrong

LEMMA PublishKeeps ==
  ASSUME AuthInv, PublishInvalidation
  PROVE  AuthInv'
  <1>1. /\ changer.at = "publish"
        /\ changer' \in [at : ChangerSteps, deletes : BOOLEAN]
        /\ pending' = Instances
        /\ UNCHANGED <<key, L1, L2, request, keyChanges, authFaults>>
    BY DEF PublishInvalidation, NoChange, AuthInv, AuthTypeOK, ChangerSteps
  <1>2. AuthTypeOK'
    BY <1>1 DEF AuthInv, AuthTypeOK
  <1> QED
    BY <1>1, <1>2 DEF AuthInv, StaleOnlyByOverlap, RequestsWarned, Wrong

\* An instance hears of the change, or its entry is marked.
LEMMA InstanceKeeps ==
  ASSUME AuthInv, NEW i \in Instances, HandleInvalidation(i) \/ L1Expires(i)
  PROVE  AuthInv'
  <1>1. PICK e \in {NoEntry, Early(L1[i], key)} : L1' = [L1 EXCEPT ![i] = e]
    BY DEF HandleInvalidation, L1Expires
  <1>2. /\ pending' \in {pending, pending \ {i}}
        /\ AuthFault \/ UNCHANGED authFaults
        /\ UNCHANGED <<key, L2, changer, request, keyChanges>>
    BY DEF HandleInvalidation, L1Expires
  <1>3. /\ e \in Slots /\ (e # NoEntry /\ ~e.early => e.key = key)
        /\ L1 \in [Instances -> Slots]
    BY <1>1, EarlyFacts DEF AuthInv, AuthTypeOK, Slots
  <1>4. L1' \in [Instances -> Slots] /\ L1'[i] = e /\ \A j \in Instances \ {i} : L1'[j] = L1[j]
    BY <1>1, <1>3
  <1>5. AuthTypeOK'
    BY <1>2, <1>4, AuthFaultCounted DEF AuthInv, AuthTypeOK, Slots
  <1> QED
    BY <1>2, <1>3, <1>4, <1>5 DEF AuthInv, StaleOnlyByOverlap, RequestsWarned, Wrong

\* A request writes only what it has, and has what the database or Redis had.
LEMMA RequestKeeps ==
  ASSUME AuthInv, NEW q \in Requests, GetAuthCacheEntry(q) \/ Serves(q)
  PROVE  AuthInv'
  <1>0. /\ request \in [Requests -> Asks] /\ L1 \in [Instances -> Slots] /\ L2 \in Slots
        /\ key \in Keys /\ ServedBy[q] \in Instances /\ NoEntry \in Slots
        /\ NoRequest \in Asks /\ NoRequest.entry = NoEntry
    BY AuthAssumption DEF AuthInv, AuthTypeOK, Asks, Slots, NoRequest
  <1>1. /\ AuthFault \/ UNCHANGED authFaults
        /\ UNCHANGED <<key, pending, changer, keyChanges>>
    BY DEF GetAuthCacheEntry, Serves, LoadAuthCacheEntry, SetAuthCacheL1, SetAuthCacheL2
  <1>2. ASSUME NEW r \in Asks, request' = [request EXCEPT ![q] = r],
               r.entry = NoEntry \/ r.entry = L2 \/ r.entry = request[q].entry
                 \/ r.entry = [key |-> key, early |-> FALSE],
               L1' = L1 \/ L1' = [L1 EXCEPT ![ServedBy[q]] = request[q].entry],
               L2' = L2 \/ L2' = request[q].entry
        PROVE  AuthInv'
    <2>1. request' \in [Requests -> Asks]
      BY <1>0, <1>2
    <2>2. L1' \in [Instances -> Slots] /\ L2' \in Slots
      BY <1>0, <1>2 DEF Asks
    <2>3. AuthTypeOK'
      BY <1>1, <2>1, <2>2, AuthFaultCounted DEF AuthInv, AuthTypeOK, Asks, Slots
    <2>4. Wrong(request[q].entry) => changer.at \in {"delete L1", "delete L2"}
      BY DEF AuthInv, RequestsWarned
    <2>5. RequestsWarned'
      <3>1. \A p \in Requests \ {q} : request'[p] = request[p]
        BY <1>0, <1>2
      <3>2. request'[q] = r
        BY <1>0, <1>2
      <3>3. ~Wrong([key |-> key, early |-> FALSE]) /\ ~Wrong(NoEntry)
        BY DEF Wrong
      <3>4. Wrong(r.entry) => changer.at \in {"delete L1", "delete L2"}
        BY <1>2, <2>4, <3>3 DEF AuthInv, StaleOnlyByOverlap
      <3> QED
        BY <1>1, <3>1, <3>2, <3>4 DEF AuthInv, RequestsWarned, Wrong
    <2>6. StaleOnlyByOverlap'
      <3>1. \A i \in Instances : L1'[i] = L1[i] \/ L1'[i] = request[q].entry
        BY <1>0, <1>2
      <3> QED
        BY <1>1, <1>2, <2>4, <3>1 DEF AuthInv, StaleOnlyByOverlap, Wrong
    <2> QED
      BY <2>3, <2>5, <2>6 DEF AuthInv
  <1>3. CASE GetAuthCacheEntry(q)
    <2>1. PICK r \in {[at |-> "load", entry |-> NoEntry], [at |-> "fill", entry |-> L2]} :
            request' = [request EXCEPT ![q] = r]
      BY <1>3 DEF GetAuthCacheEntry
    <2>2. r \in Asks /\ r.entry \in {NoEntry, L2}
      BY <1>0, <2>1 DEF Asks
    <2> QED
      BY <1>2, <1>3, <2>1, <2>2 DEF GetAuthCacheEntry
  <1>4. CASE LoadAuthCacheEntry(q)
    <2>1. PICK r \in {[at |-> "share", entry |-> [key |-> key, early |-> FALSE]], NoRequest} :
            request' = [request EXCEPT ![q] = r]
      BY <1>4 DEF LoadAuthCacheEntry
    <2>2. r \in Asks /\ r.entry \in {NoEntry, [key |-> key, early |-> FALSE]}
      <3>1. [key |-> key, early |-> FALSE] \in Slots
        BY <1>0 DEF Slots, Entries
      <3>2. r.entry \in {NoEntry, [key |-> key, early |-> FALSE]}
        BY <1>0, <2>1
      <3>3. \A e \in Slots : [at |-> "share", entry |-> e] \in Asks
        BY DEF Asks
      <3> QED
        BY <1>0, <2>1, <3>1, <3>2, <3>3
    <2> QED
      BY <1>2, <1>4, <2>1, <2>2 DEF LoadAuthCacheEntry
  <1>5. CASE SetAuthCacheL1(q)
    <2>1. PICK r \in {NoRequest, [request[q] EXCEPT !.at = "write"]} :
            request' = [request EXCEPT ![q] = r]
      BY <1>5 DEF SetAuthCacheL1
    <2>2. r \in Asks /\ r.entry \in {NoEntry, request[q].entry}
      BY <1>0, <2>1 DEF Asks
    <2> QED
      BY <1>2, <1>5, <2>1, <2>2 DEF SetAuthCacheL1
  <1>6. CASE SetAuthCacheL2(q)
    BY <1>0, <1>2, <1>6 DEF SetAuthCacheL2
  <1> QED
    BY <1>3, <1>4, <1>5, <1>6 DEF Serves

\* AuthInv is inductive.
THEOREM AuthInvariant == AuthSpec => []AuthInv
  <1>1. AuthInit => AuthInv
    <2> SUFFICES ASSUME AuthInit
                 PROVE  AuthInv
      OBVIOUS
    <2>1. AuthTypeOK
      BY AuthAssumption DEF AuthInit, AuthTypeOK, NoRequest, NoChange, ChangerSteps
    <2> QED
      BY <2>1 DEF AuthInit, AuthInv, StaleOnlyByOverlap, RequestsWarned, Wrong, NoRequest
  <1>2. AuthInv /\ [AuthNext]_authVars => AuthInv'
    <2> SUFFICES ASSUME AuthInv, [AuthNext]_authVars
                 PROVE  AuthInv'
      OBVIOUS
    <2>1. CASE UNCHANGED authVars
      BY <2>1 DEF authVars, AuthInv, AuthTypeOK, StaleOnlyByOverlap, RequestsWarned, Wrong
    <2>2. CASE Changes
      BY <2>2, DeleteL1Keeps, DeleteL2Keeps, PublishKeeps, DeleteKeyKeeps DEF Changes
    <2>3. CASE L2Expires
      BY <2>3 DEF L2Expires, AuthInv, AuthTypeOK, StaleOnlyByOverlap, RequestsWarned, Wrong
    <2> QED
      BY <2>1, <2>2, <2>3, ChangeBegins, InstanceKeeps, RequestKeeps DEF AuthNext
  <1> QED
    BY <1>1, <1>2, PTL DEF AuthSpec

\* Every variable of the entries has its type, and no counter passes its bound.
THEOREM AuthTypeCorrect == AuthSpec => []AuthTypeOK
  <1>1. AuthInv => AuthTypeOK
    BY DEF AuthInv
  <1> QED
    BY <1>1, AuthInvariant, PTL

\* For any instances and requests, fills in any order, failing calls and lost
\* messages: an entry is older than an invalidated change only if it was read too
\* early or a failing call or a lost message has left it.
THEOREM StaleByOverlap == AuthSpec => []StaleOnlyByOverlap
  <1>1. AuthInv => StaleOnlyByOverlap
    BY DEF AuthInv
  <1> QED
    BY <1>1, AuthInvariant, PTL
-----------------------------------------------------------------------------
(* SchedulerSnapshot *)

Disturbed == Len(outbox) + snapshotFaults <= MaxDisturbances

\* A writer handles events that are there.
Places ==
  \A w \in Writers :
    /\ writer[w].pos <= writer[w].upto /\ writer[w].upto <= Len(outbox)
    /\ writer[w].at \in {"event", "account"} => writer[w].pos >= 1

\* A writer knows versions only from drawing one to deleting the old one.
Bare ==
  \A w \in Writers :
    /\ writer[w].at # "publish" => writer[w].version = Absent
    /\ writer[w].at \notin {"publish", "delete"} => writer[w].old = Absent

\* The version that a writer has drawn is nobody else's, and has no snapshot.
Drawn ==
  \A w \in Writers : writer[w].at = "publish" =>
    /\ writer[w].version \in Versions
    /\ writer[w].version # active
    /\ \A x \in Writers : /\ writer[x].old # writer[w].version
                          /\ x # w => writer[x].version # writer[w].version
    /\ snapshot[writer[w].version] = Absent

\* The version that a writer will delete is not active.
Replaced == \A w \in Writers : writer[w].at = "delete" => writer[w].old # active

\* Only versions that somebody names have a snapshot.
NamedOnly == \A v \in Versions : Unknown(v) => snapshot[v] = Absent

\* No more than MaxBusy writers are at work.
Busy == {w \in Writers : writer[w].at # "idle"}
FewBusy == Cardinality(Busy) <= MaxBusy

SnapshotInv ==
  /\ SnapshotTypeOK /\ Disturbed /\ Places
  /\ Bare /\ Drawn /\ Replaced /\ NamedOnly /\ FewBusy
  /\ ActiveIsOneReading

LEMMA RestingIsRecord ==
  /\ Resting \in WriterRecords
  /\ Resting.at = "idle" /\ Resting.old = Absent /\ Resting.version = Absent
  /\ Resting.pos = 0 /\ Resting.upto = 0
  BY SnapshotAssumption DEF Resting, WriterRecords, WriterStates

LEMMA NoticedFacts ==
  ASSUME SnapshotTypeOK, NEW S
  PROVE  Noticed(account, S) \in [Accounts -> {"on", "off", "gone"}]
  BY DEF SnapshotTypeOK, Noticed

LEMMA BusyIsFinite == IsFiniteSet(Busy) /\ Cardinality(Busy) \in Nat
  <1>1. Busy \in SUBSET Writers
    BY DEF Busy
  <1>2. IsFiniteSet(Busy)
    BY <1>1, SnapshotAssumption, FS_Subset
  <1> QED
    BY <1>2, FS_CardinalityType

\* A writer begins only where another one may.
LEMMA BusyStep ==
  ASSUME SnapshotInv, NEW w \in Writers, NEW r \in WriterRecords,
         writer' = [writer EXCEPT ![w] = r],
         writer[w].at # "idle" \/ r.at = "idle" \/ MayBegin
  PROVE  FewBusy'
  <1>1. writer'[w] = r /\ \A x \in Writers \ {w} : writer'[x] = writer[x]
    BY DEF SnapshotInv, SnapshotTypeOK
  <1>2. CASE writer[w].at # "idle" \/ r.at = "idle"
    <2>1. Busy' \in SUBSET Busy
      BY <1>1, <1>2 DEF Busy
    <2>2. Cardinality(Busy') <= Cardinality(Busy) /\ IsFiniteSet(Busy')
      BY <2>1, BusyIsFinite, FS_Subset
    <2>3. Cardinality(Busy') \in Nat
      BY <2>2, FS_CardinalityType
    <2> QED
      BY <2>2, <2>3, BusyIsFinite, SnapshotAssumption DEF SnapshotInv, FewBusy
  <1>3. CASE MayBegin
    <2>1. Busy' \in SUBSET (Busy \cup {w})
      BY <1>1 DEF Busy
    <2>2. /\ IsFiniteSet(Busy \cup {w})
          /\ Cardinality(Busy \cup {w}) <= Cardinality(Busy) + 1
      <3>1. /\ IsFiniteSet(Busy \cup {w})
            /\ Cardinality(Busy \cup {w})
                 = IF w \in Busy THEN Cardinality(Busy) ELSE Cardinality(Busy) + 1
        BY BusyIsFinite, FS_AddElement
      <3> QED
        BY <3>1, BusyIsFinite
    <2>3. Cardinality(Busy) < MaxBusy
      BY <1>3 DEF MayBegin, Busy
    <2>4. Cardinality(Busy') <= Cardinality(Busy \cup {w}) /\ IsFiniteSet(Busy')
      BY <2>1, <2>2, FS_Subset
    <2>5. Cardinality(Busy') \in Nat /\ Cardinality(Busy \cup {w}) \in Nat
      BY <2>2, <2>4, FS_CardinalityType
    <2> QED
      BY <2>2, <2>3, <2>4, <2>5, BusyIsFinite, SnapshotAssumption DEF FewBusy
  <1> QED
    BY <1>2, <1>3

\* Of the versions, fewer than 2 * MaxBusy are known to somebody when a writer
\* draws one: two to each other writer at work, and the active one.
LEMMA SomeUnknown ==
  ASSUME SnapshotInv, NEW w \in Writers, writer[w].at = "incr"
  PROVE  \E v \in Versions : Unknown(v)
  <1> DEFINE B == Busy \ {w}
             f == [x \in B |-> writer[x].old]
             g == [x \in B |-> writer[x].version]
             F == {f[x] : x \in B}
             G == {g[x] : x \in B}
             K == (F \cup G) \cup {active}
  <1>1. w \in Busy
    BY DEF Busy
  <1>2. IsFiniteSet(B) /\ Cardinality(B) = Cardinality(Busy) - 1
    BY <1>1, BusyIsFinite, FS_RemoveElement
  <1>3. f \in Surjection(B, F) /\ g \in Surjection(B, G)
    BY DEF Surjection
  <1>4. IsFiniteSet(F) /\ Cardinality(F) <= Cardinality(B)
    <2> HIDE DEF B, f, F
    <2> QED
      BY <1>2, <1>3, FS_Surjection
  <1>5. IsFiniteSet(G) /\ Cardinality(G) <= Cardinality(B)
    <2> HIDE DEF B, g, G
    <2> QED
      BY <1>2, <1>3, FS_Surjection
  <1>6. /\ Cardinality(F) \in Nat /\ Cardinality(G) \in Nat /\ Cardinality(B) \in Nat
        /\ Cardinality(F \cap G) \in Nat
    <2>1. IsFiniteSet(F \cap G)
      <3> HIDE DEF F, G
      <3>1. F \cap G \in SUBSET F
        OBVIOUS
      <3> QED
        BY <1>4, <3>1, FS_Subset
    <2> HIDE DEF B, F, G
    <2> QED
      BY <1>2, <1>4, <1>5, <2>1, FS_CardinalityType
  <1>7. /\ IsFiniteSet(F \cup G)
        /\ Cardinality(F \cup G) = Cardinality(F) + Cardinality(G) - Cardinality(F \cap G)
    <2> HIDE DEF F, G
    <2> QED
      BY <1>4, <1>5, FS_Union
  <1>8. IsFiniteSet(K) /\ Cardinality(K) <= Cardinality(F \cup G) + 1
    <2> HIDE DEF F, G
    <2> DEFINE H == F \cup G
    <2>1. Cardinality(H) \in Nat
      BY <1>7, FS_CardinalityType
    <2> HIDE DEF H
    <2>2. /\ IsFiniteSet(H \cup {active})
          /\ Cardinality(H \cup {active}) = IF active \in H THEN Cardinality(H) ELSE Cardinality(H) + 1
      BY <1>7, FS_AddElement DEF H
    <2>3. Cardinality(H \cup {active}) <= Cardinality(H) + 1
      BY <2>1, <2>2
    <2> QED
      BY <2>2, <2>3 DEF H
  <1>9. Cardinality(K) \in Nat /\ Cardinality(K) < 2 * MaxBusy
    <2>1. Cardinality(K) \in Nat
      <3> HIDE DEF K
      <3> QED
        BY <1>8, FS_CardinalityType
    <2>2. Cardinality(Busy) <= MaxBusy
      BY DEF SnapshotInv, FewBusy
    <2> HIDE DEF B, F, G, K
    <2> QED
      BY <1>2, <1>4, <1>5, <1>6, <1>7, <1>8, <2>1, <2>2, BusyIsFinite, SnapshotAssumption
  <1>10. ~(Versions \subseteq K)
    <2> HIDE DEF K
    <2> SUFFICES ASSUME Versions \subseteq K
                 PROVE  FALSE
      OBVIOUS
    <2>1. IsFiniteSet(Versions) /\ Cardinality(Versions) <= Cardinality(K)
      BY <1>8, FS_Subset
    <2>2. Cardinality(Versions) >= 2 * MaxBusy /\ Cardinality(Versions) \in Nat
      BY <2>1, SnapshotAssumption, FS_CardinalityType
    <2> QED
      BY <1>9, <2>1, <2>2, SnapshotAssumption
  <1>11. PICK v \in Versions : v \notin K
    BY <1>10
  <1>12. v # Absent
    BY SnapshotAssumption
  <1>13. \A x \in Writers : v \notin {writer[x].old, writer[x].version}
    <2> TAKE x \in Writers
    <2>1. CASE x \in B
      <3>1. f[x] \in F /\ g[x] \in G /\ f[x] = writer[x].old /\ g[x] = writer[x].version
        BY <2>1
      <3> QED
        BY <1>11, <3>1
    <2>2. CASE x \notin B
      <3>1. writer[x].at \in {"idle", "incr"}
        BY <2>2 DEF Busy
      <3>2. writer[x].old = Absent /\ writer[x].version = Absent
        BY <3>1 DEF SnapshotInv, Bare
      <3> QED
        BY <1>12, <3>2
    <2> QED
      BY <2>1, <2>2
  <1> QED
    BY <1>11, <1>13 DEF Unknown

-----------------------------------------------------------------------------
\* The steps of writers that know no version, before and after.
LEMMA QuietSteps ==
  ASSUME SnapshotInv, NEW w \in Writers, NEW r \in WriterRecords,
         writer' = [writer EXCEPT ![w] = r],
         writer[w].at \notin {"publish", "delete"}, r.at \notin {"publish", "delete"},
         r.old = Absent, r.version = Absent,
         r.pos <= r.upto, r.upto <= Len(outbox), r.at \in {"event", "account"} => r.pos >= 1,
         writer[w].at # "idle" \/ r.at = "idle" \/ MayBegin,
         SnapshotTypeOK',
         UNCHANGED snapshotFaults \/ Disturbed',
         UNCHANGED <<outbox, active, snapshot, reading>>
  PROVE  SnapshotInv'
  <1>1. writer'[w] = r /\ \A x \in Writers \ {w} : writer'[x] = writer[x]
    BY DEF SnapshotInv, SnapshotTypeOK
  <1>2. writer[w].old = Absent /\ writer[w].version = Absent
    BY DEF SnapshotInv, Bare
  <1>3. \A x \in Writers : writer'[x].old = writer[x].old /\ writer'[x].version = writer[x].version
    BY <1>1, <1>2
  <1>4. FewBusy'
    BY BusyStep
  <1>5. Disturbed' /\ Places'
    BY <1>1 DEF SnapshotInv, Disturbed, Places
  <1>6. Bare' /\ Replaced'
    BY <1>1 DEF SnapshotInv, Bare, Replaced
  <1>7. Drawn'
    <2>1. \A x \in Writers : writer'[x].at = "publish" => writer[x].at = "publish"
      BY <1>1
    <2> QED
      BY <1>3, <2>1 DEF SnapshotInv, Drawn
  <1>8. NamedOnly'
    BY <1>3 DEF SnapshotInv, NamedOnly, Unknown
  <1>9. ActiveIsOneReading'
    BY DEF SnapshotInv, ActiveIsOneReading
  <1> QED
    BY <1>4, <1>5, <1>6, <1>7, <1>8, <1>9 DEF SnapshotInv

\* Every field of what a writer knows, where it changes.
LEMMA MovedRecord ==
  ASSUME NEW r \in WriterRecords, NEW at \in WriterStates,
         NEW seen \in [Accounts -> {"on", "off", "gone"}],
         NEW old \in Versions \cup {Absent}, NEW version \in Versions \cup {Absent}
  PROVE  LET m == [r EXCEPT !.at = at, !.seen = seen, !.old = old, !.version = version] IN
         /\ m \in WriterRecords /\ m.at = at /\ m.seen = seen /\ m.old = old
         /\ m.version = version /\ m.pos = r.pos /\ m.upto = r.upto
  BY DEF WriterRecords

\* The end of a poll's event, or of a rebuild.
LEMMA FinishesFacts ==
  ASSUME SnapshotInv, NEW w \in Writers, NEW from \in WriterStates, Finishes(w, from)
  PROVE  /\ writer[w].at = from
         /\ watermark' \in 0 .. Len(outbox)
         /\ \E r \in WriterRecords :
              /\ writer' = [writer EXCEPT ![w] = r]
              /\ r.at \in {"idle", "event", "lock"} /\ r.old = Absent /\ r.version = Absent
              /\ r.pos <= r.upto /\ r.upto <= Len(outbox) /\ (r.at = "event" => r.pos >= 1)
  <1> DEFINE me == writer[w]
  <1>1. /\ me \in WriterRecords /\ me.pos \in 0 .. MaxDisturbances /\ me.upto \in 0 .. MaxDisturbances
        /\ me.pos <= me.upto /\ me.upto <= Len(outbox)
        /\ Len(outbox) \in Nat /\ Len(outbox) <= MaxDisturbances /\ MaxDisturbances \in Nat
        /\ watermark \in 0 .. Len(outbox)
    BY SnapshotAssumption DEF SnapshotInv, SnapshotTypeOK, Places, WriterRecords
  <1>2. CASE /\ me.pos < me.upto
             /\ Goes(w, from, [Resting EXCEPT !.at = "event", !.pos = me.pos + 1, !.upto = me.upto])
             /\ UNCHANGED watermark
    <2> DEFINE r == [Resting EXCEPT !.at = "event", !.pos = me.pos + 1, !.upto = me.upto]
    <2>1. me.pos + 1 \in 0 .. MaxDisturbances /\ me.pos + 1 <= me.upto /\ me.pos + 1 >= 1
      BY <1>1, <1>2
    <2>2. /\ r \in WriterRecords /\ r.at = "event" /\ r.old = Absent /\ r.version = Absent
          /\ r.pos = me.pos + 1 /\ r.upto = me.upto
      BY <1>1, <2>1, RestingIsRecord DEF Resting, WriterRecords, WriterStates
    <2>3. writer[w].at = from /\ writer' = [writer EXCEPT ![w] = r]
      BY <1>2 DEF Goes
    <2> HIDE DEF r
    <2> QED
      BY <1>1, <1>2, <2>1, <2>2, <2>3
  <1>3. CASE /\ me.upto = 0
             /\ Goes(w, from, Resting)
             /\ UNCHANGED watermark
    <2> DEFINE r == Resting
    <2>1. writer[w].at = from /\ writer' = [writer EXCEPT ![w] = r]
      BY <1>3 DEF Goes
    <2>2. /\ r \in WriterRecords /\ r.at = "idle" /\ r.old = Absent /\ r.version = Absent
          /\ r.pos = 0 /\ r.upto = 0
      BY RestingIsRecord
    <2> HIDE DEF r
    <2>3. r.pos <= r.upto /\ r.upto <= Len(outbox) /\ watermark' \in 0 .. Len(outbox)
      BY <1>1, <1>3, <2>2
    <2> QED
      BY <2>1, <2>2, <2>3
  <1>4. CASE /\ me.upto > 0 /\ me.pos = me.upto
             /\ \E next \in AfterPoll : Goes(w, from, [Resting EXCEPT !.at = next])
             /\ watermark' = me.upto
    <2>1. PICK next \in AfterPoll : Goes(w, from, [Resting EXCEPT !.at = next])
      BY <1>4
    <2> DEFINE r == [Resting EXCEPT !.at = next]
    <2>2. /\ r \in WriterRecords /\ r.at \in {"idle", "lock"} /\ r.old = Absent /\ r.version = Absent
          /\ r.pos = 0 /\ r.upto = 0
      BY RestingIsRecord DEF Resting, WriterRecords, WriterStates, AfterPoll
    <2>3. writer[w].at = from /\ writer' = [writer EXCEPT ![w] = r]
      BY <2>1 DEF Goes
    <2> HIDE DEF r
    <2>4. r.pos <= r.upto /\ r.upto <= Len(outbox) /\ watermark' \in 0 .. Len(outbox)
      BY <1>1, <1>4, <2>2
    <2> QED
      BY <2>2, <2>3, <2>4
  <1> QED
    BY <1>2, <1>3, <1>4 DEF Finishes

LEMMA BeginsKeeps ==
  ASSUME SnapshotInv, NEW w \in Writers, PollOutbox(w) \/ TriggerFullRebuild(w) \/ FallBack(w)
  PROVE  SnapshotInv'
  <1>1. /\ writer[w].at = "idle" /\ MayBegin
        /\ UNCHANGED <<account, outbox, watermark, active, snapshot, reading, payload, bucketLock>>
    BY DEF PollOutbox, TriggerFullRebuild, FallBack, Goes, database
  <1>f. /\ snapshotFaults' \in 0 .. MaxDisturbances
        /\ UNCHANGED snapshotFaults \/ Disturbed'
    <2>1. UNCHANGED snapshotFaults \/ (MayDisturb /\ snapshotFaults' = snapshotFaults + 1)
      BY DEF PollOutbox, TriggerFullRebuild, FallBack
    <2>2. snapshotFaults \in 0 .. MaxDisturbances /\ Len(outbox) \in Nat
      BY DEF SnapshotInv, SnapshotTypeOK
    <2> QED
      BY <1>1, <2>1, <2>2, SnapshotAssumption DEF MayDisturb, Disturbed
  <1>2. PICK r \in WriterRecords :
          /\ writer' = [writer EXCEPT ![w] = r]
          /\ r.at \notin {"publish", "delete"} /\ r.old = Absent /\ r.version = Absent
          /\ r.pos <= r.upto /\ r.upto <= Len(outbox) /\ (r.at \in {"event", "account"} => r.pos >= 1)
    <2>1. CASE PollOutbox(w)
      <3> DEFINE r == [Resting EXCEPT !.at = "event", !.pos = watermark + 1, !.upto = Len(outbox)]
      <3>1. /\ watermark + 1 \in 0 .. MaxDisturbances /\ Len(outbox) \in 0 .. MaxDisturbances
            /\ watermark + 1 <= Len(outbox) /\ watermark + 1 >= 1
        BY <2>1, SnapshotAssumption DEF PollOutbox, SnapshotInv, SnapshotTypeOK
      <3>2. /\ r \in WriterRecords /\ r.at = "event" /\ r.old = Absent /\ r.version = Absent
            /\ r.pos = watermark + 1 /\ r.upto = Len(outbox)
        BY <3>1, RestingIsRecord DEF Resting, WriterRecords, WriterStates
      <3>3. writer' = [writer EXCEPT ![w] = r]
        BY <2>1 DEF PollOutbox, Goes
      <3> HIDE DEF r
      <3>4. r.pos <= r.upto /\ r.upto <= Len(outbox) /\ r.pos >= 1 /\ r.at \notin {"publish", "delete"}
        BY <3>1, <3>2 DEF SnapshotInv, SnapshotTypeOK
      <3> QED
        BY <3>2, <3>3, <3>4
    <2>2. ASSUME NEW at \in {"lock", "load"}, writer' = [writer EXCEPT ![w] = [Resting EXCEPT !.at = at]]
          PROVE  \E r \in WriterRecords :
                   /\ writer' = [writer EXCEPT ![w] = r]
                   /\ r.at \notin {"publish", "delete"} /\ r.old = Absent /\ r.version = Absent
                   /\ r.pos <= r.upto /\ r.upto <= Len(outbox) /\ (r.at \in {"event", "account"} => r.pos >= 1)
      <3> DEFINE r == [Resting EXCEPT !.at = at]
      <3>1. /\ r \in WriterRecords /\ r.at \in {"lock", "load"} /\ r.old = Absent /\ r.version = Absent
            /\ r.pos = 0 /\ r.upto = 0 /\ Len(outbox) \in Nat
        BY RestingIsRecord DEF Resting, WriterRecords, WriterStates, SnapshotInv, SnapshotTypeOK
      <3>2. writer' = [writer EXCEPT ![w] = r]
        BY <2>2
      <3> HIDE DEF r
      <3>3. /\ r.pos <= r.upto /\ r.upto <= Len(outbox)
            /\ r.at \notin {"publish", "delete", "event", "account"}
        BY <3>1
      <3> QED
        BY <3>1, <3>2, <3>3
    <2> QED
      BY <2>1, <2>2 DEF TriggerFullRebuild, FallBack, Goes
  <1>3. SnapshotTypeOK'
    BY <1>1, <1>f, <1>2 DEF SnapshotInv, SnapshotTypeOK
  <1> QED
    BY <1>1, <1>f, <1>2, <1>3, QuietSteps

LEMMA ReadsKeep ==
  ASSUME SnapshotInv, NEW w \in Writers, ReadAccount(w) \/ LoadAccounts(w)
  PROVE  SnapshotInv'
  <1> DEFINE me == writer[w]
  <1>1. /\ me \in WriterRecords /\ me.at \in {"event", "load"}
        /\ me.old = Absent /\ me.version = Absent
        /\ me.pos <= me.upto /\ me.upto <= Len(outbox) /\ (me.at = "event" => me.pos >= 1)
        /\ UNCHANGED <<account, outbox, watermark, active, snapshot, reading, payload, bucketLock, snapshotFaults>>
    BY DEF ReadAccount, LoadAccounts, Goes, database, SnapshotInv, SnapshotTypeOK, Places, Bare
  <1>2. PICK at \in {"account", "incr"}, S \in {{outbox[me.pos]}, Schedulable(account)} :
          /\ writer' = [writer EXCEPT ![w] = [me EXCEPT !.at = at, !.seen = Noticed(account, S)]]
          /\ at = "account" => me.at = "event"
    BY DEF ReadAccount, LoadAccounts, Goes
  <1> DEFINE r == [me EXCEPT !.at = at, !.seen = Noticed(account, S)]
  <1>3. /\ r \in WriterRecords /\ r.at = at /\ r.old = Absent /\ r.version = Absent
        /\ r.pos = me.pos /\ r.upto = me.upto
    BY <1>1, NoticedFacts DEF SnapshotInv, WriterRecords, WriterStates
  <1>4. writer' = [writer EXCEPT ![w] = r]
    BY <1>2
  <1> HIDE DEF r
  <1>5. SnapshotTypeOK'
    BY <1>1, <1>3, <1>4 DEF SnapshotInv, SnapshotTypeOK
  <1> QED
    BY <1>1, <1>2, <1>3, <1>4, <1>5, QuietSteps

LEMMA CacheAccountKeeps ==
  ASSUME SnapshotInv, NEW w \in Writers, CacheAccount(w)
  PROVE  SnapshotInv'
  <1> DEFINE me == writer[w]
             a == outbox[me.pos]
  <1>1. /\ me \in WriterRecords /\ me.at = "account"
        /\ me.old = Absent /\ me.version = Absent
        /\ me.pos <= me.upto /\ me.upto <= Len(outbox) /\ me.pos >= 1
        /\ UNCHANGED <<account, outbox, watermark, active, snapshot, reading, bucketLock, snapshotFaults>>
    BY DEF CacheAccount, Goes, database, SnapshotInv, SnapshotTypeOK, Places, Bare
  <1>2. a \in Accounts
    BY <1>1 DEF SnapshotInv, SnapshotTypeOK, WriterRecords
  <1>3. payload' = [payload EXCEPT ![a] = IF me.seen[a] = "gone" THEN Absent ELSE me.seen[a]]
    BY DEF CacheAccount
  <1>4. me.seen[a] \in {"on", "off", "gone"}
    BY <1>1, <1>2 DEF WriterRecords
  <1>5. payload' \in [Accounts -> {"on", "off", Absent}]
    <2>1. (IF me.seen[a] = "gone" THEN Absent ELSE me.seen[a]) \in {"on", "off", Absent}
      BY <1>4
    <2> QED
      BY <1>2, <1>3, <2>1 DEF SnapshotInv, SnapshotTypeOK
  <1> DEFINE r == [me EXCEPT !.at = "lock", !.seen = Resting.seen]
  <1>6. /\ r \in WriterRecords /\ r.at = "lock" /\ r.old = Absent /\ r.version = Absent
        /\ r.pos = me.pos /\ r.upto = me.upto
    BY <1>1 DEF WriterRecords, WriterStates, Resting
  <1>7. writer' = [writer EXCEPT ![w] = r]
    BY DEF CacheAccount, Goes
  <1> HIDE DEF r
  <1>8. SnapshotTypeOK'
    BY <1>1, <1>5, <1>6, <1>7 DEF SnapshotInv, SnapshotTypeOK
  <1> QED
    BY <1>1, <1>6, <1>7, <1>8, QuietSteps

LEMMA TryLockKeeps ==
  ASSUME SnapshotInv, NEW w \in Writers, TryLockBucket(w)
  PROVE  SnapshotInv'
  <1>1. /\ writer[w].at = "lock" /\ writer[w] \in WriterRecords
        /\ bucketLock' \in BOOLEAN
        /\ UNCHANGED <<account, outbox, active, snapshot, reading, payload, snapshotFaults>>
    BY DEF TryLockBucket, database, SnapshotInv, SnapshotTypeOK
  <1>2. /\ watermark' \in 0 .. Len(outbox)
        /\ \E r \in WriterRecords :
             /\ writer' = [writer EXCEPT ![w] = r]
             /\ r.at \in {"idle", "event", "lock", "load"} /\ r.old = Absent /\ r.version = Absent
             /\ r.pos <= r.upto /\ r.upto <= Len(outbox) /\ (r.at = "event" => r.pos >= 1)
    <2>1. CASE Finishes(w, "lock")
      <3>1. "lock" \in WriterStates
        BY DEF WriterStates
      <3> QED
        BY <2>1, <3>1, FinishesFacts
    <2>2. CASE /\ Goes(w, "lock", [writer[w] EXCEPT !.at = "load"])
               /\ UNCHANGED watermark
      <3> DEFINE r == [writer[w] EXCEPT !.at = "load"]
      <3>1. /\ r \in WriterRecords /\ r.at = "load" /\ r.old = writer[w].old /\ r.version = writer[w].version
            /\ r.pos = writer[w].pos /\ r.upto = writer[w].upto
        BY <1>1 DEF WriterRecords, WriterStates
      <3>2. writer' = [writer EXCEPT ![w] = r]
        BY <2>2 DEF Goes
      <3> HIDE DEF r
      <3> QED
        BY <1>1, <2>2, <3>1, <3>2 DEF SnapshotInv, SnapshotTypeOK, Places, Bare
    <2> QED
      BY <2>1, <2>2 DEF TryLockBucket
  <1>3. PICK r \in WriterRecords :
             /\ writer' = [writer EXCEPT ![w] = r]
             /\ r.at \in {"idle", "event", "lock", "load"} /\ r.old = Absent /\ r.version = Absent
             /\ r.pos <= r.upto /\ r.upto <= Len(outbox) /\ (r.at = "event" => r.pos >= 1)
    BY <1>2
  <1>4. SnapshotTypeOK'
    BY <1>1, <1>2, <1>3 DEF SnapshotInv, SnapshotTypeOK
  <1> QED
    BY <1>1, <1>3, <1>4, QuietSteps

-----------------------------------------------------------------------------
LEMMA IncrVersionKeeps ==
  ASSUME SnapshotInv, NEW w \in Writers, IncrVersion(w)
  PROVE  SnapshotInv'
  <1> DEFINE me == writer[w]
             v == CHOOSE v \in Versions : Unknown(v)
             r == [me EXCEPT !.at = "publish", !.old = active, !.version = v]
  <1>1. /\ me \in WriterRecords /\ me.at = "incr" /\ active \in Versions \cup {Absent}
        /\ writer' = [writer EXCEPT ![w] = r]
        /\ UNCHANGED <<account, outbox, watermark, active, snapshot, reading, payload, bucketLock, snapshotFaults>>
    BY DEF IncrVersion, Goes, database, SnapshotInv, SnapshotTypeOK
  <1>2. v \in Versions /\ Unknown(v)
    <2>1. \E u \in Versions : Unknown(u)
      BY <1>1, SomeUnknown
    <2> QED
      BY <2>1
  <1> HIDE DEF v
  <1>3. /\ r \in WriterRecords /\ r.at = "publish" /\ r.old = active /\ r.version = v
        /\ r.pos = me.pos /\ r.upto = me.upto
    BY <1>1, <1>2 DEF WriterRecords, WriterStates
  <1> HIDE DEF r
  <1>4. writer'[w] = r /\ \A x \in Writers \ {w} : writer'[x] = writer[x]
    BY <1>1 DEF SnapshotInv, SnapshotTypeOK
  <1>5. SnapshotTypeOK'
    BY <1>1, <1>3 DEF SnapshotInv, SnapshotTypeOK
  <1>6. FewBusy'
    BY <1>1, <1>3, BusyStep
  <1>7. Disturbed' /\ Places' /\ Bare' /\ Replaced' /\ ActiveIsOneReading'
    BY <1>1, <1>3, <1>4 DEF SnapshotInv, Disturbed, Places, Bare, Replaced, ActiveIsOneReading
  <1>8. NamedOnly'
    <2>1. \A u \in Versions : Unknown(u)' => Unknown(u)
      <3> SUFFICES ASSUME NEW u \in Versions, Unknown(u)'
                   PROVE  Unknown(u)
        OBVIOUS
      <3>1. u # active /\ \A x \in Writers \ {w} : u \notin {writer[x].old, writer[x].version}
        BY <1>1, <1>4 DEF Unknown
      <3>2. writer[w].old = Absent /\ writer[w].version = Absent /\ u # Absent
        BY <1>1, SnapshotAssumption DEF SnapshotInv, Bare
      <3> QED
        BY <3>1, <3>2 DEF Unknown
    <2> QED
      BY <1>1, <2>1 DEF SnapshotInv, NamedOnly
  <1>9. Drawn'
    <2> SUFFICES ASSUME NEW x \in Writers, writer'[x].at = "publish"
                 PROVE  /\ writer'[x].version \in Versions
                        /\ writer'[x].version # active
                        /\ \A y \in Writers : /\ writer'[y].old # writer'[x].version
                                              /\ y # x => writer'[y].version # writer'[x].version
                        /\ snapshot[writer'[x].version] = Absent
      BY <1>1 DEF Drawn
    <2>1. CASE x = w
      <3>1. writer'[x].version = v /\ snapshot[v] = Absent /\ v # active
        BY <1>2, <1>3, <1>4, <2>1 DEF SnapshotInv, NamedOnly, Unknown
      <3>2. \A y \in Writers \ {w} : v \notin {writer'[y].old, writer'[y].version}
        BY <1>2, <1>4 DEF Unknown
      <3>3. writer'[w].old # v
        BY <1>3, <1>4, <3>1
      <3> QED
        BY <1>2, <2>1, <3>1, <3>2, <3>3
    <2>2. CASE x # w
      <3>1. writer'[x] = writer[x] /\ writer[x].at = "publish"
        BY <1>4, <2>2
      <3>2. /\ writer[x].version \in Versions /\ writer[x].version # active
            /\ snapshot[writer[x].version] = Absent
            /\ \A y \in Writers : /\ writer[y].old # writer[x].version
                                  /\ y # x => writer[y].version # writer[x].version
        BY <3>1 DEF SnapshotInv, Drawn
      <3>3. v # writer[x].version
        BY <1>2 DEF Unknown
      <3> QED
        BY <1>3, <1>4, <3>1, <3>2, <3>3
    <2> QED
      BY <2>1, <2>2
  <1> QED
    BY <1>5, <1>6, <1>7, <1>8, <1>9 DEF SnapshotInv

\* A snapshot that is left out is one that nobody names.
LEMMA NamedFacts ==
  ASSUME NEW s \in [Versions -> (SUBSET Accounts) \cup {Absent}], snapshot' = Named(s)
  PROVE  /\ snapshot' \in [Versions -> (SUBSET Accounts) \cup {Absent}]
         /\ NamedOnly'
         /\ \A v \in Versions : snapshot'[v] \in {s[v], Absent}
         /\ active' \in Versions => snapshot'[active'] = s[active']
  <1>1. \A v \in Versions : snapshot'[v] \in {s[v], Absent}
    BY DEF Named
  <1>2. snapshot' \in [Versions -> (SUBSET Accounts) \cup {Absent}]
    <2>1. \A v \in Versions : snapshot'[v] \in (SUBSET Accounts) \cup {Absent}
      BY <1>1
    <2>2. snapshot' = [v \in Versions |-> snapshot'[v]]
      BY DEF Named
    <2> QED
      BY <2>1, <2>2
  <1>3. NamedOnly'
    BY DEF Named, NamedOnly, Unknown
  <1>4. active' \in Versions => snapshot'[active'] = s[active']
    BY DEF Named
  <1> QED
    BY <1>1, <1>2, <1>3, <1>4

\* What the pipeline of a writer writes.
LEMMA PipelineFacts ==
  ASSUME SnapshotInv, NEW w \in Writers, writer[w].at = "publish", Pipeline(w)
  PROVE  /\ active' = writer[w].version /\ active' \in Versions
         /\ snapshot' \in [Versions -> (SUBSET Accounts) \cup {Absent}]
         /\ NamedOnly'
         /\ snapshot'[active'] = reading' /\ reading' \subseteq Accounts
         /\ \A v \in Versions : v # active' => snapshot'[v] \in {snapshot[v], Absent}
         /\ payload' \in [Accounts -> {"on", "off", Absent}]
  <1> DEFINE v == writer[w].version
             ids == Schedulable(writer[w].seen)
             s == [snapshot EXCEPT ![v] = IF ids = {} THEN {} ELSE {} \cup ids]
  <1>1. v \in Versions /\ snapshot[v] = Absent
    BY DEF SnapshotInv, Drawn
  <1>2. active' = v /\ reading' = ids /\ ids \subseteq Accounts
    BY DEF Pipeline, Schedulable
  <1>3. snapshot' = Named(s)
    BY <1>1 DEF Pipeline
  <1>4. s \in [Versions -> (SUBSET Accounts) \cup {Absent}] /\ s[v] = ids
        /\ \A u \in Versions : u # v => s[u] = snapshot[u]
    <2>1. snapshot \in [Versions -> (SUBSET Accounts) \cup {Absent}]
      BY DEF SnapshotInv, SnapshotTypeOK
    <2>2. (IF ids = {} THEN {} ELSE {} \cup ids) = ids /\ ids \in (SUBSET Accounts) \cup {Absent}
      BY <1>2
    <2> HIDE DEF ids, v
    <2> QED
      BY <1>1, <2>1, <2>2
  <1>5. payload' \in [Accounts -> {"on", "off", Absent}]
    BY DEF Pipeline, SnapshotInv, SnapshotTypeOK
  <1> HIDE DEF v, ids, s
  <1>6. /\ snapshot' \in [Versions -> (SUBSET Accounts) \cup {Absent}]
        /\ NamedOnly'
        /\ \A u \in Versions : snapshot'[u] \in {s[u], Absent}
        /\ snapshot'[active'] = s[active']
    BY <1>1, <1>2, <1>3, <1>4, NamedFacts
  <1> QED
    BY <1>1, <1>2, <1>4, <1>5, <1>6 DEF v

\* A writer publishes what it had loaded under a version of its own: no other
\* writer will add to it, and none will delete it.
LEMMA PipelineKeeps ==
  ASSUME SnapshotInv, NEW w \in Writers, writer[w].at = "publish", Pipeline(w),
         NEW r \in WriterRecords,
         writer' = [writer EXCEPT ![w] = r],
         r.at \in {"idle", "delete"}, r.version = Absent,
         r.old = writer[w].old \/ r.old = Absent, r.at = "idle" => r.old = Absent,
         r.pos <= r.upto, r.upto <= Len(outbox),
         Disturbed', snapshotFaults' \in 0 .. MaxDisturbances,
         UNCHANGED <<account, outbox, watermark, bucketLock>>
  PROVE  SnapshotInv'
  <1>1. writer'[w] = r /\ \A x \in Writers \ {w} : writer'[x] = writer[x]
    BY DEF SnapshotInv, SnapshotTypeOK
  <1>2. /\ active' = writer[w].version /\ active' \in Versions /\ active' # Absent
        /\ \A x \in Writers : /\ writer[x].old # active'
                              /\ x # w => writer[x].version # active'
    BY PipelineFacts, SnapshotAssumption DEF SnapshotInv, Drawn
  <1>3. /\ snapshot' \in [Versions -> (SUBSET Accounts) \cup {Absent}]
        /\ NamedOnly'
        /\ snapshot'[active'] = reading' /\ reading' \subseteq Accounts
        /\ \A v \in Versions : v # active' => snapshot'[v] \in {snapshot[v], Absent}
        /\ payload' \in [Accounts -> {"on", "off", Absent}]
    BY PipelineFacts
  <1>4. SnapshotTypeOK'
    BY <1>2, <1>3 DEF SnapshotInv, SnapshotTypeOK
  <1>5. FewBusy'
    BY BusyStep
  <1>6. Places'
    BY <1>1 DEF SnapshotInv, Places
  <1>7. Bare'
    BY <1>1 DEF SnapshotInv, Bare
  <1>8. Replaced'
    BY <1>1, <1>2 DEF Replaced
  <1>9. Drawn'
    <2> SUFFICES ASSUME NEW x \in Writers, writer'[x].at = "publish"
                 PROVE  /\ writer'[x].version \in Versions
                        /\ writer'[x].version # active'
                        /\ \A y \in Writers : /\ writer'[y].old # writer'[x].version
                                              /\ y # x => writer'[y].version # writer'[x].version
                        /\ snapshot'[writer'[x].version] = Absent
      BY DEF Drawn
    <2>1. x # w /\ writer'[x] = writer[x] /\ writer[x].at = "publish"
      BY <1>1
    <2>2. /\ writer[x].version \in Versions
          /\ snapshot[writer[x].version] = Absent
          /\ \A y \in Writers : /\ writer[y].old # writer[x].version
                                /\ y # x => writer[y].version # writer[x].version
      BY <2>1 DEF SnapshotInv, Drawn
    <2>3. snapshot'[writer[x].version] = Absent
      BY <1>2, <1>3, <2>1, <2>2
    <2>4. r.old # writer[x].version /\ r.version # writer[x].version
      BY <2>2, SnapshotAssumption
    <2> QED
      BY <1>1, <1>2, <2>1, <2>2, <2>3, <2>4
  <1>10. ActiveIsOneReading'
    BY <1>3 DEF ActiveIsOneReading
  <1> QED
    BY <1>3, <1>4, <1>5, <1>6, <1>7, <1>8, <1>9, <1>10 DEF SnapshotInv

LEMMA PublishSnapshotKeeps ==
  ASSUME SnapshotInv, NEW w \in Writers, Publish(w)
  PROVE  SnapshotInv'
  <1> DEFINE me == writer[w]
             r == [me EXCEPT !.at = "delete", !.seen = Resting.seen, !.version = Absent]
  <1>1. /\ me \in WriterRecords /\ me.at = "publish" /\ Pipeline(w)
        /\ writer' = [writer EXCEPT ![w] = r]
        /\ UNCHANGED <<account, outbox, watermark, bucketLock, snapshotFaults>>
    BY DEF Publish, Goes, database, SnapshotInv, SnapshotTypeOK
  <1>2. /\ r \in WriterRecords /\ r.at = "delete" /\ r.old = me.old /\ r.version = Absent
        /\ r.pos = me.pos /\ r.upto = me.upto
    BY <1>1 DEF WriterRecords, WriterStates, Resting
  <1> HIDE DEF r
  <1>3. /\ me.pos <= me.upto /\ me.upto <= Len(outbox)
        /\ Disturbed' /\ snapshotFaults' \in 0 .. MaxDisturbances
    BY <1>1 DEF SnapshotInv, SnapshotTypeOK, Places, Disturbed
  <1> QED
    BY <1>1, <1>2, <1>3, PipelineKeeps

\* The steps that only take versions away: a deletion, and a failing call.
LEMMA LeavesKeep ==
  ASSUME SnapshotInv, NEW w \in Writers, writer[w].at # "idle",
         NEW r \in WriterRecords,
         writer' = [writer EXCEPT ![w] = r],
         r.at \in {"idle", "event", "lock"}, r.old = Absent, r.version = Absent,
         r.pos <= r.upto, r.upto <= Len(outbox), r.at = "event" => r.pos >= 1,
         NEW s \in [Versions -> (SUBSET Accounts) \cup {Absent}], snapshot' = Named(s),
         \A v \in Versions : s[v] \in {snapshot[v], Absent},
         active # Absent => s[active] = snapshot[active],
         Disturbed', snapshotFaults' \in 0 .. MaxDisturbances, watermark' \in 0 .. Len(outbox),
         UNCHANGED <<account, outbox, active, reading, payload, bucketLock>>
  PROVE  SnapshotInv'
  <1>1. writer'[w] = r /\ \A x \in Writers \ {w} : writer'[x] = writer[x]
    BY DEF SnapshotInv, SnapshotTypeOK
  <1>2. /\ snapshot' \in [Versions -> (SUBSET Accounts) \cup {Absent}]
        /\ NamedOnly'
        /\ \A v \in Versions : snapshot'[v] \in {s[v], Absent}
        /\ active' \in Versions => snapshot'[active'] = s[active']
    BY NamedFacts
  <1>3. SnapshotTypeOK'
    BY <1>2 DEF SnapshotInv, SnapshotTypeOK
  <1>4. FewBusy'
    BY BusyStep
  <1>5. Places' /\ Bare' /\ Replaced'
    BY <1>1 DEF SnapshotInv, Places, Bare, Replaced
  <1>6. Drawn'
    <2> SUFFICES ASSUME NEW x \in Writers, writer'[x].at = "publish"
                 PROVE  /\ writer'[x].version \in Versions
                        /\ writer'[x].version # active
                        /\ \A y \in Writers : /\ writer'[y].old # writer'[x].version
                                              /\ y # x => writer'[y].version # writer'[x].version
                        /\ snapshot'[writer'[x].version] = Absent
      BY DEF Drawn
    <2>1. x # w /\ writer'[x] = writer[x] /\ writer[x].at = "publish"
      BY <1>1
    <2>2. /\ writer[x].version \in Versions /\ writer[x].version # active
          /\ snapshot[writer[x].version] = Absent
          /\ \A y \in Writers : /\ writer[y].old # writer[x].version
                                /\ y # x => writer[y].version # writer[x].version
      BY <2>1 DEF SnapshotInv, Drawn
    <2>3. snapshot'[writer[x].version] = Absent /\ writer[x].version # Absent
      BY <1>2, <2>2, SnapshotAssumption
    <2> QED
      BY <1>1, <2>1, <2>2, <2>3
  <1>7. ActiveIsOneReading'
    BY <1>2 DEF SnapshotInv, SnapshotTypeOK, ActiveIsOneReading
  <1> QED
    BY <1>2, <1>3, <1>4, <1>5, <1>6, <1>7 DEF SnapshotInv

\* What a writer deletes is not active.
LEMMA DeleteSupersededKeeps ==
  ASSUME SnapshotInv, NEW w \in Writers, DeleteSuperseded(w)
  PROVE  SnapshotInv'
  <1> DEFINE v == writer[w].old
  <1>1. /\ writer[w].at = "delete" /\ Finishes(w, "delete")
        /\ UNCHANGED <<account, outbox, active, reading, payload, bucketLock, snapshotFaults>>
    BY DEF DeleteSuperseded, database
  <1>2. v # active /\ v \in Versions \cup {Absent}
    BY <1>1 DEF SnapshotInv, Replaced, SnapshotTypeOK, WriterRecords
  <1>3. PICK s \in {snapshot, IF v = Absent THEN snapshot ELSE [snapshot EXCEPT ![v] = Absent]} :
          snapshot' = Named(s)
    BY DEF DeleteSuperseded, Superseded
  <1>4. /\ s \in [Versions -> (SUBSET Accounts) \cup {Absent}]
        /\ \A u \in Versions : s[u] \in {snapshot[u], Absent}
        /\ active # Absent => s[active] = snapshot[active]
    <2>1. snapshot \in [Versions -> (SUBSET Accounts) \cup {Absent}] /\ active \in Versions \cup {Absent}
      BY DEF SnapshotInv, SnapshotTypeOK
    <2>2. CASE s = snapshot
      BY <2>1, <2>2
    <2>3. CASE v # Absent /\ s = [snapshot EXCEPT ![v] = Absent]
      <3> HIDE DEF v
      <3>1. v \in Versions /\ s[v] = Absent /\ \A u \in Versions \ {v} : s[u] = snapshot[u]
        BY <1>2, <2>1, <2>3
      <3>2. s \in [Versions -> (SUBSET Accounts) \cup {Absent}]
        BY <2>1, <2>3
      <3> QED
        BY <1>2, <2>1, <3>1, <3>2
    <2> QED
      BY <1>3, <2>2, <2>3
  <1>5. "delete" \in WriterStates
    BY DEF WriterStates
  <1>6. /\ watermark' \in 0 .. Len(outbox)
        /\ \E r \in WriterRecords :
              /\ writer' = [writer EXCEPT ![w] = r]
              /\ r.at \in {"idle", "event", "lock"} /\ r.old = Absent /\ r.version = Absent
              /\ r.pos <= r.upto /\ r.upto <= Len(outbox) /\ (r.at = "event" => r.pos >= 1)
    BY <1>1, <1>5, FinishesFacts
  <1>7. PICK r \in WriterRecords :
              /\ writer' = [writer EXCEPT ![w] = r]
              /\ r.at \in {"idle", "event", "lock"} /\ r.old = Absent /\ r.version = Absent
              /\ r.pos <= r.upto /\ r.upto <= Len(outbox) /\ (r.at = "event" => r.pos >= 1)
    BY <1>6
  <1>8. Disturbed' /\ snapshotFaults' \in 0 .. MaxDisturbances
    BY <1>1 DEF SnapshotInv, SnapshotTypeOK, Disturbed
  <1> QED
    BY <1>1, <1>3, <1>4, <1>6, <1>7, <1>8, LeavesKeep

LEMMA DisturbsOnce ==
  ASSUME SnapshotInv, MayDisturb,
         \/ outbox' = outbox /\ snapshotFaults' = snapshotFaults + 1
         \/ (\E a \in Accounts : outbox' = Append(outbox, a)) /\ snapshotFaults' = snapshotFaults
  PROVE  /\ Disturbed'
         /\ outbox' \in Seq(Accounts) /\ Len(outbox') <= MaxDisturbances /\ Len(outbox) <= Len(outbox')
         /\ snapshotFaults' \in 0 .. MaxDisturbances
  <1>1. /\ outbox \in Seq(Accounts) /\ Len(outbox) \in Nat /\ snapshotFaults \in Nat /\ MaxDisturbances \in Nat
        /\ Len(outbox) + snapshotFaults < MaxDisturbances
    BY SnapshotAssumption DEF SnapshotInv, SnapshotTypeOK, MayDisturb
  <1>2. CASE outbox' = outbox /\ snapshotFaults' = snapshotFaults + 1
    BY <1>1, <1>2 DEF Disturbed
  <1>3. CASE (\E a \in Accounts : outbox' = Append(outbox, a)) /\ snapshotFaults' = snapshotFaults
    <2>1. Len(outbox') = Len(outbox) + 1 /\ outbox' \in Seq(Accounts)
      BY <1>1, <1>3
    <2> QED
      BY <1>1, <1>3, <2>1 DEF Disturbed
  <1> QED
    BY <1>2, <1>3

LEMMA WriterFailsKeeps ==
  ASSUME SnapshotInv, NEW w \in Writers, WriterFails(w)
  PROVE  SnapshotInv'
  <1>1. /\ writer[w].at # "idle" /\ writer[w].at # "delete"
        /\ writer' = [writer EXCEPT ![w] = Resting]
        /\ UNCHANGED <<account, outbox, watermark, bucketLock>>
    BY DEF WriterFails, database
  <1>2. Disturbed' /\ snapshotFaults' \in 0 .. MaxDisturbances
    BY <1>1, DisturbsOnce DEF WriterFails
  <1>3. /\ Resting.pos <= Resting.upto /\ Resting.upto <= Len(outbox)
        /\ watermark \in 0 .. Len(outbox)
    BY RestingIsRecord DEF SnapshotInv, SnapshotTypeOK
  <1>4. CASE /\ UNCHANGED <<active, reading, payload>>
             /\ snapshot' = Named(snapshot)
    <2>1. snapshot \in [Versions -> (SUBSET Accounts) \cup {Absent}]
      BY DEF SnapshotInv, SnapshotTypeOK
    <2> QED
      BY <1>1, <1>2, <1>3, <1>4, <2>1, RestingIsRecord, LeavesKeep
  <1>5. CASE writer[w].at = "publish" /\ Pipeline(w)
    BY <1>1, <1>2, <1>3, <1>5, RestingIsRecord, PipelineKeeps
  <1> QED
    BY <1>4, <1>5 DEF WriterFails

LEMMA ChangeAccountKeeps ==
  ASSUME SnapshotInv, NEW a \in Accounts, NEW s \in {"on", "off", "gone"}, ChangeAccount(a, s)
  PROVE  SnapshotInv'
  <1>1. /\ account' = [account EXCEPT ![a] = s]
        /\ MayDisturb
        /\ UNCHANGED <<watermark, active, snapshot, reading, payload, bucketLock, writer>>
        /\ \/ outbox' = outbox /\ snapshotFaults' = snapshotFaults + 1
           \/ (\E b \in Accounts : outbox' = Append(outbox, b)) /\ snapshotFaults' = snapshotFaults
    BY DEF ChangeAccount
  <1>2. /\ Disturbed'
        /\ outbox' \in Seq(Accounts) /\ Len(outbox') <= MaxDisturbances /\ Len(outbox) <= Len(outbox')
        /\ snapshotFaults' \in 0 .. MaxDisturbances
    BY <1>1, DisturbsOnce
  <1>3. Len(outbox) \in Nat /\ Len(outbox') \in Nat /\ watermark' \in 0 .. Len(outbox')
    BY <1>1, <1>2 DEF SnapshotInv, SnapshotTypeOK
  <1>4. account' \in [Accounts -> {"on", "off", "gone"}]
    BY <1>1 DEF SnapshotInv, SnapshotTypeOK
  <1>5. SnapshotTypeOK'
    BY <1>1, <1>2, <1>3, <1>4 DEF SnapshotInv, SnapshotTypeOK
  <1>6. Places'
    <2>1. \A w \in Writers : writer[w].upto \in Nat
      BY DEF SnapshotInv, SnapshotTypeOK, WriterRecords
    <2> QED
      BY <1>1, <1>2, <1>3, <2>1 DEF SnapshotInv, Places
  <1>7. Bare' /\ Drawn' /\ Replaced' /\ NamedOnly' /\ FewBusy' /\ ActiveIsOneReading'
    BY <1>1 DEF SnapshotInv, Bare, Drawn, Replaced, NamedOnly, Unknown, FewBusy, Busy, ActiveIsOneReading
  <1> QED
    BY <1>2, <1>5, <1>6, <1>7 DEF SnapshotInv

\* The steps that no part of the invariant but the types is about.
LEMMA SnapshotStutters ==
  ASSUME SnapshotInv, bucketLock' \in BOOLEAN,
         UNCHANGED <<account, outbox, watermark, active, snapshot, reading, payload, writer, snapshotFaults>>
  PROVE  SnapshotInv'
  <1>1. SnapshotTypeOK'
    BY DEF SnapshotInv, SnapshotTypeOK
  <1>2. Disturbed' /\ Places' /\ Bare' /\ Drawn' /\ Replaced' /\ ActiveIsOneReading'
    BY DEF SnapshotInv, Disturbed, Places, Bare, Drawn, Replaced, ActiveIsOneReading
  <1>3. NamedOnly' /\ FewBusy'
    BY DEF SnapshotInv, NamedOnly, Unknown, FewBusy, Busy
  <1> QED
    BY <1>1, <1>2, <1>3 DEF SnapshotInv

-----------------------------------------------------------------------------
LEMMA SnapshotInitially == SnapshotInit => SnapshotInv
  <1> SUFFICES ASSUME SnapshotInit
               PROVE  SnapshotInv
    OBVIOUS
  <1>1. \A w \in Writers : writer[w] = Resting
    BY DEF SnapshotInit
  <1>2. outbox \in Seq(Accounts) /\ Len(outbox) = 0
    BY DEF SnapshotInit
  <1>3. SnapshotTypeOK
    <2>1. writer \in [Writers -> WriterRecords]
      BY <1>1, RestingIsRecord DEF SnapshotInit
    <2>2. /\ snapshot \in [Versions -> (SUBSET Accounts) \cup {Absent}]
          /\ payload \in [Accounts -> {"on", "off", Absent}]
          /\ account \in [Accounts -> {"on", "off", "gone"}]
      BY DEF SnapshotInit
    <2>3. /\ outbox \in Seq(Accounts) /\ Len(outbox) <= MaxDisturbances
          /\ watermark \in 0 .. Len(outbox) /\ snapshotFaults \in 0 .. MaxDisturbances
      BY <1>2, SnapshotAssumption DEF SnapshotInit
    <2>4. active \in Versions \cup {Absent} /\ reading \subseteq Accounts /\ bucketLock \in BOOLEAN
      BY DEF SnapshotInit
    <2> QED
      BY <2>1, <2>2, <2>3, <2>4 DEF SnapshotTypeOK
  <1>4. Disturbed /\ Places /\ Bare /\ Drawn /\ Replaced
    BY <1>1, <1>2, RestingIsRecord, SnapshotAssumption
    DEF SnapshotInit, Disturbed, Places, Bare, Drawn, Replaced
  <1>5. NamedOnly /\ ActiveIsOneReading
    BY DEF SnapshotInit, NamedOnly, ActiveIsOneReading
  <1>6. FewBusy
    <2>1. Busy = {}
      BY <1>1, RestingIsRecord DEF Busy
    <2> QED
      BY <2>1, FS_EmptySet, SnapshotAssumption DEF FewBusy
  <1> QED
    BY <1>3, <1>4, <1>5, <1>6 DEF SnapshotInv

\* SnapshotInv is inductive.
THEOREM SnapshotInvariant == SnapshotSpec => []SnapshotInv
  <1>1. SnapshotInv /\ [SnapshotNext]_snapshotVars => SnapshotInv'
    <2> SUFFICES ASSUME SnapshotInv, [SnapshotNext]_snapshotVars
                 PROVE  SnapshotInv'
      OBVIOUS
    <2>1. CASE UNCHANGED snapshotVars
      <3>1. bucketLock' \in BOOLEAN
        BY <2>1 DEF snapshotVars, SnapshotInv, SnapshotTypeOK
      <3> QED
        BY <2>1, <3>1, SnapshotStutters DEF snapshotVars
    <2>2. CASE LockExpires30s
      <3>1. bucketLock' \in BOOLEAN
        BY <2>2 DEF LockExpires30s
      <3> QED
        BY <2>2, <3>1, SnapshotStutters DEF LockExpires30s
    <2>3. CASE \E a \in Changing, s \in {"on", "off", "gone"} : ChangeAccount(a, s)
      <3>1. Changing \subseteq Accounts
        BY SnapshotAssumption
      <3> QED
        BY <2>3, <3>1, ChangeAccountKeeps
    <2>4. CASE \/ \E w \in Pollers : PollOutbox(w)
               \/ \E w \in Others : TriggerFullRebuild(w) \/ FallBack(w)
      <3>1. Pollers \subseteq Writers /\ Others \subseteq Writers
        BY DEF Writers
      <3> QED
        BY <2>4, <3>1, BeginsKeeps
    <2>5. CASE \E w \in Writers : Writes(w) \/ WriterFails(w)
      BY <2>5, ReadsKeep, CacheAccountKeeps, TryLockKeeps, IncrVersionKeeps,
         PublishSnapshotKeeps, DeleteSupersededKeeps, WriterFailsKeeps DEF Writes
    <2> QED
      BY <2>1, <2>2, <2>3, <2>4, <2>5 DEF SnapshotNext
  <1> QED
    BY <1>1, SnapshotInitially, PTL DEF SnapshotSpec

\* Every variable of the snapshots has its type, and no counter passes its bound.
THEOREM SnapshotTypeCorrect == SnapshotSpec => []SnapshotTypeOK
  <1>1. SnapshotInv => SnapshotTypeOK
    BY DEF SnapshotInv
  <1> QED
    BY <1>1, SnapshotInvariant, PTL

\* For any accounts, pollers, rebuilds and requests, overlapping in any way, and
\* any calls that fail at any point of a publication: the active version has its
\* snapshot, and it is what one writer had read.
THEOREM OneReading == SnapshotSpec => []ActiveIsOneReading
  <1>1. SnapshotInv => ActiveIsOneReading
    BY DEF SnapshotInv
  <1> QED
    BY <1>1, SnapshotInvariant, PTL

-----------------------------------------------------------------------------
(* BillingBreaker *)

\* The fields of a breaker in each of its states: closed, it counts failures that
\* are not enough to open it; open, it has no probes; half-open, the check that
\* opened it half is one of the probes.
BreakerFields ==
  CASE breaker.state = "closed" ->
         /\ breaker.failures < FailureThreshold
         /\ breaker.halfOpenRemaining = 0 /\ ~breaker.due
    [] breaker.state = "open" ->
         breaker.failures = FailureThreshold /\ breaker.halfOpenRemaining = 0
    [] OTHER ->
         /\ breaker.failures = FailureThreshold
         /\ breaker.halfOpenRemaining < HalfOpenRequests /\ breaker.due

\* A check that ended without a report is remembered only while others wait for it.
SilentHalfOpen == silent => breaker.state = "half-open"

BreakerInv == BreakerTypeOK /\ BreakerFields /\ SilentHalfOpen

Breakers ==
  [state : BreakerStates, failures : 0 .. FailureThreshold,
   halfOpenRemaining : 0 .. HalfOpenRequests, due : BOOLEAN]

LEMMA AllowKeeps ==
  ASSUME BreakerInv, Allow
  PROVE  breaker' \in Breakers /\ silent' \in BOOLEAN /\ BreakerFields' /\ SilentHalfOpen'
  <1>1. breaker \in Breakers /\ silent \in BOOLEAN
    BY DEF BreakerInv, BreakerTypeOK, Breakers
  <1>2. CASE UNCHANGED <<breaker, silent>>
    BY <1>1, <1>2 DEF BreakerInv, BreakerFields, SilentHalfOpen
  <1>3. CASE ~UNCHANGED <<breaker, silent>>
    <2>1. PICK left \in 1 .. HalfOpenRequests :
            /\ breaker.state = "half-open" \/ (breaker.state = "open" /\ breaker.due)
            /\ breaker' = [breaker EXCEPT !.state = "half-open", !.halfOpenRemaining = left - 1]
            /\ silent' = (silent /\ breaker.state = "half-open")
      <3> DEFINE left == IF breaker.state = "open" THEN Probes ELSE breaker.halfOpenRemaining
      <3>1. left \in 0 .. HalfOpenRequests
        BY <1>1, BreakerAssumption DEF Breakers, Probes
      <3>2. /\ breaker.state = "half-open" \/ (breaker.state = "open" /\ breaker.due)
            /\ left > 0
            /\ breaker' = [breaker EXCEPT !.state = "half-open", !.halfOpenRemaining = left - 1]
            /\ silent' = (silent /\ breaker.state = "half-open")
        BY <1>3 DEF Allow
      <3> HIDE DEF left
      <3>3. left \in 1 .. HalfOpenRequests
        BY <3>1, <3>2, BreakerAssumption
      <3> QED
        BY <3>2, <3>3
    <2>2. /\ breaker'.state = "half-open" /\ breaker'.halfOpenRemaining = left - 1
          /\ breaker'.failures = breaker.failures /\ breaker'.due = breaker.due
      BY <1>1, <2>1 DEF Breakers
    <2>3. left - 1 \in 0 .. HalfOpenRequests /\ left - 1 < HalfOpenRequests
      BY BreakerAssumption
    <2>4. breaker' \in Breakers
      BY <1>1, <2>1, <2>3 DEF Breakers, BreakerStates
    <2>5. breaker.failures = FailureThreshold /\ breaker.due
      BY <2>1 DEF BreakerInv, BreakerFields
    <2>6. silent' \in BOOLEAN
      BY <2>1
    <2>7. BreakerFields'
      BY <2>2, <2>3, <2>5 DEF BreakerFields
    <2> QED
      BY <2>2, <2>4, <2>6, <2>7 DEF SilentHalfOpen
  <1> QED
    BY <1>2, <1>3

LEMMA FailureKeeps ==
  ASSUME BreakerInv, OnFailure
  PROVE  /\ breaker' \in Breakers /\ silent' = FALSE /\ BreakerFields'
         /\ breakerFaults' \in 0 .. MaxBreakerFaults
  <1>1. breaker \in Breakers /\ breaker.failures \in Nat
    BY BreakerAssumption DEF BreakerInv, BreakerTypeOK, Breakers
  <1>2. /\ silent' = FALSE
        /\ breakerFaults' \in 0 .. MaxBreakerFaults
    BY BreakerAssumption DEF OnFailure, BreakerInv, BreakerTypeOK
  <1>3. Opened(FailureThreshold) \in Breakers
    BY BreakerAssumption DEF Opened, Breakers, BreakerStates
  <1>4. CASE breaker.state = "open"
    BY <1>1, <1>2, <1>4 DEF OnFailure, BreakerInv, BreakerFields
  <1>5. CASE breaker.state # "open" /\ breaker' = Opened(FailureThreshold)
    BY <1>2, <1>3, <1>5 DEF Opened, BreakerFields
  <1>6. CASE breaker.state = "closed" /\ breaker.failures + 1 < FailureThreshold
    <2>1. breaker' = [breaker EXCEPT !.failures = breaker.failures + 1]
      BY <1>1, <1>6, BreakerAssumption DEF OnFailure
    <2>2. /\ breaker'.state = "closed" /\ breaker'.failures = breaker.failures + 1
          /\ breaker'.halfOpenRemaining = breaker.halfOpenRemaining
          /\ breaker'.due = breaker.due
      BY <1>1, <1>6, <2>1 DEF Breakers
    <2>3. breaker' \in Breakers
      BY <1>1, <1>6, <2>1, BreakerAssumption DEF Breakers
    <2> QED
      BY <1>2, <1>6, <2>2, <2>3 DEF BreakerInv, BreakerFields
  <1>7. breaker.state # "open" =>
          \/ breaker' = Opened(FailureThreshold)
          \/ breaker.state = "closed" /\ breaker.failures + 1 < FailureThreshold
    <2>1. CASE breaker.state = "half-open"
      BY <2>1 DEF OnFailure, BreakerInv, BreakerFields
    <2>2. CASE breaker.state = "closed"
      <3>1. breaker.failures < FailureThreshold
        BY <2>2 DEF BreakerInv, BreakerFields
      <3>2. CASE breaker.failures + 1 >= FailureThreshold
        <4>1. breaker.failures + 1 = FailureThreshold
          BY <1>1, <3>1, <3>2, BreakerAssumption
        <4> QED
          BY <2>2, <3>2, <4>1 DEF OnFailure
      <3> QED
        BY <1>1, <2>2, <3>2, BreakerAssumption
    <2> QED
      BY <1>1, <2>1, <2>2 DEF Breakers, BreakerStates
  <1> QED
    BY <1>4, <1>5, <1>6, <1>7

\* For any checks that overlap, whatever they report and in whatever state they
\* find the breaker: its fields fit its state.  A closed breaker is one failure or
\* more from opening, and a half-open one has let at least one probe through
\* (Allow, OnFailure, OnSuccess).
THEOREM BreakerInvariant == BreakerSpec => []BreakerInv
  <1>1. BreakerInit => BreakerInv
    <2> SUFFICES ASSUME BreakerInit PROVE BreakerInv
      OBVIOUS
    <2>1. breaker = Closed /\ Closed \in Breakers
      BY BreakerAssumption DEF BreakerInit, Closed, Breakers, BreakerStates
    <2>2. BreakerFields /\ SilentHalfOpen
      <3>1. /\ breaker.state = "closed" /\ breaker.failures = 0
            /\ breaker.halfOpenRemaining = 0 /\ breaker.due = FALSE
        BY <2>1 DEF Closed
      <3>2. 0 < FailureThreshold
        BY BreakerAssumption
      <3>3. BreakerFields
        BY <3>1, <3>2 DEF BreakerFields
      <3>4. SilentHalfOpen
        BY DEF BreakerInit, SilentHalfOpen
      <3> QED
        BY <3>3, <3>4
    <2>3. BreakerTypeOK
      <3>1. check \in [Checks -> {"idle", "plain", "status", "reserve"}] /\ silent \in BOOLEAN
        BY DEF BreakerInit
      <3>2. breakerFaults \in 0 .. MaxBreakerFaults
        BY BreakerAssumption DEF BreakerInit
      <3> QED
        BY <2>1, <3>1, <3>2 DEF BreakerTypeOK, Breakers
    <2> QED
      BY <2>2, <2>3 DEF BreakerInv
  <1>2. BreakerInv /\ [BreakerNext]_breakerVars => BreakerInv'
    <2> SUFFICES ASSUME BreakerInv, [BreakerNext]_breakerVars
                 PROVE  BreakerInv'
      OBVIOUS
    <2>1. /\ breaker \in Breakers /\ silent \in BOOLEAN
          /\ check \in [Checks -> {"idle", "plain", "status", "reserve"}]
          /\ breakerFaults \in 0 .. MaxBreakerFaults
          /\ BreakerFields /\ SilentHalfOpen
      BY DEF BreakerInv, BreakerTypeOK, Breakers
    <2>2. ASSUME /\ breaker' \in Breakers /\ silent' \in BOOLEAN
                 /\ check' \in [Checks -> {"idle", "plain", "status", "reserve"}]
                 /\ breakerFaults' \in 0 .. MaxBreakerFaults
                 /\ BreakerFields' /\ SilentHalfOpen'
          PROVE  BreakerInv'
      BY <2>2 DEF BreakerInv, BreakerTypeOK, Breakers
    <2>3. ASSUME NEW c \in Checks, NEW kind \in {"plain", "status"}, BeginCheck(c, kind)
          PROVE  BreakerInv'
      <3>1. Allow /\ check' = [check EXCEPT ![c] = kind] /\ breakerFaults' = breakerFaults
        BY <2>3 DEF BeginCheck, Proceeds
      <3> QED
        BY <2>1, <2>2, <3>1, AllowKeeps
    <2>4. ASSUME NEW c \in Checks, CallFails(c)
          PROVE  BreakerInv'
      <3>1. OnFailure /\ check' = [check EXCEPT ![c] = "idle"]
        BY <2>4 DEF CallFails, Proceeds
      <3>2. silent' = FALSE /\ breaker' \in Breakers /\ BreakerFields'
            /\ breakerFaults' \in 0 .. MaxBreakerFaults
        BY <3>1, FailureKeeps
      <3>3. SilentHalfOpen'
        BY <3>2 DEF SilentHalfOpen
      <3> QED
        BY <2>1, <2>2, <3>1, <3>2, <3>3
    <2>5. ASSUME NEW c \in Checks, Answered(c)
          PROVE  BreakerInv'
      <3>1. /\ breaker' = Closed /\ silent' = FALSE /\ breakerFaults' = breakerFaults
            /\ \/ check' = [check EXCEPT ![c] = "idle"]
               \/ check' = [check EXCEPT ![c] = "reserve"]
        BY <2>5 DEF Answered, OnSuccess, Proceeds
      <3>2. Closed \in Breakers
        BY BreakerAssumption DEF Closed, Breakers, BreakerStates
      <3>3. BreakerFields'
        <4>1. /\ breaker'.state = "closed" /\ breaker'.failures = 0
              /\ breaker'.halfOpenRemaining = 0 /\ breaker'.due = FALSE
          BY <3>1 DEF Closed
        <4>2. 0 < FailureThreshold
          BY BreakerAssumption
        <4> QED
          BY <4>1, <4>2 DEF BreakerFields
      <3>4. SilentHalfOpen' /\ silent' \in BOOLEAN
        BY <3>1 DEF SilentHalfOpen
      <3> QED
        BY <2>1, <2>2, <3>1, <3>2, <3>3, <3>4
    <2>6. ASSUME NEW c \in Checks, ReservesNothing(c) \/ Reserved(c)
          PROVE  BreakerInv'
      <3>1. /\ UNCHANGED <<breaker, breakerFaults>> /\ check' = [check EXCEPT ![c] = "idle"]
            /\ silent' = silent \/ silent' = (silent \/ breaker.state = "half-open")
        BY <2>6 DEF ReservesNothing, Reserved, Proceeds
      <3>2. BreakerFields'
        BY <2>1, <3>1 DEF BreakerFields
      <3>3. silent' \in BOOLEAN
        BY <2>1, <3>1
      <3>4. SilentHalfOpen'
        BY <2>1, <3>1 DEF SilentHalfOpen
      <3> QED
        BY <2>1, <2>2, <3>1, <3>2, <3>3, <3>4
    <2>7. CASE ResetTimeoutPasses
      <3>1. /\ breaker.state = "open" /\ breaker' = [breaker EXCEPT !.due = TRUE]
            /\ UNCHANGED <<check, silent, breakerFaults>>
        BY <2>7 DEF ResetTimeoutPasses
      <3>2. breaker' \in Breakers
        BY <2>1, <3>1 DEF Breakers
      <3>3. /\ breaker'.state = "open" /\ breaker'.failures = breaker.failures
            /\ breaker'.halfOpenRemaining = breaker.halfOpenRemaining
        BY <2>1, <3>1 DEF Breakers
      <3>4. BreakerFields' /\ SilentHalfOpen'
        BY <2>1, <3>1, <3>3 DEF BreakerFields, SilentHalfOpen
      <3> QED
        BY <2>1, <2>2, <3>1, <3>2, <3>4
    <2>8. CASE UNCHANGED breakerVars
      BY <2>1, <2>2, <2>8 DEF breakerVars, BreakerFields, SilentHalfOpen
    <2> QED
      BY <2>3, <2>4, <2>5, <2>6, <2>7, <2>8 DEF BreakerNext, BeginChecks, EndCheck
  <1> QED
    BY <1>1, <1>2, PTL DEF BreakerSpec

\* Every variable of the breaker has its type, and no counter passes its bound.
THEOREM BreakerTypeCorrect == BreakerSpec => []BreakerTypeOK
  <1>1. BreakerInv => BreakerTypeOK
    BY DEF BreakerInv
  <1> QED
    BY <1>1, BreakerInvariant, PTL

\* A half-open breaker, which lets nobody through once its probes are used up, is
\* waiting for somebody: a check it let through has still to report, unless one
\* of them ended without a report.
ProbeIsOut ==
  breaker.state = "half-open" /\ ~silent =>
    \E c \in Checks : check[c] \in {"plain", "status"}

\* A half-open breaker is never left with nobody to close or open it, however
\* checks overlap and whatever they report, but for a probe that reports nothing:
\* the safety that the breaker's part of MadeGood rests on (Allow, OnSuccess,
\* OnFailure, CheckBillingEligibility).
THEOREM BreakerNotStuck == BreakerSpec => []ProbeIsOut
  <1>1. BreakerInit => ProbeIsOut
    BY DEF BreakerInit, Closed, ProbeIsOut
  <1>2. BreakerInv /\ ProbeIsOut /\ [BreakerNext]_breakerVars => ProbeIsOut'
    <2> SUFFICES ASSUME BreakerInv, ProbeIsOut, [BreakerNext]_breakerVars,
                        breaker'.state = "half-open", ~silent'
                 PROVE  \E c \in Checks : check'[c] \in {"plain", "status"}
      BY DEF ProbeIsOut
    <2>1. breaker \in Breakers /\ check \in [Checks -> {"idle", "plain", "status", "reserve"}]
      BY DEF BreakerInv, BreakerTypeOK, Breakers
    <2>2. ASSUME NEW c \in Checks, NEW kind \in {"plain", "status"}, BeginCheck(c, kind)
          PROVE  check'[c] \in {"plain", "status"}
      BY <2>1, <2>2 DEF BeginCheck, Proceeds
    <2>3. ASSUME NEW c \in Checks, EndCheck(c)
          PROVE  /\ check[c] = "reserve" /\ UNCHANGED <<breaker, silent>>
                 /\ \A d \in Checks \ {c} : check'[d] = check[d]
      <3>1. ~Answered(c)
        BY DEF Answered, OnSuccess, Closed
      <3>2. ~CallFails(c)
        <4>1. ASSUME OnFailure PROVE FALSE
          <5>1. CASE breaker.state = "open"
            BY <4>1, <5>1 DEF OnFailure
          <5>2. CASE breaker.state = "half-open"
            BY <4>1, <5>2 DEF OnFailure, Opened
          <5>3. CASE breaker.state = "closed" /\ breaker.failures + 1 >= FailureThreshold
            BY <4>1, <5>3 DEF OnFailure, Opened
          <5>4. CASE breaker.state = "closed" /\ ~(breaker.failures + 1 >= FailureThreshold)
            <6>1. breaker' = [breaker EXCEPT !.failures = breaker.failures + 1]
              BY <4>1, <5>4 DEF OnFailure
            <6>2. breaker'.state = breaker.state
              BY <2>1, <6>1 DEF Breakers
            <6> QED
              BY <5>4, <6>2
          <5> QED
            BY <2>1, <5>1, <5>2, <5>3, <5>4 DEF Breakers, BreakerStates
        <4> QED
          BY <4>1 DEF CallFails
      <3>3. ~ReservesNothing(c)
        BY DEF ReservesNothing
      <3>4. Reserved(c)
        BY <2>3, <3>1, <3>2, <3>3 DEF EndCheck
      <3> QED
        BY <2>1, <3>4 DEF Reserved, Proceeds
    <2>4. CASE ResetTimeoutPasses
      <3>1. breaker.state = "open" /\ breaker' = [breaker EXCEPT !.due = TRUE]
        BY <2>4 DEF ResetTimeoutPasses
      <3> QED
        BY <2>1, <3>1 DEF Breakers
    <2>5. CASE UNCHANGED breakerVars
      BY <2>5 DEF breakerVars, ProbeIsOut
    <2>6. ASSUME NEW c \in Checks, EndCheck(c)
          PROVE  \E d \in Checks : check'[d] \in {"plain", "status"}
      <3>1. PICK d \in Checks : check[d] \in {"plain", "status"}
        BY <2>3, <2>6 DEF ProbeIsOut
      <3>2. d # c /\ check'[d] = check[d]
        BY <2>3, <2>6, <3>1
      <3> QED
        BY <3>1, <3>2
    <2> QED
      BY <2>2, <2>4, <2>5, <2>6 DEF BreakerNext, BeginChecks
  <1> QED
    BY <1>1, <1>2, BreakerInvariant, PTL DEF BreakerSpec

-----------------------------------------------------------------------------
(* MCServices *)

\* Whatever a behaviour of the run is about, it is a behaviour of each component:
\* a step of a part is a step of the component, and the others do not see it.
THEOREM ServicesParts ==
  Spec => SnapshotSpec /\ TokenSpec /\ AuthSpec /\ CleanupSpec /\ BreakerSpec
  <1>1. Init => SnapshotInit /\ TokenInit /\ AuthInit /\ CleanupInit /\ BreakerInit
    BY DEF Init
  <1>2. ASSUME [Next]_allVars
        PROVE  /\ [SnapshotNext]_snapshotVars
               /\ [TokenNext]_tokenVars
               /\ [AuthNext]_authVars
               /\ [CleanupNext]_cleanupVars
               /\ [BreakerNext]_breakerVars
    BY <1>2 DEF Next, allVars, NotSnapshot, NotTokens, NotAuth, NotCleanup, NotBreaker
  <1> QED
    BY <1>1, <1>2, PTL DEF Spec, SnapshotSpec, TokenSpec, AuthSpec, CleanupSpec, BreakerSpec

\* Every variable of the run has its type, and no counter passes its bound, in
\* each of its parts.
THEOREM ServicesTypeCorrect == Spec => []TypeOK
  <1>1. SnapshotTypeOK /\ TokenTypeOK /\ AuthTypeOK /\ CleanupTypeOK /\ BreakerTypeOK => TypeOK
    BY DEF TypeOK
  <1> QED
    BY <1>1, ServicesParts, SnapshotTypeCorrect, TokenTypeCorrect, AuthTypeCorrect,
       CleanupTypeCorrect, BreakerTypeCorrect, PTL
=============================================================================
