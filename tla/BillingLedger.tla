--------------------------- MODULE BillingLedger ---------------------------
(***************************************************************************)
(* How one upstream response becomes one charge.                           *)
(*                                                                         *)
(* Three kinds of worker race on the same PostgreSQL ledger rows:          *)
(*   - a call is one RecordUsage goroutine of a gateway instance;          *)
(*   - a drainer is the BillingSpoolService loop of an instance, which     *)
(*     replays the events that RecordUsage wrote to disk because the       *)
(*     usage_logs insert failed;                                           *)
(*   - a reconciler is the BillingReconcileService loop of an instance,    *)
(*     which applies ledger entries left with applied = FALSE.             *)
(* Instances crash and restart, a commit may take effect and still be      *)
(* reported as an error, and the instances may share one spool directory.  *)
(*                                                                         *)
(* Money is kept per request: `balance = balance - x`, `daily_usage_usd +  *)
(* x` and `quota_used_usd + x` are commutative SQL increments, so a column *)
(* is its initial value and the sum over the requests of what their        *)
(* statements moved.                                                       *)
(***************************************************************************)
EXTENDS Naturals, FiniteSets

CONSTANTS
  Requests,     \* (request_id, api_key_id) pairs: the key of usage_logs
  Calls,        \* RecordUsage goroutines
  Drainers,     \* BillingSpoolService loops, one per instance
  Reconcilers,  \* BillingReconcileService loops, one per instance
  Instances,    \* gateway processes
  ReqOf,        \* the request a call records
  HostOf,       \* the instance a worker runs on
  Kind,         \* "balance" or "subscription" billing of a request
  Cost,         \* deltaUSD of a request
  BatchSize,    \* billing.reconcile.batch_size
  SpoolBatch,   \* billing.spool.batch_size
  Legacy,       \* requests whose entry an older release left with applied = FALSE
  MaxCrashes,   \* bound: crashes in one behaviour
  MaxDrift,     \* bound: requests whose quota update fails
  Nobody, NoFile

Workers == Calls \cup Drainers \cup Reconcilers

ASSUME LedgerAssumption ==
  /\ ReqOf \in [Calls -> Requests]
  /\ HostOf \in [Workers -> Instances]
  /\ Kind \in [Requests -> {"balance", "subscription"}]
  /\ Cost \in [Requests -> Nat]
  /\ BatchSize \in Nat \ {0}
  /\ SpoolBatch \in Nat \ {0}
  /\ IsFiniteSet(Calls)
  /\ Legacy \subseteq {r \in Requests : Cost[r] > 0}
  /\ MaxCrashes \in Nat
  /\ MaxDrift \in Nat
  /\ Nobody \notin Workers
  /\ NoFile \notin Calls
  /\ Calls \cap Drainers = {}
  /\ Calls \cap Reconcilers = {}
  /\ Drainers \cap Reconcilers = {}

VARIABLES
  \* PostgreSQL, committed state
  usageLog,    \* requests with a usage_logs row
  entry,       \* billing_usage_entries: "none", "unapplied" or "applied"
  charged,     \* what DeductBalance / IncrementUsage moved for the request
  quotaUsed,   \* what AddQuotaUsedUsd added to the API key for the request
  commission,  \* requests with a referral_commissions row
  credited,    \* how often the inviter's balance was credited for the request
  subAlive,    \* the subscription and its group are not deleted
  rowLock,     \* holder of the row lock on the ledger entry
  \* Redis side: cache adjustments handed to BillingCacheService
  cacheDebit,
  \* the spool directory, one file per call at most
  spool,
  stamp,       \* rank of the file's name, which begins with the time of Enqueue
  \* process memory
  up,          \* running instances
  crashes,
  pc,
  job,         \* requests in the worker's transaction or follow-up
  sawApplied,  \* `applied` as read by SELECT ... FOR UPDATE
  file         \* the event a drainer has claimed

dbVars == <<usageLog, entry, charged, quotaUsed, commission, credited, subAlive>>
moneyVars == <<charged, quotaUsed>>
diskVars == <<spool, stamp>>
memVars == <<up, crashes>>
vars == <<usageLog, entry, charged, quotaUsed, commission, credited, subAlive,
          rowLock, cacheDebit, spool, stamp, up, crashes, pc, job, sawApplied, file>>

EntryState == {"none", "unapplied", "applied"}
FileState  == {"none", "pending", "processing", "done", "bad"}
Label == {"idle", "create", "spool", "begin", "read", "apply", "locked", "cache",
          "commission", "requeue", "finish", "done", "failed", "dead"}

TypeOK ==
  /\ usageLog \subseteq Requests
  /\ entry \in [Requests -> EntryState]
  /\ charged \in [Requests -> Nat]
  /\ quotaUsed \in [Requests -> Nat]
  /\ commission \subseteq Requests
  /\ credited \in [Requests -> Nat]
  /\ subAlive \in BOOLEAN
  /\ rowLock \in [Requests -> Workers \cup {Nobody}]
  /\ cacheDebit \in [Requests -> Nat]
  /\ spool \in [Calls -> FileState]
  /\ stamp \in [Calls -> Nat]
  /\ up \subseteq Instances
  /\ crashes \in Nat
  /\ pc \in [Workers -> Label]
  /\ job \in [Workers -> SUBSET Requests]
  /\ sawApplied \in [Workers -> BOOLEAN]
  /\ file \in [Drainers -> Calls \cup {NoFile}]

Init ==
  /\ usageLog = Legacy
  /\ entry = [r \in Requests |-> IF r \in Legacy THEN "unapplied" ELSE "none"]
  /\ charged = [r \in Requests |-> 0]
  /\ quotaUsed = [r \in Requests |-> 0]
  /\ commission = {}
  /\ credited = [r \in Requests |-> 0]
  /\ subAlive = TRUE
  /\ rowLock = [r \in Requests |-> Nobody]
  /\ cacheDebit = [r \in Requests |-> 0]
  /\ spool = [c \in Calls |-> "none"]
  /\ stamp = [c \in Calls |-> 0]
  /\ up = Instances
  /\ crashes = 0
  /\ pc = [w \in Workers |-> "idle"]
  /\ job = [w \in Workers |-> {}]
  /\ sawApplied = [w \in Workers |-> FALSE]
  /\ file = [d \in Drainers |-> NoFile]

-----------------------------------------------------------------------------
(* Pieces of a transaction *)

At(w, l) == pc[w] = l /\ HostOf[w] \in up
Goto(w, l) == pc' = [pc EXCEPT ![w] = l]

\* DeductBalance always finds its row; IncrementUsage returns
\* ErrSubscriptionNotFound once the subscription or its group is deleted.
Chargeable(r) == Kind[r] = "balance" \/ subAlive

\* AddQuotaUsedUsd on the API key of each request of S.
CountQuota(S) ==
  quotaUsed' = [r \in Requests |-> IF r \in S THEN quotaUsed[r] + Cost[r] ELSE quotaUsed[r]]

Drifted == {r \in Requests : quotaUsed[r] # charged[r]}

\* DeductBalance or IncrementUsage, then AddQuotaUsedUsd, whose error is only
\* logged: the charge commits and the quota of that request stays behind.
Charge(S) ==
  /\ charged' = [r \in Requests |-> IF r \in S THEN charged[r] + Cost[r] ELSE charged[r]]
  /\ \E missed \in SUBSET S :
       /\ Cardinality(Drifted) + Cardinality(missed) <= MaxDrift
       /\ CountQuota(S \ missed)

SetEntries(S, state) ==
  entry' = [r \in Requests |-> IF r \in S THEN state ELSE entry[r]]

\* Mutant of LockEntry: SELECT applied without FOR UPDATE.
LockEntryUnlocked(w, r) ==
  /\ UNCHANGED rowLock
  /\ sawApplied' = [sawApplied EXCEPT ![w] = (entry[r] = "applied")]
  /\ job' = [job EXCEPT ![w] = {r}]

\* CreateBillingUsageEntry (insert or find the row) and SELECT applied FOR
\* UPDATE: a second transaction waits on the unique index or on the row lock.
LockEntry(w, r) ==
  /\ rowLock[r] = Nobody
  /\ rowLock' = [rowLock EXCEPT ![r] = w]
  /\ sawApplied' = [sawApplied EXCEPT ![w] = (entry[r] = "applied")]
  /\ job' = [job EXCEPT ![w] = {r}]

\* Commit or rollback: the transaction's row locks are gone.
EndTx(w, rest) ==
  /\ rowLock' = [r \in Requests |-> IF rowLock[r] = w THEN Nobody ELSE rowLock[r]]
  /\ job' = [job EXCEPT ![w] = rest]
  /\ UNCHANGED sawApplied

-----------------------------------------------------------------------------
(* RecordUsage *)

\* A request has been forwarded; its handler starts the RecordUsage goroutine.
CallStart(c) ==
  /\ At(c, "idle")
  /\ Goto(c, "create")
  /\ UNCHANGED <<dbVars, rowLock, cacheDebit, diskVars, memVars, job, sawApplied, file>>

\* usageLogRepo.Create outside any transaction: ON CONFLICT DO NOTHING.  The
\* error branch may or may not have inserted the row (timeout after commit).
CallCreateLog(c) ==
  LET r == ReqOf[c] IN
  /\ At(c, "create")
  /\ \/ /\ usageLog' = usageLog \cup {r}
        /\ Goto(c, IF Cost[r] > 0 THEN "begin" ELSE "done")
     \/ /\ usageLog' \in {usageLog, usageLog \cup {r}}
        /\ Goto(c, IF Cost[r] > 0 THEN "spool" ELSE "failed")
  /\ UNCHANGED <<entry, moneyVars, commission, credited, subAlive, rowLock,
                 cacheDebit, diskVars, memVars, job, sawApplied, file>>

\* billingSpoolService.Enqueue: write a temporary file and rename it.  On
\* failure RecordUsage returns the create error.
CallEnqueue(c) ==
  /\ At(c, "spool")
  /\ \/ /\ spool' = [spool EXCEPT ![c] = "pending"]
        /\ stamp' = [stamp EXCEPT ![c] = 1 + Cardinality({b \in Calls : spool[b] # "none"})]
        /\ Goto(c, "done")
     \/ /\ Goto(c, "failed")
        /\ UNCHANGED diskVars
  /\ UNCHANGED <<dbVars, rowLock, cacheDebit, memVars, job, sawApplied, file>>

\* The entry refers to its usage log.
CallLock(c) ==
  /\ At(c, "begin")
  /\ ReqOf[c] \in usageLog
  /\ LockEntry(c, ReqOf[c])
  /\ Goto(c, "locked")
  /\ UNCHANGED <<dbVars, cacheDebit, diskVars, memVars, file>>

\* Mutant of CallBillingFails: appliedThisCall is not reset when the commit fails.
CallFailsButFollowsUp(c) ==
  /\ At(c, "begin") \/ At(c, "locked")
  /\ EndTx(c, {ReqOf[c]})
  /\ Goto(c, "commission")
  /\ UNCHANGED <<dbVars, cacheDebit, diskVars, memVars, file>>

\* Begin, the insert, the row lock, a statement or the commit fails: logged,
\* the transaction is rolled back and RecordUsage still returns nil.
CallBillingFails(c) ==
  /\ At(c, "begin") \/ At(c, "locked")
  /\ EndTx(c, {})
  /\ Goto(c, "done")
  /\ UNCHANGED <<dbVars, cacheDebit, diskVars, memVars, file>>

\* Mutant of CallAlreadyApplied: the follow-up ignores that another worker billed.
CallAlreadyAppliedFollowsUp(c) ==
  /\ At(c, "locked")
  /\ sawApplied[c]
  /\ EndTx(c, {ReqOf[c]})
  /\ Goto(c, "cache")
  /\ UNCHANGED <<dbVars, cacheDebit, diskVars, memVars, file>>

CallAlreadyApplied(c) ==
  /\ At(c, "locked")
  /\ sawApplied[c]
  /\ EndTx(c, {})
  /\ Goto(c, "done")
  /\ UNCHANGED <<dbVars, cacheDebit, diskVars, memVars, file>>

\* IncrementUsage found no row: the entry is committed with applied = FALSE.
CallSubscriptionGone(c) ==
  /\ At(c, "locked")
  /\ ~sawApplied[c]
  /\ ~Chargeable(ReqOf[c])
  /\ SetEntries({ReqOf[c]}, "unapplied")
  /\ EndTx(c, {})
  /\ Goto(c, "done")
  /\ UNCHANGED <<usageLog, moneyVars, commission, credited, subAlive, cacheDebit,
                 diskVars, memVars, file>>

\* Mutant of CallCommit: `applied` is read but not tested.
CallCommitAgain(c) ==
  /\ At(c, "locked")
  /\ Chargeable(ReqOf[c])
  /\ SetEntries({ReqOf[c]}, "applied")
  /\ Charge({ReqOf[c]})
  /\ EndTx(c, {})
  /\ Goto(c, "done")
  /\ UNCHANGED <<usageLog, commission, credited, subAlive, cacheDebit, diskVars,
                 memVars, file>>

\* The charge commits.  When the commit is reported as failed although it took
\* effect, appliedThisCall is reset and the follow-up is skipped.
CallCommit(c) ==
  /\ At(c, "locked")
  /\ ~sawApplied[c]
  /\ Chargeable(ReqOf[c])
  /\ SetEntries({ReqOf[c]}, "applied")
  /\ Charge({ReqOf[c]})
  /\ \/ Goto(c, "cache") /\ EndTx(c, {ReqOf[c]})
     \/ Goto(c, "done")  /\ EndTx(c, {})
  /\ UNCHANGED <<usageLog, commission, credited, subAlive, cacheDebit, diskVars,
                 memVars, file>>

-----------------------------------------------------------------------------
(* BillingSpoolService.DrainOnce and applyEventWithDB *)

\* listPendingFiles sorts by name and one pass takes the oldest SpoolBatch files.
PendingBatch ==
  LET pending == {c \in Calls : spool[c] = "pending"} IN
  {c \in pending : Cardinality({b \in pending : stamp[b] < stamp[c]}) < SpoolBatch}

\* Rename pending -> processing: exactly one drainer of a shared directory wins.
DrainClaim(d, c) ==
  /\ At(d, "idle")
  /\ c \in PendingBatch
  /\ spool' = [spool EXCEPT ![c] = "processing"]
  /\ file' = [file EXCEPT ![d] = c]
  /\ Goto(d, "read")
  /\ UNCHANGED <<dbVars, rowLock, cacheDebit, stamp, memVars, job, sawApplied>>

DrainRead(d) ==
  /\ At(d, "read")
  /\ spool[file[d]] = "processing"
  /\ Goto(d, "apply")
  /\ UNCHANGED <<dbVars, rowLock, cacheDebit, diskVars, memVars, job, sawApplied, file>>

\* A rename out of processing/ is a no-op when the file is no longer there.
MoveFile(d, state) ==
  /\ spool' = IF spool[file[d]] = "processing"
              THEN [spool EXCEPT ![file[d]] = state] ELSE spool
  /\ file' = [file EXCEPT ![d] = NoFile]
  /\ UNCHANGED stamp

\* A failed read or parse: the file is set aside as *.bad and never retried.
DrainUnreadable(d) ==
  /\ At(d, "read")
  /\ MoveFile(d, "bad")
  /\ Goto(d, "idle")
  /\ UNCHANGED <<dbVars, rowLock, cacheDebit, memVars, job, sawApplied>>

DrainLock(d) ==
  /\ At(d, "apply")
  /\ LockEntry(d, ReqOf[file[d]])
  /\ Goto(d, "locked")
  /\ UNCHANGED <<dbVars, cacheDebit, diskVars, memVars, file>>

\* Mutant of DrainFails: a failed replay sets the file aside as done.
DrainFailsIntoDone(d) ==
  /\ At(d, "apply") \/ At(d, "locked")
  /\ EndTx(d, {})
  /\ Goto(d, "finish")
  /\ UNCHANGED <<dbVars, cacheDebit, diskVars, memVars, file>>

\* Any error of the transaction, ErrSubscriptionNotFound included.
DrainFails(d) ==
  /\ At(d, "apply") \/ At(d, "locked")
  /\ EndTx(d, {})
  /\ Goto(d, "requeue")
  /\ UNCHANGED <<dbVars, cacheDebit, diskVars, memVars, file>>

\* Mutant of DrainAlreadyApplied: the quota update has slipped out of the branch
\* of the charge.
DrainAlreadyAppliedCounts(d) ==
  /\ At(d, "locked")
  /\ sawApplied[d]
  /\ usageLog' = usageLog \cup {ReqOf[file[d]]}
  /\ CountQuota({ReqOf[file[d]]})
  /\ EndTx(d, {})
  /\ Goto(d, "finish")
  /\ UNCHANGED <<entry, charged, commission, credited, subAlive, cacheDebit,
                 diskVars, memVars, file>>

DrainAlreadyApplied(d) ==
  /\ At(d, "locked")
  /\ sawApplied[d]
  /\ usageLog' = usageLog \cup {ReqOf[file[d]]}
  /\ EndTx(d, {})
  /\ Goto(d, "finish")
  /\ UNCHANGED <<entry, moneyVars, commission, credited, subAlive, cacheDebit,
                 diskVars, memVars, file>>

\* Mutant of DrainCommit: the replay charges without testing `applied`.
DrainCommitAgain(d) ==
  LET r == ReqOf[file[d]] IN
  /\ At(d, "locked")
  /\ Chargeable(r)
  /\ usageLog' = usageLog \cup {r}
  /\ SetEntries({r}, "applied")
  /\ Charge({r})
  /\ Goto(d, "requeue")
  /\ EndTx(d, {})
  /\ UNCHANGED <<commission, credited, subAlive, cacheDebit, diskVars, memVars, file>>

\* Usage log, ledger entry and charge commit together; a commit reported as
\* failed although it took effect sends the file back to pending.
DrainCommit(d) ==
  LET r == ReqOf[file[d]] IN
  /\ At(d, "locked")
  /\ ~sawApplied[d]
  /\ Chargeable(r)
  /\ usageLog' = usageLog \cup {r}
  /\ SetEntries({r}, "applied")
  /\ Charge({r})
  /\ \/ Goto(d, "cache")   /\ EndTx(d, {r})
     \/ Goto(d, "requeue") /\ EndTx(d, {})
  /\ UNCHANGED <<commission, credited, subAlive, cacheDebit, diskVars, memVars, file>>

DrainRequeue(d) ==
  /\ At(d, "requeue")
  /\ MoveFile(d, "pending")
  /\ Goto(d, "idle")
  /\ UNCHANGED <<dbVars, rowLock, cacheDebit, memVars, job, sawApplied>>

DrainFinish(d) ==
  /\ At(d, "finish")
  /\ MoveFile(d, "done")
  /\ Goto(d, "idle")
  /\ UNCHANGED <<dbVars, rowLock, cacheDebit, memVars, job, sawApplied>>

-----------------------------------------------------------------------------
(* BillingReconcileService.ReconcileOnce *)

Candidates == {r \in Requests : entry[r] = "unapplied" /\ rowLock[r] = Nobody}

\* SELECT ... WHERE applied = FALSE LIMIT n FOR UPDATE SKIP LOCKED.
ReconSelect(k, S) ==
  /\ At(k, "idle")
  /\ S \subseteq Candidates
  /\ S # {}
  /\ Cardinality(S) <= BatchSize
  /\ rowLock' = [r \in Requests |-> IF r \in S THEN k ELSE rowLock[r]]
  /\ sawApplied' = [sawApplied EXCEPT ![k] = FALSE]
  /\ job' = [job EXCEPT ![k] = S]
  /\ Goto(k, "locked")
  /\ UNCHANGED <<dbVars, cacheDebit, diskVars, memVars, file>>

\* Mutant of ReconCommit: orphans are skipped instead of marked.
ReconCommitSkipsOrphans(k) ==
  LET paid == {r \in job[k] : Chargeable(r)} IN
  /\ At(k, "locked")
  /\ SetEntries(paid, "applied")
  /\ Charge(paid)
  /\ EndTx(k, {})
  /\ Goto(k, "idle")
  /\ UNCHANGED <<usageLog, commission, credited, subAlive, cacheDebit, diskVars,
                 memVars, file>>

\* Every candidate is marked applied; one whose subscription is gone is an
\* orphan, marked without a charge.
ReconCommit(k) ==
  LET paid == {r \in job[k] : Chargeable(r)} IN
  /\ At(k, "locked")
  /\ SetEntries(job[k], "applied")
  /\ Charge(paid)
  /\ \/ Goto(k, IF paid = {} THEN "idle" ELSE "cache") /\ EndTx(k, paid)
     \/ Goto(k, "idle") /\ EndTx(k, {})
  /\ UNCHANGED <<usageLog, commission, credited, subAlive, cacheDebit, diskVars,
                 memVars, file>>

ReconFails(k) ==
  /\ At(k, "locked")
  /\ EndTx(k, {})
  /\ Goto(k, "idle")
  /\ UNCHANGED <<dbVars, cacheDebit, diskVars, memVars, file>>

-----------------------------------------------------------------------------
(* After the commit: caches, then the referral commission *)

\* QueueDeductBalance, QueueUpdateSubscriptionUsage or the finalised reservation.
UpdateCache(w) ==
  /\ At(w, "cache")
  /\ cacheDebit' = [r \in Requests |-> IF r \in job[w] THEN cacheDebit[r] + 1
                                       ELSE cacheDebit[r]]
  /\ Goto(w, "commission")
  /\ UNCHANGED <<dbVars, rowLock, diskVars, memVars, job, sawApplied, file>>

Finished(w) == IF w \in Calls THEN "done" ELSE IF w \in Drainers THEN "finish" ELSE "idle"

\* applyReferralCommissionBestEffort: INSERT ... ON CONFLICT (usage_log_id) DO
\* NOTHING and the credit of the inviter in one statement.  It may be skipped:
\* no inviter, a rate of zero, an inactive inviter or an error.
PayCommission(w, r) ==
  /\ At(w, "commission")
  /\ r \in job[w]
  /\ \/ /\ r \in usageLog
        /\ commission' = commission \cup {r}
        /\ credited' = IF r \in commission THEN credited
                       ELSE [credited EXCEPT ![r] = @ + 1]
     \/ UNCHANGED <<commission, credited>>
  /\ job' = [job EXCEPT ![w] = @ \ {r}]
  /\ Goto(w, IF job[w] = {r} THEN Finished(w) ELSE "commission")
  /\ UNCHANGED <<usageLog, entry, moneyVars, subAlive, rowLock, cacheDebit, diskVars,
                 memVars, sawApplied, file>>

-----------------------------------------------------------------------------
(* Environment *)

DeleteSubscription ==
  /\ subAlive
  /\ subAlive' = FALSE
  /\ UNCHANGED <<usageLog, entry, charged, quotaUsed, commission, credited, rowLock,
                 cacheDebit, diskVars, memVars, pc, job, sawApplied, file>>

On(i) == {w \in Workers : HostOf[w] = i}

\* The process dies: goroutines are lost, open transactions roll back, files stay.
Crash(i) ==
  /\ i \in up
  /\ crashes < MaxCrashes
  /\ crashes' = crashes + 1
  /\ up' = up \ {i}
  /\ pc' = [w \in Workers |->
              IF w \in On(i) /\ w \in Calls /\ pc[w] \notin {"idle", "done", "failed"}
              THEN "dead"
              ELSE IF w \in On(i) /\ w \notin Calls THEN "idle" ELSE pc[w]]
  /\ job' = [w \in Workers |-> IF w \in On(i) THEN {} ELSE job[w]]
  /\ rowLock' = [r \in Requests |-> IF rowLock[r] \in On(i) THEN Nobody ELSE rowLock[r]]
  /\ file' = [d \in Drainers |-> IF d \in On(i) THEN NoFile ELSE file[d]]
  /\ UNCHANGED <<dbVars, cacheDebit, diskVars, sawApplied>>

\* Mutant of Restart: recoverProcessing is not run.
RestartWithoutRecovery(i) ==
  /\ i \in Instances \ up
  /\ up' = up \cup {i}
  /\ UNCHANGED <<dbVars, rowLock, cacheDebit, diskVars, crashes, pc, job, sawApplied, file>>

\* Mutant of Restart: files of done/ are recovered, too.
RestartReplaysDone(i) ==
  /\ i \in Instances \ up
  /\ up' = up \cup {i}
  /\ spool' = [c \in Calls |-> IF spool[c] \in {"processing", "done"} THEN "pending" ELSE spool[c]]
  /\ UNCHANGED <<dbVars, rowLock, cacheDebit, stamp, crashes, pc, job, sawApplied, file>>

\* Start: recoverProcessing moves every file of processing/ back to pending/,
\* whoever is working on it, before the loop begins.
Restart(i) ==
  /\ i \in Instances \ up
  /\ up' = up \cup {i}
  /\ spool' = [c \in Calls |-> IF spool[c] = "processing" THEN "pending" ELSE spool[c]]
  /\ UNCHANGED <<dbVars, rowLock, cacheDebit, stamp, crashes, pc, job, sawApplied, file>>

-----------------------------------------------------------------------------

CallStep(c) ==
  \/ CallCreateLog(c)
  \/ CallEnqueue(c)
  \/ CallLock(c)
  \/ CallBillingFails(c)
  \/ CallAlreadyApplied(c)
  \/ CallSubscriptionGone(c)
  \/ CallCommit(c)

CallNext(c) == CallStart(c) \/ CallStep(c)

DrainNext(d) ==
  \/ \E c \in Calls : DrainClaim(d, c)
  \/ DrainRead(d)
  \/ DrainUnreadable(d)
  \/ DrainLock(d)
  \/ DrainFails(d)
  \/ DrainAlreadyApplied(d)
  \/ DrainCommit(d)
  \/ DrainRequeue(d)
  \/ DrainFinish(d)

ReconNext(k) ==
  \/ \E S \in SUBSET Requests : ReconSelect(k, S)
  \/ ReconCommit(k)
  \/ ReconFails(k)

FollowUp(w) ==
  \/ UpdateCache(w)
  \/ \E r \in Requests : PayCommission(w, r)

Environment ==
  \/ DeleteSubscription
  \/ \E i \in Instances : Crash(i) \/ Restart(i)

Next ==
  \/ \E c \in Calls : CallNext(c)
  \/ \E d \in Drainers : DrainNext(d)
  \/ \E k \in Reconcilers : ReconNext(k)
  \/ \E w \in Workers : FollowUp(w)
  \/ Environment

Spec == Init /\ [][Next]_vars

(***************************************************************************)
(* Fairness.  A RecordUsage goroutine that has begun runs to its end or to *)
(* its 10 s deadline.  A crashed process is restarted and the two loops    *)
(* run on tickers.  The transaction of one event that is retried for ever  *)
(* on a database that recovers succeeds eventually, and a row lock that is *)
(* freed again and again is obtained (PostgreSQL queues lock waiters).     *)
(***************************************************************************)
Fairness ==
  /\ \A i \in Instances : WF_vars(Restart(i))
  /\ \A d \in Drainers :
       /\ WF_vars(DrainNext(d))
       /\ \A c \in Calls :
            /\ SF_vars(DrainClaim(d, c))
            /\ SF_vars(file[d] = c /\ DrainLock(d))
            /\ SF_vars(file[d] = c /\ (DrainCommit(d) \/ DrainAlreadyApplied(d)))
  /\ \A k \in Reconcilers :
       /\ \A r \in Requests :
            SF_vars(\E S \in SUBSET Requests : r \in S /\ ReconSelect(k, S))
       /\ SF_vars(ReconCommit(k))
  /\ \A w \in Workers : WF_vars(FollowUp(w))
  /\ \A c \in Calls : WF_vars(CallStep(c))

FairSpec == Spec /\ Fairness

-----------------------------------------------------------------------------
(* Properties *)

\* A ledger entry is applied at most once, and being applied means exactly one
\* charge of the request's cost.  Only an entry whose subscription was deleted
\* may be closed without a charge (the orphans of ReconcileOnce).
ChargedExactlyOnce ==
  \A r \in Requests :
    /\ charged[r] \in {0, Cost[r]}
    /\ charged[r] > 0 => entry[r] = "applied" /\ r \in usageLog
    /\ entry[r] = "applied" /\ charged[r] = 0 => ~Chargeable(r)

\* The quota of the API key counts a request at most once and only when it was
\* charged, whichever of the three workers race for it and however often they
\* repeat it.  It may miss a charge: AddQuotaUsedUsd may fail while the charge
\* commits, and nothing makes up for it.
QuotaCountedAtMostOnce == \A r \in Requests : quotaUsed[r] \in {0, charged[r]}

\* The caches hear of a charge at most once and never of a charge that was not
\* committed, so a cached balance is debited no more often than the database.
CacheDebitedAtMostOnce ==
  \A r \in Requests : cacheDebit[r] <= 1 /\ (cacheDebit[r] = 1 => charged[r] > 0)

\* The inviter is credited at most once per usage log and only for a charge.
CommissionAtMostOnce ==
  \A r \in Requests : credited[r] <= 1 /\ (credited[r] = 1 => charged[r] > 0)

\* A spooled event is set aside as done only when its charge is in the ledger,
\* even when a restarting instance moved the file away under its drainer.
DoneMeansApplied ==
  \A c \in Calls : spool[c] = "done" => entry[ReqOf[c]] = "applied"

\* Money moves in the step that turns the entry to applied, and an applied
\* entry is never reopened.
ChargeOnlyOnApply ==
  [][\A r \in Requests :
       /\ charged'[r] # charged[r] => entry[r] # "applied" /\ entry'[r] = "applied"
       /\ entry[r] = "applied" => entry'[r] = "applied"]_vars

\* A spooled event of a balance user is eventually charged, unless its file
\* could not be read: crashes and failed replays only delay it.
SpooledIsEventuallyCharged ==
  \A c \in Calls :
    Kind[ReqOf[c]] = "balance" /\ spool[c] \in {"pending", "processing"}
      ~> charged[ReqOf[c]] = Cost[ReqOf[c]] \/ spool[c] = "bad"

\* The reconciler closes every entry that was committed unapplied.
UnappliedIsEventuallyApplied ==
  \A r \in Requests : entry[r] = "unapplied" ~> entry[r] = "applied"

\* Every step of the workers is a settlement of the abstract ledger or a stutter.
Ledger == INSTANCE OnceOnlyBilling WITH
  verdict <- [r \in Requests |-> IF entry[r] # "applied" THEN "open"
                                 ELSE IF charged[r] > 0 THEN "charged" ELSE "waived"],
  paid <- charged,
  alive <- subAlive

\* The workers together implement once-only billing.
ImplementsOnceOnlyBilling == Ledger!Spec

-----------------------------------------------------------------------------
(* What the task documents say, and the code does not keep *)

\* "Any successful upstream forward must produce a usage log and a matching
\* billing record": a call that returned nil left a ledger entry or an event.
RecordedHasLedgerEntry ==
  \A c \in Calls :
    pc[c] = "done" /\ Cost[ReqOf[c]] > 0 =>
      entry[ReqOf[c]] # "none" \/ spool[c] # "none"
=============================================================================
