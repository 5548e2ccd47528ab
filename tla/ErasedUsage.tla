---------------------------- MODULE ErasedUsage ----------------------------
(***************************************************************************)
(* BillingLedger when a cleanup task deletes usage logs.  The foreign keys *)
(* of the ledger entry and of the referral commission cascade, so what     *)
(* tells a replay that a request has been charged is gone with its log:    *)
(* from then on only the place of its spool file does.                     *)
(***************************************************************************)
EXTENDS BillingLedger

CONSTANT MaxErasures  \* bound: deletions of the usage log of a request

VARIABLES
  erasures,  \* how often the usage log of a request was deleted
  early      \* requests whose log was deleted before they were settled

eraseVars == <<erasures, early>>

EraseTypeOK ==
  /\ TypeOK
  /\ erasures \in [Requests -> Nat]
  /\ early \subseteq Requests

EraseInit ==
  /\ Init
  /\ erasures = [r \in Requests |-> 0]
  /\ early = {}

\* No call, no spooled event and no drainer has still to do with the request.
Settled(r) ==
  /\ entry[r] = "applied"
  /\ \A c \in Calls :
       ReqOf[c] = r =>
         /\ pc[c] \notin {"idle", "create", "spool", "begin", "locked"}
         /\ spool[c] \notin {"pending", "processing"}
         /\ \A d \in Drainers : file[d] # c

\* DELETE FROM usage_logs: it waits for the lock on the entry.
EraseUsageLog(r) ==
  /\ r \in usageLog
  /\ rowLock[r] = Nobody
  /\ erasures[r] < MaxErasures
  /\ usageLog' = usageLog \ {r}
  /\ entry' = [entry EXCEPT ![r] = "none"]
  /\ commission' = commission \ {r}
  /\ erasures' = [erasures EXCEPT ![r] = @ + 1]
  /\ early' = IF Settled(r) THEN early ELSE early \cup {r}
  /\ UNCHANGED <<moneyVars, credited, subAlive, rowLock, cacheDebit, diskVars,
                 memVars, pc, job, sawApplied, file>>

EraseNext ==
  \/ Next /\ UNCHANGED eraseVars
  \/ \E r \in Requests : EraseUsageLog(r)

EraseSpec == EraseInit /\ [][EraseNext]_<<vars, eraseVars>>

\* Every deletion of a usage log opens the way to one more charge of its request
\* at most; when the request was settled by then, to none: no drainer that an
\* instance's recovery has overtaken, and no file that recovery has moved,
\* charges it again, and what it was charged is its cost (DeleteUsageLogsBatch,
\* applyEventWithDB, recoverProcessing).
ErasedIsNotChargedAgain ==
  \A r \in Requests :
    /\ charged[r] <= (1 + erasures[r]) * Cost[r]
    /\ erasures[r] > 0 /\ r \notin early =>
         charged[r] = Cost[r] \/ (charged[r] = 0 /\ ~Chargeable(r))
=============================================================================
