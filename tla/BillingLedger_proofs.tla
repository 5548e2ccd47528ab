------------------------ MODULE BillingLedger_proofs ------------------------
(***************************************************************************)
(* Proofs about BillingLedger for any number of requests, calls, instances *)
(* and crashes, any costs and any host assignment.                         *)
(*                                                                         *)
(* ChargedExactlyOnce is not inductive: whether a transaction may charge   *)
(* depends on what it read under its row lock.  TxInv records that: while  *)
(* a worker is at "locked" it holds the lock of every request of its job,  *)
(* and what it saw is still what the table says.  EntryInv ties the state  *)
(* of an entry to the money moved, and FollowInv says that at most one     *)
(* worker owes the follow-up of a charge.                                  *)
(***************************************************************************)
EXTENDS BillingLedger, FiniteSetTheorems, TLAPS

\* While a worker is inside a transaction it holds the lock of each of its
\* requests, and what it read under the lock is still what the table says.
LockInv ==
  \A w \in Workers : pc[w] = "locked" =>
    \A r \in job[w] : /\ rowLock[r] = w
                      /\ sawApplied[w] <=> entry[r] = "applied"

\* What a transaction is about.
JobInv ==
  /\ \A c \in Calls : pc[c] = "locked" => job[c] = {ReqOf[c]}
  /\ \A k \in Reconcilers : pc[k] = "locked" => ~sawApplied[k]

\* What the program counter of each kind of worker tells about its request.
CallInv ==
  \A c \in Calls :
    /\ pc[c] \in {"begin", "locked"} => ReqOf[c] \in usageLog
    /\ pc[c] \in {"spool", "begin", "locked"} => Cost[ReqOf[c]] > 0

DrainInv ==
  \A d \in Drainers :
    /\ pc[d] # "idle" => file[d] \in Calls /\ spool[file[d]] # "none"
    /\ pc[d] \in {"locked", "cache", "commission"} => job[d] \subseteq {ReqOf[file[d]]}
    /\ pc[d] = "locked" => job[d] = {ReqOf[file[d]]}

ReconInv ==
  \A k \in Reconcilers : pc[k] = "locked" =>
    \A r \in job[k] : r \in usageLog /\ Cost[r] > 0

\* What holds of the transactions even when usage logs are deleted.
LockedInv == LockInv /\ JobInv /\ DrainInv

TxInv == LockedInv /\ CallInv /\ ReconInv

\* The state of an entry determines the money moved for its request.
EntryInv ==
  /\ \A r \in Requests :
       /\ quotaUsed[r] \in {0, charged[r]}
       /\ entry[r] # "applied" => charged[r] = 0
       /\ entry[r] # "none" => r \in usageLog /\ Cost[r] > 0
       /\ entry[r] = "applied" => charged[r] = Cost[r] \/ (charged[r] = 0 /\ ~Chargeable(r))
  /\ \A c \in Calls : spool[c] # "none" => Cost[ReqOf[c]] > 0

\* A replayed file is finished only after its entry was seen or made applied.
DoneInv ==
  /\ \A c \in Calls : spool[c] = "done" => entry[ReqOf[c]] = "applied"
  /\ \A d \in Drainers :
       pc[d] \in {"cache", "commission", "finish"} => entry[ReqOf[file[d]]] = "applied"

Owes(w, r) == pc[w] = "cache" /\ r \in job[w]
OwesCommission(w, r) == pc[w] \in {"cache", "commission"} /\ r \in job[w]

\* One worker at most owes the caches, and one the inviter, news of a charge.
FollowInv ==
  \A r \in Requests :
    /\ cacheDebit[r] <= 1 /\ (cacheDebit[r] = 1 => charged[r] > 0)
    /\ credited[r] <= 1 /\ (credited[r] = 1 => charged[r] > 0)
    /\ \A w \in Workers :
         /\ Owes(w, r) => charged[r] > 0 /\ cacheDebit[r] = 0
         /\ OwesCommission(w, r) => charged[r] > 0 /\ credited[r] = 0
         /\ \A v \in Workers : OwesCommission(w, r) /\ OwesCommission(v, r) => v = w

IInv == TypeOK /\ TxInv /\ EntryInv /\ DoneInv /\ FollowInv

-----------------------------------------------------------------------------

\* The rank given to a new spool file is a natural number, because the calls
\* are finitely many.
LEMMA StampType == Cardinality({b \in Calls : spool[b] # "none"}) \in Nat
  <1>1. IsFiniteSet({b \in Calls : spool[b] # "none"})
    BY FS_Subset, LedgerAssumption DEF LedgerAssumption
  <1> QED
    BY <1>1, FS_CardinalityType

\* The initial state is well typed.
LEMMA InitTypeOK == Init => TypeOK
  BY LedgerAssumption DEF Init, TypeOK, LedgerAssumption, EntryState, FileState, Label, Workers

\* Charging keeps the two money columns natural.
LEMMA ChargeType ==
  ASSUME charged \in [Requests -> Nat], quotaUsed \in [Requests -> Nat],
         NEW S, Charge(S)
  PROVE  charged' \in [Requests -> Nat] /\ quotaUsed' \in [Requests -> Nat]
  BY LedgerAssumption DEF Charge, CountQuota, LedgerAssumption

\* Ending a transaction keeps the locks and jobs well typed.
LEMMA EndTxType ==
  ASSUME TypeOK, NEW w \in Workers, NEW rest \in SUBSET Requests, EndTx(w, rest)
  PROVE  /\ rowLock' \in [Requests -> Workers \cup {Nobody}]
         /\ job' \in [Workers -> SUBSET Requests]
         /\ sawApplied' \in [Workers -> BOOLEAN]
  BY DEF TypeOK, EndTx

\* The steps of a RecordUsage goroutine keep the types.
LEMMA CallTypeOK ==
  ASSUME TypeOK, NEW c \in Calls, CallNext(c)
  PROVE  TypeOK'
  <1> USE LedgerAssumption DEF TypeOK, LedgerAssumption, Workers, EntryState, FileState,
         Label, At, Goto
  <1>1. CASE CallStart(c)
    BY <1>1 DEF CallStart, dbVars, diskVars, memVars
  <1>2. CASE CallCreateLog(c)
    BY <1>2 DEF CallCreateLog, moneyVars, diskVars, memVars
  <1>3. CASE CallEnqueue(c)
    <2>1. spool' \in [Calls -> FileState]
      <3>1. spool' = spool \/ spool' = [spool EXCEPT ![c] = "pending"]
        BY <1>3 DEF CallEnqueue, diskVars
      <3> QED
        BY <3>1
    <2>3. pc' \in [Workers -> Label]
      <3>1. pc' = [pc EXCEPT ![c] = "done"] \/ pc' = [pc EXCEPT ![c] = "failed"]
        BY <1>3 DEF CallEnqueue
      <3> QED
        BY <3>1
    <2>2. stamp' \in [Calls -> Nat]
      BY <1>3, StampType DEF CallEnqueue, diskVars
    <2> QED
      BY <1>3, <2>1, <2>2, <2>3 DEF CallEnqueue, dbVars, memVars
  <1>4. CASE CallLock(c)
    BY <1>4 DEF CallLock, LockEntry, dbVars, diskVars, memVars
  <1>5. CASE CallBillingFails(c)
    BY <1>5 DEF CallBillingFails, EndTx, dbVars, diskVars, memVars
  <1>6. CASE CallAlreadyApplied(c)
    BY <1>6 DEF CallAlreadyApplied, EndTx, dbVars, diskVars, memVars
  <1>7. CASE CallSubscriptionGone(c)
    BY <1>7 DEF CallSubscriptionGone, SetEntries, EndTx, moneyVars, diskVars, memVars
  <1>8. CASE CallCommit(c)
    <2>1. /\ rowLock' \in [Requests -> Workers \cup {Nobody}]
          /\ job' \in [Workers -> SUBSET Requests]
          /\ sawApplied' \in [Workers -> BOOLEAN]
      BY <1>8, EndTxType DEF CallCommit
    <2>2. charged' \in [Requests -> Nat] /\ quotaUsed' \in [Requests -> Nat]
      BY <1>8, ChargeType DEF CallCommit
    <2>3. pc' \in [Workers -> Label]
      BY <1>8 DEF CallCommit
    <2> QED
      BY <1>8, <2>1, <2>2, <2>3 DEF CallCommit, SetEntries, diskVars, memVars
  <1> QED
    BY <1>1, <1>2, <1>3, <1>4, <1>5, <1>6, <1>7, <1>8 DEF CallNext, CallStep

\* The steps of a spool drainer keep the types.
LEMMA DrainTypeOK ==
  ASSUME TypeOK, DrainInv, NEW d \in Drainers, DrainNext(d)
  PROVE  TypeOK'
  <1> USE LedgerAssumption DEF TypeOK, LedgerAssumption, Workers, EntryState, FileState,
         Label, At, Goto
  <1>0. pc[d] # "idle" => file[d] \in Calls
    BY DEF DrainInv
  <1>1. ASSUME NEW c \in Calls, DrainClaim(d, c) PROVE TypeOK'
    BY <1>1 DEF DrainClaim, dbVars, memVars
  <1>2. CASE DrainRead(d)
    BY <1>2 DEF DrainRead, dbVars, diskVars, memVars
  <1>3. CASE DrainUnreadable(d)
    BY <1>3, <1>0 DEF DrainUnreadable, MoveFile, dbVars, memVars
  <1>4. CASE DrainLock(d)
    BY <1>4, <1>0 DEF DrainLock, LockEntry, dbVars, diskVars, memVars
  <1>5. CASE DrainFails(d)
    BY <1>5 DEF DrainFails, EndTx, dbVars, diskVars, memVars
  <1>6. CASE DrainAlreadyApplied(d)
    BY <1>6, <1>0 DEF DrainAlreadyApplied, EndTx, moneyVars, diskVars, memVars
  <1>7. CASE DrainCommit(d)
    <2>1. /\ rowLock' \in [Requests -> Workers \cup {Nobody}]
          /\ job' \in [Workers -> SUBSET Requests]
          /\ sawApplied' \in [Workers -> BOOLEAN]
      BY <1>7, <1>0, EndTxType DEF DrainCommit
    <2>2. charged' \in [Requests -> Nat] /\ quotaUsed' \in [Requests -> Nat]
      BY <1>7, ChargeType DEF DrainCommit
    <2>3. pc' \in [Workers -> Label]
      BY <1>7 DEF DrainCommit
    <2>4. usageLog' \subseteq Requests
      BY <1>7, <1>0 DEF DrainCommit
    <2>5. entry' \in [Requests -> EntryState]
      BY <1>7 DEF DrainCommit, SetEntries
    <2> QED
      BY <1>7, <2>1, <2>2, <2>3, <2>4, <2>5 DEF DrainCommit, diskVars, memVars
  <1>8. CASE DrainRequeue(d)
    BY <1>8, <1>0 DEF DrainRequeue, MoveFile, dbVars, memVars
  <1>9. CASE DrainFinish(d)
    BY <1>9, <1>0 DEF DrainFinish, MoveFile, dbVars, memVars
  <1> QED
    BY <1>1, <1>2, <1>3, <1>4, <1>5, <1>6, <1>7, <1>8, <1>9 DEF DrainNext

\* The reconciler, the follow-ups and the environment keep the types.
LEMMA OtherTypeOK ==
  ASSUME TypeOK,
         \/ \E k \in Reconcilers : ReconNext(k)
         \/ \E w \in Workers : FollowUp(w)
         \/ Environment
  PROVE  TypeOK'
  <1> USE LedgerAssumption DEF TypeOK, LedgerAssumption, Workers, EntryState, FileState,
         Label, At, Goto
  <1>1. ASSUME NEW k \in Reconcilers, NEW S \in SUBSET Requests, ReconSelect(k, S)
        PROVE  TypeOK'
    BY <1>1 DEF ReconSelect, dbVars, diskVars, memVars
  <1>2. ASSUME NEW k \in Reconcilers, ReconCommit(k) PROVE TypeOK'
    <2> DEFINE paid == {r \in job[k] : Chargeable(r)}
    <2>0. paid \in SUBSET Requests
      OBVIOUS
    <2>1. /\ rowLock' \in [Requests -> Workers \cup {Nobody}]
          /\ job' \in [Workers -> SUBSET Requests]
          /\ sawApplied' \in [Workers -> BOOLEAN]
      BY <1>2, <2>0, EndTxType DEF ReconCommit
    <2>2. charged' \in [Requests -> Nat] /\ quotaUsed' \in [Requests -> Nat]
      BY <1>2, ChargeType DEF ReconCommit
    <2>3. pc' \in [Workers -> Label]
      BY <1>2 DEF ReconCommit
    <2>4. entry' \in [Requests -> EntryState]
      BY <1>2 DEF ReconCommit, SetEntries
    <2> QED
      BY <1>2, <2>1, <2>2, <2>3, <2>4 DEF ReconCommit, diskVars, memVars
  <1>3. ASSUME NEW k \in Reconcilers, ReconFails(k) PROVE TypeOK'
    BY <1>3 DEF ReconFails, EndTx, dbVars, diskVars, memVars
  <1>4. ASSUME NEW w \in Workers, UpdateCache(w) PROVE TypeOK'
    BY <1>4 DEF UpdateCache, dbVars, diskVars, memVars
  <1>5. ASSUME NEW w \in Workers, NEW r \in Requests, PayCommission(w, r) PROVE TypeOK'
    BY <1>5 DEF PayCommission, Finished, moneyVars, diskVars, memVars
  <1>6. CASE DeleteSubscription
    BY <1>6 DEF DeleteSubscription, diskVars, memVars
  <1>7. ASSUME NEW i \in Instances, Crash(i) PROVE TypeOK'
    BY <1>7 DEF Crash, On, dbVars, diskVars
  <1>8. ASSUME NEW i \in Instances, Restart(i) PROVE TypeOK'
    BY <1>8 DEF Restart, dbVars
  <1> QED
    BY <1>1, <1>2, <1>3, <1>4, <1>5, <1>6, <1>7, <1>8 DEF ReconNext, FollowUp, Environment

\* A transaction that applies the open entries S and charges those that can be
\* charged leaves every entry in agreement with the money.
LEMMA ApplyEntries ==
  ASSUME TypeOK, EntryInv, NEW S \in SUBSET Requests,
         NEW P \in SUBSET S, \A r \in S : r \in P <=> Chargeable(r),
         \A r \in S : entry[r] # "applied" /\ Cost[r] > 0 /\ r \in usageLog',
         usageLog \subseteq usageLog',
         SetEntries(S, "applied"), Charge(P), UNCHANGED <<subAlive, spool>>
  PROVE  EntryInv'
  <1>1. ASSUME NEW r \in Requests
        PROVE  /\ quotaUsed'[r] \in {0, charged'[r]}
               /\ entry'[r] # "applied" => charged'[r] = 0
               /\ entry'[r] # "none" => r \in usageLog' /\ Cost[r] > 0
               /\ entry'[r] = "applied" =>
                    charged'[r] = Cost[r] \/ (charged'[r] = 0 /\ ~Chargeable(r)')
    <2>1. CASE r \in S
      <3>1. charged[r] = 0 /\ quotaUsed[r] = 0 /\ Cost[r] \in Nat
        BY <2>1, LedgerAssumption DEF EntryInv, LedgerAssumption
      <3>2. entry'[r] = "applied"
        BY <2>1 DEF SetEntries
      <3>3. CASE Chargeable(r)
        BY <2>1, <3>1, <3>2, <3>3 DEF Charge, CountQuota
      <3>4. CASE ~Chargeable(r)
        BY <2>1, <3>1, <3>2, <3>4 DEF Charge, CountQuota, Chargeable
      <3> QED
        BY <3>3, <3>4
    <2>2. CASE r \notin S
      BY <2>2 DEF EntryInv, SetEntries, Charge, CountQuota, Chargeable
    <2> QED
      BY <2>1, <2>2
  <1> QED
    BY <1>1 DEF EntryInv

\* The money of a request moves only with its entry.
LEMMA EntryStep ==
  ASSUME IInv, TypeOK', Next
  PROVE  EntryInv'
  <1> USE LedgerAssumption
          DEF EntryInv, TxInv, LockedInv, LockInv, JobInv, CallInv, DrainInv, ReconInv, TypeOK,
              LedgerAssumption, Workers, Label, EntryState, FileState, At, Goto, Chargeable,
         dbVars, moneyVars, diskVars, memVars, IInv
  <1>1. ASSUME NEW c \in Calls, CallStart(c) PROVE EntryInv'
    BY <1>1 DEF CallStart
  <1>2. ASSUME NEW c \in Calls, CallCreateLog(c) PROVE EntryInv'
    BY <1>2 DEF CallCreateLog
  <1>3. ASSUME NEW c \in Calls, CallEnqueue(c) PROVE EntryInv'
    BY <1>3 DEF CallEnqueue
  <1>4. ASSUME NEW c \in Calls, CallLock(c) PROVE EntryInv'
    BY <1>4 DEF CallLock, LockEntry
  <1>5. ASSUME NEW c \in Calls, CallBillingFails(c) PROVE EntryInv'
    BY <1>5 DEF CallBillingFails, EndTx
  <1>6. ASSUME NEW c \in Calls, CallAlreadyApplied(c) PROVE EntryInv'
    BY <1>6 DEF CallAlreadyApplied, EndTx
  <1>7. ASSUME NEW c \in Calls, CallSubscriptionGone(c) PROVE EntryInv'
    BY <1>7 DEF CallSubscriptionGone, SetEntries, EndTx
  <1>8. ASSUME NEW c \in Calls, CallCommit(c) PROVE EntryInv'
    <2>1. ReqOf[c] \in Requests /\ entry[ReqOf[c]] # "applied" /\ Cost[ReqOf[c]] > 0 /\ ReqOf[c] \in usageLog'
      BY <1>8 DEF CallCommit
    <2>2. SetEntries({ReqOf[c]}, "applied") /\ Charge({ReqOf[c]}) /\ Chargeable(ReqOf[c])
      BY <1>8 DEF CallCommit
    <2>3. usageLog \subseteq usageLog' /\ UNCHANGED <<subAlive, spool>>
      BY <1>8 DEF CallCommit
    <2>4. TypeOK /\ EntryInv /\ {ReqOf[c]} \in SUBSET Requests
      BY <2>1
    <2> HIDE DEF EntryInv, TypeOK, Chargeable
    <2> QED
      BY <2>1, <2>2, <2>3, <2>4, ApplyEntries
  <1>9. ASSUME NEW d \in Drainers, NEW c \in Calls, DrainClaim(d, c) PROVE EntryInv'
    BY <1>9 DEF DrainClaim, PendingBatch
  <1>10. ASSUME NEW d \in Drainers, DrainRead(d) PROVE EntryInv'
    BY <1>10 DEF DrainRead
  <1>11. ASSUME NEW d \in Drainers, DrainUnreadable(d) PROVE EntryInv'
    BY <1>11 DEF DrainUnreadable, MoveFile
  <1>12. ASSUME NEW d \in Drainers, DrainLock(d) PROVE EntryInv'
    BY <1>12 DEF DrainLock, LockEntry
  <1>13. ASSUME NEW d \in Drainers, DrainFails(d) PROVE EntryInv'
    BY <1>13 DEF DrainFails, EndTx
  <1>14. ASSUME NEW d \in Drainers, DrainAlreadyApplied(d) PROVE EntryInv'
    BY <1>14 DEF DrainAlreadyApplied, EndTx
  <1>15. ASSUME NEW d \in Drainers, DrainCommit(d) PROVE EntryInv'
    <2>1. ReqOf[file[d]] \in Requests /\ entry[ReqOf[file[d]]] # "applied" /\ Cost[ReqOf[file[d]]] > 0 /\ ReqOf[file[d]] \in usageLog'
      BY <1>15 DEF DrainCommit
    <2>2. SetEntries({ReqOf[file[d]]}, "applied") /\ Charge({ReqOf[file[d]]}) /\ Chargeable(ReqOf[file[d]])
      BY <1>15 DEF DrainCommit
    <2>3. usageLog \subseteq usageLog' /\ UNCHANGED <<subAlive, spool>>
      BY <1>15 DEF DrainCommit
    <2>4. TypeOK /\ EntryInv /\ {ReqOf[file[d]]} \in SUBSET Requests
      BY <2>1
    <2> HIDE DEF EntryInv, TypeOK, Chargeable
    <2> QED
      BY <2>1, <2>2, <2>3, <2>4, ApplyEntries
  <1>16. ASSUME NEW d \in Drainers, DrainRequeue(d) PROVE EntryInv'
    BY <1>16 DEF DrainRequeue, MoveFile
  <1>17. ASSUME NEW d \in Drainers, DrainFinish(d) PROVE EntryInv'
    BY <1>17 DEF DrainFinish, MoveFile
  <1>18. ASSUME NEW k \in Reconcilers, NEW S \in SUBSET Requests, ReconSelect(k, S) PROVE EntryInv'
    BY <1>18 DEF ReconSelect, Candidates
  <1>19. ASSUME NEW k \in Reconcilers, ReconCommit(k) PROVE EntryInv'
    <2>1. \A r \in job[k] : entry[r] # "applied" /\ Cost[r] > 0 /\ r \in usageLog
      BY <1>19 DEF ReconCommit
    <2>2. /\ SetEntries(job[k], "applied")
          /\ Charge({r \in job[k] : Chargeable(r)})
          /\ UNCHANGED <<usageLog, subAlive, spool>>
      BY <1>19 DEF ReconCommit
    <2>3. job[k] \in SUBSET Requests /\ TypeOK /\ EntryInv
      OBVIOUS
    <2> HIDE DEF EntryInv, TypeOK, Chargeable
    <2> QED
      BY <2>1, <2>2, <2>3, ApplyEntries
  <1>20. ASSUME NEW k \in Reconcilers, ReconFails(k) PROVE EntryInv'
    BY <1>20 DEF ReconFails, EndTx
  <1>21. ASSUME NEW w \in Workers, UpdateCache(w) PROVE EntryInv'
    BY <1>21 DEF UpdateCache
  <1>22. ASSUME NEW w \in Workers, NEW r \in Requests, PayCommission(w, r) PROVE EntryInv'
    BY <1>22 DEF PayCommission, Finished
  <1>23. CASE DeleteSubscription
    BY <1>23 DEF DeleteSubscription
  <1>24. ASSUME NEW i \in Instances, Crash(i) PROVE EntryInv'
    BY <1>24 DEF Crash, On
  <1>25. ASSUME NEW i \in Instances, Restart(i) PROVE EntryInv'
    BY <1>25 DEF Restart
  <1> QED
    BY <1>1, <1>2, <1>3, <1>4, <1>5, <1>6, <1>7, <1>8, <1>9, <1>10, <1>11, <1>12, <1>13,
       <1>14, <1>15, <1>16, <1>17, <1>18, <1>19, <1>20, <1>21, <1>22, <1>23, <1>24, <1>25
       DEF Next, CallNext, CallStep, DrainNext, ReconNext, FollowUp, Environment

\* Only files whose entry is applied are finished.
LEMMA DoneStep ==
  ASSUME IInv, TypeOK', Next
  PROVE  DoneInv'
  <1> USE LedgerAssumption
          DEF DoneInv, EntryInv, TxInv, LockedInv, LockInv, JobInv, CallInv, DrainInv, ReconInv, TypeOK,
              LedgerAssumption, Workers, Label, EntryState, FileState, At, Goto, Chargeable,
         dbVars, moneyVars, diskVars, memVars, IInv
  <1>1. ASSUME NEW c \in Calls, CallStart(c) PROVE DoneInv'
    BY <1>1 DEF CallStart
  <1>2. ASSUME NEW c \in Calls, CallCreateLog(c) PROVE DoneInv'
    BY <1>2 DEF CallCreateLog
  <1>3. ASSUME NEW c \in Calls, CallEnqueue(c) PROVE DoneInv'
    BY <1>3 DEF CallEnqueue
  <1>4. ASSUME NEW c \in Calls, CallLock(c) PROVE DoneInv'
    BY <1>4 DEF CallLock, LockEntry
  <1>5. ASSUME NEW c \in Calls, CallBillingFails(c) PROVE DoneInv'
    BY <1>5 DEF CallBillingFails, EndTx
  <1>6. ASSUME NEW c \in Calls, CallAlreadyApplied(c) PROVE DoneInv'
    BY <1>6 DEF CallAlreadyApplied, EndTx
  <1>7. ASSUME NEW c \in Calls, CallSubscriptionGone(c) PROVE DoneInv'
    BY <1>7 DEF CallSubscriptionGone, SetEntries, EndTx
  <1>8. ASSUME NEW c \in Calls, CallCommit(c) PROVE DoneInv'
    BY <1>8 DEF CallCommit, SetEntries, Charge, EndTx
  <1>9. ASSUME NEW d \in Drainers, NEW c \in Calls, DrainClaim(d, c) PROVE DoneInv'
    BY <1>9 DEF DrainClaim, PendingBatch
  <1>10. ASSUME NEW d \in Drainers, DrainRead(d) PROVE DoneInv'
    BY <1>10 DEF DrainRead
  <1>11. ASSUME NEW d \in Drainers, DrainUnreadable(d) PROVE DoneInv'
    BY <1>11 DEF DrainUnreadable, MoveFile
  <1>12. ASSUME NEW d \in Drainers, DrainLock(d) PROVE DoneInv'
    BY <1>12 DEF DrainLock, LockEntry
  <1>13. ASSUME NEW d \in Drainers, DrainFails(d) PROVE DoneInv'
    BY <1>13 DEF DrainFails, EndTx
  <1>14. ASSUME NEW d \in Drainers, DrainAlreadyApplied(d) PROVE DoneInv'
    BY <1>14 DEF DrainAlreadyApplied, EndTx
  <1>15. ASSUME NEW d \in Drainers, DrainCommit(d) PROVE DoneInv'
    BY <1>15 DEF DrainCommit, SetEntries, Charge, EndTx
  <1>16. ASSUME NEW d \in Drainers, DrainRequeue(d) PROVE DoneInv'
    BY <1>16 DEF DrainRequeue, MoveFile
  <1>17. ASSUME NEW d \in Drainers, DrainFinish(d) PROVE DoneInv'
    BY <1>17 DEF DrainFinish, MoveFile
  <1>18. ASSUME NEW k \in Reconcilers, NEW S \in SUBSET Requests, ReconSelect(k, S) PROVE DoneInv'
    BY <1>18 DEF ReconSelect, Candidates
  <1>19. ASSUME NEW k \in Reconcilers, ReconCommit(k) PROVE DoneInv'
    BY <1>19 DEF ReconCommit, SetEntries, Charge, EndTx
  <1>20. ASSUME NEW k \in Reconcilers, ReconFails(k) PROVE DoneInv'
    BY <1>20 DEF ReconFails, EndTx
  <1>21. ASSUME NEW w \in Workers, UpdateCache(w) PROVE DoneInv'
    BY <1>21 DEF UpdateCache
  <1>22. ASSUME NEW w \in Workers, NEW r \in Requests, PayCommission(w, r) PROVE DoneInv'
    BY <1>22 DEF PayCommission, Finished
  <1>23. CASE DeleteSubscription
    BY <1>23 DEF DeleteSubscription
  <1>24. ASSUME NEW i \in Instances, Crash(i) PROVE DoneInv'
    BY <1>24 DEF Crash, On
  <1>25. ASSUME NEW i \in Instances, Restart(i) PROVE DoneInv'
    BY <1>25 DEF Restart
  <1> QED
    BY <1>1, <1>2, <1>3, <1>4, <1>5, <1>6, <1>7, <1>8, <1>9, <1>10, <1>11, <1>12, <1>13,
       <1>14, <1>15, <1>16, <1>17, <1>18, <1>19, <1>20, <1>21, <1>22, <1>23, <1>24, <1>25
       DEF Next, CallNext, CallStep, DrainNext, ReconNext, FollowUp, Environment

\* Taking the lock of a free entry gives the worker exactly what it read.
LEMMA LockTaken ==
  ASSUME TypeOK, LockInv, NEW w \in Workers, NEW r \in Requests,
         LockEntry(w, r), Goto(w, "locked"), UNCHANGED entry
  PROVE  LockInv'
  <1> SUFFICES ASSUME NEW v \in Workers, pc'[v] = "locked", NEW q \in job'[v]
               PROVE  rowLock'[q] = v /\ (sawApplied'[v] <=> entry'[q] = "applied")
    BY DEF LockInv
  <1>1. CASE v = w
    BY <1>1 DEF LockEntry, TypeOK
  <1>2. CASE v # w
    <2>1. pc[v] = "locked" /\ q \in job[v] /\ q \in Requests /\ sawApplied'[v] = sawApplied[v]
      BY <1>2 DEF LockEntry, Goto, TypeOK
    <2>2. q # r
      BY <2>1, LedgerAssumption DEF LockInv, LockEntry, LedgerAssumption
    <2> QED
      BY <2>1, <2>2 DEF LockInv, LockEntry, TypeOK
  <1> QED
    BY <1>1, <1>2

\* A transaction that ends writes only the entries it has locked, so nothing
\* that another worker has read changes.
LEMMA LockReleased ==
  ASSUME TypeOK, LockInv, NEW w \in Workers, NEW l, NEW rest, NEW state,
         pc[w] = "locked", l # "locked", Goto(w, l), EndTx(w, rest),
         SetEntries(job[w], state)
  PROVE  LockInv'
  <1> SUFFICES ASSUME NEW v \in Workers, pc'[v] = "locked", NEW q \in job'[v]
               PROVE  rowLock'[q] = v /\ (sawApplied'[v] <=> entry'[q] = "applied")
    BY DEF LockInv
  <1>1. v # w /\ pc[v] = "locked" /\ q \in job[v] /\ q \in Requests
    BY DEF Goto, EndTx, TypeOK
  <1>2. rowLock[q] = v /\ (sawApplied[v] <=> entry[q] = "applied")
    BY <1>1 DEF LockInv
  <1>3. q \notin job[w]
    BY <1>1, <1>2 DEF LockInv
  <1> QED
    BY <1>1, <1>2, <1>3 DEF EndTx, SetEntries, TypeOK

\* Locks protect what a transaction has read.
LEMMA LockedStep ==
  ASSUME TypeOK, LockedInv, TypeOK', Next
  PROVE  LockedInv'
  <1> USE LedgerAssumption
          DEF LockedInv, LockInv, JobInv, DrainInv, TypeOK,
              LedgerAssumption, Workers, Label, EntryState, FileState, At, Goto, Chargeable,
         dbVars, moneyVars, diskVars, memVars
  <1>1. ASSUME NEW c \in Calls, CallStart(c) PROVE LockedInv'
    BY <1>1 DEF CallStart
  <1>2. ASSUME NEW c \in Calls, CallCreateLog(c) PROVE LockedInv'
    BY <1>2 DEF CallCreateLog
  <1>3. ASSUME NEW c \in Calls, CallEnqueue(c) PROVE LockedInv'
    BY <1>3 DEF CallEnqueue
  <1>4. ASSUME NEW c \in Calls, CallLock(c) PROVE LockedInv'
    <2>1. LockInv'
      BY <1>4, LockTaken DEF CallLock
    <2>2. JobInv'
      BY <1>4 DEF CallLock, LockEntry
    <2>3. DrainInv'
      BY <1>4 DEF CallLock, LockEntry
    <2> QED
      BY <2>1, <2>2, <2>3
  <1>5. ASSUME NEW c \in Calls, CallBillingFails(c) PROVE LockedInv'
    BY <1>5 DEF CallBillingFails, EndTx
  <1>6. ASSUME NEW c \in Calls, CallAlreadyApplied(c) PROVE LockedInv'
    BY <1>6 DEF CallAlreadyApplied, EndTx
  <1>7. ASSUME NEW c \in Calls, CallSubscriptionGone(c) PROVE LockedInv'
    BY <1>7 DEF CallSubscriptionGone, SetEntries, EndTx
  <1>8. ASSUME NEW c \in Calls, CallCommit(c) PROVE LockedInv'
    <2>1. LockInv'
      <3>0. job[c] = {ReqOf[c]} /\ pc[c] = "locked" /\ c \in Workers
        BY <1>8 DEF CallCommit
      <3>1. SetEntries(job[c], "applied")
        BY ONLY <3>0, <1>8 DEF CallCommit
      <3>2. PICK l, rest : l # "locked" /\ Goto(c, l) /\ EndTx(c, rest)
        BY <1>8 DEF CallCommit
      <3>3. TypeOK /\ LockInv
        OBVIOUS
      <3> QED
        BY ONLY <3>0, <3>1, <3>2, <3>3, LockReleased
    <2>2. JobInv'
      <3>1. /\ pc'[c] # "locked" /\ UNCHANGED sawApplied
            /\ \A v \in Workers \ {c} : pc'[v] = pc[v] /\ job'[v] = job[v]
        BY <1>8 DEF CallCommit, EndTx
      <3>2. /\ JobInv /\ Calls \subseteq Workers /\ Reconcilers \subseteq Workers
        OBVIOUS
      <3> QED
        BY ONLY <3>1, <3>2 DEF JobInv
    <2>3. DrainInv'
      BY <1>8 DEF CallCommit, SetEntries, EndTx
    <2> QED
      BY <2>1, <2>2, <2>3
  <1>9. ASSUME NEW d \in Drainers, NEW c \in Calls, DrainClaim(d, c) PROVE LockedInv'
    BY <1>9 DEF DrainClaim, PendingBatch
  <1>10. ASSUME NEW d \in Drainers, DrainRead(d) PROVE LockedInv'
    BY <1>10 DEF DrainRead
  <1>11. ASSUME NEW d \in Drainers, DrainUnreadable(d) PROVE LockedInv'
    BY <1>11 DEF DrainUnreadable, MoveFile
  <1>12. ASSUME NEW d \in Drainers, DrainLock(d) PROVE LockedInv'
    <2>1. LockInv'
      <3>1. ReqOf[file[d]] \in Requests /\ d \in Workers
        BY <1>12 DEF DrainLock
      <3>2. LockEntry(d, ReqOf[file[d]]) /\ Goto(d, "locked") /\ UNCHANGED entry
        BY <1>12 DEF DrainLock
      <3> HIDE DEF LockInv, Goto, TypeOK, Workers
      <3> QED
        BY <3>1, <3>2, LockTaken
    <2>2. JobInv'
      BY <1>12 DEF DrainLock, LockEntry
    <2>3. DrainInv'
      BY <1>12 DEF DrainLock, LockEntry
    <2> QED
      BY <2>1, <2>2, <2>3
  <1>13. ASSUME NEW d \in Drainers, DrainFails(d) PROVE LockedInv'
    BY <1>13 DEF DrainFails, EndTx
  <1>14. ASSUME NEW d \in Drainers, DrainAlreadyApplied(d) PROVE LockedInv'
    BY <1>14 DEF DrainAlreadyApplied, EndTx
  <1>15. ASSUME NEW d \in Drainers, DrainCommit(d) PROVE LockedInv'
    <2>1. LockInv'
      <3>0. job[d] = {ReqOf[file[d]]} /\ pc[d] = "locked" /\ d \in Workers
        BY <1>15 DEF DrainCommit
      <3>1. SetEntries(job[d], "applied")
        BY ONLY <3>0, <1>15 DEF DrainCommit
      <3>2. PICK l, rest : l # "locked" /\ Goto(d, l) /\ EndTx(d, rest)
        BY <1>15 DEF DrainCommit
      <3>3. TypeOK /\ LockInv
        OBVIOUS
      <3> QED
        BY ONLY <3>0, <3>1, <3>2, <3>3, LockReleased
    <2>2. JobInv'
      BY <1>15 DEF DrainCommit, SetEntries, EndTx
    <2>3. DrainInv'
      BY <1>15 DEF DrainCommit, SetEntries, EndTx
    <2> QED
      BY <2>1, <2>2, <2>3
  <1>16. ASSUME NEW d \in Drainers, DrainRequeue(d) PROVE LockedInv'
    BY <1>16 DEF DrainRequeue, MoveFile
  <1>17. ASSUME NEW d \in Drainers, DrainFinish(d) PROVE LockedInv'
    BY <1>17 DEF DrainFinish, MoveFile
  <1>18. ASSUME NEW k \in Reconcilers, NEW S \in SUBSET Requests, ReconSelect(k, S) PROVE LockedInv'
    BY <1>18 DEF ReconSelect, Candidates
  <1>19. ASSUME NEW k \in Reconcilers, ReconCommit(k) PROVE LockedInv'
    <2>1. LockInv'
      <3>1. k \in Workers /\ pc[k] = "locked" /\ SetEntries(job[k], "applied")
        BY <1>19 DEF ReconCommit
      <3>2. PICK l, rest : l # "locked" /\ Goto(k, l) /\ EndTx(k, rest)
        BY <1>19 DEF ReconCommit
      <3>3. TypeOK /\ LockInv
        OBVIOUS
      <3> QED
        BY ONLY <3>1, <3>2, <3>3, LockReleased
    <2>2. JobInv'
      <3>1. /\ pc'[k] # "locked" /\ UNCHANGED sawApplied
            /\ \A v \in Workers \ {k} : pc'[v] = pc[v] /\ job'[v] = job[v]
        BY <1>19 DEF ReconCommit, EndTx
      <3>2. /\ JobInv /\ Calls \subseteq Workers /\ Reconcilers \subseteq Workers
        OBVIOUS
      <3> QED
        BY ONLY <3>1, <3>2 DEF JobInv
    <2>3. DrainInv'
      BY <1>19 DEF ReconCommit, SetEntries, EndTx
    <2> QED
      BY <2>1, <2>2, <2>3
  <1>20. ASSUME NEW k \in Reconcilers, ReconFails(k) PROVE LockedInv'
    BY <1>20 DEF ReconFails, EndTx
  <1>21. ASSUME NEW w \in Workers, UpdateCache(w) PROVE LockedInv'
    BY <1>21 DEF UpdateCache
  <1>22. ASSUME NEW w \in Workers, NEW r \in Requests, PayCommission(w, r) PROVE LockedInv'
    BY <1>22 DEF PayCommission, Finished
  <1>23. CASE DeleteSubscription
    BY <1>23 DEF DeleteSubscription
  <1>24. ASSUME NEW i \in Instances, Crash(i) PROVE LockedInv'
    BY <1>24 DEF Crash, On
  <1>25. ASSUME NEW i \in Instances, Restart(i) PROVE LockedInv'
    BY <1>25 DEF Restart
  <1> QED
    BY <1>1, <1>2, <1>3, <1>4, <1>5, <1>6, <1>7, <1>8, <1>9, <1>10, <1>11, <1>12, <1>13,
       <1>14, <1>15, <1>16, <1>17, <1>18, <1>19, <1>20, <1>21, <1>22, <1>23, <1>24, <1>25
       DEF Next, CallNext, CallStep, DrainNext, ReconNext, FollowUp, Environment

\* The logs of what a transaction is about are there, and it costs something.
LEMMA TxStep ==
  ASSUME IInv, TypeOK', Next
  PROVE  TxInv'
  <1> USE LedgerAssumption
          DEF TxInv, LockedInv, LockInv, JobInv, CallInv, DrainInv, ReconInv, EntryInv, TypeOK,
              LedgerAssumption, Workers, Label, EntryState, FileState, At, Goto, Chargeable,
         dbVars, moneyVars, diskVars, memVars, IInv
  <1>1. ASSUME NEW c \in Calls, CallStart(c) PROVE CallInv' /\ ReconInv'
    BY <1>1 DEF CallStart
  <1>2. ASSUME NEW c \in Calls, CallCreateLog(c) PROVE CallInv' /\ ReconInv'
    BY <1>2 DEF CallCreateLog
  <1>3. ASSUME NEW c \in Calls, CallEnqueue(c) PROVE CallInv' /\ ReconInv'
    BY <1>3 DEF CallEnqueue
  <1>4. ASSUME NEW c \in Calls, CallLock(c) PROVE CallInv' /\ ReconInv'
    BY <1>4 DEF CallLock, LockEntry
  <1>5. ASSUME NEW c \in Calls, CallBillingFails(c) PROVE CallInv' /\ ReconInv'
    BY <1>5 DEF CallBillingFails, EndTx
  <1>6. ASSUME NEW c \in Calls, CallAlreadyApplied(c) PROVE CallInv' /\ ReconInv'
    BY <1>6 DEF CallAlreadyApplied, EndTx
  <1>7. ASSUME NEW c \in Calls, CallSubscriptionGone(c) PROVE CallInv' /\ ReconInv'
    BY <1>7 DEF CallSubscriptionGone, SetEntries, EndTx
  <1>8. ASSUME NEW c \in Calls, CallCommit(c) PROVE CallInv' /\ ReconInv'
    <2>1. CallInv'
      BY <1>8 DEF CallCommit, SetEntries, EndTx
    <2>2. ReconInv'
      BY <1>8 DEF CallCommit, SetEntries, EndTx
    <2> QED
      BY <2>1, <2>2
  <1>9. ASSUME NEW d \in Drainers, NEW c \in Calls, DrainClaim(d, c) PROVE CallInv' /\ ReconInv'
    BY <1>9 DEF DrainClaim, PendingBatch
  <1>10. ASSUME NEW d \in Drainers, DrainRead(d) PROVE CallInv' /\ ReconInv'
    BY <1>10 DEF DrainRead
  <1>11. ASSUME NEW d \in Drainers, DrainUnreadable(d) PROVE CallInv' /\ ReconInv'
    BY <1>11 DEF DrainUnreadable, MoveFile
  <1>12. ASSUME NEW d \in Drainers, DrainLock(d) PROVE CallInv' /\ ReconInv'
    BY <1>12 DEF DrainLock, LockEntry
  <1>13. ASSUME NEW d \in Drainers, DrainFails(d) PROVE CallInv' /\ ReconInv'
    BY <1>13 DEF DrainFails, EndTx
  <1>14. ASSUME NEW d \in Drainers, DrainAlreadyApplied(d) PROVE CallInv' /\ ReconInv'
    BY <1>14 DEF DrainAlreadyApplied, EndTx
  <1>15. ASSUME NEW d \in Drainers, DrainCommit(d) PROVE CallInv' /\ ReconInv'
    BY <1>15 DEF DrainCommit, SetEntries, EndTx
  <1>16. ASSUME NEW d \in Drainers, DrainRequeue(d) PROVE CallInv' /\ ReconInv'
    BY <1>16 DEF DrainRequeue, MoveFile
  <1>17. ASSUME NEW d \in Drainers, DrainFinish(d) PROVE CallInv' /\ ReconInv'
    BY <1>17 DEF DrainFinish, MoveFile
  <1>18. ASSUME NEW k \in Reconcilers, NEW S \in SUBSET Requests, ReconSelect(k, S) PROVE CallInv' /\ ReconInv'
    BY <1>18 DEF ReconSelect, Candidates
  <1>19. ASSUME NEW k \in Reconcilers, ReconCommit(k) PROVE CallInv' /\ ReconInv'
    BY <1>19 DEF ReconCommit, SetEntries, EndTx
  <1>20. ASSUME NEW k \in Reconcilers, ReconFails(k) PROVE CallInv' /\ ReconInv'
    BY <1>20 DEF ReconFails, EndTx
  <1>21. ASSUME NEW w \in Workers, UpdateCache(w) PROVE CallInv' /\ ReconInv'
    BY <1>21 DEF UpdateCache
  <1>22. ASSUME NEW w \in Workers, NEW r \in Requests, PayCommission(w, r) PROVE CallInv' /\ ReconInv'
    BY <1>22 DEF PayCommission, Finished
  <1>23. CASE DeleteSubscription
    BY <1>23 DEF DeleteSubscription
  <1>24. ASSUME NEW i \in Instances, Crash(i) PROVE CallInv' /\ ReconInv'
    BY <1>24 DEF Crash, On
  <1>25. ASSUME NEW i \in Instances, Restart(i) PROVE CallInv' /\ ReconInv'
    BY <1>25 DEF Restart
  <1> QED
    BY LockedStep, <1>1, <1>2, <1>3, <1>4, <1>5, <1>6, <1>7, <1>8, <1>9, <1>10, <1>11, <1>12, <1>13,
       <1>14, <1>15, <1>16, <1>17, <1>18, <1>19, <1>20, <1>21, <1>22, <1>23, <1>24, <1>25
       DEF Next, CallNext, CallStep, DrainNext, ReconNext, FollowUp, Environment

\* When worker w charges the open entries S, nobody owed news of them before,
\* and afterwards w alone may.
LEMMA FollowCharge ==
  ASSUME TypeOK, EntryInv, FollowInv, NEW w \in Workers, NEW l,
         NEW S \in SUBSET Requests, NEW rest \in SUBSET S,
         \A r \in S : entry[r] # "applied" /\ Cost[r] > 0,
         pc[w] = "locked", Goto(w, l), Charge(S), EndTx(w, rest),
         UNCHANGED <<cacheDebit, credited>>
  PROVE  FollowInv'
  <1>1. ASSUME NEW r \in Requests
        PROVE  /\ r \in S => charged[r] = 0 /\ charged'[r] > 0
               /\ r \notin S => charged'[r] = charged[r]
    BY LedgerAssumption DEF TypeOK, EntryInv, Charge, LedgerAssumption
  <1>2. ASSUME NEW r \in S
        PROVE  /\ cacheDebit[r] = 0 /\ credited[r] = 0
               /\ \A v \in Workers : ~OwesCommission(v, r)
    <2>1. charged[r] = 0
      BY <1>1
    <2> QED
      BY <2>1 DEF FollowInv, TypeOK
  <1>3. ASSUME NEW v \in Workers, v # w, NEW r \in Requests
        PROVE  /\ Owes(v, r)' <=> Owes(v, r)
               /\ OwesCommission(v, r)' <=> OwesCommission(v, r)
    BY <1>3 DEF Owes, OwesCommission, Goto, EndTx, TypeOK
  <1>4. ASSUME NEW r \in Requests, Owes(w, r)' \/ OwesCommission(w, r)'
        PROVE  r \in S
    BY <1>4 DEF Owes, OwesCommission, EndTx, TypeOK
  <1>5. ASSUME NEW v \in Workers, NEW r \in Requests, Owes(v, r)
        PROVE  OwesCommission(v, r)
    BY <1>5 DEF Owes, OwesCommission
  <1>6. ASSUME NEW r \in Requests
        PROVE  /\ cacheDebit'[r] <= 1 /\ (cacheDebit'[r] = 1 => charged'[r] > 0)
               /\ credited'[r] <= 1 /\ (credited'[r] = 1 => charged'[r] > 0)
    BY <1>1, <1>2 DEF FollowInv
  <1>7. ASSUME NEW r \in Requests, NEW v \in Workers
        PROVE  /\ Owes(v, r)' => charged'[r] > 0 /\ cacheDebit'[r] = 0
               /\ OwesCommission(v, r)' => charged'[r] > 0 /\ credited'[r] = 0
    <2>1. CASE v = w
      BY <2>1, <1>1, <1>2, <1>4
    <2>2. CASE v # w
      BY <2>2, <1>1, <1>2, <1>3, <1>5 DEF FollowInv
    <2> QED
      BY <2>1, <2>2
  <1>8. ASSUME NEW r \in Requests, NEW v \in Workers, NEW u \in Workers,
               OwesCommission(v, r)', OwesCommission(u, r)'
        PROVE  u = v
    <2>1. CASE v # w /\ u # w
      BY <2>1, <1>3, <1>8 DEF FollowInv
    <2>2. CASE v = w \/ u = w
      BY <2>2, <1>2, <1>3, <1>4, <1>8
    <2> QED
      BY <2>1, <2>2
  <1> QED
    BY <1>6, <1>7, <1>8 DEF FollowInv

\* Only the worker that charged owes the follow-up.
LEMMA FollowStep ==
  ASSUME IInv, TypeOK', Next
  PROVE  FollowInv'
  <1> USE LedgerAssumption
          DEF FollowInv, EntryInv, TxInv, LockedInv, LockInv, JobInv, CallInv, DrainInv, ReconInv, Owes,
              OwesCommission, TypeOK, LedgerAssumption, Workers, Label, EntryState,
              FileState, At, Goto, Chargeable,
         dbVars, moneyVars, diskVars, memVars, IInv
  <1>1. ASSUME NEW c \in Calls, CallStart(c) PROVE FollowInv'
    BY <1>1 DEF CallStart
  <1>2. ASSUME NEW c \in Calls, CallCreateLog(c) PROVE FollowInv'
    BY <1>2 DEF CallCreateLog
  <1>3. ASSUME NEW c \in Calls, CallEnqueue(c) PROVE FollowInv'
    BY <1>3 DEF CallEnqueue
  <1>4. ASSUME NEW c \in Calls, CallLock(c) PROVE FollowInv'
    BY <1>4 DEF CallLock, LockEntry
  <1>5. ASSUME NEW c \in Calls, CallBillingFails(c) PROVE FollowInv'
    BY <1>5 DEF CallBillingFails, EndTx
  <1>6. ASSUME NEW c \in Calls, CallAlreadyApplied(c) PROVE FollowInv'
    BY <1>6 DEF CallAlreadyApplied, EndTx
  <1>7. ASSUME NEW c \in Calls, CallSubscriptionGone(c) PROVE FollowInv'
    BY <1>7 DEF CallSubscriptionGone, SetEntries, EndTx
  <1>8. ASSUME NEW c \in Calls, CallCommit(c) PROVE FollowInv'
    <2>1. /\ ReqOf[c] \in Requests /\ c \in Workers /\ pc[c] = "locked"
          /\ entry[ReqOf[c]] # "applied" /\ Cost[ReqOf[c]] > 0
      BY <1>8 DEF CallCommit
    <2>2. /\ Charge({ReqOf[c]})
          /\ UNCHANGED <<cacheDebit, credited>>
          /\ \E l, rest : rest \subseteq {ReqOf[c]} /\ Goto(c, l) /\ EndTx(c, rest)
      BY <1>8 DEF CallCommit
    <2> HIDE DEF FollowInv, EntryInv, Goto, TypeOK, Workers
    <2> QED
      BY <2>1, <2>2, FollowCharge DEF IInv
  <1>9. ASSUME NEW d \in Drainers, NEW c \in Calls, DrainClaim(d, c) PROVE FollowInv'
    BY <1>9 DEF DrainClaim, PendingBatch
  <1>10. ASSUME NEW d \in Drainers, DrainRead(d) PROVE FollowInv'
    BY <1>10 DEF DrainRead
  <1>11. ASSUME NEW d \in Drainers, DrainUnreadable(d) PROVE FollowInv'
    BY <1>11 DEF DrainUnreadable, MoveFile
  <1>12. ASSUME NEW d \in Drainers, DrainLock(d) PROVE FollowInv'
    BY <1>12 DEF DrainLock, LockEntry
  <1>13. ASSUME NEW d \in Drainers, DrainFails(d) PROVE FollowInv'
    BY <1>13 DEF DrainFails, EndTx
  <1>14. ASSUME NEW d \in Drainers, DrainAlreadyApplied(d) PROVE FollowInv'
    BY <1>14 DEF DrainAlreadyApplied, EndTx
  <1>15. ASSUME NEW d \in Drainers, DrainCommit(d) PROVE FollowInv'
    <2> DEFINE r == ReqOf[file[d]]
    <2>1. /\ r \in Requests /\ d \in Workers /\ pc[d] = "locked"
          /\ entry[r] # "applied" /\ Cost[r] > 0
      BY <1>15 DEF DrainCommit
    <2>2. /\ Charge({r})
          /\ UNCHANGED <<cacheDebit, credited>>
          /\ \/ Goto(d, "cache")   /\ EndTx(d, {r})
             \/ Goto(d, "requeue") /\ EndTx(d, {})
      BY <1>15 DEF DrainCommit
    <2> HIDE DEF r, FollowInv, EntryInv, Goto, TypeOK, Workers
    <2> QED
      BY <2>1, <2>2, FollowCharge DEF IInv
  <1>16. ASSUME NEW d \in Drainers, DrainRequeue(d) PROVE FollowInv'
    BY <1>16 DEF DrainRequeue, MoveFile
  <1>17. ASSUME NEW d \in Drainers, DrainFinish(d) PROVE FollowInv'
    BY <1>17 DEF DrainFinish, MoveFile
  <1>18. ASSUME NEW k \in Reconcilers, NEW S \in SUBSET Requests, ReconSelect(k, S) PROVE FollowInv'
    BY <1>18 DEF ReconSelect, Candidates
  <1>19. ASSUME NEW k \in Reconcilers, ReconCommit(k) PROVE FollowInv'
    <2> DEFINE paid == {r \in job[k] : Chargeable(r)}
    <2>1. /\ paid \in SUBSET Requests /\ k \in Workers /\ pc[k] = "locked"
          /\ \A r \in paid : entry[r] # "applied" /\ Cost[r] > 0
      BY <1>19 DEF ReconCommit
    <2>2. /\ Charge(paid)
          /\ UNCHANGED <<cacheDebit, credited>>
          /\ \/ Goto(k, IF paid = {} THEN "idle" ELSE "cache") /\ EndTx(k, paid)
             \/ Goto(k, "idle") /\ EndTx(k, {})
      BY <1>19 DEF ReconCommit
    <2> HIDE DEF paid, FollowInv, EntryInv, Goto, TypeOK, Workers
    <2> QED
      BY <2>1, <2>2, FollowCharge DEF IInv
  <1>20. ASSUME NEW k \in Reconcilers, ReconFails(k) PROVE FollowInv'
    BY <1>20 DEF ReconFails, EndTx
  <1>21. ASSUME NEW w \in Workers, UpdateCache(w) PROVE FollowInv'
    BY <1>21 DEF UpdateCache
  <1>22. ASSUME NEW w \in Workers, NEW r \in Requests, PayCommission(w, r) PROVE FollowInv'
    BY <1>22 DEF PayCommission, Finished
  <1>23. CASE DeleteSubscription
    BY <1>23 DEF DeleteSubscription
  <1>24. ASSUME NEW i \in Instances, Crash(i) PROVE FollowInv'
    BY <1>24 DEF Crash, On
  <1>25. ASSUME NEW i \in Instances, Restart(i) PROVE FollowInv'
    BY <1>25 DEF Restart
  <1> QED
    BY <1>1, <1>2, <1>3, <1>4, <1>5, <1>6, <1>7, <1>8, <1>9, <1>10, <1>11, <1>12, <1>13,
       <1>14, <1>15, <1>16, <1>17, <1>18, <1>19, <1>20, <1>21, <1>22, <1>23, <1>24, <1>25
       DEF Next, CallNext, CallStep, DrainNext, ReconNext, FollowUp, Environment

-----------------------------------------------------------------------------

\* The initial state satisfies the inductive invariant.
LEMMA InitIInv == Init => IInv
  <1> SUFFICES ASSUME Init PROVE IInv
    OBVIOUS
  <1> USE LedgerAssumption DEF LedgerAssumption, Init
  <1>1. TypeOK
    BY InitTypeOK
  <1>2. TxInv
    BY DEF TxInv, LockedInv, LockInv, JobInv, CallInv, DrainInv, ReconInv, Workers
  <1>3. EntryInv
    BY DEF EntryInv
  <1>4. DoneInv
    BY DEF DoneInv, Workers
  <1>5. FollowInv
    BY DEF FollowInv, Owes, OwesCommission
  <1> QED
    BY <1>1, <1>2, <1>3, <1>4, <1>5 DEF IInv

\* Every step, stuttering included, keeps the types.
LEMMA TypeStep == IInv /\ [Next]_vars => TypeOK'
  <1> SUFFICES ASSUME IInv, [Next]_vars PROVE TypeOK'
    OBVIOUS
  <1> USE DEF IInv
  <1>1. CASE UNCHANGED vars
    BY <1>1 DEF vars, TypeOK
  <1>2. CASE Next
    <2>1. ASSUME NEW c \in Calls, CallNext(c) PROVE TypeOK'
      BY <2>1, CallTypeOK
    <2>2. ASSUME NEW d \in Drainers, DrainNext(d) PROVE TypeOK'
      BY <2>2, DrainTypeOK DEF TxInv, LockedInv
    <2>3. CASE \/ \E k \in Reconcilers : ReconNext(k)
               \/ \E w \in Workers : FollowUp(w)
               \/ Environment
      BY <2>3, OtherTypeOK
    <2> QED
      BY <1>2, <2>1, <2>2, <2>3 DEF Next
  <1> QED
    BY <1>1, <1>2

\* IInv is inductive.
LEMMA NextIInv == IInv /\ [Next]_vars => IInv'
  <1> SUFFICES ASSUME IInv, [Next]_vars PROVE IInv'
    OBVIOUS
  <1>1. CASE UNCHANGED vars
    <2>1. TypeOK'
      BY TypeStep
    <2>2. TxInv'
      BY <1>1 DEF vars, IInv, TxInv, LockedInv, LockInv, JobInv, CallInv, DrainInv, ReconInv
    <2>3. EntryInv'
      BY <1>1 DEF vars, IInv, EntryInv, Chargeable
    <2>4. DoneInv'
      BY <1>1 DEF vars, IInv, DoneInv
    <2>5. FollowInv'
      BY <1>1 DEF vars, IInv, FollowInv, Owes, OwesCommission
    <2> QED
      BY <2>1, <2>2, <2>3, <2>4, <2>5 DEF IInv
  <1>2. CASE Next
    <2>1. TypeOK'
      BY TypeStep
    <2>2. TxInv' /\ EntryInv' /\ DoneInv' /\ FollowInv'
      BY <1>2, <2>1, TxStep, EntryStep, DoneStep, FollowStep
    <2> QED
      BY <2>1, <2>2 DEF IInv
  <1> QED
    BY <1>1, <1>2

\* The inductive invariant holds throughout every behaviour of the ledger.
THEOREM LedgerInvariant == Spec => []IInv
  BY InitIInv, NextIInv, PTL DEF Spec

\* Every variable keeps its type, whatever the workers and crashes do.
THEOREM TypeCorrect == Spec => []TypeOK
  <1>1. IInv => TypeOK
    BY DEF IInv
  <1> QED
    BY <1>1, LedgerInvariant, PTL

\* A request is charged once its entry is applied, by its exact cost, no matter
\* which calls, replays and reconcilers race for it or crash on the way.
THEOREM ChargeCorrect == Spec => []ChargedExactlyOnce
  <1>1. IInv => ChargedExactlyOnce
    BY LedgerAssumption DEF IInv, TypeOK, EntryInv, ChargedExactlyOnce, Chargeable,
       LedgerAssumption, EntryState
  <1> QED
    BY <1>1, LedgerInvariant, PTL

\* Though its update may fail beside a committed charge, the quota of the API key
\* counts a request at most once, by its exact cost, and only when the balance or
\* the subscription was charged for it.
THEOREM QuotaCorrect == Spec => []QuotaCountedAtMostOnce
  <1>1. IInv => QuotaCountedAtMostOnce
    BY DEF IInv, EntryInv, QuotaCountedAtMostOnce
  <1> QED
    BY <1>1, LedgerInvariant, PTL

\* The caches are debited at most once for a request, and only after its charge.
THEOREM CacheCorrect == Spec => []CacheDebitedAtMostOnce
  <1>1. IInv => CacheDebitedAtMostOnce
    BY DEF IInv, FollowInv, CacheDebitedAtMostOnce
  <1> QED
    BY <1>1, LedgerInvariant, PTL

\* The inviter is credited at most once for a request, and only after its charge.
THEOREM CommissionCorrect == Spec => []CommissionAtMostOnce
  <1>1. IInv => CommissionAtMostOnce
    BY DEF IInv, FollowInv, CommissionAtMostOnce
  <1> QED
    BY <1>1, LedgerInvariant, PTL

\* A spool file is set aside as done only when its entry is applied.
THEOREM DoneCorrect == Spec => []DoneMeansApplied
  <1>1. IInv => DoneMeansApplied
    BY DEF IInv, DoneInv, DoneMeansApplied
  <1> QED
    BY <1>1, LedgerInvariant, PTL

-----------------------------------------------------------------------------
(* Nothing is stranded *)

\* Whoever is in the middle of something runs on an instance that is up.
UpInv ==
  \A w \in Workers : pc[w] \notin {"idle", "done", "failed", "dead"} => HostOf[w] \in up

\* A row lock belongs to a transaction that is open on that entry.
HolderInv ==
  \A r \in Requests : rowLock[r] # Nobody =>
    /\ rowLock[r] \in Workers
    /\ pc[rowLock[r]] = "locked"
    /\ r \in job[rowLock[r]]

\* While every instance is up, a file in processing/ has a drainer at work on it.
ClaimInv ==
  up = Instances =>
    \A c \in Calls : spool[c] = "processing" =>
      \E d \in Drainers : file[d] = c /\ pc[d] # "idle"

StrandedInv == UpInv /\ HolderInv /\ ClaimInv

\* No crash, failed replay or race of drainers strands an event or an entry: a
\* locked entry has a running transaction that will commit or roll back, and a
\* file in processing/ a running drainer that will move it, or an instance is
\* down whose recoverProcessing will.  Everything else is free to be picked up.
NothingStranded ==
  /\ \A r \in Requests : rowLock[r] # Nobody =>
       \E w \in Workers : /\ rowLock[r] = w
                          /\ At(w, "locked")
                          /\ r \in job[w]
  /\ \A c \in Calls : spool[c] = "processing" =>
       \/ \E d \in Drainers : file[d] = c /\ pc[d] # "idle" /\ HostOf[d] \in up
       \/ \E i \in Instances : i \notin up

\* Only the step of a drainer, a crash or a restart touches what a file needs.
LEMMA ClaimKept ==
  ASSUME ClaimInv, UNCHANGED <<up, spool, file>>,
         \A d \in Drainers : pc[d] # "idle" => pc'[d] # "idle"
  PROVE  ClaimInv'
  BY DEF ClaimInv

\* A drainer that moves its file away leaves the claims of the others alone.
LEMMA ClaimMoved ==
  ASSUME TypeOK, ClaimInv, NEW d \in Drainers, NEW state \in FileState \ {"processing"},
         file[d] \in Calls, MoveFile(d, state), UNCHANGED up,
         \A e \in Drainers \ {d} : pc'[e] = pc[e]
  PROVE  ClaimInv'
  <1> SUFFICES ASSUME up = Instances, NEW c \in Calls, spool'[c] = "processing"
               PROVE  \E e \in Drainers : file'[e] = c /\ pc'[e] # "idle"
    BY DEF ClaimInv
  <1>1. spool[c] = "processing" /\ c # file[d]
    BY DEF MoveFile, TypeOK
  <1>2. PICK e \in Drainers : file[e] = c /\ pc[e] # "idle"
    BY <1>1 DEF ClaimInv
  <1> QED
    BY <1>1, <1>2 DEF MoveFile, TypeOK

\* Every step keeps track of who holds what.
LEMMA StrandedStep ==
  ASSUME TypeOK, DrainInv, StrandedInv, Next
  PROVE  StrandedInv'
  <1> USE LedgerAssumption
          DEF StrandedInv, UpInv, HolderInv, TypeOK, LedgerAssumption, Workers, At, Goto,
              dbVars, moneyVars, diskVars, memVars
  <1>1. ASSUME NEW c \in Calls, CallStart(c) PROVE StrandedInv'
    <2>1. UpInv'
      BY <1>1 DEF CallStart
    <2>2. HolderInv'
      BY <1>1 DEF CallStart
    <2>3. ClaimInv'
      BY <1>1, ClaimKept DEF CallStart
    <2> QED
      BY <2>1, <2>2, <2>3
  <1>2. ASSUME NEW c \in Calls, CallCreateLog(c) PROVE StrandedInv'
    <2>1. UpInv'
      BY <1>2 DEF CallCreateLog
    <2>2. HolderInv'
      BY <1>2 DEF CallCreateLog
    <2>3. ClaimInv'
      BY <1>2, ClaimKept DEF CallCreateLog
    <2> QED
      BY <2>1, <2>2, <2>3
  <1>3. ASSUME NEW c \in Calls, CallEnqueue(c) PROVE StrandedInv'
    <2>1. UpInv'
      BY <1>3 DEF CallEnqueue
    <2>2. HolderInv'
      BY <1>3 DEF CallEnqueue
    <2>3. ClaimInv'
      BY <1>3 DEF CallEnqueue, ClaimInv
    <2> QED
      BY <2>1, <2>2, <2>3
  <1>4. ASSUME NEW c \in Calls, CallLock(c) PROVE StrandedInv'
    <2>1. UpInv'
      BY <1>4 DEF CallLock, LockEntry
    <2>2. HolderInv'
      BY <1>4 DEF CallLock, LockEntry
    <2>3. ClaimInv'
      BY <1>4, ClaimKept DEF CallLock, LockEntry
    <2> QED
      BY <2>1, <2>2, <2>3
  <1>5. ASSUME NEW c \in Calls, CallBillingFails(c) PROVE StrandedInv'
    <2>1. UpInv'
      BY <1>5 DEF CallBillingFails, EndTx
    <2>2. HolderInv'
      BY <1>5 DEF CallBillingFails, EndTx
    <2>3. ClaimInv'
      BY <1>5, ClaimKept DEF CallBillingFails, EndTx
    <2> QED
      BY <2>1, <2>2, <2>3
  <1>6. ASSUME NEW c \in Calls, CallAlreadyApplied(c) PROVE StrandedInv'
    <2>1. UpInv'
      BY <1>6 DEF CallAlreadyApplied, EndTx
    <2>2. HolderInv'
      BY <1>6 DEF CallAlreadyApplied, EndTx
    <2>3. ClaimInv'
      BY <1>6, ClaimKept DEF CallAlreadyApplied, EndTx
    <2> QED
      BY <2>1, <2>2, <2>3
  <1>7. ASSUME NEW c \in Calls, CallSubscriptionGone(c) PROVE StrandedInv'
    <2>1. UpInv'
      BY <1>7 DEF CallSubscriptionGone, EndTx
    <2>2. HolderInv'
      BY <1>7 DEF CallSubscriptionGone, EndTx
    <2>3. ClaimInv'
      BY <1>7, ClaimKept DEF CallSubscriptionGone, EndTx
    <2> QED
      BY <2>1, <2>2, <2>3
  <1>8. ASSUME NEW c \in Calls, CallCommit(c) PROVE StrandedInv'
    <2>1. UpInv'
      BY <1>8 DEF CallCommit, EndTx
    <2>2. HolderInv'
      BY <1>8 DEF CallCommit, EndTx
    <2>3. ClaimInv'
      BY <1>8, ClaimKept DEF CallCommit, EndTx
    <2> QED
      BY <2>1, <2>2, <2>3
  <1>9. ASSUME NEW d \in Drainers, NEW c \in Calls, DrainClaim(d, c) PROVE StrandedInv'
    <2>1. UpInv'
      BY <1>9 DEF DrainClaim, PendingBatch
    <2>2. HolderInv'
      BY <1>9 DEF DrainClaim, PendingBatch
    <2>3. ClaimInv'
      BY <1>9 DEF DrainClaim, PendingBatch, ClaimInv
    <2> QED
      BY <2>1, <2>2, <2>3
  <1>10. ASSUME NEW d \in Drainers, DrainRead(d) PROVE StrandedInv'
    <2>1. UpInv'
      BY <1>10 DEF DrainRead
    <2>2. HolderInv'
      BY <1>10 DEF DrainRead
    <2>3. ClaimInv'
      BY <1>10, ClaimKept DEF DrainRead
    <2> QED
      BY <2>1, <2>2, <2>3
  <1>11. ASSUME NEW d \in Drainers, DrainUnreadable(d) PROVE StrandedInv'
    <2>1. UpInv'
      BY <1>11 DEF DrainUnreadable, MoveFile
    <2>2. HolderInv'
      BY <1>11 DEF DrainUnreadable, MoveFile
    <2>3. ClaimInv'
      <3>1. file[d] \in Calls
        BY <1>11 DEF DrainUnreadable, DrainInv
      <3>2. MoveFile(d, "bad") /\ UNCHANGED up /\ \A e \in Drainers \ {d} : pc'[e] = pc[e]
        BY <1>11 DEF DrainUnreadable
      <3> QED
        BY <3>1, <3>2, ClaimMoved DEF FileState
    <2> QED
      BY <2>1, <2>2, <2>3
  <1>12. ASSUME NEW d \in Drainers, DrainLock(d) PROVE StrandedInv'
    <2>1. UpInv'
      BY <1>12 DEF DrainLock, LockEntry
    <2>2. HolderInv'
      BY <1>12 DEF DrainLock, LockEntry
    <2>3. ClaimInv'
      BY <1>12, ClaimKept DEF DrainLock, LockEntry
    <2> QED
      BY <2>1, <2>2, <2>3
  <1>13. ASSUME NEW d \in Drainers, DrainFails(d) PROVE StrandedInv'
    <2>1. UpInv'
      BY <1>13 DEF DrainFails, EndTx
    <2>2. HolderInv'
      BY <1>13 DEF DrainFails, EndTx
    <2>3. ClaimInv'
      BY <1>13, ClaimKept DEF DrainFails, EndTx
    <2> QED
      BY <2>1, <2>2, <2>3
  <1>14. ASSUME NEW d \in Drainers, DrainAlreadyApplied(d) PROVE StrandedInv'
    <2>1. UpInv'
      BY <1>14 DEF DrainAlreadyApplied, EndTx
    <2>2. HolderInv'
      BY <1>14 DEF DrainAlreadyApplied, EndTx
    <2>3. ClaimInv'
      BY <1>14, ClaimKept DEF DrainAlreadyApplied, EndTx
    <2> QED
      BY <2>1, <2>2, <2>3
  <1>15. ASSUME NEW d \in Drainers, DrainCommit(d) PROVE StrandedInv'
    <2>1. UpInv'
      BY <1>15 DEF DrainCommit, EndTx
    <2>2. HolderInv'
      BY <1>15 DEF DrainCommit, EndTx
    <2>3. ClaimInv'
      BY <1>15, ClaimKept DEF DrainCommit, EndTx
    <2> QED
      BY <2>1, <2>2, <2>3
  <1>16. ASSUME NEW d \in Drainers, DrainRequeue(d) PROVE StrandedInv'
    <2>1. UpInv'
      BY <1>16 DEF DrainRequeue, MoveFile
    <2>2. HolderInv'
      BY <1>16 DEF DrainRequeue, MoveFile
    <2>3. ClaimInv'
      <3>1. file[d] \in Calls
        BY <1>16 DEF DrainRequeue, DrainInv
      <3>2. MoveFile(d, "pending") /\ UNCHANGED up /\ \A e \in Drainers \ {d} : pc'[e] = pc[e]
        BY <1>16 DEF DrainRequeue
      <3> QED
        BY <3>1, <3>2, ClaimMoved DEF FileState
    <2> QED
      BY <2>1, <2>2, <2>3
  <1>17. ASSUME NEW d \in Drainers, DrainFinish(d) PROVE StrandedInv'
    <2>1. UpInv'
      BY <1>17 DEF DrainFinish, MoveFile
    <2>2. HolderInv'
      BY <1>17 DEF DrainFinish, MoveFile
    <2>3. ClaimInv'
      <3>1. file[d] \in Calls
        BY <1>17 DEF DrainFinish, DrainInv
      <3>2. MoveFile(d, "done") /\ UNCHANGED up /\ \A e \in Drainers \ {d} : pc'[e] = pc[e]
        BY <1>17 DEF DrainFinish
      <3> QED
        BY <3>1, <3>2, ClaimMoved DEF FileState
    <2> QED
      BY <2>1, <2>2, <2>3
  <1>18. ASSUME NEW k \in Reconcilers, NEW S \in SUBSET Requests, ReconSelect(k, S) PROVE StrandedInv'
    <2>1. UpInv'
      BY <1>18 DEF ReconSelect, Candidates
    <2>2. HolderInv'
      BY <1>18 DEF ReconSelect, Candidates
    <2>3. ClaimInv'
      BY <1>18, ClaimKept DEF ReconSelect, Candidates
    <2> QED
      BY <2>1, <2>2, <2>3
  <1>19. ASSUME NEW k \in Reconcilers, ReconCommit(k) PROVE StrandedInv'
    <2>1. UpInv'
      BY <1>19 DEF ReconCommit, EndTx
    <2>2. HolderInv'
      BY <1>19 DEF ReconCommit, EndTx
    <2>3. ClaimInv'
      BY <1>19, ClaimKept DEF ReconCommit, EndTx
    <2> QED
      BY <2>1, <2>2, <2>3
  <1>20. ASSUME NEW k \in Reconcilers, ReconFails(k) PROVE StrandedInv'
    <2>1. UpInv'
      BY <1>20 DEF ReconFails, EndTx
    <2>2. HolderInv'
      BY <1>20 DEF ReconFails, EndTx
    <2>3. ClaimInv'
      BY <1>20, ClaimKept DEF ReconFails, EndTx
    <2> QED
      BY <2>1, <2>2, <2>3
  <1>21. ASSUME NEW w \in Workers, UpdateCache(w) PROVE StrandedInv'
    <2>1. UpInv'
      BY <1>21 DEF UpdateCache
    <2>2. HolderInv'
      BY <1>21 DEF UpdateCache
    <2>3. ClaimInv'
      BY <1>21, ClaimKept DEF UpdateCache
    <2> QED
      BY <2>1, <2>2, <2>3
  <1>22. ASSUME NEW w \in Workers, NEW r \in Requests, PayCommission(w, r) PROVE StrandedInv'
    <2>1. UpInv'
      BY <1>22 DEF PayCommission, Finished
    <2>2. HolderInv'
      BY <1>22 DEF PayCommission, Finished
    <2>3. ClaimInv'
      BY <1>22, ClaimKept DEF PayCommission, Finished
    <2> QED
      BY <2>1, <2>2, <2>3
  <1>23. CASE DeleteSubscription
    <2>1. UpInv'
      BY <1>23 DEF DeleteSubscription
    <2>2. HolderInv'
      BY <1>23 DEF DeleteSubscription
    <2>3. ClaimInv'
      BY <1>23, ClaimKept DEF DeleteSubscription
    <2> QED
      BY <2>1, <2>2, <2>3
  <1>24. ASSUME NEW i \in Instances, Crash(i) PROVE StrandedInv'
    <2>1. UpInv'
      BY <1>24 DEF Crash, On
    <2>2. HolderInv'
      BY <1>24 DEF Crash, On
    <2>3. ClaimInv'
      BY <1>24 DEF Crash, On, ClaimInv
    <2> QED
      BY <2>1, <2>2, <2>3
  <1>25. ASSUME NEW i \in Instances, Restart(i) PROVE StrandedInv'
    <2>1. UpInv'
      BY <1>25 DEF Restart
    <2>2. HolderInv'
      BY <1>25 DEF Restart
    <2>3. ClaimInv'
      BY <1>25 DEF Restart, ClaimInv
    <2> QED
      BY <2>1, <2>2, <2>3
  <1> QED
    BY <1>1, <1>2, <1>3, <1>4, <1>5, <1>6, <1>7, <1>8, <1>9, <1>10, <1>11, <1>12, <1>13,
       <1>14, <1>15, <1>16, <1>17, <1>18, <1>19, <1>20, <1>21, <1>22, <1>23, <1>24, <1>25
       DEF Next, CallNext, CallStep, DrainNext, ReconNext, FollowUp, Environment

\* At no point of any behaviour is an entry locked, or an event claimed, by a
\* worker that is gone: the safety that UnappliedIsEventuallyApplied and
\* SpooledIsEventuallyCharged rest on, for any number of crashes.
THEOREM NotStranded == Spec => []NothingStranded
  <1>1. Init => StrandedInv
    BY LedgerAssumption DEF Init, StrandedInv, UpInv, HolderInv, ClaimInv, LedgerAssumption
  <1>2. IInv /\ StrandedInv /\ [Next]_vars => StrandedInv'
    <2> SUFFICES ASSUME IInv, StrandedInv, [Next]_vars PROVE StrandedInv'
      OBVIOUS
    <2>1. CASE Next
      BY <2>1, StrandedStep DEF IInv, TxInv, LockedInv
    <2>2. CASE UNCHANGED vars
      BY <2>2 DEF vars, StrandedInv, UpInv, HolderInv, ClaimInv
    <2> QED
      BY <2>1, <2>2
  <1>3. IInv /\ StrandedInv => NothingStranded
    <2> SUFFICES ASSUME TypeOK, StrandedInv PROVE NothingStranded
      BY DEF IInv
    <2>1. ASSUME NEW r \in Requests, rowLock[r] # Nobody
          PROVE  \E w \in Workers : rowLock[r] = w /\ At(w, "locked") /\ r \in job[w]
      BY <2>1 DEF StrandedInv, HolderInv, UpInv, At
    <2>2. ASSUME NEW c \in Calls, spool[c] = "processing", up = Instances
          PROVE  \E d \in Drainers : file[d] = c /\ pc[d] # "idle" /\ HostOf[d] \in up
      BY <2>2, LedgerAssumption DEF StrandedInv, ClaimInv, LedgerAssumption, Workers
    <2>3. up = Instances \/ \E i \in Instances : i \notin up
      BY DEF TypeOK
    <2> QED
      BY <2>1, <2>2, <2>3 DEF NothingStranded
  <1> QED
    BY <1>1, <1>2, <1>3, LedgerInvariant, PTL DEF Spec

-----------------------------------------------------------------------------
(* The ledger implements once-only billing *)

\* Four actions write the ledger; every other step leaves entries and charges
\* alone, and at most deletes the subscription.
LEMMA LedgerWrites ==
  ASSUME Next
  PROVE  \/ UNCHANGED <<entry, charged>> /\ subAlive' \in {subAlive, FALSE}
         \/ \E c \in Calls : CallSubscriptionGone(c) \/ CallCommit(c)
         \/ \E d \in Drainers : DrainCommit(d)
         \/ \E k \in Reconcilers : ReconCommit(k)
  <1> DEFINE Quiet == UNCHANGED <<entry, charged>> /\ subAlive' \in {subAlive, FALSE}
  <1> USE DEF dbVars, moneyVars
  <1>1. ASSUME NEW c \in Calls, CallNext(c), ~CallSubscriptionGone(c), ~CallCommit(c)
        PROVE  Quiet
    BY <1>1 DEF CallNext, CallStep, CallStart, CallCreateLog, CallEnqueue, CallLock,
       CallBillingFails, CallAlreadyApplied
  <1>2. ASSUME NEW d \in Drainers, DrainNext(d), ~DrainCommit(d)
        PROVE  Quiet
    BY <1>2 DEF DrainNext, DrainClaim, DrainRead, DrainUnreadable, DrainLock, DrainFails,
       DrainAlreadyApplied, DrainRequeue, DrainFinish
  <1>3. ASSUME NEW k \in Reconcilers, ReconNext(k), ~ReconCommit(k)
        PROVE  Quiet
    BY <1>3 DEF ReconNext, ReconSelect, ReconFails
  <1>4. ASSUME NEW w \in Workers, FollowUp(w)
        PROVE  Quiet
    BY <1>4 DEF FollowUp, UpdateCache, PayCommission
  <1>5. CASE Environment
    BY <1>5 DEF Environment, DeleteSubscription, Crash, Restart
  <1> QED
    BY <1>1, <1>2, <1>3, <1>4, <1>5 DEF Next

\* An entry is applied once and for all, money moves in that very step, and a
\* step that deletes the subscription moves none.
LEMMA ApplyOnce ==
  ASSUME TypeOK, LockedInv, [Next]_vars
  PROVE  /\ \A r \in Requests :
              /\ charged'[r] # charged[r] => entry[r] # "applied" /\ entry'[r] = "applied"
              /\ entry[r] = "applied" => entry'[r] = "applied"
         /\ \/ UNCHANGED subAlive
            \/ subAlive' = FALSE /\ UNCHANGED <<entry, charged>>
  <1>0. TypeOK /\ LockInv /\ JobInv /\ DrainInv
    BY DEF LockedInv
  <1>1. CASE UNCHANGED vars
    BY <1>1 DEF vars
  <1>2. CASE UNCHANGED <<entry, charged>> /\ subAlive' \in {subAlive, FALSE}
    BY <1>2
  <1>3. ASSUME NEW c \in Calls, CallSubscriptionGone(c)
        PROVE  /\ UNCHANGED <<subAlive, charged>>
               /\ \A r \in Requests : entry[r] = "applied" => entry'[r] = "applied"
    <2>1. entry[ReqOf[c]] # "applied"
      BY <1>0, <1>3 DEF CallSubscriptionGone, At, LockInv, JobInv, Workers
    <2> QED
      BY <1>3, <2>1 DEF CallSubscriptionGone, SetEntries, moneyVars
  <1>4. ASSUME NEW S, SetEntries(S, "applied"), \A r \in S : entry[r] # "applied",
               Charge({r \in S : Chargeable(r)})
        PROVE  \A r \in Requests :
                 /\ charged'[r] # charged[r] =>
                      entry[r] # "applied" /\ entry'[r] = "applied"
                 /\ entry[r] = "applied" => entry'[r] = "applied"
    BY <1>4 DEF SetEntries, Charge
  <1>5. ASSUME NEW c \in Calls, CallCommit(c)
        PROVE  /\ UNCHANGED subAlive
               /\ \E S : /\ SetEntries(S, "applied")
                         /\ \A r \in S : entry[r] # "applied"
                         /\ Charge({r \in S : Chargeable(r)})
    <2>1. entry[ReqOf[c]] # "applied"
      BY <1>0, <1>5 DEF CallCommit, At, LockInv, JobInv, Workers
    <2>2. {r \in {ReqOf[c]} : Chargeable(r)} = {ReqOf[c]}
      BY <1>5 DEF CallCommit
    <2> QED
      BY <1>5, <2>1, <2>2 DEF CallCommit
  <1>6. ASSUME NEW d \in Drainers, DrainCommit(d)
        PROVE  /\ UNCHANGED subAlive
               /\ \E S : /\ SetEntries(S, "applied")
                         /\ \A r \in S : entry[r] # "applied"
                         /\ Charge({r \in S : Chargeable(r)})
    <2> DEFINE q == ReqOf[file[d]]
    <2>1. entry[q] # "applied"
      BY <1>0, <1>6 DEF DrainCommit, At, LockInv, DrainInv, Workers
    <2>2. {r \in {q} : Chargeable(r)} = {q}
      BY <1>6 DEF DrainCommit
    <2>3. SetEntries({q}, "applied") /\ Charge({q}) /\ UNCHANGED subAlive
      BY <1>6 DEF DrainCommit
    <2> HIDE DEF q
    <2> QED
      BY <2>1, <2>2, <2>3
  <1>7. ASSUME NEW k \in Reconcilers, ReconCommit(k)
        PROVE  /\ UNCHANGED subAlive
               /\ \E S : /\ SetEntries(S, "applied")
                         /\ \A r \in S : entry[r] # "applied"
                         /\ Charge({r \in S : Chargeable(r)})
    <2>1. \A r \in job[k] : entry[r] # "applied"
      BY <1>0, <1>7 DEF ReconCommit, At, LockInv, JobInv, Workers
    <2> QED
      BY <1>7, <2>1 DEF ReconCommit
  <1> QED
    BY <1>1, <1>2, <1>3, <1>4, <1>5, <1>6, <1>7, LedgerWrites

\* Money moves only in the step that applies an entry, and an applied entry is
\* never reopened.
THEOREM ChargeOnApply == Spec => ChargeOnlyOnApply
  <1>1. IInv /\ [Next]_vars =>
          [\A r \in Requests :
             /\ charged'[r] # charged[r] => entry[r] # "applied" /\ entry'[r] = "applied"
             /\ entry[r] = "applied" => entry'[r] = "applied"]_vars
    BY ApplyOnce DEF IInv, TxInv
  <1> QED
    BY <1>1, LedgerInvariant, PTL DEF Spec, ChargeOnlyOnApply

Verdict(r) == IF entry[r] # "applied" THEN "open"
              ELSE IF charged[r] > 0 THEN "charged" ELSE "waived"

\* The initial ledger, with the entries older releases left open, is all open.
LEMMA InitRefines == Init => Ledger!Init
  BY DEF Init, Ledger!Init

\* Every step of the workers settles open requests, ends the subscription, or
\* leaves the abstract ledger as it is.
LEMMA StepRefines ==
  ASSUME IInv, IInv', [Next]_vars
  PROVE  [Ledger!Next]_(Ledger!vars)
  <1> DEFINE Applied == {r \in Requests : entry[r] # "applied" /\ entry'[r] = "applied"}
             P == {r \in Applied : charged'[r] > 0}
             W == {r \in Applied : charged'[r] = 0}
             Body == \A r \in Requests :
                       /\ charged'[r] # charged[r] =>
                            entry[r] # "applied" /\ entry'[r] = "applied"
                       /\ entry[r] = "applied" => entry'[r] = "applied"
  <1>1. /\ Body
        /\ \/ UNCHANGED subAlive
           \/ subAlive' = FALSE /\ UNCHANGED <<entry, charged>>
    BY ApplyOnce DEF IInv, TxInv
  <1>2. CASE UNCHANGED <<entry, charged>>
    <2>1. subAlive' = FALSE \/ UNCHANGED subAlive
      BY <1>1
    <2> QED
      BY <1>2, <2>1 DEF Ledger!Next, Ledger!EndSubscription, Ledger!vars
  <1>3. CASE UNCHANGED subAlive
    <2>1. \A r \in P \cup W : Verdict(r) = "open"
      BY DEF Verdict
    <2>2. \A r \in W : Kind[r] = "subscription" /\ ~subAlive
      <3>1. ASSUME NEW r \in W PROVE ~Chargeable(r)'
        <4>1. entry'[r] = "applied" /\ charged'[r] = 0 /\ Cost[r] \in Nat
          BY LedgerAssumption DEF LedgerAssumption
        <4>2. /\ Cost[r] > 0
              /\ charged'[r] = Cost[r] \/ (charged'[r] = 0 /\ ~Chargeable(r)')
          BY <4>1 DEF IInv, EntryInv
        <4> QED
          BY <4>1, <4>2
      <3>2. ASSUME NEW r \in W PROVE Kind[r] # "balance" /\ ~subAlive
        BY <1>3, <3>1 DEF Chargeable
      <3> QED
        BY <3>2, LedgerAssumption DEF LedgerAssumption
    <2>3. ASSUME NEW r \in Requests
          PROVE  /\ Verdict(r)' = IF r \in P THEN "charged"
                                  ELSE IF r \in W THEN "waived" ELSE Verdict(r)
                 /\ charged'[r] = IF r \in P THEN Cost[r] ELSE charged[r]
      <3>1. charged[r] \in Nat /\ charged'[r] \in Nat
        BY DEF IInv, TypeOK
      <3>2. CASE r \in Applied
        <4>1. charged[r] = 0 /\ charged'[r] \in {0, Cost[r]}
          BY <3>2 DEF IInv, EntryInv
        <4> QED
          BY <3>1, <3>2, <4>1 DEF Verdict
      <3>3. CASE r \notin Applied
        <4>1. charged'[r] = charged[r]
          BY <1>1, <3>3
        <4>2. entry'[r] = "applied" <=> entry[r] = "applied"
          BY <1>1, <3>3
        <4> QED
          BY <3>3, <4>1, <4>2 DEF Verdict
      <3> QED
        BY <3>2, <3>3
    <2>4. charged' = [r \in Requests |-> IF r \in P THEN Cost[r] ELSE charged[r]]
      BY <2>3 DEF IInv, TypeOK
    <2>5. [r \in Requests |-> Verdict(r)]' =
            [r \in Requests |-> IF r \in P THEN "charged"
                                ELSE IF r \in W THEN "waived" ELSE Verdict(r)]
      BY <2>3
    <2>6. P \in SUBSET Requests /\ W \in SUBSET Requests /\ P \cap W = {}
      BY DEF IInv, TypeOK
    <2> HIDE DEF P, W
    <2>7. Ledger!Settle(P, W)
      <3>1. \A r \in P \cup W : [q \in Requests |-> Verdict(q)][r] = "open"
        BY <2>1, <2>6
      <3>2. [r \in Requests |-> Verdict(r)]' =
              [r \in Requests |->
                 IF r \in P THEN "charged" ELSE IF r \in W THEN "waived"
                 ELSE [q \in Requests |-> Verdict(q)][r]]
        BY <2>5
      <3> QED
        BY <1>3, <2>2, <2>4, <3>1, <3>2 DEF Ledger!Settle, Verdict
    <2> QED
      BY <2>6, <2>7 DEF Ledger!Next, Ledger!Settle
  <1> QED
    BY <1>1, <1>2, <1>3

\* The calls, the drainers and the reconcilers together implement once-only
\* billing: crashes, replays and races are stutters of the abstract ledger.
THEOREM Refinement == Spec => ImplementsOnceOnlyBilling
  <1>1. IInv /\ IInv' /\ [Next]_vars => [Ledger!Next]_(Ledger!vars)
    BY StepRefines
  <1> QED
    BY <1>1, InitRefines, LedgerInvariant, PTL
       DEF Spec, ImplementsOnceOnlyBilling, Ledger!Spec
=============================================================================
