-------------------------- MODULE ErasedUsage_proofs --------------------------
(***************************************************************************)
(* Proofs about ErasedUsage, for any requests, workers, crashes and        *)
(* deletions of usage logs.                                                *)
(*                                                                         *)
(* What BillingLedger_proofs shows of locks holds here as well: a deletion *)
(* waits for the lock.  What it shows of entries does not, for an entry    *)
(* that was applied may be gone.  Instead, an entry that is not applied    *)
(* has been charged no more than its deletions account for, and one whose  *)
(* request was settled when it was deleted is out of everybody's reach.    *)
(***************************************************************************)
EXTENDS ErasedUsage, BillingLedger_proofs

\* Nobody will write the entry of the request again, nor its usage log.
OutOfReach(r) ==
  /\ entry[r] = "none"
  /\ r \notin usageLog
  /\ rowLock[r] = Nobody
  /\ \A c \in Calls :
       ReqOf[c] = r =>
         /\ pc[c] \notin {"idle", "create", "spool", "begin", "locked"}
         /\ spool[c] \notin {"pending", "processing"}
         /\ \A d \in Drainers : file[d] # c

\* Charged in full, or not at all as the subscription is gone.
Accounted(r) == charged[r] = Cost[r] \/ (charged[r] = 0 /\ ~Chargeable(r))

\* How much a request may have been charged.
ChargeBound ==
  \A r \in Requests :
    charged[r] <= (IF entry[r] = "applied" THEN 1 + erasures[r] ELSE erasures[r]) * Cost[r]

ErasedMoney ==
  \A r \in Requests :
    /\ erasures[r] = 0 /\ entry[r] = "applied" => Accounted(r)
    /\ erasures[r] > 0 /\ r \notin early => OutOfReach(r) /\ Accounted(r)

ErasedInv == EraseTypeOK /\ LockedInv /\ ChargeBound /\ ErasedMoney

-----------------------------------------------------------------------------

\* What a step of the ledger does to the entry and the money of one request:
\* nothing, unless a transaction that holds its lock commits.
LEMMA RequestStep ==
  ASSUME TypeOK, LockedInv, [Next]_vars, NEW r \in Requests
  PROVE  /\ subAlive' \in {subAlive, FALSE}
         /\ \/ entry'[r] = entry[r] /\ charged'[r] = charged[r]
            \/ /\ rowLock[r] # Nobody /\ entry[r] # "applied"
               /\ \/ entry'[r] = "unapplied" /\ charged'[r] = charged[r]
                  \/ /\ entry'[r] = "applied" /\ UNCHANGED subAlive
                     /\ charged'[r] = IF Chargeable(r) THEN charged[r] + Cost[r] ELSE charged[r]
  <1>0. TypeOK /\ LockInv /\ JobInv /\ DrainInv /\ Nobody \notin Workers
    BY LedgerAssumption DEF LockedInv
  <1>1. CASE UNCHANGED vars
    BY <1>1 DEF vars
  <1>2. CASE UNCHANGED <<entry, charged>> /\ subAlive' \in {subAlive, FALSE}
    BY <1>2
  <1>3. ASSUME NEW c \in Calls, CallSubscriptionGone(c)
        PROVE  /\ UNCHANGED <<subAlive, charged>>
               /\ SetEntries({ReqOf[c]}, "unapplied")
               /\ rowLock[ReqOf[c]] # Nobody /\ entry[ReqOf[c]] # "applied"
    BY <1>0, <1>3 DEF CallSubscriptionGone, At, LockInv, JobInv, Workers, moneyVars
  <1>4. ASSUME NEW S, SetEntries(S, "applied"), Charge({q \in S : Chargeable(q)}), UNCHANGED subAlive,
               \A q \in S : entry[q] # "applied" /\ rowLock[q] # Nobody
        PROVE  \/ entry'[r] = entry[r] /\ charged'[r] = charged[r]
               \/ /\ rowLock[r] # Nobody /\ entry[r] # "applied"
                  /\ entry'[r] = "applied"
                  /\ charged'[r] = IF Chargeable(r) THEN charged[r] + Cost[r] ELSE charged[r]
    BY <1>4 DEF SetEntries, Charge
  <1>5. ASSUME NEW c \in Calls, CallCommit(c)
        PROVE  \E S : /\ SetEntries(S, "applied") /\ Charge({q \in S : Chargeable(q)})
                      /\ UNCHANGED subAlive
                      /\ \A q \in S : entry[q] # "applied" /\ rowLock[q] # Nobody
    <2>1. entry[ReqOf[c]] # "applied" /\ rowLock[ReqOf[c]] # Nobody
      BY <1>0, <1>5 DEF CallCommit, At, LockInv, JobInv, Workers
    <2>2. {q \in {ReqOf[c]} : Chargeable(q)} = {ReqOf[c]}
      BY <1>5 DEF CallCommit
    <2> QED
      BY <1>5, <2>1, <2>2 DEF CallCommit
  <1>6. ASSUME NEW d \in Drainers, DrainCommit(d)
        PROVE  \E S : /\ SetEntries(S, "applied") /\ Charge({q \in S : Chargeable(q)})
                      /\ UNCHANGED subAlive
                      /\ \A q \in S : entry[q] # "applied" /\ rowLock[q] # Nobody
    <2> DEFINE p == ReqOf[file[d]]
    <2>1. entry[p] # "applied" /\ rowLock[p] # Nobody
      BY <1>0, <1>6 DEF DrainCommit, At, LockInv, DrainInv, Workers
    <2>2. {q \in {p} : Chargeable(q)} = {p}
      BY <1>6 DEF DrainCommit
    <2>3. SetEntries({p}, "applied") /\ Charge({p}) /\ UNCHANGED subAlive
      BY <1>6 DEF DrainCommit
    <2> HIDE DEF p
    <2> QED
      BY <2>1, <2>2, <2>3
  <1>7. ASSUME NEW k \in Reconcilers, ReconCommit(k)
        PROVE  \E S : /\ SetEntries(S, "applied") /\ Charge({q \in S : Chargeable(q)})
                      /\ UNCHANGED subAlive
                      /\ \A q \in S : entry[q] # "applied" /\ rowLock[q] # Nobody
    <2>1. \A q \in job[k] : entry[q] # "applied" /\ rowLock[q] # Nobody
      BY <1>0, <1>7 DEF ReconCommit, At, LockInv, JobInv, Workers
    <2> QED
      BY <1>7, <2>1 DEF ReconCommit
  <1>8. ASSUME NEW c \in Calls, CallSubscriptionGone(c)
        PROVE  /\ UNCHANGED <<subAlive, charged>>
               /\ \/ entry'[r] = entry[r]
                  \/ rowLock[r] # Nobody /\ entry[r] # "applied" /\ entry'[r] = "unapplied"
    BY <1>3, <1>8 DEF SetEntries
  <1> QED
    BY <1>1, <1>2, <1>4, <1>5, <1>6, <1>7, <1>8, LedgerWrites

\* A request that is out of reach stays so.
LEMMA StaysOutOfReach ==
  ASSUME TypeOK, LockedInv, Next, NEW r \in Requests, OutOfReach(r)
  PROVE  OutOfReach(r)'
  <1>1. entry'[r] = "none"
    BY RequestStep DEF OutOfReach
  <1> USE LedgerAssumption
          DEF OutOfReach, LockedInv, LockInv, JobInv, DrainInv, TypeOK, Workers, Label,
              EntryState, FileState, At, Goto, dbVars, moneyVars, diskVars, memVars
  <1>2. ASSUME NEW c \in Calls, CallNext(c) PROVE OutOfReach(r)'
    <2>1. CASE ReqOf[c] = r
      BY <1>1, <1>2, <2>1 DEF CallNext, CallStep, CallStart, CallCreateLog, CallEnqueue, CallLock,
         CallBillingFails, CallAlreadyApplied, CallSubscriptionGone, CallCommit
    <2>2. CASE ReqOf[c] # r
      <3>0. /\ \E l : pc' = [pc EXCEPT ![c] = l]
            /\ UNCHANGED spool \/ spool' = [spool EXCEPT ![c] = "pending"]
        BY <1>2 DEF CallNext, CallStep, CallStart, CallCreateLog, CallEnqueue, CallLock,
           CallBillingFails, CallAlreadyApplied, CallSubscriptionGone, CallCommit
      <3>1. \A b \in Calls : ReqOf[b] = r => pc'[b] = pc[b] /\ spool'[b] = spool[b]
        BY <2>2, <3>0
      <3>2. r \notin usageLog' /\ UNCHANGED file
        BY <1>2, <2>2 DEF CallNext, CallStep, CallStart, CallCreateLog, CallEnqueue, CallLock,
           CallBillingFails, CallAlreadyApplied, CallSubscriptionGone, CallCommit
      <3>3. rowLock'[r] = Nobody
        BY <1>2, <2>2 DEF CallNext, CallStep, CallStart, CallCreateLog, CallEnqueue, CallLock,
           LockEntry, EndTx,
           CallBillingFails, CallAlreadyApplied, CallSubscriptionGone, CallCommit
      <3> QED
        BY <1>1, <3>1, <3>2, <3>3
    <2> QED
      BY <2>1, <2>2
  <1>3. ASSUME NEW d \in Drainers, DrainNext(d) PROVE OutOfReach(r)'
    <2>1. pc[d] # "idle" => file[d] \in Calls /\ ReqOf[file[d]] # r
      OBVIOUS
    <2>a. \E l : pc' = [pc EXCEPT ![d] = l]
      BY <1>3 DEF DrainNext, DrainClaim, DrainRead, DrainUnreadable, DrainLock, DrainFails,
         DrainAlreadyApplied, DrainCommit, DrainRequeue, DrainFinish
    <2>b. d \notin Calls /\ NoFile \notin Calls
      OBVIOUS
    <2>c. \A c \in Calls : ReqOf[c] = r => pc'[c] = pc[c]
      BY <2>a, <2>b
    <2>d. \/ UNCHANGED <<spool, file>>
          \/ \E b \in Calls : /\ spool[b] = "pending"
                             /\ spool' = [spool EXCEPT ![b] = "processing"]
                             /\ file' = [file EXCEPT ![d] = b]
          \/ /\ pc[d] # "idle"
             /\ \/ UNCHANGED spool
                \/ \E s : spool' = [spool EXCEPT ![file[d]] = s]
             /\ file' = [file EXCEPT ![d] = NoFile]
      BY <1>3 DEF DrainNext, DrainClaim, PendingBatch, DrainRead, DrainUnreadable, MoveFile,
         DrainLock, DrainFails, DrainAlreadyApplied, DrainCommit, DrainRequeue, DrainFinish
    <2>e. \A c \in Calls : ReqOf[c] = r =>
            /\ spool'[c] = spool[c]
            /\ \A e \in Drainers : file'[e] # c
      <3>1. CASE UNCHANGED <<spool, file>>
        BY <3>1
      <3>2. ASSUME NEW b \in Calls, spool[b] = "pending",
                   spool' = [spool EXCEPT ![b] = "processing"], file' = [file EXCEPT ![d] = b]
            PROVE  \A c \in Calls : ReqOf[c] = r =>
                     /\ spool'[c] = spool[c]
                     /\ \A e \in Drainers : file'[e] # c
        BY <3>2
      <3>3. ASSUME pc[d] # "idle", UNCHANGED spool \/ \E s : spool' = [spool EXCEPT ![file[d]] = s],
                   file' = [file EXCEPT ![d] = NoFile]
            PROVE  \A c \in Calls : ReqOf[c] = r =>
                     /\ spool'[c] = spool[c]
                     /\ \A e \in Drainers : file'[e] # c
        BY <2>1, <2>b, <3>3
      <3> QED
        BY <2>d, <3>1, <3>2, <3>3
    <2>2. \A c \in Calls : ReqOf[c] = r =>
            /\ pc'[c] = pc[c] /\ spool'[c] = spool[c]
            /\ \A e \in Drainers : file'[e] # c
      BY <2>c, <2>e
    <2>3. r \notin usageLog'
      BY <1>3, <2>1 DEF DrainNext, DrainClaim, DrainRead, DrainUnreadable, DrainLock, DrainFails,
         DrainAlreadyApplied, DrainCommit, DrainRequeue, DrainFinish
    <2>4. rowLock'[r] = Nobody
      BY <1>3, <2>1 DEF DrainNext, DrainClaim, DrainRead, DrainUnreadable, DrainLock, LockEntry,
         EndTx, DrainFails, DrainAlreadyApplied, DrainCommit, DrainRequeue, DrainFinish
    <2> QED
      BY <1>1, <2>2, <2>3, <2>4
  <1>4. ASSUME NEW k \in Reconcilers, ReconNext(k) PROVE OutOfReach(r)'
    <2>1. UNCHANGED <<usageLog, spool, file>> /\ \A c \in Calls : pc'[c] = pc[c]
      BY <1>4 DEF ReconNext, ReconSelect, ReconCommit, ReconFails
    <2>2. rowLock'[r] = Nobody
      BY <1>4 DEF ReconNext, ReconSelect, Candidates, ReconCommit, ReconFails, EndTx
    <2> QED
      BY <1>1, <2>1, <2>2
  <1>5. ASSUME NEW w \in Workers, FollowUp(w) PROVE OutOfReach(r)'
    <2>1. UNCHANGED <<usageLog, rowLock, spool, file>>
      BY <1>5 DEF FollowUp, UpdateCache, PayCommission
    <2>2. \A c \in Calls : pc'[c] # pc[c] => pc'[c] \in {"commission", "done"}
      BY <1>5 DEF FollowUp, UpdateCache, PayCommission, Finished
    <2> QED
      BY <1>1, <2>1, <2>2
  <1>6. CASE DeleteSubscription
    BY <1>1, <1>6 DEF DeleteSubscription
  <1>7. ASSUME NEW i \in Instances, Crash(i) PROVE OutOfReach(r)'
    BY <1>1, <1>7 DEF Crash, On
  <1>8. ASSUME NEW i \in Instances, Restart(i) PROVE OutOfReach(r)'
    BY <1>1, <1>8 DEF Restart
  <1> QED
    BY <1>2, <1>3, <1>4, <1>5, <1>6, <1>7, <1>8 DEF Next, Environment

\* A settled request whose usage log is deleted is out of reach at once.
LEMMA ErasedIsOutOfReach ==
  ASSUME EraseTypeOK, NEW r \in Requests, EraseUsageLog(r), Settled(r)
  PROVE  OutOfReach(r)'
  BY DEF EraseTypeOK, TypeOK, EraseUsageLog, Settled, OutOfReach, diskVars

\* A deletion changes neither what a transaction has read nor what it is about.
LEMMA EraseKeeps ==
  ASSUME ErasedInv, NEW r \in Requests, EraseUsageLog(r)
  PROVE  ErasedInv'
  <1>0. /\ TypeOK /\ EraseTypeOK /\ LockedInv /\ ChargeBound /\ ErasedMoney
        /\ Nobody \notin Workers
    BY LedgerAssumption DEF ErasedInv, EraseTypeOK
  <1>1. /\ r \in usageLog /\ rowLock[r] = Nobody
        /\ usageLog' = usageLog \ {r}
        /\ entry' = [entry EXCEPT ![r] = "none"]
        /\ commission' = commission \ {r}
        /\ erasures' = [erasures EXCEPT ![r] = @ + 1]
        /\ early' = IF Settled(r) THEN early ELSE early \cup {r}
        /\ UNCHANGED <<charged, quotaUsed, credited, subAlive, rowLock, cacheDebit, spool, stamp,
                       up, crashes, pc, job, sawApplied, file>>
    BY DEF EraseUsageLog, moneyVars, diskVars, memVars
  <1>2. /\ entry' \in [Requests -> EntryState] /\ entry'[r] = "none"
        /\ \A q \in Requests \ {r} : entry'[q] = entry[q]
    BY <1>0, <1>1 DEF TypeOK, EntryState
  <1>3. /\ erasures' \in [Requests -> Nat] /\ erasures'[r] = erasures[r] + 1
        /\ \A q \in Requests \ {r} : erasures'[q] = erasures[q]
    BY <1>0, <1>1 DEF EraseTypeOK
  <1>4. EraseTypeOK'
    BY <1>0, <1>1, <1>2, <1>3 DEF EraseTypeOK, TypeOK
  <1>5. LockedInv'
    <2>1. LockInv'
      BY <1>0, <1>1, <1>2 DEF LockedInv, LockInv, TypeOK
    <2>2. JobInv' /\ DrainInv'
      BY <1>0, <1>1 DEF LockedInv, JobInv, DrainInv
    <2> QED
      BY <2>1, <2>2 DEF LockedInv
  <1>6. ChargeBound'
    <2> SUFFICES ASSUME NEW q \in Requests
                 PROVE  charged'[q] <= (IF entry'[q] = "applied" THEN 1 + erasures'[q] ELSE erasures'[q])
                                         * Cost[q]
      BY DEF ChargeBound
    <2>1. charged[q] <= (IF entry[q] = "applied" THEN 1 + erasures[q] ELSE erasures[q]) * Cost[q]
      BY <1>0 DEF ChargeBound
    <2>2. CASE q # r
      BY <1>1, <1>2, <1>3, <2>1, <2>2
    <2>3. CASE q = r
      <3>1. erasures[r] \in Nat /\ Cost[r] \in Nat /\ charged[r] \in Nat
        BY <1>0, LedgerAssumption DEF EraseTypeOK, TypeOK
      <3>2. erasures[r] * Cost[r] <= (1 + erasures[r]) * Cost[r]
        BY <3>1
      <3>3. charged[r] <= (1 + erasures[r]) * Cost[r]
        BY <2>1, <2>3, <3>1, <3>2
      <3> QED
        BY <1>1, <1>2, <1>3, <2>3, <3>1, <3>3
    <2> QED
      BY <2>2, <2>3
  <1>7. ErasedMoney'
    <2> SUFFICES ASSUME NEW q \in Requests
                 PROVE  /\ erasures'[q] = 0 /\ entry'[q] = "applied" => Accounted(q)'
                        /\ erasures'[q] > 0 /\ q \notin early' => OutOfReach(q)' /\ Accounted(q)'
      BY DEF ErasedMoney
    <2>1. Accounted(q)' <=> Accounted(q)
      BY <1>1 DEF Accounted, Chargeable
    <2>2. CASE q # r
      <3>1. OutOfReach(q) => OutOfReach(q)'
        BY <1>1, <1>2, <2>2 DEF OutOfReach
      <3>2. q \in early => q \in early'
        BY <1>1
      <3> QED
        BY <1>0, <1>2, <1>3, <2>1, <2>2, <3>1, <3>2 DEF ErasedMoney
    <2>3. CASE q = r /\ r \notin early'
      <3>1. Settled(r) /\ r \notin early
        BY <1>1, <2>3
      <3>2. OutOfReach(r)'
        BY <1>0, <3>1, ErasedIsOutOfReach
      <3>3. erasures[r] = 0
        <4>1. erasures[r] \in Nat
          BY <1>0 DEF EraseTypeOK
        <4> QED
          BY <1>0, <1>1, <3>1, <4>1 DEF ErasedMoney, OutOfReach
      <3>4. Accounted(r)
        BY <1>0, <3>1, <3>3 DEF ErasedMoney, Settled
      <3> QED
        BY <1>2, <2>1, <2>3, <3>2, <3>4
    <2>4. CASE q = r /\ r \in early'
      <3>1. entry'[r] # "applied"
        BY <1>2
      <3> QED
        BY <2>4, <3>1
    <2> QED
      BY <2>2, <2>3, <2>4
  <1> QED
    BY <1>4, <1>5, <1>6, <1>7 DEF ErasedInv

\* Every step of the ledger keeps the types, also of what deletions left.
LEMMA LedgerTypeStep ==
  ASSUME TypeOK, LockedInv, Next
  PROVE  TypeOK'
  <1>1. ASSUME NEW c \in Calls, CallNext(c) PROVE TypeOK'
    BY <1>1, CallTypeOK
  <1>2. ASSUME NEW d \in Drainers, DrainNext(d) PROVE TypeOK'
    BY <1>2, DrainTypeOK DEF LockedInv
  <1>3. CASE \/ \E k \in Reconcilers : ReconNext(k)
             \/ \E w \in Workers : FollowUp(w)
             \/ Environment
    BY <1>3, OtherTypeOK
  <1> QED
    BY <1>1, <1>2, <1>3 DEF Next

LEMMA LedgerKeeps ==
  ASSUME ErasedInv, Next, UNCHANGED eraseVars
  PROVE  ErasedInv'
  <1>0. /\ TypeOK /\ EraseTypeOK /\ LockedInv /\ ChargeBound /\ ErasedMoney
        /\ UNCHANGED <<erasures, early>>
    BY DEF ErasedInv, EraseTypeOK, eraseVars
  <1>1. TypeOK'
    BY <1>0, LedgerTypeStep
  <1>2. EraseTypeOK'
    BY <1>0, <1>1 DEF EraseTypeOK
  <1>3. LockedInv'
    BY <1>0, <1>1, LockedStep
  <1>4. ASSUME NEW r \in Requests
        PROVE  /\ subAlive' \in {subAlive, FALSE}
               /\ \/ entry'[r] = entry[r] /\ charged'[r] = charged[r]
                  \/ /\ rowLock[r] # Nobody /\ entry[r] # "applied"
                     /\ \/ entry'[r] = "unapplied" /\ charged'[r] = charged[r]
                        \/ /\ entry'[r] = "applied" /\ UNCHANGED subAlive
                           /\ charged'[r] = IF Chargeable(r) THEN charged[r] + Cost[r] ELSE charged[r]
    BY <1>0, RequestStep
  <1>5. ASSUME NEW r \in Requests
        PROVE  /\ erasures[r] \in Nat /\ Cost[r] \in Nat /\ charged[r] \in Nat
               /\ (1 + erasures[r]) * Cost[r] = erasures[r] * Cost[r] + Cost[r]
               /\ erasures[r] * Cost[r] \in Nat
    <2>1. erasures[r] \in Nat /\ Cost[r] \in Nat /\ charged[r] \in Nat
      BY <1>0, LedgerAssumption DEF EraseTypeOK, TypeOK
    <2> QED
      BY <2>1
  <1>6. ChargeBound'
    <2> SUFFICES ASSUME NEW r \in Requests
                 PROVE  charged'[r] <= (IF entry'[r] = "applied" THEN 1 + erasures[r] ELSE erasures[r])
                                         * Cost[r]
      BY <1>0 DEF ChargeBound
    <2>1. charged[r] <= (IF entry[r] = "applied" THEN 1 + erasures[r] ELSE erasures[r]) * Cost[r]
      BY <1>0 DEF ChargeBound
    <2>2. CASE entry'[r] = entry[r] /\ charged'[r] = charged[r]
      BY <2>1, <2>2
    <2>3. CASE entry[r] # "applied" /\ entry'[r] # "applied" /\ charged'[r] = charged[r]
      BY <2>1, <2>3
    <2>4. CASE /\ entry[r] # "applied" /\ entry'[r] = "applied"
               /\ charged'[r] = IF Chargeable(r) THEN charged[r] + Cost[r] ELSE charged[r]
      <3>1. charged[r] <= erasures[r] * Cost[r]
        BY <2>1, <2>4
      <3>2. charged'[r] <= charged[r] + Cost[r]
        BY <1>5, <2>4
      <3>3. charged'[r] \in Nat
        BY <1>5, <2>4
      <3>4. charged'[r] <= erasures[r] * Cost[r] + Cost[r]
        BY <1>5, <3>1, <3>2, <3>3
      <3>5. charged'[r] <= (1 + erasures[r]) * Cost[r]
        BY <1>5, <3>4
      <3> QED
        BY <2>4, <3>5
    <2> QED
      BY <1>4, <2>2, <2>3, <2>4
  <1>7. ErasedMoney'
    <2> SUFFICES ASSUME NEW r \in Requests
                 PROVE  /\ erasures[r] = 0 /\ entry'[r] = "applied" => Accounted(r)'
                        /\ erasures[r] > 0 /\ r \notin early => OutOfReach(r)' /\ Accounted(r)'
      BY <1>0 DEF ErasedMoney
    <2>1. CASE charged'[r] = charged[r] /\ entry'[r] = entry[r]
      <3>1. Accounted(r) => Accounted(r)'
        BY <1>0, <1>4, <2>1, LedgerAssumption DEF Accounted, Chargeable, TypeOK
      <3>2. OutOfReach(r) => OutOfReach(r)'
        BY <1>0, StaysOutOfReach
      <3> QED
        BY <1>0, <2>1, <3>1, <3>2 DEF ErasedMoney
    <2>2. CASE rowLock[r] # Nobody /\ entry[r] # "applied"
      <3>1. erasures[r] = 0 \/ r \in early
        BY <1>0, <1>5, <2>2 DEF ErasedMoney, OutOfReach
      <3>2. ASSUME erasures[r] = 0, entry'[r] = "applied", charged'[r] # charged[r] \/ entry'[r] # entry[r]
            PROVE  Accounted(r)'
        <4>1. charged[r] = 0
          <5>1. charged[r] <= erasures[r] * Cost[r]
            BY <1>0, <2>2 DEF ChargeBound
          <5>2. Cost[r] \in Nat
            BY <1>5
          <5>3. 0 * Cost[r] = 0
            BY <5>2
          <5> QED
            BY <1>5, <3>2, <5>1, <5>3
        <4>2. /\ UNCHANGED subAlive
              /\ charged'[r] = IF Chargeable(r) THEN charged[r] + Cost[r] ELSE charged[r]
          BY <1>4, <3>2
        <4> QED
          BY <1>5, <4>1, <4>2 DEF Accounted, Chargeable
      <3> QED
        BY <1>5, <2>1, <3>1, <3>2
    <2> QED
      BY <1>4, <2>1, <2>2
  <1> QED
    BY <1>2, <1>3, <1>6, <1>7 DEF ErasedInv

LEMMA ErasedStays ==
  ASSUME ErasedInv, UNCHANGED <<vars, eraseVars>>
  PROVE  ErasedInv'
  <1>1. EraseTypeOK' /\ LockedInv'
    BY DEF ErasedInv, EraseTypeOK, TypeOK, LockedInv, LockInv, JobInv, DrainInv, vars, eraseVars
  <1>2. ChargeBound' /\ ErasedMoney'
    BY DEF ErasedInv, ChargeBound, ErasedMoney, OutOfReach, Accounted, Chargeable, vars, eraseVars
  <1> QED
    BY <1>1, <1>2 DEF ErasedInv

LEMMA ErasedStarts == EraseInit => ErasedInv
  <1> SUFFICES ASSUME EraseInit PROVE ErasedInv
    OBVIOUS
  <1>1. IInv
    BY InitIInv DEF EraseInit
  <1>2. EraseTypeOK /\ LockedInv
    BY <1>1 DEF EraseInit, EraseTypeOK, IInv, TxInv
  <1>3. ChargeBound
    <2> SUFFICES ASSUME NEW r \in Requests
                 PROVE  charged[r] <= (IF entry[r] = "applied" THEN 1 + erasures[r] ELSE erasures[r])
                                        * Cost[r]
      BY DEF ChargeBound
    <2>1. charged[r] = 0 /\ erasures[r] = 0 /\ entry[r] # "applied" /\ Cost[r] \in Nat
      BY LedgerAssumption DEF EraseInit, Init
    <2>2. 0 * Cost[r] = 0
      BY <2>1
    <2> QED
      BY <2>1, <2>2
  <1>4. ErasedMoney
    BY DEF EraseInit, Init, ErasedMoney
  <1> QED
    BY <1>2, <1>3, <1>4 DEF ErasedInv

\* The invariant of the ledger under deletions of usage logs.
THEOREM ErasedInvariant == EraseSpec => []ErasedInv
  <1>1. ErasedInv /\ [EraseNext]_<<vars, eraseVars>> => ErasedInv'
    BY EraseKeeps, LedgerKeeps, ErasedStays DEF EraseNext
  <1> QED
    BY <1>1, ErasedStarts, PTL DEF EraseSpec

\* Every variable keeps its type, whatever is deleted.
THEOREM EraseTypeCorrect == EraseSpec => []EraseTypeOK
  <1>1. ErasedInv => EraseTypeOK
    BY DEF ErasedInv
  <1> QED
    BY <1>1, ErasedInvariant, PTL

\* A deletion of a usage log opens the way to one more charge of its request at
\* most, and to none when the request was settled (DeleteUsageLogsBatch,
\* applyEventWithDB, recoverProcessing).
THEOREM ErasedStaysCharged == EraseSpec => []ErasedIsNotChargedAgain
  <1>1. ErasedInv => ErasedIsNotChargedAgain
    <2> SUFFICES ASSUME ErasedInv, NEW r \in Requests
                 PROVE  /\ charged[r] <= (1 + erasures[r]) * Cost[r]
                        /\ erasures[r] > 0 /\ r \notin early =>
                             charged[r] = Cost[r] \/ (charged[r] = 0 /\ ~Chargeable(r))
      BY DEF ErasedIsNotChargedAgain
    <2>1. erasures[r] \in Nat /\ Cost[r] \in Nat /\ charged[r] \in Nat
      BY LedgerAssumption DEF ErasedInv, EraseTypeOK, TypeOK
    <2>2. erasures[r] * Cost[r] <= (1 + erasures[r]) * Cost[r] /\ erasures[r] * Cost[r] \in Nat
      BY <2>1
    <2>3. charged[r] <= (IF entry[r] = "applied" THEN 1 + erasures[r] ELSE erasures[r]) * Cost[r]
      BY DEF ErasedInv, ChargeBound
    <2>4. charged[r] <= (1 + erasures[r]) * Cost[r]
      BY <2>1, <2>2, <2>3
    <2> QED
      BY <2>4 DEF ErasedInv, ErasedMoney, Accounted
  <1> QED
    BY <1>1, ErasedInvariant, PTL
=============================================================================
