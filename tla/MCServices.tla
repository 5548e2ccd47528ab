----------------------------- MODULE MCServices -----------------------------
(***************************************************************************)
(* Copies of the database that others keep and work done in the            *)
(* background, instantiated for TLC: the scheduler's snapshot, the tokens  *)
(* of an account, the entries of an API key, the cleanup of usage logs,    *)
(* and the breaker in front of the billing checks.  They share no          *)
(* variable, so a behaviour runs one of them, chosen at the start.         *)
(***************************************************************************)
EXTENDS SchedulerSnapshot, TokenRefresh, AuthCache, UsageCleanup, BillingBreaker, TLC

CONSTANTS a1, a2, p1, f1, q1, q2, i1, i2, t1, t2, n1, n2, c1, c2, c3

VARIABLE part  \* what a behaviour is about

allVars == <<part, snapshotVars, tokenVars, authVars, cleanupVars, breakerVars>>

RequestAt == (q1 :> i1) @@ (q2 :> i2)

Init ==
  /\ part \in {"snapshot", "tokens", "auth", "cleanup", "breaker"}
  /\ SnapshotInit /\ TokenInit /\ AuthInit /\ CleanupInit /\ BreakerInit
  /\ part # "snapshot" => \A a \in Accounts : account[a] = "on"
  /\ part # "auth" => key = "on"

NotSnapshot == <<part, tokenVars, authVars, cleanupVars, breakerVars>>
NotTokens == <<part, snapshotVars, authVars, cleanupVars, breakerVars>>
NotAuth == <<part, snapshotVars, tokenVars, cleanupVars, breakerVars>>
NotCleanup == <<part, snapshotVars, tokenVars, authVars, breakerVars>>
NotBreaker == <<part, snapshotVars, tokenVars, authVars, cleanupVars>>

Next ==
  \/ part = "snapshot" /\ SnapshotNext /\ UNCHANGED NotSnapshot
  \/ part = "tokens" /\ TokenNext /\ UNCHANGED NotTokens
  \/ part = "auth" /\ AuthNext /\ UNCHANGED NotAuth
  \/ part = "cleanup" /\ CleanupNext /\ UNCHANGED NotCleanup
  \/ part = "breaker" /\ BreakerNext /\ UNCHANGED NotBreaker

\* In its part: every writer that has begun goes on, the full rebuild comes
\* round, Redis drops a lock when its time is over; a change of a key and the
\* requests go on, messages arrive or are lost, and TTLs end; the timing wheel
\* calls runOnce again and again, and what it has begun goes on or is broken off;
\* not all checks that the breaker let through hang, others follow, and its
\* timeout passes.
Fairness ==
  /\ \A w \in Writers : WF_allVars(part = "snapshot" /\ UNCHANGED NotSnapshot /\ (Writes(w) \/ WriterFails(w)))
  /\ \A w \in Pollers : WF_allVars(part = "snapshot" /\ UNCHANGED NotSnapshot /\ PollOutbox(w))
  /\ \A w \in Others : WF_allVars(part = "snapshot" /\ UNCHANGED NotSnapshot /\ TriggerFullRebuild(w))
  /\ WF_allVars(part = "snapshot" /\ UNCHANGED NotSnapshot /\ LockExpires30s)
  /\ WF_allVars(part = "auth" /\ UNCHANGED NotAuth /\ Changes)
  /\ WF_allVars(part = "auth" /\ UNCHANGED NotAuth /\ L2Expires)
  /\ \A i \in Instances : WF_allVars(part = "auth" /\ UNCHANGED NotAuth /\ (HandleInvalidation(i) \/ L1Expires(i)))
  /\ \A q \in Requests : WF_allVars(part = "auth" /\ UNCHANGED NotAuth /\ Serves(q))
  /\ \A n \in Runners :
       WF_allVars(part = "cleanup" /\ UNCHANGED NotCleanup /\ (ClaimNextPendingTask(n) \/ ExecuteTask(n)))
  /\ WF_allVars(part = "breaker" /\ UNCHANGED NotBreaker /\ \E c \in Checks : EndCheck(c))
  /\ WF_allVars(part = "breaker" /\ UNCHANGED NotBreaker /\ \E c \in Checks : BeginChecks(c))
  /\ WF_allVars(part = "breaker" /\ UNCHANGED NotBreaker /\ ResetTimeoutPasses)

Spec == Init /\ [][Next]_allVars /\ Fairness

\* Every variable has its type, and no counter passes its bound.
TypeOK == SnapshotTypeOK /\ TokenTypeOK /\ AuthTypeOK /\ CleanupTypeOK /\ BreakerTypeOK

\* What was lost on the way is made good in the end.  Lost events, events that
\* found the bucket locked, rebuilds that failed and older readings published
\* late: the snapshot becomes what the database has and stays so (rebuildBucket,
\* runFullRebuildWorker).  Entries read too early and lost messages: instances
\* come to agree with the database, although every miss of a memory fills it
\* from Redis (getAuthCacheEntry).  Runners that crash, run out of time or fail
\* to write a result: every task ends (runOnce, ClaimNextPendingTask).
\* After the last failing call the breaker closes, whatever checks were on their way
\* when it opened, unless a probe has ended without a report (Allow).
MadeGood ==
  <>[]( /\ part = "snapshot" => UpToDate
        /\ part = "auth" => EntriesAgree
        /\ part = "cleanup" => AllEnded
        /\ part = "breaker" => ClosedOrSilent )
=============================================================================
