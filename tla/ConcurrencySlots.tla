-------------------------- MODULE ConcurrencySlots --------------------------
(***************************************************************************)
(* Limiting the requests that run at once, per user and per account.       *)
(*                                                                         *)
(* A pool is a Redis sorted set of slots with their time of acquisition    *)
(* beside a counter of waiting requests.  A request counts itself as       *)
(* waiting for its user's pool, acquires a slot there, then selects an     *)
(* account and acquires a slot of that pool, directly or after waiting,    *)
(* forwards, and gives both back; a failing account is exchanged for       *)
(* another one.  A slot that nobody gives back is forgotten after its TTL. *)
(* Every call to Redis is one step.  Time is the age of slots, counters    *)
(* and waits, in ticks, capped where it no longer matters.                 *)
(***************************************************************************)
EXTENDS Naturals, FiniteSets

CONSTANTS
  Requests,
  Users, Accounts,  \* the pools: (user, group) pairs and accounts
  UserOf,           \* the user pool of a request
  Limit,            \* maxConcurrency of a pool
  MaxWait,          \* the longest waiting queue of a pool
  Ids,              \* slot members drawn by generateRequestID
  SlotTtl,          \* slotTTLSeconds
  WaitTtl,          \* waitQueueTTLSeconds
  WaitTimeout,      \* the longest time a request waits for a slot
  MaxSwitches,      \* bound: returns to the selection (maxAccountSwitches, retries)
  Leavers,          \* requests whose client may disconnect
  Faults,           \* the faults that may happen
  MaxFaults,        \* bound: failing calls and crashes in one behaviour
  None

Pools == Users \cup Accounts

ASSUME SlotsAssumption ==
  /\ IsFiniteSet(Ids)
  /\ UserOf \in [Requests -> Users]
  /\ Limit \in [Pools -> Nat \ {0}]
  /\ MaxWait \in [Pools -> Nat \ {0}]
  /\ SlotTtl \in Nat \ {0}
  /\ WaitTtl \in Nat \ {0}
  /\ WaitTimeout \in Nat
  /\ MaxSwitches \in Nat
  /\ MaxFaults \in Nat
  /\ Leavers \subseteq Requests
  /\ Faults \subseteq {"redis", "again", "crash"}
  /\ Users \cap Accounts = {}
  /\ None \notin Ids \cup Nat

VARIABLES
  slots,    \* per pool, the age of each member; None: not a member
  wait,     \* per pool, the waiting counter
  waitAge,  \* per pool, the time since EXPIRE was set on the counter
  pc,       \* where a handler is
  at,       \* the pool it is acquiring (its user's, then an account's)
  token,    \* per request and pool, the member its ReleaseFunc will remove
  counted,  \* waitCounted / accountWaitCounted
  waited,   \* the time since it was counted
  live,     \* requests whose context is not done
  switches, \* returns to the selection (SwitchCount, SameAccountRetryCount)
  faults

redisVars == <<slots, wait, waitAge>>
vars == <<slots, wait, waitAge, pc, at, token, counted, waited, live, switches, faults>>

States == {"count", "acquire", "uncount", "select", "forward", "return", "end"}

\* Every variable has its type; a counter stays within its queue's limit.
TypeOK ==
  /\ slots \in [Pools -> [Ids -> 0 .. SlotTtl \cup {None}]]
  /\ wait \in [Pools -> Nat]
  /\ \A p \in Pools : wait[p] <= MaxWait[p]
  /\ waitAge \in [Pools -> 0 .. WaitTtl]
  /\ pc \in [Requests -> States]
  /\ at \in [Requests -> Pools]
  /\ token \in [Requests -> [Pools -> Ids \cup {None}]]
  /\ counted \in [Requests -> BOOLEAN]
  /\ waited \in [Requests -> Nat]
  /\ live \subseteq Requests
  /\ switches \in [Requests -> 0 .. MaxSwitches]
  /\ faults \in 0 .. MaxFaults

Init ==
  /\ slots = [p \in Pools |-> [i \in Ids |-> None]]
  /\ wait = [p \in Pools |-> 0]
  /\ waitAge = [p \in Pools |-> 0]
  /\ pc = [r \in Requests |-> "count"]
  /\ at = UserOf
  /\ token = [r \in Requests |-> [p \in Pools |-> None]]
  /\ counted = [r \in Requests |-> FALSE]
  /\ waited = [r \in Requests |-> 0]
  /\ live = Requests
  /\ switches = [r \in Requests |-> 0]
  /\ faults = 0

Goto(r, s) == pc' = [pc EXCEPT ![r] = s]

Fault(kind) ==
  /\ kind \in Faults
  /\ faults < MaxFaults
  /\ faults' = faults + 1

-----------------------------------------------------------------------------
(* The scripts of concurrency_cache.go.  The client library repeats a script *)
(* whose reply it lost ("again"), and may fail after Redis has executed it.  *)

\* How often a call that answers was executed.
Answered(n) == n = 1 \/ (n = 2 /\ "again" \in Faults)

\* How often a call that answers an error was executed: the context is done
\* before it is sent, or Redis fails.
Failed(r, n) ==
  \/ r \notin live /\ n = 0 /\ UNCHANGED faults
  \/ n \in {0, 1} /\ Fault("redis")

\* Mutant of Fresh: the scripts forget a slot one tick early.
FreshEarly(members) == {i \in Ids : members[i] \in 0 .. SlotTtl /\ members[i] + 1 < SlotTtl}

\* Mutant of Fresh: the scripts do not remove old members.
FreshForever(members) == {i \in Ids : members[i] # None}

\* The members younger than the TTL; every script removes the others first.
Fresh(members) == {i \in Ids : members[i] \in 0 .. SlotTtl /\ members[i] < SlotTtl}

Purged(members) == [i \in Ids |-> IF i \in Fresh(members) THEN members[i] ELSE None]

\* Mutant of Granted: a repeated script does not find the member it added.
GrantedOnce(p, members, i) == Cardinality(Fresh(members)) < Limit[p]

\* Mutant of Granted: the comparison admits one slot too many.
GrantedOneMore(p, members, i) ==
  i \in Fresh(members) \/ Cardinality(Fresh(members)) <= Limit[p]

\* acquireScript: a member that exists is refreshed, whatever the count.
Granted(p, members, i) ==
  i \in Fresh(members) \/ Cardinality(Fresh(members)) < Limit[p]

AfterAcquire(p, members, i) ==
  IF Granted(p, members, i) THEN [Purged(members) EXCEPT ![i] = 0] ELSE Purged(members)

\* The set a repetition of the script meets.
Before(p, i, n) == IF n = 2 THEN AfterAcquire(p, slots[p], i) ELSE slots[p]

\* generateRequestID draws 8 random bytes: a member nobody uses.
Unused(p, i) ==
  /\ slots[p][i] = None
  /\ \A r \in Requests : token[r][p] # i

\* Mutant of Increment: the TTL is set only when the counter is created.
IncrementKeepingTtl(p, n) ==
  /\ wait' = [wait EXCEPT ![p] = IF @ + n <= MaxWait[p] THEN @ + n ELSE MaxWait[p]]
  /\ waitAge' = IF wait[p] > 0 THEN waitAge ELSE [waitAge EXCEPT ![p] = 0]

\* incrementWaitScript: INCR and EXPIRE, unless the queue is full.
Increment(p, n) ==
  /\ wait' = [wait EXCEPT ![p] = IF @ + n <= MaxWait[p] THEN @ + n ELSE MaxWait[p]]
  /\ waitAge' = IF wait' = wait THEN waitAge ELSE [waitAge EXCEPT ![p] = 0]

\* decrementWaitScript does not go below zero.
Decrement(p, n) ==
  /\ wait' = [wait EXCEPT ![p] = IF @ > n THEN @ - n ELSE 0]
  /\ UNCHANGED waitAge

-----------------------------------------------------------------------------
(* The handler *)

\* A full queue answers "Too many pending requests".
Count(r) ==
  /\ pc[r] = "count"
  /\ r \in live
  /\ \E n \in {1, 2} :
       /\ Answered(n)
       /\ Increment(at[r], n)
       /\ IF wait[at[r]] + n <= MaxWait[at[r]]
          THEN counted' = [counted EXCEPT ![r] = TRUE] /\ Goto(r, "acquire")
          ELSE UNCHANGED counted /\ Goto(r, "return")
  /\ UNCHANGED <<slots, at, token, waited, live, switches, faults>>

\* On an error the service answers (true, nil), so that the handler will take
\* back what it may not have added.
CountFailsOpen(r) ==
  /\ pc[r] = "count"
  /\ \E n \in {0, 1} : Failed(r, n) /\ Increment(at[r], n)
  /\ counted' = [counted EXCEPT ![r] = TRUE]
  /\ Goto(r, "acquire")
  /\ UNCHANGED <<slots, at, token, waited, live, switches>>

\* AcquireUserSlot, AcquireAccountSlot: one attempt with a new member.
Attempt(r, p, i, granted, refused) ==
  /\ r \in live
  /\ Unused(p, i)
  /\ \E n \in {1, 2} :
       /\ Answered(n)
       /\ slots' = [slots EXCEPT ![p] = AfterAcquire(p, Before(p, i, n), i)]
       /\ IF Granted(p, Before(p, i, n), i)
          THEN token' = [token EXCEPT ![r][p] = i] /\ Goto(r, granted)
          ELSE UNCHANGED token /\ Goto(r, refused)

AttemptFails(r, p, i, next) ==
  /\ Unused(p, i)
  /\ \/ Failed(r, 0) /\ UNCHANGED slots
     \/ Failed(r, 1) /\ slots' = [slots EXCEPT ![p] = AfterAcquire(p, @, i)]
  /\ Goto(r, next)
  /\ UNCHANGED token

\* AcquireUserSlotWithWait, waitForSlotWithPingTimeout: try, back off, try again.
Acquire(r, i) ==
  /\ pc[r] = "acquire"
  /\ Attempt(r, at[r], i, "uncount", "acquire")
  /\ UNCHANGED <<wait, waitAge, at, counted, waited, live, switches, faults>>

AcquireError(r, i) ==
  /\ pc[r] = "acquire"
  /\ AttemptFails(r, at[r], i, "return")
  /\ UNCHANGED <<wait, waitAge, at, counted, waited, live, switches>>

\* Mutant of GiveUp: only the client's context ends the wait.
GiveUpWhenLeft(r) ==
  /\ pc[r] = "acquire"
  /\ r \notin live
  /\ Goto(r, "return")
  /\ UNCHANGED <<redisVars, at, token, counted, waited, live, switches, faults>>

\* The waiting time, at most WaitTimeout, is over, or the client is gone.
GiveUp(r) ==
  /\ pc[r] = "acquire"
  /\ Goto(r, "return")
  /\ UNCHANGED <<redisVars, at, token, counted, waited, live, switches, faults>>

\* The count is taken back once; an error is only logged.
TakeBack(r) ==
  /\ \/ \E n \in {1, 2} : Answered(n) /\ Decrement(at[r], n) /\ UNCHANGED faults
     \/ \E n \in {0, 1} : Decrement(at[r], n) /\ Fault("redis")
  /\ counted' = [counted EXCEPT ![r] = FALSE]
  /\ waited' = [waited EXCEPT ![r] = 0]

Uncount(r) ==
  /\ pc[r] = "uncount"
  /\ TakeBack(r)
  /\ Goto(r, IF at[r] \in Users THEN "select" ELSE "forward")
  /\ UNCHANGED <<slots, at, token, live, switches>>

\* SelectAccountWithLoadAwareness tries one account after the other; an error of
\* an attempt is a busy account.
Select(r, a, i) ==
  /\ pc[r] = "select"
  /\ at' = [at EXCEPT ![r] = a]
  /\ Attempt(r, a, i, "forward", "select")
  /\ UNCHANGED <<wait, waitAge, counted, waited, live, switches, faults>>

SelectError(r, a, i) ==
  /\ pc[r] = "select"
  /\ AttemptFails(r, a, i, "select")
  /\ UNCHANGED <<wait, waitAge, at, counted, waited, live, switches>>

\* Without a slot it answers a wait plan, and the handler counts itself as
\* waiting for that account.
WaitPlan(r, a) ==
  /\ pc[r] = "select"
  /\ at' = [at EXCEPT ![r] = a]
  /\ Goto(r, "count")
  /\ UNCHANGED <<redisVars, token, counted, waited, live, switches, faults>>

NoAccount(r) ==
  /\ pc[r] = "select"
  /\ Goto(r, "return")
  /\ UNCHANGED <<redisVars, at, token, counted, waited, live, switches, faults>>

\* ReleaseFunc: ZREM, at most once (wrapReleaseOnDone); an error is only logged.
Drop(r, p) ==
  /\ token[r][p] # None
  /\ token' = [token EXCEPT ![r][p] = None]
  /\ \/ slots' = [slots EXCEPT ![p][token[r][p]] = None] /\ UNCHANGED faults
     \/ slots' \in {slots, [slots EXCEPT ![p][token[r][p]] = None]} /\ Fault("redis")

\* Mutant of ForwardEnds: the handler goes on without calling accountReleaseFunc.
ForwardEndsKeeping(r) ==
  /\ pc[r] = "forward"
  /\ \/ Goto(r, "return") /\ UNCHANGED switches
     \/ /\ switches[r] < MaxSwitches
        /\ switches' = [switches EXCEPT ![r] = @ + 1]
        /\ Goto(r, "select")
  /\ token' = [token EXCEPT ![r][at[r]] = None]
  /\ UNCHANGED <<redisVars, at, counted, waited, live, faults>>

\* The account slot is given back as soon as Forward returns; a failover error,
\* a retry or a refused session sends the handler back to the selection.
ForwardEnds(r) ==
  /\ pc[r] = "forward"
  /\ IF token[r][at[r]] = None THEN UNCHANGED <<slots, token, faults>> ELSE Drop(r, at[r])
  /\ \/ Goto(r, "return") /\ UNCHANGED switches
     \/ /\ switches[r] < MaxSwitches
        /\ switches' = [switches EXCEPT ![r] = @ + 1]
        /\ Goto(r, "select")
  /\ UNCHANGED <<wait, waitAge, at, counted, waited, live>>

\* Mutant of ReturnCount: an early return forgets the waiting count.
ReturnCountForgotten(r) ==
  /\ pc[r] = "return"
  /\ counted[r]
  /\ counted' = [counted EXCEPT ![r] = FALSE]
  /\ waited' = [waited EXCEPT ![r] = 0]
  /\ UNCHANGED <<redisVars, pc, at, token, live, switches, faults>>

\* The deferred calls, in their order: a count that was not taken back, then the
\* user's slot.
ReturnCount(r) ==
  /\ pc[r] = "return"
  /\ counted[r]
  /\ TakeBack(r)
  /\ UNCHANGED <<slots, pc, at, token, live, switches>>

ReturnSlot(r, p) ==
  /\ pc[r] = "return"
  /\ ~counted[r]
  /\ Drop(r, p)
  /\ UNCHANGED <<wait, waitAge, pc, at, counted, waited, live, switches>>

Return(r) ==
  /\ pc[r] = "return"
  /\ ~counted[r]
  /\ \A p \in Pools : token[r][p] = None
  /\ Goto(r, "end")
  /\ UNCHANGED <<redisVars, at, token, counted, waited, live, switches, faults>>

\* The client disconnects.
Cancel(r) ==
  /\ r \in live \cap Leavers
  /\ pc[r] # "end"
  /\ live' = live \ {r}
  /\ UNCHANGED <<redisVars, pc, at, token, counted, waited, switches, faults>>

\* The goroutine of wrapReleaseOnDone gives a slot back when the context is done,
\* while the handler is still on its way.  A slot just acquired is not wrapped yet.
ReleaseOnDone(r, p) ==
  /\ r \notin live
  /\ ~ (pc[r] = "uncount" /\ at[r] = p)
  /\ Drop(r, p)
  /\ UNCHANGED <<wait, waitAge, pc, at, counted, waited, live, switches>>

-----------------------------------------------------------------------------
(* Environment *)

\* A process dies in a request: nothing is given back.  A process that runs
\* several requests dies in one after the other.
Crash(r) ==
  /\ pc[r] # "end"
  /\ Fault("crash")
  /\ token' = [token EXCEPT ![r] = [p \in Pools |-> None]]
  /\ counted' = [counted EXCEPT ![r] = FALSE]
  /\ waited' = [waited EXCEPT ![r] = 0]
  /\ Goto(r, "end")
  /\ UNCHANGED <<redisVars, at, live, switches>>

\* CleanupExpiredAccountSlots, and the load query, which purges as well.
CleanupExpired(a) ==
  /\ slots' = [slots EXCEPT ![a] = Purged(@)]
  /\ slots' # slots
  /\ UNCHANGED <<wait, waitAge, pc, at, token, counted, waited, live, switches, faults>>

Older(age) == IF age = None \/ age = SlotTtl THEN age ELSE age + 1

\* Time passes.  A request ends before its slot expires (config.go asks for a
\* slot TTL longer than the longest request) and a waiter leaves at its timeout.
Tick ==
  /\ \A r \in Requests, p \in Pools :
       token[r][p] # None => slots[p][token[r][p]] # SlotTtl - 1
  /\ \A r \in Requests : counted[r] => waited[r] < WaitTimeout
  /\ slots' = [p \in Pools |-> [i \in Ids |-> Older(slots[p][i])]]
  /\ waitAge' = [p \in Pools |-> IF wait[p] > 0 /\ waitAge[p] < WaitTtl
                                 THEN waitAge[p] + 1 ELSE waitAge[p]]
  /\ wait' = [p \in Pools |-> IF waitAge'[p] = WaitTtl THEN 0 ELSE wait[p]]
  /\ waited' = [r \in Requests |-> IF counted[r] THEN waited[r] + 1 ELSE waited[r]]
  /\ UNCHANGED <<pc, at, token, counted, live, switches, faults>>

-----------------------------------------------------------------------------

HandlerStep(r) ==
  \/ Count(r) \/ GiveUp(r) \/ Uncount(r) \/ NoAccount(r)
  \/ ForwardEnds(r) \/ ReturnCount(r) \/ Return(r)
  \/ \E i \in Ids : Acquire(r, i)
  \/ \E a \in Accounts : WaitPlan(r, a) \/ \E i \in Ids : Select(r, a, i)
  \/ \E p \in Pools : ReturnSlot(r, p)

ErrorStep(r) ==
  \/ CountFailsOpen(r)
  \/ \E i \in Ids : AcquireError(r, i)
  \/ \E a \in Accounts, i \in Ids : SelectError(r, a, i)

RequestStep(r) ==
  \/ HandlerStep(r) \/ ErrorStep(r) \/ Cancel(r) \/ Crash(r)
  \/ \E p \in Pools : ReleaseOnDone(r, p)

Next ==
  \/ \E r \in Requests : RequestStep(r)
  \/ \E a \in Accounts : CleanupExpired(a)
  \/ Tick

Spec == Init /\ [][Next]_vars

\* A handler takes its next step or fails at it, and time passes.
FairSpec ==
  /\ Spec
  /\ \A r \in Requests : WF_vars(HandlerStep(r) \/ ErrorStep(r))
  /\ WF_vars(Tick)

-----------------------------------------------------------------------------
(* Properties *)

Holding(p) == {r \in Requests : token[r][p] # None}

\* However requests, repeated scripts, failed releases, crashes and expirations
\* interleave, a pool never has more unreleased requests than its limit.
AtMostLimit == \A p \in Pools : Cardinality(Holding(p)) <= Limit[p]

\* A slot that Redis still counts belongs to a request that will release it.  A
\* failed call loses one for its TTL, a crash the two of its request.
Lost(p) == {i \in Fresh(slots[p]) : \A r \in Requests : token[r][p] # i}

LeaksOnlyByFaults ==
  Cardinality(UNION {{<<p, i>> : i \in Lost(p)} : p \in Pools}) <= 2 * faults

\* "keep queue depth accurate": while no call has failed, the counter is the
\* number of requests that wait.
WaitCountExact ==
  faults = 0 =>
    \A p \in Pools : wait[p] = Cardinality({r \in Requests : counted[r] /\ at[r] = p})

\* Every request comes to its end, whatever the others hold.
EveryRequestEnds == \A r \in Requests : <>(pc[r] = "end")

\* After failures and crashes the TTLs empty every pool and every queue.
PoolsRecover == <>[](\A p \in Pools : Fresh(slots[p]) = {} /\ wait[p] = 0)

Bounded == INSTANCE BoundedHolders
  WITH Holders <- Requests, held <- [p \in Pools |-> Holding(p)]

\* Every grant found room among the holders of its pool.
ImplementsBoundedHolders == Bounded!Spec
=============================================================================
