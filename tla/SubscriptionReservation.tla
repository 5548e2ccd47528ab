---------------------- MODULE SubscriptionReservation ----------------------
(***************************************************************************)
(* Reserving the quota of one subscription in Redis while its requests run.*)
(*                                                                         *)
(* A handler reserves the estimated maximum of a request in the usage hash *)
(* (a Lua script, hence one step), forwards it, and then either hands the  *)
(* reservation to the RecordUsage goroutine or releases it itself.         *)
(* RecordUsage commits the charge to PostgreSQL and afterwards turns the   *)
(* reservation into usage in the hash.  The hash is a cache: it expires    *)
(* and is invalidated, and is filled from PostgreSQL by whoever misses it, *)
(* or fails to read it: such a fill overwrites the usage of a live hash.   *)
(* One usage window is modelled: the three windows are incremented         *)
(* together and the tightest limit decides.                                *)
(***************************************************************************)
EXTENDS Integers, FiniteSets, Totals

CONSTANTS
  Requests,   \* requests of one user in one subscription group
  Checkers,   \* CheckBillingEligibility calls (count_tokens): read only
  Reserve,    \* reserveUSD, the estimated maximum cost of a request
  Actual,     \* what RecordUsage charges
  Limit,      \* the group's limit
  Keyed,      \* requests with a server generated ClientRequestID
  Passed,     \* requests whose handler hands ReservedUSD to RecordUsage
  InitialUsage,
  Warm,       \* whether the hash exists at the start
  Faults,     \* the faults that may happen
  MaxFaults,  \* bound: faults in one behaviour
  NoHash

FaultKinds == {"hash", "key", "reply", "again", "deadline", "database", "commit", "crash",
               "read", "lost"}

Hashes == [usage : Nat, reserved : Nat]

ASSUME ReservationAssumption ==
  /\ Reserve \in [Requests -> Nat \ {0}]
  /\ Actual \in [Requests -> Nat \ {0}]
  /\ \A r \in Requests : Actual[r] <= Reserve[r]
  /\ Limit \in Nat
  /\ InitialUsage \in 0 .. Limit
  /\ Keyed \subseteq Requests
  /\ Passed \subseteq Requests
  /\ Warm \in BOOLEAN
  /\ Faults \subseteq FaultKinds
  /\ MaxFaults \in Nat
  /\ IsFiniteSet(Requests)
  /\ Requests \cap Checkers = {}
  /\ NoHash \notin Hashes

VARIABLES
  used,     \* user_subscriptions usage, committed
  redis,    \* the usage hash, the reservation keys, and three histories
  hpc,      \* where a handler (or checker) is
  seen,     \* its subData
  rpc,      \* where the RecordUsage of a request is
  adds,     \* queued update_subscription_usage tasks
  fills,    \* queued set_subscription tasks, by checker
  skew,     \* history: how far fills have moved the usage of a live hash
  faults

vars == <<used, redis, hpc, seen, rpc, adds, fills, skew, faults>>

HandlerStates == {"status", "load", "fill", "reserve", "refill", "retry", "forward",
                  "release", "end"}
RecordStates == {"none", "billing", "charged", "unwind", "unaware", "open", "end"}
TypeOK ==
  /\ used \in Nat
  /\ redis \in [hash : Hashes \cup {NoHash},
                rkey : [Requests -> Nat],
                share : [Requests -> Nat],
                taken : [Requests -> Nat],
                freed : [Requests -> Nat]]
  /\ hpc \in [Requests \cup Checkers -> HandlerStates]
  /\ seen \in [Requests \cup Checkers -> Hashes]
  /\ rpc \in [Requests -> RecordStates]
  /\ adds \subseteq Requests
  /\ fills \subseteq Checkers
  /\ skew \in [down : Nat, up : Nat]
  /\ faults \in 0 .. MaxFaults

InLedger(u) == [usage |-> u, reserved |-> 0]

Init ==
  /\ used = InitialUsage
  /\ redis = [hash |-> IF Warm THEN InLedger(InitialUsage) ELSE NoHash,
              rkey |-> [r \in Requests |-> 0],
              share |-> [r \in Requests |-> 0],
              taken |-> [r \in Requests |-> 0],
              freed |-> [r \in Requests |-> 0]]
  /\ hpc = [x \in Requests \cup Checkers |-> "status"]
  /\ seen = [x \in Requests \cup Checkers |-> InLedger(0)]
  /\ rpc = [r \in Requests |-> "none"]
  /\ adds = {}
  /\ fills = {}
  /\ skew = [down |-> 0, up |-> 0]
  /\ faults = 0

Goto(x, s) == hpc' = [hpc EXCEPT ![x] = s]
RGoto(r, s) == rpc' = [rpc EXCEPT ![r] = s]

Fault(kind) ==
  /\ kind \in Faults
  /\ faults < MaxFaults
  /\ faults' = faults + 1

NoFault == UNCHANGED faults

-----------------------------------------------------------------------------
(* The Lua scripts and commands of billing_cache.go: a redis state in, a redis *)
(* state out.  share is the part of hash.reserved that belongs to a request,   *)
(* taken and freed count its effective reservations and releases.              *)

\* Mutant of ReserveCode: what others have reserved is not counted.
ReserveCodeUsageOnly(s, r) ==
  CASE s.hash = NoHash -> 0
    [] s.hash # NoHash /\ r \in Keyed /\ s.rkey[r] > 0 -> 2
    [] OTHER -> IF s.hash.usage + Reserve[r] > Limit THEN -1 ELSE 1

ReserveCode(s, r) ==
  CASE s.hash = NoHash -> 0
    [] s.hash # NoHash /\ r \in Keyed /\ s.rkey[r] > 0 -> 2
    [] OTHER -> IF s.hash.usage + s.hash.reserved + Reserve[r] > Limit THEN -1 ELSE 1

\* reserveSubUsageScript and reserveSubUsageByKeyScript.
AfterReserve(s, r) ==
  IF ReserveCode(s, r) # 1 THEN s
  ELSE [s EXCEPT !.hash.reserved = @ + Reserve[r],
                 !.rkey[r] = IF r \in Keyed THEN Reserve[r] ELSE 0,
                 !.share[r] = @ + Reserve[r],
                 !.taken[r] = @ + 1]

Minus(a, b) == IF a < b THEN 0 ELSE a - b

\* Mutant of Settled: the script does not stop at zero.
SettledUnclipped(s, r, release, actual) ==
  [s EXCEPT !.hash.reserved = @ - release,
            !.hash.usage = @ + actual,
            !.share[r] = Minus(@, release),
            !.freed[r] = @ + 1]

\* What both finalize scripts do to a hash that exists.
Settled(s, r, release, actual) ==
  [s EXCEPT !.hash.reserved = Minus(@, release),
            !.hash.usage = @ + actual,
            !.share[r] = Minus(@, release),
            !.freed[r] = @ + 1]

\* finalizeSubUsageScript.
AfterFinalize(s, r, actual) ==
  IF s.hash = NoHash THEN s ELSE Settled(s, r, Reserve[r], actual)

\* Mutant of AfterFinalizeByKey: the reservation key is not deleted.
AfterFinalizeByKeyKept(s, r, actual) ==
  IF s.hash = NoHash \/ s.rkey[r] = 0 THEN s
  ELSE Settled(s, r, s.rkey[r], actual)

\* finalizeSubUsageByKeyScript.
AfterFinalizeByKey(s, r, actual) ==
  IF s.hash = NoHash \/ s.rkey[r] = 0 THEN s
  ELSE [Settled(s, r, s.rkey[r], actual) EXCEPT !.rkey[r] = 0]

\* updateSubUsageScript.
AfterUpdate(s, r) ==
  IF s.hash = NoHash THEN s ELSE [s EXCEPT !.hash.usage = @ + Actual[r]]

\* SetSubscriptionCache writes reserved_usage only when it is not zero.
AfterSet(s, data) ==
  [s EXCEPT !.hash =
     [usage |-> data.usage,
      reserved |-> IF data.reserved # 0 \/ @ = NoHash THEN data.reserved ELSE @.reserved]]

\* A script call that is executed once, or, when the client retries after a
\* lost reply, twice, or not at all: nobody acts on its error.
Runs(once, twice) ==
  \/ redis' = once /\ NoFault
  \/ redis' = twice /\ Fault("again")
  \/ redis' = redis /\ Fault("lost")

\* setSubscriptionCache, which logs an error.  What it changes in the usage of a
\* hash that exists is remembered.
Sets(data) ==
  \/ /\ redis' = AfterSet(redis, data)
     /\ skew' = IF redis.hash = NoHash THEN skew
                ELSE [down |-> skew.down + Minus(redis.hash.usage, data.usage),
                      up |-> skew.up + Minus(data.usage, redis.hash.usage)]
     /\ NoFault
  \/ UNCHANGED <<redis, skew>> /\ Fault("lost")

-----------------------------------------------------------------------------
(* The handler: CheckBillingEligibilityAndReserve and ...ByKey *)

\* GetSubscriptionCache, a hit.
StatusHit(x) ==
  /\ hpc[x] = "status"
  /\ redis.hash # NoHash
  /\ seen' = [seen EXCEPT ![x] = redis.hash]
  /\ Goto(x, IF x \in Checkers THEN "end" ELSE "reserve")
  /\ UNCHANGED <<used, redis, rpc, adds, fills, faults, skew>>

\* No hash, or any error of reading it.
StatusMiss(x) ==
  /\ hpc[x] = "status"
  /\ \/ redis.hash = NoHash /\ NoFault
     \/ redis.hash # NoHash /\ Fault("read")
  /\ Goto(x, "load")
  /\ UNCHANGED <<used, redis, seen, rpc, adds, fills, skew>>

\* getSubscriptionFromDB.
Load(x) ==
  /\ hpc[x] = "load"
  /\ seen' = [seen EXCEPT ![x] = InLedger(used)]
  /\ Goto(x, "fill")
  /\ UNCHANGED <<used, redis, rpc, adds, fills, faults, skew>>

\* setSubscriptionCache, synchronously.
Fill(r) ==
  /\ r \in Requests
  /\ hpc[r] = "fill"
  /\ Sets(seen[r])
  /\ Goto(r, "reserve")
  /\ UNCHANGED <<used, seen, rpc, adds, fills>>

\* GetSubscriptionStatus enqueues the fill; a full queue drops it.
QueueFill(c) ==
  /\ c \in Checkers
  /\ hpc[c] = "fill"
  /\ fills' = fills \cup {c} \/ UNCHANGED fills
  /\ Goto(c, "end")
  /\ UNCHANGED <<used, redis, seen, rpc, adds, faults, skew>>

\* An error of the script call refuses the request, executed or not; the
\* handler then holds no reservation to release.
ReserveReplyLost(r) ==
  /\ hpc[r] \in {"reserve", "retry"}
  /\ Fault("reply")
  /\ redis' \in {redis, AfterReserve(redis, r)}
  /\ Goto(r, "end")
  /\ UNCHANGED <<used, seen, rpc, adds, fills, skew>>

\* The caller sees the code of the last execution.
ReserveCall(r, then) ==
  \E again \in BOOLEAN :
    LET before == IF again THEN AfterReserve(redis, r) ELSE redis IN
    /\ IF again THEN Fault("again") ELSE NoFault
    /\ redis' = AfterReserve(before, r)
    /\ Goto(r, CASE ReserveCode(before, r) \in {1, 2} -> "forward"
                 [] ReserveCode(before, r) = 0 -> then
                 [] OTHER -> "end")

TryReserve(r) ==
  /\ hpc[r] = "reserve"
  /\ ReserveCall(r, "refill")
  /\ UNCHANGED <<used, seen, rpc, adds, fills, skew>>

\* Code 0: the hash is written again from the same subData.
Refill(r) ==
  /\ hpc[r] = "refill"
  /\ Sets(seen[r])
  /\ Goto(r, "retry")
  /\ UNCHANGED <<used, seen, rpc, adds, fills>>

RetryReserve(r) ==
  /\ hpc[r] = "retry"
  /\ ReserveCall(r, "end")
  /\ UNCHANGED <<used, seen, rpc, adds, fills, skew>>

-----------------------------------------------------------------------------
(* The handler after forwarding, and its deferred release *)

ForwardFails(r) ==
  /\ hpc[r] = "forward"
  /\ Goto(r, "release")
  /\ UNCHANGED <<used, redis, seen, rpc, adds, fills, faults, skew>>

\* Mutant of ForwardSucceeds: `released` is not set when the reservation is
\* handed over.
ForwardSucceedsAndReleases(r) ==
  /\ hpc[r] = "forward"
  /\ RGoto(r, "billing")
  /\ Goto(r, "release")
  /\ UNCHANGED <<used, redis, seen, adds, fills, faults, skew>>

\* The RecordUsage goroutine is started; the OpenAI and Gemini handlers hand it
\* ReservedUSD and set released, the Claude branch does not.
ForwardSucceeds(r) ==
  /\ hpc[r] = "forward"
  /\ RGoto(r, "billing")
  /\ Goto(r, IF r \in Passed THEN "end" ELSE "release")
  /\ UNCHANGED <<used, redis, seen, adds, fills, faults, skew>>

ReleaseScript(s, r) == IF r \in Keyed THEN AfterFinalizeByKey(s, r, 0) ELSE AfterFinalize(s, r, 0)

\* The deferred finalisation with an actual cost of zero, on a fresh context.
Release(r) ==
  /\ hpc[r] = "release"
  /\ Runs(ReleaseScript(redis, r), ReleaseScript(ReleaseScript(redis, r), r))
  /\ Goto(r, "end")
  /\ UNCHANGED <<used, seen, rpc, adds, fills, skew>>

-----------------------------------------------------------------------------
(* RecordUsage, as far as the reservation is concerned *)

RecordScript(s, r, actual) == IF r \in Passed THEN AfterFinalize(s, r, actual) ELSE s

\* The charge commits; a commit that took effect but was reported as failed
\* leaves appliedThisCall false.
Charge(r) ==
  /\ rpc[r] = "billing"
  /\ used' = used + Actual[r]
  /\ \/ RGoto(r, "charged") /\ NoFault
     \/ RGoto(r, "unaware") /\ Fault("commit")
  /\ UNCHANGED <<redis, hpc, seen, adds, fills, skew>>

\* The charge is left to the spool or to the reconciler.
ChargeFails(r) ==
  /\ rpc[r] = "billing"
  /\ Fault("database")
  /\ RGoto(r, "unwind")
  /\ UNCHANGED <<used, redis, hpc, seen, adds, fills, skew>>

\* Mutant of RecordSettles: the queue is told as well (the bug of BILL-017).
RecordSettlesTwice(r) ==
  /\ rpc[r] = "charged"
  /\ Runs(RecordScript(redis, r, Actual[r]), RecordScript(RecordScript(redis, r, Actual[r]), r, Actual[r]))
  /\ adds' = adds \cup {r}
  /\ RGoto(r, "end")
  /\ UNCHANGED <<used, hpc, seen, fills, skew>>

\* Mutant of RecordSettles: only the deferred finalisation runs.
RecordSettlesNothing(r) ==
  /\ rpc[r] = "charged"
  /\ Runs(RecordScript(redis, r, 0), RecordScript(RecordScript(redis, r, 0), r, 0))
  /\ adds' = IF r \in Passed THEN adds ELSE adds \cup {r}
  /\ RGoto(r, "end")
  /\ UNCHANGED <<used, hpc, seen, fills, skew>>

\* A reservation becomes usage; without one the increment is queued.
RecordSettles(r) ==
  /\ rpc[r] = "charged"
  /\ Runs(RecordScript(redis, r, Actual[r]), RecordScript(RecordScript(redis, r, Actual[r]), r, Actual[r]))
  /\ adds' = IF r \in Passed THEN adds ELSE adds \cup {r}
  /\ RGoto(r, "end")
  /\ UNCHANGED <<used, hpc, seen, fills, skew>>

\* Where an early return leaves the charge: with the spool or the reconciler,
\* or committed without RecordUsage knowing.
Left(r) == IF rpc[r] = "unwind" THEN "open" ELSE "end"

\* Mutant of RecordUnwinds: nothing is finalised on an early return.
RecordUnwindsWithoutFinalize(r) ==
  /\ rpc[r] \in {"unwind", "unaware"}
  /\ RGoto(r, Left(r))
  /\ UNCHANGED <<used, redis, hpc, seen, adds, fills, faults, skew>>

\* The deferred finalisation of an early return.
RecordUnwinds(r) ==
  /\ rpc[r] \in {"unwind", "unaware"}
  /\ Runs(RecordScript(redis, r, 0), RecordScript(RecordScript(redis, r, 0), r, 0))
  /\ RGoto(r, Left(r))
  /\ UNCHANGED <<used, hpc, seen, adds, fills, skew>>

\* The context of the finalisation is derived from the goroutine's, whose
\* 10 seconds are over.
RecordDeadline(r) ==
  /\ rpc[r] \in {"charged", "unwind", "unaware"}
  /\ r \in Passed
  /\ Fault("deadline")
  /\ RGoto(r, Left(r))
  /\ UNCHANGED <<used, redis, hpc, seen, adds, fills, skew>>

\* The spool replay or the reconciler commits the charge later, in the background.
Replay(r) ==
  /\ rpc[r] = "open"
  /\ used' = used + Actual[r]
  /\ adds' = adds \cup {r}
  /\ RGoto(r, "end")
  /\ UNCHANGED <<redis, hpc, seen, fills, faults, skew>>

-----------------------------------------------------------------------------
(* The cache write workers.  Ten of them empty the channel, so the order in   *)
(* which two tasks reach Redis is not the order in which they were queued.    *)

DoAdd(r) ==
  /\ r \in adds
  /\ Runs(AfterUpdate(redis, r), AfterUpdate(AfterUpdate(redis, r), r))
  /\ adds' = adds \ {r}
  /\ UNCHANGED <<used, hpc, seen, rpc, fills, skew>>

DoFill(c) ==
  /\ c \in fills
  /\ Sets(seen[c])
  /\ fills' = fills \ {c}
  /\ UNCHANGED <<used, hpc, seen, rpc, adds>>

-----------------------------------------------------------------------------
(* Redis and the processes *)

\* The hash expires, or InvalidateSubscriptionCache deletes it: the reservation
\* keys stay.
HashLost ==
  /\ redis.hash # NoHash
  /\ Fault("hash")
  /\ redis' = [redis EXCEPT !.hash = NoHash, !.share = [r \in Requests |-> 0]]
  /\ UNCHANGED <<used, hpc, seen, rpc, adds, fills, skew>>

\* A reservation key outlived by its request expires on its own.
KeyExpires(r) ==
  /\ redis.rkey[r] > 0
  /\ Fault("key")
  /\ redis' = [redis EXCEPT !.rkey[r] = 0]
  /\ UNCHANGED <<used, hpc, seen, rpc, adds, fills, skew>>

\* A process dies with the requests S it was serving.
Crash(S) ==
  /\ S # {}
  /\ Fault("crash")
  /\ hpc' = [x \in Requests \cup Checkers |-> IF x \in S THEN "end" ELSE hpc[x]]
  /\ rpc' = [r \in Requests |-> IF r \in S /\ rpc[r] # "open" THEN "end" ELSE rpc[r]]
  /\ adds' = adds \ S
  /\ UNCHANGED <<used, redis, seen, fills, skew>>

-----------------------------------------------------------------------------

HandlerStep(r) ==
  \/ StatusHit(r) \/ StatusMiss(r) \/ Load(r) \/ Fill(r)
  \/ TryReserve(r) \/ Refill(r) \/ RetryReserve(r)
  \/ ForwardFails(r) \/ ForwardSucceeds(r) \/ Release(r)

CheckerStep(c) == StatusHit(c) \/ StatusMiss(c) \/ Load(c) \/ QueueFill(c)

RecordStep(r) == Charge(r) \/ RecordSettles(r) \/ RecordUnwinds(r)

Environment ==
  \/ HashLost
  \/ \E r \in Requests :
       KeyExpires(r) \/ ReserveReplyLost(r) \/ ChargeFails(r) \/ RecordDeadline(r)
  \/ \E S \in SUBSET Requests : Crash(S)

Next ==
  \/ \E r \in Requests : HandlerStep(r) \/ RecordStep(r) \/ Replay(r) \/ DoAdd(r)
  \/ \E c \in Checkers : CheckerStep(c) \/ DoFill(c)
  \/ Environment

Spec == Init /\ [][Next]_vars

\* Goroutines run to their end, the workers empty their channel, and the spool
\* and the reconciler come back to a charge that failed.
Fairness ==
  /\ \A r \in Requests :
       WF_vars(HandlerStep(r)) /\ WF_vars(RecordStep(r)) /\ WF_vars(Replay(r)) /\ WF_vars(DoAdd(r))
  /\ \A c \in Checkers : WF_vars(CheckerStep(c)) /\ WF_vars(DoFill(c))

FairSpec == Spec /\ Fairness

-----------------------------------------------------------------------------
(* Properties *)

\* Concurrent requests never spend more than the limit together, as long as the
\* hash is not lost and the charge is not left to the background, but for what
\* fills after a failed read took from the usage of a live hash.
WithinLimit == used <= Limit + skew.down

\* What the hash has reserved is the sum of what requests hold: no script gives
\* back the quota of another request.
SharesAddUp == redis.hash # NoHash => redis.hash.reserved = Total(redis.share)

\* The cached usage is never ahead of the ledger, so nobody is refused for usage
\* that was counted twice (BILL-017), but for what fills after a failed read
\* added to the usage of a live hash while it was still on its way there.
CacheNeverAhead == redis.hash # NoHash => redis.hash.usage <= used + skew.up

\* A key makes reserving and releasing idempotent: even when the client repeats
\* a script, the hash is refilled or the process dies, one request takes at most
\* one reservation and gives it back at most once.
KeyReservesOnce ==
  \A r \in Keyed \ Passed : redis.freed[r] <= redis.taken[r] /\ redis.taken[r] <= 1

\* Every grant had room for all requests in flight, up to what fills took away.
Guard == INSTANCE QuotaGuard WITH
  spent <- used,
  slack <- skew.down,
  open <- {r \in Requests : hpc[r] = "forward" \/ rpc[r] = "billing"}
ImplementsQuotaGuard == Guard!Spec

\* Every reservation is given back, also when its charge failed.
ReservationIsReleased == \A r \in Requests : redis.share[r] > 0 ~> redis.share[r] = 0

\* When the requests are over the hash says what the ledger says.
CacheConverges ==
  <>[](redis.hash # NoHash /\ redis.hash = InLedger(used))
=============================================================================
