--------------------------- MODULE BillingBreaker ---------------------------
(***************************************************************************)
(* The circuit breaker in front of the billing checks of one instance: a   *)
(* number of failures opens it, a time later it lets a few checks through  *)
(* as probes, and what they report closes it or opens it again.  A check   *)
(* asks it first and reports to it after the database or Redis was asked,  *)
(* while others do the same; a report may come when the breaker is in      *)
(* another state than the one that let the check through.                  *)
(***************************************************************************)
EXTENDS Naturals

CONSTANTS
  Checks,            \* goroutines that check one request after the other
  FailureThreshold,
  HalfOpenRequests,
  MaxBreakerFaults   \* bound: calls that fail, or are broken off by a client

ASSUME BreakerAssumption ==
  /\ FailureThreshold \in Nat \ {0}
  /\ HalfOpenRequests \in Nat \ {0}
  /\ MaxBreakerFaults \in Nat

VARIABLES
  breaker,   \* its fields; "due" once resetTimeout has passed since openedAt
  check,     \* the call a check has to make: one that reserves makes two
  silent,    \* history: checks that reported nothing while it is half-open
  breakerFaults

breakerVars == <<breaker, check, silent, breakerFaults>>

BreakerStates == {"closed", "open", "half-open"}

BreakerTypeOK ==
  /\ breaker \in [state : BreakerStates, failures : 0 .. FailureThreshold,
                  halfOpenRemaining : 0 .. HalfOpenRequests, due : BOOLEAN]
  /\ check \in [Checks -> {"idle", "plain", "status", "reserve"}]
  /\ silent \in BOOLEAN
  /\ breakerFaults \in 0 .. MaxBreakerFaults

Closed == [state |-> "closed", failures |-> 0, halfOpenRemaining |-> 0, due |-> FALSE]

BreakerInit ==
  /\ breaker = Closed
  /\ check = [c \in Checks |-> "idle"]
  /\ silent = FALSE
  /\ breakerFaults = 0

\* Mutant of Probes: the number of probes is not filled up.
ProbesLeft == breaker.halfOpenRemaining

Probes == HalfOpenRequests

\* The first check after the timeout is the first of the probes.
Allow ==
  LET left == IF breaker.state = "open" THEN Probes ELSE breaker.halfOpenRemaining IN
  \/ /\ breaker.state = "closed"
     /\ UNCHANGED <<breaker, silent>>
  \/ /\ \/ breaker.state = "half-open"
        \/ breaker.state = "open" /\ breaker.due
     /\ left > 0
     /\ breaker' = [breaker EXCEPT !.state = "half-open", !.halfOpenRemaining = left - 1]
     /\ silent' = (silent /\ breaker.state = "half-open")

\* Mutant of Opened: the failure that opens it is counted once more.
OpenedCountsAgain(failures) ==
  [state |-> "open", failures |-> failures + 1, halfOpenRemaining |-> 0, due |-> FALSE]

Opened(failures) ==
  [state |-> "open", failures |-> failures, halfOpenRemaining |-> 0, due |-> FALSE]

\* A half-open breaker opens at once, and keeps the failures that opened it.
OnFailure ==
  LET failures == breaker.failures + 1 IN
  /\ breakerFaults < MaxBreakerFaults
  /\ breakerFaults' = breakerFaults + 1
  /\ breaker' =
       IF breaker.state = "open" THEN breaker
       ELSE IF breaker.state = "half-open" THEN Opened(breaker.failures)
       ELSE IF failures >= FailureThreshold THEN Opened(failures)
       ELSE [breaker EXCEPT !.failures = failures]
  /\ silent' = FALSE

OnSuccess ==
  /\ breaker' = Closed
  /\ silent' = FALSE
  /\ UNCHANGED breakerFaults

Proceeds(c, at) == check' = [check EXCEPT ![c] = at]

-----------------------------------------------------------------------------
\* CheckBillingEligibility and its two variants that reserve.
BeginCheck(c, kind) ==
  /\ check[c] = "idle"
  /\ Allow
  /\ Proceeds(c, kind)
  /\ UNCHANGED breakerFaults

\* An estimate of zero, of a model without a price, is refused before anything
\* was asked, and nothing is reported.
ReservesNothing(c) ==
  /\ check[c] = "status"
  /\ Proceeds(c, "idle")
  /\ silent' = (silent \/ breaker.state = "half-open")
  /\ UNCHANGED <<breaker, breakerFaults>>

\* The balance or the subscription has been found; whatever it says of the user,
\* it is a success.  A subscription that is valid is reserved.
Answered(c) ==
  /\ check[c] \in {"plain", "status"}
  /\ OnSuccess
  /\ \/ Proceeds(c, "idle")
     \/ check[c] = "status" /\ Proceeds(c, "reserve")

\* One of the calls has failed.
CallFails(c) ==
  /\ check[c] # "idle"
  /\ OnFailure
  /\ Proceeds(c, "idle")

\* What the reservation answers is not reported, unless it is an error.
Reserved(c) ==
  /\ check[c] = "reserve"
  /\ Proceeds(c, "idle")
  /\ UNCHANGED <<breaker, silent, breakerFaults>>

ResetTimeoutPasses ==
  /\ breaker.state = "open"
  /\ ~breaker.due
  /\ breaker' = [breaker EXCEPT !.due = TRUE]
  /\ UNCHANGED <<check, silent, breakerFaults>>

EndCheck(c) == ReservesNothing(c) \/ Answered(c) \/ CallFails(c) \/ Reserved(c)

BeginChecks(c) == \E kind \in {"plain", "status"} : BeginCheck(c, kind)

BreakerNext ==
  \/ \E c \in Checks : BeginChecks(c) \/ EndCheck(c)
  \/ ResetTimeoutPasses

BreakerSpec == BreakerInit /\ [][BreakerNext]_breakerVars

\* Checks are let through; or a probe has ended and reported nothing.
ClosedOrSilent == breaker.state = "closed" \/ silent
=============================================================================
