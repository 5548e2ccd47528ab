----------------------------- MODULE QuotaGuard -----------------------------
(***************************************************************************)
(* What reserving subscription quota promises: a request is let through    *)
(* only when the limit has room for everything already spent and for the   *)
(* most that every request in flight may still cost.  The count of what is *)
(* spent may slip, by an amount that is remembered: the slack.             *)
(***************************************************************************)
EXTENDS Naturals, Totals

CONSTANTS Requests, Reserve, Actual, Limit

VARIABLES
  spent,   \* usage committed to the subscription
  open,    \* requests let through and not yet settled
  slack    \* usage that the count has forgotten

Room(r) == spent + Total([q \in open \cup {r} |-> Reserve[q]]) <= Limit + slack

Init == spent \in 0 .. Limit /\ open = {} /\ slack = 0

Grant(r) ==
  /\ r \notin open
  /\ Room(r)
  /\ open' = open \cup {r}
  /\ UNCHANGED <<spent, slack>>

\* A granted request is charged, or ends without a charge.
Settle(r) ==
  /\ r \in open
  /\ open' = open \ {r}
  /\ spent' \in {spent, spent + Actual[r]}
  /\ UNCHANGED slack

\* A process dies with the requests it served.
Abandon(S) ==
  /\ S \subseteq open
  /\ open' = open \ S
  /\ UNCHANGED <<spent, slack>>

\* The count is lowered.
Slip ==
  /\ slack' \in Nat /\ slack' > slack
  /\ UNCHANGED <<spent, open>>

Next ==
  \/ \E r \in Requests : Grant(r) \/ Settle(r)
  \/ \E S \in SUBSET Requests : Abandon(S)
  \/ Slip

Spec == Init /\ [][Next]_<<spent, open, slack>>
=============================================================================
