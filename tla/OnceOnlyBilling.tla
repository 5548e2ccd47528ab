-------------------------- MODULE OnceOnlyBilling --------------------------
(***************************************************************************)
(* What the billing ledger promises, without workers, files or crashes: a  *)
(* request stays open until it is settled in one step, either by moving    *)
(* exactly its cost or, only when its subscription no longer exists, by    *)
(* closing it without a charge.  Nothing moves money twice or later.       *)
(***************************************************************************)
EXTENDS Naturals

CONSTANTS Requests, Kind, Cost

VARIABLES verdict, paid, alive

vars == <<verdict, paid, alive>>

Init ==
  /\ verdict = [r \in Requests |-> "open"]
  /\ paid = [r \in Requests |-> 0]
  /\ alive = TRUE

\* One reconcile batch settles several requests at once.
Settle(P, W) ==
  /\ \A r \in P \cup W : verdict[r] = "open"
  /\ \A r \in W : Kind[r] = "subscription" /\ ~alive
  /\ verdict' = [r \in Requests |-> IF r \in P THEN "charged"
                                    ELSE IF r \in W THEN "waived" ELSE verdict[r]]
  /\ paid' = [r \in Requests |-> IF r \in P THEN Cost[r] ELSE paid[r]]
  /\ UNCHANGED alive

EndSubscription == alive' = FALSE /\ UNCHANGED <<verdict, paid>>

Next ==
  \/ \E P, W \in SUBSET Requests : P \cap W = {} /\ Settle(P, W)
  \/ EndSubscription

Spec == Init /\ [][Next]_vars
=============================================================================
