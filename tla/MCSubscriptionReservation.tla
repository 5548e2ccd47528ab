--------------------- MODULE MCSubscriptionReservation ---------------------
(* Values for the constants of SubscriptionReservation. *)
EXTENDS SubscriptionReservation

CONSTANTS r1, r2, r3, c1

\* r3 costs less than its estimate, the others all of it.
Two == [r \in Requests |-> 2]
Costs == [r \in Requests |-> IF r = r3 THEN 1 ELSE 2]
=============================================================================
