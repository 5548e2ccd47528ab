-------------------------- MODULE MCBillingLedger --------------------------
(* Small instances of BillingLedger for TLC. *)
EXTENDS BillingLedger

CONSTANTS r1, r2, c1, c2, c3, d1, d2, k1, k2, i1, i2

\* c1 and c2 record the same request on two instances, c3 another one.
MCReqOf  == [c \in Calls |-> IF c = c3 THEN r2 ELSE r1]
MCHostOf == [w \in Workers |-> IF w \in {c2, d2, k2} THEN i2 ELSE i1]
MCKind   == [r \in Requests |-> IF r = r1 THEN "balance" ELSE "subscription"]
MCCost   == [r \in Requests |-> IF r = r1 THEN 2 ELSE 1]

\* The request recorded twice is billed to a subscription, the legacy one to the
\* balance.
MCKindSwapped == [r \in Requests |-> IF r = r1 THEN "subscription" ELSE "balance"]
=============================================================================
