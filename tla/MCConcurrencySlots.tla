------------------------- MODULE MCConcurrencySlots -------------------------
(* Values for the constants of ConcurrencySlots. *)
EXTENDS ConcurrencySlots, TLC

CONSTANTS r1, r2, u1, a1, i1, i2, i3

OneUser == [r \in Requests |-> u1]

\* The same limit, or queue length, for every pool.
One == [p \in Pools |-> 1]
Two == [p \in Pools |-> 2]

\* Members are drawn at random and the requests of these runs are alike: no
\* action tells two of them apart.
Alike == Permutations(Ids) \cup Permutations(Requests)
=============================================================================
