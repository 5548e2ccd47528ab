--------------------------- MODULE BoundedHolders ---------------------------
(***************************************************************************)
(* What a concurrency limit promises: a pool never has more holders than   *)
(* its limit, and one step takes at most one of them in.                   *)
(***************************************************************************)
EXTENDS Naturals, FiniteSets

CONSTANTS Holders, Pools, Limit

VARIABLE held   \* the holders of each pool

Init == held = [p \in Pools |-> {}]

Enter(h, p) ==
  /\ h \notin held[p]
  /\ Cardinality(held[p]) < Limit[p]
  /\ held' = [held EXCEPT ![p] = @ \cup {h}]

\* Any number of holders leave at once when a process dies.
Leave ==
  /\ held' \in [Pools -> SUBSET Holders]
  /\ \A p \in Pools : held'[p] \subseteq held[p]

Next == Leave \/ \E h \in Holders, p \in Pools : Enter(h, p)

Spec == Init /\ [][Next]_held
=============================================================================
