------------------------------- MODULE Totals -------------------------------
(***************************************************************************)
(* Sums of functions into the natural numbers, as the size of a set: the   *)
(* sum has one unit <<x, n>> for every n up to the value at x.  Unlike a   *)
(* fold, it can be reasoned about without induction.                       *)
(***************************************************************************)
EXTENDS Naturals, FiniteSets

Units(f) == UNION {{x} \X (1 .. f[x]) : x \in DOMAIN f}

Total(f) == Cardinality(Units(f))
=============================================================================
