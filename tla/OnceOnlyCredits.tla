-------------------------- MODULE OnceOnlyCredits --------------------------
(***************************************************************************)
(* What everything that adds to a balance promises: each source, an order, *)
(* a balance code, or a promo code in the hands of one user, adds its      *)
(* amount to one balance, at most once, and nothing else changes a balance.*)
(***************************************************************************)
EXTENDS Wallets

CONSTANT Sources  \* records with the field "of", the entry of Amount

VARIABLE credited  \* the sources that have been credited

OnceInit ==
  /\ WalletInit
  /\ credited = {}

CreditOnce(s, u) ==
  /\ s \notin credited
  /\ credited' = credited \cup {s}
  /\ Credit(u, s.of)

OnceNext == \E s \in Sources, u \in Users : CreditOnce(s, u)

OnceSpec == OnceInit /\ [][OnceNext]_<<balance, credited>>
=============================================================================
