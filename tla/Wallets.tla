------------------------------ MODULE Wallets ------------------------------
(***************************************************************************)
(* The balances of users, which paid orders, promo codes and redeem codes  *)
(* add to.  Every source adds the amount it is worth, in whole units.      *)
(***************************************************************************)
EXTENDS Integers

CONSTANTS
  Users,
  Amount  \* what an order, a promo code or a balance code is worth

VARIABLE balance

WalletTypeOK == balance \in [Users -> Nat]

WalletInit == balance = [u \in Users |-> 0]

\* UpdateBalance: one UPDATE ... SET balance = balance + amount.
Credit(u, source) == balance' = [balance EXCEPT ![u] = @ + Amount[source]]
=============================================================================
