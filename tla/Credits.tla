------------------------------ MODULE Credits ------------------------------
(***************************************************************************)
(* All that credits a user or gives him a subscription, side by side: paid *)
(* orders, promo codes, and redeemed codes beside whatever else happens to *)
(* the subscriptions.  They share the balance and nothing else.            *)
(***************************************************************************)
EXTENDS PaymentOrders, PromoCodes, RedeemCodes

ASSUME CreditsAssumption ==
  /\ Amount \in [Orders \cup Promos \cup BalanceCodes -> Nat]
  /\ Orders \cap BalanceCodes = {}

creditsVars == <<orderVars, promoVars, redeemVars>>

CreditsInit ==
  /\ WalletInit
  /\ PaymentInit
  /\ PromoInit
  /\ RedeemInit
  /\ TermInit

CreditsNext ==
  \/ PaymentNext /\ UNCHANGED <<promoVars, codeVars, termVars>>
  \/ PromoNext /\ UNCHANGED <<orderVars, codeVars, termVars>>
  \/ RedeemNext /\ UNCHANGED <<orderVars, promoVars>>

CreditsSpec == CreditsInit /\ [][CreditsNext]_creditsVars

\* Every variable has its type.
CreditsTypeOK ==
  /\ WalletTypeOK
  /\ PaymentTypeOK
  /\ PromoTypeOK
  /\ RedeemTypeOK
  /\ TermTypeOK

\* What has credited a user: paid orders, uses of promo codes, used codes.
CreditedSources ==
  {[of |-> o] : o \in {o \in Orders : status[o] = "paid"}}
    \cup {[of |-> x.code, by |-> x.user] : x \in usages}
    \cup {[of |-> c] : c \in used \cap BalanceCodes}

AllSources ==
  [of : Orders \cup BalanceCodes] \cup [of : Promos, by : Users]

Once == INSTANCE OnceOnlyCredits WITH
  Sources <- AllSources, credited <- CreditedSources

\* Duplicate and repeated reports, commits whose answer is lost, concurrent
\* users of one code: every source adds its amount at most once, and stays
\* credited (markOrderPaid, ApplyPromoCode, Redeem).
ImplementsOnceOnlyCredits == Once!OnceSpec
=============================================================================
