--------------------------- MODULE MCEntitlements ---------------------------
(***************************************************************************)
(* The ways a user comes by a balance or a subscription, instantiated for  *)
(* TLC.  They share the balance, to which each only adds, and nothing      *)
(* else, so a behaviour runs one of them, chosen at the start: orders,     *)
(* promo codes, codes redeemed and deleted at once, or codes redeemed      *)
(* without Redis while everything else happens to the subscription.  Or it *)
(* is about what becomes of it: what a user is charged when his usage logs *)
(* are deleted, the copy of his balance, with all that moves it or with    *)
(* his row being saved, or the windows of his subscription.                *)
(***************************************************************************)
EXTENDS Credits, ErasedUsage, BalanceCache, UsageWindows, TLC

CONSTANTS u1, u2, o1, o2, p1, a1, a2, a3, b1, t1, t2, r1, r2, r3, r4, w1,
          q1, c1, d1, d2, k1, i1, i2, m1, m2, e1, s1, x1, x2, y1, y2, z1

VARIABLE part  \* what a behaviour is about

ledgerVars == <<vars, eraseVars>>

allVars == <<part, creditsVars, ledgerVars, balanceVars, windowVars>>

otherVars == <<balanceVars, windowVars>>

\* One request, recorded by one instance and perhaps replayed by two.
ReqOfCall == c1 :> q1
HostOfWorker == (c1 :> i1) @@ (d1 :> i1) @@ (d2 :> i2) @@ (k1 :> i2)
KindOfRequest == q1 :> "subscription"
CostOfRequest == q1 :> 1

PayerOf == [o \in Orders |-> u1]
ProviderOf == (o1 :> "paypal") @@ (o2 :> "epay")
AppliesFor == (a1 :> u1) @@ (a2 :> u1) @@ (a3 :> u2)
FirstLimit == [p \in Promos |-> 1]
RedeemsFor == (r1 :> u1) @@ (r2 :> u1) @@ (r3 :> u2) @@ (r4 :> u1)
TriesCode == (r1 :> t1) @@ (r2 :> b1) @@ (r3 :> b1) @@ (r4 :> t2)
DaysOf == [c \in TermCodes |-> 2]
Worth == [s \in Orders \cup Promos \cup BalanceCodes |-> 1]
TermRedeemers == {r \in Redeemers : Tries[r] \in TermCodes}
AdjustBy == {-1, 2}

EntitlementsInit ==
  /\ part \in {"topup", "promo", "codes", "terms", "usage", "copy", "saved copy", "windows"}
  /\ CreditsInit
  /\ EraseInit
  /\ BalanceInit
  /\ WindowsInit

EntitlementsNext ==
  /\ UNCHANGED part
  /\ \/ /\ part = "topup"
        /\ PaymentNext
        /\ UNCHANGED <<promoVars, codeVars, termVars, ledgerVars, otherVars>>
     \/ /\ part = "promo"
        /\ PromoNext
        /\ UNCHANGED <<orderVars, codeVars, termVars, ledgerVars, otherVars>>
     \/ /\ part = "codes"
        /\ CodeStep
        /\ redeeming'[r4] = "start"
        /\ UNCHANGED <<orderVars, promoVars, ledgerVars, otherVars>>
     \/ /\ part = "terms"
        /\ \/ \E r \in TermRedeemers : Redeem(r) /\ UNCHANGED lock
           \/ TermStep /\ UNCHANGED <<codeVars, balance>>
        /\ UNCHANGED <<orderVars, promoVars, ledgerVars, otherVars>>
     \/ /\ part = "usage"
        /\ EraseNext
        /\ UNCHANGED <<orderVars, promoVars, codeVars, termVars, balance, otherVars>>
     \/ /\ part = "copy"
        /\ BalanceNext
        /\ rowRead'[s1] = NoBalance
        /\ UNCHANGED <<orderVars, promoVars, codeVars, termVars, balance, ledgerVars, windowVars>>
     \/ /\ part = "saved copy"
        /\ BalanceNext
        /\ news'[m2] = "due"
        /\ UNCHANGED <<orderVars, promoVars, codeVars, termVars, balance, ledgerVars, windowVars>>
     \/ /\ part = "windows"
        /\ WindowsNext
        /\ UNCHANGED <<orderVars, promoVars, codeVars, termVars, balance, ledgerVars, balanceVars>>

\* PaymentFairness, where orders are what the behaviour is about.
EntitlementsFairness ==
  \A o \in Orders, n \in Reports :
    /\ WF_allVars(part = "topup" /\ ReportsAgain(o, n) /\ UNCHANGED <<part, promoVars, codeVars, termVars, ledgerVars, otherVars>>)
    /\ WF_allVars(part = "topup" /\ (MarkPaid(o, n) \/ MarkPaidFails(o, n))
                    /\ UNCHANGED <<part, promoVars, codeVars, termVars, ledgerVars, otherVars>>)

EntitlementsSpec ==
  EntitlementsInit /\ [][EntitlementsNext]_allVars /\ EntitlementsFairness

\* Every variable has its type; a promo code is counted once per use.
EntitlementsTypeOK ==
  /\ CreditsTypeOK
  /\ EraseTypeOK
  /\ BalanceTypeOK
  /\ WindowsTypeOK
=============================================================================
