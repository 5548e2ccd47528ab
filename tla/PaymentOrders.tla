--------------------------- MODULE PaymentOrders ---------------------------
(***************************************************************************)
(* Topping up a balance.  CreateTopUp inserts a pending order, asks the    *)
(* payment provider for a checkout, stores the provider's reference with a *)
(* write of the whole row, and only then tells the user where to pay.  The *)
(* provider reports a captured payment as often as it likes, several       *)
(* reports of one order at once, until one is acknowledged; a report finds *)
(* the order by its number or by the provider's reference, and marks it    *)
(* paid and credits the user in one transaction on the locked row.         *)
(*                                                                         *)
(* Nothing ever writes the status "expired": GetOrder only shows it, so a  *)
(* payment is accepted however late it is and time is not modelled.        *)
(***************************************************************************)
EXTENDS Wallets

CONSTANTS
  Orders,
  Payer,            \* the user of an order
  Provider,         \* its provider: "creem", "paypal" or "epay"
  Reports,          \* the reports of one order that may be handled at once
  MaxPaymentFaults  \* bound: failing calls in one behaviour

ASSUME PaymentAssumption ==
  /\ Payer \in [Orders -> Users]
  /\ Provider \in [Orders -> {"creem", "paypal", "epay"}]
  /\ MaxPaymentFaults \in Nat

VARIABLES
  status,    \* payment_orders.status; "none": no row
  stored,    \* orders whose row has the provider's reference
  creating,  \* where CreateTopUp is
  captured,  \* what the provider has captured: "none", "full" or "other"
  report,    \* where the handler of a report is
  acked,     \* orders of which the provider has seen a report accepted
  paymentFaults

orderVars == <<status, stored, creating, captured, report, acked, paymentFaults>>
paymentVars == <<orderVars, balance>>

PaymentTypeOK ==
  /\ status \in [Orders -> {"none", "pending", "failed", "paid"}]
  /\ stored \subseteq Orders
  /\ creating \in [Orders -> {"start", "inserted", "called", "url", "error"}]
  /\ captured \in [Orders -> {"none", "full", "other"}]
  /\ report \in [Orders -> [Reports -> {"idle", "matched"}]]
  /\ acked \subseteq Orders
  /\ paymentFaults \in 0 .. MaxPaymentFaults

PaymentInit ==
  /\ status = [o \in Orders |-> "none"]
  /\ stored = {}
  /\ creating = [o \in Orders |-> "start"]
  /\ captured = [o \in Orders |-> "none"]
  /\ report = [o \in Orders |-> [n \in Reports |-> "idle"]]
  /\ acked = {}
  /\ paymentFaults = 0

PaymentFails ==
  /\ paymentFaults < MaxPaymentFaults
  /\ paymentFaults' = paymentFaults + 1

-----------------------------------------------------------------------------
(* CreateTopUp.  A failing write may or may not have been executed. *)

CreateStep(o, from, to) ==
  /\ creating[o] = from
  /\ creating' = [creating EXCEPT ![o] = to]
  /\ UNCHANGED <<captured, report, acked, balance>>

Insert(o) ==
  /\ CreateStep(o, "start", "inserted")
  /\ status' = [status EXCEPT ![o] = "pending"]
  /\ UNCHANGED <<stored, paymentFaults>>

InsertFails(o) ==
  /\ CreateStep(o, "start", "error")
  /\ PaymentFails
  /\ status' \in {status, [status EXCEPT ![o] = "pending"]}
  /\ UNCHANGED stored

\* The provider opens a checkout, or EPay's address is built.
CallProvider(o) ==
  /\ CreateStep(o, "inserted", "called")
  /\ UNCHANGED <<status, stored, paymentFaults>>

\* The provider refuses: failOrder, whose own error is ignored.
FailOrder(o) ==
  /\ CreateStep(o, "inserted", "error")
  /\ PaymentFails
  /\ status' \in {status, [status EXCEPT ![o] = "failed"]}
  /\ UNCHANGED stored

\* The order as CreateTopUp remembers it, written over the whole row.
StoredOver(o) ==
  /\ status' = [status EXCEPT ![o] = "pending"]
  /\ stored' = stored \cup {o}

StoreReference(o) ==
  /\ CreateStep(o, "called", "url")
  /\ StoredOver(o)
  /\ UNCHANGED paymentFaults

StoreFails(o) ==
  /\ CreateStep(o, "called", "error")
  /\ PaymentFails
  /\ StoredOver(o) \/ UNCHANGED <<status, stored>>

-----------------------------------------------------------------------------
(* The provider and its reports. *)

\* Mutant of CanPay: the checkout address is answered before the row is
\* written for the second time.
CanPayEarly(o) == creating[o] \in {"called", "url", "error"}

\* Nobody can pay before CreateTopUp has answered.
CanPay(o) == creating[o] = "url"

\* The user pays, and the provider captures the order's amount or another.
Capture(o) ==
  /\ CanPay(o)
  /\ captured[o] = "none"
  /\ \E amount \in {"full", "other"} : captured' = [captured EXCEPT ![o] = amount]
  /\ UNCHANGED <<status, stored, creating, report, acked, paymentFaults, balance>>

\* GetByOrderNo, or GetByProviderOrderID for PayPal.
Found(o) == status[o] # "none" /\ (Provider[o] = "paypal" => o \in stored)

\* A report that finds its order, with the right currency and amount.
Match(o, n) ==
  /\ captured[o] = "full"
  /\ report[o][n] = "idle"
  /\ Found(o)
  /\ report' = [report EXCEPT ![o][n] = "matched"]
  /\ UNCHANGED <<status, stored, creating, captured, acked, paymentFaults, balance>>

\* EPay is told "success" of a payment that is refused, which ends its
\* reports; the others are told of the error and report again.
Refuse(o) ==
  /\ captured[o] = "other"
  /\ Found(o)
  /\ Provider[o] = "epay"
  /\ o \notin acked
  /\ acked' = acked \cup {o}
  /\ UNCHANGED <<status, stored, creating, captured, report, paymentFaults, balance>>

\* Mutant of Payable: an order that is paid already is not recognised.
PayableAgain(s) == s # "failed"

\* The row under its lock: neither paid nor failed.
Payable(s) == s = "pending"

\* The transaction of markOrderPaid.
Pay(o) ==
  IF Payable(status[o])
  THEN /\ status' = [status EXCEPT ![o] = "paid"]
       /\ Credit(Payer[o], o)
  ELSE UNCHANGED <<status, balance>>

EndReport(o, n) ==
  /\ report[o][n] = "matched"
  /\ report' = [report EXCEPT ![o][n] = "idle"]
  /\ UNCHANGED <<stored, creating, captured>>

MarkPaid(o, n) ==
  /\ EndReport(o, n)
  /\ Pay(o)
  /\ acked' = acked \cup {o}
  /\ UNCHANGED paymentFaults

\* Mutant of MarkPaidFails: the handler acknowledges whatever happened.
MarkPaidFailsAcked(o, n) ==
  /\ EndReport(o, n)
  /\ PaymentFails
  /\ acked' = acked \cup {o}
  /\ Pay(o) \/ UNCHANGED <<status, balance>>

\* The transaction fails, or its commit is executed and answers an error, or
\* the process dies: the report is answered with an error, or not at all.
MarkPaidFails(o, n) ==
  /\ EndReport(o, n)
  /\ PaymentFails
  /\ Pay(o) \/ UNCHANGED <<status, balance>>
  /\ UNCHANGED acked

-----------------------------------------------------------------------------
CreateTopUp(o) ==
  \/ Insert(o) \/ InsertFails(o)
  \/ CallProvider(o) \/ FailOrder(o)
  \/ StoreReference(o) \/ StoreFails(o)

HandleReport(o, n) ==
  \/ Match(o, n)
  \/ MarkPaid(o, n)
  \/ MarkPaidFails(o, n)

PaymentNext ==
  \E o \in Orders :
    \/ CreateTopUp(o)
    \/ Capture(o)
    \/ Refuse(o)
    \/ \E n \in Reports : HandleReport(o, n)

\* The provider reports a capture until a report is acknowledged.
ReportsAgain(o, n) == o \notin acked /\ Match(o, n)

\* The provider reports again, and a handler that runs comes to its end.
PaymentFairness ==
  \A o \in Orders, n \in Reports :
    /\ WF_paymentVars(ReportsAgain(o, n))
    /\ WF_paymentVars(MarkPaid(o, n) \/ MarkPaidFails(o, n))

PaymentSpec == PaymentInit /\ WalletInit /\ [][PaymentNext]_paymentVars /\ PaymentFairness

\* A payment that was captured in full is credited in the end, whatever calls
\* fail and however late it is (HandleCreemWebhook, HandlePayPalWebhook,
\* HandleEPayNotify, markOrderPaid).
CapturedIsCredited ==
  \A o \in Orders : captured[o] = "full" ~> status[o] = "paid"
=============================================================================
