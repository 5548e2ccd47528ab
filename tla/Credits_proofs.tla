---------------------------- MODULE Credits_proofs ----------------------------
(***************************************************************************)
(* Proofs about payments, promo codes, redeemed codes and the terms of     *)
(* subscriptions, for any users, orders, codes, calls, bounds and faults.  *)
(* Each of the three has an invariant of its own; side by side they credit *)
(* every source once.                                                      *)
(***************************************************************************)
EXTENDS Credits, FiniteSetTheorems, TLAPS

-----------------------------------------------------------------------------
(* PaymentOrders *)

\* Only an order whose creation has been answered is paid for, and only such a
\* one is reported or paid: no write of CreateTopUp comes later.
PaidAfterAnswer ==
  \A o \in Orders :
    /\ status[o] = "paid" \/ captured[o] # "none" => creating[o] = "url"
    /\ \A n \in Reports : report[o][n] = "matched" => captured[o] # "none"

PaymentInv == PaymentTypeOK /\ PaidAfterAnswer

Paid == {o \in Orders : status[o] = "paid"}

LEMMA PaymentFaultCounted ==
  ASSUME PaymentTypeOK, PaymentFails \/ UNCHANGED paymentFaults
  PROVE  paymentFaults' \in 0 .. MaxPaymentFaults
  BY PaymentAssumption DEF PaymentTypeOK, PaymentFails

\* CreateTopUp does not touch an order that is paid, and pays none.
LEMMA CreateTopUpKeeps ==
  ASSUME PaymentInv, NEW o \in Orders, CreateTopUp(o)
  PROVE  PaymentInv' /\ Paid' = Paid /\ UNCHANGED balance
  <1>1. /\ UNCHANGED <<captured, report, acked, balance>>
        /\ PaymentFails \/ UNCHANGED paymentFaults
    BY DEF CreateTopUp, CreateStep, Insert, InsertFails, CallProvider, FailOrder, StoreReference, StoreFails
  <1>2. /\ creating[o] \in {"start", "inserted", "called"}
        /\ \E to \in {"inserted", "called", "url", "error"} : creating' = [creating EXCEPT ![o] = to]
    BY DEF CreateTopUp, CreateStep, Insert, InsertFails, CallProvider, FailOrder, StoreReference, StoreFails
  <1>3. /\ \/ UNCHANGED status
           \/ \E s \in {"pending", "failed"} : status' = [status EXCEPT ![o] = s]
        /\ stored' \in {stored, stored \cup {o}}
    BY DEF CreateTopUp, Insert, InsertFails, CallProvider, FailOrder, StoreReference, StoreFails, StoredOver
  <1>4. creating' \in [Orders -> {"start", "inserted", "called", "url", "error"}]
        /\ \A p \in Orders \ {o} : creating'[p] = creating[p]
    BY <1>2 DEF PaymentInv, PaymentTypeOK
  <1>5. status' \in [Orders -> {"none", "pending", "failed", "paid"}]
        /\ \A p \in Orders \ {o} : status'[p] = status[p]
    BY <1>3 DEF PaymentInv, PaymentTypeOK
  <1>6. status[o] # "paid" /\ captured[o] = "none" /\ status'[o] # "paid"
    <2>1. status[o] # "paid" /\ captured[o] = "none"
      BY <1>2 DEF PaymentInv, PaidAfterAnswer
    <2> QED
      BY <1>3, <2>1 DEF PaymentInv, PaymentTypeOK
  <1>7. PaymentTypeOK'
    BY <1>1, <1>3, <1>4, <1>5, PaymentFaultCounted DEF PaymentInv, PaymentTypeOK
  <1>8. PaidAfterAnswer'
    BY <1>1, <1>4, <1>5, <1>6 DEF PaymentInv, PaidAfterAnswer
  <1>9. Paid' = Paid
    BY <1>5, <1>6 DEF Paid
  <1> QED
    BY <1>1, <1>7, <1>8, <1>9 DEF PaymentInv

LEMMA ProviderKeeps ==
  ASSUME PaymentInv, NEW o \in Orders, Capture(o) \/ Refuse(o) \/ \E n \in Reports : Match(o, n)
  PROVE  PaymentInv' /\ Paid' = Paid /\ UNCHANGED balance
  <1>1. UNCHANGED <<status, stored, creating, paymentFaults, balance>>
    BY DEF Capture, Refuse, Match
  <1>2. CASE Capture(o)
    <2>1. /\ creating[o] = "url" /\ UNCHANGED <<report, acked>>
          /\ \E amount \in {"full", "other"} : captured' = [captured EXCEPT ![o] = amount]
      BY <1>2 DEF Capture, CanPay
    <2>2. captured' \in [Orders -> {"none", "full", "other"}] /\ captured'[o] # "none"
          /\ \A p \in Orders \ {o} : captured'[p] = captured[p]
      BY <2>1 DEF PaymentInv, PaymentTypeOK
    <2> QED
      BY <1>1, <2>1, <2>2 DEF PaymentInv, PaymentTypeOK, PaidAfterAnswer, Paid
  <1>3. CASE Refuse(o)
    BY <1>1, <1>3 DEF Refuse, PaymentInv, PaymentTypeOK, PaidAfterAnswer, Paid
  <1>4. ASSUME NEW n \in Reports, Match(o, n)
        PROVE  PaymentInv' /\ Paid' = Paid
    <2>1. /\ captured[o] = "full" /\ UNCHANGED <<captured, acked>>
          /\ report' = [report EXCEPT ![o][n] = "matched"]
      BY <1>4 DEF Match
    <2>2. /\ report' \in [Orders -> [Reports -> {"idle", "matched"}]]
          /\ \A p \in Orders \ {o} : report'[p] = report[p]
      BY <2>1 DEF PaymentInv, PaymentTypeOK
    <2> QED
      BY <1>1, <2>1, <2>2 DEF PaymentInv, PaymentTypeOK, PaidAfterAnswer, Paid
  <1> QED
    BY <1>1, <1>2, <1>3, <1>4

\* A report pays a pending order, which is then paid, or changes nothing.
LEMMA ReportKeeps ==
  ASSUME PaymentInv, NEW o \in Orders, NEW n \in Reports, MarkPaid(o, n) \/ MarkPaidFails(o, n)
  PROVE  /\ PaymentInv'
         /\ \/ Paid' = Paid /\ UNCHANGED balance
            \/ o \notin Paid /\ Paid' = Paid \cup {o} /\ Credit(Payer[o], o)
  <1>1. /\ report[o][n] = "matched"
        /\ report' = [report EXCEPT ![o][n] = "idle"]
        /\ UNCHANGED <<stored, creating, captured>>
        /\ acked' \in {acked, acked \cup {o}}
        /\ PaymentFails \/ UNCHANGED paymentFaults
    BY DEF MarkPaid, MarkPaidFails, EndReport
  <1>2. captured[o] # "none" /\ creating[o] = "url"
    BY <1>1 DEF PaymentInv, PaidAfterAnswer
  <1>3. \/ UNCHANGED <<status, balance>>
        \/ /\ status[o] = "pending" /\ status' = [status EXCEPT ![o] = "paid"]
           /\ Credit(Payer[o], o)
    BY DEF MarkPaid, MarkPaidFails, Pay, Payable
  <1>4. /\ report' \in [Orders -> [Reports -> {"idle", "matched"}]]
        /\ \A p \in Orders \ {o} : report'[p] = report[p]
    BY <1>1 DEF PaymentInv, PaymentTypeOK
  <1>5. CASE UNCHANGED <<status, balance>>
    <2>1. PaymentTypeOK'
      BY <1>1, <1>4, <1>5, PaymentFaultCounted DEF PaymentInv, PaymentTypeOK
    <2> QED
      BY <1>1, <1>2, <1>4, <1>5, <2>1 DEF PaymentInv, PaidAfterAnswer, Paid
  <1>6. CASE /\ status[o] = "pending" /\ status' = [status EXCEPT ![o] = "paid"]
             /\ Credit(Payer[o], o)
    <2>1. /\ status' \in [Orders -> {"none", "pending", "failed", "paid"}]
          /\ status'[o] = "paid" /\ \A p \in Orders \ {o} : status'[p] = status[p]
      BY <1>6 DEF PaymentInv, PaymentTypeOK
    <2>2. PaymentTypeOK'
      BY <1>1, <1>4, <2>1, PaymentFaultCounted DEF PaymentInv, PaymentTypeOK
    <2>3. PaidAfterAnswer'
      BY <1>1, <1>2, <1>4, <2>1 DEF PaymentInv, PaidAfterAnswer
    <2>4. o \notin Paid /\ Paid' = Paid \cup {o}
      BY <1>6, <2>1 DEF Paid
    <2> QED
      BY <1>6, <2>2, <2>3, <2>4 DEF PaymentInv
  <1> QED
    BY <1>3, <1>5, <1>6

LEMMA PaymentKeeps ==
  ASSUME PaymentInv, PaymentNext
  PROVE  /\ PaymentInv'
         /\ \/ Paid' = Paid /\ UNCHANGED balance
            \/ \E o \in Orders : o \notin Paid /\ Paid' = Paid \cup {o} /\ Credit(Payer[o], o)
  BY CreateTopUpKeeps, ProviderKeeps, ReportKeeps DEF PaymentNext, HandleReport

LEMMA PaymentStays ==
  ASSUME PaymentInv, UNCHANGED orderVars
  PROVE  PaymentInv' /\ Paid' = Paid
  BY DEF orderVars, PaymentInv, PaymentTypeOK, PaidAfterAnswer, Paid

-----------------------------------------------------------------------------
(* PromoCodes *)

\* Who has checked a code holds its row, and may still use it.
Holds ==
  \A a \in Applicants, p \in Promos : applying[a] = p =>
    /\ locked[p] = a
    /\ promo[p].max > 0 => promo[p].used < promo[p].max

\* A code is counted for every use, unless an edit has written the count back.
UsesCounted == \A p \in Promos \ overwrote : PromoUses(p) <= promo[p].used

PromoInv == PromoTypeOK /\ IsFiniteSet(usages) /\ Holds /\ UsesCounted

LEMMA PromoUsesFacts ==
  ASSUME PromoInv, NEW p \in Promos
  PROVE  /\ PromoUses(p) \in Nat /\ promo[p] \in PromoRows
         /\ promo[p].used \in Nat /\ promo[p].max \in Nat
  <1>1. {u \in usages : u.code = p} \in SUBSET usages
    OBVIOUS
  <1>2. IsFiniteSet({u \in usages : u.code = p})
    BY <1>1, FS_Subset DEF PromoInv
  <1>3. PromoUses(p) \in Nat
    BY <1>2, FS_CardinalityType DEF PromoUses
  <1> QED
    BY <1>3, PromoAssumption DEF PromoInv, PromoTypeOK, PromoRows

\* One more use of p is one more use of p, and none of another code.
LEMMA UsedOnceMore ==
  ASSUME PromoInv, NEW p \in Promos, NEW u \in Users, Use(p, u) \notin usages,
         usages' = usages \cup {Use(p, u)}
  PROVE  /\ IsFiniteSet(usages') /\ usages' \subseteq Usages
         /\ (PromoUses(p))' = PromoUses(p) + 1
         /\ \A q \in Promos \ {p} : (PromoUses(q))' = PromoUses(q)
  <1>1. Use(p, u).code = p /\ Use(p, u) \in Usages
    BY DEF Use, Usages
  <1>2. IsFiniteSet(usages') /\ usages' \subseteq Usages
    BY <1>1, FS_AddElement DEF PromoInv, PromoTypeOK
  <1> DEFINE S == {x \in usages : x.code = p}
  <1>3. IsFiniteSet(S) /\ Use(p, u) \notin S
    <2>1. S \in SUBSET usages
      OBVIOUS
    <2> QED
      BY <2>1, FS_Subset DEF PromoInv
  <1>4. {x \in usages' : x.code = p} = S \cup {Use(p, u)}
    BY <1>1
  <1>5. (PromoUses(p))' = PromoUses(p) + 1
    <2>1. Cardinality(S \cup {Use(p, u)}) = Cardinality(S) + 1
      <3> HIDE DEF S
      <3> QED
        BY <1>3, FS_AddElement
    <2> QED
      BY <1>4, <2>1 DEF PromoUses
  <1>6. \A q \in Promos \ {p} : (PromoUses(q))' = PromoUses(q)
    <2> TAKE q \in Promos \ {p}
    <2>1. {x \in usages' : x.code = q} = {x \in usages : x.code = q}
      BY <1>1
    <2> QED
      BY <2>1 DEF PromoUses
  <1> QED
    BY <1>2, <1>5, <1>6

LEMMA CheckKeeps ==
  ASSUME PromoInv, NEW a \in Applicants, NEW p \in Promos, Check(a, p)
  PROVE  PromoInv' /\ UNCHANGED <<usages, balance>>
  <1>1. /\ applying[a] = "start" /\ locked[p] = None /\ CanUse(p)
        /\ applying' = [applying EXCEPT ![a] = p]
        /\ locked' = [locked EXCEPT ![p] = a]
        /\ UNCHANGED <<promo, usages, edit, edits, overwrote, balance>>
    BY DEF Check, LockRow
  <1>2. PromoTypeOK'
    BY <1>1 DEF PromoInv, PromoTypeOK
  <1>3. Holds'
    <2> SUFFICES ASSUME NEW b \in Applicants, NEW q \in Promos, applying'[b] = q
                 PROVE  /\ locked'[q] = b
                        /\ promo[q].max > 0 => promo[q].used < promo[q].max
      BY <1>1 DEF Holds
    <2>1. CASE b = a
      BY <1>1, <2>1 DEF PromoInv, PromoTypeOK, CanUse
    <2>2. CASE b # a
      <3>1. applying[b] = q /\ locked[q] = b
        BY <1>1, <2>2 DEF PromoInv, PromoTypeOK, Holds
      <3>2. q # p
        BY <1>1, <3>1, PromoAssumption
      <3> QED
        BY <1>1, <3>1, <3>2 DEF PromoInv, PromoTypeOK, Holds
    <2> QED
      BY <2>1, <2>2
  <1> QED
    BY <1>1, <1>2, <1>3 DEF PromoInv, UsesCounted, PromoUses

\* Who ends a transaction holds no row any more, and nobody else held it.
LEMMA EndsHold ==
  ASSUME PromoInv, NEW a \in Applicants, NEW p \in Promos, EndApply(a, p)
  PROVE  /\ applying' \in [Applicants -> Promos \cup {"start", "end"}]
         /\ locked' \in [Promos -> Applicants \cup {None}]
         /\ \A b \in Applicants, q \in Promos : applying'[b] = q =>
              applying[b] = q /\ q # p /\ locked'[q] = b
  <1>1. /\ applying[a] = p /\ applying' = [applying EXCEPT ![a] = "end"]
        /\ locked' = [locked EXCEPT ![p] = None] /\ locked[p] = a
    BY DEF EndApply, PromoInv, Holds
  <1>2. ASSUME NEW b \in Applicants, NEW q \in Promos, applying'[b] = q
        PROVE  applying[b] = q /\ q # p /\ locked'[q] = b
    <2>1. b # a
      BY <1>1, <1>2, PromoAssumption DEF PromoInv, PromoTypeOK
    <2>2. applying[b] = q /\ locked[q] = b
      BY <1>1, <1>2, <2>1 DEF PromoInv, PromoTypeOK, Holds
    <2>3. q # p
      BY <1>1, <2>1, <2>2
    <2> QED
      BY <1>1, <2>2, <2>3 DEF PromoInv, PromoTypeOK
  <1> QED
    BY <1>1, <1>2 DEF PromoInv, PromoTypeOK

\* A use within the limit: the row has not changed since the check.
LEMMA ApplyKeeps ==
  ASSUME PromoInv, NEW a \in Applicants, NEW p \in Promos, Apply(a, p)
  PROVE  /\ PromoInv'
         /\ Applies[a] \in Users
         /\ Use(p, Applies[a]) \notin usages
         /\ usages' = usages \cup {Use(p, Applies[a])}
         /\ Credit(Applies[a], p)
         /\ \A q \in Promos : (PromoUses(q))' > PromoUses(q) =>
              \/ promo[q].max = 0 \/ (PromoUses(q))' <= promo[q].max \/ q \in overwrote
  <1>1. /\ applying[a] = p /\ Applies[a] \in Users
        /\ Use(p, Applies[a]) \notin usages
        /\ usages' = usages \cup {Use(p, Applies[a])}
        /\ Credit(Applies[a], p)
        /\ promo' = [promo EXCEPT ![p].used = @ + 1]
        /\ UNCHANGED <<edit, edits, overwrote>>
        /\ EndApply(a, p)
    BY PromoAssumption DEF Apply, EndApply
  <1>2. /\ applying' \in [Applicants -> Promos \cup {"start", "end"}]
        /\ locked' \in [Promos -> Applicants \cup {None}]
        /\ \A b \in Applicants, q \in Promos : applying'[b] = q =>
             applying[b] = q /\ q # p /\ locked'[q] = b
    BY <1>1, EndsHold
  <1>3. /\ IsFiniteSet(usages') /\ usages' \subseteq Usages
        /\ (PromoUses(p))' = PromoUses(p) + 1
        /\ \A q \in Promos \ {p} : (PromoUses(q))' = PromoUses(q)
    BY <1>1, UsedOnceMore
  <1>4. /\ promo' \in [Promos -> PromoRows]
        /\ promo'[p].used = promo[p].used + 1
        /\ \A q \in Promos \ {p} : promo'[q] = promo[q]
    <2>1. promo \in [Promos -> PromoRows] /\ promo[p] \in PromoRows
      BY DEF PromoInv, PromoTypeOK
    <2> DEFINE r == [promo[p] EXCEPT !.used = promo[p].used + 1]
    <2>2. r \in PromoRows /\ r.used = promo[p].used + 1
      BY <2>1 DEF PromoRows
    <2>3. promo' = [promo EXCEPT ![p] = r]
      BY <1>1, <2>1
    <2> HIDE DEF r
    <2> QED
      BY <2>1, <2>2, <2>3
  <1>5. PromoTypeOK'
    BY <1>1, <1>2, <1>3, <1>4 DEF PromoInv, PromoTypeOK
  <1>6. Holds'
    BY <1>2, <1>4 DEF PromoInv, Holds
  <1>7. UsesCounted'
    <2> SUFFICES ASSUME NEW q \in Promos, q \notin overwrote
                 PROVE  (PromoUses(q))' <= promo'[q].used
      BY <1>1 DEF UsesCounted
    <2>1. PromoUses(q) <= promo[q].used /\ PromoUses(q) \in Nat /\ promo[q].used \in Nat
      BY PromoUsesFacts DEF PromoInv, UsesCounted
    <2> QED
      BY <1>3, <1>4, <2>1
  <1>8. \A q \in Promos : (PromoUses(q))' > PromoUses(q) =>
          \/ promo[q].max = 0 \/ (PromoUses(q))' <= promo[q].max \/ q \in overwrote
    <2> SUFFICES ASSUME NEW q \in Promos, (PromoUses(q))' > PromoUses(q),
                        q \notin overwrote, promo[q].max # 0
                 PROVE  (PromoUses(q))' <= promo[q].max
      OBVIOUS
    <2>1. PromoUses(q) \in Nat /\ promo[q].used \in Nat /\ promo[q].max \in Nat
      BY PromoUsesFacts
    <2>2. q = p
      BY <1>3, <2>1
    <2>3. promo[p].used < promo[p].max
      BY <1>1, <2>1, <2>2 DEF PromoInv, Holds
    <2>4. PromoUses(p) <= promo[p].used
      BY <2>2 DEF PromoInv, UsesCounted
    <2> QED
      BY <1>3, <2>1, <2>2, <2>3, <2>4
  <1> QED
    BY <1>1, <1>3, <1>5, <1>6, <1>7, <1>8 DEF PromoInv

LEMMA RollbackKeeps ==
  ASSUME PromoInv, NEW a \in Applicants, NEW p \in Promos, Rollback(a, p)
  PROVE  PromoInv' /\ UNCHANGED <<usages, balance>>
  <1>1. UNCHANGED <<promo, usages, edit, edits, overwrote, balance>> /\ EndApply(a, p)
    BY DEF Rollback, EndApply
  <1>2. /\ applying' \in [Applicants -> Promos \cup {"start", "end"}]
        /\ locked' \in [Promos -> Applicants \cup {None}]
        /\ \A b \in Applicants, q \in Promos : applying'[b] = q =>
             applying[b] = q /\ q # p /\ locked'[q] = b
    BY <1>1, EndsHold
  <1>3. PromoTypeOK'
    BY <1>1, <1>2 DEF PromoInv, PromoTypeOK
  <1>4. Holds'
    BY <1>1, <1>2 DEF PromoInv, Holds
  <1> QED
    BY <1>1, <1>3, <1>4 DEF PromoInv, UsesCounted, PromoUses

\* An administrator writes a row only when nobody holds it.
LEMMA PromoEditKeeps ==
  ASSUME PromoInv, NEW p \in Promos, EditReads(p) \/ EditWrites(p) \/ DeletePromo(p)
  PROVE  PromoInv' /\ UNCHANGED <<usages, balance>>
  <1>1. UNCHANGED <<usages, locked, applying, balance>>
    BY DEF EditReads, EditWrites, DeletePromo
  <1>2. promo[p] \in PromoRows /\ promo[p].used \in Nat /\ edit[p] \in PromoRows \cup {None}
    BY DEF PromoInv, PromoTypeOK, PromoRows
  <1>3. ASSUME NEW r \in PromoRows, promo' = [promo EXCEPT ![p] = r], locked[p] = None,
               r.used >= promo[p].used \/ p \in overwrote',
               overwrote' \in {overwrote, overwrote \cup {p}},
               edit' \in [Promos -> PromoRows \cup {None}], edits' \in 0 .. MaxEdits
        PROVE  PromoInv'
    <2>1. /\ promo' \in [Promos -> PromoRows] /\ promo'[p] = r
          /\ \A q \in Promos \ {p} : promo'[q] = promo[q]
      BY <1>3 DEF PromoInv, PromoTypeOK
    <2>2. PromoTypeOK'
      BY <1>1, <1>3, <2>1 DEF PromoInv, PromoTypeOK
    <2>3. Holds'
      BY <1>1, <1>3, <2>1, PromoAssumption DEF PromoInv, Holds
    <2>4. UsesCounted'
      <3> SUFFICES ASSUME NEW q \in Promos, q \notin overwrote'
                   PROVE  PromoUses(q) <= promo'[q].used
        BY <1>1 DEF UsesCounted, PromoUses
      <3>1. PromoUses(q) <= promo[q].used /\ PromoUses(q) \in Nat /\ promo[q].used \in Nat
        BY <1>3, PromoUsesFacts DEF PromoInv, UsesCounted
      <3>2. r.used \in Nat
        BY DEF PromoRows
      <3> QED
        BY <1>3, <2>1, <3>1, <3>2
    <2> QED
      BY <1>1, <2>2, <2>3, <2>4 DEF PromoInv
  <1>4. CASE EditReads(p)
    <2>1. /\ edits' = edits + 1 /\ edits < MaxEdits
          /\ edit' = [edit EXCEPT ![p] = promo[p]]
          /\ UNCHANGED <<promo, overwrote>>
      BY <1>4 DEF EditReads
    <2>2. edits' \in 0 .. MaxEdits /\ edit' \in [Promos -> PromoRows \cup {None}]
      BY <1>2, <2>1, PromoAssumption DEF PromoInv, PromoTypeOK
    <2>3. PromoTypeOK'
      BY <1>1, <2>1, <2>2 DEF PromoInv, PromoTypeOK
    <2> QED
      BY <1>1, <2>1, <2>3 DEF PromoInv, Holds, UsesCounted, PromoUses
  <1>5. CASE EditWrites(p)
    <2>1. /\ edit[p] # None /\ locked[p] = None /\ edit[p] \in PromoRows
          /\ overwrote' = IF edit[p].used < promo[p].used THEN overwrote \cup {p} ELSE overwrote
          /\ edit' = [edit EXCEPT ![p] = None] /\ UNCHANGED edits
      BY <1>2, <1>5 DEF EditWrites
    <2>2. edit' \in [Promos -> PromoRows \cup {None}] /\ edits' \in 0 .. MaxEdits
      BY <2>1 DEF PromoInv, PromoTypeOK
    <2>3. CASE promo[p].exists
      <3>1. PICK m \in MaxUses : promo' = [promo EXCEPT ![p] = [edit[p] EXCEPT !.max = m]]
        BY <1>5, <2>3 DEF EditWrites
      <3> DEFINE r == [edit[p] EXCEPT !.max = m]
      <3>2. r \in PromoRows /\ r.used = edit[p].used /\ r.used \in Nat
        BY <2>1 DEF PromoRows
      <3>3. promo' = [promo EXCEPT ![p] = r]
        BY <3>1
      <3> HIDE DEF r
      <3>4. r.used >= promo[p].used \/ p \in overwrote'
        BY <1>2, <2>1, <3>2
      <3> QED
        BY <1>1, <1>3, <2>1, <2>2, <3>2, <3>3, <3>4
    <2>4. CASE ~promo[p].exists
      <3>1. promo' = [promo EXCEPT ![p] = promo[p]]
        BY <1>5, <2>4 DEF EditWrites, PromoInv, PromoTypeOK
      <3> DEFINE r == promo[p]
      <3>2. r \in PromoRows /\ r.used >= promo[p].used
        BY <1>2
      <3>3. overwrote' \in {overwrote, overwrote \cup {p}}
        BY <2>1
      <3>4. promo' = [promo EXCEPT ![p] = r]
        BY <3>1
      <3> HIDE DEF r
      <3>5. PromoInv'
        BY <1>3, <2>1, <2>2, <3>2, <3>3, <3>4
      <3> QED
        BY <1>1, <3>5
    <2> QED
      BY <2>3, <2>4
  <1>6. CASE DeletePromo(p)
    <2> DEFINE r == [promo[p] EXCEPT !.exists = FALSE]
    <2>1. r \in PromoRows /\ r.used = promo[p].used
      BY <1>2 DEF PromoRows
    <2>2. promo' = [promo EXCEPT ![p] = r] /\ locked[p] = None /\ UNCHANGED <<edit, edits, overwrote>>
      BY <1>6 DEF DeletePromo, PromoInv, PromoTypeOK
    <2>3. edit' \in [Promos -> PromoRows \cup {None}] /\ edits' \in 0 .. MaxEdits
      BY <2>2 DEF PromoInv, PromoTypeOK
    <2>4. r.used >= promo[p].used /\ overwrote' \in {overwrote, overwrote \cup {p}}
      BY <1>2, <2>1, <2>2
    <2> HIDE DEF r
    <2>5. PromoInv'
      BY <1>3, <2>1, <2>2, <2>3, <2>4
    <2> QED
      BY <1>1, <2>5
  <1> QED
    BY <1>1, <1>4, <1>5, <1>6

LEMMA RefusePromoKeeps ==
  ASSUME PromoInv, NEW a \in Applicants, RefusePromo(a)
  PROVE  PromoInv' /\ UNCHANGED <<usages, balance>>
  <1>1. /\ applying' = [applying EXCEPT ![a] = "end"]
        /\ UNCHANGED <<promo, usages, locked, edit, edits, overwrote, balance>>
    BY DEF RefusePromo
  <1>2. PromoTypeOK'
    BY <1>1 DEF PromoInv, PromoTypeOK
  <1>3. Holds'
    BY <1>1, PromoAssumption DEF PromoInv, PromoTypeOK, Holds
  <1> QED
    BY <1>1, <1>2, <1>3 DEF PromoInv, UsesCounted, PromoUses

\* A step of promo codes uses one within its limit and credits its user, or
\* credits nobody.
LEMMA PromoKeeps ==
  ASSUME PromoInv, PromoNext
  PROVE  /\ PromoInv'
         /\ \/ UNCHANGED <<usages, balance>>
            \/ \E p \in Promos, u \in Users :
                 /\ Use(p, u) \notin usages /\ usages' = usages \cup {Use(p, u)}
                 /\ Credit(u, p)
         /\ \A q \in Promos : (PromoUses(q))' > PromoUses(q) =>
              \/ promo[q].max = 0 \/ (PromoUses(q))' <= promo[q].max \/ q \in overwrote
  <1>1. CASE \E a \in Applicants, p \in Promos : Apply(a, p)
    BY <1>1, ApplyKeeps
  <1>2. ASSUME PromoInv', UNCHANGED <<usages, balance>>
        PROVE  \A q \in Promos : ~((PromoUses(q))' > PromoUses(q))
    BY <1>2, PromoUsesFacts DEF PromoUses
  <1> QED
    BY <1>1, <1>2, CheckKeeps, RollbackKeeps, RefusePromoKeeps, PromoEditKeeps DEF PromoNext

LEMMA PromoStays ==
  ASSUME PromoInv, UNCHANGED promoVars
  PROVE  PromoInv' /\ UNCHANGED usages
  BY DEF promoVars, PromoInv, PromoTypeOK, Holds, UsesCounted, PromoUses

-----------------------------------------------------------------------------
(* RedeemCodes and SubscriptionTerms *)

\* The redemption whose transaction has marked a code is the only one, and the
\* code has not been used.
MarkedAlone ==
  \A r \in Redeemers : redeeming[r] = "marked" =>
    /\ Tries[r] \notin used
    /\ \A s \in Redeemers : redeeming[s] = "marked" /\ Tries[s] = Tries[r] => s = r

\* A transaction with a term code has read the subscription of its user, and
\* will write an end that is worth the days of the code.
ReadsBefore ==
  \A r \in Redeemers : redeeming[r] = "marked" /\ Tries[r] \in TermCodes =>
    /\ extending[r] \in Extensions
    /\ extending[r].user = Redeems[r]
    /\ extending[r].expiry >= Capped(extending[r].from + Days[Tries[r]])

RedeemInv == RedeemTypeOK /\ TermTypeOK /\ MarkedAlone /\ ReadsBefore

\* What a new end lies between.
LEMMA EndBounds ==
  ASSUME NEW day \in Int, day > 0
  PROVE  Capped(day) \in 0 .. MaxExpiresAt /\ Capped(day) <= day
  BY TermAssumption DEF Capped

LEMMA ReadEnd ==
  ASSUME TermTypeOK, NEW u \in Subscribers, NEW days \in Int,
         days > 0 \/ EndAfter(term[u], days) > today
  PROVE  /\ EndAfter(term[u], days) \in 0 .. MaxExpiresAt
         /\ EndAfter(term[u], days) >= Capped(today + days)
  <1>1. /\ term[u] \in Rows /\ term[u].expiry \in 0 .. MaxExpiresAt
        /\ today \in Nat /\ MaxExpiresAt \in Nat
    BY TermAssumption DEF TermTypeOK, Rows
  <1> DEFINE base == IF Live(term[u]) /\ term[u].expiry > today THEN term[u].expiry ELSE today
  <1>2. base \in Nat /\ base >= today
    BY <1>1
  <1>3. EndAfter(term[u], days) = Capped(base + days)
    BY DEF EndAfter
  <1> HIDE DEF base
  <1>4. Capped(base + days) >= Capped(today + days)
    BY <1>1, <1>2 DEF Capped
  <1>5. Capped(base + days) \in 0 .. MaxExpiresAt
    <2>1. CASE days > 0
      BY <1>1, <1>2, <2>1 DEF Capped
    <2>2. CASE Capped(base + days) > today
      BY <1>1, <1>2, <2>2 DEF Capped
    <2> QED
      BY <1>3, <2>1, <2>2
  <1> QED
    BY <1>3, <1>4, <1>5

\* The extension that is read is the row's, and worth the days.
LEMMA ReadsTermFacts ==
  ASSUME TermTypeOK, NEW w \in Redeemers \cup Admins, NEW u \in Subscribers, NEW days \in Int,
         days > 0 \/ EndAfter(term[u], days) > today, ReadsTerm(w, u, days)
  PROVE  /\ extending' \in [Redeemers \cup Admins -> Extensions \cup {NoTerm}]
         /\ extending'[w] \in Extensions
         /\ extending'[w].user = u /\ extending'[w].from = today
         /\ extending'[w].expiry >= Capped(extending'[w].from + days)
         /\ \A v \in (Redeemers \cup Admins) \ {w} : extending'[v] = extending[v]
  <1> DEFINE x == [user |-> u, row |-> term[u].row, status |-> term[u].status, from |-> today,
                   expiry |-> EndAfter(term[u], days), ended |-> FALSE]
  <1>1. term[u] \in Rows /\ today \in 0 .. MaxDay
    BY DEF TermTypeOK
  <1>2. EndAfter(term[u], days) \in 0 .. MaxExpiresAt
    BY ReadEnd
  <1>3. x \in Extensions /\ x.user = u /\ x.from = today /\ x.expiry = EndAfter(term[u], days)
    BY <1>1, <1>2 DEF Rows, Extensions
  <1>4. x.expiry >= Capped(x.from + days)
    BY <1>3, ReadEnd
  <1>5. extending' = [extending EXCEPT ![w] = x]
    BY DEF ReadsTerm
  <1> HIDE DEF x
  <1> QED
    BY <1>3, <1>4, <1>5 DEF TermTypeOK

\* Who is forgotten is forgotten, and nobody else.
LEMMA ForgetFacts ==
  ASSUME TermTypeOK, NEW w \in Redeemers \cup Admins, extending' = [extending EXCEPT ![w] = NoTerm]
  PROVE  /\ extending' \in [Redeemers \cup Admins -> Extensions \cup {NoTerm}]
         /\ \A v \in (Redeemers \cup Admins) \ {w} : extending'[v] = extending[v]
  BY DEF TermTypeOK

\* The end of a term is written over: the row keeps its number.
LEMMA NewEnd ==
  ASSUME TermTypeOK, NEW u \in Subscribers, NEW e \in 0 .. MaxExpiresAt,
         NEW s \in {"none", "active", "expired", "revoked"},
         term' = [term EXCEPT ![u].expiry = e, ![u].status = s]
  PROVE  /\ term' \in [Subscribers -> Rows]
         /\ term'[u].expiry = e /\ term'[u].status = s
         /\ \A v \in Subscribers \ {u} : term'[v] = term[v]
  <1> DEFINE r == [term[u] EXCEPT !.expiry = e, !.status = s]
  <1>1. term \in [Subscribers -> Rows] /\ term[u] \in Rows
    BY DEF TermTypeOK
  <1>2. r \in Rows /\ r.expiry = e /\ r.status = s
    BY <1>1 DEF Rows
  <1>3. term' = [term EXCEPT ![u] = r]
    BY <1>1
  <1> HIDE DEF r
  <1> QED
    BY <1>1, <1>2, <1>3

LEMMA NewStatus ==
  ASSUME TermTypeOK, NEW u \in Subscribers,
         NEW s \in {"none", "active", "expired", "revoked"},
         term' = [term EXCEPT ![u].status = s]
  PROVE  /\ term' \in [Subscribers -> Rows]
         /\ term'[u].expiry = term[u].expiry /\ term'[u].status = s
         /\ \A v \in Subscribers \ {u} : term'[v] = term[v]
  <1> DEFINE r == [term[u] EXCEPT !.status = s]
  <1>1. term \in [Subscribers -> Rows] /\ term[u] \in Rows
    BY DEF TermTypeOK
  <1>2. r \in Rows /\ r.expiry = term[u].expiry /\ r.status = s
    BY <1>1 DEF Rows
  <1>3. term' = [term EXCEPT ![u] = r]
    BY <1>1
  <1> HIDE DEF r
  <1> QED
    BY <1>1, <1>2, <1>3

\* A new row is active.
LEMMA NewRow ==
  ASSUME TermTypeOK, NEW u \in Subscribers, NEW e \in 0 .. MaxExpiresAt,
         term[u].row < MaxRows, term' = [term EXCEPT ![u] = NextRow(u, e)]
  PROVE  /\ term' \in [Subscribers -> Rows]
         /\ term'[u].expiry = e /\ term'[u].status = "active"
         /\ \A v \in Subscribers \ {u} : term'[v] = term[v]
  <1>1. term \in [Subscribers -> Rows] /\ term[u] \in Rows /\ term[u].row \in 0 .. MaxRows
    BY DEF TermTypeOK, Rows
  <1>2. /\ NextRow(u, e) \in Rows /\ NextRow(u, e).expiry = e
        /\ NextRow(u, e).status = "active"
    BY <1>1, TermAssumption DEF NextRow, Rows
  <1> QED
    BY <1>1, <1>2

\* Somebody holds an older reading of the user's row, or an administrator is
\* between the two statements that extend an expired one.
Overlapped(u) ==
  \/ \E w \in Redeemers \cup Admins :
       /\ extending[w] # NoTerm
       /\ extending[w].user = u
       /\ \/ extending[w].status # term[u].status
          \/ w \in Admins /\ extending[w].status = "expired"
  \/ checking[u] # NoTerm /\ checking[u].expiry < term[u].expiry

LostByOverlap == \A u \in Subscribers : LostTerm(u)' /\ ~LostTerm(u) => Overlapped(u)

\* What every step about terms keeps that is not a redemption.
TermKept ==
  /\ TermTypeOK'
  /\ LostByOverlap
  /\ \A r \in Redeemers : extending'[r] = extending[r]

LEMMA RowFacts ==
  ASSUME TermTypeOK, NEW u \in Subscribers
  PROVE  /\ term[u] \in Rows /\ term[u].row \in 0 .. MaxRows
         /\ term[u].expiry \in 0 .. MaxExpiresAt /\ term[u].expiry \in Nat
         /\ term[u].status \in {"none", "active", "expired", "revoked"}
         /\ today \in Nat /\ today \in 0 .. MaxDay
  BY TermAssumption DEF TermTypeOK, Rows

\* Only the user's term has changed, and it is not lost.
LEMMA OnlyOneLost ==
  ASSUME NEW u \in Subscribers, UNCHANGED today,
         \A v \in Subscribers \ {u} : term'[v] = term[v],
         LostTerm(u)' /\ ~LostTerm(u) => Overlapped(u)
  PROVE  LostByOverlap
  <1> SUFFICES ASSUME NEW v \in Subscribers, LostTerm(v)', ~LostTerm(v)
               PROVE  Overlapped(v)
    BY DEF LostByOverlap
  <1>1. CASE v = u
    BY <1>1
  <1>2. CASE v # u
    BY <1>2 DEF LostTerm
  <1> QED
    BY <1>1, <1>2

LEMMA AssignKeeps ==
  ASSUME TermTypeOK, RedeemAssumption, NEW u \in Subscribers, NEW d \in AssignDays, Assign(u, d)
  PROVE  TermKept
  <1>1. /\ term[u].row < MaxRows /\ UNCHANGED <<today, extending, checking>>
        /\ term' = [term EXCEPT ![u] = NextRow(u, Capped(today + d))]
    BY DEF Assign
  <1>2. Capped(today + d) \in 0 .. MaxExpiresAt
    <2>1. d \in Nat \ {0} /\ today \in Nat
      BY RowFacts DEF RedeemAssumption
    <2> QED
      BY <2>1, EndBounds
  <1>3. /\ term' \in [Subscribers -> Rows] /\ term'[u].status = "active"
        /\ \A v \in Subscribers \ {u} : term'[v] = term[v]
    BY <1>1, <1>2, NewRow
  <1>4. ~LostTerm(u)'
    BY <1>3 DEF LostTerm
  <1> QED
    BY <1>1, <1>3, <1>4, OnlyOneLost DEF TermKept, TermTypeOK

LEMMA RevokeKeeps ==
  ASSUME TermTypeOK, NEW u \in Subscribers, Revoke(u)
  PROVE  TermKept
  <1>1. /\ UNCHANGED <<today, extending, checking>>
        /\ term' = [term EXCEPT ![u].status = "revoked"]
    BY DEF Revoke
  <1>2. /\ term' \in [Subscribers -> Rows] /\ term'[u].status = "revoked"
        /\ \A v \in Subscribers \ {u} : term'[v] = term[v]
    BY <1>1, NewStatus
  <1>3. ~LostTerm(u)'
    BY <1>2 DEF LostTerm
  <1> QED
    BY <1>1, <1>2, <1>3, OnlyOneLost DEF TermKept, TermTypeOK

LEMMA CheckReadsKeeps ==
  ASSUME TermTypeOK, NEW u \in Subscribers, CheckReads(u)
  PROVE  TermKept
  <1>1. UNCHANGED <<term, today, extending>> /\ checking' = [checking EXCEPT ![u] = term[u]]
    BY DEF CheckReads
  <1>2. checking' \in [Subscribers -> Rows \cup {NoTerm}]
    BY <1>1, RowFacts DEF TermTypeOK
  <1> QED
    BY <1>1, <1>2 DEF TermKept, TermTypeOK, LostByOverlap, LostTerm

\* A request that marks a term that runs has read an end that has passed.
LEMMA ValidateKeeps ==
  ASSUME TermTypeOK, NEW u \in Subscribers, Validate(u)
  PROVE  TermKept
  <1>1. /\ checking[u] # NoTerm /\ UNCHANGED <<today, extending>>
        /\ checking' = [checking EXCEPT ![u] = NoTerm]
        /\ \/ UNCHANGED term
           \/ today > checking[u].expiry /\ term' = [term EXCEPT ![u].status = "expired"]
    BY DEF Validate
  <1>2. checking' \in [Subscribers -> Rows \cup {NoTerm}]
    BY <1>1 DEF TermTypeOK
  <1>3. CASE UNCHANGED term
    BY <1>1, <1>2, <1>3 DEF TermKept, TermTypeOK, LostByOverlap, LostTerm
  <1>4. CASE today > checking[u].expiry /\ term' = [term EXCEPT ![u].status = "expired"]
    <2>1. /\ term' \in [Subscribers -> Rows] /\ term'[u].expiry = term[u].expiry
          /\ \A v \in Subscribers \ {u} : term'[v] = term[v]
      BY <1>4, NewStatus
    <2>2. LostTerm(u)' => Overlapped(u)
      <3> SUFFICES ASSUME LostTerm(u)'
                   PROVE  checking[u].expiry < term[u].expiry
        BY <1>1 DEF Overlapped
      <3>1. checking[u].expiry \in Nat
        BY <1>1, TermAssumption DEF TermTypeOK, Rows
      <3> QED
        BY <1>1, <1>4, <2>1, <3>1, RowFacts DEF LostTerm
    <2> QED
      BY <1>1, <1>2, <2>1, <2>2, OnlyOneLost DEF TermKept, TermTypeOK
  <1> QED
    BY <1>1, <1>3, <1>4

LEMMA AdjustReadsKeeps ==
  ASSUME TermTypeOK, TermAssumption, RedeemAssumption,
         NEW w \in Admins, NEW u \in Subscribers, NEW d \in AdjustDays, AdjustReads(w, u, d)
  PROVE  TermKept
  <1>1. /\ UNCHANGED <<term, today, checking>> /\ EndAfter(term[u], d) > today
        /\ ReadsTerm(w, u, d) /\ d \in Int
    BY DEF AdjustReads, RedeemAssumption
  <1>2. /\ extending' \in [Redeemers \cup Admins -> Extensions \cup {NoTerm}]
        /\ \A v \in (Redeemers \cup Admins) \ {w} : extending'[v] = extending[v]
    BY <1>1, ReadsTermFacts
  <1>3. w \notin Redeemers
    BY DEF TermAssumption
  <1> QED
    BY <1>1, <1>2, <1>3 DEF TermKept, TermTypeOK, LostByOverlap, LostTerm

\* What an administrator's extension holds when a step of it writes.
LEMMA AdjustFacts ==
  ASSUME TermTypeOK, NEW w \in Admins, extending[w] # NoTerm
  PROVE  /\ extending[w] \in Extensions
         /\ extending[w].user \in Subscribers
         /\ extending[w].expiry \in 0 .. MaxExpiresAt
         /\ extending[w].status \in {"none", "active", "expired", "revoked"}
         /\ w \notin Redeemers
  BY TermAssumption DEF TermTypeOK, Extensions

LEMMA AdjustEndKeeps ==
  ASSUME TermTypeOK, NEW w \in Admins, AdjustEnd(w)
  PROVE  TermKept
  <1> DEFINE x == extending[w]
             y == IF x.status = "expired" THEN [x EXCEPT !.ended = TRUE] ELSE NoTerm
  <1>1. /\ x # NoTerm /\ Live(term[x.user]) /\ UNCHANGED <<today, checking>>
        /\ term' = [term EXCEPT ![x.user].expiry = x.expiry]
        /\ extending' = [extending EXCEPT ![w] = y]
    BY DEF AdjustEnd, SameRow
  <1>2. /\ x \in Extensions /\ x.user \in Subscribers /\ w \notin Redeemers
        /\ x.expiry \in 0 .. MaxExpiresAt
    BY <1>1, AdjustFacts
  <1>3. y \in Extensions \cup {NoTerm}
    BY <1>2 DEF Extensions
  <1>4. PICK u \in Subscribers : u = x.user
    BY <1>2
  <1>5. term' = [term EXCEPT ![u].expiry = x.expiry, ![u].status = term[u].status]
    <2>1. term \in [Subscribers -> Rows] /\ term[u] \in Rows
      BY <1>2 DEF TermTypeOK
    <2>2. [term[u] EXCEPT !.expiry = x.expiry] =
            [term[u] EXCEPT !.expiry = x.expiry, !.status = term[u].status]
      BY <2>1 DEF Rows
    <2> QED
      BY <1>1, <1>4, <2>1, <2>2
  <1>6. /\ extending' \in [Redeemers \cup Admins -> Extensions \cup {NoTerm}]
        /\ \A v \in Redeemers : extending'[v] = extending[v]
    <2> HIDE DEF y
    <2> QED
      BY <1>1, <1>2, <1>3 DEF TermTypeOK
  <1>7. /\ term' \in [Subscribers -> Rows]
        /\ term'[u].status = term[u].status
        /\ \A v \in Subscribers \ {u} : term'[v] = term[v]
    BY <1>2, <1>5, NewEnd, RowFacts
  <1>8. LostTerm(u)' => Overlapped(u)
    <2>1. w \in Redeemers \cup Admins
      OBVIOUS
    <2>2. CASE x.status = "expired"
      BY <1>1, <1>4, <2>2 DEF Overlapped
    <2>3. CASE x.status # "expired"
      BY <1>1, <1>4, <1>7, <2>1, <2>3 DEF Overlapped, LostTerm
    <2> QED
      BY <2>2, <2>3
  <1>9. LostByOverlap
    BY <1>1, <1>7, <1>8, OnlyOneLost
  <1> QED
    BY <1>1, <1>6, <1>7, <1>9 DEF TermKept, TermTypeOK

LEMMA AdjustStatusKeeps ==
  ASSUME TermTypeOK, NEW w \in Admins, AdjustStatus(w)
  PROVE  TermKept
  <1>1. /\ extending[w] # NoTerm /\ UNCHANGED <<today, checking>>
        /\ term' = [term EXCEPT ![extending[w].user].status = "active"]
        /\ extending' = [extending EXCEPT ![w] = NoTerm]
    BY DEF AdjustStatus
  <1>2. extending[w].user \in Subscribers /\ w \notin Redeemers
    BY <1>1, AdjustFacts
  <1>3. /\ extending' \in [Redeemers \cup Admins -> Extensions \cup {NoTerm}]
        /\ \A v \in Redeemers : extending'[v] = extending[v]
    BY <1>1, <1>2, ForgetFacts
  <1>4. PICK u \in Subscribers : u = extending[w].user
    BY <1>2
  <1>5. /\ term' \in [Subscribers -> Rows] /\ term'[u].status = "active"
        /\ \A v \in Subscribers \ {u} : term'[v] = term[v]
    BY <1>1, <1>4, NewStatus
  <1>6. ~LostTerm(u)'
    BY <1>5 DEF LostTerm
  <1>7. LostByOverlap
    BY <1>1, <1>5, <1>6, OnlyOneLost
  <1> QED
    BY <1>1, <1>3, <1>5, <1>7 DEF TermKept, TermTypeOK

LEMMA AdjustStopsKeeps ==
  ASSUME TermTypeOK, NEW w \in Admins, AdjustStops(w)
  PROVE  TermKept
  <1>1. /\ UNCHANGED <<term, today, checking>> /\ w \notin Redeemers
        /\ extending' = [extending EXCEPT ![w] = NoTerm]
    BY TermAssumption DEF AdjustStops
  <1>2. /\ extending' \in [Redeemers \cup Admins -> Extensions \cup {NoTerm}]
        /\ \A v \in Redeemers : extending'[v] = extending[v]
    BY <1>1, ForgetFacts
  <1> QED
    BY <1>1, <1>2 DEF TermKept, TermTypeOK, LostByOverlap, LostTerm

LEMMA SweepKeeps ==
  ASSUME TermTypeOK, Sweep
  PROVE  TermKept
  <1>1. UNCHANGED <<today, extending, checking>>
    BY DEF Sweep
  <1>2. ASSUME NEW u \in Subscribers
        PROVE  term'[u] \in Rows /\ (LostTerm(u)' => LostTerm(u))
    <2> DEFINE r == [term[u] EXCEPT !.status = "expired"]
    <2>1. r \in Rows /\ r.expiry = term[u].expiry
      BY RowFacts DEF Rows
    <2>2. term'[u] = IF term[u].status = "active" /\ term[u].expiry <= today THEN r ELSE term[u]
      BY DEF Sweep
    <2> HIDE DEF r
    <2> QED
      BY <1>1, <2>1, <2>2, RowFacts DEF LostTerm
  <1>3. term' \in [Subscribers -> Rows]
    <2>1. term' = [u \in Subscribers |-> term'[u]]
      BY DEF Sweep
    <2> QED
      BY <1>2, <2>1
  <1> QED
    BY <1>1, <1>2, <1>3 DEF TermKept, TermTypeOK, LostByOverlap

LEMMA NextDayKeeps ==
  ASSUME TermTypeOK, NextDay
  PROVE  TermKept
  <1>1. /\ today < MaxDay /\ today' = today + 1
        /\ UNCHANGED <<term, extending, checking>>
    BY DEF NextDay
  <1>2. today' \in 0 .. MaxDay
    BY <1>1, TermAssumption DEF TermTypeOK
  <1>3. ASSUME NEW u \in Subscribers, LostTerm(u)'
        PROVE  LostTerm(u)
    BY <1>1, <1>3, RowFacts DEF LostTerm
  <1> QED
    BY <1>1, <1>2, <1>3 DEF TermKept, TermTypeOK, LostByOverlap

LEMMA TermStepKeeps ==
  ASSUME TermTypeOK, TermStep
  PROVE  TermKept
  <1>1. CASE \E u \in Subscribers : Revoke(u) \/ CheckReads(u) \/ Validate(u)
    BY <1>1, RevokeKeeps, CheckReadsKeeps, ValidateKeeps
  <1>2. CASE \E u \in Subscribers, d \in AssignDays : Assign(u, d)
    BY <1>2, AssignKeeps, RedeemAssumption
  <1>3. CASE \E w \in Admins, u \in Subscribers, d \in AdjustDays : AdjustReads(w, u, d)
    BY <1>3, AdjustReadsKeeps, RedeemAssumption, TermAssumption
  <1>4. CASE \E w \in Admins : AdjustEnd(w) \/ AdjustStatus(w) \/ AdjustStops(w)
    BY <1>4, AdjustEndKeeps, AdjustStatusKeeps, AdjustStopsKeeps
  <1> QED
    BY <1>1, <1>2, <1>3, <1>4, SweepKeeps, NextDayKeeps DEF TermStep

\* A term code that has been used up has given its user a live subscription.
UsedGrants ==
  \A c \in TermCodes : c \in used' \ used =>
    \E r \in Redeemers :
      /\ Tries[r] = c /\ redeeming[r] = "marked"
      /\ Live(term[Redeems[r]]')
      /\ term[Redeems[r]]'.expiry >= Capped(extending[r].from + Days[c])

\* The balance code that has been used up has credited its user.
CodeCredits ==
  \/ used' \cap BalanceCodes = used \cap BalanceCodes /\ UNCHANGED balance
  \/ \E r \in Redeemers :
       /\ Tries[r] \in BalanceCodes \ used
       /\ used' \cap BalanceCodes = (used \cap BalanceCodes) \cup {Tries[r]}
       /\ Credit(Redeems[r], Tries[r])

\* What every step of a redemption keeps.
CodeKept ==
  /\ RedeemInv'
  /\ LostByOverlap
  /\ UsedGrants
  /\ CodeCredits

LEMMA RedeemStepFacts ==
  ASSUME RedeemTypeOK, NEW r \in Redeemers, NEW from, NEW to \in RedeemStates, RedeemStep(r, from, to)
  PROVE  /\ redeeming[r] = from /\ redeeming'[r] = to
         /\ redeeming' \in [Redeemers -> RedeemStates]
         /\ \A s \in Redeemers \ {r} : redeeming'[s] = redeeming[s]
  BY DEF RedeemStep, RedeemTypeOK

LEMMA LockTyped ==
  ASSUME RedeemTypeOK, NEW c \in Codes,
         lock' \in {lock, lock \cup {c}, lock \ {c}}
  PROVE  lock' \subseteq Codes
  BY DEF RedeemTypeOK

\* A step that marks nothing, uses nothing and leaves the terms alone.
LEMMA NothingMarked ==
  ASSUME RedeemInv, RedeemTypeOK', UNCHANGED <<used, termVars, balance>>,
         \A r \in Redeemers : redeeming'[r] = "marked" => redeeming[r] = "marked"
  PROVE  CodeKept
  <1>1. TermTypeOK' /\ MarkedAlone' /\ ReadsBefore'
    BY DEF RedeemInv, TermTypeOK, MarkedAlone, ReadsBefore, termVars
  <1>2. LostByOverlap
    BY DEF LostByOverlap, LostTerm, termVars
  <1>3. UsedGrants /\ CodeCredits
    BY DEF UsedGrants, CodeCredits
  <1> QED
    BY <1>1, <1>2, <1>3 DEF CodeKept, RedeemInv

LEMMA BeforeMarkKeeps ==
  ASSUME RedeemInv, NEW r \in Redeemers,
         AcquireLock(r) \/ LockBusy(r) \/ ReadCode(r) \/ RefuseCode(r)
  PROVE  CodeKept
  <1>1. /\ \E from, to \in {"start", "locked", "read", "end"} : RedeemStep(r, from, to)
        /\ lock' \in {lock, lock \cup {Tries[r]}, lock \ {Tries[r]}}
        /\ UNCHANGED <<used, deleted, deleting, termVars, balance>>
    BY DEF AcquireLock, LockBusy, ReadCode, RefuseCode, Release
  <1>2. PICK from, to \in {"start", "locked", "read", "end"} : RedeemStep(r, from, to)
    BY <1>1
  <1>3. /\ redeeming' \in [Redeemers -> RedeemStates] /\ redeeming'[r] # "marked"
        /\ \A s \in Redeemers \ {r} : redeeming'[s] = redeeming[s]
    <2>1. to \in RedeemStates /\ to # "marked"
      BY DEF RedeemStates
    <2> QED
      BY <1>2, <2>1, RedeemStepFacts DEF RedeemInv
  <1>4. lock' \subseteq Codes
    BY <1>1, LockTyped, RedeemAssumption DEF RedeemInv
  <1>5. RedeemTypeOK'
    BY <1>1, <1>3, <1>4 DEF RedeemInv, RedeemTypeOK
  <1> QED
    BY <1>1, <1>3, <1>5, NothingMarked

LEMMA CodeRowKeeps ==
  ASSUME RedeemInv, NEW c \in Codes, LockExpires(c) \/ DeleteReads(c) \/ DeleteCode(c)
  PROVE  CodeKept
  <1>1. /\ UNCHANGED <<used, redeeming, termVars, balance>>
        /\ lock' \in {lock, lock \ {c}}
        /\ deleted' \in {deleted, deleted \cup {c}}
        /\ deleting' \in {deleting, deleting \cup {c}, deleting \ {c}}
    BY DEF LockExpires, DeleteReads, DeleteCode
  <1>2. RedeemTypeOK'
    BY <1>1 DEF RedeemInv, RedeemTypeOK
  <1> QED
    BY <1>1, <1>2, NothingMarked

\* Nobody else has marked the code, and a term code's extension is read.
LEMMA MarkUsedKeeps ==
  ASSUME RedeemInv, NEW r \in Redeemers, MarkUsed(r)
  PROVE  CodeKept
  <1> DEFINE c == Tries[r]
  <1>1. /\ RedeemStep(r, "read", "marked") /\ c \notin used
        /\ \A s \in Redeemers : Tries[s] = c => redeeming[s] # "marked"
        /\ UNCHANGED <<used, deleted, lock, deleting, term, today, checking, balance>>
    BY DEF MarkUsed, Unused, Marked
  <1>2. /\ redeeming[r] = "read" /\ redeeming'[r] = "marked"
        /\ redeeming' \in [Redeemers -> RedeemStates]
        /\ \A s \in Redeemers \ {r} : redeeming'[s] = redeeming[s]
    BY <1>1, RedeemStepFacts DEF RedeemInv, RedeemStates
  <1>3. RedeemTypeOK'
    BY <1>1, <1>2 DEF RedeemInv, RedeemTypeOK
  <1>4. MarkedAlone'
    <2> SUFFICES ASSUME NEW s \in Redeemers, redeeming'[s] = "marked"
                 PROVE  /\ Tries[s] \notin used
                        /\ \A x \in Redeemers : redeeming'[x] = "marked" /\ Tries[x] = Tries[s] => x = s
      BY <1>1 DEF MarkedAlone
    <2>1. CASE s = r
      BY <1>1, <1>2, <2>1
    <2>2. CASE s # r
      <3>1. redeeming[s] = "marked" /\ Tries[s] # c
        BY <1>1, <1>2, <2>2
      <3> QED
        BY <1>1, <1>2, <3>1 DEF RedeemInv, MarkedAlone
    <2> QED
      BY <2>1, <2>2
  <1>5. /\ extending' \in [Redeemers \cup Admins -> Extensions \cup {NoTerm}]
        /\ \A s \in Redeemers \ {r} : extending'[s] = extending[s]
        /\ c \in TermCodes =>
             /\ extending'[r] \in Extensions
             /\ extending'[r].user = Redeems[r]
             /\ extending'[r].expiry >= Capped(extending'[r].from + Days[c])
    <2>1. CASE c \in TermCodes
      <3>1. ReadsTerm(r, Redeems[r], Days[c])
        BY <2>1 DEF MarkUsed
      <3>2. Redeems[r] \in Subscribers /\ Days[c] \in Int /\ Days[c] > 0
        BY <2>1, RedeemAssumption
      <3> HIDE DEF c
      <3> QED
        BY <3>1, <3>2, ReadsTermFacts DEF RedeemInv
    <2>2. CASE c \notin TermCodes
      <3>1. UNCHANGED extending
        BY <2>2 DEF MarkUsed
      <3> QED
        BY <2>2, <3>1 DEF RedeemInv, TermTypeOK
    <2> QED
      BY <2>1, <2>2
  <1>6. TermTypeOK'
    BY <1>1, <1>5 DEF RedeemInv, TermTypeOK
  <1>7. ReadsBefore'
    <2> SUFFICES ASSUME NEW s \in Redeemers, redeeming'[s] = "marked", Tries[s] \in TermCodes
                 PROVE  /\ extending'[s] \in Extensions
                        /\ extending'[s].user = Redeems[s]
                        /\ extending'[s].expiry >= Capped(extending'[s].from + Days[Tries[s]])
      BY DEF ReadsBefore
    <2>1. CASE s = r
      BY <1>5, <2>1
    <2>2. CASE s # r
      BY <1>2, <1>5, <2>2 DEF RedeemInv, ReadsBefore
    <2> QED
      BY <2>1, <2>2
  <1>8. LostByOverlap
    BY <1>1 DEF LostByOverlap, LostTerm
  <1>9. UsedGrants /\ CodeCredits
    BY <1>1 DEF UsedGrants, CodeCredits
  <1> QED
    BY <1>3, <1>4, <1>6, <1>7, <1>8, <1>9 DEF CodeKept, RedeemInv

\* A transaction ends: the redemption has marked the code no more.
LEMMA EndTransactionKeeps ==
  ASSUME RedeemInv, NEW r \in Redeemers, EndTransaction(r),
         used' \in {used, used \cup {Tries[r]}}, term' \in [Subscribers -> Rows]
  PROVE  RedeemInv' /\ redeeming[r] = "marked"
  <1>1. /\ RedeemStep(r, "marked", "end")
        /\ extending' = [extending EXCEPT ![r] = NoTerm]
        /\ lock' \in {lock, lock \ {Tries[r]}}
        /\ UNCHANGED <<deleted, deleting, today, checking>>
    BY DEF EndTransaction, Release
  <1>2. /\ redeeming[r] = "marked" /\ redeeming'[r] = "end"
        /\ redeeming' \in [Redeemers -> RedeemStates]
        /\ \A s \in Redeemers \ {r} : redeeming'[s] = redeeming[s]
    BY <1>1, RedeemStepFacts DEF RedeemInv, RedeemStates
  <1>3. /\ extending' \in [Redeemers \cup Admins -> Extensions \cup {NoTerm}]
        /\ \A s \in Redeemers \ {r} : extending'[s] = extending[s]
    BY <1>1, ForgetFacts DEF RedeemInv
  <1>4. Tries[r] \in Codes
    BY RedeemAssumption
  <1>5. RedeemTypeOK'
    BY <1>1, <1>2, <1>4 DEF RedeemInv, RedeemTypeOK
  <1>6. TermTypeOK'
    BY <1>1, <1>3 DEF RedeemInv, TermTypeOK
  <1>7. MarkedAlone'
    <2> SUFFICES ASSUME NEW s \in Redeemers, redeeming'[s] = "marked"
                 PROVE  /\ Tries[s] \notin used'
                        /\ \A x \in Redeemers : redeeming'[x] = "marked" /\ Tries[x] = Tries[s] => x = s
      BY DEF MarkedAlone
    <2>1. s # r /\ redeeming[s] = "marked"
      BY <1>2
    <2>2. Tries[s] # Tries[r] /\ Tries[s] \notin used
      BY <1>2, <2>1 DEF RedeemInv, MarkedAlone
    <2> QED
      BY <1>2, <2>1, <2>2 DEF RedeemInv, MarkedAlone
  <1>8. ReadsBefore'
    BY <1>2, <1>3 DEF RedeemInv, ReadsBefore
  <1> QED
    BY <1>2, <1>5, <1>6, <1>7, <1>8 DEF RedeemInv

LEMMA CommitBalanceKeeps ==
  ASSUME RedeemInv, NEW r \in Redeemers, CommitBalance(r)
  PROVE  CodeKept
  <1>1. /\ Tries[r] \in BalanceCodes /\ EndTransaction(r)
        /\ used' = used \cup {Tries[r]}
        /\ Credit(Redeems[r], Tries[r])
        /\ UNCHANGED <<term, today>>
    BY DEF CommitBalance, EndTransaction
  <1>2. RedeemInv' /\ redeeming[r] = "marked"
    BY <1>1, EndTransactionKeeps DEF RedeemInv, TermTypeOK
  <1>3. LostByOverlap
    BY <1>1 DEF LostByOverlap, LostTerm
  <1>4. UsedGrants
    BY <1>1, RedeemAssumption DEF UsedGrants
  <1>5. CodeCredits
    <2>1. Tries[r] \notin used
      BY <1>2 DEF RedeemInv, MarkedAlone
    <2> QED
      BY <1>1, <2>1 DEF CodeCredits
  <1> QED
    BY <1>2, <1>3, <1>4, <1>5 DEF CodeKept

LEMMA RollbackRedeemKeeps ==
  ASSUME RedeemInv, NEW r \in Redeemers, RollbackRedeem(r)
  PROVE  CodeKept
  <1>1. EndTransaction(r) /\ UNCHANGED <<used, term, today, balance>>
    BY DEF RollbackRedeem, EndTransaction
  <1>2. RedeemInv'
    BY <1>1, EndTransactionKeeps DEF RedeemInv, TermTypeOK
  <1>3. LostByOverlap
    BY <1>1 DEF LostByOverlap, LostTerm
  <1> QED
    BY <1>1, <1>2, <1>3 DEF CodeKept, UsedGrants, CodeCredits

\* What an extension writes: the end it has read, and a live row, which has
\* lapsed only when it had lapsed since it was read.
LEMMA GrantsFacts ==
  ASSUME TermTypeOK, NEW x \in Extensions, NEW u \in Subscribers, x.user = u, Grants(x)
  PROVE  /\ term' \in [Subscribers -> Rows]
         /\ term'[u].expiry = x.expiry
         /\ \/ term'[u].status = "active"
            \/ term'[u].status = "expired" /\ x.status = "active" /\ term[u].status = "expired"
         /\ \A v \in Subscribers \ {u} : term'[v] = term[v]
  <1>1. x.expiry \in 0 .. MaxExpiresAt /\ x.status \in {"none", "active", "expired", "revoked"}
    BY DEF Extensions
  <1>2. CASE /\ Live(term[u])
             /\ term' = [term EXCEPT ![u].expiry = x.expiry, ![u].status = StatusAfter(x)]
    <2>1. /\ StatusAfter(x) \in {"none", "active", "expired", "revoked"}
          /\ StatusAfter(x) = IF x.status # "active" THEN "active" ELSE term[u].status
      BY <1>1, RowFacts DEF StatusAfter
    <2>2. PICK s \in {"none", "active", "expired", "revoked"}, e \in 0 .. MaxExpiresAt :
            s = StatusAfter(x) /\ e = x.expiry
      BY <1>1, <2>1
    <2>3. term' = [term EXCEPT ![u].expiry = e, ![u].status = s]
      BY <1>2, <2>2
    <2>4. /\ term' \in [Subscribers -> Rows]
          /\ term'[u].expiry = e /\ term'[u].status = s
          /\ \A v \in Subscribers \ {u} : term'[v] = term[v]
      <3> DEFINE r == [term[u] EXCEPT !.expiry = e, !.status = s]
      <3>1. term \in [Subscribers -> Rows] /\ term[u] \in Rows
        BY DEF TermTypeOK
      <3>2. r \in Rows /\ r.expiry = e /\ r.status = s
        BY <3>1 DEF Rows
      <3>3. term' = [term EXCEPT ![u] = r]
        BY <2>3, <3>1
      <3> HIDE DEF r
      <3> QED
        BY <3>1, <3>2, <3>3
    <2>5. term[u].status \in {"active", "expired"}
      BY <1>2 DEF Live
    <2> QED
      BY <2>1, <2>2, <2>4, <2>5
  <1>3. CASE term[u].row < MaxRows /\ term' = [term EXCEPT ![u] = NextRow(u, x.expiry)]
    BY <1>1, <1>3, NewRow
  <1> QED
    BY <1>2, <1>3 DEF Grants, SameRow

LEMMA CommitTermKeeps ==
  ASSUME RedeemInv, NEW r \in Redeemers, CommitTerm(r)
  PROVE  CodeKept
  <1>1. /\ Tries[r] \in TermCodes /\ EndTransaction(r)
        /\ used' = used \cup {Tries[r]}
        /\ Grants(extending[r])
        /\ UNCHANGED <<today, balance>>
    BY DEF CommitTerm, EndTransaction
  <1>2. redeeming[r] = "marked"
    BY <1>1, RedeemStepFacts DEF EndTransaction, RedeemInv, RedeemStates
  <1>3. PICK u \in Subscribers : u = Redeems[r]
    BY <1>1, RedeemAssumption
  <1>4. /\ extending[r] \in Extensions /\ extending[r].user = u
        /\ extending[r].expiry >= Capped(extending[r].from + Days[Tries[r]])
    BY <1>1, <1>2, <1>3 DEF RedeemInv, ReadsBefore
  <1>5. /\ term' \in [Subscribers -> Rows]
        /\ term'[u].expiry = extending[r].expiry
        /\ \/ term'[u].status = "active"
           \/ /\ term'[u].status = "expired"
              /\ extending[r].status = "active" /\ term[u].status = "expired"
        /\ \A v \in Subscribers \ {u} : term'[v] = term[v]
    BY <1>1, <1>4, GrantsFacts DEF RedeemInv
  <1>6. RedeemInv'
    BY <1>1, <1>5, EndTransactionKeeps
  <1>7. LostTerm(u)' => Overlapped(u)
    <2> SUFFICES ASSUME LostTerm(u)'
                 PROVE  Overlapped(u)
      OBVIOUS
    <2>1. extending[r].status # term[u].status
      BY <1>5 DEF LostTerm
    <2>2. extending[r] # NoTerm /\ r \in Redeemers \cup Admins
      BY <1>4, TermAssumption
    <2> QED
      BY <1>4, <2>1, <2>2 DEF Overlapped
  <1>8. LostByOverlap
    BY <1>1, <1>5, <1>7, OnlyOneLost
  <1>9. UsedGrants
    <2> SUFFICES ASSUME NEW c \in TermCodes, c \in used' \ used
                 PROVE  /\ Tries[r] = c /\ redeeming[r] = "marked"
                        /\ Live(term[Redeems[r]]')
                        /\ term[Redeems[r]]'.expiry >= Capped(extending[r].from + Days[c])
      BY DEF UsedGrants
    <2>1. Tries[r] = c
      BY <1>1
    <2>2. Live(term'[u])
      BY <1>5 DEF Live
    <2> QED
      BY <1>2, <1>3, <1>4, <1>5, <2>1, <2>2
  <1>10. CodeCredits
    BY <1>1, RedeemAssumption DEF CodeCredits
  <1> QED
    BY <1>6, <1>8, <1>9, <1>10 DEF CodeKept

\* A step of a redemption, or of whatever else happens to the subscriptions.
LEMMA RedeemKeeps ==
  ASSUME RedeemInv, RedeemNext
  PROVE  CodeKept
  <1>1. CASE CodeStep
    BY <1>1, BeforeMarkKeeps, CodeRowKeeps, MarkUsedKeeps, CommitBalanceKeeps, CommitTermKeeps,
       RollbackRedeemKeeps DEF CodeStep, Redeem
  <1>2. CASE TermStep /\ UNCHANGED <<codeVars, balance>>
    <2>1. TermKept
      BY <1>2, TermStepKeeps DEF RedeemInv
    <2>2. RedeemTypeOK'
      BY <1>2 DEF RedeemInv, RedeemTypeOK, codeVars
    <2>3. MarkedAlone'
      BY <1>2 DEF RedeemInv, MarkedAlone, codeVars
    <2>4. ReadsBefore'
      BY <1>2, <2>1 DEF RedeemInv, ReadsBefore, TermKept, codeVars
    <2>5. UsedGrants /\ CodeCredits
      BY <1>2 DEF UsedGrants, CodeCredits, codeVars
    <2> QED
      BY <2>1, <2>2, <2>3, <2>4, <2>5 DEF CodeKept, RedeemInv, TermKept
  <1> QED
    BY <1>1, <1>2 DEF RedeemNext

LEMMA RedeemStays ==
  ASSUME RedeemInv, UNCHANGED <<codeVars, termVars>>
  PROVE  RedeemInv' /\ LostByOverlap /\ UsedGrants
  <1>1. RedeemTypeOK' /\ MarkedAlone'
    BY DEF RedeemInv, RedeemTypeOK, MarkedAlone, codeVars
  <1>2. TermTypeOK' /\ ReadsBefore'
    BY DEF RedeemInv, TermTypeOK, ReadsBefore, codeVars, termVars
  <1>3. LostByOverlap /\ UsedGrants
    BY DEF LostByOverlap, LostTerm, UsedGrants, codeVars, termVars
  <1> QED
    BY <1>1, <1>2, <1>3 DEF RedeemInv

-----------------------------------------------------------------------------
(* Credits: the three side by side *)

CreditsInv == WalletTypeOK /\ PaymentInv /\ PromoInv /\ RedeemInv

\* A source that is credited is worth a natural number.
LEMMA CreditTyped ==
  ASSUME WalletTypeOK, NEW u \in Users, NEW s \in Orders \cup Promos \cup BalanceCodes, Credit(u, s)
  PROVE  WalletTypeOK'
  <1>1. Amount[s] \in Nat
    BY CreditsAssumption
  <1> QED
    BY <1>1 DEF WalletTypeOK, Credit

\* The sources, each kind by itself.
PaidSources == {[of |-> o] : o \in Paid}
PromoSources == {[of |-> x.code, by |-> x.user] : x \in usages}
CodeSources == {[of |-> c] : c \in used \cap BalanceCodes}

LEMMA SourcesSplit ==
  /\ CreditedSources = PaidSources \cup PromoSources \cup CodeSources
  /\ CreditedSources' = PaidSources' \cup PromoSources' \cup CodeSources'
  BY DEF CreditedSources, PaidSources, PromoSources, CodeSources, Paid

\* A source of the abstract specification is credited, or nothing is.
CreditsOnce ==
  \/ \E s \in AllSources, u \in Users :
       /\ s \notin CreditedSources
       /\ CreditedSources' = CreditedSources \cup {s}
       /\ Credit(u, s.of)
  \/ UNCHANGED <<balance, CreditedSources>>

\* An order, a use of a promo code and a balance code are never confused.
LEMMA SourcesDiffer ==
  ASSUME CreditsInv
  PROVE  /\ \A o \in Orders : [of |-> o] \notin PromoSources \cup CodeSources
         /\ \A c \in BalanceCodes : [of |-> c] \notin PaidSources \cup PromoSources
         /\ \A p \in Promos, u \in Users : [of |-> p, by |-> u] \notin PaidSources \cup CodeSources
  <1>1. ASSUME NEW x, NEW p, NEW u
        PROVE  [of |-> x] # [of |-> p, by |-> u]
    <2>1. DOMAIN [of |-> x] = {"of"} /\ DOMAIN [of |-> p, by |-> u] = {"of", "by"}
      OBVIOUS
    <2>2. {"of"} # {"of", "by"}
      OBVIOUS
    <2> QED
      BY <2>1, <2>2
  <1>2. ASSUME NEW x, NEW y, [of |-> x] = [of |-> y]
        PROVE  x = y
    <2>1. [of |-> x].of = [of |-> y].of
      BY <1>2
    <2> QED
      BY <2>1
  <1>3. Paid \subseteq Orders
    BY DEF Paid
  <1>4. \A o \in Orders : [of |-> o] \notin PromoSources \cup CodeSources
    BY <1>1, <1>2, CreditsAssumption DEF PromoSources, CodeSources
  <1>5. \A c \in BalanceCodes : [of |-> c] \notin PaidSources \cup PromoSources
    BY <1>1, <1>2, <1>3, CreditsAssumption DEF PaidSources, PromoSources
  <1>6. \A p \in Promos, u \in Users : [of |-> p, by |-> u] \notin PaidSources \cup CodeSources
    BY <1>1 DEF PaidSources, CodeSources
  <1> QED
    BY <1>4, <1>5, <1>6

LEMMA PaidCreditsOnce ==
  ASSUME CreditsInv, NEW o \in Orders, o \notin Paid, Paid' = Paid \cup {o},
         Credit(Payer[o], o), UNCHANGED <<usages, used>>
  PROVE  CreditsOnce
  <1> DEFINE s == [of |-> o]
  <1>1. s \in AllSources /\ s.of = o /\ Payer[o] \in Users
    BY PaymentAssumption DEF AllSources
  <1>2. s \notin PaidSources
    <2> SUFFICES ASSUME NEW p \in Paid, s = [of |-> p]
                 PROVE  FALSE
      BY DEF PaidSources
    <2>1. s.of = o /\ [of |-> p].of = p
      OBVIOUS
    <2> QED
      BY <2>1
  <1>3. s \notin CreditedSources
    BY <1>2, SourcesDiffer, SourcesSplit
  <1>4. PaidSources' = PaidSources \cup {s}
    BY DEF PaidSources
  <1>5. PromoSources' = PromoSources /\ CodeSources' = CodeSources
    BY DEF PromoSources, CodeSources
  <1>6. CreditedSources' = CreditedSources \cup {s}
    BY <1>4, <1>5, SourcesSplit
  <1>7. Credit(Payer[o], s.of)
    BY <1>1
  <1> HIDE DEF s
  <1> QED
    BY <1>1, <1>3, <1>6, <1>7 DEF CreditsOnce

LEMMA PromoCreditsOnce ==
  ASSUME CreditsInv, NEW p \in Promos, NEW u \in Users, Use(p, u) \notin usages,
         usages' = usages \cup {Use(p, u)}, Credit(u, p), UNCHANGED <<status, used>>
  PROVE  CreditsOnce
  <1> DEFINE s == [of |-> p, by |-> u]
  <1>1. s \in AllSources /\ s.of = p
    BY DEF AllSources
  <1>2. s \notin PromoSources
    <2> SUFFICES ASSUME NEW x \in usages, s = [of |-> x.code, by |-> x.user]
                 PROVE  FALSE
      BY DEF PromoSources
    <2>1. s.of = p /\ s.by = u
      OBVIOUS
    <2>2. x.code = p /\ x.user = u
      BY <2>1
    <2>3. x = Use(p, u)
      BY <2>2 DEF Use, CreditsInv, PromoInv, PromoTypeOK, Usages
    <2> QED
      BY <2>3
  <1>3. s \notin CreditedSources
    BY <1>2, SourcesDiffer, SourcesSplit
  <1>4. PromoSources' = PromoSources \cup {s}
    <2>1. [of |-> Use(p, u).code, by |-> Use(p, u).user] = s
      BY DEF Use
    <2> HIDE DEF s
    <2> QED
      BY <2>1 DEF PromoSources
  <1>5. PaidSources' = PaidSources /\ CodeSources' = CodeSources
    BY DEF PaidSources, CodeSources, Paid
  <1>6. CreditedSources' = CreditedSources \cup {s}
    BY <1>4, <1>5, SourcesSplit
  <1>7. Credit(u, s.of)
    BY <1>1
  <1> HIDE DEF s
  <1> QED
    BY <1>1, <1>3, <1>6, <1>7 DEF CreditsOnce

LEMMA CodeCreditsOnce ==
  ASSUME CreditsInv, CodeCredits, UNCHANGED <<status, usages>>
  PROVE  CreditsOnce
  <1>1. PaidSources' = PaidSources /\ PromoSources' = PromoSources
    BY DEF PaidSources, PromoSources, Paid
  <1>2. CASE used' \cap BalanceCodes = used \cap BalanceCodes /\ UNCHANGED balance
    <2>1. CodeSources' = CodeSources
      BY <1>2 DEF CodeSources
    <2> QED
      BY <1>1, <1>2, <2>1, SourcesSplit DEF CreditsOnce
  <1>3. ASSUME NEW r \in Redeemers, Tries[r] \in BalanceCodes \ used,
               used' \cap BalanceCodes = (used \cap BalanceCodes) \cup {Tries[r]},
               Credit(Redeems[r], Tries[r])
        PROVE  CreditsOnce
    <2> DEFINE s == [of |-> Tries[r]]
    <2>1. s \in AllSources /\ s.of = Tries[r] /\ Redeems[r] \in Users
      BY <1>3, RedeemAssumption DEF AllSources
    <2>2. s \notin CodeSources
      <3> SUFFICES ASSUME NEW c \in used \cap BalanceCodes, s = [of |-> c]
                   PROVE  FALSE
        BY DEF CodeSources
      <3>1. s.of = Tries[r] /\ [of |-> c].of = c
        OBVIOUS
      <3> QED
        BY <1>3, <3>1
    <2>3. s \notin CreditedSources
      BY <1>3, <2>2, SourcesDiffer, SourcesSplit
    <2>4. CodeSources' = CodeSources \cup {s}
      BY <1>3 DEF CodeSources
    <2>5. CreditedSources' = CreditedSources \cup {s}
      BY <1>1, <2>4, SourcesSplit
    <2>6. Credit(Redeems[r], s.of)
      BY <1>3, <2>1
    <2> HIDE DEF s
    <2> QED
      BY <2>1, <2>3, <2>5, <2>6 DEF CreditsOnce
  <1> QED
    BY <1>2, <1>3 DEF CodeCredits

\* PromoWithinLimit, of one step.
WithinPromoLimit ==
  \A p \in Promos :
    (PromoUses(p))' > PromoUses(p) =>
      \/ promo[p].max = 0
      \/ (PromoUses(p))' <= promo[p].max
      \/ p \in overwrote

\* What every step keeps.
LEMMA CreditsStep ==
  ASSUME CreditsInv, [CreditsNext]_creditsVars
  PROVE  CreditsInv' /\ WithinPromoLimit /\ LostByOverlap /\ UsedGrants /\ CreditsOnce
  <1> USE DEF CreditsInv
  <1>1. ASSUME UNCHANGED usages, PromoInv'
        PROVE  WithinPromoLimit
    BY <1>1, PromoUsesFacts DEF WithinPromoLimit, PromoUses
  <1>2. CASE PaymentNext /\ UNCHANGED <<promoVars, codeVars, termVars>>
    <2>1. /\ PaymentInv'
          /\ \/ Paid' = Paid /\ UNCHANGED balance
             \/ \E o \in Orders : o \notin Paid /\ Paid' = Paid \cup {o} /\ Credit(Payer[o], o)
      BY <1>2, PaymentKeeps
    <2>2. PromoInv' /\ UNCHANGED usages
      BY <1>2, PromoStays
    <2>3. RedeemInv' /\ LostByOverlap /\ UsedGrants
      BY <1>2, RedeemStays
    <2>4. UNCHANGED <<usages, used>>
      BY <1>2 DEF promoVars, codeVars
    <2>5. CASE Paid' = Paid /\ UNCHANGED balance
      <3>1. CreditedSources' = CreditedSources
        BY <2>4, <2>5, SourcesSplit DEF PaidSources, PromoSources, CodeSources
      <3>2. WalletTypeOK'
        BY <2>5 DEF WalletTypeOK
      <3> QED
        BY <1>1, <2>1, <2>2, <2>3, <2>5, <3>1, <3>2 DEF CreditsOnce
    <2>6. ASSUME NEW o \in Orders, o \notin Paid, Paid' = Paid \cup {o}, Credit(Payer[o], o)
          PROVE  CreditsOnce /\ WalletTypeOK'
      <3>1. Payer[o] \in Users
        BY PaymentAssumption
      <3>2. WalletTypeOK'
        BY <2>6, <3>1, CreditTyped
      <3> QED
        BY <2>4, <2>6, <3>2, PaidCreditsOnce
    <2> QED
      BY <1>1, <2>1, <2>2, <2>3, <2>5, <2>6
  <1>3. CASE PromoNext /\ UNCHANGED <<orderVars, codeVars, termVars>>
    <2>1. /\ PromoInv' /\ WithinPromoLimit
          /\ \/ UNCHANGED <<usages, balance>>
             \/ \E p \in Promos, u \in Users :
                  /\ Use(p, u) \notin usages /\ usages' = usages \cup {Use(p, u)}
                  /\ Credit(u, p)
      BY <1>3, PromoKeeps DEF WithinPromoLimit
    <2>2. PaymentInv' /\ Paid' = Paid
      BY <1>3, PaymentStays
    <2>3. RedeemInv' /\ LostByOverlap /\ UsedGrants
      BY <1>3, RedeemStays
    <2>4. UNCHANGED <<status, used>>
      BY <1>3 DEF orderVars, codeVars
    <2>5. CASE UNCHANGED <<usages, balance>>
      <3>1. CreditedSources' = CreditedSources
        BY <2>4, <2>5 DEF CreditedSources
      <3>2. WalletTypeOK'
        BY <2>5 DEF WalletTypeOK
      <3> QED
        BY <2>1, <2>2, <2>3, <2>5, <3>1, <3>2 DEF CreditsOnce
    <2>6. ASSUME NEW p \in Promos, NEW u \in Users, Use(p, u) \notin usages,
                 usages' = usages \cup {Use(p, u)}, Credit(u, p)
          PROVE  CreditsOnce /\ WalletTypeOK'
      BY <2>4, <2>6, CreditTyped, PromoCreditsOnce
    <2> QED
      BY <2>1, <2>2, <2>3, <2>5, <2>6
  <1>4. CASE RedeemNext /\ UNCHANGED <<orderVars, promoVars>>
    <2>1. RedeemInv' /\ LostByOverlap /\ UsedGrants /\ CodeCredits
      BY <1>4, RedeemKeeps DEF CodeKept
    <2>2. PaymentInv'
      BY <1>4, PaymentStays
    <2>3. PromoInv' /\ UNCHANGED usages
      BY <1>4, PromoStays
    <2>4. UNCHANGED <<status, usages>>
      BY <1>4 DEF orderVars, promoVars
    <2>5. CreditsOnce
      BY <2>1, <2>4, CodeCreditsOnce
    <2>6. WalletTypeOK'
      <3>1. CASE UNCHANGED balance
        BY <3>1 DEF WalletTypeOK
      <3>2. ASSUME NEW r \in Redeemers, Tries[r] \in BalanceCodes, Credit(Redeems[r], Tries[r])
            PROVE  WalletTypeOK'
        BY <3>2, CreditTyped, RedeemAssumption
      <3> QED
        BY <2>1, <3>1, <3>2 DEF CodeCredits
    <2> QED
      BY <1>1, <2>1, <2>2, <2>3, <2>5, <2>6
  <1>5. CASE UNCHANGED creditsVars
    <2>1. UNCHANGED <<orderVars, promoVars, codeVars, termVars, balance>>
      BY <1>5 DEF creditsVars, redeemVars
    <2>2. PaymentInv' /\ PromoInv' /\ RedeemInv' /\ LostByOverlap /\ UsedGrants /\ UNCHANGED usages
      BY <2>1, PaymentStays, PromoStays, RedeemStays
    <2>3. UNCHANGED <<status, used>>
      BY <2>1 DEF orderVars, codeVars
    <2>4. WalletTypeOK' /\ CreditsOnce
      BY <2>1, <2>2, <2>3 DEF WalletTypeOK, CreditsOnce, CreditedSources
    <2> QED
      BY <1>1, <2>2, <2>4
  <1> QED
    BY <1>2, <1>3, <1>4, <1>5 DEF CreditsNext

LEMMA CreditsStarts ==
  ASSUME CreditsInit
  PROVE  CreditsInv /\ CreditedSources = {}
  <1> USE DEF CreditsInit
  <1>1. WalletTypeOK
    BY DEF WalletInit, WalletTypeOK
  <1>2. PaymentInv
    BY PaymentAssumption DEF PaymentInit, PaymentInv, PaymentTypeOK, PaidAfterAnswer
  <1>3. PromoTypeOK
    <2>1. promo \in [Promos -> PromoRows]
      <3>1. \A p \in Promos : [max |-> FirstMax[p], used |-> 0, exists |-> TRUE] \in PromoRows
        BY PromoAssumption DEF PromoRows
      <3> QED
        BY <3>1 DEF PromoInit
    <2> QED
      BY <2>1, PromoAssumption DEF PromoInit, PromoTypeOK
  <1>4. IsFiniteSet(usages) /\ \A p \in Promos : PromoUses(p) = 0
    <2>1. usages = {}
      BY DEF PromoInit
    <2>2. \A p \in Promos : {u \in usages : u.code = p} = {}
      BY <2>1
    <2> QED
      BY <2>1, <2>2, FS_EmptySet DEF PromoUses
  <1>5. Holds /\ UsesCounted
    <2>1. UsesCounted
      BY <1>4 DEF PromoInit, UsesCounted
    <2>2. Holds
      BY PromoAssumption DEF PromoInit, Holds
    <2> QED
      BY <2>1, <2>2
  <1>6. RedeemTypeOK /\ MarkedAlone /\ ReadsBefore
    BY DEF RedeemInit, RedeemTypeOK, RedeemStates, MarkedAlone, ReadsBefore
  <1>7. TermTypeOK
    BY TermAssumption DEF TermInit, TermTypeOK, Rows
  <1>8. CreditedSources = {}
    BY DEF CreditedSources, PaymentInit, PromoInit, RedeemInit
  <1> QED
    BY <1>1, <1>2, <1>3, <1>4, <1>5, <1>6, <1>7, <1>8 DEF CreditsInv, PromoInv, RedeemInv

\* The invariant of payments, promo codes and redemptions: who pays, checks or
\* marks has what it takes, until it credits (markOrderPaid, ApplyPromoCode,
\* Redeem).
THEOREM CreditsInvariant == CreditsSpec => []CreditsInv
  <1>1. CreditsInit => CreditsInv
    BY CreditsStarts
  <1>2. CreditsInv /\ [CreditsNext]_creditsVars => CreditsInv'
    BY CreditsStep
  <1> QED
    BY <1>1, <1>2, PTL DEF CreditsSpec

\* Every variable always has its type.
THEOREM CreditsTypeCorrect == CreditsSpec => []CreditsTypeOK
  <1>1. CreditsInv => CreditsTypeOK
    BY DEF CreditsInv, PaymentInv, PromoInv, RedeemInv, CreditsTypeOK
  <1> QED
    BY <1>1, CreditsInvariant, PTL

\* The uses of a promo code stay within the limit in force, unless an edit has
\* overlapped with a use (ApplyPromoCode, PromoService.Update).
THEOREM LimitIsKept == CreditsSpec => PromoWithinLimit
  <1>1. CreditsInv /\ [CreditsNext]_creditsVars => [WithinPromoLimit]_<<promoVars, balance>>
    BY CreditsStep
  <1> QED
    BY <1>1, CreditsInvariant, PTL DEF CreditsSpec, PromoWithinLimit, WithinPromoLimit

\* A term code is used up only by a step that leaves its user a live
\* subscription, worth the days of the code (Redeem,
\* AssignOrExtendSubscription).
THEOREM TermCodeGrants == CreditsSpec => UsedCodeGrants
  <1>1. CreditsInv /\ [CreditsNext]_creditsVars => [UsedGrants]_redeemVars
    BY CreditsStep
  <1> QED
    BY <1>1, CreditsInvariant, PTL DEF CreditsSpec, UsedCodeGrants, UsedGrants

\* A paid term is lost only to a reading of its row that is out of date, or
\* between an administrator's two statements.
THEOREM LostByReading == CreditsSpec => TermLostOnlyByOverlap
  <1>1. CreditsInv /\ [CreditsNext]_creditsVars => [LostByOverlap]_termVars
    BY CreditsStep
  <1> QED
    BY <1>1, CreditsInvariant, PTL DEF CreditsSpec, TermLostOnlyByOverlap, LostByOverlap, Overlapped

\* All that adds to a balance does so once per source: every step credits a
\* source that has not been credited, or is a stuttering step of the
\* abstract specification.
THEOREM CreditsRefine == CreditsSpec => ImplementsOnceOnlyCredits
  <1>1. CreditsInit => Once!OnceInit
    BY CreditsStarts DEF CreditsInit, Once!OnceInit, Once!WalletInit, WalletInit
  <1>2. CreditsInv /\ [CreditsNext]_creditsVars => [Once!OnceNext]_<<balance, CreditedSources>>
    <2> SUFFICES ASSUME CreditsInv, [CreditsNext]_creditsVars
                 PROVE  Once!OnceNext \/ UNCHANGED <<balance, CreditedSources>>
      OBVIOUS
    <2>1. CreditsOnce
      BY CreditsStep
    <2> QED
      BY <2>1 DEF CreditsOnce, Credit, Once!OnceNext, Once!CreditOnce, Once!Credit
  <1> QED
    BY <1>1, <1>2, CreditsInvariant, PTL DEF CreditsSpec, ImplementsOnceOnlyCredits, Once!OnceSpec
-----------------------------------------------------------------------------
(* No captured payment is lost *)

\* Once the user knows where to pay, the row is complete and nothing but a report
\* writes it; and a report is accepted only for what has been captured, and for
\* the full amount only in the step that leaves the order paid.
CapturedInv ==
  \A o \in Orders :
    /\ creating[o] = "url" => o \in stored /\ status[o] \in {"pending", "paid"}
    /\ o \in acked => captured[o] # "none"
    /\ o \in acked /\ captured[o] = "full" => status[o] = "paid"

\* A payment captured in full is credited; or the provider, which has had no
\* report of it accepted, will report it again, and that report finds the order
\* and may pay it.
CapturedIsNotLost ==
  \A o \in Orders :
    captured[o] = "full" =>
      Found(o) /\ (status[o] = "paid" \/ (Payable(status[o]) /\ o \notin acked))

LEMMA CapturedStep ==
  ASSUME PaymentInv, CapturedInv, PaymentNext
  PROVE  CapturedInv'
  <1> USE DEF PaymentInv, PaymentTypeOK, PaidAfterAnswer, CapturedInv
  <1>1. ASSUME NEW o \in Orders, CreateTopUp(o) PROVE CapturedInv'
    <2>1. /\ UNCHANGED <<captured, acked>>
          /\ \E to \in {"inserted", "called", "error"} : creating' = [creating EXCEPT ![o] = to]
          /\ creating[o] # "url"
          /\ stored' \in {stored, stored \cup {o}}
          /\ \/ UNCHANGED status
             \/ \E s \in {"pending", "failed"} : status' = [status EXCEPT ![o] = s]
          \/ StoreReference(o)
      BY <1>1 DEF CreateTopUp, CreateStep, Insert, InsertFails, CallProvider, FailOrder,
                  StoreFails, StoredOver
    <2>2. CASE StoreReference(o)
      <3>1. /\ UNCHANGED <<captured, acked>> /\ creating[o] = "called"
            /\ creating' = [creating EXCEPT ![o] = "url"]
            /\ status' = [status EXCEPT ![o] = "pending"] /\ stored' = stored \cup {o}
        BY <2>2 DEF StoreReference, CreateStep, StoredOver
      <3>2. captured[o] = "none" /\ o \notin acked
        BY <3>1
      <3> QED
        BY <3>1, <3>2
    <2>3. CASE ~StoreReference(o)
      <3>1. captured[o] = "none" /\ o \notin acked
        BY <2>1, <2>3
      <3> QED
        BY <2>1, <2>3, <3>1
    <2> QED
      BY <2>2, <2>3
  <1>2. ASSUME NEW o \in Orders, Capture(o) PROVE CapturedInv'
    BY <1>2 DEF Capture, CanPay
  <1>3. ASSUME NEW o \in Orders, Refuse(o) PROVE CapturedInv'
    BY <1>3 DEF Refuse
  <1>4. ASSUME NEW o \in Orders, NEW n \in Reports, Match(o, n) PROVE CapturedInv'
    BY <1>4 DEF Match
  <1>5. ASSUME NEW o \in Orders, NEW n \in Reports, MarkPaid(o, n) PROVE CapturedInv'
    <2>1. /\ UNCHANGED <<stored, creating, captured>> /\ acked' = acked \cup {o}
          /\ status' = [status EXCEPT ![o] = "paid"] \/ (status[o] # "pending" /\ status' = status)
      BY <1>5 DEF MarkPaid, EndReport, Pay, Payable
    <2>2. captured[o] # "none" /\ status[o] \in {"pending", "paid"}
      BY <1>5 DEF MarkPaid, EndReport
    <2> QED
      BY <2>1, <2>2
  <1>6. ASSUME NEW o \in Orders, NEW n \in Reports, MarkPaidFails(o, n) PROVE CapturedInv'
    <2>1. /\ UNCHANGED <<stored, creating, captured, acked>>
          /\ status' = [status EXCEPT ![o] = "paid"] \/ status' = status
      BY <1>6 DEF MarkPaidFails, EndReport, Pay
    <2> QED
      BY <2>1
  <1> QED
    BY <1>1, <1>2, <1>3, <1>4, <1>5, <1>6 DEF PaymentNext, HandleReport

\* No captured payment is lost, however reports are repeated, overlap, fail or are
\* refused and whatever CreateTopUp still writes: the safety that
\* CapturedIsCredited rests on (CreateTopUp, markOrderPaid, the three webhooks).
THEOREM PaymentNotLost == CreditsSpec => []CapturedIsNotLost
  <1>1. CreditsInit => CapturedInv
    BY DEF CreditsInit, PaymentInit, CapturedInv
  <1>2. CreditsInv /\ CapturedInv /\ [CreditsNext]_creditsVars => CapturedInv'
    <2> SUFFICES ASSUME PaymentInv, CapturedInv, [CreditsNext]_creditsVars PROVE CapturedInv'
      BY DEF CreditsInv
    <2>1. CASE PaymentNext
      BY <2>1, CapturedStep
    <2>2. CASE UNCHANGED orderVars
      BY <2>2 DEF orderVars, CapturedInv
    <2> QED
      BY <2>1, <2>2 DEF CreditsNext, creditsVars
  <1>3. CreditsInv /\ CapturedInv => CapturedIsNotLost
    BY DEF CreditsInv, PaymentInv, PaidAfterAnswer, CapturedInv, CapturedIsNotLost, Found, Payable
  <1> QED
    BY <1>1, <1>2, <1>3, CreditsInvariant, PTL DEF CreditsSpec
=============================================================================
