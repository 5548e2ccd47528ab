----------------------------- MODULE PromoCodes -----------------------------
(***************************************************************************)
(* Promo codes.  ApplyPromoCode locks the row of the code, checks it and   *)
(* the user's former use, credits the user, records the use and counts it, *)
(* all in one transaction.  An administrator edits a code by reading the   *)
(* row, without a lock, and writing all of it back, the count included.    *)
(***************************************************************************)
EXTENDS Wallets, FiniteSets

CONSTANTS
  Promos,
  Applicants,  \* calls of ApplyPromoCode
  Applies,     \* the user an applicant applies for
  MaxUses,     \* the limits an administrator may set; 0: no limit
  FirstMax,    \* the limit a code is created with
  MaxEdits,    \* bound: edits in one behaviour
  None

ASSUME PromoAssumption ==
  /\ Applies \in [Applicants -> Users]
  /\ MaxUses \subseteq Nat
  /\ FirstMax \in [Promos -> MaxUses]
  /\ MaxEdits \in Nat
  /\ None \notin Applicants
  /\ "start" \notin Promos /\ "end" \notin Promos

VARIABLES
  promo,     \* the rows: max_uses, used_count, and whether they exist
  usages,    \* promo_code_usages, those of deleted codes included
  locked,    \* the applicant whose transaction holds the row
  applying,  \* the code an applicant has checked; "start" before, "end" after
  edit,      \* the row as an administrator has read it, or None
  edits,
  overwrote  \* codes whose count an edit has set back to an older one

promoVars == <<promo, usages, locked, applying, edit, edits, overwrote>>

PromoRows == [max : MaxUses, used : Nat, exists : BOOLEAN]
Usages == [code : Promos, user : Users]

PromoTypeOK ==
  /\ promo \in [Promos -> PromoRows]
  /\ usages \subseteq Usages
  /\ locked \in [Promos -> Applicants \cup {None}]
  /\ applying \in [Applicants -> Promos \cup {"start", "end"}]
  /\ edit \in [Promos -> PromoRows \cup {None}]
  /\ edits \in 0 .. MaxEdits
  /\ overwrote \subseteq Promos

PromoInit ==
  /\ promo = [p \in Promos |-> [max |-> FirstMax[p], used |-> 0, exists |-> TRUE]]
  /\ usages = {}
  /\ locked = [p \in Promos |-> None]
  /\ applying = [a \in Applicants |-> "start"]
  /\ edit = [p \in Promos |-> None]
  /\ edits = 0
  /\ overwrote = {}

Use(p, u) == [code |-> p, user |-> u]

\* CanUse; a code that is disabled or past its date is as good as none.
CanUse(p) ==
  /\ promo[p].exists
  /\ promo[p].max > 0 => promo[p].used < promo[p].max

\* Mutant of LockRow: the row is read without FOR UPDATE.
ReadRow(p, a) == UNCHANGED locked

\* GetByCodeForUpdate waits for the transaction that holds the row.
LockRow(p, a) ==
  /\ locked[p] = None
  /\ locked' = [locked EXCEPT ![p] = a]

Check(a, p) ==
  /\ applying[a] = "start"
  /\ LockRow(p, a)
  /\ CanUse(p)
  /\ Use(p, Applies[a]) \notin usages
  /\ applying' = [applying EXCEPT ![a] = p]
  /\ UNCHANGED <<promo, usages, edit, edits, overwrote, balance>>

\* A code that cannot be used: the transaction has changed nothing.
RefusePromo(a) ==
  /\ applying[a] = "start"
  /\ \A p \in Promos : ~CanUse(p) \/ Use(p, Applies[a]) \in usages
  /\ applying' = [applying EXCEPT ![a] = "end"]
  /\ UNCHANGED <<promo, usages, locked, edit, edits, overwrote, balance>>

EndApply(a, p) ==
  /\ applying[a] = p
  /\ applying' = [applying EXCEPT ![a] = "end"]
  /\ locked' = [locked EXCEPT ![p] = None]
  /\ UNCHANGED <<edit, edits, overwrote>>

\* The bonus, the use, whose index refuses a second one, and the count.
Apply(a, p) ==
  /\ EndApply(a, p)
  /\ Use(p, Applies[a]) \notin usages
  /\ Credit(Applies[a], p)
  /\ usages' = usages \cup {Use(p, Applies[a])}
  /\ promo' = [promo EXCEPT ![p].used = @ + 1]

Rollback(a, p) ==
  /\ EndApply(a, p)
  /\ UNCHANGED <<promo, usages, balance>>

-----------------------------------------------------------------------------
EditReads(p) ==
  /\ promo[p].exists
  /\ edit[p] = None
  /\ edits < MaxEdits
  /\ edit' = [edit EXCEPT ![p] = promo[p]]
  /\ edits' = edits + 1
  /\ UNCHANGED <<promo, usages, locked, applying, overwrote, balance>>

\* Update writes every column, also the count it has read.
EditWrites(p) ==
  /\ edit[p] # None
  /\ locked[p] = None
  /\ IF promo[p].exists
     THEN \E m \in MaxUses : promo' = [promo EXCEPT ![p] = [edit[p] EXCEPT !.max = m]]
     ELSE UNCHANGED promo
  /\ overwrote' = IF edit[p].used < promo[p].used THEN overwrote \cup {p} ELSE overwrote
  /\ edit' = [edit EXCEPT ![p] = None]
  /\ UNCHANGED <<usages, locked, applying, edits, balance>>

DeletePromo(p) ==
  /\ promo[p].exists
  /\ locked[p] = None
  /\ promo' = [promo EXCEPT ![p].exists = FALSE]
  /\ UNCHANGED <<usages, locked, applying, edit, edits, overwrote, balance>>

PromoNext ==
  \/ \E a \in Applicants, p \in Promos : Check(a, p) \/ Apply(a, p) \/ Rollback(a, p)
  \/ \E a \in Applicants : RefusePromo(a)
  \/ \E p \in Promos : EditReads(p) \/ EditWrites(p) \/ DeletePromo(p)

PromoUses(p) == Cardinality({u \in usages : u.code = p})

\* However many users apply a code at once, its uses stay within the limit in
\* force, also one that an administrator has just set; only an edit that
\* overlapped with a use, and wrote the count back as it was before, lets
\* more in (ApplyPromoCode, PromoService.Update).
PromoWithinLimit ==
  [][\A p \in Promos :
       (PromoUses(p))' > PromoUses(p) =>
         \/ promo[p].max = 0
         \/ (PromoUses(p))' <= promo[p].max
         \/ p \in overwrote]_<<promoVars, balance>>
=============================================================================
