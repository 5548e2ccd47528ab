---------------------------- MODULE RedeemCodes ----------------------------
(***************************************************************************)
(* Redeeming a code.  A lock in Redis, which may be missing, expire, or be *)
(* released by somebody else, keeps most duplicates away; the code is read *)
(* and checked; then one transaction marks it used, if it still is unused, *)
(* and gives the user what it is worth: an amount, or days of a            *)
(* subscription.  An administrator deletes a code after looking whether it *)
(* has been used.  Codes that raise a user's concurrency are like those    *)
(* that raise the balance; the limit on failing attempts is left out.      *)
(***************************************************************************)
EXTENDS Wallets, SubscriptionTerms

CONSTANTS
  BalanceCodes, TermCodes,
  Redeems,      \* the user of a redemption
  Tries,        \* the code of a redemption
  Days,         \* validity_days of a term code
  AssignDays,   \* days an administrator assigns
  AdjustDays    \* days an administrator adds or takes away

Codes == BalanceCodes \cup TermCodes

ASSUME RedeemAssumption ==
  /\ BalanceCodes \cap TermCodes = {}
  /\ Redeems \in [Redeemers -> Users]
  /\ Tries \in [Redeemers -> Codes]
  /\ \A r \in Redeemers : Tries[r] \in TermCodes => Redeems[r] \in Subscribers
  /\ Days \in [TermCodes -> Nat \ {0}]
  /\ AssignDays \subseteq Nat \ {0}
  /\ AdjustDays \subseteq Int \ {0}

VARIABLES
  used,       \* codes with status "used", those deleted since included
  deleted,    \* codes that have been deleted
  lock,       \* codes with a lock in Redis
  redeeming,  \* where a redemption is
  deleting    \* codes that an administrator has read as unused

codeVars == <<used, deleted, lock, redeeming, deleting>>
redeemVars == <<codeVars, termVars, balance>>

RedeemStates == {"start", "locked", "read", "marked", "end"}

RedeemTypeOK ==
  /\ used \subseteq Codes
  /\ deleted \subseteq Codes
  /\ lock \subseteq Codes
  /\ redeeming \in [Redeemers -> RedeemStates]
  /\ deleting \subseteq Codes

RedeemInit ==
  /\ used = {}
  /\ deleted = {}
  /\ lock = {}
  /\ redeeming = [r \in Redeemers |-> "start"]
  /\ deleting = {}

\* Where the redemption is, and where it goes.
RedeemStep(r, from, to) ==
  /\ redeeming[r] = from
  /\ redeeming' = [redeeming EXCEPT ![r] = to]

\* The deferred release deletes whatever lock there is; its error is ignored.
Release(c) == lock' \in {lock \ {c}, lock}

\* A transaction that has marked a code holds the row of the code.
Marked(c) == \E r \in Redeemers : Tries[r] = c /\ redeeming[r] = "marked"

\* Mutant of Unused: the code is marked whatever its status is.
UnusedOrUsed(c) == c \notin deleted

\* CanUse; also the condition of the UPDATE of Use.
Unused(c) == c \notin used \cup deleted

-----------------------------------------------------------------------------
\* SETNX; without an answer of Redis the redemption goes on.
AcquireLock(r) ==
  /\ RedeemStep(r, "start", "locked")
  /\ \/ Tries[r] \notin lock /\ lock' = lock \cup {Tries[r]}
     \/ UNCHANGED lock
  /\ UNCHANGED <<used, deleted, deleting, termVars, balance>>

LockBusy(r) ==
  /\ RedeemStep(r, "start", "end")
  /\ Tries[r] \in lock
  /\ UNCHANGED <<used, deleted, lock, deleting, termVars, balance>>

LockExpires(c) ==
  /\ c \in lock
  /\ lock' = lock \ {c}
  /\ UNCHANGED <<used, deleted, redeeming, deleting, termVars, balance>>

ReadCode(r) ==
  /\ RedeemStep(r, "locked", "read")
  /\ Unused(Tries[r])
  /\ UNCHANGED <<used, deleted, lock, deleting, termVars, balance>>

\* The code is missing or used, when it is read or when it is to be marked.
RefuseCode(r) ==
  /\ RedeemStep(r, "locked", "end") \/ RedeemStep(r, "read", "end")
  /\ Tries[r] \in used \cup deleted
  /\ Release(Tries[r])
  /\ UNCHANGED <<used, deleted, deleting, termVars, balance>>

\* The transaction marks the code, and reads the subscription for a term code.
MarkUsed(r) ==
  /\ RedeemStep(r, "read", "marked")
  /\ Unused(Tries[r])
  /\ ~Marked(Tries[r])
  /\ IF Tries[r] \in TermCodes
     THEN ReadsTerm(r, Redeems[r], Days[Tries[r]])
     ELSE UNCHANGED extending
  /\ UNCHANGED <<used, deleted, lock, deleting, term, today, checking, balance>>

EndTransaction(r) ==
  /\ RedeemStep(r, "marked", "end")
  /\ extending' = [extending EXCEPT ![r] = NoTerm]
  /\ Release(Tries[r])
  /\ UNCHANGED <<deleted, deleting, today, checking>>

CommitBalance(r) ==
  /\ Tries[r] \in BalanceCodes
  /\ EndTransaction(r)
  /\ used' = used \cup {Tries[r]}
  /\ Credit(Redeems[r], Tries[r])
  /\ UNCHANGED term

CommitTerm(r) ==
  /\ Tries[r] \in TermCodes
  /\ EndTransaction(r)
  /\ used' = used \cup {Tries[r]}
  /\ Grants(extending[r])
  /\ UNCHANGED balance

\* A statement or the commit fails, or the process dies.
RollbackRedeem(r) ==
  /\ EndTransaction(r)
  /\ UNCHANGED <<used, term, balance>>

-----------------------------------------------------------------------------
\* Delete looks at the code first, and deletes it whatever it is by then.
DeleteReads(c) ==
  /\ Unused(c)
  /\ c \notin deleting
  /\ deleting' = deleting \cup {c}
  /\ UNCHANGED <<used, deleted, lock, redeeming, termVars, balance>>

DeleteCode(c) ==
  /\ c \in deleting
  /\ ~Marked(c)
  /\ deleted' = deleted \cup {c}
  /\ deleting' = deleting \ {c}
  /\ UNCHANGED <<used, lock, redeeming, termVars, balance>>

Redeem(r) ==
  \/ AcquireLock(r) \/ LockBusy(r)
  \/ ReadCode(r) \/ RefuseCode(r)
  \/ MarkUsed(r)
  \/ CommitBalance(r) \/ CommitTerm(r) \/ RollbackRedeem(r)

TermStep ==
  \/ \E u \in Subscribers : Revoke(u) \/ CheckReads(u) \/ Validate(u)
  \/ \E u \in Subscribers, d \in AssignDays : Assign(u, d)
  \/ \E w \in Admins, u \in Subscribers, d \in AdjustDays : AdjustReads(w, u, d)
  \/ \E w \in Admins : AdjustEnd(w) \/ AdjustStatus(w) \/ AdjustStops(w)
  \/ Sweep
  \/ NextDay

CodeStep ==
  \/ \E r \in Redeemers : Redeem(r)
  \/ \E c \in Codes : LockExpires(c) \/ DeleteReads(c) \/ DeleteCode(c)

RedeemNext ==
  \/ CodeStep
  \/ TermStep /\ UNCHANGED <<codeVars, balance>>

\* A term code is used up only by a step after which its user has a live
\* subscription that runs for the days of the code, as far as a subscription
\* may run, from the day the code was taken, although the subscription
\* may have been revoked, replaced or extended since it was read (Redeem,
\* AssignOrExtendSubscription).
UsedCodeGrants ==
  [][\A c \in TermCodes :
       c \in used' \ used =>
         \E r \in Redeemers :
           /\ Tries[r] = c /\ redeeming[r] = "marked"
           /\ Live(term[Redeems[r]]')
           /\ term[Redeems[r]]'.expiry >= Capped(extending[r].from + Days[c])]_redeemVars
=============================================================================
