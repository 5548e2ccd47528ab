------------------------- MODULE SubscriptionTerms -------------------------
(***************************************************************************)
(* The term of a user's subscription to one group: when it ends and        *)
(* whether it is marked active or expired.  Redeemed codes and             *)
(* administrators extend it, administrators also shorten, revoke and       *)
(* assign it, a sweep marks what has lapsed, and so does a request that    *)
(* meets a lapsed subscription.  Nobody locks the row: an extension and a  *)
(* request write what follows from the row as they have read it.           *)
(*                                                                         *)
(* No code sets the status "suspended".  A day stands for an instant.      *)
(***************************************************************************)
EXTENDS Integers

CONSTANTS
  Subscribers,
  Redeemers,     \* calls of Redeem, which extend inside a transaction
  Admins,        \* calls of ExtendSubscription
  MaxExpiresAt,  \* the last day a subscription may end
  MaxDay,        \* bound: the last day
  MaxRows,       \* bound: the rows one user may be given
  NoTerm         \* nothing read

VARIABLES
  term,       \* the last row of a user: its number, end, and status
  today,
  extending,  \* what an extension has read and is about to write, or NoTerm
  checking    \* the row a request has read, or NoTerm

termVars == <<term, today, extending, checking>>

\* "none" and "revoked" rows are not found: never made, or soft-deleted.
Rows == [row : 0 .. MaxRows, expiry : 0 .. MaxExpiresAt,
         status : {"none", "active", "expired", "revoked"}]

\* An extension: whose, the row and its status as read and on which day, the
\* new end, and whether an administrator's first statement has been executed.
Extensions == [user : Subscribers, row : 0 .. MaxRows,
               status : {"none", "active", "expired", "revoked"},
               from : 0 .. MaxDay, expiry : 0 .. MaxExpiresAt, ended : BOOLEAN]

ASSUME TermAssumption ==
  /\ MaxExpiresAt \in Nat \ {0}
  /\ MaxDay \in Nat
  /\ MaxRows \in Nat \ {0}
  /\ Redeemers \cap Admins = {}
  /\ NoTerm \notin Extensions

TermTypeOK ==
  /\ term \in [Subscribers -> Rows]
  /\ today \in 0 .. MaxDay
  /\ extending \in [Redeemers \cup Admins -> Extensions \cup {NoTerm}]
  /\ checking \in [Subscribers -> Rows \cup {NoTerm}]

TermInit ==
  /\ term = [u \in Subscribers |-> [row |-> 0, expiry |-> 0, status |-> "none"]]
  /\ today = 0
  /\ extending = [w \in Redeemers \cup Admins |-> NoTerm]
  /\ checking = [u \in Subscribers |-> NoTerm]

Live(r) == r.status \in {"active", "expired"}

\* Mutant of Capped: the last day a subscription may end is not looked at.
Uncapped(day) == day

Capped(day) == IF day > MaxExpiresAt THEN MaxExpiresAt ELSE day

\* The end after so many more days: counted from the old end, or from today
\* when that has passed.
EndAfter(seen, days) ==
  Capped((IF Live(seen) /\ seen.expiry > today THEN seen.expiry ELSE today) + days)

\* The extension reads the user's row, and the clock.
ReadsTerm(w, u, days) ==
  extending' = [extending EXCEPT ![w] =
    [user |-> u, row |-> term[u].row, status |-> term[u].status, from |-> today,
     expiry |-> EndAfter(term[u], days), ended |-> FALSE]]

\* Mutant of SameRow: whether the row is still there is not looked at.
AnyRow(x) == TRUE

\* The row an extension has read is still found by its number.
SameRow(x) == Live(term[x.user]) /\ term[x.user].row = x.row

NextRow(u, day) ==
  [row |-> term[u].row + 1, expiry |-> day, status |-> "active"]

\* Mutant of StatusAfter: a lapsed subscription keeps its status.
StatusKept(x) == term[x.user].status

\* A row that was read as active keeps the status it has by now.
StatusAfter(x) ==
  IF x.status # "active" THEN "active" ELSE term[x.user].status

\* What AssignOrExtendSubscription has written when its transaction commits:
\* the new end and perhaps the status of the row it has read; or a new row,
\* which the unique index refuses when the user has been given one meanwhile.
\* A row revoked meanwhile is not found again, and nothing is committed.
Grants(x) ==
  \/ /\ Live(x)
     /\ SameRow(x)
     /\ term' = [term EXCEPT ![x.user].expiry = x.expiry,
                             ![x.user].status = StatusAfter(x)]
  \/ /\ ~Live(x)
     /\ ~Live(term[x.user])
     /\ term[x.user].row < MaxRows
     /\ term' = [term EXCEPT ![x.user] = NextRow(x.user, x.expiry)]

-----------------------------------------------------------------------------
(* Administrators. *)

Assign(u, days) ==
  /\ ~Live(term[u])
  /\ term[u].row < MaxRows
  /\ term' = [term EXCEPT ![u] = NextRow(u, Capped(today + days))]
  /\ UNCHANGED <<today, extending, checking>>

Revoke(u) ==
  /\ Live(term[u])
  /\ term' = [term EXCEPT ![u].status = "revoked"]
  /\ UNCHANGED <<today, extending, checking>>

\* ExtendSubscription does not shorten to an end that has passed.
AdjustReads(w, u, days) ==
  /\ extending[w] = NoTerm
  /\ Live(term[u])
  /\ EndAfter(term[u], days) > today
  /\ ReadsTerm(w, u, days)
  /\ UNCHANGED <<term, today, checking>>

\* The first statement, ExtendExpiry; an active row needs no second one.
AdjustEnd(w) ==
  LET x == extending[w] IN
  /\ x # NoTerm
  /\ ~x.ended
  /\ SameRow(x)
  /\ term' = [term EXCEPT ![x.user].expiry = x.expiry]
  /\ extending' = [extending EXCEPT ![w] =
       IF x.status = "expired" THEN [x EXCEPT !.ended = TRUE] ELSE NoTerm]
  /\ UNCHANGED <<today, checking>>

\* The second one, UpdateStatus.
AdjustStatus(w) ==
  LET x == extending[w] IN
  /\ x # NoTerm
  /\ x.ended
  /\ SameRow(x)
  /\ term' = [term EXCEPT ![x.user].status = "active"]
  /\ extending' = [extending EXCEPT ![w] = NoTerm]
  /\ UNCHANGED <<today, checking>>

\* A statement fails, the row is gone, or the process dies.
AdjustStops(w) ==
  /\ extending[w] # NoTerm
  /\ extending' = [extending EXCEPT ![w] = NoTerm]
  /\ UNCHANGED <<term, today, checking>>

-----------------------------------------------------------------------------
(* What has lapsed is marked. *)

\* GetActiveByUserIDAndGroupID, for a request.
CheckReads(u) ==
  /\ checking[u] = NoTerm
  /\ term[u].status = "active"
  /\ term[u].expiry > today
  /\ checking' = [checking EXCEPT ![u] = term[u]]
  /\ UNCHANGED <<term, today, extending>>

\* ValidateSubscription looks at the row it was given and marks the row there is.
Validate(u) ==
  /\ checking[u] # NoTerm
  /\ LET lapsed == today > checking[u].expiry
         there == Live(term[u]) /\ term[u].row = checking[u].row
     IN term' = IF lapsed /\ there THEN [term EXCEPT ![u].status = "expired"] ELSE term
  /\ checking' = [checking EXCEPT ![u] = NoTerm]
  /\ UNCHANGED <<today, extending>>

\* BatchUpdateExpiredStatus: one UPDATE over every row that has lapsed.
Sweep ==
  /\ term' = [u \in Subscribers |->
       IF term[u].status = "active" /\ term[u].expiry <= today
       THEN [term[u] EXCEPT !.status = "expired"] ELSE term[u]]
  /\ UNCHANGED <<today, extending, checking>>

NextDay ==
  /\ today < MaxDay
  /\ today' = today + 1
  /\ UNCHANGED <<term, extending, checking>>

\* A live subscription that no request will find although its term runs.
LostTerm(u) == term[u].status = "expired" /\ term[u].expiry > today

\* A paid term is only lost through a row that was marked while somebody held
\* an older reading of it: an extension that read it active before the sweep,
\* a request that read it before the extension; or half-way through an
\* administrator's two statements (AssignOrExtendSubscription,
\* ExtendSubscription, ValidateSubscription, BatchUpdateExpiredStatus).
TermLostOnlyByOverlap ==
  [][\A u \in Subscribers :
       LostTerm(u)' /\ ~LostTerm(u) =>
         \/ \E w \in Redeemers \cup Admins :
              /\ extending[w] # NoTerm
              /\ extending[w].user = u
              /\ \/ extending[w].status # term[u].status
                 \/ w \in Admins /\ extending[w].status = "expired"
         \/ checking[u] # NoTerm /\ checking[u].expiry < term[u].expiry]_termVars
=============================================================================
