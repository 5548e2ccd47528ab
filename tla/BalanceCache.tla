---------------------------- MODULE BalanceCache ----------------------------
(***************************************************************************)
(* The balance of one user, and the copy of it in Redis that requests are  *)
(* checked against.  Who charges the balance takes the same amount from    *)
(* the copy, who credits or edits it deletes the copy, and who finds none  *)
(* fills it with what the database had: all of it later, and by ten        *)
(* workers in any order.  The copy ends by a TTL that every deduction      *)
(* renews.  Who saves anything else of the user writes the balance he has  *)
(* read back with the rest of the row, and tells Redis nothing.            *)
(*                                                                         *)
(* Amounts do not matter, only what has been counted: the balance in the   *)
(* database is the set of movements in it, the copy says how often each    *)
(* movement is in it.                                                      *)
(***************************************************************************)
EXTENDS Naturals

CONSTANTS
  Deductions,        \* charges, and commissions, which deduct a negative amount
  Credits,           \* orders, redeemed codes, promo codes
  Edits,             \* an administrator's edits of the balance
  Savers,            \* who change a profile, a password or a status
  Readers,           \* requests that look at the balance
  MaxBalanceFaults,  \* bound: calls of Redis that fail, news that are lost
  NoBalance,         \* nothing cached, nothing read
  Missed             \* what a reader has that found no copy

VARIABLES
  moved,    \* in the database: the movements that make up the balance
  news,     \* of a movement: not made, made and not yet told to Redis, or told
  rowRead,  \* the balance an edit, or who saves the row, has read
  cached,   \* the copy in Redis
  fill,     \* of a reader: found nothing, or what it has read and will write
  balanceFaults

balanceVars == <<moved, news, rowRead, cached, fill, balanceFaults>>

Movements == Deductions \cup Credits \cup Edits

\* "blurred": history, the movements a copy may be wrong about, since it was
\* read before they were made or while they had not been told, or since the row
\* of the user was saved over them.
Copies == [counts : [Movements -> 0 .. 3], blurred : SUBSET Movements]

ASSUME BalanceAssumption ==
  /\ MaxBalanceFaults \in Nat
  /\ Edits \cap (Deductions \cup Credits) = {}
  /\ Edits \cap Savers = {}
  /\ NoBalance \notin Copies /\ Missed \notin Copies

BalanceTypeOK ==
  /\ moved \subseteq Movements
  /\ news \in [Movements -> {"due", "pending", "told"}]
  /\ rowRead \in [Edits \cup Savers -> (SUBSET Movements) \cup {NoBalance}]
  /\ cached \in Copies \cup {NoBalance}
  /\ fill \in [Readers -> Copies \cup {NoBalance, Missed}]
  /\ balanceFaults \in 0 .. MaxBalanceFaults

BalanceInit ==
  /\ moved = {}
  /\ news = [m \in Movements |-> "due"]
  /\ rowRead = [e \in Edits \cup Savers |-> NoBalance]
  /\ cached = NoBalance
  /\ fill = [r \in Readers |-> NoBalance]
  /\ balanceFaults = 0

BalanceFault ==
  /\ balanceFaults < MaxBalanceFaults
  /\ balanceFaults' = balanceFaults + 1

Pending == {m \in Movements : news[m] = "pending"}

Counted(M) == [m \in Movements |-> IF m \in M THEN 1 ELSE 0]

IsCopy(c) == c \notin {NoBalance, Missed}

Blur(c, M) == IF IsCopy(c) THEN [c EXCEPT !.blurred = @ \cup M] ELSE c

\* The movements M change the database after the fills on the way have read it.
BlursFills(M) == fill' = [r \in Readers |-> Blur(fill[r], M)]

Tell(m) == news' = [news EXCEPT ![m] = "told"]

-----------------------------------------------------------------------------
(* Movements. *)

\* A transaction commits, with a relative UPDATE.
Move(m) ==
  /\ news[m] = "due"
  /\ moved' = moved \cup {m}
  /\ news' = [news EXCEPT ![m] = "pending"]
  /\ BlursFills({m})
  /\ UNCHANGED <<rowRead, cached, balanceFaults>>

RowReads(e) ==
  /\ e \in Edits => news[e] = "due"
  /\ rowRead[e] = NoBalance
  /\ rowRead' = [rowRead EXCEPT ![e] = moved]
  /\ UNCHANGED <<moved, news, cached, fill, balanceFaults>>

\* What has come into the balance, or gone out of it, since e has read the row.
MovedSince(e) == (moved \ rowRead[e]) \cup (rowRead[e] \ moved)

\* The whole row of the user is written: what has moved since is undone, and
\* what another such write has undone is there again.
RowWrites(e) ==
  /\ news[e] = "due"
  /\ rowRead[e] # NoBalance
  /\ moved' = rowRead[e] \cup {e}
  /\ news' = [news EXCEPT ![e] = "pending"]
  /\ BlursFills({e} \cup MovedSince(e))
  /\ UNCHANGED <<rowRead, cached, balanceFaults>>

\* The same write for the sake of another column: Redis is told nothing.
RowSaved(w) ==
  /\ rowRead[w] # NoBalance
  /\ moved' = rowRead[w]
  /\ rowRead' = [rowRead EXCEPT ![w] = NoBalance]
  /\ BlursFills(MovedSince(w))
  /\ cached' = Blur(cached, MovedSince(w))
  /\ UNCHANGED <<news, balanceFaults>>

\* The copy after the script has taken m from it n times.
Deducted(m, n) == [cached EXCEPT !.counts[m] = @ + n]

\* Mutant of Deduct: a copy is made where there is none.
DeductMakesCopy(m, n) ==
  IF cached = NoBalance THEN [counts |-> [Counted({}) EXCEPT ![m] = n], blurred |-> {}] ELSE Deducted(m, n)

Deduct(m, n) == IF cached = NoBalance THEN NoBalance ELSE Deducted(m, n)

\* A worker of the write queue takes the deduction; its error is ignored, and
\* the client library may have the script executed twice.
DeductUserBalance(m) ==
  /\ news[m] = "pending"
  /\ Tell(m)
  /\ \/ cached' = Deduct(m, 1) /\ UNCHANGED balanceFaults
     \/ BalanceFault /\ \E n \in {0, 2} : cached' = Blur(Deduct(m, n), {m})
  /\ UNCHANGED <<moved, rowRead, fill>>

\* Its error, too, is ignored: what it should have removed stays.
InvalidateUserBalance(m) ==
  /\ news[m] = "pending"
  /\ Tell(m)
  /\ \/ cached' = NoBalance /\ UNCHANGED balanceFaults
     \/ BalanceFault /\ cached' = Blur(cached, Movements)
  /\ UNCHANGED <<moved, rowRead, fill>>

\* The process dies, and with it its write queue and its goroutines.
NewsLost(m) ==
  /\ news[m] = "pending"
  /\ BalanceFault
  /\ Tell(m)
  /\ cached' = Blur(cached, IF m \in Edits THEN Movements ELSE {m})
  /\ UNCHANGED <<moved, rowRead, fill>>

-----------------------------------------------------------------------------
(* A request looks at the balance. *)

\* No copy is found; or Redis fails, which is the same.
FindsNoCopy(r) ==
  /\ fill[r] = NoBalance
  /\ fill' = [fill EXCEPT ![r] = Missed]
  /\ \/ cached = NoBalance /\ UNCHANGED balanceFaults
     \/ BalanceFault
  /\ UNCHANGED <<moved, news, rowRead, cached>>

GetUserBalanceFromDB(r) ==
  /\ fill[r] = Missed
  /\ fill' = [fill EXCEPT ![r] = [counts |-> Counted(moved), blurred |-> Pending]]
  /\ UNCHANGED <<moved, news, rowRead, cached, balanceFaults>>

\* A worker writes it; or the queue is full, or the call fails.
SetUserBalance(r) ==
  /\ IsCopy(fill[r])
  /\ fill' = [fill EXCEPT ![r] = NoBalance]
  /\ cached' \in {fill[r], cached}
  /\ UNCHANGED <<moved, news, rowRead, balanceFaults>>

CopyExpires ==
  /\ cached # NoBalance
  /\ cached' = NoBalance
  /\ UNCHANGED <<moved, news, rowRead, fill, balanceFaults>>

-----------------------------------------------------------------------------
TellsRedis(m) ==
  \/ m \in Deductions /\ DeductUserBalance(m)
  \/ m \notin Deductions /\ InvalidateUserBalance(m)
  \/ NewsLost(m)

Fills(r) == GetUserBalanceFromDB(r) \/ SetUserBalance(r)

BalanceNext ==
  \/ \E m \in Deductions \cup Credits : Move(m)
  \/ \E e \in Edits : RowReads(e) \/ RowWrites(e)
  \/ \E w \in Savers : RowReads(w) \/ RowSaved(w)
  \/ \E m \in Movements : TellsRedis(m)
  \/ \E r \in Readers : FindsNoCopy(r) \/ Fills(r)
  \/ CopyExpires

BalanceSpec == BalanceInit /\ [][BalanceNext]_balanceVars

Right(m) == cached.counts[m] = Counted(moved)[m]

\* The copy is wrong about a movement only while Redis has yet to be told of it,
\* or of an edit; when it was read before the movement was made or told and written
\* after, or the news of it got lost; or when the row of the user was saved, with
\* a balance read on the other side of the movement (GetUserBalance,
\* QueueDeductBalance, InvalidateUserBalance, userRepository.Update).
BalanceWrongOnlyByOverlap ==
  cached # NoBalance =>
    \A m \in Movements :
      Right(m) \/ m \in cached.blurred \/ news[m] = "pending" \/ \E e \in Edits : news[e] = "pending"

=============================================================================
