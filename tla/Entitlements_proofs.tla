------------------------- MODULE Entitlements_proofs -------------------------
(***************************************************************************)
(* Proofs about the copy of a balance and the windows of a subscription,   *)
(* for any calls, bounds and faults: both go wrong only where calls        *)
(* overlap.  The two share nothing: each has an invariant of its own.      *)
(* The last section is about MCEntitlements as a whole, which has these    *)
(* two beside the credits and the ledger.                                  *)
(***************************************************************************)
EXTENDS MCEntitlements, Credits_proofs, ErasedUsage_proofs

-----------------------------------------------------------------------------
(* BalanceCache *)

\* A movement that was not made is not in the database, nor in what an edit, or
\* who saves the row, has read.
DueOutside ==
  \A m \in Movements : news[m] = "due" =>
    /\ m \notin moved
    /\ \A e \in Edits \cup Savers : rowRead[e] # NoBalance => m \notin rowRead[e]

\* Until Redis is told of a movement, the copy has it at most once.
CountedOnce ==
  cached # NoBalance => \A m \in Movements : news[m] # "told" => cached.counts[m] <= 1

\* What will be written is right but for what it is marked with.
FillMarked(c) ==
  \A m \in Movements :
    /\ c.counts[m] <= 1
    /\ c.counts[m] = Counted(moved)[m] \/ m \in c.blurred
    /\ news[m] = "pending" => m \in c.blurred
FillsMarked == \A r \in Readers : IsCopy(fill[r]) => FillMarked(fill[r])

EditPending == \E e \in Edits : news[e] = "pending"

\* What Redis has yet to be told is made and not yet in the copy.
PendingUncounted ==
  cached # NoBalance => \A m \in Movements \ Edits : news[m] = "pending" =>
    \/ m \in cached.blurred
    \/ EditPending
    \/ m \in moved /\ cached.counts[m] = 0

BalanceInv ==
  /\ BalanceTypeOK /\ DueOutside /\ CountedOnce /\ FillsMarked /\ PendingUncounted
  /\ BalanceWrongOnlyByOverlap

LEMMA CopyFacts ==
  ASSUME NEW c \in Copies
  PROVE  /\ c.counts \in [Movements -> 0 .. 3] /\ c.blurred \subseteq Movements
         /\ c # NoBalance /\ IsCopy(c)
  BY BalanceAssumption DEF Copies, IsCopy

LEMMA CountedFacts ==
  ASSUME NEW M
  PROVE  /\ Counted(M) \in [Movements -> 0 .. 1] /\ Counted(M) \in [Movements -> 0 .. 3]
         /\ \A m \in Movements : Counted(M)[m] = IF m \in M THEN 1 ELSE 0
  BY DEF Counted

LEMMA BlurFacts ==
  ASSUME NEW c \in Copies \cup {NoBalance, Missed}, NEW M \in SUBSET Movements
  PROVE  /\ IsCopy(c) <=> c \in Copies
         /\ IsCopy(c) => /\ Blur(c, M) \in Copies
                         /\ Blur(c, M).counts = c.counts
                         /\ Blur(c, M).blurred = c.blurred \cup M
         /\ ~IsCopy(c) => Blur(c, M) = c
  <1>1. IsCopy(c) <=> c \in Copies
    BY CopyFacts DEF IsCopy
  <1>2. ASSUME IsCopy(c)
        PROVE  /\ Blur(c, M) \in Copies
               /\ Blur(c, M).counts = c.counts
               /\ Blur(c, M).blurred = c.blurred \cup M
    <2>1. Blur(c, M) = [c EXCEPT !.blurred = c.blurred \cup M]
      BY <1>2 DEF Blur
    <2>2. c \in Copies /\ c.blurred \cup M \in SUBSET Movements
      BY <1>1, <1>2, CopyFacts
    <2> QED
      BY <2>1, <2>2 DEF Copies
  <1>3. ~IsCopy(c) => Blur(c, M) = c
    BY DEF Blur
  <1> QED
    BY <1>1, <1>2, <1>3

\* The movements of M are made or undone: the fills on the way are marked.
LEMMA MarksFills ==
  ASSUME BalanceInv, NEW M \in SUBSET Movements,
         news' = news \/ \E m \in M : news' = [news EXCEPT ![m] = "pending"],
         BlursFills(M),
         \A x \in Movements \ M : x \in moved' <=> x \in moved
  PROVE  /\ news' \in [Movements -> {"due", "pending", "told"}]
         /\ fill' \in [Readers -> Copies \cup {NoBalance, Missed}]
         /\ FillsMarked'
  <1>1. fill \in [Readers -> Copies \cup {NoBalance, Missed}]
    BY DEF BalanceInv, BalanceTypeOK
  <1>2. \A r \in Readers : fill'[r] = Blur(fill[r], M)
    BY DEF BlursFills
  <1>3. \A r \in Readers : fill'[r] \in Copies \cup {NoBalance, Missed}
    BY <1>1, <1>2, BlurFacts
  <1>4. fill' \in [Readers -> Copies \cup {NoBalance, Missed}]
    BY <1>3 DEF BlursFills
  <1>5. /\ news \in [Movements -> {"due", "pending", "told"}]
        /\ news' \in [Movements -> {"due", "pending", "told"}]
        /\ \A x \in Movements \ M : news'[x] = news[x]
    BY DEF BalanceInv, BalanceTypeOK
  <1>6. FillsMarked'
    <2> SUFFICES ASSUME NEW r \in Readers, IsCopy(fill'[r]), NEW x \in Movements
                 PROVE  /\ fill'[r].counts[x] <= 1
                        /\ fill'[r].counts[x] = Counted(moved')[x] \/ x \in fill'[r].blurred
                        /\ news'[x] = "pending" => x \in fill'[r].blurred
      BY DEF FillsMarked, FillMarked, IsCopy, Counted, Movements
    <2>1. IsCopy(fill[r])
      BY <1>1, <1>2, BlurFacts
    <2>2. fill'[r].counts = fill[r].counts /\ fill'[r].blurred = fill[r].blurred \cup M
      BY <1>1, <1>2, <2>1, BlurFacts
    <2>3. FillMarked(fill[r])
      BY <2>1 DEF BalanceInv, FillsMarked
    <2>4. CASE x \in M
      BY <2>2, <2>3, <2>4 DEF FillMarked
    <2>5. CASE x \notin M
      <3>1. Counted(moved')[x] = Counted(moved)[x]
        BY <2>5 DEF Counted
      <3>2. news'[x] = news[x]
        BY <1>5, <2>5
      <3> QED
        BY <2>2, <2>3, <3>1, <3>2 DEF FillMarked
    <2> QED
      BY <2>4, <2>5
  <1> QED
    BY <1>4, <1>5, <1>6

LEMMA MoveKeeps ==
  ASSUME BalanceInv, NEW m \in Movements, Move(m)
  PROVE  BalanceInv'
  <1>1. /\ news[m] = "due" /\ moved' = moved \cup {m}
        /\ news' = [news EXCEPT ![m] = "pending"]
        /\ BlursFills({m})
        /\ UNCHANGED <<rowRead, cached, balanceFaults>>
    BY DEF Move
  <1>2. /\ news' \in [Movements -> {"due", "pending", "told"}]
        /\ fill' \in [Readers -> Copies \cup {NoBalance, Missed}]
        /\ FillsMarked'
    BY <1>1, MarksFills
  <1>3. news'[m] = "pending" /\ \A x \in Movements \ {m} : news'[x] = news[x]
    BY <1>1 DEF BalanceInv, BalanceTypeOK
  <1>4. BalanceTypeOK'
    BY <1>1, <1>2 DEF BalanceInv, BalanceTypeOK
  <1>5. DueOutside'
    BY <1>1, <1>3 DEF BalanceInv, DueOutside
  <1>6. CountedOnce'
    BY <1>1, <1>3 DEF BalanceInv, CountedOnce
  <1>7. EditPending => EditPending'
    BY <1>1, <1>3 DEF EditPending, Movements
  <1>8. /\ \A x \in Movements \ {m} : Counted(moved')[x] = Counted(moved)[x]
        /\ Counted(moved)[m] = 0
    BY <1>1 DEF Counted, BalanceInv, DueOutside
  <1>9. PendingUncounted'
    <2> SUFFICES ASSUME cached # NoBalance, NEW x \in Movements \ Edits, news'[x] = "pending"
                 PROVE  \/ x \in cached.blurred
                        \/ EditPending'
                        \/ x \in moved' /\ cached.counts[x] = 0
      BY <1>1 DEF PendingUncounted
    <2>1. CASE x = m
      BY <1>1, <1>7, <1>8, <2>1 DEF BalanceInv, BalanceWrongOnlyByOverlap, Right, EditPending
    <2>2. CASE x # m
      BY <1>1, <1>3, <1>7, <2>2 DEF BalanceInv, PendingUncounted
    <2> QED
      BY <2>1, <2>2
  <1>10. BalanceWrongOnlyByOverlap'
    <2> SUFFICES ASSUME cached # NoBalance, NEW x \in Movements
                 PROVE  \/ cached.counts[x] = Counted(moved')[x]
                        \/ x \in cached.blurred
                        \/ news'[x] = "pending"
                        \/ EditPending'
      BY <1>1 DEF BalanceWrongOnlyByOverlap, Right, EditPending
    <2>1. CASE x = m
      BY <1>3, <2>1
    <2>2. CASE x # m
      BY <1>3, <1>7, <1>8, <2>2 DEF BalanceInv, BalanceWrongOnlyByOverlap, Right, EditPending
    <2> QED
      BY <2>1, <2>2
  <1> QED
    BY <1>2, <1>4, <1>5, <1>6, <1>9, <1>10 DEF BalanceInv

LEMMA RowReadsKeeps ==
  ASSUME BalanceInv, NEW e \in Edits \cup Savers, RowReads(e)
  PROVE  BalanceInv'
  <1>1. /\ rowRead' = [rowRead EXCEPT ![e] = moved]
        /\ UNCHANGED <<moved, news, cached, fill, balanceFaults>>
    BY DEF RowReads
  <1>2. BalanceTypeOK'
    BY <1>1 DEF BalanceInv, BalanceTypeOK
  <1>3. DueOutside'
    BY <1>1 DEF BalanceInv, BalanceTypeOK, DueOutside
  <1>4. /\ CountedOnce' /\ FillsMarked' /\ PendingUncounted'
        /\ BalanceWrongOnlyByOverlap'
    BY <1>1 DEF BalanceInv, CountedOnce, FillsMarked, FillMarked, PendingUncounted, EditPending,
                BalanceWrongOnlyByOverlap, Right
  <1> QED
    BY <1>2, <1>3, <1>4 DEF BalanceInv

\* From an edit until Redis is told of it the copy may be wrong about anything.
LEMMA RowWritesKeeps ==
  ASSUME BalanceInv, NEW e \in Edits, RowWrites(e)
  PROVE  BalanceInv'
  <1> DEFINE M == {e} \cup MovedSince(e)
  <1>1. /\ news[e] = "due" /\ rowRead[e] # NoBalance
        /\ moved' = rowRead[e] \cup {e}
        /\ news' = [news EXCEPT ![e] = "pending"]
        /\ BlursFills(M)
        /\ UNCHANGED <<rowRead, cached, balanceFaults>>
    BY DEF RowWrites, MovedSince
  <1>2. e \in Movements /\ rowRead[e] \subseteq Movements /\ moved \subseteq Movements
    BY <1>1 DEF BalanceInv, BalanceTypeOK, Movements
  <1>3. \A x \in Movements \ M : x \in moved' <=> x \in moved
    BY <1>1 DEF MovedSince
  <1>4. /\ news' \in [Movements -> {"due", "pending", "told"}]
        /\ fill' \in [Readers -> Copies \cup {NoBalance, Missed}]
        /\ FillsMarked'
    <2>1. M \in SUBSET Movements /\ e \in M
      BY <1>2 DEF MovedSince
    <2> HIDE DEF M
    <2> QED
      BY <1>1, <1>2, <1>3, <2>1, MarksFills
  <1>5. news'[e] = "pending" /\ \A x \in Movements \ {e} : news'[x] = news[x]
    BY <1>1, <1>2 DEF BalanceInv, BalanceTypeOK
  <1>6. BalanceTypeOK'
    BY <1>1, <1>2, <1>4 DEF BalanceInv, BalanceTypeOK
  <1>7. DueOutside'
    BY <1>1, <1>5 DEF BalanceInv, DueOutside
  <1>8. CountedOnce'
    BY <1>1, <1>5 DEF BalanceInv, CountedOnce
  <1>9. EditPending'
    BY <1>5 DEF EditPending
  <1>10. PendingUncounted' /\ BalanceWrongOnlyByOverlap'
    BY <1>9 DEF PendingUncounted, BalanceWrongOnlyByOverlap, EditPending
  <1> QED
    BY <1>4, <1>6, <1>7, <1>8, <1>10 DEF BalanceInv

\* The row is saved over what has moved since: the copy and the fills are marked
\* with it, and right about the rest.
LEMMA RowSavedKeeps ==
  ASSUME BalanceInv, NEW w \in Savers, RowSaved(w)
  PROVE  BalanceInv'
  <1> DEFINE M == MovedSince(w)
  <1>1. /\ rowRead[w] # NoBalance /\ moved' = rowRead[w]
        /\ rowRead' = [rowRead EXCEPT ![w] = NoBalance]
        /\ BlursFills(M) /\ cached' = Blur(cached, M)
        /\ UNCHANGED <<news, balanceFaults>>
    BY DEF RowSaved
  <1>2. /\ rowRead[w] \subseteq Movements /\ moved \subseteq Movements
        /\ cached \in Copies \cup {NoBalance, Missed}
        /\ cached \in Copies \cup {NoBalance}
    BY <1>1 DEF BalanceInv, BalanceTypeOK
  <1>3. /\ M \in SUBSET Movements
        /\ \A x \in Movements \ M : x \in moved' <=> x \in moved
    BY <1>1, <1>2 DEF MovedSince
  <1> HIDE DEF M
  <1>4. /\ fill' \in [Readers -> Copies \cup {NoBalance, Missed}]
        /\ FillsMarked'
    BY <1>1, <1>3, MarksFills
  <1>5. /\ cached' \in Copies \cup {NoBalance}
        /\ cached' # NoBalance => /\ cached # NoBalance
                                  /\ cached'.counts = cached.counts
                                  /\ cached'.blurred = cached.blurred \cup M
    <2>1. CASE cached = NoBalance
      <3>1. cached' = NoBalance
        BY <1>1, <2>1 DEF Blur, IsCopy
      <3> QED
        BY <3>1
    <2>2. CASE cached # NoBalance
      <3>1. cached \in Copies /\ IsCopy(cached)
        BY <1>2, <2>2, CopyFacts
      <3>2. /\ Blur(cached, M) \in Copies
            /\ Blur(cached, M).counts = cached.counts
            /\ Blur(cached, M).blurred = cached.blurred \cup M
        BY <1>3, <3>1, BlurFacts
      <3> QED
        BY <1>1, <2>2, <3>2
    <2> QED
      BY <2>1, <2>2
  <1>6. BalanceTypeOK'
    BY <1>1, <1>2, <1>4, <1>5 DEF BalanceInv, BalanceTypeOK
  <1>7. DueOutside'
    <2>1. rowRead' \in [Edits \cup Savers -> (SUBSET Movements) \cup {NoBalance}]
      BY <1>6 DEF BalanceTypeOK
    <2>2. \A e \in Edits \cup Savers : rowRead'[e] # NoBalance => rowRead'[e] = rowRead[e]
      BY <1>1, <2>1
    <2> QED
      BY <1>1, <2>2 DEF BalanceInv, DueOutside
  <1>8. CountedOnce'
    BY <1>1, <1>5 DEF BalanceInv, CountedOnce
  <1>9. PendingUncounted'
    BY <1>1, <1>3, <1>5 DEF BalanceInv, PendingUncounted, EditPending
  <1>10. \A x \in Movements \ M : Counted(moved')[x] = Counted(moved)[x]
    BY <1>3 DEF Counted
  <1>11. BalanceWrongOnlyByOverlap'
    BY <1>1, <1>5, <1>10 DEF BalanceInv, BalanceWrongOnlyByOverlap, Right
  <1> QED
    BY <1>4, <1>6, <1>7, <1>8, <1>9, <1>11 DEF BalanceInv

-----------------------------------------------------------------------------
\* Redis is told of a movement, or will never be: the copy is deleted, or marked
\* with all; or, if the movement is not an edit, it is in the copy once more, or
\* the copy is marked with it.
LEMMA TellKeeps ==
  ASSUME BalanceInv, NEW m \in Movements, news[m] = "pending", Tell(m),
         UNCHANGED <<moved, rowRead, fill>>,
         BalanceFault \/ UNCHANGED balanceFaults,
         cached' \in Copies \cup {NoBalance},
         cached' # NoBalance =>
           /\ cached # NoBalance
           /\ \A x \in Movements \ {m} : cached'.counts[x] = cached.counts[x]
           /\ cached.blurred \subseteq cached'.blurred
           /\ \/ Movements \subseteq cached'.blurred
              \/ /\ m \notin Edits
                 /\ m \in cached'.blurred \/ cached'.counts[m] = cached.counts[m] + 1
  PROVE  BalanceInv'
  <1>1. news \in [Movements -> {"due", "pending", "told"}]
    BY DEF BalanceInv, BalanceTypeOK
  <1>2. news'[m] = "told" /\ \A x \in Movements \ {m} : news'[x] = news[x]
    BY <1>1 DEF Tell
  <1>3. balanceFaults' \in 0 .. MaxBalanceFaults
    BY BalanceAssumption DEF BalanceFault, BalanceInv, BalanceTypeOK
  <1>4. BalanceTypeOK'
    BY <1>1, <1>3 DEF BalanceInv, BalanceTypeOK, Tell
  <1>5. DueOutside'
    BY <1>2 DEF BalanceInv, DueOutside
  <1>6. FillsMarked'
    BY <1>2 DEF BalanceInv, FillsMarked, FillMarked
  <1>7. CountedOnce'
    BY <1>2 DEF BalanceInv, CountedOnce
  <1>8. m \notin Edits => (EditPending => EditPending')
    BY <1>2 DEF EditPending, Movements
  <1>9. PendingUncounted'
    <2> SUFFICES ASSUME cached' # NoBalance, NEW x \in Movements \ Edits, news'[x] = "pending"
                 PROVE  \/ x \in cached'.blurred
                        \/ EditPending'
                        \/ x \in moved /\ cached'.counts[x] = 0
      BY DEF PendingUncounted
    <2>1. x # m /\ news[x] = "pending"
      BY <1>2
    <2>2. x \in cached.blurred \/ EditPending \/ (x \in moved /\ cached.counts[x] = 0)
      BY <2>1 DEF BalanceInv, PendingUncounted
    <2> QED
      BY <1>8, <2>1, <2>2
  <1>10. BalanceWrongOnlyByOverlap'
    <2> SUFFICES ASSUME cached' # NoBalance, NEW x \in Movements
                 PROVE  \/ cached'.counts[x] = Counted(moved)[x]
                        \/ x \in cached'.blurred
                        \/ news'[x] = "pending"
                        \/ EditPending'
      BY DEF BalanceWrongOnlyByOverlap, Right, EditPending
    <2>1. CASE Movements \subseteq cached'.blurred
      BY <2>1
    <2>2. CASE m \notin Edits /\ (m \in cached'.blurred \/ cached'.counts[m] = cached.counts[m] + 1)
      <3>1. CASE x # m
        BY <1>2, <1>8, <2>2, <3>1 DEF BalanceInv, BalanceWrongOnlyByOverlap, Right, EditPending
      <3>2. CASE x = m
        <4>1. m \in cached.blurred \/ EditPending \/ (m \in moved /\ cached.counts[m] = 0)
          BY <2>2 DEF BalanceInv, PendingUncounted
        <4>2. m \in moved => Counted(moved)[m] = 1
          BY DEF Counted
        <4> QED
          BY <1>8, <2>2, <3>2, <4>1, <4>2
      <3> QED
        BY <3>1, <3>2
    <2> QED
      BY <2>1, <2>2
  <1> QED
    BY <1>4, <1>5, <1>6, <1>7, <1>9, <1>10 DEF BalanceInv

LEMMA DeductFacts ==
  ASSUME BalanceInv, NEW m \in Movements, news[m] = "pending", NEW n \in 0 .. 2
  PROVE  /\ cached = NoBalance => Deduct(m, n) = NoBalance
         /\ cached # NoBalance =>
              /\ Deduct(m, n) \in Copies
              /\ Deduct(m, n).counts[m] = cached.counts[m] + n
              /\ \A x \in Movements \ {m} : Deduct(m, n).counts[x] = cached.counts[x]
              /\ Deduct(m, n).blurred = cached.blurred
  <1>1. cached = NoBalance => Deduct(m, n) = NoBalance
    BY DEF Deduct
  <1>2. ASSUME cached # NoBalance
        PROVE  /\ Deduct(m, n) \in Copies
               /\ Deduct(m, n).counts[m] = cached.counts[m] + n
               /\ \A x \in Movements \ {m} : Deduct(m, n).counts[x] = cached.counts[x]
               /\ Deduct(m, n).blurred = cached.blurred
    <2> DEFINE d == [cached.counts EXCEPT ![m] = cached.counts[m] + n]
    <2>1. cached \in Copies /\ cached.counts \in [Movements -> 0 .. 3] /\ cached.counts[m] <= 1
      BY <1>2, CopyFacts DEF BalanceInv, BalanceTypeOK, CountedOnce
    <2>2. cached.counts[m] + n \in 0 .. 3
      BY <2>1
    <2>3. /\ d \in [Movements -> 0 .. 3] /\ d[m] = cached.counts[m] + n
          /\ \A x \in Movements \ {m} : d[x] = cached.counts[x]
      BY <2>1, <2>2
    <2>4. Deduct(m, n) = [cached EXCEPT !.counts = d]
      BY <1>2 DEF Deduct, Deducted
    <2> HIDE DEF d
    <2>5. /\ [cached EXCEPT !.counts = d] \in Copies
          /\ [cached EXCEPT !.counts = d].counts = d
          /\ [cached EXCEPT !.counts = d].blurred = cached.blurred
      BY <2>1, <2>3 DEF Copies
    <2> QED
      BY <2>3, <2>4, <2>5
  <1> QED
    BY <1>1, <1>2

LEMMA DeductKeeps ==
  ASSUME BalanceInv, NEW m \in Deductions, DeductUserBalance(m)
  PROVE  BalanceInv'
  <1>1. /\ m \in Movements /\ m \notin Edits
        /\ news[m] = "pending" /\ Tell(m)
        /\ UNCHANGED <<moved, rowRead, fill>>
        /\ BalanceFault \/ UNCHANGED balanceFaults
    BY BalanceAssumption DEF DeductUserBalance, Movements
  <1>2. PICK n \in 0 .. 2 :
          \/ n = 1 /\ cached' = Deduct(m, n)
          \/ cached' = Blur(Deduct(m, n), {m})
    BY DEF DeductUserBalance
  <1>3. CASE cached = NoBalance
    <2>1. cached' = NoBalance
      BY <1>1, <1>2, <1>3, DeductFacts DEF Blur, IsCopy
    <2> QED
      BY <1>1, <2>1, TellKeeps
  <1>4. CASE cached # NoBalance
    <2>1. /\ Deduct(m, n) \in Copies
          /\ Deduct(m, n).counts[m] = cached.counts[m] + n
          /\ \A x \in Movements \ {m} : Deduct(m, n).counts[x] = cached.counts[x]
          /\ Deduct(m, n).blurred = cached.blurred
      BY <1>1, <1>4, DeductFacts
    <2>2. {m} \in SUBSET Movements
      BY <1>1
    <2>3. /\ Blur(Deduct(m, n), {m}) \in Copies
          /\ Blur(Deduct(m, n), {m}).counts = Deduct(m, n).counts
          /\ Blur(Deduct(m, n), {m}).blurred = Deduct(m, n).blurred \cup {m}
      BY <2>1, <2>2, BlurFacts, CopyFacts
    <2>4. /\ cached' \in Copies
          /\ \A x \in Movements \ {m} : cached'.counts[x] = cached.counts[x]
          /\ cached.blurred \subseteq cached'.blurred
          /\ m \in cached'.blurred \/ cached'.counts[m] = cached.counts[m] + 1
      BY <1>2, <2>1, <2>3
    <2> QED
      BY <1>1, <1>4, <2>4, TellKeeps
  <1> QED
    BY <1>3, <1>4

\* The copy is marked with more, and keeps its counts.
LEMMA MarksKeep ==
  ASSUME BalanceInv, NEW m \in Movements, news[m] = "pending", Tell(m),
         UNCHANGED <<moved, rowRead, fill>>,
         BalanceFault \/ UNCHANGED balanceFaults,
         NEW M \in SUBSET Movements, cached' = Blur(cached, M),
         Movements \subseteq M \/ (m \notin Edits /\ m \in M)
  PROVE  BalanceInv'
  <1>1. cached \in Copies \cup {NoBalance, Missed} /\ cached \in Copies \cup {NoBalance}
    BY DEF BalanceInv, BalanceTypeOK
  <1>2. CASE cached = NoBalance
    BY <1>2, TellKeeps DEF Blur, IsCopy
  <1>3. CASE cached # NoBalance
    <2>1. IsCopy(cached)
      BY <1>1, <1>3, CopyFacts
    <2>2. cached' \in Copies /\ cached'.counts = cached.counts /\ cached'.blurred = cached.blurred \cup M
      BY <1>1, <2>1, BlurFacts
    <2> QED
      BY <1>3, <2>2, TellKeeps
  <1> QED
    BY <1>2, <1>3

LEMMA InvalidateKeeps ==
  ASSUME BalanceInv, NEW m \in Movements, InvalidateUserBalance(m)
  PROVE  BalanceInv'
  <1>1. /\ news[m] = "pending" /\ Tell(m)
        /\ UNCHANGED <<moved, rowRead, fill>>
        /\ BalanceFault \/ UNCHANGED balanceFaults
        /\ cached' = NoBalance \/ cached' = Blur(cached, Movements)
    BY DEF InvalidateUserBalance
  <1>2. CASE cached' = NoBalance
    BY <1>1, <1>2, TellKeeps
  <1>3. CASE cached' = Blur(cached, Movements)
    <2>1. Movements \in SUBSET Movements
      OBVIOUS
    <2> QED
      BY <1>1, <1>3, <2>1, MarksKeep
  <1> QED
    BY <1>1, <1>2, <1>3

LEMMA NewsLostKeeps ==
  ASSUME BalanceInv, NEW m \in Movements, NewsLost(m)
  PROVE  BalanceInv'
  <1> DEFINE M == IF m \in Edits THEN Movements ELSE {m}
  <1>1. /\ news[m] = "pending" /\ Tell(m)
        /\ UNCHANGED <<moved, rowRead, fill>>
        /\ BalanceFault
        /\ cached' = Blur(cached, M)
    BY DEF NewsLost
  <1>2. M \in SUBSET Movements /\ (Movements \subseteq M \/ (m \notin Edits /\ m \in M))
    OBVIOUS
  <1> HIDE DEF M
  <1> QED
    BY <1>1, <1>2, MarksKeep

-----------------------------------------------------------------------------
\* The steps of requests.
LEMMA ReaderKeeps ==
  ASSUME BalanceInv,
         UNCHANGED <<moved, news, rowRead>>,
         BalanceFault \/ UNCHANGED balanceFaults,
         NEW r \in Readers, NEW c \in Copies \cup {NoBalance, Missed},
         fill' = [fill EXCEPT ![r] = c],
         IsCopy(c) => FillMarked(c),
         cached' = cached \/ (IsCopy(fill[r]) /\ cached' = fill[r])
  PROVE  BalanceInv'
  <1>1. /\ fill \in [Readers -> Copies \cup {NoBalance, Missed}]
        /\ cached \in Copies \cup {NoBalance}
    BY DEF BalanceInv, BalanceTypeOK
  <1>2. fill'[r] = c /\ \A s \in Readers \ {r} : fill'[s] = fill[s]
    BY <1>1
  <1>3. balanceFaults' \in 0 .. MaxBalanceFaults
    BY BalanceAssumption DEF BalanceFault, BalanceInv, BalanceTypeOK
  <1>4. IsCopy(fill[r]) => fill[r] \in Copies /\ FillMarked(fill[r])
    BY <1>1 DEF IsCopy, BalanceInv, FillsMarked
  <1>5. BalanceTypeOK'
    BY <1>1, <1>3, <1>4 DEF BalanceInv, BalanceTypeOK
  <1>6. DueOutside'
    BY DEF BalanceInv, DueOutside
  <1>7. FillsMarked'
    BY <1>2 DEF BalanceInv, FillsMarked, FillMarked, IsCopy
  <1>8. CountedOnce'
    BY <1>4 DEF BalanceInv, CountedOnce, FillMarked
  <1>9. PendingUncounted'
    BY <1>4 DEF BalanceInv, PendingUncounted, FillMarked, EditPending
  <1>10. BalanceWrongOnlyByOverlap'
    BY <1>4 DEF BalanceInv, BalanceWrongOnlyByOverlap, FillMarked, Right
  <1> QED
    BY <1>5, <1>6, <1>7, <1>8, <1>9, <1>10 DEF BalanceInv

LEMMA FillsKeep ==
  ASSUME BalanceInv, NEW r \in Readers, FindsNoCopy(r) \/ Fills(r)
  PROVE  BalanceInv'
  <1>1. CASE FindsNoCopy(r)
    <2>1. ~IsCopy(Missed)
      BY DEF IsCopy
    <2> QED
      BY <1>1, <2>1, ReaderKeeps DEF FindsNoCopy
  <1>2. CASE GetUserBalanceFromDB(r)
    <2> DEFINE c == [counts |-> Counted(moved), blurred |-> Pending]
    <2>1. c \in Copies /\ c.counts = Counted(moved) /\ c.blurred = Pending
      BY CountedFacts DEF Copies, Pending
    <2>2. fill' = [fill EXCEPT ![r] = c] /\ UNCHANGED <<moved, news, rowRead, cached, balanceFaults>>
      BY <1>2 DEF GetUserBalanceFromDB
    <2> HIDE DEF c
    <2>3. FillMarked(c)
      BY <2>1, CountedFacts DEF FillMarked, Pending
    <2> QED
      BY <2>1, <2>2, <2>3, ReaderKeeps
  <1>3. CASE SetUserBalance(r)
    <2>1. ~IsCopy(NoBalance)
      BY DEF IsCopy
    <2> QED
      BY <1>3, <2>1, ReaderKeeps DEF SetUserBalance
  <1> QED
    BY <1>1, <1>2, <1>3 DEF Fills

LEMMA CopyExpiresKeeps ==
  ASSUME BalanceInv, CopyExpires
  PROVE  BalanceInv'
  BY DEF CopyExpires, BalanceInv, BalanceTypeOK, DueOutside, CountedOnce, FillsMarked, FillMarked,
         PendingUncounted, BalanceWrongOnlyByOverlap

\* BalanceInv is inductive.
THEOREM BalanceInvariant == BalanceSpec => []BalanceInv
  <1>1. BalanceInit => BalanceInv
    <2> SUFFICES ASSUME BalanceInit
                 PROVE  BalanceInv
      OBVIOUS
    <2>1. BalanceTypeOK
      BY BalanceAssumption DEF BalanceInit, BalanceTypeOK
    <2> QED
      BY <2>1 DEF BalanceInit, BalanceInv, DueOutside, CountedOnce, FillsMarked, IsCopy,
                  PendingUncounted, BalanceWrongOnlyByOverlap
  <1>2. BalanceInv /\ [BalanceNext]_balanceVars => BalanceInv'
    <2> SUFFICES ASSUME BalanceInv, [BalanceNext]_balanceVars
                 PROVE  BalanceInv'
      OBVIOUS
    <2>1. CASE UNCHANGED balanceVars
      BY <2>1 DEF balanceVars, BalanceInv, BalanceTypeOK, DueOutside, CountedOnce, FillsMarked,
                  FillMarked, PendingUncounted, EditPending, BalanceWrongOnlyByOverlap, Right
    <2>2. CASE \E m \in Deductions \cup Credits : Move(m)
      BY <2>2, MoveKeeps DEF Movements
    <2>3. CASE \E e \in Edits : RowReads(e) \/ RowWrites(e)
      BY <2>3, RowReadsKeeps, RowWritesKeeps
    <2>6. CASE \E w \in Savers : RowReads(w) \/ RowSaved(w)
      BY <2>6, RowReadsKeeps, RowSavedKeeps
    <2>4. CASE \E m \in Movements : TellsRedis(m)
      BY <2>4, DeductKeeps, InvalidateKeeps, NewsLostKeeps DEF TellsRedis
    <2>5. CASE \E r \in Readers : FindsNoCopy(r) \/ Fills(r)
      BY <2>5, FillsKeep
    <2> QED
      BY <2>1, <2>2, <2>3, <2>4, <2>5, <2>6, CopyExpiresKeeps DEF BalanceNext
  <1> QED
    BY <1>1, <1>2, PTL DEF BalanceSpec

\* Every variable of the copy has its type, and a copy counts no movement more
\* than three times.
THEOREM BalanceTypeCorrect == BalanceSpec => []BalanceTypeOK
  <1>1. BalanceInv => BalanceTypeOK
    BY DEF BalanceInv
  <1> QED
    BY <1>1, BalanceInvariant, PTL

\* For any charges, credits, edits, saved rows and requests, told to Redis in any
\* order, twice or never: the copy is wrong about a movement only while Redis has
\* yet to be told of it or of an edit, by an overlap, by news that got lost, or
\* where a row of the user was saved over the movement.
THEOREM WrongByOverlap == BalanceSpec => []BalanceWrongOnlyByOverlap
  <1>1. BalanceInv => BalanceWrongOnlyByOverlap
    BY DEF BalanceInv
  <1> QED
    BY <1>1, BalanceInvariant, PTL

-----------------------------------------------------------------------------
(* UsageWindows *)

\* A visit that nobody has overtaken in a window it has yet to look at has read
\* the start that the window still has.
ReadStill ==
  \A q \in Visits, w \in Windows :
    /\ visit[q] # NoVisit
    /\ visit[q].at = "rolling" => w = "rolling"
    /\ w \notin visit[q].overtaken
    /\ visit[q].window[w] # NotBegun
    => window[w] = visit[q].window[w]

WindowsInv == WindowsTypeOK /\ opened = window /\ ReadStill

LEMMA StartOfDayType ==
  ASSUME NEW t \in Times
  PROVE  StartOfDay(t) \in Times
  <1>1. t \in Nat /\ t <= MaxClock /\ TicksPerDay \in Nat /\ TicksPerDay > 0 /\ MaxClock \in Nat
    BY WindowsAssumption DEF Times
  <1>2. t % TicksPerDay \in Nat /\ t % TicksPerDay <= t
    BY <1>1
  <1> QED
    BY <1>1, <1>2 DEF StartOfDay, Times

LEMMA AfterWindowFacts ==
  ASSUME WindowsTypeOK, NEW q \in Visits, visit[q] # NoVisit
  PROVE  /\ AfterWindow(q) \in Visiting \cup {NoVisit}
         /\ AfterWindow(q) # NoVisit =>
              /\ visit[q].at = "daily" /\ AfterWindow(q).at = "rolling"
              /\ AfterWindow(q).window = visit[q].window
              /\ AfterWindow(q).overtaken = visit[q].overtaken
  <1>1. visit[q] \in Visiting
    BY DEF WindowsTypeOK
  <1>2. CASE visit[q].at = "daily"
    <2>1. AfterWindow(q) = [visit[q] EXCEPT !.at = "rolling"]
      BY <1>2 DEF AfterWindow
    <2> QED
      BY <1>1, <1>2, <2>1 DEF Visiting
  <1>3. CASE visit[q].at # "daily"
    BY <1>3 DEF AfterWindow
  <1> QED
    BY <1>2, <1>3

\* A visit begins the windows of W: the others learn of it.
LEMMA OvertakesKeeps ==
  ASSUME WindowsInv, NEW q \in Visits, NEW W \in SUBSET Windows,
         NEW then \in Visiting \cup {NoVisit},
         visit[q] # NoVisit,
         Overtakes(q, W, then),
         \A w \in Windows \ W : window'[w] = window[w],
         then # NoVisit =>
           /\ then.at # "activate" /\ (visit[q].at = "rolling" => then.at = "rolling")
           /\ then.window = visit[q].window /\ then.overtaken = visit[q].overtaken
           /\ \A w \in W : (then.at = "rolling" => w = "rolling") => then.window[w] = NotBegun
  PROVE  visit' \in [Visits -> Visiting \cup {NoVisit}] /\ ReadStill'
  <1>1. visit \in [Visits -> Visiting \cup {NoVisit}]
    BY DEF WindowsInv, WindowsTypeOK
  <1>2. visit'[q] = then
    BY DEF Overtakes
  <1>3. \A p \in Visits \ {q} :
          /\ visit[p] = NoVisit => visit'[p] = NoVisit
          /\ visit[p] # NoVisit =>
               /\ visit'[p] \in Visiting
               /\ visit'[p].at = visit[p].at
               /\ visit'[p].window = visit[p].window
               /\ visit'[p].overtaken = visit[p].overtaken \cup W
    <2> TAKE p \in Visits \ {q}
    <2>1. visit[p] = NoVisit => visit'[p] = NoVisit
      BY DEF Overtakes
    <2>2. ASSUME visit[p] # NoVisit
          PROVE  /\ visit'[p] \in Visiting
                 /\ visit'[p].at = visit[p].at
                 /\ visit'[p].window = visit[p].window
                 /\ visit'[p].overtaken = visit[p].overtaken \cup W
      <3>1. visit'[p] = [visit[p] EXCEPT !.overtaken = visit[p].overtaken \cup W]
        BY <2>2 DEF Overtakes
      <3>2. visit[p] \in Visiting
        BY <1>1, <2>2
      <3> QED
        BY <3>1, <3>2 DEF Visiting
    <2> QED
      BY <2>1, <2>2
  <1>4. visit' \in [Visits -> Visiting \cup {NoVisit}]
    <2>1. \A p \in Visits : visit'[p] \in Visiting \cup {NoVisit}
      BY <1>2, <1>3
    <2>2. visit' = [p \in Visits |-> visit'[p]]
      BY DEF Overtakes
    <2> QED
      BY <2>1, <2>2
  <1>5. ReadStill'
    <2> SUFFICES ASSUME NEW p \in Visits, NEW w \in Windows,
                        visit'[p] # NoVisit,
                        visit'[p].at = "rolling" => w = "rolling",
                        w \notin visit'[p].overtaken,
                        visit'[p].window[w] # NotBegun
                 PROVE  window'[w] = visit'[p].window[w]
      BY DEF ReadStill
    <2>1. CASE p = q
      <3>1. w \notin W
        BY <1>2, <2>1
      <3>2. /\ visit[q].at = "rolling" => w = "rolling"
            /\ w \notin visit[q].overtaken /\ visit[q].window[w] # NotBegun
        BY <1>2, <2>1
      <3>3. window[w] = visit[q].window[w]
        BY <3>2 DEF WindowsInv, ReadStill
      <3> QED
        BY <1>2, <2>1, <3>1, <3>3
    <2>2. CASE p # q
      <3>1. visit[p] # NoVisit /\ w \notin W
        BY <1>3, <2>2
      <3>2. window[w] = visit[p].window[w]
        BY <1>3, <2>2, <3>1 DEF WindowsInv, ReadStill
      <3> QED
        BY <1>3, <2>2, <3>1, <3>2
    <2> QED
      BY <2>1, <2>2
  <1> QED
    BY <1>4, <1>5

\* A step of one visit that begins no window.
LEMMA VisitGoesOn ==
  ASSUME WindowsInv, NEW q \in Visits, NEW then \in Visiting \cup {NoVisit},
         visit' = [visit EXCEPT ![q] = then],
         UNCHANGED <<window, opened>>,
         then # NoVisit =>
           \/ then.window = window
           \/ /\ visit[q] # NoVisit
              /\ then.at # "activate" /\ (visit[q].at = "rolling" => then.at = "rolling")
              /\ then.window = visit[q].window /\ then.overtaken = visit[q].overtaken
  PROVE  visit' \in [Visits -> Visiting \cup {NoVisit}] /\ ReadStill'
  <1>1. visit \in [Visits -> Visiting \cup {NoVisit}]
    BY DEF WindowsInv, WindowsTypeOK
  <1>2. visit'[q] = then /\ \A p \in Visits \ {q} : visit'[p] = visit[p]
    BY <1>1
  <1>3. ReadStill'
    <2> SUFFICES ASSUME NEW p \in Visits, NEW w \in Windows,
                        visit'[p] # NoVisit,
                        visit'[p].at = "rolling" => w = "rolling",
                        w \notin visit'[p].overtaken,
                        visit'[p].window[w] # NotBegun
                 PROVE  window[w] = visit'[p].window[w]
      BY DEF ReadStill
    <2>1. CASE p = q
      BY <1>2, <2>1 DEF WindowsInv, ReadStill
    <2>2. CASE p # q
      BY <1>2, <2>2 DEF WindowsInv, ReadStill
    <2> QED
      BY <2>1, <2>2
  <1> QED
    BY <1>1, <1>3

-----------------------------------------------------------------------------
LEMMA ReadsSubscriptionKeeps ==
  ASSUME WindowsInv, NEW q \in Visits, ReadsSubscription(q)
  PROVE  WindowsInv'
  <1> DEFINE then == [at |-> "activate", window |-> window, now |-> 0, overtaken |-> {}]
  <1>1. /\ visit' = [visit EXCEPT ![q] = then]
        /\ UNCHANGED <<clock, window, usage, charges, opened>>
    BY DEF ReadsSubscription
  <1>2. then \in Visiting /\ then.window = window
    BY WindowsAssumption DEF WindowsInv, WindowsTypeOK, Visiting, Times
  <1> HIDE DEF then
  <1>3. visit' \in [Visits -> Visiting \cup {NoVisit}] /\ ReadStill'
    BY <1>1, <1>2, VisitGoesOn
  <1> QED
    BY <1>1, <1>3 DEF WindowsInv, WindowsTypeOK

LEMMA ActivateKeeps ==
  ASSUME WindowsInv, NEW q \in Visits, CheckAndActivateWindow(q)
  PROVE  WindowsInv'
  <1> DEFINE then == [visit[q] EXCEPT !.at = "daily", !.now = clock]
  <1>1. /\ visit[q] \in Visiting /\ visit[q] # NoVisit /\ visit[q].at = "activate"
        /\ clock \in Times
        /\ UNCHANGED <<clock, usage, charges>>
    BY DEF CheckAndActivateWindow, WindowsInv, WindowsTypeOK
  <1>2. /\ then \in Visiting /\ then.at = "daily" /\ then.window = visit[q].window
        /\ then.overtaken = visit[q].overtaken
    BY <1>1 DEF Visiting
  <1>3. \/ /\ \A w \in Windows : visit[q].window[w] = NotBegun
           /\ window' = [w \in Windows |-> StartOfDay(clock)]
           /\ opened' = [w \in Windows |-> StartOfDay(clock)]
           /\ Overtakes(q, Windows, then)
        \/ /\ visit' = [visit EXCEPT ![q] = then]
           /\ UNCHANGED <<window, opened>>
    BY DEF CheckAndActivateWindow
  <1> HIDE DEF then
  <1>4. CASE /\ \A w \in Windows : visit[q].window[w] = NotBegun
             /\ window' = [w \in Windows |-> StartOfDay(clock)]
             /\ opened' = [w \in Windows |-> StartOfDay(clock)]
             /\ Overtakes(q, Windows, then)
    <2>1. visit' \in [Visits -> Visiting \cup {NoVisit}] /\ ReadStill'
      BY <1>1, <1>2, <1>4, OvertakesKeeps
    <2>2. window' \in [Windows -> Starts]
      BY <1>1, <1>4, StartOfDayType DEF Starts
    <2> QED
      BY <1>1, <1>4, <2>1, <2>2 DEF WindowsInv, WindowsTypeOK
  <1>5. CASE visit' = [visit EXCEPT ![q] = then] /\ UNCHANGED <<window, opened>>
    <2>1. visit' \in [Visits -> Visiting \cup {NoVisit}] /\ ReadStill'
      BY <1>1, <1>2, <1>5, VisitGoesOn
    <2> QED
      BY <1>1, <1>5, <2>1 DEF WindowsInv, WindowsTypeOK
  <1> QED
    BY <1>3, <1>4, <1>5

LEMMA ResetKeeps ==
  ASSUME WindowsInv, NEW q \in Visits, visit[q] # NoVisit, visit[q].at \in Windows, ResetWindow(q)
  PROVE  WindowsInv'
  <1> DEFINE w == visit[q].at
  <1>1. /\ window' = [window EXCEPT ![w] = NewStart(w, visit[q].now)]
        /\ opened' = [opened EXCEPT ![w] = NewStart(w, visit[q].now)]
        /\ usage' = [usage EXCEPT ![w] = {}]
        /\ Overtakes(q, {w}, AfterWindow(q))
        /\ UNCHANGED <<clock, charges>>
    BY DEF ResetWindow, NewStart
  <1>2. visit[q] \in Visiting /\ visit[q].now \in Times /\ w \in Windows
    BY DEF WindowsInv, WindowsTypeOK, Visiting
  <1>3. NewStart(w, visit[q].now) \in Starts
    BY <1>2, StartOfDayType DEF NewStart, Starts
  <1>4. window' \in [Windows -> Starts] /\ \A x \in Windows \ {w} : window'[x] = window[x]
    BY <1>1, <1>3 DEF WindowsInv, WindowsTypeOK
  <1>5. visit' \in [Visits -> Visiting \cup {NoVisit}] /\ ReadStill'
    <2>1. {w} \in SUBSET Windows /\ AfterWindow(q) \in Visiting \cup {NoVisit}
      BY <1>2, AfterWindowFacts DEF WindowsInv
    <2>2. AfterWindow(q) # NoVisit =>
              /\ w = "daily" /\ AfterWindow(q).at = "rolling"
              /\ AfterWindow(q).window = visit[q].window
              /\ AfterWindow(q).overtaken = visit[q].overtaken
      BY AfterWindowFacts DEF WindowsInv
    <2>3. AfterWindow(q) # NoVisit => \A x \in {w} : ~(x = "rolling")
      BY <2>2
    <2> HIDE DEF w
    <2> QED
      BY <1>1, <1>4, <2>1, <2>2, <2>3, OvertakesKeeps
  <1>6. usage' \in [Windows -> SUBSET Charges]
    BY <1>1 DEF WindowsInv, WindowsTypeOK
  <1>7. opened' = window'
    BY <1>1 DEF WindowsInv
  <1> QED
    BY <1>1, <1>4, <1>5, <1>6, <1>7 DEF WindowsInv, WindowsTypeOK

LEMMA CheckAndResetKeeps ==
  ASSUME WindowsInv, NEW q \in Visits, CheckAndResetWindows(q)
  PROVE  WindowsInv'
  <1>1. visit[q] # NoVisit /\ visit[q].at \in Windows
    BY DEF CheckAndResetWindows
  <1>2. ASSUME NEW then \in {AfterWindow(q), NoVisit},
               visit' = [visit EXCEPT ![q] = then],
               UNCHANGED <<clock, window, usage, charges, opened>>
        PROVE  WindowsInv'
    <2>1. then \in Visiting \cup {NoVisit}
      BY <1>1, AfterWindowFacts DEF WindowsInv
    <2>2. then # NoVisit =>
            /\ visit[q].at = "daily" /\ then.at = "rolling"
            /\ then.window = visit[q].window /\ then.overtaken = visit[q].overtaken
      BY <1>1, AfterWindowFacts DEF WindowsInv
    <2>3. visit' \in [Visits -> Visiting \cup {NoVisit}] /\ ReadStill'
      BY <1>1, <1>2, <2>1, <2>2, VisitGoesOn
    <2> QED
      BY <1>2, <2>3 DEF WindowsInv, WindowsTypeOK
  <1> QED
    BY <1>1, <1>2, ResetKeeps DEF CheckAndResetWindows, KeepWindow, ResetFails

LEMMA IncrementKeeps ==
  ASSUME WindowsInv, NEW c \in Charges, IncrementUsage(c)
  PROVE  WindowsInv'
  <1>1. /\ charges' = charges \cup {c}
        /\ usage' = [w \in Windows |-> usage[w] \cup {c}]
        /\ UNCHANGED <<clock, window, visit, opened>>
    BY DEF IncrementUsage
  <1>2. WindowsTypeOK'
    BY <1>1 DEF WindowsInv, WindowsTypeOK
  <1> QED
    BY <1>1, <1>2 DEF WindowsInv, ReadStill

\* WindowsInv is inductive.
THEOREM WindowsInvariant == WindowsSpec => []WindowsInv
  <1>1. WindowsInit => WindowsInv
    BY WindowsAssumption DEF WindowsInit, WindowsInv, WindowsTypeOK, ReadStill, Times, Starts
  <1>2. WindowsInv /\ [WindowsNext]_windowVars => WindowsInv'
    <2> SUFFICES ASSUME WindowsInv, [WindowsNext]_windowVars
                 PROVE  WindowsInv'
      OBVIOUS
    <2>1. CASE UNCHANGED windowVars
      BY <2>1 DEF windowVars, WindowsInv, WindowsTypeOK, ReadStill
    <2>2. CASE TimeGoesOn
      <3>1. clock' \in Times
        BY <2>2, WindowsAssumption DEF TimeGoesOn, WindowsInv, WindowsTypeOK, Times
      <3> QED
        BY <2>2, <3>1 DEF TimeGoesOn, WindowsInv, WindowsTypeOK, ReadStill
    <2> QED
      BY <2>1, <2>2, ReadsSubscriptionKeeps, ActivateKeeps, CheckAndResetKeeps, IncrementKeeps
      DEF WindowsNext
  <1> QED
    BY <1>1, <1>2, PTL DEF WindowsSpec

\* Every variable of the windows has its type.
THEOREM WindowsTypeCorrect == WindowsSpec => []WindowsTypeOK
  <1>1. WindowsInv => WindowsTypeOK
    BY DEF WindowsInv
  <1> QED
    BY <1>1, WindowsInvariant, PTL

\* For any requests, charges, windows and times: what was charged stays in the sum
\* of a window until the window is over, but for a request that empties it by a
\* row it had read before another one began the window that runs.
THEOREM UsageLostByOverlap == WindowsSpec => UsageLostOnlyByOverlap
  <1> DEFINE Kept ==
        \A w \in Windows :
          ~(usage[w] \subseteq usage'[w]) =>
            \/ opened[w] # NotBegun /\ Over(w, opened[w])
            \/ \E q \in Visits :
                 /\ visit[q] # NoVisit
                 /\ visit[q].at = w
                 /\ w \in visit[q].overtaken
                 /\ visit'[q] = AfterWindow(q)
  <1>1. WindowsInv /\ [WindowsNext]_windowVars => [Kept]_windowVars
    <2> SUFFICES ASSUME WindowsInv, WindowsNext
                 PROVE  Kept
      BY DEF windowVars
    <2>1. ASSUME NEW q \in Visits, visit[q] # NoVisit, visit[q].at \in Windows, ResetWindow(q)
          PROVE  Kept
      <3> SUFFICES ASSUME NEW w \in Windows, ~(usage[w] \subseteq usage'[w])
                   PROVE  \/ opened[w] # NotBegun /\ Over(w, opened[w])
                          \/ /\ visit[q].at = w
                             /\ w \in visit[q].overtaken
                             /\ visit'[q] = AfterWindow(q)
        BY <2>1
      <3>1. w = visit[q].at
        BY <2>1 DEF ResetWindow, WindowsInv, WindowsTypeOK
      <3>2. visit'[q] = AfterWindow(q)
        BY <2>1 DEF ResetWindow, Overtakes
      <3>3. visit[q].window[w] # NotBegun /\ Over(w, visit[q].window[w])
        BY <2>1, <3>1 DEF ResetWindow, NeedsReset
      <3>4. CASE w \notin visit[q].overtaken
        <4>1. opened[w] = visit[q].window[w]
          BY <2>1, <3>1, <3>3, <3>4 DEF WindowsInv, ReadStill
        <4> QED
          BY <3>3, <4>1
      <3> QED
        BY <3>1, <3>2, <3>4
    <2>2. CASE UNCHANGED usage
      BY <2>2
    <2>3. ASSUME NEW c \in Charges, IncrementUsage(c)
          PROVE  Kept
      BY <2>3 DEF IncrementUsage
    <2>4. ASSUME NEW q \in Visits, ReadsSubscription(q) \/ CheckAndActivateWindow(q)
          PROVE  UNCHANGED usage
      BY <2>4 DEF ReadsSubscription, CheckAndActivateWindow
    <2> HIDE DEF Kept
    <2>5. ASSUME NEW q \in Visits, CheckAndResetWindows(q)
          PROVE  Kept
      BY <2>1, <2>2, <2>5 DEF CheckAndResetWindows, KeepWindow, ResetFails
    <2>6. CASE TimeGoesOn
      BY <2>2, <2>6 DEF TimeGoesOn
    <2> QED
      BY <2>2, <2>3, <2>4, <2>5, <2>6 DEF WindowsNext
  <1> QED
    BY <1>1, WindowsInvariant, PTL DEF WindowsSpec, UsageLostOnlyByOverlap
-----------------------------------------------------------------------------
(* MCEntitlements *)

\* Whatever a behaviour of the run is about, it is a behaviour of each component:
\* a step of a part is a step of the component, and the others do not see it.  What
\* is proved of the components is therefore true of what TLC explores.
THEOREM EntitlementsParts ==
  EntitlementsSpec => CreditsSpec /\ EraseSpec /\ BalanceSpec /\ WindowsSpec
  <1>1. EntitlementsInit => CreditsInit /\ EraseInit /\ BalanceInit /\ WindowsInit
    BY DEF EntitlementsInit
  <1>2. ASSUME [EntitlementsNext]_allVars
        PROVE  /\ [CreditsNext]_creditsVars
               /\ [EraseNext]_<<vars, eraseVars>>
               /\ [BalanceNext]_balanceVars
               /\ [WindowsNext]_windowVars
    <2> USE DEF allVars, ledgerVars, otherVars
    <2>1. CASE UNCHANGED allVars
      BY <2>1
    <2>2. CASE PaymentNext /\ UNCHANGED <<promoVars, codeVars, termVars, ledgerVars, otherVars>>
      BY <2>2 DEF CreditsNext
    <2>3. CASE PromoNext /\ UNCHANGED <<orderVars, codeVars, termVars, ledgerVars, otherVars>>
      BY <2>3 DEF CreditsNext
    <2>4. CASE /\ \/ CodeStep
                  \/ \E r \in TermRedeemers : Redeem(r)
                  \/ TermStep /\ UNCHANGED <<codeVars, balance>>
               /\ UNCHANGED <<orderVars, promoVars, ledgerVars, otherVars>>
      <3>1. RedeemNext
        BY <2>4 DEF RedeemNext, CodeStep, TermRedeemers
      <3> QED
        BY <2>4, <3>1 DEF CreditsNext
    <2>5. CASE EraseNext /\ UNCHANGED <<orderVars, promoVars, codeVars, termVars, balance, otherVars>>
      BY <2>5 DEF creditsVars, redeemVars
    <2>6. CASE /\ BalanceNext
               /\ UNCHANGED <<orderVars, promoVars, codeVars, termVars, balance, ledgerVars, windowVars>>
      BY <2>6 DEF creditsVars, redeemVars
    <2>7. CASE /\ WindowsNext
               /\ UNCHANGED <<orderVars, promoVars, codeVars, termVars, balance, ledgerVars, balanceVars>>
      BY <2>7 DEF creditsVars, redeemVars
    <2> QED
      BY <1>2, <2>1, <2>2, <2>3, <2>4, <2>5, <2>6, <2>7 DEF EntitlementsNext
  <1> QED
    BY <1>1, <1>2, PTL DEF EntitlementsSpec, CreditsSpec, EraseSpec, BalanceSpec, WindowsSpec

\* Orders, codes, terms, ledger rows, copy and windows have their types, and a
\* promo code is counted once per use (ApplyPromoCode), in each part of the run.
THEOREM EntitlementsTypeCorrect == EntitlementsSpec => []EntitlementsTypeOK
  <1>1. CreditsTypeOK /\ EraseTypeOK /\ BalanceTypeOK /\ WindowsTypeOK => EntitlementsTypeOK
    BY DEF EntitlementsTypeOK
  <1> QED
    BY <1>1, EntitlementsParts, CreditsTypeCorrect, EraseTypeCorrect, BalanceTypeCorrect,
       WindowsTypeCorrect, PTL
=============================================================================
