----------------------- MODULE ConcurrencySlots_proofs -----------------------
(***************************************************************************)
(* Proofs about ConcurrencySlots for any requests, pools, limits, TTLs and *)
(* faults.                                                                 *)
(*                                                                         *)
(* AtMostLimit speaks of requests and Redis counts slots.  SlotInv ties    *)
(* the two: a pool has no more fresh slots than its limit, the slot that a *)
(* request will release is still fresh, and no two requests of a pool have *)
(* the same slot.  Holders then map one to one into fresh slots.           *)
(***************************************************************************)
EXTENDS ConcurrencySlots, FiniteSetTheorems, FunctionTheorems, TLAPS

\* Redis never counts more fresh slots than the limit.
Capacity == \A p \in Pools : Cardinality(Fresh(slots[p])) <= Limit[p]

\* The slot of a request that has not released it is fresh.
Backed == \A r \in Requests, p \in Pools : token[r][p] # None => token[r][p] \in Fresh(slots[p])

\* Two requests do not share a slot.
Distinct ==
  \A r, s \in Requests, p \in Pools :
    r # s /\ token[r][p] # None => token[r][p] # token[s][p]

SlotInv == TypeOK /\ Capacity /\ Backed /\ Distinct

Members == [Ids -> 0 .. SlotTtl \cup {None}]

-----------------------------------------------------------------------------
(* The scripts *)

\* A set of members holds finitely many slots, and purging keeps the fresh ones.
LEMMA FreshFinite ==
  ASSUME NEW members
  PROVE  /\ IsFiniteSet(Fresh(members))
         /\ Cardinality(Fresh(members)) \in Nat
         /\ Fresh(members) \subseteq Ids
  <1>1. Fresh(members) \subseteq Ids
    BY DEF Fresh
  <1>2. IsFiniteSet(Fresh(members))
    BY <1>1, FS_Subset, SlotsAssumption
  <1> QED
    BY <1>1, <1>2, FS_CardinalityType

LEMMA NoneIsNoAge == None \notin Nat /\ None \notin 0 .. SlotTtl /\ None \notin Ids
  BY SlotsAssumption

LEMMA PurgedFresh ==
  ASSUME NEW members \in Members
  PROVE  /\ Purged(members) \in Members
         /\ Fresh(Purged(members)) = Fresh(members)
  BY NoneIsNoAge DEF Purged, Fresh, Members

\* Acquiring adds the member when there is room and keeps the other slots.
LEMMA AcquireFresh ==
  ASSUME NEW p \in Pools, NEW members \in Members, NEW i \in Ids
  PROVE  /\ AfterAcquire(p, members, i) \in Members
         /\ Granted(p, members, i) =>
              Fresh(AfterAcquire(p, members, i)) = Fresh(members) \cup {i}
         /\ ~Granted(p, members, i) => Fresh(AfterAcquire(p, members, i)) = Fresh(members)
  <1> USE PurgedFresh
  <1>1. 0 \in 0 .. SlotTtl /\ 0 < SlotTtl
    BY SlotsAssumption
  <1>2. CASE ~Granted(p, members, i)
    BY <1>2 DEF AfterAcquire
  <1>3. CASE Granted(p, members, i)
    <2> DEFINE after == [Purged(members) EXCEPT ![i] = 0]
    <2>1. after \in Members
      BY <1>1 DEF Members
    <2>2. \A j \in Ids : after[j] = IF j = i THEN 0 ELSE Purged(members)[j]
      BY DEF Members
    <2>3. Fresh(after) = Fresh(Purged(members)) \cup {i}
      BY <1>1, <2>2 DEF Fresh
    <2> QED
      BY <1>3, <2>1, <2>3 DEF AfterAcquire
  <1> QED
    BY <1>2, <1>3

LEMMA AcquireWithinLimit ==
  ASSUME NEW p \in Pools, NEW members \in Members, NEW i \in Ids,
         Cardinality(Fresh(members)) <= Limit[p]
  PROVE  Cardinality(Fresh(AfterAcquire(p, members, i))) <= Limit[p]
  <1>1. Limit[p] \in Nat
    BY SlotsAssumption
  <1>2. CASE i \in Fresh(members)
    <2>1. Fresh(members) \cup {i} = Fresh(members)
      BY <1>2
    <2> QED
      BY <2>1, AcquireFresh
  <1>3. CASE i \notin Fresh(members) /\ Granted(p, members, i)
    <2>1. Cardinality(Fresh(members)) < Limit[p]
      BY <1>3 DEF Granted
    <2>2. Cardinality(Fresh(members) \cup {i}) = Cardinality(Fresh(members)) + 1
      BY <1>3, FreshFinite, FS_AddElement
    <2>3. Fresh(AfterAcquire(p, members, i)) = Fresh(members) \cup {i}
      BY <1>3, AcquireFresh
    <2>4. Cardinality(Fresh(members)) \in Nat
      BY FreshFinite
    <2> QED
      BY <1>1, <2>1, <2>2, <2>3, <2>4
  <1>4. CASE ~Granted(p, members, i)
    BY <1>4, AcquireFresh
  <1> QED
    BY <1>2, <1>3, <1>4

\* However often the script of one attempt is executed, it adds its own member
\* at most, stays within the limit, and grants only where there was room.
LEMMA AttemptFresh ==
  ASSUME TypeOK, Capacity, NEW p \in Pools, NEW i \in Ids, NEW n
  PROVE  LET members == Before(p, i, n)
             after == AfterAcquire(p, members, i) IN
         /\ after \in Members
         /\ Cardinality(Fresh(after)) <= Limit[p]
         /\ Fresh(slots[p]) \subseteq Fresh(after)
         /\ Fresh(after) \subseteq Fresh(slots[p]) \cup {i}
         /\ Granted(p, members, i) => i \in Fresh(after)
         /\ Granted(p, members, i) /\ i \notin Fresh(slots[p]) =>
              Cardinality(Fresh(slots[p])) < Limit[p]
  <1> DEFINE members == Before(p, i, n)
             first == AfterAcquire(p, slots[p], i)
  <1>1. slots[p] \in Members
    BY DEF TypeOK, Members
  <1>2. /\ first \in Members
        /\ Granted(p, slots[p], i) => Fresh(first) = Fresh(slots[p]) \cup {i}
        /\ ~Granted(p, slots[p], i) => Fresh(first) = Fresh(slots[p])
    BY <1>1, AcquireFresh
  <1>3. Cardinality(Fresh(first)) <= Limit[p]
    BY <1>1, AcquireWithinLimit DEF Capacity
  <1>4. members = slots[p] \/ members = first
    BY DEF Before
  <1>5. members \in Members /\ Cardinality(Fresh(members)) <= Limit[p]
    BY <1>1, <1>2, <1>3, <1>4 DEF Capacity
  <1>6. /\ Fresh(slots[p]) \subseteq Fresh(members)
        /\ Fresh(members) \subseteq Fresh(slots[p]) \cup {i}
    BY <1>2, <1>4
  <1> DEFINE after == AfterAcquire(p, members, i)
  <1>7. /\ after \in Members
        /\ Granted(p, members, i) => Fresh(after) = Fresh(members) \cup {i}
        /\ ~Granted(p, members, i) => Fresh(after) = Fresh(members)
    BY <1>5, AcquireFresh
  <1>8. Cardinality(Fresh(after)) <= Limit[p]
    BY <1>5, AcquireWithinLimit
  <1>9. ASSUME Granted(p, members, i), i \notin Fresh(slots[p])
        PROVE  Cardinality(Fresh(slots[p])) < Limit[p]
    <2>1. CASE Granted(p, slots[p], i)
      BY <1>9, <2>1 DEF Granted
    <2>2. CASE ~Granted(p, slots[p], i)
      <3>1. Fresh(members) = Fresh(slots[p])
        BY <1>2, <1>4, <2>2
      <3> QED
        BY <1>9, <3>1 DEF Granted
    <2> QED
      BY <2>1, <2>2
  <1> HIDE DEF members, after, first
  <1>10. /\ after \in Members
         /\ Cardinality(Fresh(after)) <= Limit[p]
         /\ Fresh(slots[p]) \subseteq Fresh(after)
         /\ Fresh(after) \subseteq Fresh(slots[p]) \cup {i}
         /\ Granted(p, members, i) => i \in Fresh(after)
         /\ Granted(p, members, i) /\ i \notin Fresh(slots[p]) =>
              Cardinality(Fresh(slots[p])) < Limit[p]
    BY <1>6, <1>7, <1>8, <1>9
  <1> QED
    BY <1>10 DEF members, after

-----------------------------------------------------------------------------
(* The steps as far as slots and tokens go *)

SlotRelation == Capacity /\ Backed /\ Distinct

\* The pool is acquired: the slot may become the token of the request if granted.
Took(r, p, i, n) ==
  /\ Unused(p, i)
  /\ slots' = [slots EXCEPT ![p] = AfterAcquire(p, Before(p, i, n), i)]
  /\ \/ UNCHANGED token
     \/ Granted(p, Before(p, i, n), i) /\ token' = [token EXCEPT ![r][p] = i]

LEMMA TookKeeps ==
  ASSUME SlotInv, NEW r \in Requests, NEW p \in Pools, NEW i \in Ids, NEW n, Took(r, p, i, n)
  PROVE  slots' \in [Pools -> Members] /\ SlotRelation'
  <1> DEFINE members == Before(p, i, n)
             after == AfterAcquire(p, members, i)
  <1>1. /\ after \in Members
        /\ Cardinality(Fresh(after)) <= Limit[p]
        /\ Fresh(slots[p]) \subseteq Fresh(after)
        /\ Granted(p, members, i) => i \in Fresh(after)
    BY AttemptFresh DEF SlotInv
  <1>2. slots' = [slots EXCEPT ![p] = after]
    BY DEF Took
  <1>3. token' = token \/ (Granted(p, members, i) /\ token' = [token EXCEPT ![r][p] = i])
    BY DEF Took
  <1>4. \A q \in Requests : token[q][p] # i
    BY DEF Took, Unused
  <1> HIDE DEF after, members
  <1>5. slots \in [Pools -> Members] /\ token \in [Requests -> [Pools -> Ids \cup {None}]]
    BY DEF SlotInv, TypeOK, Members
  <1>6. slots' \in [Pools -> Members]
    BY <1>1, <1>2, <1>5
  <1>7. /\ slots'[p] = after
        /\ \A x \in Pools : x # p => slots'[x] = slots[x]
    BY <1>2, <1>5
  <1>8. Capacity'
    BY <1>1, <1>7 DEF SlotInv, Capacity
  <1>9. \A x \in Pools : Fresh(slots[x]) \subseteq Fresh(slots'[x])
    BY <1>1, <1>7
  <1>10. CASE token' = token
    BY <1>8, <1>6, <1>9, <1>10 DEF SlotInv, SlotRelation, Backed, Distinct
  <1>11. CASE Granted(p, members, i) /\ token' = [token EXCEPT ![r][p] = i]
    <2>1. \A q \in Requests, x \in Pools :
            token'[q][x] = IF q = r /\ x = p THEN i ELSE token[q][x]
      BY <1>5, <1>11
    <2>2. i \in Fresh(slots'[p])
      BY <1>1, <1>7, <1>11
    <2>3. Backed'
      BY <1>9, <2>1, <2>2 DEF SlotInv, Backed
    <2>4. Distinct'
      BY <1>4, <2>1 DEF SlotInv, Distinct
    <2> QED
      BY <1>6, <1>8, <2>3, <2>4 DEF SlotRelation
  <1> QED
    BY <1>3, <1>10, <1>11

\* A failed release leaves the slot to its TTL; a working one removes it.
LEMMA DropKeeps ==
  ASSUME SlotInv, NEW r \in Requests, NEW p \in Pools, Drop(r, p)
  PROVE  /\ slots' \in [Pools -> Members]
         /\ token' \in [Requests -> [Pools -> Ids \cup {None}]]
         /\ faults' \in 0 .. MaxFaults
         /\ SlotRelation'
  <1> DEFINE i == token[r][p]
             after == [slots[p] EXCEPT ![i] = None]
  <1>1. slots \in [Pools -> Members] /\ token \in [Requests -> [Pools -> Ids \cup {None}]]
    BY DEF SlotInv, TypeOK, Members
  <1>2. i \in Ids /\ token' = [token EXCEPT ![r][p] = None]
    BY <1>1 DEF Drop
  <1>3. slots' = slots \/ slots' = [slots EXCEPT ![p] = after]
    BY DEF Drop
  <1>4. faults' \in 0 .. MaxFaults
    BY SlotsAssumption DEF Drop, Fault, SlotInv, TypeOK
  <1>5. after \in Members /\ Fresh(after) = Fresh(slots[p]) \ {i}
    BY <1>1, <1>2, NoneIsNoAge DEF Members, Fresh
  <1>6. Cardinality(Fresh(after)) <= Limit[p]
    <2>1. Cardinality(Fresh(after)) <= Cardinality(Fresh(slots[p]))
      BY <1>5, FreshFinite, FS_Subset
    <2> QED
      BY <2>1, FreshFinite, SlotsAssumption DEF SlotInv, Capacity
  <1>7. \A q \in Requests, x \in Pools :
          token'[q][x] = IF q = r /\ x = p THEN None ELSE token[q][x]
    BY <1>1, <1>2
  <1>8. token' \in [Requests -> [Pools -> Ids \cup {None}]]
    BY <1>1, <1>2
  <1>9. \A q \in Requests : q # r => token[q][p] # i
    BY <1>2 DEF SlotInv, Distinct, Drop
  <1> HIDE DEF after
  <1>10. slots' \in [Pools -> Members]
    BY <1>1, <1>3, <1>5
  <1>11. Capacity'
    BY <1>1, <1>3, <1>6 DEF SlotInv, Capacity
  <1>12. \A x \in Pools : Fresh(slots[x]) \ (IF x = p THEN {i} ELSE {}) \subseteq Fresh(slots'[x])
    BY <1>1, <1>3, <1>5
  <1>13. Backed'
    BY <1>7, <1>9, <1>12 DEF SlotInv, Backed
  <1>14. Distinct'
    BY <1>7 DEF SlotInv, Distinct
  <1> QED
    BY <1>4, <1>8, <1>10, <1>11, <1>13, <1>14 DEF SlotRelation

LEMMA CrashKeeps ==
  ASSUME SlotInv, NEW r \in Requests, Crash(r)
  PROVE  token' \in [Requests -> [Pools -> Ids \cup {None}]] /\ SlotRelation'
  <1>1. token' = [token EXCEPT ![r] = [p \in Pools |-> None]] /\ slots' = slots
    BY DEF Crash, redisVars
  <1>2. token \in [Requests -> [Pools -> Ids \cup {None}]]
    BY DEF SlotInv, TypeOK
  <1>3. \A q \in Requests, x \in Pools : token'[q][x] = IF q = r THEN None ELSE token[q][x]
    BY <1>1, <1>2
  <1> QED
    BY <1>1, <1>2, <1>3 DEF SlotInv, SlotRelation, Capacity, Backed, Distinct

LEMMA CleanupKeeps ==
  ASSUME SlotInv, NEW a \in Accounts, CleanupExpired(a)
  PROVE  slots' \in [Pools -> Members] /\ SlotRelation'
  <1>1. a \in Pools /\ slots \in [Pools -> Members]
    BY DEF Pools, SlotInv, TypeOK, Members
  <1>2. slots' = [slots EXCEPT ![a] = Purged(slots[a])] /\ token' = token
    BY DEF CleanupExpired
  <1>3. Purged(slots[a]) \in Members /\ Fresh(Purged(slots[a])) = Fresh(slots[a])
    BY <1>1, PurgedFresh
  <1>4. \A x \in Pools : Fresh(slots'[x]) = Fresh(slots[x])
    BY <1>1, <1>2, <1>3
  <1>5. slots' \in [Pools -> Members]
    BY <1>1, <1>2, <1>3
  <1> QED
    BY <1>2, <1>4, <1>5 DEF SlotInv, SlotRelation, Capacity, Backed, Distinct

LEMMA TickForgets ==
  ASSUME SlotInv, Tick
  PROVE  \A p \in Pools : Fresh(slots'[p]) \subseteq Fresh(slots[p])
  <1>1. \A p \in Pools, i \in Ids : /\ slots[p][i] \in 0 .. SlotTtl \cup {None}
                                   /\ slots'[p][i] = Older(slots[p][i])
    BY DEF SlotInv, TypeOK, Tick
  <1>2. \A x \in 0 .. SlotTtl \cup {None} :
          Older(x) \in 0 .. SlotTtl /\ Older(x) < SlotTtl => x \in 0 .. SlotTtl /\ x < SlotTtl
    BY NoneIsNoAge, SlotsAssumption DEF Older
  <1> SUFFICES ASSUME NEW p \in Pools, NEW i \in Ids,
                      slots'[p][i] \in 0 .. SlotTtl, slots'[p][i] < SlotTtl
               PROVE  slots[p][i] \in 0 .. SlotTtl /\ slots[p][i] < SlotTtl
    BY DEF Fresh
  <1> QED
    BY <1>1, <1>2

\* Time does not outdate the slot of a request that still holds it.
LEMMA TickKeeps ==
  ASSUME SlotInv, Tick
  PROVE  slots' \in [Pools -> Members] /\ SlotRelation'
  <1>1. slots \in [Pools -> Members] /\ token \in [Requests -> [Pools -> Ids \cup {None}]]
    BY DEF SlotInv, TypeOK, Members
  <1>2. /\ slots' = [p \in Pools |-> [i \in Ids |-> Older(slots[p][i])]]
        /\ token' = token
        /\ \A r \in Requests, p \in Pools :
             token[r][p] # None => slots[p][token[r][p]] # SlotTtl - 1
    BY DEF Tick
  <1>3. \A x \in 0 .. SlotTtl \cup {None} :
          /\ Older(x) \in 0 .. SlotTtl \cup {None}
          /\ Older(x) \in 0 .. SlotTtl /\ Older(x) < SlotTtl => x \in 0 .. SlotTtl /\ x < SlotTtl
          /\ x \in 0 .. SlotTtl /\ x < SlotTtl /\ x # SlotTtl - 1 =>
               Older(x) \in 0 .. SlotTtl /\ Older(x) < SlotTtl
    BY NoneIsNoAge, SlotsAssumption DEF Older
  <1>4. \A p \in Pools, i \in Ids : /\ slots[p][i] \in 0 .. SlotTtl \cup {None}
                                   /\ slots'[p][i] = Older(slots[p][i])
                                   /\ slots'[p][i] \in 0 .. SlotTtl \cup {None}
    <2> TAKE p \in Pools, i \in Ids
    <2>1. slots[p][i] \in 0 .. SlotTtl \cup {None}
      BY <1>1 DEF Members
    <2>2. slots'[p][i] = Older(slots[p][i])
      BY <1>2
    <2> QED
      BY <1>3, <2>1, <2>2
  <1>5. slots' \in [Pools -> Members]
    <2> DEFINE next(p) == [i \in Ids |-> Older(slots[p][i])]
    <2>1. \A p \in Pools : next(p) \in Members
      BY <1>2, <1>4 DEF Members
    <2>2. slots' = [p \in Pools |-> next(p)]
      BY <1>2
    <2> QED
      BY <2>1, <2>2
  <1>6. \A p \in Pools : Fresh(slots'[p]) \subseteq Fresh(slots[p])
    BY TickForgets
  <1>7. Capacity'
    <2> SUFFICES ASSUME NEW p \in Pools
                 PROVE  Cardinality(Fresh(slots'[p])) <= Limit[p]
      BY DEF Capacity
    <2>1. Cardinality(Fresh(slots'[p])) <= Cardinality(Fresh(slots[p]))
      BY <1>6, FreshFinite, FS_Subset
    <2> QED
      BY <2>1, FreshFinite, SlotsAssumption DEF SlotInv, Capacity
  <1>8. Backed'
    <2> SUFFICES ASSUME NEW r \in Requests, NEW p \in Pools, token[r][p] # None
                 PROVE  token[r][p] \in Fresh(slots'[p])
      BY <1>2 DEF Backed
    <2>1. token[r][p] \in Fresh(slots[p]) /\ token[r][p] \in Ids
      BY <1>1 DEF SlotInv, Backed
    <2>2. slots'[p][token[r][p]] = Older(slots[p][token[r][p]])
      BY <1>2, <2>1
    <2> QED
      BY <1>2, <1>3, <2>1, <2>2 DEF Fresh
  <1> QED
    BY <1>2, <1>5, <1>7, <1>8 DEF SlotInv, SlotRelation, Distinct

-----------------------------------------------------------------------------
(* The counters, and steps that leave slots and tokens alone *)

CountersTyped ==
  /\ wait \in [Pools -> Nat]
  /\ \A p \in Pools : wait[p] <= MaxWait[p]
  /\ waitAge \in [Pools -> 0 .. WaitTtl]

LEMMA IncrementTyped ==
  ASSUME TypeOK, NEW p \in Pools, NEW n \in 0 .. 2, Increment(p, n)
  PROVE  CountersTyped'
  <1>1. /\ wait \in [Pools -> Nat]
        /\ \A x \in Pools : wait[x] <= MaxWait[x] /\ MaxWait[x] \in Nat
        /\ waitAge \in [Pools -> 0 .. WaitTtl] /\ 0 \in 0 .. WaitTtl
    BY SlotsAssumption DEF TypeOK
  <1> DEFINE w == IF wait[p] + n <= MaxWait[p] THEN wait[p] + n ELSE MaxWait[p]
  <1>2. w \in Nat /\ w <= MaxWait[p]
    BY <1>1
  <1>3. wait' = [wait EXCEPT ![p] = w]
    BY DEF Increment
  <1> HIDE DEF w
  <1>4. wait' \in [Pools -> Nat] /\ \A x \in Pools : wait'[x] <= MaxWait[x]
    BY <1>1, <1>2, <1>3
  <1>5. waitAge' = waitAge \/ waitAge' = [waitAge EXCEPT ![p] = 0]
    BY DEF Increment
  <1>6. waitAge' \in [Pools -> 0 .. WaitTtl]
    BY <1>1, <1>5
  <1> QED
    BY <1>4, <1>6 DEF CountersTyped

LEMMA DecrementTyped ==
  ASSUME TypeOK, NEW p \in Pools, NEW n \in 0 .. 2, Decrement(p, n)
  PROVE  CountersTyped'
  <1>1. /\ wait \in [Pools -> Nat]
        /\ \A x \in Pools : wait[x] <= MaxWait[x] /\ MaxWait[x] \in Nat
        /\ waitAge \in [Pools -> 0 .. WaitTtl]
    BY SlotsAssumption DEF TypeOK
  <1> DEFINE w == IF wait[p] > n THEN wait[p] - n ELSE 0
  <1>2. w \in Nat /\ w <= wait[p]
    BY <1>1
  <1>3. wait' = [wait EXCEPT ![p] = w] /\ waitAge' = waitAge
    BY DEF Decrement
  <1> HIDE DEF w
  <1>4. w <= MaxWait[p]
    BY <1>1, <1>2
  <1>5. wait' \in [Pools -> Nat] /\ \A x \in Pools : wait'[x] <= MaxWait[x]
    BY <1>1, <1>2, <1>3, <1>4
  <1> QED
    BY <1>1, <1>3, <1>5 DEF CountersTyped

LEMMA TakeBackTyped ==
  ASSUME TypeOK, NEW r \in Requests, TakeBack(r)
  PROVE  /\ CountersTyped'
         /\ counted' \in [Requests -> BOOLEAN]
         /\ waited' \in [Requests -> Nat]
         /\ faults' \in 0 .. MaxFaults
  <1>1. PICK n \in 0 .. 2 : Decrement(at[r], n)
    BY DEF TakeBack
  <1>2. at[r] \in Pools
    BY DEF TypeOK
  <1>3. faults' \in 0 .. MaxFaults
    BY SlotsAssumption DEF TakeBack, Fault, TypeOK
  <1>4. counted' \in [Requests -> BOOLEAN] /\ waited' \in [Requests -> Nat]
    BY DEF TakeBack, TypeOK
  <1> QED
    BY <1>1, <1>2, <1>3, <1>4, DecrementTyped

LEMMA FailedTyped ==
  ASSUME TypeOK, NEW r, NEW n, Failed(r, n)
  PROVE  faults' \in 0 .. MaxFaults /\ n \in 0 .. 2
  BY SlotsAssumption DEF Failed, Fault, TypeOK

LEMMA Unmoved ==
  ASSUME SlotInv, UNCHANGED <<slots, token>>
  PROVE  SlotRelation' /\ slots' \in [Pools -> Members]
         /\ token' \in [Requests -> [Pools -> Ids \cup {None}]]
  BY DEF SlotInv, SlotRelation, Capacity, Backed, Distinct, TypeOK, Members

\* An attempt that is granted or refused, and one that fails.
LEMMA AttemptTyped ==
  ASSUME SlotInv, NEW r \in Requests, NEW p \in Pools, NEW i \in Ids,
         NEW yes \in States, NEW no \in States, Attempt(r, p, i, yes, no)
  PROVE  /\ \E n : Took(r, p, i, n)
         /\ slots' \in [Pools -> Members]
         /\ token' \in [Requests -> [Pools -> Ids \cup {None}]]
         /\ pc' \in [Requests -> States]
         /\ SlotRelation'
  <1>1. PICK n \in {1, 2} :
          /\ slots' = [slots EXCEPT ![p] = AfterAcquire(p, Before(p, i, n), i)]
          /\ IF Granted(p, Before(p, i, n), i)
             THEN token' = [token EXCEPT ![r][p] = i] /\ Goto(r, yes)
             ELSE UNCHANGED token /\ Goto(r, no)
    BY DEF Attempt
  <1>2. Took(r, p, i, n)
    BY <1>1 DEF Took, Attempt
  <1>3. pc' \in [Requests -> States]
    BY <1>1 DEF SlotInv, TypeOK, Goto
  <1>4. token' = [token EXCEPT ![r][p] = i] \/ token' = token
    BY <1>1
  <1>5. token \in [Requests -> [Pools -> Ids \cup {None}]]
    BY DEF SlotInv, TypeOK
  <1>6. token' \in [Requests -> [Pools -> Ids \cup {None}]]
    BY <1>4, <1>5
  <1> QED
    BY <1>2, <1>3, <1>6, TookKeeps

LEMMA AttemptFailsTyped ==
  ASSUME SlotInv, NEW r \in Requests, NEW p \in Pools, NEW i \in Ids,
         NEW next \in States, AttemptFails(r, p, i, next)
  PROVE  /\ slots' \in [Pools -> Members]
         /\ token' \in [Requests -> [Pools -> Ids \cup {None}]]
         /\ pc' \in [Requests -> States]
         /\ faults' \in 0 .. MaxFaults
         /\ SlotRelation'
  <1>1. pc' \in [Requests -> States] /\ faults' \in 0 .. MaxFaults
    BY FailedTyped DEF AttemptFails, Goto, SlotInv, TypeOK
  <1>2. CASE UNCHANGED slots
    BY <1>1, <1>2, Unmoved DEF AttemptFails
  <1>3. CASE slots' = [slots EXCEPT ![p] = AfterAcquire(p, slots[p], i)]
    <2>1. Took(r, p, i, 1)
      BY <1>3 DEF Took, Before, AttemptFails
    <2> QED
      BY <1>1, <2>1, TookKeeps DEF AttemptFails, SlotInv, TypeOK
  <1> QED
    BY <1>2, <1>3 DEF AttemptFails

-----------------------------------------------------------------------------
(* One step of the specification *)

ControlTyped ==
  /\ pc \in [Requests -> States]
  /\ at \in [Requests -> Pools]
  /\ counted \in [Requests -> BOOLEAN]
  /\ waited \in [Requests -> Nat]
  /\ live \subseteq Requests
  /\ switches \in [Requests -> 0 .. MaxSwitches]
  /\ faults \in 0 .. MaxFaults

StoreTyped ==
  /\ slots \in [Pools -> Members]
  /\ token \in [Requests -> [Pools -> Ids \cup {None}]]

LEMMA SlotInvParts ==
  SlotInv <=> StoreTyped /\ CountersTyped /\ ControlTyped /\ SlotRelation
  BY DEF SlotInv, TypeOK, StoreTyped, CountersTyped, ControlTyped, SlotRelation, Members

\* The steps that leave slots and tokens alone.
LEMMA QuietKeeps ==
  ASSUME SlotInv, UNCHANGED <<slots, token>>, CountersTyped', ControlTyped'
  PROVE  SlotInv'
  <1>1. StoreTyped' /\ SlotRelation'
    BY Unmoved DEF StoreTyped
  <1> QED
    BY <1>1 DEF SlotInv, TypeOK, StoreTyped, CountersTyped, ControlTyped, SlotRelation, Members

\* The steps that leave the waiting counters alone.
LEMMA SameCounters ==
  ASSUME SlotInv, UNCHANGED <<wait, waitAge>>, StoreTyped', ControlTyped', SlotRelation'
  PROVE  SlotInv'
  <1>1. CountersTyped'
    BY DEF CountersTyped, SlotInv, TypeOK
  <1> QED
    BY <1>1 DEF SlotInv, TypeOK, StoreTyped, CountersTyped, ControlTyped, SlotRelation, Members

LEMMA CountKeeps ==
  ASSUME SlotInv, NEW r \in Requests, Count(r)
  PROVE  SlotInv'
  <1>1. at[r] \in Pools
    BY DEF SlotInv, TypeOK
  <1>2. CountersTyped'
    <2>1. PICK n \in 0 .. 2 : Increment(at[r], n)
      BY DEF Count
    <2> QED
      BY <1>1, <2>1, IncrementTyped DEF SlotInv
  <1>3. ControlTyped'
    BY DEF Count, Goto, SlotInv, TypeOK, ControlTyped, States
  <1> QED
    BY <1>2, <1>3, QuietKeeps DEF Count

LEMMA CountFailsOpenKeeps ==
  ASSUME SlotInv, NEW r \in Requests, CountFailsOpen(r)
  PROVE  SlotInv'
  <1>1. at[r] \in Pools
    BY DEF SlotInv, TypeOK
  <1>2. PICK n \in 0 .. 2 : Failed(r, n) /\ Increment(at[r], n)
    BY DEF CountFailsOpen
  <1>3. CountersTyped'
    BY <1>1, <1>2, IncrementTyped DEF SlotInv
  <1>4. faults' \in 0 .. MaxFaults
    BY <1>2, FailedTyped DEF SlotInv
  <1>5. ControlTyped'
    BY <1>4 DEF CountFailsOpen, Goto, SlotInv, TypeOK, ControlTyped, States
  <1> QED
    BY <1>3, <1>5, QuietKeeps DEF CountFailsOpen

LEMMA AcquireKeeps ==
  ASSUME SlotInv, NEW r \in Requests, NEW i \in Ids, Acquire(r, i)
  PROVE  SlotInv' /\ \E n : Took(r, at[r], i, n)
  <1>1. at[r] \in Pools /\ Attempt(r, at[r], i, "uncount", "acquire")
    BY DEF SlotInv, TypeOK, Acquire
  <1>2. /\ StoreTyped' /\ SlotRelation' /\ pc' \in [Requests -> States]
        /\ \E n : Took(r, at[r], i, n)
    BY <1>1, AttemptTyped DEF StoreTyped, States
  <1>3. ControlTyped'
    BY <1>2 DEF Acquire, SlotInv, TypeOK, ControlTyped
  <1> QED
    BY <1>2, <1>3, SameCounters DEF Acquire

LEMMA AcquireErrorKeeps ==
  ASSUME SlotInv, NEW r \in Requests, NEW i \in Ids, AcquireError(r, i)
  PROVE  SlotInv'
  <1>1. at[r] \in Pools /\ AttemptFails(r, at[r], i, "return")
    BY DEF SlotInv, TypeOK, AcquireError
  <1>2. /\ StoreTyped' /\ SlotRelation'
        /\ pc' \in [Requests -> States] /\ faults' \in 0 .. MaxFaults
    BY <1>1, AttemptFailsTyped DEF StoreTyped, States
  <1>3. ControlTyped'
    BY <1>2 DEF AcquireError, SlotInv, TypeOK, ControlTyped
  <1> QED
    BY <1>2, <1>3, SameCounters DEF AcquireError

LEMMA UncountKeeps ==
  ASSUME SlotInv, NEW r \in Requests, Uncount(r)
  PROVE  SlotInv'
  <1>1. TakeBack(r)
    BY DEF Uncount
  <1>2. /\ CountersTyped'
        /\ counted' \in [Requests -> BOOLEAN] /\ waited' \in [Requests -> Nat]
        /\ faults' \in 0 .. MaxFaults
    BY <1>1, TakeBackTyped DEF SlotInv
  <1>3. UNCHANGED <<slots, token>>
    BY DEF Uncount
  <1>4. ControlTyped'
    BY <1>2 DEF Uncount, Goto, SlotInv, TypeOK, ControlTyped, States
  <1> QED
    BY <1>2, <1>3, <1>4, QuietKeeps

LEMMA SelectKeeps ==
  ASSUME SlotInv, NEW r \in Requests, NEW a \in Accounts, NEW i \in Ids, Select(r, a, i)
  PROVE  SlotInv' /\ \E n : Took(r, a, i, n)
  <1>1. a \in Pools /\ Attempt(r, a, i, "forward", "select")
    BY DEF Pools, Select
  <1>2. /\ StoreTyped' /\ SlotRelation' /\ pc' \in [Requests -> States]
        /\ \E n : Took(r, a, i, n)
    BY <1>1, AttemptTyped DEF StoreTyped, States
  <1>3. ControlTyped'
    BY <1>1, <1>2 DEF Select, SlotInv, TypeOK, ControlTyped
  <1> QED
    BY <1>2, <1>3, SameCounters DEF Select

LEMMA SelectErrorKeeps ==
  ASSUME SlotInv, NEW r \in Requests, NEW a \in Accounts, NEW i \in Ids, SelectError(r, a, i)
  PROVE  SlotInv'
  <1>1. a \in Pools /\ AttemptFails(r, a, i, "select")
    BY DEF Pools, SelectError
  <1>2. /\ StoreTyped' /\ SlotRelation'
        /\ pc' \in [Requests -> States] /\ faults' \in 0 .. MaxFaults
    BY <1>1, AttemptFailsTyped DEF StoreTyped, States
  <1>3. ControlTyped'
    BY <1>2 DEF SelectError, SlotInv, TypeOK, ControlTyped
  <1> QED
    BY <1>2, <1>3, SameCounters DEF SelectError

\* The steps that move only a request's control.
LEMMA MoveKeeps ==
  ASSUME SlotInv, NEW r \in Requests,
         \/ GiveUp(r) \/ NoAccount(r) \/ Return(r) \/ Cancel(r)
         \/ \E a \in Accounts : WaitPlan(r, a)
  PROVE  SlotInv' /\ UNCHANGED token
  <1>1. UNCHANGED <<slots, token, wait, waitAge>>
    BY DEF GiveUp, NoAccount, Return, Cancel, WaitPlan, redisVars
  <1>2. ControlTyped'
    BY DEF GiveUp, NoAccount, Return, Cancel, WaitPlan, Goto, States, Pools,
           SlotInv, TypeOK, ControlTyped
  <1>3. StoreTyped' /\ SlotRelation'
    BY <1>1, Unmoved DEF StoreTyped
  <1> QED
    BY <1>1, <1>2, <1>3, SameCounters

LEMMA ForwardEndsKeeps ==
  ASSUME SlotInv, NEW r \in Requests, ForwardEnds(r)
  PROVE  SlotInv' /\ (UNCHANGED token \/ \E p \in Pools : Drop(r, p))
  <1>1. at[r] \in Pools
    BY DEF SlotInv, TypeOK
  <1>2. /\ StoreTyped' /\ SlotRelation' /\ faults' \in 0 .. MaxFaults
        /\ UNCHANGED token \/ Drop(r, at[r])
    <2>1. CASE UNCHANGED <<slots, token, faults>>
      BY <2>1, Unmoved DEF StoreTyped, SlotInv, TypeOK
    <2>2. CASE Drop(r, at[r])
      BY <1>1, <2>2, DropKeeps DEF StoreTyped
    <2> QED
      BY <2>1, <2>2 DEF ForwardEnds
  <1>3. pc' \in [Requests -> States] /\ switches' \in [Requests -> 0 .. MaxSwitches]
    <2>1. /\ pc' = [pc EXCEPT ![r] = "return"] \/ pc' = [pc EXCEPT ![r] = "select"]
          /\ \/ switches' = switches
             \/ /\ switches[r] < MaxSwitches
                /\ switches' = [switches EXCEPT ![r] = switches[r] + 1]
      BY DEF ForwardEnds, Goto
    <2>2. pc \in [Requests -> States] /\ switches \in [Requests -> 0 .. MaxSwitches]
      BY DEF SlotInv, TypeOK
    <2>3. pc' \in [Requests -> States]
      BY <2>1, <2>2 DEF States
    <2>4. switches[r] < MaxSwitches => switches[r] + 1 \in 0 .. MaxSwitches
      BY <2>2, SlotsAssumption
    <2>5. switches' \in [Requests -> 0 .. MaxSwitches]
      BY <2>1, <2>2, <2>4
    <2> QED
      BY <2>3, <2>5
  <1>4. ControlTyped'
    BY <1>2, <1>3 DEF ForwardEnds, SlotInv, TypeOK, ControlTyped
  <1> QED
    BY <1>1, <1>2, <1>4, SameCounters DEF ForwardEnds

LEMMA ReturnCountKeeps ==
  ASSUME SlotInv, NEW r \in Requests, ReturnCount(r)
  PROVE  SlotInv'
  <1>1. TakeBack(r)
    BY DEF ReturnCount
  <1>2. /\ CountersTyped'
        /\ counted' \in [Requests -> BOOLEAN] /\ waited' \in [Requests -> Nat]
        /\ faults' \in 0 .. MaxFaults
    BY <1>1, TakeBackTyped DEF SlotInv
  <1>3. UNCHANGED <<slots, token>>
    BY DEF ReturnCount
  <1>4. ControlTyped'
    BY <1>2 DEF ReturnCount, SlotInv, TypeOK, ControlTyped
  <1> QED
    BY <1>2, <1>3, <1>4, QuietKeeps

\* ReturnSlot and ReleaseOnDone both drop one slot.
LEMMA ReleaseKeeps ==
  ASSUME SlotInv, NEW r \in Requests, NEW p \in Pools,
         ReturnSlot(r, p) \/ ReleaseOnDone(r, p)
  PROVE  SlotInv' /\ Drop(r, p)
  <1>1. Drop(r, p) /\ UNCHANGED <<wait, waitAge, pc, at, counted, waited, live, switches>>
    BY DEF ReturnSlot, ReleaseOnDone
  <1>2. StoreTyped' /\ SlotRelation' /\ faults' \in 0 .. MaxFaults
    BY <1>1, DropKeeps DEF StoreTyped
  <1>3. ControlTyped'
    BY <1>1, <1>2 DEF SlotInv, TypeOK, ControlTyped
  <1> QED
    BY <1>1, <1>2, <1>3, SameCounters

-----------------------------------------------------------------------------
(* Every step *)

\* No request becomes a holder.
OnlyLeaves == \A r \in Requests, p \in Pools : token'[r][p] # None => token[r][p] # None

LEMMA StepKeeps ==
  ASSUME SlotInv, [Next]_vars
  PROVE  /\ SlotInv'
         /\ \/ OnlyLeaves
            \/ \E r \in Requests, p \in Pools, i \in Ids : \E n : Took(r, p, i, n)
  <1>1. UNCHANGED token => OnlyLeaves
    BY DEF OnlyLeaves
  <1>2. ASSUME NEW r \in Requests, NEW p \in Pools, Drop(r, p)
        PROVE  OnlyLeaves
    <2>1. token \in [Requests -> [Pools -> Ids \cup {None}]]
      BY DEF SlotInv, TypeOK
    <2>2. token' = [token EXCEPT ![r][p] = None]
      BY <1>2 DEF Drop
    <2> QED
      BY <2>1, <2>2 DEF OnlyLeaves
  <1>3. ASSUME NEW r \in Requests, Count(r)
        PROVE  SlotInv' /\ OnlyLeaves
    BY <1>1, <1>3, CountKeeps DEF Count
  <1>4. ASSUME NEW r \in Requests, CountFailsOpen(r)
        PROVE  SlotInv' /\ OnlyLeaves
    BY <1>1, <1>4, CountFailsOpenKeeps DEF CountFailsOpen
  <1>5. ASSUME NEW r \in Requests, NEW i \in Ids, Acquire(r, i)
        PROVE  SlotInv' /\ \E p \in Pools : \E n : Took(r, p, i, n)
    <2>1. at[r] \in Pools
      BY DEF SlotInv, TypeOK
    <2> QED
      BY <1>5, <2>1, AcquireKeeps
  <1>6. ASSUME NEW r \in Requests, NEW i \in Ids, AcquireError(r, i)
        PROVE  SlotInv' /\ OnlyLeaves
    BY <1>1, <1>6, AcquireErrorKeeps DEF AcquireError, AttemptFails
  <1>7. ASSUME NEW r \in Requests, Uncount(r)
        PROVE  SlotInv' /\ OnlyLeaves
    BY <1>1, <1>7, UncountKeeps DEF Uncount
  <1>8. ASSUME NEW r \in Requests, NEW a \in Accounts, NEW i \in Ids, Select(r, a, i)
        PROVE  SlotInv' /\ \E p \in Pools : \E n : Took(r, p, i, n)
    <2>1. a \in Pools
      BY DEF Pools
    <2> QED
      BY <1>8, <2>1, SelectKeeps
  <1>9. ASSUME NEW r \in Requests, NEW a \in Accounts, NEW i \in Ids, SelectError(r, a, i)
        PROVE  SlotInv' /\ OnlyLeaves
    BY <1>1, <1>9, SelectErrorKeeps DEF SelectError, AttemptFails
  <1>10. ASSUME NEW r \in Requests,
                \/ GiveUp(r) \/ NoAccount(r) \/ Return(r) \/ Cancel(r)
                \/ \E a \in Accounts : WaitPlan(r, a)
         PROVE  SlotInv' /\ OnlyLeaves
    BY <1>1, <1>10, MoveKeeps
  <1>11. ASSUME NEW r \in Requests, ForwardEnds(r)
         PROVE  SlotInv' /\ OnlyLeaves
    BY <1>1, <1>2, <1>11, ForwardEndsKeeps
  <1>12. ASSUME NEW r \in Requests, ReturnCount(r)
         PROVE  SlotInv' /\ OnlyLeaves
    BY <1>1, <1>12, ReturnCountKeeps DEF ReturnCount
  <1>13. ASSUME NEW r \in Requests, NEW p \in Pools, ReturnSlot(r, p) \/ ReleaseOnDone(r, p)
         PROVE  SlotInv' /\ OnlyLeaves
    BY <1>2, <1>13, ReleaseKeeps
  <1>14. ASSUME NEW r \in Requests, Crash(r)
         PROVE  SlotInv' /\ OnlyLeaves
    <2>1. StoreTyped' /\ SlotRelation'
      BY <1>14, CrashKeeps DEF StoreTyped, SlotInv, TypeOK, Members, Crash, redisVars
    <2>2. faults' \in 0 .. MaxFaults
      BY <1>14, SlotsAssumption DEF Crash, Fault, SlotInv, TypeOK
    <2>3. ControlTyped'
      BY <1>14, <2>2 DEF Crash, Goto, States, SlotInv, TypeOK, ControlTyped
    <2>4. token \in [Requests -> [Pools -> Ids \cup {None}]]
      BY DEF SlotInv, TypeOK
    <2>5. OnlyLeaves
      BY <1>14, <2>4 DEF Crash, OnlyLeaves
    <2> QED
      BY <1>14, <2>1, <2>3, <2>5, SameCounters DEF Crash, redisVars
  <1>15. ASSUME NEW a \in Accounts, CleanupExpired(a)
         PROVE  SlotInv' /\ OnlyLeaves
    <2>1. StoreTyped' /\ SlotRelation'
      BY <1>15, CleanupKeeps DEF StoreTyped, SlotInv, TypeOK, CleanupExpired
    <2>2. ControlTyped'
      BY <1>15 DEF CleanupExpired, SlotInv, TypeOK, ControlTyped
    <2> QED
      BY <1>1, <1>15, <2>1, <2>2, SameCounters DEF CleanupExpired
  <1>16. CASE Tick
    <2>1. StoreTyped' /\ SlotRelation'
      BY <1>16, TickKeeps DEF StoreTyped, SlotInv, TypeOK, Tick
    <2>2. ControlTyped'
      <3>1. waited' = [r \in Requests |-> IF counted[r] THEN waited[r] + 1 ELSE waited[r]]
        BY <1>16 DEF Tick
      <3>2. waited' \in [Requests -> Nat]
        BY <3>1 DEF SlotInv, TypeOK
      <3> QED
        BY <1>16, <3>2 DEF Tick, SlotInv, TypeOK, ControlTyped
    <2>3. CountersTyped'
      <3>1. /\ waitAge' = [p \in Pools |-> IF wait[p] > 0 /\ waitAge[p] < WaitTtl
                                           THEN waitAge[p] + 1 ELSE waitAge[p]]
            /\ wait' = [p \in Pools |-> IF waitAge'[p] = WaitTtl THEN 0 ELSE wait[p]]
        BY <1>16 DEF Tick
      <3>2. /\ wait \in [Pools -> Nat] /\ waitAge \in [Pools -> 0 .. WaitTtl]
            /\ \A p \in Pools : wait[p] <= MaxWait[p] /\ MaxWait[p] \in Nat
        BY SlotsAssumption DEF SlotInv, TypeOK
      <3>3. WaitTtl \in Nat
        BY SlotsAssumption
      <3>4. \A p \in Pools :
              (IF wait[p] > 0 /\ waitAge[p] < WaitTtl THEN waitAge[p] + 1 ELSE waitAge[p])
                \in 0 .. WaitTtl
        BY <3>2, <3>3
      <3>5. waitAge' \in [Pools -> 0 .. WaitTtl]
        BY <3>1, <3>4
      <3>6. wait' \in [Pools -> Nat] /\ \A p \in Pools : wait'[p] <= MaxWait[p]
        BY <3>1, <3>2
      <3> QED
        BY <3>5, <3>6 DEF CountersTyped
    <2>4. OnlyLeaves
      BY <1>1, <1>16 DEF Tick
    <2> QED
      BY <2>1, <2>2, <2>3, <2>4
         DEF SlotInv, TypeOK, StoreTyped, CountersTyped, ControlTyped, SlotRelation, Members
  <1>17. CASE UNCHANGED vars
    BY <1>1, <1>17 DEF vars, SlotInv, TypeOK, Capacity, Backed, Distinct
  <1>18. ASSUME NEW r \in Requests, HandlerStep(r)
         PROVE  /\ SlotInv'
                /\ \/ OnlyLeaves
                   \/ \E p \in Pools, i \in Ids : \E n : Took(r, p, i, n)
    BY <1>3, <1>5, <1>7, <1>8, <1>10, <1>11, <1>12, <1>13, <1>18 DEF HandlerStep
  <1>19. ASSUME NEW r \in Requests, RequestStep(r)
         PROVE  /\ SlotInv'
                /\ \/ OnlyLeaves
                   \/ \E p \in Pools, i \in Ids : \E n : Took(r, p, i, n)
    <2>1. CASE HandlerStep(r)
      BY <1>18, <2>1
    <2>2. CASE ErrorStep(r)
      BY <1>4, <1>6, <1>9, <2>2 DEF ErrorStep
    <2>3. CASE Cancel(r) \/ Crash(r) \/ \E p \in Pools : ReleaseOnDone(r, p)
      BY <1>10, <1>13, <1>14, <2>3
    <2> QED
      BY <1>19, <2>1, <2>2, <2>3 DEF RequestStep
  <1> QED
    BY <1>15, <1>16, <1>17, <1>19 DEF Next

LEMMA InitKeeps == Init => SlotInv
  <1> SUFFICES ASSUME Init PROVE SlotInv
    OBVIOUS
  <1>1. /\ \A p \in Pools : Fresh(slots[p]) = {}
        /\ \A r \in Requests, p \in Pools : token[r][p] = None
    BY NoneIsNoAge DEF Init, Fresh
  <1>2. Capacity /\ Backed /\ Distinct
    <2>1. \A p \in Pools : Limit[p] \in Nat
      BY SlotsAssumption
    <2>2. \A p \in Pools : Cardinality(Fresh(slots[p])) = 0
      BY <1>1, FS_EmptySet
    <2>3. Capacity
      BY <2>1, <2>2 DEF Capacity
    <2> QED
      BY <1>1, <2>3 DEF Backed, Distinct
  <1>3. /\ at \in [Requests -> Pools]
        /\ 0 \in 0 .. WaitTtl /\ 0 \in 0 .. MaxSwitches /\ 0 \in 0 .. MaxFaults
    BY SlotsAssumption DEF Init, Pools
  <1>4. \A p \in Pools : 0 <= MaxWait[p]
    BY SlotsAssumption
  <1>5. TypeOK
    <2>1. slots \in [Pools -> [Ids -> 0 .. SlotTtl \cup {None}]]
      BY DEF Init
    <2>2. token \in [Requests -> [Pools -> Ids \cup {None}]]
      BY DEF Init
    <2>3. /\ wait \in [Pools -> Nat] /\ waitAge \in [Pools -> 0 .. WaitTtl]
          /\ \A p \in Pools : wait[p] <= MaxWait[p]
      BY <1>3, <1>4 DEF Init
    <2>4. ControlTyped
      BY <1>3 DEF Init, ControlTyped, States
    <2> QED
      BY <2>1, <2>2, <2>3, <2>4 DEF TypeOK, ControlTyped
  <1> QED
    BY <1>2, <1>5 DEF SlotInv

-----------------------------------------------------------------------------
(* Holders map one to one into fresh slots *)

LEMMA HoldersFit ==
  ASSUME SlotInv, NEW p \in Pools
  PROVE  /\ IsFiniteSet(Holding(p))
         /\ Cardinality(Holding(p)) \in Nat
         /\ Cardinality(Holding(p)) <= Cardinality(Fresh(slots[p]))
  <1> DEFINE slotOf == [r \in Holding(p) |-> token[r][p]]
  <1>1. slotOf \in [Holding(p) -> Fresh(slots[p])]
    BY DEF SlotInv, Backed, Holding
  <1>2. \A r, s \in Holding(p) : slotOf[r] = slotOf[s] => r = s
    BY DEF SlotInv, Distinct, Holding
  <1>3. slotOf \in Injection(Holding(p), Fresh(slots[p]))
    BY <1>1, <1>2, Fun_IsInj
  <1>4. /\ IsFiniteSet(Holding(p))
        /\ Cardinality(Holding(p)) <= Cardinality(Fresh(slots[p]))
    BY <1>3, FreshFinite, FS_Injection
  <1> QED
    BY <1>4, FS_CardinalityType

LEMMA SlotInvMeansLimit == SlotInv => AtMostLimit
  <1> SUFFICES ASSUME SlotInv, NEW p \in Pools
               PROVE  Cardinality(Holding(p)) <= Limit[p]
    BY DEF AtMostLimit
  <1>1. Cardinality(Fresh(slots[p])) <= Limit[p] /\ Limit[p] \in Nat
    BY SlotsAssumption DEF SlotInv, Capacity
  <1> QED
    BY <1>1, HoldersFit, FreshFinite

LEMMA SlotInvHolds == Spec => []SlotInv
  <1>1. SlotInv /\ [Next]_vars => SlotInv'
    BY StepKeeps
  <1> QED
    BY InitKeeps, <1>1, PTL DEF Spec

\* Types: whatever is repeated, fails or crashes, a waiting counter stays within
\* its queue and every slot is a member with an age.
THEOREM TypeCorrect == Spec => []TypeOK
  <1>1. SlotInv => TypeOK
    BY DEF SlotInv
  <1> QED
    BY SlotInvHolds, <1>1, PTL

\* The limit: acquireScript, the releases and the expirations never let a pool
\* have more unreleased requests than maxConcurrency.
THEOREM LimitCorrect == Spec => []AtMostLimit
  BY SlotInvHolds, SlotInvMeansLimit, PTL

-----------------------------------------------------------------------------
(* Refinement of BoundedHolders *)

LEMMA EnterOrLeave ==
  ASSUME SlotInv, SlotInv', [Next]_vars
  PROVE  Bounded!Next
  <1>1. token \in [Requests -> [Pools -> Ids \cup {None}]]
    BY DEF SlotInv, TypeOK
  <1> DEFINE held == [x \in Pools |-> Holding(x)]
  <1>2. (held)' \in [Pools -> SUBSET Requests]
    BY DEF Holding
  <1>3. CASE \A x \in Pools : Holding(x)' \subseteq Holding(x)
    BY <1>2, <1>3 DEF Bounded!Next, Bounded!Leave
  <1>4. ASSUME OnlyLeaves
        PROVE  \A x \in Pools : Holding(x)' \subseteq Holding(x)
    BY <1>4 DEF OnlyLeaves, Holding
  <1>5. ASSUME NEW r \in Requests, NEW p \in Pools, NEW i \in Ids, NEW n, Took(r, p, i, n)
        PROVE  Bounded!Next
    <2>1. CASE token' = token
      BY <1>3, <2>1 DEF Holding
    <2>2. CASE /\ Granted(p, Before(p, i, n), i)
               /\ token' = [token EXCEPT ![r][p] = i]
      <3>1. \A q \in Requests, x \in Pools :
              token'[q][x] = IF q = r /\ x = p THEN i ELSE token[q][x]
        BY <1>1, <2>2
      <3>2. CASE r \in Holding(p)
        BY <1>3, <3>1, <3>2 DEF Holding
      <3>3. CASE r \notin Holding(p)
        <4>1. i \notin Fresh(slots[p])
          BY <1>5, NoneIsNoAge DEF Took, Unused, Fresh
        <4>2. Cardinality(Fresh(slots[p])) < Limit[p]
          BY <2>2, <4>1, AttemptFresh DEF SlotInv
        <4>3. Cardinality(Holding(p)) < Limit[p]
          BY <4>2, HoldersFit, FreshFinite, SlotsAssumption
        <4>4. \A x \in Pools : Holding(x)' = IF x = p THEN Holding(x) \cup {r} ELSE Holding(x)
          BY <3>1, NoneIsNoAge DEF Holding
        <4>5. (held)' = [held EXCEPT ![p] = held[p] \cup {r}]
          BY <4>4
        <4> HIDE DEF held
        <4>6. Bounded!Cardinality(Holding(p)) = Cardinality(Holding(p))
          BY Zenon DEF Bounded!Cardinality, Cardinality
        <4>7. Bounded!Enter(r, p)
          BY <3>3, <4>3, <4>5, <4>6 DEF Bounded!Enter, held
        <4> QED
          BY <4>7 DEF Bounded!Next
      <3> QED
        BY <3>2, <3>3
    <2> QED
      BY <1>5, <2>1, <2>2 DEF Took
  <1> QED
    BY <1>3, <1>4, <1>5, StepKeeps

\* Refinement: the scripts, retries, failed releases, crashes and expirations
\* together only ever admit one more holder to a pool that has room, or let
\* holders leave.
THEOREM Refinement == Spec => ImplementsBoundedHolders
  <1>1. Init => Bounded!Init
    BY DEF Init, Bounded!Init, Holding
  <1>2. SlotInv /\ SlotInv' /\ [Next]_vars => [Bounded!Next]_[p \in Pools |-> Holding(p)]
    BY EnterOrLeave
  <1> QED
    BY SlotInvHolds, <1>1, <1>2, PTL DEF Spec, Bounded!Spec, ImplementsBoundedHolders

-----------------------------------------------------------------------------
(* What is lost *)

\* The slots that a request has in its hands: its user's, and while it is on its
\* way to the account and back, the one of the account.  It asks for no second
\* slot of a pool.
InHand ==
  \A r \in Requests :
    /\ at[r] \in Users => at[r] = UserOf[r]
    /\ \A p \in Pools : token[r][p] # None =>
         \/ p = UserOf[r]
         \/ p = at[r] /\ pc[r] \in {"uncount", "forward"}
    /\ pc[r] \in {"count", "acquire"} => token[r][at[r]] = None

\* The set that LeaksOnlyByFaults counts.
AllLost == UNION {{<<p, i>> : i \in Lost(p)} : p \in Pools}

LeakInv == InHand /\ IsFiniteSet(AllLost) /\ LeaksOnlyByFaults

LosesNothing == AllLost' \subseteq AllLost /\ faults' \in {faults, faults + 1}

LosesTwo == faults' = faults + 1 /\ \E x, y : AllLost' \subseteq AllLost \cup {x, y}

LEMMA FewerLost ==
  ASSUME \A p \in Pools : Lost(p)' \subseteq Lost(p)
  PROVE  AllLost' \subseteq AllLost
  BY DEF AllLost

\* A faulty call adds the slot it was about.
LEMMA OneMoreLost ==
  ASSUME NEW p \in Pools, NEW i,
         \A q \in Pools : Lost(q)' \subseteq Lost(q) \cup (IF q = p THEN {i} ELSE {})
  PROVE  AllLost' \subseteq AllLost \cup {<<p, i>>, <<p, i>>}
  BY DEF AllLost

LEMMA OneMoreElement ==
  ASSUME NEW S, NEW x, IsFiniteSet(S)
  PROVE  /\ IsFiniteSet(S \cup {x})
         /\ Cardinality(S) \in Nat
         /\ Cardinality(S \cup {x}) \in Nat
         /\ Cardinality(S \cup {x}) <= Cardinality(S) + 1
  <1>1. /\ IsFiniteSet(S \cup {x})
        /\ Cardinality(S \cup {x}) = IF x \in S THEN Cardinality(S) ELSE Cardinality(S) + 1
    BY FS_AddElement
  <1>2. Cardinality(S) \in Nat /\ Cardinality(S \cup {x}) \in Nat
    BY <1>1, FS_CardinalityType
  <1> QED
    BY <1>1, <1>2

LEMMA LostStep ==
  ASSUME TypeOK, IsFiniteSet(AllLost), LeaksOnlyByFaults, LosesNothing \/ LosesTwo
  PROVE  IsFiniteSet(AllLost') /\ LeaksOnlyByFaults'
  <1>1. faults \in Nat /\ Cardinality(AllLost) \in Nat /\ Cardinality(AllLost) <= 2 * faults
    BY FS_CardinalityType, SlotsAssumption DEF TypeOK, LeaksOnlyByFaults, AllLost
  <1>2. CASE LosesNothing
    <2>1. IsFiniteSet(AllLost') /\ Cardinality(AllLost') <= Cardinality(AllLost)
      BY <1>2, FS_Subset DEF LosesNothing
    <2>2. Cardinality(AllLost') \in Nat
      BY <2>1, FS_CardinalityType
    <2>3. Cardinality(AllLost') <= 2 * faults'
      BY <1>1, <1>2, <2>1, <2>2 DEF LosesNothing
    <2> QED
      BY <2>1, <2>3 DEF LeaksOnlyByFaults, AllLost
  <1>3. CASE LosesTwo
    <2>1. PICK x, y : AllLost' \subseteq AllLost \cup {x, y}
      BY <1>3 DEF LosesTwo
    <2> DEFINE one == AllLost \cup {x}
               two == one \cup {y}
    <2>2. IsFiniteSet(one) /\ Cardinality(one) \in Nat /\ Cardinality(one) <= Cardinality(AllLost) + 1
      BY <1>1, OneMoreElement
    <2>3. AllLost' \subseteq two
      BY <2>1
    <2> HIDE DEF one
    <2>4. IsFiniteSet(two) /\ Cardinality(two) \in Nat /\ Cardinality(two) <= Cardinality(one) + 1
      BY <2>2, OneMoreElement
    <2> HIDE DEF two
    <2>5. IsFiniteSet(AllLost') /\ Cardinality(AllLost') <= Cardinality(two)
      BY <2>3, <2>4, FS_Subset
    <2>6. Cardinality(AllLost') \in Nat
      BY <2>5, FS_CardinalityType
    <2>7. Cardinality(AllLost') <= 2 * faults'
      BY <1>1, <1>3, <2>2, <2>4, <2>5, <2>6 DEF LosesTwo
    <2> QED
      BY <2>5, <2>7 DEF LeaksOnlyByFaults, AllLost
  <1> QED
    BY <1>2, <1>3

\* A refused attempt adds no slot, however often it was executed.
LEMMA RefusedFresh ==
  ASSUME SlotInv, NEW p \in Pools, NEW i \in Ids, NEW n, ~Granted(p, Before(p, i, n), i)
  PROVE  Fresh(AfterAcquire(p, Before(p, i, n), i)) = Fresh(slots[p])
  <1>1. slots[p] \in Members
    BY DEF SlotInv, TypeOK, Members
  <1> DEFINE members == Before(p, i, n)
             first == AfterAcquire(p, slots[p], i)
  <1>2. /\ first \in Members
        /\ Granted(p, slots[p], i) => Fresh(first) = Fresh(slots[p]) \cup {i}
        /\ ~Granted(p, slots[p], i) => Fresh(first) = Fresh(slots[p])
    BY <1>1, AcquireFresh
  <1>3. members = slots[p] \/ members = first
    BY DEF Before
  <1>4. i \notin Fresh(members)
    BY DEF Granted
  <1> HIDE DEF members, first
  <1>5. members \in Members
    BY <1>1, <1>2, <1>3
  <1>6. Fresh(members) = Fresh(slots[p])
    BY <1>2, <1>3, <1>4
  <1>7. ~Granted(p, members, i)
    BY DEF members
  <1>8. Fresh(AfterAcquire(p, members, i)) = Fresh(members)
    BY <1>5, <1>7, AcquireFresh
  <1> QED
    BY <1>6, <1>8 DEF members

\* An attempt that answers loses nothing: what it has added is in the request's hands.
LEMMA AttemptLosesNothing ==
  ASSUME SlotInv, NEW r \in Requests, NEW p \in Pools, NEW i \in Ids, NEW yes, NEW no,
         Attempt(r, p, i, yes, no), token[r][p] = None, UNCHANGED faults
  PROVE  LosesNothing
  <1>1. PICK n \in {1, 2} :
          /\ slots' = [slots EXCEPT ![p] = AfterAcquire(p, Before(p, i, n), i)]
          /\ IF Granted(p, Before(p, i, n), i)
             THEN token' = [token EXCEPT ![r][p] = i]
             ELSE UNCHANGED token
    BY DEF Attempt
  <1>2. slots \in [Pools -> Members] /\ token \in [Requests -> [Pools -> Ids \cup {None}]]
    BY DEF SlotInv, TypeOK, Members
  <1>3. Fresh(AfterAcquire(p, Before(p, i, n), i)) \subseteq Fresh(slots[p]) \cup {i}
    BY AttemptFresh DEF SlotInv
  <1>4. \A q \in Pools : q # p => slots'[q] = slots[q]
    BY <1>1, <1>2
  <1>5. slots'[p] = AfterAcquire(p, Before(p, i, n), i)
    BY <1>1, <1>2
  <1>6. CASE Granted(p, Before(p, i, n), i)
    <2>1. \A s \in Requests, q \in Pools :
            token'[s][q] = IF s = r /\ q = p THEN i ELSE token[s][q]
      BY <1>1, <1>2, <1>6
    <2>2. Fresh(slots'[p]) \subseteq Fresh(slots[p]) \cup {i}
      BY <1>3, <1>5
    <2>3. Lost(p)' \subseteq Lost(p)
      <3> SUFFICES ASSUME NEW j \in Fresh(slots'[p]), \A s \in Requests : token'[s][p] # j
                   PROVE  j \in Fresh(slots[p]) /\ \A s \in Requests : token[s][p] # j
        BY DEF Lost
      <3>1. j # i
        BY <2>1
      <3>2. j # None
        BY NoneIsNoAge DEF Fresh
      <3> QED
        BY <2>1, <2>2, <3>1, <3>2
    <2>4. \A q \in Pools : q # p => Lost(q)' = Lost(q)
      BY <1>4, <2>1 DEF Lost
    <2> QED
      BY <2>3, <2>4, FewerLost DEF LosesNothing
  <1>7. CASE ~Granted(p, Before(p, i, n), i)
    <2>1. Fresh(slots'[p]) = Fresh(slots[p])
      BY <1>5, <1>7, RefusedFresh
    <2>2. \A q \in Pools : Lost(q)' = Lost(q)
      BY <1>1, <1>4, <1>7, <2>1 DEF Lost
    <2> QED
      BY <2>2, FewerLost DEF LosesNothing
  <1> QED
    BY <1>6, <1>7

\* An attempt that fails loses the slot that it may have added.
LEMMA AttemptFailsLoses ==
  ASSUME SlotInv, NEW r \in Requests, NEW p \in Pools, NEW i \in Ids, NEW next,
         AttemptFails(r, p, i, next)
  PROVE  LosesNothing \/ LosesTwo
  <1>1. token' = token
    BY DEF AttemptFails
  <1>2. CASE UNCHANGED slots /\ Failed(r, 0)
    <2>1. \A q \in Pools : Lost(q)' = Lost(q)
      BY <1>1, <1>2 DEF Lost
    <2>2. faults' \in {faults, faults + 1}
      BY <1>2 DEF Failed, Fault
    <2> QED
      BY <2>1, <2>2, FewerLost DEF LosesNothing
  <1>3. CASE slots' = [slots EXCEPT ![p] = AfterAcquire(p, slots[p], i)] /\ Failed(r, 1)
    <2>1. faults' = faults + 1
      BY <1>3 DEF Failed, Fault
    <2>2. slots \in [Pools -> Members]
      BY DEF SlotInv, TypeOK, Members
    <2>3. Fresh(AfterAcquire(p, slots[p], i)) \subseteq Fresh(slots[p]) \cup {i}
      BY <2>2, AcquireFresh
    <2>4. \A q \in Pools : Fresh(slots'[q]) \subseteq Fresh(slots[q]) \cup (IF q = p THEN {i} ELSE {})
      BY <1>3, <2>2, <2>3
    <2>5. \A q \in Pools : Lost(q)' \subseteq Lost(q) \cup (IF q = p THEN {i} ELSE {})
      BY <1>1, <2>4 DEF Lost
    <2>6. AllLost' \subseteq AllLost \cup {<<p, i>>, <<p, i>>}
      BY <2>5, OneMoreLost
    <2> QED
      BY <2>1, <2>6 DEF LosesTwo
  <1> QED
    BY <1>2, <1>3 DEF AttemptFails

\* A release that fails loses the slot that it does not remove.
LEMMA DropLoses ==
  ASSUME SlotInv, NEW r \in Requests, NEW p \in Pools, Drop(r, p)
  PROVE  LosesNothing \/ LosesTwo
  <1> DEFINE i == token[r][p]
             after == [slots[p] EXCEPT ![i] = None]
  <1>1. slots \in [Pools -> Members] /\ token \in [Requests -> [Pools -> Ids \cup {None}]]
    BY DEF SlotInv, TypeOK, Members
  <1>2. i \in Ids
    BY <1>1 DEF Drop
  <1>3. \A s \in Requests, q \in Pools :
          token'[s][q] = IF s = r /\ q = p THEN None ELSE token[s][q]
    BY <1>1 DEF Drop
  <1>4. Fresh(after) = Fresh(slots[p]) \ {i}
    BY <1>1, <1>2, NoneIsNoAge DEF Members, Fresh
  <1>5. \/ slots' = [slots EXCEPT ![p] = after] /\ faults' = faults
        \/ slots' \in {slots, [slots EXCEPT ![p] = after]} /\ faults' = faults + 1
    BY DEF Drop, Fault
  <1> HIDE DEF after, i
  <1>6. CASE slots' = [slots EXCEPT ![p] = after]
    <2>1. \A q \in Pools : slots'[q] = IF q = p THEN after ELSE slots[q]
      BY <1>1, <1>6
    <2>2. Lost(p)' \subseteq Lost(p)
      <3> SUFFICES ASSUME NEW j \in Fresh(after), \A s \in Requests : token'[s][p] # j
                   PROVE  j \in Fresh(slots[p]) /\ \A s \in Requests : token[s][p] # j
        BY <2>1 DEF Lost
      <3>1. j # i /\ j \in Fresh(slots[p])
        BY <1>4
      <3> QED
        BY <1>3, <3>1 DEF i
    <2>3. \A q \in Pools : q # p => Lost(q)' = Lost(q)
      BY <1>3, <2>1 DEF Lost
    <2>4. faults' \in {faults, faults + 1}
      BY <1>5
    <2> QED
      BY <2>2, <2>3, <2>4, FewerLost DEF LosesNothing
  <1>7. CASE slots' = slots /\ faults' = faults + 1
    <2>1. \A q \in Pools : Lost(q)' \subseteq Lost(q) \cup (IF q = p THEN {i} ELSE {})
      <3> SUFFICES ASSUME NEW q \in Pools, NEW j \in Fresh(slots[q]),
                          \A s \in Requests : token'[s][q] # j,
                          q # p \/ j # i
                   PROVE  \A s \in Requests : token[s][q] # j
        BY <1>7 DEF Lost
      <3> QED
        BY <1>3 DEF i
    <2>2. AllLost' \subseteq AllLost \cup {<<p, i>>, <<p, i>>}
      BY <2>1, OneMoreLost
    <2> QED
      BY <1>7, <2>2 DEF LosesTwo
  <1> QED
    BY <1>5, <1>6, <1>7

\* A crash loses the slot of the user and that of the account.
LEMMA CrashLoses ==
  ASSUME SlotInv, InHand, NEW r \in Requests, Crash(r)
  PROVE  LosesTwo
  <1>1. /\ slots' = slots
        /\ token' = [token EXCEPT ![r] = [p \in Pools |-> None]]
        /\ faults' = faults + 1
    BY DEF Crash, redisVars, Fault
  <1>2. token \in [Requests -> [Pools -> Ids \cup {None}]]
    BY DEF SlotInv, TypeOK
  <1>3. \A s \in Requests : s # r => token'[s] = token[s]
    BY <1>1, <1>2
  <1>4. \A q \in Pools : \A j \in Lost(q)' :
          j \in Lost(q) \/ (j = token[r][q] /\ j # None)
    <2> SUFFICES ASSUME NEW q \in Pools, NEW j \in Fresh(slots[q]),
                        \A s \in Requests : token'[s][q] # j, j # token[r][q]
                 PROVE  \A s \in Requests : token[s][q] # j
      BY <1>1, NoneIsNoAge DEF Lost, Fresh
    <2> QED
      BY <1>3
  <1>5. \A q \in Pools : token[r][q] # None => q = UserOf[r] \/ q = at[r]
    BY DEF InHand
  <1> DEFINE x == <<UserOf[r], token[r][UserOf[r]]>>
             y == <<at[r], token[r][at[r]]>>
  <1>6. \A q \in Pools : \A j \in Lost(q)' : j \in Lost(q) \/ <<q, j>> \in {x, y}
    BY <1>4, <1>5
  <1>7. AllLost' \subseteq AllLost \cup {x, y}
    BY <1>6 DEF AllLost
  <1> QED
    BY <1>1, <1>7 DEF LosesTwo

\* Every step of a request leaves the others where they are.
LEMMA HandStep ==
  ASSUME SlotInv, InHand, NEW r \in Requests,
         \A q \in Requests : q # r =>
           pc'[q] = pc[q] /\ at'[q] = at[q] /\ token'[q] = token[q],
         at'[r] \in Users => at'[r] = UserOf[r],
         \A p \in Pools : token'[r][p] # None =>
           p = UserOf[r] \/ (p = at'[r] /\ pc'[r] \in {"uncount", "forward"}),
         pc'[r] \in {"count", "acquire"} => token'[r][at'[r]] = None
  PROVE  InHand'
  BY DEF InHand

LEMMA AttemptHand ==
  ASSUME SlotInv, NEW r \in Requests, NEW p \in Pools, NEW i \in Ids,
         NEW yes, NEW no, Attempt(r, p, i, yes, no)
  PROVE  /\ \A q \in Requests : q # r => pc'[q] = pc[q] /\ token'[q] = token[q]
         /\ \/ pc'[r] = yes /\ \A x \in Pools : x # p => token'[r][x] = token[r][x]
            \/ pc'[r] = no /\ token' = token
  <1>1. \/ token' = [token EXCEPT ![r][p] = i] /\ pc' = [pc EXCEPT ![r] = yes]
        \/ token' = token /\ pc' = [pc EXCEPT ![r] = no]
    BY DEF Attempt, Goto
  <1>2. token \in [Requests -> [Pools -> Ids \cup {None}]] /\ pc \in [Requests -> States]
    BY DEF SlotInv, TypeOK
  <1> QED
    BY <1>1, <1>2

LEMMA HandDrop ==
  ASSUME SlotInv, NEW r \in Requests, NEW p \in Pools, Drop(r, p)
  PROVE  \A q \in Requests, x \in Pools :
           token'[q][x] = IF q = r /\ x = p THEN None ELSE token[q][x]
  BY DEF Drop, SlotInv, TypeOK

\* The slots in hand, one request's step at a time.
LEMMA RequestKeepsHand ==
  ASSUME SlotInv, InHand, NEW r \in Requests, RequestStep(r)
  PROVE  InHand'
  <1>1. /\ token \in [Requests -> [Pools -> Ids \cup {None}]]
        /\ pc \in [Requests -> States]
        /\ at \in [Requests -> Pools]
    BY DEF SlotInv, TypeOK
  <1>2. at[r] \in Pools /\ UserOf[r] \in Users /\ UserOf[r] \notin Accounts
    BY <1>1, SlotsAssumption
  <1>3. /\ at[r] \in Users => at[r] = UserOf[r]
        /\ \A p \in Pools : token[r][p] # None =>
             p = UserOf[r] \/ (p = at[r] /\ pc[r] \in {"uncount", "forward"})
        /\ pc[r] \in {"count", "acquire"} => token[r][at[r]] = None
    BY DEF InHand
  <1>4. CASE Count(r) \/ CountFailsOpen(r)
    <2>1. /\ pc[r] = "count" /\ UNCHANGED <<at, token>>
          /\ pc' = [pc EXCEPT ![r] = "acquire"] \/ pc' = [pc EXCEPT ![r] = "return"]
      BY <1>4 DEF Count, CountFailsOpen, Goto
    <2> QED
      BY <1>1, <1>3, <2>1, HandStep
  <1>5. CASE GiveUp(r) \/ NoAccount(r) \/ Return(r)
    <2>1. /\ pc[r] \in {"acquire", "select", "return"} /\ UNCHANGED <<at, token>>
          /\ pc' = [pc EXCEPT ![r] = "return"] \/ pc' = [pc EXCEPT ![r] = "end"]
      BY <1>5 DEF GiveUp, NoAccount, Return, Goto
    <2> QED
      BY <1>1, <1>3, <2>1, HandStep
  <1>6. CASE Uncount(r)
    <2>1. /\ pc[r] = "uncount" /\ UNCHANGED <<at, token>>
          /\ pc' = [pc EXCEPT ![r] = IF at[r] \in Users THEN "select" ELSE "forward"]
      BY <1>6 DEF Uncount, Goto
    <2> QED
      BY <1>1, <1>2, <1>3, <2>1, HandStep
  <1>7. CASE ForwardEnds(r)
    <2>1. /\ UNCHANGED at
          /\ pc' = [pc EXCEPT ![r] = "return"] \/ pc' = [pc EXCEPT ![r] = "select"]
      BY <1>7 DEF ForwardEnds, Goto
    <2>2. (token' = token /\ token[r][at[r]] = None) \/ Drop(r, at[r])
      BY <1>7 DEF ForwardEnds
    <2>3. \A q \in Requests, x \in Pools :
            token'[q][x] = IF q = r /\ x = at[r] THEN None ELSE token[q][x]
      BY <1>2, <2>2, HandDrop
    <2>4. \A q \in Requests : q # r => token'[q] = token[q]
      BY <1>1, <2>2 DEF Drop
    <2> QED
      BY <1>1, <1>2, <1>3, <2>1, <2>3, <2>4, HandStep
  <1>8. ASSUME NEW p \in Pools, ReturnSlot(r, p) \/ ReleaseOnDone(r, p)
        PROVE  InHand'
    <2>1. Drop(r, p) /\ UNCHANGED <<pc, at>>
      BY <1>8 DEF ReturnSlot, ReleaseOnDone
    <2>2. \A q \in Requests, x \in Pools :
            token'[q][x] = IF q = r /\ x = p THEN None ELSE token[q][x]
      BY <2>1, HandDrop
    <2>3. \A q \in Requests : q # r => token'[q] = token[q]
      BY <1>1, <2>1 DEF Drop
    <2> QED
      BY <1>1, <1>2, <1>3, <2>1, <2>2, <2>3, HandStep
  <1>9. ASSUME NEW i \in Ids, Acquire(r, i) PROVE InHand'
    <2>1. pc[r] = "acquire" /\ UNCHANGED at /\ Attempt(r, at[r], i, "uncount", "acquire")
      BY <1>9 DEF Acquire
    <2>2. /\ \A q \in Requests : q # r => pc'[q] = pc[q] /\ token'[q] = token[q]
          /\ \/ pc'[r] = "uncount" /\ \A x \in Pools : x # at[r] => token'[r][x] = token[r][x]
             \/ pc'[r] = "acquire" /\ token' = token
      BY <1>2, <2>1, AttemptHand
    <2> QED
      BY <1>2, <1>3, <2>1, <2>2, HandStep
  <1>10. ASSUME NEW a \in Accounts, NEW i \in Ids, Select(r, a, i) PROVE InHand'
    <2>1. /\ pc[r] = "select" /\ at' = [at EXCEPT ![r] = a]
          /\ Attempt(r, a, i, "forward", "select")
      BY <1>10 DEF Select
    <2>2. a \in Pools /\ a \notin Users
      BY SlotsAssumption DEF Pools
    <2>3. /\ \A q \in Requests : q # r => pc'[q] = pc[q] /\ token'[q] = token[q]
          /\ \/ pc'[r] = "forward" /\ \A x \in Pools : x # a => token'[r][x] = token[r][x]
             \/ pc'[r] = "select" /\ token' = token
      BY <2>1, <2>2, AttemptHand
    <2>4. at'[r] = a /\ \A q \in Requests : q # r => at'[q] = at[q]
      BY <1>1, <2>1, <2>2
    <2> QED
      BY <1>3, <2>1, <2>2, <2>3, <2>4, HandStep
  <1>11. ASSUME NEW p \in Pools, NEW i \in Ids, NEW next \in {"return", "select"},
                pc[r] \in {"acquire", "select"}, AttemptFails(r, p, i, next), UNCHANGED at
         PROVE  InHand'
    <2>1. token' = token /\ pc' = [pc EXCEPT ![r] = next]
      BY <1>11 DEF AttemptFails, Goto
    <2> QED
      BY <1>1, <1>3, <1>11, <2>1, HandStep
  <1>12. ASSUME NEW i \in Ids, AcquireError(r, i) PROVE InHand'
    BY <1>2, <1>11, <1>12 DEF AcquireError
  <1>13. ASSUME NEW a \in Accounts, NEW i \in Ids, SelectError(r, a, i) PROVE InHand'
    BY <1>11, <1>13 DEF SelectError, Pools
  <1>14. ASSUME NEW a \in Accounts, WaitPlan(r, a) PROVE InHand'
    <2>1. /\ pc[r] = "select" /\ at' = [at EXCEPT ![r] = a]
          /\ pc' = [pc EXCEPT ![r] = "count"] /\ token' = token
      BY <1>14 DEF WaitPlan, Goto
    <2>2. a \in Pools /\ a \notin Users
      BY SlotsAssumption DEF Pools
    <2> QED
      BY <1>1, <1>2, <1>3, <2>1, <2>2, HandStep
  <1>15. CASE ReturnCount(r) \/ Cancel(r)
    <2>1. UNCHANGED <<pc, at, token>>
      BY <1>15 DEF ReturnCount, Cancel
    <2> QED
      BY <1>3, <2>1, HandStep
  <1>16. CASE Crash(r)
    <2>1. /\ token' = [token EXCEPT ![r] = [p \in Pools |-> None]]
          /\ pc' = [pc EXCEPT ![r] = "end"] /\ UNCHANGED at
      BY <1>16 DEF Crash, Goto
    <2> QED
      BY <1>1, <1>3, <2>1, HandStep
  <1> QED
    BY <1>4, <1>5, <1>6, <1>7, <1>8, <1>9, <1>10, <1>12, <1>13, <1>14, <1>15, <1>16
       DEF RequestStep, HandlerStep, ErrorStep

\* What one step of a request loses.
LEMMA RequestLoses ==
  ASSUME SlotInv, InHand, NEW r \in Requests, RequestStep(r)
  PROVE  LosesNothing \/ LosesTwo
  <1>1. ASSUME UNCHANGED <<slots, token>>, faults' \in {faults, faults + 1}
        PROVE  LosesNothing
    <2>1. \A q \in Pools : Lost(q)' = Lost(q)
      BY <1>1 DEF Lost
    <2> QED
      BY <1>1, <2>1, FewerLost DEF LosesNothing
  <1>2. at[r] \in Pools /\ UserOf[r] \in Users /\ UserOf[r] \notin Accounts
    BY SlotsAssumption DEF SlotInv, TypeOK
  <1>3. CASE Count(r) \/ CountFailsOpen(r) \/ Uncount(r) \/ ReturnCount(r)
    <2>1. UNCHANGED <<slots, token>> /\ faults' \in {faults, faults + 1}
      BY <1>3 DEF Count, CountFailsOpen, Uncount, ReturnCount, TakeBack, Failed, Fault
    <2> QED
      BY <1>1, <2>1
  <1>4. CASE \/ GiveUp(r) \/ NoAccount(r) \/ Return(r) \/ Cancel(r)
             \/ \E a \in Accounts : WaitPlan(r, a)
    <2>1. UNCHANGED <<slots, token, faults>>
      BY <1>4 DEF GiveUp, NoAccount, Return, Cancel, WaitPlan, redisVars
    <2> QED
      BY <1>1, <2>1
  <1>5. CASE ForwardEnds(r)
    <2>1. CASE Drop(r, at[r])
      BY <1>2, <2>1, DropLoses
    <2>2. CASE UNCHANGED <<slots, token, faults>>
      BY <1>1, <2>2
    <2> QED
      BY <1>5, <2>1, <2>2 DEF ForwardEnds
  <1>6. CASE \E p \in Pools : ReturnSlot(r, p) \/ ReleaseOnDone(r, p)
    BY <1>6, DropLoses DEF ReturnSlot, ReleaseOnDone
  <1>7. ASSUME NEW i \in Ids, Acquire(r, i) PROVE LosesNothing
    <2>1. token[r][at[r]] = None
      BY <1>7 DEF Acquire, InHand
    <2>2. Attempt(r, at[r], i, "uncount", "acquire") /\ UNCHANGED faults
      BY <1>7 DEF Acquire
    <2> QED
      BY <1>2, <2>1, <2>2, AttemptLosesNothing
  <1>8. ASSUME NEW a \in Accounts, NEW i \in Ids, Select(r, a, i) PROVE LosesNothing
    <2>1. a \in Pools /\ pc[r] = "select"
      BY <1>8 DEF Select, Pools
    <2>2. token[r][a] = None
      BY <1>2, <2>1 DEF InHand
    <2>3. Attempt(r, a, i, "forward", "select") /\ UNCHANGED faults
      BY <1>8 DEF Select
    <2> QED
      BY <2>1, <2>2, <2>3, AttemptLosesNothing
  <1>9. CASE ErrorStep(r)
    <2>1. ASSUME NEW i \in Ids, AcquireError(r, i) PROVE LosesNothing \/ LosesTwo
      BY <1>2, <2>1, AttemptFailsLoses DEF AcquireError
    <2>2. ASSUME NEW a \in Accounts, NEW i \in Ids, SelectError(r, a, i)
          PROVE  LosesNothing \/ LosesTwo
      BY <2>2, AttemptFailsLoses DEF SelectError, Pools
    <2> QED
      BY <1>3, <1>9, <2>1, <2>2 DEF ErrorStep
  <1>10. CASE Crash(r)
    BY <1>10, CrashLoses
  <1> QED
    BY <1>3, <1>4, <1>5, <1>6, <1>7, <1>8, <1>9, <1>10 DEF RequestStep, HandlerStep

LEMMA LeakInvStep ==
  ASSUME SlotInv, LeakInv, [Next]_vars
  PROVE  LeakInv'
  <1>1. TypeOK /\ InHand /\ IsFiniteSet(AllLost) /\ LeaksOnlyByFaults
    BY DEF SlotInv, LeakInv
  <1>2. ASSUME NEW r \in Requests, RequestStep(r) PROVE LeakInv'
    <2>1. InHand' /\ (LosesNothing \/ LosesTwo)
      BY <1>1, <1>2, RequestKeepsHand, RequestLoses
    <2>2. IsFiniteSet(AllLost') /\ LeaksOnlyByFaults'
      BY <1>1, <2>1, LostStep
    <2> QED
      BY <2>1, <2>2 DEF LeakInv
  <1>3. ASSUME UNCHANGED <<pc, at, token, faults>>,
               \A p \in Pools : Fresh(slots'[p]) \subseteq Fresh(slots[p])
        PROVE  LeakInv'
    <2>1. \A p \in Pools : Lost(p)' \subseteq Lost(p)
      BY <1>3 DEF Lost
    <2>2. LosesNothing
      BY <1>3, <2>1, FewerLost DEF LosesNothing
    <2>3. IsFiniteSet(AllLost') /\ LeaksOnlyByFaults'
      BY <1>1, <2>2, LostStep
    <2>4. InHand'
      BY <1>1, <1>3 DEF InHand
    <2> QED
      BY <2>3, <2>4 DEF LeakInv
  <1>4. ASSUME NEW a \in Accounts, CleanupExpired(a) PROVE LeakInv'
    <2>1. a \in Pools /\ slots \in [Pools -> Members]
      BY DEF Pools, SlotInv, TypeOK, Members
    <2>2. slots' = [slots EXCEPT ![a] = Purged(slots[a])]
      BY <1>4 DEF CleanupExpired
    <2>3. Fresh(Purged(slots[a])) = Fresh(slots[a])
      BY <2>1, PurgedFresh
    <2>4. \A p \in Pools : Fresh(slots'[p]) = Fresh(slots[p])
      BY <2>1, <2>2, <2>3
    <2>5. UNCHANGED <<pc, at, token, faults>>
      BY <1>4 DEF CleanupExpired
    <2> QED
      BY <1>3, <2>4, <2>5
  <1>5. CASE Tick
    <2>1. \A p \in Pools : Fresh(slots'[p]) \subseteq Fresh(slots[p])
      BY <1>5, TickForgets
    <2>2. UNCHANGED <<pc, at, token, faults>>
      BY <1>5 DEF Tick
    <2> QED
      BY <1>3, <2>1, <2>2
  <1>6. CASE UNCHANGED vars
    BY <1>3, <1>6 DEF vars
  <1> QED
    BY <1>2, <1>4, <1>5, <1>6 DEF Next

LEMMA LeakInvInit == Init => LeakInv
  <1> SUFFICES ASSUME Init PROVE LeakInv
    OBVIOUS
  <1>1. InHand
    <2>1. \A r \in Requests : UserOf[r] \in Pools
      BY SlotsAssumption DEF Pools
    <2> QED
      BY <2>1 DEF Init, InHand
  <1>2. \A p \in Pools : Lost(p) = {}
    BY NoneIsNoAge DEF Init, Lost, Fresh
  <1>3. AllLost = {}
    BY <1>2 DEF AllLost
  <1>4. IsFiniteSet(AllLost) /\ Cardinality(AllLost) = 0
    BY <1>3, FS_EmptySet
  <1>5. LeaksOnlyByFaults
    BY <1>4 DEF Init, LeaksOnlyByFaults, AllLost
  <1> QED
    BY <1>1, <1>4, <1>5 DEF LeakInv

\* Leaks: only a release or an answer that is lost, or a crash, leaves a slot of
\* acquireScript without a request that will remove it, one or two for each fault.
THEOREM LeaksCorrect == Spec => []LeaksOnlyByFaults
  <1>1. SlotInv /\ LeakInv /\ [Next]_vars => LeakInv'
    BY LeakInvStep
  <1>2. LeakInv => LeaksOnlyByFaults
    BY DEF LeakInv
  <1> QED
    BY SlotInvHolds, LeakInvInit, <1>1, <1>2, PTL DEF Spec

-----------------------------------------------------------------------------
(* The queue depth *)

\* What the exact count rests on: a call that answers was executed once, and
\* nobody's context is done before his call is sent.
CallsOnce == "again" \notin Faults /\ Leavers = {}

\* A counter lives longer than its waiters wait.
OutlivesWaits == WaitTimeout < WaitTtl

Waiting(p) == {r \in Requests : counted[r] /\ at[r] = p}

\* A request is counted while it acquires, and on its way back if it gave up; the
\* counter was renewed when it was counted, or later.
QueueHand(r) ==
  /\ counted[r] => /\ pc[r] \in {"acquire", "uncount", "return"}
                   /\ waitAge[at[r]] <= waited[r]
                   /\ waited[r] <= WaitTimeout
  /\ ~counted[r] => waited[r] = 0
  /\ pc[r] \in {"acquire", "uncount"} => counted[r]

QueueExact == \A p \in Pools : IsFiniteSet(Waiting(p)) /\ wait[p] = Cardinality(Waiting(p))

QueueInv ==
  faults = 0 => live = Requests /\ (\A r \in Requests : QueueHand(r)) /\ QueueExact

\* The steps that leave the counters alone, and do not move a request that is
\* counted to another pool.
LEMMA QueueQuiet ==
  ASSUME QueueInv, faults = 0, NEW r,
         UNCHANGED <<wait, waitAge, counted, waited, live>>,
         \A q \in Requests : q # r => pc'[q] = pc[q],
         \A q \in Requests : counted[q] => at'[q] = at[q],
         r \in Requests /\ counted[r] => pc'[r] \in {"acquire", "uncount", "return"},
         r \in Requests /\ ~counted[r] => pc'[r] \notin {"acquire", "uncount"}
  PROVE  QueueInv'
  <1>1. \A p \in Pools : Waiting(p)' = Waiting(p)
    BY DEF Waiting
  <1>2. live = Requests /\ (\A q \in Requests : QueueHand(q)) /\ QueueExact
    BY DEF QueueInv
  <1>3. QueueExact'
    BY <1>1, <1>2 DEF QueueExact
  <1>4. \A q \in Requests : QueueHand(q)'
    BY <1>2 DEF QueueHand
  <1> QED
    BY <1>2, <1>3, <1>4 DEF QueueInv

\* A request is counted if there is room in the queue.
LEMMA QueueCount ==
  ASSUME CallsOnce, SlotInv, QueueInv, faults = 0, NEW r \in Requests, Count(r)
  PROVE  QueueInv'
  <1> DEFINE p == at[r]
  <1>1. /\ wait \in [Pools -> Nat] /\ waitAge \in [Pools -> 0 .. WaitTtl]
        /\ wait[p] <= MaxWait[p] /\ MaxWait[p] \in Nat /\ p \in Pools
        /\ counted \in [Requests -> BOOLEAN] /\ pc \in [Requests -> States]
        /\ waited \in [Requests -> Nat] /\ WaitTimeout \in Nat /\ WaitTtl \in Nat
    BY SlotsAssumption DEF SlotInv, TypeOK
  <1>2. /\ live = Requests /\ (\A q \in Requests : QueueHand(q)) /\ QueueExact
        /\ pc[r] = "count"
    BY DEF QueueInv, Count
  <1>3. ~counted[r] /\ waited[r] = 0
    BY <1>2 DEF QueueHand
  <1>4. /\ Increment(p, 1)
        /\ IF wait[p] + 1 <= MaxWait[p]
           THEN counted' = [counted EXCEPT ![r] = TRUE] /\ pc' = [pc EXCEPT ![r] = "acquire"]
           ELSE UNCHANGED counted /\ pc' = [pc EXCEPT ![r] = "return"]
        /\ UNCHANGED <<at, waited, live, faults>>
    BY DEF CallsOnce, Count, Answered, Goto
  <1>5. CASE wait[p] + 1 <= MaxWait[p]
    <2>1. wait' = [wait EXCEPT ![p] = wait[p] + 1]
      BY <1>4, <1>5 DEF Increment
    <2>2. wait'[p] # wait[p]
      BY <1>1, <2>1
    <2>3. waitAge' = [waitAge EXCEPT ![p] = 0]
      BY <1>4, <2>2 DEF Increment
    <2>4. \A x \in Pools : Waiting(x)' = IF x = p THEN Waiting(x) \cup {r} ELSE Waiting(x)
      BY <1>1, <1>4, <1>5 DEF Waiting
    <2>5. r \notin Waiting(p)
      BY <1>3 DEF Waiting
    <2>6. /\ IsFiniteSet(Waiting(p) \cup {r})
          /\ Cardinality(Waiting(p) \cup {r}) = wait[p] + 1
      <3>1. IsFiniteSet(Waiting(p)) /\ Cardinality(Waiting(p)) = wait[p]
        BY <1>1, <1>2 DEF QueueExact
      <3> QED
        BY <2>5, <3>1, FS_AddElement
    <2>7. QueueExact'
      <3>1. \A x \in Pools : wait'[x] = IF x = p THEN wait[p] + 1 ELSE wait[x]
        BY <1>1, <2>1
      <3>2. \A x \in Pools : IsFiniteSet(Waiting(x)) /\ wait[x] = Cardinality(Waiting(x))
        BY <1>2 DEF QueueExact
      <3>3. ASSUME NEW x \in Pools
            PROVE  (IsFiniteSet(Waiting(x)) /\ wait[x] = Cardinality(Waiting(x)))'
        <4>1. CASE x = p
          <5>1. Waiting(x)' = Waiting(p) \cup {r} /\ wait'[x] = wait[p] + 1
            BY <2>4, <3>1, <4>1
          <5> QED
            BY <2>6, <5>1
        <4>2. CASE x # p
          <5>1. Waiting(x)' = Waiting(x) /\ wait'[x] = wait[x]
            BY <2>4, <3>1, <4>2
          <5> QED
            BY <3>2, <5>1
        <4> QED
          BY <4>1, <4>2
      <3> QED
        BY <3>3 DEF QueueExact
    <2>8. \A x \in Pools : waitAge'[x] = IF x = p THEN 0 ELSE waitAge[x]
      BY <1>1, <2>3
    <2>9. at \in [Requests -> Pools]
      BY DEF SlotInv, TypeOK
    <2>10. ASSUME NEW q \in Requests PROVE QueueHand(q)'
      <3>1. /\ counted'[q] = IF q = r THEN TRUE ELSE counted[q]
            /\ pc'[q] = IF q = r THEN "acquire" ELSE pc[q]
            /\ waited' = waited /\ at' = at
        BY <1>1, <1>4, <1>5
      <3>2. at[q] \in Pools /\ 0 <= waited[q]
        BY <1>1, <2>9
      <3>3. waitAge'[at[q]] = 0 \/ waitAge'[at[q]] = waitAge[at[q]]
        BY <2>8, <3>2
      <3>4. CASE q = r
        <4>1. waitAge'[at[q]] = 0
          BY <2>8, <3>2, <3>4
        <4> QED
          BY <1>1, <1>3, <3>1, <3>4, <4>1 DEF QueueHand
      <3>5. CASE q # r
        BY <1>2, <3>1, <3>2, <3>3, <3>5 DEF QueueHand
      <3> QED
        BY <3>4, <3>5
    <2> QED
      BY <1>2, <1>4, <2>7, <2>10 DEF QueueInv
  <1>6. CASE ~(wait[p] + 1 <= MaxWait[p])
    <2>1. wait' = [wait EXCEPT ![p] = MaxWait[p]]
      BY <1>4, <1>6 DEF Increment
    <2>2. MaxWait[p] = wait[p]
      BY <1>1, <1>6
    <2>3. wait' = wait
      BY <1>1, <2>1, <2>2
    <2>4. waitAge' = waitAge
      BY <1>4, <2>3 DEF Increment
    <2> QED
      BY <1>1, <1>2, <1>3, <1>4, <1>6, <2>3, <2>4, QueueQuiet
  <1> QED
    BY <1>5, <1>6

\* A count is taken back by who has added it.
LEMMA QueueTakeBack ==
  ASSUME CallsOnce, SlotInv, QueueInv, faults' = 0, NEW r \in Requests, counted[r],
         TakeBack(r), UNCHANGED <<at, live>>,
         \A q \in Requests : q # r => pc'[q] = pc[q],
         pc'[r] \notin {"acquire", "uncount"}
  PROVE  QueueInv'
  <1> DEFINE p == at[r]
  <1>1. /\ wait \in [Pools -> Nat] /\ p \in Pools
        /\ counted \in [Requests -> BOOLEAN]
        /\ waited \in [Requests -> Nat]
        /\ faults \in Nat
    BY SlotsAssumption DEF SlotInv, TypeOK
  <1>2. faults' # faults + 1
    BY <1>1
  <1>3. /\ Decrement(p, 1) /\ faults = 0
        /\ counted' = [counted EXCEPT ![r] = FALSE]
        /\ waited' = [waited EXCEPT ![r] = 0]
    BY <1>2 DEF TakeBack, CallsOnce, Answered, Fault
  <1>4. live = Requests /\ (\A q \in Requests : QueueHand(q)) /\ QueueExact
    BY <1>3 DEF QueueInv
  <1>5. /\ wait' = [wait EXCEPT ![p] = IF wait[p] > 1 THEN wait[p] - 1 ELSE 0]
        /\ waitAge' = waitAge
    BY <1>3 DEF Decrement
  <1>6. r \in Waiting(p) /\ IsFiniteSet(Waiting(p)) /\ wait[p] = Cardinality(Waiting(p))
    BY <1>1, <1>4 DEF Waiting, QueueExact
  <1>7. /\ IsFiniteSet(Waiting(p) \ {r})
        /\ Cardinality(Waiting(p) \ {r}) = Cardinality(Waiting(p)) - 1
    BY <1>6, FS_RemoveElement
  <1>8. Cardinality(Waiting(p) \ {r}) \in Nat
    BY <1>7, FS_CardinalityType
  <1>9. wait'[p] = Cardinality(Waiting(p) \ {r})
    BY <1>1, <1>5, <1>6, <1>7, <1>8
  <1>10. \A x \in Pools : Waiting(x)' = IF x = p THEN Waiting(x) \ {r} ELSE Waiting(x)
    BY <1>1, <1>3 DEF Waiting
  <1>11. QueueExact'
    BY <1>1, <1>4, <1>5, <1>7, <1>9, <1>10 DEF QueueExact
  <1>12. \A q \in Requests : QueueHand(q)'
    BY <1>1, <1>3, <1>4, <1>5 DEF QueueHand
  <1> QED
    BY <1>4, <1>11, <1>12 DEF QueueInv

\* Time passes, and no counter expires while somebody waits.
LEMMA QueueTick ==
  ASSUME OutlivesWaits, SlotInv, QueueInv, faults = 0, Tick
  PROVE  QueueInv'
  <1>1. /\ wait \in [Pools -> Nat] /\ waitAge \in [Pools -> 0 .. WaitTtl]
        /\ at \in [Requests -> Pools]
        /\ counted \in [Requests -> BOOLEAN]
        /\ waited \in [Requests -> Nat] /\ WaitTimeout \in Nat /\ WaitTtl \in Nat
        /\ WaitTimeout < WaitTtl
    BY SlotsAssumption DEF SlotInv, TypeOK, OutlivesWaits
  <1>2. live = Requests /\ (\A q \in Requests : QueueHand(q)) /\ QueueExact
    BY DEF QueueInv
  <1>3. /\ \A q \in Requests : counted[q] => waited[q] < WaitTimeout
        /\ waitAge' = [p \in Pools |-> IF wait[p] > 0 /\ waitAge[p] < WaitTtl
                                       THEN waitAge[p] + 1 ELSE waitAge[p]]
        /\ wait' = [p \in Pools |-> IF waitAge'[p] = WaitTtl THEN 0 ELSE wait[p]]
        /\ waited' = [q \in Requests |-> IF counted[q] THEN waited[q] + 1 ELSE waited[q]]
        /\ UNCHANGED <<pc, at, counted, live, faults>>
    BY DEF Tick
  <1>4. \A q \in Requests : counted[q] =>
          /\ waitAge'[at[q]] <= waited'[q] /\ waited'[q] <= WaitTimeout
          /\ waitAge'[at[q]] # WaitTtl
    <2> SUFFICES ASSUME NEW q \in Requests, counted[q]
                 PROVE  /\ waitAge'[at[q]] <= waited'[q] /\ waited'[q] <= WaitTimeout
                        /\ waitAge'[at[q]] # WaitTtl
      OBVIOUS
    <2>1. waitAge[at[q]] <= waited[q] /\ waited[q] < WaitTimeout /\ waited[q] \in Nat
      BY <1>1, <1>2, <1>3 DEF QueueHand
    <2>2. waited'[q] = waited[q] + 1
      BY <1>3
    <2>3. at[q] \in Pools /\ waitAge[at[q]] \in 0 .. WaitTtl
      BY <1>1
    <2>4. waitAge'[at[q]] \in {waitAge[at[q]], waitAge[at[q]] + 1}
      BY <1>3, <2>3
    <2> QED
      BY <1>1, <2>1, <2>2, <2>3, <2>4
  <1>5. \A p \in Pools : Waiting(p)' = Waiting(p)
    BY <1>3 DEF Waiting
  <1>6. \A p \in Pools : wait'[p] = wait[p]
    <2> TAKE p \in Pools
    <2>1. CASE Waiting(p) = {}
      BY <1>2, <1>3, <2>1, FS_EmptySet DEF QueueExact
    <2>2. ASSUME NEW q \in Waiting(p) PROVE wait'[p] = wait[p]
      BY <1>3, <1>4, <2>2 DEF Waiting
    <2> QED
      BY <2>1, <2>2
  <1>7. QueueExact'
    BY <1>2, <1>5, <1>6 DEF QueueExact
  <1>8. \A q \in Requests : QueueHand(q)'
    BY <1>1, <1>2, <1>3, <1>4 DEF QueueHand
  <1> QED
    BY <1>2, <1>3, <1>7, <1>8 DEF QueueInv

LEMMA QueueStutter ==
  ASSUME QueueInv, UNCHANGED <<wait, waitAge, pc, at, counted, waited, live, faults>>
  PROVE  QueueInv'
  BY DEF QueueInv, QueueHand, QueueExact, Waiting

LEMMA RequestKeepsQueue ==
  ASSUME CallsOnce, SlotInv, QueueInv, NEW r \in Requests, RequestStep(r), faults' = 0
  PROVE  QueueInv'
  <1>1. /\ token \in [Requests -> [Pools -> Ids \cup {None}]]
        /\ pc \in [Requests -> States]
        /\ at \in [Requests -> Pools]
        /\ counted \in [Requests -> BOOLEAN]
        /\ faults \in Nat
    BY SlotsAssumption DEF SlotInv, TypeOK
  <1>2. faults' # faults + 1
    BY <1>1
  <1>3. ~Fault("redis") /\ ~Fault("crash")
    BY <1>2 DEF Fault
  <1>4. faults' = faults => live = Requests /\ \A q \in Requests : QueueHand(q)
    BY DEF QueueInv
  <1>5. CASE Count(r)
    <2>1. faults = 0
      BY <1>5 DEF Count
    <2> QED
      BY <1>5, <2>1, QueueCount
  <1>6. CASE ErrorStep(r) \/ Crash(r)
    <2>1. ~ErrorStep(r)
      <3>1. \A n : ~Failed(r, n)
        BY <1>3, <1>4 DEF Failed
      <3> QED
        BY <3>1 DEF ErrorStep, CountFailsOpen, AcquireError, SelectError, AttemptFails
    <2> QED
      BY <1>3, <1>6, <2>1 DEF Crash
  <1>7. CASE Uncount(r)
    <2>1. /\ pc[r] = "uncount" /\ TakeBack(r) /\ UNCHANGED <<at, live>>
          /\ pc' = [pc EXCEPT ![r] = IF at[r] \in Users THEN "select" ELSE "forward"]
      BY <1>7 DEF Uncount, Goto
    <2>2. faults' = faults
      BY <1>3, <2>1 DEF TakeBack
    <2>3. counted[r]
      BY <1>4, <2>1, <2>2 DEF QueueHand
    <2> QED
      BY <1>1, <2>1, <2>3, QueueTakeBack
  <1>8. CASE ReturnCount(r)
    <2>1. pc[r] = "return" /\ counted[r] /\ TakeBack(r) /\ UNCHANGED <<pc, at, live>>
      BY <1>8 DEF ReturnCount
    <2> QED
      BY <2>1, QueueTakeBack
  <1>9. CASE Cancel(r)
    BY <1>9 DEF Cancel, CallsOnce
  <1>10. ASSUME UNCHANGED <<wait, waitAge, counted, waited, live, faults>>,
                pc'[r] \in {"select", "forward", "count", "end"} => ~counted[r],
                pc'[r] \in {"acquire", "uncount"} => counted[r],
                \A q \in Requests : q # r => pc'[q] = pc[q],
                pc'[r] \in States,
                \A q \in Requests : counted[q] => at'[q] = at[q]
         PROVE  QueueInv'
    BY <1>10, QueueQuiet DEF States
  <1>11. ASSUME UNCHANGED <<wait, waitAge, counted, waited, live>>, UNCHANGED <<pc, at>>,
                NEW p \in Pools, Drop(r, p)
         PROVE  QueueInv'
    <2>1. faults' = faults
      BY <1>3, <1>11 DEF Drop
    <2>2. pc[r] \in States
      BY <1>1
    <2> QED
      BY <1>4, <1>10, <1>11, <2>1, <2>2 DEF QueueHand, States
  <1>12. CASE GiveUp(r) \/ NoAccount(r) \/ Return(r)
    <2>1. /\ UNCHANGED <<wait, waitAge, counted, waited, live, faults, at>>
          /\ pc' = [pc EXCEPT ![r] = "return"] \/ (pc' = [pc EXCEPT ![r] = "end"] /\ ~counted[r])
      BY <1>12 DEF GiveUp, NoAccount, Return, Goto, redisVars
    <2> QED
      BY <1>1, <1>10, <2>1 DEF States
  <1>13. CASE ForwardEnds(r)
    <2>1. /\ UNCHANGED <<wait, waitAge, counted, waited, live, at>>
          /\ pc[r] = "forward"
          /\ pc' = [pc EXCEPT ![r] = "return"] \/ pc' = [pc EXCEPT ![r] = "select"]
          /\ faults' = faults
      BY <1>3, <1>13 DEF ForwardEnds, Goto, Drop
    <2>2. ~counted[r]
      BY <1>4, <2>1 DEF QueueHand
    <2> QED
      BY <1>1, <1>10, <2>1, <2>2 DEF States
  <1>14. ASSUME NEW i \in Ids, Acquire(r, i) PROVE QueueInv'
    <2>1. /\ UNCHANGED <<wait, waitAge, counted, waited, live, faults, at>>
          /\ pc[r] = "acquire"
          /\ pc' = [pc EXCEPT ![r] = "uncount"] \/ pc' = [pc EXCEPT ![r] = "acquire"]
      BY <1>14 DEF Acquire, Attempt, Goto
    <2>2. counted[r]
      BY <1>4, <2>1 DEF QueueHand
    <2> QED
      BY <1>1, <1>10, <2>1, <2>2 DEF States
  <1>15. ASSUME NEW a \in Accounts, WaitPlan(r, a) \/ \E i \in Ids : Select(r, a, i)
         PROVE  QueueInv'
    <2>1. /\ UNCHANGED <<wait, waitAge, counted, waited, live, faults>>
          /\ pc[r] = "select" /\ at' = [at EXCEPT ![r] = a]
          /\ \/ pc' = [pc EXCEPT ![r] = "count"] \/ pc' = [pc EXCEPT ![r] = "forward"]
             \/ pc' = [pc EXCEPT ![r] = "select"]
      BY <1>15 DEF WaitPlan, Select, Attempt, Goto, redisVars
    <2>2. ~counted[r]
      BY <1>4, <2>1 DEF QueueHand
    <2> QED
      BY <1>1, <1>10, <2>1, <2>2 DEF States
  <1>16. ASSUME NEW p \in Pools, ReturnSlot(r, p) \/ ReleaseOnDone(r, p) PROVE QueueInv'
    BY <1>11, <1>16 DEF ReturnSlot, ReleaseOnDone
  <1> QED
    BY <1>5, <1>6, <1>7, <1>8, <1>9, <1>12, <1>13, <1>14, <1>15, <1>16
       DEF RequestStep, HandlerStep

LEMMA QueueInvStep ==
  ASSUME CallsOnce, OutlivesWaits, SlotInv, QueueInv, [Next]_vars
  PROVE  QueueInv'
  <1> SUFFICES ASSUME faults' = 0 PROVE QueueInv'
    BY DEF QueueInv
  <1>1. ASSUME NEW r \in Requests, RequestStep(r) PROVE QueueInv'
    BY <1>1, RequestKeepsQueue
  <1>2. ASSUME NEW a \in Accounts, CleanupExpired(a) PROVE QueueInv'
    <2>1. UNCHANGED <<wait, waitAge, pc, at, counted, waited, live, faults>>
      BY <1>2 DEF CleanupExpired
    <2> QED
      BY <2>1, QueueStutter
  <1>3. CASE Tick
    <2>1. faults = 0
      BY <1>3 DEF Tick
    <2> QED
      BY <1>3, <2>1, QueueTick
  <1>4. CASE UNCHANGED vars
    <2>1. UNCHANGED <<wait, waitAge, pc, at, counted, waited, live, faults>>
      BY <1>4 DEF vars
    <2> QED
      BY <2>1, QueueStutter
  <1> QED
    BY <1>1, <1>2, <1>3, <1>4 DEF Next

LEMMA QueueInvInit == Init => QueueInv
  <1> SUFFICES ASSUME Init PROVE QueueInv
    OBVIOUS
  <1>1. \A p \in Pools : Waiting(p) = {} /\ wait[p] = 0
    BY DEF Init, Waiting
  <1>2. QueueExact
    BY <1>1, FS_EmptySet DEF QueueExact
  <1>3. \A r \in Requests : QueueHand(r)
    BY DEF Init, QueueHand
  <1> QED
    BY <1>2, <1>3 DEF Init, QueueInv

\* Queue depth: as long as no call has failed, and neither a repeated call nor a
\* client that leaves may falsify it, the counter of incrementWaitScript is the
\* number of requests that wait.
THEOREM WaitCountCorrect ==
  ASSUME CallsOnce, OutlivesWaits
  PROVE  Spec => []WaitCountExact
  <1>1. SlotInv /\ QueueInv /\ [Next]_vars => QueueInv'
    BY QueueInvStep
  <1>2. QueueInv => WaitCountExact
    BY DEF QueueInv, QueueExact, WaitCountExact, Waiting
  <1> QED
    BY SlotInvHolds, QueueInvInit, <1>1, <1>2, PTL DEF Spec

-----------------------------------------------------------------------------
(* Who waits, and who is gone *)

\* A request that waits for a slot of its user holds none, and one that selects
\* an account or waits for one holds its user's alone.
WaitsInOrder ==
  \A r \in Requests :
    pc[r] \in {"count", "acquire", "select"} =>
      \A p \in Pools : token[r][p] # None =>
        p = UserOf[r] /\ (pc[r] # "select" => at[r] \in Accounts)

\* Slots are taken users first, accounts second, and one of each: requests never
\* wait for each other in a circle, not even between an account that failed and
\* the next one (AcquireUserSlotWithWait, AcquireAccountSlot, the failover loop).
THEOREM NoCircularWait == Spec => []WaitsInOrder
  <1>1. SlotInv /\ LeakInv /\ [Next]_vars => LeakInv'
    BY LeakInvStep
  <1>2. SlotInv /\ LeakInv => WaitsInOrder
    <2> SUFFICES ASSUME TypeOK, InHand, NEW r \in Requests,
                        pc[r] \in {"count", "acquire", "select"},
                        NEW p \in Pools, token[r][p] # None
                 PROVE  p = UserOf[r] /\ (pc[r] # "select" => at[r] \in Accounts)
      BY DEF SlotInv, LeakInv, WaitsInOrder
    <2>1. p = UserOf[r]
      BY DEF InHand
    <2>2. at[r] \in Users \/ at[r] \in Accounts
      BY DEF TypeOK, Pools
    <2>3. pc[r] # "select" => at[r] # p
      BY DEF InHand
    <2> QED
      BY <2>1, <2>2, <2>3 DEF InHand
  <1> QED
    BY SlotInvHolds, LeakInvInit, <1>1, <1>2, PTL DEF Spec

\* A request is counted only on its way, and gone only without a slot.
EndHand(r) ==
  /\ counted[r] => pc[r] \in {"acquire", "uncount", "return"}
  /\ pc[r] = "end" => \A p \in Pools : token[r][p] = None

EndInv == \A r \in Requests : EndHand(r)

LEMMA EndRequestStep ==
  ASSUME TypeOK, EndInv, NEW r \in Requests, RequestStep(r)
  PROVE  EndInv'
  <1>1. /\ pc \in [Requests -> States]
        /\ token \in [Requests -> [Pools -> Ids \cup {None}]]
        /\ counted \in [Requests -> BOOLEAN]
    BY DEF TypeOK
  <1>2. ASSUME \A q \in Requests \ {r} :
                 pc'[q] = pc[q] /\ token'[q] = token[q] /\ counted'[q] = counted[q],
               EndHand(r)'
        PROVE  EndInv'
    BY <1>2 DEF EndInv, EndHand
  <1>3. EndHand(r)
    BY DEF EndInv
  <1>4. CASE \/ Count(r) \/ CountFailsOpen(r) \/ GiveUp(r) \/ NoAccount(r) \/ Uncount(r)
             \/ (\E a \in Accounts : WaitPlan(r, a)) \/ Return(r) \/ Cancel(r)
    <2>1. token' = token
      BY <1>4 DEF Count, CountFailsOpen, GiveUp, NoAccount, Uncount, WaitPlan, Return, Cancel
    <2>2. CASE Count(r) \/ CountFailsOpen(r)
      <3>1. \/ counted' = [counted EXCEPT ![r] = TRUE] /\ pc' = [pc EXCEPT ![r] = "acquire"]
            \/ counted' = counted /\ pc' = [pc EXCEPT ![r] = "return"]
        BY <2>2 DEF Count, CountFailsOpen, Goto
      <3> QED
        BY <1>1, <1>2, <2>1, <3>1 DEF EndHand
    <2>3. CASE GiveUp(r) \/ NoAccount(r) \/ \E a \in Accounts : WaitPlan(r, a)
      <3>1. /\ counted' = counted
            /\ \/ pc' = [pc EXCEPT ![r] = "return"]
               \/ pc[r] = "select" /\ pc' = [pc EXCEPT ![r] = "count"]
        BY <2>3 DEF GiveUp, NoAccount, WaitPlan, Goto
      <3> QED
        BY <1>1, <1>2, <1>3, <2>1, <3>1 DEF EndHand
    <2>4. CASE Uncount(r)
      <3>1. /\ counted' = [counted EXCEPT ![r] = FALSE]
            /\ \E l \in {"select", "forward"} : pc' = [pc EXCEPT ![r] = l]
        BY <2>4 DEF Uncount, TakeBack, Goto
      <3> QED
        BY <1>1, <1>2, <2>1, <3>1 DEF EndHand
    <2>5. CASE Return(r)
      <3>1. /\ counted' = counted /\ ~ counted[r] /\ pc' = [pc EXCEPT ![r] = "end"]
            /\ \A p \in Pools : token[r][p] = None
        BY <2>5 DEF Return, Goto
      <3> QED
        BY <1>1, <1>2, <2>1, <3>1 DEF EndHand
    <2>6. CASE Cancel(r)
      BY <1>2, <1>3, <2>6 DEF Cancel, EndHand
    <2> QED
      BY <1>4, <2>2, <2>3, <2>4, <2>5, <2>6
  <1>5. CASE \/ \E i \in Ids : Acquire(r, i) \/ AcquireError(r, i)
             \/ \E a \in Accounts, i \in Ids : Select(r, a, i) \/ SelectError(r, a, i)
    <2>1. /\ counted' = counted
          /\ token' = token \/ \E p \in Pools, i \in Ids : token' = [token EXCEPT ![r][p] = i]
          /\ \/ pc[r] = "acquire" /\ \E l \in {"uncount", "acquire", "return"} : pc' = [pc EXCEPT ![r] = l]
             \/ pc[r] = "select" /\ \E l \in {"forward", "select"} : pc' = [pc EXCEPT ![r] = l]
      <3>1. ASSUME NEW i \in Ids, Acquire(r, i) \/ AcquireError(r, i) PROVE <2>1
        <4>1. at[r] \in Pools
          BY DEF TypeOK
        <4> QED
          BY <3>1, <4>1 DEF Acquire, AcquireError, Attempt, AttemptFails, Goto
      <3>2. ASSUME NEW a \in Accounts, NEW i \in Ids, Select(r, a, i) \/ SelectError(r, a, i) PROVE <2>1
        <4>1. a \in Pools
          BY DEF Pools
        <4> QED
          BY <3>2, <4>1 DEF Select, SelectError, Attempt, AttemptFails, Goto
      <3> QED
        BY <1>5, <3>1, <3>2
    <2>2. \A q \in Requests \ {r} : token'[q] = token[q]
      BY <1>1, <2>1
    <2> QED
      BY <1>1, <1>2, <1>3, <2>1, <2>2 DEF EndHand
  <1>6. CASE ReturnCount(r)
    <2>1. /\ pc[r] = "return" /\ pc' = pc /\ token' = token
          /\ counted' = [counted EXCEPT ![r] = FALSE]
      BY <1>6 DEF ReturnCount, TakeBack
    <2> QED
      BY <1>1, <1>2, <2>1 DEF EndHand
  <1>7. CASE ForwardEnds(r) \/ \E p \in Pools : ReturnSlot(r, p) \/ ReleaseOnDone(r, p)
    <2>1. /\ counted' = counted
          /\ token' = token \/ \E p \in Pools : token' = [token EXCEPT ![r][p] = None]
          /\ \/ pc' = pc
             \/ pc[r] = "forward" /\ \E l \in {"return", "select"} : pc' = [pc EXCEPT ![r] = l]
      <3>1. at[r] \in Pools
        BY DEF TypeOK
      <3> QED
        BY <1>7, <3>1 DEF ForwardEnds, ReturnSlot, ReleaseOnDone, Drop, Goto
    <2>2. /\ \A q \in Requests \ {r} : token'[q] = token[q]
          /\ \A p \in Pools : token[r][p] = None => token'[r][p] = None
      BY <1>1, <2>1
    <2> QED
      BY <1>1, <1>2, <1>3, <2>1, <2>2 DEF EndHand
  <1>8. CASE Crash(r)
    <2>1. /\ token' = [token EXCEPT ![r] = [p \in Pools |-> None]]
          /\ counted' = [counted EXCEPT ![r] = FALSE]
          /\ pc' = [pc EXCEPT ![r] = "end"]
      BY <1>8 DEF Crash, Goto
    <2>2. /\ \A q \in Requests \ {r} : token'[q] = token[q]
          /\ \A p \in Pools : token'[r][p] = None
      BY <1>1, <2>1
    <2> QED
      BY <1>1, <1>2, <2>1, <2>2 DEF EndHand
  <1> QED
    BY <1>4, <1>5, <1>6, <1>7, <1>8 DEF RequestStep, HandlerStep, ErrorStep

LEMMA EndInvHolds == Spec => []EndInv
  <1>1. Init => EndInv
    BY DEF Init, EndInv, EndHand
  <1>2. TypeOK /\ EndInv /\ [Next]_vars => EndInv'
    <2> SUFFICES ASSUME TypeOK, EndInv, [Next]_vars PROVE EndInv'
      OBVIOUS
    <2>1. CASE UNCHANGED <<pc, token, counted>>
      BY <2>1 DEF EndInv, EndHand
    <2> QED
      BY <2>1, EndRequestStep DEF Next, CleanupExpired, Tick, vars
  <1> QED
    BY <1>1, <1>2, TypeCorrect, PTL DEF Spec

AllEnded == \A r \in Requests : pc[r] = "end"

\* When the requests are over and no call has failed, no pool has a slot left.
NothingLeftBehind == faults = 0 /\ AllEnded => \A p \in Pools : Fresh(slots[p]) = {}

\* Whichever way the requests went, through refusals, waits, failovers, retries
\* of the client library and disconnects: they leave no slot behind, and the TTL
\* is needed only after a failure.  This is the safety of PoolsRecover.
THEOREM SlotsGivenBack == Spec => []NothingLeftBehind
  <1>1. SlotInv /\ LeakInv /\ [Next]_vars => LeakInv'
    BY LeakInvStep
  <1>2. LeakInv /\ EndInv => NothingLeftBehind
    <2> SUFFICES ASSUME LeakInv, EndInv, faults = 0, AllEnded, NEW p \in Pools
                 PROVE  Fresh(slots[p]) = {}
      BY DEF NothingLeftBehind
    <2>1. IsFiniteSet(AllLost) /\ Cardinality(AllLost) <= 2 * faults
      BY DEF LeakInv, LeaksOnlyByFaults, AllLost
    <2>2. Cardinality(AllLost) = 0
      <3>1. Cardinality(AllLost) \in Nat
        BY <2>1, FS_CardinalityType
      <3>2. Cardinality(AllLost) <= 0
        BY <2>1
      <3> QED
        BY <3>1, <3>2
    <2>3. AllLost = {}
      BY <2>1, <2>2, FS_EmptySet
    <2>4. Lost(p) = {}
      <3> SUFFICES ASSUME NEW i \in Lost(p) PROVE FALSE
        OBVIOUS
      <3>1. <<p, i>> \in {<<p, j>> : j \in Lost(p)}
        OBVIOUS
      <3>2. <<p, i>> \in AllLost
        BY <3>1 DEF AllLost
      <3> QED
        BY <2>3, <3>2
    <2>5. \A r \in Requests : token[r][p] = None
      BY DEF AllEnded, EndInv, EndHand
    <2>6. Fresh(slots[p]) = Lost(p)
      BY <2>5, NoneIsNoAge DEF Lost, Fresh
    <2> QED
      BY <2>4, <2>6
  <1> QED
    BY SlotInvHolds, LeakInvInit, EndInvHolds, <1>1, <1>2, PTL DEF Spec

\* The counters of the waiting queues, too, are back at zero.
QueuesLeftEmpty == faults = 0 /\ AllEnded => \A p \in Pools : wait[p] = 0

\* Every count is taken back once, by the handler or on its way out, so a queue
\* whose requests are over is empty and refuses nobody (IncrementWaitCount,
\* DecrementWaitCount and the deferred calls).
THEOREM CountsGivenBack ==
  ASSUME CallsOnce, OutlivesWaits
  PROVE  Spec => []QueuesLeftEmpty
  <1>1. WaitCountExact /\ EndInv => QueuesLeftEmpty
    <2> SUFFICES ASSUME WaitCountExact, EndInv, faults = 0, AllEnded, NEW p \in Pools
                 PROVE  wait[p] = 0
      BY DEF QueuesLeftEmpty
    <2>1. {r \in Requests : counted[r] /\ at[r] = p} = {}
      BY DEF AllEnded, EndInv, EndHand
    <2> QED
      BY <2>1, FS_EmptySet DEF WaitCountExact
  <1> QED
    BY <1>1, WaitCountCorrect, EndInvHolds, PTL
=============================================================================
