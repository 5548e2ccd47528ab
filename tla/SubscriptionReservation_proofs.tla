-------------------- MODULE SubscriptionReservation_proofs --------------------
(***************************************************************************)
(* Proofs about SubscriptionReservation, for any requests, costs, limits   *)
(* and numbers of faults.  Which faults a theorem allows is its            *)
(* hypothesis: a key makes reserving idempotent whatever happens; that the *)
(* hash adds up needs a hash that is not lost and scripts that run once,   *)
(* or by key; the limit itself also needs a hash that is there from the    *)
(* start, every reservation handed to RecordUsage, and charges that do not *)
(* fail.  Reads that fail, and the fills that follow them, are allowed     *)
(* throughout: what they move is counted in skew.                          *)
(***************************************************************************)
EXTENDS SubscriptionReservation, FiniteSetTheorems, TLAPS

RedisStates ==
  [hash : Hashes \cup {NoHash},
   rkey : [Requests -> Nat],
   share : [Requests -> Nat],
   taken : [Requests -> Nat],
   freed : [Requests -> Nat]]

\* No reservation yet.
Before == {"status", "load", "fill", "reserve", "refill", "retry"}

\* A key that a request has not spent counts one reservation, not given back.
KeyCounts(s, r) ==
  /\ s.freed[r] <= s.taken[r] /\ s.taken[r] <= 1
  /\ s.rkey[r] > 0 => s.taken[r] = 1 /\ s.freed[r] = 0

KeyInv ==
  \A r \in Keyed \ Passed :
    /\ KeyCounts(redis, r)
    /\ hpc[r] \in Before => redis.taken[r] = 0

-----------------------------------------------------------------------------
(* While the hash is not lost, and no script is repeated for a request that *)
(* reserves without a key or hands its reservation to RecordUsage.          *)

NoneDoubled ==
  /\ "hash" \notin Faults
  /\ "again" \in Faults => Requests \subseteq Keyed \ Passed

\* Less can happen: no script is repeated at all.
NoLoss == Faults \cap {"hash", "again"} = {}

\* Who will give a reservation back.
Holds(r) ==
  \/ hpc[r] \in {"forward", "release"}
  \/ r \in Passed /\ rpc[r] \in {"billing", "charged", "unwind", "unaware"}

\* A share is a whole reservation or nothing: who holds one has all of it, and who
\* has not reserved has nothing.
HeldInFull ==
  \A r \in Requests :
    /\ redis.share[r] \in {0, Reserve[r]}
    /\ Holds(r) => redis.share[r] = Reserve[r]
    /\ hpc[r] \in Before => redis.share[r] = 0 /\ redis.rkey[r] = 0
    /\ redis.rkey[r] \in {0, Reserve[r]}

\* A reservation has one owner, the handler or RecordUsage.
OneOwner ==
  \A r \in Requests :
    /\ hpc[r] \in Before \cup {"forward"} => rpc[r] = "none"
    /\ r \in Passed /\ rpc[r] # "none" => hpc[r] = "end"

\* Without a hash nothing is held, and whoever may write one says nothing of
\* reservations.
NeverStale ==
  /\ redis.hash = NoHash => \A r \in Requests : redis.share[r] = 0
  /\ \A x \in Requests \cup Checkers :
       /\ hpc[x] = "reserve" => redis.hash # NoHash \/ seen[x].reserved = 0
       /\ hpc[x] \in {"fill", "refill", "retry"} => seen[x].reserved = 0
  /\ \A c \in fills : seen[c].reserved = 0 /\ hpc[c] = "end"

ShareParts == HeldInFull /\ OneOwner /\ NeverStale /\ SharesAddUp

-----------------------------------------------------------------------------
(* While, moreover, the hash is there from the start. *)

Reliable == Warm /\ NoLoss

Present ==
  /\ redis.hash # NoHash
  /\ \A x \in Requests \cup Checkers : hpc[x] \notin {"refill", "retry"}

\* What is charged and still on its way to the hash.
Pending == [r \in Requests |-> IF rpc[r] = "charged" \/ r \in adds THEN Actual[r] ELSE 0]

AheadInv ==
  /\ Present
  /\ \A r \in adds : rpc[r] = "end"
  /\ redis.hash.usage + Total(Pending) <= used + skew.up

-----------------------------------------------------------------------------
(* While, moreover, RecordUsage settles every reservation and no charge fails. *)

Direct ==
  /\ Warm
  /\ Passed = Requests
  /\ Faults \subseteq {"key", "reply", "deadline", "crash", "read", "lost"}

\* Requests that are over and may have been charged: the hash still has all that
\* they reserved.
Owed ==
  [r \in Requests |->
     IF redis.share[r] > 0 /\ hpc[r] = "end" /\ rpc[r] # "billing" THEN Actual[r] ELSE 0]

LimitInv ==
  /\ Present
  /\ adds = {}
  /\ \A r \in Requests : rpc[r] \in {"none", "billing", "charged", "end"}
  /\ used <= redis.hash.usage + Total(Owed) + skew.down

-----------------------------------------------------------------------------
(* Sums *)

LEMMA UnitsOf ==
  ASSUME NEW S, NEW f \in [S -> Nat]
  PROVE  /\ \A u : u \in Units(f) <=> \E x \in S : \E n \in 1 .. f[x] : u = <<x, n>>
         /\ \A x, n : <<x, n>> \in Units(f) <=> x \in S /\ n \in 1 .. f[x]
  BY DEF Units

LEMMA TotalType ==
  ASSUME NEW S, IsFiniteSet(S), NEW f \in [S -> Nat]
  PROVE  IsFiniteSet(Units(f)) /\ Total(f) \in Nat
  <1>1. PICK g : g = [x \in S |-> {x} \X (1 .. f[x])]
    OBVIOUS
  <1>2. PICK B : B = {g[x] : x \in S}
    OBVIOUS
  <1>3. g \in Surjection(S, B)
    BY <1>1, <1>2 DEF Surjection
  <1>4. IsFiniteSet(B)
    BY <1>3, FS_Surjection
  <1>5. \A T \in B : IsFiniteSet(T)
    <2> SUFFICES ASSUME NEW x \in S PROVE IsFiniteSet({x} \X (1 .. f[x]))
      BY <1>1, <1>2
    <2>1. f[x] \in Int /\ 1 \in Int
      OBVIOUS
    <2> QED
      BY <2>1, FS_Singleton, FS_Interval, FS_Product
  <1>6. Units(f) = UNION B
    BY <1>1, <1>2 DEF Units
  <1>7. IsFiniteSet(Units(f))
    BY <1>4, <1>5, <1>6, FS_UNION
  <1> QED
    BY <1>7, FS_CardinalityType DEF Total

LEMMA TotalIsMonotone ==
  ASSUME NEW S, IsFiniteSet(S), NEW f \in [S -> Nat], NEW g \in [S -> Nat],
         \A x \in S : f[x] <= g[x]
  PROVE  Total(f) <= Total(g)
  <1>1. Units(f) \subseteq Units(g)
    BY UnitsOf
  <1> QED
    BY <1>1, TotalType, FS_Subset DEF Total

\* The sum of two functions that are nowhere both positive.
LEMMA TotalOfBoth ==
  ASSUME NEW S, IsFiniteSet(S), NEW f \in [S -> Nat], NEW g \in [S -> Nat], NEW h \in [S -> Nat],
         \A x \in S : (f[x] = 0 \/ g[x] = 0) /\ h[x] = f[x] + g[x]
  PROVE  Total(h) = Total(f) + Total(g)
  <1>1. Units(h) = Units(f) \cup Units(g) /\ Units(f) \cap Units(g) = {}
    <2>0. \A x, n : /\ <<x, n>> \in Units(f) <=> x \in S /\ n \in 1 .. f[x]
                    /\ <<x, n>> \in Units(g) <=> x \in S /\ n \in 1 .. g[x]
                    /\ <<x, n>> \in Units(h) <=> x \in S /\ n \in 1 .. h[x]
      BY UnitsOf
    <2>a. \A x \in S : \A n : /\ n \in 1 .. h[x] <=> n \in 1 .. f[x] \/ n \in 1 .. g[x]
                              /\ ~ (n \in 1 .. f[x] /\ n \in 1 .. g[x])
      OBVIOUS
    <2>1. \A x, n : <<x, n>> \in Units(h) <=> <<x, n>> \in Units(f) \/ <<x, n>> \in Units(g)
      BY <2>0, <2>a
    <2>2. \A x, n : ~ (<<x, n>> \in Units(f) /\ <<x, n>> \in Units(g))
      BY <2>0, <2>a
    <2>3. \A u : u \in Units(f) \/ u \in Units(g) \/ u \in Units(h) => \E x, n : u = <<x, n>>
      BY UnitsOf
    <2> QED
      BY <2>1, <2>2, <2>3
  <1>2. Cardinality(Units(f) \cap Units(g)) = 0
    BY <1>1, FS_EmptySet
  <1>3. Cardinality(Units(f) \cup Units(g)) = Total(f) + Total(g) - Cardinality(Units(f) \cap Units(g))
    BY TotalType, FS_Union DEF Total
  <1>4. Total(f) \in Nat /\ Total(g) \in Nat
    BY TotalType
  <1> QED
    BY <1>1, <1>2, <1>3, <1>4 DEF Total

\* A function that is positive at one place.
Only(S, x, n) == [y \in S |-> IF y = x THEN n ELSE 0]

LEMMA TotalOfOne ==
  ASSUME NEW S, IsFiniteSet(S), NEW x \in S, NEW n \in Nat
  PROVE  Only(S, x, n) \in [S -> Nat] /\ Total(Only(S, x, n)) = n
  <1>1. Only(S, x, n) \in [S -> Nat]
    BY DEF Only
  <1>2. Units(Only(S, x, n)) = {x} \X (1 .. n)
    <2>1. \A u : u \in Units(Only(S, x, n)) <=>
                  \E y \in S : \E k \in 1 .. (IF y = x THEN n ELSE 0) : u = <<y, k>>
      BY <1>1, UnitsOf DEF Only
    <2>2. \A u : u \in {x} \X (1 .. n) <=> \E k \in 1 .. n : u = <<x, k>>
      OBVIOUS
    <2>3. \A u : u \in Units(Only(S, x, n)) <=> u \in {x} \X (1 .. n)
      BY <2>1, <2>2
    <2> QED
      BY <2>3
  <1>3. IsFiniteSet({x}) /\ Cardinality({x}) = 1
    BY FS_Singleton
  <1>4. IsFiniteSet(1 .. n) /\ Cardinality(1 .. n) = n
    <2>1. CASE n = 0
      <3>1. 1 .. n = {}
        BY <2>1
      <3> QED
        BY <2>1, <3>1, FS_EmptySet
    <2>2. CASE n # 0
      <3>1. 1 \in Int /\ n \in Int /\ ~ (1 > n) /\ n - 1 + 1 = n
        BY <2>2
      <3> QED
        BY <3>1, FS_Interval
    <2> QED
      BY <2>1, <2>2
  <1>5. Cardinality({x} \X (1 .. n)) = Cardinality({x}) * Cardinality(1 .. n)
    BY <1>3, <1>4, FS_Product
  <1> QED
    BY <1>1, <1>2, <1>3, <1>4, <1>5 DEF Total

\* What a value at one place changes.
LEMMA TotalDiffers ==
  ASSUME NEW S, IsFiniteSet(S), NEW f \in [S -> Nat], NEW x \in S, NEW n \in Nat,
         NEW g \in [S -> Nat], g[x] = n, \A y \in S : y # x => g[y] = f[y]
  PROVE  Total(g) = Total(f) - f[x] + n /\ f[x] <= Total(f)
  <1>1. PICK rest : rest = [y \in S |-> IF y = x THEN 0 ELSE f[y]]
    OBVIOUS
  <1>2. rest \in [S -> Nat] /\ f[x] \in Nat
    BY <1>1
  <1>3. ASSUME NEW k \in Nat, NEW h \in [S -> Nat], h[x] = k, \A y \in S : y # x => h[y] = f[y]
        PROVE  Total(h) = Total(rest) + k
    <2>1. PICK one : one = Only(S, x, k)
      OBVIOUS
    <2>2. one \in [S -> Nat] /\ Total(one) = k
      BY <2>1, TotalOfOne
    <2>3. \A y \in S : (rest[y] = 0 \/ one[y] = 0) /\ h[y] = rest[y] + one[y]
      BY <1>1, <1>2, <1>3, <2>1 DEF Only
    <2> HIDE <1>1, <2>1
    <2>4. Total(h) = Total(rest) + Total(one)
      BY <1>2, <2>2, <2>3, TotalOfBoth
    <2> QED
      BY <2>2, <2>4
  <1>4. Total(f) = Total(rest) + f[x] /\ Total(g) = Total(rest) + n
    BY <1>2, <1>3
  <1>5. Total(rest) \in Nat
    BY <1>2, TotalType
  <1> QED
    BY <1>2, <1>4, <1>5

LEMMA TotalChanges ==
  ASSUME NEW S, IsFiniteSet(S), NEW f \in [S -> Nat], NEW x \in S, NEW n \in Nat
  PROVE  /\ [f EXCEPT ![x] = n] \in [S -> Nat]
         /\ Total([f EXCEPT ![x] = n]) = Total(f) - f[x] + n
         /\ f[x] <= Total(f)
  <1>1. PICK g : g = [f EXCEPT ![x] = n]
    OBVIOUS
  <1>2. g \in [S -> Nat] /\ g[x] = n /\ \A y \in S : y # x => g[y] = f[y]
    BY <1>1
  <1>3. Total(g) = Total(f) - f[x] + n /\ f[x] <= Total(f)
    BY <1>2, TotalDiffers
  <1> QED
    BY <1>1, <1>2, <1>3

LEMMA TotalOfNothing ==
  ASSUME NEW S, NEW f \in [S -> Nat], \A x \in S : f[x] = 0
  PROVE  Total(f) = 0
  <1>1. \A u : u \notin Units(f)
    BY UnitsOf
  <1> QED
    BY <1>1, FS_EmptySet DEF Total

\* The sum over a part is the sum of what is zero elsewhere.
LEMMA TotalOverPart ==
  ASSUME NEW S, NEW T \in SUBSET S, NEW f \in [S -> Nat]
  PROVE  Total([x \in T |-> f[x]]) = Total([x \in S |-> IF x \in T THEN f[x] ELSE 0])
  <1>1. PICK a, b : a = [x \in T |-> f[x]] /\ b = [x \in S |-> IF x \in T THEN f[x] ELSE 0]
    OBVIOUS
  <1>2. a \in [T -> Nat] /\ b \in [S -> Nat]
    BY <1>1
  <1>3. \A u : u \in Units(a) <=> u \in Units(b)
    BY <1>1, <1>2, UnitsOf
  <1>4. Units(a) = Units(b)
    BY <1>3
  <1> QED
    BY <1>1, <1>4 DEF Total

-----------------------------------------------------------------------------
(* What the scripts do *)

LEMMA ReserveCodes ==
  ASSUME NEW s \in RedisStates, NEW r \in Requests
  PROVE  /\ ReserveCode(s, r) \in {-1, 0, 1, 2}
         /\ ReserveCode(s, r) = 0 <=> s.hash = NoHash
         /\ ReserveCode(s, r) = 1 =>
              /\ s.hash \in Hashes
              /\ r \in Keyed => s.rkey[r] = 0
              /\ s.hash.usage + s.hash.reserved + Reserve[r] <= Limit
         /\ ReserveCode(s, r) = 2 => r \in Keyed /\ s.rkey[r] > 0
  BY ReservationAssumption DEF ReserveCode, RedisStates, Hashes

\* The state after a granted reservation.
LEMMA ReserveScript ==
  ASSUME NEW s \in RedisStates, NEW r \in Requests
  PROVE  LET t == AfterReserve(s, r) IN
         /\ t \in RedisStates
         /\ ReserveCode(s, r) # 1 => t = s
         /\ ReserveCode(s, r) = 1 =>
              /\ t.hash \in Hashes
              /\ t.hash.usage = s.hash.usage
              /\ t.hash.reserved = s.hash.reserved + Reserve[r]
              /\ \A x \in Requests :
                   /\ t.rkey[x] = IF x # r THEN s.rkey[x] ELSE IF r \in Keyed THEN Reserve[r] ELSE 0
                   /\ t.share[x] = IF x = r THEN s.share[r] + Reserve[r] ELSE s.share[x]
                   /\ t.taken[x] = IF x = r THEN s.taken[r] + 1 ELSE s.taken[x]
                   /\ t.freed[x] = s.freed[x]
  <1>0. PICK t : t = AfterReserve(s, r)
    OBVIOUS
  <1>1. CASE ReserveCode(s, r) # 1
    BY <1>0, <1>1 DEF AfterReserve
  <1>2. CASE ReserveCode(s, r) = 1
    <2>1. s.hash \in Hashes
      BY <1>2, ReserveCodes
    <2>2. t = [s EXCEPT !.hash.reserved = @ + Reserve[r],
                        !.rkey[r] = IF r \in Keyed THEN Reserve[r] ELSE 0,
                        !.share[r] = @ + Reserve[r],
                        !.taken[r] = @ + 1]
      BY <1>0, <1>2 DEF AfterReserve
    <2>3. /\ t.hash = [usage |-> s.hash.usage, reserved |-> s.hash.reserved + Reserve[r]]
          /\ t.rkey = [s.rkey EXCEPT ![r] = IF r \in Keyed THEN Reserve[r] ELSE 0]
          /\ t.share = [s.share EXCEPT ![r] = s.share[r] + Reserve[r]]
          /\ t.taken = [s.taken EXCEPT ![r] = s.taken[r] + 1]
          /\ t.freed = s.freed
      BY <2>1, <2>2 DEF RedisStates, Hashes
    <2>4. /\ t.hash \in Hashes
          /\ t.rkey \in [Requests -> Nat] /\ t.share \in [Requests -> Nat]
          /\ t.taken \in [Requests -> Nat] /\ t.freed \in [Requests -> Nat]
      BY <2>1, <2>3, ReservationAssumption DEF RedisStates, Hashes
    <2>5. t = [hash |-> t.hash, rkey |-> t.rkey, share |-> t.share, taken |-> t.taken, freed |-> t.freed]
      BY <2>2 DEF RedisStates
    <2>6. t \in RedisStates
      BY <2>4, <2>5 DEF RedisStates
    <2>7. \A x \in Requests :
            /\ t.rkey[x] = IF x # r THEN s.rkey[x] ELSE IF r \in Keyed THEN Reserve[r] ELSE 0
            /\ t.share[x] = IF x = r THEN s.share[r] + Reserve[r] ELSE s.share[x]
            /\ t.taken[x] = IF x = r THEN s.taken[r] + 1 ELSE s.taken[x]
            /\ t.freed[x] = s.freed[x]
      BY <2>3 DEF RedisStates
    <2> QED
      BY <1>0, <1>2, <2>3, <2>4, <2>6, <2>7
  <1> QED
    BY <1>0, <1>1, <1>2

\* The state after a finalisation that finds the hash.
LEMMA SettledScript ==
  ASSUME NEW s \in RedisStates, s.hash # NoHash, NEW r \in Requests,
         NEW release \in Nat, NEW actual \in Nat
  PROVE  LET t == Settled(s, r, release, actual) IN
         /\ t \in RedisStates
         /\ t.hash \in Hashes
         /\ t.hash.usage = s.hash.usage + actual
         /\ t.hash.reserved = Minus(s.hash.reserved, release)
         /\ \A x \in Requests :
              /\ t.rkey[x] = s.rkey[x]
              /\ t.share[x] = IF x = r THEN Minus(s.share[r], release) ELSE s.share[x]
              /\ t.taken[x] = s.taken[x]
              /\ t.freed[x] = IF x = r THEN s.freed[r] + 1 ELSE s.freed[x]
  <1>0. PICK t : t = Settled(s, r, release, actual)
    OBVIOUS
  <1>1. s.hash \in Hashes
    BY DEF RedisStates
  <1>2. t = [s EXCEPT !.hash.reserved = Minus(@, release),
                      !.hash.usage = @ + actual,
                      !.share[r] = Minus(@, release),
                      !.freed[r] = @ + 1]
    BY <1>0 DEF Settled
  <1>3. /\ t.hash = [usage |-> s.hash.usage + actual, reserved |-> Minus(s.hash.reserved, release)]
        /\ t.rkey = s.rkey
        /\ t.share = [s.share EXCEPT ![r] = Minus(s.share[r], release)]
        /\ t.taken = s.taken
        /\ t.freed = [s.freed EXCEPT ![r] = s.freed[r] + 1]
    BY <1>1, <1>2 DEF RedisStates, Hashes
  <1>4. /\ t.hash \in Hashes
        /\ t.rkey \in [Requests -> Nat] /\ t.share \in [Requests -> Nat]
        /\ t.taken \in [Requests -> Nat] /\ t.freed \in [Requests -> Nat]
    BY <1>1, <1>3 DEF RedisStates, Hashes, Minus
  <1>5. t = [hash |-> t.hash, rkey |-> t.rkey, share |-> t.share, taken |-> t.taken, freed |-> t.freed]
    BY <1>2 DEF RedisStates
  <1>6. t \in RedisStates
    BY <1>4, <1>5 DEF RedisStates
  <1>7. \A x \in Requests :
          /\ t.rkey[x] = s.rkey[x]
          /\ t.share[x] = IF x = r THEN Minus(s.share[r], release) ELSE s.share[x]
          /\ t.taken[x] = s.taken[x]
          /\ t.freed[x] = IF x = r THEN s.freed[r] + 1 ELSE s.freed[x]
    BY <1>3 DEF RedisStates
  <1> QED
    BY <1>0, <1>3, <1>4, <1>6, <1>7

LEMMA FinalizeScript ==
  ASSUME NEW s \in RedisStates, NEW r \in Requests, NEW actual \in Nat
  PROVE  AfterFinalize(s, r, actual) \in RedisStates
  BY ReservationAssumption, SettledScript DEF AfterFinalize

\* The state after a finalisation by key that finds both.
LEMMA FinalizeByKeyScript ==
  ASSUME NEW s \in RedisStates, NEW r \in Requests, NEW actual \in Nat
  PROVE  LET t == AfterFinalizeByKey(s, r, actual) IN
         /\ t \in RedisStates
         /\ s.hash = NoHash \/ s.rkey[r] = 0 => t = s
         /\ s.hash # NoHash /\ s.rkey[r] # 0 =>
              /\ t.hash \in Hashes
              /\ t.hash.usage = s.hash.usage + actual
              /\ t.hash.reserved = Minus(s.hash.reserved, s.rkey[r])
              /\ \A x \in Requests :
                   /\ t.rkey[x] = IF x = r THEN 0 ELSE s.rkey[x]
                   /\ t.share[x] = IF x = r THEN Minus(s.share[r], s.rkey[r]) ELSE s.share[x]
                   /\ t.taken[x] = s.taken[x]
                   /\ t.freed[x] = IF x = r THEN s.freed[r] + 1 ELSE s.freed[x]
  <1>0. PICK t : t = AfterFinalizeByKey(s, r, actual)
    OBVIOUS
  <1>1. CASE s.hash = NoHash \/ s.rkey[r] = 0
    BY <1>0, <1>1 DEF AfterFinalizeByKey
  <1>2. CASE s.hash # NoHash /\ s.rkey[r] # 0
    <2>1. PICK u : u = Settled(s, r, s.rkey[r], actual)
      OBVIOUS
    <2>2. s.rkey[r] \in Nat
      BY DEF RedisStates
    <2>3. /\ u \in RedisStates
          /\ u.hash \in Hashes
          /\ u.hash.usage = s.hash.usage + actual
          /\ u.hash.reserved = Minus(s.hash.reserved, s.rkey[r])
          /\ \A x \in Requests :
               /\ u.rkey[x] = s.rkey[x]
               /\ u.share[x] = IF x = r THEN Minus(s.share[r], s.rkey[r]) ELSE s.share[x]
               /\ u.taken[x] = s.taken[x]
               /\ u.freed[x] = IF x = r THEN s.freed[r] + 1 ELSE s.freed[x]
      BY <1>2, <2>1, <2>2, SettledScript
    <2>4. t = [u EXCEPT !.rkey[r] = 0]
      BY <1>0, <1>2, <2>1 DEF AfterFinalizeByKey
    <2>5. /\ t.hash = u.hash /\ t.share = u.share /\ t.taken = u.taken /\ t.freed = u.freed
          /\ t.rkey = [u.rkey EXCEPT ![r] = 0]
          /\ t \in RedisStates
      BY <2>3, <2>4 DEF RedisStates
    <2>6. \A x \in Requests : t.rkey[x] = IF x = r THEN 0 ELSE u.rkey[x]
      BY <2>3, <2>5 DEF RedisStates
    <2> QED
      BY <1>0, <1>2, <2>3, <2>5, <2>6
  <1> QED
    BY <1>0, <1>1, <1>2

LEMMA UpdateScript ==
  ASSUME NEW s \in RedisStates, NEW r \in Requests
  PROVE  LET t == AfterUpdate(s, r) IN
         /\ t \in RedisStates
         /\ s.hash = NoHash => t = s
         /\ s.hash # NoHash =>
              /\ t.hash \in Hashes
              /\ t.hash.usage = s.hash.usage + Actual[r]
              /\ t.hash.reserved = s.hash.reserved
         /\ t.rkey = s.rkey /\ t.share = s.share /\ t.taken = s.taken /\ t.freed = s.freed
  BY ReservationAssumption DEF AfterUpdate, RedisStates, Hashes

LEMMA SetScript ==
  ASSUME NEW s \in RedisStates, NEW data \in Hashes
  PROVE  LET t == AfterSet(s, data) IN
         /\ t \in RedisStates
         /\ t.hash \in Hashes
         /\ t.hash.usage = data.usage
         /\ data.reserved = 0 => t.hash.reserved = IF s.hash = NoHash THEN 0 ELSE s.hash.reserved
         /\ t.rkey = s.rkey /\ t.share = s.share /\ t.taken = s.taken /\ t.freed = s.freed
  BY DEF AfterSet, RedisStates, Hashes

-----------------------------------------------------------------------------
(* Types, whatever fails *)

LEMMA TypeMeans == TypeOK => redis \in RedisStates
  BY DEF TypeOK, RedisStates

LEMMA RunsOf ==
  ASSUME NEW r \in Requests
  PROVE  /\ Release(r) =>
              \/ redis' = ReleaseScript(redis, r) /\ UNCHANGED faults
              \/ redis' = ReleaseScript(ReleaseScript(redis, r), r) /\ Fault("again")
              \/ redis' = redis /\ Fault("lost")
         /\ RecordSettles(r) =>
              \/ redis' = RecordScript(redis, r, Actual[r]) /\ UNCHANGED faults
              \/ redis' = RecordScript(RecordScript(redis, r, Actual[r]), r, Actual[r]) /\ Fault("again")
              \/ redis' = redis /\ Fault("lost")
         /\ RecordUnwinds(r) =>
              \/ redis' = RecordScript(redis, r, 0) /\ UNCHANGED faults
              \/ redis' = RecordScript(RecordScript(redis, r, 0), r, 0) /\ Fault("again")
              \/ redis' = redis /\ Fault("lost")
         /\ DoAdd(r) =>
              \/ redis' = AfterUpdate(redis, r) /\ UNCHANGED faults
              \/ redis' = AfterUpdate(AfterUpdate(redis, r), r) /\ Fault("again")
              \/ redis' = redis /\ Fault("lost")
  BY DEF Release, RecordSettles, RecordUnwinds, DoAdd, Runs, NoFault

LEMMA RecordTypes ==
  ASSUME NEW s \in RedisStates, NEW r \in Requests, NEW actual \in Nat
  PROVE  RecordScript(s, r, actual) \in RedisStates
  BY FinalizeScript DEF RecordScript

LEMMA ScriptTypes ==
  ASSUME NEW s \in RedisStates, NEW r \in Requests
  PROVE  /\ AfterReserve(s, r) \in RedisStates
         /\ ReleaseScript(s, r) \in RedisStates
         /\ RecordScript(s, r, 0) \in RedisStates
         /\ RecordScript(s, r, Actual[r]) \in RedisStates
         /\ AfterUpdate(s, r) \in RedisStates
  BY ReserveScript, FinalizeScript, FinalizeByKeyScript, UpdateScript, ReservationAssumption
     DEF ReleaseScript, RecordScript

\* What a fill does to the usage of a hash that is there is in skew.
LEMMA SetsMeans ==
  ASSUME TypeOK, NEW data \in Hashes, Sets(data)
  PROVE  /\ redis' \in RedisStates
         /\ redis.hash # NoHash => redis'.hash # NoHash
         /\ UNCHANGED redis \/ redis' = AfterSet(redis, data)
         /\ redis'.rkey = redis.rkey /\ redis'.share = redis.share
         /\ redis'.taken = redis.taken /\ redis'.freed = redis.freed
         /\ faults' = faults \/ Fault("lost")
         /\ skew' \in [down : Nat, up : Nat]
         /\ skew.down <= skew'.down
         /\ redis.hash # NoHash =>
              /\ redis'.hash.usage + skew.up <= redis.hash.usage + skew'.up
              /\ redis.hash.usage + skew.down <= redis'.hash.usage + skew'.down
  <1>0. /\ redis \in RedisStates /\ skew \in [down : Nat, up : Nat]
        /\ data.usage \in Nat /\ skew.down \in Nat /\ skew.up \in Nat
    BY TypeMeans DEF TypeOK, Hashes
  <1>1. CASE UNCHANGED <<redis, skew>> /\ Fault("lost")
    <2>1. redis.hash # NoHash => redis.hash.usage \in Nat
      BY <1>0 DEF RedisStates, Hashes
    <2> QED
      BY <1>0, <1>1, <2>1
  <1>2. CASE /\ redis' = AfterSet(redis, data)
             /\ skew' = IF redis.hash = NoHash THEN skew
                        ELSE [down |-> skew.down + Minus(redis.hash.usage, data.usage),
                              up |-> skew.up + Minus(data.usage, redis.hash.usage)]
             /\ NoFault
    <2>1. /\ redis' \in RedisStates /\ redis'.hash \in Hashes /\ redis'.hash.usage = data.usage
          /\ redis'.rkey = redis.rkey /\ redis'.share = redis.share
          /\ redis'.taken = redis.taken /\ redis'.freed = redis.freed
      BY <1>0, <1>2, SetScript
    <2>2. redis'.hash # NoHash
      BY <2>1, ReservationAssumption
    <2>3. CASE redis.hash = NoHash
      BY <1>0, <1>2, <2>1, <2>2, <2>3 DEF NoFault
    <2>4. CASE redis.hash # NoHash
      <3>1. redis.hash.usage \in Nat
        BY <1>0, <2>4 DEF RedisStates, Hashes
      <3>2. /\ skew'.down = skew.down + Minus(redis.hash.usage, data.usage)
            /\ skew'.up = skew.up + Minus(data.usage, redis.hash.usage)
            /\ skew' = [down |-> skew'.down, up |-> skew'.up]
        BY <1>2, <2>4
      <3>3. /\ Minus(redis.hash.usage, data.usage) \in Nat
            /\ Minus(data.usage, redis.hash.usage) \in Nat
            /\ redis.hash.usage <= data.usage + Minus(redis.hash.usage, data.usage)
            /\ data.usage <= redis.hash.usage + Minus(data.usage, redis.hash.usage)
        BY <1>0, <3>1 DEF Minus
      <3>4. skew'.down \in Nat /\ skew'.up \in Nat
        BY <1>0, <3>2, <3>3
      <3>5. skew' \in [down : Nat, up : Nat]
        BY <3>2, <3>4
      <3>6. /\ skew.down <= skew'.down
            /\ data.usage + skew.up <= redis.hash.usage + skew'.up
            /\ redis.hash.usage + skew.down <= data.usage + skew'.down
        BY <1>0, <3>1, <3>2, <3>3
      <3> QED
        BY <1>2, <2>1, <2>2, <3>5, <3>6 DEF NoFault
    <2> QED
      BY <2>3, <2>4
  <1> QED
    BY <1>1, <1>2 DEF Sets

LEMMA RedisTyped ==
  ASSUME TypeOK, Next
  PROVE  redis' \in RedisStates
  <1>0. redis \in RedisStates
    BY TypeMeans
  <1>1. ASSUME NEW r \in Requests, HandlerStep(r) PROVE redis' \in RedisStates
    <2>1. CASE TryReserve(r) \/ RetryReserve(r)
      BY <1>0, <2>1, ScriptTypes DEF TryReserve, RetryReserve, ReserveCall
    <2>2. CASE Fill(r) \/ Refill(r)
      <3>1. seen[r] \in Hashes
        BY DEF TypeOK
      <3> QED
        BY <2>2, <3>1, SetsMeans DEF Fill, Refill
    <2>3. CASE Release(r)
      BY <1>0, <2>3, RunsOf, ScriptTypes
    <2>4. CASE UNCHANGED redis
      BY <1>0, <2>4
    <2> QED
      BY <1>1, <2>1, <2>2, <2>3, <2>4
         DEF HandlerStep, StatusHit, StatusMiss, Load, ForwardFails, ForwardSucceeds
  <1>2. ASSUME NEW r \in Requests, RecordStep(r) \/ Replay(r) \/ DoAdd(r)
        PROVE  redis' \in RedisStates
    BY <1>0, <1>2, RunsOf, ScriptTypes DEF RecordStep, Charge, Replay
  <1>3. ASSUME NEW c \in Checkers, CheckerStep(c) \/ DoFill(c)
        PROVE  redis' \in RedisStates
    <2>1. seen[c] \in Hashes
      BY DEF TypeOK
    <2> QED
      BY <1>0, <1>3, <2>1, SetsMeans
         DEF CheckerStep, DoFill, StatusHit, StatusMiss, Load, QueueFill
  <1>4. CASE HashLost
    <2>1. redis' = [redis EXCEPT !.hash = NoHash, !.share = [r \in Requests |-> 0]]
      BY <1>4 DEF HashLost
    <2> QED
      BY <1>0, <2>1 DEF RedisStates
  <1>5. ASSUME NEW r \in Requests, KeyExpires(r) PROVE redis' \in RedisStates
    <2>1. redis' = [redis EXCEPT !.rkey[r] = 0]
      BY <1>5 DEF KeyExpires
    <2> QED
      BY <1>0, <2>1 DEF RedisStates
  <1>6. ASSUME NEW r \in Requests, ReserveReplyLost(r) PROVE redis' \in RedisStates
    BY <1>0, <1>6, ScriptTypes DEF ReserveReplyLost
  <1>7. ASSUME UNCHANGED redis PROVE redis' \in RedisStates
    BY <1>0, <1>7
  <1> QED
    BY <1>1, <1>2, <1>3, <1>4, <1>5, <1>6, <1>7
       DEF Next, Environment, ChargeFails, RecordDeadline, Crash

\* The other variables.
OthersTyped ==
  /\ used \in Nat
  /\ hpc \in [Requests \cup Checkers -> HandlerStates]
  /\ seen \in [Requests \cup Checkers -> Hashes]
  /\ rpc \in [Requests -> RecordStates]
  /\ adds \subseteq Requests
  /\ fills \subseteq Checkers
  /\ skew \in [down : Nat, up : Nat]
  /\ faults \in 0 .. MaxFaults

LEMMA StepTyped ==
  ASSUME TypeOK, Next
  PROVE  TypeOK'
  <1>0. OthersTyped /\ redis \in RedisStates /\ MaxFaults \in Nat
    BY TypeMeans, ReservationAssumption DEF TypeOK, OthersTyped
  <1>f. ASSUME NEW kind, Fault(kind) PROVE faults' \in 0 .. MaxFaults
    BY <1>0, <1>f DEF Fault, OthersTyped
  <1>u. \A u \in Nat : InLedger(u) \in Hashes
    BY DEF InLedger, Hashes
  <1>1. ASSUME NEW r \in Requests, HandlerStep(r) PROVE OthersTyped'
    <2>1. CASE StatusHit(r)
      <3>1. redis.hash \in Hashes
        BY <1>0, <2>1 DEF StatusHit, RedisStates
      <3> QED
        BY <1>0, <2>1, <3>1 DEF StatusHit, OthersTyped, Goto, HandlerStates
    <2>2. CASE Load(r)
      BY <1>0, <1>u, <2>2 DEF Load, OthersTyped, Goto, HandlerStates
    <2>3. CASE TryReserve(r) \/ RetryReserve(r)
      <3>1. faults' \in 0 .. MaxFaults
        BY <1>0, <1>f, <2>3 DEF TryReserve, RetryReserve, ReserveCall, NoFault, OthersTyped
      <3>2. \E l \in HandlerStates : hpc' = [hpc EXCEPT ![r] = l]
        BY <2>3 DEF TryReserve, RetryReserve, ReserveCall, Goto, HandlerStates
      <3>3. UNCHANGED <<used, seen, rpc, adds, fills, skew>>
        BY <2>3 DEF TryReserve, RetryReserve
      <3> QED
        BY <1>0, <3>1, <3>2, <3>3 DEF OthersTyped
    <2>4. CASE Release(r)
      <3>1. faults' \in 0 .. MaxFaults
        BY <1>0, <1>f, <2>4, RunsOf DEF OthersTyped
      <3> QED
        BY <1>0, <2>4, <3>1 DEF Release, OthersTyped, Goto, HandlerStates
    <2>5. CASE ForwardSucceeds(r)
      BY <1>0, <2>5 DEF ForwardSucceeds, OthersTyped, Goto, RGoto, HandlerStates, RecordStates
    <2>6. CASE StatusMiss(r) \/ ForwardFails(r)
      <3>1. faults' \in 0 .. MaxFaults
        BY <1>0, <1>f, <2>6 DEF StatusMiss, ForwardFails, NoFault, OthersTyped
      <3> QED
        BY <1>0, <2>6, <3>1 DEF StatusMiss, ForwardFails, OthersTyped, Goto, HandlerStates
    <2>7. CASE Fill(r) \/ Refill(r)
      <3>1. Sets(seen[r]) /\ seen[r] \in Hashes
        BY <1>0, <2>7 DEF Fill, Refill, OthersTyped
      <3>2. faults' \in 0 .. MaxFaults /\ skew' \in [down : Nat, up : Nat]
        BY <1>0, <1>f, <3>1, SetsMeans DEF OthersTyped
      <3> QED
        BY <1>0, <2>7, <3>2 DEF Fill, Refill, OthersTyped, Goto, HandlerStates
    <2> QED
      BY <1>1, <2>1, <2>2, <2>3, <2>4, <2>5, <2>6, <2>7 DEF HandlerStep
  <1>2. ASSUME NEW r \in Requests, RecordStep(r) \/ Replay(r) \/ DoAdd(r) PROVE OthersTyped'
    <2>1. used' \in Nat
      BY <1>0, <1>2, ReservationAssumption
         DEF RecordStep, Charge, RecordSettles, RecordUnwinds, Replay, DoAdd, OthersTyped
    <2>2. faults' \in 0 .. MaxFaults
      BY <1>0, <1>f, <1>2, RunsOf DEF RecordStep, Charge, Replay, NoFault, OthersTyped
    <2>3. UNCHANGED rpc \/ \E l \in RecordStates : rpc' = [rpc EXCEPT ![r] = l]
      BY <1>2 DEF RecordStep, Charge, RecordSettles, RecordUnwinds, Left, Replay, DoAdd, RGoto, RecordStates
    <2>4. UNCHANGED <<hpc, seen, fills, skew>>
      BY <1>2 DEF RecordStep, Charge, RecordSettles, RecordUnwinds, Replay, DoAdd
    <2>5. adds' \subseteq Requests
      BY <1>0, <1>2 DEF RecordStep, Charge, RecordSettles, RecordUnwinds, Replay, DoAdd, OthersTyped
    <2>6. rpc' \in [Requests -> RecordStates]
      BY <1>0, <2>3 DEF OthersTyped
    <2> QED
      BY <1>0, <2>1, <2>2, <2>4, <2>5, <2>6 DEF OthersTyped
  <1>3. ASSUME NEW c \in Checkers, CheckerStep(c) \/ DoFill(c) PROVE OthersTyped'
    <2>1. CASE StatusHit(c)
      <3>1. redis.hash \in Hashes
        BY <1>0, <2>1 DEF StatusHit, RedisStates
      <3> QED
        BY <1>0, <2>1, <3>1 DEF StatusHit, OthersTyped, Goto, HandlerStates
    <2>2. CASE Load(c)
      BY <1>0, <1>u, <2>2 DEF Load, OthersTyped, Goto, HandlerStates
    <2>3. CASE StatusMiss(c) \/ QueueFill(c)
      <3>1. faults' \in 0 .. MaxFaults
        BY <1>0, <1>f, <2>3 DEF StatusMiss, QueueFill, NoFault, OthersTyped
      <3> QED
        BY <1>0, <2>3, <3>1 DEF StatusMiss, QueueFill, OthersTyped, Goto, HandlerStates
    <2>4. CASE DoFill(c)
      <3>1. Sets(seen[c]) /\ seen[c] \in Hashes
        BY <1>0, <2>4 DEF DoFill, OthersTyped
      <3>2. faults' \in 0 .. MaxFaults /\ skew' \in [down : Nat, up : Nat]
        BY <1>0, <1>f, <3>1, SetsMeans DEF OthersTyped
      <3> QED
        BY <1>0, <2>4, <3>2 DEF DoFill, OthersTyped
    <2> QED
      BY <1>3, <2>1, <2>2, <2>3, <2>4 DEF CheckerStep
  <1>4. ASSUME HashLost \/ \E r \in Requests : KeyExpires(r) PROVE OthersTyped'
    BY <1>0, <1>f, <1>4 DEF HashLost, KeyExpires, OthersTyped
  <1>5. ASSUME NEW r \in Requests, ReserveReplyLost(r) \/ ChargeFails(r) \/ RecordDeadline(r)
        PROVE  OthersTyped'
    <2>1. faults' \in 0 .. MaxFaults
      BY <1>f, <1>5 DEF ReserveReplyLost, ChargeFails, RecordDeadline
    <2>2. UNCHANGED hpc \/ hpc' = [hpc EXCEPT ![r] = "end"]
      BY <1>5 DEF ReserveReplyLost, ChargeFails, RecordDeadline, Goto
    <2>3. UNCHANGED rpc \/ \E l \in RecordStates : rpc' = [rpc EXCEPT ![r] = l]
      BY <1>5 DEF ReserveReplyLost, ChargeFails, RecordDeadline, Left, RGoto, RecordStates
    <2>4. UNCHANGED <<used, seen, adds, fills, skew>>
      BY <1>5 DEF ReserveReplyLost, ChargeFails, RecordDeadline
    <2>5. rpc' \in [Requests -> RecordStates] /\ hpc' \in [Requests \cup Checkers -> HandlerStates]
      BY <1>0, <2>2, <2>3 DEF OthersTyped, HandlerStates
    <2> QED
      BY <1>0, <2>1, <2>4, <2>5 DEF OthersTyped
  <1>6. ASSUME NEW S \in SUBSET Requests, Crash(S) PROVE OthersTyped'
    <2>1. faults' \in 0 .. MaxFaults
      BY <1>f, <1>6 DEF Crash
    <2> QED
      BY <1>0, <1>6, <2>1 DEF Crash, OthersTyped, HandlerStates, RecordStates
  <1>7. OthersTyped'
    BY <1>1, <1>2, <1>3, <1>4, <1>5, <1>6 DEF Next, Environment
  <1>8. redis' \in RedisStates
    BY RedisTyped
  <1> QED
    BY <1>7, <1>8 DEF TypeOK, OthersTyped, RedisStates

LEMMA InitTyped == Init => TypeOK
  <1> SUFFICES ASSUME Init PROVE TypeOK
    OBVIOUS
  <1>1. InitialUsage \in Nat /\ MaxFaults \in Nat
    BY ReservationAssumption
  <1>2. InLedger(InitialUsage) \in Hashes /\ InLedger(0) \in Hashes
    BY <1>1 DEF InLedger, Hashes
  <1>3. redis \in RedisStates
    BY <1>2 DEF Init, RedisStates
  <1> QED
    BY <1>1, <1>2, <1>3 DEF Init, TypeOK, RedisStates, HandlerStates, RecordStates

\* Every variable always has its type, whatever fails or is repeated.
THEOREM TypeCorrect == Spec => []TypeOK
  <1>1. TypeOK /\ [Next]_vars => TypeOK'
    <2>1. TypeOK /\ UNCHANGED vars => TypeOK'
      BY DEF TypeOK, vars
    <2> QED
      BY <2>1, StepTyped
  <1> QED
    BY <1>1, InitTyped, PTL DEF Spec

-----------------------------------------------------------------------------
(* Keys *)

\* A reservation by key is made once, even by a script that runs twice.
LEMMA KeyReserves ==
  ASSUME NEW s \in RedisStates, NEW q \in Requests,
         NEW r \in Keyed \ Passed, KeyCounts(s, r),
         q = r => s.taken[r] = 0 \/ s.rkey[r] > 0
  PROVE  LET t == AfterReserve(s, q) IN
         /\ KeyCounts(t, r)
         /\ q = r => t.taken[r] = 0 \/ t.rkey[r] > 0
         /\ q # r => t.taken[r] = s.taken[r]
         /\ ReserveCode(s, q) = 0 => t = s
         /\ t.hash = NoHash => t = s
  <1>0. PICK t : t = AfterReserve(s, q)
    OBVIOUS
  <1>1. CASE ReserveCode(s, q) # 1
    <2>1. t = s
      BY <1>0, <1>1, ReserveScript
    <2> QED
      BY <1>0, <2>1
  <1>2. CASE ReserveCode(s, q) = 1
    <2>0. r \in Requests
      BY ReservationAssumption
    <2>1. /\ t.rkey[r] = IF r # q THEN s.rkey[r] ELSE IF q \in Keyed THEN Reserve[q] ELSE 0
          /\ t.taken[r] = IF r = q THEN s.taken[q] + 1 ELSE s.taken[r]
          /\ t.freed[r] = s.freed[r]
          /\ t.hash \in Hashes
      BY <1>0, <1>2, <2>0, ReserveScript
    <2>2. q \in Keyed => s.rkey[q] = 0
      BY <1>2, ReserveCodes
    <2>3. t.hash # NoHash
      BY <2>1, ReservationAssumption
    <2>4. s.freed[r] \in Nat /\ s.taken[r] \in Nat /\ s.rkey[r] \in Nat /\ Reserve[r] \in Nat /\ Reserve[r] > 0
      BY <2>0, ReservationAssumption DEF RedisStates
    <2>5. CASE q = r
      <3>1. t.rkey[r] = Reserve[r] /\ t.taken[r] = 1 /\ t.freed[r] = 0
        BY <2>1, <2>2, <2>4, <2>5 DEF KeyCounts
      <3> QED
        BY <1>0, <1>2, <2>3, <2>4, <2>5, <3>1 DEF KeyCounts
    <2>6. CASE q # r
      <3>1. t.rkey[r] = s.rkey[r] /\ t.taken[r] = s.taken[r] /\ t.freed[r] = s.freed[r]
        BY <2>1, <2>6
      <3> QED
        BY <1>0, <1>2, <2>3, <2>6, <3>1 DEF KeyCounts
    <2> QED
      BY <2>5, <2>6
  <1> QED
    BY <1>1, <1>2

LEMMA KeyReleases ==
  ASSUME NEW s \in RedisStates, NEW q \in Requests,
         NEW r \in Keyed \ Passed, KeyCounts(s, r)
  PROVE  LET t == ReleaseScript(s, q) IN
         KeyCounts(t, r) /\ t.taken[r] = s.taken[r]
  <1>0. r \in Requests /\ s.freed[r] \in Nat /\ s.taken[r] \in Nat /\ s.rkey[r] \in Nat
    BY ReservationAssumption DEF RedisStates
  <1>t. PICK t : t = ReleaseScript(s, q)
    OBVIOUS
  <1>1. CASE q \in Keyed
    <2>1. t = AfterFinalizeByKey(s, q, 0)
      BY <1>t, <1>1 DEF ReleaseScript
    <2>2. CASE s.hash = NoHash \/ s.rkey[q] = 0
      <3>1. t = s
        BY <2>1, <2>2, FinalizeByKeyScript
      <3> QED
        BY <1>t, <3>1
    <2>3. CASE s.hash # NoHash /\ s.rkey[q] # 0
      <3>1. /\ t.rkey[r] = IF r = q THEN 0 ELSE s.rkey[r]
            /\ t.taken[r] = s.taken[r]
            /\ t.freed[r] = IF r = q THEN s.freed[q] + 1 ELSE s.freed[r]
        <4>1. 0 \in Nat
          OBVIOUS
        <4>2. \A x \in Requests :
                /\ t.rkey[x] = IF x = q THEN 0 ELSE s.rkey[x]
                /\ t.taken[x] = s.taken[x]
                /\ t.freed[x] = IF x = q THEN s.freed[q] + 1 ELSE s.freed[x]
          BY <2>1, <2>3, <4>1, FinalizeByKeyScript
        <4> QED
          BY <1>0, <4>2
      <3> QED
        BY <1>t, <1>0, <2>3, <3>1 DEF KeyCounts
    <2> QED
      BY <2>2, <2>3
  <1>2. CASE q \notin Keyed
    <2>1. t = s \/ (s.hash # NoHash /\ t = Settled(s, q, Reserve[q], 0))
      BY <1>t, <1>2 DEF ReleaseScript, AfterFinalize
    <2>2. Reserve[q] \in Nat /\ q # r
      BY <1>2, ReservationAssumption
    <2>3. t.rkey[r] = s.rkey[r] /\ t.taken[r] = s.taken[r] /\ t.freed[r] = s.freed[r]
      BY <1>0, <2>1, <2>2, SettledScript
    <2> QED
      BY <1>t, <1>0, <2>3 DEF KeyCounts
  <1> QED
    BY <1>1, <1>2

\* RecordUsage does not finalise what the handler releases.
LEMMA KeyRecords ==
  ASSUME NEW s \in RedisStates, NEW q \in Requests, NEW actual \in Nat,
         NEW r \in Keyed \ Passed, KeyCounts(s, r)
  PROVE  LET t == RecordScript(s, q, actual) IN
         KeyCounts(t, r) /\ t.taken[r] = s.taken[r]
  <1>0. r \in Requests
    BY ReservationAssumption
  <1>t. PICK t : t = RecordScript(s, q, actual)
    OBVIOUS
  <1>1. t = s \/ (q \in Passed /\ s.hash # NoHash /\ t = Settled(s, q, Reserve[q], actual))
    BY <1>t DEF RecordScript, AfterFinalize
  <1>2. Reserve[q] \in Nat /\ (q \in Passed => q # r)
    BY ReservationAssumption
  <1>3. t.rkey[r] = s.rkey[r] /\ t.taken[r] = s.taken[r] /\ t.freed[r] = s.freed[r]
    BY <1>0, <1>1, <1>2, SettledScript
  <1> QED
    BY <1>t, <1>3 DEF KeyCounts

LEMMA KeyStep ==
  ASSUME TypeOK, KeyInv, Next
  PROVE  KeyInv'
  <1>0. redis \in RedisStates
    BY TypeMeans
  <1> SUFFICES ASSUME NEW r \in Keyed \ Passed
               PROVE  /\ KeyCounts(redis', r)
                      /\ hpc'[r] \in Before => redis'.taken[r] = 0
    BY DEF KeyInv, KeyCounts
  <1>r. /\ r \in Requests /\ KeyCounts(redis, r)
        /\ hpc[r] \in Before => redis.taken[r] = 0
        /\ hpc \in [Requests \cup Checkers -> HandlerStates]
    BY ReservationAssumption DEF KeyInv, TypeOK
  <1>s. ASSUME KeyCounts(redis', r), redis'.taken[r] = redis.taken[r],
               hpc'[r] \in Before => hpc[r] \in Before
        PROVE  KeyCounts(redis', r) /\ (hpc'[r] \in Before => redis'.taken[r] = 0)
    BY <1>r, <1>s
  <1>1. ASSUME NEW q \in Requests, TryReserve(q) \/ RetryReserve(q)
        PROVE  KeyCounts(redis', r) /\ (hpc'[r] \in Before => redis'.taken[r] = 0)
    <2>1. PICK s : /\ s = redis \/ s = AfterReserve(redis, q)
                   /\ redis' = AfterReserve(s, q)
                   /\ hpc[q] \in Before
                   /\ \E l : hpc' = [hpc EXCEPT ![q] = l] /\ (l \in Before => ReserveCode(s, q) = 0)
      BY <1>1 DEF TryReserve, RetryReserve, ReserveCall, Goto, Before
    <2>2. q = r => redis.taken[r] = 0 \/ redis.rkey[r] > 0
      BY <1>r, <2>1
    <2>3. /\ s \in RedisStates /\ KeyCounts(s, r)
          /\ q = r => s.taken[r] = 0 \/ s.rkey[r] > 0
          /\ q # r => s.taken[r] = redis.taken[r]
          /\ s.hash = NoHash => s = redis
      <3>1. CASE s = redis
        BY <1>0, <1>r, <2>2, <3>1
      <3>2. CASE s = AfterReserve(redis, q)
        BY <1>0, <1>r, <2>2, <3>2, KeyReserves, ScriptTypes
      <3> QED
        BY <2>1, <3>1, <3>2
    <2>4. /\ KeyCounts(redis', r)
          /\ q # r => redis'.taken[r] = s.taken[r]
          /\ ReserveCode(s, q) = 0 => redis' = s
      BY <2>1, <2>3, KeyReserves
    <2>5. ReserveCode(s, q) = 0 => s.hash = NoHash
      BY <2>3, ReserveCodes
    <2>6. CASE q = r
      <3>1. hpc'[r] \in Before => ReserveCode(s, q) = 0
        BY <1>r, <2>1, <2>6
      <3> QED
        BY <1>r, <2>1, <2>3, <2>4, <2>5, <2>6, <3>1
    <2>7. CASE q # r
      <3>1. hpc'[r] = hpc[r]
        BY <1>r, <2>1, <2>7
      <3> QED
        BY <1>r, <2>3, <2>4, <2>7, <3>1
    <2> QED
      BY <2>6, <2>7
  <1>2. ASSUME NEW q \in Requests, Release(q)
        PROVE  KeyCounts(redis', r) /\ (hpc'[r] \in Before => redis'.taken[r] = 0)
    <2>1. UNCHANGED redis \/ \E s \in RedisStates : /\ KeyCounts(s, r) /\ s.taken[r] = redis.taken[r]
                                                    /\ redis' = ReleaseScript(s, q)
      BY <1>0, <1>2, <1>r, RunsOf, KeyReleases, ScriptTypes
    <2>2. KeyCounts(redis', r) /\ redis'.taken[r] = redis.taken[r]
      BY <1>r, <2>1, KeyReleases
    <2>3. hpc'[r] \in Before => hpc[r] \in Before
      BY <1>2, <1>r DEF Release, Goto, Before
    <2> QED
      BY <1>s, <2>2, <2>3
  <1>3. ASSUME NEW q \in Requests, RecordSettles(q) \/ RecordUnwinds(q)
        PROVE  KeyCounts(redis', r) /\ (hpc'[r] \in Before => redis'.taken[r] = 0)
    <2>1. PICK a \in Nat : \/ redis' = RecordScript(redis, q, a)
                           \/ redis' = RecordScript(RecordScript(redis, q, a), q, a)
                           \/ redis' = redis
      <3>1. Actual[q] \in Nat
        BY ReservationAssumption
      <3> QED
        BY <1>3, <3>1, RunsOf
    <2>s. PICK s : s = RecordScript(redis, q, a)
      OBVIOUS
    <2>t. s \in RedisStates /\ KeyCounts(s, r) /\ s.taken[r] = redis.taken[r]
      BY <1>0, <1>r, <2>s, KeyRecords, RecordTypes
    <2>2. KeyCounts(redis', r) /\ redis'.taken[r] = redis.taken[r]
      BY <1>r, <2>1, <2>s, <2>t, KeyRecords
    <2> QED
      BY <1>3, <1>s, <2>2 DEF RecordSettles, RecordUnwinds
  <1>4. ASSUME /\ redis'.taken = redis.taken /\ redis'.freed = redis.freed
               /\ redis'.rkey[r] \in {redis.rkey[r], 0},
               hpc'[r] \in Before => hpc[r] \in Before
        PROVE  KeyCounts(redis', r) /\ (hpc'[r] \in Before => redis'.taken[r] = 0)
    BY <1>4, <1>r DEF KeyCounts
  <1>5. ASSUME NEW q \in Requests, ReserveReplyLost(q)
        PROVE  KeyCounts(redis', r) /\ (hpc'[r] \in Before => redis'.taken[r] = 0)
    <2>1. /\ redis' \in {redis, AfterReserve(redis, q)}
          /\ hpc[q] \in Before
          /\ hpc' = [hpc EXCEPT ![q] = "end"]
      BY <1>5 DEF ReserveReplyLost, Goto, Before
    <2>2. KeyCounts(redis', r) /\ (q # r => redis'.taken[r] = redis.taken[r])
      BY <1>0, <1>r, <2>1, KeyReserves
    <2> QED
      BY <1>r, <2>1, <2>2 DEF Before
  <1>6. ASSUME NEW q \in Requests, DoAdd(q)
        PROVE  KeyCounts(redis', r) /\ (hpc'[r] \in Before => redis'.taken[r] = 0)
    <2>1. redis'.taken = redis.taken /\ redis'.freed = redis.freed /\ redis'.rkey = redis.rkey
      <3>1. PICK s : s = AfterUpdate(redis, q)
        OBVIOUS
      <3>2. s \in RedisStates /\ s.taken = redis.taken /\ s.freed = redis.freed /\ s.rkey = redis.rkey
        BY <1>0, <3>1, UpdateScript
      <3>3. redis' = s \/ redis' = AfterUpdate(s, q) \/ redis' = redis
        BY <1>6, <3>1, RunsOf
      <3> QED
        BY <3>2, <3>3, UpdateScript
    <2> QED
      BY <1>4, <1>6, <2>1 DEF DoAdd
  <1>7. ASSUME NEW x \in Requests \cup Checkers, Fill(x) \/ Refill(x) \/ DoFill(x)
        PROVE  KeyCounts(redis', r) /\ (hpc'[r] \in Before => redis'.taken[r] = 0)
    <2>1. seen[x] \in Hashes
      BY DEF TypeOK
    <2>2. Sets(seen[x])
      BY <1>7 DEF Fill, Refill, DoFill
    <2>3. redis'.taken = redis.taken /\ redis'.freed = redis.freed /\ redis'.rkey = redis.rkey
      BY <2>1, <2>2, SetsMeans
    <2>4. hpc'[r] \in Before => hpc[r] \in Before
      BY <1>7, <1>r DEF Fill, Refill, DoFill, Goto, Before
    <2> QED
      BY <1>4, <2>3, <2>4
  <1>8. CASE HashLost
    <2>1. redis'.taken = redis.taken /\ redis'.freed = redis.freed /\ redis'.rkey = redis.rkey /\ UNCHANGED hpc
      BY <1>0, <1>8 DEF HashLost, RedisStates
    <2> QED
      BY <1>4, <2>1
  <1>9. ASSUME NEW q \in Requests, KeyExpires(q)
        PROVE  KeyCounts(redis', r) /\ (hpc'[r] \in Before => redis'.taken[r] = 0)
    <2>1. /\ redis'.taken = redis.taken /\ redis'.freed = redis.freed /\ UNCHANGED hpc
          /\ redis'.rkey = [redis.rkey EXCEPT ![q] = 0] /\ redis.rkey \in [Requests -> Nat]
      BY <1>0, <1>9 DEF KeyExpires, RedisStates
    <2>2. redis'.rkey[r] \in {redis.rkey[r], 0}
      BY <2>1, <1>r
    <2> QED
      BY <1>4, <2>1, <2>2
  <1>10. ASSUME UNCHANGED redis, hpc'[r] \in Before => hpc[r] \in Before
         PROVE  KeyCounts(redis', r) /\ (hpc'[r] \in Before => redis'.taken[r] = 0)
    BY <1>10, <1>4
  <1>11. ASSUME NEW x \in Requests \cup Checkers,
                \/ StatusHit(x) \/ StatusMiss(x) \/ Load(x) \/ QueueFill(x)
                \/ ForwardFails(x) \/ ForwardSucceeds(x)
         PROVE  KeyCounts(redis', r) /\ (hpc'[r] \in Before => redis'.taken[r] = 0)
    <2>1. UNCHANGED redis
      BY <1>11 DEF StatusHit, StatusMiss, Load, QueueFill, ForwardFails, ForwardSucceeds
    <2>2. hpc'[r] \in Before => hpc[r] \in Before
      BY <1>11, <1>r DEF StatusHit, StatusMiss, Load, QueueFill, ForwardFails, ForwardSucceeds, Goto, Before
    <2> QED
      BY <1>10, <2>1, <2>2
  <1>12. ASSUME NEW q \in Requests, Charge(q) \/ Replay(q) \/ ChargeFails(q) \/ RecordDeadline(q)
         PROVE  KeyCounts(redis', r) /\ (hpc'[r] \in Before => redis'.taken[r] = 0)
    BY <1>10, <1>12 DEF Charge, Replay, ChargeFails, RecordDeadline
  <1>13. ASSUME NEW S \in SUBSET Requests, Crash(S)
         PROVE  KeyCounts(redis', r) /\ (hpc'[r] \in Before => redis'.taken[r] = 0)
    BY <1>10, <1>13, <1>r DEF Crash, Before
  <1>14. ASSUME NEW q \in Requests, HandlerStep(q) \/ RecordStep(q) \/ Replay(q) \/ DoAdd(q)
         PROVE  KeyCounts(redis', r) /\ (hpc'[r] \in Before => redis'.taken[r] = 0)
    BY <1>14, <1>1, <1>2, <1>3, <1>6, <1>7, <1>11, <1>12 DEF HandlerStep, RecordStep
  <1>15. ASSUME NEW c \in Checkers, CheckerStep(c) \/ DoFill(c)
         PROVE  KeyCounts(redis', r) /\ (hpc'[r] \in Before => redis'.taken[r] = 0)
    BY <1>15, <1>7, <1>11 DEF CheckerStep
  <1>16. ASSUME Environment
         PROVE  KeyCounts(redis', r) /\ (hpc'[r] \in Before => redis'.taken[r] = 0)
    BY <1>16, <1>5, <1>8, <1>9, <1>12, <1>13 DEF Environment
  <1> QED
    BY <1>14, <1>15, <1>16 DEF Next

\* A key makes reserving and releasing idempotent, whatever is lost, repeated,
\* filled again or killed, and in whatever order: one request takes at most one
\* reservation and gives it back at most once (reserveSubUsageByKeyScript,
\* finalizeSubUsageByKeyScript).
THEOREM KeyCorrect == Spec => []KeyReservesOnce
  <1>1. Init => KeyInv
    <2> SUFFICES ASSUME Init, NEW r \in Keyed \ Passed
                 PROVE  redis.freed[r] = 0 /\ redis.taken[r] = 0 /\ redis.rkey[r] = 0
      BY DEF KeyInv, KeyCounts
    <2>1. r \in Requests
      BY ReservationAssumption
    <2> QED
      BY <2>1 DEF Init
  <1>2. TypeOK /\ KeyInv /\ [Next]_vars => KeyInv'
    <2>1. KeyInv /\ UNCHANGED vars => KeyInv'
      BY DEF KeyInv, KeyCounts, vars
    <2> QED
      BY <2>1, KeyStep
  <1>3. KeyInv => KeyReservesOnce
    BY DEF KeyInv, KeyCounts, KeyReservesOnce
  <1> QED
    BY <1>1, <1>2, <1>3, TypeCorrect, PTL DEF Spec

-----------------------------------------------------------------------------
(* What is reserved is what requests hold *)

LEMMA FinitelyMany ==
  ASSUME NEW s \in RedisStates
  PROVE  s.share \in [Requests -> Nat] /\ IsFiniteSet(Requests) /\ Total(s.share) \in Nat
  BY TotalType, ReservationAssumption DEF RedisStates

\* One share changes and the hash with it.
LEMMA SumFollows ==
  ASSUME NEW s \in RedisStates, NEW t \in RedisStates, NEW q \in Requests,
         s.hash.reserved = Total(s.share),
         t.hash.reserved = s.hash.reserved - s.share[q] + t.share[q],
         \A x \in Requests : x # q => t.share[x] = s.share[x]
  PROVE  t.hash.reserved = Total(t.share)
  <1>1. t.share \in [Requests -> Nat] /\ s.share \in [Requests -> Nat] /\ t.share[q] \in Nat
    BY DEF RedisStates
  <1>2. Total(t.share) = Total(s.share) - s.share[q] + t.share[q]
    BY <1>1, TotalDiffers, FinitelyMany
  <1> QED
    BY <1>2

LEMMA ShareReserves ==
  ASSUME NEW q \in Requests, TypeOK, ShareParts, hpc[q] \in {"reserve", "retry"}
  PROVE  LET t == AfterReserve(redis, q) IN
         /\ t.hash = NoHash <=> redis.hash = NoHash
         /\ t.hash # NoHash => t.hash.reserved = Total(t.share)
         /\ \A x \in Requests \ {q} : t.share[x] = redis.share[x] /\ t.rkey[x] = redis.rkey[x]
         /\ t.rkey[q] \in {0, Reserve[q]} /\ t.share[q] \in {0, Reserve[q]}
         /\ ReserveCode(redis, q) \in {-1, 0, 1}
         /\ ReserveCode(redis, q) = 0 <=> redis.hash = NoHash
         /\ ReserveCode(redis, q) # 1 => t = redis
         /\ ReserveCode(redis, q) = 1 => t.share[q] = Reserve[q]
  <1>0. redis \in RedisStates
    BY TypeMeans
  <1>1. redis.share[q] = 0 /\ redis.rkey[q] = 0
    BY DEF ShareParts, HeldInFull, Before
  <1>2. redis.hash # NoHash => redis.hash.reserved = Total(redis.share)
    BY DEF ShareParts, SharesAddUp
  <1>3. /\ ReserveCode(redis, q) \in {-1, 0, 1}
        /\ ReserveCode(redis, q) = 0 <=> redis.hash = NoHash
        /\ ReserveCode(redis, q) = 1 => redis.hash # NoHash
    BY <1>0, <1>1, ReserveCodes
  <1>4. PICK t : t = AfterReserve(redis, q)
    OBVIOUS
  <1>5. CASE ReserveCode(redis, q) # 1
    <2>1. t = redis
      BY <1>0, <1>4, <1>5, ReserveScript
    <2> QED
      BY <1>1, <1>2, <1>3, <1>4, <1>5, <2>1
  <1>6. CASE ReserveCode(redis, q) = 1
    <2>1. /\ t \in RedisStates
          /\ t.hash \in Hashes
          /\ t.hash.reserved = redis.hash.reserved + Reserve[q]
          /\ t.rkey[q] = IF q \in Keyed THEN Reserve[q] ELSE 0
          /\ t.share[q] = redis.share[q] + Reserve[q]
          /\ \A x \in Requests \ {q} : t.share[x] = redis.share[x] /\ t.rkey[x] = redis.rkey[x]
      BY <1>0, <1>4, <1>6, ReserveScript
    <2>2. Reserve[q] \in Nat /\ redis.hash # NoHash /\ redis.hash.reserved \in Nat
      BY <1>0, <1>3, <1>6, ReservationAssumption DEF RedisStates, Hashes
    <2>3. t.share[q] = Reserve[q]
      BY <1>1, <2>1, <2>2
    <2>4. t.hash.reserved = redis.hash.reserved - redis.share[q] + t.share[q]
      BY <1>1, <2>1, <2>2, <2>3
    <2>5. t.hash.reserved = Total(t.share)
      BY <1>0, <1>2, <2>1, <2>2, <2>4, SumFollows
    <2>6. t.hash # NoHash
      BY <2>1, ReservationAssumption
    <2>7. t.rkey[q] \in {0, Reserve[q]}
      BY <2>1
    <2> QED
      BY <1>3, <1>4, <1>6, <2>1, <2>2, <2>3, <2>5, <2>6, <2>7
  <1> QED
    BY <1>5, <1>6

\* Whoever gives a reservation back has all of it, so nothing is cut at zero.
LEMMA ShareSettles ==
  ASSUME NEW q \in Requests, NEW actual \in Nat, TypeOK, ShareParts, Holds(q)
  PROVE  LET t == Settled(redis, q, Reserve[q], actual) IN
         /\ redis.hash # NoHash /\ redis.hash.reserved >= Reserve[q]
         /\ t \in RedisStates
         /\ t.hash # NoHash
         /\ t.hash.reserved = Total(t.share)
         /\ t.hash.reserved = redis.hash.reserved - Reserve[q]
         /\ \A x \in Requests : t.share[x] = IF x = q THEN 0 ELSE redis.share[x]
         /\ \A x \in Requests : t.rkey[x] = redis.rkey[x]
  <1>0. redis \in RedisStates /\ Reserve[q] \in Nat /\ Reserve[q] > 0
    BY TypeMeans, ReservationAssumption
  <1>1. redis.share[q] = Reserve[q]
    BY DEF ShareParts, HeldInFull
  <1>2. redis.hash # NoHash
    BY <1>0, <1>1 DEF ShareParts, NeverStale
  <1>3. redis.hash.reserved = Total(redis.share)
    BY <1>2 DEF ShareParts, SharesAddUp
  <1>4. redis.share[q] <= Total(redis.share)
    <2>1. \A y \in Requests : y # q => redis.share[y] = redis.share[y]
      OBVIOUS
    <2> QED
      BY <1>0, <1>1, <2>1, TotalDiffers, FinitelyMany
  <1>5. PICK t : t = Settled(redis, q, Reserve[q], actual)
    OBVIOUS
  <1>6. /\ t \in RedisStates
        /\ t.hash \in Hashes
        /\ t.hash.reserved = Minus(redis.hash.reserved, Reserve[q])
        /\ \A x \in Requests : t.share[x] = IF x = q THEN Minus(redis.share[q], Reserve[q]) ELSE redis.share[x]
        /\ \A x \in Requests : t.rkey[x] = redis.rkey[x]
    BY <1>0, <1>2, <1>5, SettledScript
  <1>7. Minus(redis.share[q], Reserve[q]) = 0
    BY <1>0, <1>1 DEF Minus
  <1>8. redis.hash.reserved \in Nat
    BY <1>0, <1>2 DEF RedisStates, Hashes
  <1>9. Minus(redis.hash.reserved, Reserve[q]) = redis.hash.reserved - Reserve[q]
    BY <1>0, <1>1, <1>3, <1>4, <1>8 DEF Minus
  <1>10. t.share[q] = 0
    BY <1>6, <1>7
  <1>11. t.hash.reserved = redis.hash.reserved - redis.share[q] + t.share[q]
    BY <1>0, <1>1, <1>6, <1>8, <1>9, <1>10
  <1>12. t.hash.reserved = Total(t.share)
    BY <1>0, <1>3, <1>6, <1>11, SumFollows
  <1>13. t.hash # NoHash
    BY <1>6, ReservationAssumption
  <1> QED
    BY <1>1, <1>2, <1>3, <1>4, <1>5, <1>6, <1>7, <1>9, <1>12, <1>13

LEMMA ShareReleases ==
  ASSUME NEW q \in Requests, TypeOK, ShareParts, hpc[q] = "release"
  PROVE  LET t == ReleaseScript(redis, q) IN
         /\ t.hash # NoHash
         /\ t.hash.reserved = Total(t.share) /\ t.hash.reserved <= redis.hash.reserved
         /\ \A x \in Requests \ {q} : t.share[x] = redis.share[x] /\ t.rkey[x] = redis.rkey[x]
         /\ t.rkey[q] \in {0, Reserve[q]} /\ t.share[q] \in {0, Reserve[q]}
  <1>0. redis \in RedisStates /\ Reserve[q] \in Nat /\ Reserve[q] > 0 /\ 0 \in Nat
    BY TypeMeans, ReservationAssumption
  <1>1. Holds(q) /\ redis.rkey[q] \in {0, Reserve[q]} /\ redis.share[q] \in {0, Reserve[q]}
    BY DEF Holds, ShareParts, HeldInFull
  <1>2. PICK u : u = Settled(redis, q, Reserve[q], 0)
    OBVIOUS
  <1>3. /\ redis.hash # NoHash
        /\ u \in RedisStates
        /\ u.hash # NoHash
        /\ u.hash.reserved = Total(u.share)
        /\ u.hash.reserved = redis.hash.reserved - Reserve[q]
        /\ \A x \in Requests : u.share[x] = IF x = q THEN 0 ELSE redis.share[x]
        /\ \A x \in Requests : u.rkey[x] = redis.rkey[x]
    BY <1>0, <1>1, <1>2, ShareSettles
  <1>4. redis.hash.reserved = Total(redis.share) /\ redis.hash.reserved \in Nat
    BY <1>0, <1>3, FinitelyMany DEF ShareParts, SharesAddUp
  <1>r. redis.hash.reserved - Reserve[q] <= redis.hash.reserved
    BY <1>0, <1>4
  <1>5. PICK t : t = ReleaseScript(redis, q)
    OBVIOUS
  <1>6. CASE q \notin Keyed
    <2>1. t = u
      BY <1>2, <1>3, <1>5, <1>6 DEF ReleaseScript, AfterFinalize
    <2> QED
      BY <1>1, <1>3, <1>r, <1>5, <2>1
  <1>7. CASE q \in Keyed /\ redis.rkey[q] = 0
    <2>1. t = redis
      BY <1>5, <1>7 DEF ReleaseScript, AfterFinalizeByKey
    <2> QED
      BY <1>1, <1>3, <1>4, <1>5, <2>1
  <1>8. CASE q \in Keyed /\ redis.rkey[q] = Reserve[q]
    <2>1. t = [u EXCEPT !.rkey[q] = 0]
      BY <1>0, <1>2, <1>3, <1>5, <1>8 DEF ReleaseScript, AfterFinalizeByKey
    <2>2. /\ t.hash = u.hash /\ t.share = u.share
          /\ \A x \in Requests : t.rkey[x] = IF x = q THEN 0 ELSE u.rkey[x]
      BY <1>3, <2>1 DEF RedisStates
    <2> QED
      BY <1>3, <1>r, <1>5, <2>2
  <1> QED
    BY <1>1, <1>6, <1>7, <1>8

LEMMA ShareRecords ==
  ASSUME NEW q \in Requests, NEW actual \in Nat, TypeOK, ShareParts,
         rpc[q] \in {"charged", "unwind", "unaware"}
  PROVE  LET t == RecordScript(redis, q, actual) IN
         /\ t.hash = NoHash <=> redis.hash = NoHash
         /\ t.hash # NoHash => t.hash.reserved = Total(t.share)
         /\ \A x \in Requests \ {q} : t.share[x] = redis.share[x]
         /\ \A x \in Requests : t.rkey[x] = redis.rkey[x]
         /\ t.share[q] \in {0, redis.share[q]}
  <1>1. PICK t : t = RecordScript(redis, q, actual)
    OBVIOUS
  <1>2. CASE q \in Passed
    <2>1. Holds(q)
      BY <1>2 DEF Holds
    <2>2. PICK u : u = Settled(redis, q, Reserve[q], actual)
      OBVIOUS
    <2>3. /\ redis.hash # NoHash
          /\ u.hash # NoHash
          /\ u.hash.reserved = Total(u.share)
          /\ \A x \in Requests : u.share[x] = IF x = q THEN 0 ELSE redis.share[x]
          /\ \A x \in Requests : u.rkey[x] = redis.rkey[x]
      BY <2>1, <2>2, ShareSettles
    <2>4. t = u
      BY <1>1, <1>2, <2>2, <2>3 DEF RecordScript, AfterFinalize
    <2> QED
      BY <1>1, <2>3, <2>4
  <1>3. CASE q \notin Passed
    <2>1. t = redis
      BY <1>1, <1>3 DEF RecordScript
    <2> QED
      BY <1>1, <2>1 DEF ShareParts, SharesAddUp
  <1> QED
    BY <1>2, <1>3

\* What has to be seen of a step for the parts to hold after it.
LEMMA ShareFrame ==
  ASSUME ShareParts,
         redis'.hash = NoHash => redis.hash = NoHash /\ \A r \in Requests : redis'.share[r] = redis.share[r],
         redis'.hash # NoHash => redis'.hash.reserved = Total(redis'.share),
         \A r \in Requests : Holds(r)' => redis'.share[r] = Reserve[r],
         \A r \in Requests : hpc'[r] \in Before =>
            hpc[r] \in Before /\ redis'.share[r] = redis.share[r] /\ redis'.rkey[r] = redis.rkey[r],
         \A r \in Requests : redis'.rkey[r] \in {0, Reserve[r]} /\ redis'.share[r] \in {0, Reserve[r]},
         OneOwner',
         \A x \in Requests \cup Checkers :
            /\ hpc'[x] = "reserve" => redis'.hash # NoHash \/ seen'[x].reserved = 0
            /\ hpc'[x] \in {"fill", "refill", "retry"} => seen'[x].reserved = 0,
         \A c \in fills' : seen'[c].reserved = 0 /\ hpc'[c] = "end"
  PROVE  ShareParts'
  <1>1. HeldInFull'
    BY DEF ShareParts, HeldInFull, Holds
  <1>2. NeverStale'
    BY DEF ShareParts, NeverStale
  <1>3. SharesAddUp'
    BY DEF SharesAddUp
  <1> QED
    BY <1>1, <1>2, <1>3 DEF ShareParts

\* A step that touches neither the reservations nor what is known of them.
LEMMA ShareRests ==
  ASSUME TypeOK, ShareParts,
         redis'.hash = NoHash <=> redis.hash = NoHash,
         redis.hash # NoHash => redis'.hash.reserved = redis.hash.reserved,
         redis'.share = redis.share,
         \A r \in Requests : redis'.rkey[r] = redis.rkey[r],
         \A r \in Requests : Holds(r)' => Holds(r),
         \A r \in Requests : hpc'[r] \in Before => hpc[r] \in Before,
         OneOwner',
         \A x \in Requests \cup Checkers :
            /\ hpc'[x] = "reserve" => redis.hash # NoHash \/ seen'[x].reserved = 0
            /\ hpc'[x] \in {"fill", "refill", "retry"} => seen'[x].reserved = 0,
         \A c \in fills' : seen'[c].reserved = 0 /\ hpc'[c] = "end"
  PROVE  ShareParts'
  <1>1. redis'.hash # NoHash => redis'.hash.reserved = Total(redis'.share)
    BY DEF ShareParts, SharesAddUp
  <1>2. \A r \in Requests : Holds(r)' => redis'.share[r] = Reserve[r]
    BY DEF ShareParts, HeldInFull
  <1>3. \A r \in Requests : redis'.rkey[r] \in {0, Reserve[r]} /\ redis'.share[r] \in {0, Reserve[r]}
    BY DEF ShareParts, HeldInFull
  <1> QED
    BY <1>1, <1>2, <1>3, ShareFrame

LEMMA NothingLost ==
  ASSUME NoLoss
  PROVE  ~ Fault("hash") /\ ~ Fault("again") /\ NoneDoubled
  BY DEF NoLoss, NoneDoubled, Fault

\* A script that reserves or releases by key changes nothing the second time, so
\* whether the client has repeated it cannot be seen.
LEMMA KeyedTwice ==
  ASSUME NEW s \in RedisStates, NEW r \in Keyed, r \in Requests
  PROVE  /\ AfterReserve(AfterReserve(s, r), r) = AfterReserve(s, r)
         /\ ReserveCode(s, r) = 1 => ReserveCode(AfterReserve(s, r), r) = 2
         /\ ReserveCode(s, r) # 1 => AfterReserve(s, r) = s
         /\ ReleaseScript(ReleaseScript(s, r), r) = ReleaseScript(s, r)
  <1>1. PICK t : t = AfterReserve(s, r)
    OBVIOUS
  <1>2. ReserveCode(s, r) # 1 => t = s
    BY <1>1, ReserveScript
  <1>3. ReserveCode(s, r) = 1 => ReserveCode(t, r) = 2 /\ AfterReserve(t, r) = t
    <2> SUFFICES ASSUME ReserveCode(s, r) = 1 PROVE ReserveCode(t, r) = 2 /\ AfterReserve(t, r) = t
      OBVIOUS
    <2>1. t.hash \in Hashes /\ t.rkey[r] = Reserve[r]
      BY <1>1, ReserveScript
    <2>2. t.hash # NoHash /\ t.rkey[r] > 0
      BY <2>1, ReservationAssumption
    <2>3. ReserveCode(t, r) = 2
      BY <2>2 DEF ReserveCode
    <2> QED
      BY <2>3 DEF AfterReserve
  <1>4. PICK u : u = AfterFinalizeByKey(s, r, 0)
    OBVIOUS
  <1>5. AfterFinalizeByKey(u, r, 0) = u
    <2>0. 0 \in Nat
      OBVIOUS
    <2>1. CASE s.hash = NoHash \/ s.rkey[r] = 0
      <3>1. u = s
        BY <2>0, <1>4, <2>1, FinalizeByKeyScript
      <3> QED
        BY <1>4, <3>1
    <2>2. CASE s.hash # NoHash /\ s.rkey[r] # 0
      <3>1. u \in RedisStates /\ u.rkey[r] = 0
        BY <2>0, <1>4, <2>2, FinalizeByKeyScript
      <3> QED
        BY <2>0, <3>1, FinalizeByKeyScript
    <2> QED
      BY <2>1, <2>2
  <1>6. ReleaseScript(s, r) = u /\ ReleaseScript(u, r) = AfterFinalizeByKey(u, r, 0)
    BY <1>4 DEF ReleaseScript
  <1> QED
    BY <1>1, <1>2, <1>3, <1>5, <1>6

LEMMA AsIfOnce ==
  ASSUME NoneDoubled, TypeOK, NEW r \in Requests
  PROVE  /\ ~ Fault("hash")
         /\ Release(r) => redis' = ReleaseScript(redis, r) \/ (redis' = redis /\ Fault("lost"))
         /\ RecordSettles(r) => redis' = RecordScript(redis, r, Actual[r]) \/ (redis' = redis /\ Fault("lost"))
         /\ RecordUnwinds(r) => redis' = RecordScript(redis, r, 0) \/ (redis' = redis /\ Fault("lost"))
         /\ DoAdd(r) => redis' \in {redis, AfterUpdate(redis, r), AfterUpdate(AfterUpdate(redis, r), r)}
  <1>1. redis \in RedisStates
    BY TypeMeans
  <1>2. ~ Fault("hash") /\ (Fault("again") => r \in Keyed /\ r \notin Passed)
    BY DEF NoneDoubled, Fault
  <1>3. r \in Keyed => ReleaseScript(ReleaseScript(redis, r), r) = ReleaseScript(redis, r)
    BY <1>1, KeyedTwice
  <1>4. r \notin Passed => \A a : RecordScript(redis, r, a) = redis
    BY DEF RecordScript
  <1> QED
    BY <1>2, <1>3, <1>4, RunsOf

LEMMA CalledOnce ==
  ASSUME NoneDoubled, TypeOK, NEW r \in Requests, NEW then, ReserveCall(r, then)
  PROVE  /\ redis' = AfterReserve(redis, r)
         /\ hpc' = [hpc EXCEPT ![r] = CASE ReserveCode(redis, r) \in {1, 2} -> "forward"
                                        [] ReserveCode(redis, r) = 0 -> then
                                        [] OTHER -> "end"]
  <1>1. redis \in RedisStates
    BY TypeMeans
  <1>2. Fault("again") => r \in Keyed
    BY DEF NoneDoubled, Fault
  <1>3. PICK before :
          /\ before = redis \/ (before = AfterReserve(redis, r) /\ r \in Keyed)
          /\ redis' = AfterReserve(before, r)
          /\ hpc' = [hpc EXCEPT ![r] = CASE ReserveCode(before, r) \in {1, 2} -> "forward"
                                         [] ReserveCode(before, r) = 0 -> then
                                         [] OTHER -> "end"]
    <2>1. PICK again \in BOOLEAN :
            LET b == IF again THEN AfterReserve(redis, r) ELSE redis IN
            /\ IF again THEN Fault("again") ELSE NoFault
            /\ redis' = AfterReserve(b, r)
            /\ hpc' = [hpc EXCEPT ![r] = CASE ReserveCode(b, r) \in {1, 2} -> "forward"
                                           [] ReserveCode(b, r) = 0 -> then
                                           [] OTHER -> "end"]
      BY Zenon DEF ReserveCall, Goto
    <2>2. CASE again
      BY <1>2, <2>1, <2>2
    <2>3. CASE ~ again
      BY <2>1, <2>3
    <2> QED
      BY <2>2, <2>3
  <1>4. CASE before = redis
    BY <1>3, <1>4
  <1>5. CASE before = AfterReserve(redis, r) /\ r \in Keyed
    <2>1. redis' = AfterReserve(redis, r)
      BY <1>1, <1>3, <1>5, KeyedTwice
    <2>2. CASE ReserveCode(redis, r) = 1
      <3>1. ReserveCode(before, r) = 2
        BY <1>1, <1>5, <2>2, KeyedTwice
      <3> QED
        BY <1>3, <2>1, <2>2, <3>1
    <2>3. CASE ReserveCode(redis, r) # 1
      <3>1. before = redis
        BY <1>1, <1>5, <2>3, KeyedTwice
      <3> QED
        BY <1>3, <3>1
    <2> QED
      BY <2>2, <2>3
  <1> QED
    BY <1>3, <1>4, <1>5

\* A step that leaves Redis alone.
LEMMA ShareQuiet ==
  ASSUME NoneDoubled, TypeOK, ShareParts, UNCHANGED redis,
         \/ \E x \in Requests \cup Checkers : StatusHit(x) \/ StatusMiss(x) \/ Load(x) \/ QueueFill(x)
         \/ \E r \in Requests : \/ ForwardFails(r) \/ ForwardSucceeds(r) \/ Charge(r) \/ ChargeFails(r)
                                \/ RecordDeadline(r) \/ Replay(r)
         \/ \E S \in SUBSET Requests : Crash(S)
  PROVE  ShareParts'
  <1>1. /\ hpc \in [Requests \cup Checkers -> HandlerStates]
        /\ seen \in [Requests \cup Checkers -> Hashes]
        /\ rpc \in [Requests -> RecordStates]
        /\ fills \subseteq Checkers
    BY DEF TypeOK
  <1>2. /\ \A r \in Requests : hpc[r] \in Before \cup {"forward"} => rpc[r] = "none"
        /\ \A r \in Requests : r \in Passed /\ rpc[r] # "none" => hpc[r] = "end"
    BY DEF ShareParts, OneOwner
  <1>3. /\ \A x \in Requests \cup Checkers :
             /\ hpc[x] = "reserve" => redis.hash # NoHash \/ seen[x].reserved = 0
             /\ hpc[x] \in {"fill", "refill", "retry"} => seen[x].reserved = 0
        /\ \A c \in fills : seen[c].reserved = 0 /\ hpc[c] = "end"
    BY DEF ShareParts, NeverStale
  <1>4. /\ redis'.hash = NoHash <=> redis.hash = NoHash
        /\ redis.hash # NoHash => redis'.hash.reserved = redis.hash.reserved
        /\ redis'.share = redis.share
        /\ \A r \in Requests : redis'.rkey[r] = redis.rkey[r]
    OBVIOUS
  <1>5. Requests \cap Checkers = {}
    BY ReservationAssumption
  <1>6. ASSUME NEW x \in Requests \cup Checkers, StatusHit(x) \/ StatusMiss(x) \/ Load(x) \/ QueueFill(x)
        PROVE  ShareParts'
    <2>1. PICK l \in Before \cup {"end"} : hpc' = [hpc EXCEPT ![x] = l]
      BY <1>6 DEF StatusHit, StatusMiss, Load, QueueFill, Goto, Before
    <2>2. \A y \in Requests \cup Checkers : hpc'[y] = IF y = x THEN l ELSE hpc[y]
      BY <1>1, <2>1
    <2>3. /\ hpc[x] \in {"status", "load", "fill"}
          /\ l \in {"reserve", "load", "fill", "end"}
          /\ l = "reserve" => redis.hash # NoHash
          /\ l = "fill" => seen' = [seen EXCEPT ![x] = InLedger(used)]
          /\ UNCHANGED rpc
          /\ fills' = fills \/ (x \in Checkers /\ fills' = fills \cup {x} /\ hpc[x] = "fill" /\ UNCHANGED seen /\ l = "end")
      BY <1>1, <1>6, <2>1 DEF StatusHit, StatusMiss, Load, QueueFill, Goto
    <2>4. \A y \in Requests \cup Checkers : y # x => seen'[y] = seen[y]
      BY <1>1, <1>6 DEF StatusHit, StatusMiss, Load, QueueFill
    <2>5. \A y \in Requests \cup Checkers : hpc'[y] \in {"fill", "refill", "retry"} => seen'[y].reserved = 0
      <3>1. l = "fill" => seen'[x].reserved = 0
        BY <1>1, <2>3 DEF InLedger
      <3> QED
        BY <1>3, <2>2, <2>3, <2>4, <3>1
    <2>6. \A c \in fills' : seen'[c].reserved = 0 /\ hpc'[c] = "end"
      <3>1. \A c \in fills : c # x
        BY <1>3, <2>3
      <3> QED
        BY <1>1, <1>3, <2>2, <2>3, <2>4, <3>1
    <2>7. \A r \in Requests : Holds(r)' => Holds(r)
      BY <2>2, <2>3 DEF Holds
    <2>8. \A r \in Requests : hpc'[r] \in Before => hpc[r] \in Before
      BY <2>2, <2>3 DEF Before
    <2>9. OneOwner'
      BY <1>2, <2>2, <2>3 DEF OneOwner, Before
    <2>10. \A y \in Requests \cup Checkers :
             hpc'[y] = "reserve" => redis.hash # NoHash \/ seen'[y].reserved = 0
      BY <1>3, <2>2, <2>3, <2>4
    <2> QED
      BY <1>4, <2>5, <2>6, <2>7, <2>8, <2>9, <2>10, ShareRests
  <1>7. ASSUME NEW r \in Requests,
               \/ ForwardFails(r) \/ ForwardSucceeds(r) \/ Charge(r) \/ ChargeFails(r)
               \/ RecordDeadline(r) \/ Replay(r)
        PROVE  ShareParts'
    <2>1. /\ UNCHANGED <<seen, fills>>
          /\ \/ hpc[r] = "forward" /\ hpc' = [hpc EXCEPT ![r] = "release"] /\ UNCHANGED rpc
             \/ /\ hpc[r] = "forward"
                /\ hpc' = [hpc EXCEPT ![r] = IF r \in Passed THEN "end" ELSE "release"]
                /\ rpc' = [rpc EXCEPT ![r] = "billing"]
             \/ /\ UNCHANGED hpc
                /\ rpc[r] = "billing" /\ \E l \in {"charged", "unaware", "unwind"} : rpc' = [rpc EXCEPT ![r] = l]
             \/ /\ UNCHANGED hpc
                /\ rpc[r] # "none" /\ \E l \in {"open", "end"} : rpc' = [rpc EXCEPT ![r] = l]
      BY <1>7 DEF ForwardFails, ForwardSucceeds, Charge, ChargeFails, RecordDeadline, Replay, Goto, RGoto, Left
    <2>2. PICK l, m : /\ \A y \in Requests \cup Checkers : hpc'[y] = IF y = r THEN l ELSE hpc[y]
                      /\ \A y \in Requests : rpc'[y] = IF y = r THEN m ELSE rpc[y]
                      /\ \/ hpc[r] = "forward" /\ l = "release" /\ m = rpc[r]
                         \/ hpc[r] = "forward" /\ l = (IF r \in Passed THEN "end" ELSE "release") /\ m = "billing"
                         \/ rpc[r] = "billing" /\ l = hpc[r] /\ m \in {"charged", "unaware", "unwind"}
                         \/ rpc[r] # "none" /\ l = hpc[r] /\ m \in {"open", "end"}
      <3>1. CASE hpc[r] = "forward" /\ hpc' = [hpc EXCEPT ![r] = "release"] /\ UNCHANGED rpc
        BY <1>1, <3>1
      <3>2. CASE /\ hpc[r] = "forward"
                 /\ hpc' = [hpc EXCEPT ![r] = IF r \in Passed THEN "end" ELSE "release"]
                 /\ rpc' = [rpc EXCEPT ![r] = "billing"]
        BY <1>1, <3>2
      <3>3. CASE /\ UNCHANGED hpc
                 /\ rpc[r] = "billing" /\ \E l \in {"charged", "unaware", "unwind"} : rpc' = [rpc EXCEPT ![r] = l]
        BY <1>1, <3>3
      <3>4. CASE /\ UNCHANGED hpc
                 /\ rpc[r] # "none" /\ \E l \in {"open", "end"} : rpc' = [rpc EXCEPT ![r] = l]
        BY <1>1, <3>4
      <3> QED
        BY <2>1, <3>1, <3>2, <3>3, <3>4
    <2>3. \A q \in Requests : Holds(q)' => Holds(q)
      BY <1>2, <2>2 DEF Holds, Before
    <2>4. \A q \in Requests : hpc'[q] \in Before => hpc[q] \in Before
      BY <2>2 DEF Before
    <2>5. OneOwner'
      BY <1>2, <2>2 DEF OneOwner, Before
    <2>6. /\ \A x \in Requests \cup Checkers :
               /\ hpc'[x] = "reserve" => redis.hash # NoHash \/ seen'[x].reserved = 0
               /\ hpc'[x] \in {"fill", "refill", "retry"} => seen'[x].reserved = 0
          /\ \A c \in fills' : seen'[c].reserved = 0 /\ hpc'[c] = "end"
      BY <1>1, <1>3, <1>5, <2>1, <2>2
    <2> QED
      BY <1>4, <2>3, <2>4, <2>5, <2>6, ShareRests
  <1>8. ASSUME NEW S \in SUBSET Requests, Crash(S) PROVE ShareParts'
    <2>1. /\ UNCHANGED <<seen, fills>>
          /\ \A x \in Requests \cup Checkers : hpc'[x] = IF x \in S THEN "end" ELSE hpc[x]
          /\ \A r \in Requests : rpc'[r] = IF r \in S /\ rpc[r] # "open" THEN "end" ELSE rpc[r]
      BY <1>8 DEF Crash
    <2>2. \A r \in Requests : Holds(r)' => Holds(r)
      BY <2>1 DEF Holds
    <2>3. \A r \in Requests : hpc'[r] \in Before => hpc[r] \in Before
      BY <2>1 DEF Before
    <2>4. OneOwner'
      BY <1>2, <2>1 DEF OneOwner, Before
    <2>5. /\ \A x \in Requests \cup Checkers :
               /\ hpc'[x] = "reserve" => redis.hash # NoHash \/ seen'[x].reserved = 0
               /\ hpc'[x] \in {"fill", "refill", "retry"} => seen'[x].reserved = 0
          /\ \A c \in fills' : seen'[c].reserved = 0 /\ hpc'[c] = "end"
      BY <1>1, <1>3, <2>1
    <2> QED
      BY <1>4, <2>2, <2>3, <2>4, <2>5, ShareRests
  <1> QED
    BY <1>6, <1>7, <1>8

\* A step of Redis.
LEMMA ShareMoves ==
  ASSUME NoneDoubled, TypeOK, ShareParts, Next,
         \/ \E r \in Requests : \/ Fill(r) \/ Refill(r) \/ TryReserve(r) \/ RetryReserve(r) \/ ReserveReplyLost(r)
                                \/ Release(r) \/ RecordSettles(r) \/ RecordUnwinds(r) \/ DoAdd(r) \/ KeyExpires(r)
         \/ \E c \in Checkers : DoFill(c)
         \/ HashLost
  PROVE  ShareParts'
  <1>0. redis \in RedisStates /\ redis' \in RedisStates /\ 0 \in Nat
    BY TypeMeans, RedisTyped
  <1>1. /\ hpc \in [Requests \cup Checkers -> HandlerStates]
        /\ seen \in [Requests \cup Checkers -> Hashes]
        /\ rpc \in [Requests -> RecordStates]
        /\ fills \subseteq Checkers
    BY DEF TypeOK
  <1>2. /\ \A r \in Requests : hpc[r] \in Before \cup {"forward"} => rpc[r] = "none"
        /\ \A r \in Requests : r \in Passed /\ rpc[r] # "none" => hpc[r] = "end"
    BY DEF ShareParts, OneOwner
  <1>3. /\ \A x \in Requests \cup Checkers :
             /\ hpc[x] = "reserve" => redis.hash # NoHash \/ seen[x].reserved = 0
             /\ hpc[x] \in {"fill", "refill", "retry"} => seen[x].reserved = 0
        /\ \A c \in fills : seen[c].reserved = 0 /\ hpc[c] = "end"
    BY DEF ShareParts, NeverStale
  <1>4. Requests \cap Checkers = {} /\ \A r \in Requests : Reserve[r] \in Nat /\ Actual[r] \in Nat
    BY ReservationAssumption
  <1>5. \A r \in Requests : /\ Holds(r) => redis.share[r] = Reserve[r]
                            /\ redis.rkey[r] \in {0, Reserve[r]} /\ redis.share[r] \in {0, Reserve[r]}
    BY DEF ShareParts, HeldInFull
  <1>6. ~ Fault("hash")
    BY DEF NoneDoubled, Fault
  <1>7. ASSUME NEW x \in Requests \cup Checkers, Fill(x) \/ Refill(x) \/ (x \in Checkers /\ DoFill(x))
        PROVE  ShareParts'
    <2>1. /\ Sets(seen[x])
          /\ seen[x] \in Hashes /\ seen[x].reserved = 0
          /\ UNCHANGED <<seen, rpc>> /\ fills' \subseteq fills
          /\ \A y \in Requests \cup Checkers :
               hpc'[y] = IF y # x THEN hpc[y]
                         ELSE IF hpc[x] = "fill" THEN "reserve"
                         ELSE IF hpc[x] = "refill" THEN "retry" ELSE hpc[x]
      BY <1>1, <1>3, <1>4, <1>7 DEF Fill, Refill, DoFill, Goto
    <2>2. /\ redis'.rkey = redis.rkey /\ redis'.share = redis.share
          /\ UNCHANGED redis \/ redis' = AfterSet(redis, seen[x])
      BY <2>1, SetsMeans
    <2>3. /\ redis'.hash = NoHash => redis.hash = NoHash
          /\ redis'.hash # NoHash => redis'.hash.reserved = Total(redis'.share)
      <3>1. CASE UNCHANGED redis
        BY <3>1 DEF ShareParts, SharesAddUp
      <3>2. CASE redis' = AfterSet(redis, seen[x])
        <4>1. redis'.hash.reserved = IF redis.hash = NoHash THEN 0 ELSE redis.hash.reserved
          BY <1>0, <2>1, <3>2, SetScript
        <4>2. redis'.hash # NoHash
          BY <1>0, <2>1, <3>2, SetScript, ReservationAssumption
        <4>3. CASE redis.hash = NoHash
          <5>1. \A r \in Requests : redis.share[r] = 0
            BY <4>3 DEF ShareParts, NeverStale
          <5>2. Total(redis.share) = 0
            BY <1>0, <5>1, FinitelyMany, TotalOfNothing
          <5> QED
            BY <2>2, <4>1, <4>2, <4>3, <5>2
        <4>4. CASE redis.hash # NoHash
          BY <2>2, <4>1, <4>2, <4>4 DEF ShareParts, SharesAddUp
        <4> QED
          BY <4>3, <4>4
      <3> QED
        BY <2>2, <3>1, <3>2
    <2>5. \A r \in Requests : Holds(r)' => redis'.share[r] = Reserve[r]
      BY <1>5, <2>1, <2>2 DEF Holds
    <2>6. \A r \in Requests : hpc'[r] \in Before => hpc[r] \in Before
      BY <2>1 DEF Before
    <2>7. OneOwner'
      BY <1>2, <2>1 DEF OneOwner, Before
    <2>8. /\ \A y \in Requests \cup Checkers :
               /\ hpc'[y] = "reserve" => redis'.hash # NoHash \/ seen'[y].reserved = 0
               /\ hpc'[y] \in {"fill", "refill", "retry"} => seen'[y].reserved = 0
          /\ \A c \in fills' : seen'[c].reserved = 0 /\ hpc'[c] = "end"
      BY <1>1, <1>3, <2>1, <2>3
    <2> QED
      BY <1>5, <2>2, <2>3, <2>5, <2>6, <2>7, <2>8, ShareFrame
  <1>8. ASSUME NEW r \in Requests, TryReserve(r) \/ RetryReserve(r) \/ ReserveReplyLost(r)
        PROVE  ShareParts'
    <2>1. hpc[r] \in {"reserve", "retry"} /\ UNCHANGED <<seen, rpc, fills>>
      BY <1>8 DEF TryReserve, RetryReserve, ReserveReplyLost
    <2>2. PICK t : t = AfterReserve(redis, r)
      OBVIOUS
    <2>3. /\ t.hash = NoHash <=> redis.hash = NoHash
          /\ t.hash # NoHash => t.hash.reserved = Total(t.share)
          /\ \A x \in Requests \ {r} : t.share[x] = redis.share[x] /\ t.rkey[x] = redis.rkey[x]
          /\ t.rkey[r] \in {0, Reserve[r]} /\ t.share[r] \in {0, Reserve[r]}
          /\ ReserveCode(redis, r) \in {-1, 0, 1}
          /\ ReserveCode(redis, r) = 0 <=> redis.hash = NoHash
          /\ ReserveCode(redis, r) # 1 => t = redis
          /\ ReserveCode(redis, r) = 1 => t.share[r] = Reserve[r]
      BY <2>1, <2>2, ShareReserves
    <2>4. PICK l \in {"end", "forward", "refill"} :
             /\ hpc' = [hpc EXCEPT ![r] = l]
             /\ redis' = t \/ (redis' = redis /\ l = "end")
             /\ l = "forward" => ReserveCode(redis, r) = 1
             /\ l = "refill" => ReserveCode(redis, r) = 0 /\ hpc[r] = "reserve"
      <3>1. CASE TryReserve(r)
        <4>1. ReserveCall(r, "refill") /\ hpc[r] = "reserve"
          BY <3>1 DEF TryReserve
        <4>2. /\ redis' = t
              /\ hpc' = [hpc EXCEPT ![r] = CASE ReserveCode(redis, r) \in {1, 2} -> "forward"
                                             [] ReserveCode(redis, r) = 0 -> "refill"
                                             [] OTHER -> "end"]
          BY <2>2, <4>1, CalledOnce
        <4>3. CASE ReserveCode(redis, r) = 1
          <5>1. hpc' = [hpc EXCEPT ![r] = "forward"]
            BY <4>2, <4>3
          <5> QED
            BY <4>2, <4>3, <5>1
        <4>4. CASE ReserveCode(redis, r) = 0
          <5>1. hpc' = [hpc EXCEPT ![r] = "refill"]
            BY <4>2, <4>4
          <5> QED
            BY <4>1, <4>2, <4>4, <5>1
        <4>5. CASE ReserveCode(redis, r) = -1
          <5>1. hpc' = [hpc EXCEPT ![r] = "end"]
            BY <4>2, <4>5
          <5> QED
            BY <4>2, <5>1
        <4> QED
          BY <2>3, <4>3, <4>4, <4>5
      <3>2. CASE RetryReserve(r)
        <4>1. ReserveCall(r, "end")
          BY <3>2 DEF RetryReserve
        <4>2. /\ redis' = t
              /\ hpc' = [hpc EXCEPT ![r] = CASE ReserveCode(redis, r) \in {1, 2} -> "forward"
                                             [] ReserveCode(redis, r) = 0 -> "end"
                                             [] OTHER -> "end"]
          BY <2>2, <4>1, CalledOnce
        <4>3. CASE ReserveCode(redis, r) = 1
          <5>1. hpc' = [hpc EXCEPT ![r] = "forward"]
            BY <4>2, <4>3
          <5> QED
            BY <4>2, <4>3, <5>1
        <4>4. CASE ReserveCode(redis, r) # 1
          <5>1. hpc' = [hpc EXCEPT ![r] = "end"]
            <6>1. CASE ReserveCode(redis, r) = 0
              BY <4>2, <6>1
            <6>2. CASE ReserveCode(redis, r) = -1
              BY <4>2, <6>2
            <6> QED
              BY <2>3, <4>4, <6>1, <6>2
          <5> QED
            BY <4>2, <5>1
        <4> QED
          BY <4>3, <4>4
      <3>3. CASE ReserveReplyLost(r)
        BY <2>2, <3>3 DEF ReserveReplyLost, Goto
      <3> QED
        BY <1>8, <3>1, <3>2, <3>3
    <2>h. \A y \in Requests \cup Checkers : hpc'[y] = IF y = r THEN l ELSE hpc[y]
      BY <1>1, <2>4
    <2>t. /\ redis'.hash = NoHash <=> redis.hash = NoHash
          /\ redis'.hash # NoHash => redis'.hash.reserved = Total(redis'.share)
          /\ \A x \in Requests \ {r} : redis'.share[x] = redis.share[x] /\ redis'.rkey[x] = redis.rkey[x]
          /\ redis'.rkey[r] \in {0, Reserve[r]} /\ redis'.share[r] \in {0, Reserve[r]}
          /\ ReserveCode(redis, r) # 1 => redis' = redis
          /\ l = "forward" => redis'.share[r] = Reserve[r]
      BY <1>5, <2>3, <2>4 DEF ShareParts, SharesAddUp
    <2>5. rpc[r] = "none" /\ hpc[r] \in Before
      BY <1>2, <2>1 DEF Before
    <2>6. \A q \in Requests : Holds(q)' => redis'.share[q] = Reserve[q]
      BY <1>5, <2>1, <2>h, <2>t, <2>5 DEF Holds
    <2>7. \A q \in Requests : hpc'[q] \in Before =>
             hpc[q] \in Before /\ redis'.share[q] = redis.share[q] /\ redis'.rkey[q] = redis.rkey[q]
      BY <2>4, <2>h, <2>t, <2>5 DEF Before
    <2>8. OneOwner'
      BY <1>2, <2>1, <2>h, <2>5 DEF OneOwner, Before
    <2>9. /\ \A y \in Requests \cup Checkers :
               /\ hpc'[y] = "reserve" => redis'.hash # NoHash \/ seen'[y].reserved = 0
               /\ hpc'[y] \in {"fill", "refill", "retry"} => seen'[y].reserved = 0
          /\ \A c \in fills' : seen'[c].reserved = 0 /\ hpc'[c] = "end"
      BY <1>1, <1>3, <1>4, <2>1, <2>3, <2>4, <2>h, <2>t
    <2>10. redis'.hash = NoHash => \A q \in Requests : redis'.share[q] = redis.share[q]
      BY <2>3, <2>t
    <2> QED
      BY <2>t, <1>5, <2>6, <2>7, <2>8, <2>9, <2>10, ShareFrame
  <1>9. ASSUME NEW r \in Requests, Release(r) PROVE ShareParts'
    <2>1. /\ redis' = ReleaseScript(redis, r) \/ redis' = redis
          /\ hpc[r] = "release"
          /\ UNCHANGED <<seen, rpc, fills>>
          /\ \A y \in Requests \cup Checkers : hpc'[y] = IF y = r THEN "end" ELSE hpc[y]
      BY <1>1, <1>9, AsIfOnce DEF Release, Goto
    <2>2. /\ redis'.hash # NoHash
          /\ redis'.hash.reserved = Total(redis'.share)
          /\ \A x \in Requests \ {r} : redis'.share[x] = redis.share[x] /\ redis'.rkey[x] = redis.rkey[x]
          /\ redis'.rkey[r] \in {0, Reserve[r]} /\ redis'.share[r] \in {0, Reserve[r]}
      <3>1. redis.hash # NoHash /\ redis.hash.reserved = Total(redis.share)
        <4>1. redis.share[r] = Reserve[r] /\ Reserve[r] > 0
          BY <2>1, ReservationAssumption DEF ShareParts, HeldInFull, Holds
        <4> QED
          BY <1>4, <4>1 DEF ShareParts, NeverStale, SharesAddUp
      <3>2. CASE redis' = redis
        BY <1>5, <3>1, <3>2
      <3>3. CASE redis' = ReleaseScript(redis, r)
        BY <2>1, <3>3, ShareReleases
      <3> QED
        BY <2>1, <3>2, <3>3
    <2>3. \A q \in Requests : Holds(q)' => redis'.share[q] = Reserve[q]
      BY <1>2, <1>5, <2>1, <2>2 DEF Holds
    <2>4. \A q \in Requests : hpc'[q] \in Before => q # r /\ hpc[q] \in Before
      BY <2>1 DEF Before
    <2>5. OneOwner'
      BY <1>2, <2>1 DEF OneOwner, Before
    <2>6. /\ \A y \in Requests \cup Checkers :
               /\ hpc'[y] = "reserve" => redis'.hash # NoHash \/ seen'[y].reserved = 0
               /\ hpc'[y] \in {"fill", "refill", "retry"} => seen'[y].reserved = 0
          /\ \A c \in fills' : seen'[c].reserved = 0 /\ hpc'[c] = "end"
      BY <1>1, <1>3, <1>4, <2>1, <2>2
    <2> QED
      BY <1>5, <2>2, <2>3, <2>4, <2>5, <2>6, ShareFrame
  <1>10. ASSUME NEW r \in Requests, RecordSettles(r) \/ RecordUnwinds(r) PROVE ShareParts'
    <2>1. /\ redis' = redis \/ \E a \in Nat : redis' = RecordScript(redis, r, a)
          /\ rpc[r] \in {"charged", "unwind", "unaware"}
          /\ UNCHANGED <<hpc, seen, fills>>
          /\ \E l \in {"open", "end"} : rpc' = [rpc EXCEPT ![r] = l]
      BY <1>0, <1>4, <1>10, AsIfOnce DEF RecordSettles, RecordUnwinds, RGoto, Left
    <2>2. PICK l \in {"open", "end"} : \A y \in Requests : rpc'[y] = IF y = r THEN l ELSE rpc[y]
      BY <1>1, <2>1
    <2>3. /\ redis'.hash = NoHash <=> redis.hash = NoHash
          /\ redis'.hash # NoHash => redis'.hash.reserved = Total(redis'.share)
          /\ \A x \in Requests \ {r} : redis'.share[x] = redis.share[x]
          /\ \A x \in Requests : redis'.rkey[x] = redis.rkey[x]
          /\ redis'.share[r] \in {0, redis.share[r]}
      BY <2>1, ShareRecords DEF ShareParts, SharesAddUp
    <2>4. redis.hash = NoHash => \A x \in Requests : redis'.share[x] = redis.share[x]
      BY <2>3 DEF ShareParts, NeverStale
    <2>5. hpc[r] \notin Before \cup {"forward"}
      BY <1>2, <2>1
    <2>6. \A q \in Requests : Holds(q)' => redis'.share[q] = Reserve[q]
      <3>1. ASSUME NEW q \in Requests, q # r, Holds(q)' PROVE redis'.share[q] = Reserve[q]
        BY <1>5, <2>1, <2>2, <2>3, <3>1 DEF Holds
      <3>2. ASSUME Holds(r)' PROVE redis'.share[r] = Reserve[r]
        <4>1. hpc[r] = "release" /\ r \notin Passed
          BY <1>2, <2>1, <2>2, <2>5, <3>2 DEF Holds
        <4>2. redis' = redis
          BY <2>1, <4>1 DEF RecordScript
        <4> QED
          BY <1>5, <4>1, <4>2 DEF Holds
      <3> QED
        BY <3>1, <3>2
    <2>7. \A q \in Requests : hpc'[q] \in Before => q # r /\ hpc[q] \in Before
      BY <2>1, <2>5
    <2>8. OneOwner'
      BY <1>2, <2>1, <2>2, <2>5 DEF OneOwner
    <2>9. /\ \A y \in Requests \cup Checkers :
               /\ hpc'[y] = "reserve" => redis'.hash # NoHash \/ seen'[y].reserved = 0
               /\ hpc'[y] \in {"fill", "refill", "retry"} => seen'[y].reserved = 0
          /\ \A c \in fills' : seen'[c].reserved = 0 /\ hpc'[c] = "end"
      BY <1>3, <2>1, <2>3
    <2> QED
      BY <1>5, <2>3, <2>4, <2>6, <2>7, <2>8, <2>9, ShareFrame
  <1>11. ASSUME NEW r \in Requests, DoAdd(r) PROVE ShareParts'
    <2>1. /\ UNCHANGED <<hpc, seen, rpc, fills>>
          /\ redis' = redis \/ redis' = AfterUpdate(redis, r) \/ redis' = AfterUpdate(AfterUpdate(redis, r), r)
      BY <1>11, AsIfOnce DEF DoAdd
    <2>2. /\ redis.hash = NoHash => redis' = redis
          /\ redis.hash # NoHash => redis'.hash \in Hashes /\ redis'.hash.reserved = redis.hash.reserved
          /\ redis'.share = redis.share /\ redis'.rkey = redis.rkey
      <3>0. redis.hash # NoHash => redis.hash \in Hashes
        BY <1>0 DEF RedisStates
      <3>1. PICK once : once = AfterUpdate(redis, r)
        OBVIOUS
      <3>2. /\ once \in RedisStates
            /\ redis.hash = NoHash => once = redis
            /\ redis.hash # NoHash => once.hash \in Hashes /\ once.hash.reserved = redis.hash.reserved
            /\ once.share = redis.share /\ once.rkey = redis.rkey
        BY <1>0, <3>1, UpdateScript
      <3>3. redis.hash # NoHash => once.hash # NoHash
        BY <3>2, ReservationAssumption
      <3>4. /\ once.hash = NoHash => AfterUpdate(once, r) = once
            /\ once.hash # NoHash => /\ AfterUpdate(once, r).hash \in Hashes
                                     /\ AfterUpdate(once, r).hash.reserved = once.hash.reserved
            /\ AfterUpdate(once, r).share = once.share /\ AfterUpdate(once, r).rkey = once.rkey
        BY <3>2, UpdateScript
      <3> QED
        BY <2>1, <3>0, <3>1, <3>2, <3>3, <3>4
    <2>3. redis'.hash = NoHash <=> redis.hash = NoHash
      BY <2>2, ReservationAssumption
    <2>4. OneOwner' /\ \A q \in Requests : Holds(q)' => Holds(q)
      BY <1>2, <2>1 DEF OneOwner, Holds
    <2> QED
      BY <1>3, <2>1, <2>2, <2>3, <2>4, ShareRests
  <1>12. ASSUME NEW r \in Requests, KeyExpires(r) PROVE ShareParts'
    <2>1. redis' = [redis EXCEPT !.rkey[r] = 0] /\ redis.rkey[r] > 0 /\ UNCHANGED <<hpc, seen, rpc, fills>>
      BY <1>12 DEF KeyExpires
    <2>2. /\ redis'.hash = redis.hash /\ redis'.share = redis.share
          /\ \A q \in Requests : redis'.rkey[q] = IF q = r THEN 0 ELSE redis.rkey[q]
      BY <1>0, <2>1 DEF RedisStates
    <2>3. hpc[r] \notin Before
      BY <2>1 DEF ShareParts, HeldInFull
    <2>4. redis'.hash # NoHash => redis'.hash.reserved = Total(redis'.share)
      BY <2>2 DEF ShareParts, SharesAddUp
    <2>5. OneOwner' /\ \A q \in Requests : Holds(q)' => redis'.share[q] = Reserve[q]
      BY <1>2, <1>5, <2>1, <2>2 DEF OneOwner, Holds
    <2>6. \A q \in Requests : hpc'[q] \in Before => q # r /\ hpc[q] \in Before
      BY <2>1, <2>3
    <2> QED
      BY <1>3, <1>5, <2>1, <2>2, <2>4, <2>5, <2>6, ShareFrame
  <1>13. ~ HashLost
    BY <1>6 DEF HashLost
  <1> QED
    BY <1>7, <1>8, <1>9, <1>10, <1>11, <1>12, <1>13

LEMMA ShareStep ==
  ASSUME NoneDoubled, TypeOK, ShareParts, [Next]_vars
  PROVE  ShareParts'
  <1>1. CASE UNCHANGED vars
    BY <1>1 DEF vars, ShareParts, HeldInFull, OneOwner, NeverStale, SharesAddUp, Holds
  <1>2. CASE Next
    <2>1. ASSUME UNCHANGED redis,
                 \/ \E x \in Requests \cup Checkers : StatusHit(x) \/ StatusMiss(x) \/ Load(x) \/ QueueFill(x)
                 \/ \E r \in Requests : \/ ForwardFails(r) \/ ForwardSucceeds(r) \/ Charge(r) \/ ChargeFails(r)
                                        \/ RecordDeadline(r) \/ Replay(r)
                 \/ \E S \in SUBSET Requests : Crash(S)
          PROVE  ShareParts'
      BY <2>1, ShareQuiet
    <2>2. ASSUME \/ \E r \in Requests : \/ Fill(r) \/ Refill(r) \/ TryReserve(r) \/ RetryReserve(r) \/ ReserveReplyLost(r)
                                        \/ Release(r) \/ RecordSettles(r) \/ RecordUnwinds(r) \/ DoAdd(r) \/ KeyExpires(r)
                 \/ \E c \in Checkers : DoFill(c)
                 \/ HashLost
          PROVE  ShareParts'
      BY <1>2, <2>2, ShareMoves
    <2>3. ASSUME NEW x \in Requests \cup Checkers, StatusHit(x) \/ StatusMiss(x) \/ Load(x) \/ QueueFill(x)
          PROVE  ShareParts'
      BY <2>1, <2>3 DEF StatusHit, StatusMiss, Load, QueueFill
    <2>4. ASSUME NEW r \in Requests,
                 \/ ForwardFails(r) \/ ForwardSucceeds(r) \/ Charge(r) \/ ChargeFails(r)
                 \/ RecordDeadline(r) \/ Replay(r)
          PROVE  ShareParts'
      BY <2>1, <2>4 DEF ForwardFails, ForwardSucceeds, Charge, ChargeFails, RecordDeadline, Replay
    <2>5. ASSUME NEW S \in SUBSET Requests, Crash(S) PROVE ShareParts'
      BY <2>1, <2>5 DEF Crash
    <2>6. CASE \E r \in Requests : HandlerStep(r) \/ RecordStep(r) \/ Replay(r) \/ DoAdd(r)
      BY <2>2, <2>3, <2>4, <2>6 DEF HandlerStep, RecordStep
    <2>7. CASE \E c \in Checkers : CheckerStep(c) \/ DoFill(c)
      BY <2>2, <2>3, <2>7 DEF CheckerStep
    <2>8. CASE Environment
      BY <2>2, <2>4, <2>5, <2>8 DEF Environment
    <2> QED
      BY <1>2, <2>6, <2>7, <2>8 DEF Next
  <1> QED
    BY <1>1, <1>2

LEMMA ShareInit == Init => ShareParts
  <1> SUFFICES ASSUME Init PROVE ShareParts
    OBVIOUS
  <1>1. redis \in RedisStates
    BY InitTyped, TypeMeans
  <1>2. \A r \in Requests : redis.share[r] = 0 /\ redis.rkey[r] = 0
    BY DEF Init
  <1>3. Total(redis.share) = 0
    BY <1>1, <1>2, FinitelyMany, TotalOfNothing
  <1>4. redis.hash # NoHash => redis.hash.reserved = 0
    BY DEF Init, InLedger
  <1>5. HeldInFull /\ OneOwner
    BY <1>2 DEF Init, HeldInFull, OneOwner, Holds, Before
  <1>6. NeverStale
    BY <1>2 DEF Init, NeverStale
  <1> QED
    BY <1>3, <1>4, <1>5, <1>6 DEF ShareParts, SharesAddUp

\* As long as the hash is not lost, and no script runs twice but by key, the hash
\* has reserved exactly what requests hold, whatever expires, times out, fails or
\* dies in between: no finalisation gives back the quota of another request
\* (reserveSubUsageScript, finalizeSubUsageScript and their by-key forms).
THEOREM SharesCorrect ==
  ASSUME NoneDoubled
  PROVE  Spec => []SharesAddUp
  <1>1. ShareParts => SharesAddUp
    BY DEF ShareParts
  <1>2. TypeOK /\ ShareParts /\ [Next]_vars => ShareParts'
    BY ShareStep
  <1> QED
    BY <1>1, <1>2, ShareInit, TypeCorrect, PTL DEF Spec

-----------------------------------------------------------------------------
(* Nothing stays reserved *)

\* The database may fail, a commit may be misreported, and a script may be repeated
\* that goes by key; nothing else happens.
OnlyDatabaseFails ==
  /\ Faults \subseteq {"database", "commit", "again"}
  /\ "again" \in Faults => Requests \subseteq Keyed \ Passed

\* Who has nothing to give back has nothing reserved, and a handler that will give
\* back by key finds its key.
GivenBackInv ==
  \A r \in Requests :
    /\ ~ Holds(r) => redis.share[r] = 0
    /\ r \in Keyed /\ hpc[r] \in {"forward", "release"} => redis.rkey[r] = Reserve[r]

\* What the hash has reserved is exactly what those hold who are still to give it
\* back: the handler that forwards or releases, or the RecordUsage it was handed to.
ReservedIsHeld ==
  redis.hash # NoHash =>
    redis.hash.reserved = Total([r \in Requests |-> IF Holds(r) THEN Reserve[r] ELSE 0])

LEMMA OnlyTheseFaults ==
  ASSUME OnlyDatabaseFails
  PROVE  NoneDoubled /\ \A kind \in FaultKinds \ {"database", "commit", "again"} : ~ Fault(kind)
  BY DEF OnlyDatabaseFails, NoneDoubled, Fault

\* A step that leaves shares and keys alone, and everybody with what he holds.
LEMMA GivenBackFrame ==
  ASSUME GivenBackInv,
         \A r \in Requests : redis'.share[r] = redis.share[r] /\ redis'.rkey[r] = redis.rkey[r],
         \A r \in Requests : Holds(r) => Holds(r)',
         \A r \in Requests : hpc'[r] \in {"forward", "release"} => hpc[r] \in {"forward", "release"}
  PROVE  GivenBackInv'
  BY DEF GivenBackInv

LEMMA GivenBackQuiet ==
  ASSUME OnlyDatabaseFails, TypeOK, ShareParts, GivenBackInv, UNCHANGED redis,
         \/ \E x \in Requests \cup Checkers : StatusHit(x) \/ StatusMiss(x) \/ Load(x) \/ QueueFill(x)
         \/ \E r \in Requests : \/ ForwardFails(r) \/ ForwardSucceeds(r) \/ Charge(r) \/ ChargeFails(r)
                                \/ RecordDeadline(r) \/ Replay(r)
         \/ \E S \in SUBSET Requests : Crash(S)
  PROVE  GivenBackInv'
  <1>1. /\ hpc \in [Requests \cup Checkers -> HandlerStates]
        /\ rpc \in [Requests -> RecordStates]
    BY DEF TypeOK
  <1>2. \A r \in Requests : /\ hpc[r] \in {"status", "load", "fill", "forward"} => rpc[r] = "none"
                            /\ r \in Passed /\ rpc[r] # "none" => hpc[r] = "end"
    BY DEF ShareParts, OneOwner, Before
  <1>3. /\ \A r \in Requests : Holds(r) => Holds(r)'
        /\ \A r \in Requests : hpc'[r] \in {"forward", "release"} => hpc[r] \in {"forward", "release"}
    <2>1. ASSUME NEW x \in Requests \cup Checkers, StatusHit(x) \/ StatusMiss(x) \/ Load(x) \/ QueueFill(x)
          PROVE  <1>3
      <3>1. /\ rpc' = rpc /\ hpc[x] \in {"status", "load", "fill"}
            /\ \E l \in {"load", "fill", "reserve", "end"} : hpc' = [hpc EXCEPT ![x] = l]
        BY <2>1 DEF StatusHit, StatusMiss, Load, QueueFill, Goto
      <3> QED
        BY <1>1, <3>1 DEF Holds
    <2>2. ASSUME NEW r \in Requests, ForwardFails(r) \/ ForwardSucceeds(r) PROVE <1>3
      <3>1. /\ hpc[r] = "forward"
            /\ \/ rpc' = rpc /\ hpc' = [hpc EXCEPT ![r] = "release"]
               \/ /\ rpc' = [rpc EXCEPT ![r] = "billing"]
                  /\ hpc' = [hpc EXCEPT ![r] = IF r \in Passed THEN "end" ELSE "release"]
        BY <2>2 DEF ForwardFails, ForwardSucceeds, Goto, RGoto
      <3> QED
        BY <1>1, <3>1 DEF Holds
    <2>3. ASSUME NEW r \in Requests, Charge(r) \/ ChargeFails(r) \/ Replay(r) PROVE <1>3
      <3>1. /\ hpc' = hpc
            /\ \/ rpc[r] = "billing" /\ \E l \in {"charged", "unaware", "unwind"} : rpc' = [rpc EXCEPT ![r] = l]
               \/ rpc[r] = "open" /\ rpc' = [rpc EXCEPT ![r] = "end"]
        BY <2>3 DEF Charge, ChargeFails, Replay, RGoto
      <3> QED
        BY <1>1, <3>1 DEF Holds
    <2>4. /\ \A r \in Requests : ~ RecordDeadline(r)
          /\ \A S \in SUBSET Requests : ~ Crash(S)
      BY OnlyTheseFaults DEF RecordDeadline, Crash, FaultKinds
    <2> QED
      BY <2>1, <2>2, <2>3, <2>4
  <1> QED
    BY <1>3, GivenBackFrame

LEMMA GivenBackMoves ==
  ASSUME OnlyDatabaseFails, TypeOK, ShareParts, GivenBackInv,
         \/ \E r \in Requests : \/ Fill(r) \/ Refill(r) \/ TryReserve(r) \/ RetryReserve(r) \/ ReserveReplyLost(r)
                                \/ Release(r) \/ RecordSettles(r) \/ RecordUnwinds(r) \/ DoAdd(r) \/ KeyExpires(r)
         \/ \E c \in Checkers : DoFill(c)
         \/ HashLost
  PROVE  GivenBackInv'
  <1>0. redis \in RedisStates /\ 0 \in Nat
    BY TypeMeans
  <1>1. /\ hpc \in [Requests \cup Checkers -> HandlerStates]
        /\ seen \in [Requests \cup Checkers -> Hashes]
        /\ rpc \in [Requests -> RecordStates]
        /\ fills \subseteq Checkers
    BY DEF TypeOK
  <1>2. /\ \A r \in Requests : hpc[r] \in Before \cup {"forward"} => rpc[r] = "none"
        /\ \A r \in Requests : r \in Passed /\ rpc[r] # "none" => hpc[r] = "end"
    BY DEF ShareParts, OneOwner
  <1>3. \A r \in Requests : Reserve[r] \in Nat /\ Reserve[r] > 0 /\ Actual[r] \in Nat
    BY ReservationAssumption
  <1>4. /\ \A r \in Requests : ~ Holds(r) => redis.share[r] = 0
        /\ \A r \in Requests :
             r \in Keyed /\ hpc[r] \in {"forward", "release"} => redis.rkey[r] = Reserve[r]
    BY DEF GivenBackInv
  <1>5. NoneDoubled /\ ~ Fault("hash") /\ ~ Fault("reply") /\ ~ Fault("key") /\ ~ Fault("lost")
    BY OnlyTheseFaults DEF FaultKinds
  <1>6. ASSUME NEW x \in Requests \cup Checkers,
               (x \in Requests /\ (Fill(x) \/ Refill(x))) \/ (x \in Checkers /\ DoFill(x))
        PROVE  GivenBackInv'
    <2>1. /\ Sets(seen[x]) /\ seen[x] \in Hashes /\ rpc' = rpc
          /\ \/ hpc' = hpc
             \/ hpc[x] = "fill" /\ hpc' = [hpc EXCEPT ![x] = "reserve"]
             \/ hpc[x] = "refill" /\ hpc' = [hpc EXCEPT ![x] = "retry"]
      BY <1>1, <1>6 DEF Fill, Refill, DoFill, Goto
    <2>2. redis'.rkey = redis.rkey /\ redis'.share = redis.share
      BY <2>1, SetsMeans
    <2>3. /\ \A r \in Requests : Holds(r) => Holds(r)'
          /\ \A r \in Requests : hpc'[r] \in {"forward", "release"} => hpc[r] \in {"forward", "release"}
      BY <1>1, <2>1 DEF Holds
    <2> QED
      BY <2>2, <2>3, GivenBackFrame
  <1>7. ASSUME NEW r \in Requests, TryReserve(r) \/ RetryReserve(r) PROVE GivenBackInv'
    <2>0. PICK then \in {"refill", "end"} : ReserveCall(r, then)
      BY <1>7 DEF TryReserve, RetryReserve
    <2>1. /\ hpc[r] \in {"reserve", "retry"} /\ redis' = AfterReserve(redis, r) /\ rpc' = rpc
          /\ hpc' = [hpc EXCEPT ![r] = CASE ReserveCode(redis, r) \in {1, 2} -> "forward"
                                         [] ReserveCode(redis, r) = 0 -> then
                                         [] OTHER -> "end"]
      BY <1>5, <1>7, <2>0, CalledOnce DEF TryReserve, RetryReserve
    <2>2. redis.share[r] = 0 /\ redis.rkey[r] = 0 /\ ReserveCode(redis, r) \in {-1, 0, 1}
      BY <2>1, ShareReserves DEF ShareParts, HeldInFull, Before
    <2>3. CASE ReserveCode(redis, r) \in {-1, 0}
      <3>1. /\ redis' = redis
            /\ hpc' = [hpc EXCEPT ![r] = "end"] \/ hpc' = [hpc EXCEPT ![r] = then]
        <4>1. redis' = redis
          BY <1>0, <2>1, <2>3, ReserveScript
        <4>2. CASE ReserveCode(redis, r) = 0
          BY <2>1, <4>1, <4>2
        <4>3. CASE ReserveCode(redis, r) = -1
          BY <2>1, <4>1, <4>3
        <4> QED
          BY <2>3, <4>2, <4>3
      <3>2. /\ \A q \in Requests : Holds(q) => Holds(q)'
            /\ \A q \in Requests : hpc'[q] \in {"forward", "release"} => hpc[q] \in {"forward", "release"}
        BY <1>1, <1>2, <2>1, <3>1 DEF Holds, Before
      <3> QED
        BY <3>1, <3>2, GivenBackFrame
    <2>4. CASE ReserveCode(redis, r) = 1
      <3>1. hpc' = [hpc EXCEPT ![r] = "forward"]
        BY <2>1, <2>4
      <3>2. \A q \in Requests : hpc'[q] = IF q = r THEN "forward" ELSE hpc[q]
        BY <1>1, <3>1
      <3>3. /\ \A q \in Requests \ {r} : redis'.share[q] = redis.share[q] /\ redis'.rkey[q] = redis.rkey[q]
            /\ r \in Keyed => redis'.rkey[r] = Reserve[r]
        BY <1>0, <2>1, <2>4, ReserveScript
      <3> QED
        BY <1>4, <2>1, <3>2, <3>3 DEF GivenBackInv, Holds
    <2> QED
      BY <2>2, <2>3, <2>4
  <1>8. ASSUME NEW r \in Requests, Release(r) PROVE GivenBackInv'
    <2>1. /\ redis' = ReleaseScript(redis, r) /\ hpc[r] = "release" /\ rpc' = rpc
          /\ \A y \in Requests : hpc'[y] = IF y = r THEN "end" ELSE hpc[y]
      BY <1>1, <1>5, <1>8, AsIfOnce DEF Release, Goto
    <2>2. /\ redis.share[r] = Reserve[r] /\ redis.hash # NoHash
          /\ r \in Keyed => redis.rkey[r] = Reserve[r]
      <3>1. redis.share[r] = Reserve[r]
        BY <2>1 DEF ShareParts, HeldInFull, Holds
      <3>2. redis.hash # NoHash
        BY <1>3, <3>1 DEF ShareParts, NeverStale
      <3> QED
        BY <1>4, <2>1, <3>1, <3>2
    <2>3. Minus(redis.share[r], Reserve[r]) = 0
      BY <1>3, <2>2 DEF Minus
    <2>4. /\ redis'.share[r] = 0
          /\ \A x \in Requests \ {r} : redis'.share[x] = redis.share[x] /\ redis'.rkey[x] = redis.rkey[x]
      <3>1. CASE r \in Keyed
        <4>1. redis' = AfterFinalizeByKey(redis, r, 0) /\ redis.rkey[r] = Reserve[r] /\ redis.rkey[r] # 0
          BY <1>3, <2>1, <2>2, <3>1 DEF ReleaseScript
        <4> QED
          BY <1>0, <2>2, <2>3, <4>1, FinalizeByKeyScript
      <3>2. CASE r \notin Keyed
        <4>1. redis' = Settled(redis, r, Reserve[r], 0)
          BY <2>1, <2>2, <3>2 DEF ReleaseScript, AfterFinalize
        <4> QED
          BY <1>0, <1>3, <2>2, <2>3, <4>1, SettledScript
      <3> QED
        BY <3>1, <3>2
    <2> QED
      BY <1>4, <2>1, <2>4 DEF GivenBackInv, Holds
  <1>9. ASSUME NEW r \in Requests, RecordSettles(r) \/ RecordUnwinds(r) PROVE GivenBackInv'
    <2>1. /\ \E a \in Nat : redis' = RecordScript(redis, r, a)
          /\ rpc[r] \in {"charged", "unwind", "unaware"} /\ hpc' = hpc
          /\ \E l \in {"open", "end"} : rpc' = [rpc EXCEPT ![r] = l]
      BY <1>0, <1>3, <1>5, <1>9, AsIfOnce DEF RecordSettles, RecordUnwinds, RGoto, Left
    <2>2. \A y \in Requests \ {r} : rpc'[y] = rpc[y]
      BY <1>1, <2>1
    <2>3. CASE r \notin Passed
      <3>1. redis' = redis
        BY <2>1, <2>3 DEF RecordScript
      <3> QED
        BY <2>1, <2>2, <2>3, <3>1, GivenBackFrame DEF Holds
    <2>4. CASE r \in Passed
      <3>1. Holds(r)
        BY <2>1, <2>4 DEF Holds
      <3>2. PICK a \in Nat : redis' = RecordScript(redis, r, a)
        BY <2>1
      <3>3. redis.hash # NoHash
        BY <3>1, <3>2, ShareSettles
      <3>4. redis' = Settled(redis, r, Reserve[r], a)
        BY <2>4, <3>2, <3>3 DEF RecordScript, AfterFinalize
      <3>5. /\ \A x \in Requests : redis'.share[x] = IF x = r THEN 0 ELSE redis.share[x]
            /\ \A x \in Requests : redis'.rkey[x] = redis.rkey[x]
        BY <3>1, <3>4, ShareSettles
      <3> QED
        BY <1>4, <2>1, <2>2, <3>5 DEF GivenBackInv, Holds
    <2> QED
      BY <2>3, <2>4
  <1>10. ASSUME NEW r \in Requests, DoAdd(r) PROVE GivenBackInv'
    <2>1. /\ UNCHANGED <<hpc, rpc>>
          /\ redis' = redis \/ redis' = AfterUpdate(redis, r) \/ redis' = AfterUpdate(AfterUpdate(redis, r), r)
      BY <1>5, <1>10, AsIfOnce DEF DoAdd
    <2>2. redis'.share = redis.share /\ redis'.rkey = redis.rkey
      <3>1. PICK once : once = AfterUpdate(redis, r)
        OBVIOUS
      <3>2. once \in RedisStates /\ once.share = redis.share /\ once.rkey = redis.rkey
        BY <1>0, <3>1, UpdateScript
      <3>3. AfterUpdate(once, r).share = once.share /\ AfterUpdate(once, r).rkey = once.rkey
        BY <3>2, UpdateScript
      <3> QED
        BY <2>1, <3>1, <3>2, <3>3
    <2> QED
      BY <2>1, <2>2, GivenBackFrame DEF Holds
  <1>11. /\ ~ HashLost
         /\ \A r \in Requests : ~ ReserveReplyLost(r) /\ ~ KeyExpires(r)
    BY <1>5 DEF HashLost, ReserveReplyLost, KeyExpires
  <1> QED
    BY <1>6, <1>7, <1>8, <1>9, <1>10, <1>11

LEMMA GivenBackStep ==
  ASSUME OnlyDatabaseFails, TypeOK, ShareParts, GivenBackInv, [Next]_vars
  PROVE  GivenBackInv'
  <1>1. CASE UNCHANGED vars
    BY <1>1 DEF vars, GivenBackInv, Holds
  <1>2. ASSUME NEW x \in Requests \cup Checkers, StatusHit(x) \/ StatusMiss(x) \/ Load(x) \/ QueueFill(x)
        PROVE  GivenBackInv'
    <2>1. UNCHANGED redis
      BY <1>2 DEF StatusHit, StatusMiss, Load, QueueFill
    <2> QED
      BY <1>2, <2>1, GivenBackQuiet
  <1>3. ASSUME NEW r \in Requests,
               \/ ForwardFails(r) \/ ForwardSucceeds(r) \/ Charge(r) \/ ChargeFails(r)
               \/ RecordDeadline(r) \/ Replay(r)
        PROVE  GivenBackInv'
    <2>1. UNCHANGED redis
      BY <1>3 DEF ForwardFails, ForwardSucceeds, Charge, ChargeFails, RecordDeadline, Replay
    <2> QED
      BY <1>3, <2>1, GivenBackQuiet
  <1>4. ASSUME NEW S \in SUBSET Requests, Crash(S) PROVE GivenBackInv'
    <2>1. UNCHANGED redis
      BY <1>4 DEF Crash
    <2> QED
      BY <1>4, <2>1, GivenBackQuiet
  <1>5. CASE \E r \in Requests : HandlerStep(r) \/ RecordStep(r) \/ Replay(r) \/ DoAdd(r)
    BY <1>2, <1>3, <1>5, GivenBackMoves DEF HandlerStep, RecordStep
  <1>6. CASE \E c \in Checkers : CheckerStep(c) \/ DoFill(c)
    BY <1>2, <1>6, GivenBackMoves DEF CheckerStep
  <1>7. CASE Environment
    BY <1>3, <1>4, <1>7, GivenBackMoves DEF Environment
  <1> QED
    BY <1>1, <1>5, <1>6, <1>7 DEF Next

\* As long as only the database fails, and no script runs twice but by key, nothing
\* stays reserved once its request is over: every reservation is somebody's who will give it back, also when the
\* charge fails or its commit is misreported.  This is the safety that
\* ReservationIsReleased rests on (the deferred finalisations of the handler and
\* of RecordUsage).
THEOREM NothingStaysReserved ==
  ASSUME OnlyDatabaseFails
  PROVE  Spec => []ReservedIsHeld
  <1>1. Init => ShareParts /\ GivenBackInv
    <2>1. Init => GivenBackInv
      BY DEF Init, GivenBackInv
    <2> QED
      BY <2>1, ShareInit
  <1>2. TypeOK /\ ShareParts /\ GivenBackInv /\ [Next]_vars => ShareParts' /\ GivenBackInv'
    BY ShareStep, GivenBackStep, OnlyTheseFaults
  <1>3. TypeOK /\ ShareParts /\ GivenBackInv => ReservedIsHeld
    <2> SUFFICES ASSUME TypeOK, ShareParts, GivenBackInv, redis.hash # NoHash
                 PROVE  redis.hash.reserved = Total([r \in Requests |-> IF Holds(r) THEN Reserve[r] ELSE 0])
      BY DEF ReservedIsHeld
    <2>1. redis.share \in [Requests -> Nat]
      BY TypeMeans DEF RedisStates
    <2>2. \A r \in Requests : redis.share[r] = IF Holds(r) THEN Reserve[r] ELSE 0
      BY DEF ShareParts, HeldInFull, GivenBackInv
    <2>3. redis.share = [r \in Requests |-> IF Holds(r) THEN Reserve[r] ELSE 0]
      BY <2>1, <2>2
    <2> QED
      BY <2>3 DEF ShareParts, SharesAddUp
  <1> QED
    BY <1>1, <1>2, <1>3, TypeCorrect, PTL DEF Spec

-----------------------------------------------------------------------------
(* The cached usage *)

\* What the scripts do to the usage of a hash that is there.
LEMMA UsageOf ==
  ASSUME NEW s \in RedisStates, s.hash # NoHash, NEW r \in Requests, NEW actual \in Nat
  PROVE  /\ AfterReserve(s, r).hash \in Hashes
         /\ AfterReserve(s, r).hash.usage = s.hash.usage
         /\ ReleaseScript(s, r).hash \in Hashes
         /\ ReleaseScript(s, r).hash.usage = s.hash.usage
         /\ RecordScript(s, r, actual).hash \in Hashes
         /\ RecordScript(s, r, actual).hash.usage = IF r \in Passed THEN s.hash.usage + actual ELSE s.hash.usage
         /\ AfterUpdate(s, r).hash \in Hashes
         /\ AfterUpdate(s, r).hash.usage = s.hash.usage + Actual[r]
  <1>0. s.hash \in Hashes /\ s.hash.usage \in Nat /\ s.hash.usage + 0 = s.hash.usage /\ 0 \in Nat
    BY DEF RedisStates, Hashes
  <1>1. AfterReserve(s, r).hash \in Hashes /\ AfterReserve(s, r).hash.usage = s.hash.usage
    <2>1. CASE ReserveCode(s, r) = 1
      BY <2>1, ReserveScript
    <2>2. CASE ReserveCode(s, r) # 1
      BY <1>0, <2>2 DEF AfterReserve
    <2> QED
      BY <2>1, <2>2
  <1>2. ASSUME NEW n \in Nat, NEW a \in Nat
        PROVE  /\ Settled(s, r, n, a).hash \in Hashes
               /\ Settled(s, r, n, a).hash.usage = s.hash.usage + a
    BY SettledScript
  <1>3. Reserve[r] \in Nat
    BY ReservationAssumption
  <1>4. /\ AfterFinalize(s, r, actual) = Settled(s, r, Reserve[r], actual)
        /\ AfterFinalize(s, r, 0) = Settled(s, r, Reserve[r], 0)
    BY DEF AfterFinalize
  <1>5. RecordScript(s, r, actual) = IF r \in Passed THEN Settled(s, r, Reserve[r], actual) ELSE s
    BY <1>4 DEF RecordScript
  <1>6. /\ RecordScript(s, r, actual).hash \in Hashes
        /\ RecordScript(s, r, actual).hash.usage = IF r \in Passed THEN s.hash.usage + actual ELSE s.hash.usage
    <2>1. CASE r \in Passed
      BY <1>2, <1>3, <1>5, <2>1
    <2>2. CASE r \notin Passed
      BY <1>0, <1>5, <2>2
    <2> QED
      BY <2>1, <2>2
  <1>7. ReleaseScript(s, r).hash \in Hashes /\ ReleaseScript(s, r).hash.usage = s.hash.usage
    <2>1. CASE r \notin Keyed
      <3>1. ReleaseScript(s, r) = Settled(s, r, Reserve[r], 0)
        BY <1>4, <2>1 DEF ReleaseScript
      <3> QED
        BY <1>0, <1>2, <1>3, <3>1
    <2>2. CASE r \in Keyed
      <3>1. PICK t : t = AfterFinalizeByKey(s, r, 0)
        OBVIOUS
      <3>2. t.hash \in Hashes /\ t.hash.usage = s.hash.usage
        <4>1. CASE s.rkey[r] = 0
          <5>1. t = s
            BY <3>1, <4>1 DEF AfterFinalizeByKey
          <5> QED
            BY <1>0, <5>1
        <4>2. CASE s.rkey[r] # 0
          <5>1. t.hash \in Hashes /\ t.hash.usage = s.hash.usage + 0
            BY <1>0, <3>1, <4>2, FinalizeByKeyScript
          <5> QED
            BY <1>0, <5>1
        <4> QED
          BY <4>1, <4>2
      <3> QED
        BY <2>2, <3>1, <3>2 DEF ReleaseScript
    <2> QED
      BY <2>1, <2>2
  <1>8. AfterUpdate(s, r).hash \in Hashes /\ AfterUpdate(s, r).hash.usage = s.hash.usage + Actual[r]
    BY UpdateScript
  <1> QED
    BY <1>1, <1>6, <1>7, <1>8

\* A hash that is there stays, and is not filled on a reservation that finds none.
LEMMA PresentStep ==
  ASSUME NoLoss, TypeOK, ShareParts, Present, Next
  PROVE  Present'
  <1>0. redis \in RedisStates /\ redis.hash # NoHash /\ 0 \in Nat
    BY TypeMeans DEF Present
  <1>1. /\ hpc \in [Requests \cup Checkers -> HandlerStates]
        /\ \A x \in Requests \cup Checkers : hpc[x] \notin {"refill", "retry"}
    BY DEF TypeOK, Present
  <1>2. NoHash \notin Hashes /\ redis.hash \in Hashes /\ \A r \in Requests : Actual[r] \in Nat
    BY <1>0, ReservationAssumption DEF RedisStates
  <1>3. ~ Fault("hash") /\ ~ Fault("again") /\ NoneDoubled
    BY NothingLost
  <1>4. ASSUME redis'.hash # NoHash,
               UNCHANGED hpc \/ \E x : \E l \in HandlerStates \ {"refill", "retry"} : hpc' = [hpc EXCEPT ![x] = l]
        PROVE  Present'
    BY <1>1, <1>4 DEF Present
  <1>5. ASSUME NEW x \in Requests \cup Checkers,
               StatusHit(x) \/ StatusMiss(x) \/ Load(x) \/ QueueFill(x)
        PROVE  Present'
    <2>1. redis' = redis /\ \E l \in HandlerStates \ {"refill", "retry"} : hpc' = [hpc EXCEPT ![x] = l]
      BY <1>5 DEF StatusHit, StatusMiss, Load, QueueFill, Goto, HandlerStates
    <2> QED
      BY <1>0, <1>4, <2>1
  <1>6. ASSUME NEW x \in Requests \cup Checkers, Fill(x) \/ Refill(x) \/ DoFill(x)
        PROVE  Present'
    <2>1. Sets(seen[x]) /\ seen[x] \in Hashes
      BY <1>6 DEF Fill, Refill, DoFill, TypeOK
    <2>2. redis'.hash # NoHash
      BY <1>0, <2>1, SetsMeans
    <2>3. UNCHANGED hpc \/ hpc' = [hpc EXCEPT ![x] = "reserve"]
      BY <1>1, <1>6 DEF Fill, Refill, DoFill, Goto
    <2> QED
      BY <1>4, <2>2, <2>3 DEF HandlerStates
  <1>7. ASSUME NEW r \in Requests, TryReserve(r) \/ RetryReserve(r) \/ ReserveReplyLost(r)
        PROVE  Present'
    <2>1. /\ redis' \in {redis, AfterReserve(redis, r)}
          /\ \/ hpc' = [hpc EXCEPT ![r] = "end"]
             \/ hpc' = [hpc EXCEPT ![r] = CASE ReserveCode(redis, r) \in {1, 2} -> "forward"
                                            [] ReserveCode(redis, r) = 0 -> "refill"
                                            [] OTHER -> "end"]
      BY <1>1, <1>3, <1>7, CalledOnce DEF TryReserve, RetryReserve, ReserveReplyLost, Goto
    <2>2. ReserveCode(redis, r) # 0
      BY <1>0, ReserveCodes
    <2>3. \E l \in {"forward", "end"} : hpc' = [hpc EXCEPT ![r] = l]
      BY <2>1, <2>2
    <2>4. AfterReserve(redis, r).hash \in Hashes
      BY <1>0, UsageOf
    <2> QED
      BY <1>0, <1>2, <1>4, <2>1, <2>3, <2>4 DEF HandlerStates
  <1>8. ASSUME NEW r \in Requests, ForwardFails(r) \/ ForwardSucceeds(r) PROVE Present'
    <2>1. redis' = redis /\ \E l \in {"release", "end"} : hpc' = [hpc EXCEPT ![r] = l]
      BY <1>8 DEF ForwardFails, ForwardSucceeds, Goto
    <2> QED
      BY <1>0, <1>4, <2>1 DEF HandlerStates
  <1>9. ASSUME NEW r \in Requests, Release(r) PROVE Present'
    <2>1. redis'.hash # NoHash
      BY <1>0, <1>2, <1>3, <1>9, RunsOf, UsageOf
    <2> QED
      BY <1>4, <1>9, <2>1 DEF Release, Goto, HandlerStates
  <1>10. ASSUME NEW r \in Requests, RecordSettles(r) \/ RecordUnwinds(r) \/ DoAdd(r) PROVE Present'
    <2>1. redis'.hash # NoHash
      BY <1>0, <1>2, <1>3, <1>10, RunsOf, UsageOf
    <2>2. UNCHANGED hpc
      BY <1>10 DEF RecordSettles, RecordUnwinds, DoAdd
    <2> QED
      BY <1>4, <2>1, <2>2
  <1>11. ASSUME NEW r \in Requests, Charge(r) \/ Replay(r) \/ ChargeFails(r) \/ RecordDeadline(r)
         PROVE  Present'
    <2>1. UNCHANGED <<redis, hpc>>
      BY <1>11 DEF Charge, Replay, ChargeFails, RecordDeadline
    <2> QED
      BY <1>0, <1>4, <2>1
  <1>12. ASSUME NEW r \in Requests, KeyExpires(r) PROVE Present'
    <2>1. redis'.hash = redis.hash /\ UNCHANGED hpc
      BY <1>0, <1>12 DEF KeyExpires, RedisStates
    <2> QED
      BY <1>0, <1>4, <2>1
  <1>13. ASSUME NEW S \in SUBSET Requests, Crash(S) PROVE Present'
    BY <1>0, <1>1, <1>13 DEF Crash, Present
  <1>14. ~ HashLost
    BY <1>3 DEF HashLost
  <1>15. ASSUME NEW r \in Requests, HandlerStep(r) \/ RecordStep(r) \/ Replay(r) \/ DoAdd(r) PROVE Present'
    BY <1>5, <1>6, <1>7, <1>8, <1>9, <1>10, <1>11, <1>15 DEF HandlerStep, RecordStep
  <1>16. ASSUME NEW c \in Checkers, CheckerStep(c) \/ DoFill(c) PROVE Present'
    BY <1>5, <1>6, <1>16 DEF CheckerStep
  <1>17. ASSUME Environment PROVE Present'
    BY <1>7, <1>11, <1>12, <1>13, <1>14, <1>17 DEF Environment
  <1> QED
    BY <1>15, <1>16, <1>17 DEF Next

LEMMA PendingType ==
  ASSUME TypeOK
  PROVE  /\ Pending \in [Requests -> Nat]
         /\ Total(Pending) \in Nat
         /\ \A r \in Requests : Pending[r] = IF rpc[r] = "charged" \/ r \in adds THEN Actual[r] ELSE 0
  <1>1. Pending \in [Requests -> Nat]
    BY ReservationAssumption DEF Pending
  <1>2. Total(Pending) \in Nat
    BY <1>1, TotalType, ReservationAssumption
  <1> QED
    BY <1>1, <1>2 DEF Pending

\* A step that moves what is pending of one request.
LEMMA PendingMoves ==
  ASSUME TypeOK, TypeOK', NEW q \in Requests,
         \A x \in Requests : x # q => rpc'[x] = rpc[x] /\ (x \in adds' <=> x \in adds)
  PROVE  /\ Total(Pending') = Total(Pending) - Pending[q] + Pending'[q]
         /\ Pending[q] = IF rpc[q] = "charged" \/ q \in adds THEN Actual[q] ELSE 0
         /\ Pending'[q] = IF rpc'[q] = "charged" \/ q \in adds' THEN Actual[q] ELSE 0
         /\ Total(Pending) \in Nat
  <1>1. PICK f, g : f = Pending /\ g = Pending'
    OBVIOUS
  <1>2. /\ f \in [Requests -> Nat] /\ Total(f) \in Nat
        /\ \A r \in Requests : f[r] = IF rpc[r] = "charged" \/ r \in adds THEN Actual[r] ELSE 0
    BY <1>1, PendingType
  <1>3. /\ g \in [Requests -> Nat]
        /\ \A r \in Requests : g[r] = IF rpc'[r] = "charged" \/ r \in adds' THEN Actual[r] ELSE 0
    BY <1>1, ReservationAssumption DEF Pending
  <1>4. g[q] \in Nat /\ \A x \in Requests : x # q => g[x] = f[x]
    BY <1>2, <1>3
  <1>5. Total(g) = Total(f) - f[q] + g[q]
    BY <1>2, <1>3, <1>4, TotalDiffers, ReservationAssumption
  <1> QED
    BY <1>1, <1>2, <1>3, <1>5

LEMMA AheadStep ==
  ASSUME NoLoss, TypeOK, ShareParts, AheadInv, [Next]_vars
  PROVE  AheadInv'
  <1>1. CASE UNCHANGED vars
    BY <1>1 DEF vars, AheadInv, Present, Pending
  <1>2. CASE Next
    <2>0. /\ redis \in RedisStates /\ redis.hash # NoHash /\ redis.hash \in Hashes
          /\ redis.hash.usage \in Nat /\ used \in Nat /\ 0 \in Nat
          /\ rpc \in [Requests -> RecordStates] /\ adds \subseteq Requests
          /\ \A r \in Requests : Actual[r] \in Nat /\ Actual[r] > 0
      BY TypeMeans, ReservationAssumption DEF AheadInv, Present, RedisStates, TypeOK, Hashes
    <2>u. skew.up \in Nat
      BY DEF TypeOK
    <2>1. Present' /\ TypeOK'
      BY <1>2, PresentStep, StepTyped DEF AheadInv
    <2>2. ~ Fault("hash") /\ ~ Fault("again") /\ NoneDoubled
      BY NothingLost
    <2>3. redis.hash.usage + Total(Pending) <= used + skew.up /\ \A r \in adds : rpc[r] = "end"
      BY DEF AheadInv
    <2>5. ASSUME redis'.hash.usage = redis.hash.usage, UNCHANGED <<used, rpc, adds, skew>>
          PROVE  AheadInv'
      BY <2>1, <2>3, <2>5 DEF AheadInv, Pending
    <2>6. ASSUME NEW x \in Requests \cup Checkers,
                 StatusHit(x) \/ StatusMiss(x) \/ Load(x) \/ QueueFill(x) \/ ForwardFails(x)
          PROVE  AheadInv'
      BY <2>5, <2>6 DEF StatusHit, StatusMiss, Load, QueueFill, ForwardFails
    <2>7. ASSUME NEW r \in Requests,
                 \/ TryReserve(r) \/ RetryReserve(r) \/ ReserveReplyLost(r)
                 \/ Release(r) \/ KeyExpires(r)
          PROVE  AheadInv'
      <3>1. redis'.hash.usage = redis.hash.usage
        <4>1. CASE TryReserve(r) \/ RetryReserve(r) \/ ReserveReplyLost(r)
          <5>1. redis' \in {redis, AfterReserve(redis, r)}
            BY <2>2, <4>1, CalledOnce DEF TryReserve, RetryReserve, ReserveReplyLost
          <5> QED
            BY <2>0, <5>1, UsageOf
        <4>2. CASE Release(r)
          BY <2>0, <2>2, <4>2, RunsOf, UsageOf
        <4>3. CASE KeyExpires(r)
          BY <2>0, <4>3 DEF KeyExpires, RedisStates
        <4> QED
          BY <2>7, <4>1, <4>2, <4>3
      <3>2. UNCHANGED <<used, rpc, adds, skew>>
        BY <2>7 DEF TryReserve, RetryReserve, ReserveReplyLost, Release, KeyExpires
      <3> QED
        BY <2>5, <3>1, <3>2
    <2>8. ASSUME NEW q \in Requests,
                 \A x \in Requests : x # q => rpc'[x] = rpc[x] /\ (x \in adds' <=> x \in adds),
                 redis'.hash.usage + Pending'[q] + used <= redis.hash.usage + Pending[q] + used',
                 redis'.hash.usage \in Nat, used' \in Nat, UNCHANGED skew,
                 q \in adds' => rpc'[q] = "end",
                 adds' \subseteq Requests
          PROVE  AheadInv'
      <3>1. /\ Total(Pending') = Total(Pending) - Pending[q] + Pending'[q]
            /\ Total(Pending) \in Nat /\ Pending[q] \in Nat /\ Pending'[q] \in Nat
        BY <2>0, <2>1, <2>8, PendingMoves
      <3>2. redis'.hash.usage + Total(Pending') <= used' + skew'.up
        BY <2>0, <2>u, <2>3, <2>8, <3>1
      <3>3. \A r \in adds' : rpc'[r] = "end"
        BY <2>3, <2>8
      <3> QED
        BY <2>1, <3>2, <3>3 DEF AheadInv
    <2>9. ASSUME NEW r \in Requests,
                 ForwardSucceeds(r) \/ ChargeFails(r) \/ RecordDeadline(r) \/ Charge(r) \/ Replay(r)
          PROVE  AheadInv'
      <3>1. \A x \in Requests : x # r => rpc'[x] = rpc[x] /\ (x \in adds' <=> x \in adds)
        BY <2>0, <2>9 DEF ForwardSucceeds, ChargeFails, RecordDeadline, Charge, Replay, RGoto
      <3>2. /\ Pending[r] = IF rpc[r] = "charged" \/ r \in adds THEN Actual[r] ELSE 0
            /\ Pending'[r] = IF rpc'[r] = "charged" \/ r \in adds' THEN Actual[r] ELSE 0
        BY <2>1, <3>1, PendingMoves
      <3>3. /\ UNCHANGED <<redis, skew>>
            /\ adds' \subseteq Requests
            /\ \/ used' = used /\ adds' = adds /\ r \notin adds /\ rpc'[r] # "charged"
               \/ used' = used + Actual[r] /\ r \notin adds /\ adds' = adds /\ rpc[r] = "billing"
               \/ used' = used + Actual[r] /\ r \notin adds /\ rpc'[r] = "end"
        <4>1. hpc[r] = "forward" => rpc[r] = "none"
          BY DEF ShareParts, OneOwner
        <4> QED
          BY <2>0, <2>3, <2>9, <4>1 DEF ForwardSucceeds, ChargeFails, RecordDeadline, Charge, Replay, RGoto, Left
      <3>4. r \in adds' => rpc'[r] = "end"
        BY <3>3
      <3>5. redis'.hash.usage + Pending'[r] + used <= redis.hash.usage + Pending[r] + used'
        BY <2>0, <3>2, <3>3
      <3> QED
        BY <2>0, <2>8, <3>1, <3>3, <3>4, <3>5
    <2>10. ASSUME NEW r \in Requests, RecordSettles(r) \/ RecordUnwinds(r) \/ DoAdd(r)
           PROVE  AheadInv'
      <3>1. \A x \in Requests : x # r => rpc'[x] = rpc[x] /\ (x \in adds' <=> x \in adds)
        BY <2>0, <2>10 DEF RecordSettles, RecordUnwinds, DoAdd, RGoto
      <3>2. /\ Pending[r] = IF rpc[r] = "charged" \/ r \in adds THEN Actual[r] ELSE 0
            /\ Pending'[r] = IF rpc'[r] = "charged" \/ r \in adds' THEN Actual[r] ELSE 0
        BY <2>1, <3>1, PendingMoves
      <3>s. UNCHANGED skew
        BY <2>10 DEF RecordSettles, RecordUnwinds, DoAdd
      <3>3. CASE RecordSettles(r)
        <4>1. redis' = redis \/ redis' = RecordScript(redis, r, Actual[r])
          BY <2>2, <3>3, RunsOf
        <4>2. /\ redis'.hash.usage \in Nat
              /\ redis'.hash.usage <= IF r \in Passed THEN redis.hash.usage + Actual[r] ELSE redis.hash.usage
          <5>1. CASE redis' = redis
            BY <2>0, <5>1
          <5>2. CASE redis' = RecordScript(redis, r, Actual[r])
            <6>1. redis'.hash.usage = IF r \in Passed THEN redis.hash.usage + Actual[r] ELSE redis.hash.usage
              BY <2>0, <5>2, UsageOf
            <6> QED
              BY <2>0, <6>1
          <5> QED
            BY <4>1, <5>1, <5>2
        <4>3. /\ rpc[r] = "charged" /\ rpc'[r] = "end" /\ r \notin adds
              /\ adds' = IF r \in Passed THEN adds ELSE adds \cup {r}
              /\ used' = used
          BY <2>0, <2>3, <3>3 DEF RecordSettles, RGoto
        <4>4. redis'.hash.usage + Pending'[r] + used <= redis.hash.usage + Pending[r] + used'
          BY <2>0, <3>2, <4>2, <4>3
        <4> QED
          BY <2>0, <2>8, <3>1, <3>s, <4>2, <4>3, <4>4
      <3>4. CASE RecordUnwinds(r)
        <4>1. redis' = redis \/ redis' = RecordScript(redis, r, 0)
          BY <2>2, <3>4, RunsOf
        <4>2. redis'.hash.usage = redis.hash.usage
          BY <2>0, <4>1, UsageOf
        <4>3. rpc[r] # "charged" /\ rpc'[r] # "charged" /\ r \notin adds /\ UNCHANGED <<adds, used>>
          BY <2>0, <2>3, <3>4 DEF RecordUnwinds, RGoto, Left
        <4> QED
          BY <2>0, <2>8, <3>1, <3>2, <3>s, <4>2, <4>3
      <3>5. CASE DoAdd(r)
        <4>1. redis' = redis \/ redis' = AfterUpdate(redis, r)
          BY <2>2, <3>5, RunsOf
        <4>2. redis'.hash.usage \in Nat /\ redis'.hash.usage <= redis.hash.usage + Actual[r]
          <5>1. CASE redis' = redis
            BY <2>0, <5>1
          <5>2. CASE redis' = AfterUpdate(redis, r)
            <6>1. redis'.hash.usage = redis.hash.usage + Actual[r]
              BY <2>0, <5>2, UsageOf
            <6> QED
              BY <2>0, <6>1
          <5> QED
            BY <4>1, <5>1, <5>2
        <4>3. r \in adds /\ adds' = adds \ {r} /\ UNCHANGED <<rpc, used>> /\ rpc[r] = "end"
          BY <2>3, <3>5 DEF DoAdd
        <4>4. redis'.hash.usage + Pending'[r] + used <= redis.hash.usage + Pending[r] + used'
          BY <2>0, <3>2, <4>2, <4>3
        <4> QED
          BY <2>0, <2>8, <3>1, <3>s, <4>2, <4>3, <4>4
      <3> QED
        BY <2>10, <3>3, <3>4, <3>5
    <2>11. ASSUME NEW S \in SUBSET Requests, Crash(S) PROVE AheadInv'
      <3>1. /\ UNCHANGED <<used, redis, skew>> /\ adds' = adds \ S
            /\ \A r \in Requests : rpc'[r] = IF r \in S /\ rpc[r] # "open" THEN "end" ELSE rpc[r]
        BY <2>11 DEF Crash
      <3>2. PICK f, g : f = Pending /\ g = Pending'
        OBVIOUS
      <3>3. /\ f \in [Requests -> Nat] /\ g \in [Requests -> Nat]
            /\ \A r \in Requests : g[r] <= f[r]
        BY <2>0, <3>1, <3>2 DEF Pending
      <3>4. Total(g) <= Total(f) /\ Total(g) \in Nat /\ Total(f) \in Nat
        BY <3>3, TotalIsMonotone, TotalType, ReservationAssumption
      <3>5. redis'.hash.usage + Total(Pending') <= used' + skew'.up
        BY <2>0, <2>u, <2>3, <3>1, <3>2, <3>4
      <3>6. \A r \in adds' : rpc'[r] = "end"
        BY <2>0, <2>3, <3>1
      <3> QED
        BY <2>1, <3>5, <3>6 DEF AheadInv
    <2>12. ASSUME NEW x \in Requests \cup Checkers, Fill(x) \/ Refill(x) \/ DoFill(x) PROVE AheadInv'
      <3>1. Sets(seen[x]) /\ seen[x] \in Hashes /\ UNCHANGED <<used, rpc, adds>>
        BY <2>12 DEF Fill, Refill, DoFill, TypeOK
      <3>2. /\ redis' \in RedisStates /\ redis'.hash # NoHash /\ skew' \in [down : Nat, up : Nat]
            /\ redis'.hash.usage + skew.up <= redis.hash.usage + skew'.up
        BY <2>0, <3>1, SetsMeans
      <3>3. redis'.hash.usage \in Nat /\ skew'.up \in Nat /\ Total(Pending) \in Nat
        BY <3>2, PendingType DEF RedisStates, Hashes
      <3>4. Pending' = Pending
        BY <3>1 DEF Pending
      <3>5. redis'.hash.usage + Total(Pending) <= used + skew'.up
        BY <2>0, <2>u, <2>3, <3>2, <3>3
      <3>6. redis'.hash.usage + Total(Pending') <= used' + skew'.up
        BY <3>1, <3>4, <3>5
      <3> QED
        BY <2>1, <2>3, <3>1, <3>6 DEF AheadInv
    <2>13. ~ HashLost
      BY <2>2 DEF HashLost
    <2>14. ASSUME NEW r \in Requests, HandlerStep(r) \/ RecordStep(r) \/ Replay(r) \/ DoAdd(r) PROVE AheadInv'
      BY <2>6, <2>7, <2>9, <2>10, <2>12, <2>14 DEF HandlerStep, RecordStep
    <2>15. ASSUME NEW c \in Checkers, CheckerStep(c) PROVE AheadInv'
      BY <2>6, <2>15 DEF CheckerStep
    <2>16. ASSUME Environment PROVE AheadInv'
      BY <2>7, <2>9, <2>11, <2>13, <2>16 DEF Environment
    <2> QED
      BY <1>2, <2>12, <2>14, <2>15, <2>16 DEF Next
  <1> QED
    BY <1>1, <1>2

\* While the hash is there from the start, is not lost and no script runs twice,
\* it says more than the ledger by no more than fills after a failed read have
\* added to it: a charge is added to the hash once, as a reservation that is
\* settled or as a queued increment, and only after it was committed; missed
\* deadlines, lost calls, failed charges and crashes leave it behind, never ahead
\* (the bug of BILL-017).
THEOREM AheadCorrect ==
  ASSUME Reliable
  PROVE  Spec => []CacheNeverAhead
  <1>1. NoLoss /\ Warm
    BY DEF Reliable
  <1>2. Init => AheadInv
    <2> SUFFICES ASSUME Init PROVE AheadInv
      OBVIOUS
    <2>1. TypeOK
      BY InitTyped
    <2>2. /\ redis.hash = InLedger(InitialUsage)
          /\ \A r \in Requests : rpc[r] = "none"
          /\ adds = {} /\ used = InitialUsage
      BY <1>1 DEF Init
    <2>3. Total(Pending) = 0
      BY <2>1, <2>2, PendingType, TotalOfNothing
    <2>4. InitialUsage \in Nat
      BY ReservationAssumption
    <2>5. redis.hash.usage = InitialUsage /\ redis.hash # NoHash
      BY <2>2, <2>4, ReservationAssumption DEF InLedger, Hashes
    <2>6. Present
      BY <2>5 DEF Init, Present
    <2>7. skew.up = 0
      BY DEF Init
    <2> QED
      BY <2>2, <2>3, <2>4, <2>5, <2>6, <2>7 DEF AheadInv
  <1>3. TypeOK /\ ShareParts /\ AheadInv /\ [Next]_vars => AheadInv'
    BY <1>1, AheadStep
  <1>5. TypeOK /\ ShareParts /\ [Next]_vars => ShareParts'
    BY <1>1, NothingLost, ShareStep
  <1>4. TypeOK /\ AheadInv => CacheNeverAhead
    <2> SUFFICES ASSUME TypeOK, AheadInv, redis.hash # NoHash PROVE redis.hash.usage <= used + skew.up
      BY DEF CacheNeverAhead
    <2>1. redis.hash.usage \in Nat /\ used \in Nat /\ Total(Pending) \in Nat /\ skew.up \in Nat
      BY PendingType DEF TypeOK, Hashes
    <2> QED
      BY <2>1 DEF AheadInv
  <1> QED
    BY <1>2, <1>3, <1>4, <1>5, ShareInit, TypeCorrect, PTL DEF Spec

-----------------------------------------------------------------------------
(* The cache is exact while only charges fail *)

\* The hash is there from the start, and the only fault is a charge that fails.
OnlyChargesFail == Warm /\ Faults \subseteq {"database"}

NeverFilled ==
  /\ Present
  /\ fills = {}
  /\ \A x \in Requests \cup Checkers : hpc[x] \notin {"load", "fill"}

ExactInv ==
  /\ NeverFilled
  /\ \A r \in adds : rpc[r] = "end"
  /\ redis.hash.usage + Total(Pending) = used

\* At every moment the hash and what is on its way to it say what the ledger says,
\* and when nobody holds a reservation and nothing is on its way the hash is the
\* ledger.
HashIsExact ==
  /\ redis.hash # NoHash
  /\ redis.hash.usage + Total(Pending) = used
  /\ (\A r \in Requests : ~ Holds(r) /\ rpc[r] # "charged" /\ r \notin adds)
       => redis.hash = InLedger(used)

LEMMA OnlyChargesFailing ==
  ASSUME OnlyChargesFail
  PROVE  /\ Reliable /\ NoLoss /\ OnlyDatabaseFails
         /\ \A kind \in FaultKinds \ {"database"} : ~ Fault(kind)
  BY DEF OnlyChargesFail, Reliable, NoLoss, OnlyDatabaseFails, Fault

\* Without a miss nothing fills the hash.
LEMMA UnfilledStep ==
  ASSUME OnlyChargesFail, TypeOK, ShareParts, NeverFilled, Next
  PROVE  NeverFilled'
  <1>1. Present'
    BY OnlyChargesFailing, PresentStep DEF NeverFilled
  <1>2. /\ hpc \in [Requests \cup Checkers -> HandlerStates]
        /\ \A x \in Requests \cup Checkers : hpc[x] \notin {"load", "fill", "refill", "retry"}
        /\ fills = {} /\ redis.hash # NoHash
        /\ ~ Fault("read") /\ ~ Fault("hash")
    BY OnlyChargesFailing DEF NeverFilled, Present, TypeOK, FaultKinds
  <1>3. ASSUME fills' = {},
               UNCHANGED hpc \/ \E x : \E l \in HandlerStates \ {"load", "fill"} : hpc' = [hpc EXCEPT ![x] = l]
        PROVE  NeverFilled'
    BY <1>1, <1>2, <1>3 DEF NeverFilled
  <1>4. ASSUME NEW x \in Requests \cup Checkers,
               StatusHit(x) \/ StatusMiss(x) \/ Load(x) \/ QueueFill(x) \/ Fill(x) \/ Refill(x)
        PROVE  NeverFilled'
    BY <1>2, <1>3, <1>4 DEF StatusHit, StatusMiss, Load, QueueFill, Fill, Refill, Goto, HandlerStates
  <1>5. ASSUME NEW r \in Requests, TryReserve(r) \/ RetryReserve(r) \/ ReserveReplyLost(r)
        PROVE  NeverFilled'
    <2>1. \E l \in {"forward", "refill", "end"} : hpc' = [hpc EXCEPT ![r] = l]
      BY <1>5 DEF TryReserve, RetryReserve, ReserveReplyLost, ReserveCall, Goto
    <2>2. fills' = fills
      BY <1>5 DEF TryReserve, RetryReserve, ReserveReplyLost
    <2> QED
      BY <1>2, <1>3, <2>1, <2>2 DEF HandlerStates
  <1>6. ASSUME NEW r \in Requests, ForwardFails(r) \/ ForwardSucceeds(r) \/ Release(r)
        PROVE  NeverFilled'
    <2>1. fills' = fills /\ \E l \in {"release", "end"} : hpc' = [hpc EXCEPT ![r] = l]
      BY <1>6 DEF ForwardFails, ForwardSucceeds, Release, Goto
    <2> QED
      BY <1>2, <1>3, <2>1 DEF HandlerStates
  <1>7. ASSUME NEW r \in Requests,
               \/ RecordStep(r) \/ Replay(r) \/ DoAdd(r)
               \/ KeyExpires(r) \/ ChargeFails(r) \/ RecordDeadline(r)
        PROVE  NeverFilled'
    <2>1. UNCHANGED <<hpc, fills>>
      BY <1>7 DEF RecordStep, Charge, RecordSettles, RecordUnwinds, Replay, DoAdd, KeyExpires, ChargeFails,
                  RecordDeadline
    <2> QED
      BY <1>2, <1>3, <2>1
  <1>8. ASSUME NEW S \in SUBSET Requests, Crash(S) PROVE NeverFilled'
    BY <1>1, <1>2, <1>8 DEF Crash, NeverFilled
  <1>9. ~ HashLost /\ \A c \in Checkers : ~ DoFill(c)
    BY <1>2 DEF HashLost, DoFill
  <1>10. ASSUME NEW r \in Requests, HandlerStep(r) PROVE NeverFilled'
    BY <1>4, <1>5, <1>6, <1>10 DEF HandlerStep
  <1>11. ASSUME NEW c \in Checkers, CheckerStep(c) PROVE NeverFilled'
    BY <1>4, <1>11 DEF CheckerStep
  <1>12. CASE Environment
    BY <1>5, <1>7, <1>8, <1>9, <1>12 DEF Environment
  <1> QED
    BY <1>7, <1>9, <1>10, <1>11, <1>12 DEF Next

\* A step that touches one request, and adds to the hash and to what is pending
\* what it adds to the ledger.
LEMMA ExactMoves ==
  ASSUME TypeOK, TypeOK', ExactInv, NeverFilled', NEW q \in Requests,
         \A x \in Requests : x # q => rpc'[x] = rpc[x] /\ (x \in adds' <=> x \in adds),
         q \in adds' => rpc'[q] = "end",
         redis.hash.usage \in Nat, redis'.hash.usage \in Nat,
         redis'.hash.usage + (IF rpc'[q] = "charged" \/ q \in adds' THEN Actual[q] ELSE 0) + used
           = redis.hash.usage + (IF rpc[q] = "charged" \/ q \in adds THEN Actual[q] ELSE 0) + used'
  PROVE  ExactInv'
  <1>1. /\ Total(Pending') = Total(Pending) - Pending[q] + Pending'[q]
        /\ Pending[q] = IF rpc[q] = "charged" \/ q \in adds THEN Actual[q] ELSE 0
        /\ Pending'[q] = IF rpc'[q] = "charged" \/ q \in adds' THEN Actual[q] ELSE 0
        /\ Total(Pending) \in Nat
    BY PendingMoves
  <1>2. used \in Nat /\ used' \in Nat /\ adds' \subseteq Requests
    BY DEF TypeOK
  <1>3. Pending[q] \in Nat /\ Pending'[q] \in Nat
    BY <1>1, ReservationAssumption
  <1>4. redis.hash.usage + Total(Pending) = used
    BY DEF ExactInv
  <1>5. redis'.hash.usage + Pending'[q] + used = redis.hash.usage + Pending[q] + used'
    BY <1>1
  <1>6. redis'.hash.usage + Total(Pending') = used'
    BY <1>1, <1>2, <1>3, <1>4, <1>5
  <1>7. \A r \in adds' : rpc'[r] = "end"
    BY <1>2 DEF ExactInv
  <1> QED
    BY <1>6, <1>7 DEF ExactInv

LEMMA ExactStep ==
  ASSUME OnlyChargesFail, TypeOK, ShareParts, ExactInv, [Next]_vars
  PROVE  ExactInv'
  <1>1. CASE UNCHANGED vars
    BY <1>1 DEF vars, ExactInv, NeverFilled, Present, Pending
  <1>2. CASE Next
    <2>0. /\ redis \in RedisStates /\ redis.hash # NoHash /\ redis.hash \in Hashes
          /\ redis.hash.usage \in Nat /\ used \in Nat /\ 0 \in Nat
          /\ rpc \in [Requests -> RecordStates] /\ adds \subseteq Requests
          /\ \A r \in Requests : Actual[r] \in Nat
      BY TypeMeans, ReservationAssumption DEF ExactInv, NeverFilled, Present, RedisStates, TypeOK, Hashes
    <2>1. NeverFilled' /\ TypeOK'
      BY <1>2, OnlyChargesFailing, UnfilledStep, StepTyped DEF ExactInv
    <2>2. \A kind \in FaultKinds \ {"database"} : ~ Fault(kind)
      BY OnlyChargesFailing
    <2>3. ~ Fault("again") /\ ~ Fault("commit") /\ ~ Fault("deadline") /\ ~ Fault("crash")
          /\ ~ Fault("hash") /\ ~ Fault("key") /\ ~ Fault("reply") /\ ~ Fault("lost")
      BY <2>2 DEF FaultKinds
    <2>4. /\ \A r \in adds : rpc[r] = "end"
          /\ \A x \in Requests \cup Checkers : hpc[x] \notin {"load", "fill", "refill", "retry"}
          /\ \A r \in Requests : hpc[r] = "forward" => rpc[r] = "none"
      BY DEF ExactInv, NeverFilled, Present, ShareParts, OneOwner
    <2>5. ASSUME redis'.hash.usage = redis.hash.usage, UNCHANGED <<used, rpc, adds>>
          PROVE  ExactInv'
      BY <2>1, <2>5 DEF ExactInv, Pending
    <2>6. ASSUME NEW x \in Requests \cup Checkers,
                 StatusHit(x) \/ StatusMiss(x) \/ Load(x) \/ QueueFill(x) \/ ForwardFails(x)
          PROVE  ExactInv'
      BY <2>5, <2>6 DEF StatusHit, StatusMiss, Load, QueueFill, ForwardFails
    <2>7. ASSUME NEW r \in Requests, TryReserve(r) \/ Release(r) PROVE ExactInv'
      <3>1. UNCHANGED <<used, rpc, adds>>
        BY <2>7 DEF TryReserve, Release
      <3>2. redis'.hash.usage = redis.hash.usage
        <4>1. CASE TryReserve(r)
          <5>1. redis' = AfterReserve(redis, r)
            BY <2>3, <4>1 DEF TryReserve, ReserveCall
          <5> QED
            BY <2>0, <5>1, UsageOf
        <4>2. CASE Release(r)
          BY <2>0, <2>3, <4>2, RunsOf, UsageOf
        <4> QED
          BY <2>7, <4>1, <4>2
      <3> QED
        BY <2>5, <3>1, <3>2
    <2>8. ASSUME NEW r \in Requests, ForwardSucceeds(r) \/ ChargeFails(r) \/ Charge(r) \/ Replay(r)
          PROVE  ExactInv'
      <3>1. \A x \in Requests : x # r => rpc'[x] = rpc[x] /\ (x \in adds' <=> x \in adds)
        BY <2>0, <2>8 DEF ForwardSucceeds, ChargeFails, Charge, Replay, RGoto
      <3>2. /\ redis' = redis /\ r \notin adds /\ rpc[r] # "charged"
            /\ \/ used' = used /\ adds' = adds /\ rpc'[r] # "charged"
               \/ used' = used + Actual[r] /\ adds' = adds /\ rpc'[r] = "charged"
               \/ used' = used + Actual[r] /\ r \in adds' /\ rpc'[r] = "end"
        BY <2>0, <2>3, <2>4, <2>8 DEF ForwardSucceeds, ChargeFails, Charge, Replay, RGoto
      <3>3. /\ redis'.hash.usage + (IF rpc'[r] = "charged" \/ r \in adds' THEN Actual[r] ELSE 0) + used
                 = redis.hash.usage + (IF rpc[r] = "charged" \/ r \in adds THEN Actual[r] ELSE 0) + used'
            /\ r \in adds' => rpc'[r] = "end"
        BY <2>0, <3>2
      <3> QED
        BY <2>0, <2>1, <3>1, <3>2, <3>3, ExactMoves
    <2>9. ASSUME NEW r \in Requests, RecordSettles(r) \/ RecordUnwinds(r) \/ DoAdd(r)
          PROVE  ExactInv'
      <3>1. \A x \in Requests : x # r => rpc'[x] = rpc[x] /\ (x \in adds' <=> x \in adds)
        BY <2>0, <2>9 DEF RecordSettles, RecordUnwinds, DoAdd, RGoto
      <3>2. CASE RecordSettles(r)
        <4>1. redis' = RecordScript(redis, r, Actual[r])
          BY <2>3, <3>2, RunsOf
        <4>2. redis'.hash.usage = IF r \in Passed THEN redis.hash.usage + Actual[r] ELSE redis.hash.usage
          BY <2>0, <4>1, UsageOf
        <4>3. /\ rpc[r] = "charged" /\ rpc'[r] = "end" /\ r \notin adds
              /\ adds' = IF r \in Passed THEN adds ELSE adds \cup {r}
              /\ used' = used
          BY <2>0, <2>4, <3>2 DEF RecordSettles, RGoto
        <4> QED
          BY <2>0, <2>1, <3>1, <4>2, <4>3, ExactMoves
      <3>3. CASE RecordUnwinds(r)
        <4>1. redis' = RecordScript(redis, r, 0)
          BY <2>3, <3>3, RunsOf
        <4>2. redis'.hash.usage = redis.hash.usage
          BY <2>0, <4>1, UsageOf
        <4>3. rpc[r] # "charged" /\ rpc'[r] # "charged" /\ r \notin adds /\ UNCHANGED <<adds, used>>
          BY <2>0, <2>4, <3>3 DEF RecordUnwinds, RGoto, Left
        <4> QED
          BY <2>0, <2>1, <3>1, <4>2, <4>3, ExactMoves
      <3>4. CASE DoAdd(r)
        <4>1. redis' = AfterUpdate(redis, r)
          BY <2>3, <3>4, RunsOf
        <4>2. redis'.hash.usage = redis.hash.usage + Actual[r]
          BY <2>0, <4>1, UsageOf
        <4>3. r \in adds /\ adds' = adds \ {r} /\ UNCHANGED <<rpc, used>> /\ rpc[r] = "end"
          BY <2>4, <3>4 DEF DoAdd
        <4> QED
          BY <2>0, <2>1, <3>1, <4>2, <4>3, ExactMoves
      <3> QED
        BY <2>9, <3>2, <3>3, <3>4
    <2>10. /\ \A r \in Requests : /\ ~ Fill(r) /\ ~ Refill(r) /\ ~ RetryReserve(r)
                                  /\ ~ ReserveReplyLost(r) /\ ~ KeyExpires(r) /\ ~ RecordDeadline(r)
           /\ \A c \in Checkers : ~ DoFill(c)
           /\ ~ HashLost /\ \A S \in SUBSET Requests : ~ Crash(S)
      BY <2>3, <2>4 DEF Fill, Refill, RetryReserve, ReserveReplyLost, KeyExpires, RecordDeadline,
                        DoFill, HashLost, Crash, ExactInv, NeverFilled, Present
    <2>11. CASE \E r \in Requests : HandlerStep(r) \/ RecordStep(r) \/ Replay(r) \/ DoAdd(r)
      BY <2>6, <2>7, <2>8, <2>9, <2>10, <2>11 DEF HandlerStep, RecordStep
    <2>12. CASE \E c \in Checkers : CheckerStep(c) \/ DoFill(c)
      BY <2>6, <2>10, <2>12 DEF CheckerStep
    <2>13. CASE Environment
      BY <2>8, <2>10, <2>13 DEF Environment
    <2> QED
      BY <1>2, <2>11, <2>12, <2>13 DEF Next
  <1> QED
    BY <1>1, <1>2

LEMMA ExactMeans ==
  ASSUME TypeOK, ShareParts, GivenBackInv, ExactInv
  PROVE  HashIsExact
  <1>1. /\ redis.hash # NoHash /\ redis.hash \in Hashes
        /\ redis.share \in [Requests -> Nat]
        /\ redis.hash.usage + Total(Pending) = used
    BY TypeMeans DEF ExactInv, NeverFilled, Present, RedisStates
  <1>2. ASSUME \A r \in Requests : ~ Holds(r) /\ rpc[r] # "charged" /\ r \notin adds
        PROVE  redis.hash = InLedger(used)
    <2>1. \A r \in Requests : redis.share[r] = 0
      BY <1>2 DEF GivenBackInv
    <2>2. Total(redis.share) = 0
      BY <1>1, <2>1, TotalOfNothing, ReservationAssumption
    <2>3. redis.hash.reserved = 0
      BY <1>1, <2>2 DEF ShareParts, SharesAddUp
    <2>4. Pending \in [Requests -> Nat] /\ \A r \in Requests : Pending[r] = 0
      BY <1>2, PendingType
    <2>5. Total(Pending) = 0
      BY <2>4, TotalOfNothing, ReservationAssumption
    <2>6. redis.hash.usage \in Nat /\ redis.hash = [usage |-> redis.hash.usage, reserved |-> redis.hash.reserved]
      BY <1>1 DEF Hashes
    <2>7. redis.hash.usage = used
      BY <1>1, <2>5, <2>6
    <2> QED
      BY <2>3, <2>6, <2>7 DEF InLedger
  <1> QED
    BY <1>1, <1>2 DEF HashIsExact

\* While the hash is there from the start and only charges fail, a committed charge
\* is in the hash, waits for the finalisation of its reservation, or is queued as
\* an increment, and is in exactly one of these; when all of that is over the hash
\* equals the ledger and reserves nothing.  This is the safety that CacheConverges
\* rests on: what is left to liveness is that it does get over.
THEOREM CacheExact ==
  ASSUME OnlyChargesFail
  PROVE  Spec => []HashIsExact
  <1>1. Init => ShareParts /\ GivenBackInv /\ ExactInv
    <2> SUFFICES ASSUME Init PROVE ShareParts /\ GivenBackInv /\ ExactInv
      OBVIOUS
    <2>1. ShareParts /\ GivenBackInv /\ TypeOK
      BY ShareInit, InitTyped DEF Init, GivenBackInv
    <2>2. /\ redis.hash = InLedger(InitialUsage)
          /\ \A r \in Requests : rpc[r] = "none"
          /\ adds = {} /\ used = InitialUsage
      BY OnlyChargesFailing DEF Init, Reliable
    <2>3. InitialUsage \in Nat /\ redis.hash.usage = InitialUsage /\ redis.hash # NoHash
      BY <2>2, ReservationAssumption DEF InLedger, Hashes
    <2>4. Total(Pending) = 0
      BY <2>1, <2>2, PendingType, TotalOfNothing
    <2>5. NeverFilled
      BY <2>3 DEF Init, NeverFilled, Present
    <2> QED
      BY <2>1, <2>2, <2>3, <2>4, <2>5 DEF ExactInv
  <1>2. TypeOK /\ ShareParts /\ GivenBackInv /\ ExactInv /\ [Next]_vars
          => ShareParts' /\ GivenBackInv' /\ ExactInv'
    BY OnlyChargesFailing, NothingLost, ShareStep, GivenBackStep, ExactStep
  <1>3. TypeOK /\ ShareParts /\ GivenBackInv /\ ExactInv => HashIsExact
    BY ExactMeans
  <1> QED
    BY <1>1, <1>2, <1>3, TypeCorrect, PTL DEF Spec

-----------------------------------------------------------------------------
(* The limit *)

LEMMA DirectIsReliable ==
  ASSUME Direct
  PROVE  NoLoss /\ Warm /\ ~ Fault("database") /\ ~ Fault("commit")
  BY DEF Direct, NoLoss, Fault

LEMMA OwedType ==
  ASSUME TypeOK
  PROVE  /\ Owed \in [Requests -> Nat]
         /\ Total(Owed) \in Nat
         /\ \A r \in Requests :
              Owed[r] = IF redis.share[r] > 0 /\ hpc[r] = "end" /\ rpc[r] # "billing" THEN Actual[r] ELSE 0
  <1>1. Owed \in [Requests -> Nat]
    BY ReservationAssumption DEF Owed
  <1>2. Total(Owed) \in Nat
    BY <1>1, TotalType, ReservationAssumption
  <1> QED
    BY <1>1, <1>2 DEF Owed

\* Nothing is owed less.
LEMMA OwedGrows ==
  ASSUME TypeOK, TypeOK', \A r \in Requests : Owed[r] <= Owed'[r]
  PROVE  Total(Owed) <= Total(Owed') /\ Total(Owed) \in Nat /\ Total(Owed') \in Nat
  <1>1. PICK f, g : f = Owed /\ g = Owed'
    OBVIOUS
  <1>2. f \in [Requests -> Nat] /\ g \in [Requests -> Nat] /\ \A r \in Requests : f[r] <= g[r]
    BY <1>1, ReservationAssumption DEF Owed
  <1>3. Total(f) <= Total(g) /\ Total(f) \in Nat /\ Total(g) \in Nat
    BY <1>2, TotalIsMonotone, TotalType, ReservationAssumption
  <1> QED
    BY <1>1, <1>3

\* One request owes something else.
LEMMA OwedMoves ==
  ASSUME TypeOK, TypeOK', NEW q \in Requests,
         \A x \in Requests : x # q => Owed'[x] = Owed[x]
  PROVE  /\ Total(Owed') = Total(Owed) - Owed[q] + Owed'[q]
         /\ Owed[q] \in Nat /\ Owed'[q] \in Nat /\ Total(Owed) \in Nat /\ Total(Owed') \in Nat
  <1>1. PICK f, g : f = Owed /\ g = Owed'
    OBVIOUS
  <1>2. f \in [Requests -> Nat] /\ g \in [Requests -> Nat]
    BY <1>1, ReservationAssumption DEF Owed
  <1>3. g[q] \in Nat /\ f[q] \in Nat /\ \A x \in Requests : x # q => g[x] = f[x]
    BY <1>1, <1>2
  <1>4. Total(f) \in Nat /\ Total(g) \in Nat
    BY <1>2, TotalType, ReservationAssumption
  <1>5. Total(g) = Total(f) - f[q] + g[q]
    BY <1>2, <1>3, TotalDiffers, ReservationAssumption
  <1> QED
    BY <1>1, <1>3, <1>4, <1>5

LEMMA LimitStep ==
  ASSUME Direct, TypeOK, ShareParts, LimitInv, [Next]_vars
  PROVE  LimitInv'
  <1>1. CASE UNCHANGED vars
    BY <1>1 DEF vars, LimitInv, Present, Owed
  <1>2. CASE Next
    <2>0. /\ redis \in RedisStates /\ redis.hash # NoHash /\ redis.hash \in Hashes
          /\ redis.hash.usage \in Nat /\ used \in Nat /\ skew.down \in Nat /\ 0 \in Nat
          /\ hpc \in [Requests \cup Checkers -> HandlerStates]
          /\ rpc \in [Requests -> RecordStates]
          /\ Passed = Requests
          /\ \A r \in Requests : Actual[r] \in Nat /\ Reserve[r] \in Nat /\ Reserve[r] > 0 /\ Actual[r] <= Reserve[r]
      BY TypeMeans, ReservationAssumption DEF Direct, LimitInv, Present, RedisStates, TypeOK, Hashes
    <2>1. NoLoss /\ ~ Fault("hash") /\ ~ Fault("again") /\ ~ Fault("database") /\ ~ Fault("commit") /\ NoneDoubled
      BY DirectIsReliable, NothingLost
    <2>2. Present' /\ TypeOK' /\ redis' \in RedisStates
      BY <1>2, <2>1, PresentStep, StepTyped, RedisTyped DEF LimitInv
    <2>3. /\ adds = {}
          /\ \A x \in Requests \cup Checkers : hpc[x] \notin {"refill", "retry"}
          /\ \A r \in Requests : rpc[r] \in {"none", "billing", "charged", "end"}
          /\ used <= redis.hash.usage + Total(Owed) + skew.down
      BY DEF LimitInv, Present
    <2>t. redis'.hash.usage \in Nat /\ skew'.down \in Nat
      BY <2>2 DEF Present, RedisStates, Hashes, TypeOK
    <2>4. \A r \in Requests : /\ redis.share[r] \in Nat
                              /\ Owed[r] = IF redis.share[r] > 0 /\ hpc[r] = "end" /\ rpc[r] # "billing" THEN Actual[r] ELSE 0
                              /\ Owed'[r] = IF redis'.share[r] > 0 /\ hpc'[r] = "end" /\ rpc'[r] # "billing" THEN Actual[r] ELSE 0
      BY <2>0 DEF Owed, RedisStates
    <2>5. ASSUME \A r \in Requests : Owed[r] <= Owed'[r],
                 UNCHANGED <<used, adds>>,
                 redis.hash.usage + skew.down <= redis'.hash.usage + skew'.down,
                 \A r \in Requests : rpc'[r] \in {"none", "billing", "charged", "end"}
          PROVE  LimitInv'
      <3>1. Total(Owed) <= Total(Owed') /\ Total(Owed) \in Nat /\ Total(Owed') \in Nat
        BY <2>2, <2>5, OwedGrows
      <3>2. used' <= redis'.hash.usage + Total(Owed') + skew'.down
        BY <2>0, <2>3, <2>t, <2>5, <3>1
      <3> QED
        BY <2>2, <2>3, <2>5, <3>2 DEF LimitInv
    <2>6. ASSUME NEW x \in Requests \cup Checkers,
                 StatusHit(x) \/ StatusMiss(x) \/ Load(x) \/ QueueFill(x) \/ ForwardFails(x)
          PROVE  LimitInv'
      <3>1. UNCHANGED <<used, redis, rpc, adds, skew>> /\ \A r \in Requests : hpc[r] = "end" => hpc'[r] = "end"
        BY <2>0, <2>6 DEF StatusHit, StatusMiss, Load, QueueFill, ForwardFails, Goto
      <3> QED
        BY <2>0, <2>3, <2>4, <2>5, <3>1
    <2>7. ASSUME NEW r \in Requests, TryReserve(r) \/ RetryReserve(r) \/ ReserveReplyLost(r)
          PROVE  LimitInv'
      <3>1. /\ redis' \in {redis, AfterReserve(redis, r)} /\ hpc[r] = "reserve"
            /\ UNCHANGED <<used, rpc, adds, skew>>
            /\ \A x \in Requests : x # r => hpc'[x] = hpc[x]
        <4>1. hpc[r] = "reserve" /\ UNCHANGED <<used, rpc, adds, skew>>
          BY <2>3, <2>7 DEF TryReserve, RetryReserve, ReserveReplyLost
        <4>2. redis' \in {redis, AfterReserve(redis, r)}
          BY <2>1, <2>7, CalledOnce DEF TryReserve, RetryReserve, ReserveReplyLost
        <4>3. \E l : hpc' = [hpc EXCEPT ![r] = l]
          BY <2>7 DEF TryReserve, RetryReserve, ReserveReplyLost, ReserveCall, Goto
        <4> QED
          BY <2>0, <4>1, <4>2, <4>3
      <3>2. \A x \in Requests \ {r} : redis'.share[x] = redis.share[x]
        BY <3>1, ShareReserves
      <3>3. \A x \in Requests : Owed[x] <= Owed'[x]
        BY <2>0, <2>4, <3>1, <3>2
      <3>4. redis'.hash.usage = redis.hash.usage
        BY <2>0, <3>1, UsageOf
      <3> QED
        BY <2>0, <2>3, <2>5, <3>1, <3>3, <3>4
    <2>8. ASSUME NEW r \in Requests, ForwardSucceeds(r) \/ RecordDeadline(r) PROVE LimitInv'
      <3>1. /\ UNCHANGED <<used, redis, adds, skew>>
            /\ \A x \in Requests : x # r => rpc'[x] = rpc[x] /\ hpc'[x] = hpc[x]
            /\ \/ hpc[r] = "forward" /\ rpc'[r] = "billing"
               \/ hpc'[r] = hpc[r] /\ rpc[r] = "charged" /\ rpc'[r] = "end"
        BY <2>0, <2>3, <2>8 DEF ForwardSucceeds, RecordDeadline, Goto, RGoto, Left
      <3> QED
        BY <2>0, <2>3, <2>4, <2>5, <3>1
    <2>9. ASSUME NEW r \in Requests, KeyExpires(r) PROVE LimitInv'
      <3>1. redis'.hash = redis.hash /\ redis'.share = redis.share /\ UNCHANGED <<used, hpc, rpc, adds, skew>>
        BY <2>0, <2>9 DEF KeyExpires, RedisStates
      <3> QED
        BY <2>0, <2>3, <2>4, <2>5, <3>1
    <2>10. ASSUME NEW r \in Requests, Release(r) PROVE LimitInv'
      <3>1. /\ redis' = redis \/ redis' = ReleaseScript(redis, r)
            /\ hpc[r] = "release" /\ UNCHANGED <<used, rpc, adds, skew>>
            /\ \A x \in Requests : x # r => hpc'[x] = hpc[x]
        BY <2>0, <2>1, <2>10, RunsOf DEF Release, Goto
      <3>2. \A x \in Requests \ {r} : redis'.share[x] = redis.share[x]
        BY <3>1, ShareReleases
      <3>3. redis'.hash.usage = redis.hash.usage
        BY <2>0, <3>1, UsageOf
      <3>4. \A x \in Requests : Owed[x] <= Owed'[x]
        BY <2>0, <2>4, <3>1, <3>2
      <3> QED
        BY <2>0, <2>3, <2>5, <3>1, <3>3, <3>4
    <2>11. ASSUME NEW r \in Requests, Charge(r) PROVE LimitInv'
      <3>1. /\ rpc[r] = "billing" /\ UNCHANGED <<redis, hpc, adds, skew>>
            /\ used' = used + Actual[r]
            /\ \A x \in Requests : rpc'[x] = IF x = r THEN "charged" ELSE rpc[x]
        BY <2>0, <2>1, <2>11 DEF Charge, RGoto
      <3>2. Holds(r) /\ hpc[r] = "end"
        BY <2>0, <3>1 DEF Holds, ShareParts, OneOwner
      <3>3. redis.share[r] = Reserve[r]
        BY <3>2 DEF ShareParts, HeldInFull
      <3>4. Owed[r] = 0 /\ Owed'[r] = Actual[r] /\ \A x \in Requests : x # r => Owed'[x] = Owed[x]
        BY <2>0, <2>4, <3>1, <3>2, <3>3
      <3>5. Total(Owed') = Total(Owed) + Actual[r] /\ Total(Owed) \in Nat
        <4>1. /\ Total(Owed') = Total(Owed) - Owed[r] + Owed'[r]
              /\ Total(Owed) \in Nat
          BY <2>2, <3>4, OwedMoves
        <4> QED
          BY <2>0, <3>4, <4>1
      <3>6. used' <= redis'.hash.usage + Total(Owed') + skew'.down
        BY <2>0, <2>3, <3>1, <3>5
      <3> QED
        BY <2>2, <2>3, <3>1, <3>6 DEF LimitInv
    <2>12. ASSUME NEW r \in Requests, RecordSettles(r) PROVE LimitInv'
      <3>1. /\ rpc[r] = "charged" /\ UNCHANGED <<used, hpc, adds, skew>>
            /\ redis' = redis \/ redis' = RecordScript(redis, r, Actual[r])
            /\ \A x \in Requests : rpc'[x] = IF x = r THEN "end" ELSE rpc[x]
        BY <2>0, <2>1, <2>12, RunsOf DEF RecordSettles, RGoto
      <3>2. Holds(r) /\ hpc[r] = "end"
        BY <2>0, <3>1 DEF Holds, ShareParts, OneOwner
      <3>3. redis.share[r] = Reserve[r]
        BY <3>2 DEF ShareParts, HeldInFull
      <3>4. CASE redis' = redis
        <4>1. \A x \in Requests : Owed[x] <= Owed'[x]
          BY <2>0, <2>4, <3>1, <3>4
        <4> QED
          BY <2>0, <2>3, <2>5, <3>1, <3>4, <4>1
      <3>5. CASE redis' = RecordScript(redis, r, Actual[r])
        <4>1. redis' = Settled(redis, r, Reserve[r], Actual[r])
          BY <2>0, <3>5 DEF RecordScript, AfterFinalize
        <4>2. \A x \in Requests : redis'.share[x] = IF x = r THEN 0 ELSE redis.share[x]
          BY <2>0, <3>2, <4>1, ShareSettles
        <4>3. redis'.hash.usage = redis.hash.usage + Actual[r]
          BY <2>0, <3>5, UsageOf
        <4>4. Owed[r] = Actual[r] /\ Owed'[r] = 0 /\ \A x \in Requests : x # r => Owed'[x] = Owed[x]
          BY <2>0, <2>4, <3>1, <3>2, <3>3, <4>2
        <4>5. Total(Owed') = Total(Owed) - Actual[r] /\ Total(Owed) \in Nat
          <5>1. /\ Total(Owed') = Total(Owed) - Owed[r] + Owed'[r]
                /\ Total(Owed) \in Nat
            BY <2>2, <4>4, OwedMoves
          <5> QED
            BY <2>0, <4>4, <5>1
        <4>6. used' <= redis'.hash.usage + Total(Owed') + skew'.down
          BY <2>0, <2>3, <3>1, <4>3, <4>5
        <4> QED
          BY <2>2, <2>3, <3>1, <4>6 DEF LimitInv
      <3> QED
        BY <3>1, <3>4, <3>5
    <2>13. ASSUME NEW S \in SUBSET Requests, Crash(S) PROVE LimitInv'
      <3>1. /\ UNCHANGED <<used, redis, skew>> /\ adds' = adds \ S
            /\ \A x \in Requests : hpc'[x] = IF x \in S THEN "end" ELSE hpc[x]
            /\ \A x \in Requests : rpc'[x] = IF x \in S /\ rpc[x] # "open" THEN "end" ELSE rpc[x]
        BY <2>13 DEF Crash
      <3>2. \A x \in Requests : Owed[x] <= Owed'[x]
        BY <2>0, <2>4, <3>1
      <3>3. /\ UNCHANGED <<used, adds>>
            /\ redis.hash.usage + skew.down <= redis'.hash.usage + skew'.down
        BY <2>0, <2>3, <3>1
      <3>4. \A x \in Requests : rpc'[x] \in {"none", "billing", "charged", "end"}
        BY <2>3, <3>1
      <3> QED
        BY <2>5, <3>2, <3>3, <3>4
    <2>f. ASSUME NEW x \in Requests \cup Checkers, Fill(x) \/ Refill(x) \/ DoFill(x) PROVE LimitInv'
      <3>1. /\ Sets(seen[x]) /\ seen[x] \in Hashes /\ UNCHANGED <<used, rpc, adds>>
            /\ \A r \in Requests : hpc[r] = "end" => hpc'[r] = "end"
        BY <2>0, <2>f DEF Fill, Refill, DoFill, TypeOK, Goto
      <3>2. /\ redis'.share = redis.share
            /\ redis.hash.usage + skew.down <= redis'.hash.usage + skew'.down
        BY <2>0, <3>1, SetsMeans
      <3>3. \A r \in Requests : Owed[r] <= Owed'[r]
        BY <2>0, <2>4, <3>1, <3>2
      <3> QED
        BY <2>3, <2>5, <3>1, <3>2, <3>3
    <2>14. /\ ~ HashLost
           /\ \A r \in Requests : ~ ChargeFails(r) /\ ~ RecordUnwinds(r) /\ ~ Replay(r) /\ ~ DoAdd(r)
      BY <2>1, <2>3 DEF HashLost, ChargeFails, RecordUnwinds, Replay, DoAdd
    <2>15. ASSUME NEW r \in Requests, HandlerStep(r) \/ RecordStep(r) PROVE LimitInv'
      BY <2>6, <2>7, <2>8, <2>10, <2>11, <2>12, <2>14, <2>15, <2>f DEF HandlerStep, RecordStep
    <2>16. ASSUME NEW c \in Checkers, CheckerStep(c) \/ DoFill(c) PROVE LimitInv'
      BY <2>6, <2>16, <2>f DEF CheckerStep
    <2>17. ASSUME Environment PROVE LimitInv'
      BY <2>7, <2>8, <2>9, <2>13, <2>14, <2>17 DEF Environment
    <2> QED
      BY <1>2, <2>14, <2>15, <2>16, <2>17 DEF Next
  <1> QED
    BY <1>1, <1>2

LEMMA LimitInit ==
  ASSUME Warm, Init
  PROVE  LimitInv
  <1>1. TypeOK
    BY InitTyped
  <1>2. /\ redis.hash = InLedger(InitialUsage)
        /\ \A r \in Requests : redis.share[r] = 0 /\ rpc[r] = "none"
        /\ adds = {} /\ used = InitialUsage
    BY DEF Init
  <1>3. Total(Owed) = 0
    BY <1>1, <1>2, OwedType, TotalOfNothing
  <1>4. InitialUsage \in Nat /\ InitialUsage <= Limit
    BY ReservationAssumption
  <1>5. redis.hash.usage = InitialUsage /\ redis.hash # NoHash /\ skew.down = 0
    BY <1>2, <1>4, ReservationAssumption DEF InLedger, Hashes, Init
  <1>6. Present
    BY <1>5 DEF Init, Present
  <1> QED
    BY <1>2, <1>3, <1>4, <1>5, <1>6 DEF LimitInv

-----------------------------------------------------------------------------
(* The promise *)

\* The requests let through and not yet settled.
Open == {r \in Requests : hpc[r] = "forward" \/ rpc[r] = "billing"}

OpenSum(S) == Total([x \in S |-> Reserve[x]])

\* There is room for all that was spent and for the most that the open requests
\* may still cost.
RoomInv == used + OpenSum(Open) <= Limit + skew.down

\* The sum of the abstract specification is the sum of this one.
LEMMA SameTotal ==
  ASSUME NEW f
  PROVE  Guard!Total(f) = Total(f)
  BY DEF Guard!Total, Guard!Units, Total, Units, Guard!Cardinality, Cardinality

\* A granted reservation has room beside what is spent and what is open.
LEMMA RoomIsLeft ==
  ASSUME Direct, TypeOK, ShareParts, LimitInv, NEW q \in Requests,
         hpc[q] = "reserve", ReserveCode(redis, q) = 1
  PROVE  q \notin Open /\ used + OpenSum(Open \cup {q}) <= Limit + skew.down
  <1>0. /\ redis \in RedisStates /\ redis.hash # NoHash
        /\ redis.hash.usage \in Nat /\ redis.hash.reserved \in Nat /\ used \in Nat /\ skew.down \in Nat
        /\ Limit \in Nat /\ Passed = Requests /\ IsFiniteSet(Requests)
        /\ \A r \in Requests : Actual[r] \in Nat /\ Reserve[r] \in Nat /\ Actual[r] <= Reserve[r]
    BY TypeMeans, ReservationAssumption DEF Direct, LimitInv, Present, RedisStates, TypeOK, Hashes
  <1>1. q \notin Open
    BY DEF Open, ShareParts, OneOwner, Before
  <1>2. PICK f, g, h, k :
          /\ f = [r \in Requests |-> IF r \in Open THEN Reserve[r] ELSE 0]
          /\ g = [r \in Requests |-> IF r \in Open \cup {q} THEN Reserve[r] ELSE 0]
          /\ h = [r \in Requests |-> IF r \in Open THEN Reserve[r] ELSE Owed[r]]
          /\ k = Owed
    OBVIOUS
  <1>3. /\ k \in [Requests -> Nat]
        /\ \A r \in Requests :
             k[r] = IF redis.share[r] > 0 /\ hpc[r] = "end" /\ rpc[r] # "billing" THEN Actual[r] ELSE 0
    BY <1>2, OwedType
  <1>4. f \in [Requests -> Nat] /\ g \in [Requests -> Nat] /\ h \in [Requests -> Nat]
    BY <1>0, <1>2, <1>3
  <1>5. \A r \in Requests : (f[r] = 0 \/ k[r] = 0) /\ h[r] = f[r] + k[r]
    <2> SUFFICES ASSUME NEW r \in Requests PROVE (f[r] = 0 \/ k[r] = 0) /\ h[r] = f[r] + k[r]
      OBVIOUS
    <2>1. f[r] \in Nat /\ k[r] \in Nat /\ h[r] = IF r \in Open THEN Reserve[r] ELSE k[r]
      BY <1>2, <1>3, <1>4
    <2>2. CASE r \in Open
      <3>1. k[r] = 0
        BY <1>3, <2>2 DEF Open
      <3>2. f[r] = Reserve[r]
        BY <1>2, <2>2
      <3> QED
        BY <2>1, <2>2, <3>1, <3>2
    <2>3. CASE r \notin Open
      <3>1. f[r] = 0
        BY <1>2, <2>3
      <3> QED
        BY <2>1, <2>3, <3>1
    <2> QED
      BY <2>2, <2>3
  <1>6. \A r \in Requests : h[r] <= redis.share[r]
    <2> SUFFICES ASSUME NEW r \in Requests PROVE h[r] <= redis.share[r]
      OBVIOUS
    <2>1. redis.share[r] \in Nat /\ redis.share[r] \in {0, Reserve[r]}
      BY <1>0 DEF ShareParts, HeldInFull, RedisStates
    <2>2. CASE r \in Open
      <3>1. Holds(r)
        BY <1>0, <2>2 DEF Open, Holds
      <3> QED
        BY <1>0, <1>2, <2>2, <3>1 DEF ShareParts, HeldInFull
    <2>3. CASE r \notin Open
      <3>1. h[r] = k[r]
        BY <1>2, <2>3
      <3> QED
        BY <1>0, <1>3, <2>1, <3>1
    <2> QED
      BY <2>2, <2>3
  <1>7. OpenSum(Open \cup {q}) = Total(g)
    <2>1. Open \cup {q} \subseteq Requests /\ Reserve \in [Requests -> Nat]
      BY ReservationAssumption DEF Open
    <2> QED
      BY <1>2, <2>1, TotalOverPart DEF OpenSum
  <1>8. Total(g) = Total(f) + Reserve[q]
    <2>1. f[q] = 0 /\ g[q] = Reserve[q] /\ \A r \in Requests : r # q => g[r] = f[r]
      BY <1>1, <1>2
    <2>2. Total(g) = Total(f) - f[q] + Reserve[q]
      BY <1>0, <1>4, <2>1, TotalDiffers
    <2>3. Total(f) \in Nat
      BY <1>0, <1>4, TotalType
    <2> QED
      BY <1>0, <2>1, <2>2, <2>3
  <1>9. Total(f) + Total(k) <= redis.hash.reserved /\ Total(f) \in Nat /\ Total(k) \in Nat
    <2>1. Total(h) = Total(f) + Total(k)
      BY <1>0, <1>3, <1>4, <1>5, TotalOfBoth
    <2>2. Total(h) <= Total(redis.share)
      BY <1>0, <1>4, <1>6, FinitelyMany, TotalIsMonotone
    <2>3. redis.hash.reserved = Total(redis.share)
      BY <1>0 DEF ShareParts, SharesAddUp
    <2>4. Total(f) \in Nat /\ Total(k) \in Nat
      BY <1>0, <1>3, <1>4, TotalType
    <2> QED
      BY <2>1, <2>2, <2>3, <2>4
  <1>10. redis.hash.usage + redis.hash.reserved + Reserve[q] <= Limit
    BY <1>0, ReserveCodes
  <1>11. used <= redis.hash.usage + Total(k) + skew.down
    BY <1>2 DEF LimitInv
  <1>12. used + Total(g) <= Limit + skew.down
    BY <1>0, <1>8, <1>9, <1>10, <1>11
  <1> QED
    BY <1>1, <1>7, <1>12

\* Every step is a step of the promise, or none at all.
LEMMA PromiseStep ==
  ASSUME Direct, TypeOK, ShareParts, LimitInv, [Next]_vars
  PROVE  \/ UNCHANGED <<used, Open>> /\ skew'.down \in Nat /\ skew'.down >= skew.down
         \/ \E r \in Requests : /\ r \notin Open
                                /\ used + OpenSum(Open \cup {r}) <= Limit + skew.down
                                /\ Open' = Open \cup {r} /\ UNCHANGED <<used, skew>>
         \/ \E r \in Open : Open' = Open \ {r} /\ used' \in {used, used + Actual[r]} /\ UNCHANGED skew
         \/ \E S \in SUBSET Open : Open' = Open \ S /\ UNCHANGED <<used, skew>>
  <1> DEFINE Goal == \/ UNCHANGED <<used, Open>> /\ skew'.down \in Nat /\ skew'.down >= skew.down
                     \/ \E r \in Requests : /\ r \notin Open
                                            /\ used + OpenSum(Open \cup {r}) <= Limit + skew.down
                                            /\ Open' = Open \cup {r} /\ UNCHANGED <<used, skew>>
                     \/ \E r \in Open : Open' = Open \ {r} /\ used' \in {used, used + Actual[r]} /\ UNCHANGED skew
                     \/ \E S \in SUBSET Open : Open' = Open \ S /\ UNCHANGED <<used, skew>>
  <1> SUFFICES Goal
    OBVIOUS
  <1>0. /\ redis \in RedisStates /\ redis.hash # NoHash
        /\ hpc \in [Requests \cup Checkers -> HandlerStates]
        /\ rpc \in [Requests -> RecordStates]
        /\ Passed = Requests
        /\ skew.down \in Nat
    BY TypeMeans DEF Direct, LimitInv, Present, TypeOK
  <1>1. ~ Fault("hash") /\ ~ Fault("again") /\ ~ Fault("database") /\ ~ Fault("commit") /\ NoneDoubled
    BY DirectIsReliable, NothingLost
  <1>2. /\ adds = {}
        /\ \A x \in Requests \cup Checkers : hpc[x] \notin {"refill", "retry"}
        /\ \A r \in Requests : rpc[r] \in {"none", "billing", "charged", "end"}
    BY DEF LimitInv, Present
  <1>3. /\ \A r \in Requests : hpc[r] \in Before \cup {"forward"} => rpc[r] = "none"
        /\ \A r \in Requests : rpc[r] # "none" => hpc[r] = "end"
    BY <1>0 DEF ShareParts, OneOwner
  <1>4. \A r : r \in Open <=> r \in Requests /\ (hpc[r] = "forward" \/ rpc[r] = "billing")
    BY DEF Open
  <1>5. \A r : r \in Open' <=> r \in Requests /\ (hpc'[r] = "forward" \/ rpc'[r] = "billing")
    BY DEF Open
  <1>6. ASSUME UNCHANGED <<used, skew>>, \A r \in Requests : r \in Open' <=> r \in Open PROVE Goal
    <2>1. Open' = Open
      BY <1>4, <1>5, <1>6
    <2> QED
      BY <1>0, <1>6, <2>1
  <1>7. CASE UNCHANGED vars
    <2>1. UNCHANGED <<used, skew>> /\ \A r \in Requests : r \in Open' <=> r \in Open
      BY <1>4, <1>5, <1>7 DEF vars
    <2> QED
      BY <1>6, <2>1
  <1>8. ASSUME NEW x \in Requests \cup Checkers, StatusHit(x) \/ StatusMiss(x) \/ Load(x) \/ QueueFill(x)
        PROVE  Goal
    <2>1. /\ UNCHANGED <<used, rpc, skew>> /\ hpc[x] \in {"status", "load", "fill"}
          /\ \E l \in {"reserve", "load", "fill", "end"} : hpc' = [hpc EXCEPT ![x] = l]
      BY <1>8 DEF StatusHit, StatusMiss, Load, QueueFill, Goto
    <2>2. \A r \in Requests : r \in Open' <=> r \in Open
      BY <1>0, <1>4, <1>5, <2>1
    <2> QED
      BY <1>6, <2>1, <2>2
  <1>f. ASSUME NEW x \in Requests \cup Checkers, Fill(x) \/ Refill(x) \/ DoFill(x) PROVE Goal
    <2>1. /\ Sets(seen[x]) /\ seen[x] \in Hashes /\ UNCHANGED <<used, rpc>>
          /\ \/ UNCHANGED hpc
             \/ hpc[x] = "fill" /\ hpc' = [hpc EXCEPT ![x] = "reserve"]
      BY <1>2, <1>f DEF Fill, Refill, DoFill, TypeOK, Goto
    <2>2. skew'.down \in Nat /\ skew'.down >= skew.down
      <3>1. skew' \in [down : Nat, up : Nat] /\ skew.down <= skew'.down
        BY <2>1, SetsMeans
      <3> QED
        BY <1>0, <3>1
    <2>3. \A r \in Requests : r \in Open' <=> r \in Open
      BY <1>0, <1>4, <1>5, <2>1
    <2>4. Open' = Open
      BY <1>4, <1>5, <2>3
    <2> QED
      BY <2>1, <2>2, <2>4
  <1>9. ASSUME NEW r \in Requests, TryReserve(r) \/ RetryReserve(r) \/ ReserveReplyLost(r)
        PROVE  Goal
    <2>1. /\ hpc[r] = "reserve" /\ UNCHANGED <<used, rpc, skew>>
          /\ \/ hpc' = [hpc EXCEPT ![r] = "end"]
             \/ hpc' = [hpc EXCEPT ![r] = CASE ReserveCode(redis, r) \in {1, 2} -> "forward"
                                            [] ReserveCode(redis, r) = 0 -> "refill"
                                            [] OTHER -> "end"]
      BY <1>1, <1>2, <1>9, CalledOnce DEF TryReserve, RetryReserve, ReserveReplyLost, Goto
    <2>2. ReserveCode(redis, r) \in {-1, 1}
      <3>1. ReserveCode(redis, r) \in {-1, 0, 1} /\ (ReserveCode(redis, r) = 0 <=> redis.hash = NoHash)
        BY <2>1, ShareReserves
      <3> QED
        BY <1>0, <3>1
    <2>5. \/ hpc' = [hpc EXCEPT ![r] = "end"]
          \/ hpc' = [hpc EXCEPT ![r] = "forward"] /\ ReserveCode(redis, r) = 1
      BY <2>1, <2>2
    <2>3. CASE hpc' = [hpc EXCEPT ![r] = "end"]
      <3>1. \A q \in Requests : q \in Open' <=> q \in Open
        BY <1>0, <1>4, <1>5, <2>1, <2>3
      <3> QED
        BY <1>6, <2>1, <3>1
    <2>4. CASE hpc' = [hpc EXCEPT ![r] = "forward"] /\ ReserveCode(redis, r) = 1
      <3>1. r \notin Open /\ used + OpenSum(Open \cup {r}) <= Limit + skew.down
        BY <2>1, <2>4, RoomIsLeft
      <3>2. \A q : q \in Open' <=> q \in Open \cup {r}
        BY <1>0, <1>4, <1>5, <2>1, <2>4
      <3>3. Open' = Open \cup {r}
        BY <3>2
      <3> QED
        BY <2>1, <3>1, <3>3
    <2> QED
      BY <2>3, <2>4, <2>5
  <1>10. ASSUME NEW r \in Requests, ForwardFails(r) \/ Charge(r) PROVE Goal
    <2>1. /\ r \in Open
          /\ used' \in {used, used + Actual[r]} /\ UNCHANGED skew
          /\ \A q \in Requests : q # r => hpc'[q] = hpc[q] /\ rpc'[q] = rpc[q]
          /\ hpc'[r] # "forward" /\ rpc'[r] # "billing"
      <3>1. CASE ForwardFails(r)
        BY <1>0, <1>3, <1>4, <3>1 DEF ForwardFails, Goto
      <3>2. CASE Charge(r)
        BY <1>0, <1>1, <1>3, <1>4, <3>2 DEF Charge, RGoto
      <3> QED
        BY <1>10, <3>1, <3>2
    <2>2. \A q : q \in Open' <=> q \in Open \ {r}
      BY <1>4, <1>5, <2>1
    <2>3. Open' = Open \ {r}
      BY <2>2
    <2> QED
      BY <2>1, <2>3
  <1>11. ASSUME NEW r \in Requests, ForwardSucceeds(r) \/ Release(r) \/ RecordSettles(r) \/ RecordDeadline(r) \/ KeyExpires(r)
         PROVE  Goal
    <2>1. /\ UNCHANGED <<used, skew>>
          /\ \A q \in Requests : q # r => hpc'[q] = hpc[q] /\ rpc'[q] = rpc[q]
          /\ \/ hpc[r] = "forward" /\ rpc'[r] = "billing"
             \/ hpc[r] = "release" /\ hpc'[r] = "end" /\ rpc'[r] = rpc[r]
             \/ hpc'[r] = hpc[r] /\ rpc[r] = "charged" /\ rpc'[r] = "end"
             \/ hpc'[r] = hpc[r] /\ rpc'[r] = rpc[r]
      BY <1>0, <1>2, <1>11 DEF ForwardSucceeds, Release, RecordSettles, RecordDeadline, KeyExpires, Goto, RGoto, Left
    <2>2. \A q \in Requests : q \in Open' <=> q \in Open
      BY <1>4, <1>5, <2>1
    <2> QED
      BY <1>6, <2>1, <2>2
  <1>12. ASSUME NEW S \in SUBSET Requests, Crash(S) PROVE Goal
    <2>1. /\ UNCHANGED <<used, skew>>
          /\ \A q \in Requests : hpc'[q] = IF q \in S THEN "end" ELSE hpc[q]
          /\ \A q \in Requests : rpc'[q] = IF q \in S /\ rpc[q] # "open" THEN "end" ELSE rpc[q]
      BY <1>12 DEF Crash
    <2>2. \A q : q \in Open' <=> q \in Open \ (S \cap Open)
      BY <1>2, <1>4, <1>5, <2>1
    <2>3. Open' = Open \ (S \cap Open) /\ S \cap Open \in SUBSET Open
      BY <2>2
    <2> QED
      BY <2>1, <2>3
  <1>13. /\ ~ HashLost
         /\ \A r \in Requests : ~ ChargeFails(r) /\ ~ RecordUnwinds(r) /\ ~ Replay(r) /\ ~ DoAdd(r)
    BY <1>1, <1>2 DEF HashLost, ChargeFails, RecordUnwinds, Replay, DoAdd
  <1> HIDE DEF Goal
  <1>14. ASSUME NEW r \in Requests, HandlerStep(r) \/ RecordStep(r) PROVE Goal
    BY <1>8, <1>f, <1>9, <1>10, <1>11, <1>13, <1>14 DEF HandlerStep, RecordStep
  <1>15. ASSUME NEW c \in Checkers, CheckerStep(c) \/ DoFill(c) PROVE Goal
    BY <1>8, <1>f, <1>15 DEF CheckerStep
  <1>16. ASSUME Environment PROVE Goal
    BY <1>9, <1>11, <1>12, <1>13, <1>16 DEF Environment
  <1>17. CASE Next
    BY <1>13, <1>14, <1>15, <1>16, <1>17 DEF Next
  <1> QED
    BY <1>7, <1>17

\* What the most costs of some requests add up to.
LEMMA OpenSums ==
  ASSUME NEW S \in SUBSET Requests
  PROVE  /\ OpenSum(S) \in Nat
         /\ \A r \in S : OpenSum(S) = OpenSum(S \ {r}) + Reserve[r]
         /\ \A T \in SUBSET S : OpenSum(T) <= OpenSum(S)
  <1>0. IsFiniteSet(Requests) /\ Reserve \in [Requests -> Nat]
    BY ReservationAssumption
  <1> DEFINE Part(T) == [x \in Requests |-> IF x \in T THEN Reserve[x] ELSE 0]
  <1>1. ASSUME NEW T \in SUBSET Requests
        PROVE  Part(T) \in [Requests -> Nat] /\ OpenSum(T) = Total(Part(T)) /\ OpenSum(T) \in Nat
    <2>1. Part(T) \in [Requests -> Nat]
      BY <1>0
    <2>2. OpenSum(T) = Total(Part(T))
      BY <1>0, TotalOverPart DEF OpenSum
    <2> QED
      BY <1>0, <2>1, <2>2, TotalType
  <1>2. ASSUME NEW r \in S PROVE OpenSum(S) = OpenSum(S \ {r}) + Reserve[r]
    <2>1. /\ Part(S)[r] = Reserve[r] /\ Part(S \ {r})[r] = 0 /\ Reserve[r] \in Nat
          /\ \A x \in Requests : x # r => Part(S)[x] = Part(S \ {r})[x]
      BY <1>0
    <2>2. Part(S) \in [Requests -> Nat] /\ Part(S \ {r}) \in [Requests -> Nat]
      BY <1>1
    <2>3. Total(Part(S)) = Total(Part(S \ {r})) - Part(S \ {r})[r] + Reserve[r]
      BY <1>0, <2>1, <2>2, TotalDiffers
    <2>4. /\ OpenSum(S) = Total(Part(S)) /\ OpenSum(S \ {r}) = Total(Part(S \ {r}))
          /\ OpenSum(S \ {r}) \in Nat
      BY <1>1
    <2> HIDE DEF Part
    <2> QED
      BY <2>1, <2>3, <2>4
  <1>3. ASSUME NEW T \in SUBSET S PROVE OpenSum(T) <= OpenSum(S)
    <2>1. /\ Part(T) \in [Requests -> Nat] /\ Part(S) \in [Requests -> Nat]
          /\ OpenSum(T) = Total(Part(T)) /\ OpenSum(S) = Total(Part(S))
      BY <1>1
    <2>2. \A x \in Requests : Part(T)[x] <= Part(S)[x]
      BY <1>0
    <2> HIDE DEF Part
    <2>3. Total(Part(T)) <= Total(Part(S))
      BY <1>0, <2>1, <2>2, TotalIsMonotone
    <2> QED
      BY <2>1, <2>3
  <1> QED
    BY <1>1, <1>2, <1>3

LEMMA RoomStep ==
  ASSUME Direct, TypeOK, TypeOK', ShareParts, LimitInv, RoomInv, [Next]_vars
  PROVE  RoomInv'
  <1>1. /\ Open \in SUBSET Requests /\ OpenSum(Open) \in Nat
        /\ used \in Nat /\ skew.down \in Nat /\ Limit \in Nat
        /\ used + OpenSum(Open) <= Limit + skew.down
        /\ \A r \in Requests : Actual[r] \in Nat /\ Reserve[r] \in Nat /\ Actual[r] <= Reserve[r]
    <2>1. Open \in SUBSET Requests
      BY DEF Open
    <2> QED
      BY <2>1, OpenSums, ReservationAssumption DEF TypeOK, RoomInv
  <1>2. CASE UNCHANGED <<used, Open>> /\ skew'.down \in Nat /\ skew'.down >= skew.down
    BY <1>1, <1>2 DEF RoomInv
  <1>3. ASSUME NEW r \in Requests, used + OpenSum(Open \cup {r}) <= Limit + skew.down,
               Open' = Open \cup {r}, UNCHANGED <<used, skew>>
        PROVE  RoomInv'
    BY <1>3 DEF RoomInv
  <1>4. ASSUME NEW r \in Open, Open' = Open \ {r}, used' \in {used, used + Actual[r]}, UNCHANGED skew
        PROVE  RoomInv'
    <2>1. OpenSum(Open) = OpenSum(Open') + Reserve[r] /\ OpenSum(Open') \in Nat
      BY <1>1, <1>4, OpenSums
    <2>2. used' + OpenSum(Open') <= Limit + skew'.down
      BY <1>1, <1>4, <2>1
    <2> QED
      BY <2>2 DEF RoomInv
  <1>5. ASSUME NEW S \in SUBSET Open, Open' = Open \ S, UNCHANGED <<used, skew>>
        PROVE  RoomInv'
    <2>1. OpenSum(Open') <= OpenSum(Open) /\ OpenSum(Open') \in Nat
      BY <1>1, <1>5, OpenSums
    <2>2. used' + OpenSum(Open') <= Limit + skew'.down
      BY <1>1, <1>5, <2>1
    <2> QED
      BY <2>2 DEF RoomInv
  <1> QED
    BY <1>2, <1>3, <1>4, <1>5, PromiseStep

\* However many requests run at once, what is charged exceeds the limit by no more
\* than fills after a failed read took from the usage of the live hash, as long as
\* every reservation is handed to RecordUsage, the hash stays and charges do not
\* fail; keys may expire, replies and calls get lost, finalisations miss their
\* deadline and processes die at any moment (reserveSubUsageScript).
THEOREM LimitCorrect ==
  ASSUME Direct
  PROVE  Spec => []WithinLimit
  <1>1. NoLoss /\ Warm
    BY DirectIsReliable
  <1>2. Init => LimitInv /\ RoomInv
    <2> SUFFICES ASSUME Init PROVE RoomInv
      BY <1>1, LimitInit
    <2>1. Open = {} /\ used = InitialUsage /\ skew.down = 0
      BY DEF Init, Open
    <2>2. OpenSum({}) = 0
      <3>1. [x \in {} |-> Reserve[x]] \in [{} -> Nat]
        OBVIOUS
      <3> QED
        BY <3>1, TotalOfNothing DEF OpenSum
    <2> QED
      BY <2>1, <2>2, ReservationAssumption DEF RoomInv
  <1>3. TypeOK /\ TypeOK' /\ ShareParts /\ LimitInv /\ RoomInv /\ [Next]_vars => LimitInv' /\ RoomInv'
    BY LimitStep, RoomStep
  <1>4. TypeOK /\ ShareParts /\ [Next]_vars => ShareParts'
    BY <1>1, NothingLost, ShareStep
  <1>5. TypeOK /\ RoomInv => WithinLimit
    <2> SUFFICES ASSUME TypeOK, RoomInv PROVE used <= Limit + skew.down
      BY DEF WithinLimit
    <2>1. OpenSum(Open) \in Nat
      BY OpenSums DEF Open
    <2>2. used \in Nat /\ Limit \in Nat /\ skew.down \in Nat
      BY ReservationAssumption DEF TypeOK
    <2> QED
      BY <2>1, <2>2 DEF RoomInv
  <1> QED
    BY <1>2, <1>3, <1>4, <1>5, ShareInit, TypeCorrect, PTL DEF Spec

\* Under the same hypotheses reserving keeps its promise: whoever is let through
\* finds room for all that was spent and for the most that everybody in flight
\* may still cost, up to what fills after a failed read made the hash forget
\* (CheckBillingEligibilityAndReserve).
THEOREM Refinement ==
  ASSUME Direct
  PROVE  Spec => ImplementsQuotaGuard
  <1>1. NoLoss /\ Warm
    BY DirectIsReliable
  <1>2. Init => Guard!Init
    <2> SUFFICES ASSUME Init PROVE Guard!Init
      OBVIOUS
    <2>1. used \in 0 .. Limit
      BY ReservationAssumption DEF Init
    <2>2. {r \in Requests : hpc[r] = "forward" \/ rpc[r] = "billing"} = {}
      BY DEF Init
    <2>3. skew.down = 0
      BY DEF Init
    <2> QED
      BY <2>1, <2>2, <2>3 DEF Guard!Init
  <1>3. TypeOK /\ ShareParts /\ LimitInv /\ [Next]_vars
          => [Guard!Next]_<<used, {r \in Requests : hpc[r] = "forward" \/ rpc[r] = "billing"}, skew.down>>
    <2> SUFFICES ASSUME TypeOK, ShareParts, LimitInv, [Next]_vars
                 PROVE  [Guard!Next]_<<used, {r \in Requests : hpc[r] = "forward" \/ rpc[r] = "billing"}, skew.down>>
      OBVIOUS
    <2>1. Open = {r \in Requests : hpc[r] = "forward" \/ rpc[r] = "billing"}
      BY DEF Open
    <2>2. CASE UNCHANGED <<used, Open>> /\ skew'.down \in Nat /\ skew'.down >= skew.down
      <3>0. skew.down \in Nat
        BY DEF TypeOK
      <3>1. CASE skew'.down = skew.down
        BY <2>1, <2>2, <3>1 DEF Open
      <3>2. CASE skew'.down # skew.down
        <4>1. skew'.down > skew.down
          BY <2>2, <3>0, <3>2
        <4>2. Guard!Slip
          BY <2>2, <4>1 DEF Guard!Slip, Open
        <4> QED
          BY <4>2 DEF Guard!Next
      <3> QED
        BY <3>1, <3>2
    <2>3. ASSUME NEW r \in Requests, r \notin Open,
                 used + OpenSum(Open \cup {r}) <= Limit + skew.down,
                 Open' = Open \cup {r}, UNCHANGED <<used, skew>>
          PROVE  Guard!Next
      <3>1. Guard!Grant(r)
        BY <2>3, SameTotal DEF Guard!Grant, Guard!Room, Open, OpenSum
      <3> QED
        BY <3>1 DEF Guard!Next
    <2>4. ASSUME NEW r \in Open, Open' = Open \ {r}, used' \in {used, used + Actual[r]},
                 UNCHANGED skew
          PROVE  Guard!Next
      <3>1. Guard!Settle(r) /\ r \in Requests
        BY <2>4 DEF Guard!Settle, Open
      <3> QED
        BY <3>1 DEF Guard!Next
    <2>5. ASSUME NEW S \in SUBSET Open, Open' = Open \ S, UNCHANGED <<used, skew>>
          PROVE  Guard!Next
      <3>1. Guard!Abandon(S) /\ S \in SUBSET Requests
        BY <2>5 DEF Guard!Abandon, Open
      <3> QED
        BY <3>1 DEF Guard!Next
    <2> QED
      BY <2>2, <2>3, <2>4, <2>5, PromiseStep
  <1>4. TypeOK /\ ShareParts /\ LimitInv /\ [Next]_vars => LimitInv'
    BY LimitStep
  <1>5. TypeOK /\ ShareParts /\ [Next]_vars => ShareParts'
    BY <1>1, NothingLost, ShareStep
  <1>6. Init => LimitInv
    BY <1>1, LimitInit
  <1> QED
    BY <1>2, <1>3, <1>4, <1>5, <1>6, ShareInit, TypeCorrect, PTL DEF Spec, ImplementsQuotaGuard, Guard!Spec

=============================================================================
