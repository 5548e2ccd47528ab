------------------------------ MODULE AuthCache ------------------------------
(***************************************************************************)
(* What the instances of the gateway believe of one API key: each has an   *)
(* entry in its memory (L1), and they share one in Redis (L2).  Both end   *)
(* by a TTL.  Whoever changes the key deletes the entry of his instance,   *)
(* then that of Redis, then publishes a message on which every instance    *)
(* deletes its own; the message may be lost.  A key is created and updated *)
(* before that, and deleted after it.  A request fills what it misses.     *)
(***************************************************************************)
EXTENDS Naturals

CONSTANTS
  Instances,
  Home,            \* the instance at which the key is changed
  Requests,
  ServedBy,        \* the instance of a request
  MaxKeyChanges,   \* bound: changes of the key
  MaxAuthFaults,   \* bound: failing calls and lost messages
  NoEntry

ASSUME AuthAssumption ==
  /\ Home \in Instances
  /\ ServedBy \in [Requests -> Instances]
  /\ MaxKeyChanges \in Nat /\ MaxAuthFaults \in Nat

VARIABLES
  key,         \* in the database: "none", "on" or "off"
  L1, L2,      \* an entry: the key as it was read, and whether that was too early
  pending,     \* the instances that have yet to hear of an invalidation
  changer,     \* where the change is
  request,     \* where a request is, and what it has read
  keyChanges, authFaults

authVars == <<key, L1, L2, pending, changer, request, keyChanges, authFaults>>

Keys == {"none", "on", "off"}

\* "early": read before a change was made and invalidated, and written after.
Entries == [key : Keys, early : BOOLEAN]

ChangerSteps == {"idle", "delete L1", "delete L2", "publish", "change"}

AuthTypeOK ==
  /\ key \in Keys
  /\ L1 \in [Instances -> Entries \cup {NoEntry}]
  /\ L2 \in Entries \cup {NoEntry}
  /\ pending \subseteq Instances
  /\ changer \in [at : ChangerSteps, deletes : BOOLEAN]
  /\ request \in [Requests -> [at : {"idle", "load", "fill", "share", "write"}, entry : Entries \cup {NoEntry}]]
  /\ keyChanges \in 0 .. MaxKeyChanges
  /\ authFaults \in 0 .. MaxAuthFaults

NoRequest == [at |-> "idle", entry |-> NoEntry]
NoChange == [at |-> "idle", deletes |-> FALSE]

AuthInit ==
  /\ key \in Keys
  /\ L1 = [i \in Instances |-> NoEntry]
  /\ L2 = NoEntry
  /\ pending = {}
  /\ changer = NoChange
  /\ request = [q \in Requests |-> NoRequest]
  /\ keyChanges = 0
  /\ authFaults = 0

AuthFault ==
  /\ authFaults < MaxAuthFaults
  /\ authFaults' = authFaults + 1

\* An entry that differs from the key k has been read too early.
Early(e, k) == IF e = NoEntry \/ e.key = k THEN e ELSE [e EXCEPT !.early = TRUE]

EarlyRequests(k) ==
  request' = [q \in Requests |-> [request[q] EXCEPT !.entry = Early(@, k)]]

-----------------------------------------------------------------------------
(* A change of the key. *)

\* Create and Update: the database, then the caches.
ChangeKey ==
  /\ changer = NoChange
  /\ keyChanges < MaxKeyChanges
  /\ keyChanges' = keyChanges + 1
  /\ \E k \in {"on", "off"} \ {key} : key' = k
  /\ changer' = [at |-> "delete L1", deletes |-> FALSE]
  /\ UNCHANGED <<L1, L2, pending, request, authFaults>>

\* Delete: the caches, then the database.
BeginDelete ==
  /\ changer = NoChange
  /\ keyChanges < MaxKeyChanges
  /\ keyChanges' = keyChanges + 1
  /\ key # "none"
  /\ changer' = [at |-> "delete L1", deletes |-> TRUE]
  /\ UNCHANGED <<key, L1, L2, pending, request, authFaults>>

\* What was read since the caches were emptied was read too early; the write
\* may fail.
DeleteKey ==
  /\ changer.at = "change"
  /\ changer' = NoChange
  /\ \/ /\ key' = "none"
        /\ L1' = [i \in Instances |-> Early(L1[i], "none")]
        /\ L2' = Early(L2, "none")
        /\ EarlyRequests("none")
        /\ UNCHANGED authFaults
     \/ AuthFault /\ UNCHANGED <<key, L1, L2, request>>
  /\ UNCHANGED <<pending, keyChanges>>

Then(at) == changer' = [changer EXCEPT !.at = at]

DeleteL1 ==
  /\ changer.at = "delete L1"
  /\ Then("delete L2")
  /\ L1' = [L1 EXCEPT ![Home] = NoEntry]
  /\ UNCHANGED <<key, L2, pending, request, keyChanges, authFaults>>

\* Mutant of AfterL2: no message is published.
NotPublished == Then(IF changer.deletes THEN "change" ELSE "idle")

AfterL2 == Then("publish")

\* Its error is ignored.
DeleteL2 ==
  /\ changer.at = "delete L2"
  /\ AfterL2
  /\ EarlyRequests(key)
  /\ \/ L2' = NoEntry /\ UNCHANGED authFaults
     \/ AuthFault /\ L2' = Early(L2, key)
  /\ UNCHANGED <<key, L1, pending, keyChanges>>

\* Every instance, this one too, is subscribed.
PublishInvalidation ==
  /\ changer.at = "publish"
  /\ changer' = IF changer.deletes THEN [changer EXCEPT !.at = "change"] ELSE NoChange
  /\ pending' = Instances
  /\ UNCHANGED <<key, L1, L2, request, keyChanges, authFaults>>

\* At most once: a message is lost when its instance is not connected.
HandleInvalidation(i) ==
  /\ i \in pending
  /\ pending' = pending \ {i}
  /\ \/ L1' = [L1 EXCEPT ![i] = NoEntry] /\ UNCHANGED authFaults
     \/ AuthFault /\ L1' = [L1 EXCEPT ![i] = Early(@, key)]
  /\ UNCHANGED <<key, L2, changer, request, keyChanges>>

-----------------------------------------------------------------------------
(* A request that misses its L1. *)

GetAuthCacheEntry(q) ==
  /\ request[q].at = "idle"
  /\ L1[ServedBy[q]] = NoEntry
  /\ request' = [request EXCEPT ![q] = IF L2 = NoEntry THEN [at |-> "load", entry |-> NoEntry]
                                       ELSE [at |-> "fill", entry |-> L2]]
  /\ UNCHANGED <<key, L1, L2, pending, changer, keyChanges, authFaults>>

\* A key that is not found is remembered, too; or the database fails.
LoadAuthCacheEntry(q) ==
  /\ request[q].at = "load"
  /\ \/ /\ request' = [request EXCEPT ![q] = [at |-> "share", entry |-> [key |-> key, early |-> FALSE]]]
        /\ UNCHANGED authFaults
     \/ /\ AuthFault
        /\ request' = [request EXCEPT ![q] = NoRequest]
  /\ UNCHANGED <<key, L1, L2, pending, changer, keyChanges>>

\* setAuthCacheEntry: first its memory, then Redis with what came from the
\* database.
SetAuthCacheL1(q) ==
  /\ request[q].at \in {"fill", "share"}
  /\ L1' = [L1 EXCEPT ![ServedBy[q]] = request[q].entry]
  /\ request' = [request EXCEPT ![q] = IF request[q].at = "fill" THEN NoRequest
                                       ELSE [request[q] EXCEPT !.at = "write"]]
  /\ UNCHANGED <<key, L2, pending, changer, keyChanges, authFaults>>

SetAuthCacheL2(q) ==
  /\ request[q].at = "write"
  /\ request' = [request EXCEPT ![q] = NoRequest]
  /\ \/ L2' = request[q].entry /\ UNCHANGED authFaults
     \/ AuthFault /\ UNCHANGED L2
  /\ UNCHANGED <<key, L1, pending, changer, keyChanges>>

\* Mutant of L2Expires: entries in Redis have no TTL.
L2Stays == FALSE /\ UNCHANGED authVars

L1Expires(i) ==
  /\ L1[i] # NoEntry
  /\ L1' = [L1 EXCEPT ![i] = NoEntry]
  /\ UNCHANGED <<key, L2, pending, changer, request, keyChanges, authFaults>>

L2Expires ==
  /\ L2 # NoEntry
  /\ L2' = NoEntry
  /\ UNCHANGED <<key, L1, pending, changer, request, keyChanges, authFaults>>

-----------------------------------------------------------------------------
Changes == DeleteL1 \/ DeleteL2 \/ PublishInvalidation \/ DeleteKey
Serves(q) == LoadAuthCacheEntry(q) \/ SetAuthCacheL1(q) \/ SetAuthCacheL2(q)

AuthNext ==
  \/ ChangeKey \/ BeginDelete \/ Changes
  \/ \E i \in Instances : HandleInvalidation(i) \/ L1Expires(i)
  \/ L2Expires
  \/ \E q \in Requests : GetAuthCacheEntry(q) \/ Serves(q)

AuthSpec == AuthInit /\ [][AuthNext]_authVars

Wrong(e) == e # NoEntry /\ ~e.early /\ e.key # key

\* When a change and its invalidation are over, an instance accepts the key by
\* an older state only from an entry that was read too early, or that a lost
\* message or a failing call has left: no order of fills from the database and
\* from Redis, at any instance, revives it (deleteAuthCache).
StaleOnlyByOverlap ==
  /\ Wrong(L2) => changer.at \in {"delete L1", "delete L2"}
  /\ \A i \in Instances :
       Wrong(L1[i]) => changer.at \in {"delete L1", "delete L2", "publish"} \/ i \in pending

\* No instance, nor Redis, has anything but what the database has.
EntriesAgree ==
  \A e \in {L2} \cup {L1[i] : i \in Instances} : e # NoEntry => e.key = key
=============================================================================
