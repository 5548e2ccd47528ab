------------------------- MODULE SchedulerSnapshot -------------------------
(***************************************************************************)
(* The accounts of one bucket that may be scheduled, kept in Redis beside  *)
(* the database.  A snapshot is a sorted set under a version of its own,   *)
(* and a key names the active version; every account also has a payload.   *)
(* A change of an account leaves an event in the outbox.  Three kinds of   *)
(* writers load the accounts and publish a snapshot: the worker that polls *)
(* the outbox and the one that rebuilds at an interval, both behind a lock *)
(* that nobody releases, and a request that gets no snapshot, without it.  *)
(*                                                                         *)
(* A version is only compared for equality, so INCR is drawing one that    *)
(* nobody knows of.  Payloads that the repository writes directly and      *)
(* last_used_at are left out.                                              *)
(***************************************************************************)
EXTENDS Naturals, Sequences, FiniteSets

CONSTANTS
  Accounts,
  Changing,                      \* bound: the accounts that change
  Versions,
  Pollers,                       \* the workers that poll the outbox
  Others,                        \* full rebuilds, or requests that get no snapshot
  MaxDisturbances,               \* bound: changes of accounts and failing calls
  MaxBusy,                       \* bound: writers at work at once
  Absent                         \* no version, no snapshot, no payload

Writers == Pollers \cup Others

ASSUME SnapshotAssumption ==
  /\ MaxDisturbances \in Nat
  /\ MaxBusy \in Nat
  /\ Changing \subseteq Accounts
  /\ Absent \notin Versions
  /\ IsFiniteSet(Writers)
  /\ IsFiniteSet(Versions) => Cardinality(Versions) >= 2 * MaxBusy

VARIABLES
  account,    \* in the database: "on" (schedulable), "off" or "gone"
  outbox,     \* the events: the account of each
  watermark,  \* the last event that has been handled
  active,     \* the active version
  snapshot,   \* per version, the set of accounts in it
  reading,    \* what the writer of the active version had loaded
  payload,    \* per account, its cached state
  bucketLock,
  writer,     \* where a writer is, and what it knows
  snapshotFaults

snapshotVars == <<account, outbox, watermark, active, snapshot, reading, payload,
                  bucketLock, writer, snapshotFaults>>

Schedulable(db) == {a \in Accounts : db[a] = "on"}

WriterStates == {"idle", "event", "account", "lock", "load", "incr", "publish", "delete"}

WriterRecords ==
  [at : WriterStates, seen : [Accounts -> {"on", "off", "gone"}],
   old : Versions \cup {Absent}, version : Versions \cup {Absent},
   pos : 0 .. MaxDisturbances, upto : 0 .. MaxDisturbances]

SnapshotTypeOK ==
  /\ account \in [Accounts -> {"on", "off", "gone"}]
  /\ outbox \in Seq(Accounts) /\ Len(outbox) <= MaxDisturbances
  /\ watermark \in 0 .. Len(outbox)
  /\ active \in Versions \cup {Absent}
  /\ snapshot \in [Versions -> (SUBSET Accounts) \cup {Absent}]
  /\ reading \subseteq Accounts
  /\ payload \in [Accounts -> {"on", "off", Absent}]
  /\ bucketLock \in BOOLEAN
  /\ writer \in [Writers -> WriterRecords]
  /\ snapshotFaults \in 0 .. MaxDisturbances

\* What a writer knows at rest is put back to the same values.
Resting ==
  [at |-> "idle", seen |-> [a \in Accounts |-> "off"], old |-> Absent,
   version |-> Absent, pos |-> 0, upto |-> 0]

\* What a reading of the accounts in S keeps of the database.
Noticed(db, S) == [a \in Accounts |-> IF a \in S THEN db[a] ELSE "off"]

SnapshotInit ==
  /\ account \in [Accounts -> {"on", "off"}]
  /\ \A a \in Changing : account[a] = "on"
  /\ outbox = <<>>
  /\ watermark = 0
  /\ active = Absent
  /\ snapshot = [v \in Versions |-> Absent]
  /\ reading = {}
  /\ payload = [a \in Accounts |-> Absent]
  /\ bucketLock = FALSE
  /\ writer = [w \in Writers |-> Resting]
  /\ snapshotFaults = 0

-----------------------------------------------------------------------------
MayDisturb == Len(outbox) + snapshotFaults < MaxDisturbances

\* An account changes; the error of writing its event is ignored.
ChangeAccount(a, s) ==
  /\ MayDisturb
  /\ account[a] \notin {s, "gone"}
  /\ account' = [account EXCEPT ![a] = s]
  /\ \/ outbox' = Append(outbox, a) /\ UNCHANGED snapshotFaults
     \/ snapshotFaults' = snapshotFaults + 1 /\ UNCHANGED outbox
  /\ UNCHANGED <<watermark, active, snapshot, reading, payload, bucketLock, writer>>

\* Mutant of LockExpires30s: the lock is set without a TTL.
LockStays == FALSE /\ UNCHANGED snapshotVars

\* The lock of a bucket ends only by its TTL.
LockExpires30s ==
  /\ bucketLock
  /\ bucketLock' = FALSE
  /\ UNCHANGED <<account, outbox, watermark, active, snapshot, reading, payload,
                 writer, snapshotFaults>>

-----------------------------------------------------------------------------
Goes(w, from, record) ==
  /\ writer[w].at = from
  /\ writer' = [writer EXCEPT ![w] = record]

database == <<account, outbox>>

\* checkOutboxLag: events that were old, or many, make a poll rebuild once more.
AfterPoll == {"idle", "lock"}

\* The next event of a poll, or the end of it, which moves the watermark.
Finishes(w, from) ==
  LET me == writer[w] IN
  \/ /\ me.pos < me.upto
     /\ Goes(w, from, [Resting EXCEPT !.at = "event", !.pos = me.pos + 1, !.upto = me.upto])
     /\ UNCHANGED watermark
  \/ /\ me.upto = 0
     /\ Goes(w, from, Resting)
     /\ UNCHANGED watermark
  \/ /\ me.upto > 0 /\ me.pos = me.upto
     /\ \E next \in AfterPoll : Goes(w, from, [Resting EXCEPT !.at = next])
     /\ watermark' = me.upto

\* A writer begins only while fewer than MaxBusy are at work.
MayBegin == Cardinality({w \in Writers : writer[w].at # "idle"}) < MaxBusy

PollOutbox(w) ==
  /\ MayBegin
  /\ watermark < Len(outbox)
  /\ Goes(w, "idle", [Resting EXCEPT !.at = "event", !.pos = watermark + 1, !.upto = Len(outbox)])
  /\ UNCHANGED <<database, watermark, active, snapshot, reading, payload, bucketLock, snapshotFaults>>

\* handleAccountEvent reads the account ...
ReadAccount(w) ==
  /\ Goes(w, "event", [writer[w] EXCEPT !.at = "account", !.seen = Noticed(account, {outbox[writer[w].pos]})])
  /\ UNCHANGED <<database, watermark, active, snapshot, reading, payload, bucketLock, snapshotFaults>>

\* ... and writes its payload, or deletes that of an account that is gone.
CacheAccount(w) ==
  LET a == outbox[writer[w].pos]
      s == writer[w].seen[a]
  IN
  /\ Goes(w, "account", [writer[w] EXCEPT !.at = "lock", !.seen = Resting.seen])
  /\ payload' = [payload EXCEPT ![a] = IF s = "gone" THEN Absent ELSE s]
  /\ UNCHANGED <<database, watermark, active, snapshot, reading, bucketLock, snapshotFaults>>

TriggerFullRebuild(w) ==
  /\ MayBegin
  /\ Goes(w, "idle", [Resting EXCEPT !.at = "lock"])
  /\ UNCHANGED <<database, watermark, active, snapshot, reading, payload, bucketLock, snapshotFaults>>

\* GetSnapshot: no active version, an empty snapshot, or a missing payload.
Misses ==
  \/ active = Absent
  \/ /\ active # Absent
     /\ \/ snapshot[active] \in {Absent, {}}
        \/ \E a \in snapshot[active] : payload[a] = Absent

\* ListSchedulableAccounts loads the accounts itself when GetSnapshot misses, and
\* when its call of Redis fails.
FallBack(w) ==
  /\ MayBegin
  /\ \/ Misses /\ UNCHANGED snapshotFaults
     \/ ~Misses /\ MayDisturb /\ snapshotFaults' = snapshotFaults + 1
  /\ Goes(w, "idle", [Resting EXCEPT !.at = "load"])
  /\ UNCHANGED <<database, watermark, active, snapshot, reading, payload, bucketLock>>

\* A bucket that is locked counts as rebuilt.
TryLockBucket(w) ==
  /\ writer[w].at = "lock"
  /\ IF bucketLock
     THEN Finishes(w, "lock") /\ UNCHANGED bucketLock
     ELSE /\ Goes(w, "lock", [writer[w] EXCEPT !.at = "load"])
          /\ bucketLock' = TRUE
          /\ UNCHANGED watermark
  /\ UNCHANGED <<database, active, snapshot, reading, payload, snapshotFaults>>

LoadAccounts(w) ==
  /\ Goes(w, "load", [writer[w] EXCEPT !.at = "incr", !.seen = Noticed(account, Schedulable(account))])
  /\ UNCHANGED <<database, watermark, active, snapshot, reading, payload, bucketLock, snapshotFaults>>

-----------------------------------------------------------------------------
(* SetSnapshot. *)

\* Mutant of Unknown: a version that another writer has drawn is drawn again.
KnownToOthers(v) == v # active /\ \A w \in Writers : writer[w].old # v

\* A version that no key and no writer names.
Unknown(v) ==
  /\ v # active
  /\ \A w \in Writers : v \notin {writer[w].old, writer[w].version}

\* A snapshot that no key and no writer names is never read: it is left out.
Named(s) ==
  [v \in Versions |-> IF v = active' \/ \E w \in Writers : v \in {writer'[w].old, writer'[w].version}
                     THEN s[v] ELSE Absent]

\* The active version, to be deleted later, and a version of its own.
IncrVersion(w) ==
  /\ LET v == CHOOSE v \in Versions : Unknown(v) IN
     Goes(w, "incr", [writer[w] EXCEPT !.at = "publish", !.old = active, !.version = v])
  /\ UNCHANGED <<database, watermark, active, snapshot, reading, payload, bucketLock, snapshotFaults>>

\* The pipeline: payloads, members of the sorted set, active version.
Pipeline(w) ==
  LET v == writer[w].version
      ids == Schedulable(writer[w].seen)
      there == IF snapshot[v] = Absent THEN {} ELSE snapshot[v]
  IN
  /\ payload' = [a \in Accounts |-> IF a \in ids THEN "on" ELSE payload[a]]
  /\ active' = v
  /\ snapshot' = Named([snapshot EXCEPT ![v] = IF ids = {} THEN {} ELSE there \cup ids])
  /\ reading' = ids

Publish(w) ==
  /\ Goes(w, "publish", [writer[w] EXCEPT !.at = "delete", !.seen = Resting.seen, !.version = Absent])
  /\ Pipeline(w)
  /\ UNCHANGED <<database, watermark, bucketLock, snapshotFaults>>

\* Mutant of Superseded: what is active by now is deleted.
SupersededNow(w) == active

\* The version that was active before this writer drew its own.
Superseded(w) == writer[w].old

\* Its error is ignored.
DeleteSuperseded(w) ==
  LET v == Superseded(w) IN
  /\ writer[w].at = "delete"
  /\ Finishes(w, "delete")
  /\ UNCHANGED <<database, active, reading, payload, bucketLock, snapshotFaults>>
  /\ \E s \in {snapshot, IF v = Absent THEN snapshot ELSE [snapshot EXCEPT ![v] = Absent]} :
       snapshot' = Named(s)

\* A call fails or times out, the pipeline perhaps when it has been executed:
\* the lock stays, the watermark does not move.
WriterFails(w) ==
  /\ writer[w].at \notin {"idle", "delete"}
  /\ MayDisturb
  /\ snapshotFaults' = snapshotFaults + 1
  /\ writer' = [writer EXCEPT ![w] = Resting]
  /\ \/ /\ UNCHANGED <<active, reading, payload>>
        /\ snapshot' = Named(snapshot)
     \/ /\ writer[w].at = "publish"
        /\ Pipeline(w)
  /\ UNCHANGED <<database, watermark, bucketLock>>

-----------------------------------------------------------------------------
Writes(w) ==
  \/ ReadAccount(w) \/ CacheAccount(w)
  \/ TryLockBucket(w)
  \/ LoadAccounts(w) \/ IncrVersion(w) \/ Publish(w) \/ DeleteSuperseded(w)

SnapshotNext ==
  \/ \E a \in Changing, s \in {"on", "off", "gone"} : ChangeAccount(a, s)
  \/ LockExpires30s
  \/ \E w \in Pollers : PollOutbox(w)
  \/ \E w \in Others : TriggerFullRebuild(w) \/ FallBack(w)
  \/ \E w \in Writers : Writes(w) \/ WriterFails(w)

SnapshotSpec == SnapshotInit /\ [][SnapshotNext]_snapshotVars

\* However writers overlap, the active version has its snapshot, and it is what
\* one writer has read of the database: no writer deletes what another one has
\* made active or adds to it (SetSnapshot).
ActiveIsOneReading == active # Absent => snapshot[active] = reading

\* What requests are given is what the database has.
UpToDate ==
  /\ active # Absent
  /\ snapshot[active] = Schedulable(account)
  /\ \A a \in snapshot[active] : payload[a] = "on"
=============================================================================
