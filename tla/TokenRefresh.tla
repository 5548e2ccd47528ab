---------------------------- MODULE TokenRefresh ----------------------------
(***************************************************************************)
(* The OAuth tokens of one Anthropic account.  A refresh spends the        *)
(* refresh token, whose successor is only in the answer, so tokens are     *)
(* numbered by generation.  The background worker refreshes what it has    *)
(* listed, without a lock; a request that finds no access token in the     *)
(* cache refreshes one that is about to expire, behind a lock if it can.   *)
(* All of them, administrators, and requests whose token is refused, write *)
(* the whole row.  A version in the row tells requests that the worker has *)
(* replaced what they hold.                                                *)
(*                                                                         *)
(* Left out: a second refresher without a lock (the worker of another      *)
(* instance, an administrator's RefreshAccountCredentials), and tokens from *)
(* elsewhere (typed in, or taken over from CRS).                           *)
(***************************************************************************)
EXTENDS Naturals

CONSTANTS
  Providers,       \* requests that ask for the access token
  MaxTokens,       \* bound: refreshes
  MaxTokenFaults,  \* bound: failing calls, refused tokens, administrators' edits
  NoToken

ASSUME TokenAssumption ==
  /\ MaxTokens \in Nat /\ MaxTokenFaults \in Nat
  /\ NoToken \notin Nat

VARIABLES
  upstream,     \* the generation whose refresh token is accepted
  row,          \* the account in the database
  nearExpiry,   \* access tokens of earlier generations are about to expire
  tokenCache,   \* the generation in the cache, and whether a save overtook it
  refreshLock,
  worker,       \* the background worker, and the row it has listed
  provider,     \* where a request is, the account it works on, and the handler's
  editor,       \* the row an administrator edits
  invalidated,  \* the generation the worker has last announced
  lost,         \* a refresh token was not received, not saved, or overwritten
  tokenFaults

tokenVars == <<upstream, row, nearExpiry, tokenCache, refreshLock, worker,
               provider, editor, invalidated, lost, tokenFaults>>

Tokens == 0 .. MaxTokens
Rows == [token : Tokens, version : Tokens, active : BOOLEAN, expired : BOOLEAN]

TokenTypeOK ==
  /\ upstream \in Tokens
  /\ row \in Rows
  /\ nearExpiry \in Tokens
  /\ tokenCache \in [token : Tokens, overtaken : BOOLEAN] \cup {NoToken}
  /\ refreshLock \in BOOLEAN
  /\ worker \in [at : {"idle", "refresh", "save", "invalidate"}, account : Rows \cup {NoToken}]
  /\ provider \in [Providers ->
       [at : {"idle", "start", "locked", "unlocked", "wait", "refresh", "save", "check", "set",
              "sent", "refused", "disable"},
        account : Rows \cup {NoToken}, own : Rows \cup {NoToken}, holds : BOOLEAN, checked : Tokens]]
  /\ editor \in Rows \cup {NoToken}
  /\ invalidated \in Tokens
  /\ lost \in BOOLEAN
  /\ tokenFaults \in 0 .. MaxTokenFaults

NoWork == [at |-> "idle", account |-> NoToken]
NotAsking == [at |-> "idle", account |-> NoToken, own |-> NoToken, holds |-> FALSE, checked |-> 0]

TokenInit ==
  /\ upstream = 0
  /\ row = [token |-> 0, version |-> 0, active |-> TRUE, expired |-> FALSE]
  /\ nearExpiry = 0
  /\ tokenCache = NoToken
  /\ refreshLock = FALSE
  /\ worker = NoWork
  /\ provider = [p \in Providers |-> NotAsking]
  /\ editor = NoToken
  /\ invalidated = 0
  /\ lost = FALSE
  /\ tokenFaults = 0

TokenFault ==
  /\ tokenFaults < MaxTokenFaults
  /\ tokenFaults' = tokenFaults + 1

-----------------------------------------------------------------------------
(* The provider, external: a refresh token works once. *)

NearExpiry(acc) == acc.expired \/ acc.token < nearExpiry

\* Bound: tokens of the last generation do not come near their end.
TimePasses ==
  /\ nearExpiry <= upstream /\ nearExpiry < MaxTokens
  /\ nearExpiry' = nearExpiry + 1
  /\ UNCHANGED <<upstream, row, tokenCache, refreshLock, worker, provider, editor, invalidated, lost, tokenFaults>>

\* Mutant of Renewed: the new refresh token is not taken from the answer.
AccessTokenOnly(acc) == acc

\* The account with the tokens of the answer.
Renewed(acc) == [acc EXCEPT !.token = upstream + 1, !.expired = FALSE]

Accepts(acc) == acc.token = upstream /\ upstream < MaxTokens

\* Who is about to ask for new tokens, with the row he has.
Refreshing ==
  {w \in {worker} \cup {provider[p] : p \in Providers} : w.at = "refresh"}

\* The refresh token is spent, and the answer does not arrive.
AnswerLost ==
  /\ \E w \in Refreshing : Accepts(w.account)
  /\ TokenFault
  /\ upstream' = upstream + 1
  /\ lost' = TRUE
  /\ UNCHANGED <<row, nearExpiry, tokenCache, refreshLock, worker, provider, editor, invalidated>>

-----------------------------------------------------------------------------
(* TokenRefreshService. *)

ListActive ==
  /\ worker = NoWork
  /\ row.active
  /\ worker' = [at |-> "refresh", account |-> row]
  /\ UNCHANGED <<upstream, row, nearExpiry, tokenCache, refreshLock, provider, editor, invalidated, lost, tokenFaults>>

\* Mutant of NewVersion: the row keeps its version.
KeptVersion(acc) == acc.version

\* The time in milliseconds: later than any version so far.
NewVersion(acc) == upstream + 1

WorkerRefreshes ==
  /\ worker.at = "refresh"
  /\ Accepts(worker.account)
  /\ upstream' = upstream + 1
  /\ worker' = [at |-> "save",
                account |-> [Renewed(worker.account) EXCEPT !.version = NewVersion(worker.account)]]
  /\ UNCHANGED <<row, nearExpiry, tokenCache, refreshLock, provider, editor, invalidated, lost, tokenFaults>>

\* Refused or unreachable, to the last attempt: the account is put in error,
\* unless that write fails.
WorkerIsRefused ==
  /\ worker.at = "refresh"
  /\ \/ worker.account.token # upstream /\ UNCHANGED tokenFaults
     \/ TokenFault
  /\ row' \in {row, [row EXCEPT !.active = FALSE]}
  /\ worker' = NoWork
  /\ UNCHANGED <<upstream, nearExpiry, tokenCache, refreshLock, provider, editor, invalidated, lost>>

\* A save that fails ends the attempt, and the answer is gone.
WorkerSaves ==
  /\ worker.at = "save"
  /\ \/ /\ row' = worker.account
        /\ worker' = [worker EXCEPT !.at = "invalidate"]
        /\ UNCHANGED <<lost, tokenFaults>>
     \/ /\ TokenFault
        /\ lost' = TRUE
        /\ worker' = NoWork
        /\ UNCHANGED row
  /\ UNCHANGED <<upstream, nearExpiry, tokenCache, refreshLock, provider, editor, invalidated>>

\* Mutant of Cleared: the cached token is left to its TTL.
NotCleared(c) == c

Cleared(c) == NoToken

\* InvalidateToken; its error is only logged.
InvalidateToken ==
  /\ worker.at = "invalidate"
  /\ invalidated' = worker.account.token
  /\ worker' = NoWork
  /\ \/ tokenCache' = Cleared(tokenCache) /\ UNCHANGED tokenFaults
     \/ /\ TokenFault
        /\ tokenCache' = IF tokenCache = NoToken THEN NoToken ELSE [tokenCache EXCEPT !.overtaken = TRUE]
  /\ UNCHANGED <<upstream, row, nearExpiry, refreshLock, provider, editor, lost>>

-----------------------------------------------------------------------------
(* ClaudeTokenProvider.GetAccessToken, and the request it is called for. *)

Reaches(p, from, record) ==
  /\ provider[p].at = from
  /\ provider' = [provider EXCEPT ![p] = record]

InHand(p) == provider[p].account

\* The handler's account: own, once GetByID has brought another one, and else the
\* very object that is worked on.
OwnAccount(p) == IF provider[p].own = NoToken THEN InHand(p) ELSE provider[p].own

\* The access token is there, and the request is sent.
Sent(p) == [NotAsking EXCEPT !.at = "sent", !.account = OwnAccount(p)]

\* A request comes with an account that was read some time ago, and any before it
\* has had its answer.
Ask(p) ==
  /\ \E from \in {"idle", "sent"} :
       Reaches(p, from, [NotAsking EXCEPT !.at = "start", !.account = row])
  /\ UNCHANGED <<upstream, row, nearExpiry, tokenCache, refreshLock, worker, editor, invalidated, lost, tokenFaults>>

\* The cache, then the lock: it may be free, taken, or Redis may not answer.
TryCache(p) ==
  /\ provider[p].at = "start"
  /\ \/ /\ tokenCache # NoToken
        /\ Reaches(p, "start", Sent(p))
        /\ UNCHANGED <<refreshLock, tokenFaults>>
     \/ /\ tokenCache = NoToken /\ ~NearExpiry(InHand(p))
        /\ Reaches(p, "start", [provider[p] EXCEPT !.at = "check"])
        /\ UNCHANGED <<refreshLock, tokenFaults>>
     \/ /\ tokenCache = NoToken /\ NearExpiry(InHand(p))
        /\ \/ /\ ~refreshLock /\ refreshLock' = TRUE
              /\ Reaches(p, "start", [provider[p] EXCEPT !.at = "locked", !.holds = TRUE])
              /\ UNCHANGED tokenFaults
           \/ /\ refreshLock /\ UNCHANGED <<refreshLock, tokenFaults>>
              /\ Reaches(p, "start", [provider[p] EXCEPT !.at = "wait"])
           \/ /\ TokenFault /\ UNCHANGED refreshLock
              /\ Reaches(p, "start", [provider[p] EXCEPT !.at = "unlocked"])
  /\ UNCHANGED <<upstream, row, nearExpiry, tokenCache, worker, editor, invalidated, lost>>

\* The deferred release deletes the lock, whoever has it by now.
Return(p, from) ==
  /\ Reaches(p, from, Sent(p))
  /\ refreshLock' = IF provider[p].holds THEN FALSE ELSE refreshLock

LockLapses ==
  /\ refreshLock
  /\ refreshLock' = FALSE
  /\ UNCHANGED <<upstream, row, nearExpiry, tokenCache, worker, provider, editor, invalidated, lost, tokenFaults>>

\* Behind the lock, or after waiting for it, the cache is looked at again.
LooksAgain(p, from) ==
  /\ from \in {"locked", "wait"}
  /\ tokenCache # NoToken
  /\ Return(p, from)
  /\ UNCHANGED <<upstream, row, nearExpiry, tokenCache, worker, editor, invalidated, lost, tokenFaults>>

\* Whoever did not get the lock goes on with what he has.
GivesUpWaiting(p) ==
  /\ tokenCache = NoToken
  /\ Reaches(p, "wait", [provider[p] EXCEPT !.at = "check"])
  /\ UNCHANGED <<upstream, row, nearExpiry, tokenCache, refreshLock, worker, editor, invalidated, lost, tokenFaults>>

\* With the lock, or without Redis, the account is read again; if that fails the
\* handler's own is kept.
GetByID(p, from) ==
  /\ from = "unlocked" \/ (from = "locked" /\ tokenCache = NoToken)
  /\ \/ /\ Reaches(p, from, [provider[p] EXCEPT !.account = row, !.own = InHand(p),
                               !.at = IF NearExpiry(row) THEN "refresh" ELSE "check"])
        /\ UNCHANGED tokenFaults
     \/ /\ TokenFault
        /\ Reaches(p, from, [provider[p] EXCEPT !.at = IF NearExpiry(InHand(p)) THEN "refresh" ELSE "check"])
  /\ UNCHANGED <<upstream, row, nearExpiry, tokenCache, refreshLock, worker, editor, invalidated, lost>>

\* A refusal is no error: the token in hand is used.
ProviderRefreshes(p) ==
  /\ \/ /\ provider[p].at = "refresh"
        /\ Accepts(InHand(p))
        /\ upstream' = upstream + 1
        /\ Reaches(p, "refresh", [provider[p] EXCEPT !.at = "save", !.account = Renewed(@)])
        /\ UNCHANGED tokenFaults
     \/ /\ provider[p].at = "refresh"
        /\ \/ InHand(p).token # upstream /\ UNCHANGED tokenFaults
           \/ TokenFault
        /\ Reaches(p, "refresh", [provider[p] EXCEPT !.at = "check"])
        /\ UNCHANGED upstream
  /\ UNCHANGED <<row, nearExpiry, tokenCache, refreshLock, worker, editor, invalidated, lost>>

\* The whole row, with the version it had; an error is only logged.
ProviderSaves(p) ==
  /\ Reaches(p, "save", [provider[p] EXCEPT !.at = "check"])
  /\ \/ row' = InHand(p) /\ UNCHANGED <<lost, tokenFaults>>
     \/ TokenFault /\ lost' = TRUE /\ UNCHANGED row
  /\ UNCHANGED <<upstream, nearExpiry, tokenCache, refreshLock, worker, editor, invalidated>>

\* Mutant of IsStale: whatever is in hand is cached.
NeverStale(p) == p \notin Providers

\* The worker has replaced what the request holds.
IsStale(p) == row.version > InHand(p).version

\* A stale token is not cached; nor is the check made when the row is not read.
CheckTokenVersion(p) ==
  /\ provider[p].at = "check"
  /\ \/ IsStale(p) /\ Return(p, "check") /\ UNCHANGED tokenFaults
     \/ /\ ~IsStale(p)
        /\ Reaches(p, "check", [provider[p] EXCEPT !.at = "set", !.checked = invalidated])
        /\ UNCHANGED <<refreshLock, tokenFaults>>
     \/ /\ TokenFault
        /\ Reaches(p, "check", [provider[p] EXCEPT !.at = "set", !.checked = 0])
        /\ UNCHANGED refreshLock
  /\ UNCHANGED <<upstream, row, nearExpiry, tokenCache, worker, editor, invalidated, lost>>

SetAccessToken(p) ==
  /\ Return(p, "set")
  /\ tokenCache' = [token |-> InHand(p).token, overtaken |-> provider[p].checked < invalidated]
  /\ UNCHANGED <<upstream, row, nearExpiry, worker, editor, invalidated, lost, tokenFaults>>

TTLEnds ==
  /\ tokenCache # NoToken
  /\ tokenCache' = NoToken
  /\ UNCHANGED <<upstream, row, nearExpiry, refreshLock, worker, provider, editor, invalidated, lost, tokenFaults>>

-----------------------------------------------------------------------------
(* RateLimitService.HandleUpstreamError, for a request that has been sent. *)

\* A 401: the cached token is dropped, but an error is only logged.
Unauthorized(p) ==
  /\ Reaches(p, "sent", [provider[p] EXCEPT !.at = "refused"])
  /\ TokenFault
  /\ tokenCache' \in {tokenCache, NoToken}
  /\ UNCHANGED <<upstream, row, nearExpiry, refreshLock, worker, editor, invalidated, lost>>

\* The handler's account, made to expire, is written with all its credentials, or
\* not, which is only logged: no lock, and no look at the version.
WritesBackAccount(p) ==
  /\ Reaches(p, "refused", [NotAsking EXCEPT !.at = "disable"])
  /\ \/ /\ row' = [InHand(p) EXCEPT !.expired = TRUE]
        /\ lost' = (lost \/ row.token # InHand(p).token)
     \/ UNCHANGED <<row, lost>>
  /\ UNCHANGED <<upstream, nearExpiry, tokenCache, refreshLock, worker, editor, invalidated, tokenFaults>>

\* handleAuthError puts the account in error, unless that write fails.
HandleAuthError(p) ==
  /\ Reaches(p, "disable", NotAsking)
  /\ row' \in {row, [row EXCEPT !.active = FALSE]}
  /\ UNCHANGED <<upstream, nearExpiry, tokenCache, refreshLock, worker, editor, invalidated, lost, tokenFaults>>

-----------------------------------------------------------------------------
(* An administrator reads an account, and writes all of it back. *)

EditReadsAccount ==
  /\ editor = NoToken
  /\ TokenFault
  /\ editor' = row
  /\ UNCHANGED <<upstream, row, nearExpiry, tokenCache, refreshLock, worker, provider, invalidated, lost>>

EditWritesAccount ==
  /\ editor # NoToken
  /\ \E status \in BOOLEAN : row' = [editor EXCEPT !.active = status]
  /\ lost' = (lost \/ row.token # editor.token)
  /\ editor' = NoToken
  /\ UNCHANGED <<upstream, nearExpiry, tokenCache, refreshLock, worker, provider, invalidated, tokenFaults>>

-----------------------------------------------------------------------------
GetAccessToken(p) ==
  \/ Ask(p) \/ TryCache(p)
  \/ \E from \in {"locked", "unlocked", "wait"} : LooksAgain(p, from) \/ GetByID(p, from)
  \/ GivesUpWaiting(p)
  \/ ProviderRefreshes(p) \/ ProviderSaves(p)
  \/ CheckTokenVersion(p) \/ SetAccessToken(p)

HandleUpstreamError(p) ==
  Unauthorized(p) \/ WritesBackAccount(p) \/ HandleAuthError(p)

TokenNext ==
  \/ TimePasses \/ AnswerLost \/ LockLapses \/ TTLEnds
  \/ ListActive \/ WorkerRefreshes \/ WorkerIsRefused \/ WorkerSaves \/ InvalidateToken
  \/ \E p \in Providers : GetAccessToken(p) \/ HandleUpstreamError(p)
  \/ EditReadsAccount \/ EditWritesAccount

TokenSpec == TokenInit /\ [][TokenNext]_tokenVars

\* The refresh token that the provider accepts is in the database or in the
\* hands of who is about to save it, however the worker, requests with the lock,
\* without it and after it has lapsed overlap: only an answer that did not arrive, a
\* save that failed, or an older row that was written back, by an administrator or
\* by a request refused with a 401, loses it.
RefreshTokenKept ==
  \/ lost
  \/ row.token = upstream
  \/ worker.at = "save" /\ worker.account.token = upstream
  \/ \E p \in Providers : provider[p].at = "save" /\ InHand(p).token = upstream

\* A token that the worker has replaced and cleared from the cache does not come
\* back to it, but from a request that had made its check before the worker's
\* save, or when a refresh token was lost: an older row, written back by an
\* administrator or after a 401, has its older version back as well
\* (CheckTokenVersion, InvalidateToken).
ReplacedTokenNotCached ==
  \/ tokenCache = NoToken \/ lost
  \/ tokenCache.token >= invalidated \/ tokenCache.overtaken
=============================================================================
