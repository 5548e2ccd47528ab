-------------------------- MODULE TokenRefresh_proofs --------------------------
(***************************************************************************)
(* Proofs about TokenRefresh for any requests and any number of refreshes  *)
(* and faults.                                                             *)
(*                                                                         *)
(* As long as nothing is lost, whoever has refreshed and not saved has the *)
(* only copy of the newest token (OnlyCopy), so a save never puts back an  *)
(* older one; the account that a handler keeps, and that is written back   *)
(* after a 401, is among the older ones.  Versions grow with tokens        *)
(* (Monotone), and the row has at least the version that was announced     *)
(* (Announced), so a request that passes the check of the version has no   *)
(* older token than the worker.                                            *)
(***************************************************************************)
EXTENDS TokenRefresh, TLAPS

\* Whoever is at work has an account in hand; the call that puts the account in
\* error only names it.
AtRest == {"idle", "disable"}
Working(w) == w.at \notin AtRest => w.account \in Rows

HandsFull == Working(worker) /\ \A p \in Providers : Working(provider[p])

\* The accounts that a request has: the one it works on, and the handler's.
Knows(p, acc) ==
  \/ provider[p].at \notin AtRest /\ acc = provider[p].account
  \/ provider[p].own # NoToken /\ acc = provider[p].own

\* The accounts that are in the database or in somebody's hands.
InPlay(acc) ==
  \/ acc = row
  \/ editor # NoToken /\ acc = editor
  \/ worker.at # "idle" /\ acc = worker.account
  \/ \E p \in Providers : Knows(p, acc)

\* No token is newer than the provider's, and no version than its token.
Bounded ==
  \A acc \in Rows : InPlay(acc) => acc.token <= upstream /\ acc.version <= acc.token

\* The newer token has the newer version.
Monotone ==
  \A a, b \in Rows : InPlay(a) /\ InPlay(b) /\ a.token <= b.token => a.version <= b.version

Older(w) == w.at \notin AtRest => w.account.token < upstream

\* The row, the account of an edit and those of the handlers are older than the
\* last refresh.
RowsOlder ==
  /\ row.token < upstream
  /\ editor # NoToken => editor.token < upstream
  /\ \A p \in Providers : provider[p].own # NoToken => provider[p].own.token < upstream

\* Who has refreshed and not saved has the newest token, and nobody else has it.
OnlyCopy ==
  /\ worker.at = "save" =>
       /\ worker.account.token = upstream
       /\ RowsOlder
       /\ \A p \in Providers : Older(provider[p])
  /\ \A p \in Providers : provider[p].at = "save" =>
       /\ provider[p].account.token = upstream
       /\ RowsOlder
       /\ Older(worker)
       /\ \A q \in Providers \ {p} : Older(provider[q])

\* The token of the worker's refresh is newer than the one announced last, and
\* carries its own version.
NextToAnnounce ==
  /\ worker.at \in {"save", "invalidate"} =>
       /\ worker.account.version = worker.account.token
       /\ invalidated < worker.account.token
  /\ invalidated <= upstream
  /\ \A p \in Providers : provider[p].checked <= invalidated

\* The row has at least the version that was, or is about to be, announced.
Announced ==
  /\ row.version >= invalidated
  /\ worker.at = "invalidate" => row.version >= worker.account.token

\* Who has made his check after the last announcement caches no older token.
CheckedToken ==
  \A p \in Providers :
    provider[p].at = "set" /\ provider[p].checked = invalidated => provider[p].account.token >= invalidated

HandsInv ==
  /\ Bounded /\ Monotone /\ NextToAnnounce
  /\ ~lost => OnlyCopy /\ RefreshTokenKept /\ Announced /\ CheckedToken

TokenInv == TokenTypeOK /\ HandsFull /\ HandsInv /\ ReplacedTokenNotCached

-----------------------------------------------------------------------------
LEMMA RowFields ==
  ASSUME NEW acc \in Rows
  PROVE  /\ acc.token \in Tokens /\ acc.version \in Tokens
         /\ acc.active \in BOOLEAN /\ acc.expired \in BOOLEAN
         /\ acc.token \in Nat /\ acc.version \in Nat
  BY TokenAssumption DEF Rows, Tokens

LEMMA ChangedRow ==
  ASSUME NEW acc \in Rows, NEW t \in Tokens, NEW b \in BOOLEAN
  PROVE  /\ [acc EXCEPT !.token = t, !.expired = b] \in Rows
         /\ [acc EXCEPT !.version = t] \in Rows
         /\ [acc EXCEPT !.active = b] \in Rows
         /\ [acc EXCEPT !.expired = b] \in Rows
         /\ [acc EXCEPT !.token = t, !.expired = b].token = t
         /\ [acc EXCEPT !.token = t, !.expired = b].version = acc.version
         /\ [acc EXCEPT !.version = t].version = t
         /\ [acc EXCEPT !.version = t].token = acc.token
         /\ [acc EXCEPT !.active = b].token = acc.token
         /\ [acc EXCEPT !.active = b].version = acc.version
         /\ [acc EXCEPT !.expired = b].token = acc.token
         /\ [acc EXCEPT !.expired = b].version = acc.version
  BY DEF Rows

\* A refresh gives the account the next token; the worker gives it a version, too.
LEMMA RenewedRow ==
  ASSUME TokenTypeOK, NEW acc \in Rows, Accepts(acc)
  PROVE  /\ upstream + 1 \in Tokens
         /\ Renewed(acc) \in Rows
         /\ Renewed(acc).token = upstream + 1 /\ Renewed(acc).version = acc.version
         /\ [Renewed(acc) EXCEPT !.version = NewVersion(acc)] \in Rows
         /\ [Renewed(acc) EXCEPT !.version = NewVersion(acc)].token = upstream + 1
         /\ [Renewed(acc) EXCEPT !.version = NewVersion(acc)].version = upstream + 1
  <1>1. upstream + 1 \in Tokens
    BY TokenAssumption DEF TokenTypeOK, Accepts, Tokens
  <1>2. /\ Renewed(acc) \in Rows
        /\ Renewed(acc).token = upstream + 1 /\ Renewed(acc).version = acc.version
    BY <1>1, ChangedRow DEF Renewed
  <1> QED
    BY <1>1, <1>2, ChangedRow DEF NewVersion

Askings ==
  [at : {"idle", "start", "locked", "unlocked", "wait", "refresh", "save", "check", "set",
         "sent", "refused", "disable"},
   account : Rows \cup {NoToken}, own : Rows \cup {NoToken}, holds : BOOLEAN, checked : Tokens]

\* The records of requests that rest, and of one that has been sent.
LEMMA AtRestOrSent ==
  ASSUME TokenTypeOK, HandsFull, NEW p \in Providers
  PROVE  /\ NotAsking \in Askings
         /\ NotAsking.at = "idle" /\ NotAsking.own = NoToken /\ NotAsking.checked = 0
         /\ [NotAsking EXCEPT !.at = "disable"] \in Askings
         /\ [NotAsking EXCEPT !.at = "disable"].at = "disable"
         /\ [NotAsking EXCEPT !.at = "disable"].own = NoToken
         /\ [NotAsking EXCEPT !.at = "disable"].checked = 0
         /\ provider[p].at \notin AtRest =>
              /\ Sent(p) \in Askings
              /\ Sent(p).at = "sent" /\ Sent(p).own = NoToken /\ Sent(p).checked = 0
              /\ Sent(p).account \in Rows /\ Knows(p, Sent(p).account)
  <1>1. /\ NotAsking \in Askings
        /\ NotAsking.at = "idle" /\ NotAsking.own = NoToken /\ NotAsking.checked = 0
    BY TokenAssumption DEF NotAsking, Askings, Tokens
  <1>2. ASSUME provider[p].at \notin AtRest
        PROVE  OwnAccount(p) \in Rows /\ Knows(p, OwnAccount(p))
    <2>1. /\ provider[p].own \in Rows \cup {NoToken}
          /\ provider[p].account \in Rows
      BY <1>2 DEF TokenTypeOK, HandsFull, Working
    <2> QED
      BY <1>2, <2>1 DEF OwnAccount, InHand, Knows
  <1>3. ASSUME NEW acc \in Rows
        PROVE  /\ [NotAsking EXCEPT !.at = "sent", !.account = acc] \in Askings
               /\ [NotAsking EXCEPT !.at = "sent", !.account = acc].at = "sent"
               /\ [NotAsking EXCEPT !.at = "sent", !.account = acc].account = acc
               /\ [NotAsking EXCEPT !.at = "sent", !.account = acc].own = NoToken
               /\ [NotAsking EXCEPT !.at = "sent", !.account = acc].checked = 0
    BY <1>1 DEF Askings
  <1>4. /\ [NotAsking EXCEPT !.at = "disable"] \in Askings
        /\ [NotAsking EXCEPT !.at = "disable"].at = "disable"
        /\ [NotAsking EXCEPT !.at = "disable"].own = NoToken
        /\ [NotAsking EXCEPT !.at = "disable"].checked = 0
    BY <1>1 DEF Askings
  <1>5. provider[p].at \notin AtRest =>
          /\ Sent(p) \in Askings
          /\ Sent(p).at = "sent" /\ Sent(p).own = NoToken /\ Sent(p).checked = 0
          /\ Sent(p).account \in Rows /\ Knows(p, Sent(p).account)
    BY <1>2, <1>3 DEF Sent
  <1> QED
    BY <1>1, <1>4, <1>5

\* One request goes on, and the others stay where they are.
LEMMA ProviderGoesOn ==
  ASSUME TokenTypeOK, HandsFull, NEW p \in Providers,
         \E r \in Askings : Working(r) /\ provider' = [provider EXCEPT ![p] = r]
  PROVE  /\ provider' \in [Providers -> Askings]
         /\ \A q \in Providers : Working(provider'[q])
  <1>1. provider \in [Providers -> Askings]
    BY DEF TokenTypeOK, Askings
  <1>2. PICK r \in Askings : Working(r) /\ provider' = [provider EXCEPT ![p] = r]
    OBVIOUS
  <1> QED
    BY <1>1, <1>2 DEF HandsFull

\* A step of the requests' side or of anybody else keeps the types, and whoever
\* works has an account in hand.
LEMMA TypeStep ==
  TokenTypeOK /\ HandsFull /\ [TokenNext]_tokenVars => TokenTypeOK' /\ HandsFull'
  <1> SUFFICES ASSUME TokenTypeOK, HandsFull, [TokenNext]_tokenVars
               PROVE  TokenTypeOK' /\ HandsFull'
    OBVIOUS
  <1>0. TokenFault \/ UNCHANGED tokenFaults => tokenFaults' \in 0 .. MaxTokenFaults
    BY TokenAssumption DEF TokenTypeOK, TokenFault
  <1> USE TokenAssumption, <1>0 DEF TokenTypeOK, HandsFull, Working, AtRest
  <1>1. CASE TimePasses
    BY <1>1 DEF TimePasses, Tokens
  <1>2. CASE AnswerLost
    BY <1>2 DEF AnswerLost, Tokens, Accepts
  <1>3. CASE LockLapses \/ TTLEnds
    BY <1>3 DEF LockLapses, TTLEnds
  <1>4. CASE ListActive
    BY <1>4 DEF ListActive
  <1>5. CASE WorkerRefreshes
    <2>1. worker.account \in Rows
      BY <1>5 DEF WorkerRefreshes
    <2> QED
      BY <1>5, <2>1, RenewedRow DEF WorkerRefreshes
  <1>6. CASE WorkerIsRefused
    <2>1. [row EXCEPT !.active = FALSE] \in Rows
      BY ChangedRow
    <2> QED
      BY <1>6, <2>1 DEF WorkerIsRefused, NoWork
  <1>7. CASE WorkerSaves
    <2>1. worker.account \in Rows
      BY <1>7 DEF WorkerSaves
    <2>2. row' \in Rows
      BY <1>7, <2>1 DEF WorkerSaves
    <2>3. lost' \in BOOLEAN /\ tokenFaults' \in 0 .. MaxTokenFaults
      BY <1>7 DEF WorkerSaves
    <2>4. worker' = [worker EXCEPT !.at = "invalidate"] \/ worker' = NoWork
      BY <1>7 DEF WorkerSaves
    <2>5. UNCHANGED <<upstream, nearExpiry, tokenCache, refreshLock, provider, editor, invalidated>>
      BY <1>7 DEF WorkerSaves
    <2> QED
      BY <2>1, <2>2, <2>3, <2>4, <2>5 DEF NoWork
  <1>8. CASE InvalidateToken
    <2>1. worker.account \in Rows
      BY <1>8 DEF InvalidateToken
    <2>2. invalidated' \in Tokens
      BY <1>8, <2>1, RowFields DEF InvalidateToken
    <2>3. tokenCache' \in [token : Tokens, overtaken : BOOLEAN] \cup {NoToken}
      BY <1>8 DEF InvalidateToken, Cleared
    <2> QED
      BY <1>8, <2>2, <2>3 DEF InvalidateToken, NoWork
  <1>9. ASSUME NEW p \in Providers, GetAccessToken(p)
        PROVE  TokenTypeOK' /\ HandsFull'
    <2>0. /\ provider[p] \in Askings
          /\ provider[p].at \notin AtRest => provider[p].account \in Rows
      BY DEF Askings
    <2>s. provider[p].at \notin AtRest => Sent(p) \in Askings /\ Working(Sent(p))
      BY AtRestOrSent
    <2>1. CASE Ask(p)
      <3>1. [NotAsking EXCEPT !.at = "start", !.account = row] \in Askings
        BY AtRestOrSent DEF Askings
      <3>2. [NotAsking EXCEPT !.at = "start", !.account = row].account \in Rows
        BY DEF NotAsking
      <3>3. provider' = [provider EXCEPT ![p] = [NotAsking EXCEPT !.at = "start", !.account = row]]
        BY <2>1 DEF Ask, Reaches
      <3>4. provider' \in [Providers -> Askings] /\ \A q \in Providers : Working(provider'[q])
        BY <3>1, <3>2, <3>3, ProviderGoesOn
      <3> QED
        BY <2>1, <3>4 DEF Ask, Askings
    <2>2. CASE TryCache(p)
      <3>1. /\ refreshLock' \in BOOLEAN /\ tokenFaults' \in 0 .. MaxTokenFaults
            /\ UNCHANGED <<upstream, row, nearExpiry, tokenCache, worker, editor, invalidated, lost>>
        BY <2>2 DEF TryCache
      <3>2. provider[p].at \notin AtRest
        BY <2>2 DEF TryCache, AtRest
      <3>3. \E at \in {"check", "wait", "unlocked"} :
              \/ provider' = [provider EXCEPT ![p] = Sent(p)]
              \/ provider' = [provider EXCEPT ![p] = [provider[p] EXCEPT !.at = "locked", !.holds = TRUE]]
              \/ provider' = [provider EXCEPT ![p] = [provider[p] EXCEPT !.at = at]]
        BY <2>2 DEF TryCache, Reaches
      <3>4. \E r \in Askings : Working(r) /\ provider' = [provider EXCEPT ![p] = r]
        BY <3>2, <3>3, <2>0, <2>s DEF Askings
      <3>5. provider' \in [Providers -> Askings] /\ \A q \in Providers : Working(provider'[q])
        BY <3>4, ProviderGoesOn
      <3> QED
        BY <3>1, <3>5 DEF Askings
    <2>3. ASSUME NEW from \in {"locked", "unlocked", "wait"}, LooksAgain(p, from)
          PROVE  TokenTypeOK' /\ HandsFull'
      <3>1. provider[p].at \notin AtRest /\ provider' = [provider EXCEPT ![p] = Sent(p)]
        BY <2>3 DEF LooksAgain, Return, Reaches, AtRest
      <3>2. \E r \in Askings : Working(r) /\ provider' = [provider EXCEPT ![p] = r]
        BY <3>1, <2>s
      <3>3. provider' \in [Providers -> Askings] /\ \A q \in Providers : Working(provider'[q])
        BY <3>2, ProviderGoesOn
      <3> QED
        BY <2>3, <2>0, <3>3 DEF LooksAgain, Return, Askings
    <2>4. ASSUME NEW from \in {"locked", "unlocked", "wait"}, GetByID(p, from)
          PROVE  TokenTypeOK' /\ HandsFull'
      <3>1. /\ provider[p].at \notin AtRest
            /\ \E at \in {"refresh", "check"} :
                 \/ provider' = [provider EXCEPT ![p] = [provider[p] EXCEPT !.account = row, !.own = InHand(p), !.at = at]]
                 \/ provider' = [provider EXCEPT ![p] = [provider[p] EXCEPT !.at = at]]
        BY <2>4 DEF GetByID, Reaches, AtRest
      <3>2. \E r \in Askings : Working(r) /\ provider' = [provider EXCEPT ![p] = r]
        BY <3>1, <2>0 DEF Askings, InHand
      <3>3. provider' \in [Providers -> Askings] /\ \A q \in Providers : Working(provider'[q])
        BY <3>2, ProviderGoesOn
      <3>4. /\ tokenFaults' \in 0 .. MaxTokenFaults
            /\ UNCHANGED <<upstream, row, nearExpiry, tokenCache, refreshLock, worker, editor, invalidated, lost>>
        BY <2>4 DEF GetByID
      <3> QED
        BY <3>3, <3>4 DEF Askings
    <2>5. CASE GivesUpWaiting(p)
      <3>1. \E r \in Askings : Working(r) /\ provider' = [provider EXCEPT ![p] = r]
        BY <2>5, <2>0 DEF GivesUpWaiting, Reaches, Askings, AtRest
      <3>2. provider' \in [Providers -> Askings] /\ \A q \in Providers : Working(provider'[q])
        BY <3>1, ProviderGoesOn
      <3> QED
        BY <2>5, <3>2 DEF GivesUpWaiting, Askings
    <2>6. CASE ProviderRefreshes(p)
      <3>0. provider[p].account \in Rows
        BY <2>6, <2>0 DEF ProviderRefreshes, Reaches, AtRest
      <3>1. CASE provider[p].at = "refresh" /\ Accepts(InHand(p)) /\ upstream' = upstream + 1
                 /\ Reaches(p, "refresh", [provider[p] EXCEPT !.at = "save", !.account = Renewed(@)])
                 /\ UNCHANGED tokenFaults
        <4>1. upstream' \in Tokens /\ Renewed(provider[p].account) \in Rows
          BY <3>0, <3>1, RenewedRow DEF InHand
        <4>2. \E r \in Askings : Working(r) /\ provider' = [provider EXCEPT ![p] = r]
          BY <3>1, <4>1, <2>0 DEF Reaches, Askings
        <4>3. provider' \in [Providers -> Askings] /\ \A q \in Providers : Working(provider'[q])
          BY <4>2, ProviderGoesOn
        <4> QED
          BY <2>6, <3>1, <4>1, <4>3 DEF ProviderRefreshes, Askings
      <3>2. CASE upstream' = upstream /\ Reaches(p, "refresh", [provider[p] EXCEPT !.at = "check"])
                 /\ (TokenFault \/ UNCHANGED tokenFaults)
        <4>1. \E r \in Askings : Working(r) /\ provider' = [provider EXCEPT ![p] = r]
          BY <3>0, <3>2, <2>0 DEF Reaches, Askings
        <4>2. provider' \in [Providers -> Askings] /\ \A q \in Providers : Working(provider'[q])
          BY <4>1, ProviderGoesOn
        <4> QED
          BY <2>6, <3>2, <4>2 DEF ProviderRefreshes, Askings
      <3> QED
        BY <2>6, <3>1, <3>2 DEF ProviderRefreshes
    <2>7. CASE ProviderSaves(p)
      <3>1. provider[p].account \in Rows
        BY <2>7, <2>0 DEF ProviderSaves, Reaches, AtRest
      <3>2. row' \in Rows /\ lost' \in BOOLEAN /\ tokenFaults' \in 0 .. MaxTokenFaults
        <4>1. CASE row' = InHand(p) /\ UNCHANGED <<lost, tokenFaults>>
          BY <3>1, <4>1 DEF InHand
        <4>2. CASE TokenFault /\ lost' = TRUE /\ UNCHANGED row
          BY <4>2
        <4> QED
          BY <2>7, <4>1, <4>2 DEF ProviderSaves
      <3>3. \E r \in Askings : Working(r) /\ provider' = [provider EXCEPT ![p] = r]
        BY <2>7, <2>0, <3>1 DEF ProviderSaves, Reaches, Askings
      <3>4. provider' \in [Providers -> Askings] /\ \A q \in Providers : Working(provider'[q])
        BY <3>3, ProviderGoesOn
      <3>5. UNCHANGED <<upstream, nearExpiry, tokenCache, refreshLock, worker, editor, invalidated>>
        BY <2>7 DEF ProviderSaves
      <3> QED
        BY <3>2, <3>4, <3>5 DEF Askings
    <2>8. CASE CheckTokenVersion(p)
      <3>1. /\ refreshLock' \in BOOLEAN /\ tokenFaults' \in 0 .. MaxTokenFaults
            /\ UNCHANGED <<upstream, row, nearExpiry, tokenCache, worker, editor, invalidated, lost>>
        BY <2>8, <2>0 DEF CheckTokenVersion, Return, Askings
      <3>2. 0 \in Tokens
        BY TokenAssumption DEF Tokens
      <3>3. /\ provider[p].at \notin AtRest
            /\ \/ provider' = [provider EXCEPT ![p] = Sent(p)]
               \/ \E c \in Tokens :
                    provider' = [provider EXCEPT ![p] = [provider[p] EXCEPT !.at = "set", !.checked = c]]
        BY <2>8, <3>2 DEF CheckTokenVersion, Return, Reaches, AtRest
      <3>4. \E r \in Askings : Working(r) /\ provider' = [provider EXCEPT ![p] = r]
        BY <3>3, <2>0, <2>s DEF Askings
      <3>5. provider' \in [Providers -> Askings] /\ \A q \in Providers : Working(provider'[q])
        BY <3>4, ProviderGoesOn
      <3> QED
        BY <3>1, <3>5 DEF Askings
    <2>9. CASE SetAccessToken(p)
      <3>1. provider[p].at \notin AtRest /\ provider' = [provider EXCEPT ![p] = Sent(p)]
        BY <2>9 DEF SetAccessToken, Return, Reaches, AtRest
      <3>2. tokenCache' \in [token : Tokens, overtaken : BOOLEAN]
        BY <2>9, <2>0, <3>1, RowFields DEF SetAccessToken, InHand, Askings
      <3>3. \E r \in Askings : Working(r) /\ provider' = [provider EXCEPT ![p] = r]
        BY <3>1, <2>s
      <3>4. provider' \in [Providers -> Askings] /\ \A q \in Providers : Working(provider'[q])
        BY <3>3, ProviderGoesOn
      <3> QED
        BY <2>9, <2>0, <3>2, <3>4 DEF SetAccessToken, Return, Askings
    <2> QED
      BY <1>9, <2>1, <2>2, <2>3, <2>4, <2>5, <2>6, <2>7, <2>8, <2>9 DEF GetAccessToken
  <1>10. CASE EditReadsAccount \/ EditWritesAccount
    <2>1. \A status \in BOOLEAN : editor # NoToken => [editor EXCEPT !.active = status] \in Rows
      BY ChangedRow
    <2> QED
      BY <1>10, <2>1 DEF EditReadsAccount, EditWritesAccount
  <1>11. CASE UNCHANGED tokenVars
    BY <1>11 DEF tokenVars
  <1>12. ASSUME NEW p \in Providers, HandleUpstreamError(p)
         PROVE  TokenTypeOK' /\ HandsFull'
    <2>0. /\ provider[p] \in Askings
          /\ provider[p].at \notin AtRest => provider[p].account \in Rows
      BY DEF Askings
    <2>1. \E r \in Askings : Working(r) /\ provider' = [provider EXCEPT ![p] = r]
      <3>1. CASE Unauthorized(p)
        BY <3>1, <2>0 DEF Unauthorized, Reaches, Askings, AtRest
      <3>2. CASE WritesBackAccount(p)
        BY <3>2, AtRestOrSent DEF WritesBackAccount, Reaches, AtRest
      <3>3. CASE HandleAuthError(p)
        BY <3>3, AtRestOrSent DEF HandleAuthError, Reaches, AtRest
      <3> QED
        BY <1>12, <3>1, <3>2, <3>3 DEF HandleUpstreamError
    <2>2. provider' \in [Providers -> Askings] /\ \A q \in Providers : Working(provider'[q])
      BY <2>1, ProviderGoesOn
    <2>3. /\ row' \in Rows /\ lost' \in BOOLEAN
          /\ tokenFaults' \in 0 .. MaxTokenFaults
          /\ tokenCache' \in {tokenCache, NoToken}
          /\ UNCHANGED <<upstream, nearExpiry, refreshLock, worker, editor, invalidated>>
      <3>1. CASE Unauthorized(p)
        BY <3>1 DEF Unauthorized
      <3>2. CASE WritesBackAccount(p)
        <4>1. [InHand(p) EXCEPT !.expired = TRUE] \in Rows
          BY <3>2, <2>0, ChangedRow DEF WritesBackAccount, Reaches, InHand, AtRest
        <4> QED
          BY <3>2, <4>1 DEF WritesBackAccount
      <3>3. CASE HandleAuthError(p)
        <4>1. [row EXCEPT !.active = FALSE] \in Rows
          BY ChangedRow
        <4> QED
          BY <3>3, <4>1 DEF HandleAuthError
      <3> QED
        BY <1>12, <3>1, <3>2, <3>3 DEF HandleUpstreamError
    <2>4. tokenCache' \in [token : Tokens, overtaken : BOOLEAN] \cup {NoToken}
      BY <2>3
    <2> QED
      BY <2>2, <2>3, <2>4 DEF Askings
  <1> QED
    BY <1>1, <1>2, <1>3, <1>4, <1>5, <1>6, <1>7, <1>8, <1>9, <1>10, <1>11, <1>12 DEF TokenNext

-----------------------------------------------------------------------------
(* Accounts in play *)

\* Every account that is in play after a step has the token and the version of
\* one that was in play before it.
NothingNew ==
  \A acc \in Rows : InPlay(acc)' =>
    \E old \in Rows : InPlay(old) /\ old.token = acc.token /\ old.version = acc.version

LEMMA OldAccounts ==
  ASSUME TokenTypeOK, TokenTypeOK', Bounded, Monotone, NothingNew, upstream <= upstream'
  PROVE  Bounded' /\ Monotone'
  <1>1. Bounded'
    <2> SUFFICES ASSUME NEW acc \in Rows, InPlay(acc)'
                 PROVE  acc.token <= upstream' /\ acc.version <= acc.token
      BY DEF Bounded
    <2>1. PICK old \in Rows : InPlay(old) /\ old.token = acc.token /\ old.version = acc.version
      BY DEF NothingNew
    <2>2. old.token <= upstream /\ old.version <= old.token
      BY <2>1 DEF Bounded
    <2> QED
      BY <2>1, <2>2, RowFields DEF TokenTypeOK, Tokens
  <1>2. Monotone'
    <2> SUFFICES ASSUME NEW a \in Rows, NEW b \in Rows, InPlay(a)', InPlay(b)', a.token <= b.token
                 PROVE  a.version <= b.version
      BY DEF Monotone
    <2>1. PICK oldA \in Rows : InPlay(oldA) /\ oldA.token = a.token /\ oldA.version = a.version
      BY DEF NothingNew
    <2>2. PICK oldB \in Rows : InPlay(oldB) /\ oldB.token = b.token /\ oldB.version = b.version
      BY DEF NothingNew
    <2> QED
      BY <2>1, <2>2 DEF Monotone
  <1> QED
    BY <1>1, <1>2

\* A refresh brings one new account into play, made of one that had the newest
\* token.
LEMMA NewAccount ==
  ASSUME TokenTypeOK, Bounded, Monotone,
         NEW old \in Rows, InPlay(old), old.token = upstream,
         NEW new \in Rows, new.token = upstream + 1,
         new.version = old.version \/ new.version = upstream + 1,
         upstream' = upstream + 1,
         \A acc \in Rows : InPlay(acc)' => acc = new \/ InPlay(acc)
  PROVE  Bounded' /\ Monotone'
  <1>0. upstream \in Nat
    BY DEF TokenTypeOK, Tokens
  <1>1. \A acc \in Rows : InPlay(acc) => /\ acc.token <= upstream
                                         /\ acc.version <= acc.token
                                         /\ acc.version <= old.version
    BY <1>0 DEF Bounded, Monotone
  <1>2. old.version <= new.version /\ new.version <= new.token
    BY <1>0, <1>1, RowFields
  <1>3. Bounded'
    <2> SUFFICES ASSUME NEW acc \in Rows, InPlay(acc)'
                 PROVE  acc.token <= upstream' /\ acc.version <= acc.token
      BY DEF Bounded
    <2> QED
      BY <1>0, <1>1, <1>2, RowFields
  <1>4. Monotone'
    <2> SUFFICES ASSUME NEW a \in Rows, NEW b \in Rows, InPlay(a)', InPlay(b)', a.token <= b.token
                 PROVE  a.version <= b.version
      BY DEF Monotone
    <2>1. CASE b = new
      <3>1. a = new \/ a.version <= old.version
        BY <1>1
      <3> QED
        BY <2>1, <3>1, <1>2, RowFields
    <2>2. CASE b # new
      <3>1. InPlay(b) /\ b.token <= upstream
        BY <2>2, <1>1
      <3>2. a # new
        BY <3>1, <1>0, RowFields
      <3> QED
        BY <3>1, <3>2 DEF Monotone
    <2> QED
      BY <2>1, <2>2
  <1> QED
    BY <1>3, <1>4

-----------------------------------------------------------------------------
(* Steps that keep what the hands hold *)

\* A request goes on with an account it has, or with the row, and neither
\* refreshes nor saves.
LEMMA RequestMoves ==
  ASSUME TokenTypeOK, TokenTypeOK', HandsFull, HandsInv, NEW p \in Providers, NEW r,
         provider' = [provider EXCEPT ![p] = r],
         provider[p].at # "save", r.at # "save",
         r.checked <= invalidated,
         r.at \notin AtRest => r.account = row \/ Knows(p, r.account),
         r.own # NoToken => Knows(p, r.own),
         r.at = "set" /\ r.checked = invalidated /\ ~lost => r.account.token >= invalidated,
         UNCHANGED <<upstream, row, worker, editor, invalidated, lost>>
  PROVE  HandsInv'
  <1>0. /\ provider'[p] = r
        /\ \A q \in Providers \ {p} : provider'[q] = provider[q]
    BY DEF TokenTypeOK
  <1>1. NothingNew
    <2> SUFFICES ASSUME NEW acc \in Rows, InPlay(acc)'
                 PROVE  InPlay(acc)
      BY DEF NothingNew
    <2>1. ASSUME NEW q \in Providers, Knows(q, acc)'
          PROVE  acc = row \/ \E s \in Providers : Knows(s, acc)
      <3>1. CASE q = p
        BY <1>0, <2>1, <3>1 DEF Knows
      <3>2. CASE q # p
        BY <1>0, <2>1, <3>2 DEF Knows
      <3> QED
        BY <3>1, <3>2
    <2> QED
      BY <2>1 DEF InPlay
  <1>2. Bounded' /\ Monotone'
    <2>1. upstream <= upstream'
      BY DEF TokenTypeOK, Tokens
    <2> QED
      BY <1>1, <2>1, OldAccounts DEF HandsInv
  <1>3. NextToAnnounce'
    BY <1>0 DEF HandsInv, NextToAnnounce
  <1>4. ASSUME ~lost
        PROVE  OnlyCopy' /\ RefreshTokenKept' /\ Announced' /\ CheckedToken'
    <2>1. OnlyCopy /\ RefreshTokenKept /\ Announced /\ CheckedToken
      BY <1>4 DEF HandsInv
    <2>2. OnlyCopy'
      <3>1. Older(provider[p]) /\ RowsOlder => Older(r) /\ (r.own # NoToken => r.own.token < upstream)
        BY DEF Older, RowsOlder, Knows
      <3>2. Older(provider[p]) /\ RowsOlder => RowsOlder'
        BY <1>0, <3>1 DEF RowsOlder
      <3>3. /\ Older(worker) => Older(worker)'
            /\ \A q \in Providers \ {p} : Older(provider[q]) => Older(provider[q])'
            /\ Older(provider[p])' <=> Older(r)
        BY <1>0 DEF Older
      <3> QED
        BY <1>0, <2>1, <3>1, <3>2, <3>3 DEF OnlyCopy
    <2>3. RefreshTokenKept'
      BY <1>0, <2>1 DEF RefreshTokenKept, InHand
    <2>4. Announced'
      BY <2>1 DEF Announced
    <2>5. CheckedToken'
      BY <1>0, <1>4, <2>1 DEF CheckedToken
    <2> QED
      BY <2>2, <2>3, <2>4, <2>5
  <1> QED
    BY <1>2, <1>3, <1>4 DEF HandsInv

LEMMA HandsUnchanged ==
  ASSUME HandsInv, UNCHANGED <<upstream, row, worker, provider, editor, invalidated, lost>>
  PROVE  HandsInv'
  BY DEF HandsInv, Bounded, Monotone, InPlay, Knows, NextToAnnounce, OnlyCopy, RowsOlder, Older,
         RefreshTokenKept, InHand, Announced, CheckedToken

LEMMA AnswerLostKeeps ==
  ASSUME TokenTypeOK, TokenTypeOK', HandsInv, AnswerLost
  PROVE  HandsInv'
  <1>1. NothingNew /\ upstream <= upstream'
    BY DEF AnswerLost, NothingNew, InPlay, Knows, TokenTypeOK, Tokens
  <1>2. Bounded' /\ Monotone'
    BY <1>1, OldAccounts DEF HandsInv
  <1>3. NextToAnnounce'
    BY DEF AnswerLost, HandsInv, NextToAnnounce, TokenTypeOK, Tokens
  <1>4. lost'
    BY DEF AnswerLost
  <1> QED
    BY <1>2, <1>3, <1>4 DEF HandsInv

\* The worker or an administrator takes the row, the row changes its status or its
\* expiry, or a request that has nothing to save comes to rest.
LEMMA RowTaken ==
  ASSUME TokenTypeOK, TokenTypeOK', HandsFull, HandsInv,
         row'.token = row.token, row'.version = row.version,
         \/ worker' = worker
         \/ worker.at # "save" /\ worker' = NoWork
         \/ worker = NoWork /\ worker' = [at |-> "refresh", account |-> row],
         \A q \in Providers :
           \/ provider'[q] = provider[q]
           \/ /\ provider[q].at # "save"
              /\ provider'[q].at \in AtRest /\ provider'[q].own = NoToken /\ provider'[q].checked = 0,
         editor' \in {editor, row, NoToken},
         UNCHANGED <<upstream, invalidated, lost>>
  PROVE  HandsInv'
  <1>0. /\ \A q \in Providers : provider'[q].at \notin AtRest => provider'[q] = provider[q]
        /\ \A q \in Providers : provider'[q].own # NoToken => provider'[q].own = provider[q].own
        /\ \A q \in Providers : provider[q].at = "save" => provider'[q] = provider[q]
        /\ invalidated \in Nat
    BY DEF TokenTypeOK, Tokens
  <1>1. NothingNew
    <2> SUFFICES ASSUME NEW acc \in Rows, InPlay(acc)'
                 PROVE  \E old \in Rows : InPlay(old) /\ old.token = acc.token /\ old.version = acc.version
      BY DEF NothingNew
    <2>1. CASE acc = row'
      BY <2>1 DEF InPlay, TokenTypeOK
    <2>2. CASE acc # row'
      <3>1. \A q \in Providers : Knows(q, acc)' => Knows(q, acc)
        BY <1>0 DEF Knows
      <3>2. InPlay(acc) \/ acc = row
        BY <2>2, <3>1 DEF InPlay, NoWork
      <3> QED
        BY <3>2 DEF InPlay
    <2> QED
      BY <2>1, <2>2
  <1>2. Bounded' /\ Monotone'
    <2>1. upstream <= upstream'
      BY DEF TokenTypeOK, Tokens
    <2> QED
      BY <1>1, <2>1, OldAccounts DEF HandsInv
  <1>3. NextToAnnounce'
    <2>1. \A q \in Providers : provider'[q].checked <= invalidated
      BY <1>0 DEF HandsInv, NextToAnnounce
    <2> QED
      BY <2>1 DEF HandsInv, NextToAnnounce, NoWork
  <1>4. ASSUME ~lost
        PROVE  OnlyCopy' /\ RefreshTokenKept' /\ Announced' /\ CheckedToken'
    <2>1. OnlyCopy /\ RefreshTokenKept /\ Announced /\ CheckedToken
      BY <1>4 DEF HandsInv
    <2>2. OnlyCopy'
      <3>1. RowsOlder => RowsOlder'
        BY <1>0 DEF RowsOlder
      <3>2. RowsOlder /\ Older(worker) => Older(worker)'
        BY DEF RowsOlder, Older, NoWork, AtRest
      <3>3. worker'.at = "save" => worker' = worker
        BY DEF NoWork
      <3>4. \A p \in Providers : Older(provider[p]) => Older(provider[p])'
        BY <1>0 DEF Older
      <3>5. \A p \in Providers : provider'[p].at = "save" => provider'[p] = provider[p]
        BY <1>0 DEF AtRest
      <3>6. ASSUME worker'.at = "save"
            PROVE  /\ worker'.account.token = upstream' /\ RowsOlder'
                   /\ \A p \in Providers : Older(provider[p])'
        BY <2>1, <3>1, <3>3, <3>4, <3>6 DEF OnlyCopy
      <3>7. ASSUME NEW p \in Providers, provider'[p].at = "save"
            PROVE  /\ provider'[p].account.token = upstream' /\ RowsOlder' /\ Older(worker)'
                   /\ \A q \in Providers \ {p} : Older(provider[q])'
        BY <2>1, <3>1, <3>2, <3>4, <3>5, <3>7 DEF OnlyCopy
      <3> QED
        BY <3>6, <3>7 DEF OnlyCopy
    <2>3. RefreshTokenKept'
      BY <1>0, <2>1 DEF RefreshTokenKept, InHand, NoWork
    <2>4. Announced'
      BY <2>1 DEF Announced, NoWork
    <2>5. CheckedToken'
      BY <1>0, <2>1 DEF CheckedToken, AtRest
    <2> QED
      BY <2>2, <2>3, <2>4, <2>5
  <1> QED
    BY <1>2, <1>3, <1>4 DEF HandsInv

-----------------------------------------------------------------------------
(* Refreshes and saves *)

\* Who refreshes had the newest token, so nobody else was about to save.
LEMMA NobodySaving ==
  ASSUME HandsInv, ~lost
  PROVE  /\ worker.at = "refresh" /\ worker.account.token = upstream /\ upstream \in Nat =>
              \A p \in Providers : provider[p].at # "save"
         /\ \A p \in Providers :
              provider[p].at = "refresh" /\ provider[p].account.token = upstream /\ upstream \in Nat =>
                worker.at # "save" /\ \A q \in Providers : provider[q].at # "save"
  <1>1. OnlyCopy
    BY DEF HandsInv
  <1> QED
    BY <1>1 DEF OnlyCopy, Older, AtRest

LEMMA WorkerRefreshesKeeps ==
  ASSUME TokenTypeOK, TokenTypeOK', HandsFull, HandsInv, WorkerRefreshes
  PROVE  HandsInv'
  <1> DEFINE old == worker.account
             new == [Renewed(old) EXCEPT !.version = NewVersion(old)]
  <1>1. /\ worker.at = "refresh" /\ old \in Rows /\ old.token = upstream /\ Accepts(old)
        /\ upstream \in Nat /\ upstream' = upstream + 1
        /\ worker' = [at |-> "save", account |-> new]
        /\ UNCHANGED <<row, provider, editor, invalidated, lost>>
    BY DEF WorkerRefreshes, HandsFull, Working, Accepts, TokenTypeOK, Tokens, AtRest
  <1>2. new \in Rows /\ new.token = upstream + 1 /\ new.version = upstream + 1
    BY <1>1, RenewedRow
  <1> HIDE DEF new
  <1>3. InPlay(old)
    BY <1>1 DEF InPlay, Knows, AtRest
  <1>4. \A acc \in Rows : InPlay(acc)' => acc = new \/ InPlay(acc)
    BY <1>1 DEF InPlay, Knows, AtRest
  <1>5. Bounded' /\ Monotone'
    BY <1>1, <1>2, <1>3, <1>4, NewAccount DEF HandsInv
  <1>6. NextToAnnounce'
    BY <1>1, <1>2 DEF HandsInv, NextToAnnounce, TokenTypeOK, Tokens
  <1>7. ASSUME ~lost
        PROVE  OnlyCopy' /\ RefreshTokenKept' /\ Announced' /\ CheckedToken'
    <2>1. OnlyCopy /\ RefreshTokenKept /\ Announced /\ CheckedToken
      BY <1>7 DEF HandsInv
    <2>2. \A p \in Providers : provider[p].at # "save"
      BY <1>1, <1>7, NobodySaving
    <2>3. \A acc \in Rows : InPlay(acc) => acc.token < upstream'
      BY <1>1, RowFields DEF HandsInv, Bounded
    <2>4. RowsOlder'
      BY <1>1, <2>3 DEF RowsOlder, InPlay, TokenTypeOK, Knows, AtRest
    <2>5. \A p \in Providers : Older(provider[p])'
      BY <1>1, <2>3 DEF Older, InPlay, HandsFull, Working, AtRest, Knows
    <2>6. OnlyCopy'
      BY <1>1, <1>2, <2>2, <2>4, <2>5 DEF OnlyCopy
    <2>7. RefreshTokenKept'
      BY <1>1, <1>2 DEF RefreshTokenKept
    <2>8. Announced' /\ CheckedToken'
      BY <1>1, <2>1 DEF Announced, CheckedToken
    <2> QED
      BY <2>6, <2>7, <2>8
  <1> QED
    BY <1>1, <1>5, <1>6, <1>7 DEF HandsInv

LEMMA ProviderRefreshesKeeps ==
  ASSUME TokenTypeOK, TokenTypeOK', HandsFull, HandsInv, NEW p \in Providers,
         provider[p].at = "refresh", Accepts(InHand(p)), upstream' = upstream + 1,
         Reaches(p, "refresh", [provider[p] EXCEPT !.at = "save", !.account = Renewed(@)]),
         UNCHANGED <<row, worker, editor, invalidated, lost>>
  PROVE  HandsInv'
  <1> DEFINE old == provider[p].account
             new == Renewed(old)
  <1>1. /\ old \in Rows /\ old.token = upstream /\ Accepts(old) /\ upstream \in Nat
    BY DEF HandsFull, Working, InHand, Accepts, TokenTypeOK, Tokens, AtRest
  <1>2. new \in Rows /\ new.token = upstream + 1 /\ new.version = old.version
    BY <1>1, RenewedRow
  <1> HIDE DEF new
  <1>3. /\ provider'[p].at = "save" /\ provider'[p].account = new
        /\ provider'[p].own = provider[p].own /\ provider'[p].checked = provider[p].checked
        /\ \A q \in Providers \ {p} : provider'[q] = provider[q]
    BY DEF Reaches, TokenTypeOK, new
  <1>4. \A acc \in Rows : InPlay(acc)' => acc = new \/ InPlay(acc)
    BY <1>3 DEF InPlay, Knows, AtRest
  <1>5. Bounded' /\ Monotone'
    <2>1. InPlay(old)
      BY DEF InPlay, Knows, AtRest
    <2> QED
      BY <1>1, <1>2, <1>4, <2>1, NewAccount DEF HandsInv
  <1>6. NextToAnnounce'
    BY <1>1, <1>3 DEF HandsInv, NextToAnnounce, TokenTypeOK, Tokens
  <1>7. ASSUME ~lost
        PROVE  OnlyCopy' /\ RefreshTokenKept' /\ Announced' /\ CheckedToken'
    <2>1. OnlyCopy /\ RefreshTokenKept /\ Announced /\ CheckedToken
      BY <1>7 DEF HandsInv
    <2>2. worker.at # "save" /\ \A q \in Providers : provider[q].at # "save"
      BY <1>1, <1>7, NobodySaving
    <2>3. \A acc \in Rows : InPlay(acc) => acc.token < upstream'
      BY <1>1, RowFields DEF HandsInv, Bounded
    <2>4. RowsOlder'
      <3>1. \A q \in Providers : provider'[q].own = provider[q].own
        BY <1>3
      <3> QED
        BY <1>1, <2>3, <3>1 DEF RowsOlder, InPlay, TokenTypeOK, Knows
    <2>5. /\ Older(worker)'
          /\ \A q \in Providers \ {p} : Older(provider[q])'
      BY <1>3, <2>3 DEF Older, InPlay, HandsFull, Working, AtRest, Knows
    <2>6. OnlyCopy'
      BY <1>2, <1>3, <2>2, <2>4, <2>5 DEF OnlyCopy
    <2>7. RefreshTokenKept'
      BY <1>2, <1>3 DEF RefreshTokenKept, InHand
    <2>8. Announced'
      BY <2>1 DEF Announced
    <2>9. CheckedToken'
      BY <1>3, <2>1 DEF CheckedToken
    <2> QED
      BY <2>6, <2>7, <2>8, <2>9
  <1> QED
    BY <1>5, <1>6, <1>7 DEF HandsInv

\* A save that succeeds puts an account into the row that was in play.
LEMMA WorkerSavesKeeps ==
  ASSUME TokenTypeOK, TokenTypeOK', HandsFull, HandsInv, WorkerSaves
  PROVE  HandsInv'
  <1>0. /\ worker.at = "save" /\ worker.account \in Rows
        /\ UNCHANGED <<upstream, provider, editor, invalidated>>
    BY DEF WorkerSaves, HandsFull, Working, AtRest
  <1>1. CASE row' = worker.account /\ worker' = [worker EXCEPT !.at = "invalidate"] /\ UNCHANGED lost
    <2>1. worker'.at = "invalidate" /\ worker'.account = worker.account
      BY <1>1 DEF TokenTypeOK
    <2>2. NothingNew
      BY <1>0, <1>1, <2>1 DEF NothingNew, InPlay, Knows, AtRest
    <2>3. Bounded' /\ Monotone'
      <3>1. upstream <= upstream'
        BY <1>0 DEF TokenTypeOK, Tokens
      <3> QED
        BY <2>2, <3>1, OldAccounts DEF HandsInv
    <2>4. NextToAnnounce'
      BY <1>0, <2>1 DEF HandsInv, NextToAnnounce
    <2>5. ASSUME ~lost
          PROVE  OnlyCopy' /\ RefreshTokenKept' /\ Announced' /\ CheckedToken'
      <3>1. OnlyCopy /\ RefreshTokenKept /\ Announced /\ CheckedToken
        BY <2>5 DEF HandsInv
      <3>2. worker.account.token = upstream /\ upstream \in Nat
        BY <1>0, <3>1 DEF OnlyCopy, TokenTypeOK, Tokens
      <3>3. \A p \in Providers : provider[p].at # "save"
        BY <1>0, <3>1, <3>2 DEF OnlyCopy, Older, AtRest
      <3>4. OnlyCopy'
        BY <1>0, <2>1, <3>3 DEF OnlyCopy
      <3>5. RefreshTokenKept'
        BY <1>0, <1>1, <3>2 DEF RefreshTokenKept
      <3>6. Announced'
        <4>1. /\ worker.account.version = worker.account.token
              /\ invalidated < worker.account.token
          BY <1>0 DEF HandsInv, NextToAnnounce
        <4> QED
          BY <1>0, <1>1, <2>1, <4>1, RowFields DEF Announced, TokenTypeOK, Tokens
      <3>7. CheckedToken'
        BY <1>0, <3>1 DEF CheckedToken
      <3> QED
        BY <3>4, <3>5, <3>6, <3>7
    <2> QED
      BY <1>1, <2>3, <2>4, <2>5 DEF HandsInv
  <1>2. CASE lost' = TRUE /\ worker' = NoWork /\ UNCHANGED row
    <2>1. NothingNew
      BY <1>0, <1>2 DEF NothingNew, InPlay, NoWork, Knows, AtRest
    <2>2. Bounded' /\ Monotone'
      <3>1. upstream <= upstream'
        BY <1>0 DEF TokenTypeOK, Tokens
      <3> QED
        BY <2>1, <3>1, OldAccounts DEF HandsInv
    <2>3. NextToAnnounce'
      BY <1>0, <1>2 DEF HandsInv, NextToAnnounce, NoWork
    <2> QED
      BY <1>2, <2>2, <2>3 DEF HandsInv
  <1> QED
    BY <1>1, <1>2 DEF WorkerSaves

LEMMA ProviderSavesKeeps ==
  ASSUME TokenTypeOK, TokenTypeOK', HandsFull, HandsInv, NEW p \in Providers, ProviderSaves(p)
  PROVE  HandsInv'
  <1>0. /\ provider[p].at = "save" /\ provider[p].account \in Rows
        /\ UNCHANGED <<upstream, worker, editor, invalidated>>
    BY DEF ProviderSaves, Reaches, HandsFull, Working, AtRest
  <1>1. /\ provider'[p].at = "check" /\ provider'[p].account = provider[p].account
        /\ provider'[p].own = provider[p].own /\ provider'[p].checked = provider[p].checked
        /\ \A q \in Providers \ {p} : provider'[q] = provider[q]
    BY DEF ProviderSaves, Reaches, TokenTypeOK
  <1>2. \/ row' = provider[p].account /\ UNCHANGED lost
        \/ row' = row /\ lost' = TRUE
    BY DEF ProviderSaves, InHand
  <1>3. Bounded' /\ Monotone'
    <2>1. NothingNew
      BY <1>0, <1>1, <1>2 DEF NothingNew, InPlay, Knows, AtRest
    <2>2. upstream <= upstream'
      BY <1>0 DEF TokenTypeOK, Tokens
    <2> QED
      BY <2>1, <2>2, OldAccounts DEF HandsInv
  <1>4. NextToAnnounce'
    BY <1>0, <1>1 DEF HandsInv, NextToAnnounce
  <1>5. ASSUME ~lost, row' = provider[p].account
        PROVE  OnlyCopy' /\ RefreshTokenKept' /\ Announced' /\ CheckedToken'
    <2>1. OnlyCopy /\ RefreshTokenKept /\ Announced /\ CheckedToken
      BY <1>5 DEF HandsInv
    <2>2. /\ provider[p].account.token = upstream /\ upstream \in Nat
          /\ row.token < upstream
      BY <1>0, <2>1 DEF OnlyCopy, RowsOlder, TokenTypeOK, Tokens
    <2>3. worker.at # "save" /\ \A q \in Providers \ {p} : provider[q].at # "save"
      BY <1>0, <2>1, <2>2 DEF OnlyCopy, Older, AtRest
    <2>4. OnlyCopy'
      BY <1>0, <1>1, <2>3 DEF OnlyCopy
    <2>5. RefreshTokenKept'
      BY <1>0, <1>5, <2>2 DEF RefreshTokenKept
    <2>6. row.version <= row'.version
      <3>1. InPlay(row) /\ InPlay(provider[p].account)
        BY <1>0 DEF InPlay, Knows, AtRest
      <3>2. row \in Rows /\ row.token <= provider[p].account.token
        BY <2>2, RowFields DEF TokenTypeOK
      <3> QED
        BY <1>0, <1>5, <3>1, <3>2 DEF HandsInv, Monotone
    <2>7. Announced'
      <3>1. /\ row.version \in Nat /\ row'.version \in Nat /\ invalidated \in Nat
            /\ worker.at = "invalidate" => worker.account.token \in Nat
        BY RowFields DEF TokenTypeOK, Tokens, HandsFull, Working, AtRest
      <3> QED
        BY <1>0, <2>1, <2>6, <3>1 DEF Announced
    <2>8. CheckedToken'
      BY <1>0, <1>1, <2>1 DEF CheckedToken
    <2> QED
      BY <2>4, <2>5, <2>7, <2>8
  <1> QED
    BY <1>2, <1>3, <1>4, <1>5 DEF HandsInv

LEMMA InvalidateTokenKeeps ==
  ASSUME TokenTypeOK, TokenTypeOK', HandsFull, HandsInv, InvalidateToken
  PROVE  HandsInv' /\ invalidated < invalidated'
  <1>0. /\ worker.at = "invalidate" /\ worker.account \in Rows /\ worker' = NoWork
        /\ invalidated' = worker.account.token
        /\ UNCHANGED <<upstream, row, provider, editor, lost>>
    BY DEF InvalidateToken, HandsFull, Working, AtRest
  <1>1. /\ invalidated \in Nat /\ invalidated' \in Nat
        /\ \A p \in Providers : provider[p].checked \in Nat
    BY DEF TokenTypeOK, Tokens
  <1>2. Bounded' /\ Monotone'
    <2>1. NothingNew
      BY <1>0 DEF NothingNew, InPlay, NoWork, Knows, AtRest
    <2>2. upstream <= upstream'
      BY <1>0 DEF TokenTypeOK, Tokens
    <2> QED
      BY <2>1, <2>2, OldAccounts DEF HandsInv
  <1>3. invalidated < invalidated'
    BY <1>0 DEF HandsInv, NextToAnnounce
  <1>4. NextToAnnounce'
    <2>1. worker.account.token <= upstream
      BY <1>0 DEF HandsInv, Bounded, InPlay, Knows, AtRest
    <2>2. \A p \in Providers : provider[p].checked < invalidated'
      BY <1>1, <1>3 DEF HandsInv, NextToAnnounce
    <2> QED
      BY <1>0, <1>1, <2>1, <2>2 DEF NextToAnnounce, NoWork
  <1>5. ASSUME ~lost
        PROVE  OnlyCopy' /\ RefreshTokenKept' /\ Announced' /\ CheckedToken'
    <2>1. OnlyCopy /\ RefreshTokenKept /\ Announced /\ CheckedToken
      BY <1>5 DEF HandsInv
    <2>2. OnlyCopy'
      BY <1>0, <2>1 DEF OnlyCopy, RowsOlder, Older, NoWork, AtRest
    <2>3. RefreshTokenKept'
      BY <1>0, <2>1 DEF RefreshTokenKept, InHand
    <2>4. Announced'
      BY <1>0, <2>1 DEF Announced, NoWork
    <2>5. CheckedToken'
      <3>1. \A p \in Providers : provider[p].checked # invalidated'
        BY <1>1, <1>3 DEF HandsInv, NextToAnnounce
      <3> QED
        BY <1>0, <3>1 DEF CheckedToken
    <2> QED
      BY <2>2, <2>3, <2>4, <2>5
  <1> QED
    BY <1>0, <1>2, <1>3, <1>4, <1>5 DEF HandsInv

\* Who writes back an older row loses the newer token; a row with the same token
\* has the same version.
LEMMA RowWrittenBack ==
  ASSUME TokenTypeOK, TokenTypeOK', HandsFull, HandsInv,
         NEW acc \in Rows, InPlay(acc),
         row'.token = acc.token, row'.version = acc.version,
         lost' = (lost \/ row.token # acc.token),
         \A q \in Providers :
           \/ provider'[q] = provider[q]
           \/ /\ provider[q].at # "save"
              /\ provider'[q].at \in AtRest /\ provider'[q].own = NoToken /\ provider'[q].checked = 0,
         editor' \in {editor, NoToken},
         UNCHANGED <<upstream, worker, invalidated>>
  PROVE  HandsInv'
  <1>1. CASE row.token = acc.token
    <2>1. row.version = acc.version
      <3>1. InPlay(row) /\ row \in Rows
        BY DEF InPlay, TokenTypeOK
      <3>2. row.token <= acc.token /\ acc.token <= row.token
        BY <1>1, <3>1, RowFields
      <3>3. row.version <= acc.version /\ acc.version <= row.version
        BY <3>1, <3>2 DEF HandsInv, Monotone
      <3> QED
        BY <3>1, <3>3, RowFields
    <2>2. UNCHANGED lost
      BY <1>1 DEF TokenTypeOK
    <2> QED
      BY <1>1, <2>1, <2>2, RowTaken
  <1>2. CASE row.token # acc.token
    <2>0. /\ \A q \in Providers : provider'[q].at \notin AtRest => provider'[q] = provider[q]
          /\ \A q \in Providers : provider'[q].own # NoToken => provider'[q].own = provider[q].own
          /\ invalidated \in Nat
      BY DEF TokenTypeOK, Tokens
    <2>1. NothingNew
      <3> SUFFICES ASSUME NEW a \in Rows, InPlay(a)'
                   PROVE  \E old \in Rows : InPlay(old) /\ old.token = a.token /\ old.version = a.version
        BY DEF NothingNew
      <3>1. CASE a = row'
        BY <3>1
      <3>2. CASE a # row'
        <4>1. \A q \in Providers : Knows(q, a)' => Knows(q, a)
          BY <2>0 DEF Knows
        <4> QED
          BY <3>2, <4>1 DEF InPlay
      <3> QED
        BY <3>1, <3>2
    <2>2. Bounded' /\ Monotone'
      <3>1. upstream <= upstream'
        BY DEF TokenTypeOK, Tokens
      <3> QED
        BY <2>1, <3>1, OldAccounts DEF HandsInv
    <2>3. NextToAnnounce'
      <3>1. \A q \in Providers : provider'[q].checked <= invalidated
        BY <2>0 DEF HandsInv, NextToAnnounce
      <3> QED
        BY <3>1 DEF HandsInv, NextToAnnounce
    <2> QED
      BY <1>2, <2>2, <2>3 DEF HandsInv
  <1> QED
    BY <1>1, <1>2

LEMMA EditWritesKeeps ==
  ASSUME TokenTypeOK, TokenTypeOK', HandsFull, HandsInv, EditWritesAccount
  PROVE  HandsInv'
  <1>1. editor # NoToken /\ editor \in Rows /\ InPlay(editor)
    BY DEF EditWritesAccount, TokenTypeOK, InPlay
  <1>2. PICK status \in BOOLEAN : row' = [editor EXCEPT !.active = status]
    BY DEF EditWritesAccount
  <1>3. row'.token = editor.token /\ row'.version = editor.version
    BY <1>1, <1>2 DEF Rows
  <1> QED
    BY <1>1, <1>3, RowWrittenBack DEF EditWritesAccount

\* What follows a 401: the handler's account is in play, and a request that has
\* been sent has nothing to save.
LEMMA HandleUpstreamErrorKeeps ==
  ASSUME TokenTypeOK, TokenTypeOK', HandsFull, HandsInv, NEW p \in Providers, HandleUpstreamError(p)
  PROVE  HandsInv'
  <1>1. CASE Unauthorized(p)
    <2> DEFINE r == [provider[p] EXCEPT !.at = "refused"]
    <2>1. /\ r.at = "refused" /\ r.account = provider[p].account
          /\ r.own = provider[p].own /\ r.checked = provider[p].checked
      BY DEF TokenTypeOK
    <2>2. provider[p].at = "sent" /\ provider' = [provider EXCEPT ![p] = r]
      BY <1>1 DEF Unauthorized, Reaches
    <2> HIDE DEF r
    <2>3. provider[p].checked <= invalidated
      BY DEF HandsInv, NextToAnnounce
    <2>4. /\ Knows(p, r.account)
          /\ r.own # NoToken => Knows(p, r.own)
      BY <2>1, <2>2 DEF Knows, AtRest
    <2>5. UNCHANGED <<upstream, row, worker, editor, invalidated, lost>>
      BY <1>1 DEF Unauthorized
    <2> QED
      BY <2>1, <2>2, <2>3, <2>4, <2>5, RequestMoves
  <1>2. CASE WritesBackAccount(p)
    <2>1. /\ provider[p].at = "refused"
          /\ provider' = [provider EXCEPT ![p] = [NotAsking EXCEPT !.at = "disable"]]
          /\ UNCHANGED <<upstream, worker, editor, invalidated>>
      BY <1>2 DEF WritesBackAccount, Reaches
    <2>2. /\ provider[p].account \in Rows /\ InPlay(provider[p].account)
      BY <2>1 DEF HandsFull, Working, InPlay, Knows, AtRest
    <2>3. \A q \in Providers :
            \/ provider'[q] = provider[q]
            \/ /\ provider[q].at # "save"
               /\ provider'[q].at \in AtRest /\ provider'[q].own = NoToken /\ provider'[q].checked = 0
      BY <2>1, AtRestOrSent DEF AtRest, TokenTypeOK
    <2>4. CASE row' = [InHand(p) EXCEPT !.expired = TRUE] /\ lost' = (lost \/ row.token # InHand(p).token)
      <3>1. row'.token = provider[p].account.token /\ row'.version = provider[p].account.version
        BY <2>2, <2>4 DEF Rows, InHand
      <3> QED
        BY <2>1, <2>2, <2>3, <2>4, <3>1, RowWrittenBack DEF InHand
    <2>5. CASE UNCHANGED <<row, lost>>
      BY <2>1, <2>3, <2>5, RowTaken
    <2> QED
      BY <1>2, <2>4, <2>5 DEF WritesBackAccount
  <1>3. CASE HandleAuthError(p)
    <2>1. /\ provider[p].at = "disable"
          /\ provider' = [provider EXCEPT ![p] = NotAsking]
          /\ UNCHANGED <<upstream, worker, editor, invalidated, lost>>
      BY <1>3 DEF HandleAuthError, Reaches
    <2>2. \A q \in Providers :
            \/ provider'[q] = provider[q]
            \/ /\ provider[q].at # "save"
               /\ provider'[q].at \in AtRest /\ provider'[q].own = NoToken /\ provider'[q].checked = 0
      BY <2>1, AtRestOrSent DEF AtRest, TokenTypeOK
    <2>3. row'.token = row.token /\ row'.version = row.version
      BY <1>3 DEF HandleAuthError, TokenTypeOK, Rows
    <2> QED
      BY <2>1, <2>2, <2>3, RowTaken
  <1> QED
    BY <1>1, <1>2, <1>3 DEF HandleUpstreamError

-----------------------------------------------------------------------------
(* Every step *)

LEMMA CheckedAt ==
  ASSUME TokenTypeOK, HandsFull, HandsInv, ~lost, NEW p \in Providers,
         provider[p].at = "check", ~IsStale(p)
  PROVE  provider[p].account.token >= invalidated
  <1>1. provider[p].account \in Rows /\ InPlay(provider[p].account)
    BY DEF HandsFull, Working, InPlay, AtRest, Knows
  <1>2. provider[p].account.version <= provider[p].account.token
    BY <1>1 DEF HandsInv, Bounded
  <1>3. row.version >= invalidated
    BY DEF HandsInv, Announced
  <1>4. row.version <= provider[p].account.version
    BY <1>1, RowFields DEF IsStale, InHand, TokenTypeOK
  <1> QED
    BY <1>1, <1>2, <1>3, <1>4, RowFields DEF TokenTypeOK, Tokens

\* What a request does.
LEMMA GetAccessTokenKeeps ==
  ASSUME TokenTypeOK, TokenTypeOK', HandsFull, HandsInv, NEW p \in Providers, GetAccessToken(p)
  PROVE  HandsInv'
  <1>0. /\ 0 <= invalidated /\ provider[p].checked <= invalidated
        /\ row \in Rows /\ invalidated \in Nat
    BY DEF TokenTypeOK, Tokens, HandsInv, NextToAnnounce
  <1>k. /\ provider[p].at \notin AtRest => Knows(p, provider[p].account)
        /\ provider[p].own # NoToken => Knows(p, provider[p].own)
    BY DEF Knows
  <1>1. CASE Ask(p)
    <2> DEFINE r == [NotAsking EXCEPT !.at = "start", !.account = row]
    <2>1. r.at = "start" /\ r.account = row /\ r.own = NoToken /\ r.checked = 0
      BY DEF NotAsking
    <2>2. /\ provider[p].at # "save" /\ provider' = [provider EXCEPT ![p] = r]
          /\ UNCHANGED <<upstream, row, worker, editor, invalidated, lost>>
      BY <1>1 DEF Ask, Reaches
    <2> HIDE DEF r
    <2> QED
      BY <1>0, <2>1, <2>2, RequestMoves
  \* It goes on with the account it has.
  <1>2. ASSUME NEW at \in {"locked", "wait", "unlocked", "check", "refresh"}, NEW r,
               r.at = at, r.account = provider[p].account,
               r.own = provider[p].own, r.checked = provider[p].checked,
               provider[p].at \notin AtRest, provider[p].at # "save",
               provider' = [provider EXCEPT ![p] = r],
               UNCHANGED <<upstream, row, worker, editor, invalidated, lost>>
        PROVE  HandsInv'
    BY <1>0, <1>k, <1>2, RequestMoves
  \* It has its token.
  <1>s. ASSUME provider[p].at \notin AtRest, provider[p].at # "save",
               provider' = [provider EXCEPT ![p] = Sent(p)],
               UNCHANGED <<upstream, row, worker, editor, invalidated, lost>>
        PROVE  HandsInv'
    <2>1. /\ Sent(p).at = "sent" /\ Sent(p).own = NoToken /\ Sent(p).checked = 0
          /\ Knows(p, Sent(p).account)
      BY <1>s, AtRestOrSent
    <2> QED
      BY <1>0, <1>s, <2>1, RequestMoves
  <1>3. CASE TryCache(p)
    <2>1. /\ provider[p].at = "start" /\ provider[p].at \notin AtRest
          /\ UNCHANGED <<upstream, row, worker, editor, invalidated, lost>>
      BY <1>3 DEF TryCache, AtRest
    <2>2. PICK at \in {"check", "wait", "unlocked"} :
            \/ provider' = [provider EXCEPT ![p] = Sent(p)]
            \/ provider' = [provider EXCEPT ![p] = [provider[p] EXCEPT !.at = "locked", !.holds = TRUE]]
            \/ provider' = [provider EXCEPT ![p] = [provider[p] EXCEPT !.at = at]]
      BY <1>3 DEF TryCache, Reaches
    <2>3. \A from \in {"locked", at} : \A r \in {[provider[p] EXCEPT !.at = from],
                                                [provider[p] EXCEPT !.at = from, !.holds = TRUE]} :
            /\ r.at = from /\ r.account = provider[p].account
            /\ r.own = provider[p].own /\ r.checked = provider[p].checked
      BY DEF TokenTypeOK
    <2>4. CASE provider' = [provider EXCEPT ![p] = Sent(p)]
      BY <2>1, <2>4, <1>s
    <2>5. CASE provider' = [provider EXCEPT ![p] = [provider[p] EXCEPT !.at = "locked", !.holds = TRUE]]
      BY <2>1, <2>3, <2>5, <1>2
    <2>6. CASE provider' = [provider EXCEPT ![p] = [provider[p] EXCEPT !.at = at]]
      BY <2>1, <2>3, <2>6, <1>2
    <2> QED
      BY <2>2, <2>4, <2>5, <2>6
  <1>4. ASSUME NEW from \in {"locked", "unlocked", "wait"}, LooksAgain(p, from)
        PROVE  HandsInv'
    BY <1>4, <1>s DEF LooksAgain, Return, Reaches, AtRest
  <1>5. ASSUME NEW from \in {"locked", "unlocked", "wait"}, GetByID(p, from)
        PROVE  HandsInv'
    <2>0. /\ provider[p].at \notin AtRest /\ provider[p].at # "save"
          /\ UNCHANGED <<upstream, row, worker, editor, invalidated, lost>>
      BY <1>5 DEF GetByID, Reaches, AtRest
    <2>1. PICK at \in {"refresh", "check"} :
            \/ provider' = [provider EXCEPT ![p] = [provider[p] EXCEPT !.account = row, !.own = InHand(p), !.at = at]]
            \/ provider' = [provider EXCEPT ![p] = [provider[p] EXCEPT !.at = at]]
      BY <1>5 DEF GetByID, Reaches
    <2>2. CASE provider' = [provider EXCEPT ![p] = [provider[p] EXCEPT !.account = row, !.own = InHand(p), !.at = at]]
      <3> DEFINE r == [provider[p] EXCEPT !.account = row, !.own = InHand(p), !.at = at]
      <3>1. /\ r.at = at /\ r.account = row /\ r.own = provider[p].account
            /\ r.checked = provider[p].checked
        BY DEF TokenTypeOK, InHand
      <3>2. provider' = [provider EXCEPT ![p] = r]
        BY <2>2
      <3> HIDE DEF r
      <3> QED
        BY <1>0, <1>k, <2>0, <3>1, <3>2, RequestMoves
    <2>3. CASE provider' = [provider EXCEPT ![p] = [provider[p] EXCEPT !.at = at]]
      <3>1. /\ [provider[p] EXCEPT !.at = at].at = at
            /\ [provider[p] EXCEPT !.at = at].account = provider[p].account
            /\ [provider[p] EXCEPT !.at = at].own = provider[p].own
            /\ [provider[p] EXCEPT !.at = at].checked = provider[p].checked
        BY DEF TokenTypeOK
      <3> QED
        BY <2>0, <2>3, <3>1, <1>2
    <2> QED
      BY <2>1, <2>2, <2>3
  <1>c. /\ [provider[p] EXCEPT !.at = "check"].at = "check"
        /\ [provider[p] EXCEPT !.at = "check"].account = provider[p].account
        /\ [provider[p] EXCEPT !.at = "check"].own = provider[p].own
        /\ [provider[p] EXCEPT !.at = "check"].checked = provider[p].checked
    BY DEF TokenTypeOK
  <1>6. CASE GivesUpWaiting(p)
    BY <1>6, <1>c, <1>2 DEF GivesUpWaiting, Reaches, AtRest
  <1>7. CASE ProviderRefreshes(p)
    <2>1. CASE upstream' = upstream /\ Reaches(p, "refresh", [provider[p] EXCEPT !.at = "check"])
      BY <1>7, <2>1, <1>c, <1>2 DEF ProviderRefreshes, Reaches, AtRest
    <2>2. CASE /\ provider[p].at = "refresh" /\ Accepts(InHand(p)) /\ upstream' = upstream + 1
               /\ Reaches(p, "refresh", [provider[p] EXCEPT !.at = "save", !.account = Renewed(@)])
      BY <1>7, <2>2, ProviderRefreshesKeeps DEF ProviderRefreshes
    <2> QED
      BY <1>7, <2>1, <2>2 DEF ProviderRefreshes
  <1>8. CASE ProviderSaves(p)
    BY <1>8, ProviderSavesKeeps
  <1>9. CASE CheckTokenVersion(p)
    <2>1. /\ provider[p].at = "check" /\ provider[p].at \notin AtRest
          /\ UNCHANGED <<upstream, row, worker, editor, invalidated, lost>>
      BY <1>9 DEF CheckTokenVersion, AtRest
    <2>2. CASE provider' = [provider EXCEPT ![p] = Sent(p)]
      BY <2>1, <2>2, <1>s
    <2>3. ASSUME NEW c \in Tokens, c # 0 => c = invalidated /\ ~IsStale(p),
                 provider' = [provider EXCEPT ![p] = [provider[p] EXCEPT !.at = "set", !.checked = c]]
          PROVE  HandsInv'
      <3> DEFINE r == [provider[p] EXCEPT !.at = "set", !.checked = c]
      <3>1. /\ r.at = "set" /\ r.account = provider[p].account
            /\ r.own = provider[p].own /\ r.checked = c
        BY DEF TokenTypeOK
      <3>2. provider' = [provider EXCEPT ![p] = r]
        BY <2>3
      <3> HIDE DEF r
      <3>3. provider[p].account.token \in Nat
        BY <2>1, RowFields DEF HandsFull, Working, AtRest
      <3>4. ASSUME c = invalidated, ~lost
            PROVE  r.account.token >= invalidated
        <4>1. CASE c = 0
          BY <3>1, <3>3, <3>4, <4>1
        <4>2. CASE ~IsStale(p)
          BY <2>1, <3>1, <3>4, <4>2, CheckedAt
        <4> QED
          BY <2>3, <4>1, <4>2
      <3>5. c <= invalidated
        BY <2>3, <1>0
      <3>6. r.at = "set" /\ r.checked = invalidated /\ ~lost => r.account.token >= invalidated
        BY <3>1, <3>4
      <3> QED
        BY <1>k, <2>1, <3>1, <3>2, <3>5, <3>6, RequestMoves
    <2>4. 0 \in Tokens /\ invalidated \in Tokens
      BY TokenAssumption DEF TokenTypeOK, Tokens
    <2>5. \/ provider' = [provider EXCEPT ![p] = Sent(p)]
          \/ /\ ~IsStale(p)
             /\ provider' = [provider EXCEPT ![p] = [provider[p] EXCEPT !.at = "set", !.checked = invalidated]]
          \/ provider' = [provider EXCEPT ![p] = [provider[p] EXCEPT !.at = "set", !.checked = 0]]
      BY <1>9 DEF CheckTokenVersion, Return, Reaches
    <2>6. CASE /\ ~IsStale(p)
               /\ provider' = [provider EXCEPT ![p] = [provider[p] EXCEPT !.at = "set", !.checked = invalidated]]
      BY <2>3, <2>4, <2>6, Zenon
    <2>7. CASE provider' = [provider EXCEPT ![p] = [provider[p] EXCEPT !.at = "set", !.checked = 0]]
      BY <2>3, <2>4, <2>7, Zenon
    <2> QED
      BY <2>2, <2>5, <2>6, <2>7
  <1>10. CASE SetAccessToken(p)
    BY <1>10, <1>s DEF SetAccessToken, Return, Reaches, AtRest
  <1> QED
    BY <1>1, <1>3, <1>4, <1>5, <1>6, <1>7, <1>8, <1>9, <1>10 DEF GetAccessToken

LEMMA HandsStep ==
  ASSUME TokenTypeOK, TokenTypeOK', HandsFull, HandsInv, [TokenNext]_tokenVars
  PROVE  HandsInv'
  <1>1. CASE TimePasses \/ LockLapses \/ TTLEnds \/ UNCHANGED tokenVars
    BY <1>1, HandsUnchanged DEF TimePasses, LockLapses, TTLEnds, tokenVars
  <1>2. CASE AnswerLost
    BY <1>2, AnswerLostKeeps
  <1>3. CASE ListActive
    BY <1>3, RowTaken DEF ListActive
  <1>4. CASE WorkerRefreshes
    BY <1>4, WorkerRefreshesKeeps
  <1>5. CASE WorkerIsRefused
    <2>1. row'.token = row.token /\ row'.version = row.version
      BY <1>5, ChangedRow DEF WorkerIsRefused, TokenTypeOK
    <2>2. worker.at # "save" /\ worker' = NoWork /\ UNCHANGED <<upstream, provider, editor, invalidated, lost>>
      BY <1>5 DEF WorkerIsRefused
    <2> QED
      BY <2>1, <2>2, RowTaken
  <1>6. CASE WorkerSaves
    BY <1>6, WorkerSavesKeeps
  <1>7. CASE InvalidateToken
    BY <1>7, InvalidateTokenKeeps
  <1>8. ASSUME NEW p \in Providers, GetAccessToken(p)
        PROVE  HandsInv'
    BY <1>8, GetAccessTokenKeeps
  <1>9. CASE EditReadsAccount
    BY <1>9, RowTaken DEF EditReadsAccount
  <1>10. CASE EditWritesAccount
    BY <1>10, EditWritesKeeps
  <1>11. ASSUME NEW p \in Providers, HandleUpstreamError(p)
         PROVE  HandsInv'
    BY <1>11, HandleUpstreamErrorKeeps
  <1> QED
    BY <1>1, <1>2, <1>3, <1>4, <1>5, <1>6, <1>7, <1>8, <1>9, <1>10, <1>11 DEF TokenNext

\* A request caches a token only after its check, the worker clears the cache or
\* marks what it could not clear.
LEMMA CacheStep ==
  ASSUME TokenInv, TokenTypeOK', [TokenNext]_tokenVars
  PROVE  ReplacedTokenNotCached'
  <1> USE DEF TokenInv
  <1>1. CASE InvalidateToken
    BY <1>1 DEF InvalidateToken, Cleared, ReplacedTokenNotCached, TokenTypeOK
  <1>2. ASSUME NEW p \in Providers, SetAccessToken(p)
        PROVE  ReplacedTokenNotCached'
    <2>1. /\ provider[p].at = "set"
          /\ tokenCache' = [token |-> provider[p].account.token, overtaken |-> provider[p].checked < invalidated]
          /\ UNCHANGED <<lost, invalidated>>
      BY <1>2 DEF SetAccessToken, Return, Reaches, InHand
    <2>2. provider[p].checked \in Nat /\ invalidated \in Nat /\ provider[p].checked <= invalidated
      BY DEF TokenTypeOK, Tokens, HandsInv, NextToAnnounce
    <2>3. ~lost /\ provider[p].checked = invalidated => provider[p].account.token >= invalidated
      BY <2>1 DEF HandsInv, CheckedToken
    <2>4. CASE provider[p].checked < invalidated
      BY <2>1, <2>4 DEF ReplacedTokenNotCached
    <2>5. CASE provider[p].checked = invalidated
      <3>1. tokenCache'.token = provider[p].account.token
        BY <2>1
      <3> QED
        BY <2>1, <2>3, <2>5, <3>1 DEF ReplacedTokenNotCached
    <2> QED
      BY <2>2, <2>4, <2>5
  <1>3. CASE /\ tokenCache' \in {tokenCache, NoToken}
             /\ invalidated' = invalidated
             /\ lost => lost'
    BY <1>3 DEF ReplacedTokenNotCached
  <1>4. ASSUME NEW p \in Providers, GetAccessToken(p), ~SetAccessToken(p)
        PROVE  ReplacedTokenNotCached'
    BY <1>3, <1>4 DEF GetAccessToken, Ask, TryCache, LooksAgain, GetByID, GivesUpWaiting,
                      ProviderRefreshes, ProviderSaves, CheckTokenVersion
  <1>5. CASE AnswerLost \/ WorkerSaves \/ EditWritesAccount
    <2>1. lost => lost'
      BY <1>5 DEF AnswerLost, WorkerSaves, EditWritesAccount, TokenTypeOK
    <2> QED
      BY <1>3, <1>5, <2>1 DEF AnswerLost, WorkerSaves, EditWritesAccount
  <1>6. CASE TimePasses \/ LockLapses \/ TTLEnds \/ ListActive \/ WorkerRefreshes
             \/ WorkerIsRefused \/ EditReadsAccount \/ UNCHANGED tokenVars
    BY <1>3, <1>6 DEF TimePasses, LockLapses, TTLEnds, ListActive, WorkerRefreshes,
                      WorkerIsRefused, EditReadsAccount, tokenVars
  <1>7. ASSUME NEW p \in Providers, HandleUpstreamError(p)
        PROVE  ReplacedTokenNotCached'
    <2>1. lost => lost'
      BY <1>7 DEF HandleUpstreamError, Unauthorized, WritesBackAccount, HandleAuthError, TokenTypeOK
    <2> QED
      BY <1>3, <1>7, <2>1 DEF HandleUpstreamError, Unauthorized, WritesBackAccount, HandleAuthError
  <1> QED
    BY <1>1, <1>2, <1>4, <1>5, <1>6, <1>7 DEF TokenNext

\* TokenInv is inductive.
THEOREM TokenInvariant == TokenSpec => []TokenInv
  <1>1. TokenInit => TokenInv
    <2> SUFFICES ASSUME TokenInit
                 PROVE  TokenInv
      OBVIOUS
    <2> USE DEF TokenInit
    <2>1. TokenTypeOK
      <3>1. 0 \in Tokens /\ 0 \in 0 .. MaxTokens + 1 /\ 0 \in 0 .. MaxTokenFaults
        BY TokenAssumption DEF Tokens
      <3>2. row \in Rows
        BY <3>1 DEF Rows
      <3> QED
        BY <3>1, <3>2 DEF TokenTypeOK, NoWork, NotAsking
    <2>2. /\ worker.at = "idle"
          /\ \A p \in Providers : /\ provider[p].at = "idle" /\ provider[p].own = NoToken
                                /\ provider[p].checked = 0
      BY DEF NoWork, NotAsking
    <2>3. HandsFull
      BY <2>2 DEF HandsFull, Working, AtRest
    <2>4. \A acc \in Rows : InPlay(acc) => acc = row
      BY <2>2 DEF InPlay, Knows, AtRest
    <2>5. HandsInv
      BY <2>2, <2>4 DEF HandsInv, Bounded, Monotone, NextToAnnounce, OnlyCopy, RefreshTokenKept,
                        Announced, CheckedToken
    <2>6. ReplacedTokenNotCached
      BY DEF ReplacedTokenNotCached
    <2> QED
      BY <2>1, <2>3, <2>5, <2>6 DEF TokenInv
  <1>2. TokenInv /\ [TokenNext]_tokenVars => TokenInv'
    BY TypeStep, HandsStep, CacheStep DEF TokenInv
  <1> QED
    BY <1>1, <1>2, PTL DEF TokenSpec

\* Every variable of the tokens has its type, and no counter passes its bound.
THEOREM TokenTypeCorrect == TokenSpec => []TokenTypeOK
  <1>1. TokenInv => TokenTypeOK
    BY DEF TokenInv
  <1> QED
    BY <1>1, TokenInvariant, PTL

\* However the worker, requests and administrators overlap, and for any number of
\* them, the refresh token that is accepted is in the database or in the hands of
\* who is about to save it, unless an answer or a save was lost, or an older row
\* was written back by an edit or after a 401 (HandleUpstreamError).
THEOREM RefreshTokenIsKept == TokenSpec => []RefreshTokenKept
  <1>1. TokenInv => RefreshTokenKept
    BY DEF TokenInv, HandsInv, RefreshTokenKept
  <1> QED
    BY <1>1, TokenInvariant, PTL

\* A token that the worker has replaced and cleared does not come back to the
\* cache, but from a request that had made its check before, or when a refresh
\* token was lost: an older row that is written back brings its version back.
THEOREM ReplacedTokenStaysOut == TokenSpec => []ReplacedTokenNotCached
  <1>1. TokenInv => ReplacedTokenNotCached
    BY DEF TokenInv
  <1> QED
    BY <1>1, TokenInvariant, PTL
=============================================================================
