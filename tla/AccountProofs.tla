---------------------------- MODULE AccountProofs ----------------------------
(***************************************************************************)
(* Theorems about refresh tokens and the portal's copies of them, user     *)
(* accounts, notifications, the Telegram bot and alerts, for every number  *)
(* of tokens, users and calls under way.                                   *)
(***************************************************************************)
EXTENDS PortalSession, Accounts, Alerts, Notifications, TelegramBot, FiniteSetTheorems, TLAPS

-----------------------------------------------------------------------------
(* Refresh tokens.                                                           *)

\* A token that was issued belongs to a family that a login has begun, and a
\* token being refreshed was issued.
FamiliesBegun ==
    /\ issued \in Nat
    /\ family \in [RefreshIds -> 0..MaxRefresh]
    /\ tokenState \in [RefreshIds -> TokenStates]
    /\ refreshing \in [Refreshers -> 0..MaxRefresh]
    /\ \A t \in RefreshIds : t > issued => tokenState[t] = "none" /\ t \notin reading
    /\ \A t \in RefreshIds : t <= issued => family[t] \in 1..issued

\* At the start nothing is issued and nothing is read.
LEMMA SessionsBegin == SessionsInit => FamiliesBegun /\ OneHeirPerFamily
BY MaxRefreshAssumption DEF SessionsInit, FamiliesBegun, OneHeirPerFamily, OneHeir, Heirs, Live,
        reading, RefreshIds, TokenStates

\* What requests read are tokens.
LEMMA ReadingTokens == FamiliesBegun => reading \subseteq RefreshIds
BY MaxRefreshAssumption DEF FamiliesBegun, reading, RefreshIds

\* A request that is answered reads nothing any more; its token is still read
\* only if another request has read it too.
LEMMA ReadingEnds ==
    ASSUME FamiliesBegun, NEW q \in Refreshers, refreshing' = [refreshing EXCEPT ![q] = 0]
    PROVE  /\ refreshing' \in [Refreshers -> 0..MaxRefresh]
           /\ reading' \subseteq reading
           /\ refreshing[q] \in reading'
              => \E p \in Refreshers : p # q /\ refreshing[p] = refreshing[q]
BY MaxRefreshAssumption DEF FamiliesBegun, reading

\* A request that reads a token adds it to those being refreshed.
LEMMA ReadingBegins ==
    ASSUME FamiliesBegun, NEW q \in Refreshers, NEW t \in RefreshIds, refresh_read(q, t)
    PROVE  /\ refreshing' \in [Refreshers -> 0..MaxRefresh]
           /\ reading' = reading \union {t}
           /\ t \in Live
<1>1. /\ refreshing' = [refreshing EXCEPT ![q] = t] /\ refreshing[q] = 0
      /\ refreshing \in [Refreshers -> 0..MaxRefresh] /\ t # 0 /\ t \in 0..MaxRefresh
  BY MaxRefreshAssumption DEF refresh_read, FamiliesBegun, RefreshIds
<1>2. reading' \subseteq reading \union {t} /\ t \in reading'
  BY <1>1 DEF reading
<1>3. ASSUME NEW u \in reading PROVE u \in reading'
  <2>1. PICK p \in Refreshers : refreshing[p] = u /\ u # 0
    BY DEF reading
  <2>2. refreshing'[p] = u
    BY <1>1, <2>1
  <2> QED BY <2>1, <2>2 DEF reading
<1> QED BY <1>1, <1>2, <1>3 DEF refresh_read, Live

\* A new token has a number that no token had, and the family it is given.
LEMMA IssueKeepsFamilies ==
    ASSUME FamiliesBegun, NEW f \in 1..(issued + 1),
           NEW states \in [RefreshIds -> TokenStates],
           \A t \in RefreshIds : t > issued => states[t] = "none",
           issue_tokens(f, states), reading' \subseteq reading,
           refreshing' \in [Refreshers -> 0..MaxRefresh]
    PROVE  FamiliesBegun'
<1>1. issued' = issued + 1 /\ issued + 1 \in RefreshIds /\ issued' \in Nat
  BY MaxRefreshAssumption DEF issue_tokens, FamiliesBegun, RefreshIds
<1>2. family' \in [RefreshIds -> 0..MaxRefresh]
  BY <1>1, MaxRefreshAssumption DEF issue_tokens, FamiliesBegun, RefreshIds
<1>3. tokenState' \in [RefreshIds -> TokenStates]
  BY <1>1 DEF issue_tokens, FamiliesBegun, TokenStates
<1>4. \A t \in RefreshIds : t > issued' => tokenState'[t] = "none" /\ t \notin reading'
  BY <1>1 DEF issue_tokens, FamiliesBegun, RefreshIds
<1>5. ASSUME NEW t \in RefreshIds, t <= issued' PROVE family'[t] \in 1..issued'
  BY <1>1, <1>5 DEF issue_tokens, FamiliesBegun, RefreshIds
<1>6. QED
  BY <1>1, <1>2, <1>3, <1>4, <1>5 DEF FamiliesBegun

\* Revoking touches no token that was not issued, and never revives one.
LEMMA RevokedFacts ==
    ASSUME FamiliesBegun, NEW S
    PROVE  /\ Revoked(S) \in [RefreshIds -> TokenStates]
           /\ \A t \in RefreshIds : t > issued => Revoked(S)[t] = "none"
           /\ \A t \in RefreshIds : Revoked(S)[t] = "live" <=> tokenState[t] = "live" /\ t \notin S
BY DEF FamiliesBegun, Revoked, TokenStates

\* A request that issues nothing leaves the families as they are, and the live
\* tokens and those being refreshed are among those that were so before.
LEMMA NoIssueKeepsHeirs ==
    ASSUME FamiliesBegun, UNCHANGED <<issued, family>>,
           tokenState' \in [RefreshIds -> TokenStates],
           \A t \in RefreshIds : t > issued => tokenState'[t] = "none",
           refreshing' \in [Refreshers -> 0..MaxRefresh],
           Live' \subseteq Live, reading' \subseteq Live \union reading
    PROVE  FamiliesBegun' /\ \A f \in RefreshIds : OneHeir(f) => OneHeir(f)'
<1>1. FamiliesBegun'
  <2>1. ASSUME NEW t \in RefreshIds, t > issued PROVE t \notin reading'
    BY <2>1 DEF FamiliesBegun, Live, RefreshIds
  <2>2. QED
    BY <2>1 DEF FamiliesBegun
<1>2. \A f \in RefreshIds : OneHeir(f) => OneHeir(f)'
  BY DEF OneHeir, Heirs
<1>3. QED
  BY <1>1, <1>2

\* Every step keeps the families, and a family with one heir has one afterwards
\* unless two requests have read its token.
LEMMA HeirsKept ==
    ASSUME FamiliesBegun, [SessionsNext]_sessionVars
    PROVE  /\ FamiliesBegun'
           /\ \A f \in RefreshIds : OneHeir(f) /\ ~TwoReaders(f) => OneHeir(f)'
<1> DEFINE Kept == FamiliesBegun' /\ \A f \in RefreshIds : OneHeir(f) /\ ~TwoReaders(f) => OneHeir(f)'
<1>1. CASE login
  <2>1. refreshing' = refreshing /\ reading' = reading
    BY <1>1 DEF login, reading
  <2>2. FamiliesBegun'
    BY <1>1, <2>1, IssueKeepsFamilies DEF login, FamiliesBegun
  <2>3. Live' = Live \union {issued + 1} /\ issued + 1 \in RefreshIds
    BY <1>1, MaxRefreshAssumption DEF login, issue_tokens, Live, FamiliesBegun, RefreshIds
  <2>4. \A t \in Live \union reading : t \in RefreshIds /\ t # issued + 1 /\ family[t] <= issued
    BY ReadingTokens DEF FamiliesBegun, Live, RefreshIds
  <2>5. family' = [family EXCEPT ![issued + 1] = issued + 1]
    BY <1>1 DEF login, issue_tokens
  <2>6. \A t \in Live \union reading : family'[t] = family[t] /\ family[t] # issued + 1
    <3>1. \A t \in Live \union reading : family'[t] = family[t]
      BY <2>4, <2>5 DEF FamiliesBegun
    <3>2. issued \in Int /\ \A t \in RefreshIds : family[t] \in Int
      BY MaxRefreshAssumption DEF FamiliesBegun, RefreshIds
    <3> QED BY <2>4, <3>1, <3>2
  <2>7. family'[issued + 1] = issued + 1
    BY <2>3, <2>5 DEF FamiliesBegun
  <2>8. ASSUME NEW f \in RefreshIds, OneHeir(f) PROVE OneHeir(f)'
    <3>1. Heirs(f)' \subseteq IF f = issued + 1 THEN {issued + 1} ELSE Heirs(f)
      BY <2>1, <2>3, <2>6, <2>7 DEF Heirs
    <3> QED BY <2>8, <3>1 DEF OneHeir
  <2> QED BY <2>2, <2>8
<1>2. ASSUME NEW q \in Refreshers, rotate(q) PROVE Kept
  <2> DEFINE t == refreshing[q]
  <2>1. /\ t \in reading /\ t \in RefreshIds /\ t <= issued /\ family[t] \in 1..issued
        /\ issued \in Nat /\ issued + 1 \in RefreshIds
    <3>1. t \in reading
      BY <1>2 DEF rotate, reading
    <3>2. t \in RefreshIds /\ issued \in Nat
      BY <3>1, ReadingTokens DEF FamiliesBegun
    <3>3. t <= issued
      BY <3>1, <3>2, MaxRefreshAssumption DEF FamiliesBegun, RefreshIds
    <3> QED
      BY <1>2, <3>1, <3>2, <3>3, MaxRefreshAssumption DEF rotate, issue_tokens, FamiliesBegun, RefreshIds
  <2> HIDE DEF t
  <2>2. /\ refreshing' = [refreshing EXCEPT ![q] = 0]
        /\ issue_tokens(family[t], Revoked({t}))
    BY <1>2 DEF rotate, t
  <2>3. /\ refreshing' \in [Refreshers -> 0..MaxRefresh]
        /\ reading' \subseteq reading
        /\ t \in reading' => \E p \in Refreshers : p # q /\ refreshing[p] = t
    BY <2>2, ReadingEnds DEF t
  <2>4. FamiliesBegun'
    <3>1. family[t] \in 1..(issued + 1)
      BY <2>1
    <3> QED BY <2>2, <2>3, <3>1, IssueKeepsFamilies, RevokedFacts
  <2>5. tokenState' = [Revoked({t}) EXCEPT ![issued + 1] = "live"]
    BY <2>2 DEF issue_tokens
  <2>6. Live' = (Live \ {t}) \union {issued + 1}
    BY <2>1, <2>5, RevokedFacts DEF Live
  <2>7. \A u \in Live \union reading : u \in RefreshIds /\ u # issued + 1
    BY ReadingTokens DEF FamiliesBegun, Live, RefreshIds
  <2>8. family' = [family EXCEPT ![issued + 1] = family[t]]
    BY <2>2 DEF issue_tokens
  <2>9. /\ \A u \in Live \union reading : family'[u] = family[u]
        /\ family'[issued + 1] = family[t]
    BY <2>1, <2>7, <2>8 DEF FamiliesBegun
  <2>10. ASSUME NEW f \in RefreshIds, OneHeir(f), ~TwoReaders(f) PROVE OneHeir(f)'
    <3>1. CASE f # family[t]
      <4>1. Heirs(f)' \subseteq Heirs(f)
        BY <2>3, <2>6, <2>9, <3>1 DEF Heirs
      <4> QED BY <2>10, <4>1 DEF OneHeir
    <3>2. CASE f = family[t]
      <4>1. t \notin reading'
        BY <2>1, <2>3, <2>10, <3>2 DEF TwoReaders, t
      <4>2. Heirs(f) \subseteq {t}
        BY <2>1, <2>10, <3>2 DEF OneHeir, Heirs
      <4>3. Heirs(f)' \subseteq {issued + 1}
        BY <2>3, <2>6, <2>9, <4>1, <4>2 DEF Heirs
      <4> QED BY <4>3 DEF OneHeir
    <3> QED BY <3>1, <3>2
  <2> QED BY <2>4, <2>10
<1>3. ASSUME NEW q \in Refreshers, NEW t \in RefreshIds, refresh_read(q, t) PROVE Kept
  <2>1. /\ UNCHANGED <<issued, family, tokenState>>
        /\ Live' = Live /\ reading' \subseteq Live \union reading
        /\ refreshing' \in [Refreshers -> 0..MaxRefresh]
    BY <1>3, ReadingBegins DEF refresh_read, Live
  <2> QED BY <2>1, NoIssueKeepsHeirs DEF FamiliesBegun
<1>4. ASSUME NEW q \in Refreshers, RefreshAborts(q) PROVE Kept
  <2>1. /\ UNCHANGED <<issued, family, tokenState>>
        /\ Live' = Live /\ reading' \subseteq Live \union reading
        /\ refreshing' \in [Refreshers -> 0..MaxRefresh]
    BY <1>4, ReadingEnds DEF RefreshAborts, Live
  <2> QED BY <2>1, NoIssueKeepsHeirs DEF FamiliesBegun
<1>5. ASSUME NEW S, tokenState' = Revoked(S), UNCHANGED <<issued, family, refreshing>>
      PROVE  Kept
  <2>1. Live' \subseteq Live
    BY <1>5, RevokedFacts DEF Live
  <2>2. reading' = reading
    BY <1>5 DEF reading
  <2>3. refreshing' \in [Refreshers -> 0..MaxRefresh]
    BY <1>5 DEF FamiliesBegun
  <2>4. QED
    BY <1>5, <2>1, <2>2, <2>3, RevokedFacts, NoIssueKeepsHeirs
<1>6. CASE revoke_user_refresh_tokens
  BY <1>5, <1>6 DEF revoke_user_refresh_tokens
<1>7. ASSUME NEW t \in RefreshIds, refresh_reuse(t) \/ logout(t) PROVE Kept
  BY <1>5, <1>7 DEF refresh_reuse, logout
<1>8. ASSUME NEW t \in RefreshIds, RefreshExpires(t) PROVE Kept
  <2>1. tokenState' \in [RefreshIds -> TokenStates] /\ Live' \subseteq Live
    BY <1>8 DEF RefreshExpires, FamiliesBegun, TokenStates, Live
  <2>2. t <= issued
    BY <1>8, MaxRefreshAssumption DEF RefreshExpires, FamiliesBegun, RefreshIds
  <2>3. \A u \in RefreshIds : u > issued => tokenState'[u] = "none"
    BY <1>8, <2>2 DEF RefreshExpires, FamiliesBegun, RefreshIds
  <2>4. reading' = reading /\ refreshing' \in [Refreshers -> 0..MaxRefresh]
    BY <1>8 DEF RefreshExpires, reading, FamiliesBegun
  <2>5. QED
    BY <1>8, <2>1, <2>3, <2>4, NoIssueKeepsHeirs DEF RefreshExpires
<1>9. CASE UNCHANGED sessionVars
  BY <1>9 DEF sessionVars, FamiliesBegun, OneHeir, Heirs, Live, reading
<1> HIDE DEF Kept
<1>10. Kept
  BY <1>1, <1>2, <1>3, <1>4, <1>6, <1>7, <1>8, <1>9 DEF SessionsNext, Kept
<1>11. QED
  BY <1>10 DEF Kept

\* The families stay as logins have begun them.
LEMMA FamiliesStay == SessionsSpec => []FamiliesBegun
<1>1. SessionsInit => FamiliesBegun
  BY SessionsBegin
<1>2. FamiliesBegun /\ [SessionsNext]_sessionVars => FamiliesBegun'
  BY HeirsKept
<1>3. QED
  BY <1>1, <1>2, PTL DEF SessionsSpec

\* rotate revokes the token it was given and issues the next in one commit
\* (routes/auth.py:184): only two requests that have read one token fork a family.
THEOREM ForksOnlyOnOverlap == SessionsSpec => ForksOnlyOnTwoReads
<1>1. FamiliesBegun /\ [SessionsNext]_sessionVars
        => [\A f \in RefreshIds : OneHeir(f) /\ ~OneHeir(f)' => TwoReaders(f)]_sessionVars
  BY HeirsKept
<1>2. QED
  BY <1>1, FamiliesStay, PTL DEF SessionsSpec, ForksOnlyOnTwoReads

\* No token is read by two requests at once.
OneReaderEach == \A f \in RefreshIds : ~TwoReaders(f)

\* A client that never sends one token twice at once holds at most one live
\* token of a family, whatever is revoked, reused or lost meanwhile.
THEOREM LiveUnique == SessionsSpec /\ []OneReaderEach => []OneLivePerFamily
<1>1. SessionsInit => OneHeirPerFamily
  BY SessionsBegin
<1>2. FamiliesBegun /\ OneReaderEach /\ OneHeirPerFamily /\ [SessionsNext]_sessionVars
        => OneHeirPerFamily'
  BY HeirsKept DEF OneReaderEach, OneHeirPerFamily
<1>3. FamiliesBegun /\ OneHeirPerFamily => OneLivePerFamily
  <2> SUFFICES ASSUME FamiliesBegun, OneHeirPerFamily, NEW t \in Live, NEW u \in Live,
                      family[t] = family[u]
               PROVE  t = u
    BY DEF OneLivePerFamily
  <2>1. t \in RefreshIds /\ t <= issued
    BY MaxRefreshAssumption DEF FamiliesBegun, Live, RefreshIds
  <2>2. family[t] \in 0..MaxRefresh /\ family[t] \in 1..issued
    BY <2>1 DEF FamiliesBegun
  <2>3. family[t] \in RefreshIds
    BY <2>2, MaxRefreshAssumption DEF FamiliesBegun, RefreshIds
  <2> QED BY <2>3 DEF OneHeirPerFamily, OneHeir, Heirs
<1>4. QED
  BY <1>1, <1>2, <1>3, FamiliesStay, PTL DEF SessionsSpec

\* A family that a logout, a change of password or a reuse has ended
\* (routes/auth.py:68, 79, 172) lives on only through a refresh under way.
THEOREM EndedFamilies == SessionsSpec => EndedFamilyStaysEnded
<1>1. ASSUME FamiliesBegun, [SessionsNext]_sessionVars, NEW t \in RefreshIds,
             tokenState[t] # "none", Kin(t) \cap Live = {}, Kin(t)' \cap Live' # {}
      PROVE  Kin(t) \cap reading # {}
  <2>1. t <= issued /\ family[t] \in 1..issued
    BY <1>1, MaxRefreshAssumption DEF FamiliesBegun, RefreshIds
  <2>2. PICK u \in RefreshIds : family'[u] = family'[t] /\ tokenState'[u] = "live"
    BY <1>1 DEF Kin, Live
  <2>3. family'[u] # family[u] \/ family'[t] # family[t] \/ tokenState[u] # "live"
    BY <1>1, <2>2 DEF Kin, Live
  <2>4. CASE login
    <3>1. family' = [family EXCEPT ![issued + 1] = issued + 1]
            /\ tokenState' = [tokenState EXCEPT ![issued + 1] = "live"]
      BY <2>4 DEF login, issue_tokens
    <3>2. family'[t] = family[t]
      BY <1>1, <2>1, <3>1 DEF FamiliesBegun, RefreshIds
    <3>3. u = issued + 1 => family'[u] = issued + 1
      BY <1>1, <3>1 DEF FamiliesBegun
    <3>4. u # issued + 1
      BY <1>1, <2>1, <2>2, <3>2, <3>3 DEF FamiliesBegun
    <3>5. family'[u] = family[u] /\ tokenState[u] = "live"
      BY <1>1, <2>2, <3>1, <3>4 DEF FamiliesBegun
    <3>6. QED
      BY <2>3, <3>2, <3>5
  <2>5. ASSUME NEW q \in Refreshers, rotate(q) PROVE Kin(t) \cap reading # {}
    <3> DEFINE r == refreshing[q]
    <3>1. family' = [family EXCEPT ![issued + 1] = family[r]]
            /\ tokenState' = [Revoked({r}) EXCEPT ![issued + 1] = "live"]
      BY <2>5 DEF rotate, issue_tokens
    <3>7. r \in reading /\ r \in RefreshIds
      BY <1>1, <2>5, ReadingTokens DEF rotate, reading
    <3> HIDE DEF r
    <3>2. family'[t] = family[t]
      BY <1>1, <2>1, <3>1 DEF FamiliesBegun, RefreshIds
    <3>3. ASSUME u # issued + 1 PROVE FALSE
      <4>1. family'[u] = family[u] /\ Revoked({r})[u] = "live"
        BY <2>2, <3>1, <3>3, <1>1, RevokedFacts DEF FamiliesBegun
      <4>2. tokenState[u] = "live"
        BY <1>1, <4>1, RevokedFacts
      <4>3. QED
        BY <2>3, <3>2, <4>1, <4>2
    <3>4. family'[u] = family[r]
      BY <1>1, <3>1, <3>3 DEF FamiliesBegun
    <3>5. r \in Kin(t) /\ r \in reading
      BY <2>2, <3>2, <3>4, <3>7 DEF Kin
    <3>6. QED
      BY <3>5
  <2>6. ASSUME UNCHANGED family, Live' \subseteq Live PROVE FALSE
    BY <2>2, <2>3, <2>6 DEF Live
  <2>7. ASSUME NEW S, tokenState' = Revoked(S) PROVE Live' \subseteq Live
    BY <1>1, <2>7, RevokedFacts DEF Live
  <2>8. CASE revoke_user_refresh_tokens
    BY <2>6, <2>7, <2>8 DEF revoke_user_refresh_tokens
  <2>9. ASSUME NEW r \in RefreshIds, refresh_reuse(r) \/ logout(r) PROVE FALSE
    BY <2>6, <2>7, <2>9 DEF refresh_reuse, logout
  <2>10. ASSUME NEW q \in Refreshers, NEW r \in RefreshIds,
                refresh_read(q, r)
         PROVE  FALSE
    BY <2>6, <2>10 DEF refresh_read, Live
  <2>13. ASSUME NEW q \in Refreshers, RefreshAborts(q) PROVE FALSE
    BY <2>6, <2>13 DEF RefreshAborts, Live
  <2>14. ASSUME NEW r \in RefreshIds, RefreshExpires(r) PROVE FALSE
    BY <1>1, <2>6, <2>14 DEF RefreshExpires, Live, FamiliesBegun
  <2>11. CASE UNCHANGED sessionVars
    BY <2>6, <2>11 DEF sessionVars, Live
  <2>12. QED
    BY <1>1, <2>4, <2>5, <2>8, <2>9, <2>10, <2>11, <2>13, <2>14 DEF SessionsNext
<1>2. FamiliesBegun /\ [SessionsNext]_sessionVars
        => [\A t \in RefreshIds :
              /\ tokenState[t] # "none"
              /\ Kin(t) \cap Live = {}
              /\ Kin(t)' \cap Live' # {}
              => Kin(t) \cap reading # {}]_sessionVars
  BY <1>1
<1>3. QED
  BY <1>2, FamiliesStay, PTL DEF SessionsSpec, EndedFamilyStaysEnded

-----------------------------------------------------------------------------
(* The portal's sessions.                                                    *)

Phases == {"idle", "sent", "waiting", "ok", "refused"}
RequestRows(n) == [phase : Phases, kind : {"proxy", "session"}, sent : 0..n, pair : 0..n]

\* The backend works on a token for one request of the portal.
SharedOnce ==
    \A p, q \in Refreshers : refreshing[p] = refreshing[q] /\ refreshing[p] # 0 => p = q

\* A refresh goes on for somebody who waits, and only an answer brings a pair.
PortalSound ==
    /\ PortalTypeOK
    /\ SharedOnce
    /\ \A t \in flights : \E q \in Requests : req[q].phase = "waiting" /\ req[q].sent = t
    /\ \A q \in Requests : req[q].pair # 0 => req[q].phase = "ok"

\* The browser holds the newest pair or the one before it.  When it is the one
\* before it, the cache knows the newest and it is on its way; when the newest
\* has expired, every request was sent with it.
Newest ==
    /\ issued \in RefreshIds /\ tokenState[issued] = "live"
    /\ \A t \in RefreshIds : t >= issued => cache[t] = 0
    /\ flights \subseteq {issued} /\ (flights # {} => issued \in stale)
    /\ cookie \in {issued - 1, issued}
    /\ cookie # issued => cache[cookie] = issued /\ \E q \in Requests : req[q].pair = issued
    /\ \A q \in Requests :
          /\ req[q].phase # "refused"
          /\ req[q].pair \in {0, issued}
          /\ q \in Busy => /\ req[q].sent \in {issued - 1, issued}
                           /\ req[q].sent # issued => cache[req[q].sent] = issued
    /\ issued \in stale => cookie = issued /\ \A q \in Busy : req[q].sent = issued /\ req[q].pair = 0

\* Until an answer is lost or the sessions are ended on purpose: nobody has
\* signed in yet, or the session goes on.
GoesOn ==
    ~excused => \/ cookie = 0 /\ issued = 0 /\ Busy = {}
                \/ cookie # 0 /\ Newest

\* Whatever is done with the tokens keeps their types, and none is taken back.
LEMMA TokensTyped ==
    ASSUME SessionsTypeOK, [SessionsNext]_sessionVars
    PROVE  /\ SessionsTypeOK'
           /\ issued \in Nat /\ issued' \in Nat /\ issued <= issued'
<1>1. ASSUME NEW f \in 0..MaxRefresh, NEW states \in [RefreshIds -> TokenStates],
             \A t \in RefreshIds : states[t] # "none" <=> t <= issued,
             issue_tokens(f, states), refreshing' \in [Refreshers -> 0..issued]
      PROVE  SessionsTypeOK' /\ issued' = issued + 1
  <2>1. issued \in Nat /\ issued' = issued + 1 /\ issued + 1 \in RefreshIds
    BY <1>1, MaxRefreshAssumption DEF issue_tokens, SessionsTypeOK, RefreshIds
  <2>2. family' \in [RefreshIds -> 0..MaxRefresh]
    BY <1>1 DEF issue_tokens, SessionsTypeOK
  <2>3. tokenState' = [states EXCEPT ![issued + 1] = "live"]
    BY <1>1 DEF issue_tokens
  <2>4. tokenState' \in [RefreshIds -> TokenStates]
    BY <2>1, <2>3 DEF TokenStates
  <2>5. \A t \in RefreshIds : tokenState'[t] # "none" <=> t <= issued'
    BY <1>1, <2>1, <2>3 DEF RefreshIds
  <2>6. issued' \in 0..MaxRefresh /\ refreshing' \in [Refreshers -> 0..issued']
    <3>1. 0..issued \subseteq 0..issued'
      BY <2>1
    <3> QED BY <1>1, <2>1, <3>1, MaxRefreshAssumption DEF RefreshIds
  <2> QED BY <2>1, <2>2, <2>4, <2>5, <2>6 DEF SessionsTypeOK
<1>2. ASSUME NEW states \in [RefreshIds -> TokenStates], tokenState' = states,
             \A t \in RefreshIds : states[t] # "none" <=> tokenState[t] # "none",
             UNCHANGED <<issued, family>>, refreshing' \in [Refreshers -> 0..issued]
      PROVE  SessionsTypeOK' /\ issued' = issued
  BY <1>2 DEF SessionsTypeOK
<1>3. ASSUME NEW S
      PROVE  /\ Revoked(S) \in [RefreshIds -> TokenStates]
             /\ \A t \in RefreshIds : Revoked(S)[t] # "none" <=> tokenState[t] # "none"
  BY DEF Revoked, SessionsTypeOK, TokenStates
<1>4. /\ issued \in 0..MaxRefresh /\ refreshing \in [Refreshers -> 0..issued] /\ 0 \in 0..issued
      /\ tokenState \in [RefreshIds -> TokenStates]
      /\ family \in [RefreshIds -> 0..MaxRefresh]
      /\ \A t \in RefreshIds : tokenState[t] # "none" <=> t <= issued
  BY DEF SessionsTypeOK
<1>5. ASSUME login PROVE SessionsTypeOK' /\ issued' = issued + 1
  <2>1. issued + 1 \in 0..MaxRefresh
    BY <1>4, <1>5, MaxRefreshAssumption DEF login, issue_tokens
  <2> QED BY <1>1, <1>4, <1>5, <2>1 DEF login
<1>6. ASSUME NEW q \in Refreshers, rotate(q) PROVE SessionsTypeOK' /\ issued' = issued + 1
  <2>1. family[refreshing[q]] \in 0..MaxRefresh /\ refreshing' \in [Refreshers -> 0..issued]
    <3>1. refreshing[q] \in RefreshIds
      BY <1>4, <1>6, MaxRefreshAssumption DEF rotate, RefreshIds
    <3> QED BY <1>4, <1>6, <3>1 DEF rotate
  <2> QED BY <1>1, <1>3, <1>4, <1>6, <2>1 DEF rotate
<1>7. ASSUME NEW q \in Refreshers, NEW t \in RefreshIds, refresh_read(q, t)
      PROVE  SessionsTypeOK' /\ issued' = issued
  <2>1. t <= issued => t \in 0..issued
    BY <1>4, MaxRefreshAssumption DEF RefreshIds
  <2>2. tokenState[t] = "live" => t <= issued
    BY <1>4
  <2>3. refreshing' \in [Refreshers -> 0..issued]
    BY <1>4, <1>7, <2>1, <2>2 DEF refresh_read
  <2> QED BY <1>2, <1>4, <1>7, <2>3 DEF refresh_read
<1>13. ASSUME NEW q \in Refreshers, RefreshAborts(q) PROVE SessionsTypeOK' /\ issued' = issued
  BY <1>2, <1>4, <1>13 DEF RefreshAborts
<1>8. ASSUME NEW t \in RefreshIds, refresh_reuse(t) \/ logout(t)
      PROVE  SessionsTypeOK' /\ issued' = issued
  BY <1>2, <1>3, <1>4, <1>8 DEF refresh_reuse, logout
<1>9. ASSUME NEW t \in RefreshIds, RefreshExpires(t) PROVE SessionsTypeOK' /\ issued' = issued
  <2>1. [tokenState EXCEPT ![t] = "expired"] \in [RefreshIds -> TokenStates]
    BY <1>4 DEF TokenStates
  <2>2. \A u \in RefreshIds :
           [tokenState EXCEPT ![t] = "expired"][u] # "none" <=> tokenState[u] # "none"
    BY <1>4, <1>9 DEF RefreshExpires
  <2> QED BY <1>2, <1>4, <1>9, <2>1, <2>2 DEF RefreshExpires
<1>10. ASSUME revoke_user_refresh_tokens PROVE SessionsTypeOK' /\ issued' = issued
  BY <1>2, <1>3, <1>4, <1>10 DEF revoke_user_refresh_tokens
<1>11. ASSUME UNCHANGED sessionVars PROVE SessionsTypeOK' /\ issued' = issued
  BY <1>11 DEF sessionVars, SessionsTypeOK
<1>12. SessionsTypeOK' /\ (issued' = issued \/ issued' = issued + 1)
  BY <1>5, <1>6, <1>7, <1>8, <1>9, <1>10, <1>11, <1>13 DEF SessionsNext
<1> QED BY <1>4, <1>12

\* Whatever the portal does, the backend does one of its own steps or none.
LEMMA PortalTokens ==
    ASSUME [PortalNext]_portalVars
    PROVE  [SessionsNext]_sessionVars
<1>1. ASSUME NEW t \in RefreshIds,
             BackendReads(t) \/ BackendRefuses(t) \/ BackendRotates(t) \/ UpstreamFails(t)
      PROVE  [SessionsNext]_sessionVars
  BY <1>1 DEF BackendReads, BackendRefuses, BackendRotates, UpstreamFails, SessionsNext
<1>2. ASSUME RevokedElsewhere PROVE SessionsNext
  BY <1>2 DEF RevokedElsewhere, SessionsNext
<1>3. ASSUME portal_login PROVE SessionsNext
  BY <1>3 DEF portal_login, SessionsNext
<1>4. ASSUME portal_logout \/ PortalRestarts PROVE UNCHANGED sessionVars
  BY <1>4 DEF portal_logout, PortalRestarts
<1>5. ASSUME NEW t \in RefreshIds, AccessExpires(t) \/ CacheExpires(t)
      PROVE  UNCHANGED sessionVars
  BY <1>5 DEF AccessExpires, CacheExpires
<1>6. ASSUME NEW q \in Requests, NEW kind \in {"proxy", "session"},
             \/ Send(q, kind) \/ fetchUpstream(q) \/ refreshCached(q) \/ refreshTokens(q)
             \/ deliver(q) \/ deliver_session(q) \/ Abort(q)
      PROVE  UNCHANGED sessionVars
  BY <1>6 DEF Send, fetchUpstream, refreshCached, refreshTokens, deliver, deliver_session, Abort
<1>7. ASSUME UNCHANGED portalVars PROVE UNCHANGED sessionVars
  BY <1>7 DEF portalVars
<1> QED BY <1>1, <1>2, <1>3, <1>4, <1>5, <1>6, <1>7 DEF PortalNext

\* One request goes on; what it waits for becomes a flight.
LEMMA RequestMoves ==
    ASSUME PortalSound, NEW q \in Requests, NEW row \in RequestRows(issued),
           req' = [req EXCEPT ![q] = row], req[q].phase # "waiting",
           row.pair # 0 => row.phase = "ok",
           flights' = IF row.phase = "waiting" THEN flights \union {row.sent} ELSE flights,
           row.sent = 0 => row.phase # "waiting",
           UNCHANGED <<sessionVars, stale, cache>>,
           cookie' \in 0..issued, excused' \in BOOLEAN
    PROVE  PortalSound'
<1>1. /\ req' \in [Requests -> RequestRows(issued)]
      /\ req'[q] = row
      /\ \A p \in Requests : p # q => req'[p] = req[p]
  BY DEF PortalSound, PortalTypeOK, RequestRows, Phases
<1>2. row.sent \in 0..issued /\ issued \in Nat
  BY MaxRefreshAssumption DEF RequestRows, PortalSound, PortalTypeOK, SessionsTypeOK
<1>3. flights' \subseteq 1..issued /\ flights \subseteq flights'
  <2>1. flights \subseteq 1..issued
    BY DEF PortalSound, PortalTypeOK
  <2>2. row.phase = "waiting" => row.sent \in 1..issued
    BY <1>2
  <2> QED BY <2>1, <2>2
<1>4. \A p \in Requests : req'[p].phase = "waiting" => req'[p].sent \in flights'
  BY <1>1, <1>3 DEF PortalSound, PortalTypeOK
<1>5. ASSUME NEW t \in flights'
      PROVE  \E p \in Requests : req'[p].phase = "waiting" /\ req'[p].sent = t
  <2>1. CASE t \in flights
    <3>1. PICK p \in Requests : req[p].phase = "waiting" /\ req[p].sent = t
      BY <2>1 DEF PortalSound
    <3> QED BY <1>1, <3>1
  <2>2. CASE t \notin flights
    BY <1>1, <2>2
  <2> QED BY <2>1, <2>2
<1>6. \A p \in Requests : req'[p].pair # 0 => req'[p].phase = "ok"
  BY <1>1 DEF PortalSound
<1>7. PortalTypeOK'
  BY <1>1, <1>3, <1>4 DEF PortalSound, PortalTypeOK, SessionsTypeOK, reading, sessionVars, RequestRows,
     Phases
<1>8. SharedOnce'
  BY DEF PortalSound, SharedOnce, sessionVars
<1> QED BY <1>5, <1>6, <1>7, <1>8 DEF PortalSound

\* The refresh of t ends for all who wait for it.
LEMMA RequestsLand ==
    ASSUME PortalSound, NEW t \in RefreshIds, NEW pair \in 0..issued', Land(t, pair),
           SessionsTypeOK', issued \in Nat, issued' \in Nat, issued <= issued'
    PROVE  /\ req' \in [Requests -> RequestRows(issued')]
           /\ \A q \in Requests :
                 /\ req'[q].sent = req[q].sent /\ req'[q].kind = req[q].kind
                 /\ IF req[q].phase = "waiting" /\ req[q].sent = t
                      THEN /\ req'[q].phase = IF pair = 0 THEN "refused" ELSE "ok"
                           /\ req'[q].pair = pair
                      ELSE req'[q] = req[q]
           /\ flights' = flights \ {t} /\ flights' \subseteq 1..issued'
           /\ \A q \in Requests : req'[q].phase = "waiting" => req'[q].sent \in flights'
           /\ \A u \in flights' : \E q \in Requests : req'[q].phase = "waiting" /\ req'[q].sent = u
           /\ \A q \in Requests : req'[q].pair # 0 => req'[q].phase = "ok"
<1>1. \A q \in Requests : req[q] \in RequestRows(issued) /\ req[q] \in RequestRows(issued')
  <2>1. 0..issued \subseteq 0..issued'
    OBVIOUS
  <2> QED BY <2>1 DEF PortalSound, PortalTypeOK, RequestRows, Phases
<1>2. ASSUME NEW q \in Requests
      PROVE  /\ req'[q] \in RequestRows(issued')
             /\ req'[q].sent = req[q].sent /\ req'[q].kind = req[q].kind
             /\ IF req[q].phase = "waiting" /\ req[q].sent = t
                  THEN /\ req'[q].phase = IF pair = 0 THEN "refused" ELSE "ok"
                       /\ req'[q].pair = pair
                  ELSE req'[q] = req[q]
  <2>1. req'[q] = IF req[q].phase = "waiting" /\ req[q].sent = t
                   THEN [req[q] EXCEPT !.phase = IF pair = 0 THEN "refused" ELSE "ok",
                                       !.pair = pair]
                   ELSE req[q]
    BY DEF Land
  <2> QED BY <1>1, <2>1 DEF RequestRows, Phases
<1>3. req' \in [Requests -> RequestRows(issued')]
  <2>1. req' = [q \in Requests |-> req'[q]]
    BY DEF Land
  <2> QED BY <1>2, <2>1
<1>4. flights' = flights \ {t} /\ flights' \subseteq 1..issued'
  <2>1. flights \subseteq 1..issued
    BY DEF PortalSound, PortalTypeOK
  <2>2. 1..issued \subseteq 1..issued'
    OBVIOUS
  <2> QED BY <2>1, <2>2 DEF Land
<1>5. \A q \in Requests : req'[q].phase = "waiting" => req'[q].sent \in flights'
  BY <1>2, <1>4 DEF PortalSound, PortalTypeOK
<1>6. \A u \in flights' : \E q \in Requests : req'[q].phase = "waiting" /\ req'[q].sent = u
  BY <1>2, <1>4 DEF PortalSound
<1>7. \A q \in Requests : req'[q].pair # 0 => req'[q].phase = "ok"
  BY <1>2 DEF PortalSound
<1> QED BY <1>2, <1>3, <1>4, <1>5, <1>6, <1>7

\* Every step of the portal keeps the types and the flights.
LEMMA PortalKept ==
    ASSUME PortalSound, [PortalNext]_portalVars
    PROVE  PortalSound'
<1>1. SessionsTypeOK' /\ issued \in Nat /\ issued' \in Nat /\ issued <= issued'
  BY PortalTokens, TokensTyped DEF PortalSound, PortalTypeOK
<1>2. 0..issued \subseteq 0..issued' /\ 1..issued \subseteq 1..issued'
  BY <1>1
<1>3. /\ cookie \in 0..issued' /\ stale \subseteq 1..issued' /\ flights \subseteq 1..issued'
      /\ cache \in [RefreshIds -> 0..issued']
      /\ req \in [Requests -> RequestRows(issued)] /\ req \in [Requests -> RequestRows(issued')]
      /\ reading \subseteq flights /\ excused \in BOOLEAN
      /\ \A q \in Requests : req[q].phase = "waiting" => req[q].sent \in flights
  BY <1>2 DEF PortalSound, PortalTypeOK, RequestRows, Phases
<1>4. ASSUME UNCHANGED <<req, flights>>, cookie' \in 0..issued', stale' \subseteq 1..issued',
             reading' \subseteq flights, SharedOnce', cache' \in [RefreshIds -> 0..issued'],
             excused' \in BOOLEAN
      PROVE  PortalSound'
  BY <1>1, <1>3, <1>4 DEF PortalSound, PortalTypeOK, RequestRows, Phases
<1>16. UNCHANGED refreshing => SharedOnce' /\ UNCHANGED reading
  BY DEF PortalSound, SharedOnce, reading
<1>5. CASE portal_login
  <2>1. issued' = issued + 1 /\ cookie' = issued + 1 /\ refreshing' = refreshing
        /\ UNCHANGED <<stale, flights, cache, req, excused>>
    BY <1>5 DEF portal_login, login, issue_tokens
  <2>2. cookie' \in 0..issued'
    BY <1>1, <2>1
  <2> QED BY <1>3, <1>4, <1>16, <2>1, <2>2
<1>6. CASE portal_logout \/ PortalRestarts
  <2>1. UNCHANGED <<sessionVars, stale, flights, req>> /\ cookie' \in {0, cookie} /\ excused' = TRUE
        /\ cache' \in {cache, [t \in RefreshIds |-> 0]}
    BY <1>6 DEF portal_logout, PortalRestarts
  <2>2. 0 \in 0..issued' /\ refreshing' = refreshing
    BY <1>1, <2>1 DEF sessionVars
  <2> QED BY <1>3, <1>4, <1>16, <2>1, <2>2
<1>7. CASE RevokedElsewhere
  <2>1. UNCHANGED <<refreshing, cookie, stale, flights, cache, req>> /\ excused' = TRUE
    BY <1>7 DEF RevokedElsewhere, revoke_user_refresh_tokens, RefreshExpires
  <2> QED BY <1>3, <1>4, <1>16, <2>1
<1>8. ASSUME NEW t \in RefreshIds, BackendReads(t) PROVE PortalSound'
  <2>1. UNCHANGED <<cookie, stale, flights, cache, req, excused>> /\ t \in flights
        /\ reading' \subseteq reading \union {t}
    BY <1>8 DEF BackendReads, refresh_read, reading
  <2>2. SharedOnce'
    <3>1. PICK r \in Refreshers : refresh_read(r, t)
      BY <1>8 DEF BackendReads
    <3>2. t \notin reading /\ refreshing' = [refreshing EXCEPT ![r] = t]
          /\ refreshing \in [Refreshers -> 0..issued]
      BY <1>8, <3>1 DEF BackendReads, refresh_read, PortalSound, PortalTypeOK, SessionsTypeOK
    <3>3. \A p \in Refreshers : refreshing'[p] = IF p = r THEN t ELSE refreshing[p]
      BY <3>1, <3>2
    <3>4. \A p \in Refreshers : refreshing[p] # 0 => refreshing[p] # t
      BY <3>2 DEF reading
    <3> QED BY <3>3, <3>4 DEF PortalSound, SharedOnce
  <2> QED BY <1>3, <1>4, <2>1, <2>2
<1>9. ASSUME NEW t \in RefreshIds, AccessExpires(t) \/ CacheExpires(t) PROVE PortalSound'
  <2>1. UNCHANGED <<sessionVars, cookie, flights, req, excused>>
        /\ stale' \subseteq stale \union 1..issued
        /\ cache' \in {cache, [cache EXCEPT ![t] = 0]}
    BY <1>9 DEF AccessExpires, CacheExpires
  <2>2. 0 \in 0..issued' /\ refreshing' = refreshing
    BY <1>1, <2>1 DEF sessionVars
  <2>3. stale' \subseteq 1..issued' /\ cache' \in [RefreshIds -> 0..issued']
    BY <1>2, <1>3, <2>1, <2>2
  <2> QED BY <1>3, <1>4, <1>16, <2>1, <2>2, <2>3
<1>10. ASSUME NEW q \in Requests, NEW kind \in {"proxy", "session"}, Send(q, kind)
       PROVE  PortalSound'
  <2> DEFINE row == [phase |-> "sent", kind |-> kind, sent |-> cookie, pair |-> 0]
  <2>1. row \in RequestRows(issued) /\ req[q].phase # "waiting"
    BY <1>1, <1>10 DEF Send, Busy, RequestRows, Phases, PortalSound, PortalTypeOK
  <2>2. req' = [req EXCEPT ![q] = row]
        /\ UNCHANGED <<sessionVars, cookie, stale, flights, cache, excused>>
    BY <1>10 DEF Send
  <2>3. cookie' \in 0..issued
    BY <2>2 DEF PortalSound, PortalTypeOK
  <2> QED BY <1>3, <2>1, <2>2, <2>3, RequestMoves
<1>11. ASSUME NEW q \in Requests, NEW phase \in Phases, NEW pair \in 0..issued,
              Answer(q, phase, pair), req[q].phase = "sent",
              phase = "ok" \/ (phase = "waiting" /\ pair = 0 /\ req[q].sent # 0),
              flights' = IF phase = "waiting" THEN flights \union {req[q].sent} ELSE flights,
              UNCHANGED <<sessionVars, cookie, stale, cache, excused>>
       PROVE  PortalSound'
  <2> DEFINE row == [req[q] EXCEPT !.phase = phase, !.pair = pair]
  <2>1. row \in RequestRows(issued) /\ row.phase = phase /\ row.pair = pair
        /\ row.sent = req[q].sent
    BY <1>3, <1>11 DEF RequestRows, Phases
  <2>2. req' = [req EXCEPT ![q] = row]
    BY <1>3, <1>11 DEF Answer, RequestRows
  <2>3. cookie' \in 0..issued /\ excused' \in BOOLEAN
    BY <1>11 DEF PortalSound, PortalTypeOK
  <2> HIDE DEF row
  <2> QED BY <1>11, <2>1, <2>2, <2>3, RequestMoves
<1>12. ASSUME NEW q \in Requests, fetchUpstream(q) \/ refreshCached(q) \/ refreshTokens(q)
       PROVE  PortalSound'
  <2>1. "ok" \in Phases /\ "waiting" \in Phases /\ 0 \in 0..issued
    BY <1>1 DEF Phases
  <2>2. CASE fetchUpstream(q)
    BY <1>11, <2>1, <2>2 DEF fetchUpstream
  <2>3. CASE refreshCached(q)
    <3>1. req[q].sent \in RefreshIds
      <4>1. req[q].sent \in 1..issued
        BY <2>3 DEF refreshCached, Unauthorized, PortalSound, PortalTypeOK
      <4>2. issued \in 0..MaxRefresh
        BY DEF PortalSound, PortalTypeOK, SessionsTypeOK
      <4> QED BY <4>1, <4>2, MaxRefreshAssumption DEF RefreshIds
    <3>2. cache[req[q].sent] \in 0..issued
      BY <3>1 DEF PortalSound, PortalTypeOK
    <3> QED BY <1>11, <2>1, <2>3, <3>2 DEF refreshCached, Unauthorized
  <2>4. CASE refreshTokens(q)
    <3>1. req[q].sent # 0
      BY <2>4 DEF refreshTokens, Unauthorized, PortalSound, PortalTypeOK
    <3> QED BY <1>11, <2>1, <2>4, <3>1 DEF refreshTokens, Unauthorized
  <2> QED BY <1>12, <2>2, <2>3, <2>4
<1>13. ASSUME NEW q \in Requests, deliver(q) \/ deliver_session(q) \/ Abort(q)
       PROVE  PortalSound'
  <2>1. /\ req' = [req EXCEPT ![q] = NoRequest]
        /\ req[q].phase \in {"ok", "refused"}
        /\ UNCHANGED <<sessionVars, stale, flights, cache>>
        /\ cookie' \in {0, req[q].pair, cookie} /\ excused' \in {excused, excused \/ req[q].pair # 0}
    BY <1>13 DEF deliver, deliver_session, Abort
  <2>2. cookie' \in 0..issued
    BY <1>1, <1>3, <2>1 DEF RequestRows, PortalSound, PortalTypeOK
  <2>3. NoRequest \in RequestRows(issued) /\ NoRequest.phase = "idle" /\ NoRequest.pair = 0
    BY <1>1 DEF NoRequest, RequestRows, Phases
  <2>4. excused' \in BOOLEAN
    BY <1>3, <2>1
  <2> QED BY <2>1, <2>2, <2>3, <2>4, RequestMoves
<1>14. ASSUME NEW t \in RefreshIds,
              BackendRefuses(t) \/ BackendRotates(t) \/ UpstreamFails(t)
       PROVE  PortalSound'
  <2>1. PICK pair \in 0..issued' : Land(t, pair)
    <3>1. CASE BackendRefuses(t) \/ UpstreamFails(t)
      BY <1>1, <3>1 DEF BackendRefuses, UpstreamFails
    <3>2. CASE BackendRotates(t)
      BY <1>1, <3>2 DEF BackendRotates, rotate, issue_tokens
    <3> QED BY <1>14, <3>1, <3>2
  <2>2. reading' \subseteq reading \ {t} /\ SharedOnce'
    <3>1. CASE t \notin reading
      <4>1. UNCHANGED refreshing
        BY <1>14, <3>1 DEF BackendRefuses, BackendRotates, UpstreamFails, refresh_reuse, rotate,
           reading, sessionVars
      <4> QED BY <1>16, <3>1, <4>1
    <3>2. CASE t \in reading
      <4>1. PICK r \in Refreshers : refreshing[r] = t /\ refreshing' = [refreshing EXCEPT ![r] = 0]
        BY <1>14, <3>2 DEF BackendRefuses, BackendRotates, UpstreamFails, rotate, RefreshAborts
      <4>2. t # 0 /\ refreshing \in [Refreshers -> 0..issued]
        BY <3>2 DEF reading, PortalSound, PortalTypeOK, SessionsTypeOK
      <4>3. \A p \in Refreshers : refreshing'[p] = IF p = r THEN 0 ELSE refreshing[p]
        BY <4>1, <4>2
      <4>4. \A p \in Refreshers : refreshing[p] = t => p = r
        BY <4>1, <4>2 DEF PortalSound, SharedOnce
      <4>5. reading' \subseteq reading \ {t}
        BY <4>3, <4>4 DEF reading
      <4> QED BY <4>3, <4>5 DEF PortalSound, SharedOnce
    <3> QED BY <3>1, <3>2
  <2>3. UNCHANGED <<cookie, stale>> /\ excused' \in {excused, TRUE}
        /\ cache' \in {cache, [cache EXCEPT ![t] = issued']}
    BY <1>1, <1>14 DEF BackendRefuses, BackendRotates, UpstreamFails, rotate, issue_tokens
  <2>4. cache' \in [RefreshIds -> 0..issued']
    BY <1>1, <1>3, <2>3
  <2>5. /\ req' \in [Requests -> RequestRows(issued')]
        /\ flights' = flights \ {t} /\ flights' \subseteq 1..issued'
        /\ \A q \in Requests : req'[q].phase = "waiting" => req'[q].sent \in flights'
        /\ \A u \in flights' : \E q \in Requests : req'[q].phase = "waiting" /\ req'[q].sent = u
        /\ \A q \in Requests : req'[q].pair # 0 => req'[q].phase = "ok"
    BY <1>1, <2>1, RequestsLand
  <2>6. reading' \subseteq flights' /\ excused' \in BOOLEAN
    BY <1>3, <2>2, <2>3, <2>5
  <2>7. PortalTypeOK'
    BY <1>1, <1>3, <2>3, <2>4, <2>5, <2>6 DEF PortalTypeOK, RequestRows, Phases
  <2> QED BY <2>2, <2>5, <2>7 DEF PortalSound
<1>15. CASE UNCHANGED portalVars
  <2>1. UNCHANGED <<refreshing, cookie, stale, flights, cache, req, excused>>
    BY <1>15 DEF portalVars, sessionVars
  <2> QED BY <1>3, <1>4, <1>16, <2>1
<1> QED BY <1>5, <1>6, <1>7, <1>8, <1>9, <1>10, <1>12, <1>13, <1>14, <1>15 DEF PortalNext

\* One request goes on in a session that goes on.
LEMMA NewestMoves ==
    ASSUME PortalSound, Newest, NEW q \in Requests, NEW row,
           req' = [req EXCEPT ![q] = row], UNCHANGED <<issued, tokenState, cache, stale>>,
           row.phase # "refused", row.pair \in {0, issued},
           row.phase # "idle" => /\ row.sent \in {issued - 1, issued}
                                 /\ row.sent # issued => cache[row.sent] = issued,
           issued \in stale => row.pair = 0 /\ (row.phase # "idle" => row.sent = issued),
           flights' \subseteq {issued}, flights' # {} => issued \in stale,
           cookie' \in {cookie, issued}, cookie' # issued => req[q].pair = 0
    PROVE  Newest'
<1>1. /\ req'[q] = row
      /\ \A p \in Requests : p # q => req'[p] = req[p]
  BY DEF PortalSound, PortalTypeOK
<1>2. \A p \in Requests : (p \in Busy' <=> req'[p].phase # "idle") /\ (p \in Busy <=> req[p].phase # "idle")
  BY DEF Busy
<1>3. \A p \in Requests :
         /\ req'[p].phase # "refused" /\ req'[p].pair \in {0, issued}
         /\ p \in Busy' => /\ req'[p].sent \in {issued - 1, issued}
                           /\ req'[p].sent # issued => cache[req'[p].sent] = issued
  BY <1>1, <1>2 DEF Newest
<1>4. cookie' # issued => cache[cookie'] = issued /\ \E p \in Requests : req'[p].pair = issued
  <2> SUFFICES ASSUME cookie' # issued
               PROVE  cache[cookie'] = issued /\ \E p \in Requests : req'[p].pair = issued
    OBVIOUS
  <2>1. cookie' = cookie /\ cache[cookie] = issued
    BY DEF Newest
  <2>2. PICK p \in Requests : req[p].pair = issued
    BY <2>1 DEF Newest
  <2>3. issued # 0
    BY MaxRefreshAssumption DEF Newest, RefreshIds
  <2>4. p # q
    BY <2>2, <2>3
  <2> QED BY <1>1, <2>1, <2>2, <2>4
<1>5. issued \in stale => cookie' = issued /\ \A p \in Busy' : req'[p].sent = issued /\ req'[p].pair = 0
  <2>1. Busy' \subseteq Requests
    BY DEF Busy
  <2> QED BY <1>1, <1>2, <2>1 DEF Newest
<1> QED BY <1>3, <1>4, <1>5 DEF Newest

\* When the clocks run out, the browser holds the newest pair.
LEMMA SettledNewest ==
    ASSUME PortalSound, Newest, Settled
    PROVE  cookie = issued /\ \A q \in Busy : req[q].sent = issued /\ req[q].pair = 0
<1>1. ASSUME cookie # issued PROVE FALSE
  <2>1. PICK q \in Requests : req[q].pair = issued
    BY <1>1 DEF Newest
  <2>2. issued # 0
    BY MaxRefreshAssumption DEF Newest, RefreshIds
  <2>3. q \in Busy
    BY <2>1, <2>2 DEF PortalSound, Busy
  <2> QED BY <2>1, <2>2, <2>3 DEF Settled
<1> QED BY <1>1 DEF Settled

\* A rotation answers all who wait, and the cache knows the new pair.
LEMMA NewestRotates ==
    ASSUME PortalSound, PortalSound', Newest, cookie # 0, NEW t \in RefreshIds, BackendRotates(t)
    PROVE  cookie' # 0 /\ Newest'
<1>1. t = issued /\ issued \in stale /\ t \in flights
  BY DEF BackendRotates, Newest
<1>2. /\ issued' = issued + 1 /\ issued \in Nat /\ issued + 1 \in RefreshIds
      /\ tokenState' = [Revoked({t}) EXCEPT ![issued + 1] = "live"]
      /\ cache' = [cache EXCEPT ![issued] = issued + 1]
      /\ Land(issued, issued + 1) /\ UNCHANGED <<cookie, stale, excused>>
  BY <1>1, MaxRefreshAssumption DEF BackendRotates, rotate, issue_tokens, Newest, RefreshIds
<1>3. tokenState'[issued'] = "live"
  BY <1>2 DEF Revoked
<1>4. cookie = issued /\ \A q \in Busy : req[q].sent = issued /\ req[q].pair = 0
  BY <1>1 DEF Newest
<1>5. /\ SessionsTypeOK' /\ issued' \in Nat /\ issued <= issued' /\ issued + 1 \in 0..issued'
      /\ cache \in [RefreshIds -> 0..issued] /\ stale \subseteq 1..issued /\ flights \subseteq {issued}
  BY <1>2 DEF PortalSound, PortalTypeOK, Newest
<1>6. /\ flights' = flights \ {issued}
      /\ \A q \in Requests :
            /\ req'[q].sent = req[q].sent
            /\ IF req[q].phase = "waiting" /\ req[q].sent = issued
                 THEN req'[q].phase = "ok" /\ req'[q].pair = issued'
                 ELSE req'[q] = req[q]
  <2>1. issued + 1 # 0
    BY <1>2
  <2> QED BY <1>1, <1>2, <1>5, <2>1, RequestsLand
<1>7. cache'[issued] = issued' /\ \A u \in RefreshIds : u >= issued' => cache'[u] = 0
  <2>1. \A u \in RefreshIds : u >= issued => cache[u] = 0
    BY DEF Newest
  <2> QED BY <1>1, <1>2, <1>5, <2>1 DEF RefreshIds
<1>8. issued' \notin stale' /\ flights' = {}
  BY <1>2, <1>5, <1>6
<1>9. \E q \in Requests : req'[q].pair = issued'
  BY <1>1, <1>6 DEF PortalSound
<1>10. ASSUME NEW q \in Requests
       PROVE  /\ req'[q].phase # "refused" /\ req'[q].pair \in {0, issued'}
              /\ q \in Busy' => req'[q].sent = issued
  <2>1. q \in Busy' => q \in Busy
    BY <1>6 DEF Busy
  <2>2. q \notin Busy => req[q].pair = 0
    BY DEF PortalSound, Busy
  <2>3. req[q].phase # "refused" /\ req[q].pair = 0
    BY <1>4, <2>2 DEF Newest
  <2> QED BY <1>4, <1>6, <2>1, <2>3
<1>11. cookie' = issued' - 1 /\ cookie' # 0 /\ issued = issued' - 1
  BY <1>2, <1>4
<1> QED BY <1>2, <1>3, <1>4, <1>7, <1>8, <1>9, <1>10, <1>11 DEF Newest

\* Every step of the portal keeps the session going.
LEMMA SessionGoesOn ==
    ASSUME PortalSound, PortalSound', GoesOn, [PortalNext]_portalVars
    PROVE  GoesOn'
<1> SUFFICES ASSUME ~excused'
             PROVE  (cookie = 0 /\ issued = 0 /\ Busy = {})' \/ (cookie # 0 /\ Newest)'
  BY DEF GoesOn
<1>1. /\ ~portal_logout /\ ~PortalRestarts /\ ~RevokedElsewhere
      /\ \A t \in RefreshIds : ~UpstreamFails(t)
  BY DEF portal_logout, PortalRestarts, RevokedElsewhere, UpstreamFails
<1>2. /\ \A q \in Requests : req[q].phase = "idle" => req[q].pair = 0
      /\ issued \in 0..MaxRefresh /\ issued \in Nat
      /\ stale \subseteq 1..issued /\ flights \subseteq 1..issued
      /\ cache \in [RefreshIds -> 0..issued]
      /\ req \in [Requests -> RequestRows(issued)]
  BY MaxRefreshAssumption DEF PortalSound, PortalTypeOK, SessionsTypeOK, RequestRows, Phases
<1>3. ASSUME portal_login, cookie = 0, issued = 0, Busy = {} PROVE (cookie # 0 /\ Newest)'
  <2>1. /\ issued' = 1 /\ cookie' = 1 /\ 1 \in RefreshIds
        /\ tokenState' = [tokenState EXCEPT ![1] = "live"]
        /\ UNCHANGED <<stale, flights, cache, req>>
    BY <1>2, <1>3, MaxRefreshAssumption DEF portal_login, login, issue_tokens, RefreshIds
  <2>2. tokenState'[1] = "live"
    BY <2>1 DEF PortalSound, PortalTypeOK, SessionsTypeOK
  <2>3. /\ \A u \in RefreshIds : cache'[u] = 0
        /\ stale' = {} /\ flights' = {}
    BY <1>2, <1>3, <2>1
  <2>4. \A q \in Requests : req'[q].phase = "idle" /\ req'[q].pair = 0
    BY <1>2, <1>3, <2>1 DEF Busy
  <2>5. Busy' = {}
    BY <2>4 DEF Busy
  <2> QED BY <2>1, <2>2, <2>3, <2>4, <2>5 DEF Newest
<1>4. ASSUME cookie = 0, issued = 0, Busy = {}, ~portal_login
      PROVE  (cookie = 0 /\ issued = 0 /\ Busy = {})'
  <2>1. flights = {} /\ \A q \in Requests : req[q].phase = "idle"
    BY <1>2, <1>4 DEF Busy
  <2>2. ASSUME NEW q \in Requests, NEW kind
        PROVE  ~(\/ Send(q, kind) \/ fetchUpstream(q) \/ refreshCached(q) \/ refreshTokens(q)
                 \/ deliver(q) \/ deliver_session(q) \/ Abort(q))
    BY <1>4, <2>1 DEF Send, fetchUpstream, refreshCached, refreshTokens, Unauthorized, deliver,
                      deliver_session, Abort
  <2>3. ASSUME NEW t \in RefreshIds
        PROVE  ~(BackendReads(t) \/ BackendRefuses(t) \/ BackendRotates(t))
    BY <2>1 DEF BackendReads, BackendRefuses, BackendRotates
  <2>4. \/ \E t \in RefreshIds : AccessExpires(t) \/ CacheExpires(t)
        \/ UNCHANGED portalVars
    BY <1>1, <1>4, <2>2, <2>3 DEF PortalNext
  <2>5. UNCHANGED <<cookie, issued, req>>
    BY <2>4 DEF AccessExpires, CacheExpires, portalVars, sessionVars
  <2> QED BY <1>4, <2>5 DEF Busy
<1> DEFINE Goes == (cookie # 0 /\ Newest)'
<1>5. ASSUME cookie # 0, Newest, [PortalNext]_portalVars PROVE Goes
  <2>1. /\ issued \in RefreshIds /\ issued # 0
        /\ \A u \in RefreshIds : u >= issued => cache[u] = 0
        /\ cache[issued] = 0
    BY <1>5, MaxRefreshAssumption DEF Newest, RefreshIds
  <2>2. ASSUME NEW q \in Requests, NEW kind \in {"proxy", "session"}, Send(q, kind) PROVE Goes
    <3> DEFINE row == [phase |-> "sent", kind |-> kind, sent |-> cookie, pair |-> 0]
    <3>1. /\ req' = [req EXCEPT ![q] = row]
          /\ UNCHANGED <<issued, tokenState, cookie, stale, flights, cache>>
          /\ req[q].pair = 0
      BY <1>2, <2>2 DEF Send, Busy, sessionVars
    <3>2. /\ row.phase = "sent" /\ row.sent = cookie /\ row.pair = 0
      OBVIOUS
    <3> HIDE DEF row
    <3>3. /\ cookie \in {issued - 1, issued} /\ (cookie # issued => cache[cookie] = issued)
          /\ flights' \subseteq {issued} /\ (flights' # {} => issued \in stale)
          /\ (issued \in stale => cookie = issued)
      BY <1>5, <3>1 DEF Newest
    <3>4. Newest'
      BY <1>5, <3>1, <3>2, <3>3, NewestMoves
    <3> QED BY <1>5, <3>1, <3>4
  <2>3. ASSUME NEW q \in Requests, NEW phase \in {"ok", "waiting"}, NEW pair \in {0, issued},
               req[q].phase = "sent", Answer(q, phase, pair),
               issued \in stale => pair = 0,
               flights' \subseteq {issued}, flights' # {} => issued \in stale,
               UNCHANGED <<issued, tokenState, cookie, stale, cache>>
        PROVE  Goes
    <3> DEFINE row == [req[q] EXCEPT !.phase = phase, !.pair = pair]
    <3>1. row.phase = phase /\ row.pair = pair /\ row.sent = req[q].sent
      BY <1>2 DEF RequestRows
    <3>2. req' = [req EXCEPT ![q] = row]
      BY <1>2, <2>3 DEF Answer, RequestRows
    <3> HIDE DEF row
    <3>3. /\ q \in Busy /\ req[q].pair = 0
          /\ req[q].sent \in {issued - 1, issued}
          /\ req[q].sent # issued => cache[req[q].sent] = issued
          /\ issued \in stale => req[q].sent = issued
      BY <1>5, <2>3 DEF Newest, Busy, PortalSound
    <3>4. row.phase # "refused" /\ row.phase # "idle" /\ cookie' \in {cookie, issued}
      BY <2>3, <3>1
    <3>5. Newest'
      BY <1>5, <2>3, <3>1, <3>2, <3>3, <3>4, NewestMoves
    <3> QED BY <1>5, <2>3, <3>5
  <2>4. ASSUME NEW q \in Requests, fetchUpstream(q) PROVE Goes
    <3>1. /\ req[q].phase = "sent" /\ Answer(q, "ok", 0)
          /\ UNCHANGED <<issued, tokenState, cookie, stale, cache, flights>>
      BY <2>4 DEF fetchUpstream, sessionVars
    <3> QED BY <1>5, <2>3, <3>1 DEF Newest
  <2>5. ASSUME NEW q \in Requests, refreshCached(q) PROVE Goes
    <3>1. /\ req[q].phase = "sent" /\ Answer(q, "ok", cache[req[q].sent])
          /\ cache[req[q].sent] # 0
          /\ UNCHANGED <<issued, tokenState, cookie, stale, cache, flights>>
      BY <2>5 DEF refreshCached, Unauthorized, sessionVars
    <3>2. req[q].sent # issued /\ q \in Busy
      BY <2>1, <3>1 DEF Busy
    <3>3. cache[req[q].sent] = issued /\ issued \notin stale
      BY <1>5, <3>2 DEF Newest
    <3> QED BY <1>5, <2>3, <3>1, <3>3 DEF Newest
  <2>6. ASSUME NEW q \in Requests, refreshTokens(q) PROVE Goes
    <3>1. /\ req[q].phase = "sent" /\ Answer(q, "waiting", 0) /\ req[q].sent \in stale
          /\ cache[req[q].sent] = 0 /\ flights' = flights \union {req[q].sent}
          /\ UNCHANGED <<issued, tokenState, cookie, stale, cache>>
      BY <2>6 DEF refreshTokens, Unauthorized, sessionVars
    <3>2. req[q].sent = issued
      BY <1>5, <2>1, <3>1 DEF Newest, Busy
    <3> QED BY <1>5, <2>3, <3>1, <3>2 DEF Newest
  <2>7. ASSUME NEW q \in Requests, deliver(q) \/ deliver_session(q) \/ Abort(q) PROVE Goes
    <3>1. /\ req' = [req EXCEPT ![q] = NoRequest]
          /\ UNCHANGED <<issued, tokenState, cache, stale, flights>>
      BY <2>7 DEF deliver, deliver_session, Abort, sessionVars
    <3>2. NoRequest.phase = "idle" /\ NoRequest.pair = 0
      BY DEF NoRequest
    <3>3. req[q].phase # "refused" /\ req[q].pair \in {0, issued}
      BY <1>5 DEF Newest
    <3>4. cookie' = IF req[q].pair # 0 THEN issued ELSE cookie
      BY <2>7, <3>3 DEF deliver, deliver_session, Abort
    <3>5. cookie' \in {cookie, issued} /\ (cookie' # issued => req[q].pair = 0) /\ cookie' # 0
      BY <1>5, <2>1, <3>3, <3>4
    <3>6. flights' \subseteq {issued} /\ (flights' # {} => issued \in stale)
      BY <1>5, <3>1 DEF Newest
    <3>7. Newest'
      BY <1>5, <3>1, <3>2, <3>5, <3>6, NewestMoves
    <3> QED BY <3>5, <3>7
  <2>8. ASSUME NEW t \in RefreshIds, BackendReads(t) PROVE Goes
    BY <1>5, <2>8 DEF BackendReads, refresh_read, Newest, Busy
  <2>9. ASSUME NEW t \in RefreshIds, BackendRefuses(t) PROVE Goes
    BY <1>5, <2>9 DEF BackendRefuses, refresh_reuse, Newest
  <2>10. ASSUME NEW t \in RefreshIds, BackendRotates(t) PROVE Goes
    BY <1>5, <2>10, NewestRotates
  <2>11. ASSUME NEW t \in RefreshIds, AccessExpires(t) PROVE Goes
    <3>1. cookie = issued /\ \A q \in Busy : req[q].sent = issued /\ req[q].pair = 0
      BY <1>5, <2>11, SettledNewest DEF AccessExpires
    <3>2. UNCHANGED <<issued, tokenState, cookie, flights, cache, req>> /\ stale \subseteq stale'
      BY <2>11 DEF AccessExpires, sessionVars
    <3>3. Busy' = Busy
      BY <3>2 DEF Busy
    <3> QED BY <1>5, <3>1, <3>2, <3>3 DEF Newest
  <2>12. ASSUME NEW t \in RefreshIds, CacheExpires(t) PROVE Goes
    <3>1. cookie = issued /\ \A q \in Busy : req[q].sent = issued /\ req[q].pair = 0
      BY <1>5, <2>12, SettledNewest DEF CacheExpires
    <3>2. UNCHANGED <<issued, tokenState, cookie, flights, stale, req>>
          /\ cache' = [cache EXCEPT ![t] = 0]
      BY <2>12 DEF CacheExpires, sessionVars
    <3>3. Busy' = Busy /\ \A u \in RefreshIds : u >= issued => cache'[u] = 0
      BY <1>2, <2>1, <3>2 DEF Busy
    <3> QED BY <1>5, <3>1, <3>2, <3>3 DEF Newest
  <2>13. ASSUME UNCHANGED portalVars PROVE Goes
    BY <1>5, <2>13 DEF portalVars, sessionVars, Newest, Busy
  <2>14. ~portal_login
    BY <1>5 DEF portal_login
  <2> HIDE DEF Goes
  <2> QED BY <1>1, <1>5, <2>2, <2>4, <2>5, <2>6, <2>7, <2>8, <2>9, <2>10, <2>11, <2>12, <2>13,
             <2>14 DEF PortalNext
<1>6. ~excused
  BY DEF portalVars, PortalNext, portal_login, Send, fetchUpstream, refreshCached, refreshTokens,
         deliver, deliver_session, Abort, BackendReads, BackendRefuses, BackendRotates,
         UpstreamFails, AccessExpires, CacheExpires, portal_logout, PortalRestarts, RevokedElsewhere
<1> QED BY <1>3, <1>4, <1>5, <1>6 DEF GoesOn

\* At the start nobody has signed in and no token is issued.
LEMMA PortalBegins == PortalInit => PortalSound /\ GoesOn
<1> SUFFICES ASSUME PortalInit PROVE PortalSound /\ GoesOn
  OBVIOUS
<1>1. /\ issued = 0 /\ cookie = 0 /\ stale = {} /\ flights = {} /\ reading = {}
      /\ \A q \in Requests : req[q].phase = "idle" /\ req[q].pair = 0
  BY DEF PortalInit, SessionsInit, NoRequest, reading
<1>2. SessionsTypeOK
  BY MaxRefreshAssumption DEF PortalInit, SessionsInit, SessionsTypeOK, RefreshIds, TokenStates
<1>3. PortalTypeOK
  <2>1. 0 \in 0..issued /\ NoRequest \in RequestRows(issued)
    BY <1>1 DEF NoRequest, RequestRows, Phases
  <2>2. req \in [Requests -> RequestRows(issued)] /\ cache \in [RefreshIds -> 0..issued]
    BY <2>1 DEF PortalInit
  <2> QED BY <1>1, <1>2, <2>1, <2>2 DEF PortalInit, PortalTypeOK, RequestRows, Phases
<1>4. SharedOnce
  BY DEF PortalInit, SessionsInit, SharedOnce
<1> QED BY <1>1, <1>3, <1>4 DEF PortalSound, GoesOn, Busy

\* A portal in which the session goes on throws nobody out.
LEMMA SoundStaysSignedIn == PortalSound /\ GoesOn => StaysSignedIn
<1> SUFFICES ASSUME PortalSound, GoesOn, ~excused
             PROVE  /\ \A q \in Requests : req[q].phase # "refused"
                    /\ cookie # 0 => tokenState[cookie] = "live" \/ cache[cookie] # 0
  BY DEF StaysSignedIn
<1>1. CASE cookie = 0 /\ Busy = {}
  BY <1>1 DEF Busy
<1>2. CASE cookie # 0 /\ Newest
  BY <1>2, MaxRefreshAssumption DEF Newest, RefreshIds
<1> QED BY <1>1, <1>2 DEF GoesOn

\* However many requests find the access token expired together, the user is
\* not thrown out in the middle of a session (lib/backend.ts:115).
THEOREM SignedInStays == PortalSpec => []StaysSignedIn
<1>1. PortalInit => PortalSound /\ GoesOn
  BY PortalBegins
<1>2. PortalSound /\ GoesOn /\ [PortalNext]_portalVars => (PortalSound /\ GoesOn)'
  BY PortalKept, SessionGoesOn
<1>3. PortalSound /\ GoesOn => StaysSignedIn
  BY SoundStaysSignedIn
<1> QED BY <1>1, <1>2, <1>3, PTL DEF PortalSpec

\* Refresh tokens keep their types from the start.
LEMMA TokensAlwaysTyped == SessionsSpec => []SessionsTypeOK
<1>1. SessionsInit => SessionsTypeOK
  BY MaxRefreshAssumption DEF SessionsInit, SessionsTypeOK, RefreshIds, TokenStates
<1>2. SessionsTypeOK /\ [SessionsNext]_sessionVars => SessionsTypeOK'
  BY TokensTyped
<1> QED BY <1>1, <1>2, PTL DEF SessionsSpec

-----------------------------------------------------------------------------
(* Accounts.                                                                 *)

\* The requests are records, and the request that an administrator makes about
\* the own account takes neither the role nor the lock away.
RequestsSound ==
    /\ pending \in [AdminRequests -> [op : {"idle", "authorised", "create", "update", "delete"},
                                      by : Users \union {"none"}, target : Users \union {"none"},
                                      role : UserRoles \union {Keep},
                                      active : {"yes", "no", Keep}, must : {"yes", "no", Keep}]]
    /\ \A q \in AdminRequests :
         /\ pending[q].op = "create" => pending[q].role \in UserRoles
         /\ (pending[q].op \in {"update", "delete"} /\ pending[q].target = pending[q].by)
            => pending[q].op = "update" /\ pending[q].role = Keep /\ pending[q].active = Keep

AccountsSound == AccountsTypeOK /\ RequestsSound

\* A request that has read what it needs is sound, and nothing is written yet.
LEMMA PrepareKeeps ==
    ASSUME AccountsSound, NEW q \in AdminRequests, NEW u \in Users,
           NEW op \in {"create", "update", "delete"}, NEW r \in UserRoles \union {Keep},
           NEW on \in {"yes", "no", Keep}, NEW must \in {"yes", "no", Keep},
           Prepare(q, op, u, r, on, must),
           op = "create" => r \in UserRoles,
           op \in {"update", "delete"} => u \in Accounts,
           op \in {"update", "delete"} /\ u = pending[q].by
             => op = "update" /\ r = Keep /\ on = Keep
    PROVE  AccountsSound'
<1>1. /\ pending[q].by \in Users
      /\ pending' = [pending EXCEPT ![q] = [op |-> op, by |-> pending[q].by, target |-> u,
                                            role |-> r, active |-> on, must |-> must]]
      /\ UNCHANGED <<role, unlocked, mustChange, hasTokens>>
  BY DEF Prepare, AccountsSound, AccountsTypeOK
<1>2. Accounts' = Accounts
  BY <1>1 DEF Accounts
<1>3. AccountsTypeOK'
  BY <1>1, <1>2 DEF AccountsSound, AccountsTypeOK, RequestsSound
<1>4. RequestsSound'
  BY <1>1 DEF AccountsSound, RequestsSound
<1>5. QED
  BY <1>3, <1>4 DEF AccountsSound

\* A commit writes what the request has read and wants, and leaves it sound.
LEMMA CommitsKeep ==
    ASSUME AccountsSound, NEW q \in AdminRequests, commit_changes(q) \/ commit_deletion(q)
    PROVE  AccountsSound'
<1> DEFINE u == pending[q].target
<1> USE DEF Write, Altered, Keep, UserRoles
<1>1. CASE commit_changes(q)
  <2>1. /\ u \in Users
        /\ \A v \in Users \ {u} : role'[v] = role[v]
        /\ role' \in [Users -> UserRoles \union {"none"}]
        /\ role'[u] # "none"
    BY <1>1 DEF commit_changes, AccountsSound, AccountsTypeOK, RequestsSound, Accounts
  <2>2. Accounts' = Accounts \union {u}
    BY <2>1 DEF Accounts
  <2>3. pending' = [pending EXCEPT ![q] = NotAsked]
    BY <1>1 DEF commit_changes
  <2>4. RequestsSound'
    BY <2>3 DEF AccountsSound, RequestsSound, NotAsked
  <2>5. unlocked' \subseteq Accounts' /\ mustChange' \subseteq Accounts' /\ hasTokens' \subseteq Accounts'
    BY <1>1, <2>2 DEF commit_changes, AccountsSound, AccountsTypeOK, RequestsSound
  <2>6. QED
    BY <2>1, <2>2, <2>3, <2>4, <2>5 DEF AccountsSound, AccountsTypeOK, RequestsSound, NotAsked
<1>2. CASE commit_deletion(q)
  <2>1. /\ u \in Users
        /\ role' = [role EXCEPT ![u] = "none"]
        /\ unlocked' = unlocked \ {u}
        /\ mustChange' = mustChange \ {u}
        /\ hasTokens' = hasTokens /\ u \notin hasTokens
    BY <1>2 DEF commit_deletion, AccountsSound, AccountsTypeOK, Accounts
  <2>2. Accounts' = Accounts \ {u}
    BY <2>1 DEF Accounts, AccountsSound, AccountsTypeOK
  <2>3. \A p \in AdminRequests :
           \/ pending'[p] = NotAsked
           \/ /\ pending'[p] = pending[p]
              /\ pending[p].op \in {"update", "delete"} => pending[p].target # u
    BY <1>2 DEF commit_deletion, Without
  <2>4. pending' = [p \in AdminRequests |-> pending'[p]]
    BY <1>2 DEF commit_deletion, Without
  <2>5. RequestsSound'
    <3>1. ASSUME NEW p \in AdminRequests
          PROVE  /\ pending'[p] \in [op : {"idle", "authorised", "create", "update", "delete"},
                                     by : Users \union {"none"}, target : Users \union {"none"},
                                     role : UserRoles \union {Keep},
                                     active : {"yes", "no", Keep}, must : {"yes", "no", Keep}]
                 /\ pending'[p].op = "create" => pending'[p].role \in UserRoles
                 /\ (pending'[p].op \in {"update", "delete"} /\ pending'[p].target = pending'[p].by)
                    => pending'[p].op = "update" /\ pending'[p].role = Keep /\ pending'[p].active = Keep
      BY <2>3 DEF AccountsSound, RequestsSound, NotAsked
    <3>2. QED
      BY <2>4, <3>1 DEF RequestsSound
  <2>6. QED
    BY <2>1, <2>2, <2>3, <2>5 DEF AccountsSound, AccountsTypeOK, NotAsked
<1>3. QED
  BY <1>1, <1>2

\* Every step keeps accounts and requests sound.
LEMMA AccountsKept ==
    ASSUME AccountsSound, [AccountsNext]_accountVars
    PROVE  AccountsSound'
<1>1. ASSUME NEW q \in AdminRequests, NEW a \in Users, require_super_admin(q, a)
      PROVE  AccountsSound'
  BY <1>1 DEF require_super_admin, NotAsked, Keep, AccountsSound, AccountsTypeOK, RequestsSound,
     Accounts
<1>2. ASSUME NEW q \in AdminRequests, NEW u \in Users, create_user(q, u)
      PROVE  AccountsSound'
  BY <1>2, PrepareKeeps DEF create_user
<1>3. ASSUME NEW q \in AdminRequests, NEW u \in Users, update_user(q, u)
      PROVE  AccountsSound'
  <2>1. PICK r \in UserRoles, on \in {"yes", "no"} :
           /\ u = pending[q].by => r = "super_admin" /\ on = "yes"
           /\ Prepare(q, "update", u, Differing(r, RoleRead(q, u)),
                      Differing(on, ActiveRead(q, u)), Keep)
    BY <1>3 DEF update_user
  <2>2. /\ Differing(r, RoleRead(q, u)) \in UserRoles \union {Keep}
        /\ Differing(on, ActiveRead(q, u)) \in {"yes", "no", Keep}
        /\ u = pending[q].by => /\ Differing(r, RoleRead(q, u)) = Keep
                                /\ Differing(on, ActiveRead(q, u)) = Keep
    BY <2>1 DEF Differing, RoleRead, ActiveRead, YesNo
  <2>3. QED
    BY <1>3, <2>1, <2>2, PrepareKeeps DEF update_user
<1>4. ASSUME NEW q \in AdminRequests, NEW u \in Users, reset_password(q, u)
      PROVE  AccountsSound'
  <2>1. Differing("yes", YesNo(u \in mustChange)) \in {"yes", "no", Keep}
    BY DEF Differing
  <2>2. QED
    BY <1>4, <2>1, PrepareKeeps DEF reset_password
<1>5. ASSUME NEW q \in AdminRequests, NEW u \in Users, delete_user(q, u)
      PROVE  AccountsSound'
  <2>1. u \in Accounts /\ u # pending[q].by /\ Prepare(q, "delete", u, Keep, Keep, Keep)
    BY <1>5 DEF delete_user
  <2>2. QED
    BY <2>1, PrepareKeeps
<1>6. ASSUME NEW q \in AdminRequests, request_fails(q) PROVE AccountsSound'
  BY <1>6 DEF request_fails, NotAsked, Keep, AccountsSound, AccountsTypeOK, RequestsSound, Accounts
<1>7. ASSUME NEW u \in Users, sign_in(u) \/ change_password(u) PROVE AccountsSound'
  BY <1>7 DEF sign_in, change_password, AccountsSound, AccountsTypeOK, RequestsSound, Accounts
<1>8. ASSUME UNCHANGED accountVars PROVE AccountsSound'
  BY <1>8 DEF accountVars, AccountsSound, AccountsTypeOK, RequestsSound, Accounts
<1>9. QED
  BY <1>1, <1>2, <1>3, <1>4, <1>5, <1>6, <1>7, <1>8, CommitsKeep DEF AccountsNext

\* Roles, locks, forced changes, tokens and requests keep their types.
LEMMA AccountsStaySound == AccountsSpec => []AccountsSound
<1>1. AccountsInit => AccountsSound
  BY FounderAssumption DEF AccountsInit, AccountsSound, AccountsTypeOK, RequestsSound, Accounts,
     UserRoles, NotAsked, Keep
<1>2. AccountsSound /\ [AccountsNext]_accountVars => AccountsSound'
  BY AccountsKept
<1>3. QED
  BY <1>1, <1>2, PTL DEF AccountsSpec

\* What refers to an account has the account.
LEMMA AccountsTyped == AccountsSpec => []AccountsTypeOK
<1>1. AccountsSound => AccountsTypeOK
  BY DEF AccountsSound
<1>2. QED
  BY <1>1, AccountsStaySound, PTL

\* Only a commit changes who stands, and only the account that it is about.
LEMMA CommitChangesOne ==
    ASSUME AccountsSound, [AccountsNext]_accountVars, Standing' # Standing
    PROVE  \E q \in AdminRequests :
              /\ commit_changes(q) \/ commit_deletion(q)
              /\ Standing \ {pending[q].target} \subseteq Standing'
<1> USE DEF Standing, SuperAdmins, Accounts
<1>1. ~(role' = role /\ unlocked' = unlocked)
  <2> SUFFICES ASSUME role' = role, unlocked' = unlocked PROVE FALSE
    OBVIOUS
  <2>1. Standing' = Standing
    BY Zenon
  <2> QED BY <2>1, Zenon
<1>2. PICK q \in AdminRequests : commit_changes(q) \/ commit_deletion(q)
  BY <1>1 DEF AccountsNext, accountVars, require_super_admin, create_user, update_user,
     reset_password, delete_user, Prepare, request_fails, sign_in, change_password
<1>3. \A v \in Users \ {pending[q].target} :
         role'[v] = role[v] /\ (v \in unlocked => v \in unlocked')
  <2>1. \E r \in UserRoles \union {Keep, "none"}, on, must \in {"yes", "no", Keep} :
           Write(pending[q].target, r, on, must)
    BY <1>2 DEF commit_changes, commit_deletion, AccountsSound, RequestsSound
  <2>2. PICK on \in {"yes", "no", Keep} : unlocked' = Altered(unlocked, pending[q].target, on)
    BY <2>1 DEF Write
  <2>3. \A v \in Users \ {pending[q].target} : v \in unlocked => v \in unlocked'
    BY <2>2 DEF Altered, Keep
  <2>4. \A v \in Users \ {pending[q].target} : role'[v] = role[v]
    BY <2>1 DEF Write, AccountsSound, AccountsTypeOK
  <2> QED BY <2>3, <2>4
<1>4. QED
  BY <1>2, <1>3

\* The last super administrator who can sign in falls to a request of one who
\* no longer stands: to requests that overlap (routes/users.py:162-200, 254-299).
THEOREM SuperLostToOverlap == AccountsSpec => SuperLostOnlyToOverlap
<1>1. AccountsSound /\ [AccountsNext]_accountVars =>
        [Standing # {} /\ Standing' = {} =>
         \E q \in AdminRequests :
            /\ pending[q].op \in {"update", "delete"} /\ pending'[q] = NotAsked
            /\ pending[q].by \notin Standing
            /\ Standing = {pending[q].target}]_accountVars
  <2> SUFFICES ASSUME AccountsSound, [AccountsNext]_accountVars, Standing # {}, Standing' = {}
               PROVE  \E q \in AdminRequests :
                         /\ pending[q].op \in {"update", "delete"} /\ pending'[q] = NotAsked
                         /\ pending[q].by \notin Standing
                         /\ Standing = {pending[q].target}
    OBVIOUS
  <2>1. PICK q \in AdminRequests :
           /\ commit_changes(q) \/ commit_deletion(q)
           /\ Standing \ {pending[q].target} \subseteq Standing'
    BY CommitChangesOne
  <2>2. Standing = {pending[q].target}
    BY <2>1
  <2>3. pending[q].op \in {"update", "delete"}
    BY <2>1, <2>2 DEF commit_changes, commit_deletion, Standing, SuperAdmins
  <2>4. pending'[q] = NotAsked
    BY <2>1 DEF commit_changes, commit_deletion, Without, AccountsSound, RequestsSound
  <2>5. pending[q].by # pending[q].target
    <3>1. SUFFICES ASSUME pending[q].by = pending[q].target PROVE Standing' = Standing
      BY <2>2
    <3>2. pending[q].op = "update" /\ pending[q].role = Keep /\ pending[q].active = Keep
      BY <2>3, <3>1 DEF AccountsSound, RequestsSound
    <3>3. commit_changes(q)
      BY <2>1, <3>2 DEF commit_deletion
    <3>4. UNCHANGED <<role, unlocked>>
      BY <3>2, <3>3 DEF commit_changes, Write, Altered, Keep, AccountsSound, AccountsTypeOK
    <3>5. QED
      BY <3>4 DEF Standing, SuperAdmins, Accounts
  <2>6. QED
    BY <2>2, <2>3, <2>4, <2>5
<1>2. QED
  BY <1>1, AccountsStaySound, PTL DEF AccountsSpec, SuperLostOnlyToOverlap

\* Whoever has asked stands, until the request is answered.
AskerStands ==
    /\ SuperRemains
    /\ \A q \in AdminRequests : pending[q] # NotAsked => pending[q].by \in Standing

\* A request that is alone keeps its administrator standing until it is answered.
LEMMA AskerKept ==
    ASSUME \A p, q \in AdminRequests : p = q,
           AccountsSound, AskerStands, [AccountsNext]_accountVars
    PROVE  AskerStands'
<1>1. CASE Standing' = Standing
  <2>1. ASSUME NEW q \in AdminRequests, pending'[q] # NotAsked PROVE pending'[q].by \in Standing
    <3>1. ASSUME NEW p \in AdminRequests, NEW u \in Users, require_super_admin(p, u)
          PROVE  pending'[q].by \in Standing
      BY <2>1, <3>1 DEF require_super_admin, AccountsSound, RequestsSound
    <3>2. ASSUME NEW p \in AdminRequests, NEW u \in Users,
                 create_user(p, u) \/ update_user(p, u) \/ reset_password(p, u) \/ delete_user(p, u)
          PROVE  pending'[q].by \in Standing
      <4>1. p = q /\ pending[q].op = "authorised" /\ pending'[q].by = pending[q].by
        BY <3>2 DEF create_user, update_user, reset_password, delete_user, Prepare,
           AccountsSound, RequestsSound
      <4>2. QED
        BY <4>1 DEF AskerStands, NotAsked
    <3>3. ASSUME NEW p \in AdminRequests, commit_changes(p) \/ commit_deletion(p) \/ request_fails(p)
          PROVE  pending'[q].by \in Standing
      BY <2>1, <3>3 DEF commit_changes, commit_deletion, request_fails, Without, AccountsSound,
         RequestsSound
    <3>4. CASE UNCHANGED pending
      BY <2>1, <3>4 DEF AskerStands
    <3>5. QED
      BY <3>1, <3>2, <3>3, <3>4 DEF AccountsNext, accountVars, sign_in, change_password
  <2>2. QED
    BY <1>1, <2>1 DEF AskerStands, SuperRemains
<1>2. CASE Standing' # Standing
  <2>1. PICK q \in AdminRequests :
           /\ commit_changes(q) \/ commit_deletion(q)
           /\ Standing \ {pending[q].target} \subseteq Standing'
    BY <1>2, CommitChangesOne
  <2>2. \A p \in AdminRequests : pending'[p] = NotAsked
    BY <2>1 DEF commit_changes, commit_deletion, Without, AccountsSound, RequestsSound
  <2>3. pending[q].by \in Standing
    BY <2>1 DEF AskerStands, NotAsked, commit_changes, commit_deletion
  <2>4. CASE pending[q].by # pending[q].target
    BY <2>1, <2>2, <2>3, <2>4 DEF AskerStands, SuperRemains
  <2>5. CASE pending[q].by = pending[q].target
    <3>1. CASE pending[q].op = "create"
      BY <2>1, <2>3, <2>5, <3>1 DEF commit_changes, commit_deletion, Standing, SuperAdmins
    <3>2. CASE pending[q].op \in {"update", "delete"}
      <4>1. pending[q].op = "update" /\ pending[q].role = Keep /\ pending[q].active = Keep
        BY <2>5, <3>2 DEF AccountsSound, RequestsSound
      <4>2. UNCHANGED <<role, unlocked>>
        BY <2>1, <4>1 DEF commit_changes, commit_deletion, Write, Altered, Keep, AccountsSound,
           AccountsTypeOK
      <4>3. QED
        BY <1>2, <4>2 DEF Standing, SuperAdmins, Accounts
    <3>3. QED
      BY <2>1, <3>1, <3>2 DEF commit_changes, commit_deletion
  <2>6. QED
    BY <2>4, <2>5
<1>3. QED
  BY <1>1, <1>2

\* When no two administrators' requests overlap, what routes/users.py:11 says is
\* so: some super administrator can always sign in.
THEOREM SuperStaysAlone ==
    ASSUME \A p, q \in AdminRequests : p = q
    PROVE  AccountsSpec => []SuperRemains
<1>1. AccountsInit => AskerStands
  BY FounderAssumption DEF AccountsInit, AskerStands, SuperRemains, Standing, SuperAdmins, Accounts,
     UserRoles
<1>2. AccountsSound /\ AskerStands /\ [AccountsNext]_accountVars => AskerStands'
  BY AskerKept
<1>3. AskerStands => SuperRemains
  BY DEF AskerStands
<1>4. QED
  BY <1>1, <1>2, <1>3, AccountsStaySound, PTL DEF AccountsSpec

-----------------------------------------------------------------------------
(* Notifications.                                                            *)

\* Rows and calls are records, and no two rows have one key of a caller.
InboxSound ==
    /\ inbox \subseteq Inbox
    /\ sends \in [Senders -> [key : Keys \union {NoKey}, to : SUBSET Recipients]]
    /\ OnceForEachKey

\* The rows of one call are rows of the inbox and have its key.
LEMMA RowsType ==
    ASSUME NEW key \in Keys \union {NoKey}, NEW users \in SUBSET Recipients
    PROVE  Rows(key, users) \subseteq Inbox /\ \A n \in Rows(key, users) : n.key = key
<1>1. ASSUME NEW n \in Rows(key, users) PROVE n \in Inbox /\ n.key = key
  <2>1. PICK u \in users : n = [key |-> key, to |-> u, read |-> FALSE]
    BY DEF Rows
  <2>2. u \in Recipients
    OBVIOUS
  <2>3. QED
    BY <2>1, <2>2 DEF Inbox
<1>2. QED
  BY <1>1

\* A commit adds at most one row with a key, and only a key that no row has.
LEMMA CommitOnce ==
    ASSUME InboxSound, NEW s \in Senders, commit_notifications(s)
    PROVE  InboxSound'
<1> DEFINE key == sends[s].key
           users == sends[s].to
<1>1. key \in Keys \union {NoKey} /\ users \subseteq Recipients
  BY DEF InboxSound
<1>2. sends' \in [Senders -> [key : Keys \union {NoKey}, to : SUBSET Recipients]]
  BY DEF InboxSound, commit_notifications, NotSending
<1>3. CASE inbox' = inbox
  BY <1>2, <1>3 DEF InboxSound, OnceForEachKey
<1>4. CASE key \notin KeysUsed /\ ~(Cardinality(users) > 1) /\ inbox' = inbox \union Rows(key, users)
  <2>1. \A u, v \in users : u = v
    <3>1. IsFiniteSet(users)
      BY <1>1, RecipientsAssumption, FS_Subset
    <3>2. ASSUME NEW u \in users, NEW v \in users, u # v PROVE FALSE
      <4>1. Cardinality({u, v}) = 2
        <5>1. IsFiniteSet({u}) /\ Cardinality({u}) = 1
          BY FS_Singleton
        <5>2. v \notin {u} /\ {u} \union {v} = {u, v}
          BY <3>2
        <5>3. Cardinality({u} \union {v}) = Cardinality({u}) + 1
          BY <5>1, <5>2, FS_AddElement
        <5>4. QED
          BY <5>1, <5>2, <5>3
      <4>2. Cardinality({u, v}) <= Cardinality(users)
        BY <3>1, <3>2, FS_Subset
      <4>3. Cardinality(users) \in Nat
        BY <3>1, FS_CardinalityType
      <4>4. QED
        BY <1>4, <4>1, <4>2, <4>3
    <3>3. QED
      BY <3>2
  <2>2. Rows(key, users) \subseteq Inbox /\ \A n \in Rows(key, users) : n.key = key
    BY <1>1, RowsType
  <2>3. \A m, n \in Rows(key, users) : m = n
    BY <2>1 DEF Rows
  <2>4. \A n \in inbox : n.key # key \/ n.key = NoKey
    BY <1>4 DEF KeysUsed
  <2>5. OnceForEachKey'
    BY <1>4, <2>2, <2>3, <2>4 DEF InboxSound, OnceForEachKey
  <2>6. QED
    BY <1>2, <1>4, <2>2, <2>5 DEF InboxSound
<1>5. QED
  BY <1>3, <1>4 DEF commit_notifications

\* Every step keeps the inbox sound.
LEMMA InboxKept ==
    ASSUME InboxSound, [NotificationsNext]_notificationVars
    PROVE  InboxSound'
<1>1. ASSUME NEW users \in SUBSET Recipients, admin_send_notification(users) PROVE InboxSound'
  <2>1. Rows(NoKey, users) \subseteq Inbox /\ \A n \in Rows(NoKey, users) : n.key = NoKey
    BY RowsType
  <2>2. QED
    BY <1>1, <2>1 DEF admin_send_notification, InboxSound, OnceForEachKey
<1>2. ASSUME NEW users \in SUBSET Recipients, NEW s \in Senders, NEW key \in Keys,
             external_send_notification(s, key, users)
      PROVE  InboxSound'
  BY <1>2 DEF external_send_notification, InboxSound, OnceForEachKey
<1>3. ASSUME NEW s \in Senders, SendAborts(s) PROVE InboxSound'
  BY <1>3 DEF SendAborts, InboxSound, OnceForEachKey, NotSending
<1>4. ASSUME NEW n \in inbox, mark_read(n) PROVE InboxSound'
  <2>1. [n EXCEPT !.read = TRUE] \in Inbox /\ [n EXCEPT !.read = TRUE].key = n.key
    BY DEF InboxSound, Inbox
  <2>2. QED
    BY <1>4, <2>1 DEF mark_read, InboxSound, OnceForEachKey
<1>5. ASSUME NEW u \in Recipients, mark_all_read(u) PROVE InboxSound'
  <2>1. \A n \in inbox : /\ [n EXCEPT !.read = TRUE] \in Inbox
                         /\ [n EXCEPT !.read = TRUE].key = n.key
    BY DEF InboxSound, Inbox
  <2>2. \A m \in inbox' : \E n \in inbox :
           m.key = n.key /\ m = IF n.to = u THEN [n EXCEPT !.read = TRUE] ELSE n
    BY <1>5, <2>1 DEF mark_all_read
  <2>3. OnceForEachKey'
    <3>1. ASSUME NEW m1 \in inbox', NEW m2 \in inbox', m1.key = m2.key, m1.key # NoKey
          PROVE  m1 = m2
      <4>1. PICK n1 \in inbox : /\ m1.key = n1.key
                                /\ m1 = IF n1.to = u THEN [n1 EXCEPT !.read = TRUE] ELSE n1
        BY <2>2
      <4>2. PICK n2 \in inbox : /\ m2.key = n2.key
                                /\ m2 = IF n2.to = u THEN [n2 EXCEPT !.read = TRUE] ELSE n2
        BY <2>2
      <4>3. n1 = n2
        BY <3>1, <4>1, <4>2 DEF InboxSound, OnceForEachKey
      <4>4. QED
        BY <4>1, <4>2, <4>3
    <3>2. QED
      BY <3>1 DEF OnceForEachKey
  <2>4. QED
    BY <1>5, <2>1, <2>3 DEF mark_all_read, InboxSound
<1>6. ASSUME inbox' \subseteq inbox, UNCHANGED sends PROVE InboxSound'
  BY <1>6 DEF InboxSound, OnceForEachKey
<1>7. QED
  BY <1>1, <1>2, <1>3, <1>4, <1>5, <1>6, CommitOnce DEF NotificationsNext, notificationVars,
     delete_notification, clear_read

\* A caller that repeats its call, or two that share a key, tell nobody twice
\* (services/notifications.py:121, 155), whatever users do with their inbox meanwhile.
THEOREM KeysOnce == NotificationsSpec => []OnceForEachKey
<1>1. NotificationsInit => InboxSound
  BY DEF NotificationsInit, InboxSound, OnceForEachKey, NotSending
<1>2. InboxSound /\ [NotificationsNext]_notificationVars => InboxSound'
  BY InboxKept
<1>3. InboxSound => OnceForEachKey
  BY DEF InboxSound
<1>4. QED
  BY <1>1, <1>2, <1>3, PTL DEF NotificationsSpec

\* Rows and calls keep their types, and only a call under way has a key.
LEMMA NotificationsTyped == NotificationsSpec => []NotificationsTypeOK
<1> DEFINE KeyHeld == \A s \in Senders : sends[s].key = NoKey <=> sends[s] = NotSending
<1>1. NotificationsInit => InboxSound /\ KeyHeld
  BY DEF NotificationsInit, InboxSound, OnceForEachKey, NotSending
<1>2. InboxSound /\ [NotificationsNext]_notificationVars => InboxSound'
  BY InboxKept
<1>3. InboxSound /\ KeyHeld /\ [NotificationsNext]_notificationVars => KeyHeld'
  <2> SUFFICES ASSUME InboxSound, KeyHeld, [NotificationsNext]_notificationVars PROVE KeyHeld'
    OBVIOUS
  <2>1. ASSUME NEW s \in Senders, NEW key \in Keys, NEW users \in SUBSET Recipients,
               external_send_notification(s, key, users)
        PROVE  KeyHeld'
    BY <2>1, RecipientsAssumption DEF external_send_notification, InboxSound, NotSending
  <2>2. ASSUME NEW s \in Senders, commit_notifications(s) \/ SendAborts(s) PROVE KeyHeld'
    <3>1. sends' = [sends EXCEPT ![s] = NotSending] /\ DOMAIN sends = Senders
      BY <2>2 DEF commit_notifications, SendAborts, InboxSound
    <3>2. NotSending.key = NoKey
      BY DEF NotSending
    <3> QED BY <3>1, <3>2
  <2>3. ASSUME UNCHANGED sends PROVE KeyHeld'
    BY <2>3
  <2> HIDE DEF KeyHeld
  <2> QED BY <2>1, <2>2, <2>3 DEF NotificationsNext, notificationVars, admin_send_notification,
             mark_read, mark_all_read, delete_notification, clear_read
<1>4. InboxSound /\ KeyHeld => NotificationsTypeOK
  BY DEF InboxSound, NotificationsTypeOK
<1> HIDE DEF KeyHeld
<1> QED BY <1>1, <1>2, <1>3, <1>4, PTL DEF NotificationsSpec

-----------------------------------------------------------------------------
(* The Telegram bot.                                                         *)

\* Only tokens that are out of the table are being used or have been used, and
\* none is both.
LinksSound ==
    /\ linkToken \in [LinkTokens -> [state : {"none", "live", "expired", "gone"},
                                     user : LinkUsers \union {"none"}]]
    /\ chat \in [LinkUsers -> Nat]
    /\ answering \subseteq LinkTokens
    /\ linkedEver \subseteq LinkTokens
    /\ \A t \in answering \union linkedEver : linkToken[t].state = "gone"
    /\ answering \cap linkedEver = {}

\* What TokenLinksOnce says of one step.
LinksNew == \A u \in LinkUsers : chat'[u] # chat[u] /\ chat'[u] # 0 => chat'[u] \notin linkedEver

\* Every step about links keeps them sound and links through a new token.
LEMMA LinkSteps ==
    ASSUME LinksSound, BotNext
    PROVE  LinksSound' /\ LinksNew
<1> USE DEF LinksSound, LinksNew
<1>1. ASSUME NEW u \in LinkUsers, start_telegram_link(u) PROVE LinksSound' /\ LinksNew
  <2>1. PICK t \in LinkTokens :
           linkToken[t] = NoToken /\ linkToken' = [linkToken EXCEPT ![t] = [state |-> "live", user |-> u]]
    BY <1>1 DEF start_telegram_link
  <2>2. t \notin answering \union linkedEver
    BY <2>1 DEF NoToken
  <2>3. QED
    BY <1>1, <2>1, <2>2 DEF start_telegram_link
<1>2. ASSUME NEW t \in LinkTokens, LinkTokenExpires(t) PROVE LinksSound' /\ LinksNew
  BY <1>2 DEF LinkTokenExpires
<1>3. ASSUME NEW t \in LinkTokens, telegram_callback(t) PROVE LinksSound' /\ LinksNew
  BY <1>3 DEF telegram_callback
<1>4. ASSUME NEW t \in LinkTokens, callback_commits(t) PROVE LinksSound' /\ LinksNew
  <2>1. t \in Nat /\ t \in answering /\ t \notin linkedEver /\ linkToken[t].state = "gone"
    BY <1>4, TelegramAssumption DEF callback_commits, LinkTokens
  <2>2. chat' = [chat EXCEPT ![linkToken[t].user] = t]
    BY <1>4 DEF callback_commits
  <2>3. chat' \in [LinkUsers -> Nat] /\ LinksNew
    BY <2>1, <2>2
  <2>4. /\ answering' = answering \ {t} /\ linkedEver' = linkedEver \union {t}
        /\ linkToken' = linkToken
    BY <1>4 DEF callback_commits
  <2>5. \A r \in answering' \union linkedEver' : linkToken'[r].state = "gone"
    BY <2>1, <2>4
  <2>6. answering' \cap linkedEver' = {}
    BY <2>1, <2>4
  <2>7. QED
    BY <2>3, <2>4, <2>5, <2>6
<1>5. ASSUME NEW u \in LinkUsers, unlink_telegram(u) PROVE LinksSound' /\ LinksNew
  BY <1>5 DEF unlink_telegram
<1>6. CASE BotRestart
  <2>1. linkToken' \in [LinkTokens -> [state : {"none", "live", "expired", "gone"},
                                       user : LinkUsers \union {"none"}]]
    BY <1>6 DEF BotRestart, NoToken
  <2>2. \A t \in linkedEver : linkToken'[t].state = "gone"
    BY <1>6 DEF BotRestart, NoToken
  <2>3. QED
    BY <1>6, <2>1, <2>2 DEF BotRestart
<1>7. CASE UNCHANGED linkVars
  BY <1>7 DEF linkVars
<1>8. ASSUME NEW b \in BotReaders, get_bot_config(b) \/ store_snapshot(b) PROVE UNCHANGED linkVars
  BY <1>8 DEF get_bot_config, store_snapshot
<1>9. ASSUME update_bot_config \/ invalidate_bot_cache \/ SnapshotAges PROVE UNCHANGED linkVars
  BY <1>9 DEF update_bot_config, invalidate_bot_cache, SnapshotAges
<1> HIDE DEF LinksSound, LinksNew
<1>10. CASE \E u \in LinkUsers : start_telegram_link(u) \/ unlink_telegram(u)
  BY <1>1, <1>5, <1>10
<1>11. CASE \E t \in LinkTokens : LinkTokenExpires(t) \/ telegram_callback(t) \/ callback_commits(t)
  BY <1>2, <1>3, <1>4, <1>11
<1>12. CASE \E b \in BotReaders : get_bot_config(b) \/ store_snapshot(b)
  BY <1>7, <1>8, <1>12
<1>13. QED
  BY <1>6, <1>7, <1>9, <1>10, <1>11, <1>12 DEF BotNext

\* A callback that Telegram repeats, or one after the user has unlinked, links
\* nothing (routes/notifications.py:420): the token is out of the table by then.
THEOREM LinkedOnce == BotSpec => TokenLinksOnce
<1>1. BotInit => LinksSound
  BY DEF BotInit, LinksSound, NoToken
<1>2. LinksSound /\ [BotNext]_botVars => LinksSound'
  <2>1. LinksSound /\ UNCHANGED botVars => LinksSound'
    BY DEF botVars, LinksSound
  <2>2. QED
    BY <2>1, LinkSteps
<1>3. LinksSound /\ [BotNext]_botVars => [LinksNew]_botVars
  BY LinkSteps
<1>4. QED
  BY <1>1, <1>2, <1>3, PTL DEF BotSpec, TokenLinksOnce, LinksNew

\* The snapshot that senders use is the present one, is being cleared, or was
\* stored by a request that had read the row before (telegram_bot_admin.py:242).
THEOREM SnapshotHolds == BotSpec => []SnapshotIsCurrent
<1>1. BotInit => SnapshotIsCurrent
  BY DEF BotInit, SnapshotIsCurrent
<1>2. SnapshotIsCurrent /\ [BotNext]_botVars => SnapshotIsCurrent'
  <2>1. SnapshotIsCurrent /\ UNCHANGED cacheVars => SnapshotIsCurrent'
    BY DEF cacheVars, SnapshotIsCurrent
  <2>2. ASSUME SnapshotIsCurrent, NEW b \in BotReaders, get_bot_config(b) \/ store_snapshot(b)
        PROVE  SnapshotIsCurrent'
    BY <2>2 DEF get_bot_config, store_snapshot, SnapshotIsCurrent
  <2>3. ASSUME SnapshotIsCurrent,
               BotRestart \/ update_bot_config \/ invalidate_bot_cache \/ SnapshotAges
        PROVE  SnapshotIsCurrent'
    BY <2>3 DEF BotRestart, update_bot_config, invalidate_bot_cache, SnapshotAges,
       SnapshotIsCurrent
  <2>4. QED
    BY <2>1, <2>2, <2>3 DEF BotNext, botVars, cacheVars, start_telegram_link, LinkTokenExpires,
       telegram_callback, callback_commits, unlink_telegram
<1>3. QED
  BY <1>1, <1>2, PTL DEF BotSpec

\* A chat was linked through a token of its user, which is out of the table and
\* never given to anyone else.
ChatsSound ==
    /\ BotTypeOK
    /\ \A u \in LinkUsers : chat[u] # 0 => chat[u] \in linkedEver

\* Every step keeps the types and the users of the links.
LEMMA ChatsKept ==
    ASSUME LinksSound, ChatsSound, [BotNext]_botVars
    PROVE  ChatsSound'
<1> DEFINE Links == /\ linkToken \in [LinkTokens -> [state : {"none", "live", "expired", "gone"},
                                                     user : LinkUsers \union {"none"}]]
                    /\ answering \subseteq LinkTokens /\ linkedEver \subseteq LinkTokens
                    /\ chat \in [LinkUsers -> 0..MaxLinkTokens]
                    /\ \A u \in LinkUsers : chat[u] # 0 =>
                          chat[u] \in linkedEver /\ linkToken[chat[u]].user = u
<1>1. Links /\ botConfig \in 1..MaxVersion
  BY DEF ChatsSound, BotTypeOK
<1>2. ASSUME Links', botConfig' \in 1..MaxVersion PROVE ChatsSound'
  BY <1>2 DEF ChatsSound, BotTypeOK
<1>3. \A t \in linkedEver \union answering : linkToken[t].state = "gone"
  BY DEF LinksSound
<1>4. ASSUME NEW u \in LinkUsers, start_telegram_link(u) PROVE Links'
  <2>1. PICK t \in LinkTokens :
           linkToken[t] = NoToken /\ linkToken' = [linkToken EXCEPT ![t] = [state |-> "live", user |-> u]]
    BY <1>4 DEF start_telegram_link
  <2>2. t \notin linkedEver
    BY <1>3, <2>1 DEF NoToken
  <2> QED BY <1>1, <1>4, <2>1, <2>2 DEF start_telegram_link
<1>5. ASSUME NEW t \in LinkTokens, LinkTokenExpires(t) \/ telegram_callback(t) PROVE Links'
  BY <1>1, <1>5 DEF LinkTokenExpires, telegram_callback
<1>6. ASSUME NEW t \in LinkTokens, callback_commits(t) PROVE Links'
  <2>1. t \in 0..MaxLinkTokens
    BY TelegramAssumption DEF LinkTokens
  <2>2. /\ chat' = [chat EXCEPT ![linkToken[t].user] = t]
        /\ linkedEver' = linkedEver \union {t} /\ answering' = answering \ {t}
        /\ linkToken' = linkToken
    BY <1>6 DEF callback_commits
  <2>3. ASSUME NEW u \in LinkUsers, chat'[u] # 0
        PROVE  chat'[u] \in linkedEver' /\ linkToken'[chat'[u]].user = u
    <3>1. CASE u = linkToken[t].user
      BY <1>1, <2>2, <3>1
    <3>2. CASE u # linkToken[t].user
      BY <1>1, <2>2, <2>3, <3>2
    <3> QED BY <3>1, <3>2
  <2> QED BY <1>1, <2>1, <2>2, <2>3
<1>7. ASSUME NEW u \in LinkUsers, unlink_telegram(u) PROVE Links'
  <2>1. 0 \in 0..MaxLinkTokens
    BY TelegramAssumption
  <2> QED BY <1>1, <1>7, <2>1 DEF unlink_telegram
<1>8. CASE BotRestart
  <2>1. linkToken' \in [LinkTokens -> [state : {"none", "live", "expired", "gone"},
                                       user : LinkUsers \union {"none"}]]
    BY <1>1, <1>8 DEF BotRestart, NoToken
  <2>2. \A t \in LinkTokens : linkToken'[t].user = linkToken[t].user
    BY <1>1, <1>8 DEF BotRestart
  <2>3. UNCHANGED <<chat, linkedEver, botConfig>> /\ answering' = {}
    BY <1>8 DEF BotRestart
  <2>4. Links'
    BY <1>1, <2>1, <2>2, <2>3
  <2> QED BY <1>1, <1>2, <2>3, <2>4
<1>9. ASSUME UNCHANGED linkVars PROVE Links'
  BY <1>1, <1>9 DEF linkVars
<1> HIDE DEF Links
<1>10. CASE \E u \in LinkUsers : start_telegram_link(u) \/ unlink_telegram(u)
  <2>1. UNCHANGED botConfig
    BY <1>10 DEF start_telegram_link, unlink_telegram, cacheVars
  <2> QED BY <1>1, <1>2, <1>4, <1>7, <1>10, <2>1
<1>11. CASE \E t \in LinkTokens : LinkTokenExpires(t) \/ telegram_callback(t) \/ callback_commits(t)
  <2>1. UNCHANGED botConfig
    BY <1>11 DEF LinkTokenExpires, telegram_callback, callback_commits, cacheVars
  <2> QED BY <1>1, <1>2, <1>5, <1>6, <1>11, <2>1
<1>12. CASE update_bot_config
  <2>1. UNCHANGED linkVars /\ botConfig' = botConfig + 1 /\ botConfig < MaxVersion
    BY <1>12 DEF update_bot_config
  <2>2. botConfig' \in 1..MaxVersion
    BY <1>1, <2>1, TelegramAssumption
  <2> QED BY <1>2, <1>9, <2>1, <2>2
<1>13. CASE \/ invalidate_bot_cache \/ SnapshotAges \/ UNCHANGED botVars
            \/ \E b \in BotReaders : get_bot_config(b) \/ store_snapshot(b)
  <2>1. UNCHANGED linkVars /\ UNCHANGED botConfig
    BY <1>13 DEF invalidate_bot_cache, SnapshotAges, get_bot_config, store_snapshot, botVars,
                 linkVars
  <2> QED BY <1>1, <1>2, <1>9, <2>1
<1> QED BY <1>8, <1>10, <1>11, <1>12, <1>13 DEF BotNext

\* Links and the bot's configuration keep their types from the start.
LEMMA BotTyped == BotSpec => []BotTypeOK
<1>1. BotInit => LinksSound /\ ChatsSound
  BY TelegramAssumption DEF BotInit, LinksSound, ChatsSound, BotTypeOK, NoToken
<1>2. LinksSound /\ [BotNext]_botVars => LinksSound'
  <2>1. LinksSound /\ UNCHANGED botVars => LinksSound'
    BY DEF botVars, LinksSound
  <2> QED BY <2>1, LinkSteps
<1>3. LinksSound /\ ChatsSound /\ [BotNext]_botVars => ChatsSound'
  BY ChatsKept
<1>4. ChatsSound => BotTypeOK
  BY DEF ChatsSound
<1> QED BY <1>1, <1>2, <1>3, <1>4, PTL DEF BotSpec

-----------------------------------------------------------------------------
(* Alerts.                                                                   *)

LoadedRules == [rule : Rules, row : RuleRows \union {NoRule}]

CallerRows ==
    [todo : SUBSET Machines, at : Machines \union {"none", "down"}, left : SUBSET LoadedRules,
     marked : SUBSET Machines, telegram : NoteKeys \union {<<>>}, found : SUBSET Machines]

\* A caller has rules left only for a machine at hand; only the sweep marks
\* machines, and nobody deletes a row that it has marked and not yet committed.
CallerSound(c, row) ==
    /\ row \in CallerRows
    /\ row.left # {} => row.at \in Machines
    /\ row.marked # {} => c = "sweep"
    /\ row.marked \cap deleted = {}

CallersSound ==
    /\ DOMAIN caller = Callers /\ caller = [c \in Callers |-> caller[c]]
    /\ \A c \in Callers : CallerSound(c, caller[c])

\* A caller that goes on with a row of its own.
LEMMA CallerMoves ==
    ASSUME CallersSound, NEW c \in Callers, NEW row, CallerSound(c, row), deleted' = deleted,
           caller' = [caller EXCEPT ![c] = row]
    PROVE  CallersSound'
<1>1. /\ DOMAIN caller' = Callers /\ caller' = [d \in Callers |-> caller'[d]]
      /\ \A d \in Callers : caller'[d] = IF d = c THEN row ELSE caller[d]
  BY DEF CallersSound
<1>2. ASSUME NEW d \in Callers PROVE CallerSound(d, caller'[d])
  BY <1>1 DEF CallersSound
<1> QED BY <1>1, <1>2 DEF CallersSound, CallerSound

\* What the steps of a caller make of its row.
LEMMA CallerRowsKept ==
    ASSUME CallersSound, AlertsTypeOK, NEW c \in Callers
    PROVE  /\ \A m \in Machines : trigger_alert(c, m) => CallersSound'
           /\ \A x \in caller[c].left :
                 rule_skipped(c, x) \/ create_notification(c, x) => CallersSound'
           /\ _maybe_deliver_telegram(c) \/ notification_gone(c) \/ trigger_ends(c) => CallersSound'
<1> DEFINE row == caller[c]
<1>0. /\ row \in CallerRows /\ DOMAIN caller = Callers
      /\ row = [todo |-> row.todo, at |-> row.at, left |-> row.left, marked |-> row.marked,
                telegram |-> row.telegram, found |-> row.found]
      /\ row.todo \subseteq Machines /\ row.at \in Machines \union {"none", "down"}
      /\ row.left \subseteq LoadedRules /\ row.marked \subseteq Machines
      /\ row.telegram \in NoteKeys \union {<<>>} /\ row.found \subseteq Machines
      /\ row.left # {} => row.at \in Machines
      /\ row.marked # {} => c = "sweep"
      /\ row.marked \cap deleted = {}
  BY DEF CallersSound, CallerSound, CallerRows
<1>1. ASSUME NEW m \in Machines, trigger_alert(c, m) PROVE CallersSound'
  <2> DEFINE loaded == {[rule |-> r, row |-> alertRules[r]] :
                          r \in {r \in Rules : alertRules[r].on /\ alertRules[r].caller = c}}
             todo == row.todo \ {m}
             marked == IF c = "sweep" THEN row.marked \union {m} ELSE row.marked
             at == IF template = "off" \/ loaded = {} THEN "none" ELSE m
             left == IF template = "off" THEN {} ELSE loaded
  <2>1. loaded \subseteq LoadedRules
    BY DEF AlertsTypeOK, LoadedRules
  <2>2. /\ caller' = [caller EXCEPT ![c].todo = todo, ![c].marked = marked, ![c].at = at,
                                    ![c].left = left]
        /\ deleted' = deleted
    BY <1>0, <1>1 DEF trigger_alert
  <2>3. /\ todo \in SUBSET Machines /\ at \in {m, "none"} /\ left \in SUBSET LoadedRules
        /\ left # {} => at = m
    BY <1>0, <2>1
  <2>4. marked \in SUBSET Machines /\ (marked # {} => c = "sweep")
    BY <1>0
  <2>5. marked \cap deleted = {}
    BY <1>0, <1>1 DEF trigger_alert
  <2> HIDE DEF loaded, todo, marked, at, left
  <2> DEFINE new == [row EXCEPT !.todo = todo, !.marked = marked, !.at = at, !.left = left]
  <2>6. caller' = [caller EXCEPT ![c] = new]
    BY <1>0, <2>2
  <2>7. CallerSound(c, new)
    BY <1>0, <2>3, <2>4, <2>5 DEF CallerSound, CallerRows
  <2> HIDE DEF new
  <2> QED BY <2>2, <2>6, <2>7, CallerMoves
<1>2. ASSUME NEW x \in row.left, rule_skipped(c, x) PROVE CallersSound'
  <2> DEFINE new == [row EXCEPT !.left = row.left \ {x}]
  <2>1. caller' = [caller EXCEPT ![c] = new] /\ deleted' = deleted
    BY <1>0, <1>2 DEF rule_skipped
  <2>2. CallerSound(c, new)
    BY <1>0, <1>2 DEF CallerSound, CallerRows
  <2> HIDE DEF new
  <2> QED BY <2>1, <2>2, CallerMoves
<1>3. ASSUME NEW x \in row.left, create_notification(c, x) PROVE CallersSound'
  <2>1. PICK telegram \in NoteKeys \union {<<>>} :
           caller' = [caller EXCEPT ![c].left = row.left \ {x}, ![c].marked = {},
                                    ![c].telegram = telegram]
    <3>1. PICK u \in Staff :
             caller' = [caller EXCEPT ![c].left = @ \ {x}, ![c].marked = {},
                         ![c].telegram = IF u \in Linked THEN <<x.rule, c, row.at, u>> ELSE <<>>]
      BY <1>3 DEF create_notification
    <3>2. x.rule \in Rules /\ row.at \in Machines
      BY <1>0, <1>3 DEF LoadedRules
    <3>3. <<x.rule, c, row.at, u>> \in NoteKeys
      BY <3>2 DEF NoteKeys
    <3> QED BY <1>0, <3>1, <3>3
  <2> DEFINE new == [row EXCEPT !.left = row.left \ {x}, !.marked = {}, !.telegram = telegram]
  <2>2. caller' = [caller EXCEPT ![c] = new]
    BY <1>0, <2>1
  <2>3. CallerSound(c, new)
    BY <1>0, <1>3, <2>1 DEF CallerSound, CallerRows
  <2>4. deleted' = deleted
    BY <1>3 DEF create_notification
  <2> HIDE DEF new
  <2> QED BY <2>2, <2>3, <2>4, CallerMoves
<1>4. ASSUME _maybe_deliver_telegram(c) PROVE CallersSound'
  <2> DEFINE new == [row EXCEPT !.telegram = <<>>]
  <2>1. caller' = [caller EXCEPT ![c] = new] /\ deleted' = deleted
    BY <1>0, <1>4 DEF _maybe_deliver_telegram
  <2>2. CallerSound(c, new)
    BY <1>0 DEF CallerSound, CallerRows
  <2> HIDE DEF new
  <2> QED BY <2>1, <2>2, CallerMoves
<1>5. ASSUME notification_gone(c) PROVE CallersSound'
  <2> DEFINE new == [row EXCEPT !.at = "none", !.left = {}, !.telegram = <<>>]
  <2>1. caller' = [caller EXCEPT ![c] = new] /\ deleted' = deleted
    BY <1>0, <1>5 DEF notification_gone
  <2>2. CallerSound(c, new)
    BY <1>0 DEF CallerSound, CallerRows
  <2> HIDE DEF new
  <2> QED BY <2>1, <2>2, CallerMoves
<1>6. ASSUME trigger_ends(c) PROVE CallersSound'
  <2> DEFINE new == [row EXCEPT !.at = "none", !.marked = {}]
  <2>1. caller' = [caller EXCEPT ![c] = new] /\ row.left = {} /\ deleted' = deleted
    BY <1>0, <1>6 DEF trigger_ends
  <2>2. CallerSound(c, new)
    BY <1>0, <2>1 DEF CallerSound, CallerRows
  <2> HIDE DEF new
  <2> QED BY <2>1, <2>2, CallerMoves
<1> QED BY <1>1, <1>2, <1>3, <1>4, <1>5, <1>6

\* Every step keeps the types: only a notification that has a row is sent, and no
\* row that is gone is marked offline.
LEMMA AlertsKept ==
    ASSUME AlertsTypeOK, CallersSound, [AlertsNext]_alertVars
    PROVE  AlertsTypeOK' /\ CallersSound'
<1>0. \A c \in Callers : /\ caller[c].left # {} => caller[c].at \in Machines
                         /\ caller[c].left \subseteq LoadedRules
                         /\ caller[c].marked \subseteq Machines \ deleted
                         /\ caller[c].telegram \in NoteKeys \union {<<>>}
  BY DEF CallersSound, CallerSound, CallerRows
<1>1. \A c \in Callers : CallerSound(c, Resting) /\ CallerSound(c, Stopped)
  BY DEF Resting, Stopped, CallerSound, CallerRows
<1>2. ASSUME NEW c \in Callers, Ends(c), deleted' = deleted PROVE CallersSound'
  BY <1>1, <1>2, CallerMoves DEF Ends
<1>3. ASSUME UNCHANGED <<alertRules, template, muted, deleted, silent, notes, events, sending>>,
             offline' \subseteq Machines \ deleted
      PROVE  AlertsTypeOK'
  BY <1>3 DEF AlertsTypeOK
<1>4. CASE sweep_offline_rows
  <2> DEFINE row == [Resting EXCEPT !.todo = silent \ offline, !.found = silent \ offline]
  <2>1. CallerSound("sweep", row)
    BY DEF CallerSound, CallerRows, Resting, AlertsTypeOK
  <2>2. caller' = [caller EXCEPT !["sweep"] = row] /\ deleted' = deleted
    BY <1>4 DEF sweep_offline_rows
  <2> HIDE DEF row
  <2>3. CallersSound'
    BY <2>1, <2>2, CallerMoves, AlertsAssumption
  <2> QED BY <1>3, <1>4, <2>3 DEF sweep_offline_rows, AlertsTypeOK
<1>5. ASSUME NEW m \in Machines, notify_investigation_result(m)
      PROVE  AlertsTypeOK' /\ CallersSound'
  <2> DEFINE row == [Resting EXCEPT !.todo = {m}]
  <2>1. CallerSound("investigation", row)
    BY DEF CallerSound, CallerRows, Resting
  <2>2. /\ caller' = [caller EXCEPT !["investigation"] = row] /\ deleted' = deleted
        /\ "investigation" \in Callers
    BY <1>5 DEF notify_investigation_result
  <2> HIDE DEF row
  <2>3. CallersSound'
    BY <2>1, <2>2, CallerMoves
  <2> QED BY <1>3, <1>5, <2>3 DEF notify_investigation_result, AlertsTypeOK
<1>6. ASSUME NEW c \in Callers, NEW m \in Machines, trigger_alert(c, m)
      PROVE  AlertsTypeOK' /\ CallersSound'
  BY <1>3, <1>6, CallerRowsKept DEF trigger_alert, AlertsTypeOK
<1>7. ASSUME NEW c \in Callers, NEW x \in caller[c].left, rule_skipped(c, x)
      PROVE  AlertsTypeOK' /\ CallersSound'
  BY <1>3, <1>7, CallerRowsKept DEF rule_skipped, AlertsTypeOK
<1>8. ASSUME NEW c \in Callers, NEW x \in caller[c].left, create_notification(c, x)
      PROVE  AlertsTypeOK' /\ CallersSound'
  <2> DEFINE e == Alert(x.rule, c, caller[c].at)
  <2>1. PICK u \in Staff :
           LET k == <<x.rule, c, caller[c].at, u>> IN
           /\ notes' = notes \union {k}
           /\ events' = events \union {e}
           /\ offline' = offline \union caller[c].marked
           /\ sending' = [sending EXCEPT ![k] = IF u \in Linked THEN "pending" ELSE "none"]
    BY <1>8 DEF create_notification
  <2>2. x.rule \in Rules /\ caller[c].at \in Machines /\ caller[c].marked \subseteq Machines \ deleted
    BY <1>0, <1>8 DEF LoadedRules
  <2> DEFINE k == <<x.rule, c, caller[c].at, u>>
  <2>3. k \in Rules \X Callers \X Machines \X Staff /\ e \in Rules \X Callers \X Machines
    BY <2>2 DEF Alert
  <2> HIDE DEF k, e
  <2>4. /\ notes' = notes \union {k} /\ events' = events \union {e}
        /\ sending' = [sending EXCEPT ![k] = IF u \in Linked THEN "pending" ELSE "none"]
        /\ offline' = offline \union caller[c].marked
        /\ UNCHANGED <<alertRules, template, muted, deleted, silent>>
    BY <1>8, <2>1 DEF k, create_notification
  <2>5. /\ sending' \in [NoteKeys -> {"none", "pending", "done"}]
        /\ \A j \in DOMAIN sending' : sending'[j] # "none" => j \in notes'
    BY <2>3, <2>4 DEF AlertsTypeOK, NoteKeys
  <2>6. AlertsTypeOK'
    BY <2>2, <2>3, <2>4, <2>5 DEF AlertsTypeOK, NoteKeys, AlertKeys
  <2> QED BY <1>8, <2>6, CallerRowsKept
<1>9. ASSUME NEW c \in Callers, NEW x \in caller[c].left, create_notification_fails(c, x)
      PROVE  AlertsTypeOK' /\ CallersSound'
  BY <1>2, <1>3, <1>9 DEF create_notification_fails, AlertsTypeOK
<1>10. ASSUME NEW c \in Callers, _maybe_deliver_telegram(c)
       PROVE  AlertsTypeOK' /\ CallersSound'
  <2> DEFINE k == caller[c].telegram
  <2>1. k \in NoteKeys /\ sending[k] # "none"
    BY <1>0, <1>10 DEF _maybe_deliver_telegram
  <2>2. sending' = [sending EXCEPT ![k] = "done"]
    BY <1>10 DEF _maybe_deliver_telegram
  <2>3. UNCHANGED <<alertRules, template, muted, deleted, silent, offline, events, notes>>
    BY <1>10 DEF _maybe_deliver_telegram
  <2> HIDE DEF k
  <2>4. /\ sending' \in [NoteKeys -> {"none", "pending", "done"}]
        /\ \A j \in DOMAIN sending' : sending'[j] # "none" => j \in notes'
    BY <2>1, <2>2, <2>3 DEF AlertsTypeOK
  <2>5. AlertsTypeOK'
    BY <2>3, <2>4 DEF AlertsTypeOK
  <2> QED BY <1>10, <2>5, CallerRowsKept
<1>11. ASSUME NEW c \in Callers, delivery_gone(c) PROVE AlertsTypeOK' /\ CallersSound'
  BY <1>2, <1>3, <1>11 DEF delivery_gone, AlertsTypeOK
<1>12. ASSUME NEW c \in Callers, trigger_ends(c) PROVE AlertsTypeOK' /\ CallersSound'
  <2>1. offline' \subseteq Machines \ deleted
    BY <1>0, <1>12 DEF trigger_ends, AlertsTypeOK
  <2> QED BY <1>3, <1>12, <2>1, CallerRowsKept DEF trigger_ends
<1>13. ASSUME NEW c \in Callers, caller_ends(c) PROVE AlertsTypeOK' /\ CallersSound'
  <2>1. offline' \subseteq Machines \ deleted
    BY <1>0, <1>13 DEF caller_ends, AlertsTypeOK
  <2> QED BY <1>2, <1>3, <1>13, <2>1 DEF caller_ends
<1>14. CASE AlertProcessStops \/ AlertProcessStarts
  <2>1. /\ UNCHANGED <<alertRules, template, muted, deleted, silent, offline, events, notes, sending>>
        /\ caller' \in {[c \in Callers |-> Stopped], [c \in Callers |-> Resting]}
    BY <1>14 DEF AlertProcessStops, AlertProcessStarts
  <2>2. \A c \in Callers : CallerSound(c, caller'[c])
    BY <1>1, <2>1
  <2>3. CallersSound'
    BY <2>1, <2>2 DEF CallersSound, CallerSound
  <2> QED BY <1>3, <2>1, <2>3 DEF AlertsTypeOK
<1>15. ASSUME UNCHANGED <<template, deleted, silent, offline, notes, sending, caller>>,
              alertRules' \in [Rules -> RuleRows \union {NoRule}], events' \subseteq events,
              muted' \subseteq OrgAdmins
       PROVE  AlertsTypeOK' /\ CallersSound'
  BY <1>15 DEF AlertsTypeOK, CallersSound, CallerSound
<1>16. ASSUME NEW r \in Rules, create_rule(r) \/ update_rule(r) \/ delete_rule(r)
       PROVE  AlertsTypeOK' /\ CallersSound'
  <2>1. alertRules' \in [Rules -> RuleRows \union {NoRule}] /\ muted' \subseteq OrgAdmins
    BY <1>16 DEF create_rule, update_rule, delete_rule, AlertsTypeOK
  <2>2. /\ UNCHANGED <<template, deleted, silent, offline, notes, sending, caller>>
        /\ events' \subseteq events
    BY <1>16 DEF create_rule, update_rule, delete_rule
  <2> QED BY <1>15, <2>1, <2>2
<1>17. ASSUME NEW u \in OrgAdmins, upsert_prefs(u) PROVE AlertsTypeOK' /\ CallersSound'
  BY <1>15, <1>17 DEF upsert_prefs, AlertsTypeOK
<1>18. CASE update_template
  BY <1>18 DEF update_template, AlertsTypeOK, CallersSound, CallerSound
<1>19. ASSUME NEW n \in notes, dismiss(n) PROVE AlertsTypeOK' /\ CallersSound'
  BY <1>19 DEF dismiss, AlertsTypeOK, CallersSound, CallerSound
<1>20. ASSUME NEW m \in Machines, GoesSilent(m) \/ heard_of(m)
       PROVE  AlertsTypeOK' /\ CallersSound'
  BY <1>20 DEF GoesSilent, heard_of, AlertsTypeOK, CallersSound, CallerSound
<1>21. ASSUME NEW m \in Machines, machine_deleted(m) PROVE AlertsTypeOK' /\ CallersSound'
  <2>1. AlertsTypeOK'
    BY <1>21 DEF machine_deleted, AlertsTypeOK
  <2>2. \A c \in Callers : CallerSound(c, caller[c]) /\ m \notin caller[c].marked
    BY <1>21 DEF machine_deleted, CallersSound, CallerSound
  <2>3. caller' = caller /\ deleted' = deleted \union {m}
    BY <1>21 DEF machine_deleted
  <2> QED BY <2>1, <2>2, <2>3 DEF CallersSound, CallerSound
<1>22. CASE sweep_row_gone
  BY <1>2, <1>3, <1>22, AlertsAssumption DEF sweep_row_gone, AlertsTypeOK
<1>23. ASSUME NEW c \in Callers, notification_gone(c) PROVE AlertsTypeOK' /\ CallersSound'
  BY <1>3, <1>23, CallerRowsKept DEF notification_gone, AlertsTypeOK
<1>24. CASE NextDay
  BY <1>24 DEF NextDay, AlertsTypeOK, CallersSound, CallerSound
<1>25. CASE UNCHANGED alertVars
  BY <1>25 DEF alertVars, AlertsTypeOK, CallersSound, CallerSound
<1> QED BY <1>4, <1>5, <1>6, <1>7, <1>8, <1>9, <1>10, <1>11, <1>12, <1>13, <1>14, <1>16, <1>17,
           <1>18, <1>19, <1>20, <1>21, <1>22, <1>23, <1>24, <1>25 DEF AlertsNext

\* Alerts keep their types from the start.
LEMMA AlertsTyped == AlertsSpec => [](AlertsTypeOK /\ CallersSound)
<1>1. AlertsInit => AlertsTypeOK /\ CallersSound
  BY DEF AlertsInit, AlertsTypeOK, CallersSound, CallerSound, Resting, CallerRows
<1>2. AlertsTypeOK /\ CallersSound /\ [AlertsNext]_alertVars => (AlertsTypeOK /\ CallersSound)'
  BY AlertsKept
<1> QED BY <1>1, <1>2, PTL DEF AlertsSpec

\* The event of an alert outlives its notifications, so an alert that the user
\* has dismissed does not come back on the same day (alert_engine.py:91),
\* whichever caller raises it and however the two interleave.
THEOREM DismissedForToday == AlertsSpec => DismissedStaysGone
<1>1. ASSUME AlertsNext, NEW n \in notes' \ notes
      PROVE  Alert(n[1], n[2], n[3]) \notin events
  <2>1. ASSUME NEW c \in Callers, NEW x \in caller[c].left,
               rule_skipped(c, x) \/ create_notification_fails(c, x)
        PROVE  notes' = notes
    BY <2>1 DEF rule_skipped, create_notification_fails
  <2>2. ASSUME NEW c \in Callers,
               \/ \E m \in Machines : trigger_alert(c, m)
               \/ _maybe_deliver_telegram(c) \/ delivery_gone(c) \/ notification_gone(c)
               \/ trigger_ends(c) \/ caller_ends(c)
        PROVE  notes' = notes
    BY <2>2 DEF trigger_alert, _maybe_deliver_telegram, delivery_gone, notification_gone,
       trigger_ends, caller_ends
  <2>3. ASSUME \/ sweep_offline_rows \/ sweep_row_gone
               \/ AlertProcessStops \/ AlertProcessStarts \/ NextDay \/ update_template
               \/ \E r \in Rules : create_rule(r) \/ update_rule(r) \/ delete_rule(r)
               \/ \E u \in OrgAdmins : upsert_prefs(u)
               \/ \E d \in notes : dismiss(d)
               \/ \E m \in Machines :
                     notify_investigation_result(m) \/ GoesSilent(m) \/ heard_of(m) \/ machine_deleted(m)
        PROVE  notes' \subseteq notes
    BY <2>3 DEF sweep_offline_rows, sweep_row_gone, AlertProcessStops, AlertProcessStarts, NextDay,
                update_template, create_rule, update_rule, delete_rule, upsert_prefs, dismiss,
                notify_investigation_result, GoesSilent, heard_of, machine_deleted
  <2>4. PICK c \in Callers : \E x \in caller[c].left : create_notification(c, x)
    BY <1>1, <2>1, <2>2, <2>3 DEF AlertsNext
  <2>5. PICK x \in caller[c].left : create_notification(c, x)
    BY <2>4
  <2>6. PICK u \in Staff : notes' = notes \union {<<x.rule, c, caller[c].at, u>>}
    BY <2>5 DEF create_notification
  <2>7. n[1] = x.rule /\ n[2] = c /\ n[3] = caller[c].at
    BY <1>1, <2>6
  <2> QED BY <2>5, <2>7 DEF create_notification, Notifies
<1>2. ASSUME UNCHANGED alertVars PROVE notes' = notes
  BY <1>2 DEF alertVars
<1>3. [AlertsNext]_alertVars => [\A n \in notes' \ notes : Alert(n[1], n[2], n[3]) \notin events]_alertVars
  BY <1>1
<1> QED BY <1>3, PTL DEF AlertsSpec, DismissedStaysGone
-----------------------------------------------------------------------------
(* What ends a sweep.                                                        *)

\* The machines the sweep has dealt with, has still to go through, or need not.
Cover ==
    caller["sweep"].todo \union caller["sweep"].marked \union offline \union (Machines \ silent)

\* A machine that the sweep has found is not forgotten on the way: it waits, is
\* marked in the open transaction, is committed, or was heard of.
SweepInv == caller["sweep"].found \subseteq Cover

\* What a step is to the sweep.
SweepGoesOn == caller'["sweep"].found = caller["sweep"].found /\ Cover \subseteq Cover'
SweepStarts == caller["sweep"].found = {} /\ caller'["sweep"].found \subseteq Cover'
SweepStops == caller'["sweep"] # Resting /\ caller'["sweep"].found = {}
SweepEnds == caller'["sweep"] = Resting /\ Cover \subseteq offline' \union (Machines \ silent')
SweepFails ==
    /\ caller'["sweep"] = Resting
    /\ \/ \E x \in caller["sweep"].left :
             alertRules[x.rule] = NoRule \/ Cardinality(_resolve_recipients(x.row)) > 1
       \/ \/ caller["sweep"].at \in deleted
          \/ caller["sweep"].at = "none" /\ caller["sweep"].todo \cap deleted # {}
       \/ caller["sweep"].telegram # <<>> /\ sending[caller["sweep"].telegram] = "none"

SweepSteps == SweepGoesOn \/ SweepStarts \/ SweepStops \/ SweepEnds \/ SweepFails

\* What a caller does to its own row leaves the other caller's alone.
LEMMA OtherCaller ==
    ASSUME CallersSound, NEW c \in Callers, c # "sweep", offline \subseteq offline',
           silent' = silent, \A d \in Callers \ {c} : caller'[d] = caller[d]
    PROVE  SweepGoesOn
<1>1. caller'["sweep"] = caller["sweep"]
  BY AlertsAssumption
<1> QED BY <1>1 DEF SweepGoesOn, Cover

\* Each step of the alerts to the sweep.
LEMMA AlertSteps ==
    ASSUME CallersSound, AlertsNext
    PROVE  SweepSteps
<1> DEFINE s == caller["sweep"]
<1>0. /\ "sweep" \in Callers /\ DOMAIN caller = Callers
      /\ \A c \in Callers :
            caller[c] = [todo |-> caller[c].todo, at |-> caller[c].at, left |-> caller[c].left,
                         marked |-> caller[c].marked, telegram |-> caller[c].telegram,
                         found |-> caller[c].found]
  BY AlertsAssumption DEF CallersSound, CallerSound, CallerRows
<1>1. ASSUME caller' = caller, offline' = offline, silent' \subseteq silent
      PROVE  SweepGoesOn
  BY <1>1 DEF SweepGoesOn, Cover
<1>2. ASSUME NEW c \in Callers, c # "sweep",
             \/ \E m \in Machines : trigger_alert(c, m)
             \/ \E x \in caller[c].left :
                   rule_skipped(c, x) \/ create_notification(c, x) \/ create_notification_fails(c, x)
             \/ _maybe_deliver_telegram(c) \/ delivery_gone(c) \/ notification_gone(c)
             \/ trigger_ends(c) \/ caller_ends(c)
      PROVE  SweepGoesOn
  <2>1. /\ offline \subseteq offline' /\ silent' = silent
        /\ \A d \in Callers \ {c} : caller'[d] = caller[d]
    BY <1>0, <1>2 DEF trigger_alert, rule_skipped, create_notification, create_notification_fails,
       _maybe_deliver_telegram, delivery_gone, notification_gone, trigger_ends, caller_ends, Ends
  <2> QED BY <1>2, <2>1, OtherCaller
<1>3. ASSUME NEW m \in Machines, trigger_alert("sweep", m) PROVE SweepGoesOn
  <2>1. /\ caller'["sweep"].todo = s.todo \ {m} /\ caller'["sweep"].marked = s.marked \union {m}
        /\ caller'["sweep"].found = s.found /\ UNCHANGED <<offline, silent>>
    <3> DEFINE loaded == {[rule |-> r, row |-> alertRules[r]] :
                            r \in {r \in Rules : alertRules[r].on /\ alertRules[r].caller = "sweep"}}
               at == IF template = "off" \/ loaded = {} THEN "none" ELSE m
               left == IF template = "off" THEN {} ELSE loaded
    <3>1. /\ caller' = [caller EXCEPT !["sweep"].todo = s.todo \ {m},
                                      !["sweep"].marked = s.marked \union {m},
                                      !["sweep"].at = at, !["sweep"].left = left]
          /\ UNCHANGED <<offline, silent>>
      BY <1>0, <1>3 DEF trigger_alert
    <3> HIDE DEF loaded, at, left
    <3> QED BY <1>0, <3>1
  <2> QED BY <2>1 DEF SweepGoesOn, Cover
<1>4. ASSUME NEW x \in s.left, rule_skipped("sweep", x) PROVE SweepGoesOn
  <2>1. /\ caller'["sweep"].todo = s.todo /\ caller'["sweep"].marked = s.marked
        /\ caller'["sweep"].found = s.found /\ UNCHANGED <<offline, silent>>
    BY <1>0, <1>4 DEF rule_skipped
  <2> QED BY <2>1 DEF SweepGoesOn, Cover
<1>5. ASSUME NEW x \in s.left, create_notification("sweep", x) PROVE SweepGoesOn
  <2>1. /\ caller'["sweep"].todo = s.todo /\ caller'["sweep"].found = s.found
        /\ offline' = offline \union s.marked /\ silent' = silent
    BY <1>0, <1>5 DEF create_notification
  <2> QED BY <2>1 DEF SweepGoesOn, Cover
<1>6. ASSUME NEW x \in s.left, create_notification_fails("sweep", x) PROVE SweepFails
  BY <1>0, <1>6 DEF create_notification_fails, Ends, SweepFails
<1>7. ASSUME _maybe_deliver_telegram("sweep") PROVE SweepGoesOn
  <2>1. /\ caller'["sweep"].todo = s.todo /\ caller'["sweep"].marked = s.marked
        /\ caller'["sweep"].found = s.found /\ UNCHANGED <<offline, silent>>
    BY <1>0, <1>7 DEF _maybe_deliver_telegram
  <2> QED BY <2>1 DEF SweepGoesOn, Cover
<1>8. ASSUME delivery_gone("sweep") PROVE SweepFails
  BY <1>0, <1>8 DEF delivery_gone, Ends, SweepFails
<1>9. ASSUME trigger_ends("sweep") PROVE SweepGoesOn
  <2>1. /\ caller'["sweep"].todo = s.todo /\ caller'["sweep"].found = s.found
        /\ offline' = offline \union s.marked /\ silent' = silent
    BY <1>0, <1>9 DEF trigger_ends
  <2> QED BY <2>1 DEF SweepGoesOn, Cover
<1>10. ASSUME caller_ends("sweep") PROVE SweepEnds
  <2>1. /\ caller'["sweep"] = Resting /\ s.todo = {}
        /\ offline' = offline \union s.marked /\ silent' = silent
    BY <1>0, <1>10 DEF caller_ends, Ends
  <2> QED BY <2>1 DEF SweepEnds, Cover
<1>11. ASSUME sweep_offline_rows PROVE SweepStarts
  <2>1. /\ caller'["sweep"].todo = silent \ offline /\ caller'["sweep"].found = silent \ offline
        /\ caller["sweep"].found = {}
    BY <1>0, <1>11 DEF sweep_offline_rows, CallerIdle, Resting
  <2> QED BY <2>1 DEF SweepStarts, Cover
<1>12. ASSUME NEW m \in Machines, notify_investigation_result(m) PROVE SweepGoesOn
  BY <1>0, <1>12, OtherCaller DEF notify_investigation_result
<1>13. ASSUME NEW m \in Machines, GoesSilent(m) PROVE SweepStarts
  <2>1. caller'["sweep"].found = {} /\ caller["sweep"].found = {}
    BY <1>13 DEF GoesSilent, CallerIdle, Resting
  <2> QED BY <2>1 DEF SweepStarts
<1>14. ASSUME NEW m \in Machines, heard_of(m) PROVE SweepGoesOn
  <2>1. caller' = caller /\ silent' = silent \ {m} /\ offline' = offline \ {m}
    BY <1>14 DEF heard_of
  <2> QED BY <2>1 DEF SweepGoesOn, Cover
<1>15. ASSUME \/ NextDay \/ update_template
              \/ \E r \in Rules : create_rule(r) \/ update_rule(r) \/ delete_rule(r)
              \/ \E u \in OrgAdmins : upsert_prefs(u)
              \/ \E n \in notes : dismiss(n)
       PROVE  SweepGoesOn
  <2>1. caller' = caller /\ offline' = offline /\ silent' = silent
    BY <1>15 DEF NextDay, update_template, create_rule, update_rule, delete_rule, upsert_prefs,
       dismiss
  <2> QED BY <1>1, <2>1
<1>17. ASSUME notification_gone("sweep") PROVE SweepGoesOn
  <2>1. /\ caller'["sweep"].todo = s.todo /\ caller'["sweep"].marked = s.marked
        /\ caller'["sweep"].found = s.found /\ UNCHANGED <<offline, silent>>
    BY <1>0, <1>17 DEF notification_gone
  <2> QED BY <2>1 DEF SweepGoesOn, Cover
<1>16. ASSUME NEW c \in Callers,
              \/ \E m \in Machines : trigger_alert(c, m)
              \/ \E x \in caller[c].left :
                    rule_skipped(c, x) \/ create_notification(c, x) \/ create_notification_fails(c, x)
              \/ _maybe_deliver_telegram(c) \/ delivery_gone(c) \/ notification_gone(c)
              \/ trigger_ends(c) \/ caller_ends(c)
       PROVE  SweepSteps
  <2>1. CASE c # "sweep"
    BY <1>2, <1>16, <2>1 DEF SweepSteps
  <2>2. CASE c = "sweep"
    BY <1>3, <1>4, <1>5, <1>6, <1>7, <1>8, <1>9, <1>10, <1>16, <1>17, <2>2 DEF SweepSteps
  <2> QED BY <2>1, <2>2
<1>18. ASSUME sweep_row_gone PROVE SweepFails
  BY <1>0, <1>18 DEF sweep_row_gone, Ends, SweepFails
<1>19. ASSUME NEW m \in Machines, machine_deleted(m) PROVE SweepGoesOn
  <2>1. caller' = caller /\ silent' = silent \ {m} /\ offline' = offline \ {m}
    BY <1>19 DEF machine_deleted
  <2> QED BY <2>1 DEF SweepGoesOn, Cover
<1>20. ASSUME AlertProcessStops PROVE SweepStops
  <2>1. Stopped # Resting /\ Stopped.found = {}
    BY DEF Stopped, Resting
  <2> QED BY <1>0, <1>20, <2>1 DEF AlertProcessStops, SweepStops
<1>21. ASSUME AlertProcessStarts PROVE SweepStarts
  <2>1. Stopped.found = {} /\ Resting.found = {}
    BY DEF Stopped, Resting
  <2> QED BY <1>0, <1>21, <2>1 DEF AlertProcessStarts, SweepStarts
<1> QED BY <1>11, <1>12, <1>13, <1>14, <1>15, <1>16, <1>18, <1>19, <1>20, <1>21
        DEF AlertsNext, SweepSteps

\* No step of the sweep forgets a machine.
LEMMA SweepKept ==
    ASSUME CallersSound, SweepInv, [AlertsNext]_alertVars
    PROVE  SweepInv'
<1>1. CASE UNCHANGED alertVars
  BY <1>1 DEF alertVars, SweepInv, Cover
<1>2. CASE SweepStops
  BY <1>2 DEF SweepStops, SweepInv
<1>3. CASE SweepGoesOn \/ SweepStarts
  BY <1>3 DEF SweepGoesOn, SweepStarts, SweepInv
<1>4. CASE caller'["sweep"] = Resting
  BY <1>4 DEF SweepInv, Resting
<1> QED BY <1>1, <1>2, <1>3, <1>4, AlertSteps DEF SweepSteps, SweepEnds, SweepFails

LEMMA SweepSound == AlertsSpec => [](AlertsTypeOK /\ CallersSound /\ SweepInv)
<1>1. AlertsInit => SweepInv
  BY AlertsAssumption DEF AlertsInit, SweepInv, Resting
<1>2. AlertsTypeOK /\ CallersSound /\ SweepInv /\ [AlertsNext]_alertVars => SweepInv'
  BY SweepKept
<1> QED BY <1>1, <1>2, AlertsTyped, PTL DEF AlertsSpec

\* What ends a sweep before it has marked the machines it found: for any number of
\* machines, rules and users there are only these four reasons.
THEOREM SweepCutShort == AlertsSpec => SweepCutShortOnly
<1>1. CallersSound /\ SweepInv /\ [AlertsNext]_alertVars =>
        [LET s == caller["sweep"] IN
         \/ CallerIdle("sweep") \/ caller'["sweep"] # Resting \/ SweepCovered
         \/ \E x \in s.left :
               alertRules[x.rule] = NoRule \/ Cardinality(_resolve_recipients(x.row)) > 1
         \/ s.at \in deleted \/ (s.at = "none" /\ s.todo \cap deleted # {})
         \/ s.telegram # <<>> /\ sending[s.telegram] = "none"]_alertVars
  <2> SUFFICES ASSUME CallersSound, SweepInv, AlertsNext, ~CallerIdle("sweep"),
                      caller'["sweep"] = Resting, ~SweepFails
               PROVE  SweepCovered
    BY DEF SweepFails
  <2>1. CASE SweepGoesOn
    BY <2>1 DEF SweepGoesOn, SweepCovered, Resting
  <2>2. CASE SweepEnds
    BY <2>2 DEF SweepEnds, SweepInv, SweepCovered
  <2> QED BY <2>1, <2>2, AlertSteps DEF SweepSteps, SweepStarts, SweepStops, SweepCovered
<1> QED BY <1>1, SweepSound, PTL DEF AlertsSpec, SweepCutShortOnly

\* No machine is gone; the rules that a caller has loaded exist, and so does the
\* delivery that it sends.
RulesKnown ==
    /\ deleted = {}
    /\ \A c \in Callers :
          /\ \A x \in caller[c].left : x.rule \in Rules /\ alertRules[x.rule] # NoRule
          /\ caller[c].telegram # <<>> =>
                /\ caller[c].telegram \in NoteKeys /\ caller[c].telegram[4] \in Linked
                /\ sending[caller[c].telegram] # "none"

\* Nobody deletes a machine or a rule, or dismisses a notification.
MachinesStay == [\A m \in Machines : ~machine_deleted(m)]_alertVars
RulesStay == [\A r \in Rules : ~delete_rule(r)]_alertVars
NotesStay == [\A n \in notes : ~dismiss(n)]_alertVars

\* As long as nothing is deleted under way, a caller finds what it has read.
LEMMA RulesKept ==
    ASSUME AlertsTypeOK, CallersSound, RulesKnown, [AlertsNext]_alertVars,
           MachinesStay, RulesStay, NotesStay
    PROVE  RulesKnown'
<1> USE DEF RulesKnown
<1>0. /\ DOMAIN caller = Callers
      /\ \A c \in Callers :
            caller[c] = [todo |-> caller[c].todo, at |-> caller[c].at, left |-> caller[c].left,
                         marked |-> caller[c].marked, telegram |-> caller[c].telegram,
                         found |-> caller[c].found]
      /\ \A c \in Callers : caller[c].left # {} => caller[c].at \in Machines
  BY DEF CallersSound, CallerSound, CallerRows
<1>1. /\ Resting.left = {} /\ Resting.telegram = <<>>
      /\ Stopped.left = {} /\ Stopped.telegram = <<>>
  BY DEF Resting, Stopped
<1>2. ASSUME UNCHANGED <<alertRules, deleted, sending>>,
             \A c \in Callers : /\ caller'[c].left \subseteq caller[c].left
                                /\ caller'[c].telegram \in {<<>>, caller[c].telegram}
      PROVE  RulesKnown'
  BY <1>2
<1>3. ASSUME NEW c \in Callers, caller' = [caller EXCEPT ![c] = Resting],
             UNCHANGED <<alertRules, deleted, sending>>
      PROVE  RulesKnown'
  <2>1. \A d \in Callers : caller'[d] = Resting \/ caller'[d] = caller[d]
    BY <1>0, <1>3
  <2> QED BY <1>1, <1>2, <1>3, <2>1
<1>4. ASSUME NEW c \in Callers, NEW m \in Machines, trigger_alert(c, m) PROVE RulesKnown'
  <2> DEFINE loaded == {[rule |-> r, row |-> alertRules[r]] :
                          r \in {r \in Rules : alertRules[r].on /\ alertRules[r].caller = c}}
             at == IF template = "off" \/ loaded = {} THEN "none" ELSE m
             left == IF template = "off" THEN {} ELSE loaded
             marked == IF c = "sweep" THEN caller[c].marked \union {m} ELSE caller[c].marked
             todo == caller[c].todo \ {m}
  <2>1. /\ caller' = [caller EXCEPT ![c].todo = todo, ![c].marked = marked, ![c].at = at,
                                    ![c].left = left]
        /\ UNCHANGED <<alertRules, deleted, sending>>
    BY <1>0, <1>4 DEF trigger_alert
  <2>2. \A x \in left : x.rule \in Rules /\ alertRules[x.rule] # NoRule
    BY DEF NoRule
  <2> HIDE DEF loaded, at, left, marked, todo
  <2>3. /\ caller'[c].left = left /\ caller'[c].telegram = caller[c].telegram
        /\ \A d \in Callers \ {c} : caller'[d] = caller[d]
    BY <1>0, <2>1
  <2> QED BY <2>1, <2>2, <2>3
<1>5. ASSUME NEW c \in Callers, NEW x \in caller[c].left, rule_skipped(c, x) PROVE RulesKnown'
  <2>1. /\ caller'[c].left \subseteq caller[c].left /\ caller'[c].telegram = caller[c].telegram
        /\ \A d \in Callers \ {c} : caller'[d] = caller[d]
        /\ UNCHANGED <<alertRules, deleted, sending>>
    BY <1>0, <1>5 DEF rule_skipped
  <2> QED BY <1>2, <2>1
<1>6. ASSUME NEW c \in Callers, NEW x \in caller[c].left, create_notification(c, x)
      PROVE  RulesKnown'
  <2>1. PICK u \in Staff, k \in NoteKeys :
           /\ k = <<x.rule, c, caller[c].at, u>>
           /\ caller' = [caller EXCEPT ![c].left = @ \ {x}, ![c].marked = {},
                                       ![c].telegram = IF u \in Linked THEN k ELSE <<>>]
           /\ sending' = [sending EXCEPT ![k] = IF u \in Linked THEN "pending" ELSE "none"]
           /\ alertRules' = alertRules /\ deleted' = deleted
    <3>1. \A u \in Staff : <<x.rule, c, caller[c].at, u>> \in NoteKeys
      BY <1>0 DEF NoteKeys
    <3> QED BY <1>6, <3>1 DEF create_notification
  <2>2. k[4] = u
    BY <2>1
  <2>3. /\ caller'[c].left \subseteq caller[c].left
        /\ caller'[c].telegram = IF u \in Linked THEN k ELSE <<>>
        /\ \A d \in Callers \ {c} : caller'[d] = caller[d]
    BY <1>0, <2>1
  <2>4. \A n \in NoteKeys :
           sending'[n] = IF n = k THEN (IF u \in Linked THEN "pending" ELSE "none") ELSE sending[n]
    BY <2>1 DEF AlertsTypeOK, NoteKeys
  <2>5. ASSUME NEW d \in Callers, d # c, caller[d].telegram # <<>>
        PROVE  sending'[caller[d].telegram] # "none"
    BY <2>2, <2>4, <2>5
  <2>6. u \in Linked => sending'[k] # "none"
    BY <2>4
  <2> HIDE DEF RulesKnown
  <2>7. ASSUME NEW d \in Callers, NEW y \in caller'[d].left
        PROVE  y.rule \in Rules /\ alertRules'[y.rule] # NoRule
    BY <2>1, <2>3, <2>7 DEF RulesKnown
  <2>8. ASSUME NEW d \in Callers, caller'[d].telegram # <<>>
        PROVE  /\ caller'[d].telegram \in NoteKeys /\ caller'[d].telegram[4] \in Linked
               /\ sending'[caller'[d].telegram] # "none"
    <3>1. CASE d = c
      BY <2>2, <2>3, <2>6, <2>8, <3>1
    <3>2. CASE d # c
      BY <2>3, <2>5, <2>8, <3>2 DEF RulesKnown
    <3> QED BY <3>1, <3>2
  <2>9. deleted' = {}
    BY <2>1 DEF RulesKnown
  <2> QED BY <2>7, <2>8, <2>9 DEF RulesKnown
<1>7. ASSUME NEW c \in Callers, _maybe_deliver_telegram(c) PROVE RulesKnown'
  <2>1. sending' = [sending EXCEPT ![caller[c].telegram] = "done"]
    BY <1>7 DEF _maybe_deliver_telegram
  <2>2. \A n \in NoteKeys : sending[n] # "none" => sending'[n] # "none"
    BY <2>1 DEF AlertsTypeOK, NoteKeys
  <2>3. /\ caller'[c].left = caller[c].left /\ caller'[c].telegram = <<>>
        /\ \A d \in Callers \ {c} : caller'[d] = caller[d]
        /\ alertRules' = alertRules /\ deleted' = deleted
    BY <1>0, <1>7 DEF _maybe_deliver_telegram
  <2> QED BY <2>2, <2>3
<1>8. ASSUME NEW c \in Callers,
             \/ \E x \in caller[c].left : create_notification_fails(c, x)
             \/ delivery_gone(c) \/ caller_ends(c)
      PROVE  RulesKnown'
  BY <1>3, <1>8 DEF create_notification_fails, delivery_gone, caller_ends, Ends
<1>9. ASSUME NEW c \in Callers, trigger_ends(c) PROVE RulesKnown'
  <2>1. /\ caller'[c].left = caller[c].left /\ caller'[c].telegram = caller[c].telegram
        /\ \A d \in Callers \ {c} : caller'[d] = caller[d]
        /\ UNCHANGED <<alertRules, deleted, sending>>
    BY <1>0, <1>9 DEF trigger_ends
  <2> QED BY <1>2, <2>1
<1>10. ASSUME NEW c \in Callers, NEW row, row.left = {}, row.telegram = <<>>,
              caller' = [caller EXCEPT ![c] = row], UNCHANGED <<alertRules, deleted, sending>>
       PROVE  RulesKnown'
  <2>1. \A d \in Callers : caller'[d] = row \/ caller'[d] = caller[d]
    BY <1>0, <1>10
  <2> QED BY <1>2, <1>10, <2>1
<1>11. CASE sweep_offline_rows
  <2> DEFINE row == [Resting EXCEPT !.todo = silent \ offline, !.found = silent \ offline]
  <2>1. row.left = {} /\ row.telegram = <<>>
    BY DEF Resting
  <2>2. caller' = [caller EXCEPT !["sweep"] = row] /\ UNCHANGED <<alertRules, deleted, sending>>
    BY <1>11 DEF sweep_offline_rows
  <2> HIDE DEF row
  <2> QED BY <1>10, <2>1, <2>2, AlertsAssumption
<1>12. ASSUME NEW m \in Machines, notify_investigation_result(m) PROVE RulesKnown'
  <2> DEFINE row == [Resting EXCEPT !.todo = {m}]
  <2>1. row.left = {} /\ row.telegram = <<>>
    BY DEF Resting
  <2>2. /\ caller' = [caller EXCEPT !["investigation"] = row] /\ "investigation" \in Callers
        /\ UNCHANGED <<alertRules, deleted, sending>>
    BY <1>12 DEF notify_investigation_result
  <2> HIDE DEF row
  <2> QED BY <1>10, <2>1, <2>2
<1>13. CASE AlertProcessStops \/ AlertProcessStarts \/ NextDay
  <2>1. (\A c \in Callers : caller'[c] \in {Resting, Stopped}) /\ deleted' = deleted
    BY <1>13 DEF AlertProcessStops, AlertProcessStarts, NextDay, CallerIdle
  <2> QED BY <1>1, <2>1
<1>14. ASSUME NEW r \in Rules, create_rule(r) \/ update_rule(r) PROVE RulesKnown'
  <2>1. PICK row \in RuleRows :
           alertRules' = [alertRules EXCEPT ![r] = row] /\ UNCHANGED <<deleted, sending, caller>>
    BY <1>14 DEF create_rule, update_rule
  <2>2. row # NoRule
    <3>1. row.caller \in {"sweep", "investigation"} /\ NoRule.caller = "none"
      BY AlertsAssumption DEF RuleRows, NoRule
    <3> QED BY <3>1
  <2>3. \A n \in Rules : alertRules[n] # NoRule => alertRules'[n] # NoRule
    BY <2>1, <2>2 DEF AlertsTypeOK
  <2> QED BY <2>1, <2>3
<1>15. ASSUME UNCHANGED <<alertRules, deleted, sending, caller>> PROVE RulesKnown'
  BY <1>15
<1>16. ASSUME \/ update_template \/ UNCHANGED alertVars
              \/ \E u \in OrgAdmins : upsert_prefs(u)
              \/ \E m \in Machines : GoesSilent(m) \/ heard_of(m)
       PROVE  RulesKnown'
  <2>1. UNCHANGED <<alertRules, deleted, sending, caller>>
    BY <1>16 DEF update_template, upsert_prefs, GoesSilent, heard_of, alertVars
  <2> QED BY <1>15, <2>1
<1>17. CASE UNCHANGED alertVars
  BY <1>16, <1>17
<1>18. ASSUME AlertsNext, ~UNCHANGED alertVars
       PROVE  /\ \A r \in Rules : ~delete_rule(r)
              /\ \A n \in notes : ~dismiss(n)
              /\ \A m \in Machines : ~machine_deleted(m)
  BY <1>18 DEF MachinesStay, RulesStay, NotesStay
<1>19. ASSUME NEW c \in Callers, notification_gone(c) PROVE RulesKnown'
  <2> DEFINE row == [caller[c] EXCEPT !.at = "none", !.left = {}, !.telegram = <<>>]
  <2>1. row.left = {} /\ row.telegram = <<>>
    BY <1>0
  <2>2. caller' = [caller EXCEPT ![c] = row] /\ UNCHANGED <<alertRules, deleted, sending>>
    BY <1>0, <1>19 DEF notification_gone
  <2> HIDE DEF row
  <2> QED BY <1>10, <2>1, <2>2
<1>20. CASE sweep_row_gone
  BY <1>3, <1>20, AlertsAssumption DEF sweep_row_gone, Ends
<1> HIDE DEF RulesKnown
<1> QED BY <1>4, <1>5, <1>6, <1>7, <1>8, <1>9, <1>11, <1>12, <1>13, <1>14, <1>16, <1>17, <1>18,
           <1>19, <1>20
        DEF AlertsNext

\* The comment holds of an organisation with one recipient in which no machine,
\* rule or notification is deleted: the finding about the sweep has no other cause.
THEOREM OneRecipientNeverBlocks ==
    ASSUME \E u : Staff = {u}
    PROVE  AlertsSpec /\ [][\A m \in Machines : ~machine_deleted(m)]_alertVars
                      /\ [][\A r \in Rules : ~delete_rule(r)]_alertVars
                      /\ [][\A n \in notes : ~dismiss(n)]_alertVars
              => AlertNeverBlocksSweep
<1>1. AlertsInit => RulesKnown
  BY DEF AlertsInit, RulesKnown, Resting
<1>2. AlertsTypeOK /\ CallersSound /\ RulesKnown /\ [AlertsNext]_alertVars
        /\ MachinesStay /\ RulesStay /\ NotesStay => RulesKnown'
  BY RulesKept
<1>3. CallersSound /\ RulesKnown /\ SweepInv /\ [AlertsNext]_alertVars =>
        [CallerIdle("sweep") \/ caller'["sweep"] # Resting \/ SweepCovered]_alertVars
  <2> SUFFICES ASSUME CallersSound, RulesKnown, SweepInv, AlertsNext, ~CallerIdle("sweep"),
                      caller'["sweep"] = Resting
               PROVE  SweepCovered
    OBVIOUS
  <2>1. ASSUME NEW x \in caller["sweep"].left
        PROVE  alertRules[x.rule] # NoRule /\ ~(Cardinality(_resolve_recipients(x.row)) > 1)
    <3>1. alertRules[x.rule] # NoRule
      BY AlertsAssumption DEF RulesKnown
    <3>2. PICK u : Staff = {u}
      OBVIOUS
    <3>3. _resolve_recipients(x.row) \in SUBSET {u}
      BY <3>2 DEF _resolve_recipients, Staff
    <3>4. IsFiniteSet({u}) /\ Cardinality({u}) = 1
      BY FS_Singleton
    <3>5. Cardinality(_resolve_recipients(x.row)) <= 1
      BY <3>3, <3>4, FS_Subset
    <3>6. Cardinality(_resolve_recipients(x.row)) \in Nat
      BY <3>3, <3>4, FS_Subset, FS_CardinalityType
    <3> QED BY <3>1, <3>5, <3>6
  <2>2. ~SweepFails
    BY <2>1, AlertsAssumption DEF SweepFails, RulesKnown
  <2>3. CASE SweepGoesOn
    BY <2>3 DEF SweepGoesOn, SweepCovered, Resting
  <2>4. CASE SweepEnds
    BY <2>4 DEF SweepEnds, SweepInv, SweepCovered
  <2> QED BY <2>2, <2>3, <2>4, AlertSteps DEF SweepSteps, SweepStarts, SweepStops, SweepCovered
<1> QED BY <1>1, <1>2, <1>3, SweepSound, PTL
        DEF AlertsSpec, AlertNeverBlocksSweep, MachinesStay, RulesStay, NotesStay
=============================================================================
