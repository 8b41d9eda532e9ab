------------------------------ MODULE Sessions ------------------------------
(***************************************************************************)
(* Refresh tokens of one user.  A login starts a family; each refresh       *)
(* revokes the token it was given and issues the next one of the family;    *)
(* a token that is presented again after its rotation ends the family.      *)
(*                                                                         *)
(* refresh reads the row of the token without a lock and commits later:     *)
(* refresh_read is the read, and two requests may have read one token.      *)
(***************************************************************************)
EXTENDS Naturals

CONSTANTS
    MaxRefresh,  \* bound: tokens ever issued
    Refreshers   \* requests to refresh under way at once

ASSUME MaxRefreshAssumption == MaxRefresh \in Nat

RefreshIds == 1..MaxRefresh
TokenStates == {"none", "live", "revoked", "expired"}

VARIABLES
    issued,      \* how many tokens there are
    family,      \* RefreshToken.family_id: the first token of the family
    tokenState,  \* RefreshToken.revoked_at and expires_at
    refreshing   \* the token that each request has read as live, 0 if none

sessionVars == <<issued, family, tokenState, refreshing>>

SessionsInit ==
    /\ issued = 0
    /\ family = [t \in RefreshIds |-> 0]
    /\ tokenState = [t \in RefreshIds |-> "none"]
    /\ refreshing = [q \in Refreshers |-> 0]

reading == {refreshing[q] : q \in Refreshers} \ {0}
Live == {t \in RefreshIds : tokenState[t] = "live"}

\* Every token of S that is live becomes revoked.
Revoked(S) == [t \in RefreshIds |->
                 IF t \in S /\ tokenState[t] = "live" THEN "revoked" ELSE tokenState[t]]
Kin(t) == {u \in RefreshIds : family[u] = family[t]}

\* The next token, of family f, when states holds for the others.
issue_tokens(f, states) ==
    /\ issued < MaxRefresh
    /\ issued' = issued + 1
    /\ family' = [family EXCEPT ![issued + 1] = f]
    /\ tokenState' = [states EXCEPT ![issued + 1] = "live"]

login == issue_tokens(issued + 1, tokenState) /\ UNCHANGED refreshing

refresh_read(q, t) ==
    /\ refreshing[q] = 0
    /\ tokenState[t] = "live"
    /\ refreshing' = [refreshing EXCEPT ![q] = t]
    /\ UNCHANGED <<issued, family, tokenState>>

\* Mutant: the token that was rotated is left as it was.
rotate_keeps_old(q) ==
    /\ refreshing[q] # 0
    /\ refreshing' = [refreshing EXCEPT ![q] = 0]
    /\ issue_tokens(family[refreshing[q]], tokenState)

\* Rotation: one commit revokes the token, whatever became of it, and issues the
\* next.
rotate(q) ==
    /\ refreshing[q] # 0
    /\ refreshing' = [refreshing EXCEPT ![q] = 0]
    /\ issue_tokens(family[refreshing[q]], Revoked({refreshing[q]}))

\* The process or the connection ends before the commit.
RefreshAborts(q) ==
    /\ refreshing[q] # 0
    /\ refreshing' = [refreshing EXCEPT ![q] = 0]
    /\ UNCHANGED <<issued, family, tokenState>>

\* A token that was rotated or revoked is presented: its family ends.
refresh_reuse(t) ==
    /\ tokenState[t] = "revoked"
    /\ tokenState' = Revoked(Kin(t))
    /\ UNCHANGED <<issued, family, refreshing>>

\* change_password and reset_password.
revoke_user_refresh_tokens ==
    /\ Live # {}
    /\ tokenState' = Revoked(RefreshIds)
    /\ UNCHANGED <<issued, family, refreshing>>

logout(t) ==
    /\ tokenState[t] = "live"
    /\ tokenState' = Revoked({t})
    /\ UNCHANGED <<issued, family, refreshing>>

\* The token is older than refresh_token_expire_days.
RefreshExpires(t) ==
    /\ tokenState[t] = "live"
    /\ tokenState' = [tokenState EXCEPT ![t] = "expired"]
    /\ UNCHANGED <<issued, family, refreshing>>

SessionsNext ==
    \/ login \/ revoke_user_refresh_tokens
    \/ \E t \in RefreshIds : refresh_reuse(t) \/ logout(t) \/ RefreshExpires(t)
    \/ \E q \in Refreshers :
          (\E t \in RefreshIds : refresh_read(q, t)) \/ rotate(q) \/ RefreshAborts(q)

SessionsSpec == SessionsInit /\ [][SessionsNext]_sessionVars

-----------------------------------------------------------------------------
(* Properties.                                                               *)

\* Every variable keeps its type, and exactly the tokens issued have a state.
SessionsTypeOK ==
    /\ issued \in 0..MaxRefresh
    /\ family \in [RefreshIds -> 0..MaxRefresh]
    /\ tokenState \in [RefreshIds -> TokenStates]
    /\ refreshing \in [Refreshers -> 0..issued]
    /\ \A t \in RefreshIds : tokenState[t] # "none" <=> t <= issued

\* What may still go on in family f: its live tokens and those being refreshed.
Heirs(f) == {t \in Live \union reading : family[t] = f}
OneHeir(f) == \A t, u \in Heirs(f) : t = u

TwoReaders(f) ==
    \E p, q \in Refreshers :
       /\ p # q /\ refreshing[p] = refreshing[q]
       /\ refreshing[p] \in RefreshIds /\ family[refreshing[p]] = f

\* "old token revoked, the new one inherits the family" (db/models.py:1541): a
\* family forks only when two requests have read one of its tokens before either
\* commits (routes/auth.py:162-195, no row lock), whatever is revoked meanwhile.
ForksOnlyOnTwoReads ==
    [][\A f \in RefreshIds : OneHeir(f) /\ ~OneHeir(f)' => TwoReaders(f)]_sessionVars

OneHeirPerFamily == \A f \in RefreshIds : OneHeir(f)

\* At most one live token in a family.
OneLivePerFamily ==
    \A t, u \in Live : family[t] = family[u] => t = u

\* A family that has ended (routes/auth.py:68, 79, 172) comes back to life only
\* through a refresh that had read its token before the end.
EndedFamilyStaysEnded ==
    [][\A t \in RefreshIds :
         /\ tokenState[t] # "none"
         /\ Kin(t) \cap Live = {}
         /\ Kin(t)' \cap Live' # {}
         => Kin(t) \cap reading # {}]_sessionVars
=============================================================================
