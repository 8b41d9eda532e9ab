---------------------------- MODULE EnrollTokens ----------------------------
(***************************************************************************)
(* The rows of enroll_tokens, and the queue of enrolments refused at the    *)
(* token gate (enroll_attempts) from which an administrator issues          *)
(* replacement tokens.  Attempts are closed but never deleted, and their    *)
(* foreign keys have no ON DELETE clause: the tokens and machines they      *)
(* name can no longer be deleted.                                           *)
(***************************************************************************)
EXTENDS FleetIds

CONSTANTS
    Tokens,       \* token rows that may come to exist
    MaxUses,      \* bound: enrolments counted per token
    MaxAttempts   \* bound: pending attempts counted per machine and reason

ASSUME TokensAssumption == MaxUses \in Nat /\ MaxAttempts \in Nat

TokenStatus == {"pending", "used", "expired"}
Refusal == {"unknown", "used", "expired"}

VARIABLES
    tok,       \* EnrollToken.status; "none" and "deleted" are no row
    past,      \* tokens whose expires_at has passed
    uses,      \* enrolments committed with the token
    attempts,  \* pending EnrollAttempts of the last day
    bound,     \* tokens named by some EnrollAttempt.token_id
    matched    \* machine rows named by some EnrollAttempt.matched_machine_id

tokenVars == <<tok, past, uses, attempts, bound, matched>>

TokensTypeOK ==
    /\ tok \in [Tokens -> TokenStatus \union {"none", "deleted"}]
    /\ past \subseteq Tokens
    /\ uses \in [Tokens -> 0..MaxUses]
    /\ attempts \in [Hardware \X Refusal -> 0..MaxAttempts]
    /\ bound \subseteq Tokens
    /\ matched \subseteq Rows

TokensInit ==
    /\ tok = [t \in Tokens |-> "none"]
    /\ past = {}
    /\ uses = [t \in Tokens |-> 0]
    /\ attempts = [k \in Hardware \X Refusal |-> 0]
    /\ bound = {}
    /\ matched = {}

HasToken(t) == tok[t] \in TokenStatus

\* Counting up to the bound b.
Capped(n, b) == IF n < b THEN n + 1 ELSE n

\* An administrator, a bulk import or a self-service claim creates a token.
create_token(t) ==
    /\ tok[t] = "none"
    /\ tok' = [tok EXCEPT ![t] = "pending"]
    /\ UNCHANGED <<past, uses, attempts, bound, matched>>

\* Reissuing leaves the old token usable.
reissue_token(old, t) ==
    /\ tok[old] \in {"pending", "expired"}
    /\ create_token(t)

SetTokens(S, s) ==
    /\ tok' = [t \in Tokens |-> IF t \in S THEN s ELSE tok[t]]
    /\ UNCHANGED <<past, uses, attempts, bound, matched>>

\* What the database lets a DELETE remove.
Deletable(S) == S \intersect bound = {}

delete_token(t) == HasToken(t) /\ Deletable({t}) /\ SetTokens({t}, "deleted")

\* Mutant: only the tokens already marked expired.
StaleMarked == {t \in Tokens : tok[t] = "expired"}

Stale == {t \in Tokens : HasToken(t) /\ (t \in past \/ tok[t] = "expired")}

\* The monitor removes what has expired, used tokens included, in one DELETE.
cleanup_tokens ==
    /\ Stale # {}
    /\ Deletable(Stale)
    /\ SetTokens(Stale, "deleted")

\* Time passes the token's expires_at.
TokenExpires(t) ==
    /\ HasToken(t)
    /\ t \notin past
    /\ past' = past \union {t}
    /\ UNCHANGED <<tok, uses, attempts, bound, matched>>

-----------------------------------------------------------------------------
(* The token gate of perform_enroll.                                        *)

\* Mutant: a used token is let through.
GateForgetsUsed(t) ==
    IF ~HasToken(t) THEN "unknown" ELSE IF t \in past THEN "expired" ELSE "open"

Gate(t) ==
    CASE tok[t] \notin TokenStatus -> "unknown"
      [] tok[t] = "used" -> "used"
      [] tok[t] \in {"pending", "expired"} ->
            IF t \in past THEN "expired" ELSE "open"

\* The row that the enrolment marks as used is still there.
TokenWritable(t) == HasToken(t)

\* Mutant: the refused machine is not looked up among the recent attempts.
AlwaysNewAttempt(w, why) == attempts[<<w, why>>] >= 0

IsNewAttempt(w, why) == attempts[<<w, why>>] = 0

\* Two matching attempts make scalar_one_or_none raise.
AmbiguousAttempt(w, why) == attempts[<<w, why>>] > 1

\* An attempt is rejected, or leaves the window of one day: at once when the
\* server has run for a day, as the default of created_at is the time at which
\* the process was started.
AttemptCloses(w, why) ==
    /\ attempts[<<w, why>>] > 0
    /\ attempts' = [attempts EXCEPT ![<<w, why>>] = @ - 1]
    /\ UNCHANGED <<tok, past, uses, bound, matched>>

\* An attempt whose organisation is known is approved: a replacement token.
approve_attempt(w, why, t) ==
    /\ why # "unknown"
    /\ attempts[<<w, why>>] > 0
    /\ tok[t] = "none"
    /\ attempts' = [attempts EXCEPT ![<<w, why>>] = @ - 1]
    /\ tok' = [tok EXCEPT ![t] = "pending"]
    /\ UNCHANGED <<past, uses, bound, matched>>
=============================================================================
