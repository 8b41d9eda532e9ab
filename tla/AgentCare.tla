----------------------------- MODULE AgentCare ------------------------------
(***************************************************************************)
(* What the server does for one enrolled agent besides its inventory: the  *)
(* renewal of its client certificate (POST /api/renew and the CA service)  *)
(* and the wish for a new scan, a key in Redis that an administrator sets  *)
(* and the heartbeat reads and deletes in two calls.  The agent is         *)
(* external: it uses the certificate of the last answer it got, and scans  *)
(* when an answer of a heartbeat says so.                                  *)
(***************************************************************************)
EXTENDS Naturals, FiniteSets

CONSTANTS
    Beats,            \* heartbeats under way
    MaxCertificates,  \* bound: certificates the CA signs
    MaxWishes         \* bound: how often an administrator asks for a scan

ASSUME AgentCareAssumption == MaxCertificates \in Nat \ {0} /\ MaxWishes \in Nat

VARIABLES
    signed,    \* certificates the CA has signed: 1..signed
    revoked,   \* those it has revoked
    certificate,  \* the one the agent uses
    renewal,   \* the renewal under way: [phase, new]
    answerLost,   \* an answer to a renewal did not arrive (history)
    flag,      \* machine:rescan:<id> is set in Redis
    wishes,    \* scans asked for so far
    wanted,    \* the last wish has not reached the agent (history)
    wishExcused,   \* it expired, was not stored, or its answer was lost (history)
    beat       \* the heartbeats: "idle", "asked", "found", "seen" or "unseen"

renewalVars == <<signed, revoked, certificate, renewal, answerLost>>
rescanVars == <<flag, wishes, wanted, wishExcused, beat>>
careVars == <<renewalVars, rescanVars>>

NoRenewal == [phase |-> "idle", new |-> 0]

CareInit ==
    /\ signed = 1 /\ revoked = {} /\ certificate = 1
    /\ renewal = NoRenewal /\ answerLost = FALSE
    /\ flag = FALSE /\ wishes = 0 /\ wanted = FALSE /\ wishExcused = FALSE
    /\ beat = [b \in Beats |-> "idle"]

----------------------------------------------------------------------------
\* Renewal.  The serial of the header names the certificate in use.

renew_request ==
    /\ renewal = NoRenewal
    /\ certificate \notin revoked
    /\ renewal' = [phase |-> "asked", new |-> 0]
    /\ UNCHANGED <<signed, revoked, certificate, answerLost, rescanVars>>

\* Mutant: the old certificate is revoked before the new one is signed.
renew_cert_after_revoke ==
    \/ /\ renewal.phase = "asked" /\ signed < MaxCertificates
       /\ signed' = signed + 1
       /\ revoked' = revoked \union {certificate}
       /\ renewal' = [phase |-> "signed", new |-> signed + 1]
       /\ UNCHANGED <<certificate, answerLost, rescanVars>>
    \/ /\ renewal.phase = "asked"
       /\ revoked' = revoked \union {certificate}
       /\ renewal' = NoRenewal
       /\ UNCHANGED <<signed, certificate, answerLost, rescanVars>>

\* The CA signs the request, or fails and the answer is 502.
renew_cert ==
    \/ /\ renewal.phase = "asked" /\ signed < MaxCertificates
       /\ signed' = signed + 1
       /\ renewal' = [phase |-> "signed", new |-> signed + 1]
       /\ UNCHANGED <<revoked, certificate, answerLost, rescanVars>>
    \/ /\ renewal.phase = "asked"
       /\ renewal' = NoRenewal
       /\ UNCHANGED <<signed, revoked, certificate, answerLost, rescanVars>>

\* The CA revokes the old one; an error, also after it has, is passed over.
revoke ==
    /\ renewal.phase = "signed"
    /\ \/ revoked' = revoked \union {certificate}
       \/ revoked' = revoked
    /\ renewal' = [renewal EXCEPT !.phase = "answered"]
    /\ UNCHANGED <<signed, certificate, answerLost, rescanVars>>

\* The audit entry is committed and the answer with the certificate arrives.
renewal_arrives ==
    /\ renewal.phase = "answered"
    /\ certificate' = renewal.new
    /\ renewal' = NoRenewal
    /\ UNCHANGED <<signed, revoked, answerLost, rescanVars>>

\* The commit fails, the process stops or the connection breaks: the agent
\* keeps the certificate it has.
renewal_lost ==
    /\ renewal.phase \in {"signed", "answered"}
    /\ renewal' = NoRenewal
    /\ answerLost' = TRUE
    /\ UNCHANGED <<signed, revoked, certificate, rescanVars>>

RenewalNext ==
    renew_request \/ renew_cert \/ revoke \/ renewal_arrives \/ renewal_lost

----------------------------------------------------------------------------
\* The wish for a scan.

\* POST /api/machines/{id}/rescan.  When Redis fails the wish is put on the
\* Python object, which no one reads.
request_rescan ==
    /\ wishes < MaxWishes
    /\ wishes' = wishes + 1
    /\ wanted' = TRUE
    /\ \/ flag' = TRUE /\ wishExcused' = FALSE
       \/ flag' = flag /\ wishExcused' = TRUE
    /\ UNCHANGED <<renewalVars, beat>>

\* The key lives for 600 seconds.
rescan_expires ==
    /\ flag
    /\ flag' = FALSE
    /\ wishExcused' = TRUE
    /\ UNCHANGED <<renewalVars, wishes, wanted, beat>>

heartbeat(b) ==
    /\ beat[b] = "idle"
    /\ beat' = [beat EXCEPT ![b] = "asked"]
    /\ UNCHANGED <<renewalVars, flag, wishes, wanted, wishExcused>>

\* GET of the key; it is not there, or an error leaves it unread.
heartbeat_get(b) ==
    /\ beat[b] = "asked"
    /\ \/ flag /\ beat' = [beat EXCEPT ![b] = "found"]
       \/ beat' = [beat EXCEPT ![b] = "unseen"]
    /\ UNCHANGED <<renewalVars, flag, wishes, wanted, wishExcused>>

\* Mutant: the key is deleted whether or not it was seen.
heartbeat_delete_always(b) ==
    /\ \/ beat[b] = "found" /\ beat' = [beat EXCEPT ![b] = "seen"]
       \/ beat[b] = "unseen" /\ UNCHANGED beat
    /\ flag' = FALSE
    /\ UNCHANGED <<renewalVars, wishes, wanted, wishExcused>>

\* DELETE of the key, only when it was there; the heartbeat has seen it
\* also when the call fails.
heartbeat_delete(b) ==
    /\ beat[b] = "found"
    /\ \/ flag' = FALSE
       \/ flag' = flag
    /\ beat' = [beat EXCEPT ![b] = "seen"]
    /\ UNCHANGED <<renewalVars, wishes, wanted, wishExcused>>

\* The answer arrives: rescan_requested is what the heartbeat has seen.
heartbeat_answer(b) ==
    /\ beat[b] \in {"seen", "unseen"}
    /\ wanted' = (wanted /\ beat[b] = "unseen")
    /\ beat' = [beat EXCEPT ![b] = "idle"]
    /\ UNCHANGED <<renewalVars, flag, wishes, wishExcused>>

\* The commit fails or the answer is lost.
heartbeat_lost(b) ==
    /\ beat[b] # "idle"
    /\ wishExcused' = (wishExcused \/ beat[b] = "seen")
    /\ beat' = [beat EXCEPT ![b] = "idle"]
    /\ UNCHANGED <<renewalVars, flag, wishes, wanted>>

RescanNext ==
    \/ request_rescan
    \/ rescan_expires
    \/ \E b \in Beats :
          \/ heartbeat(b)
          \/ heartbeat_get(b)
          \/ heartbeat_delete(b)
          \/ heartbeat_answer(b)
          \/ heartbeat_lost(b)

CareNext == RenewalNext \/ RescanNext

CareSpec == CareInit /\ [][CareNext]_careVars

----------------------------------------------------------------------------
\* Every variable has its type.
CareTypeOK ==
    /\ signed \in 1..MaxCertificates
    /\ revoked \subseteq 1..signed
    /\ certificate \in 1..signed
    /\ renewal \in [phase : {"idle", "asked", "signed", "answered"}, new : 0..signed]
    /\ wishes \in 0..MaxWishes
    /\ beat \in [Beats -> {"idle", "asked", "found", "seen", "unseen"}]
    /\ {answerLost, flag, wanted, wishExcused} \subseteq BOOLEAN

\* An agent is left with a revoked certificate only while the answer with the
\* new one is under way, or when it was lost (renew.py:61-62: "nếu revoke
\* trước mà ký thất bại thì agent mất luôn cert đang dùng").
KeepsACertificate ==
    certificate \in revoked /\ ~answerLost =>
        renewal.phase = "answered" /\ renewal.new \notin revoked

\* A wish for a scan that has not reached the agent is in Redis or in a
\* heartbeat that has seen it, although the heartbeat reads and deletes the
\* key in two calls (heartbeat.py:73-75), unless the key expired, could not
\* be stored, or went with an answer that was lost.
RescanNotForgotten ==
    wanted /\ ~wishExcused => flag \/ \E b \in Beats : beat[b] \in {"found", "seen"}
==============================================================================
