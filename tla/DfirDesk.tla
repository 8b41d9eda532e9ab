------------------------------ MODULE DfirDesk ------------------------------
(***************************************************************************)
(* What administrators do with Velociraptor by hand: requests for an         *)
(* investigation, which a super administrator reviews; hunts, started        *)
(* directly or from a schedule; and the alerts that a scan raises for the    *)
(* flows of sensitive artifacts.                                             *)
(*                                                                         *)
(* A review reads its request without a lock and decides on what it has      *)
(* read.  A hunt talks to Velociraptor between its first statement and its   *)
(* commit; the machine or the schedule that it names may be gone by then,    *)
(* which loses the row of a flow that runs.                                  *)
(***************************************************************************)
EXTENDS Naturals, FiniteSets

CONSTANTS
    DfirRequests,   \* requests ever made
    Reviewers,      \* super administrators
    Hunts,          \* hunts ever started
    Scans           \* scans under way at once

ASSUME DeskAssumption == IsFiniteSet(Scans)

VARIABLES
    request,     \* DfirInvestigationRequest.status; "none" before it is made
    reviewing,   \* what each reviewer has read: a request, its status, an action
    approvals,   \* history: requests that were approved at some time
    schedule,    \* DfirSchedule: "none", "on", "off", or "deleted"
    hunt,        \* DfirHunt.status, "calling" before the commit, "none" without a row
    fromSchedule,\* hunts that a schedule started
    flow,        \* hunts whose artifact Velociraptor collects
    dfirAlerts,  \* how many DfirAlert rows a flow has
    resolved,    \* flows whose alerts are all resolved
    scanning,    \* the flows that each scan is going to report; {} when idle
    dayOld,      \* the server process has run for 24 hours
    recentHunts  \* hunts whose created_at is less than 24 hours ago

requestVars == <<request, reviewing, approvals>>
huntVars == <<hunt, fromSchedule, flow>>
scanVars == <<dfirAlerts, resolved, scanning>>
ageVars == <<dayOld, recentHunts>>
deskVars == <<requestVars, schedule, huntVars, scanVars, ageVars>>

NotReviewing == <<>>

DeskInit ==
    /\ request = [q \in DfirRequests |-> "none"]
    /\ reviewing = [v \in Reviewers |-> NotReviewing]
    /\ approvals = {}
    /\ schedule = "none"
    /\ hunt = [h \in Hunts |-> "none"]
    /\ fromSchedule = {} /\ flow = {}
    /\ dfirAlerts = [h \in Hunts |-> 0] /\ resolved = {}
    /\ scanning = [s \in Scans |-> {}]
    /\ dayOld = FALSE /\ recentHunts = {}

-----------------------------------------------------------------------------
(* Requests.                                                                 *)

create_request(q) ==
    /\ request[q] = "none"
    /\ request' = [request EXCEPT ![q] = "pending"]
    /\ UNCHANGED <<reviewing, approvals, schedule, huntVars, scanVars, ageVars>>

\* Mutant: a pending request is completed at once.
ReviewableFromPending(action) ==
    CASE action = "approve" -> {"pending"}
      [] action = "reject" -> {"pending", "approved"}
      [] action = "complete" -> {"pending", "approved", "running"}
      [] OTHER -> {"pending", "approved", "rejected", "completed", "failed"}

\* The statuses in which an action is not answered with 400.
Reviewable(action) ==
    CASE action = "approve" -> {"pending"}
      [] action = "reject" -> {"pending", "approved"}
      [] action = "complete" -> {"approved", "running"}
      [] OTHER -> {"pending", "approved", "rejected", "completed", "failed"}

Reviews(v, q, action) ==
    /\ reviewing[v] = NotReviewing
    /\ request[q] \in Reviewable(action)
    /\ reviewing' = [reviewing EXCEPT ![v] = <<q, action>>]
    /\ UNCHANGED <<request, approvals, schedule, huntVars, scanVars, ageVars>>

approve_request(v, q) == Reviews(v, q, "approve")
reject_request(v, q) == Reviews(v, q, "reject")
complete_request(v, q) == Reviews(v, q, "complete")
patch_request(v, q) == Reviews(v, q, "fail")

Outcome == [approve |-> "approved", reject |-> "rejected",
            complete |-> "completed", fail |-> "failed"]

commit_review(v) ==
    /\ reviewing[v] # NotReviewing
    /\ LET q == reviewing[v][1] action == reviewing[v][2] IN
         /\ request' = [request EXCEPT ![q] = Outcome[action]]
         /\ approvals' = IF action = "approve" THEN approvals \union {q} ELSE approvals
    /\ reviewing' = [reviewing EXCEPT ![v] = NotReviewing]
    /\ UNCHANGED <<schedule, huntVars, scanVars, ageVars>>

-----------------------------------------------------------------------------
(* Schedules.  The loop that would run them is never started.                *)

create_dfir_schedule ==
    /\ schedule = "none"
    /\ schedule' = "on"
    /\ UNCHANGED <<requestVars, huntVars, scanVars, ageVars>>

update_dfir_schedule ==
    /\ schedule \in {"on", "off"}
    /\ schedule' \in {"on", "off"}
    /\ UNCHANGED <<requestVars, huntVars, scanVars, ageVars>>

delete_dfir_schedule ==
    /\ schedule \in {"on", "off"}
    /\ schedule' = "deleted"
    /\ UNCHANGED <<requestVars, huntVars, scanVars, ageVars>>

-----------------------------------------------------------------------------
(* Hunts.                                                                    *)

StartHunt(h) ==
    /\ hunt[h] = "none"
    /\ hunt' = [hunt EXCEPT ![h] = "calling"]
    /\ flow' \in {flow, flow \union {h}}

create_velociraptor_hunt(h) ==
    /\ StartHunt(h)
    /\ UNCHANGED <<requestVars, schedule, fromSchedule, scanVars, ageVars>>

\* A schedule that is switched off can be run by hand.
run_dfir_schedule_now(h) ==
    /\ schedule \in {"on", "off"}
    /\ StartHunt(h)
    /\ fromSchedule' = fromSchedule \union {h}
    /\ UNCHANGED <<requestVars, schedule, scanVars, ageVars>>

\* A hunt without any flow is completed as well; the machine may be gone.  The
\* default of created_at is the time at which the process was started.
commit_hunt(h) ==
    /\ hunt[h] = "calling"
    /\ \E s \in IF h \in fromSchedule /\ schedule = "deleted" THEN {"lost"}
               ELSE {"completed", "error", "lost"} : hunt' = [hunt EXCEPT ![h] = s]
    /\ recentHunts' = IF dayOld THEN recentHunts ELSE recentHunts \union {h}
    /\ UNCHANGED <<requestVars, schedule, fromSchedule, flow, scanVars, dayOld>>

delete_dfir_hunt(h) ==
    /\ hunt[h] \in {"completed", "error"} /\ h \in flow
    /\ hunt' = [hunt EXCEPT ![h] = "deleted"]
    /\ UNCHANGED <<requestVars, schedule, fromSchedule, flow, scanVars, ageVars>>

-----------------------------------------------------------------------------
(* Alerts.                                                                   *)

\* The flows of sensitive artifacts, of the last 24 hours, without an alert.
Unreported == {h \in flow \cap recentHunts : hunt[h] \in {"completed", "error"} /\ dfirAlerts[h] = 0}

_scan_sensitive_flows(s) ==
    /\ scanning[s] = {}
    /\ Unreported # {}
    /\ scanning' = [scanning EXCEPT ![s] = Unreported]
    /\ UNCHANGED <<requestVars, schedule, huntVars, dfirAlerts, resolved, ageVars>>

commit_scan(s) ==
    /\ scanning[s] # {}
    /\ dfirAlerts' = [h \in Hunts |-> dfirAlerts[h] + (IF h \in scanning[s] THEN 1 ELSE 0)]
    /\ resolved' = resolved \ scanning[s]
    /\ scanning' = [scanning EXCEPT ![s] = {}]
    /\ UNCHANGED <<requestVars, schedule, huntVars, ageVars>>

resolve_dfir_alert(h) ==
    /\ dfirAlerts[h] > 0
    /\ h \notin resolved
    /\ resolved' = resolved \union {h}
    /\ UNCHANGED <<requestVars, schedule, huntVars, dfirAlerts, scanning, ageVars>>

-----------------------------------------------------------------------------
(* Time and restarts.                                                        *)

DayPasses ==
    /\ ~dayOld \/ recentHunts # {}
    /\ dayOld' = TRUE
    /\ recentHunts' = {}
    /\ UNCHANGED <<requestVars, schedule, huntVars, scanVars>>

ServerRestarts ==
    /\ dayOld' = FALSE
    /\ reviewing' = [v \in Reviewers |-> NotReviewing]
    /\ scanning' = [s \in Scans |-> {}]
    /\ hunt' = [h \in Hunts |-> IF hunt[h] = "calling" THEN "lost" ELSE hunt[h]]
    /\ UNCHANGED <<request, approvals, schedule, fromSchedule, flow, dfirAlerts, resolved, recentHunts>>

DeskNext ==
    \/ DayPasses \/ ServerRestarts
    \/ \E q \in DfirRequests : create_request(q)
    \/ \E v \in Reviewers : \/ commit_review(v)
                            \/ \E q \in DfirRequests :
                                  \/ approve_request(v, q) \/ reject_request(v, q)
                                  \/ complete_request(v, q) \/ patch_request(v, q)
    \/ create_dfir_schedule \/ update_dfir_schedule \/ delete_dfir_schedule
    \/ \E h \in Hunts : \/ create_velociraptor_hunt(h) \/ run_dfir_schedule_now(h)
                        \/ commit_hunt(h) \/ delete_dfir_hunt(h) \/ resolve_dfir_alert(h)
    \/ \E s \in Scans : _scan_sensitive_flows(s) \/ commit_scan(s)

DeskSpec == DeskInit /\ [][DeskNext]_deskVars

-----------------------------------------------------------------------------
(* Properties.                                                               *)

\* Every variable keeps its type; an approval and an alert belong to a request
\* and a flow that there are.
DeskTypeOK ==
    /\ request \in [DfirRequests ->
          {"none", "pending", "approved", "rejected", "completed", "failed"}]
    /\ approvals \subseteq {q \in DfirRequests : request[q] # "none"}
    /\ schedule \in {"none", "on", "off", "deleted"}
    /\ hunt \in [Hunts -> {"none", "calling", "completed", "error", "lost", "deleted"}]
    /\ fromSchedule \subseteq Hunts /\ flow \subseteq Hunts
    /\ \A h \in Hunts : dfirAlerts[h] \in 0..Cardinality(Scans)
    /\ resolved \subseteq {h \in flow : dfirAlerts[h] > 0}
    /\ \A s \in Scans : scanning[s] \subseteq flow
    /\ dayOld \in BOOLEAN /\ recentHunts \subseteq Hunts

\* Whatever two reviewers do at once, a request that is completed was approved
\* (dfir_requests.py:231): a review that was overtaken may undo the other's
\* decision, but it never skips the approval.
CompletedWasApproved == \A q \in DfirRequests : request[q] = "completed" => q \in approvals
=============================================================================
