------------------------------- MODULE Alerts -------------------------------
(***************************************************************************)
(* Alerts.  A caller, the monitor's sweep of silent machines or the end of   *)
(* an investigation, triggers a template for one machine after the other.    *)
(* trigger_alert goes through the rules and adds an event for each, and      *)
(* create_notification commits the notifications, and with them whatever     *)
(* else the caller's transaction holds.                                      *)
(*                                                                         *)
(* All notifications of an event carry one idempotency key, and the key is   *)
(* unique: with two recipients the commit fails and is rolled back, and the  *)
(* objects that the caller had loaded are expired.  The first attribute of   *)
(* another of them that it reads then raises, and its loop ends.             *)
(***************************************************************************)
EXTENDS Naturals, FiniteSets

CONSTANTS
    Machines,
    OrgAdmins, AlertSupers,  \* users; a super administrator is never missing, and
                             \* nobody's account goes while the user is notified
    Linked,             \* the users with a telegram_chat_id
    Rules,
    Callers,            \* the callers that trigger alerts
    Orgs,               \* a root organisation and its children
    OrgOf               \* the organisation of each machine and org admin

ASSUME AlertsAssumption ==
    /\ "sweep" \in Callers /\ Callers \subseteq {"sweep", "investigation"}
    /\ OrgAdmins \cap AlertSupers = {} /\ AlertSupers # {}

Staff == OrgAdmins \union AlertSupers
\* What a scope comes to: one organisation, or all of them, for the tree of
\* the root or the whole system.
Scopes == {Orgs} \union {{o} : o \in Orgs}
\* Of a rule that is off nothing else is read: one row stands for all of them.
RuleRows ==
    {row \in [on : BOOLEAN, scope_orgs : Scopes, caller : Callers] :
        row.on \/ row = [on |-> FALSE, scope_orgs |-> Orgs, caller |-> "sweep"]}
NoRule == [on |-> FALSE, scope_orgs |-> {}, caller |-> "none"]

VARIABLES
    alertRules,  \* AlertRule rows; the template stands for the caller that triggers it
    template,    \* AlertTemplate: "off", "on", or "mutable" when it may be muted too
    muted,       \* UserNotificationPref.muted
    deleted,     \* machines whose row is gone
    silent,      \* machines not heard of for longer than OFFLINE_THRESHOLD
    offline,     \* machines with status offline
    events,      \* alert_events of today, each a rule, a template and a machine
    notes,       \* the notifications of today: an event and a user
    sending,     \* NotificationDelivery.status of a notification, "none" without one
    caller       \* the callers' transactions

alertVars ==
    <<alertRules, template, muted, deleted, silent, offline, events, notes, sending, caller>>

Alert(r, c, m) == <<r, c, m>>
AlertKeys == Rules \X Callers \X Machines
NoteKeys == Rules \X Callers \X Machines \X Staff

\* todo: machines still to go through; at: the machine at hand; left: the rules
\* loaded for it; marked: machines marked in the open transaction; telegram: the
\* notification being sent; found: the machines that the sweep has found.
Resting == [todo |-> {}, at |-> "none", left |-> {}, marked |-> {},
            telegram |-> <<>>, found |-> {}]
Stopped == [Resting EXCEPT !.at = "down"]

AlertsInit ==
    /\ alertRules = [r \in Rules |-> NoRule]
    /\ template = "mutable"
    /\ muted = {}
    /\ deleted = {}
    /\ silent = {}
    /\ offline = {}
    /\ events = {}
    /\ notes = {}
    /\ sending = [k \in NoteKeys |-> "none"]
    /\ caller = [c \in Callers |-> Resting]

_resolve_recipients(row) ==
    {u \in OrgAdmins \ muted : OrgOf[u] \in row.scope_orgs} \union AlertSupers

CallerIdle(c) == caller[c] = Resting
Ends(c) == caller' = [caller EXCEPT ![c] = Resting]

sweep_offline_rows ==
    /\ CallerIdle("sweep")
    /\ silent \ offline # {}
    /\ caller' = [caller EXCEPT !["sweep"] = [Resting EXCEPT !.todo = silent \ offline,
                                                             !.found = silent \ offline]]
    /\ UNCHANGED <<alertRules, template, muted, deleted, silent, offline, events, notes, sending>>

notify_investigation_result(m) ==
    /\ m \notin deleted
    /\ "investigation" \in Callers /\ CallerIdle("investigation")
    /\ caller' = [caller EXCEPT !["investigation"] = [Resting EXCEPT !.todo = {m}]]
    /\ UNCHANGED <<alertRules, template, muted, deleted, silent, offline, events, notes, sending>>

\* The next machine: the sweep marks it, and the rules of the template are
\* loaded.
trigger_alert(c, m) ==
    LET loaded == {[rule |-> r, row |-> alertRules[r]] :
                     r \in {r \in Rules : alertRules[r].on /\ alertRules[r].caller = c}}
    IN
    /\ caller[c].at = "none"
    /\ m \in caller[c].todo
    /\ c = "sweep" => m \notin deleted
    /\ caller' = [caller EXCEPT
                    ![c].todo = @ \ {m},
                    ![c].marked = IF c = "sweep" THEN @ \union {m} ELSE @,
                    ![c].at = IF template = "off" \/ loaded = {} THEN "none" ELSE m,
                    ![c].left = IF template = "off" THEN {} ELSE loaded]
    /\ UNCHANGED <<alertRules, template, muted, deleted, silent, offline, events, notes, sending>>

\* The row that the sweep marks is gone: the flush raises, the transaction is
\* rolled back, and what the sweep reads or commits next raises outside its try.
sweep_row_gone ==
    /\ caller["sweep"].at = "none"
    /\ caller["sweep"].todo \cap deleted # {}
    /\ Ends("sweep")
    /\ UNCHANGED <<alertRules, template, muted, deleted, silent, offline, events, notes, sending>>

Considers(c, x) == x \in caller[c].left /\ caller[c].telegram = <<>>

\* Mutant: an alert counts as raised as long as somebody has its notification.
NotifiesUnseen(c, x) ==
    /\ Considers(c, x)
    /\ OrgOf[caller[c].at] \in x.row.scope_orgs
    /\ \A n \in notes : Alert(n[1], n[2], n[3]) # Alert(x.rule, c, caller[c].at)

Notifies(c, x) ==
    /\ Considers(c, x)
    /\ OrgOf[caller[c].at] \in x.row.scope_orgs
    /\ Alert(x.rule, c, caller[c].at) \notin events

\* The machine's organisation is out of scope, or there is an event of today.
rule_skipped(c, x) ==
    /\ Considers(c, x)
    /\ ~Notifies(c, x)
    /\ caller' = [caller EXCEPT ![c].left = @ \ {x}]
    /\ UNCHANGED <<alertRules, template, muted, deleted, silent, offline, events, notes, sending>>

\* One recipient: its notification is committed with all else of the
\* transaction, and so is the delivery after it.
create_notification(c, x) ==
    /\ Notifies(c, x)
    /\ alertRules[x.rule] # NoRule /\ caller[c].at \notin deleted
    /\ \E u \in Staff :
         LET k == <<x.rule, c, caller[c].at, u>> IN
         /\ _resolve_recipients(x.row) = {u}
         /\ notes' = notes \union {k}
         /\ events' = events \union {Alert(x.rule, c, caller[c].at)}
         /\ offline' = offline \union caller[c].marked
         /\ caller' = [caller EXCEPT ![c].left = @ \ {x}, ![c].marked = {},
                                     ![c].telegram = IF u \in Linked THEN k ELSE <<>>]
         /\ sending' = [sending EXCEPT ![k] = IF u \in Linked THEN "pending" ELSE "none"]
    /\ UNCHANGED <<alertRules, template, muted, deleted, silent>>

\* Two recipients, or the rule or the machine is gone: the transaction is rolled
\* back.
create_notification_fails(c, x) ==
    /\ Notifies(c, x)
    /\ \/ Cardinality(_resolve_recipients(x.row)) > 1
       \/ alertRules[x.rule] = NoRule \/ caller[c].at \in deleted
    /\ Ends(c)
    /\ UNCHANGED <<alertRules, template, muted, deleted, silent, offline, events, notes, sending>>

\* Telegram has answered or has not: the delivery is "delivered" or "failed",
\* which nothing reads.
_maybe_deliver_telegram(c) ==
    LET k == caller[c].telegram IN
    /\ k # <<>> /\ sending[k] # "none"
    /\ sending' = [sending EXCEPT ![k] = "done"]
    /\ caller' = [caller EXCEPT ![c].telegram = <<>>]
    /\ UNCHANGED <<alertRules, template, muted, deleted, silent, offline, events, notes>>

\* The user has deleted the notification meanwhile, and its delivery with it.
delivery_gone(c) ==
    LET k == caller[c].telegram IN
    /\ k # <<>> /\ sending[k] = "none"
    /\ Ends(c)
    /\ UNCHANGED <<alertRules, template, muted, deleted, silent, offline, events, notes, sending>>

\* It is gone before it is read back: trigger_alert raises, but no transaction
\* fails, and the caller goes on with the next machine.
notification_gone(c) ==
    LET k == caller[c].telegram IN
    /\ k # <<>> /\ sending[k] = "none"
    /\ caller' = [caller EXCEPT ![c].at = "none", ![c].left = {}, ![c].telegram = <<>>]
    /\ UNCHANGED <<alertRules, template, muted, deleted, silent, offline, events, notes, sending>>

\* After the last rule of a machine trigger_alert commits.
trigger_ends(c) ==
    /\ caller[c].at \in Machines
    /\ caller[c].left = {}
    /\ caller[c].telegram = <<>>
    /\ offline' = offline \union caller[c].marked
    /\ caller' = [caller EXCEPT ![c].at = "none", ![c].marked = {}]
    /\ UNCHANGED <<alertRules, template, muted, deleted, silent, events, notes, sending>>

\* Mutant: the sweep leaves the commit to trigger_alert.
caller_ends_uncommitted(c) ==
    /\ ~CallerIdle(c)
    /\ caller[c].at = "none"
    /\ caller[c].todo = {}
    /\ Ends(c)
    /\ UNCHANGED <<alertRules, template, muted, deleted, silent, offline, events, notes, sending>>

caller_ends(c) ==
    /\ ~CallerIdle(c)
    /\ caller[c].at = "none"
    /\ caller[c].todo = {}
    /\ offline' = offline \union caller[c].marked
    /\ Ends(c)
    /\ UNCHANGED <<alertRules, template, muted, deleted, silent, events, notes, sending>>

\* The process stops, or loses the database, and is started again.
AlertProcessStops ==
    /\ \E c \in Callers : ~CallerIdle(c)
    /\ caller' = [c \in Callers |-> Stopped]
    /\ UNCHANGED <<alertRules, template, muted, deleted, silent, offline, events, notes, sending>>

AlertProcessStarts ==
    /\ \A c \in Callers : caller[c] = Stopped
    /\ caller' = [c \in Callers |-> Resting]
    /\ UNCHANGED <<alertRules, template, muted, deleted, silent, offline, events, notes, sending>>

create_rule(r) ==
    /\ alertRules[r] = NoRule
    /\ \E row \in RuleRows : alertRules' = [alertRules EXCEPT ![r] = row]
    /\ UNCHANGED <<template, muted, deleted, silent, offline, events, notes, sending, caller>>

\* Another template as well: its alerts have events of their own.
update_rule(r) ==
    /\ alertRules[r] # NoRule
    /\ \E row \in RuleRows : alertRules' = [alertRules EXCEPT ![r] = row]
    /\ UNCHANGED <<template, muted, deleted, silent, offline, events, notes, sending, caller>>

\* The events of a rule go with it; its notifications stay.
delete_rule(r) ==
    /\ alertRules[r] # NoRule
    /\ alertRules' = [alertRules EXCEPT ![r] = NoRule]
    /\ events' = {e \in events : e[1] # r}
    /\ UNCHANGED <<template, muted, deleted, silent, offline, notes, sending, caller>>

update_template ==
    /\ template' \in {"off", "on", "mutable"}
    /\ UNCHANGED <<alertRules, muted, deleted, silent, offline, events, notes, sending, caller>>

upsert_prefs(u) ==
    /\ \/ template = "mutable" /\ muted' = muted \union {u}
       \/ muted' = muted \ {u}
    /\ UNCHANGED <<alertRules, template, deleted, silent, offline, events, notes, sending, caller>>

\* The user removes a notification; its delivery goes with it.
dismiss(n) ==
    /\ notes' = notes \ {n}
    /\ sending' = [sending EXCEPT ![n] = "none"]
    /\ UNCHANGED <<alertRules, template, muted, deleted, silent, offline, events, caller>>

\* A sweep takes less than the OFFLINE_THRESHOLD.
GoesSilent(m) ==
    /\ CallerIdle("sweep")
    /\ m \notin silent \union deleted
    /\ silent' = silent \union {m}
    /\ UNCHANGED <<alertRules, template, muted, deleted, offline, events, notes, sending, caller>>

\* The heartbeat waits for a row that the sweep has marked and not yet committed.
heard_of(m) ==
    /\ m \in silent \ caller["sweep"].marked
    /\ silent' = silent \ {m}
    /\ offline' = offline \ {m}
    /\ UNCHANGED <<alertRules, template, muted, deleted, events, notes, sending, caller>>

\* So does the deletion of a machine; its events remain without a machine.
machine_deleted(m) ==
    /\ m \notin deleted \union caller["sweep"].marked
    /\ deleted' = deleted \union {m}
    /\ silent' = silent \ {m}
    /\ offline' = offline \ {m}
    /\ events' = {e \in events : e[3] # m}
    /\ UNCHANGED <<alertRules, template, muted, notes, sending, caller>>

\* The fingerprint of an event names the day.
NextDay ==
    /\ events # {}
    /\ \A c \in Callers : CallerIdle(c)
    /\ events' = {}
    /\ notes' = {}
    /\ sending' = [k \in DOMAIN sending |-> "none"]
    /\ UNCHANGED <<alertRules, template, muted, deleted, silent, offline, caller>>

AlertsNext ==
    \/ sweep_offline_rows \/ sweep_row_gone
    \/ AlertProcessStops \/ AlertProcessStarts \/ NextDay \/ update_template
    \/ \E c \in Callers :
          \/ \E m \in Machines : trigger_alert(c, m)
          \/ \E x \in caller[c].left :
                \/ rule_skipped(c, x)
                \/ create_notification(c, x)
                \/ create_notification_fails(c, x)
          \/ _maybe_deliver_telegram(c) \/ delivery_gone(c) \/ notification_gone(c)
          \/ trigger_ends(c) \/ caller_ends(c)
    \/ \E r \in Rules : create_rule(r) \/ update_rule(r) \/ delete_rule(r)
    \/ \E u \in OrgAdmins : upsert_prefs(u)
    \/ \E n \in notes : dismiss(n)
    \/ \E m \in Machines :
          notify_investigation_result(m) \/ GoesSilent(m) \/ heard_of(m) \/ machine_deleted(m)

AlertsSpec == AlertsInit /\ [][AlertsNext]_alertVars

-----------------------------------------------------------------------------
(* Properties.                                                               *)

\* Every variable keeps its type, and a notification being sent has a row or
\* was dismissed.
AlertsTypeOK ==
    /\ alertRules \in [Rules -> RuleRows \union {NoRule}]
    /\ template \in {"off", "on", "mutable"}
    /\ muted \subseteq OrgAdmins
    /\ deleted \subseteq Machines
    /\ silent \subseteq Machines \ deleted /\ offline \subseteq Machines \ deleted
    /\ events \subseteq AlertKeys
    /\ notes \subseteq NoteKeys
    /\ sending \in [NoteKeys -> {"none", "pending", "done"}]
    /\ \A k \in DOMAIN sending : sending[k] # "none" => k \in notes

\* An alert that the user has dismissed does not come back on the same day,
\* though the machine stays silent (alert_engine.py:91), unless the rule itself
\* is deleted and made anew.
DismissedStaysGone ==
    [][\A n \in notes' \ notes : Alert(n[1], n[2], n[3]) \notin events]_alertVars

\* Every machine that the sweep has found is marked offline, heard of or gone.
SweepCovered == caller["sweep"].found \subseteq offline' \union (Machines \ silent')

\* A sweep that ends, other than with its process, before it has marked every machine
\* it found (monitor.py:41-83) was ended by a rule with several recipients or one
\* that was deleted meanwhile, by the deletion of the machine it was at, or by a
\* notification dismissed while it was sent.
SweepCutShortOnly ==
    [][LET s == caller["sweep"] IN
       \/ CallerIdle("sweep") \/ caller'["sweep"] # Resting \/ SweepCovered
       \/ \E x \in s.left :
             alertRules[x.rule] = NoRule \/ Cardinality(_resolve_recipients(x.row)) > 1
       \/ s.at \in deleted \/ (s.at = "none" /\ s.todo \cap deleted # {})
       \/ s.telegram # <<>> /\ sending[s.telegram] = "none"]_alertVars

\* "Best-effort, does not block the sweep" (monitor.py:61): unless the process
\* stops, a sweep ends with every machine it found offline or heard of.
AlertNeverBlocksSweep ==
    [][CallerIdle("sweep") \/ caller'["sweep"] # Resting \/ SweepCovered]_alertVars
=============================================================================
