--------------------------- MODULE Notifications ---------------------------
(***************************************************************************)
(* The notifications that administrators and other services send.           *)
(*                                                                         *)
(* A call from outside names an idempotency key; create_notification looks   *)
(* the key up and commits later, and the unique index on the key decides     *)
(* between two calls that both found nothing.  One row is added for each     *)
(* recipient, all of them with the same key.                                *)
(***************************************************************************)
EXTENDS Naturals, FiniteSets

CONSTANTS
    Recipients,  \* active users
    Keys,        \* X-Idempotency-Key of calls from outside
    Senders      \* calls under way at once

NoKey == "none"  \* a notification without a key of a caller

ASSUME RecipientsAssumption == IsFiniteSet(Recipients) /\ NoKey \notin Keys

VARIABLES
    inbox,    \* the rows: key, recipient, whether it was read
    sends     \* sends[s]: the call of s, after its look-up

notificationVars == <<inbox, sends>>

Inbox == [key : Keys \union {NoKey}, to : Recipients, read : BOOLEAN]
NotSending == [key |-> NoKey, to |-> {}]

NotificationsInit ==
    /\ inbox = {}
    /\ sends = [s \in Senders |-> NotSending]

KeysUsed == {n.key : n \in inbox} \ {NoKey}
Rows(key, users) == {[key |-> key, to |-> u, read |-> FALSE] : u \in users}

\* Recipients are named, or resolved from a role, an organisation or all users.
admin_send_notification(users) ==
    /\ users # {}
    /\ inbox' = inbox \union Rows(NoKey, users)
    /\ UNCHANGED sends

\* A key that was used before ends the call with nothing to do.
external_send_notification(s, key, users) ==
    /\ sends[s] = NotSending
    /\ key \notin KeysUsed
    /\ users # {}
    /\ sends' = [sends EXCEPT ![s] = [key |-> key, to |-> users]]
    /\ UNCHANGED inbox

\* The commit, or the rollback when the key is there by now or is needed twice.
commit_notifications(s) ==
    /\ sends[s] # NotSending
    /\ sends' = [sends EXCEPT ![s] = NotSending]
    /\ inbox' = IF sends[s].key \in KeysUsed \/ Cardinality(sends[s].to) > 1
                  THEN inbox ELSE inbox \union Rows(sends[s].key, sends[s].to)

SendAborts(s) ==
    /\ sends[s] # NotSending
    /\ sends' = [sends EXCEPT ![s] = NotSending]
    /\ UNCHANGED inbox

mark_read(n) ==
    /\ inbox' = (inbox \ {n}) \union {[n EXCEPT !.read = TRUE]}
    /\ UNCHANGED sends

mark_all_read(u) ==
    /\ inbox' = {IF n.to = u THEN [n EXCEPT !.read = TRUE] ELSE n : n \in inbox}
    /\ UNCHANGED sends

delete_notification(n) == inbox' = inbox \ {n} /\ UNCHANGED sends

clear_read(u) ==
    /\ inbox' = {n \in inbox : ~(n.to = u /\ n.read)}
    /\ UNCHANGED sends

NotificationsNext ==
    \/ \E users \in SUBSET Recipients :
          \/ admin_send_notification(users)
          \/ \E s \in Senders, key \in Keys : external_send_notification(s, key, users)
    \/ \E s \in Senders : commit_notifications(s) \/ SendAborts(s)
    \/ \E n \in inbox : mark_read(n) \/ delete_notification(n)
    \/ \E u \in Recipients : mark_all_read(u) \/ clear_read(u)

NotificationsSpec == NotificationsInit /\ [][NotificationsNext]_notificationVars

-----------------------------------------------------------------------------
(* Properties.                                                               *)

\* Rows and calls keep their types, and a call under way names a key.
NotificationsTypeOK ==
    /\ inbox \subseteq Inbox
    /\ sends \in [Senders -> [key : Keys \union {NoKey}, to : SUBSET Recipients]]
    /\ \A s \in Senders : sends[s].key = NoKey <=> sends[s] = NotSending

\* A call that is sent again, or two calls at once with one key, tell nobody
\* twice (services/notifications.py:121, 155).
OnceForEachKey ==
    \A m, n \in inbox : m.key = n.key /\ m.key # NoKey => m = n
=============================================================================
