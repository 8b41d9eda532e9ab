---------------------------- MODULE MachineDesk -----------------------------
(***************************************************************************)
(* What administrators decide about one enrolled machine: changes of its   *)
(* fingerprint (routes/enroll.py, routes/drifts.py), its tags              *)
(* (services/tags.py, routes/machines.py) and the person it is assigned    *)
(* to.  Every request reads first and commits later; the three kinds of    *)
(* requests touch different rows, so each has a next-state relation.       *)
(***************************************************************************)
EXTENDS Naturals, FiniteSets

CONSTANTS
    Prints,     \* fingerprints, each standing for its weighted id
    MaxDrifts,  \* bound: rows of fingerprint_drifts
    Enrols,     \* enrolments of this machine under way
    Resolvers,  \* administrators who decide about drifts
    Taggers,    \* administrators who set its tags
    Purposes,   \* tags of kind purpose
    People      \* users of the machine's organisation

ASSUME MaxDriftsAssumption == MaxDrifts \in Nat

\* A machine that is enrolled has a fingerprint.
ASSUME PrintsAssumption == Prints # {}

VARIABLES
    identity,   \* Machine.machine_uuid
    drift,      \* fingerprint_drifts: [new, status], or NoDrift
    enrol,      \* [phase, print, known, pending]
    resolver,   \* [phase, drift, decision]
    driftRaced, \* two enrolments looked for a pending drift at once (history)
    classes,    \* machine_tags of kind classification
    purposes,   \* machine_tags of kind purpose
    tagger,     \* [phase, class, purposes, oldClasses, oldPurposes]
    staff,      \* the users that exist
    assigned    \* Machine.assigned_user_id: a set of at most one user

driftVars == <<identity, drift, enrol, resolver, driftRaced>>
tagVars == <<classes, purposes, tagger>>
assignVars == <<staff, assigned>>
deskVars == <<driftVars, tagVars, assignVars>>

CLASSIFICATION_KEYS == {"personal", "official", "bmnn"}
DriftRows == 1..MaxDrifts
NoDrift == [status |-> "none"]
AtRest == [phase |-> "idle"]

MachineDeskInit ==
    /\ identity = CHOOSE p \in Prints : TRUE
    /\ drift = [d \in DriftRows |-> NoDrift]
    /\ enrol = [e \in Enrols |-> AtRest]
    /\ resolver = [v \in Resolvers |-> AtRest]
    /\ driftRaced = FALSE
    /\ classes = {} /\ purposes = {}
    /\ tagger = [t \in Taggers |-> AtRest]
    /\ staff = {} /\ assigned = {}

----------------------------------------------------------------------------
\* Fingerprint drifts.

Pending == {d \in DriftRows : drift[d].status = "pending"}

\* perform_enroll finds the machine (fuzzily: its hardware may have changed).
perform_enroll(e, p) ==
    /\ enrol[e].phase = "idle"
    /\ enrol' = [enrol EXCEPT ![e] = [phase |-> "matched", print |-> p, known |-> identity]]
    /\ UNCHANGED <<identity, drift, resolver, driftRaced, tagVars, assignVars>>

\* The fingerprint is the one the machine has: no drift.  A second pending
\* drift makes scalar_one_or_none raise and the enrolment fail.
no_drift(e) ==
    /\ enrol[e].phase = "matched"
    /\ enrol[e].print = enrol[e].known \/ Pending # {}
    /\ enrol' = [enrol EXCEPT ![e] = AtRest]
    /\ UNCHANGED <<identity, drift, resolver, driftRaced, tagVars, assignVars>>

\* Mutant: a drift is recorded whether or not one is pending.
drift_detected_unchecked(e) ==
    /\ enrol[e].phase = "matched" /\ enrol[e].print # enrol[e].known
    /\ enrol' = [enrol EXCEPT ![e] = [phase |-> "detected", print |-> enrol[e].print,
                                      pending |-> Pending]]
    /\ UNCHANGED <<identity, drift, resolver, driftRaced, tagVars, assignVars>>

drift_detected(e) ==
    /\ enrol[e].phase = "matched" /\ enrol[e].print # enrol[e].known
    /\ Pending = {}
    /\ enrol' = [enrol EXCEPT ![e] = [phase |-> "detected", print |-> enrol[e].print,
                                      pending |-> {}]]
    /\ UNCHANGED <<identity, drift, resolver, driftRaced, tagVars, assignVars>>

\* The commit of the enrolment stores the drift, or everything is rolled back.
enrol_commits(e) ==
    /\ enrol[e].phase = "detected"
    /\ \/ \E d \in DriftRows :
             /\ drift[d] = NoDrift
             /\ \A c \in DriftRows : c < d => drift[c] # NoDrift
             /\ drift' = [drift EXCEPT ![d] = [new |-> enrol[e].print, status |-> "pending"]]
             /\ driftRaced' = (driftRaced \/ Pending \ enrol[e].pending # {})
       \/ UNCHANGED <<drift, driftRaced>>
    /\ enrol' = [enrol EXCEPT ![e] = AtRest]
    /\ UNCHANGED <<identity, resolver, tagVars, assignVars>>

\* _resolve: reads the drift, which must be pending, ...
_resolve(v, d, decision) ==
    /\ resolver[v].phase = "idle"
    /\ d \in Pending
    /\ resolver' = [resolver EXCEPT ![v] = [phase |-> "read", drift |-> d, decision |-> decision]]
    /\ UNCHANGED <<identity, drift, enrol, driftRaced, tagVars, assignVars>>

\* ... and commits the decision, approved or rejected, over any other.
resolve_commits(v) ==
    LET d == resolver[v].drift IN
    /\ resolver[v].phase = "read"
    /\ drift' = [drift EXCEPT ![d].status = resolver[v].decision]
    /\ identity' = IF resolver[v].decision = "approved" THEN drift[d].new ELSE identity
    /\ resolver' = [resolver EXCEPT ![v] = AtRest]
    /\ UNCHANGED <<enrol, driftRaced, tagVars, assignVars>>

DriftNext ==
    \/ \E e \in Enrols :
          \/ \E p \in Prints : perform_enroll(e, p)
          \/ no_drift(e)
          \/ drift_detected(e)
          \/ enrol_commits(e)
    \/ \E v \in Resolvers :
          \/ \E d \in DriftRows, decision \in {"approved", "rejected"} : _resolve(v, d, decision)
          \/ resolve_commits(v)

----------------------------------------------------------------------------
\* Tags.  A new machine gets those of its token.

apply_token_tags(class, chosen) ==
    /\ classes = {}
    /\ classes' = {class}
    /\ purposes' = chosen
    /\ UNCHANGED <<tagger, driftVars, assignVars>>

\* PUT /api/machines/{id}/tags: the DELETE statements see the rows there are
\* now; a null field of the request deletes and inserts nothing.
set_machine_tags(t, chosenClass, chosen, givesPurposes) ==
    /\ tagger[t].phase = "idle" /\ classes # {}
    /\ chosenClass # {} \/ givesPurposes
    /\ tagger' = [tagger EXCEPT ![t] =
          [phase |-> "deleting", classes |-> chosenClass, purposes |-> chosen,
           oldClasses |-> IF chosenClass = {} THEN {} ELSE classes,
           oldPurposes |-> IF givesPurposes THEN purposes ELSE {}]]
    /\ UNCHANGED <<classes, purposes, driftVars, assignVars>>

\* Mutant: the index on (machine_id) where kind = 'classification' is missing.
TagsConflict_without_index(t) ==
    (purposes \ tagger[t].oldPurposes) \cap tagger[t].purposes # {}

\* The INSERTs meet rows that another request committed since: the primary key
\* of a purpose, or the index on (machine_id) where kind = 'classification'.
TagsConflict(t) ==
    \/ (purposes \ tagger[t].oldPurposes) \cap tagger[t].purposes # {}
    \/ tagger[t].classes # {} /\ classes \ tagger[t].oldClasses # {}

\* The row locks order the commits: a DELETE that waited for another request
\* finds its rows gone and does not see the new ones.
tags_commit(t) ==
    /\ tagger[t].phase = "deleting"
    /\ IF TagsConflict(t) THEN UNCHANGED <<classes, purposes>>
       ELSE /\ classes' = (classes \ tagger[t].oldClasses) \union tagger[t].classes
            /\ purposes' = (purposes \ tagger[t].oldPurposes) \union tagger[t].purposes
    /\ tagger' = [tagger EXCEPT ![t] = AtRest]
    /\ UNCHANGED <<driftVars, assignVars>>

TagNext ==
    \/ \E class \in CLASSIFICATION_KEYS, chosen \in SUBSET Purposes : apply_token_tags(class, chosen)
    \/ \E t \in Taggers :
          \/ \E class \in CLASSIFICATION_KEYS, chosen \in SUBSET Purposes :
                \/ set_machine_tags(t, {class}, chosen, TRUE)
                \/ set_machine_tags(t, {class}, {}, FALSE)
                \/ set_machine_tags(t, {}, chosen, TRUE)
          \/ tags_commit(t)

----------------------------------------------------------------------------
\* The person a machine is assigned to: one who is there or one who is made.

assign_user(u) ==
    /\ staff' = staff \union {u}
    /\ assigned' = {u}
    /\ UNCHANGED <<driftVars, tagVars>>

unassign_user ==
    /\ assigned # {}
    /\ assigned' = {}
    /\ UNCHANGED <<staff, driftVars, tagVars>>

\* The foreign key keeps a user to whom a machine is assigned.
delete_assigned_user(u) ==
    /\ u \in staff \ assigned
    /\ staff' = staff \ {u}
    /\ UNCHANGED <<assigned, driftVars, tagVars>>

AssignNext ==
    \/ \E u \in People : assign_user(u) \/ delete_assigned_user(u)
    \/ unassign_user

MachineDeskNext == DriftNext \/ TagNext \/ AssignNext

MachineDeskSpec == MachineDeskInit /\ [][MachineDeskNext]_deskVars

----------------------------------------------------------------------------
\* Every variable has its type, and the machine is assigned to a user there is.
MachineDeskTypeOK ==
    /\ identity \in Prints
    /\ drift \in [DriftRows -> {NoDrift} \union [new : Prints, status : {"pending", "approved", "rejected"}]]
    /\ \A e \in Enrols : enrol[e].phase \in {"idle", "matched", "detected"}
    /\ \A v \in Resolvers : resolver[v].phase \in {"idle", "read"}
    /\ classes \subseteq CLASSIFICATION_KEYS /\ purposes \subseteq Purposes
    /\ \A t \in Taggers : tagger[t].phase \in {"idle", "deleting"}
    /\ assigned \subseteq staff /\ staff \subseteq People /\ Cardinality(assigned) <= 1

\* However enrolments with a changed fingerprint and the decisions about them
\* interleave, a second drift is pending only when two enrolments looked for
\* one at once (enroll.py:230; the look-up and the insert are two statements).
OnePendingDrift ==
    Cardinality({d \in DriftRows : drift[d].status = "pending"}) > 1 => driftRaced

\* A machine with tags has exactly one classification, whatever requests to
\* change it overlap (tags.py:4, "Mỗi máy có ĐÚNG 1 tag").
ExactlyOneClassification == Cardinality(classes) <= 1 /\ (purposes # {} => classes # {})
==============================================================================
