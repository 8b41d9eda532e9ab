--------------------------- MODULE SystemProfiles ---------------------------
(***************************************************************************)
(* The dossier that an organisation draws up for an information system: its *)
(* approval, the safety requirements of its level, and its content.         *)
(*                                                                         *)
(* A handler loads the profile without a lock, tests what it loaded, and    *)
(* commits the attributes it changed; between the two another administrator *)
(* may commit.  get_profile is the load and every other action a commit.    *)
(* Creation and a change of level commit twice: the requirements of the new *)
(* level are written by sync_profile_requirements in a second transaction.  *)
(***************************************************************************)
EXTENDS Naturals, FiniteSets

CONSTANTS
    Admins,        \* administrators with a request under way
    Supers,        \* the super administrators; the others are of the profile's own organisation
    Requirements,  \* rows of the catalog level_requirements
    Levels,
    MaxParts       \* bound: parts of the dossier declared at once

ASSUME ProfilesAssumption == Supers \subseteq Admins /\ Levels \subseteq Nat \ {0}

ProfileStatus == {"drafted", "pending_review", "approved", "implemented",
                  "fulfilled", "rejected"}
Frozen == {"approved", "implemented", "fulfilled"}
RowStatus == {"pending", "requested", "verified", "rejected"}

\* What the organisation declares itself, and what the dossier only refers to.
Records == {"device", "party", "application", "ip_range"}
Links == {"machine", "contact"}
Parts == Records \union Links \union {"officer"}
Texts == {"none", "declared", "amended"}

VARIABLES
    profileStatus,  \* SystemProfile.status; "absent" without a profile
    profileLevel,   \* SystemProfile.level, 0 without a profile
    catalog,        \* the level of each LevelRequirement, 0 when it is not in the catalog
    inForce,        \* LevelRequirement.is_active
    reqRows,        \* SystemProfileRequirement.status; "none" without a row
    dossier,        \* the parts declared
    loaded,         \* loaded[a]: what a's request has read
    unsynced        \* the requests between their two commits

profileVars == <<profileStatus, profileLevel, catalog, inForce, reqRows, dossier,
                 loaded, unsynced>>

NotLoaded == [status |-> "absent"]
NoRows == [r \in Requirements |-> "none"]
EmptyDossier == [p \in Parts |-> "none"]

ProfilesInit ==
    /\ profileStatus = "absent"
    /\ profileLevel = 0
    /\ catalog = [r \in Requirements |-> 0]
    /\ inForce = {}
    /\ reqRows = NoRows
    /\ dossier = EmptyDossier
    /\ loaded = [a \in Admins |-> NotLoaded]
    /\ unsynced = {}

Idle(a) == loaded[a] = NotLoaded /\ a \notin unsynced

get_profile(a) ==
    /\ Idle(a)
    /\ profileStatus # "absent"
    /\ loaded' = [loaded EXCEPT ![a] = [status |-> profileStatus, level |-> profileLevel, rows |-> reqRows]]
    /\ UNCHANGED <<profileStatus, profileLevel, catalog, inForce, reqRows, dossier, unsynced>>

\* The commit of a's request, if the profile it loaded is still there.
Commits(a) ==
    /\ loaded[a] # NotLoaded
    /\ profileStatus # "absent"
    /\ loaded' = [loaded EXCEPT ![a] = NotLoaded]

\* The request is refused, or its commit fails and is rolled back.
Refused(a) ==
    /\ loaded[a] # NotLoaded
    /\ loaded' = [loaded EXCEPT ![a] = NotLoaded]
    /\ UNCHANGED <<profileStatus, profileLevel, catalog, inForce, reqRows, dossier, unsynced>>

-----------------------------------------------------------------------------
(* Approval.                                                                 *)

\* A profile of an earlier row is gone for the requests that had loaded it, so
\* the next one is created when none of them is under way.
create_profile(a) ==
    /\ profileStatus = "absent"
    /\ \A b \in Admins : Idle(b)
    /\ \/ profileStatus' = "drafted"
       \/ a \in Supers /\ profileStatus' = "approved"
    /\ profileLevel' \in Levels
    /\ unsynced' = {a}
    /\ UNCHANGED <<catalog, inForce, reqRows, dossier, loaded>>

\* Mutant: an edit takes any profile back to the draft.
update_profile_redrafts(a) ==
    /\ Commits(a)
    /\ profileStatus' = "drafted"
    /\ UNCHANGED <<profileLevel, catalog, inForce, reqRows, dossier, unsynced>>

\* The columns that only describe the system are left out; an organisation may
\* still change some of them when the profile is frozen.
update_profile(a) ==
    /\ Commits(a)
    /\ \E l \in Levels :
         /\ loaded[a].status \in Frozen /\ a \notin Supers => l = loaded[a].level
         /\ IF l = loaded[a].level
              THEN UNCHANGED <<profileLevel, unsynced>>
              ELSE profileLevel' = l /\ unsynced' = unsynced \union {a}
    /\ profileStatus' = IF loaded[a].status = "rejected" THEN "drafted" ELSE profileStatus
    /\ UNCHANGED <<catalog, inForce, reqRows, dossier>>

\* The second transaction refreshes the profile and its rows before it writes.
sync_profile_requirements(a) ==
    /\ a \in unsynced
    /\ unsynced' = unsynced \ {a}
    /\ reqRows' = IF profileStatus = "absent" THEN reqRows ELSE
                 [r \in Requirements |->
                    IF r \notin inForce \/ catalog[r] # profileLevel THEN "none"
                    ELSE IF reqRows[r] = "none" THEN "pending" ELSE reqRows[r]]
    /\ UNCHANGED <<profileStatus, profileLevel, catalog, inForce, dossier, loaded>>

\* The process ends between the two commits.
CrashBeforeSync(a) ==
    /\ a \in unsynced
    /\ unsynced' = unsynced \ {a}
    /\ UNCHANGED <<profileStatus, profileLevel, catalog, inForce, reqRows, dossier, loaded>>

delete_profile(a) ==
    /\ Commits(a)
    /\ a \in Supers \/ loaded[a].status \in {"drafted", "rejected"}
    /\ profileStatus' = "absent"
    /\ profileLevel' = 0
    /\ reqRows' = NoRows
    /\ dossier' = EmptyDossier
    /\ UNCHANGED <<catalog, inForce, unsynced>>

Moves(a, from, to) ==
    /\ Commits(a)
    /\ loaded[a].status \in from
    /\ profileStatus' = to
    /\ UNCHANGED <<profileLevel, catalog, inForce, reqRows, dossier, unsynced>>

submit_profile(a) == Moves(a, {"drafted", "rejected"}, "pending_review")

review_profile(a) ==
    /\ a \in Supers
    /\ \E verdict \in {"approved", "rejected"} : Moves(a, {"pending_review"}, verdict)

Compliant(statuses) ==
    /\ \E r \in Requirements : statuses[r] # "none"
    /\ \A r \in Requirements : statuses[r] \in {"none", "verified"}

report_implementation(a) ==
    /\ Moves(a, {"approved"}, "implemented")
    /\ Compliant(loaded[a].rows)

confirm_implementation(a) ==
    /\ a \in Supers
    /\ Moves(a, {"implemented"}, "fulfilled")

-----------------------------------------------------------------------------
(* The requirements of the level.                                            *)

\* A row that one change of level removes and another brings back is one row
\* here.  The UPDATE of a row that is gone fails.
SetRow(a, r, from, to) ==
    /\ Commits(a)
    /\ loaded[a].rows[r] \in from
    /\ reqRows[r] # "none"
    /\ reqRows' = [reqRows EXCEPT ![r] = to]
    /\ UNCHANGED <<profileStatus, profileLevel, catalog, inForce, dossier, unsynced>>

\* Mutant: a verified requirement may be submitted again.
request_any_review(a, r) == SetRow(a, r, RowStatus, "requested")

request_requirement_review(a, r) == SetRow(a, r, {"pending", "rejected"}, "requested")

review_requirement(a, r) ==
    /\ a \in Supers
    /\ \E verdict \in {"verified", "rejected"} : SetRow(a, r, {"requested"}, verdict)

\* The catalog is edited by its own handlers, which load no profile.
SetCatalog(r, l, on) ==
    /\ catalog' = [catalog EXCEPT ![r] = l]
    /\ inForce' = IF on THEN inForce \union {r} ELSE inForce \ {r}
    /\ UNCHANGED <<profileStatus, profileLevel, reqRows, dossier, loaded, unsynced>>

create_level_requirement(r) ==
    catalog[r] = 0 /\ \E l \in Levels, on \in BOOLEAN : SetCatalog(r, l, on)

\* Rows that name the requirement keep it, whatever its level becomes.
update_level_requirement(r) ==
    catalog[r] # 0 /\ \E l \in Levels, on \in BOOLEAN : SetCatalog(r, l, on)

delete_level_requirement(r) ==
    catalog[r] # 0 /\ reqRows[r] = "none" /\ SetCatalog(r, 0, FALSE)

-----------------------------------------------------------------------------
(* The content of the dossier.                                               *)

content_mutable(a) == a \in Supers \/ loaded[a].status \notin Frozen

SetPart(a, p, text) ==
    /\ Commits(a)
    /\ dossier' = [dossier EXCEPT ![p] = text]
    /\ UNCHANGED <<profileStatus, profileLevel, catalog, inForce, reqRows, unsynced>>

Declared == {p \in Parts : dossier[p] # "none"}

\* One part of each kind is enough: a second party of a role, or a second link
\* to one machine or contact, is refused.
add_part(a, p) ==
    /\ content_mutable(a)
    /\ dossier[p] = "none"
    /\ Cardinality(Declared) < MaxParts
    /\ SetPart(a, p, "declared")

add_device(a) == add_part(a, "device")
attach_machine(a) == add_part(a, "machine")
attach_contact(a) == add_part(a, "contact")
add_party(a) == add_part(a, "party")
add_application(a) == add_part(a, "application")
add_ip_range(a) == add_part(a, "ip_range")

update_part(a, p) ==
    /\ content_mutable(a)
    /\ dossier[p] = "declared"
    /\ SetPart(a, p, "amended")

update_device(a) == update_part(a, "device")
update_party(a) == update_part(a, "party")
update_application(a) == update_part(a, "application")
update_ip_range(a) == update_part(a, "ip_range")

remove_part(a, p) ==
    /\ content_mutable(a)
    /\ dossier[p] # "none"
    /\ SetPart(a, p, "none")

delete_device(a) == remove_part(a, "device")
detach_machine(a) == remove_part(a, "machine")
detach_contact(a) == remove_part(a, "contact")
delete_party(a) == remove_part(a, "party")
delete_application(a) == remove_part(a, "application")
delete_ip_range(a) == remove_part(a, "ip_range")

assign_officer(a) ==
    /\ a \in Supers
    /\ dossier["officer"] # "none" \/ Cardinality(Declared) < MaxParts
    /\ SetPart(a, "officer", "declared")

unassign_officer(a) ==
    /\ a \in Supers
    /\ dossier["officer"] # "none"
    /\ SetPart(a, "officer", "none")

\* The machine, the contact or the officer itself is deleted, by handlers that
\* know nothing of profiles: the foreign keys cascade.
delete_referenced(p) ==
    /\ dossier[p] # "none"
    /\ dossier' = [dossier EXCEPT ![p] = "none"]
    /\ UNCHANGED <<profileStatus, profileLevel, catalog, inForce, reqRows, loaded, unsynced>>

delete_machine == delete_referenced("machine")
delete_contact == delete_referenced("contact")
delete_officer == delete_referenced("officer")

-----------------------------------------------------------------------------
Workflow(a) ==
    \/ get_profile(a) \/ Refused(a)
    \/ create_profile(a) \/ update_profile(a) \/ delete_profile(a)
    \/ sync_profile_requirements(a) \/ CrashBeforeSync(a)
    \/ submit_profile(a) \/ review_profile(a)
    \/ report_implementation(a) \/ confirm_implementation(a)
    \/ \E r \in Requirements :
          request_requirement_review(a, r) \/ review_requirement(a, r)

Catalog == \E r \in Requirements :
    create_level_requirement(r) \/ update_level_requirement(r) \/ delete_level_requirement(r)

Content(a) ==
    \/ add_device(a) \/ update_device(a) \/ delete_device(a)
    \/ attach_machine(a) \/ detach_machine(a) \/ attach_contact(a) \/ detach_contact(a)
    \/ add_party(a) \/ update_party(a) \/ delete_party(a)
    \/ add_application(a) \/ update_application(a) \/ delete_application(a)
    \/ add_ip_range(a) \/ update_ip_range(a) \/ delete_ip_range(a)
    \/ assign_officer(a) \/ unassign_officer(a)

\* The requirements and the content of a profile have no step in common but
\* those of its approval.
RequirementsNext == Catalog \/ \E a \in Admins : Workflow(a)
DossierNext ==
    \/ \E a \in Admins : Workflow(a) \/ Content(a)
    \/ delete_machine \/ delete_contact \/ delete_officer

ProfilesNext == RequirementsNext \/ DossierNext

ProfilesSpec == ProfilesInit /\ [][ProfilesNext]_profileVars

-----------------------------------------------------------------------------
(* Properties.                                                               *)

\* Every variable keeps its type, and no request is both before its first
\* commit and after it.
ProfilesTypeOK ==
    /\ profileStatus \in ProfileStatus \union {"absent"}
    /\ profileLevel \in Levels \union {0}
    /\ (profileStatus = "absent") = (profileLevel = 0)
    /\ catalog \in [Requirements -> Levels \union {0}]
    /\ inForce \subseteq Requirements
    /\ reqRows \in [Requirements -> RowStatus \union {"none"}]
    /\ dossier \in [Parts -> Texts]
    /\ loaded \in [Admins -> {NotLoaded} \union
                     [status : ProfileStatus, level : Levels,
                      rows : [Requirements -> RowStatus \union {"none"}]]]
    /\ unsynced \subseteq Admins
    /\ \A a \in unsynced : loaded[a] = NotLoaded

\* The requests that end in this step.
Ending == {a \in Admins : loaded[a] # NotLoaded /\ loaded'[a] = NotLoaded}

\* A decision stands (system_profiles.py:836, 888, 922): a profile that was
\* approved, reported as implemented or confirmed leaves these states only when
\* it is deleted, or by a request that had read it before the decision.
DecisionStands ==
    [][profileStatus \notin Frozen \/ profileStatus' \in Frozen \union {"absent"}
         \/ \E a \in Ending : loaded[a].status \notin Frozen]_profileVars

\* No row reaches "verified" unrequested or leaves it, and compliance is not
\* lost (system_profiles.py:351), except by a change of level that is being
\* synchronised, by the end of the profile, or by a request that had read the
\* row before its verdict; the catalog never touches the rows of a profile.
ComplianceKept ==
    [][Compliant(reqRows) /\ ~Compliant(reqRows')
         => \/ unsynced' # unsynced
            \/ profileStatus' = "absent"
            \/ \E a \in Ending : ~Compliant(loaded[a].rows)]_profileVars

=============================================================================
