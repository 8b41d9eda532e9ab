---------------------------- MODULE RecordProofs ----------------------------
(***************************************************************************)
(* Theorems about what organisations and agents report: the dossier of an  *)
(* information system (SystemProfiles) and the inventory of a machine      *)
(* (Inventory), for every number of overlapping requests; and, with those  *)
(* of the other components of administration, the types of all of them.    *)
(***************************************************************************)
EXTENDS MCAdministration, AccountProofs, MachineProofs, AuditChainProofs

-----------------------------------------------------------------------------
(* The dossier.                                                              *)

\* Every administrator has an entry for the request under way.
LoadedTyped == DOMAIN loaded = Admins

\* Whatever a request does to the content, it sets one part of the dossier.
LEMMA ContentSetsPart ==
    ASSUME NEW a \in Admins, Content(a)
    PROVE  \E p \in Parts : \E text \in Texts : SetPart(a, p, text)
<1> USE DEF Parts, Records, Links, Texts
<1>1. ASSUME NEW p \in Parts, add_part(a, p) \/ update_part(a, p) \/ remove_part(a, p)
      PROVE  \E text \in Texts : SetPart(a, p, text)
  BY <1>1 DEF add_part, update_part, remove_part
<1>2. CASE assign_officer(a) \/ unassign_officer(a)
  BY <1>2 DEF assign_officer, unassign_officer
<1>3. CASE \E p \in Parts : add_part(a, p) \/ update_part(a, p) \/ remove_part(a, p)
  BY <1>1, <1>3
<1>4. QED
  BY <1>2, <1>3 DEF Content, add_device, update_device, delete_device, attach_machine,
     detach_machine, attach_contact, detach_contact, add_party, update_party, delete_party,
     add_application, update_application, delete_application, add_ip_range, update_ip_range,
     delete_ip_range

\* No step gives or takes an entry.
LEMMA LoadedKept ==
    ASSUME LoadedTyped, [ProfilesNext]_profileVars
    PROVE  LoadedTyped'
<1> USE DEF LoadedTyped
<1>1. ASSUME NEW a \in Admins, Workflow(a) PROVE LoadedTyped'
  BY <1>1 DEF Workflow, get_profile, Refused, Commits, create_profile, update_profile,
     delete_profile, sync_profile_requirements, CrashBeforeSync, submit_profile,
     review_profile, report_implementation, confirm_implementation, Moves,
     request_requirement_review, review_requirement, SetRow
<1>2. ASSUME NEW a \in Admins, Content(a) PROVE LoadedTyped'
  <2>1. PICK p \in Parts : \E text \in Texts : SetPart(a, p, text)
    BY <1>2, ContentSetsPart
  <2>2. PICK text \in Texts : SetPart(a, p, text)
    BY <2>1
  <2>3. QED
    BY <2>2 DEF SetPart, Commits
<1>3. CASE Catalog
  BY <1>3 DEF Catalog, create_level_requirement, update_level_requirement,
     delete_level_requirement, SetCatalog
<1>4. CASE delete_machine \/ delete_contact \/ delete_officer
  BY <1>4 DEF delete_machine, delete_contact, delete_officer, delete_referenced
<1>5. QED
  BY <1>1, <1>2, <1>3, <1>4 DEF ProfilesNext, RequirementsNext, DossierNext, profileVars

\* A request that commits is one of those that end in the step.
LEMMA CommitsEnd ==
    ASSUME LoadedTyped, NEW a \in Admins, Commits(a)
    PROVE  a \in Ending
BY DEF LoadedTyped, Commits, Ending

\* The steps about the content and the catalog leave the workflow alone.
LEMMA ContentApart ==
    ASSUME \/ \E a \in Admins : Content(a)
           \/ Catalog
           \/ delete_machine \/ delete_contact \/ delete_officer
           \/ UNCHANGED profileVars
    PROVE  UNCHANGED <<profileStatus, reqRows>>
<1>1. ASSUME NEW a \in Admins, Content(a) PROVE UNCHANGED <<profileStatus, reqRows>>
  BY <1>1, ContentSetsPart DEF SetPart
<1>2. CASE Catalog
  BY <1>2 DEF Catalog, create_level_requirement, update_level_requirement,
     delete_level_requirement, SetCatalog
<1>3. CASE delete_machine \/ delete_contact \/ delete_officer
  BY <1>3 DEF delete_machine, delete_contact, delete_officer, delete_referenced
<1>4. QED
  BY <1>1, <1>2, <1>3 DEF profileVars

\* A profile leaves approved, implemented and fulfilled (system_profiles.py:836,
\* 888, 922) only when it is deleted, or by a request that had read it before.
THEOREM DecisionsHold == ProfilesSpec => DecisionStands
<1> DEFINE Stands ==
        profileStatus \notin Frozen \/ profileStatus' \in Frozen \union {"absent"}
          \/ \E a \in Ending : loaded[a].status \notin Frozen
<1>1. ASSUME UNCHANGED profileStatus PROVE Stands
  BY <1>1
<1>2. ASSUME LoadedTyped, NEW a \in Admins, NEW from, NEW to, Moves(a, from, to),
             from \cap Frozen = {} \/ to \in Frozen
      PROVE  Stands
  BY <1>2, CommitsEnd DEF Moves
<1>3. ASSUME LoadedTyped, NEW a \in Admins, Workflow(a) PROVE Stands
  <2>1. CASE create_profile(a)
    BY <2>1 DEF create_profile, Frozen
  <2>2. CASE update_profile(a)
    <3>1. profileStatus' = profileStatus \/ loaded[a].status = "rejected"
      BY <2>2 DEF update_profile
    <3>2. a \in Ending
      BY <1>3, <2>2, CommitsEnd DEF update_profile
    <3>3. QED
      BY <3>1, <3>2 DEF Frozen
  <2>3. CASE delete_profile(a)
    BY <2>3 DEF delete_profile
  <2>4. CASE submit_profile(a)
    BY <1>2, <1>3, <2>4 DEF submit_profile, Frozen
  <2>5. CASE review_profile(a)
    BY <1>2, <1>3, <2>5 DEF review_profile, Frozen
  <2>6. CASE report_implementation(a)
    BY <1>2, <1>3, <2>6 DEF report_implementation, Frozen
  <2>7. CASE confirm_implementation(a)
    BY <1>2, <1>3, <2>7 DEF confirm_implementation, Frozen
  <2>8. CASE \/ get_profile(a) \/ Refused(a)
             \/ sync_profile_requirements(a) \/ CrashBeforeSync(a)
             \/ \E r \in Requirements :
                   request_requirement_review(a, r) \/ review_requirement(a, r)
    BY <2>8 DEF get_profile, Refused, sync_profile_requirements, CrashBeforeSync,
       request_requirement_review, review_requirement, SetRow
  <2>9. QED
    BY <1>3, <2>1, <2>2, <2>3, <2>4, <2>5, <2>6, <2>7, <2>8 DEF Workflow
<1>4. LoadedTyped /\ [ProfilesNext]_profileVars => [Stands]_profileVars
  BY <1>1, <1>3, ContentApart DEF ProfilesNext, RequirementsNext, DossierNext
<1>5. LoadedTyped /\ [ProfilesNext]_profileVars => LoadedTyped'
  BY LoadedKept
<1>6. ProfilesInit => LoadedTyped
  BY DEF ProfilesInit, LoadedTyped
<1>7. QED
  BY <1>4, <1>5, <1>6, PTL DEF ProfilesSpec, DecisionStands

\* Compliance (system_profiles.py:351) is lost only by a change of level, by
\* the end of the profile, or by a request that had read a row before.
THEOREM ComplianceHolds == ProfilesSpec => ComplianceKept
<1> DEFINE Stays ==
        Compliant(reqRows) /\ ~Compliant(reqRows')
         => \/ unsynced' # unsynced
            \/ profileStatus' = "absent"
            \/ \E a \in Ending : ~Compliant(loaded[a].rows)
<1>1. ASSUME UNCHANGED reqRows PROVE Stays
  BY <1>1
<1>2. ASSUME LoadedTyped, NEW a \in Admins, NEW r \in Requirements, NEW from, NEW to,
             SetRow(a, r, from, to), "none" \notin from, "verified" \notin from
      PROVE  Stays
  <2>1. loaded[a].rows[r] \notin {"none", "verified"}
    BY <1>2 DEF SetRow
  <2>2. a \in Ending
    BY <1>2, CommitsEnd DEF SetRow
  <2>3. QED
    BY <2>1, <2>2 DEF Compliant
<1>3. ASSUME LoadedTyped, NEW a \in Admins, Workflow(a) PROVE Stays
  <2>1. ASSUME NEW r \in Requirements, request_requirement_review(a, r) PROVE Stays
    BY <1>2, <1>3, <2>1 DEF request_requirement_review
  <2>2. ASSUME NEW r \in Requirements, review_requirement(a, r) PROVE Stays
    BY <1>2, <1>3, <2>2 DEF review_requirement
  <2>3. CASE delete_profile(a)
    BY <2>3 DEF delete_profile
  <2>4. CASE sync_profile_requirements(a)
    BY <2>4 DEF sync_profile_requirements
  <2>5. CASE \/ get_profile(a) \/ Refused(a) \/ create_profile(a) \/ update_profile(a)
             \/ CrashBeforeSync(a) \/ submit_profile(a) \/ review_profile(a)
             \/ report_implementation(a) \/ confirm_implementation(a)
    BY <2>5 DEF get_profile, Refused, create_profile, update_profile, CrashBeforeSync,
       submit_profile, review_profile, report_implementation, confirm_implementation, Moves
  <2>6. QED
    BY <1>3, <2>1, <2>2, <2>3, <2>4, <2>5 DEF Workflow
<1>4. LoadedTyped /\ [ProfilesNext]_profileVars => [Stays]_profileVars
  BY <1>1, <1>3, ContentApart DEF ProfilesNext, RequirementsNext, DossierNext
<1>5. LoadedTyped /\ [ProfilesNext]_profileVars => LoadedTyped'
  BY LoadedKept
<1>6. ProfilesInit => LoadedTyped
  BY DEF ProfilesInit, LoadedTyped
<1>7. QED
  BY <1>4, <1>5, <1>6, PTL DEF ProfilesSpec, ComplianceKept

\* What a request can have read of a profile.
LoadedRows == [status : ProfileStatus, level : Levels,
               rows : [Requirements -> RowStatus \union {"none"}]]

\* No step leaves the types, or leaves a request both before its first commit
\* and after it.
LEMMA ProfilesKept ==
    ASSUME ProfilesTypeOK, [ProfilesNext]_profileVars
    PROVE  ProfilesTypeOK'
<1> DEFINE ProfilePart == /\ profileStatus \in ProfileStatus \union {"absent"}
                          /\ profileLevel \in Levels \union {0}
                          /\ (profileStatus = "absent") = (profileLevel = 0)
           CatalogPart == /\ catalog \in [Requirements -> Levels \union {0}]
                          /\ inForce \subseteq Requirements
           RowsPart == reqRows \in [Requirements -> RowStatus \union {"none"}]
           DossierPart == dossier \in [Parts -> Texts]
           LoadedPart == /\ loaded \in [Admins -> {NotLoaded} \union LoadedRows]
                         /\ unsynced \subseteq Admins
                         /\ \A a \in unsynced : loaded[a] = NotLoaded
<1>1. ProfilePart /\ CatalogPart /\ RowsPart /\ DossierPart /\ LoadedPart
  BY DEF ProfilesTypeOK, LoadedRows
<1>2. ASSUME ProfilePart', CatalogPart', RowsPart', DossierPart', LoadedPart'
      PROVE  ProfilesTypeOK'
  BY <1>2 DEF ProfilesTypeOK, LoadedRows
<1>3. ASSUME UNCHANGED <<catalog, inForce>> PROVE CatalogPart'
  BY <1>1, <1>3
<1>4. ASSUME UNCHANGED <<profileStatus, profileLevel>> PROVE ProfilePart'
  BY <1>1, <1>4
<1>5. ASSUME UNCHANGED <<loaded, unsynced>> PROVE LoadedPart'
  BY <1>1, <1>5
<1>6. ASSUME NEW a \in Admins, Commits(a), unsynced' \in {unsynced, unsynced \union {a}}
      PROVE  LoadedPart'
  <2>1. loaded' = [loaded EXCEPT ![a] = NotLoaded]
    BY <1>6 DEF Commits
  <2> QED BY <1>1, <1>6, <2>1
<1>7. 0 \notin Levels
  BY ProfilesAssumption
<1>8. ASSUME NEW a \in Admins, Workflow(a) PROVE ProfilesTypeOK'
  <2>1. CASE get_profile(a)
    <3>1. profileLevel \in Levels /\ profileStatus \in ProfileStatus
      BY <1>1, <2>1 DEF get_profile
    <3> DEFINE row == [status |-> profileStatus, level |-> profileLevel, rows |-> reqRows]
    <3>2. row \in LoadedRows
      BY <1>1, <3>1 DEF LoadedRows
    <3>3. loaded' = [loaded EXCEPT ![a] = row] /\ a \notin unsynced
      BY <2>1 DEF get_profile, Idle
    <3> HIDE DEF row
    <3>4. LoadedPart'
      BY <1>1, <2>1, <3>2, <3>3 DEF get_profile
    <3> QED BY <1>1, <1>2, <1>3, <1>4, <2>1, <3>4 DEF get_profile
  <2>2. CASE Refused(a)
    <3>1. LoadedPart'
      BY <1>1, <2>2 DEF Refused
    <3> QED BY <1>1, <1>2, <1>3, <1>4, <2>2, <3>1 DEF Refused
  <2>3. CASE create_profile(a)
    <3>1. ProfilePart'
      BY <1>7, <2>3 DEF create_profile, ProfileStatus
    <3>2. loaded[a] = NotLoaded
      BY <2>3 DEF create_profile, Idle
    <3>3. LoadedPart'
      BY <1>1, <2>3, <3>2 DEF create_profile
    <3> QED BY <1>1, <1>2, <1>3, <2>3, <3>1, <3>3 DEF create_profile
  <2>4. CASE update_profile(a)
    <3>1. Commits(a) /\ unsynced' \in {unsynced, unsynced \union {a}}
      BY <2>4 DEF update_profile
    <3>2. profileStatus # "absent" /\ profileStatus' \in {profileStatus, "drafted"}
      BY <2>4 DEF update_profile, Commits
    <3>3. profileLevel' \in Levels \/ profileLevel' = profileLevel
      BY <2>4 DEF update_profile
    <3>4. ProfilePart'
      BY <1>1, <1>7, <3>2, <3>3 DEF ProfileStatus
    <3> QED BY <1>1, <1>2, <1>3, <1>6, <2>4, <3>1, <3>4 DEF update_profile
  <2>5. CASE delete_profile(a)
    <3>1. ProfilePart'
      BY <2>5 DEF delete_profile
    <3>2. RowsPart' /\ DossierPart'
      BY <2>5 DEF delete_profile, NoRows, EmptyDossier, Texts
    <3> QED BY <1>2, <1>3, <1>6, <2>5, <3>1, <3>2 DEF delete_profile
  <2>6. CASE sync_profile_requirements(a)
    <3>1. RowsPart'
      BY <1>1, <2>6 DEF sync_profile_requirements, RowStatus
    <3>2. LoadedPart'
      BY <1>1, <2>6 DEF sync_profile_requirements
    <3> QED BY <1>1, <1>2, <1>3, <1>4, <2>6, <3>1, <3>2 DEF sync_profile_requirements
  <2>7. CASE CrashBeforeSync(a)
    <3>1. LoadedPart'
      BY <1>1, <2>7 DEF CrashBeforeSync
    <3> QED BY <1>1, <1>2, <1>3, <1>4, <2>7, <3>1 DEF CrashBeforeSync
  <2>8. ASSUME NEW from, NEW to \in ProfileStatus, Moves(a, from, to) PROVE ProfilesTypeOK'
    <3>1. ProfilePart'
      BY <1>1, <2>8 DEF Moves, Commits, ProfileStatus
    <3> QED BY <1>1, <1>2, <1>3, <1>6, <2>8, <3>1 DEF Moves
  <2>9. CASE \/ submit_profile(a) \/ review_profile(a)
             \/ report_implementation(a) \/ confirm_implementation(a)
    BY <2>8, <2>9 DEF submit_profile, review_profile, report_implementation,
       confirm_implementation, ProfileStatus
  <2>10. ASSUME NEW r \in Requirements, NEW from, NEW to \in RowStatus, SetRow(a, r, from, to)
         PROVE  ProfilesTypeOK'
    <3>1. RowsPart'
      BY <1>1, <2>10 DEF SetRow
    <3> QED BY <1>1, <1>2, <1>3, <1>4, <1>6, <2>10, <3>1 DEF SetRow
  <2>11. ASSUME NEW r \in Requirements,
                request_requirement_review(a, r) \/ review_requirement(a, r)
         PROVE  ProfilesTypeOK'
    BY <2>10, <2>11 DEF request_requirement_review, review_requirement, RowStatus
  <2> QED BY <1>8, <2>1, <2>2, <2>3, <2>4, <2>5, <2>6, <2>7, <2>9, <2>11 DEF Workflow
<1>9. ASSUME NEW a \in Admins, Content(a) PROVE ProfilesTypeOK'
  <2>1. PICK p \in Parts, text \in Texts : SetPart(a, p, text)
    BY <1>9, ContentSetsPart
  <2>2. DossierPart'
    BY <1>1, <2>1 DEF SetPart
  <2> QED BY <1>1, <1>2, <1>3, <1>4, <1>6, <2>1, <2>2 DEF SetPart
<1>10. CASE Catalog
  <2>1. PICK r \in Requirements, l \in Levels \union {0}, on \in BOOLEAN : SetCatalog(r, l, on)
    BY <1>10 DEF Catalog, create_level_requirement, update_level_requirement,
       delete_level_requirement
  <2>2. CatalogPart'
    BY <1>1, <2>1 DEF SetCatalog
  <2> QED BY <1>1, <1>2, <1>4, <1>5, <2>1, <2>2 DEF SetCatalog
<1>11. CASE delete_machine \/ delete_contact \/ delete_officer
  <2>1. PICK p : delete_referenced(p)
    BY <1>11 DEF delete_machine, delete_contact, delete_officer
  <2>2. DossierPart'
    BY <1>1, <2>1 DEF delete_referenced, Texts
  <2> QED BY <1>1, <1>2, <1>3, <1>4, <1>5, <2>1, <2>2 DEF delete_referenced
<1>12. CASE UNCHANGED profileVars
  BY <1>1, <1>2, <1>3, <1>4, <1>5, <1>12 DEF profileVars
<1> QED BY <1>8, <1>9, <1>10, <1>11, <1>12
  DEF ProfilesNext, RequirementsNext, DossierNext

\* The dossier keeps its types from the start.
LEMMA ProfilesTyped == ProfilesSpec => []ProfilesTypeOK
<1>1. ProfilesInit => ProfilesTypeOK
  BY DEF ProfilesInit, ProfilesTypeOK, NoRows, EmptyDossier, Texts
<1>2. ProfilesTypeOK /\ [ProfilesNext]_profileVars => ProfilesTypeOK'
  BY ProfilesKept
<1> QED BY <1>1, <1>2, PTL DEF ProfilesSpec

-----------------------------------------------------------------------------
(* The inventory.                                                            *)

\* The requests under way have a report of an agent; what OneReport says.
InventorySound ==
    /\ DOMAIN inv = InventoryRequests
    /\ \A q \in InventoryRequests : inv[q].phase # "idle" => inv[q].report \in Reports
    /\ OneReport

\* An UPDATE of the columns that differ from the present row gives the report.
LEMMA ColumnsWritten ==
    ASSUME NEW report
    PROVE  upsert_columns(current, report) = Columns(report)
<1>1. CASE current = NoRow
  BY <1>1 DEF upsert_columns
<1>2. CASE current # NoRow
  <2>1. upsert_columns(current, report) = [c \in DOMAIN Columns(report) |-> Columns(report)[c]]
    BY <1>2 DEF upsert_columns
  <2>2. QED
    BY <2>1 DEF Columns
<1>3. QED
  BY <1>1, <1>2

\* A request that is at rest has no report.
LEMMA RestPhase == Unasked.phase = "idle"
BY DEF Unasked

\* A request that begins, goes on or ends changes no row.
LEMMA RequestSound ==
    ASSUME InventorySound, NEW q \in InventoryRequests, NEW row,
           inv' = [inv EXCEPT ![q] = row], row.phase # "idle" => row.report \in Reports,
           UNCHANGED <<specs, current, software, staleWrite>>
    PROVE  InventorySound'
<1>1. DOMAIN inv' = InventoryRequests /\ inv'[q] = row
        /\ \A p \in InventoryRequests : p # q => inv'[p] = inv[p]
  BY DEF InventorySound
<1>2. OneReport'
  BY DEF InventorySound, OneReport
<1>3. QED
  BY <1>1, <1>2 DEF InventorySound

\* A commit that is not overtaken leaves the row and the applications of its
\* own report.
LEMMA CommitSound ==
    ASSUME InventorySound, NEW q \in InventoryRequests, commit_inventory(q)
    PROVE  InventorySound'
<1> DEFINE report == inv[q].report
           stored == [report |-> report, at |-> collected_at(q)]
<1>1. report \in Reports
  BY DEF InventorySound, commit_inventory
<1>2. \A p \in InventoryRequests : inv'[p].phase # "idle" => inv'[p].report \in Reports
  BY RestPhase DEF InventorySound, commit_inventory
<1>3. CASE staleWrite'
  BY <1>2, <1>3 DEF InventorySound, commit_inventory, OneReport
<1>4. CASE ~staleWrite'
  <2>1. inv[q].loaded = current
    BY <1>4 DEF commit_inventory
  <2>2. current' = Columns(report)
    BY <2>1, ColumnsWritten DEF commit_inventory
  <2>3. software' = {report.software[i] : i \in DOMAIN report.software}
    <3>1. report.software \in Seq(Apps)
      BY <1>1, InventoryAssumption
    <3>2. DOMAIN report.software = 1..Len(report.software)
      BY <3>1
    <3>3. QED
      BY <3>2 DEF commit_inventory, upsert_software, software_rows
  <2>4. stored \in specs' /\ stored.report = report
    BY DEF commit_inventory
  <2>5. OneReport'
    BY <2>2, <2>3, <2>4 DEF OneReport
  <2>6. QED
    BY <1>2, <2>5 DEF InventorySound, commit_inventory
<1>5. QED
  BY <1>3, <1>4

\* Every step keeps the inventory sound.
LEMMA InventoryKept ==
    ASSUME InventorySound, [InventoryNext]_inventoryVars
    PROVE  InventorySound'
<1>1. ASSUME NEW q \in InventoryRequests, NEW r \in Reports, submit_inventory(q, r)
      PROVE  InventorySound'
  BY <1>1, RequestSound DEF submit_inventory
<1>2. ASSUME NEW q \in InventoryRequests, NEW r \in Reports, NEW t, import_offline(q, r, t)
      PROVE  InventorySound'
  BY <1>2, RequestSound DEF import_offline
<1>3. ASSUME NEW q \in InventoryRequests, config_unchanged(q) PROVE InventorySound'
  <2>1. inv[q].report \in Reports
    BY <1>3 DEF config_unchanged, InventorySound
  <2>2. QED
    BY <1>3, <2>1, RequestSound DEF config_unchanged
<1>4. ASSUME NEW q \in InventoryRequests, config_changed(q) PROVE InventorySound'
  <2>1. inv[q].report \in Reports
    BY <1>4 DEF config_changed, InventorySound
  <2>2. inv' = [inv EXCEPT ![q] = [inv[q] EXCEPT !.phase = "changed"]]
    BY <1>4 DEF config_changed
  <2>3. [inv[q] EXCEPT !.phase = "changed"].report = inv[q].report
    OBVIOUS
  <2>4. QED
    BY <1>4, <2>1, <2>2, <2>3, RequestSound DEF config_changed
<1>5. ASSUME NEW q \in InventoryRequests, load_current(q) PROVE InventorySound'
  <2>1. inv[q].report \in Reports
    BY <1>5 DEF load_current, InventorySound
  <2>2. QED
    BY <1>5, <2>1, RequestSound DEF load_current
<1>6. ASSUME NEW q \in InventoryRequests, commit_refused(q) \/ InventoryEnds(q)
      PROVE  InventorySound'
  BY <1>6, RestPhase, RequestSound DEF commit_refused, InventoryEnds
<1>7. CASE InventoryProcessRestarts
  BY <1>7, RestPhase DEF InventoryProcessRestarts, InventorySound, OneReport
<1>8. CASE decline_machine \/ enrol_again \/ UNCHANGED inventoryVars
  BY <1>8 DEF decline_machine, enrol_again, inventoryVars, InventorySound, OneReport
<1>9. CASE delete_machine_inventory
  BY <1>9 DEF delete_machine_inventory, InventorySound, OneReport
<1>10. QED
  BY <1>1, <1>2, <1>3, <1>4, <1>5, <1>6, <1>7, <1>8, <1>9, CommitSound DEF InventoryNext

\* The present row and the applications are those of one report that is in the
\* history (inventory_sync.py:4-6), unless a commit had loaded an older row.
THEOREM InventoryAgrees == InventorySpec => []OneReport
<1>1. InventoryInit => InventorySound
  BY RestPhase DEF InventoryInit, InventorySound, OneReport
<1>2. InventorySound /\ [InventoryNext]_inventoryVars => InventorySound'
  BY InventoryKept
<1>3. InventorySound => OneReport
  BY DEF InventorySound
<1>4. QED
  BY <1>1, <1>2, <1>3, PTL DEF InventorySpec

\* The requests about the inventory that have not loaded the present row, and
\* one that has loaded c.
UnloadedRows ==
    {Unasked} \union [phase : {"unchanged"}, report : Reports]
    \union [phase : {"asked", "changed"}, report : Reports, exported : ExportTimes \union {0}]
LoadedWith(c) ==
    [phase : {"loaded"}, report : Reports, exported : ExportTimes \union {0}, loaded : {c}]

RequestsTyped ==
    /\ DOMAIN inv = InventoryRequests
    /\ \A q \in InventoryRequests : inv[q] \in UnloadedRows \union LoadedWith(inv[q].loaded)

\* What is stored, each part with its type.
StoredTyped ==
    /\ registered \in {"enrolled", "declined", "deleted"}
    /\ specs \subseteq [report : Reports, at : 0..(2 * MaxStarts) \union ExportTimes]
    /\ started \in 0..MaxStarts
    /\ \/ current = NoRow
       \/ DOMAIN current = {"config_hash", "os_family", "antivirus_enabled",
                            "endpoint_protection_enabled"}
    /\ software \subseteq Apps
    /\ staleWrite \in BOOLEAN

\* Together they are the types of the inventory.
LEMMA InventoryParts == RequestsTyped /\ StoredTyped => InventoryTypeOK
<1> SUFFICES ASSUME RequestsTyped, StoredTyped PROVE InventoryTypeOK
  OBVIOUS
<1>1. ASSUME NEW q \in InventoryRequests PROVE inv[q] \in InventoryRequest
  <2>1. CASE inv[q] \in UnloadedRows
    BY <2>1 DEF UnloadedRows, InventoryRequest
  <2>2. CASE inv[q] \in LoadedWith(inv[q].loaded)
    <3>1. inv[q].phase = "loaded"
      BY <2>2 DEF LoadedWith
    <3>2. inv[q].loaded \in {inv[p].loaded : p \in {p \in InventoryRequests : inv[p].phase = "loaded"}}
      BY <3>1
    <3> QED BY <2>2, <3>2 DEF LoadedWith, InventoryRequest
  <2> QED BY <2>1, <2>2 DEF RequestsTyped
<1> QED BY <1>1 DEF StoredTyped, InventoryTypeOK

\* One request goes on with a row of its own.
LEMMA RequestTyped ==
    ASSUME RequestsTyped, NEW q \in InventoryRequests,
           NEW row, row \in UnloadedRows \union LoadedWith(row.loaded),
           inv' = [inv EXCEPT ![q] = row]
    PROVE  RequestsTyped'
<1>1. inv'[q] = row /\ DOMAIN inv' = InventoryRequests
        /\ \A p \in InventoryRequests : p # q => inv'[p] = inv[p]
  BY DEF RequestsTyped
<1> QED BY <1>1 DEF RequestsTyped

\* What a request that has been asked, is to be stored, or has loaded the
\* present row knows.
LEMMA RequestKnows ==
    ASSUME RequestsTyped, NEW q \in InventoryRequests,
           inv[q].phase \in {"asked", "changed", "loaded"}
    PROVE  inv[q].report \in Reports /\ inv[q].exported \in ExportTimes \union {0}
<1>1. inv[q] # Unasked /\ inv[q] \notin [phase : {"unchanged"}, report : Reports]
  BY DEF Unasked
<1>2. inv[q] \in [phase : {"asked", "changed"}, report : Reports, exported : ExportTimes \union {0}]
        \/ inv[q] \in LoadedWith(inv[q].loaded)
  BY <1>1 DEF RequestsTyped, UnloadedRows
<1> QED BY <1>2 DEF LoadedWith

\* The rows of a commit are those of a report.
LEMMA CommitTyped ==
    ASSUME RequestsTyped, StoredTyped, NEW q \in InventoryRequests, commit_inventory(q)
    PROVE  StoredTyped'
<1> DEFINE report == inv[q].report
           columns == {"config_hash", "os_family", "antivirus_enabled",
                       "endpoint_protection_enabled"}
<1>1. report \in Reports /\ inv[q].exported \in ExportTimes \union {0}
  BY RequestKnows DEF commit_inventory
<1>2. collected_at(q) \in 0..(2 * MaxStarts) \union ExportTimes
  BY <1>1, InventoryAssumption DEF collected_at, StoredTyped
<1>3. specs' \subseteq [report : Reports, at : 0..(2 * MaxStarts) \union ExportTimes]
  BY <1>1, <1>2 DEF commit_inventory, StoredTyped
<1>4. DOMAIN upsert_columns(inv[q].loaded, report) = columns
  <2>1. DOMAIN Columns(report) = columns
    BY DEF Columns
  <2> QED BY <2>1 DEF upsert_columns
<1>5. software_rows(report) \subseteq Apps
  <2>1. report.software \in Seq(Apps)
    BY <1>1, InventoryAssumption
  <2> QED BY <2>1 DEF software_rows
<1>6. /\ current' = upsert_columns(inv[q].loaded, report) /\ software' = software_rows(report)
      /\ staleWrite' \in BOOLEAN /\ UNCHANGED <<registered, started>>
  BY DEF commit_inventory, upsert_software
<1> QED BY <1>3, <1>4, <1>5, <1>6 DEF StoredTyped

\* Every step keeps both parts.
LEMMA InventoryTypesKept ==
    ASSUME RequestsTyped, StoredTyped, [InventoryNext]_inventoryVars
    PROVE  RequestsTyped' /\ StoredTyped'
<1>1. ASSUME UNCHANGED <<registered, specs, started, current, software, staleWrite>>
      PROVE  StoredTyped'
  BY <1>1 DEF StoredTyped
<1>2. Unasked \in UnloadedRows
  BY DEF UnloadedRows
<1>3. ASSUME NEW q \in InventoryRequests, NEW row \in UnloadedRows,
             inv' = [inv EXCEPT ![q] = row]
      PROVE  RequestsTyped'
  BY <1>3, RequestTyped
<1>4. ASSUME NEW q \in InventoryRequests, NEW r \in Reports, submit_inventory(q, r)
      PROVE  RequestsTyped' /\ StoredTyped'
  <2>1. [phase |-> "asked", report |-> r, exported |-> 0] \in UnloadedRows
    BY DEF UnloadedRows
  <2> QED BY <1>1, <1>3, <1>4, <2>1 DEF submit_inventory
<1>5. ASSUME NEW q \in InventoryRequests, NEW r \in Reports, NEW t \in ExportTimes,
             import_offline(q, r, t)
      PROVE  RequestsTyped' /\ StoredTyped'
  <2>1. [phase |-> "changed", report |-> r, exported |-> t] \in UnloadedRows
    BY DEF UnloadedRows
  <2> QED BY <1>1, <1>3, <1>5, <2>1 DEF import_offline
<1>6. ASSUME NEW q \in InventoryRequests, config_unchanged(q)
      PROVE  RequestsTyped' /\ StoredTyped'
  <2>1. inv[q].report \in Reports
    BY <1>6, RequestKnows DEF config_unchanged
  <2> DEFINE row == [phase |-> "unchanged", report |-> inv[q].report]
  <2>2. row \in UnloadedRows
    BY <2>1 DEF UnloadedRows
  <2>3. inv' = [inv EXCEPT ![q] = row]
    BY <1>6 DEF config_unchanged
  <2> HIDE DEF row
  <2> QED BY <1>1, <1>3, <1>6, <2>2, <2>3 DEF config_unchanged
<1>7. ASSUME NEW q \in InventoryRequests, config_changed(q)
      PROVE  RequestsTyped' /\ StoredTyped'
  <2>1. inv[q] \in [phase : {"asked", "changed"}, report : Reports,
                    exported : ExportTimes \union {0}]
    BY <1>7 DEF config_changed, RequestsTyped, UnloadedRows, LoadedWith, Unasked
  <2> DEFINE row == [inv[q] EXCEPT !.phase = "changed"]
  <2>2. row \in UnloadedRows
    BY <2>1 DEF UnloadedRows
  <2>3. inv' = [inv EXCEPT ![q] = row]
    BY <1>7 DEF config_changed
  <2> HIDE DEF row
  <2> QED BY <1>1, <1>3, <1>7, <2>2, <2>3 DEF config_changed
<1>8. ASSUME NEW q \in InventoryRequests, load_current(q)
      PROVE  RequestsTyped' /\ StoredTyped'
  <2>1. inv[q].report \in Reports /\ inv[q].exported \in ExportTimes \union {0}
    BY <1>8, RequestKnows DEF load_current
  <2> DEFINE row == [phase |-> "loaded", report |-> inv[q].report,
                     exported |-> inv[q].exported, loaded |-> current]
  <2>2. row \in LoadedWith(row.loaded)
    BY <2>1 DEF LoadedWith
  <2>3. inv' = [inv EXCEPT ![q] = row]
    BY <1>8 DEF load_current
  <2> HIDE DEF row
  <2> QED BY <1>1, <1>8, <2>2, <2>3, RequestTyped DEF load_current
<1>9. ASSUME NEW q \in InventoryRequests, commit_refused(q) \/ InventoryEnds(q)
      PROVE  RequestsTyped' /\ StoredTyped'
  BY <1>1, <1>2, <1>3, <1>9 DEF commit_refused, InventoryEnds
<1>10. ASSUME NEW q \in InventoryRequests, commit_inventory(q)
       PROVE  RequestsTyped' /\ StoredTyped'
  BY <1>2, <1>3, <1>10, CommitTyped DEF commit_inventory
<1>11. CASE InventoryProcessRestarts
  <2>1. started' \in 0..MaxStarts
    BY <1>11, InventoryAssumption DEF InventoryProcessRestarts, StoredTyped
  <2> QED BY <1>2, <1>11, <2>1 DEF InventoryProcessRestarts, StoredTyped, RequestsTyped
<1>12. CASE decline_machine \/ enrol_again \/ delete_machine_inventory \/ UNCHANGED inventoryVars
  BY <1>12 DEF decline_machine, enrol_again, delete_machine_inventory, inventoryVars, StoredTyped,
     RequestsTyped
<1> QED BY <1>4, <1>5, <1>6, <1>7, <1>8, <1>9, <1>10, <1>11, <1>12 DEF InventoryNext

\* Both parts of the types, from the start.
LEMMA InventoryAlwaysTyped == InventorySpec => [](RequestsTyped /\ StoredTyped)
<1>1. InventoryInit => RequestsTyped /\ StoredTyped
  <2>1. InventoryInit => RequestsTyped
    BY DEF InventoryInit, RequestsTyped, UnloadedRows
  <2>2. 0 \in 0..MaxStarts
    BY InventoryAssumption
  <2> QED BY <2>1, <2>2 DEF InventoryInit, StoredTyped
<1>2. RequestsTyped /\ StoredTyped /\ [InventoryNext]_inventoryVars
        => (RequestsTyped /\ StoredTyped)'
  BY InventoryTypesKept
<1> QED BY <1>1, <1>2, PTL DEF InventorySpec

\* The inventory keeps its types from the start.
LEMMA InventoryTyped == InventorySpec => []InventoryTypeOK
BY InventoryAlwaysTyped, InventoryParts, PTL

-----------------------------------------------------------------------------
(* What an inventory may skip.  inventory.py answers "unchanged" to a report *)
(* that is the newest of the history; SkipsOnlyUnchanged is what its comment *)
(* says of that.  It fails when a configuration that was stored later does   *)
(* not have a later time, and with one request at a time for no other reason.*)

\* A commit stores its configuration with a time after all those stored.
SnapshotsAdvance ==
    [][\A q \in InventoryRequests :
          commit_inventory(q) => \A s \in specs : s.at < collected_at(q)]_inventoryVars

\* The newest configuration of the history is the one the portal shows.
NewestShown == ~staleWrite => \A s \in newest : current.config_hash = s.report

\* A report is answered "unchanged" only when it is the configuration that the
\* portal shows, or one commit has just overtaken another.
SkipsUnlessOvertaken ==
    [][\A q \in InventoryRequests :
          inv[q].phase = "asked" /\ inv'[q].phase = "unchanged"
              => current.config_hash = inv[q].report \/ staleWrite]_inventoryVars

\* The step that answers "unchanged" is the comparison with the newest one.
LEMMA SkipCompares ==
    ASSUME RequestsTyped, [InventoryNext]_inventoryVars, NEW q \in InventoryRequests,
           inv[q].phase = "asked", inv'[q].phase = "unchanged"
    PROVE  config_unchanged(q)
<1>1. ASSUME NEW p \in InventoryRequests, NEW row, inv' = [inv EXCEPT ![p] = row],
             row.phase # "unchanged"
      PROVE  FALSE
  BY <1>1 DEF RequestsTyped
<1>2. ASSUME NEW p \in InventoryRequests, NEW r \in Reports, submit_inventory(p, r)
      PROVE  FALSE
  <2> DEFINE row == [phase |-> "asked", report |-> r, exported |-> 0]
  <2>1. row.phase # "unchanged" /\ inv' = [inv EXCEPT ![p] = row]
    BY <1>2 DEF submit_inventory
  <2> HIDE DEF row
  <2> QED BY <1>1, <2>1
<1>3. ASSUME NEW p \in InventoryRequests, NEW r \in Reports, NEW t \in ExportTimes,
             import_offline(p, r, t)
      PROVE  FALSE
  <2> DEFINE row == [phase |-> "changed", report |-> r, exported |-> t]
  <2>1. row.phase # "unchanged" /\ inv' = [inv EXCEPT ![p] = row]
    BY <1>3 DEF import_offline
  <2> HIDE DEF row
  <2> QED BY <1>1, <2>1
<1>4. ASSUME NEW p \in InventoryRequests, config_unchanged(p) PROVE p = q
  BY <1>4 DEF config_unchanged, RequestsTyped
<1>5. ASSUME NEW p \in InventoryRequests, config_changed(p) PROVE FALSE
  BY <1>5 DEF config_changed, RequestsTyped, UnloadedRows, LoadedWith, Unasked
<1>6. ASSUME NEW p \in InventoryRequests, load_current(p) PROVE FALSE
  BY <1>6 DEF load_current, RequestsTyped
<1>7. ASSUME NEW p \in InventoryRequests,
             commit_inventory(p) \/ commit_refused(p) \/ InventoryEnds(p)
      PROVE  FALSE
  BY <1>7, RestPhase DEF commit_inventory, commit_refused, InventoryEnds, RequestsTyped
<1>8. CASE InventoryProcessRestarts
  BY <1>8, RestPhase DEF InventoryProcessRestarts
<1>9. CASE decline_machine \/ enrol_again \/ delete_machine_inventory \/ UNCHANGED inventoryVars
  BY <1>9 DEF decline_machine, enrol_again, delete_machine_inventory, inventoryVars
<1> QED BY <1>2, <1>3, <1>4, <1>5, <1>6, <1>7, <1>8, <1>9 DEF InventoryNext

\* When the times advance, the one that a commit stores is the newest one, and
\* it is the one that the row shows unless the commit was overtaken.
LEMMA NewestStays ==
    ASSUME StoredTyped, RequestsTyped, NewestShown, [InventoryNext]_inventoryVars,
           \A q \in InventoryRequests :
              commit_inventory(q) => \A s \in specs : s.at < collected_at(q)
    PROVE  NewestShown'
<1>1. CASE UNCHANGED <<specs, current, staleWrite>>
  BY <1>1 DEF NewestShown, newest
<1>2. ASSUME NEW q \in InventoryRequests, commit_inventory(q), ~staleWrite'
      PROVE  \A s \in newest' : current'.config_hash = s.report
  <2> DEFINE stored == [report |-> inv[q].report, at |-> collected_at(q)]
  <2>1. specs' = specs \union {stored}
    BY <1>2 DEF commit_inventory
  <2>2. \A s \in specs : s.at < stored.at
    BY <1>2
  <2>3. \A s \in specs : s.at \in Int
    <3>1. \A t \in 0..(2 * MaxStarts) \union ExportTimes : t \in Int
      BY InventoryAssumption
    <3>2. \A s \in specs : s.at \in 0..(2 * MaxStarts) \union ExportTimes
      BY DEF StoredTyped
    <3> QED BY <3>1, <3>2
  <2>4. stored.at \in Int
    <3>1. inv[q].exported \in ExportTimes \union {0}
      BY <1>2, RequestKnows DEF commit_inventory
    <3>2. CASE inv[q].exported = 0
      <4>1. started \in Int
        BY InventoryAssumption DEF StoredTyped
      <4> QED BY <3>2, <4>1 DEF collected_at
    <3>3. CASE inv[q].exported # 0
      <4>1. stored.at = inv[q].exported
        BY <3>3 DEF collected_at
      <4>2. \A t \in ExportTimes : t \in Int
        BY InventoryAssumption
      <4>3. inv[q].exported \in ExportTimes
        BY <3>1, <3>3
      <4> QED BY <4>1, <4>2, <4>3
    <3> QED BY <3>2, <3>3
  <2> HIDE DEF stored
  <2>5. newest' = {stored}
    <3>1. ASSUME NEW s \in newest' PROVE s = stored
      <4>1. s \in specs' /\ stored \in specs' /\ stored.at <= s.at
        BY <2>1 DEF newest
      <4> QED BY <2>1, <2>2, <2>3, <2>4, <4>1
    <3>2. stored \in newest'
      BY <2>1, <2>2, <2>3, <2>4 DEF newest
    <3> QED BY <3>1, <3>2
  <2>6. current' = Columns(inv[q].report)
    BY <1>2, ColumnsWritten DEF commit_inventory
  <2>7. Columns(inv[q].report).config_hash = inv[q].report
    BY DEF Columns
  <2> QED BY <2>5, <2>6, <2>7 DEF stored
<1>3. CASE delete_machine_inventory
  BY <1>3 DEF delete_machine_inventory, NewestShown, newest
<1>4. CASE \E q \in InventoryRequests : commit_inventory(q)
  BY <1>2, <1>4 DEF NewestShown
<1>5. CASE ~delete_machine_inventory /\ ~\E q \in InventoryRequests : commit_inventory(q)
  <2>1. UNCHANGED <<specs, current, staleWrite>>
    BY <1>5 DEF InventoryNext, inventoryVars, submit_inventory, import_offline, config_unchanged,
       config_changed, load_current, commit_refused, InventoryEnds, InventoryProcessRestarts,
       decline_machine, enrol_again
  <2> QED BY <1>1, <2>1
<1> QED BY <1>3, <1>4, <1>5

\* For every number of requests: while the times of the configurations advance,
\* inventory.py:74-76 skips a report only when the portal shows it, except
\* after a commit that had loaded an older row.
THEOREM SkippedWhileTimesAdvance == InventorySpec /\ SnapshotsAdvance => SkipsUnlessOvertaken
<1> DEFINE advance == \A q \in InventoryRequests :
                         commit_inventory(q) => \A s \in specs : s.at < collected_at(q)
           skips == \A q \in InventoryRequests :
                       inv[q].phase = "asked" /\ inv'[q].phase = "unchanged"
                           => current.config_hash = inv[q].report \/ staleWrite
<1>1. InventoryInit => NewestShown
  BY DEF InventoryInit, NewestShown, newest
<1>2. RequestsTyped /\ StoredTyped /\ NewestShown /\ [InventoryNext]_inventoryVars
      /\ [advance]_inventoryVars => NewestShown'
  <2>1. CASE UNCHANGED inventoryVars
    BY <2>1 DEF inventoryVars, NewestShown, newest
  <2> QED BY <2>1, NewestStays
<1>3. RequestsTyped /\ NewestShown /\ [InventoryNext]_inventoryVars => [skips]_inventoryVars
  BY SkipCompares DEF config_unchanged, NewestShown
<1> HIDE DEF advance, skips
<1>4. InventorySpec /\ [][advance]_inventoryVars => [][skips]_inventoryVars
  BY <1>1, <1>2, <1>3, InventoryAlwaysTyped, PTL DEF InventorySpec
<1> QED BY <1>4 DEF advance, skips, SnapshotsAdvance, SkipsUnlessOvertaken

\* A request that has loaded the row of a machine that is there still has it,
\* and no commit was overtaken.
LoadedIsPresent ==
    /\ ~staleWrite
    /\ \A q \in InventoryRequests :
          inv[q].phase = "loaded" /\ registered # "deleted" => inv[q].loaded = current

\* One request at a time overtakes nobody.
LEMMA AloneKeepsRow ==
    ASSUME RequestsTyped, LoadedIsPresent, [InventoryNext]_inventoryVars,
           NEW q, InventoryRequests = {q}
    PROVE  LoadedIsPresent'
<1>1. ASSUME NEW row, inv' = [inv EXCEPT ![q] = row], row.phase # "loaded", ~staleWrite'
      PROVE  LoadedIsPresent'
  BY <1>1 DEF LoadedIsPresent, RequestsTyped
<1>2. ASSUME NEW r \in Reports, submit_inventory(q, r) PROVE LoadedIsPresent'
  <2> DEFINE row == [phase |-> "asked", report |-> r, exported |-> 0]
  <2>1. row.phase # "loaded" /\ inv' = [inv EXCEPT ![q] = row] /\ ~staleWrite'
    BY <1>2 DEF submit_inventory, LoadedIsPresent
  <2> HIDE DEF row
  <2> QED BY <1>1, <2>1
<1>3. ASSUME NEW r \in Reports, NEW t \in ExportTimes, import_offline(q, r, t)
      PROVE  LoadedIsPresent'
  <2> DEFINE row == [phase |-> "changed", report |-> r, exported |-> t]
  <2>1. row.phase # "loaded" /\ inv' = [inv EXCEPT ![q] = row] /\ ~staleWrite'
    BY <1>3 DEF import_offline, LoadedIsPresent
  <2> HIDE DEF row
  <2> QED BY <1>1, <2>1
<1>4. CASE config_unchanged(q)
  <2> DEFINE row == [phase |-> "unchanged", report |-> inv[q].report]
  <2>1. row.phase # "loaded" /\ inv' = [inv EXCEPT ![q] = row] /\ ~staleWrite'
    BY <1>4 DEF config_unchanged, LoadedIsPresent
  <2> HIDE DEF row
  <2> QED BY <1>1, <2>1
<1>5. CASE config_changed(q)
  <2> DEFINE row == [inv[q] EXCEPT !.phase = "changed"]
  <2>1. row.phase # "loaded" /\ inv' = [inv EXCEPT ![q] = row] /\ ~staleWrite'
    BY <1>5 DEF config_changed, LoadedIsPresent, RequestsTyped, UnloadedRows, LoadedWith, Unasked
  <2> HIDE DEF row
  <2> QED BY <1>1, <2>1
<1>6. CASE load_current(q)
  <2>1. inv'[q].loaded = current /\ current' = current /\ ~staleWrite'
    BY <1>6 DEF load_current, LoadedIsPresent, RequestsTyped
  <2> QED BY <2>1 DEF LoadedIsPresent
<1>7. CASE commit_inventory(q)
  <2>1. inv[q].loaded = current
    BY <1>7 DEF commit_inventory, CommitFails, LoadedIsPresent
  <2> QED BY <1>1, <1>7, <2>1, RestPhase DEF commit_inventory
<1>8. CASE commit_refused(q) \/ InventoryEnds(q)
  BY <1>1, <1>8, RestPhase DEF commit_refused, InventoryEnds, LoadedIsPresent
<1>9. CASE InventoryProcessRestarts
  BY <1>9, RestPhase DEF InventoryProcessRestarts, LoadedIsPresent
<1>10. CASE decline_machine \/ enrol_again \/ delete_machine_inventory \/ UNCHANGED inventoryVars
  BY <1>10 DEF decline_machine, enrol_again, delete_machine_inventory, inventoryVars,
     LoadedIsPresent
<1> QED BY <1>2, <1>3, <1>4, <1>5, <1>6, <1>7, <1>8, <1>9, <1>10 DEF InventoryNext

\* With one request at a time, whatever it reports, inventory.py:74-76 keeps
\* its comment whenever the times of the configurations advance: the run that
\* finds SkipsOnlyUnchanged violated shows the only way that it is.
THEOREM OneRequestSkipsUnchanged ==
    ASSUME \E q : InventoryRequests = {q}
    PROVE  InventorySpec /\ SnapshotsAdvance => SkipsOnlyUnchanged
<1> DEFINE skips == \A q \in InventoryRequests :
                       inv[q].phase = "asked" /\ inv'[q].phase = "unchanged"
                           => current.config_hash = inv[q].report
           skipsUnless == \A q \in InventoryRequests :
                             inv[q].phase = "asked" /\ inv'[q].phase = "unchanged"
                                 => current.config_hash = inv[q].report \/ staleWrite
<1>1. InventoryInit => LoadedIsPresent
  BY RestPhase DEF InventoryInit, LoadedIsPresent
<1>2. RequestsTyped /\ LoadedIsPresent /\ [InventoryNext]_inventoryVars => LoadedIsPresent'
  BY AloneKeepsRow
<1>3. LoadedIsPresent /\ [skipsUnless]_inventoryVars => [skips]_inventoryVars
  BY DEF LoadedIsPresent
<1>4. InventorySpec /\ SnapshotsAdvance => [][skipsUnless]_inventoryVars
  BY SkippedWhileTimesAdvance DEF SkipsUnlessOvertaken
<1> HIDE DEF skips, skipsUnless
<1>5. InventorySpec /\ SnapshotsAdvance => [][skips]_inventoryVars
  BY <1>1, <1>2, <1>3, <1>4, InventoryAlwaysTyped, PTL DEF InventorySpec
<1> QED BY <1>5 DEF skips, SkipsOnlyUnchanged

-----------------------------------------------------------------------------
(* All of administration.                                                    *)

\* A behaviour of the components side by side is a behaviour of each of them.
LEMMA EachBehaves ==
    AllSpec => /\ Spec /\ ProfilesSpec /\ SessionsSpec /\ AccountsSpec /\ AlertsSpec
               /\ NotificationsSpec /\ BotSpec /\ InventorySpec /\ CareSpec /\ MachineDeskSpec
<1>1. AllInit => /\ Init /\ ProfilesInit /\ SessionsInit /\ AccountsInit /\ AlertsInit
                 /\ NotificationsInit /\ BotInit /\ InventoryInit /\ CareInit /\ MachineDeskInit
  BY DEF AllInit, PortalInit
<1>2. [AllNext]_allVars => [Next]_vars
  BY DEF AllNext, allVars
<1>3. [AllNext]_allVars => [ProfilesNext]_profileVars
  BY DEF AllNext, allVars, ProfilesNext
<1>4. [AllNext]_allVars => [SessionsNext]_sessionVars
  BY PortalTokens DEF AllNext, allVars, portalVars
<1>5. [AllNext]_allVars => [AccountsNext]_accountVars
  BY DEF AllNext, allVars
<1>6. [AllNext]_allVars => [AlertsNext]_alertVars
  BY DEF AllNext, allVars, SweepNext, OneMachineNext
<1>7. [AllNext]_allVars => [NotificationsNext]_notificationVars
  BY DEF AllNext, allVars
<1>8. [AllNext]_allVars => [BotNext]_botVars
  BY DEF AllNext, allVars
<1>9. [AllNext]_allVars => [InventoryNext]_inventoryVars
  BY DEF AllNext, allVars
<1>10. [AllNext]_allVars => [CareNext]_careVars
  BY DEF AllNext, allVars
<1>11. [AllNext]_allVars => [MachineDeskNext]_deskVars
  BY DEF AllNext, allVars, MachineDeskNext
<1> QED BY <1>1, <1>2, <1>3, <1>4, <1>5, <1>6, <1>7, <1>8, <1>9, <1>10, <1>11, PTL
        DEF AllSpec, Spec, ProfilesSpec, SessionsSpec, AccountsSpec, AlertsSpec,
            NotificationsSpec, BotSpec, InventorySpec, CareSpec, MachineDeskSpec

\* The portal keeps its types in the behaviours in which it takes the steps.
LEMMA PortalPartTyped == AllSpec => [](part = "portal" => PortalTypeOK)
<1>1. AllInit => (part = "portal" => PortalSound)
  BY PortalBegins DEF AllInit
<1>2. (part = "portal" => PortalSound) /\ [AllNext]_allVars => (part = "portal" => PortalSound)'
  BY PortalKept DEF AllNext, allVars
<1>3. (part = "portal" => PortalSound) => (part = "portal" => PortalTypeOK)
  BY DEF PortalSound
<1> QED BY <1>1, <1>2, <1>3, PTL DEF AllSpec

\* Every variable of the administration keeps its type, for every number of
\* users, tokens, machines and requests; and what refers to a row finds it.
THEOREM AdminTypes == AllSpec => []AdminTypeOK
<1>1. Inv => TypeOK
  BY DEF Inv
<1>2. /\ TypeOK /\ ProfilesTypeOK /\ SessionsTypeOK /\ (part = "portal" => PortalTypeOK)
      /\ AccountsTypeOK /\ AlertsTypeOK /\ NotificationsTypeOK /\ BotTypeOK
      /\ InventoryTypeOK /\ CareTypeOK /\ MachineDeskTypeOK
      => AdminTypeOK
  BY DEF AdminTypeOK
<1>3. Spec => []Inv
  BY InitInv, StepInv, PTL DEF Spec
<1> QED BY <1>1, <1>2, <1>3, EachBehaves, PortalPartTyped, ProfilesTyped, TokensAlwaysTyped,
           AccountsTyped, AlertsTyped, NotificationsTyped, BotTyped, InventoryTyped, CareTyped,
           DeskTyped, PTL

\* The portal that takes no step keeps nobody signed in and has no request.
PortalAtRest == part # "portal" => cookie = 0 /\ req = [q \in Requests |-> NoRequest]

\* The session of a user goes on, whichever component takes the steps.
LEMMA SignedInStaysHere == AllSpec => []StaysSignedIn
<1> DEFINE goesOn == part = "portal" => PortalSound /\ GoesOn
<1>1. AllInit => goesOn /\ PortalAtRest
  BY PortalBegins DEF AllInit, PortalInit, PortalAtRest
<1>2. goesOn /\ [AllNext]_allVars => goesOn'
  <2>1. CASE part = "portal" /\ PortalNext /\ part' = part
    BY <2>1, PortalKept, SessionGoesOn
  <2>2. CASE part # "portal" /\ part' = part
    BY <2>2
  <2>3. CASE UNCHANGED <<part, portalVars>>
    BY <2>3, PortalKept, SessionGoesOn
  <2> QED BY <2>1, <2>2, <2>3 DEF AllNext, allVars
<1>3. PortalAtRest /\ [AllNext]_allVars => PortalAtRest'
  BY DEF PortalAtRest, AllNext, allVars, portalVars
<1>4. goesOn /\ PortalAtRest => StaysSignedIn
  <2>1. CASE part = "portal"
    BY <2>1, SoundStaysSignedIn
  <2>2. CASE part # "portal"
    BY <2>2 DEF PortalAtRest, StaysSignedIn, NoRequest
  <2> QED BY <2>1, <2>2
<1> HIDE DEF goesOn
<1> QED BY <1>1, <1>2, <1>3, <1>4, PTL DEF AllSpec

\* What the run of the administration checks holds for every value of its
\* constants: each invariant ...
THEOREM AdministrationIsSafe ==
    AllSpec => []( /\ AdminTypeOK /\ NoDanglingLink /\ StaysSignedIn /\ OneReport
                   /\ KeepsACertificate /\ RescanNotForgotten /\ SnapshotIsCurrent
                   /\ OnePendingDrift /\ ExactlyOneClassification )
BY AdminTypes, EachBehaves, SignedInStaysHere, LinksHold, InventoryAgrees, CertificateKept,
   RescanKept, SnapshotHolds, DriftUnlessRaced, OneClassification, PTL

\* ... and each property of the steps.
THEOREM AdministrationStepsHold ==
    AllSpec => /\ ForksOnlyOnTwoReads /\ SuperLostOnlyToOverlap /\ BrokenForEver
               /\ DecisionStands /\ ComplianceKept /\ DismissedStaysGone /\ SweepCutShortOnly
BY EachBehaves, ForksOnlyOnOverlap, SuperLostToOverlap, BreakIsPermanent, DecisionsHold,
   ComplianceHolds, DismissedForToday, SweepCutShort
=============================================================================
