------------------------------ MODULE Inventory ------------------------------
(***************************************************************************)
(* The inventory of one machine: the history of its configurations         *)
(* (machine_specs), the row of its present configuration                   *)
(* (machine_current) and its applications (machine_software), written by   *)
(* POST /api/inventory and POST /api/offline/import.  A request reads the  *)
(* machine, then the newest stored configuration, then the present row,    *)
(* and writes everything in one commit; between its statements the others  *)
(* run.  A report stands for its own config_hash.                          *)
(***************************************************************************)
EXTENDS Naturals, Sequences

CONSTANTS
    Reports,            \* what an agent may report (a set of Report records)
    InventoryRequests,  \* requests under way
    ExportTimes,        \* when the imported files were exported
    MaxStarts           \* bound: restarts of the server process

OsMarkers == {"windows 11", "windows 10", "windows server", "linux"}
AntivirusStates == {"enabled", "disabled", "unknown"}
Apps == {"browser", "office"}

ASSUME InventoryAssumption ==
    /\ \A r \in Reports :
          /\ r.os \in SUBSET OsMarkers
          /\ r.antivirus \in SUBSET AntivirusStates
          /\ r.software \in Seq(Apps)
    /\ ExportTimes \subseteq Nat
    /\ MaxStarts \in Nat

VARIABLES
    registered,  \* "enrolled", "declined" or "deleted"
    specs,       \* machine_specs: [report, at]
    started,     \* restarts of the server process so far
    current,     \* machine_current: a record of columns, or NoRow
    software,    \* machine_software: the names of the rows
    inv,         \* the requests under way
    staleWrite    \* the last write of the row had loaded an older one (history)

inventoryVars == <<registered, specs, started, current, software, inv, staleWrite>>

NoRow == [config_hash |-> {}]
Unasked == [phase |-> "idle"]

----------------------------------------------------------------------------
\* The columns derived from a report.

classify_os_family(os) ==
    CASE "windows 11" \in os     -> "windows_11"
      [] "windows 10" \in os     /\ "windows 11" \notin os -> "windows_10"
      [] "windows server" \in os /\ os \cap {"windows 11", "windows 10"} = {} -> "windows_server"
      [] os = {"linux"}          -> "linux"
      [] os = {}                 -> "other"

antivirus_enabled(states) ==
    IF "enabled" \in states THEN "yes"
    ELSE IF "disabled" \in states THEN "no" ELSE "unknown"

Columns(report) ==
    [config_hash |-> report,
     os_family |-> classify_os_family(report.os),
     antivirus_enabled |-> antivirus_enabled(report.antivirus),
     endpoint_protection_enabled |-> IF report.antivirus = {} THEN "unknown" ELSE "yes"]

software_rows(report) == {report.software[i] : i \in 1..Len(report.software)}

\* The unique index on (machine_id, lower(name)).
ListsAnAppTwice(report) ==
    \E i, j \in 1..Len(report.software) : i # j /\ report.software[i] = report.software[j]

----------------------------------------------------------------------------
\* The rows a commit writes.  An UPDATE holds only the columns that differ
\* from the row the request loaded; the others keep what the table has.

upsert_columns(loaded, report) ==
    IF loaded = NoRow THEN Columns(report)
    ELSE [c \in DOMAIN Columns(report) |->
             IF Columns(report)[c] # loaded[c] THEN Columns(report)[c] ELSE current[c]]

\* Mutant: an empty list of applications is taken for one that was not sent.
upsert_software_unless_empty(report) ==
    IF report.software = << >> THEN software ELSE software_rows(report)

upsert_software(report) == software_rows(report)

\* MachineSpec.collected_at of an online report is the default of the model,
\* evaluated when the process imported it; an import gives its own time.
\* Process k starts at time 2 * k.
collected_at(q) == IF inv[q].exported = 0 THEN 2 * started ELSE inv[q].exported

\* What makes the commit fail: the row of the machine has gone, another
\* request has inserted the first row, or the report lists an app twice.
CommitFails(q) ==
    \/ registered = "deleted"
    \/ inv[q].loaded = NoRow /\ current # NoRow
    \/ ListsAnAppTwice(inv[q].report)

newest == {s \in specs : \A t \in specs : t.at <= s.at}

----------------------------------------------------------------------------
InventoryInit ==
    /\ registered = "enrolled"
    /\ specs = {}
    /\ started = 0
    /\ current = NoRow
    /\ software = {}
    /\ inv = [q \in InventoryRequests |-> Unasked]
    /\ staleWrite = FALSE

\* POST /api/inventory: the machine must be there and not declined.
submit_inventory(q, report) ==
    /\ inv[q].phase = "idle"
    /\ registered = "enrolled"
    /\ inv' = [inv EXCEPT ![q] = [phase |-> "asked", report |-> report, exported |-> 0]]
    /\ UNCHANGED <<registered, specs, started, current, software, staleWrite>>

\* The newest stored configuration is the one reported: nothing is stored.
\* ORDER BY collected_at DESC LIMIT 1 takes any one of equal times.
config_unchanged(q) ==
    /\ inv[q].phase = "asked"
    /\ \E s \in newest : s.report = inv[q].report
    /\ inv' = [inv EXCEPT ![q] = [phase |-> "unchanged", report |-> inv[q].report]]
    /\ UNCHANGED <<registered, specs, started, current, software, staleWrite>>

config_changed(q) ==
    /\ inv[q].phase = "asked"
    /\ newest = {} \/ \E s \in newest : s.report # inv[q].report
    /\ inv' = [inv EXCEPT ![q].phase = "changed"]
    /\ UNCHANGED <<registered, specs, started, current, software, staleWrite>>

\* POST /api/offline/import for this machine: declined or not, compared with
\* no stored configuration.
import_offline(q, report, exported) ==
    /\ inv[q].phase = "idle"
    /\ registered # "deleted"
    /\ inv' = [inv EXCEPT ![q] = [phase |-> "changed", report |-> report, exported |-> exported]]
    /\ UNCHANGED <<registered, specs, started, current, software, staleWrite>>

\* upsert_current_and_software: load the present row ...
load_current(q) ==
    /\ inv[q].phase = "changed"
    /\ inv' = [inv EXCEPT ![q] = [phase |-> "loaded", report |-> inv[q].report,
                                  exported |-> inv[q].exported, loaded |-> current]]
    /\ UNCHANGED <<registered, specs, started, current, software, staleWrite>>

\* ... and write the snapshot, the row and the applications in one commit.
\* The lock on the row orders the commits of several requests.
commit_inventory(q) ==
    /\ inv[q].phase = "loaded"
    /\ ~CommitFails(q)
    /\ specs' = specs \union {[report |-> inv[q].report, at |-> collected_at(q)]}
    /\ current' = upsert_columns(inv[q].loaded, inv[q].report)
    /\ software' = upsert_software(inv[q].report)
    /\ staleWrite' = (inv[q].loaded # current)
    /\ inv' = [inv EXCEPT ![q] = Unasked]
    /\ UNCHANGED <<registered, started>>

commit_refused(q) ==
    /\ inv[q].phase = "loaded"
    /\ CommitFails(q)
    /\ inv' = [inv EXCEPT ![q] = Unasked]
    /\ UNCHANGED <<registered, specs, started, current, software, staleWrite>>

\* The answer "unchanged" arrives, or the caller gives up.
InventoryEnds(q) ==
    /\ inv[q].phase # "idle"
    /\ inv' = [inv EXCEPT ![q] = Unasked]
    /\ UNCHANGED <<registered, specs, started, current, software, staleWrite>>

InventoryProcessRestarts ==
    /\ started < MaxStarts
    /\ started' = started + 1
    /\ inv' = [q \in InventoryRequests |-> Unasked]
    /\ UNCHANGED <<registered, specs, current, software, staleWrite>>

\* update_lifecycle and reject_machine; a new enrolment brings it back.
decline_machine ==
    /\ registered = "enrolled"
    /\ registered' = "declined"
    /\ UNCHANGED <<specs, started, current, software, inv, staleWrite>>

enrol_again ==
    /\ registered = "declined"
    /\ registered' = "enrolled"
    /\ UNCHANGED <<specs, started, current, software, inv, staleWrite>>

\* delete_machine removes every row of the machine.
delete_machine_inventory ==
    /\ registered # "deleted"
    /\ registered' = "deleted"
    /\ specs' = {}
    /\ current' = NoRow
    /\ software' = {}
    /\ staleWrite' = FALSE
    /\ UNCHANGED <<started, inv>>

InventoryNext ==
    \/ \E q \in InventoryRequests :
          \/ \E r \in Reports : submit_inventory(q, r)
          \/ \E r \in Reports, t \in ExportTimes : import_offline(q, r, t)
          \/ config_unchanged(q)
          \/ config_changed(q)
          \/ load_current(q)
          \/ commit_inventory(q)
          \/ commit_refused(q)
          \/ InventoryEnds(q)
    \/ InventoryProcessRestarts
    \/ decline_machine
    \/ enrol_again
    \/ delete_machine_inventory

InventorySpec == InventoryInit /\ [][InventoryNext]_inventoryVars

----------------------------------------------------------------------------
InventoryRequest ==
    {Unasked} \union [phase : {"unchanged"}, report : Reports]
    \union [phase : {"asked", "changed"}, report : Reports, exported : ExportTimes \union {0}]
    \union [phase : {"loaded"}, report : Reports, exported : ExportTimes \union {0},
            loaded : {current} \union {inv[q].loaded : q \in {p \in InventoryRequests : inv[p].phase = "loaded"}}]

\* Every variable has its type, and a machine that was deleted has no row.
InventoryTypeOK ==
    /\ registered \in {"enrolled", "declined", "deleted"}
    /\ specs \subseteq [report : Reports, at : 0..(2 * MaxStarts) \union ExportTimes]
    /\ started \in 0..MaxStarts
    /\ current = NoRow \/ DOMAIN current = {"config_hash", "os_family", "antivirus_enabled", "endpoint_protection_enabled"}
    /\ software \subseteq Apps
    /\ \A q \in InventoryRequests : inv[q] \in InventoryRequest
    /\ staleWrite \in BOOLEAN

\* The present row and the applications are those of one report that is also
\* in the history (inventory_sync.py:4-6, "luôn khớp"), unless the last commit
\* had loaded the row before another request overtook it: two concurrent
\* requests then leave columns of both.
OneReport ==
    current # NoRow /\ ~staleWrite =>
        \E s \in specs :
            /\ current = Columns(s.report)
            /\ software = {s.report.software[i] : i \in DOMAIN s.report.software}

\* A report is answered "unchanged" only when it is the configuration the
\* portal shows (inventory.py:74-76, "Cấu hình không đổi — không lưu snapshot
\* trùng").  Checked with one request at a time and no import.
SkipsOnlyUnchanged ==
    [][\A q \in InventoryRequests :
          inv[q].phase = "asked" /\ inv'[q].phase = "unchanged"
              => current.config_hash = inv[q].report]_inventoryVars
==============================================================================
