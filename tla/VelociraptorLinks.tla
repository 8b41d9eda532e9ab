------------------------- MODULE VelociraptorLinks -------------------------
(***************************************************************************)
(* The synchronisation of velociraptor_links: which machine of the          *)
(* inventory is which Velociraptor client.  The monitor, POST /sync and a     *)
(* change of the configuration each start one, so that they overlap.  A sync  *)
(* reads the clients over the network; then, in one transaction, it reads the *)
(* machines and upserts a link for each, one after the other; then, in        *)
(* another, it records what came of it.                                       *)
(*                                                                         *)
(* A host is what normalize_hostname makes of a name.  Machines and clients  *)
(* are ranked by when they were last seen.                                   *)
(***************************************************************************)
CONSTANTS
    LinkRows,   \* ids of machines that have a hostname
    HwOf,       \* machine_uuid of a row: a machine enrolled twice has two rows
    Hosts,      \* host names
    Clients,    \* client ids of Velociraptor
    Syncs       \* calls of sync_velociraptor_links under way at once

NoLink == "none"
NoHost == "none"
Deleted == "deleted"

ASSUME LinksAssumption == NoLink \notin Clients /\ Hosts \intersect {NoHost, Deleted} = {}

VARIABLES
    rowHost,       \* Machine.hostname; NoHost before the row is there, Deleted after
    rowsBefore,    \* of each row, the rows last seen before it
    clientHost,    \* os_info.hostname of a client; NoHost before it enrols
    clientsBefore, \* of each client, the clients last seen before it
    link,          \* client_id of the committed link of a row, or NoLink
    sync,          \* what each sync is doing
    lastSync       \* last_sync_error is set ("failed") or not ("ok")

inventoryVars == <<rowHost, rowsBefore>>
serverVars == <<clientHost, clientsBefore>>
linkVars == <<inventoryVars, serverVars, link, sync, lastSync>>

\* listed is by_hostname, want the client of each row that is to be linked, and
\* done the rows that have been.
At(phase) == [phase |-> phase, listed |-> <<>>, want |-> [r \in {} |-> NoLink], done |-> {}]

LinksInit ==
    /\ rowHost = [r \in LinkRows |-> NoHost]
    /\ rowsBefore = [r \in LinkRows |-> {}]
    /\ clientHost = [c \in Clients |-> NoHost]
    /\ clientsBefore = [c \in Clients |-> {}]
    /\ link = [r \in LinkRows |-> NoLink]
    /\ sync = [s \in Syncs |-> At("idle")]
    /\ lastSync = "ok"

-----------------------------------------------------------------------------
(* The inventory and the fleet of clients, which the sync only reads.        *)

Present(host) == {x \in DOMAIN host : host[x] \in Hosts}

\* x is now the one seen last, after all of others.
SeenAfter(others, x, before) ==
    [y \in DOMAIN before |-> (IF y = x THEN others ELSE before[y]) \ {x}]

\* A machine enrols, reports again, or reports another name.
MachineReports(r, h) ==
    /\ rowHost[r] # Deleted
    /\ rowHost' = [rowHost EXCEPT ![r] = h]
    /\ rowsBefore' = SeenAfter(Present(rowHost), r, rowsBefore)
    /\ UNCHANGED <<serverVars, link, sync, lastSync>>

\* The link goes with the machine; one that a sync has just written is awaited.
MachineDeleted(r) ==
    /\ rowHost[r] \in Hosts
    /\ \A s \in Syncs : r \notin sync[s].done
    /\ rowHost' = [rowHost EXCEPT ![r] = Deleted]
    /\ rowsBefore' = SeenAfter({}, r, rowsBefore)
    /\ link' = [link EXCEPT ![r] = NoLink]
    /\ UNCHANGED <<serverVars, sync, lastSync>>

ClientReports(c, h) ==
    /\ clientHost' = [clientHost EXCEPT ![c] = h]
    /\ clientsBefore' = SeenAfter(Present(clientHost), c, clientsBefore)
    /\ UNCHANGED <<inventoryVars, link, sync, lastSync>>

-----------------------------------------------------------------------------
(* sync_velociraptor_links.                                                  *)

\* Of the clients of host h, c is the one seen last.
LastOf(c, h) ==
    /\ clientHost[c] = h
    /\ \A d \in Clients \ {c} : clientHost[d] = h => d \in clientsBefore[c]

by_hostname ==
    [h \in Hosts |-> IF \E c \in Clients : LastOf(c, h)
                       THEN CHOOSE c \in Clients : LastOf(c, h) ELSE NoLink]

\* VelociraptorError: nothing was read.
read_clients(s) ==
    /\ sync[s].phase = "idle"
    /\ \/ sync' = [sync EXCEPT ![s] = [At("listed") EXCEPT !.listed = by_hostname]]
       \/ sync' = [sync EXCEPT ![s] = At("failed")]
    /\ UNCHANGED <<inventoryVars, serverVars, link, lastSync>>

\* Mutant: every row with a host name is kept.
all_rows == Present(rowHost)

\* Of the rows of one machine, the one seen last.
dedup == {r \in Present(rowHost) :
             \A q \in Present(rowHost) \ {r} : HwOf[q] = HwOf[r] => q \in rowsBefore[r]}

\* The machines as they are now, against the clients as they were listed.
read_machines(s) ==
    LET listed == sync[s].listed IN
    /\ sync[s].phase = "listed"
    /\ sync' = [sync EXCEPT ![s] = [At("writing") EXCEPT
          !.want = [r \in {r \in dedup : listed[rowHost[r]] # NoLink} |-> listed[rowHost[r]]]]]
    /\ UNCHANGED <<inventoryVars, serverVars, link, lastSync>>

\* The link table as the transaction of s sees it.
Seen(s) == [r \in LinkRows |-> IF r \in sync[s].done THEN sync[s].want[r] ELSE link[r]]

Rest(s) == DOMAIN sync[s].want \ sync[s].done

\* The upsert of r by s waits for k, which has upserted the row, or has given
\* the client to a row or taken it from one, and has not committed yet.
WaitsFor(s, r, k) ==
    /\ k # s
    /\ \E q \in sync[k].done :
          q = r \/ sync[k].want[q] = sync[s].want[r] \/ link[q] = sync[s].want[r]

\* The foreign key, and the unique client_id: the ON CONFLICT clause is for the
\* machine_id only.
Breaks(s, r) ==
    \/ rowHost[r] = Deleted
    \/ \E q \in LinkRows \ {r} : Seen(s)[q] = sync[s].want[r]

upsert_link(s, r) ==
    /\ r \in Rest(s)
    /\ \A k \in Syncs : ~WaitsFor(s, r, k)
    /\ sync' = IF Breaks(s, r)
                 THEN [sync EXCEPT ![s] = At("failed")]
                 ELSE [sync EXCEPT ![s].done = @ \union {r}]
    /\ UNCHANGED <<inventoryVars, serverVars, link, lastSync>>

\* The rows come in no particular order, so that syncs may wait for each other.
Deadlocked(s) ==
    \E group \in SUBSET Syncs :
       /\ s \in group
       /\ \A j \in group : \E k \in group, r \in Rest(j) : WaitsFor(j, r, k)

deadlock_detected(s) ==
    /\ Deadlocked(s)
    /\ sync' = [sync EXCEPT ![s] = At("failed")]
    /\ UNCHANGED <<inventoryVars, serverVars, link, lastSync>>

commit_links(s) ==
    /\ sync[s].phase = "writing" /\ Rest(s) = {}
    /\ link' = Seen(s)
    /\ sync' = [sync EXCEPT ![s] = At("ok")]
    /\ UNCHANGED <<inventoryVars, serverVars, lastSync>>

_record_sync_result(s) ==
    /\ sync[s].phase \in {"ok", "failed"}
    /\ lastSync' = sync[s].phase
    /\ sync' = [sync EXCEPT ![s] = At("idle")]
    /\ UNCHANGED <<inventoryVars, serverVars, link>>

SyncCrash(s) ==
    /\ sync[s].phase # "idle"
    /\ sync' = [sync EXCEPT ![s] = At("idle")]
    /\ UNCHANGED <<inventoryVars, serverVars, link, lastSync>>

LinksNext ==
    \/ \E r \in LinkRows : MachineDeleted(r) \/ \E h \in Hosts : MachineReports(r, h)
    \/ \E c \in Clients, h \in Hosts : ClientReports(c, h)
    \/ \E s \in Syncs :
         \/ read_clients(s) \/ read_machines(s) \/ (\E r \in LinkRows : upsert_link(s, r))
         \/ deadlock_detected(s) \/ commit_links(s) \/ _record_sync_result(s) \/ SyncCrash(s)

LinksSpec == LinksInit /\ [][LinksNext]_linkVars

-----------------------------------------------------------------------------
(* Properties.                                                               *)

\* What was seen before what is an order of those that are there.
Ordered(before, present) ==
    /\ before \in [DOMAIN before -> SUBSET present]
    /\ \A x, y \in present : x # y => (x \in before[y] <=> y \notin before[x])

SyncStates ==
    [phase : {"idle", "listed", "writing", "ok", "failed"},
     listed : {<<>>} \union [Hosts -> Clients \union {NoLink}],
     want : UNION {[rows -> Clients] : rows \in SUBSET LinkRows},
     done : SUBSET LinkRows]

\* Every variable keeps its type; only rows that exist have a link, and no two
\* the same (db/models.py:765).
LinksTypeOK ==
    /\ rowHost \in [LinkRows -> Hosts \union {NoHost, Deleted}]
    /\ DOMAIN rowsBefore = LinkRows /\ Ordered(rowsBefore, Present(rowHost))
    /\ clientHost \in [Clients -> Hosts \union {NoHost}]
    /\ DOMAIN clientsBefore = Clients /\ Ordered(clientsBefore, Present(clientHost))
    /\ link \in [LinkRows -> Clients \union {NoLink}]
    /\ \A q, r \in LinkRows : link[q] = link[r] /\ link[q] # NoLink => q = r
    /\ \A r \in LinkRows : link[r] # NoLink => rowHost[r] \in Hosts
    /\ sync \in [Syncs -> SyncStates]
    /\ \A s \in Syncs :
          /\ sync[s].phase = "listed" => sync[s].listed \in [Hosts -> Clients \union {NoLink}]
          /\ sync[s].done \subseteq DOMAIN sync[s].want
    /\ lastSync \in {"ok", "failed"}

UpsertsFail(s) == sync[s].phase = "writing" /\ sync'[s].phase = "failed"

\* The upsert of some row can only fail: its machine has been deleted since it
\* was read, or another machine of the same name has just got the client.
LostItsMachine(s) == \E r \in Rest(s) : rowHost[r] = Deleted
SharesItsName(s) ==
    \E r \in Rest(s), q \in sync[s].done :
       sync[s].want[q] = sync[s].want[r] /\ HwOf[q] # HwOf[r]

\* The rows that a machine left behind are sorted out before the links are
\* written.  What is left to make the transaction of a sync fail are a machine
\* deleted since it was read, two machines of one name, a client that the
\* committed link of another row still holds, and a deadlock with another sync
\* (velociraptor_sync.py:215-301).
ConflictsExplained ==
    [][\A s \in Syncs : UpsertsFail(s) =>
          \/ LostItsMachine(s) \/ SharesItsName(s) \/ Deadlocked(s)
          \/ \E r \in Rest(s), q \in LinkRows \ sync[s].done :
                q # r /\ link[q] = sync[s].want[r]]_linkVars

\* Two rows of one machine never make a sync fail: that is what the rows are
\* sorted out for, "tránh IntegrityError" (velociraptor_sync.py:234).  It does not
\* hold: when a machine has enrolled again, the link of its old row still has the
\* client that its new row is to get.
OneMachineNeverConflicts ==
    [][\A s \in Syncs : UpsertsFail(s) =>
          \/ LostItsMachine(s) \/ SharesItsName(s) \/ Deadlocked(s)
          \/ \E r \in Rest(s), q \in LinkRows \ sync[s].done :
                HwOf[q] # HwOf[r] /\ link[q] = sync[s].want[r]]_linkVars
=============================================================================
