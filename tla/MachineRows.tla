---------------------------- MODULE MachineRows ----------------------------
(***************************************************************************)
(* The rows of the machines table and the monitor's two sweeps over them.   *)
(* Timestamps are kept as an age: seen[r] is 0 while last_seen_at is        *)
(* recent, 1 past OFFLINE_THRESHOLD and 2 past lost_after_days.             *)
(***************************************************************************)
EXTENDS FleetIds

CONSTANT MaxAge   \* bound: the largest age of last_seen_at, at most 2

ASSUME AgeAssumption == MaxAge \in 0..2

MachineStatus == {"pending", "online", "offline", "lost", "decommissioned"}

VARIABLES
    status,   \* Machine.status; "none" and "deleted" are no row
    retired,  \* Machine.lifecycle = 'decommissioned'
    seen,     \* age of Machine.last_seen_at
    sweep     \* the sweep under way: its target status and its loaded rows

machineVars == <<status, retired, seen, sweep>>

NoSweep == [to |-> "none", rows |-> {}]

MachinesTypeOK ==
    /\ status \in [Rows -> MachineStatus \union {"none", "deleted"}]
    /\ retired \in [Rows -> BOOLEAN]
    /\ seen \in [Rows -> 0..2]
    /\ sweep \in [to : {"none", "offline", "lost"}, rows : SUBSET Rows]

MachinesInit ==
    /\ status = [r \in Rows |-> "none"]
    /\ retired = [r \in Rows |-> FALSE]
    /\ seen = [r \in Rows |-> 0]
    /\ sweep = NoSweep

\* Mutant: a row that was not found is used all the same.
ExistsAlways(r) == r \in Rows

Exists(r) == status[r] \in MachineStatus
RowsOf(w) == {r \in Rows : r[1] = w /\ Exists(r)}

-----------------------------------------------------------------------------
(* A handler reads a row, computes and commits: between the two, others may  *)
(* commit.  A session writes a column only if its value differs from the one *)
(* it has read.                                                              *)

Keep == 3  \* the age of a change that leaves last_seen_at alone

RowChanges ==
    [row : Rows, was : MachineStatus \union {"none"}, to : MachineStatus,
     had : BOOLEAN, has : BOOLEAN, age : 0..Keep]

\* The change to row r, read now: its new status, whether it is then retired,
\* and the age of the new last_seen_at.
Change(r, to, has, age) ==
    [row |-> r, was |-> status[r], to |-> to,
     had |-> retired[r], has |-> has, age |-> age]

Flush(column, r, read, new) ==
    IF new = read THEN column ELSE [column EXCEPT ![r] = new]

WriteRow(c) ==
    /\ status' = Flush(status, c.row, c.was, c.to)
    /\ retired' = Flush(retired, c.row, c.had, c.has)
    /\ seen' = IF c.age = Keep THEN seen ELSE [seen EXCEPT ![c.row] = c.age]
    /\ UNCHANGED sweep

\* An UPDATE finds its row; an INSERT needs none.
RowLives(c) == c.was = "none" \/ Exists(c.row)

-----------------------------------------------------------------------------
(* What each handler makes of the status it has read.                       *)

\* Mutants: a heartbeat that forgets declined machines, and one that leaves
\* lost machines lost.
HeartbeatAlwaysOnline(s) == IF s = "none" THEN s ELSE "online"
HeartbeatKeepsLost(s) == IF s \in {"decommissioned", "lost"} THEN s ELSE "online"

HeartbeatSets(s) == IF s = "decommissioned" THEN s ELSE "online"

EnrollSets(s) == IF s = "decommissioned" THEN "pending" ELSE "online"

ApproveSets(age) == IF age = 0 THEN "online" ELSE "offline"

-----------------------------------------------------------------------------
(* The monitor task.  A sweep loads its rows and writes them after the       *)
(* awaits of its loop: all in its last commit, or some of them earlier, in   *)
(* the commit of an alert.                                                   *)

\* Mutant: a silent machine is only swept after lost_after_days.
SilentLongOnly(r) == status[r] = "online" /\ seen[r] = 2

SilentOnline(r) == status[r] = "online" /\ seen[r] >= 1
SilentOffline(r) == status[r] = "offline" /\ seen[r] = 2

Sweep(to, rows) ==
    /\ sweep = NoSweep
    /\ rows # {}
    /\ sweep' = [to |-> to, rows |-> rows]
    /\ UNCHANGED <<status, retired, seen>>

SweepOfflineRead == Sweep("offline", {r \in Rows : SilentOnline(r)})
SweepLostRead == Sweep("lost", {r \in Rows : SilentOffline(r)})

\* _sweep_lost has no commit but its last.
SweepWrite ==
    \E S \in SUBSET sweep.rows \ {{}} :
       /\ sweep.to = "lost" => S = sweep.rows
       /\ \A r \in S : Exists(r)
       /\ status' = [r \in Rows |-> IF r \in S THEN sweep.to ELSE status[r]]
       /\ sweep' = IF S = sweep.rows THEN NoSweep ELSE [sweep EXCEPT !.rows = @ \ S]
       /\ UNCHANGED <<retired, seen>>

\* A loaded row has been deleted: the flush raises and the sweep ends.
SweepGone ==
    /\ \E r \in sweep.rows : ~Exists(r)
    /\ sweep' = NoSweep
    /\ UNCHANGED <<status, retired, seen>>

\* Time passes without a heartbeat.
Silence(r) ==
    /\ Exists(r)
    /\ seen[r] < MaxAge
    /\ seen' = [seen EXCEPT ![r] = @ + 1]
    /\ UNCHANGED <<status, retired, sweep>>

delete_machine(r) ==
    /\ Exists(r)
    /\ status' = [status EXCEPT ![r] = "deleted"]
    /\ UNCHANGED <<retired, seen, sweep>>
=============================================================================
