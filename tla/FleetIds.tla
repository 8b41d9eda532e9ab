------------------------------ MODULE FleetIds ------------------------------
(***************************************************************************)
(* The hardware that runs agents and the rows of the machines table it may  *)
(* get.  Nothing makes (org_id, machine_uuid) unique, so one piece of       *)
(* hardware can own several rows: row <<w, k>> is the k-th row of hardware  *)
(* w.                                                                       *)
(***************************************************************************)
EXTENDS Naturals, FiniteSets

CONSTANTS
    Hardware,  \* machines, told apart by the weighted id of their fingerprint
    Copies     \* bound: rows that one piece of hardware may get

Rows == Hardware \X Copies
=============================================================================
