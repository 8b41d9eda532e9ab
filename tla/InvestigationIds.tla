-------------------------- MODULE InvestigationIds --------------------------
(***************************************************************************)
(* The investigations the two services talk about, numbered in the order    *)
(* of created_at, and what a callback can say about one.                    *)
(***************************************************************************)
EXTENDS Integers, Sequences, FiniteSets

CONSTANT N      \* bound: number of investigations ever created

ASSUME IdsAssumption == N \in Nat

Investigations == 1..N
NoInvestigation == 0

\* The phases of InvestigationRunner.run that the status endpoint orders.
Phases == <<"running", "collecting", "finalizing">>
Terminal == {"completed", "failed"}
=============================================================================
