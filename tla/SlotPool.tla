------------------------------ MODULE SlotPool ------------------------------
(***************************************************************************)
(* What the capacity queue promises: a pool of Capacity slots.  A slot is   *)
(* taken only when one is free, one at a time, and may be given back at     *)
(* any moment by whoever learns that its holder is done.                    *)
(***************************************************************************)
EXTENDS Integers, FiniteSets

CONSTANTS Holders, Capacity
VARIABLE held

Init == held = {}

Acquire(h) ==
    /\ h \in Holders \ held
    /\ Cardinality(held) < Capacity
    /\ held' = held \union {h}

Release(h) ==
    /\ h \in held
    /\ held' = held \ {h}

Next == \E h \in Holders : Acquire(h) \/ Release(h)

Spec == Init /\ [][Next]_held
=============================================================================
