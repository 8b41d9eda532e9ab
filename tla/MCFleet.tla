------------------------------ MODULE MCFleet ------------------------------
(* Fleet on small instances: two tokens, or a handful of concurrent requests *)
(* on one machine, are enough for every race between two transactions.       *)
EXTENDS Fleet, TLC

Symmetric == Permutations(Handlers) \union Permutations(Tokens)
=============================================================================
