----------------------------- MODULE AuditChain -----------------------------
(***************************************************************************)
(* The hash chain of audit_log.  Every handler appends its entries inside   *)
(* its own transaction: append_audit reads the hash of the last row it can  *)
(* see, inserts a row that names it, and the caller commits later.          *)
(*                                                                         *)
(* Rows are known by their id, which the database sequence hands out at the *)
(* INSERT, in order and never again; a row's content_hash stands for the    *)
(* row (distinct rows have distinct hashes) and 0 is the genesis hash.      *)
(***************************************************************************)
EXTENDS Naturals, FiniteSets

CONSTANTS
    Writers,  \* transactions under way at once
    MaxId     \* bound: rows ever inserted

ASSUME MaxIdAssumption == MaxId \in Nat

Ids == 1..MaxId
Genesis == 0
NoRead == MaxId + 1

VARIABLES
    next,       \* the next value of the sequence
    committed,  \* the rows that every transaction sees
    own,        \* own[w]: the rows that w has inserted and not committed
    prev,       \* AuditLog.prev_hash
    last        \* last[w]: what get_last_hash told w, until w inserts

vars == <<next, committed, own, prev, last>>

Init ==
    /\ next = 1
    /\ committed = {}
    /\ own = [w \in Writers |-> {}]
    /\ prev = [i \in Ids |-> Genesis]
    /\ last = [w \in Writers |-> NoRead]

\* READ COMMITTED, and the transaction's own rows.
Visible(w) == committed \union own[w]

\* The greatest element of S, or the genesis hash: ORDER BY id DESC LIMIT 1.
Latest(S, i) == \/ S = {} /\ i = Genesis
                \/ i \in S /\ \A j \in S : j <= i

\* Mutant: a last hash kept in the process, whoever inserted the row.
last_hash_cached(w) ==
    /\ last[w] = NoRead
    /\ last' = [last EXCEPT ![w] = next - 1]
    /\ UNCHANGED <<next, committed, own, prev>>

get_last_hash(w) ==
    /\ last[w] = NoRead
    /\ \E i \in 0..MaxId : Latest(Visible(w), i) /\ last' = [last EXCEPT ![w] = i]
    /\ UNCHANGED <<next, committed, own, prev>>

append_audit(w) ==
    /\ last[w] # NoRead
    /\ next \in Ids
    /\ next' = next + 1
    /\ own' = [own EXCEPT ![w] = @ \union {next}]
    /\ prev' = [prev EXCEPT ![next] = last[w]]
    /\ last' = [last EXCEPT ![w] = NoRead]
    /\ UNCHANGED committed

Commit(w) ==
    /\ own[w] # {}
    /\ last[w] = NoRead
    /\ committed' = committed \union own[w]
    /\ own' = [own EXCEPT ![w] = {}]
    /\ UNCHANGED <<next, prev, last>>

\* The ids of the rows that are rolled back are lost.
Rollback(w) ==
    /\ own[w] # {} \/ last[w] # NoRead
    /\ own' = [own EXCEPT ![w] = {}]
    /\ last' = [last EXCEPT ![w] = NoRead]
    /\ UNCHANGED <<next, committed, prev>>

Next == \E w \in Writers :
           get_last_hash(w) \/ append_audit(w) \/ Commit(w) \/ Rollback(w)

Spec == Init /\ [][Next]_vars

-----------------------------------------------------------------------------
\* The rows before i that verify_chain has gone through.
Before(i) == {j \in committed : j < i}

\* Each row names the row before it, in the order of id.
verify_chain == \A i \in committed : Latest(Before(i), prev[i])

(* Properties.                                                               *)

\* Every variable keeps its type, and no read outlives its transaction.
TypeOK ==
    /\ next \in 1..(MaxId + 1)
    /\ committed \subseteq Ids
    /\ own \in [Writers -> SUBSET Ids]
    /\ prev \in [Ids -> 0..MaxId]
    /\ last \in [Writers -> 0..NoRead]

\* One transaction at a time, rolled back or not, leaves a chain that
\* verify_chain (core/audit.py:78) accepts.
ChainVerifies == verify_chain

\* Whatever the interleaving and the rollbacks, a committed row names the
\* genesis hash or an earlier committed row (core/audit.py:60): no link points
\* to a row that was rolled back.
NoDanglingLink ==
    \A i \in committed : prev[i] = Genesis \/ prev[i] \in Before(i)

\* A transaction that commits late cannot mend the chain: what verify_chain
\* (core/audit.py:87) has once reported as broken is reported for ever.
BrokenForEver == [][~verify_chain => ~verify_chain']_vars
=============================================================================
