-------------------------- MODULE AuditChainProofs --------------------------
(***************************************************************************)
(* Proofs about the audit chain, for any number of transactions and rows.   *)
(***************************************************************************)
EXTENDS AuditChain, TLAPS

\* The rows that exist have been handed out by the sequence.
Used ==
    /\ \A i \in committed : i < next
    /\ \A w \in Writers : \A i \in own[w] : i < next

\* A row in flight names a row that its transaction sees, and so does what
\* the transaction has read.
PrevLinked ==
    /\ NoDanglingLink
    /\ \A w \in Writers : \A i \in own[w] :
          prev[i] = Genesis \/ (prev[i] \in Visible(w) /\ prev[i] < i)
    /\ \A w \in Writers :
          last[w] \in {NoRead, Genesis} \/ last[w] \in Visible(w)

Inv == TypeOK /\ Used /\ PrevLinked

\* Nothing exists at first, so nothing dangles.
LEMMA InitInv == Init => Inv
  BY MaxIdAssumption
     DEF Init, Inv, TypeOK, Used, PrevLinked, NoDanglingLink, Ids, Genesis, NoRead

\* Every step of append_audit and of its caller's transaction keeps Inv.
LEMMA StepInv == Inv /\ [Next]_vars => Inv'
<1> SUFFICES ASSUME Inv, [Next]_vars PROVE Inv'
  OBVIOUS
<1> USE MaxIdAssumption DEF Inv, TypeOK, Used, PrevLinked, NoDanglingLink, Visible, Before,
                            Ids, Genesis, NoRead
<1>1. ASSUME NEW w \in Writers, get_last_hash(w) PROVE Inv'
  <2>1. PICK i \in 0..MaxId : Latest(Visible(w), i) /\ last' = [last EXCEPT ![w] = i]
    BY <1>1 DEF get_last_hash
  <2>2. i = Genesis \/ i \in Visible(w)
    BY <2>1 DEF Latest
  <2>3. UNCHANGED <<next, committed, own, prev>>
    BY <1>1 DEF get_last_hash
  <2>4. TypeOK' /\ Used'
    BY <2>1, <2>3
  <2>5. PrevLinked'
    BY <2>1, <2>2, <2>3
  <2> QED BY <2>4, <2>5
<1>2. ASSUME NEW w \in Writers, append_audit(w) PROVE Inv'
  <2>1. TypeOK'
    BY <1>2 DEF append_audit
  <2>2. Used'
    BY <1>2 DEF append_audit
  <2>3. NoDanglingLink'
    BY <1>2 DEF append_audit
  <2>4. ASSUME NEW v \in Writers, NEW i \in own'[v]
        PROVE prev'[i] = Genesis \/ (prev'[i] \in Visible(v)' /\ prev'[i] < i)
    <3>1. CASE i = next
      BY <1>2, <2>4, <3>1 DEF append_audit
    <3>2. CASE i # next
      BY <1>2, <2>4, <3>2 DEF append_audit
    <3> QED BY <3>1, <3>2
  <2>5. ASSUME NEW v \in Writers
        PROVE last'[v] \in {NoRead, Genesis} \/ last'[v] \in Visible(v)'
    BY <1>2, <2>5 DEF append_audit
  <2> QED BY <2>1, <2>2, <2>3, <2>4, <2>5
<1>3. ASSUME NEW w \in Writers, Commit(w) PROVE Inv'
  <2>1. TypeOK' /\ Used'
    BY <1>3 DEF Commit
  <2>2. NoDanglingLink'
    BY <1>3 DEF Commit
  <2>3. ASSUME NEW v \in Writers, NEW i \in own'[v]
        PROVE prev'[i] = Genesis \/ (prev'[i] \in Visible(v)' /\ prev'[i] < i)
    BY <1>3, <2>3 DEF Commit
  <2>4. ASSUME NEW v \in Writers
        PROVE last'[v] \in {NoRead, Genesis} \/ last'[v] \in Visible(v)'
    BY <1>3, <2>4 DEF Commit
  <2> QED BY <2>1, <2>2, <2>3, <2>4
<1>4. ASSUME NEW w \in Writers, Rollback(w) PROVE Inv'
  <2>1. TypeOK' /\ Used'
    BY <1>4 DEF Rollback
  <2>2. PrevLinked'
    BY <1>4 DEF Rollback
  <2> QED BY <2>1, <2>2
<1>5. CASE UNCHANGED vars
  BY <1>5 DEF vars
<1> QED BY <1>1, <1>2, <1>3, <1>4, <1>5 DEF Next

\* No committed row names a row that was rolled back.
THEOREM LinksHold == Spec => []NoDanglingLink
<1>1. Inv => NoDanglingLink
  BY DEF Inv, PrevLinked
<1> QED BY InitInv, StepInv, <1>1, PTL DEF Spec

\* Committed rows stay and keep their links.
LEMMA CommittedGrows ==
    Inv /\ [Next]_vars =>
      /\ committed \subseteq committed'
      /\ \A i \in committed : prev'[i] = prev[i]
<1> SUFFICES ASSUME Inv, [Next]_vars
             PROVE /\ committed \subseteq committed'
                   /\ \A i \in committed : prev'[i] = prev[i]
  OBVIOUS
<1>1. CASE UNCHANGED vars
  BY <1>1 DEF vars
<1>2. ASSUME NEW w \in Writers,
             get_last_hash(w) \/ append_audit(w) \/ Commit(w) \/ Rollback(w)
      PROVE /\ committed \subseteq committed'
            /\ \A i \in committed : prev'[i] = prev[i]
  BY <1>2, MaxIdAssumption
     DEF get_last_hash, append_audit, Commit, Rollback, Inv, TypeOK, Used, Ids
<1> QED BY <1>1, <1>2 DEF Next

\* Once verify_chain reports a break, it reports one for ever: a row commits
\* a link to an earlier committed row, and rows that commit between the two
\* only widen the gap.
THEOREM BreakIsPermanent == Spec => BrokenForEver
<1>1. ASSUME Inv, [Next]_vars, ~verify_chain PROVE ~verify_chain'
  <2>1. PICK i \in committed : ~Latest(Before(i), prev[i])
    BY <1>1 DEF verify_chain
  <2>2. i \in committed' /\ prev'[i] = prev[i] /\ Before(i) \subseteq Before(i)'
    BY <1>1, CommittedGrows DEF Before
  <2>3. prev[i] = Genesis \/ prev[i] \in Before(i)
    BY <1>1 DEF Inv, PrevLinked, NoDanglingLink
  <2>4. Before(i) \subseteq Ids /\ Before(i)' \subseteq Ids
    BY <1>1, StepInv DEF Before, Inv, TypeOK
  <2>5. ~Latest(Before(i)', prev[i])
    BY <2>1, <2>2, <2>3, <2>4, MaxIdAssumption DEF Latest, Ids, Genesis
  <2>6. ~Latest(Before(i)', prev'[i])
    BY <2>2, <2>5
  <2> QED BY <2>2, <2>6 DEF verify_chain, Before
<1>2. Inv /\ [Next]_vars => [~verify_chain => ~verify_chain']_vars
  BY <1>1
<1> QED BY InitInv, StepInv, <1>2, PTL DEF Spec, BrokenForEver

-----------------------------------------------------------------------------
(* One transaction at a time.                                                *)

\* The rows in flight continue the committed chain, and what the transaction
\* has read is its end.
OwnBefore(w, i) == {j \in Visible(w) : j < i}

Continues ==
    /\ verify_chain
    /\ \A w \in Writers : \A i \in own[w] :
          /\ \A j \in committed : j < i
          /\ Latest(OwnBefore(w, i), prev[i])
    /\ \A w \in Writers : last[w] # NoRead => Latest(Visible(w), last[w])

\* With a single writer the chain in flight stays one chain.
LEMMA ContinuesStep ==
  ASSUME \A v, w \in Writers : v = w
  PROVE  Inv /\ Continues /\ [Next]_vars => Continues'
<1> SUFFICES ASSUME Inv, Continues, [Next]_vars PROVE Continues'
  OBVIOUS
<1> USE MaxIdAssumption DEF Inv, TypeOK, Used, Ids, Genesis, NoRead
<1>1. ASSUME NEW w \in Writers, get_last_hash(w) PROVE Continues'
  <2>1. PICK k \in 0..MaxId : Latest(Visible(w), k) /\ last' = [last EXCEPT ![w] = k]
    BY <1>1 DEF get_last_hash
  <2>2. UNCHANGED <<next, committed, own, prev>>
    BY <1>1 DEF get_last_hash
  <2> QED BY <2>1, <2>2 DEF Continues, verify_chain, Before, OwnBefore, Visible, Latest
<1>2. ASSUME NEW w \in Writers, append_audit(w) PROVE Continues'
  <2>1. verify_chain'
    BY <1>2 DEF append_audit, Continues, verify_chain, Before, Latest
  <2>2. Visible(w)' = Visible(w) \union {next}
    BY <1>2 DEF append_audit, Visible
  <2>3. ASSUME NEW i \in own'[w]
        PROVE (\A j \in committed' : j < i) /\ Latest(OwnBefore(w, i)', prev'[i])
    <3>1. CASE i = next
      <4>1. OwnBefore(w, i)' = Visible(w)
        <5>1. Visible(w) \subseteq Ids /\ \A j \in Visible(w) : j < next
          BY DEF Visible
        <5> QED BY <2>2, <3>1, <5>1 DEF OwnBefore
      <4>2. prev'[i] = last[w] /\ committed' = committed
        BY <1>2, <3>1 DEF append_audit
      <4> QED BY <1>2, <3>1, <4>1, <4>2 DEF Continues, append_audit
    <3>2. CASE i # next
      <4>1. i \in own[w] /\ prev'[i] = prev[i] /\ committed' = committed
        BY <1>2, <2>3, <3>2 DEF append_audit
      <4>2. OwnBefore(w, i)' = OwnBefore(w, i)
        <5>1. i < next /\ ~(next < i)
          BY <4>1
        <5> QED BY <2>2, <5>1 DEF OwnBefore
      <4> QED BY <4>1, <4>2 DEF Continues
    <3> QED BY <3>1, <3>2
  <2>4. last'[w] = NoRead
    BY <1>2 DEF append_audit
  <2> QED BY <2>1, <2>3, <2>4 DEF Continues
<1>3. ASSUME NEW w \in Writers, Commit(w) PROVE Continues'
  <2>1. committed' = Visible(w) /\ own'[w] = {} /\ prev' = prev /\ last'[w] = NoRead
    BY <1>3 DEF Commit, Visible
  <2>2. ASSUME NEW i \in committed' PROVE Latest(Before(i)', prev'[i])
    <3>1. CASE i \in own[w]
      <4>1. Before(i)' = OwnBefore(w, i)
        BY <2>1 DEF Before, OwnBefore
      <4> QED BY <2>1, <3>1, <4>1 DEF Continues
    <3>2. CASE i \in committed
      <4>1. \A j \in own[w] : i < j
        BY <3>2 DEF Continues
      <4>2. Before(i)' = Before(i)
        BY <2>1, <3>2, <4>1 DEF Before, Visible
      <4> QED BY <2>1, <3>2, <4>2 DEF Continues, verify_chain
    <3> QED BY <2>1, <2>2, <3>1, <3>2 DEF Visible
  <2> QED BY <2>1, <2>2 DEF Continues, verify_chain, Before
<1>4. ASSUME NEW w \in Writers, Rollback(w) PROVE Continues'
  <2>1. committed' = committed /\ prev' = prev /\ own'[w] = {} /\ last'[w] = NoRead
    BY <1>4 DEF Rollback
  <2> QED BY <2>1 DEF Continues, verify_chain, Before, Latest
<1>5. CASE UNCHANGED vars
  BY <1>5 DEF vars, Continues, verify_chain, Before, OwnBefore, Visible, Latest
<1> QED BY <1>1, <1>2, <1>3, <1>4, <1>5 DEF Next

\* A server that ran one transaction at a time would keep a chain that
\* verify_chain accepts, rollbacks included: only interleaving breaks it.
THEOREM SerialChainVerifies ==
  ASSUME \A v, w \in Writers : v = w
  PROVE  Spec => []ChainVerifies
<1>1. Init => Continues
  BY DEF Init, Continues, verify_chain
<1>2. Inv /\ Continues /\ [Next]_vars => Continues'
  BY ContinuesStep
<1>3. Continues => ChainVerifies
  BY DEF Continues, ChainVerifies
<1> QED BY InitInv, StepInv, <1>1, <1>2, <1>3, PTL DEF Spec
=============================================================================
