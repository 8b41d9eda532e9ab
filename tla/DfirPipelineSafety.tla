------------------------- MODULE DfirPipelineSafety -------------------------
(***************************************************************************)
(* The safety proofs of the pipeline.  What a step does to the columns and  *)
(* the worker state these invariants speak of is described once, by         *)
(* QueueStep; each invariant is then shown to survive every kind of step.   *)
(***************************************************************************)
EXTENDS DfirPipelineProofs, FunctionTheorems

\* One process runs the monitor loop, as deployed.
SingleWorker == \E w : Workers = {w}

-----------------------------------------------------------------------------
(* The kinds of steps.                                                      *)

RowStep(i) ==
    \/ Create(i)
    \/ \E op \in {"stop", "delete"} : AdminCommit(op, i)
    \/ \E k \in Terminal : submit_external_result(i, k)

ReconcileStep(w, i) ==
    \/ ReconcileTimeout(w, i)
    \/ ReconcileTerminal(w, i)
    \/ ReconcileKeep(w, i)
    \/ ReconcileFound(w, i)
    \/ ReconcileMissing(w, i)

DispatchStep(w, i) ==
    \/ DispatchRefused(w, i)
    \/ DispatchBegin(w, i)
    \/ PostOk(w, i)
    \/ PostUncertain(w, i)
    \/ PostRejected(w, i)

TickStep(w) ==
    \/ Abort(w)
    \/ TickStart(w)
    \/ claim_deepagent_dispatches(w)
    \/ ClaimNothing(w)
    \/ DispatchEnd(w)

Quiet == UNCHANGED <<status, bound, pc, todo, locks, claimed>>

QueueStep ==
    \/ Quiet
    \/ \E i \in Investigations : RowStep(i)
    \/ \E w \in Workers :
          \/ TickStep(w)
          \/ \E i \in Investigations : ReconcileStep(w, i) \/ DispatchStep(w, i)

\* Every step of the composed system is one of these to the queue.
LEMMA EveryStep ==
    ASSUME TypeOK, [Next]_vars
    PROVE  QueueStep
<1> USE DEF QueueStep
<1>1. CASE ServerStep
  <2>1. ASSUME NEW i \in Investigations, Create(i) \/ Age(i) \/ Administer(i)
        PROVE  Quiet \/ RowStep(i)
    BY <2>1 DEF Age, Administer, StopRead, DeleteRead, StopCommit, DeleteCommit,
                Request, RowStep, Quiet, rowVars, workerVars
  <2>2. ASSUME NEW w \in Workers, Local(w)
        PROVE  TickStep(w) \/ \E i \in Investigations : ReconcileStep(w, i) \/ DispatchStep(w, i)
    BY <2>2 DEF Local, TickEnd, ReconcileGone, TickStep, ReconcileStep, DispatchStep
  <2> QED  BY <1>1, <2>1, <2>2 DEF ServerStep
<1>2. ASSUME NEW w \in Workers, WorkerStep(w)
      PROVE  QueueStep
  <2>1. CASE ServerCrash(w)
    BY <2>1 DEF ServerCrash, Crash, TickStep
  <2>2. ASSUME NEW i \in Investigations, GetJob(w, i)
        PROVE  ReconcileStep(w, i)
    BY <2>2 DEF GetJob, ReconcileStep
  <2>3. ASSUME NEW i \in Investigations, DeliverPost(w, i)
        PROVE  Quiet
    BY <2>3 DEF DeliverPost, Quiet, queueVars, rowVars, workerVars
  <2>4. ASSUME NEW i \in Investigations,
               SendPost(w, i) \/ PostAnswered(w, i) \/ PostAmbiguous(w, i) \/ PostRefused(w, i)
        PROVE  DispatchStep(w, i)
    BY <2>4 DEF SendPost, PostAnswered, PostAmbiguous, PostRefused, DispatchStep
  <2>5. ASSUME NEW i \in Investigations, PostGone(w, i)
        PROVE  TickStep(w)
    BY <2>5 DEF PostGone, DispatchGone, TickStep
  <2> QED  BY <1>2, <2>1, <2>2, <2>3, <2>4, <2>5 DEF WorkerStep
<1>3. ASSUME NEW i \in Investigations, JobStep(i) \/ AttemptTimeout(i)
      PROVE  Quiet
  BY <1>3 DEF JobStep, AttemptTimeout, Quiet, queueVars, rowVars, workerVars
<1>4. ASSUME NEW m \in net, Lose(m) \/ HandleStatus(m)
      PROVE  Quiet
  BY <1>4 DEF Lose, HandleStatus, update_investigation_status, Quiet, queueVars, rowVars, workerVars
<1>5. ASSUME NEW m \in net, HandleResult(m)
      PROVE  QueueStep
  <2>1. m.inv \in Investigations /\ m.type \in Terminal
    BY <1>5, CallbackFacts DEF TypeOK, HandleResult
  <2> QED  BY <1>5, <2>1 DEF HandleResult, RowStep
<1>6. CASE DeepAgentRestart \/ UNCHANGED vars
  BY <1>6 DEF DeepAgentRestart, Quiet, vars, queueVars, rowVars, workerVars
<1> QED  BY <1>1, <1>2, <1>3, <1>4, <1>5, <1>6 DEF Next

-----------------------------------------------------------------------------
(* Row locks, for any number of workers.                                    *)

\* A worker holds locks only on rows that are analyzing, and none once it has
\* claimed: whoever writes an active row either holds its lock or waited.
LocksHeld ==
    \A w \in Workers :
       /\ locks[w] \subseteq Analyzing
       /\ pc[w] \in {"dispatch", "posting"} => locks[w] = {}

\* Every kind of step keeps the locks on analyzing rows.
LEMMA LocksHeldNext ==
    ASSUME TypeOK, LocksHeld, QueueStep
    PROVE  LocksHeld'
<1> USE DEF TypeOK, QueueTypeOK, LocksHeld, Analyzing, With
<1>1. CASE Quiet
  BY <1>1 DEF Quiet
<1>2. ASSUME NEW i \in Investigations, RowStep(i)
      PROVE  LocksHeld'
  <2>1. CASE Create(i)
    <3>1. status[i] = "none"
      BY <2>1, OldestIsMember DEF Create
    <3> QED  BY <2>1, <3>1 DEF Create, workerVars
  <2>2. ASSUME NEW op \in {"stop", "delete"}, AdminCommit(op, i)
        PROVE  LocksHeld'
    BY <2>2 DEF AdminCommit, Unlocked, workerVars
  <2>3. ASSUME NEW k \in Terminal, submit_external_result(i, k)
        PROVE  LocksHeld'
    BY <2>3 DEF submit_external_result, Unlocked, workerVars, rowVars
  <2> QED  BY <1>2, <2>1, <2>2, <2>3 DEF RowStep
<1>3. ASSUME NEW w \in Workers, TickStep(w)
      PROVE  LocksHeld'
  <2>1. CASE Abort(w)
    BY <2>1 DEF Abort, rowVars
  <2>2. CASE TickStart(w)
    BY <2>2 DEF TickStart, rowVars
  <2>3. CASE claim_deepagent_dispatches(w)
    BY <2>3 DEF claim_deepagent_dispatches, CommitReleases
  <2>4. CASE ClaimNothing(w) \/ DispatchEnd(w)
    BY <2>4 DEF ClaimNothing, DispatchEnd, rowVars
  <2> QED  BY <1>3, <2>1, <2>2, <2>3, <2>4 DEF TickStep
<1>4. ASSUME NEW w \in Workers, NEW i \in Investigations, ReconcileStep(w, i)
      PROVE  LocksHeld'
  <2>1. CASE ReconcileTimeout(w, i) \/ ReconcileTerminal(w, i)
    <3>1. /\ status' = [status EXCEPT ![i] = "failed"]
          /\ locks' = [locks EXCEPT ![w] = {}]
          /\ pc' = pc
          /\ \A v \in Workers \ {w} : i \notin locks[v]
      BY <2>1 DEF ReconcileTimeout, ReconcileTerminal, ReconcileFail, Reconciled,
                  CommitReleases, WritableBy
    <3> QED  BY <3>1
  <2>2. CASE ReconcileKeep(w, i)
    BY <2>2 DEF ReconcileKeep, Reconciled, rowVars
  <2>3. CASE ReconcileFound(w, i)
    BY <2>3 DEF ReconcileFound, Reconciled, CommitReleases
  <2>4. CASE ReconcileMissing(w, i)
    BY <2>4 DEF ReconcileMissing, Reconciled, CommitReleases, WritableBy
  <2> QED  BY <1>4, <2>1, <2>2, <2>3, <2>4 DEF ReconcileStep
<1>5. ASSUME NEW w \in Workers, NEW i \in Investigations, DispatchStep(w, i)
      PROVE  LocksHeld'
  <2>1. CASE DispatchRefused(w, i) \/ DispatchBegin(w, i)
    BY <2>1 DEF DispatchRefused, DispatchBegin, IsNextDispatch, WritableBy
  <2>2. CASE PostOk(w, i) \/ PostUncertain(w, i)
    <3>1. /\ UNCHANGED <<status, locks>>
          /\ pc' = [pc EXCEPT ![w] = "dispatch"]
          /\ pc[w] = "posting"
      BY <2>2 DEF PostOk, PostUncertain, PostDone
    <3> QED  BY <3>1
  <2>3. CASE PostRejected(w, i)
    <3>1. /\ status' = [status EXCEPT ![i] = "failed"]
          /\ locks' = locks
          /\ pc' = [pc EXCEPT ![w] = "dispatch"]
          /\ pc[w] = "posting"
          /\ \A v \in Workers \ {w} : i \notin locks[v]
      BY <2>3 DEF PostRejected, PostDone, WritableBy
    <3>2. \A v \in Workers : i \notin locks[v]
      BY <3>1
    <3>3. ASSUME NEW v \in Workers PROVE locks[v] \subseteq {j \in Investigations : status'[j] = "analyzing"}
      BY <3>1, <3>2
    <3> QED  BY <3>1, <3>3
  <2> QED  BY <1>5, <2>1, <2>2, <2>3 DEF DispatchStep
<1> QED  BY <1>1, <1>2, <1>3, <1>4, <1>5 DEF QueueStep

\* The locks are on analyzing rows in every state.
LEMMA LocksHeldAlways == Spec => []LocksHeld
<1>1. Init => LocksHeld
  BY DEF Init, QueueInit, LocksHeld
<1>2. TypeOK /\ LocksHeld /\ [Next]_vars => LocksHeld'
  BY EveryStep, LocksHeldNext
<1> QED  BY <1>1, <1>2, TypeCorrect, PTL DEF Spec

\* The status of a completed investigation is overwritten only by a handler
\* that read the row while it was active and no longer holds its lock.
LEMMA CompletedLostStep ==
    ASSUME TypeOK, LocksHeld, QueueStep, NEW k \in Investigations,
           status[k] = "completed", status'[k] \notin {"completed", "deleted"}
    PROVE  HeldStale(k)
<1> USE DEF TypeOK, QueueTypeOK, Analyzing, With
<1>1. k \notin UNION {locks[w] : w \in Workers}
  BY DEF LocksHeld
<1>2. CASE Quiet
  BY <1>2 DEF Quiet
<1>3. ASSUME NEW i \in Investigations, RowStep(i)
      PROVE  HeldStale(k)
  <2>1. CASE Create(i)
    <3>1. status[i] = "none"
      BY <2>1, OldestIsMember DEF Create
    <3> QED  BY <2>1, <3>1 DEF Create
  <2>2. ASSUME NEW op \in {"stop", "delete"}, AdminCommit(op, i)
        PROVE  HeldStale(k)
    BY <2>2 DEF AdminCommit, HeldStale
  <2>3. ASSUME NEW d \in Terminal, submit_external_result(i, d)
        PROVE  HeldStale(k)
    BY <2>3 DEF submit_external_result, ResultReply, rowVars
  <2> QED  BY <1>3, <2>1, <2>2, <2>3 DEF RowStep
<1>4. ASSUME NEW w \in Workers, TickStep(w)
      PROVE  HeldStale(k)
  BY <1>4 DEF TickStep, Abort, TickStart, claim_deepagent_dispatches, ClaimNothing,
              DispatchEnd, rowVars
<1>5. ASSUME NEW w \in Workers, NEW i \in Investigations, ReconcileStep(w, i)
      PROVE  HeldStale(k)
  <2>1. i = k /\ Reconciled(w, i)
    BY <1>5 DEF ReconcileStep, ReconcileTimeout, ReconcileTerminal, ReconcileFail,
                ReconcileKeep, ReconcileFound, ReconcileMissing, rowVars
  <2>2. todo[w] # {} /\ k = Oldest(todo[w]) /\ todo[w] \in SUBSET Investigations
    BY <2>1 DEF Reconciled
  <2>3. k \in todo[w]
    <3> HIDE DEF QueueTypeOK
    <3> QED  BY <2>2, OldestIsMember
  <2> QED  BY <1>1, <2>3 DEF HeldStale
<1>6. ASSUME NEW w \in Workers, NEW i \in Investigations, DispatchStep(w, i)
      PROVE  HeldStale(k)
  <2>1. i = k
    BY <1>6 DEF DispatchStep, DispatchRefused, DispatchBegin, PostOk, PostUncertain, PostRejected
  <2>2. CASE IsNextDispatch(w, i)
    <3>1. claimed[w] # {} /\ k = Oldest(claimed[w]) /\ claimed[w] \in SUBSET Investigations
      BY <2>1, <2>2 DEF IsNextDispatch
    <3>2. k \in claimed[w]
      BY <3>1, OldestIsMember
    <3> QED  BY <3>2 DEF HeldStale
  <2>3. CASE cur[w] = i
    BY <2>1, <2>3 DEF HeldStale
  <2> QED
    BY <1>6, <2>2, <2>3 DEF DispatchStep, DispatchRefused, DispatchBegin, PostOk,
                            PostUncertain, PostRejected, PostDone
<1> QED  BY <1>2, <1>3, <1>4, <1>5, <1>6 DEF QueueStep

\* submit_external_result's row lock protects a completed investigation from
\* every handler but the ones HeldStale names, for any number of workers.
THEOREM CompletedProtected == Spec => CompletedLostOnlyIfStale
<1>1. TypeOK /\ LocksHeld /\ [Next]_vars
      => [\A i \in Investigations :
             status[i] = "completed" /\ status'[i] \notin {"completed", "deleted"}
                => HeldStale(i)]_vars
  BY EveryStep, CompletedLostStep
<1> QED  BY <1>1, TypeCorrect, LocksHeldAlways, PTL DEF Spec, CompletedLostOnlyIfStale

-----------------------------------------------------------------------------
(* The capacity, for one worker.                                            *)

\* The slots in use: those of the analyzing rows and those the worker has
\* claimed and not committed yet.  CapacityBound alone is not inductive: a
\* dispatch adds a row, and only the claim knows that there was room for it.
Reserved(w) == Analyzing \union claimed[w]

ReservedInv ==
    \A w \in Workers :
       /\ Cardinality(Reserved(w)) <= Capacity
       /\ claimed[w] # {} => pc[w] \in {"dispatch", "posting"}

\* What a step does to the set of analyzing rows.
LEMMA AnalyzingStep ==
    ASSUME TypeOK, QueueStep
    PROVE  \/ Analyzing' = Analyzing
           \/ \E i \in Analyzing : Analyzing' = Analyzing \ {i}
           \/ \E w \in Workers, i \in Investigations :
                 DispatchBegin(w, i) /\ Analyzing' = Analyzing \union {i}
<1> DEFINE Goal == \/ Analyzing' = Analyzing
                   \/ \E i \in Analyzing : Analyzing' = Analyzing \ {i}
                   \/ \E w \in Workers, i \in Investigations :
                         DispatchBegin(w, i) /\ Analyzing' = Analyzing \union {i}
<1> USE DEF TypeOK, QueueTypeOK
<1>1. ASSUME status' = status
      PROVE  Goal
  BY <1>1 DEF Analyzing, With
<1>2. ASSUME NEW i \in Investigations, NEW s, s # "analyzing",
             status' = [status EXCEPT ![i] = s]
      PROVE  Goal
  <2>1. Analyzing' = Analyzing \ {i}
    BY <1>2 DEF Analyzing, With
  <2> QED  BY <2>1
<1>3. ASSUME NEW w \in Workers, NEW i \in Investigations, DispatchBegin(w, i)
      PROVE  Goal
  <2>1. Analyzing' = Analyzing \union {i}
    BY <1>3 DEF DispatchBegin, Analyzing, With
  <2> QED  BY <1>3, <2>1
<1> HIDE DEF Goal
<1>4. ASSUME NEW i \in Investigations, RowStep(i)
      PROVE  Goal
  <2>1. CASE Create(i)
    BY <2>1, <1>2 DEF Create
  <2>2. ASSUME NEW op \in {"stop", "delete"}, AdminCommit(op, i)
        PROVE  Goal
    BY <2>2, <1>1, <1>2 DEF AdminCommit
  <2>3. ASSUME NEW k \in Terminal, submit_external_result(i, k)
        PROVE  Goal
    <3>1. k # "analyzing"
      BY DEF Terminal
    <3> QED  BY <2>3, <3>1, <1>1, <1>2 DEF submit_external_result, rowVars
  <2> QED  BY <1>4, <2>1, <2>2, <2>3 DEF RowStep
<1>5. ASSUME NEW w \in Workers, TickStep(w)
      PROVE  Goal
  BY <1>5, <1>1 DEF TickStep, Abort, TickStart, claim_deepagent_dispatches, ClaimNothing,
                    DispatchEnd, rowVars
<1>6. ASSUME NEW w \in Workers, NEW i \in Investigations, ReconcileStep(w, i)
      PROVE  Goal
  <2>1. status' = status \/ \E s \in {"failed", "pending"} : status' = [status EXCEPT ![i] = s]
    BY <1>6 DEF ReconcileStep, ReconcileTimeout, ReconcileTerminal, ReconcileFail,
                ReconcileKeep, ReconcileFound, ReconcileMissing, rowVars
  <2> QED  BY <2>1, <1>1, <1>2
<1>7. ASSUME NEW w \in Workers, NEW i \in Investigations, DispatchStep(w, i)
      PROVE  Goal
  <2>1. \/ status' = status
        \/ status' = [status EXCEPT ![i] = "failed"]
        \/ DispatchBegin(w, i)
    BY <1>7 DEF DispatchStep, DispatchRefused, PostOk, PostUncertain, PostRejected
  <2>2. "failed" # "analyzing"
    OBVIOUS
  <2> QED  BY <2>1, <2>2, <1>1, <1>2, <1>3
<1>8. ASSUME Quiet
      PROVE  Goal
  BY <1>8, <1>1 DEF Quiet
<1> QED  BY <1>4, <1>5, <1>6, <1>7, <1>8 DEF QueueStep, Goal

\* What a step does to the claims of the worker.
LEMMA ClaimedStep ==
    ASSUME TypeOK, QueueStep, NEW v \in Workers
    PROVE  \/ claimed'[v] \subseteq claimed[v]
           \/ claim_deepagent_dispatches(v)
<1> USE DEF TypeOK, QueueTypeOK
<1>1. CASE Quiet
  BY <1>1 DEF Quiet
<1>2. ASSUME NEW i \in Investigations, RowStep(i)
      PROVE  claimed' = claimed
  BY <1>2 DEF RowStep, Create, AdminCommit, submit_external_result, workerVars
<1>3. ASSUME NEW w \in Workers, TickStep(w)
      PROVE  claimed'[v] \subseteq claimed[v] \/ claim_deepagent_dispatches(v)
  <2>1. CASE Abort(w)
    BY <2>1 DEF Abort
  <2>2. CASE claim_deepagent_dispatches(w) /\ v # w
    BY <2>2 DEF claim_deepagent_dispatches
  <2>3. CASE TickStart(w) \/ ClaimNothing(w) \/ DispatchEnd(w)
    BY <2>3 DEF TickStart, ClaimNothing, DispatchEnd
  <2> QED  BY <1>3, <2>1, <2>2, <2>3 DEF TickStep
<1>4. ASSUME NEW w \in Workers, NEW i \in Investigations, ReconcileStep(w, i)
      PROVE  claimed' = claimed
  BY <1>4 DEF ReconcileStep, ReconcileTimeout, ReconcileTerminal, ReconcileFail,
              ReconcileKeep, ReconcileFound, ReconcileMissing, Reconciled
<1>5. ASSUME NEW w \in Workers, NEW i \in Investigations, DispatchStep(w, i)
      PROVE  claimed'[v] \subseteq claimed[v]
  <2>1. claimed' = claimed \/ claimed' = [claimed EXCEPT ![w] = @ \ {i}]
    BY <1>5 DEF DispatchStep, DispatchRefused, DispatchBegin, PostOk, PostUncertain,
                PostRejected, PostDone
  <2> QED  BY <2>1
<1> QED  BY <1>1, <1>2, <1>3, <1>4, <1>5 DEF QueueStep

\* The row of a dispatch was claimed by its worker.
LEMMA DispatchedWasClaimed ==
    ASSUME TypeOK, NEW w \in Workers, NEW i \in Investigations, IsNextDispatch(w, i)
    PROVE  i \in claimed[w] /\ \A j \in claimed[w] : i <= j
<1>1. claimed[w] \in SUBSET Investigations /\ claimed[w] # {} /\ i = Oldest(claimed[w])
  BY DEF TypeOK, QueueTypeOK, IsNextDispatch
<1> QED  BY <1>1, OldestIsMember

\* A claim takes no more rows than there are free slots.
LEMMA ClaimFits ==
    ASSUME TypeOK, NEW w \in Workers, claim_deepagent_dispatches(w)
    PROVE  Cardinality(Reserved(w)') <= Capacity
<1>1. PICK P \in SUBSET {i \in With("pending") : Unlocked(i)} :
         /\ IsFirst(P, {i \in With("pending") : Unlocked(i)}, Available)
         /\ claimed' = [claimed EXCEPT ![w] = P]
  BY DEF claim_deepagent_dispatches
<1>2. Reserved(w)' = Analyzing \union P
  BY <1>1 DEF claim_deepagent_dispatches, Reserved, Analyzing, With, TypeOK, QueueTypeOK
<1>3. Analyzing \in SUBSET Investigations /\ P \in SUBSET Investigations
  BY <1>1 DEF Analyzing, With
<1>4. /\ IsFiniteSet(Analyzing) /\ Cardinality(Analyzing) \in Nat
      /\ IsFiniteSet(P) /\ Cardinality(P) \in Nat
      /\ Cardinality(Analyzing \intersect P) \in Nat
  BY <1>3, SetsAreFinite
<1>5. Cardinality(P) <= Available /\ Available > 0
  BY <1>1 DEF IsFirst, claim_deepagent_dispatches
<1>6. Cardinality(P) <= Capacity - Cardinality(Analyzing)
  BY <1>4, <1>5, QueueAssumption DEF Available
<1>7. Cardinality(Analyzing \union P)
        = Cardinality(Analyzing) + Cardinality(P) - Cardinality(Analyzing \intersect P)
  BY <1>4, FS_Union
<1> QED  BY <1>2, <1>4, <1>6, <1>7, QueueAssumption

\* While a worker is not dispatching it has no claims.
LEMMA ClaimsOnlyWhileDispatching ==
    ASSUME TypeOK, ReservedInv, QueueStep, NEW v \in Workers, claimed'[v] # {}
    PROVE  pc'[v] \in {"dispatch", "posting"}
<1> USE DEF TypeOK, QueueTypeOK, ReservedInv
<1>1. CASE Quiet
  BY <1>1 DEF Quiet
<1>2. ASSUME NEW i \in Investigations, RowStep(i)
      PROVE  claimed' = claimed /\ pc' = pc
  BY <1>2 DEF RowStep, Create, AdminCommit, submit_external_result, workerVars
<1>3. ASSUME NEW w \in Workers, TickStep(w)
      PROVE  pc'[v] \in {"dispatch", "posting"}
  <2>1. CASE Abort(w)
    BY <2>1 DEF Abort
  <2>2. CASE claim_deepagent_dispatches(w)
    BY <2>2 DEF claim_deepagent_dispatches
  <2>3. CASE TickStart(w) \/ ClaimNothing(w) \/ DispatchEnd(w)
    BY <2>3 DEF TickStart, ClaimNothing, DispatchEnd
  <2> QED  BY <1>3, <2>1, <2>2, <2>3 DEF TickStep
<1>4. ASSUME NEW w \in Workers, NEW i \in Investigations, ReconcileStep(w, i)
      PROVE  claimed' = claimed /\ pc' = pc
  BY <1>4 DEF ReconcileStep, ReconcileTimeout, ReconcileTerminal, ReconcileFail,
              ReconcileKeep, ReconcileFound, ReconcileMissing, Reconciled
<1>5. ASSUME NEW w \in Workers, NEW i \in Investigations, DispatchStep(w, i)
      PROVE  pc'[v] \in {"dispatch", "posting"}
  <2>1. CASE DispatchRefused(w, i)
    BY <2>1 DEF DispatchRefused, IsNextDispatch
  <2>2. CASE DispatchBegin(w, i)
    BY <2>2 DEF DispatchBegin
  <2>3. CASE PostOk(w, i) \/ PostUncertain(w, i) \/ PostRejected(w, i)
    BY <2>3 DEF PostOk, PostUncertain, PostRejected, PostDone
  <2> QED  BY <1>5, <2>1, <2>2, <2>3 DEF DispatchStep
<1> QED  BY <1>1, <1>2, <1>3, <1>4, <1>5 DEF QueueStep

\* Every kind of step keeps the slots in use within the capacity.
LEMMA ReservedNext ==
    ASSUME SingleWorker, TypeOK, ReservedInv, QueueStep
    PROVE  ReservedInv'
<1> SUFFICES ASSUME NEW v \in Workers
             PROVE  /\ Cardinality(Reserved(v)') <= Capacity
                    /\ claimed'[v] # {} => pc'[v] \in {"dispatch", "posting"}
  BY DEF ReservedInv
<1>1. CASE claim_deepagent_dispatches(v)
  BY <1>1, ClaimFits, ClaimsOnlyWhileDispatching
<1>2. CASE claimed'[v] \subseteq claimed[v]
  <2>1. Reserved(v) \in SUBSET Investigations
    BY DEF Reserved, Analyzing, With, TypeOK, QueueTypeOK
  <2>2. Analyzing' \subseteq Reserved(v)
    <3>1. ASSUME NEW w \in Workers, NEW i \in Investigations, DispatchBegin(w, i)
          PROVE  i \in claimed[v]
      BY <3>1, DispatchedWasClaimed DEF DispatchBegin, SingleWorker
    <3> QED  BY <3>1, AnalyzingStep DEF Reserved
  <2>3. Reserved(v)' \in SUBSET Reserved(v)
    BY <1>2, <2>2 DEF Reserved
  <2>4. /\ IsFiniteSet(Reserved(v)) /\ Cardinality(Reserved(v)) \in Nat
        /\ Cardinality(Reserved(v)') \in Nat
    BY <2>1, <2>3, SetsAreFinite
  <2>5. Cardinality(Reserved(v)') <= Cardinality(Reserved(v))
    BY <2>3, <2>4, FS_Subset
  <2>6. Cardinality(Reserved(v)) <= Capacity
    BY DEF ReservedInv
  <2> QED  BY <2>4, <2>5, <2>6, QueueAssumption, ClaimsOnlyWhileDispatching
<1> QED  BY <1>1, <1>2, ClaimedStep

\* With one worker the slots in use never exceed the capacity.
LEMMA ReservedAlways ==
    ASSUME SingleWorker
    PROVE  Spec => []ReservedInv
<1>1. Init => ReservedInv
  <2>1. Init => \A w \in Workers : Reserved(w) = {} /\ claimed[w] = {}
    BY DEF Init, QueueInit, Reserved, Analyzing, With
  <2> QED  BY <2>1, FS_EmptySet, QueueAssumption DEF ReservedInv
<1>2. TypeOK /\ ReservedInv /\ [Next]_vars => ReservedInv'
  BY EveryStep, ReservedNext
<1> QED  BY <1>1, <1>2, TypeCorrect, PTL DEF Spec

\* claim_deepagent_dispatches keeps its promise, whatever the capacity, the
\* number of investigations and the faults: with one worker no more than
\* Capacity rows are analyzing.
THEOREM CapacityHolds ==
    ASSUME SingleWorker
    PROVE  Spec => []CapacityBound
<1>1. TypeOK /\ ReservedInv => CapacityBound
  <2> SUFFICES ASSUME TypeOK, ReservedInv
               PROVE  CapacityBound
    OBVIOUS
  <2>1. PICK w \in Workers : TRUE
    BY DEF SingleWorker
  <2>2. /\ Reserved(w) \in SUBSET Investigations
        /\ Analyzing \in SUBSET Reserved(w)
        /\ Cardinality(Reserved(w)) <= Capacity
    BY DEF Reserved, Analyzing, With, TypeOK, QueueTypeOK, ReservedInv
  <2>3. /\ IsFiniteSet(Reserved(w)) /\ Cardinality(Reserved(w)) \in Nat
        /\ Cardinality(Analyzing) \in Nat
    BY <2>2, SetsAreFinite DEF Analyzing, With
  <2>4. Cardinality(Analyzing) <= Cardinality(Reserved(w))
    BY <2>2, <2>3, FS_Subset
  <2> QED  BY <2>2, <2>3, <2>4, QueueAssumption DEF CapacityBound
<1> QED  BY <1>1, TypeCorrect, ReservedAlways, PTL

\* SlotPool counts with the Cardinality of its own copy of FiniteSets.
LEMMA SlotsCount == \A S : Slots!Cardinality(S) = Cardinality(S)
BY DEF Slots!Cardinality, Cardinality, Slots!IsFiniteSet, IsFiniteSet

\* The queue implements the pool of slots: every step takes one free slot,
\* gives one back or leaves the pool alone.
THEOREM ImplementsSlotPool ==
    ASSUME SingleWorker
    PROVE  Spec => SlotPoolSpec
<1>1. Init => Slots!Init
  BY DEF Init, QueueInit, Slots!Init, Analyzing, With
<1>2. TypeOK /\ ReservedInv /\ [Next]_vars => [Slots!Next]_Analyzing
  <2> SUFFICES ASSUME TypeOK, ReservedInv, [Next]_vars
               PROVE  [Slots!Next]_Analyzing
    OBVIOUS
  <2>1. Analyzing \in SUBSET Investigations
    BY DEF Analyzing, With
  <2>2. ASSUME NEW i \in Analyzing, Analyzing' = Analyzing \ {i}
        PROVE  Slots!Next
    BY <2>1, <2>2 DEF Slots!Next, Slots!Release
  <2>3. ASSUME NEW w \in Workers, NEW i \in Investigations, DispatchBegin(w, i),
               Analyzing' = Analyzing \union {i}
        PROVE  [Slots!Next]_Analyzing
    <3>1. CASE i \in Analyzing
      BY <2>3, <3>1
    <3>2. CASE i \notin Analyzing
      <4>1. i \in claimed[w]
        BY <2>3, DispatchedWasClaimed DEF DispatchBegin
      <4>2. /\ Reserved(w) \in SUBSET Investigations
            /\ Analyzing \union {i} \in SUBSET Reserved(w)
            /\ Cardinality(Reserved(w)) <= Capacity
        BY <4>1 DEF Reserved, Analyzing, With, TypeOK, QueueTypeOK, ReservedInv
      <4>3. /\ IsFiniteSet(Reserved(w)) /\ Cardinality(Reserved(w)) \in Nat
            /\ IsFiniteSet(Analyzing) /\ Cardinality(Analyzing) \in Nat
        BY <2>1, <4>2, SetsAreFinite
      <4>4. Cardinality(Analyzing \union {i}) = Cardinality(Analyzing) + 1
        BY <3>2, <4>3, FS_AddElement
      <4>5. Cardinality(Analyzing \union {i}) <= Cardinality(Reserved(w))
        BY <4>2, <4>3, FS_Subset
      <4>6. Cardinality(Analyzing) < Capacity
        BY <4>2, <4>3, <4>4, <4>5, QueueAssumption
      <4>7. Slots!Acquire(i)
        BY <2>3, <3>2, <4>6, SlotsCount DEF Slots!Acquire
      <4> QED  BY <4>7 DEF Slots!Next
    <3> QED  BY <3>1, <3>2
  <2> QED  BY <2>2, <2>3, EveryStep, AnalyzingStep
<1> QED  BY <1>1, <1>2, TypeCorrect, ReservedAlways, PTL DEF Spec, SlotPoolSpec, Slots!Spec

-----------------------------------------------------------------------------
(* The capacity, for several workers.                                       *)

\* What the claims of all workers will still make analyzing: a row counts once
\* for each worker that has claimed it.
ClaimPairs == {p \in Workers \X Investigations : p[2] \in claimed[p[1]]}

AllWorkersCapacity == Capacity * Cardinality(Workers)

\* Each worker claims at most what was free, and forgets the others: their claims
\* and the analyzing rows share what all workers may claim together.
WideReservedInv ==
    /\ \A w \in Workers : Cardinality(claimed[w]) <= Capacity
    /\ Cardinality(Analyzing) + Cardinality(ClaimPairs) <= AllWorkersCapacity

\* Sets of at most k elements each, one for each member of W, have at most k
\* times as many elements as W.
LEMMA PairsBounded ==
    ASSUME NEW W, IsFiniteSet(W), NEW k \in Nat, NEW S,
           \A w \in W : IsFiniteSet(S[w]) /\ Cardinality(S[w]) <= k,
           NEW T, \A p \in T : p[1] \in W /\ p[2] \in S[p[1]] /\ p = <<p[1], p[2]>>
    PROVE  IsFiniteSet(T) /\ Cardinality(T) <= Cardinality(W) * k
<1>1. ASSUME NEW w \in W
      PROVE  \E f : f \in [S[w] -> 1..k] /\ \A a, b \in S[w] : f[a] = f[b] => a = b
  <2> DEFINE n == Cardinality(S[w])
  <2>1. n \in Nat /\ n <= k /\ ExistsBijection(1..n, S[w])
    BY FS_CardinalityType
  <2>2. ExistsBijection(S[w], 1..n)
    BY <2>1, Fun_ExistsBijSymmetric
  <2>3. PICK f : f \in Bijection(S[w], 1..n)
    BY <2>2, Fun_ExistsBij
  <2>4. f \in [S[w] -> 1..n] /\ \A a, b \in S[w] : f[a] = f[b] => a = b
    BY <2>3 DEF Bijection, Injection, IsInjective
  <2>5. 1..n \subseteq 1..k
    BY <2>1
  <2> QED BY <2>4, <2>5
<1> DEFINE F(w) == CHOOSE f : f \in [S[w] -> 1..k] /\ \A a, b \in S[w] : f[a] = f[b] => a = b
<1>2. \A w \in W : F(w) \in [S[w] -> 1..k] /\ \A a, b \in S[w] : F(w)[a] = F(w)[b] => a = b
  BY <1>1
<1> HIDE DEF F
<1> DEFINE g == [p \in T |-> <<p[1], F(p[1])[p[2]]>>]
<1>3. g \in [T -> W \X (1..k)]
  BY <1>2
<1>4. ASSUME NEW p \in T, NEW q \in T, g[p] = g[q] PROVE p = q
  <2>1. p[1] = q[1] /\ F(p[1])[p[2]] = F(p[1])[q[2]]
    BY <1>4
  <2>2. p[2] = q[2]
    BY <1>2, <2>1
  <2> QED BY <2>1, <2>2
<1>5. g \in Injection(T, W \X (1..k))
  <2> HIDE DEF g
  <2> QED BY <1>3, <1>4, Fun_IsInj
<1>6. IsFiniteSet(1..k) /\ Cardinality(1..k) = k
  BY FS_Interval
<1>7. IsFiniteSet(W \X (1..k)) /\ Cardinality(W \X (1..k)) = Cardinality(W) * k
  BY <1>6, FS_Product
<1> QED BY <1>5, <1>7, FS_Injection

\* A worker's claim takes the place of its former claims, changes no row's
\* status and fits in the slots that are free.
LEMMA ClaimTakesFree ==
    ASSUME TypeOK, NEW w \in Workers, claim_deepagent_dispatches(w)
    PROVE  /\ claimed' = [claimed EXCEPT ![w] = claimed'[w]]
           /\ claimed'[w] \in SUBSET Investigations
           /\ Analyzing' = Analyzing
           /\ Cardinality(Analyzing) + Cardinality(claimed'[w]) <= Capacity
<1>1. PICK P \in SUBSET {i \in With("pending") : Unlocked(i)} :
         /\ IsFirst(P, {i \in With("pending") : Unlocked(i)}, Available)
         /\ claimed' = [claimed EXCEPT ![w] = P]
  BY DEF claim_deepagent_dispatches
<1>2. claimed'[w] = P /\ Analyzing' = Analyzing
  BY <1>1 DEF claim_deepagent_dispatches, Analyzing, With, TypeOK, QueueTypeOK
<1>3. Analyzing \in SUBSET Investigations /\ P \in SUBSET Investigations
  BY <1>1 DEF Analyzing, With
<1>4. Cardinality(Analyzing) \in Nat /\ Cardinality(P) \in Nat
  BY <1>3, SetsAreFinite
<1>5. Cardinality(P) <= Available /\ Available > 0
  BY <1>1 DEF IsFirst, claim_deepagent_dispatches
<1>6. Cardinality(Analyzing) + Cardinality(P) <= Capacity
  BY <1>4, <1>5, QueueAssumption DEF Available
<1> QED  BY <1>1, <1>2, <1>3, <1>6

\* The claims that a worker adds to those of the others.
LEMMA ClaimKeepsWide ==
    ASSUME IsFiniteSet(Workers), TypeOK, TypeOK', WideReservedInv,
           NEW w \in Workers, claim_deepagent_dispatches(w)
    PROVE  WideReservedInv'
<1> DEFINE own == {p \in ClaimPairs' : p[1] = w}
           others == {p \in ClaimPairs' : p[1] # w}
           n == Cardinality(Workers)
           a == Cardinality(Analyzing)
           c == Cardinality(claimed'[w])
<1>0. n \in Nat /\ n > 0 /\ Capacity \in Nat
  BY FS_CardinalityType, FS_EmptySet, QueueAssumption
<1>1. /\ claimed' = [claimed EXCEPT ![w] = claimed'[w]]
      /\ claimed'[w] \in SUBSET Investigations
      /\ Analyzing' = Analyzing /\ a + c <= Capacity
  BY ClaimTakesFree
<1>2. a \in Nat /\ c \in Nat
  BY <1>1, SetsAreFinite DEF Analyzing, With
<1>3. ASSUME NEW v \in Workers
      PROVE  /\ v # w => claimed'[v] = claimed[v]
             /\ claimed'[v] \in SUBSET Investigations
             /\ IsFiniteSet(claimed'[v]) /\ Cardinality(claimed'[v]) <= Capacity
  <2>1. v # w => claimed'[v] = claimed[v]
    BY <1>1 DEF TypeOK, QueueTypeOK
  <2>2. claimed'[v] \in SUBSET Investigations
    BY DEF TypeOK, QueueTypeOK
  <2>3. Cardinality(claimed'[v]) <= Capacity
    BY <1>0, <1>1, <1>2, <2>1 DEF WideReservedInv
  <2> QED  BY <2>1, <2>2, <2>3, SetsAreFinite
<1>4. IsFiniteSet(own) /\ Cardinality(own) <= c
  <2>1. IsFiniteSet({w}) /\ Cardinality({w}) = 1
    BY FS_Singleton
  <2>2. \A v \in {w} : IsFiniteSet(claimed'[v]) /\ Cardinality(claimed'[v]) <= c
    BY <1>2, <1>3
  <2>3. \A p \in own : p[1] \in {w} /\ p[2] \in claimed'[p[1]] /\ p = <<p[1], p[2]>>
    BY DEF ClaimPairs
  <2>4. IsFiniteSet(own) /\ Cardinality(own) <= Cardinality({w}) * c
    <3> HIDE DEF own, c
    <3> QED  BY <1>2, <2>1, <2>2, <2>3, PairsBounded
  <2> QED  BY <1>2, <2>1, <2>4
<1>5. IsFiniteSet(others) /\ Cardinality(others) <= (n - 1) * Capacity
  <2>1. IsFiniteSet(Workers \ {w}) /\ Cardinality(Workers \ {w}) = n - 1
    BY FS_RemoveElement
  <2>2. \A v \in Workers \ {w} : IsFiniteSet(claimed'[v]) /\ Cardinality(claimed'[v]) <= Capacity
    BY <1>3
  <2>3. \A p \in others : p[1] \in Workers \ {w} /\ p[2] \in claimed'[p[1]] /\ p = <<p[1], p[2]>>
    BY DEF ClaimPairs
  <2>4. IsFiniteSet(others) /\ Cardinality(others) <= Cardinality(Workers \ {w}) * Capacity
    <3> HIDE DEF others
    <3> QED  BY <1>0, <2>1, <2>2, <2>3, PairsBounded
  <2> QED  BY <2>1, <2>4
<1>6. /\ Cardinality(own) \in Nat /\ Cardinality(others) \in Nat
      /\ Cardinality(ClaimPairs') <= Cardinality(own) + Cardinality(others)
      /\ Cardinality(ClaimPairs') \in Nat
  <2>1. ClaimPairs' = own \union others /\ own \intersect others = {}
    OBVIOUS
  <2> HIDE DEF own, others
  <2>2. IsFiniteSet(own \union others)
        /\ Cardinality(own \union others)
             = Cardinality(own) + Cardinality(others) - Cardinality(own \intersect others)
    BY <1>4, <1>5, FS_Union
  <2>3. Cardinality(own \intersect others) = 0
    BY <2>1, FS_EmptySet
  <2> QED  BY <1>4, <1>5, <2>1, <2>2, <2>3, FS_CardinalityType
<1>7. a + Cardinality(ClaimPairs') <= Capacity * n
  <2> HIDE DEF a, c, n, own, others
  <2>1. (n - 1) * Capacity = Capacity * n - Capacity
    BY <1>0
  <2>2. (n - 1) * Capacity \in Int /\ Capacity * n \in Int
    BY <1>0
  <2> QED  BY <1>0, <1>1, <1>2, <1>4, <1>5, <1>6, <2>1, <2>2
<1> QED  BY <1>1, <1>3, <1>7 DEF WideReservedInv, AllWorkersCapacity

\* The number of claims, and what they leave to the analyzing rows.
LEMMA ClaimsCounted ==
    ASSUME IsFiniteSet(Workers), TypeOK
    PROVE  /\ IsFiniteSet(ClaimPairs) /\ Cardinality(ClaimPairs) \in Nat
           /\ Analyzing \in SUBSET Investigations /\ IsFiniteSet(Analyzing)
           /\ Cardinality(Analyzing) \in Nat
           /\ AllWorkersCapacity \in Nat
<1>1. Analyzing \in SUBSET Investigations
  BY DEF Analyzing, With
<1>2. IsFiniteSet(Investigations)
  BY SetsAreFinite
<1>3. IsFiniteSet(Workers \X Investigations)
  BY <1>2, FS_Product
<1>4. ClaimPairs \in SUBSET (Workers \X Investigations)
  BY DEF ClaimPairs
<1>5. IsFiniteSet(ClaimPairs) /\ Cardinality(ClaimPairs) \in Nat
  BY <1>3, <1>4, FS_Subset, FS_CardinalityType
<1>6. AllWorkersCapacity \in Nat
  <2>1. Cardinality(Workers) \in Nat /\ Capacity \in Nat
    BY FS_CardinalityType, QueueAssumption
  <2> QED  BY <2>1 DEF AllWorkersCapacity
<1> QED  BY <1>1, <1>5, <1>6, SetsAreFinite

\* A dispatch spends a claim.
LEMMA DispatchSpends ==
    ASSUME IsFiniteSet(Workers), TypeOK, NEW w \in Workers, NEW i \in Investigations,
           DispatchBegin(w, i)
    PROVE  /\ ClaimPairs' \in SUBSET ClaimPairs
           /\ Cardinality(ClaimPairs') + 1 = Cardinality(ClaimPairs)
<1>1. i \in claimed[w]
  BY DispatchedWasClaimed DEF DispatchBegin
<1>2. <<w, i>> \in ClaimPairs
  BY <1>1 DEF ClaimPairs
<1>3. ClaimPairs' = ClaimPairs \ {<<w, i>>}
  <2>1. claimed' = [claimed EXCEPT ![w] = @ \ {i}]
    BY DEF DispatchBegin
  <2>2. ASSUME NEW v \in Workers, NEW j \in Investigations
        PROVE  j \in claimed'[v] <=> j \in claimed[v] /\ <<v, j>> # <<w, i>>
    BY <2>1 DEF TypeOK, QueueTypeOK
  <2> QED  BY <2>2 DEF ClaimPairs
<1>4. Cardinality(ClaimPairs') = Cardinality(ClaimPairs) - 1
  BY <1>2, <1>3, ClaimsCounted, FS_RemoveElement
<1> QED  BY <1>3, <1>4, ClaimsCounted

\* Every kind of step keeps the analyzing rows and the claims within what all
\* workers may claim.
LEMMA WideReservedNext ==
    ASSUME IsFiniteSet(Workers), TypeOK, TypeOK', WideReservedInv, QueueStep
    PROVE  WideReservedInv'
<1>1. ASSUME NEW w \in Workers, claim_deepagent_dispatches(w)
      PROVE  WideReservedInv'
  BY <1>1, ClaimKeepsWide
<1>2. ASSUME \A v \in Workers : claimed'[v] \subseteq claimed[v]
      PROVE  WideReservedInv'
  <2>1. ClaimPairs' \in SUBSET ClaimPairs
    BY <1>2 DEF ClaimPairs
  <2>2. /\ IsFiniteSet(ClaimPairs) /\ Cardinality(ClaimPairs) \in Nat
        /\ IsFiniteSet(Analyzing) /\ Cardinality(Analyzing) \in Nat
        /\ Cardinality(ClaimPairs') \in Nat /\ Cardinality(Analyzing') \in Nat
        /\ AllWorkersCapacity \in Nat
    <3>1. Analyzing' \in SUBSET Investigations
      BY DEF Analyzing, With
    <3> QED  BY <2>1, <3>1, ClaimsCounted, SetsAreFinite, FS_Subset, FS_CardinalityType
  <2>3. Cardinality(ClaimPairs') <= Cardinality(ClaimPairs)
    BY <2>1, <2>2, FS_Subset
  <2>4. Cardinality(Analyzing) + Cardinality(ClaimPairs) <= AllWorkersCapacity
    BY DEF WideReservedInv
  <2>5. Cardinality(Analyzing') + Cardinality(ClaimPairs') <= AllWorkersCapacity
    <3>1. CASE Analyzing' = Analyzing
      BY <2>2, <2>3, <2>4, <3>1
    <3>2. ASSUME NEW i \in Analyzing, Analyzing' = Analyzing \ {i}
          PROVE  Cardinality(Analyzing') + Cardinality(ClaimPairs') <= AllWorkersCapacity
      <4>1. Cardinality(Analyzing') = Cardinality(Analyzing) - 1
        BY <2>2, <3>2, FS_RemoveElement
      <4> QED  BY <2>2, <2>3, <2>4, <4>1
    <3>3. ASSUME NEW w \in Workers, NEW i \in Investigations, DispatchBegin(w, i),
                 Analyzing' = Analyzing \union {i}
          PROVE  Cardinality(Analyzing') + Cardinality(ClaimPairs') <= AllWorkersCapacity
      <4>1. Cardinality(ClaimPairs') + 1 = Cardinality(ClaimPairs)
        BY <3>3, DispatchSpends
      <4>2. Cardinality(Analyzing') <= Cardinality(Analyzing) + 1
        <5>1. Cardinality(Analyzing \union {i})
                = IF i \in Analyzing THEN Cardinality(Analyzing) ELSE Cardinality(Analyzing) + 1
          BY <2>2, FS_AddElement
        <5> QED  BY <2>2, <3>3, <5>1
      <4> QED  BY <2>2, <2>4, <4>1, <4>2
    <3> QED  BY <3>1, <3>2, <3>3, AnalyzingStep
  <2>6. ASSUME NEW v \in Workers PROVE Cardinality(claimed'[v]) <= Capacity
    <3>1. claimed[v] \in SUBSET Investigations /\ claimed'[v] \in SUBSET claimed[v]
      BY <1>2 DEF TypeOK, QueueTypeOK
    <3>2. IsFiniteSet(claimed[v]) /\ Cardinality(claimed[v]) \in Nat
          /\ Cardinality(claimed'[v]) \in Nat
      BY <3>1, SetsAreFinite
    <3>3. Cardinality(claimed'[v]) <= Cardinality(claimed[v])
      BY <3>1, <3>2, FS_Subset
    <3>4. Cardinality(claimed[v]) <= Capacity
      BY DEF WideReservedInv
    <3> QED  BY <3>2, <3>3, <3>4, QueueAssumption
  <2> QED  BY <2>5, <2>6 DEF WideReservedInv, AllWorkersCapacity
<1> QED  BY <1>1, <1>2, ClaimedStep

LEMMA WideReservedAlways ==
    ASSUME IsFiniteSet(Workers)
    PROVE  Spec => []WideReservedInv
<1>1. Init => WideReservedInv
  <2> SUFFICES ASSUME Init PROVE WideReservedInv
    OBVIOUS
  <2>1. Analyzing = {} /\ ClaimPairs = {} /\ \A w \in Workers : claimed[w] = {}
    BY DEF Init, QueueInit, Analyzing, With, ClaimPairs
  <2>2. AllWorkersCapacity \in Nat
    <3>1. Cardinality(Workers) \in Nat /\ Capacity \in Nat
      BY FS_CardinalityType, QueueAssumption
    <3> QED  BY <3>1 DEF AllWorkersCapacity
  <2> QED  BY <2>1, <2>2, FS_EmptySet, QueueAssumption DEF WideReservedInv
<1>2. TypeOK /\ TypeOK' /\ WideReservedInv /\ [Next]_vars => WideReservedInv'
  BY EveryStep, WideReservedNext
<1> QED  BY <1>1, <1>2, TypeCorrect, PTL DEF Spec

\* What is left of the promise of claim_deepagent_dispatches when several server
\* processes run the monitor loop: each may fill the free slots once more
\* while the rows that the others have claimed are still pending, and no step of
\* theirs goes beyond that.
WideSlots == INSTANCE SlotPool
               WITH Holders <- Investigations, held <- Analyzing, Capacity <- AllWorkersCapacity

LEMMA WideSlotsCount == \A S : WideSlots!Cardinality(S) = Cardinality(S)
BY DEF WideSlots!Cardinality, Cardinality, WideSlots!IsFiniteSet, IsFiniteSet

\* With any finite number of workers no more rows are analyzing than all of them
\* may claim together.
THEOREM CapacityOfAllWorkers ==
    ASSUME IsFiniteSet(Workers)
    PROVE  Spec => [](Cardinality(Analyzing) <= Capacity * Cardinality(Workers))
<1>1. TypeOK /\ WideReservedInv => Cardinality(Analyzing) <= Capacity * Cardinality(Workers)
  <2> SUFFICES ASSUME TypeOK, WideReservedInv
               PROVE  Cardinality(Analyzing) <= AllWorkersCapacity
    BY DEF AllWorkersCapacity
  <2> QED  BY ClaimsCounted DEF WideReservedInv
<1> QED  BY <1>1, TypeCorrect, WideReservedAlways, PTL

\* The queue implements that wider pool: one slot at a time is taken or given back.
THEOREM ImplementsWiderPool ==
    ASSUME IsFiniteSet(Workers)
    PROVE  Spec => WideSlots!Spec
<1>1. Init => WideSlots!Init
  BY DEF Init, QueueInit, WideSlots!Init, Analyzing, With
<1>2. TypeOK /\ TypeOK' /\ WideReservedInv /\ [Next]_vars => [WideSlots!Next]_Analyzing
  <2> SUFFICES ASSUME TypeOK, TypeOK', WideReservedInv, [Next]_vars
               PROVE  [WideSlots!Next]_Analyzing
    OBVIOUS
  <2>1. ASSUME NEW i \in Analyzing, Analyzing' = Analyzing \ {i}
        PROVE  WideSlots!Next
    BY <2>1, ClaimsCounted DEF WideSlots!Next, WideSlots!Release
  <2>2. ASSUME NEW w \in Workers, NEW i \in Investigations, DispatchBegin(w, i),
               Analyzing' = Analyzing \union {i}
        PROVE  [WideSlots!Next]_Analyzing
    <3>1. Cardinality(ClaimPairs) > 0
      <4>1. <<w, i>> \in ClaimPairs
        BY <2>2, DispatchedWasClaimed DEF DispatchBegin, ClaimPairs
      <4> QED  BY <4>1, ClaimsCounted, FS_EmptySet
    <3>2. Cardinality(Analyzing) < AllWorkersCapacity
      BY <3>1, ClaimsCounted DEF WideReservedInv
    <3>3. CASE i \in Analyzing
      BY <2>2, <3>3
    <3>4. CASE i \notin Analyzing
      BY <2>2, <3>2, <3>4, WideSlotsCount DEF WideSlots!Next, WideSlots!Acquire
    <3> QED  BY <3>3, <3>4
  <2> QED  BY <2>1, <2>2, EveryStep, AnalyzingStep
<1> QED  BY <1>1, <1>2, TypeCorrect, WideReservedAlways, PTL DEF Spec, WideSlots!Spec

-----------------------------------------------------------------------------
(* The job names and the order of the queue, for one worker.                *)

\* What a claimed row keeps until it is dispatched: its job name, and its place
\* before every pending row that was not claimed.  Rows are created in order,
\* so a new row comes last; requeues happen only while nothing is claimed.
ClaimInv ==
    /\ \A i \in Analyzing : bound[i]
    /\ \A w \in Workers : \A i \in claimed[w] : bound[i] /\ status[i] # "none"
    /\ \A w \in Workers : \A i \in claimed[w], j \in With("pending") \ claimed[w] : i < j
    /\ \A i \in With("none"), j \in Investigations \ With("none") : j < i

\* Every kind of step keeps the claimed rows bound and the oldest.
LEMMA ClaimInvNext ==
    ASSUME SingleWorker, TypeOK, LocksHeld, ReservedInv, ClaimInv, QueueStep
    PROVE  ClaimInv'
<1> USE DEF TypeOK, QueueTypeOK, Analyzing, With, ClaimInv
<1>0. \A i \in Investigations : i \in Int
  BY IdsAssumption DEF Investigations
<1>1. CASE Quiet
  BY <1>1 DEF Quiet
<1>2. ASSUME NEW i \in Investigations, NEW s \in {"failed", "deleted", "completed"},
             status[i] # "none", status' = [status EXCEPT ![i] = s],
             bound' = bound, claimed' = claimed
      PROVE  ClaimInv'
  BY <1>2
<1>3. ASSUME NEW w \in Workers, NEW i \in Investigations, NEW s \in {"failed", "analyzing"},
             i \in claimed[w], status' = [status EXCEPT ![i] = s],
             bound' = bound, claimed' = [claimed EXCEPT ![w] = @ \ {i}]
      PROVE  ClaimInv'
  <2>1. \A v \in Workers : claimed'[v] = claimed[v] \ {i}
    BY <1>3 DEF SingleWorker
  <2> QED  BY <1>3, <2>1
<1>4. ASSUME NEW i \in Investigations, RowStep(i)
      PROVE  ClaimInv'
  <2>1. CASE Create(i)
    <3>1. status[i] = "none" /\ \A j \in With("none") : i <= j
      BY <2>1, OldestIsMember DEF Create
    <3>2. status' = [status EXCEPT ![i] = "pending"] /\ claimed' = claimed /\ bound' = bound
      BY <2>1 DEF Create, workerVars
    <3> QED  BY <1>0, <3>1, <3>2
  <2>2. ASSUME NEW op \in {"stop", "delete"}, AdminCommit(op, i)
        PROVE  ClaimInv'
    BY <2>2, <1>1, <1>2 DEF AdminCommit, Exists, workerVars, Quiet
  <2>3. ASSUME NEW k \in Terminal, submit_external_result(i, k)
        PROVE  ClaimInv'
    BY <2>3, <1>1, <1>2 DEF submit_external_result, ResultReply, Terminal, rowVars, workerVars, Quiet
  <2> QED  BY <1>4, <2>1, <2>2, <2>3 DEF RowStep
<1>5. ASSUME NEW w \in Workers, TickStep(w)
      PROVE  ClaimInv'
  <2>1. CASE Abort(w)
    BY <2>1 DEF Abort, rowVars
  <2>2. CASE TickStart(w) \/ ClaimNothing(w) \/ DispatchEnd(w)
    BY <2>2 DEF TickStart, ClaimNothing, DispatchEnd, rowVars
  <2>3. CASE claim_deepagent_dispatches(w)
    <3>1. PICK P \in SUBSET {i \in With("pending") : Unlocked(i)} :
             /\ IsFirst(P, {i \in With("pending") : Unlocked(i)}, Available)
             /\ bound' = [i \in Investigations |-> i \in P \/ bound[i]]
             /\ claimed' = [claimed EXCEPT ![w] = P]
      BY <2>3 DEF claim_deepagent_dispatches
    <3>2. \A i \in With("pending") : Unlocked(i)
      BY DEF LocksHeld, Unlocked
    <3>3. \A i \in P, j \in With("pending") \ P : i < j
      BY <3>1, <3>2 DEF IsFirst
    <3>4. status' = status /\ \A v \in Workers : claimed'[v] = P
      BY <2>3, <3>1 DEF claim_deepagent_dispatches, SingleWorker
    <3>5. \A i \in P : bound'[i] /\ status[i] = "pending"
      BY <3>1
    <3>6. \A i \in Analyzing' : bound'[i]
      BY <3>1, <3>4
    <3> QED  BY <3>3, <3>4, <3>5, <3>6
  <2> QED  BY <1>5, <2>1, <2>2, <2>3 DEF TickStep
<1>6. ASSUME NEW w \in Workers, NEW i \in Investigations, ReconcileStep(w, i)
      PROVE  ClaimInv'
  <2>1. CASE ReconcileTimeout(w, i) \/ ReconcileTerminal(w, i)
    BY <2>1, <1>2 DEF ReconcileTimeout, ReconcileTerminal, ReconcileFail, Reconciled,
                      WritableBy, Exists
  <2>2. CASE ReconcileKeep(w, i) \/ ReconcileFound(w, i)
    BY <2>2 DEF ReconcileKeep, ReconcileFound, Reconciled, rowVars
  <2>3. CASE ReconcileMissing(w, i)
    <3>1. \A v \in Workers : claimed[v] = {}
      BY <2>3 DEF ReconcileMissing, Reconciled, ReservedInv, SingleWorker
    <3>2. /\ status[i] # "none" /\ status' = [status EXCEPT ![i] = "pending"]
          /\ bound' = [bound EXCEPT ![i] = FALSE] /\ claimed' = claimed
      BY <2>3 DEF ReconcileMissing, Reconciled, WritableBy, Exists
    <3> QED  BY <3>1, <3>2
  <2> QED  BY <1>6, <2>1, <2>2, <2>3 DEF ReconcileStep
<1>7. ASSUME NEW w \in Workers, NEW i \in Investigations, DispatchStep(w, i)
      PROVE  ClaimInv'
  <2>1. CASE DispatchRefused(w, i) \/ DispatchBegin(w, i)
    <3>1. i \in claimed[w]
      BY <2>1, DispatchedWasClaimed DEF DispatchRefused, DispatchBegin
    <3> QED  BY <2>1, <3>1, <1>3 DEF DispatchRefused, DispatchBegin
  <2>2. CASE PostOk(w, i) \/ PostUncertain(w, i)
    BY <2>2 DEF PostOk, PostUncertain, PostDone
  <2>3. CASE PostRejected(w, i)
    BY <2>3, <1>2 DEF PostRejected, PostDone, WritableBy, Exists
  <2> QED  BY <1>7, <2>1, <2>2, <2>3 DEF DispatchStep
<1> QED  BY <1>1, <1>4, <1>5, <1>6, <1>7 DEF QueueStep

\* With one worker the claimed rows are bound and the oldest in every state.
LEMMA ClaimInvAlways ==
    ASSUME SingleWorker
    PROVE  Spec => []ClaimInv
<1>1. Init => ClaimInv
  BY DEF Init, QueueInit, ClaimInv, Analyzing, With
<1>2. TypeOK /\ LocksHeld /\ ReservedInv /\ ClaimInv /\ [Next]_vars => ClaimInv'
  BY EveryStep, ClaimInvNext
<1> QED  BY <1>1, <1>2, TypeCorrect, LocksHeldAlways, ReservedAlways, PTL DEF Spec

\* With one worker a row that is analyzing always names its job.
THEOREM JobNamed ==
    ASSUME SingleWorker
    PROVE  Spec => []JobNamedWhileAnalyzing
<1>1. ClaimInv => JobNamedWhileAnalyzing
  BY DEF ClaimInv, JobNamedWhileAnalyzing
<1> QED  BY <1>1, ClaimInvAlways, PTL

\* With one worker rows leave the queue in created_at order, requeued rows
\* and rows created meanwhile included.
THEOREM DispatchIsFifo ==
    ASSUME SingleWorker
    PROVE  Spec => FifoDispatch
<1>1. TypeOK /\ ClaimInv /\ [Next]_vars
      => [\A i, j \in Investigations :
             i < j /\ status[j] = "pending" /\ status'[j] = "analyzing"
                => status'[i] # "pending"]_vars
  <2> SUFFICES ASSUME TypeOK, ClaimInv, [Next]_vars,
                      NEW i \in Investigations, NEW j \in Investigations,
                      i < j, status[j] = "pending", status'[j] = "analyzing",
                      status'[i] = "pending"
               PROVE  FALSE
    OBVIOUS
  <2>1. i \in Int /\ j \in Int
    BY IdsAssumption DEF Investigations
  <2>2. j \in Analyzing' /\ j \notin Analyzing
    BY DEF Analyzing, With
  <2>3. PICK w \in Workers, k \in Investigations :
           DispatchBegin(w, k) /\ Analyzing' = Analyzing \union {k}
    BY <2>2, EveryStep, AnalyzingStep
  <2>4. k = j /\ IsNextDispatch(w, j)
    BY <2>2, <2>3 DEF DispatchBegin
  <2>5. j \in claimed[w] /\ \A c \in claimed[w] : j <= c
    BY <2>4, DispatchedWasClaimed
  <2>6. i \in With("pending")
    BY <2>1, <2>3, <2>4 DEF DispatchBegin, With, TypeOK, QueueTypeOK
  <2>7. i \notin claimed[w]
    BY <2>1, <2>5
  <2> QED  BY <2>1, <2>5, <2>6, <2>7 DEF ClaimInv
<1> QED  BY <1>1, TypeCorrect, ClaimInvAlways, PTL DEF Spec, FifoDispatch

-----------------------------------------------------------------------------
(* The phase of an investigation, for any number of workers.                *)

\* Every reconciliation takes a row off the worker's list.
LEMMA ReconcileShortens ==
    ASSUME TypeOK, NEW w \in Workers, NEW i \in Investigations, Reconciled(w, i)
    PROVE  i \in todo[w] /\ i \notin todo'[w]
<1>1. todo[w] \in SUBSET Investigations /\ todo[w] # {} /\ i = Oldest(todo[w])
  BY DEF TypeOK, QueueTypeOK, Reconciled
<1>2. i \in todo[w]
  BY <1>1, OldestIsMember
<1> QED  BY <1>2 DEF TypeOK, QueueTypeOK, Reconciled

\* The steps that change prog: a status callback, which never lowers it, an
\* accepted result, and the commits of a worker.
LEMMA PhaseStep ==
    ASSUME TypeOK, [Next]_vars, NEW k \in Investigations, prog'[k] < prog[k]
    PROVE  status'[k] \in Terminal \/ workerVars' # workerVars
<1> USE DEF TypeOK, QueueTypeOK
<1>1. prog[k] \in 0..Len(Phases) /\ Len(Phases) \in Nat /\ prog' # prog
  BY PhaseFacts
<1>2. ASSUME NEW w \in Workers, NEW i \in Investigations, Reconciled(w, i)
      PROVE  workerVars' # workerVars
  BY <1>2, ReconcileShortens DEF workerVars
<1>3. ASSUME NEW w \in Workers, NEW i \in Investigations, PostDone(w, i)
      PROVE  workerVars' # workerVars
  BY <1>3 DEF PostDone, workerVars
<1>4. CASE ServerStep
  <2>1. ASSUME NEW i \in Investigations, Create(i) \/ Age(i) \/ Administer(i)
        PROVE  prog' = prog
    BY <2>1 DEF Create, Age, Administer, StopRead, DeleteRead, StopCommit, DeleteCommit,
                AdminCommit, Request, rowVars
  <2>2. ASSUME NEW w \in Workers, Local(w)
        PROVE  prog' = prog
    BY <2>2 DEF Local, TickStart, claim_deepagent_dispatches, ClaimNothing, DispatchEnd,
                TickEnd, Abort, ReconcileTimeout, ReconcileFail, ReconcileGone,
                DispatchRefused, rowVars
  <2> QED  BY <1>1, <1>4, <2>1, <2>2 DEF ServerStep
<1>5. ASSUME NEW w \in Workers, WorkerStep(w)
      PROVE  workerVars' # workerVars
  <2>1. ASSUME NEW i \in Investigations, GetJob(w, i)
        PROVE  Reconciled(w, i)
    BY <2>1 DEF GetJob, ReconcileMissing, ReconcileFound, ReconcileKeep, ReconcileTerminal,
                ReconcileFail
  <2>2. ASSUME NEW i \in Investigations,
               PostAnswered(w, i) \/ PostAmbiguous(w, i) \/ PostRefused(w, i)
        PROVE  PostDone(w, i)
    BY <2>2 DEF PostAnswered, PostAmbiguous, PostRefused, PostOk, PostUncertain, PostRejected
  <2>3. ASSUME NEW i \in Investigations,
               ServerCrash(w) \/ SendPost(w, i) \/ DeliverPost(w, i) \/ PostGone(w, i)
        PROVE  prog' = prog
    BY <2>3 DEF ServerCrash, Crash, Abort, SendPost, DispatchBegin, DeliverPost, PostGone,
                DispatchGone, queueVars, rowVars
  <2> QED  BY <1>1, <1>2, <1>3, <1>5, <2>1, <2>2, <2>3 DEF WorkerStep
<1>6. ASSUME NEW i \in Investigations, JobStep(i) \/ AttemptTimeout(i)
      PROVE  prog' = prog
  BY <1>6 DEF JobStep, AttemptTimeout, queueVars, rowVars
<1>7. ASSUME NEW m \in net, Lose(m)
      PROVE  prog' = prog
  BY <1>7 DEF Lose, queueVars, rowVars
<1>8. ASSUME NEW m \in net, HandleStatus(m)
      PROVE  prog'[k] >= prog[k]
  <2>1. m.inv \in Investigations /\ m.n \in 0..Len(Phases)
    BY <1>8, CallbackFacts, PhaseFacts DEF HandleStatus
  <2>2. prog' = prog \/ (m.n >= prog[m.inv] /\ prog' = [prog EXCEPT ![m.inv] = m.n])
    BY <1>8 DEF HandleStatus, update_investigation_status
  <2>3. prog[k] \in Nat /\ prog \in [Investigations -> 0..Len(Phases)]
    BY <1>1
  <2>4. CASE m.inv = k /\ prog' = [prog EXCEPT ![m.inv] = m.n] /\ m.n >= prog[m.inv]
    <3>1. prog'[k] = m.n
      BY <2>3, <2>4
    <3> QED  BY <2>4, <3>1
  <2>5. CASE m.inv # k /\ prog' = [prog EXCEPT ![m.inv] = m.n]
    <3>1. prog'[k] = prog[k]
      BY <2>3, <2>5
    <3> QED  BY <2>3, <3>1
  <2> QED  BY <1>1, <2>2, <2>4, <2>5
<1>9. ASSUME NEW m \in net, HandleResult(m)
      PROVE  status'[k] \in Terminal
  <2>1. m.inv \in Investigations /\ m.type \in Terminal
    BY <1>9, CallbackFacts DEF HandleResult
  <2>2. /\ prog' = [prog EXCEPT ![m.inv] = 0]
        /\ status' = [status EXCEPT ![m.inv] = m.type]
    BY <1>1, <1>9 DEF HandleResult, submit_external_result, rowVars
  <2> QED  BY <1>1, <2>1, <2>2
<1>10. CASE DeepAgentRestart \/ UNCHANGED vars
  BY <1>1, <1>10 DEF DeepAgentRestart, vars, queueVars, rowVars
<1>11. prog'[k] \in Int
  <2>1. TypeOK'
    BY TypeNext
  <2> QED  BY <2>1, <1>1
<1> QED
  <2>1. CASE \E m \in net : HandleStatus(m)
    BY <1>1, <1>8, <1>11, <2>1
  <2> QED  BY <1>1, <1>4, <1>5, <1>6, <1>7, <1>9, <1>10, <2>1 DEF Next

\* The order test of update_investigation_status is enough: whatever overtakes
\* what, only a final result or the commit of a worker lowers the phase.
THEOREM PhasesAdvance == Spec => PhaseNeverRegresses
<1>1. TypeOK /\ [Next]_vars
      => [\A i \in Investigations :
             prog'[i] < prog[i] => status'[i] \in Terminal \/ workerVars' # workerVars]_vars
  BY PhaseStep
<1> QED  BY <1>1, TypeCorrect, PTL DEF Spec, PhaseNeverRegresses

-----------------------------------------------------------------------------
(* One result per investigation, for one worker.                            *)

\* DeepAgent knows the investigation of every callback under way, and of every
\* result that was taken.  Only a restart makes it forget them.
JobsKnown ==
    \A i \in Investigations :
       accepted[i] > 0 \/ (\E m \in net : m.inv = i) => job[i] # "absent"

\* With a single row the tick that reconciles it still holds its lock.
LockedWhileReconciled == N = 1 => \A w \in Workers : todo[w] \subseteq locks[w]

\* A row that has its result is over and is no longer claimed, and a claimed row
\* is not analyzing: only its own worker dispatches it.
ResultInv ==
    /\ \A i \in Investigations :
          /\ accepted[i] <= 1
          /\ accepted[i] > 0 => status[i] \in Terminal \union {"deleted"}
    /\ \A w \in Workers : \A i \in claimed[w] : accepted[i] = 0 /\ status[i] # "analyzing"

\* Results are counted by the result callback alone, of a row that is analyzing.
LEMMA AcceptedStep ==
    ASSUME TypeOK, [Next]_vars, NEW k \in Investigations
    PROVE  \/ accepted'[k] = accepted[k]
           \/ /\ accepted'[k] \in {accepted[k], accepted[k] + 1}
              /\ status[k] = "analyzing"
              /\ status'[k] \in Terminal
              /\ \E m \in net : m.inv = k /\ HandleResult(m)
<1> USE DEF TypeOK, QueueTypeOK
<1>1. CASE ServerStep
  <2>1. ASSUME NEW i \in Investigations, Create(i) \/ Age(i) \/ Administer(i)
        PROVE  accepted' = accepted
    BY <2>1 DEF Create, Age, Administer, StopRead, DeleteRead, StopCommit, DeleteCommit,
                AdminCommit, Request, rowVars
  <2>2. ASSUME NEW w \in Workers, Local(w)
        PROVE  accepted' = accepted
    BY <2>2 DEF Local, TickStart, claim_deepagent_dispatches, ClaimNothing, DispatchEnd,
                TickEnd, Abort, ReconcileTimeout, ReconcileFail, ReconcileGone,
                DispatchRefused, rowVars
  <2> QED  BY <1>1, <2>1, <2>2 DEF ServerStep
<1>2. ASSUME NEW w \in Workers, WorkerStep(w)
      PROVE  accepted' = accepted
  <2>1. ASSUME NEW i \in Investigations, GetJob(w, i)
        PROVE  accepted' = accepted
    BY <2>1 DEF GetJob, ReconcileMissing, ReconcileFound, ReconcileKeep, ReconcileTerminal,
                ReconcileFail, rowVars
  <2>2. ASSUME NEW i \in Investigations,
               PostAnswered(w, i) \/ PostAmbiguous(w, i) \/ PostRefused(w, i)
        PROVE  accepted' = accepted
    BY <2>2 DEF PostAnswered, PostAmbiguous, PostRefused, PostOk, PostUncertain, PostRejected,
                PostDone
  <2>3. ASSUME NEW i \in Investigations,
               ServerCrash(w) \/ SendPost(w, i) \/ DeliverPost(w, i) \/ PostGone(w, i)
        PROVE  accepted' = accepted
    BY <2>3 DEF ServerCrash, Crash, Abort, SendPost, DispatchBegin, DeliverPost, PostGone,
                DispatchGone, queueVars, rowVars
  <2>4. CASE ServerCrash(w)
    BY <2>4 DEF ServerCrash, Crash, Abort, rowVars
  <2> QED  BY <1>2, <2>1, <2>2, <2>3, <2>4 DEF WorkerStep
<1>3. ASSUME NEW i \in Investigations, JobStep(i) \/ AttemptTimeout(i)
      PROVE  accepted' = accepted
  BY <1>3 DEF JobStep, AttemptTimeout, queueVars, rowVars
<1>4. ASSUME NEW m \in net, Lose(m) \/ HandleStatus(m)
      PROVE  accepted' = accepted
  BY <1>4 DEF Lose, HandleStatus, update_investigation_status, queueVars, rowVars
<1>5. ASSUME NEW m \in net, HandleResult(m), accepted'[k] # accepted[k]
      PROVE  /\ accepted'[k] \in {accepted[k], accepted[k] + 1}
             /\ status[k] = "analyzing"
             /\ status'[k] \in Terminal
             /\ m.inv = k
  <2>1. m.inv \in Investigations /\ m.type \in Terminal
    BY <1>5, CallbackFacts DEF HandleResult
  <2>2. /\ ResultReply(m.inv) = "accepted"
        /\ status' = [status EXCEPT ![m.inv] = m.type]
        /\ accepted' = [accepted EXCEPT ![m.inv] = IF @ < MaxAccepts THEN @ + 1 ELSE @]
    BY <1>5 DEF HandleResult, submit_external_result, rowVars
  <2>3. m.inv = k
    BY <1>5, <2>2
  <2>4. status[k] = "analyzing"
    BY <2>2, <2>3 DEF ResultReply
  <2> QED  BY <2>1, <2>2, <2>3, <2>4
<1>6. CASE DeepAgentRestart \/ UNCHANGED vars
  BY <1>6 DEF DeepAgentRestart, vars, queueVars, rowVars
<1> QED  BY <1>1, <1>2, <1>3, <1>4, <1>5, <1>6 DEF Next

\* A row that is over stays so, unless a worker with a copy of it is told that
\* DeepAgent does not know the job, or has claimed it.
LEMMA OverStep ==
    ASSUME TypeOK, [Next]_vars, NEW k \in Investigations,
           status[k] \in Terminal \union {"deleted"},
           status'[k] \notin Terminal \union {"deleted"}
    PROVE  \/ job[k] = "absent" /\ \E w \in Workers : k \in todo[w]
           \/ \E w \in Workers : k \in claimed[w]
<1> DEFINE Goal == \/ job[k] = "absent" /\ \E w \in Workers : k \in todo[w]
                   \/ \E w \in Workers : k \in claimed[w]
<1> USE DEF TypeOK, QueueTypeOK
<1>0. status[k] \notin {"none", "pending", "analyzing"} /\ status' # status
  BY DEF Terminal
<1>1. ASSUME NEW i \in Investigations, Create(i) \/ Age(i) \/ Administer(i)
      PROVE  FALSE
  <2>1. CASE Create(i)
    <3>1. status[i] = "none" /\ status' = [status EXCEPT ![i] = "pending"]
      <4>1. With("none") \in SUBSET Investigations
        BY DEF With
      <4>2. i \in With("none")
        BY <2>1, <4>1, OldestIsMember DEF Create
      <4> QED  BY <2>1, <4>2 DEF Create, With
    <3> QED  BY <1>0, <3>1
  <2>2. CASE Age(i)
    BY <1>0, <2>2 DEF Age
  <2>3. ASSUME NEW op \in {"stop", "delete"}, AdminCommit(op, i)
        PROVE  FALSE
    BY <1>0, <2>3 DEF AdminCommit, Terminal
  <2>4. CASE StopRead(i) \/ DeleteRead(i)
    BY <1>0, <2>4 DEF StopRead, DeleteRead, Request, rowVars
  <2> QED  BY <1>1, <2>1, <2>2, <2>3, <2>4 DEF Administer, StopCommit, DeleteCommit
<1>2. ASSUME NEW w \in Workers, NEW i \in Investigations, DispatchRefused(w, i) \/ ReconcileTimeout(w, i)
      PROVE  FALSE
  BY <1>0, <1>2 DEF DispatchRefused, ReconcileTimeout, ReconcileFail, Terminal
<1>3. ASSUME NEW w \in Workers, Local(w)
      PROVE  FALSE
  BY <1>0, <1>2, <1>3 DEF Local, TickStart, claim_deepagent_dispatches, ClaimNothing,
          DispatchEnd, TickEnd, Abort, ReconcileGone, rowVars
<1>4. ASSUME NEW w \in Workers, NEW i \in Investigations, GetJob(w, i)
      PROVE  Goal
  <2>1. CASE job[i] = "absent" /\ ReconcileMissing(w, i)
    <3>1. i = k
      BY <2>1 DEF ReconcileMissing
    <3>2. k \in todo[w]
      BY <2>1, <3>1, ReconcileShortens DEF ReconcileMissing
    <3> QED  BY <2>1, <3>1, <3>2
  <2>2. CASE ReconcileFound(w, i) \/ ReconcileKeep(w, i) \/ ReconcileTerminal(w, i)
    BY <1>0, <2>2 DEF ReconcileFound, ReconcileKeep, ReconcileTerminal, ReconcileFail,
            Terminal, rowVars
  <2> QED  BY <1>4, <2>1, <2>2 DEF GetJob
<1>5. ASSUME NEW w \in Workers, NEW i \in Investigations, SendPost(w, i)
      PROVE  Goal
  <2>1. DispatchBegin(w, i) /\ i = k
    BY <1>5 DEF SendPost, DispatchBegin
  <2> QED  BY <2>1, DispatchedWasClaimed DEF DispatchBegin
<1>6. ASSUME NEW w \in Workers, WorkerStep(w)
      PROVE  Goal
  <2>1. CASE ServerCrash(w)
    BY <1>0, <2>1 DEF ServerCrash, Crash, Abort, rowVars
  <2>2. ASSUME NEW i \in Investigations, DeliverPost(w, i) \/ PostGone(w, i)
        PROVE  FALSE
    BY <1>0, <2>2 DEF DeliverPost, PostGone, DispatchGone, Abort, queueVars, rowVars
  <2>3. ASSUME NEW i \in Investigations,
               PostAnswered(w, i) \/ PostAmbiguous(w, i) \/ PostRefused(w, i)
        PROVE  FALSE
    BY <1>0, <2>3 DEF PostAnswered, PostAmbiguous, PostRefused, PostOk, PostUncertain,
            PostRejected, Terminal
  <2> QED  BY <1>4, <1>5, <1>6, <2>1, <2>2, <2>3 DEF WorkerStep
<1>7. ASSUME NEW i \in Investigations, JobStep(i) \/ AttemptTimeout(i)
      PROVE  FALSE
  BY <1>0, <1>7 DEF JobStep, AttemptTimeout, queueVars, rowVars
<1>8. ASSUME NEW m \in net, Lose(m) \/ HandleStatus(m) \/ HandleResult(m)
      PROVE  FALSE
  <2>1. CASE HandleResult(m)
    <3>1. m.inv \in Investigations /\ m.type \in Terminal
      BY <2>1, CallbackFacts DEF HandleResult
    <3> QED  BY <1>0, <2>1, <3>1 DEF HandleResult, submit_external_result, rowVars
  <2>2. CASE Lose(m) \/ HandleStatus(m)
    BY <1>0, <2>2 DEF Lose, HandleStatus, update_investigation_status, queueVars, rowVars
  <2> QED  BY <1>8, <2>1, <2>2
<1>9. CASE DeepAgentRestart \/ UNCHANGED vars
  BY <1>0, <1>9 DEF DeepAgentRestart, vars, queueVars, rowVars
<1> QED  BY <1>1, <1>3, <1>6, <1>7, <1>8, <1>9 DEF Next, ServerStep

\* No step but a restart of DeepAgent forgets a job.
LEMMA JobsKnownNext ==
    ASSUME TypeOK, JobsKnown, [Next]_vars, "deepagent_restart" \notin Faults
    PROVE  JobsKnown'
<1> USE DEF TypeOK, JobsTypeOK
<1>1. \A i \in Investigations : job[i] # "absent" => job'[i] # "absent"
  <2>1. ASSUME NEW w \in Workers, WorkerStep(w)
        PROVE  \A i \in Investigations : job[i] # "absent" => job'[i] # "absent"
    BY <2>1 DEF WorkerStep, ServerCrash, GetJob, SendPost, DeliverPost, CreateJob, PostAnswered,
            PostAmbiguous, PostRefused, PostGone, jobVars
  <2>2. ASSUME NEW j \in Investigations, JobStep(j)
        PROVE  \A i \in Investigations : job[i] # "absent" => job'[i] # "absent"
    BY <2>2 DEF JobStep, StartJob, FinishGraph, FailGraph, ReportPhase, SubmitAttempt
  <2>3. ASSUME NEW j \in Investigations, AttemptFails(j) \/ AttemptSucceeds(j)
        PROVE  \A i \in Investigations : job[i] # "absent" => job'[i] # "absent"
    BY <2>3 DEF AttemptFails, AttemptSucceeds
  <2>4. ASSUME NEW m \in net, Lose(m) \/ HandleStatus(m) \/ HandleResult(m)
        PROVE  \A i \in Investigations : job[i] # "absent" => job'[i] # "absent"
    BY <2>3, <2>4, CallbackFacts DEF Lose, HandleStatus, HandleResult, jobVars
  <2>5. CASE ServerStep \/ UNCHANGED vars
    BY <2>5 DEF ServerStep, vars, jobVars
  <2> QED
    BY <2>1, <2>2, <2>3, <2>4, <2>5 DEF Next, AttemptTimeout, DeepAgentRestart, Fault
<1>2. ASSUME NEW i \in Investigations, NEW m \in net', m.inv = i, m \notin net
      PROVE  job[i] # "absent"
  <2>1. ASSUME NEW j \in Investigations, JobStep(j)
        PROVE  i = j /\ job[j] \in {"running", "submitting"}
    BY <1>2, <2>1 DEF JobStep, Send, ReportPhase, SubmitAttempt
  <2>2. ASSUME NEW w \in Workers, WorkerStep(w)
        PROVE  net' = net
    BY <2>2 DEF WorkerStep, ServerCrash, GetJob, SendPost, DeliverPost, PostAnswered,
            PostAmbiguous, PostRefused, PostGone, netVars
  <2>3. ASSUME NEW n \in net, Lose(n) \/ HandleStatus(n) \/ HandleResult(n)
        PROVE  net' \subseteq net
    BY <2>3 DEF Lose, HandleStatus, HandleResult
  <2>4. ASSUME ServerStep \/ DeepAgentRestart \/ UNCHANGED vars
        PROVE  net' = net
    BY <2>4 DEF ServerStep, DeepAgentRestart, vars, netVars
  <2> QED  BY <1>2, <2>1, <2>2, <2>3, <2>4 DEF Next, AttemptTimeout, netVars
<1>3. ASSUME NEW i \in Investigations, accepted'[i] > 0, ~(accepted[i] > 0)
      PROVE  job[i] # "absent"
  BY <1>3, AcceptedStep DEF JobsKnown
<1> QED  BY <1>1, <1>2, <1>3 DEF JobsKnown

\* A single row is reconciled under its lock: the commit that releases the lock
\* leaves nothing to reconcile.
LEMMA LockedNext ==
    ASSUME TypeOK, LockedWhileReconciled, QueueStep
    PROVE  LockedWhileReconciled'
<1> SUFFICES ASSUME N = 1, NEW v \in Workers
             PROVE  todo'[v] \subseteq locks'[v]
  BY DEF LockedWhileReconciled
<1> USE DEF TypeOK, QueueTypeOK
<1>1. todo[v] \subseteq locks[v] /\ \A i, j \in Investigations : i = j
  BY DEF LockedWhileReconciled, Investigations
<1>2. CASE Quiet
  BY <1>1, <1>2 DEF Quiet
<1>3. ASSUME NEW i \in Investigations, RowStep(i)
      PROVE  todo' = todo /\ locks' = locks
  BY <1>3 DEF RowStep, Create, AdminCommit, submit_external_result, workerVars
<1>4. ASSUME NEW w \in Workers, TickStep(w)
      PROVE  todo'[v] \subseteq locks'[v]
  <2>1. CASE Abort(w)
    BY <1>1, <2>1 DEF Abort
  <2>2. CASE TickStart(w)
    BY <1>1, <2>2 DEF TickStart
  <2>3. CASE claim_deepagent_dispatches(w)
    <3>1. todo' = todo /\ todo[w] = {} /\ locks' = [locks EXCEPT ![w] = {}]
      BY <2>3 DEF claim_deepagent_dispatches, CommitReleases
    <3> QED  BY <1>1, <3>1
  <2>4. CASE ClaimNothing(w) \/ DispatchEnd(w)
    BY <1>1, <2>4 DEF ClaimNothing, DispatchEnd
  <2> QED  BY <1>4, <2>1, <2>2, <2>3, <2>4 DEF TickStep
<1>5. ASSUME NEW w \in Workers, NEW i \in Investigations, ReconcileStep(w, i)
      PROVE  todo'[v] \subseteq locks'[v]
  <2>1. Reconciled(w, i) /\ \A u \in Workers \ {w} : locks'[u] = locks[u] /\ todo'[u] = todo[u]
    BY <1>5 DEF ReconcileStep, ReconcileTimeout, ReconcileTerminal, ReconcileFail,
                ReconcileKeep, ReconcileFound, ReconcileMissing, Reconciled, CommitReleases
  <2>2. todo'[w] = {}
    <3>1. i \notin todo'[w]
      BY <2>1, ReconcileShortens
    <3>2. todo'[w] \subseteq Investigations
      BY <2>1 DEF Reconciled
    <3> QED  BY <1>1, <3>1, <3>2
  <2> QED  BY <1>1, <2>1, <2>2
<1>6. ASSUME NEW w \in Workers, NEW i \in Investigations, DispatchStep(w, i)
      PROVE  todo' = todo /\ locks' = locks
  BY <1>6 DEF DispatchStep, DispatchRefused, DispatchBegin, PostOk, PostUncertain,
              PostRejected, PostDone
<1> QED  BY <1>1, <1>2, <1>3, <1>4, <1>5, <1>6 DEF QueueStep

\* What keeps a second result away: nothing brings a row that has its result
\* back to the queue.
LEMMA ResultNext ==
    ASSUME SingleWorker, TypeOK, LocksHeld, ResultInv, [Next]_vars,
           \/ LockedWhileReconciled /\ N = 1
           \/ JobsKnown
    PROVE  ResultInv'
<1> USE DEF TypeOK, QueueTypeOK
<1>0. QueueStep
  BY EveryStep
<1>1. ASSUME NEW i \in Investigations
      PROVE  /\ accepted'[i] <= 1
             /\ accepted'[i] > 0 => status'[i] \in Terminal \union {"deleted"}
  <2>1. CASE accepted'[i] # accepted[i]
    <3>1. status[i] = "analyzing" /\ status'[i] \in Terminal
          /\ accepted'[i] = accepted[i] + 1
      BY <2>1, AcceptedStep
    <3>2. accepted[i] = 0
      <4>1. accepted[i] \in Nat
        BY QueueAssumption
      <4>2. ~(accepted[i] > 0)
        BY <3>1 DEF ResultInv, Terminal
      <4> QED  BY <4>1, <4>2
    <3> QED  BY <3>1, <3>2
  <2>2. CASE accepted'[i] = accepted[i] /\ accepted[i] > 0
    <3>1. status[i] \in Terminal \union {"deleted"} /\ accepted[i] <= 1
      BY <2>2 DEF ResultInv
    <3>2. \A w \in Workers : i \notin claimed[w]
      BY <2>2 DEF ResultInv
    <3>3. ~(job[i] = "absent" /\ \E w \in Workers : i \in todo[w])
      <4>1. CASE LockedWhileReconciled /\ N = 1
        BY <3>1, <4>1 DEF LockedWhileReconciled, LocksHeld, Analyzing, With, Terminal
      <4>2. CASE JobsKnown
        BY <2>2, <4>2 DEF JobsKnown
      <4> QED  BY <4>1, <4>2
    <3> QED  BY <2>2, <3>1, <3>2, <3>3, OverStep
  <2> QED  BY <2>1, <2>2 DEF ResultInv
<1>2. ASSUME NEW w \in Workers, NEW i \in claimed'[w]
      PROVE  accepted'[i] = 0 /\ status'[i] # "analyzing"
  <2>0. i \in Investigations
    <3>1. TypeOK'
      BY TypeNext
    <3> QED  BY <3>1
  <2>1. accepted[i] = 0 /\ status[i] # "analyzing"
    <3>1. CASE i \in claimed[w]
      BY <3>1 DEF ResultInv
    <3>2. CASE claim_deepagent_dispatches(w)
      <4>1. i \in With("pending")
        BY <3>2 DEF claim_deepagent_dispatches
      <4>2. ~(accepted[i] > 0)
        <5>1. status[i] \notin Terminal \union {"deleted"}
          BY <4>1 DEF With, Terminal
        <5> QED  BY <2>0, <5>1 DEF ResultInv
      <4>3. accepted[i] \in Nat
        BY <2>0, QueueAssumption
      <4> QED  BY <4>1, <4>2, <4>3 DEF With
    <3> QED  BY <1>0, <3>1, <3>2, ClaimedStep
  <2>2. accepted'[i] = 0
    BY <2>0, <2>1, AcceptedStep
  <2>3. ASSUME status'[i] = "analyzing"
        PROVE  FALSE
    <3>1. i \in Analyzing' /\ i \notin Analyzing
      BY <2>0, <2>1, <2>3 DEF Analyzing, With
    <3>2. PICK u \in Workers, k \in Investigations :
             DispatchBegin(u, k) /\ Analyzing' = Analyzing \union {k}
      BY <1>0, <3>1, AnalyzingStep
    <3>3. k = i /\ u = w
      BY <3>1, <3>2 DEF SingleWorker
    <3> QED  BY <1>2, <3>2, <3>3 DEF DispatchBegin
  <2> QED  BY <2>1, <2>2, <2>3
<1> QED  BY <1>1, <1>2 DEF ResultInv

\* Both situations are kept from the start.
LEMMA ResultAlways ==
    ASSUME SingleWorker, N = 1 \/ "deepagent_restart" \notin Faults
    PROVE  Spec => []ResultInv
<1>1. Init => ResultInv /\ JobsKnown /\ LockedWhileReconciled
  BY DEF Init, QueueInit, JobsInit, ResultInv, JobsKnown, LockedWhileReconciled
<1>2. TypeOK /\ LockedWhileReconciled /\ [Next]_vars => LockedWhileReconciled'
  BY EveryStep, LockedNext
<1>3. CASE N = 1
  <2>1. TypeOK /\ LocksHeld /\ LockedWhileReconciled /\ ResultInv /\ [Next]_vars => ResultInv'
    BY <1>3, ResultNext
  <2> QED  BY <1>1, <1>2, <2>1, TypeCorrect, LocksHeldAlways, PTL DEF Spec
<1>4. CASE "deepagent_restart" \notin Faults
  <2>1. TypeOK /\ JobsKnown /\ [Next]_vars => JobsKnown'
    BY <1>4, JobsKnownNext
  <2>2. TypeOK /\ LocksHeld /\ JobsKnown /\ ResultInv /\ [Next]_vars => ResultInv'
    BY ResultNext
  <2> QED  BY <1>1, <2>1, <2>2, TypeCorrect, LocksHeldAlways, PTL DEF Spec
<1> QED  BY <1>3, <1>4

\* With one worker an investigation takes one result, through retries, late and
\* lost callbacks, crashes of the server, stops and deletions.  DeepAgent may also
\* restart as long as there is one row; with two the theorem would be false.
THEOREM ResultTakenOnce ==
    ASSUME SingleWorker, N = 1 \/ "deepagent_restart" \notin Faults
    PROVE  Spec => []AcceptedOnce
<1>1. ResultInv => AcceptedOnce
  BY DEF ResultInv, AcceptedOnce
<1> QED  BY <1>1, ResultAlways, PTL
=============================================================================
