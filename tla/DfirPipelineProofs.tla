------------------------- MODULE DfirPipelineProofs -------------------------
(***************************************************************************)
(* What holds of the DFIR pipeline for every number of investigations,      *)
(* every capacity, every bound and every set of faults.                     *)
(***************************************************************************)
EXTENDS DfirPipeline, FiniteSetTheorems, WellFoundedInduction, TLAPS

-----------------------------------------------------------------------------
(* Facts about the data.                                                    *)

\* The phases a status callback can name are hermes_status values.
LEMMA PhaseFacts ==
    /\ Len(Phases) = 3
    /\ \A p \in 1..NumPhases : Phases[p] \in HermesStatus /\ p \in 0..Len(Phases)
<1>1. Len(Phases) = 3 /\ Phases[1] = "running" /\ Phases[2] = "collecting"
      /\ Phases[3] = "finalizing"
  BY DEF Phases
<1>2. NumPhases \in 0..3
  BY <1>1, PipelineAssumption
<1>3. \A p \in 1..NumPhases : p = 1 \/ p = 2 \/ p = 3
  BY <1>2
<1> QED  BY <1>1, <1>3 DEF HermesStatus

\* A callback names an investigation; it is a progress report of one of the
\* job's phases or carries a terminal status.
LEMMA CallbackFacts ==
    ASSUME NEW m \in Callback
    PROVE  /\ m.inv \in Investigations
           /\ m.type = "status" => m.n \in 1..NumPhases
           /\ m.type # "status" => m.type \in Terminal
BY DEF Callback, Terminal

\* Oldest picks a member of a non-empty set of investigations.
LEMMA OldestIsMember ==
    ASSUME NEW S \in SUBSET Investigations, S # {}
    PROVE  Oldest(S) \in S /\ \A j \in S : Oldest(S) <= j
<1>1. S \subseteq Nat
  BY IdsAssumption DEF Investigations
<1>2. \E i \in S : \A j \in S : ~(<<j, i>> \in OpToRel(<, Nat))
  BY <1>1, WFMin, NatLessThanWellFounded
<1>3. PICK i \in S : \A j \in S : ~(<<j, i>> \in OpToRel(<, Nat))
  BY <1>2
<1>4. ASSUME NEW j \in S
      PROVE  i <= j
  <2>1. i \in Nat /\ j \in Nat
    BY <1>1, <1>3
  <2>2. j < i => <<j, i>> \in OpToRel(<, Nat)
    BY <2>1 DEF OpToRel
  <2>3. ~(j < i)
    BY <1>3, <2>2, Zenon
  <2> QED  BY <2>1, <2>3
<1> QED  BY <1>3, <1>4 DEF Oldest

\* A set of investigations is finite.
LEMMA SetsAreFinite ==
    ASSUME NEW S \in SUBSET Investigations
    PROVE  IsFiniteSet(S) /\ Cardinality(S) \in Nat
<1>1. IsFiniteSet(Investigations)
  BY IdsAssumption, FS_Interval DEF Investigations
<1>2. IsFiniteSet(S)
  BY <1>1, FS_Subset
<1> QED  BY <1>2, FS_CardinalityType

-----------------------------------------------------------------------------
(* Type correctness.                                                        *)

\* The steps of the server's queue keep its variables well typed.
LEMMA QueueTypeInit == QueueInit => QueueTypeOK
BY QueueAssumption DEF QueueInit, QueueTypeOK, Status, HermesStatus, Terminal, PCs, Phases

\* A tick that ends early, or at its end, leaves the queue well typed.
LEMMA AbortType ==
    ASSUME QueueTypeOK, NEW w \in Workers, Abort(w)
    PROVE  QueueTypeOK'
BY DEF QueueTypeOK, Abort, rowVars, PCs

\* The administrator's requests keep the types.
LEMMA AdminType ==
    ASSUME QueueTypeOK, NEW i \in Investigations,
           Create(i) \/ Age(i) \/ Administer(i)
    PROVE  QueueTypeOK'
<1>1. CASE Create(i)
  BY <1>1 DEF QueueTypeOK, Create, workerVars, Status
<1>2. CASE Age(i)
  BY <1>2 DEF QueueTypeOK, Age, workerVars
<1>3. CASE StopRead(i)
  BY <1>3 DEF QueueTypeOK, StopRead, Request, rowVars, workerVars
<1>4. CASE DeleteRead(i)
  BY <1>4 DEF QueueTypeOK, DeleteRead, Request, rowVars, workerVars
<1>5. CASE StopCommit(i)
  BY <1>5 DEF QueueTypeOK, StopCommit, AdminCommit, workerVars, Status, Terminal
<1>6. CASE DeleteCommit(i)
  BY <1>6 DEF QueueTypeOK, DeleteCommit, AdminCommit, workerVars, Status
<1> QED  BY <1>1, <1>2, <1>3, <1>4, <1>5, <1>6 DEF Administer

\* Every outcome of a reconciliation keeps the types.
LEMMA ReconcileType ==
    ASSUME QueueTypeOK, NEW w \in Workers, NEW i \in Investigations,
           \/ ReconcileTimeout(w, i) \/ ReconcileTerminal(w, i)
           \/ ReconcileKeep(w, i) \/ ReconcileFound(w, i)
           \/ ReconcileMissing(w, i)
    PROVE  QueueTypeOK'
<1> USE DEF QueueTypeOK, Reconciled, CommitReleases, Status, HermesStatus
<1>1. CASE ReconcileTimeout(w, i)
  BY <1>1 DEF ReconcileTimeout, ReconcileFail, Terminal
<1>2. CASE ReconcileTerminal(w, i)
  BY <1>2 DEF ReconcileTerminal, ReconcileFail, Terminal
<1>3. CASE ReconcileKeep(w, i)
  BY <1>3 DEF ReconcileKeep, rowVars
<1>4. CASE ReconcileFound(w, i)
  BY <1>4, PhaseFacts DEF ReconcileFound
<1>5. CASE ReconcileMissing(w, i)
  BY <1>5, PhaseFacts DEF ReconcileMissing
<1> QED  BY <1>1, <1>2, <1>3, <1>4, <1>5

\* So does what a worker does without DeepAgent.
LEMMA LocalType ==
    ASSUME QueueTypeOK, NEW w \in Workers, Local(w)
    PROVE  QueueTypeOK'
<1>1. CASE TickStart(w)
  BY <1>1 DEF QueueTypeOK, TickStart, rowVars, PCs, Analyzing, With
<1>2. CASE claim_deepagent_dispatches(w)
  <2>1. PICK P \in SUBSET {i \in With("pending") : Unlocked(i)} :
          /\ bound' = [i \in Investigations |-> i \in P \/ bound[i]]
          /\ claimed' = [claimed EXCEPT ![w] = P]
    BY <1>2 DEF claim_deepagent_dispatches
  <2>2. P \in SUBSET Investigations
    BY <2>1 DEF With
  <2>3. bound' \in [Investigations -> BOOLEAN]
    BY <2>1
  <2>4. claimed' \in [Workers -> SUBSET Investigations]
    BY <2>1, <2>2 DEF QueueTypeOK
  <2> QED
    BY <1>2, <2>3, <2>4
    DEF QueueTypeOK, claim_deepagent_dispatches, CommitReleases, PCs
<1>3. CASE ClaimNothing(w) \/ DispatchEnd(w)
  BY <1>3 DEF QueueTypeOK, ClaimNothing, DispatchEnd, rowVars, PCs
<1>4. CASE TickEnd(w)
  BY <1>4, AbortType DEF TickEnd
<1>5. ASSUME NEW i \in Investigations, ReconcileTimeout(w, i)
      PROVE  QueueTypeOK'
  BY <1>5, ReconcileType
<1>6. ASSUME NEW i \in Investigations, ReconcileGone(w, i)
      PROVE  QueueTypeOK'
  BY <1>6, AbortType DEF ReconcileGone
<1>7. ASSUME NEW i \in Investigations, DispatchRefused(w, i)
      PROVE  QueueTypeOK'
  BY <1>7 DEF QueueTypeOK, DispatchRefused, Status, Terminal
<1> QED  BY <1>1, <1>2, <1>3, <1>4, <1>5, <1>6, <1>7 DEF Local

\* The commits before and after the POST keep the types.
LEMMA DispatchType ==
    ASSUME QueueTypeOK, NEW w \in Workers, NEW i \in Investigations,
           \/ DispatchBegin(w, i) \/ PostOk(w, i) \/ PostUncertain(w, i)
           \/ PostRejected(w, i) \/ DispatchGone(w, i)
    PROVE  QueueTypeOK'
<1> USE DEF QueueTypeOK, Status, HermesStatus, PCs
<1>1. CASE DispatchBegin(w, i)
  BY <1>1 DEF DispatchBegin
<1>2. CASE PostOk(w, i)
  BY <1>2, PhaseFacts DEF PostOk, PostDone
<1>3. CASE PostUncertain(w, i)
  BY <1>3, PhaseFacts DEF PostUncertain, PostDone
<1>4. CASE PostRejected(w, i)
  BY <1>4 DEF PostRejected, PostDone, Terminal
<1>5. CASE DispatchGone(w, i)
  BY <1>5, AbortType DEF DispatchGone
<1> QED  BY <1>1, <1>2, <1>3, <1>4, <1>5

\* The two callbacks keep the types of the row.
LEMMA CallbackType ==
    ASSUME QueueTypeOK, NEW m \in Callback,
           \/ m.type # "status" /\ submit_external_result(m.inv, m.type)
           \/ m.type = "status" /\ update_investigation_status(m.inv, m.n)
    PROVE  QueueTypeOK'
<1> DEFINE i == m.inv
<1>1. i \in Investigations
  BY CallbackFacts
<1>2. CASE m.type # "status" /\ submit_external_result(i, m.type)
  <2>1. m.type \in Terminal /\ m.type \in Status /\ m.type \in HermesStatus
    BY <1>2, CallbackFacts DEF Terminal, Status, HermesStatus
  <2>2. CASE ResultReply(i) = "accepted"
    <3>1. accepted' \in [Investigations -> 0..MaxAccepts]
      <4> DEFINE more == IF accepted[i] < MaxAccepts THEN accepted[i] + 1 ELSE accepted[i]
      <4>1. accepted' = [accepted EXCEPT ![i] = more]
        BY <1>2, <2>2 DEF submit_external_result
      <4>2. more \in 0..MaxAccepts
        BY <1>1, QueueAssumption DEF QueueTypeOK
      <4> HIDE DEF more
      <4> QED  BY <1>1, <4>1, <4>2 DEF QueueTypeOK
    <3>2. /\ status' \in [Investigations -> Status]
          /\ hermes' \in [Investigations -> HermesStatus]
      BY <1>1, <1>2, <2>1, <2>2 DEF QueueTypeOK, submit_external_result
    <3>3. prog' \in [Investigations -> 0..Len(Phases)]
      <4>1. prog' = [prog EXCEPT ![i] = 0] /\ 0 \in 0..Len(Phases)
        BY <1>2, <2>2, PhaseFacts DEF submit_external_result
      <4> QED  BY <1>1, <4>1 DEF QueueTypeOK
    <3>4. keyed' \in [Investigations -> BOOLEAN]
      <4>1. keyed' = [keyed EXCEPT ![i] = TRUE]
        BY <1>2, <2>2 DEF submit_external_result
      <4> QED  BY <1>1, <4>1 DEF QueueTypeOK
    <3> QED
      BY <1>2, <2>2, <3>1, <3>2, <3>3, <3>4
      DEF QueueTypeOK, submit_external_result, workerVars
  <2>3. CASE ResultReply(i) # "accepted"
    BY <1>2, <2>3 DEF QueueTypeOK, submit_external_result, rowVars, workerVars
  <2> QED  BY <2>2, <2>3
<1>3. CASE m.type = "status" /\ update_investigation_status(i, m.n)
  <2>1. Phases[m.n] \in HermesStatus /\ m.n \in 0..Len(Phases)
    BY <1>3, CallbackFacts, PhaseFacts
  <2> QED
    BY <1>1, <1>3, <2>1 DEF QueueTypeOK, update_investigation_status, workerVars
<1> QED  BY <1>2, <1>3

\* The steps of the jobs keep the registry well typed.
LEMMA JobsTypeInit == JobsInit => JobsTypeOK
BY PipelineAssumption, PhaseFacts DEF JobsInit, JobsTypeOK, JobState, Terminal

\* A callback attempt that failed leaves the job well typed.
LEMMA AttemptType ==
    ASSUME JobsTypeOK, NEW i \in Investigations,
           AttemptFails(i) \/ AttemptSucceeds(i)
    PROVE  JobsTypeOK'
<1> USE DEF JobsTypeOK, JobState, Active
<1>1. CASE AttemptSucceeds(i)
  BY <1>1 DEF AttemptSucceeds
<1>2. CASE AttemptFails(i)
  <2>1. job' \in [Investigations -> JobState] /\ phase' = phase
    BY <1>2 DEF AttemptFails
  <2>2. kind' \in [Investigations -> Terminal]
    BY <1>2 DEF AttemptFails, Terminal
  <2>3. try' \in [Investigations -> 1..MaxAttempts]
    <3>1. try[i] \in 1..MaxAttempts
      OBVIOUS
    <3>2. \/ try[i] < MaxAttempts /\ try' = [try EXCEPT ![i] = @ + 1]
          \/ try' = [try EXCEPT ![i] = 1]
          \/ try' = try
      BY <1>2 DEF AttemptFails
    <3>3. 1 \in 1..MaxAttempts /\ (try[i] < MaxAttempts => try[i] + 1 \in 1..MaxAttempts)
      BY <3>1, PipelineAssumption
    <3> QED  BY <3>2, <3>3
  <2> QED  BY <2>1, <2>2, <2>3
<1> QED  BY <1>1, <1>2

\* Every step of a job keeps its type, and what it sends is a callback.
LEMMA JobStepType ==
    ASSUME TypeOK, NEW i \in Investigations, JobStep(i)
    PROVE  JobsTypeOK' /\ net' \subseteq Callback
<1> USE DEF TypeOK, JobsTypeOK, JobState, Active
<1>1. CASE StartJob(i) /\ UNCHANGED net
  BY <1>1 DEF StartJob
<1>2. CASE FinishGraph(i) /\ UNCHANGED net
  BY <1>2 DEF FinishGraph
<1>3. CASE FailGraph(i) /\ UNCHANGED net
  BY <1>3 DEF FailGraph, Terminal
<1>4. CASE ReportPhase(i) /\ Send([type |-> "status", inv |-> i, n |-> phase[i] + 1])
  <2>1. phase[i] + 1 \in 1..NumPhases /\ phase[i] + 1 \in 0..NumPhases
    BY <1>4, PhaseFacts, PipelineAssumption DEF ReportPhase
  <2>2. [type |-> "status", inv |-> i, n |-> phase[i] + 1] \in Callback
    BY <2>1 DEF Callback
  <2> QED  BY <1>4, <2>1, <2>2 DEF ReportPhase, Send
<1>5. CASE SubmitAttempt(i) /\ Send([type |-> kind[i], inv |-> i, n |-> try[i]])
  <2>1. [type |-> kind[i], inv |-> i, n |-> try[i]] \in Callback
    BY DEF Callback
  <2> QED  BY <1>5, <2>1 DEF SubmitAttempt, Send
<1> QED  BY <1>1, <1>2, <1>3, <1>4, <1>5 DEF JobStep

\* Every step of the pipeline keeps every variable well typed.
LEMMA TypeNext ==
    ASSUME TypeOK, [Next]_vars
    PROVE  TypeOK'
<1>1. CASE ServerStep
  <2>1. QueueTypeOK'
    BY <1>1, AdminType, LocalType DEF ServerStep, TypeOK
  <2> QED  BY <1>1, <2>1 DEF ServerStep, TypeOK, JobsTypeOK, jobVars, netVars
<1>2. ASSUME NEW w \in Workers, WorkerStep(w)
      PROVE  TypeOK'
  <2>1. CASE ServerCrash(w)
    <3>1. QueueTypeOK'
      BY <2>1, AbortType DEF ServerCrash, Crash, TypeOK
    <3> QED  BY <2>1, <3>1 DEF ServerCrash, TypeOK, JobsTypeOK, jobVars
  <2>2. ASSUME NEW i \in Investigations, GetJob(w, i)
        PROVE  TypeOK'
    <3>1. QueueTypeOK'
      BY <2>2, ReconcileType DEF GetJob, TypeOK
    <3> QED  BY <2>2, <3>1 DEF GetJob, TypeOK, JobsTypeOK, jobVars, netVars
  <2>3. ASSUME NEW i \in Investigations, SendPost(w, i)
        PROVE  TypeOK'
    <3>1. QueueTypeOK'
      BY <2>3, DispatchType DEF SendPost, TypeOK
    <3> QED  BY <2>3, <3>1 DEF SendPost, TypeOK, JobsTypeOK, jobVars
  <2>4. ASSUME NEW i \in Investigations, DeliverPost(w, i)
        PROVE  TypeOK'
    <3>1. QueueTypeOK'
      BY <2>4 DEF DeliverPost, TypeOK, QueueTypeOK, queueVars, rowVars, workerVars
    <3>2. JobsTypeOK'
      BY <2>4 DEF DeliverPost, CreateJob, TypeOK, JobsTypeOK, JobState
    <3> QED  BY <2>4, <3>1, <3>2 DEF DeliverPost, TypeOK
  <2>5. ASSUME NEW i \in Investigations,
               PostAnswered(w, i) \/ PostAmbiguous(w, i) \/ PostRefused(w, i) \/ PostGone(w, i)
        PROVE  TypeOK'
    <3>1. QueueTypeOK'
      BY <2>5, DispatchType DEF PostAnswered, PostAmbiguous, PostRefused, PostGone, TypeOK
    <3> QED
      BY <2>5, <3>1
      DEF PostAnswered, PostAmbiguous, PostRefused, PostGone, TypeOK, JobsTypeOK, jobVars
  <2> QED  BY <1>2, <2>1, <2>2, <2>3, <2>4, <2>5 DEF WorkerStep
<1>3. ASSUME NEW i \in Investigations, JobStep(i)
      PROVE  TypeOK'
  BY <1>3, JobStepType
  DEF JobStep, TypeOK, QueueTypeOK, queueVars, rowVars, workerVars
<1>4. ASSUME NEW i \in Investigations, AttemptTimeout(i)
      PROVE  TypeOK'
  <2>1. JobsTypeOK'
    BY <1>4, AttemptType DEF AttemptTimeout, TypeOK
  <2> QED
    BY <1>4, <2>1
    DEF AttemptTimeout, TypeOK, QueueTypeOK, queueVars, rowVars, workerVars, netVars
<1>5. ASSUME NEW m \in net, Lose(m)
      PROVE  TypeOK'
  BY <1>5 DEF Lose, TypeOK, QueueTypeOK, queueVars, rowVars, workerVars, JobsTypeOK, jobVars
<1>6. ASSUME NEW m \in net, HandleStatus(m)
      PROVE  TypeOK'
  <2>1. m \in Callback
    BY <1>6 DEF TypeOK
  <2>2. QueueTypeOK'
    BY <1>6, <2>1, CallbackType DEF HandleStatus, TypeOK
  <2> QED  BY <1>6, <2>2 DEF HandleStatus, TypeOK, JobsTypeOK, jobVars
<1>7. ASSUME NEW m \in net, HandleResult(m)
      PROVE  TypeOK'
  <2>1. m \in Callback /\ m.inv \in Investigations
    BY <1>7, CallbackFacts DEF TypeOK
  <2>2. QueueTypeOK'
    BY <1>7, <2>1, CallbackType DEF HandleResult, TypeOK
  <2>3. JobsTypeOK'
    BY <1>7, <2>1, AttemptType DEF HandleResult, TypeOK, JobsTypeOK, jobVars
  <2> QED  BY <1>7, <2>2, <2>3 DEF HandleResult, TypeOK
<1>8. CASE DeepAgentRestart
  BY <1>8, PipelineAssumption, PhaseFacts
  DEF DeepAgentRestart, Restart, TypeOK, JobsTypeOK, JobState, Terminal,
      QueueTypeOK, queueVars, rowVars, workerVars, netVars
<1>9. CASE UNCHANGED vars
  BY <1>9
  DEF vars, TypeOK, JobsTypeOK, jobVars, QueueTypeOK, queueVars, rowVars, workerVars, netVars
<1> QED  BY <1>1, <1>2, <1>3, <1>4, <1>5, <1>6, <1>7, <1>8, <1>9 DEF Next

\* Type correctness of the pipeline: no handler of the server, no step of a
\* job and no fault takes a variable out of its type.
THEOREM TypeCorrect == Spec => []TypeOK
<1>1. Init => TypeOK
  BY QueueTypeInit, JobsTypeInit DEF Init, TypeOK
<1> QED  BY <1>1, TypeNext, PTL DEF Spec
=============================================================================
