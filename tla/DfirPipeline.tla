---------------------------- MODULE DfirPipeline ----------------------------
(***************************************************************************)
(* The server's investigation queue composed with the DeepAgent service:    *)
(* the dispatch requests and the callbacks travel between them, and may be  *)
(* lost, delayed past the sender's timeout, and processed after the sender  *)
(* restarted.                                                               *)
(***************************************************************************)
EXTENDS InvestigationQueue, DeepAgentJobs

CONSTANTS
    MaxNet,     \* bound: callbacks on the network at the same time
    Faults      \* what the environment may do

AllFaults == {"post_lost", "post_late", "post_rejected", "refused",
              "get_error", "get_terminal", "callback_lost", "status_lost",
              "reply_lost", "graph_error", "deepagent_restart",
              "server_crash", "admin"}

ASSUME PipelineAssumption ==
    /\ MaxNet \in Nat
    /\ MaxJobs \in Nat
    /\ MaxAttempts \in Nat \ {0}
    /\ NumPhases \in 0..Len(Phases)
    /\ Faults \subseteq AllFaults

VARIABLES
    posts,      \* dispatch requests that have not reached DeepAgent
    replied,    \* workers whose POST DeepAgent has answered
    net         \* callbacks that have not reached the server

netVars == <<posts, replied, net>>
vars == <<queueVars, jobVars, netVars>>

Callback ==
    [type : {"status"}, inv : Investigations, n : 1..NumPhases]
    \union
    [type : Terminal, inv : Investigations, n : 1..MaxAttempts]

TypeOK ==
    /\ QueueTypeOK
    /\ JobsTypeOK
    /\ posts \subseteq Workers \X Investigations
    /\ replied \subseteq Workers
    /\ net \subseteq Callback

Init ==
    /\ QueueInit
    /\ JobsInit
    /\ posts = {}
    /\ replied = {}
    /\ net = {}

Fault(f) == f \in Faults

-----------------------------------------------------------------------------
(* Server steps that need nothing of DeepAgent.                             *)

Administer(i) ==
    /\ Fault("admin")
    /\ StopRead(i) \/ StopCommit(i) \/ DeleteRead(i) \/ DeleteCommit(i)

Local(w) ==
    \/ TickStart(w)
    \/ claim_deepagent_dispatches(w)
    \/ ClaimNothing(w)
    \/ DispatchEnd(w)
    \/ TickEnd(w)
    \/ \E i \in Investigations : ReconcileTimeout(w, i) \/ ReconcileGone(w, i)
    \/ Fault("refused") /\ \E i \in Investigations : DispatchRefused(w, i)

ServerStep ==
    /\ \/ \E i \in Investigations : Create(i) \/ Age(i) \/ Administer(i)
       \/ \E w \in Workers : Local(w)
    /\ UNCHANGED <<jobVars, netVars>>

\* The process of worker w stops; a request it posted may still arrive.
ServerCrash(w) ==
    /\ Fault("server_crash")
    /\ Crash(w)
    /\ replied' = replied \ {w}
    /\ posts' = IF Fault("post_late") THEN posts ELSE {p \in posts : p[1] # w}
    /\ UNCHANGED <<jobVars, net>>

-----------------------------------------------------------------------------
(* GET /v1/jobs/{id}, answered from the registry.                           *)

GetJob(w, i) ==
    /\ \/ job[i] = "absent" /\ ReconcileMissing(w, i)
       \/ job[i] # "absent" /\ ReconcileFound(w, i)
       \/ job[i] # "absent" /\ i \notin unsure[w] /\ ReconcileKeep(w, i)
       \/ Fault("get_error") /\ ReconcileKeep(w, i)
       \/ Fault("get_terminal") /\ ReconcileTerminal(w, i)
    /\ UNCHANGED <<jobVars, netVars>>

-----------------------------------------------------------------------------
(* POST /v1/investigations.                                                 *)

SendPost(w, i) ==
    /\ DispatchBegin(w, i)
    /\ posts' = posts \union {<<w, i>>}
    /\ UNCHANGED <<jobVars, replied, net>>

\* DeepAgent handles the request; its answer reaches the worker only if the
\* worker still awaits it.
DeliverPost(w, i) ==
    /\ <<w, i>> \in posts
    /\ CreateJob(i)
    /\ posts' = posts \ {<<w, i>>}
    /\ replied' = IF cur[w] = i THEN replied \union {w} ELSE replied
    /\ UNCHANGED <<queueVars, net>>

PostAnswered(w, i) ==
    /\ w \in replied
    /\ PostOk(w, i)
    /\ replied' = replied \ {w}
    /\ UNCHANGED <<jobVars, posts, net>>

\* The answer is lost, late, a 5xx of a gateway or not JSON.
PostAmbiguous(w, i) ==
    /\ PostUncertain(w, i)
    /\ \/ w \in replied /\ Fault("reply_lost") /\ UNCHANGED posts
       \/ w \notin replied /\ Fault("post_late") /\ UNCHANGED posts
       \/ w \notin replied /\ Fault("post_lost") /\ posts' = posts \ {<<w, i>>}
    /\ replied' = replied \ {w}
    /\ UNCHANGED <<jobVars, net>>

\* DeepAgent refuses the request (401, 422): no job was created by it.
PostRefused(w, i) ==
    /\ Fault("post_rejected")
    /\ w \notin replied
    /\ PostRejected(w, i)
    /\ posts' = posts \ {<<w, i>>}
    /\ UNCHANGED <<jobVars, replied, net>>

\* The row disappeared under the dispatch.
PostGone(w, i) ==
    /\ DispatchGone(w, i)
    /\ replied' = replied \ {w}
    /\ posts' = posts \ {<<w, i>>}
    /\ UNCHANGED <<jobVars, net>>

-----------------------------------------------------------------------------
(* The job and its callbacks.                                               *)

Send(m) == Cardinality(net) < MaxNet /\ net' = net \union {m}

JobStep(i) ==
    /\ \/ StartJob(i) /\ UNCHANGED net
       \/ FinishGraph(i) /\ UNCHANGED net
       \/ Fault("graph_error") /\ FailGraph(i) /\ UNCHANGED net
       \/ ReportPhase(i) /\ Send([type |-> "status", inv |-> i, n |-> phase[i] + 1])
       \/ SubmitAttempt(i) /\ Send([type |-> kind[i], inv |-> i, n |-> try[i]])
    /\ UNCHANGED <<queueVars, posts, replied>>

\* The job gives up on an attempt whose callback is still under way or lost.
AttemptTimeout(i) ==
    /\ Fault("callback_lost")
    /\ AttemptFails(i)
    /\ UNCHANGED <<queueVars, netVars>>

\* A progress callback is best effort: the job goes on whatever becomes of it.
Lose(m) ==
    /\ IF m.type = "status" THEN Fault("status_lost") ELSE Fault("callback_lost")
    /\ net' = net \ {m}
    /\ UNCHANGED <<queueVars, jobVars, posts, replied>>

HandleStatus(m) ==
    /\ m.type = "status"
    /\ update_investigation_status(m.inv, m.n)
    /\ net' = net \ {m}
    /\ UNCHANGED <<jobVars, posts, replied>>

Awaits(m) ==
    /\ job[m.inv] = "awaiting"
    /\ kind[m.inv] = m.type
    /\ try[m.inv] = m.n

\* The server processes the final callback; the job sees the answer if it
\* still awaits it and the answer is not lost.
HandleResult(m) ==
    /\ m.type # "status"
    /\ submit_external_result(m.inv, m.type)
    /\ net' = net \ {m}
    /\ \/ /\ Awaits(m)
          /\ IF ResultReply(m.inv) = "conflict"
             THEN AttemptFails(m.inv)
             ELSE AttemptSucceeds(m.inv)
       \/ /\ ~Awaits(m) \/ Fault("callback_lost")
          /\ UNCHANGED jobVars
    /\ UNCHANGED <<posts, replied>>

\* The process restarts: jobs and their tasks are gone, callbacks that left
\* are still processed.
DeepAgentRestart ==
    /\ Fault("deepagent_restart")
    /\ \E i \in Investigations : job[i] # "absent"
    /\ Restart
    /\ UNCHANGED <<queueVars, netVars>>

-----------------------------------------------------------------------------
WorkerStep(w) ==
    \/ ServerCrash(w)
    \/ \E i \in Investigations :
          \/ GetJob(w, i)
          \/ SendPost(w, i)
          \/ DeliverPost(w, i)
          \/ PostAnswered(w, i)
          \/ PostAmbiguous(w, i)
          \/ PostRefused(w, i)
          \/ PostGone(w, i)

Next ==
    \/ ServerStep
    \/ \E w \in Workers : WorkerStep(w)
    \/ \E i \in Investigations : JobStep(i) \/ AttemptTimeout(i)
    \/ \E m \in net : Lose(m) \/ HandleStatus(m) \/ HandleResult(m)
    \/ DeepAgentRestart

Spec == Init /\ [][Next]_vars

-----------------------------------------------------------------------------
(* Safety.                                                                  *)

\* claim_deepagent_dispatches hands out only free slots, and the slots of
\* rows it has claimed but not yet committed as analyzing stay reserved
\* across the POSTs, callbacks, stops and requeues that happen meanwhile:
\* at most Capacity DeepAgent rows are analyzing.
CapacityBound == Cardinality(Analyzing) <= Capacity

\* The queue is FIFO by created_at: no row goes from pending to analyzing
\* while an older row is still pending, requeued rows included.  (A row that a
\* request is just writing is locked and skipped; here such a request is one step.)
FifoDispatch ==
    [][\A i, j \in Investigations :
          i < j /\ status[j] = "pending" /\ status'[j] = "analyzing"
             => status'[i] # "pending"]_vars

\* A row that is analyzing names its job, through requeues, stale writes and
\* crashes: its callbacks are not refused for want of a job, and the branch of
\* _state_check_deepagent_job for a row without one is never taken.
JobNamedWhileAnalyzing == \A i \in Analyzing : bound[i]

\* Some handler read row i while it was active and will write it unlocked.
HeldStale(i) ==
    \/ <<"stop", i>> \in admin
    \/ \E w \in Workers :
          i \in (todo[w] \ locks[w]) \union claimed[w] \/ cur[w] = i

\* A completed investigation loses its status only to a handler that read it
\* before the result was accepted and holds no lock on it: the reconcile loop
\* after its first commit, a dispatch after its POST, or stop.
CompletedLostOnlyIfStale ==
    [][\A i \in Investigations :
          status[i] = "completed" /\ status'[i] \notin {"completed", "deleted"}
             => HeldStale(i)]_vars

\* However often the callback is retried, delayed or repeated, and whatever
\* the reconcile loop and the administrator do, an investigation takes one
\* result: one notification, tokens added once.  (Two active rows and a restart
\* of DeepAgent break it, as CompletedStays shows.)
AcceptedOnce == \A i \in Investigations : accepted[i] <= 1

\* Progress callbacks overtake each other on the network, yet none lowers the
\* phase the portal shows: only the final result or a worker's commit (a
\* dispatch answer, a reconciliation) replaces it.
PhaseNeverRegresses ==
    [][\A i \in Investigations :
          prog'[i] < prog[i] => status'[i] \in Terminal \/ workerVars' # workerVars]_vars

\* The rows that are analyzing use the capacity as a pool of slots.
Slots == INSTANCE SlotPool WITH Holders <- Investigations, held <- Analyzing
SlotPoolSpec == Slots!Spec

-----------------------------------------------------------------------------
(* Liveness, under the scheduling the code has: the monitor loop keeps       *)
(* ticking, the tasks of both event loops run, a row lock is granted in the  *)
(* order it was asked for, the semaphore is first come first served, a       *)
(* request that is sent again and again gets through in the end, an attempt  *)
(* that is not answered times out, and restarts come to an end (a crash that *)
(* does what the end of the tick does needs no end).                         *)

Tick(w) ==
    \/ Local(w) /\ UNCHANGED <<jobVars, netVars>>
    \/ \E i \in Investigations :
          \/ GetJob(w, i) \/ SendPost(w, i) \/ PostAnswered(w, i)
          \/ PostAmbiguous(w, i) \/ PostRefused(w, i) \/ PostGone(w, i)

AgeStep(i) == Age(i) /\ UNCHANGED <<jobVars, netVars>>

Fairness ==
    /\ \A w \in Workers : WF_vars(Tick(w))
    /\ \A w \in Workers, i \in Investigations : SF_vars(DeliverPost(w, i))
    /\ \A i \in Investigations :
          WF_vars(AgeStep(i)) /\ SF_vars(JobStep(i)) /\ WF_vars(AttemptTimeout(i))
    /\ \A m \in Callback : SF_vars(m \in net /\ (HandleStatus(m) \/ HandleResult(m)))
    /\ <>[][~DeepAgentRestart /\ \A w \in Workers : ServerCrash(w) => Tick(w)]_vars

FairSpec == Spec /\ Fairness

\* The last attempt of the fallback callback has failed as well.
GivenUp(i) == job[i] = "finished" /\ kind[i] = "failed" /\ try[i] = MaxAttempts

\* Whatever is lost, refused or restarted on the way, and whatever the
\* administrator does, every investigation ends or is deleted, unless DeepAgent
\* has used up the attempts of its result and of the fallback (api.py:96).
EndsUnlessGivenUp ==
    \A i \in Investigations :
       status[i] \in {"pending", "analyzing"} ~>
          status[i] \in Terminal \union {"deleted"} \/ GivenUp(i)

-----------------------------------------------------------------------------
(* What comments, tests and screens of the repository say and the code does  *)
(* not keep.                                                                *)

\* deepagent/api.py:96: the backend is not left "analyzing" for ever, so every
\* investigation that is queued or running comes to an end.
EventuallyEnds ==
    \A i \in Investigations :
       status[i] \in {"pending", "analyzing"} ~> status[i] \in Terminal

\* run_pending_investigations: "a 404 safely returns that row to pending".
CompletedStays ==
    [][\A i \in Investigations :
          status[i] = "completed" => status'[i] \in {"completed", "deleted"}]_vars
=============================================================================
