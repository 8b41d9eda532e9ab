---------------------------- MODULE DeepAgentJobs ----------------------------
(***************************************************************************)
(* The DeepAgent service: the in-memory job registry (_jobs), the           *)
(* semaphore that bounds the running jobs, the run of one investigation     *)
(* with its progress callbacks, and the final callback with its retries     *)
(* and its fallback.  A restart of the process loses all of it.             *)
(***************************************************************************)
EXTENDS InvestigationIds

CONSTANTS
    MaxJobs,      \* Settings.max_concurrent_jobs
    MaxAttempts,  \* attempts of _submit_result_with_retry
    NumPhases     \* progress callbacks of InvestigationRunner.run

\* The job of investigation i has the job id "deepagent-<i>".
VARIABLES
    job,     \* JobStatus.status, with the steps of the final callback
    phase,   \* progress callbacks the job has sent
    kind,    \* what its final callback carries
    try      \* the attempt of that callback

jobVars == <<job, phase, kind, try>>

\* A job holds the semaphore while it is running, submitting or awaiting.
Active == {"running", "submitting", "awaiting"}
JobState == {"absent", "queued", "finished"} \union Active

JobsTypeOK ==
    /\ job \in [Investigations -> JobState]
    /\ phase \in [Investigations -> 0..NumPhases]
    /\ kind \in [Investigations -> Terminal]
    /\ try \in [Investigations -> 1..MaxAttempts]

JobsInit ==
    /\ job = [i \in Investigations |-> "absent"]
    /\ phase = [i \in Investigations |-> 0]
    /\ kind = [i \in Investigations |-> "completed"]
    /\ try = [i \in Investigations |-> 1]

ActiveJobs == {i \in Investigations : job[i] \in Active}

\* POST /v1/investigations: a known investigation returns its job, finished
\* or not; an unknown one registers a job and starts its task.
CreateJob(i) ==
    /\ job' = IF job[i] = "absent" THEN [job EXCEPT ![i] = "queued"] ELSE job
    /\ UNCHANGED <<phase, kind, try>>

\* The task of _execute gets the semaphore.
StartJob(i) ==
    /\ job[i] = "queued"
    /\ Cardinality(ActiveJobs) < MaxJobs
    /\ job' = [job EXCEPT ![i] = "running"]
    /\ UNCHANGED <<phase, kind, try>>

\* The next progress callback is sent; its outcome is ignored.
ReportPhase(i) ==
    /\ job[i] = "running"
    /\ phase[i] < NumPhases
    /\ phase' = [phase EXCEPT ![i] = @ + 1]
    /\ UNCHANGED <<job, kind, try>>

\* The graph returned and its result is to be submitted.
FinishGraph(i) ==
    /\ job[i] = "running"
    /\ phase[i] = NumPhases
    /\ job' = [job EXCEPT ![i] = "submitting"]
    /\ UNCHANGED <<phase, kind, try>>

\* The graph, the model or MCP raised: the fallback callback reports it.
FailGraph(i) ==
    /\ job[i] = "running"
    /\ job' = [job EXCEPT ![i] = "submitting"]
    /\ kind' = [kind EXCEPT ![i] = "failed"]
    /\ UNCHANGED <<phase, try>>

SubmitAttempt(i) ==
    /\ job[i] = "submitting"
    /\ job' = [job EXCEPT ![i] = "awaiting"]
    /\ UNCHANGED <<phase, kind, try>>

AttemptSucceeds(i) ==
    /\ job[i] = "awaiting"
    /\ job' = [job EXCEPT ![i] = "finished"]
    /\ UNCHANGED <<phase, kind, try>>

\* Mutant: the retries are not counted against the limit.
AttemptFailsUnbounded(i) ==
    /\ job[i] = "awaiting"
    /\ job' = [job EXCEPT ![i] = "submitting"]
    /\ try' = [try EXCEPT ![i] = @ + 1]
    /\ UNCHANGED <<phase, kind>>

\* Mutant: no fallback follows the last attempt of the result.
AttemptFailsForGood(i) ==
    /\ job[i] = "awaiting"
    /\ job' = [job EXCEPT ![i] = IF try[i] < MaxAttempts THEN "submitting" ELSE "finished"]
    /\ try' = [try EXCEPT ![i] = IF @ < MaxAttempts THEN @ + 1 ELSE @]
    /\ UNCHANGED <<phase, kind>>

\* The attempt timed out or was answered with an error.  After the last
\* attempt of the result comes the fallback; after the last attempt of the
\* fallback the job is over and nothing is sent again.
AttemptFails(i) ==
    /\ job[i] = "awaiting"
    /\ \/ /\ try[i] < MaxAttempts
          /\ job' = [job EXCEPT ![i] = "submitting"]
          /\ try' = [try EXCEPT ![i] = @ + 1]
          /\ UNCHANGED kind
       \/ /\ try[i] = MaxAttempts
          /\ kind[i] = "completed"
          /\ job' = [job EXCEPT ![i] = "submitting"]
          /\ kind' = [kind EXCEPT ![i] = "failed"]
          /\ try' = [try EXCEPT ![i] = 1]
       \/ /\ try[i] = MaxAttempts
          /\ kind[i] = "failed"
          /\ job' = [job EXCEPT ![i] = "finished"]
          /\ UNCHANGED <<kind, try>>
    /\ UNCHANGED phase

Restart ==
    /\ job' = [i \in Investigations |-> "absent"]
    /\ phase' = [i \in Investigations |-> 0]
    /\ kind' = [i \in Investigations |-> "completed"]
    /\ try' = [i \in Investigations |-> 1]
=============================================================================
