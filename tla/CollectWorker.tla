--------------------------- MODULE CollectWorker ---------------------------
(***************************************************************************)
(* Investigations that DeepAgent does not run.  The worker collects         *)
(* artifacts from the machine; then Hermes, a service outside, polls for     *)
(* the investigation, analyses it and posts the result.                           *)
(*                                                                         *)
(* The tick selects at most Limit rows FOR UPDATE and processes its copies   *)
(* one after the other.  The first commit releases the locks of all of       *)
(* them; a copy is written back attribute by attribute, whatever the row     *)
(* has become.  An UPDATE of a row that is gone ends the tick.               *)
(*                                                                         *)
(* The select asks for external_orchestrator <> 'deepagent', which no row    *)
(* without an orchestrator (a local investigation) satisfies in SQL.         *)
(***************************************************************************)
EXTENDS Naturals, FiniteSets

CONSTANTS
    MaxCases,   \* bound: investigations ever created, known by the order of creation
    Kinds,      \* external_orchestrator: "hermes", or "local" for none
    Limit,      \* rows that one tick takes
    MaxClaims,  \* bound: times Hermes is given one investigation
    MaxStops    \* bound: requests of administrators under way at once

ASSUME CollectAssumption ==
    /\ MaxCases \in Nat /\ Limit \in Nat /\ MaxClaims \in Nat /\ MaxStops \in Nat
    /\ Kinds \subseteq {"local", "hermes"}

Cases == 1..MaxCases
Claims == 1..MaxClaims
Ongoing == {"pending", "running", "collecting", "analyzing"}

VARIABLES
    orchestrator, \* external_orchestrator
    case,       \* status; "none" before the row, "deleted" after it
    waited,     \* started_at is longer ago than llm_collect_max_wait_seconds
    polled,     \* external_polled_at: "never", "fresh", or "old" after 5 minutes
    claims,     \* how often Hermes was given the investigation
    jobId,      \* external_job_id: the claim whose progress was reported first, or 0
    resultKey,  \* external_callback_idempotency_key: the claim that delivered, or 0
    hermesPosts, \* Hermes' jobs under way, each a case and a claim
    results,    \* history: results that the row has accepted
    copies,     \* the tick's copies that it has still to process, by case
    starting,   \* the case whose collection is being triggered, or 0
    held,       \* rows locked by the tick
    stops       \* requests of administrators that have read their row

caseVars == <<orchestrator, case, waited>>
hermesVars == <<polled, claims, jobId, resultKey, hermesPosts, results>>
collectTickVars == <<copies, starting, held>>
collectVars == <<caseVars, hermesVars, collectTickVars, stops>>

NotHeld == [c \in Cases |-> "none"]

CollectInit ==
    /\ orchestrator = [c \in Cases |-> "local"]
    /\ case = [c \in Cases |-> "none"]
    /\ waited = {}
    /\ polled = [c \in Cases |-> "never"]
    /\ claims = [c \in Cases |-> 0]
    /\ jobId = [c \in Cases |-> 0]
    /\ resultKey = [c \in Cases |-> 0]
    /\ hermesPosts = {}
    /\ results = [c \in Cases |-> 0]
    /\ copies = NotHeld /\ starting = 0 /\ held = {}
    /\ stops = {}

HasRow(c) == case[c] \notin {"none", "deleted"}
Least(S) == {c \in S : \A d \in S : c <= d}

\* The router refuses a sixth active investigation of a machine; MaxCases is less.
create_investigation(c, k) ==
    /\ c \in Least({d \in Cases : case[d] = "none"})
    /\ orchestrator' = [orchestrator EXCEPT ![c] = k]
    /\ case' = [case EXCEPT ![c] = "pending"]
    /\ UNCHANGED <<waited, hermesVars, collectTickVars, stops>>

-----------------------------------------------------------------------------
(* The worker.                                                               *)

Todo == {c \in Cases : copies[c] # "none"}
Selected == {c \in Cases : orchestrator[c] # "local" /\ case[c] \in Ongoing}
FirstOf(S) == {c \in S : Cardinality({d \in S : d < c}) < Limit}

run_pending_investigations ==
    /\ Todo = {} /\ starting = 0
    /\ Selected # {}
    /\ held' = FirstOf(Selected)
    /\ copies' = [c \in Cases |-> IF c \in held' THEN case[c] ELSE "none"]
    /\ UNCHANGED <<caseVars, hermesVars, starting, stops>>

\* The copy of c is done with; without a copy left the session is closed.
Done(c) ==
    /\ copies' = [copies EXCEPT ![c] = "none"]
    /\ starting' = 0

\* The tick commits s as the status of c, or ends when the row is gone.
Writes(c, s) ==
    /\ held' = {}
    /\ IF HasRow(c)
         THEN case' = [case EXCEPT ![c] = s] /\ Done(c)
         ELSE case' = case /\ copies' = NotHeld /\ starting' = 0

_process_one(c, copy) ==
    /\ starting = 0
    /\ c \in Least(Todo)
    /\ copies[c] = copy

\* The first commit of _state_start; the calls of Velociraptor come after it.
_state_start(c) ==
    /\ _process_one(c, "pending")
    /\ held' = {}
    /\ IF HasRow(c)
         THEN case' = [case EXCEPT ![c] = "running"] /\ starting' = c /\ UNCHANGED copies
         ELSE copies' = NotHeld /\ UNCHANGED <<case, starting>>
    /\ UNCHANGED <<orchestrator, waited, hermesVars, stops>>

\* The second: the flows that were triggered, or no connection.
start_flows(c) ==
    /\ starting = c
    /\ \E s \in {"collecting", "failed"} : Writes(c, s)
    /\ UNCHANGED <<orchestrator, waited, hermesVars, stops>>

\* A flow is still running, or its state cannot be read: nothing is written.
poll_again(c) ==
    /\ _process_one(c, "collecting")
    /\ c \notin waited
    /\ Done(c)
    /\ held' = {}
    /\ UNCHANGED <<caseVars, hermesVars, stops>>

\* A commit after the flows were polled: it releases the locks and writes
\* nothing, for the results go into the copy of raw_artifacts in place.
poll_commits(c) ==
    /\ _process_one(c, "collecting")
    /\ c \notin waited
    /\ held # {} /\ held' = {}
    /\ UNCHANGED <<caseVars, hermesVars, copies, starting, stops>>

\* A row that a crash left "running" has no flows to poll.
_state_poll_collect(c) ==
    /\ \/ _process_one(c, "running") /\ Writes(c, "failed")
       \/ _process_one(c, "collecting") /\ Writes(c, "failed")
       \/ _process_one(c, "collecting") /\ c \notin waited /\ held = {} /\ Writes(c, "analyzing")
    /\ UNCHANGED <<orchestrator, waited, hermesVars, stops>>

\* Mutant: an analysis that takes long is given up, as a collection is.
analyze_times_out(c) ==
    /\ _process_one(c, "analyzing")
    /\ IF c \in waited THEN Writes(c, "failed") ELSE Done(c) /\ held' = held \ {c} /\ case' = case
    /\ UNCHANGED <<orchestrator, waited, hermesVars, stops>>

\* The row waits for Hermes.
_state_analyze(c) ==
    /\ _process_one(c, "analyzing")
    /\ Done(c)
    /\ held' = IF Todo = {c} THEN {} ELSE held
    /\ UNCHANGED <<caseVars, hermesVars, stops>>

WorkerCrash ==
    /\ Todo # {}
    /\ copies' = NotHeld /\ starting' = 0 /\ held' = {}
    /\ UNCHANGED <<caseVars, hermesVars, stops>>

WaitsTooLong(c) ==
    /\ case[c] \in {"running", "collecting", "analyzing"}
    /\ waited' = waited \union {c}
    /\ UNCHANGED <<orchestrator, case, hermesVars, collectTickVars, stops>>

-----------------------------------------------------------------------------
(* Hermes.                                                                   *)

\* Every analysis that nobody works on, or not for 5 minutes, is given out.
Claimable == {c \in Cases \ held : /\ case[c] = "analyzing" /\ orchestrator[c] = "hermes"
                                   /\ polled[c] # "fresh" /\ claims[c] < MaxClaims}

list_pending_for_external ==
    /\ Claimable # {}
    /\ polled' = [c \in Cases |-> IF c \in Claimable THEN "fresh" ELSE polled[c]]
    /\ claims' = [c \in Cases |-> IF c \in Claimable THEN claims[c] + 1 ELSE claims[c]]
    /\ hermesPosts' = hermesPosts \union {<<c, claims[c] + 1>> : c \in Claimable}
    /\ UNCHANGED <<caseVars, jobId, resultKey, results, collectTickVars, stops>>

\* It counts only if Hermes may be given the investigation again.
FiveMinutesPass(c) ==
    /\ polled[c] = "fresh" /\ claims[c] < MaxClaims
    /\ case[c] = "analyzing"
    /\ polled' = [polled EXCEPT ![c] = "old"]
    /\ UNCHANGED <<caseVars, claims, jobId, resultKey, hermesPosts, results, collectTickVars, stops>>

Bound(c, n) == jobId[c] \in {0, n}

update_hermes_status(c, n) ==
    /\ <<c, n>> \in hermesPosts
    /\ c \notin held
    /\ case[c] \in Ongoing
    /\ Bound(c, n)
    /\ jobId[c] = 0
    /\ jobId' = [jobId EXCEPT ![c] = n]
    /\ UNCHANGED <<caseVars, polled, claims, resultKey, hermesPosts, results, collectTickVars, stops>>

\* Mutant: only the key decides.
AcceptsAnyKey(c, n) == HasRow(c) /\ resultKey[c] # n

Accepts(c, n) == case[c] = "analyzing" /\ Bound(c, n)

\* The post is repeated until it is answered, and may be once more after that.
submit_hermes_result(c, n) ==
    /\ <<c, n>> \in hermesPosts
    /\ c \notin held
    /\ IF Accepts(c, n)
         THEN /\ \E s \in {"completed", "failed"} : case' = [case EXCEPT ![c] = s]
              /\ resultKey' = [resultKey EXCEPT ![c] = n]
              /\ jobId' = [jobId EXCEPT ![c] = n]
              /\ results' = [results EXCEPT ![c] = @ + 1]
         ELSE UNCHANGED <<case, resultKey, jobId, results>>
    /\ \/ hermesPosts' = hermesPosts \ {<<c, n>>}
       \/ hermesPosts' = hermesPosts
    /\ UNCHANGED <<orchestrator, waited, polled, claims, collectTickVars, stops>>

-----------------------------------------------------------------------------
(* Administrators.  The row is read without a lock.                          *)

AdminReads(op, c) ==
    /\ Cardinality(stops) < MaxStops
    /\ HasRow(c)
    /\ op = "stop" => case[c] \in Ongoing
    /\ op = "delete" => case[c] \in {"pending", "completed", "failed"}
    /\ stops' = stops \union {<<op, c>>}
    /\ UNCHANGED <<caseVars, hermesVars, collectTickVars>>

AdminWrites(op, c) ==
    /\ <<op, c>> \in stops
    /\ c \notin held
    /\ stops' = stops \ {<<op, c>>}
    /\ case' = IF HasRow(c)
                 THEN [case EXCEPT ![c] = IF op = "stop" THEN "failed" ELSE "deleted"] ELSE case
    /\ UNCHANGED <<orchestrator, waited, hermesVars, collectTickVars>>

-----------------------------------------------------------------------------
CollectTick(c) ==
    \/ _state_start(c) \/ start_flows(c) \/ poll_again(c) \/ poll_commits(c)
    \/ _state_poll_collect(c) \/ _state_analyze(c)

CollectNext ==
    \/ run_pending_investigations \/ WorkerCrash \/ list_pending_for_external
    \/ \E c \in Cases :
          \/ \E k \in Kinds : create_investigation(c, k)
          \/ CollectTick(c) \/ WaitsTooLong(c) \/ FiveMinutesPass(c)
          \/ \E n \in Claims : update_hermes_status(c, n) \/ submit_hermes_result(c, n)
          \/ \E op \in {"stop", "delete"} : AdminReads(op, c) \/ AdminWrites(op, c)

CollectSpec == CollectInit /\ [][CollectNext]_collectVars

-----------------------------------------------------------------------------
(* Properties.                                                               *)

\* Every variable keeps its type; a collection under way has its copy, and only
\* an investigation given to Hermes has a job or a result.
CollectTypeOK ==
    /\ orchestrator \in [Cases -> {"local", "hermes"}]
    /\ case \in [Cases -> Ongoing \union {"none", "completed", "failed", "deleted"}]
    /\ waited \subseteq Cases /\ held \subseteq Cases
    /\ polled \in [Cases -> {"never", "fresh", "old"}]
    /\ claims \in [Cases -> 0..MaxClaims]
    /\ hermesPosts \subseteq Cases \X Claims
    /\ copies \in [Cases -> Ongoing \union {"none"}]
    /\ starting # 0 => copies[starting] = "pending"
    /\ \A c \in Cases : jobId[c] <= claims[c] /\ resultKey[c] <= claims[c]

\* However often Hermes is given an investigation and repeats its posts, one
\* result is counted and announced (dfir_investigation.py:1302).
OneResultEach == \A c \in Cases : results[c] <= 1

\* An outcome stays (dfir_investigation.py:466, llm_dfir.py:730): the copies of
\* the tick, however old, never take a completed investigation back, only a
\* stop that had read it before does; and a stopped one goes on only through a
\* copy that the tick made before the stop.
OutcomeStays ==
    [][\A c \in Cases :
         /\ case[c] = "completed" /\ case'[c] \notin {"completed", "deleted"}
              => <<"stop", c>> \in stops \ stops'
         /\ case[c] = "failed" /\ case'[c] \notin {"failed", "deleted"} => c \in Todo]_collectVars
=============================================================================
