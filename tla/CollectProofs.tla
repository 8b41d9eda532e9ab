---------------------------- MODULE CollectProofs ----------------------------
(***************************************************************************)
(* Theorems about the investigations of the collecting worker, for every   *)
(* number of investigations, claims, rows in a tick and administrators;    *)
(* about the review of requests; about what the rows of custom artifacts    *)
(* say of the Velociraptor server; about the graph of one analysis; about   *)
(* the links between machines and Velociraptor clients; and, with those of  *)
(* the pipeline, what the run of all of them checks.                        *)
(***************************************************************************)
EXTENDS MCForensics, DfirPipelineSafety, SequenceTheorems

CaseStates == Ongoing \union {"none", "completed", "failed", "deleted"}

\* A result is accepted while the row is being analysed, and no copy that the
\* tick still holds can make it be analysed again: copies from before the
\* analysis lead there, and they are used up when they do.
OnceAnalysed(c) ==
    /\ case[c] = "analyzing" => copies[c] \in {"none", "analyzing"} /\ results[c] = 0
    /\ results[c] > 0 => case[c] \in {"completed", "failed", "deleted"}
    /\ results[c] > 0 => copies[c] \in {"none", "analyzing"}
    /\ case[c] = "completed" => results[c] > 0
    /\ results[c] <= 1

CollectSound ==
    /\ case \in [Cases -> CaseStates]
    /\ copies \in [Cases -> Ongoing \union {"none"}]
    /\ results \in [Cases -> Nat]
    /\ starting \in Cases \union {0}
    /\ starting # 0 => copies[starting] = "pending"
    /\ \A c \in Cases : OnceAnalysed(c)

\* What the worker does not touch, it leaves sound.
LEMMA RowsAlone ==
    ASSUME CollectSound, UNCHANGED <<case, copies, starting, results>>
    PROVE  CollectSound'
BY DEF CollectSound, OnceAnalysed

\* An investigation is inserted with a number that no row had, or is gone.
LEMMA CreateSound ==
    ASSUME CollectSound, NEW c \in Cases, NEW k, create_investigation(c, k)
    PROVE  CollectSound'
<1>1. case[c] = "none" /\ case' = [case EXCEPT ![c] = "pending"]
        /\ UNCHANGED <<copies, starting, results>>
  BY DEF create_investigation, Least, collectTickVars, hermesVars
<1>2. case' \in [Cases -> CaseStates]
  BY <1>1 DEF CollectSound, CaseStates, Ongoing
<1>3. results[c] = 0
  BY <1>1 DEF CollectSound, OnceAnalysed
<1>4. \A d \in Cases : OnceAnalysed(d)'
  BY <1>1, <1>3 DEF CollectSound, OnceAnalysed
<1>5. QED
  BY <1>1, <1>2, <1>4 DEF CollectSound

\* The tick copies the rows it selects as they are.
LEMMA SelectSound ==
    ASSUME CollectSound, run_pending_investigations
    PROVE  CollectSound'
<1>1. /\ copies' = [c \in Cases |-> IF c \in held' THEN case[c] ELSE "none"]
      /\ starting = 0 /\ starting' = 0
      /\ UNCHANGED <<case, results>>
      /\ \A c \in held' : case[c] \in Ongoing
  BY DEF run_pending_investigations, FirstOf, Selected, caseVars, hermesVars
<1>2. copies' \in [Cases -> Ongoing \union {"none"}]
  BY <1>1
<1>3. \A c \in Cases : OnceAnalysed(c)'
  BY <1>1 DEF CollectSound, OnceAnalysed, Ongoing
<1>4. QED
  BY <1>1, <1>2, <1>3 DEF CollectSound

\* Writing a copy from before the analysis uses the copy up.
LEMMA WriteSound ==
    ASSUME CollectSound, NEW c \in Cases, copies[c] \in {"pending", "running", "collecting"},
           NEW s \in {"failed", "collecting", "analyzing"}, Writes(c, s), UNCHANGED results
    PROVE  CollectSound'
<1>1. CASE ~HasRow(c)
  <2>1. case' = case /\ copies' = NotHeld /\ starting' = 0
    BY <1>1 DEF Writes
  <2>2. \A d \in Cases : copies'[d] = "none"
    BY <2>1 DEF NotHeld
  <2>3. QED
    BY <2>1, <2>2 DEF CollectSound, OnceAnalysed, NotHeld
<1>2. CASE HasRow(c)
  <2>1. /\ case' = [case EXCEPT ![c] = s]
        /\ copies' = [copies EXCEPT ![c] = "none"]
        /\ starting' = 0
    BY <1>2 DEF Writes, Done
  <2>2. results[c] = 0
    BY DEF CollectSound, OnceAnalysed
  <2>3. case' \in [Cases -> CaseStates] /\ copies' \in [Cases -> Ongoing \union {"none"}]
    BY <2>1 DEF CollectSound, CaseStates, Ongoing
  <2>4. \A d \in Cases : OnceAnalysed(d)'
    BY <2>1, <2>2 DEF CollectSound, OnceAnalysed
  <2>5. QED
    BY <2>1, <2>3, <2>4 DEF CollectSound
<1>3. QED
  BY <1>1, <1>2

\* A copy that is done with without a write leaves the row alone.
LEMMA DoneSound ==
    ASSUME CollectSound, NEW c \in Cases, Done(c), UNCHANGED <<case, results>>
    PROVE  CollectSound'
<1>1. copies' = [copies EXCEPT ![c] = "none"] /\ starting' = 0
  BY DEF Done
<1>2. copies' \in [Cases -> Ongoing \union {"none"}]
  BY <1>1 DEF CollectSound
<1>3. \A d \in Cases : OnceAnalysed(d)'
  BY <1>1 DEF CollectSound, OnceAnalysed
<1>4. QED
  BY <1>1, <1>2, <1>3 DEF CollectSound

\* Every step of the tick keeps the rows sound.
LEMMA TickSound ==
    ASSUME CollectSound, NEW c \in Cases, CollectTick(c)
    PROVE  CollectSound'
<1>1. CASE _state_start(c)
  <2>1. copies[c] = "pending" /\ starting = 0 /\ UNCHANGED results
    BY <1>1 DEF _state_start, _process_one, hermesVars
  <2>2. CASE ~HasRow(c)
    <3>1. case' = case /\ copies' = NotHeld /\ starting' = 0
      BY <1>1, <2>1, <2>2 DEF _state_start
    <3>2. QED
      BY <2>1, <3>1 DEF CollectSound, OnceAnalysed, NotHeld
  <2>3. CASE HasRow(c)
    <3>1. case' = [case EXCEPT ![c] = "running"] /\ starting' = c /\ copies' = copies
      BY <1>1, <2>3 DEF _state_start
    <3>2. results[c] = 0
      BY <2>1 DEF CollectSound, OnceAnalysed
    <3>3. case' \in [Cases -> CaseStates]
      BY <3>1 DEF CollectSound, CaseStates, Ongoing
    <3>4. \A d \in Cases : OnceAnalysed(d)'
      BY <2>1, <3>1, <3>2 DEF CollectSound, OnceAnalysed
    <3>5. QED
      BY <2>1, <3>1, <3>3, <3>4 DEF CollectSound
  <2>4. QED
    BY <2>2, <2>3
<1>2. CASE start_flows(c)
  <2>1. copies[c] = "pending" /\ UNCHANGED results
    BY <1>2 DEF start_flows, CollectSound, hermesVars, Cases
  <2>2. QED
    BY <1>2, <2>1, WriteSound DEF start_flows
<1>3. CASE poll_again(c)
  BY <1>3, DoneSound DEF poll_again, caseVars, hermesVars
<1>4. CASE _state_poll_collect(c)
  <2>1. copies[c] \in {"running", "collecting"} /\ UNCHANGED results
    BY <1>4 DEF _state_poll_collect, _process_one, hermesVars
  <2>2. QED
    BY <1>4, <2>1, WriteSound DEF _state_poll_collect
<1>5. CASE _state_analyze(c)
  BY <1>5, DoneSound DEF _state_analyze, caseVars, hermesVars
<1>6. CASE poll_commits(c)
  BY <1>6, RowsAlone DEF poll_commits, caseVars, hermesVars
<1>7. QED
  BY <1>1, <1>2, <1>3, <1>4, <1>5, <1>6 DEF CollectTick

\* A row takes a result only while it is analysed, and then never again.
LEMMA ResultSound ==
    ASSUME CollectSound, NEW c \in Cases, NEW n, submit_hermes_result(c, n)
    PROVE  CollectSound'
<1>1. UNCHANGED <<copies, starting>>
  BY DEF submit_hermes_result, collectTickVars
<1>2. CASE ~Accepts(c, n)
  BY <1>1, <1>2, RowsAlone DEF submit_hermes_result
<1>3. CASE Accepts(c, n)
  <2>1. case[c] = "analyzing" /\ results[c] = 0 /\ copies[c] \in {"none", "analyzing"}
    BY <1>3 DEF Accepts, CollectSound, OnceAnalysed
  <2>2. PICK s \in {"completed", "failed"} : case' = [case EXCEPT ![c] = s]
    BY <1>3 DEF submit_hermes_result
  <2>3. results' = [results EXCEPT ![c] = results[c] + 1]
    BY <1>3 DEF submit_hermes_result
  <2>4. case' \in [Cases -> CaseStates] /\ results' \in [Cases -> Nat]
    BY <2>2, <2>3 DEF CollectSound, CaseStates
  <2>5. \A d \in Cases : OnceAnalysed(d)'
    BY <1>1, <2>1, <2>2, <2>3 DEF CollectSound, OnceAnalysed
  <2>6. QED
    BY <1>1, <2>4, <2>5 DEF CollectSound
<1>4. QED
  BY <1>2, <1>3

\* A stop or a delete ends the row, whatever it has become since it was read.
LEMMA AdminSound ==
    ASSUME CollectSound, NEW c \in Cases, NEW op \in {"stop", "delete"}, AdminWrites(op, c)
    PROVE  CollectSound'
<1>1. UNCHANGED <<copies, starting, results>>
  BY DEF AdminWrites, collectTickVars, hermesVars
<1>2. CASE ~HasRow(c)
  BY <1>1, <1>2, RowsAlone DEF AdminWrites
<1>3. CASE HasRow(c)
  <2>1. PICK s \in {"failed", "deleted"} : case' = [case EXCEPT ![c] = s]
    BY <1>3 DEF AdminWrites
  <2>2. case' \in [Cases -> CaseStates]
    BY <2>1 DEF CollectSound, CaseStates
  <2>3. \A d \in Cases : OnceAnalysed(d)'
    BY <1>1, <2>1 DEF CollectSound, OnceAnalysed
  <2>4. QED
    BY <1>1, <2>2, <2>3 DEF CollectSound
<1>4. QED
  BY <1>2, <1>3

\* Every step keeps the rows sound.
LEMMA CollectKept ==
    ASSUME CollectSound, [CollectNext]_collectVars
    PROVE  CollectSound'
<1>1. CASE WorkerCrash
  <2>1. copies' = NotHeld /\ starting' = 0 /\ UNCHANGED <<case, results>>
    BY <1>1 DEF WorkerCrash, caseVars, hermesVars
  <2>2. QED
    BY <2>1 DEF CollectSound, OnceAnalysed, NotHeld
<1>2. CASE list_pending_for_external
  BY <1>2, RowsAlone DEF list_pending_for_external, caseVars, collectTickVars
<1>3. ASSUME NEW c \in Cases, WaitsTooLong(c) \/ FiveMinutesPass(c) PROVE CollectSound'
  BY <1>3, RowsAlone DEF WaitsTooLong, FiveMinutesPass, caseVars, collectTickVars, hermesVars
<1>4. ASSUME NEW c \in Cases, NEW n, update_hermes_status(c, n) PROVE CollectSound'
  BY <1>4, RowsAlone DEF update_hermes_status, caseVars, collectTickVars
<1>5. ASSUME NEW c \in Cases, NEW op, AdminReads(op, c) PROVE CollectSound'
  BY <1>5, RowsAlone DEF AdminReads, caseVars, collectTickVars, hermesVars
<1>6. CASE UNCHANGED collectVars
  BY <1>6, RowsAlone DEF collectVars, caseVars, collectTickVars, hermesVars
<1>7. QED
  BY <1>1, <1>2, <1>3, <1>4, <1>5, <1>6, CreateSound, SelectSound, TickSound, ResultSound,
     AdminSound DEF CollectNext

\* An empty table is sound.
LEMMA CollectBegins == CollectInit => CollectSound
BY DEF CollectInit, CollectSound, OnceAnalysed, NotHeld, CaseStates

\* However often Hermes is given an investigation and repeats its posts, the
\* row accepts one result (dfir_investigation.py:1302).
THEOREM HermesOnce == CollectSpec => []OneResultEach
<1>1. CollectSound => OneResultEach
  BY DEF CollectSound, OnceAnalysed, OneResultEach
<1>2. CollectSound /\ [CollectNext]_collectVars => CollectSound'
  BY CollectKept
<1>3. QED
  BY <1>1, <1>2, CollectBegins, PTL DEF CollectSpec

\* The tick, with copies however old, never undoes a completed investigation
\* (dfir_investigation.py:466): only a stop that had read it before does.
THEOREM OutcomesStay == CollectSpec => OutcomeStays
<1> DEFINE Stays == \A c \in Cases :
         /\ case[c] = "completed" /\ case'[c] \notin {"completed", "deleted"}
              => <<"stop", c>> \in stops \ stops'
         /\ case[c] = "failed" /\ case'[c] \notin {"failed", "deleted"} => c \in Todo
<1>1. ASSUME CollectSound, [CollectNext]_collectVars, UNCHANGED case PROVE Stays
  BY <1>1
<1>2. ASSUME CollectSound, NEW c \in Cases, NEW k, create_investigation(c, k) PROVE Stays
  BY <1>2 DEF create_investigation, Least, CollectSound
<1>3. ASSUME CollectSound, NEW c \in Cases, CollectTick(c) PROVE Stays
  <2>1. case' # case => copies[c] \in {"pending", "running", "collecting"}
    BY <1>3 DEF CollectTick, _state_start, start_flows, poll_again, poll_commits,
       _state_poll_collect,
       _state_analyze, _process_one, caseVars, CollectSound, Cases
  <2>2. \A d \in Cases : d # c => case'[d] = case[d]
    BY <1>3 DEF CollectTick, _state_start, start_flows, poll_again, poll_commits,
       _state_poll_collect,
       _state_analyze, Writes, caseVars, CollectSound
  <2>3. case' # case => case[c] # "completed" /\ c \in Todo
    BY <1>3, <2>1 DEF CollectSound, OnceAnalysed, Todo
  <2>4. QED
    BY <2>2, <2>3
<1>4. ASSUME CollectSound, NEW c \in Cases, NEW n, submit_hermes_result(c, n) PROVE Stays
  <2>1. CASE Accepts(c, n)
    BY <1>4, <2>1 DEF submit_hermes_result, Accepts, CollectSound
  <2>2. CASE ~Accepts(c, n)
    BY <1>4, <2>2 DEF submit_hermes_result
  <2>3. QED
    BY <2>1, <2>2
<1>5. ASSUME CollectSound, NEW c \in Cases, NEW op \in {"stop", "delete"}, AdminWrites(op, c)
      PROVE  Stays
  <2>1. \A d \in Cases : d # c => case'[d] = case[d]
    BY <1>5 DEF AdminWrites, CollectSound
  <2>2. <<op, c>> \in stops \ stops'
    BY <1>5 DEF AdminWrites
  <2>3. case'[c] \in {case[c], "deleted"} \/ (op = "stop" /\ case'[c] = "failed")
    BY <1>5 DEF AdminWrites, CollectSound
  <2>4. QED
    BY <2>1, <2>2, <2>3
<1>6. ASSUME CollectSound, [CollectNext]_collectVars PROVE Stays
  <2>1. ASSUME \/ run_pending_investigations \/ WorkerCrash \/ list_pending_for_external
               \/ \E c \in Cases :
                     \/ WaitsTooLong(c) \/ FiveMinutesPass(c)
                     \/ \E n \in Claims : update_hermes_status(c, n)
                     \/ \E op \in {"stop", "delete"} : AdminReads(op, c)
               \/ UNCHANGED collectVars
        PROVE  UNCHANGED case
    BY <2>1 DEF run_pending_investigations, WorkerCrash, list_pending_for_external,
       WaitsTooLong, FiveMinutesPass, update_hermes_status, AdminReads, collectVars, caseVars
  <2>2. QED
    BY <1>1, <1>2, <1>3, <1>4, <1>5, <1>6, <2>1 DEF CollectNext
<1>7. CollectSound /\ [CollectNext]_collectVars => [Stays]_collectVars
  BY <1>6
<1>8. CollectSound /\ [CollectNext]_collectVars => CollectSound'
  BY CollectKept
<1>9. QED
  BY <1>7, <1>8, CollectBegins, PTL DEF CollectSpec, OutcomeStays

\* A job or a result of a case is one of the claims that Hermes was given.
ClaimsGiven ==
    /\ jobId \in [Cases -> Nat] /\ resultKey \in [Cases -> Nat]
    /\ \A c \in Cases : jobId[c] <= claims[c] /\ resultKey[c] <= claims[c]
    /\ \A c \in Cases, n \in Claims : <<c, n>> \in hermesPosts => n <= claims[c]

\* Everything that CollectTypeOK says but the copies and the states.
CollectTyped ==
    /\ orchestrator \in [Cases -> {"local", "hermes"}]
    /\ waited \subseteq Cases /\ held \subseteq Cases
    /\ polled \in [Cases -> {"never", "fresh", "old"}]
    /\ claims \in [Cases -> 0..MaxClaims]
    /\ hermesPosts \subseteq Cases \X Claims
    /\ ClaimsGiven

\* Hermes is given every claimable case once more.
LEMMA ClaimsMade ==
    ASSUME CollectTyped, list_pending_for_external
    PROVE  CollectTyped'
<1>1. /\ polled' = [c \in Cases |-> IF c \in Claimable THEN "fresh" ELSE polled[c]]
      /\ claims' = [c \in Cases |-> IF c \in Claimable THEN claims[c] + 1 ELSE claims[c]]
      /\ hermesPosts' = hermesPosts \union {<<c, claims[c] + 1>> : c \in Claimable}
      /\ UNCHANGED <<orchestrator, waited, jobId, resultKey, held>>
  BY DEF list_pending_for_external, caseVars, collectTickVars
<1>2. \A c \in Claimable : c \in Cases /\ claims[c] \in Nat /\ claims[c] + 1 \in Claims
  BY CollectAssumption DEF Claimable, CollectTyped, Claims
<1>3. polled' \in [Cases -> {"never", "fresh", "old"}] /\ claims' \in [Cases -> 0..MaxClaims]
  BY <1>1, <1>2, CollectAssumption DEF CollectTyped, Claims
<1>4. hermesPosts' \subseteq Cases \X Claims
  BY <1>1, <1>2 DEF CollectTyped
<1>5. \A c \in Cases : claims[c] \in Nat /\ claims'[c] \in Nat /\ claims[c] <= claims'[c]
  BY <1>1, CollectAssumption DEF CollectTyped
<1>6. ClaimsGiven'
  <2>1. \A c \in Cases : jobId'[c] <= claims'[c] /\ resultKey'[c] <= claims'[c]
    BY <1>1, <1>5 DEF CollectTyped, ClaimsGiven
  <2>2. ASSUME NEW c \in Cases, NEW n \in Claims, <<c, n>> \in hermesPosts'
        PROVE  n <= claims'[c]
    <3>1. CASE <<c, n>> \in hermesPosts
      <4>1. n <= claims[c]
        BY <3>1 DEF CollectTyped, ClaimsGiven
      <4> QED BY <4>1, <1>5 DEF Claims
    <3>2. CASE c \in Claimable /\ n = claims[c] + 1
      BY <1>1, <1>5, <3>2
    <3> QED BY <1>1, <2>2, <3>1, <3>2
  <2> QED BY <1>1, <2>1, <2>2 DEF CollectTyped, ClaimsGiven
<1> QED BY <1>1, <1>3, <1>4, <1>6 DEF CollectTyped

\* Every step keeps the types of the collection.
LEMMA CollectTypesKept ==
    ASSUME CollectTyped, [CollectNext]_collectVars
    PROVE  CollectTyped'
<1> USE CollectAssumption
<1>1. ASSUME UNCHANGED hermesVars, UNCHANGED orchestrator, waited' \subseteq Cases, held' \subseteq Cases
      PROVE  CollectTyped'
  BY <1>1 DEF CollectTyped, ClaimsGiven, hermesVars
<1>2. ASSUME NEW c \in Cases, NEW k \in Kinds, create_investigation(c, k) PROVE CollectTyped'
  <2>1. orchestrator' = [orchestrator EXCEPT ![c] = k] /\ UNCHANGED <<waited, hermesVars, held>>
    BY <1>2 DEF create_investigation, collectTickVars
  <2>2. orchestrator' \in [Cases -> {"local", "hermes"}]
    BY <2>1 DEF CollectTyped
  <2> QED BY <2>1, <2>2 DEF CollectTyped, ClaimsGiven, hermesVars
<1>3. CASE run_pending_investigations \/ WorkerCrash
  BY <1>1, <1>3 DEF run_pending_investigations, WorkerCrash, FirstOf, Selected, caseVars, CollectTyped
<1>4. ASSUME NEW c \in Cases, CollectTick(c) PROVE CollectTyped'
  BY <1>1, <1>4 DEF CollectTick, _state_start, start_flows, poll_again, poll_commits,
     _state_poll_collect, _state_analyze, Writes, caseVars, CollectTyped
<1>5. ASSUME NEW c \in Cases, WaitsTooLong(c) PROVE CollectTyped'
  BY <1>1, <1>5 DEF WaitsTooLong, collectTickVars, CollectTyped
<1>6. ASSUME NEW c \in Cases, FiveMinutesPass(c) PROVE CollectTyped'
  BY <1>6 DEF FiveMinutesPass, caseVars, collectTickVars, CollectTyped, ClaimsGiven
<1>7. ASSUME NEW c \in Cases, NEW n \in Claims, update_hermes_status(c, n) PROVE CollectTyped'
  <2>1. /\ jobId' = [jobId EXCEPT ![c] = n] /\ <<c, n>> \in hermesPosts
        /\ UNCHANGED <<orchestrator, waited, polled, claims, resultKey, hermesPosts, held>>
    BY <1>7 DEF update_hermes_status, caseVars, collectTickVars
  <2>2. jobId' \in [Cases -> Nat] /\ \A d \in Cases : jobId'[d] <= claims[d]
    BY <2>1 DEF CollectTyped, ClaimsGiven, Claims
  <2> QED BY <2>1, <2>2 DEF CollectTyped, ClaimsGiven
<1>8. ASSUME NEW c \in Cases, NEW n \in Claims, submit_hermes_result(c, n) PROVE CollectTyped'
  <2>1. /\ <<c, n>> \in hermesPosts /\ hermesPosts' \subseteq hermesPosts
        /\ UNCHANGED <<orchestrator, waited, polled, claims, held>>
    BY <1>8 DEF submit_hermes_result, collectTickVars
  <2>2. \/ jobId' = [jobId EXCEPT ![c] = n] /\ resultKey' = [resultKey EXCEPT ![c] = n]
        \/ UNCHANGED <<jobId, resultKey>>
    BY <1>8 DEF submit_hermes_result
  <2>3. /\ jobId' \in [Cases -> Nat] /\ resultKey' \in [Cases -> Nat]
        /\ \A d \in Cases : jobId'[d] <= claims[d] /\ resultKey'[d] <= claims[d]
    BY <2>1, <2>2 DEF CollectTyped, ClaimsGiven, Claims
  <2> QED BY <2>1, <2>3 DEF CollectTyped, ClaimsGiven
<1>9. ASSUME NEW c \in Cases, NEW op, AdminReads(op, c) \/ AdminWrites(op, c) PROVE CollectTyped'
  BY <1>1, <1>9 DEF AdminReads, AdminWrites, caseVars, collectTickVars, CollectTyped
<1>10. CASE UNCHANGED collectVars
  BY <1>1, <1>10 DEF collectVars, caseVars, collectTickVars, CollectTyped
<1> QED BY <1>2, <1>3, <1>4, <1>5, <1>6, <1>7, <1>8, <1>9, <1>10, ClaimsMade DEF CollectNext

\* Both together are the types of the collection.
LEMMA CollectTypes == CollectSound /\ CollectTyped => CollectTypeOK
BY DEF CollectSound, CollectTyped, ClaimsGiven, CollectTypeOK, CaseStates

\* They hold at the beginning.
LEMMA CollectTypesBegin == CollectInit => CollectTyped
BY CollectAssumption DEF CollectInit, CollectTyped, ClaimsGiven, Claims

-----------------------------------------------------------------------------
(* Reviews of requests.                                                      *)

\* Whoever completes a request has read it as approved, and an approval is
\* never forgotten.
ReviewsSound ==
    /\ request \in [DfirRequests -> {"none", "pending", "approved", "rejected", "completed", "failed"}]
    /\ reviewing \in [Reviewers -> {NotReviewing} \union
                        (DfirRequests \X {"approve", "reject", "complete", "fail"})]
    /\ \A q \in DfirRequests : request[q] \in {"approved", "completed"} => q \in approvals
    /\ \A v \in Reviewers, q \in DfirRequests : reviewing[v] = <<q, "complete">> => q \in approvals

\* What leaves the requests alone leaves them sound.
LEMMA ReviewsAlone ==
    ASSUME ReviewsSound, UNCHANGED requestVars
    PROVE  ReviewsSound'
BY DEF ReviewsSound, requestVars

\* A reviewer reads a request; to complete it, one that is approved.
LEMMA ReviewRead ==
    ASSUME ReviewsSound, NEW v \in Reviewers, NEW q \in DfirRequests,
           NEW action \in {"approve", "reject", "complete", "fail"}, Reviews(v, q, action)
    PROVE  ReviewsSound'
<1>1. reviewing' = [reviewing EXCEPT ![v] = <<q, action>>] /\ UNCHANGED <<request, approvals>>
  BY DEF Reviews
<1>2. action = "complete" => request[q] = "approved"
  BY DEF Reviews, Reviewable, ReviewsSound
<1>3. action = "complete" => q \in approvals
  BY <1>2 DEF ReviewsSound
<1>4. \A w \in Reviewers, p \in DfirRequests : reviewing'[w] = <<p, "complete">> => p \in approvals'
  BY <1>1, <1>3 DEF ReviewsSound
<1>5. QED
  BY <1>1, <1>4 DEF ReviewsSound

\* The decision is committed, whatever the request has become.
LEMMA ReviewCommitted ==
    ASSUME ReviewsSound, NEW v \in Reviewers, commit_review(v)
    PROVE  ReviewsSound'
<1>1. PICK q \in DfirRequests, action \in {"approve", "reject", "complete", "fail"} :
        reviewing[v] = <<q, action>>
  BY DEF commit_review, ReviewsSound
<1>2. /\ request' = [request EXCEPT ![q] = Outcome[action]]
      /\ approvals' = IF action = "approve" THEN approvals \union {q} ELSE approvals
      /\ reviewing' = [reviewing EXCEPT ![v] = NotReviewing]
  BY <1>1 DEF commit_review
<1>3. Outcome[action] \in {"approved", "rejected", "completed", "failed"}
  BY DEF Outcome
<1>4. Outcome[action] \in {"approved", "completed"} => q \in approvals'
  BY <1>1, <1>2 DEF Outcome, ReviewsSound
<1>5. \A p \in DfirRequests : request'[p] \in {"approved", "completed"} => p \in approvals'
  BY <1>2, <1>4 DEF ReviewsSound
<1>6. \A w \in Reviewers, p \in DfirRequests : reviewing'[w] = <<p, "complete">> => p \in approvals'
  BY <1>2 DEF ReviewsSound, NotReviewing
<1>7. QED
  BY <1>2, <1>3, <1>5, <1>6 DEF ReviewsSound

\* Every step keeps the requests sound.
LEMMA ReviewsKept ==
    ASSUME ReviewsSound, [DeskNext]_deskVars
    PROVE  ReviewsSound'
<1>1. ASSUME NEW q \in DfirRequests, create_request(q) PROVE ReviewsSound'
  BY <1>1 DEF create_request, ReviewsSound
<1>2. ASSUME NEW v \in Reviewers, NEW q \in DfirRequests,
             approve_request(v, q) \/ reject_request(v, q) \/ complete_request(v, q)
               \/ patch_request(v, q)
      PROVE  ReviewsSound'
  BY <1>2, ReviewRead DEF approve_request, reject_request, complete_request, patch_request
<1>3. CASE ServerRestarts
  <2>1. UNCHANGED <<request, approvals>> /\ reviewing' = [v \in Reviewers |-> NotReviewing]
    BY <1>3 DEF ServerRestarts
  <2>2. QED
    BY <2>1 DEF ReviewsSound, NotReviewing
<1>4. ASSUME \/ DayPasses
             \/ create_dfir_schedule \/ update_dfir_schedule \/ delete_dfir_schedule
             \/ \E h \in Hunts : \/ create_velociraptor_hunt(h) \/ run_dfir_schedule_now(h)
                                 \/ commit_hunt(h) \/ delete_dfir_hunt(h) \/ resolve_dfir_alert(h)
             \/ \E s \in Scans : _scan_sensitive_flows(s) \/ commit_scan(s)
             \/ UNCHANGED deskVars
      PROVE  UNCHANGED requestVars
  BY <1>4 DEF DayPasses, create_dfir_schedule, update_dfir_schedule, delete_dfir_schedule,
     create_velociraptor_hunt, run_dfir_schedule_now, commit_hunt, delete_dfir_hunt,
     resolve_dfir_alert, _scan_sensitive_flows, commit_scan, deskVars
<1>5. QED
  BY <1>1, <1>2, <1>3, <1>4, ReviewCommitted, ReviewsAlone DEF DeskNext

\* For any number of reviewers at once, a request that is completed was
\* approved at some time (dfir_requests.py:231).
THEOREM ApprovedFirst == DeskSpec => []CompletedWasApproved
<1>1. DeskInit => ReviewsSound
  BY DEF DeskInit, ReviewsSound, NotReviewing
<1>2. ReviewsSound /\ [DeskNext]_deskVars => ReviewsSound'
  BY ReviewsKept
<1>3. ReviewsSound => CompletedWasApproved
  BY DEF ReviewsSound, CompletedWasApproved
<1>4. QED
  BY <1>1, <1>2, <1>3, PTL DEF DeskSpec

\* A flow has at most as many alerts as there are scans at once: a scan that
\* has read it without an alert adds one, and nothing else does.
AlertsCounted ==
    /\ dfirAlerts \in [Hunts -> Nat]
    /\ scanning \in [Scans -> SUBSET flow]
    /\ \A h \in Hunts : dfirAlerts[h] > 0 => h \in flow
    /\ \A h \in Hunts :
          dfirAlerts[h] + Cardinality({s \in Scans : h \in scanning[s]}) <= Cardinality(Scans)

\* The steps of a scan keep the alerts counted, and resolve none.
LEMMA ScansKept ==
    ASSUME AlertsCounted, NEW s \in Scans, _scan_sensitive_flows(s) \/ commit_scan(s)
    PROVE  AlertsCounted' /\ resolved' \subseteq resolved
                /\ \A h \in Hunts : dfirAlerts[h] <= dfirAlerts'[h]
<1> DEFINE Scanning(h) == {r \in Scans : h \in scanning[r]}
<1>0. /\ IsFiniteSet(Scans) /\ Cardinality(Scans) \in Nat
      /\ \A h \in Hunts : Scanning(h) \subseteq Scans
  BY DeskAssumption, FS_CardinalityType
<1>00. \A h \in Hunts : IsFiniteSet(Scanning(h)) /\ Cardinality(Scanning(h)) \in Nat
  BY <1>0, FS_Subset, FS_CardinalityType
<1>1. CASE _scan_sensitive_flows(s)
  <2>1. /\ scanning' = [scanning EXCEPT ![s] = Unreported] /\ scanning[s] = {}
        /\ UNCHANGED <<flow, dfirAlerts, resolved>>
    BY <1>1 DEF _scan_sensitive_flows, huntVars
  <2>2. \A h \in Unreported : h \in flow /\ dfirAlerts[h] = 0
    BY DEF Unreported
  <2>3. scanning' \in [Scans -> SUBSET flow]
    BY <2>1, <2>2 DEF AlertsCounted
  <2>4. ASSUME NEW h \in Hunts
        PROVE  dfirAlerts[h] + Cardinality(Scanning(h)') <= Cardinality(Scans)
    <3>1. CASE h \in Unreported
      <4>1. Cardinality(Scanning(h)') <= Cardinality(Scans)
        BY <1>0, FS_Subset
      <4>2. Cardinality(Scanning(h)') \in Nat
        BY <1>0, FS_Subset, FS_CardinalityType
      <4> QED BY <2>2, <3>1, <4>1, <4>2, <1>0
    <3>2. CASE h \notin Unreported
      <4>1. Scanning(h)' = Scanning(h)
        BY <2>1, <3>2 DEF AlertsCounted
      <4> QED BY <4>1 DEF AlertsCounted
    <3> QED BY <3>1, <3>2
  <2> QED BY <2>1, <2>3, <2>4 DEF AlertsCounted
<1>2. CASE commit_scan(s)
  <2>1. /\ dfirAlerts' = [h \in Hunts |-> dfirAlerts[h] + (IF h \in scanning[s] THEN 1 ELSE 0)]
        /\ scanning' = [scanning EXCEPT ![s] = {}]
        /\ resolved' = resolved \ scanning[s]
        /\ UNCHANGED flow
    BY <1>2 DEF commit_scan, huntVars
  <2>2. /\ dfirAlerts' \in [Hunts -> Nat]
        /\ scanning' \in [Scans -> SUBSET flow']
        /\ \A h \in Hunts : dfirAlerts[h] <= dfirAlerts'[h]
        /\ \A h \in Hunts : dfirAlerts'[h] > 0 => h \in flow'
    BY <2>1 DEF AlertsCounted
  <2>3. ASSUME NEW h \in Hunts
        PROVE  dfirAlerts'[h] + Cardinality(Scanning(h)') <= Cardinality(Scans)
    <3> DEFINE reads == Cardinality(Scanning(h))
               scans == Cardinality(Scans)
    <3>0. dfirAlerts[h] \in Nat /\ dfirAlerts[h] + reads <= scans
      BY DEF AlertsCounted
    <3>00. reads \in Nat /\ scans \in Nat
      BY <1>0, <1>00
    <3>1. CASE h \in scanning[s]
      <4>1. Scanning(h)' = Scanning(h) \ {s} /\ s \in Scanning(h)
        BY <2>1, <3>1 DEF AlertsCounted
      <4>2. reads' = reads - 1
        <5>1. IsFiniteSet(Scanning(h))
          BY <1>00
        <5> HIDE DEF Scanning
        <5> QED BY <4>1, <5>1, FS_RemoveElement
      <4>3. dfirAlerts'[h] = dfirAlerts[h] + 1
        BY <2>1, <3>0, <3>1
      <4>4. dfirAlerts'[h] + reads' <= scans
        <5> HIDE DEF reads, scans
        <5> QED BY <3>0, <3>00, <4>2, <4>3
      <4> QED BY <4>4
    <3>2. CASE h \notin scanning[s]
      <4>1. Scanning(h)' = Scanning(h) /\ dfirAlerts'[h] = dfirAlerts[h]
        BY <2>1, <3>2 DEF AlertsCounted
      <4> QED BY <3>0, <4>1
    <3> QED BY <3>1, <3>2
  <2> QED BY <2>1, <2>2, <2>3 DEF AlertsCounted
<1> QED BY <1>1, <1>2

\* What starts no scan and ends none, and forgets no flow, counts no alert.
LEMMA AlertsAlone ==
    ASSUME AlertsCounted, UNCHANGED <<dfirAlerts, scanning>>, flow \subseteq flow'
    PROVE  AlertsCounted'
<1>1. scanning' \in [Scans -> SUBSET flow']
  BY DEF AlertsCounted
<1> QED BY <1>1 DEF AlertsCounted

\* Every step of the desk keeps its types and the count of alerts.
LEMMA DeskKept ==
    ASSUME DeskTypeOK, ReviewsSound, AlertsCounted, [DeskNext]_deskVars
    PROVE  (DeskTypeOK /\ ReviewsSound /\ AlertsCounted)'
<1> USE DEF DeskTypeOK
<1>0. ReviewsSound'
  BY ReviewsKept
<1>1. ASSUME AlertsCounted'
      PROVE  \A h \in Hunts : dfirAlerts'[h] \in 0..Cardinality(Scans)
  <2> SUFFICES ASSUME NEW h \in Hunts PROVE dfirAlerts'[h] \in 0..Cardinality(Scans)
    OBVIOUS
  <2> DEFINE Reading == {s \in Scans : h \in scanning'[s]}
  <2>1. IsFiniteSet(Reading) /\ Cardinality(Reading) \in Nat /\ Cardinality(Scans) \in Nat
    BY DeskAssumption, FS_Subset, FS_CardinalityType
  <2>2. dfirAlerts'[h] \in Nat /\ dfirAlerts'[h] + Cardinality(Reading) <= Cardinality(Scans)
    BY <1>1 DEF AlertsCounted
  <2> QED BY <2>1, <2>2
<1>2. ASSUME AlertsCounted' PROVE \A s \in Scans : scanning'[s] \subseteq flow'
  BY <1>2 DEF AlertsCounted
<1>3. ASSUME UNCHANGED scanVars, flow \subseteq flow'
      PROVE  /\ AlertsCounted'
             /\ resolved' \subseteq {h \in flow' : dfirAlerts'[h] > 0}
  BY <1>3, AlertsAlone DEF scanVars
<1>4. ASSUME UNCHANGED <<schedule, huntVars, scanVars, ageVars>>,
             approvals' \subseteq {q \in DfirRequests : request'[q] # "none"}
      PROVE  (DeskTypeOK /\ AlertsCounted)'
  BY <1>0, <1>1, <1>2, <1>3, <1>4 DEF huntVars, scanVars, ageVars, ReviewsSound
<1>5. ASSUME UNCHANGED requestVars
      PROVE  request' \in [DfirRequests -> {"none", "pending", "approved", "rejected", "completed", "failed"}]
             /\ approvals' \subseteq {q \in DfirRequests : request'[q] # "none"}
  BY <1>5 DEF requestVars
<1>6. ASSUME NEW q \in DfirRequests, create_request(q) PROVE (DeskTypeOK /\ AlertsCounted)'
  BY <1>4, <1>6 DEF create_request
<1>7. ASSUME NEW v \in Reviewers, commit_review(v) PROVE (DeskTypeOK /\ AlertsCounted)'
  <2>1. PICK q \in DfirRequests, action \in {"approve", "reject", "complete", "fail"} :
          reviewing[v] = <<q, action>>
    BY <1>7 DEF commit_review, ReviewsSound
  <2>2. /\ request' = [request EXCEPT ![q] = Outcome[action]]
        /\ approvals' \subseteq approvals \union {q}
    BY <1>7, <2>1 DEF commit_review
  <2>3. Outcome[action] # "none"
    BY DEF Outcome
  <2>4. approvals' \subseteq {p \in DfirRequests : request'[p] # "none"}
    BY <2>2, <2>3
  <2> QED BY <1>4, <1>7, <2>4 DEF commit_review
<1>8. ASSUME NEW v \in Reviewers, NEW q \in DfirRequests,
             approve_request(v, q) \/ reject_request(v, q) \/ complete_request(v, q)
               \/ patch_request(v, q)
      PROVE  (DeskTypeOK /\ AlertsCounted)'
  BY <1>4, <1>8 DEF approve_request, reject_request, complete_request, patch_request, Reviews
<1>9. CASE create_dfir_schedule \/ update_dfir_schedule \/ delete_dfir_schedule
  BY <1>0, <1>1, <1>2, <1>3, <1>5, <1>9
     DEF create_dfir_schedule, update_dfir_schedule, delete_dfir_schedule, huntVars, ageVars
<1>10. ASSUME NEW h \in Hunts, create_velociraptor_hunt(h) \/ run_dfir_schedule_now(h)
       PROVE  (DeskTypeOK /\ AlertsCounted)'
  BY <1>1, <1>2, <1>3, <1>5, <1>10
     DEF create_velociraptor_hunt, run_dfir_schedule_now, StartHunt, ageVars
<1>11. ASSUME NEW h \in Hunts, commit_hunt(h) \/ delete_dfir_hunt(h)
       PROVE  (DeskTypeOK /\ AlertsCounted)'
  BY <1>1, <1>2, <1>3, <1>5, <1>11 DEF commit_hunt, delete_dfir_hunt, ageVars
<1>12. ASSUME NEW h \in Hunts, resolve_dfir_alert(h) PROVE (DeskTypeOK /\ AlertsCounted)'
  <2>1. /\ UNCHANGED <<requestVars, schedule, huntVars, dfirAlerts, scanning, ageVars>>
        /\ resolved' = resolved \union {h} /\ dfirAlerts[h] > 0
    BY <1>12 DEF resolve_dfir_alert
  <2>2. AlertsCounted' /\ h \in flow
    BY <2>1, AlertsAlone DEF AlertsCounted, huntVars
  <2> QED BY <1>1, <1>2, <1>5, <2>1, <2>2 DEF huntVars, ageVars
<1>13. ASSUME NEW s \in Scans, _scan_sensitive_flows(s) \/ commit_scan(s)
       PROVE  (DeskTypeOK /\ AlertsCounted)'
  <2>1. UNCHANGED <<requestVars, schedule, huntVars, ageVars>>
    BY <1>13 DEF _scan_sensitive_flows, commit_scan
  <2>2. /\ AlertsCounted' /\ resolved' \subseteq resolved
        /\ \A h \in Hunts : dfirAlerts[h] <= dfirAlerts'[h]
    BY <1>13, ScansKept
  <2>3. \A h \in Hunts : dfirAlerts[h] \in Nat /\ dfirAlerts'[h] \in Nat
    BY <2>2 DEF AlertsCounted
  <2>4. flow \subseteq Hunts /\ flow' = flow
    BY <2>1 DEF huntVars
  <2>5. resolved' \subseteq {h \in flow' : dfirAlerts'[h] > 0}
    BY <2>2, <2>3, <2>4
  <2> QED BY <1>1, <1>2, <1>5, <2>1, <2>2, <2>5 DEF huntVars, ageVars
<1>14. CASE DayPasses
  BY <1>0, <1>1, <1>2, <1>3, <1>5, <1>14 DEF DayPasses, huntVars
<1>15. CASE UNCHANGED deskVars
  <2>1. UNCHANGED <<requestVars, schedule, huntVars, scanVars, ageVars>>
    BY <1>15 DEF deskVars
  <2>2. approvals' \subseteq {q \in DfirRequests : request'[q] # "none"}
    BY <1>5, <2>1
  <2> QED BY <1>0, <1>4, <2>1, <2>2
<1>16. CASE ServerRestarts
  <2>1. /\ scanning' = [s \in Scans |-> {}]
        /\ hunt' = [h \in Hunts |-> IF hunt[h] = "calling" THEN "lost" ELSE hunt[h]]
        /\ dayOld' = FALSE
        /\ UNCHANGED <<request, approvals, schedule, fromSchedule, flow, dfirAlerts, resolved,
                       recentHunts>>
    BY <1>16 DEF ServerRestarts
  <2>2. ASSUME NEW h \in Hunts
        PROVE  dfirAlerts[h] + Cardinality({s \in Scans : h \in scanning'[s]}) <= Cardinality(Scans)
    <3>1. {s \in Scans : h \in scanning'[s]} = {}
      BY <2>1
    <3>2. dfirAlerts[h] \in 0..Cardinality(Scans) /\ Cardinality(Scans) \in Nat
      BY DeskAssumption, FS_CardinalityType
    <3>3. Cardinality({s \in Scans : h \in scanning'[s]}) = 0
      BY <3>1, FS_EmptySet
    <3> HIDE DEF DeskTypeOK
    <3> QED BY <3>2, <3>3
  <2>3. AlertsCounted'
    BY <2>1, <2>2 DEF AlertsCounted
  <2>4. \A h \in Hunts : dfirAlerts'[h] \in 0..Cardinality(Scans)
    BY <1>1, <2>3
  <2>5. hunt' \in [Hunts -> {"none", "calling", "completed", "error", "lost", "deleted"}]
    BY <2>1
  <2> QED BY <1>0, <2>1, <2>3, <2>4, <2>5
<1> QED BY <1>0, <1>6, <1>7, <1>8, <1>9, <1>10, <1>11, <1>12, <1>13, <1>14, <1>15,
          <1>16 DEF DeskNext

\* At the beginning there is nothing.
LEMMA DeskBegins == DeskInit => DeskTypeOK /\ ReviewsSound /\ AlertsCounted
<1> SUFFICES ASSUME DeskInit PROVE DeskTypeOK /\ ReviewsSound /\ AlertsCounted
  OBVIOUS
<1>1. IsFiniteSet(Scans) /\ Cardinality(Scans) \in Nat
  BY DeskAssumption, FS_CardinalityType
<1>2. ReviewsSound
  BY DEF DeskInit, ReviewsSound, NotReviewing
<1>3. ASSUME NEW h \in Hunts
      PROVE  dfirAlerts[h] + Cardinality({s \in Scans : h \in scanning[s]}) <= Cardinality(Scans)
  <2>1. {s \in Scans : h \in scanning[s]} = {} /\ dfirAlerts[h] = 0
    BY DEF DeskInit
  <2> QED BY <1>1, <2>1, FS_EmptySet
<1>4. AlertsCounted
  BY <1>3 DEF AlertsCounted, DeskInit
<1>5. \A h \in Hunts : dfirAlerts[h] \in 0..Cardinality(Scans)
  BY <1>1 DEF DeskInit
<1>6. DeskTypeOK
  BY <1>5 DEF DeskTypeOK, DeskInit
<1> QED BY <1>2, <1>4, <1>6

-----------------------------------------------------------------------------
(* Custom artifacts.                                                         *)

States == {"none", "pushed", "failed"}
Copies == [row : {"absent", "live", "gone"}, def : 0..MaxDefinition, state : States]
HandlerSteps == [art : Artifacts, def : 0..MaxDefinition, copy : Copies,
                 step : {"flush", "look", "push", "accepted", "refused", "skipped", "unset",
                         "drop", "pulled", "found"},
                 holds : BOOLEAN]

\* What a handler has pushed or pulled, the server has had; the row that it has
\* read, unless it is gone, is there; and a seed skips a row that said "pushed".
Good(x, rows, ever) ==
    /\ x.step \in {"accepted", "pulled", "found"} => <<x.art, x.def>> \in ever
    /\ x.step \notin {"none", "unset", "drop"} => x.def # NoDefinition
    /\ x.copy.row = "live" => rows[x.art] # NoDefinition
    /\ x.copy.row = "absent" => x.copy.def = NoDefinition /\ x.copy.state = "none"
    /\ x.step \in {"look", "skipped"} => x.copy.state = "pushed"

RowsSound ==
    /\ stored \in [Artifacts -> 0..MaxDefinition]
    /\ pushState \in [Artifacts -> States]
    /\ \A a \in Artifacts : (stored[a] = NoDefinition) = (pushState[a] = "none")

ServerSound ==
    /\ served \in [Artifacts -> 0..MaxDefinition]
    /\ \A a \in Artifacts : served[a] # NoDefinition => <<a, served[a]>> \in everServed
    /\ bundle \in Definitions

ArtifactsSound ==
    /\ RowsSound /\ ServerSound
    /\ handler \in [Handlers -> {NoHandler} \union HandlerSteps]
    /\ \A h \in Handlers : Good(handler[h], stored, everServed)

\* A handler goes on, and no row is written.
LEMMA HandlerMoves ==
    ASSUME ArtifactsSound, NEW h \in Handlers, NEW x \in {NoHandler} \union HandlerSteps,
           handler' = [handler EXCEPT ![h] = x],
           UNCHANGED rowsVars, everServed \subseteq everServed', ServerSound',
           Good(x, stored, everServed')
    PROVE  ArtifactsSound'
<1>1. stored' = stored /\ RowsSound'
  BY DEF rowsVars, ArtifactsSound, RowsSound
<1>2. handler' \in [Handlers -> {NoHandler} \union HandlerSteps]
  BY DEF ArtifactsSound
<1>3. \A k \in Handlers : Good(handler'[k], stored', everServed')
  BY <1>1 DEF ArtifactsSound, Good
<1> QED BY <1>1, <1>2, <1>3 DEF ArtifactsSound

\* The end of a handler leaves nothing behind.
LEMMA HandlerEnds ==
    ASSUME ArtifactsSound, NEW h \in Handlers, End(h), UNCHANGED rowsVars,
           everServed \subseteq everServed', ServerSound'
    PROVE  ArtifactsSound'
<1>1. Good(NoHandler, stored, everServed')
  BY DEF Good, NoHandler, NoCopy
<1> QED BY <1>1, HandlerMoves DEF End

\* A row that is read, or that there is none.
LEMMA CopySound ==
    ASSUME RowsSound, NEW a \in Artifacts
    PROVE  /\ RowRead(a) \in Copies
           /\ RowRead(a).row = "live" => stored[a] # NoDefinition
           /\ RowRead(a).row = "absent" =>
                 RowRead(a).def = NoDefinition /\ RowRead(a).state = "none"
           /\ RowRead(a).def = stored[a] /\ RowRead(a).state = pushState[a]
BY DEF RowsSound, RowRead, Copies

\* The requests and tasks that may begin.
LEMMA BeginningsSound ==
    ASSUME ArtifactsSound, NEW h \in Handlers, NEW a \in Artifacts,
           \/ upload_artifact(h, a) \/ repush_artifact(h, a) \/ seed_velociraptor_artifacts(h, a)
           \/ delete_custom_artifact(h, a) \/ pull_server_artifacts(h, a)
    PROVE  ArtifactsSound' /\ UNCHANGED <<rowsVars, servedVars>>
<1> USE ArtifactsAssumption DEF Definitions, NoDefinition
<1>0. RowsSound /\ ServerSound
  BY DEF ArtifactsSound
<1>1. ASSUME NEW d \in 0..MaxDefinition, NEW copy \in Copies,
             NEW step \in {"flush", "look", "push", "unset", "pulled"},
             Begin(h, a, d, copy, step),
             Good([art |-> a, def |-> d, copy |-> copy, step |-> step, holds |-> FALSE],
                  stored, everServed)
      PROVE  ArtifactsSound' /\ UNCHANGED <<rowsVars, servedVars>>
  <2> DEFINE x == [art |-> a, def |-> d, copy |-> copy, step |-> step, holds |-> FALSE]
  <2>1. handler' = [handler EXCEPT ![h] = x] /\ UNCHANGED <<rowsVars, servedVars, bundle>>
    BY <1>1 DEF Begin
  <2>2. x \in HandlerSteps
    BY DEF HandlerSteps
  <2>3. ServerSound' /\ everServed' = everServed
    BY <1>0, <2>1 DEF ServerSound, servedVars
  <2> QED BY <1>1, <2>1, <2>2, <2>3, HandlerMoves
<1>2. CASE upload_artifact(h, a)
  <2>1. PICK d \in Definitions : Begin(h, a, d, RowRead(a), "flush")
    BY <1>2 DEF upload_artifact
  <2>2. d \in 0..MaxDefinition /\ d # NoDefinition
    BY <2>1
  <2>3. Good([art |-> a, def |-> d, copy |-> RowRead(a), step |-> "flush", holds |-> FALSE],
             stored, everServed)
    BY <1>0, <2>2, CopySound DEF Good
  <2> QED BY <1>0, <1>1, <2>1, <2>2, <2>3, CopySound
<1>3. CASE repush_artifact(h, a)
  <2>1. stored[a] \in 0..MaxDefinition /\ stored[a] # NoDefinition
    BY <1>0, <1>3 DEF RowsSound, repush_artifact
  <2>2. Begin(h, a, stored[a], RowRead(a), "push")
    BY <1>3 DEF repush_artifact
  <2> QED BY <1>0, <1>1, <2>1, <2>2, CopySound DEF Good
<1>4. CASE seed_velociraptor_artifacts(h, a)
  <2>1. bundle \in 0..MaxDefinition /\ bundle # NoDefinition
    BY <1>0 DEF ServerSound
  <2>2. PICK step \in {"look", "push"} :
           Begin(h, a, bundle, RowRead(a), step) /\ (step = "look" => pushState[a] = "pushed")
    BY <1>4 DEF seed_velociraptor_artifacts
  <2> QED BY <1>0, <1>1, <2>1, <2>2, CopySound DEF Good
<1>5. CASE delete_custom_artifact(h, a)
  <2> DEFINE copy == [NoCopy EXCEPT !.row = "live"]
  <2>1. /\ copy \in Copies /\ copy.row = "live"
        /\ copy.def = NoDefinition /\ copy.state = "none"
    BY DEF NoCopy, Copies, States
  <2>2. stored[a] # NoDefinition /\ Begin(h, a, NoDefinition, copy, "unset")
    BY <1>5 DEF delete_custom_artifact
  <2> HIDE DEF copy
  <2>3. Good([art |-> a, def |-> NoDefinition, copy |-> copy, step |-> "unset", holds |-> FALSE],
             stored, everServed)
    BY <2>1, <2>2 DEF Good
  <2>4. NoDefinition \in 0..MaxDefinition
    OBVIOUS
  <2> QED BY <1>1, <2>1, <2>2, <2>3, <2>4
<1>6. CASE pull_server_artifacts(h, a)
  <2>1. /\ served[a] \in 0..MaxDefinition /\ served[a] # NoDefinition
        /\ <<a, served[a]>> \in everServed
    BY <1>0, <1>6 DEF pull_server_artifacts, ServerSound
  <2>2. NoCopy \in Copies /\ NoCopy.row = "absent" /\ NoCopy.def = NoDefinition
           /\ NoCopy.state = "none"
    BY DEF NoCopy, Copies, States
  <2>3. Begin(h, a, served[a], NoCopy, "pulled")
    BY <1>6 DEF pull_server_artifacts
  <2> QED BY <1>1, <2>1, <2>2, <2>3 DEF Good
<1> QED BY <1>2, <1>3, <1>4, <1>5, <1>6

\* What the server has now, it has had.
LEMMA ServeSound ==
    ASSUME ServerSound, NEW a \in Artifacts, NEW d \in 0..MaxDefinition, Serve(a, d),
           bundle' = bundle
    PROVE  /\ ServerSound' /\ everServed \subseteq everServed'
           /\ d # NoDefinition => <<a, d>> \in everServed'
BY DEF Serve, ServerSound

\* A handler goes on to its next step.
LEMMA StepSound ==
    ASSUME ArtifactsSound, NEW h \in Handlers, handler[h] # NoHandler,
           NEW step \in {"skipped", "push", "accepted", "refused", "drop"}, Step(h, step),
           UNCHANGED rowsVars, everServed \subseteq everServed', ServerSound',
           step # "drop" => handler[h].def # NoDefinition,
           step = "skipped" => handler[h].copy.state = "pushed",
           step = "accepted" => <<handler[h].art, handler[h].def>> \in everServed'
    PROVE  ArtifactsSound'
<1> DEFINE x == [handler[h] EXCEPT !.step = step]
<1>1. handler[h] \in HandlerSteps /\ Good(handler[h], stored, everServed)
  BY DEF ArtifactsSound
<1>2. handler' = [handler EXCEPT ![h] = x] /\ x \in HandlerSteps
  BY <1>1 DEF Step, HandlerSteps, ArtifactsSound
<1>3. /\ x.art = handler[h].art /\ x.def = handler[h].def /\ x.copy = handler[h].copy
      /\ x.step = step
  BY <1>1 DEF HandlerSteps
<1> HIDE DEF x
<1>4. Good(x, stored, everServed')
  BY <1>1, <1>3 DEF Good
<1> QED BY <1>2, <1>4, HandlerMoves

\* A handler that waits, for a row, for the server or for nothing any more.
LEMMA WaitsSound ==
    ASSUME ArtifactsSound, NEW h \in Handlers,
           \/ flush_upload(h) \/ existing_check(h) \/ push_artifact(h) \/ delete_artifact(h)
           \/ read_pulled_row(h) \/ _trigger_auto_sync_after_config(h) \/ HandlerCrash(h)
    PROVE  ArtifactsSound' /\ UNCHANGED rowsVars /\ everServed \subseteq everServed'
<1> DEFINE x == handler[h]
           to(step) == [handler[h] EXCEPT !.step = step]
<1>0. RowsSound /\ ServerSound /\ x \in {NoHandler} \union HandlerSteps
        /\ Good(x, stored, everServed)
  BY DEF ArtifactsSound
<1>1. UNCHANGED rowsVars /\ bundle' = bundle
  BY DEF flush_upload, existing_check, push_artifact, delete_artifact, read_pulled_row,
         _trigger_auto_sync_after_config, HandlerCrash
<1>2. ServerSound' /\ everServed \subseteq everServed'
  <2>1. CASE push_artifact(h) \/ delete_artifact(h)
    <3>1. x \in HandlerSteps /\ NoDefinition \in 0..MaxDefinition
      BY <1>0, <2>1, ArtifactsAssumption DEF push_artifact, delete_artifact, NoHandler, NoDefinition
    <3>2. \/ Serve(x.art, x.def) \/ Serve(x.art, NoDefinition) \/ UNCHANGED servedVars
      BY <2>1 DEF push_artifact, delete_artifact
    <3>3. x.art \in Artifacts /\ x.def \in 0..MaxDefinition
      BY <3>1 DEF HandlerSteps
    <3>4. CASE UNCHANGED servedVars
      BY <1>0, <1>1, <3>4 DEF servedVars, ServerSound
    <3> QED BY <1>0, <1>1, <3>1, <3>2, <3>3, <3>4, ServeSound
  <2>2. CASE UNCHANGED servedVars
    BY <1>0, <1>1, <2>2 DEF servedVars, ServerSound
  <2> QED BY <2>1, <2>2 DEF flush_upload, existing_check, read_pulled_row,
             _trigger_auto_sync_after_config, HandlerCrash
<1>3. CASE End(h)
  BY <1>1, <1>2, <1>3, HandlerEnds
<1>4. CASE flush_upload(h) /\ ~End(h)
  <2>1. PICK b \in BOOLEAN : handler' = [handler EXCEPT ![h].step = "push", ![h].holds = b]
    BY <1>4 DEF flush_upload
  <2> DEFINE y == [x EXCEPT !.step = "push", !.holds = b]
  <2>2. x \in HandlerSteps /\ x.step = "flush"
    BY <1>0, <1>4 DEF flush_upload, NoHandler
  <2>3. handler' = [handler EXCEPT ![h] = y] /\ y \in HandlerSteps
    BY <2>1, <2>2 DEF HandlerSteps, ArtifactsSound
  <2>4. /\ y.art = x.art /\ y.def = x.def /\ y.copy = x.copy /\ y.step = "push"
    BY <2>2 DEF HandlerSteps
  <2>5. Good(y, stored, everServed')
    BY <1>0, <2>2, <2>4 DEF Good
  <2> QED BY <1>1, <1>2, <2>3, <2>5, HandlerMoves
<1>6. CASE existing_check(h)
  <2>1. /\ x.step = "look" /\ x # NoHandler
        /\ Step(h, IF served[x.art] # NoDefinition THEN "skipped" ELSE "push")
    BY <1>6 DEF existing_check, NoHandler
  <2>2. x.def # NoDefinition /\ x.copy.state = "pushed"
    BY <1>0, <2>1 DEF Good
  <2>3. CASE Step(h, "skipped")
    BY <1>1, <1>2, <2>1, <2>2, <2>3, StepSound
  <2>4. CASE Step(h, "push")
    BY <1>1, <1>2, <2>1, <2>2, <2>4, StepSound
  <2> QED BY <2>1, <2>3, <2>4
<1>7. CASE push_artifact(h)
  <2>1. x.step = "push" /\ x # NoHandler /\ x.def # NoDefinition
    BY <1>0, <1>7 DEF push_artifact, NoHandler, Good
  <2>2. CASE Serve(x.art, x.def) /\ Step(h, "accepted")
    <3>1. <<x.art, x.def>> \in everServed'
      BY <2>1, <2>2 DEF Serve
    <3> QED BY <1>1, <1>2, <2>1, <2>2, <3>1, StepSound
  <2>3. CASE Step(h, "refused")
    BY <1>1, <1>2, <2>1, <2>3, StepSound
  <2> QED BY <1>7, <2>2, <2>3 DEF push_artifact
<1>8. CASE delete_artifact(h) /\ ~End(h)
  <2>1. x # NoHandler /\ Step(h, "drop")
    BY <1>8 DEF delete_artifact, NoHandler
  <2> QED BY <1>1, <1>2, <2>1, StepSound
<1>9. CASE read_pulled_row(h)
  <2> DEFINE y == [x EXCEPT !.copy = RowRead(x.art), !.step = "found"]
  <2>1. x \in HandlerSteps /\ x.step = "pulled" /\ x.art \in Artifacts
    BY <1>0, <1>9 DEF read_pulled_row, NoHandler, HandlerSteps
  <2>2. handler' = [handler EXCEPT ![h] = y] /\ y \in HandlerSteps
    BY <1>0, <1>9, <2>1, CopySound DEF read_pulled_row, HandlerSteps, ArtifactsSound
  <2>3. /\ y.art = x.art /\ y.def = x.def /\ y.copy = RowRead(x.art) /\ y.step = "found"
    BY <2>1 DEF HandlerSteps
  <2>4. Good(y, stored, everServed')
    BY <1>0, <1>2, <2>1, <2>3, CopySound DEF Good
  <2> QED BY <1>1, <1>2, <2>2, <2>4, HandlerMoves
<1> QED BY <1>1, <1>2, <1>3, <1>4, <1>6, <1>7, <1>8, <1>9
        DEF _trigger_auto_sync_after_config, HandlerCrash

\* A row that newly says "pushed" of what the server never had.
NewlyFalse(a) == SaysPushed(a)' /\ ~SaysPushed(a)
Excused(a) ==
    \E h \in Handlers : /\ handler[h].art = a /\ handler[h].copy.row = "live"
                        /\ StatusOnly(h) \/ FailureUntold(h) \/ ChangeUnpushed(h)

\* A commit keeps a status with every row, and tells something false only by a
\* column that it leaves out.
LEMMA CommitSound ==
    ASSUME ArtifactsSound, NEW h \in Handlers, NEW s \in States,
           Commit(h, handler[h].def, s),
           handler[h].step \in {"accepted", "found", "refused", "skipped"},
           s = CASE handler[h].step = "refused" -> "failed"
                 [] handler[h].step = "skipped" -> handler[h].copy.state
                 [] OTHER -> "pushed"
    PROVE  ArtifactsSound' /\ \A a \in Artifacts : NewlyFalse(a) => Excused(a)
<1> DEFINE x == handler[h]
           b == handler[h].art
           copy == handler[h].copy
<1>0. RowsSound /\ ServerSound /\ Good(x, stored, everServed)
  BY DEF ArtifactsSound
<1>1. x \in HandlerSteps
  BY DEF ArtifactsSound, NoHandler
<1>2. b \in Artifacts /\ x.def \in 0..MaxDefinition /\ copy \in Copies
  BY <1>1 DEF HandlerSteps
<1>3. End(h) /\ UNCHANGED <<servedVars, bundle>>
  BY DEF Commit
<1>4. ServerSound' /\ everServed' = everServed
  BY <1>0, <1>3 DEF ServerSound, servedVars
<1>5. CASE Outdated(h)
  <2>1. UNCHANGED <<stored, pushState>>
    BY <1>5 DEF Commit, rowsVars
  <2>2. ArtifactsSound'
    BY <1>3, <1>4, <2>1, HandlerEnds DEF rowsVars
  <2> QED BY <1>4, <2>1, <2>2 DEF NewlyFalse, SaysPushed
<1>6. CASE ~Outdated(h)
  <2>1. /\ stored' = [stored EXCEPT ![b] = Column(copy.def, x.def, @)]
        /\ pushState' = [pushState EXCEPT ![b] = Column(copy.state, s, @)]
    BY <1>6 DEF Commit
  <2>2. /\ x.def # NoDefinition
        /\ s # "none" \/ copy.state = "none"
        /\ x.step = "skipped" => s = copy.state /\ s = "pushed"
        /\ x.step \in {"accepted", "found"} => s = "pushed" /\ <<b, x.def>> \in everServed
        /\ x.step = "refused" => s = "failed"
    BY <1>0 DEF Good
  <2>3. s # "none"
    BY <2>2
  <2>4. \/ copy.row = "live" /\ stored[b] # NoDefinition
        \/ copy.row = "absent" /\ stored[b] = NoDefinition /\ copy.def = NoDefinition
             /\ copy.state = "none"
    BY <1>0, <1>2, <1>6 DEF Good, Outdated, Copies
  <2>5. /\ stored'[b] = Column(copy.def, x.def, stored[b])
        /\ pushState'[b] = Column(copy.state, s, pushState[b])
        /\ \A a \in Artifacts \ {b} : stored'[a] = stored[a] /\ pushState'[a] = pushState[a]
    BY <1>0, <1>2, <2>1 DEF RowsSound
  <2>6. stored'[b] # NoDefinition /\ pushState'[b] # "none"
    BY <1>0, <1>2, <2>2, <2>3, <2>4, <2>5 DEF Column, RowsSound
  <2>7. RowsSound'
    <3>1. /\ stored' \in [Artifacts -> 0..MaxDefinition]
          /\ pushState' \in [Artifacts -> States]
      BY <1>0, <1>2, <2>1 DEF RowsSound, Column
    <3> QED BY <1>0, <1>2, <2>5, <2>6, <3>1 DEF RowsSound
  <2>8. ArtifactsSound'
    <3>1. handler' = [handler EXCEPT ![h] = NoHandler]
      BY <1>3 DEF End
    <3>2. handler' \in [Handlers -> {NoHandler} \union HandlerSteps]
      BY <3>1 DEF ArtifactsSound
    <3>3. ASSUME NEW k \in Handlers
          PROVE  Good(handler'[k], stored', everServed')
      <4>1. CASE k = h
        BY <3>1, <4>1 DEF Good, NoHandler, NoCopy, ArtifactsSound
      <4>2. CASE k # h
        <5>1. handler'[k] = handler[k] /\ Good(handler[k], stored, everServed)
          BY <3>1, <4>2 DEF ArtifactsSound
        <5>2. handler[k].copy.row = "live" => stored'[handler[k].art] # NoDefinition
          <6>1. handler[k].copy.row = "live" => handler[k].art \in Artifacts
            BY DEF ArtifactsSound, HandlerSteps, NoHandler, NoCopy
          <6> QED BY <2>5, <2>6, <5>1, <6>1 DEF Good
        <5> QED BY <1>4, <5>1, <5>2 DEF Good
      <4> QED BY <4>1, <4>2
    <3> QED BY <1>4, <2>7, <3>2, <3>3 DEF ArtifactsSound
  <2>9. ASSUME NEW a \in Artifacts, NewlyFalse(a)
        PROVE  Excused(a)
    <3>1. a = b
      BY <1>4, <2>5, <2>9 DEF NewlyFalse, SaysPushed
    <3>2. /\ pushState'[b] = "pushed" /\ <<b, stored'[b]>> \notin everServed
          /\ pushState[b] = "pushed" => <<b, stored[b]>> \in everServed
      BY <1>4, <2>9, <3>1 DEF NewlyFalse, SaysPushed
    <3>3. copy.row = "live"
      <4>1. CASE copy.row = "absent"
        <5>1. stored'[b] = x.def /\ pushState'[b] = s
          BY <2>2, <2>3, <2>4, <2>5, <4>1 DEF Column
        <5> QED BY <2>2, <2>4, <3>2, <4>1, <5>1
      <4> QED BY <2>4, <4>1
    <3>4. CASE x.step \in {"accepted", "found"}
      <4>1. stored'[b] # x.def
        BY <2>2, <3>2, <3>4
      <4>2. x.def = copy.def /\ stored[b] # x.def
        BY <2>5, <4>1 DEF Column
      <4> QED BY <3>1, <3>3, <3>4, <4>2 DEF Excused, StatusOnly
    <3>5. CASE x.step = "refused"
      <4>1. copy.state = "failed" /\ pushState[b] = "pushed"
        BY <2>2, <2>5, <3>2, <3>5 DEF Column
      <4>2. x.def # copy.def
        BY <2>5, <3>2, <4>1 DEF Column
      <4> QED BY <3>1, <3>3, <3>5, <4>1, <4>2 DEF Excused, FailureUntold
    <3>6. CASE x.step = "skipped"
      <4>1. pushState[b] = "pushed"
        BY <2>2, <2>5, <3>2, <3>6 DEF Column
      <4>2. x.def # copy.def
        BY <2>5, <3>2, <4>1 DEF Column
      <4> QED BY <3>1, <3>3, <3>6, <4>2 DEF Excused, ChangeUnpushed
    <3> QED BY <3>4, <3>5, <3>6
  <2> QED BY <2>8, <2>9
<1> QED BY <1>5, <1>6

\* A row that is deleted is gone for every copy of it.
LEMMA DropSound ==
    ASSUME ArtifactsSound, NEW h \in Handlers, drop_row(h)
    PROVE  ArtifactsSound' /\ \A a \in Artifacts : ~NewlyFalse(a)
<1> DEFINE b == handler[h].art
<1>0. RowsSound /\ ServerSound /\ UNCHANGED <<servedVars, bundle>>
  BY DEF ArtifactsSound, drop_row
<1>1. ServerSound' /\ everServed' = everServed
  BY <1>0 DEF ServerSound, servedVars
<1>2. CASE handler[h].copy.row = "gone"
  <2>1. End(h) /\ UNCHANGED rowsVars
    BY <1>2 DEF drop_row
  <2>2. ArtifactsSound'
    BY <1>1, <2>1, HandlerEnds
  <2> QED BY <1>1, <2>1, <2>2 DEF NewlyFalse, SaysPushed, rowsVars
<1>3. CASE handler[h].copy.row # "gone"
  <2>1. /\ stored' = [stored EXCEPT ![b] = NoDefinition]
        /\ pushState' = [pushState EXCEPT ![b] = "none"]
        /\ handler' = [k \in Handlers |->
              IF k = h THEN NoHandler
              ELSE IF handler[k].art = b /\ handler[k].copy.row = "live"
              THEN [handler[k] EXCEPT !.copy.row = "gone"]
              ELSE handler[k]]
    BY <1>3 DEF drop_row
  <2>2. RowsSound'
    <3>1. NoDefinition \in 0..MaxDefinition
      BY ArtifactsAssumption DEF NoDefinition
    <3> QED BY <1>0, <2>1, <3>1 DEF RowsSound, States
  <2>3. ASSUME NEW k \in Handlers
        PROVE  /\ handler'[k] \in {NoHandler} \union HandlerSteps
               /\ Good(handler'[k], stored', everServed')
    <3>0. Good(handler[k], stored, everServed)
      BY DEF ArtifactsSound
    <3>1. CASE k = h
      BY <2>1, <3>1 DEF Good, NoHandler, NoCopy
    <3>2. CASE k # h /\ handler[k].art = b /\ handler[k].copy.row = "live"
      <4> DEFINE y == [handler[k] EXCEPT !.copy.row = "gone"]
      <4>1. handler[k] \in HandlerSteps
        BY <3>2 DEF ArtifactsSound, NoHandler, NoCopy
      <4>2. y \in HandlerSteps
        BY <4>1 DEF HandlerSteps, Copies
      <4>3. /\ y.art = b /\ y.def = handler[k].def /\ y.step = handler[k].step
            /\ y.copy.row = "gone" /\ y.copy.state = handler[k].copy.state
        BY <3>2, <4>1 DEF HandlerSteps, Copies
      <4>4. handler'[k] = y
        BY <2>1, <3>2
      <4>5. Good(y, stored', everServed')
        BY <1>1, <3>0, <3>2, <4>3 DEF Good
      <4> QED BY <4>2, <4>4, <4>5
    <3>3. CASE k # h /\ ~(handler[k].art = b /\ handler[k].copy.row = "live")
      <4>1. handler'[k] = handler[k] /\ handler[k] \in {NoHandler} \union HandlerSteps
        BY <2>1, <3>3 DEF ArtifactsSound
      <4>2. handler[k].copy.row = "live" => stored'[handler[k].art] # NoDefinition
        <5>1. handler[k].copy.row = "live" => handler[k].art \in Artifacts
          BY <4>1 DEF HandlerSteps, NoHandler, NoCopy
        <5> QED BY <1>0, <2>1, <3>0, <3>3, <5>1 DEF Good, RowsSound
      <4> QED BY <1>1, <3>0, <4>1, <4>2 DEF Good
    <3> QED BY <3>1, <3>2, <3>3
  <2>4. handler' \in [Handlers -> {NoHandler} \union HandlerSteps]
    BY <2>1, <2>3
  <2>5. ArtifactsSound'
    BY <1>1, <2>2, <2>3, <2>4 DEF ArtifactsSound
  <2>6. ASSUME NEW a \in Artifacts PROVE ~NewlyFalse(a)
    BY <1>0, <1>1, <2>1 DEF NewlyFalse, SaysPushed, RowsSound
  <2> QED BY <2>5, <2>6
<1> QED BY <1>2, <1>3

\* Every step keeps the artifacts sound and says nothing new that is false,
\* but for the handlers that are excused.
LEMMA ArtifactsKept ==
    ArtifactsSound /\ [ArtifactsNext]_artifactVars =>
        ArtifactsSound' /\ \A a \in Artifacts : NewlyFalse(a) => Excused(a)
<1> SUFFICES ASSUME ArtifactsSound, [ArtifactsNext]_artifactVars
             PROVE  ArtifactsSound' /\ \A a \in Artifacts : NewlyFalse(a) => Excused(a)
  OBVIOUS
<1>1. ASSUME UNCHANGED rowsVars, everServed \subseteq everServed'
      PROVE  \A a \in Artifacts : ~NewlyFalse(a)
  BY <1>1 DEF NewlyFalse, SaysPushed, rowsVars
<1>2. ASSUME NEW h \in Handlers, NEW a \in Artifacts,
             \/ upload_artifact(h, a) \/ repush_artifact(h, a) \/ seed_velociraptor_artifacts(h, a)
             \/ delete_custom_artifact(h, a) \/ pull_server_artifacts(h, a)
      PROVE  ArtifactsSound' /\ \A c \in Artifacts : ~NewlyFalse(c)
  <2>1. ArtifactsSound' /\ UNCHANGED <<rowsVars, servedVars>>
    BY <1>2, BeginningsSound
  <2> QED BY <1>1, <2>1 DEF servedVars
<1>3. ASSUME NEW h \in Handlers,
             \/ flush_upload(h) \/ existing_check(h) \/ push_artifact(h) \/ delete_artifact(h)
             \/ read_pulled_row(h) \/ _trigger_auto_sync_after_config(h) \/ HandlerCrash(h)
      PROVE  ArtifactsSound' /\ \A a \in Artifacts : ~NewlyFalse(a)
  BY <1>1, <1>3, WaitsSound
<1>4. ASSUME NEW h \in Handlers, _push_and_record(h)
      PROVE  ArtifactsSound' /\ \A a \in Artifacts : NewlyFalse(a) => Excused(a)
  <2>1. /\ handler[h].step \in {"accepted", "refused", "skipped"}
        /\ Commit(h, handler[h].def, Records(h))
    BY <1>4 DEF _push_and_record
  <2>2. handler[h] \in HandlerSteps
    BY <2>1 DEF ArtifactsSound, NoHandler
  <2>3. Records(h) \in States
    BY <2>1, <2>2 DEF Records, HandlerSteps, Copies, States
  <2>4. Records(h) = CASE handler[h].step = "refused" -> "failed"
                       [] handler[h].step = "skipped" -> handler[h].copy.state
                       [] OTHER -> "pushed"
    BY <2>1 DEF Records
  <2> QED BY <2>1, <2>3, <2>4, CommitSound
<1>5. ASSUME NEW h \in Handlers, sync_artifacts_from_server(h)
      PROVE  ArtifactsSound' /\ \A a \in Artifacts : NewlyFalse(a) => Excused(a)
  <2>1. handler[h].step = "found" /\ Commit(h, handler[h].def, "pushed")
    BY <1>5 DEF sync_artifacts_from_server
  <2>2. "pushed" \in States
    BY DEF States
  <2> QED BY <2>1, <2>2, CommitSound
<1>6. ASSUME NEW h \in Handlers, drop_row(h)
      PROVE  ArtifactsSound' /\ \A a \in Artifacts : ~NewlyFalse(a)
  BY <1>6, DropSound
<1>7. CASE ServerRebuilt
  <2>1. /\ served' = [a \in Artifacts |-> NoDefinition]
        /\ UNCHANGED <<stored, pushState, everServed, bundle, handler>>
    BY <1>7 DEF ServerRebuilt, rowsVars
  <2>2. NoDefinition \in 0..MaxDefinition
    BY ArtifactsAssumption DEF NoDefinition
  <2>3. ArtifactsSound'
    BY <2>1, <2>2 DEF ArtifactsSound, RowsSound, ServerSound
  <2> QED BY <1>1, <2>1, <2>3 DEF rowsVars
<1>8. CASE Upgrade
  <2>1. /\ bundle' = bundle + 1 /\ bundle < MaxDefinition
        /\ UNCHANGED <<stored, pushState, served, everServed, handler>>
    BY <1>8 DEF Upgrade, rowsVars, servedVars
  <2>2. bundle' \in Definitions
    BY <2>1, ArtifactsAssumption DEF ArtifactsSound, ServerSound, Definitions
  <2>3. ArtifactsSound'
    BY <2>1, <2>2 DEF ArtifactsSound, RowsSound, ServerSound
  <2> QED BY <1>1, <2>1, <2>3 DEF rowsVars
<1>9. CASE UNCHANGED artifactVars
  <2>1. UNCHANGED <<stored, pushState, served, everServed, bundle, handler>>
    BY <1>9 DEF artifactVars, rowsVars, servedVars
  <2>2. ArtifactsSound'
    BY <2>1 DEF ArtifactsSound, RowsSound, ServerSound
  <2> QED BY <1>1, <2>1, <2>2 DEF rowsVars
<1> QED BY <1>2, <1>3, <1>4, <1>5, <1>6, <1>7, <1>8, <1>9 DEF ArtifactsNext

\* They hold at the beginning, when there is no row and no handler.
LEMMA ArtifactsBegin == ArtifactsInit => ArtifactsSound
<1> SUFFICES ASSUME ArtifactsInit PROVE ArtifactsSound
  OBVIOUS
<1>1. RowsSound /\ ServerSound
  BY ArtifactsAssumption
     DEF ArtifactsInit, RowsSound, ServerSound, States, Definitions, NoDefinition
<1>2. Good(NoHandler, stored, everServed)
  BY DEF Good, NoHandler, NoCopy
<1> QED BY <1>1, <1>2 DEF ArtifactsInit, ArtifactsSound

\* A row comes to say "pushed" of a definition that the server has never had only
\* by the seed that leaves its push out, or by a commit that leaves a column to
\* one that came after its own read: whatever the number of artifacts,
\* definitions and handlers (routes/velociraptor_artifacts.py,
\* velociraptor_artifact_seed.py).
THEOREM PushedWasServed == ArtifactsSpec => FalselyPushedOnlyIfStale
<1>1. ArtifactsSound /\ [ArtifactsNext]_artifactVars =>
         [\A a \in Artifacts : SaysPushed(a)' =>
             \/ SaysPushed(a)
             \/ \E h \in Handlers : /\ handler[h].art = a /\ handler[h].copy.row = "live"
                                    /\ StatusOnly(h) \/ FailureUntold(h) \/ ChangeUnpushed(h)]_artifactVars
  BY ArtifactsKept DEF NewlyFalse, Excused
<1>2. ArtifactsSound /\ [ArtifactsNext]_artifactVars => ArtifactsSound'
  BY ArtifactsKept
<1> QED BY <1>1, <1>2, ArtifactsBegin, PTL DEF ArtifactsSpec, FalselyPushedOnlyIfStale

\* The rows and their handlers keep their types, for any number of them.
LEMMA ArtifactsTyped == ArtifactsSound => ArtifactsTypeOK
BY DEF ArtifactsSound, RowsSound, ServerSound, ArtifactsTypeOK, HandlerSteps, States

-----------------------------------------------------------------------------
(* The graph of one analysis.                                               *)

Tools == PlatformTools \union InitialCustom \union Tier2Candidates
Items == [id : Nat, tool : Tools \union {EventLogsDetail}, detail : BOOLEAN]

\* The steps of Tier 2, and the node that planned them.
Tier2Nodes == IF tier2_planned THEN 1 ELSE 0
Tier2Steps == IF tier2_planned THEN MAX_TIER2_STEPS ELSE 0

\* The nodes that have run are told by the one that runs next and by the steps
\* collected; the plan has room for both tiers and no more.
NodesCounted ==
    /\ node \in {"verify_target", "plan"} =>
          step_index = 0 /\ plan = <<>> /\ ~tier2_planned
    /\ node = "verify_target" => nodesRun = 0
    /\ node = "plan" => nodesRun = 1
    /\ node = "collect" => nodesRun = 2 + step_index + Tier2Nodes /\ step_index < Len(plan)
    /\ node = "plan_tier2" => nodesRun = 2 + step_index /\ ~tier2_planned
    /\ node = "assess" => nodesRun = 3 + step_index
    /\ node = "render_report" => nodesRun = 4 + step_index
    /\ node \in {"END", "failed"} => nodesRun <= 5 + step_index
    /\ node \in {"assess", "render_report", "END"} => tier2_planned

\* The steps collected so far number their own items, each its own.
ItemsNumbered ==
    /\ \A k \in 1..Len(evidence) : ~evidence[k].detail => evidence[k].id \in 1..step_index
    /\ IdsClashOnlyWithDetails

GraphSound ==
    /\ GraphTypeOK
    /\ plan \in Seq(Tools)
    /\ Len(plan) <= InitialLimit + Tier2Steps
    /\ evidence \in Seq(Items)
    /\ NodesCounted
    /\ ItemsNumbered

\* A plan kept of an answer is a sequence of allowed tools within the limit.
LEMMA KeptPlans ==
    ASSUME NEW allowed, NEW limit \in Nat, NEW steps \in DistinctOf(allowed, limit)
    PROVE  steps \in Seq(allowed) /\ Len(steps) <= limit
  BY DEF DistinctOf, SeqOf

\* The first plan has a step, and at most as many as the first tier allows.
LEMMA FirstPlans ==
    ASSUME NEW steps \in DistinctOf(PlatformTools \union InitialCustom, InitialLimit),
           NEW first \in sanitize_plan(steps, InitialLimit)
    PROVE  first \in Seq(Tools) /\ Len(first) \in 1..InitialLimit
<1>1. InitialLimit \in Nat /\ InitialLimit >= 1
  BY ToolsAssumption DEF InitialLimit, Lesser, INITIAL_TRIAGE_MAX_STEPS
<1>2. CASE steps # <<>>
  <2>1. first = steps
    BY <1>2 DEF sanitize_plan
  <2>2. steps \in Seq(PlatformTools \union InitialCustom) /\ Len(steps) <= InitialLimit
    BY <1>1, KeptPlans
  <2> QED BY <1>1, <1>2, <2>1, <2>2 DEF Tools
<1>3. CASE steps = <<>> /\ PlatformTools # {}
  <2> DEFINE m == Lesser(InitialLimit, Len(BaselineTools))
  <2>1. first = SubSeq(BaselineTools, 1, m)
    BY <1>3 DEF sanitize_plan
  <2>2. BaselineTools \in Seq(PlatformTools) /\ Len(BaselineTools) \in Nat /\ Len(BaselineTools) >= 1
    BY <1>3, ToolsAssumption
  <2>3. m \in 1..InitialLimit /\ m <= Len(BaselineTools)
    BY <1>1, <2>2 DEF Lesser
  <2> HIDE DEF m
  <2>4. first \in Seq(PlatformTools) /\ Len(first) = m
    BY <1>1, <2>1, <2>2, <2>3
  <2> QED BY <2>3, <2>4 DEF Tools
<1>4. CASE steps = <<>> /\ PlatformTools = {}
  <2>1. PICK t \in InitialCustom : first = <<t>>
    BY <1>4 DEF sanitize_plan
  <2> QED BY <1>1, <2>1 DEF Tools
<1> QED BY <1>2, <1>3, <1>4

\* Planning, the assessment and the report leave the evidence as it is.
LEMMA NodesSound ==
    ASSUME GraphSound,
           verify_target \/ plan_initial \/ plan_fails \/ plan_tier2 \/ assess \/ render_report
    PROVE  GraphSound'
<1>1. /\ evidence' = evidence /\ step_index' = step_index /\ step_index \in Nat
      /\ Len(plan) \in Nat /\ nodesRun \in Nat /\ InitialLimit \in Nat /\ InitialLimit <= 3
      /\ tier2_planned \in BOOLEAN
  BY ToolsAssumption DEF verify_target, plan_initial, plan_fails, plan_tier2, assess, render_report,
     GraphSound, GraphTypeOK, InitialLimit, Lesser, INITIAL_TRIAGE_MAX_STEPS
<1>2. ItemsNumbered' /\ evidence' \in Seq(Items)
  BY <1>1 DEF GraphSound, ItemsNumbered, IdsClashOnlyWithDetails
<1>3. CASE verify_target \/ plan_fails \/ assess \/ render_report
  BY <1>1, <1>2, <1>3 DEF verify_target, plan_fails, assess, render_report, Goto, GraphSound, GraphTypeOK,
     NodesCounted, Tier2Steps, Tier2Nodes
<1>4. CASE plan_initial
  <2>1. PICK steps \in DistinctOf(PlatformTools \union InitialCustom, InitialLimit) :
          LET plans == sanitize_plan(steps, InitialLimit) IN
            \/ plan' \in plans /\ Goto("collect")
            \/ plans = {} /\ plan' = plan /\ Goto("failed")
    BY <1>4 DEF plan_initial
  <2>2. node = "plan" /\ UNCHANGED <<step_index, evidence, tier2_planned>>
    BY <1>4 DEF plan_initial
  <2>3. CASE plan' \in sanitize_plan(steps, InitialLimit) /\ Goto("collect")
    <3>1. plan' \in Seq(Tools) /\ Len(plan') \in 1..InitialLimit
      BY <2>3, FirstPlans
    <3> QED BY <1>1, <1>2, <2>2, <2>3, <3>1
            DEF Goto, GraphSound, GraphTypeOK, NodesCounted, Tier2Steps, Tier2Nodes,
                MaxTools, INITIAL_TRIAGE_MAX_STEPS, MAX_TIER2_STEPS
  <2>4. CASE plan' = plan /\ Goto("failed")
    BY <1>1, <1>2, <2>2, <2>4
       DEF Goto, GraphSound, GraphTypeOK, NodesCounted, Tier2Steps, Tier2Nodes
  <2> QED BY <2>1, <2>3, <2>4
<1>5. CASE plan_tier2
  <2>1. PICK fits \in fit_evidence_budget : \E s \in plan_tier2_expansion(fits) : plan' = plan \o s
    BY <1>5 DEF plan_tier2
  <2>2. PICK s \in plan_tier2_expansion(fits) : plan' = plan \o s
    BY <2>1
  <2>3. s \in Seq(Tier2Candidates \ fits) /\ Len(s) <= MAX_TIER2_STEPS
    BY <2>2, KeptPlans DEF plan_tier2_expansion, MAX_TIER2_STEPS
  <2>4. s \in Seq(Tools) /\ Len(s) \in Nat /\ plan \in Seq(Tools)
    BY <2>3 DEF Tools, GraphSound
  <2>5. plan' \in Seq(Tools) /\ Len(plan') = Len(plan) + Len(s)
    BY <2>2, <2>4
  <2> QED BY <1>1, <1>2, <1>5, <2>3, <2>4, <2>5
          DEF plan_tier2, after_tier2_plan, Goto, GraphSound, GraphTypeOK, NodesCounted, Tier2Steps,
              Tier2Nodes, MaxTools, INITIAL_TRIAGE_MAX_STEPS, MAX_TIER2_STEPS
<1> QED BY <1>3, <1>4, <1>5

\* What stands where in a sequence to which an element and a sequence are added.
LEMMA AddedItems ==
    ASSUME NEW S, NEW s \in Seq(S), NEW a \in S, NEW t \in Seq(S), NEW r, r = s \o <<a>> \o t
    PROVE  /\ r \in Seq(S)
           /\ Len(r) = Len(s) + 1 + Len(t)
           /\ \A k \in 1..Len(s) : r[k] = s[k]
           /\ r[Len(s) + 1] = a
           /\ \A k \in Len(s) + 2 .. Len(r) : r[k] = t[k - Len(s) - 1]
<1> DEFINE mid == s \o <<a>>
<1>1. /\ mid \in Seq(S) /\ Len(mid) = Len(s) + 1 /\ mid[Len(s) + 1] = a
      /\ \A k \in 1..Len(s) : mid[k] = s[k]
  OBVIOUS
<1> HIDE DEF mid
<1>2. /\ r \in Seq(S) /\ Len(r) = Len(mid) + Len(t)
      /\ \A k \in 1..Len(mid) : r[k] = mid[k]
      /\ \A k \in Len(mid) + 1 .. Len(r) : r[k] = t[k - Len(mid)]
  BY <1>1 DEF mid
<1>3. Len(s) \in Nat
  OBVIOUS
<1>4. \A k \in Len(s) + 2 .. Len(r) : r[k] = t[k - Len(s) - 1]
  BY <1>1, <1>2, <1>3
<1> QED BY <1>1, <1>2, <1>3, <1>4

\* A step adds an item of its own number, and details after it.
LEMMA CollectedItems ==
    ASSUME GraphSound, collect_step
    PROVE  /\ evidence' \in Seq(Items)
           /\ ItemsNumbered'
<1> DEFINE tool == plan[step_index + 1]
           first == Item(step_index + 1, tool, FALSE)
<1>1. /\ step_index \in Nat /\ step_index < Len(plan) /\ Len(plan) \in Nat
      /\ evidence \in Seq(Items) /\ Len(evidence) \in Nat
      /\ step_index' = step_index + 1
  BY DEF collect_step, GraphSound, GraphTypeOK, NodesCounted
<1>2. tool \in Tools
  BY <1>1 DEF GraphSound
<1>3. PICK n \in 0..MAX_DETAIL_CALLS : evidence' = evidence \o <<first>> \o Details(n)
  <2>1. PICK n \in IF tool = EventLogs THEN validate_event_log_expansions ELSE {0} :
           evidence' = evidence \o <<first>> \o Details(n)
    BY DEF collect_step
  <2> HIDE DEF tool, first
  <2>2. n \in 0..MAX_DETAIL_CALLS
    BY DEF validate_event_log_expansions, MAX_DETAIL_CALLS
  <2> QED BY <2>1, <2>2
<1> DEFINE more == Details(n)
<1>4. first \in Items /\ ~first.detail /\ first.id = step_index + 1
  BY <1>1, <1>2 DEF Item, Items
<1>5. more \in Seq(Items) /\ \A k \in 1..Len(more) : more[k].detail
  <2>1. n \in Nat
    BY DEF MAX_DETAIL_CALLS
  <2>2. \A k \in 1..n : Item(step_index + 1 + k, EventLogsDetail, TRUE) \in Items
    BY <1>1, <2>1 DEF Item, Items
  <2>3. more \in [1..n -> Items] /\ \A k \in 1..n : more[k].detail
    BY <2>2 DEF Details, Item
  <2> QED BY <2>1, <2>3
<1> HIDE DEF first, more
<1> DEFINE old == evidence
           new == evidence'
<1>6. /\ new \in Seq(Items)
      /\ Len(new) = Len(old) + 1 + Len(more)
      /\ \A k \in 1..Len(old) : new[k] = old[k]
      /\ new[Len(old) + 1] = first
      /\ \A k \in Len(old) + 2 .. Len(new) : new[k] = more[k - Len(old) - 1]
  BY <1>1, <1>3, <1>4, <1>5, AddedItems DEF more
<1>7. \A k \in 1..Len(new) :
         \/ k \in 1..Len(old) /\ new[k] = old[k]
         \/ k = Len(old) + 1 /\ new[k] = first
         \/ new[k].detail
  <2> SUFFICES ASSUME NEW k \in 1..Len(new), k > Len(old) + 1 PROVE new[k].detail
    BY <1>1, <1>5, <1>6
  <2>1. k - Len(old) - 1 \in 1..Len(more) /\ k \in Len(old) + 2 .. Len(new)
    BY <1>1, <1>5, <1>6
  <2> QED BY <1>5, <1>6, <2>1
<1>8. \A k \in 1..Len(old) : ~old[k].detail => old[k].id \in 1..step_index
  BY DEF GraphSound, ItemsNumbered
<1>9. \A k \in 1..Len(new) : ~new[k].detail => new[k].id \in 1..step_index + 1
  BY <1>1, <1>4, <1>7, <1>8
<1>10. ASSUME NEW j \in 1..Len(new), NEW k \in 1..Len(new), j # k, new[j].id = new[k].id
       PROVE  new[j].detail \/ new[k].detail
  <2>1. CASE j \in 1..Len(old) /\ k \in 1..Len(old) /\ new[j] = old[j] /\ new[k] = old[k]
    BY <1>10, <2>1 DEF GraphSound, ItemsNumbered, IdsClashOnlyWithDetails
  <2>2. ASSUME NEW m \in 1..Len(old), ~old[m].detail PROVE old[m].id # first.id
    BY <1>1, <1>4, <1>8, <2>2
  <2> QED BY <1>7, <1>10, <2>1, <2>2
<1> QED BY <1>1, <1>6, <1>9, <1>10 DEF ItemsNumbered, IdsClashOnlyWithDetails

\* Every node keeps the invariant of the graph.
LEMMA GraphAlwaysSound == GraphSpec => []GraphSound
<1>1. GraphInit => GraphSound
  <2> SUFFICES ASSUME GraphInit PROVE GraphSound
    OBVIOUS
  <2>1. InitialLimit \in Nat
    BY ToolsAssumption DEF InitialLimit, Lesser, INITIAL_TRIAGE_MAX_STEPS
  <2>2. /\ plan = <<>> /\ evidence = <<>> /\ Len(<<>>) = 0
        /\ <<>> \in Seq(Tools) /\ <<>> \in Seq(Items)
    BY DEF GraphInit
  <2>3. ItemsNumbered
    <3>1. 1..Len(evidence) = {}
      BY <2>2
    <3> QED BY <3>1 DEF ItemsNumbered, IdsClashOnlyWithDetails
  <2>4. Len(plan) = 0
    BY <2>2
  <2>5. GraphTypeOK
    <3>1. step_index = 0 /\ nodesRun = 0 /\ node = "verify_target" /\ tier2_planned = FALSE
      BY DEF GraphInit
    <3>2. Len(plan) <= MaxTools /\ step_index \in 0..Len(plan)
      BY <2>4, <3>1 DEF MaxTools, INITIAL_TRIAGE_MAX_STEPS, MAX_TIER2_STEPS
    <3> QED BY <3>1, <3>2 DEF GraphTypeOK
  <2>6. NodesCounted
    BY DEF GraphInit, NodesCounted
  <2> QED BY <2>1, <2>2, <2>3, <2>4, <2>5, <2>6 DEF GraphInit, GraphSound, Tier2Steps
<1>2. GraphSound /\ [GraphNext]_graphVars => GraphSound'
  <2> SUFFICES ASSUME GraphSound, [GraphNext]_graphVars PROVE GraphSound'
    OBVIOUS
  <2>1. CASE collect_step
    <3>1. /\ UNCHANGED <<plan, tier2_planned>> /\ step_index' = step_index + 1
          /\ step_index \in Nat /\ Len(plan) \in Nat /\ step_index < Len(plan)
          /\ nodesRun = 2 + step_index + Tier2Nodes /\ nodesRun' = nodesRun + 1
          /\ node' = after_collect(step_index + 1) /\ tier2_planned \in BOOLEAN
      BY <2>1 DEF collect_step, Goto, GraphSound, GraphTypeOK, NodesCounted
    <3>2. NodesCounted' /\ GraphTypeOK'
      BY <3>1 DEF after_collect, NodesCounted, GraphSound, GraphTypeOK, Tier2Nodes
    <3> QED BY <2>1, <3>1, <3>2, CollectedItems DEF GraphSound, Tier2Steps
  <2>2. CASE UNCHANGED graphVars
    BY <2>2 DEF graphVars, GraphSound, GraphTypeOK, NodesCounted, ItemsNumbered,
                IdsClashOnlyWithDetails, Tier2Steps, Tier2Nodes
  <2> QED BY <2>1, <2>2, NodesSound DEF GraphNext
<1> QED BY <1>1, <1>2, PTL DEF GraphSpec

\* An analysis that collects all that both tiers allow stays within the number
\* of nodes that the runner gives to LangGraph (runner.py:69), whatever the
\* model answers, the tools of the platform and max_steps.
THEOREM AnalysisEnds == GraphSpec => []WithinRecursionLimit
<1>1. GraphSound => WithinRecursionLimit
  <2> SUFFICES ASSUME GraphSound PROVE nodesRun <= MaxSteps + 8
    BY DEF WithinRecursionLimit
  <2>1. /\ InitialLimit \in Nat /\ InitialLimit <= MaxSteps /\ MaxSteps \in Nat
        /\ nodesRun \in Nat /\ step_index \in Nat /\ Len(plan) \in Nat
        /\ step_index <= Len(plan) /\ Len(plan) <= InitialLimit + 2
    BY ToolsAssumption DEF InitialLimit, Lesser, INITIAL_TRIAGE_MAX_STEPS, GraphSound, GraphTypeOK,
       Tier2Steps, MAX_TIER2_STEPS
  <2>2. nodesRun <= 5 + step_index
    BY <2>1 DEF GraphSound, GraphTypeOK, NodesCounted, Tier2Nodes
  <2> QED BY <2>1, <2>2
<1> QED BY <1>1, GraphAlwaysSound, PTL

\* The steps of both tiers give their items different ids: a finding that
\* names one of them names one item, unless a detail of the event log has
\* taken its number (graph.py:384).
THEOREM StepsToldApart == GraphSpec => []IdsClashOnlyWithDetails
<1>1. GraphSound => IdsClashOnlyWithDetails
  BY DEF GraphSound, ItemsNumbered
<1> QED BY <1>1, GraphAlwaysSound, PTL

-----------------------------------------------------------------------------
(* The links between machines and Velociraptor clients.                     *)

\* What a sync has read of the machines names each of them once, and the table
\* as it sees it gives each client to one row.
SyncSound(s) ==
    /\ \A q, r \in DOMAIN sync[s].want : HwOf[q] = HwOf[r] => q = r
    /\ \A r \in DOMAIN sync[s].want : rowHost[r] # NoHost
    /\ \A r \in sync[s].done : rowHost[r] \in Hosts
    /\ \A q, r \in LinkRows : Seen(s)[q] = Seen(s)[r] /\ Seen(s)[q] # NoLink => q = r

\* What s has upserted does not touch a row or a client of what k has.
Apart(s, k) ==
    \A q \in sync[s].done, r \in sync[k].done :
       /\ q # r /\ sync[s].want[q] # sync[k].want[r]
       /\ link[q] # sync[k].want[r] /\ link[r] # sync[s].want[q]

LinksSound ==
    /\ LinksTypeOK
    /\ \A s \in Syncs : SyncSound(s)
    /\ \A s, k \in Syncs : s # k => Apart(s, k)

\* Whoever is seen now comes last in the order, and is there.
LEMMA SeenLast ==
    ASSUME NEW All, NEW present \in SUBSET All, NEW x \in All,
           NEW before, DOMAIN before = All, Ordered(before, present)
    PROVE  /\ DOMAIN SeenAfter(present, x, before) = All
           /\ Ordered(SeenAfter(present, x, before), present \union {x})
<1> DEFINE after == SeenAfter(present, x, before)
<1>1. /\ before \in [All -> SUBSET present]
      /\ \A y, z \in present : y # z => (y \in before[z] <=> z \notin before[y])
  BY DEF Ordered
<1>2. /\ DOMAIN after = All
      /\ after[x] = present \ {x}
      /\ \A y \in All : y # x => after[y] = before[y] \ {x}
  BY DEF SeenAfter
<1>3. after \in [DOMAIN after -> SUBSET (present \union {x})]
  <2>1. after = [y \in All |-> after[y]]
    BY <1>2 DEF SeenAfter
  <2>2. \A y \in All : after[y] \subseteq present \union {x}
    BY <1>1, <1>2
  <2> QED BY <1>2, <2>1, <2>2
<1> HIDE DEF after
<1>4. ASSUME NEW y \in present \union {x}, NEW z \in present \union {x}, y # z
      PROVE  y \in after[z] <=> z \notin after[y]
  <2>1. CASE y # x /\ z # x
    <3>1. y \in present /\ z \in present /\ y \in All /\ z \in All
      BY <1>4, <2>1
    <3>2. y \in before[z] <=> z \notin before[y]
      BY <1>1, <1>4, <3>1
    <3> QED BY <1>2, <2>1, <3>1, <3>2
  <2>2. CASE y = x \/ z = x
    BY <1>2, <1>4, <2>2
  <2> QED BY <2>1, <2>2
<1>5. DOMAIN after = All /\ Ordered(after, present \union {x})
  BY <1>2, <1>3, <1>4 DEF Ordered
<1> QED BY <1>5 DEF after

\* Whoever goes is before nobody any more.
LEMMA SeenNoMore ==
    ASSUME NEW All, NEW present \in SUBSET All, NEW x \in All,
           NEW before, DOMAIN before = All, Ordered(before, present)
    PROVE  /\ DOMAIN SeenAfter({}, x, before) = All
           /\ Ordered(SeenAfter({}, x, before), present \ {x})
<1> DEFINE after == SeenAfter({}, x, before)
<1>1. /\ before \in [All -> SUBSET present]
      /\ \A y, z \in present : y # z => (y \in before[z] <=> z \notin before[y])
  BY DEF Ordered
<1>2. after = [y \in All |-> IF y = x THEN {} ELSE before[y] \ {x}]
  BY DEF SeenAfter
<1>3. after \in [DOMAIN after -> SUBSET (present \ {x})]
  BY <1>1, <1>2
<1> HIDE DEF after
<1>4. ASSUME NEW y \in present \ {x}, NEW z \in present \ {x}, y # z
      PROVE  y \in after[z] <=> z \notin after[y]
  <2>1. y \in before[z] <=> z \notin before[y]
    BY <1>1, <1>4
  <2> QED BY <1>2, <1>4, <2>1
<1>5. DOMAIN after = All /\ Ordered(after, present \ {x})
  BY <1>2, <1>3, <1>4 DEF Ordered
<1> QED BY <1>5 DEF after

\* A report leaves the links and the syncs alone: a row that was there stays.
LEMMA ReportsSound ==
    ASSUME LinksSound, LinksTypeOK', UNCHANGED <<link, sync>>,
           \A r \in LinkRows : rowHost[r] # NoHost => rowHost'[r] # NoHost,
           \A r \in LinkRows : rowHost[r] \in Hosts => rowHost'[r] \in Hosts
    PROVE  LinksSound'
<1>1. ASSUME NEW s \in Syncs PROVE SyncSound(s)'
  <2>1. SyncSound(s) /\ Seen(s)' = Seen(s)
    BY DEF LinksSound, Seen
  <2>2. DOMAIN sync[s].want \subseteq LinkRows /\ sync[s].done \subseteq LinkRows
    BY DEF LinksSound, LinksTypeOK, SyncStates
  <2> QED BY <2>1, <2>2 DEF SyncSound
<1>2. \A s, k \in Syncs : Apart(s, k)' = Apart(s, k)
  BY DEF Apart
<1> QED BY <1>1, <1>2 DEF LinksSound

\* A sync that has written nothing yet, or no more.
LEMMA SyncMoves ==
    ASSUME LinksSound, NEW s \in Syncs, NEW x \in SyncStates, sync' = [sync EXCEPT ![s] = x],
           UNCHANGED <<inventoryVars, serverVars, link>>, lastSync' \in {"ok", "failed"},
           x.done = {}, x.phase = "listed" => x.listed \in [Hosts -> Clients \union {NoLink}],
           \A q, r \in DOMAIN x.want : HwOf[q] = HwOf[r] => q = r,
           \A r \in DOMAIN x.want : rowHost[r] # NoHost
    PROVE  LinksSound'
<1>1. LinksTypeOK
  BY DEF LinksSound
<1>2. sync'[s] = x /\ \A k \in Syncs \ {s} : sync'[k] = sync[k]
  BY <1>1 DEF LinksTypeOK
<1>3. LinksTypeOK'
  BY <1>1, <1>2 DEF LinksTypeOK, inventoryVars, serverVars
<1>4. SyncSound(s)'
  <2>1. \A r \in LinkRows : Seen(s)'[r] = link[r]
    BY <1>2 DEF Seen
  <2> QED BY <1>1, <1>2, <2>1 DEF SyncSound, LinksTypeOK, inventoryVars, Seen
<1>5. ASSUME NEW k \in Syncs, k # s PROVE SyncSound(k)'
  <2>1. SyncSound(k) /\ Seen(k)' = Seen(k)
    BY <1>2, <1>5 DEF LinksSound, Seen
  <2> QED BY <1>2, <1>5, <2>1 DEF SyncSound, inventoryVars
<1>6. ASSUME NEW j \in Syncs, NEW k \in Syncs, j # k PROVE Apart(j, k)'
  BY <1>2, <1>6 DEF LinksSound, Apart
<1> QED BY <1>3, <1>4, <1>5, <1>6 DEF LinksSound

\* A sync that has not read the machines yet, or has ended.
LEMMA AtSound ==
    ASSUME NEW ph \in {"idle", "listed", "ok", "failed"}
    PROVE  /\ At(ph) \in SyncStates
           /\ At(ph).done = {} /\ At(ph).phase = ph /\ DOMAIN At(ph).want = {}
<1>1. [r \in {} |-> NoLink] \in UNION {[rows -> Clients] : rows \in SUBSET LinkRows}
  <2>1. [r \in {} |-> NoLink] \in [{} -> Clients]
    OBVIOUS
  <2> QED BY <2>1
<1> QED BY <1>1 DEF At, SyncStates

\* A sync that is over, whatever came of it.
LEMMA SyncEnds ==
    ASSUME LinksSound, NEW s \in Syncs, NEW ph \in {"idle", "ok", "failed"},
           sync' = [sync EXCEPT ![s] = At(ph)],
           UNCHANGED <<inventoryVars, serverVars, link>>, lastSync' \in {"ok", "failed"}
    PROVE  LinksSound'
<1>1. /\ At(ph) \in SyncStates
      /\ At(ph).done = {} /\ At(ph).phase = ph /\ DOMAIN At(ph).want = {}
  BY AtSound
<1> QED BY <1>1, SyncMoves

\* The clients are listed, or cannot be.
LEMMA ListSound ==
    ASSUME LinksSound, NEW s \in Syncs, read_clients(s)
    PROVE  LinksSound'
<1>1. UNCHANGED <<inventoryVars, serverVars, link, lastSync>> /\ lastSync' \in {"ok", "failed"}
  BY DEF read_clients, LinksSound, LinksTypeOK
<1>2. CASE sync' = [sync EXCEPT ![s] = At("failed")]
  BY <1>1, <1>2, SyncEnds
<1>3. CASE sync' = [sync EXCEPT ![s] = [At("listed") EXCEPT !.listed = by_hostname]]
  <2> DEFINE x == [At("listed") EXCEPT !.listed = by_hostname]
  <2>1. by_hostname \in [Hosts -> Clients \union {NoLink}]
    BY DEF by_hostname, LastOf
  <2>2. /\ x \in SyncStates /\ x.done = {} /\ x.phase = "listed" /\ x.listed = by_hostname
        /\ DOMAIN x.want = {}
    <3>1. At("listed") \in SyncStates /\ At("listed").done = {}
            /\ At("listed").phase = "listed" /\ DOMAIN At("listed").want = {}
      BY AtSound
    <3> QED BY <2>1, <3>1 DEF SyncStates
  <2> HIDE DEF x
  <2>3. sync' = [sync EXCEPT ![s] = x]
    BY <1>3 DEF x
  <2> QED BY <1>1, <2>1, <2>2, <2>3, SyncMoves
<1> QED BY <1>2, <1>3 DEF read_clients

\* Of the rows of one machine a sync wants one.
LEMMA WantSound ==
    ASSUME LinksSound, NEW s \in Syncs, read_machines(s)
    PROVE  LinksSound'
<1> DEFINE listed == sync[s].listed
           rows == {r \in dedup : listed[rowHost[r]] # NoLink}
           want == [r \in rows |-> listed[rowHost[r]]]
           x == [At("writing") EXCEPT !.want = want]
<1>0. LinksTypeOK
  BY DEF LinksSound
<1>1. rows \subseteq LinkRows /\ \A r \in rows : r \in Present(rowHost) /\ rowHost[r] \in Hosts
  BY <1>0 DEF dedup, Present, LinksTypeOK
<1>2. listed \in [Hosts -> Clients \union {NoLink}]
  BY <1>0 DEF read_machines, LinksTypeOK
<1>3. want \in [rows -> Clients]
  BY <1>1, <1>2
<1>4. ASSUME NEW q \in rows, NEW r \in rows, HwOf[q] = HwOf[r], q # r
      PROVE  FALSE
  <2>1. q \in rowsBefore[r] /\ r \in rowsBefore[q]
    BY <1>1, <1>4 DEF dedup
  <2> QED BY <1>0, <1>1, <1>4, <2>1 DEF LinksTypeOK, Ordered
<1>5. /\ sync' = [sync EXCEPT ![s] = x]
      /\ UNCHANGED <<inventoryVars, serverVars, link, lastSync>>
  BY DEF read_machines
<1>6. DOMAIN want = rows
  OBVIOUS
<1> HIDE DEF want, rows
<1>7. x \in SyncStates /\ x.done = {} /\ x.phase = "writing" /\ x.want = want
  BY <1>1, <1>3 DEF At, SyncStates
<1>8. \A r \in rows : rowHost[r] # NoHost
  BY <1>1, LinksAssumption
<1> HIDE DEF x
<1> QED BY <1>0, <1>4, <1>5, <1>6, <1>7, <1>8, SyncMoves DEF LinksTypeOK

\* What the transaction has written so far, and the next row.
LEMMA UpsertSound ==
    ASSUME LinksSound, NEW s \in Syncs, NEW r \in LinkRows, upsert_link(s, r), ~Breaks(s, r)
    PROVE  LinksSound'
<1> DEFINE x == [sync[s] EXCEPT !.done = @ \union {r}]
           c == sync[s].want[r]
<1>0. LinksTypeOK /\ SyncSound(s)
  BY DEF LinksSound
<1>1. /\ sync' = [sync EXCEPT ![s] = x]
      /\ UNCHANGED <<inventoryVars, serverVars, link, lastSync>>
      /\ r \in DOMAIN sync[s].want /\ r \notin sync[s].done
      /\ \A k \in Syncs : ~WaitsFor(s, r, k)
  BY DEF upsert_link, Rest
<1>2. /\ sync[s] \in SyncStates /\ x \in SyncStates
      /\ x.want = sync[s].want /\ x.done = sync[s].done \union {r}
      /\ x.phase = sync[s].phase /\ x.listed = sync[s].listed
  BY <1>0 DEF LinksTypeOK, SyncStates
<1> HIDE DEF x
<1>3. sync'[s] = x /\ \A k \in Syncs \ {s} : sync'[k] = sync[k]
  BY <1>0, <1>1 DEF LinksTypeOK
<1>4. c \in Clients /\ c # NoLink /\ sync[s].done \subseteq DOMAIN sync[s].want
  BY <1>0, <1>1, <1>2, LinksAssumption DEF LinksTypeOK, SyncStates
<1>5. LinksTypeOK'
  <2>1. sync' \in [Syncs -> SyncStates] /\ lastSync' \in {"ok", "failed"}
    BY <1>0, <1>1, <1>2 DEF LinksTypeOK
  <2>2. \A k \in Syncs :
           /\ sync'[k].phase = "listed" =>
                 sync'[k].listed \in [Hosts -> Clients \union {NoLink}]
           /\ sync'[k].done \subseteq DOMAIN sync'[k].want
    BY <1>0, <1>1, <1>2, <1>3, <1>4 DEF LinksTypeOK
  <2> QED BY <1>0, <1>1, <2>1, <2>2 DEF LinksTypeOK, inventoryVars, serverVars
<1>6. SyncSound(s)'
  <2>1. \A q \in LinkRows : Seen(s)'[q] = IF q = r THEN c ELSE Seen(s)[q]
    BY <1>1, <1>2, <1>3 DEF Seen
  <2>2. \A q \in LinkRows \ {r} : Seen(s)[q] # c
    BY DEF Breaks
  <2>3. \A p, q \in LinkRows : Seen(s)'[p] = Seen(s)'[q] /\ Seen(s)'[p] # NoLink => p = q
    BY <1>0, <2>1, <2>2 DEF SyncSound
  <2>4. rowHost[r] \in Hosts
    BY <1>0, <1>1 DEF Breaks, SyncSound, LinksTypeOK
  <2> QED BY <1>0, <1>1, <1>2, <1>3, <2>3, <2>4 DEF SyncSound, inventoryVars
<1>7. ASSUME NEW k \in Syncs, k # s
      PROVE  SyncSound(k)' /\ Apart(s, k)' /\ Apart(k, s)'
  <2>1. SyncSound(k) /\ Apart(s, k) /\ sync'[k] = sync[k]
    BY <1>3, <1>7 DEF LinksSound
  <2>2. Seen(k)' = Seen(k)
    BY <1>1, <2>1 DEF Seen
  <2>3. SyncSound(k)'
    BY <1>1, <2>1, <2>2 DEF SyncSound, inventoryVars
  <2>4. ASSUME NEW q \in sync[k].done
        PROVE  q # r /\ sync[k].want[q] # c /\ link[q] # c /\ link[r] # sync[k].want[q]
    <3>1. q # r /\ sync[k].want[q] # c /\ link[q] # c
      BY <1>1, <1>7 DEF WaitsFor
    <3>2. CASE r \in sync[k].done
      BY <1>1, <1>7, <3>2 DEF WaitsFor
    <3>3. CASE r \notin sync[k].done
      <4>1. /\ q \in LinkRows /\ q \in DOMAIN sync[k].want
            /\ sync[k].want[q] \in Clients
        BY <1>0 DEF LinksTypeOK, SyncStates
      <4>2. Seen(k)[q] = sync[k].want[q] /\ Seen(k)[r] = link[r]
        BY <3>3, <4>1 DEF Seen
      <4> QED BY <2>1, <3>1, <4>1, <4>2, LinksAssumption DEF SyncSound
    <3> QED BY <3>1, <3>2, <3>3
  <2>5. Apart(s, k)' /\ Apart(k, s)'
    BY <1>1, <1>2, <1>3, <2>1, <2>4 DEF Apart
  <2> QED BY <2>3, <2>5
<1>8. ASSUME NEW j \in Syncs, NEW k \in Syncs, j # k, j # s, k # s PROVE Apart(j, k)'
  BY <1>1, <1>3, <1>8 DEF LinksSound, Apart
<1> QED BY <1>5, <1>6, <1>7, <1>8 DEF LinksSound

\* A commit makes the table what the sync saw, and leaves the others theirs.
LEMMA CommitLinksSound ==
    ASSUME LinksSound, NEW s \in Syncs, commit_links(s)
    PROVE  LinksSound'
<1>0. LinksTypeOK /\ SyncSound(s)
  BY DEF LinksSound
<1>1. /\ sync' = [sync EXCEPT ![s] = At("ok")] /\ link' = Seen(s)
      /\ UNCHANGED <<inventoryVars, serverVars, lastSync>>
  BY DEF commit_links
<1>2. /\ At("ok") \in SyncStates /\ At("ok").done = {} /\ At("ok").phase = "ok"
      /\ DOMAIN At("ok").want = {}
  BY AtSound
<1>3. sync'[s] = At("ok") /\ \A k \in Syncs \ {s} : sync'[k] = sync[k]
  BY <1>0, <1>1 DEF LinksTypeOK
<1>4. /\ sync[s].done \subseteq DOMAIN sync[s].want /\ DOMAIN sync[s].want \subseteq LinkRows
      /\ \A r \in DOMAIN sync[s].want : sync[s].want[r] \in Clients
  BY <1>0 DEF LinksTypeOK, SyncStates
<1>5. LinksTypeOK'
  <2>1. link' \in [LinkRows -> Clients \union {NoLink}]
    BY <1>0, <1>1, <1>4 DEF Seen, LinksTypeOK
  <2>2. \A q, r \in LinkRows : link'[q] = link'[r] /\ link'[q] # NoLink => q = r
    BY <1>0, <1>1 DEF SyncSound
  <2>3. \A r \in LinkRows : link'[r] # NoLink => rowHost[r] \in Hosts
    BY <1>0, <1>1 DEF Seen, SyncSound, LinksTypeOK
  <2>4. sync' \in [Syncs -> SyncStates]
    BY <1>0, <1>1, <1>2 DEF LinksTypeOK
  <2>5. \A k \in Syncs :
           /\ sync'[k].phase = "listed" =>
                 sync'[k].listed \in [Hosts -> Clients \union {NoLink}]
           /\ sync'[k].done \subseteq DOMAIN sync'[k].want
    BY <1>0, <1>2, <1>3 DEF LinksTypeOK
  <2> QED BY <1>0, <1>1, <2>1, <2>2, <2>3, <2>4, <2>5
          DEF LinksTypeOK, inventoryVars, serverVars
<1>6. SyncSound(s)'
  <2>1. \A q \in LinkRows : Seen(s)'[q] = link'[q]
    BY <1>2, <1>3 DEF Seen
  <2> QED BY <1>2, <1>3, <1>5, <2>1 DEF SyncSound, LinksTypeOK
<1>7. ASSUME NEW k \in Syncs, k # s
      PROVE  SyncSound(k)'
  <2>1. SyncSound(k) /\ Apart(k, s) /\ sync'[k] = sync[k]
    BY <1>3, <1>7 DEF LinksSound
  <2>2. \A q \in LinkRows : Seen(k)'[q] = IF q \in sync[k].done THEN sync[k].want[q]
                                         ELSE IF q \in sync[s].done THEN sync[s].want[q]
                                         ELSE link[q]
    BY <1>1, <2>1 DEF Seen
  <2>3. \A q, r \in LinkRows : Seen(k)'[q] = Seen(k)'[r] /\ Seen(k)'[q] # NoLink => q = r
    <3> SUFFICES ASSUME NEW q \in LinkRows, NEW r \in LinkRows,
                        Seen(k)'[q] = Seen(k)'[r], Seen(k)'[q] # NoLink, q # r
                 PROVE  FALSE
      OBVIOUS
    <3>1. CASE q \in sync[s].done /\ r \in sync[s].done
      BY <1>0, <2>1, <2>2, <3>1 DEF SyncSound, Seen, Apart
    <3>2. CASE q \notin sync[s].done /\ r \notin sync[s].done
      BY <2>1, <2>2, <3>2 DEF SyncSound, Seen
    <3>3. CASE q \in sync[s].done /\ r \notin sync[s].done
      BY <1>0, <2>1, <2>2, <3>3 DEF SyncSound, Seen, Apart
    <3>4. CASE q \notin sync[s].done /\ r \in sync[s].done
      BY <1>0, <2>1, <2>2, <3>4 DEF SyncSound, Seen, Apart
    <3> QED BY <3>1, <3>2, <3>3, <3>4
  <2> QED BY <1>1, <2>1, <2>3 DEF SyncSound, inventoryVars
<1>8. ASSUME NEW j \in Syncs, NEW k \in Syncs, j # k PROVE Apart(j, k)'
  <2>1. CASE j = s \/ k = s
    BY <1>2, <1>3, <2>1 DEF Apart
  <2>2. CASE j # s /\ k # s
    <3>1. /\ Apart(j, k) /\ Apart(j, s) /\ Apart(k, s)
          /\ sync'[j] = sync[j] /\ sync'[k] = sync[k]
      BY <1>3, <1>8, <2>2 DEF LinksSound
    <3>2. \A q \in sync[j].done \union sync[k].done : q \in LinkRows /\ q \notin sync[s].done
      BY <1>0, <3>1 DEF Apart, LinksTypeOK, SyncStates
    <3>3. \A q \in sync[j].done \union sync[k].done : link'[q] = link[q]
      BY <1>1, <3>2 DEF Seen
    <3> QED BY <3>1, <3>3 DEF Apart
  <2> QED BY <2>1, <2>2
<1> QED BY <1>5, <1>6, <1>7, <1>8 DEF LinksSound

\* A machine that is deleted takes its committed link with it.
LEMMA DeletionSound ==
    ASSUME LinksSound, NEW r \in LinkRows, MachineDeleted(r)
    PROVE  LinksSound'
<1>0. LinksTypeOK
  BY DEF LinksSound
<1>1. /\ rowHost[r] \in Hosts /\ \A s \in Syncs : r \notin sync[s].done
      /\ rowHost' = [rowHost EXCEPT ![r] = Deleted]
      /\ rowsBefore' = SeenAfter({}, r, rowsBefore)
      /\ link' = [link EXCEPT ![r] = NoLink]
      /\ UNCHANGED <<serverVars, sync, lastSync>>
  BY DEF MachineDeleted
<1>2. DOMAIN rowsBefore' = LinkRows /\ Ordered(rowsBefore', Present(rowHost'))
  <2>1. /\ rowHost \in [LinkRows -> Hosts \union {NoHost, Deleted}]
        /\ DOMAIN rowsBefore = LinkRows /\ Ordered(rowsBefore, Present(rowHost))
    BY <1>0 DEF LinksTypeOK
  <2>2. Present(rowHost) \in SUBSET LinkRows
    BY <2>1 DEF Present
  <2>3. Present(rowHost') = Present(rowHost) \ {r}
    BY <1>1, <2>1, LinksAssumption DEF Present
  <2>4. /\ DOMAIN SeenAfter({}, r, rowsBefore) = LinkRows
        /\ Ordered(SeenAfter({}, r, rowsBefore), Present(rowHost) \ {r})
    BY <2>1, <2>2, SeenNoMore
  <2> QED BY <1>1, <2>3, <2>4
<1>3. LinksTypeOK'
  BY <1>0, <1>1, <1>2 DEF LinksTypeOK, serverVars
<1>4. ASSUME NEW s \in Syncs PROVE SyncSound(s)'
  <2>1. SyncSound(s) /\ sync'[s] = sync[s] /\ r \notin sync[s].done
    BY <1>1 DEF LinksSound
  <2>2. \A q \in LinkRows : Seen(s)'[q] = IF q = r THEN NoLink ELSE Seen(s)[q]
    BY <1>0, <1>1, <2>1 DEF Seen, LinksTypeOK
  <2>3. DOMAIN sync[s].want \subseteq LinkRows /\ sync[s].done \subseteq LinkRows
    BY <1>0 DEF LinksTypeOK, SyncStates
  <2>4. \A q \in LinkRows : rowHost'[q] = IF q = r THEN Deleted ELSE rowHost[q]
    BY <1>0, <1>1 DEF LinksTypeOK
  <2>5. Deleted # NoHost
    BY DEF Deleted, NoHost
  <2> QED BY <2>1, <2>2, <2>3, <2>4, <2>5 DEF SyncSound
<1>5. ASSUME NEW s \in Syncs, NEW k \in Syncs, s # k PROVE Apart(s, k)'
  <2>1. Apart(s, k) /\ sync' = sync
    BY <1>1, <1>5 DEF LinksSound
  <2>2. \A q \in sync[s].done \union sync[k].done : q \in LinkRows /\ q # r
    BY <1>0, <1>1 DEF LinksTypeOK, SyncStates
  <2>3. \A q \in sync[s].done \union sync[k].done : link'[q] = link[q]
    BY <1>0, <1>1, <2>2 DEF LinksTypeOK
  <2> QED BY <2>1, <2>3 DEF Apart
<1> QED BY <1>3, <1>4, <1>5 DEF LinksSound

\* What makes the transaction of s fail.
Explained(s) ==
    \/ LostItsMachine(s) \/ SharesItsName(s) \/ Deadlocked(s)
    \/ \E r \in Rest(s), q \in LinkRows \ sync[s].done :
          q # r /\ link[q] = sync[s].want[r]

\* An upsert that fails has one of the reasons.
LEMMA BreaksExplained ==
    ASSUME LinksSound, NEW s \in Syncs, NEW r \in Rest(s), Breaks(s, r)
    PROVE  Explained(s)
<1>1. CASE rowHost[r] = Deleted
  BY <1>1 DEF Explained, LostItsMachine
<1>2. CASE \E q \in LinkRows \ {r} : Seen(s)[q] = sync[s].want[r]
  <2>1. PICK q \in LinkRows \ {r} : Seen(s)[q] = sync[s].want[r]
    BY <1>2
  <2>2. r \in DOMAIN sync[s].want /\ sync[s].done \subseteq DOMAIN sync[s].want
          /\ DOMAIN sync[s].want \subseteq LinkRows
    BY DEF Rest, LinksSound, LinksTypeOK, SyncStates
  <2>3. CASE q \in sync[s].done
    <3>1. sync[s].want[q] = sync[s].want[r] /\ HwOf[q] # HwOf[r]
      BY <2>1, <2>2, <2>3 DEF Seen, LinksSound, SyncSound
    <3> QED BY <2>3, <3>1 DEF Explained, SharesItsName
  <2>4. CASE q \notin sync[s].done
    BY <2>1, <2>4 DEF Seen, Explained
  <2> QED BY <2>3, <2>4
<1> QED BY <1>1, <1>2 DEF Breaks

\* Every step of the inventory, the clients and the syncs.
LEMMA LinksStep ==
    ASSUME LinksSound, [LinksNext]_linkVars
    PROVE  LinksSound'
<1>0. LinksTypeOK
  BY DEF LinksSound
<1>1. ASSUME NEW r \in LinkRows, NEW h \in Hosts, MachineReports(r, h)
      PROVE  LinksSound'
  <2>1. /\ rowHost' = [rowHost EXCEPT ![r] = h] /\ rowHost[r] # Deleted
        /\ rowsBefore' = SeenAfter(Present(rowHost), r, rowsBefore)
        /\ UNCHANGED <<serverVars, link, sync, lastSync>>
    BY <1>1 DEF MachineReports
  <2>2. DOMAIN rowsBefore' = LinkRows /\ Ordered(rowsBefore', Present(rowHost'))
    <3>1. /\ rowHost \in [LinkRows -> Hosts \union {NoHost, Deleted}]
          /\ DOMAIN rowsBefore = LinkRows /\ Ordered(rowsBefore, Present(rowHost))
      BY <1>0 DEF LinksTypeOK
    <3>2. Present(rowHost) \in SUBSET LinkRows
      BY <3>1 DEF Present
    <3>3. Present(rowHost') = Present(rowHost) \union {r}
      BY <2>1, <3>1 DEF Present
    <3>4. /\ DOMAIN SeenAfter(Present(rowHost), r, rowsBefore) = LinkRows
          /\ Ordered(SeenAfter(Present(rowHost), r, rowsBefore), Present(rowHost) \union {r})
      BY <3>1, <3>2, SeenLast
    <3> QED BY <2>1, <3>3, <3>4
  <2>3. /\ rowHost' \in [LinkRows -> Hosts \union {NoHost, Deleted}]
        /\ \A q \in LinkRows : rowHost'[q] = IF q = r THEN h ELSE rowHost[q]
    BY <1>0, <2>1 DEF LinksTypeOK
  <2>4. LinksTypeOK'
    BY <1>0, <2>1, <2>2, <2>3 DEF LinksTypeOK, serverVars
  <2>5. h # NoHost
    BY LinksAssumption
  <2> QED BY <2>1, <2>3, <2>4, <2>5, ReportsSound
<1>2. ASSUME NEW c \in Clients, NEW h \in Hosts, ClientReports(c, h)
      PROVE  LinksSound'
  <2>1. /\ clientHost' = [clientHost EXCEPT ![c] = h]
        /\ clientsBefore' = SeenAfter(Present(clientHost), c, clientsBefore)
        /\ UNCHANGED <<inventoryVars, link, sync, lastSync>>
    BY <1>2 DEF ClientReports
  <2>2. DOMAIN clientsBefore' = Clients /\ Ordered(clientsBefore', Present(clientHost'))
    <3>1. /\ clientHost \in [Clients -> Hosts \union {NoHost}]
          /\ DOMAIN clientsBefore = Clients /\ Ordered(clientsBefore, Present(clientHost))
      BY <1>0 DEF LinksTypeOK
    <3>2. Present(clientHost) \in SUBSET Clients
      BY <3>1 DEF Present
    <3>3. Present(clientHost') = Present(clientHost) \union {c}
      BY <2>1, <3>1 DEF Present
    <3>4. /\ DOMAIN SeenAfter(Present(clientHost), c, clientsBefore) = Clients
          /\ Ordered(SeenAfter(Present(clientHost), c, clientsBefore), Present(clientHost) \union {c})
      BY <3>1, <3>2, SeenLast
    <3> QED BY <2>1, <3>3, <3>4
  <2>3. LinksTypeOK'
    BY <1>0, <2>1, <2>2 DEF LinksTypeOK, inventoryVars
  <2> QED BY <2>1, <2>3, ReportsSound DEF inventoryVars
<1>3. ASSUME NEW s \in Syncs, deadlock_detected(s) \/ _record_sync_result(s) \/ SyncCrash(s)
      PROVE  LinksSound'
  <2>1. /\ \E ph \in {"idle", "ok", "failed"} : sync' = [sync EXCEPT ![s] = At(ph)]
        /\ UNCHANGED <<inventoryVars, serverVars, link>> /\ lastSync' \in {"ok", "failed"}
    BY <1>0, <1>3 DEF deadlock_detected, _record_sync_result, SyncCrash, LinksTypeOK
  <2> QED BY <2>1, SyncEnds
<1>4. ASSUME NEW s \in Syncs, NEW r \in LinkRows, upsert_link(s, r)
      PROVE  LinksSound'
  <2>1. CASE Breaks(s, r)
    <3>1. /\ sync' = [sync EXCEPT ![s] = At("failed")]
          /\ UNCHANGED <<inventoryVars, serverVars, link>> /\ lastSync' \in {"ok", "failed"}
      BY <1>0, <1>4, <2>1 DEF upsert_link, LinksTypeOK
    <3> QED BY <3>1, SyncEnds
  <2> QED BY <1>4, <2>1, UpsertSound
<1>5. CASE UNCHANGED linkVars
  <2>1. LinksTypeOK'
    BY <1>0, <1>5 DEF linkVars, inventoryVars, serverVars, LinksTypeOK
  <2> QED BY <1>5, <2>1, ReportsSound DEF linkVars, inventoryVars
<1> QED BY <1>1, <1>2, <1>3, <1>4, <1>5, DeletionSound, ListSound, WantSound, CommitLinksSound
        DEF LinksNext

\* The links are sound from the start.
LEMMA LinksAlwaysSound == LinksSpec => []LinksSound
<1>1. LinksInit => LinksSound
  <2> SUFFICES ASSUME LinksInit PROVE LinksSound
    OBVIOUS
  <2>1. At("idle") \in SyncStates /\ At("idle").done = {} /\ DOMAIN At("idle").want = {}
          /\ At("idle").phase = "idle"
    BY DEF At, SyncStates
  <2>2. \A s \in Syncs : sync[s] = At("idle")
    BY DEF LinksInit
  <2>3. Present(rowHost) = {} /\ Present(clientHost) = {}
    BY LinksAssumption DEF LinksInit, Present
  <2>4. Ordered(rowsBefore, {}) /\ Ordered(clientsBefore, {})
    BY DEF LinksInit, Ordered
  <2>5. LinksTypeOK
    BY <2>1, <2>2, <2>3, <2>4 DEF LinksInit, LinksTypeOK
  <2>6. \A s \in Syncs : SyncSound(s)
    BY <2>1, <2>2 DEF SyncSound, Seen, LinksInit
  <2>7. \A s, k \in Syncs : Apart(s, k)
    BY <2>1, <2>2 DEF Apart
  <2> QED BY <2>5, <2>6, <2>7 DEF LinksSound
<1>2. LinksSound /\ [LinksNext]_linkVars => LinksSound'
  BY LinksStep
<1> QED BY <1>1, <1>2, PTL DEF LinksSpec

\* The transaction of a sync fails for a machine deleted since it was read, for
\* two machines of one name, for a client that the link of another row still
\* holds, and for a deadlock with another sync, and for no other reason
\* (velociraptor_sync.py:215-301): the rows that one machine left behind do not
\* get in each other's way, in whatever order they are read and however many
\* syncs overlap.
THEOREM ConflictsHaveReasons == LinksSpec => ConflictsExplained
<1>1. ASSUME LinksSound, [LinksNext]_linkVars, NEW s \in Syncs, UpsertsFail(s)
      PROVE  Explained(s)
  <2>1. sync[s].phase = "writing" /\ sync'[s].phase = "failed" /\ sync'[s] # sync[s]
    BY <1>1 DEF UpsertsFail
  <2>2. \A ph \in {"idle", "ok"} : At(ph).phase # "failed"
    BY DEF At
  <2>3. sync \in [Syncs -> SyncStates]
    BY <1>1 DEF LinksSound, LinksTypeOK
  <2>4. PICK k \in Syncs : \/ \E r \in LinkRows : upsert_link(k, r)
                          \/ deadlock_detected(k)
                          \/ read_clients(k) \/ read_machines(k) \/ commit_links(k)
                          \/ _record_sync_result(k) \/ SyncCrash(k)
    BY <1>1, <2>1 DEF LinksNext, MachineReports, MachineDeleted, ClientReports, linkVars
  <2>5. k = s
    BY <2>1, <2>3, <2>4 DEF upsert_link, deadlock_detected, read_clients, read_machines,
       commit_links, _record_sync_result, SyncCrash
  <2>6. CASE deadlock_detected(s)
    BY <2>6 DEF deadlock_detected, Explained
  <2>7. ASSUME NEW r \in LinkRows, upsert_link(s, r)
        PROVE  Explained(s)
    <3>1. r \in Rest(s)
      BY <2>7 DEF upsert_link
    <3>2. CASE ~Breaks(s, r)
      <4>1. sync'[s].phase = sync[s].phase
        BY <2>3, <2>7, <3>2 DEF upsert_link, SyncStates
      <4> QED BY <2>1, <4>1
    <3> QED BY <1>1, <3>1, <3>2, BreaksExplained
  <2>8. CASE read_machines(s)
    BY <2>1, <2>8 DEF read_machines
  <2>9. CASE read_clients(s) \/ commit_links(s) \/ _record_sync_result(s) \/ SyncCrash(s)
    BY <2>1, <2>2, <2>3, <2>9 DEF read_clients, commit_links, _record_sync_result, SyncCrash
  <2> QED BY <2>4, <2>5, <2>6, <2>7, <2>8, <2>9
<1>2. LinksSound /\ [LinksNext]_linkVars =>
        [\A s \in Syncs : UpsertsFail(s) => Explained(s)]_linkVars
  BY <1>1
<1> QED BY <1>2, LinksAlwaysSound, PTL DEF LinksSpec, ConflictsExplained, Explained

-----------------------------------------------------------------------------
(* All components of the investigations.                                     *)

\* The collection keeps its types.
LEMMA CollectAlwaysTyped == CollectSpec => []CollectTypeOK
<1>1. CollectSound /\ CollectTyped /\ [CollectNext]_collectVars => (CollectSound /\ CollectTyped)'
  BY CollectKept, CollectTypesKept
<1> QED BY <1>1, CollectBegins, CollectTypesBegin, CollectTypes, PTL DEF CollectSpec

\* The artifacts and their handlers keep their types.
LEMMA ArtifactsAlwaysTyped == ArtifactsSpec => []ArtifactsTypeOK
<1>1. ArtifactsSound /\ [ArtifactsNext]_artifactVars => ArtifactsSound'
  BY ArtifactsKept
<1> QED BY <1>1, ArtifactsBegin, ArtifactsTyped, PTL DEF ArtifactsSpec

\* Requests, schedules, hunts and alerts keep their types.
LEMMA DeskAlwaysTyped == DeskSpec => []DeskTypeOK
<1>1. /\ DeskTypeOK /\ ReviewsSound /\ AlertsCounted /\ [DeskNext]_deskVars
            => (DeskTypeOK /\ ReviewsSound /\ AlertsCounted)'
  BY DeskKept
<1> QED BY <1>1, DeskBegins, PTL DEF DeskSpec

\* A behaviour of the components side by side is a behaviour of each of them:
\* what is proved of one holds of it among the others.
LEMMA EachBehaves ==
    AllSpec => /\ Spec /\ CollectSpec /\ LinksSpec
               /\ ArtifactsSpec /\ DeskSpec /\ GraphSpec
<1>1. AllInit => Init /\ CollectInit /\ LinksInit /\ ArtifactsInit /\ DeskInit /\ GraphInit
  BY DEF AllInit
<1>2. [AllNext]_allVars => [Next]_vars
  BY DEF AllNext, allVars
<1>3. [AllNext]_allVars => [CollectNext]_collectVars
  BY DEF AllNext, allVars
<1>4. [AllNext]_allVars => [LinksNext]_linkVars
  BY DEF AllNext, allVars
<1>5. [AllNext]_allVars => [ArtifactsNext]_artifactVars
  BY DEF AllNext, allVars
<1>6. [AllNext]_allVars => [DeskNext]_deskVars
  BY DEF AllNext, allVars
<1>7. [AllNext]_allVars => [GraphNext]_graphVars
  BY DEF AllNext, allVars
<1> QED BY <1>1, <1>2, <1>3, <1>4, <1>5, <1>6, <1>7, PTL
        DEF AllSpec, Spec, CollectSpec, LinksSpec, ArtifactsSpec, DeskSpec, GraphSpec

\* Every variable of the investigations keeps its type, for every number of
\* investigations, artifacts, clients, hunts, requests and handlers; and what
\* refers to a row, a flow, a claim or a definition finds it.
THEOREM ForensicsTypes == AllSpec => []ForensicsTypeOK
<1>1. LinksSound => LinksTypeOK
  BY DEF LinksSound
<1>2. GraphSound => GraphTypeOK
  BY DEF GraphSound
<1>3. /\ TypeOK /\ CollectTypeOK /\ LinksTypeOK /\ ArtifactsTypeOK /\ DeskTypeOK /\ GraphTypeOK
         => ForensicsTypeOK
  BY DEF ForensicsTypeOK
<1> QED BY <1>1, <1>2, <1>3, EachBehaves, TypeCorrect, CollectAlwaysTyped, LinksAlwaysSound,
           ArtifactsAlwaysTyped, DeskAlwaysTyped, GraphAlwaysSound, PTL

\* With one worker, what the run of the investigations checks holds for every
\* value of its other constants: each invariant ...
THEOREM ForensicsAreSafe ==
    ASSUME SingleWorker
    PROVE  AllSpec => []( /\ ForensicsTypeOK /\ CapacityBound /\ OneResultEach
                          /\ CompletedWasApproved /\ WithinRecursionLimit
                          /\ IdsClashOnlyWithDetails )
BY ForensicsTypes, EachBehaves, CapacityHolds, HermesOnce, ApprovedFirst, AnalysisEnds,
   StepsToldApart, PTL

\* ... and each property of the steps, the contract of the slots among them.
THEOREM ForensicsStepsHold ==
    ASSUME SingleWorker
    PROVE  AllSpec => /\ FifoDispatch /\ SlotPoolSpec /\ CompletedLostOnlyIfStale
                      /\ OutcomeStays /\ ConflictsExplained /\ FalselyPushedOnlyIfStale
BY EachBehaves, DispatchIsFifo, ImplementsSlotPool, CompletedProtected, OutcomesStay,
   ConflictsHaveReasons, PushedWasServed
=============================================================================
