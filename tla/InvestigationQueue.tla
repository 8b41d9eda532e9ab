------------------------- MODULE InvestigationQueue -------------------------
(***************************************************************************)
(* The server's side of DeepAgent investigations: the rows of              *)
(* dfir_investigations with external_orchestrator = 'deepagent', the        *)
(* worker tick that reconciles, claims and dispatches them                  *)
(* (run_pending_investigations), the callbacks that DeepAgent posts and     *)
(* the administrator's create, stop and delete requests.                    *)
(*                                                                         *)
(* Handlers are split where another handler can run in between: at a       *)
(* commit followed by an await, and between an unlocked read and the        *)
(* commit that uses it.  A session object is written back attribute by      *)
(* attribute: a step assigns exactly the columns the code assigned a new    *)
(* value to, whatever the row has become since it was read.                 *)
(***************************************************************************)
EXTENDS InvestigationIds

CONSTANTS
    Workers,    \* the server processes that run the monitor loop
    Capacity,   \* settings.deepagent_max_concurrent_jobs
    MaxAdmin,   \* bound: administrator requests in flight at the same time
    MaxAccepts  \* bound: results counted per investigation

ASSUME QueueAssumption ==
    /\ Capacity \in Nat
    /\ MaxAdmin \in Nat
    /\ MaxAccepts \in Nat

Status == {"none", "pending", "analyzing", "deleted"} \union Terminal
HermesStatus ==
    {"null", "dispatching", "dispatched", "dispatch_uncertain",
     "dispatch_failed", "recovery_required", "reconcile_failed",
     "reconcile_timeout", "running", "collecting", "finalizing",
     "completed", "failed"}

VARIABLES
    status,     \* DfirInvestigation.status; "none" and "deleted" are no row
    hermes,     \* hermes_status
    prog,       \* index of the phase kept in hermes_response, 0 when none
    bound,      \* external_job_id is set (it can only be "deepagent-<id>")
    keyed,      \* external_callback_idempotency_key is set
    aged,       \* started_at is older than the reconciliation age bound
    accepted    \* results the row has accepted (each adds tokens and notifies)

rowVars == <<status, hermes, prog, bound, keyed, aged, accepted>>

VARIABLES
    pc,         \* where each worker is in run_pending_investigations
    todo,       \* loaded active rows it has still to reconcile
    unsure,     \* those it loaded with hermes_status = 'dispatch_uncertain'
    locks,      \* rows its transaction holds FOR UPDATE
    claimed,    \* rows it claimed and has not dispatched yet
    cur         \* the row whose POST it awaits

workerVars == <<pc, todo, unsure, locks, claimed, cur>>

VARIABLE admin  \* administrator requests that have read their row
queueVars == <<rowVars, workerVars, admin>>

PCs == {"idle", "reconcile", "dispatch", "posting", "batch"}

QueueTypeOK ==
    /\ status \in [Investigations -> Status]
    /\ hermes \in [Investigations -> HermesStatus]
    /\ prog \in [Investigations -> 0..Len(Phases)]
    /\ bound \in [Investigations -> BOOLEAN]
    /\ keyed \in [Investigations -> BOOLEAN]
    /\ aged \in [Investigations -> BOOLEAN]
    /\ accepted \in [Investigations -> 0..MaxAccepts]
    /\ pc \in [Workers -> PCs]
    /\ todo \in [Workers -> SUBSET Investigations]
    /\ unsure \in [Workers -> SUBSET Investigations]
    /\ locks \in [Workers -> SUBSET Investigations]
    /\ claimed \in [Workers -> SUBSET Investigations]
    /\ cur \in [Workers -> Investigations \union {NoInvestigation}]
    /\ admin \subseteq {"stop", "delete"} \X Investigations

Exists(i) == status[i] \notin {"none", "deleted"}
With(s) == {i \in Investigations : status[i] = s}
Analyzing == With("analyzing")
\* Mutant: the callbacks and requests do not wait for row locks.
UnlockedAlways(i) == i \in Investigations

Unlocked(i) == \A w \in Workers : i \notin locks[w]

\* An UPDATE of worker w waits for the row locks of the other workers.
WritableBy(w, i) == Exists(i) /\ \A v \in Workers \ {w} : i \notin locks[v]

Oldest(S) == CHOOSE i \in S : \A j \in S : i <= j

QueueInit ==
    /\ status = [i \in Investigations |-> "none"]
    /\ hermes = [i \in Investigations |-> "null"]
    /\ prog = [i \in Investigations |-> 0]
    /\ bound = [i \in Investigations |-> FALSE]
    /\ keyed = [i \in Investigations |-> FALSE]
    /\ aged = [i \in Investigations |-> FALSE]
    /\ accepted = [i \in Investigations |-> 0]
    /\ pc = [w \in Workers |-> "idle"]
    /\ todo = [w \in Workers |-> {}]
    /\ unsure = [w \in Workers |-> {}]
    /\ locks = [w \in Workers |-> {}]
    /\ claimed = [w \in Workers |-> {}]
    /\ cur = [w \in Workers |-> NoInvestigation]
    /\ admin = {}

-----------------------------------------------------------------------------
(* The administrator's requests.  Stop and delete read the row without a    *)
(* lock, await the audit append, and only then write.                       *)

Create(i) ==
    /\ With("none") # {}
    /\ i = Oldest(With("none"))
    /\ status' = [status EXCEPT ![i] = "pending"]
    /\ UNCHANGED <<hermes, prog, bound, keyed, aged, accepted, workerVars, admin>>

Request(op, i) ==
    /\ Cardinality(admin) < MaxAdmin
    /\ admin' = admin \union {<<op, i>>}
    /\ UNCHANGED <<rowVars, workerVars>>

StopRead(i) ==
    /\ status[i] \in {"pending", "analyzing"}
    /\ Request("stop", i)

DeleteRead(i) ==
    /\ Exists(i)
    /\ status[i] # "analyzing"
    /\ Request("delete", i)

\* An UPDATE or DELETE that matches no row raises StaleDataError: the request
\* fails and changes nothing.
AdminCommit(op, i) ==
    /\ <<op, i>> \in admin
    /\ Unlocked(i)
    /\ admin' = admin \ {<<op, i>>}
    /\ status' = IF Exists(i)
                 THEN [status EXCEPT ![i] = IF op = "stop" THEN "failed" ELSE "deleted"]
                 ELSE status
    /\ UNCHANGED <<hermes, prog, bound, keyed, aged, accepted, workerVars>>

StopCommit(i) == AdminCommit("stop", i)
DeleteCommit(i) == AdminCommit("delete", i)

-----------------------------------------------------------------------------
(* The callbacks of DeepAgent; both lock the row.                           *)

\* Mutant: a terminal row takes a result again.
ResultReplyAgain(i) ==
    IF bound[i] /\ status[i] \in {"analyzing"} \union Terminal THEN "accepted" ELSE "conflict"

ResultReply(i) ==
    CASE bound[i] /\ status[i] = "analyzing" -> "accepted"
      [] bound[i] /\ status[i] \in Terminal /\ keyed[i] -> "duplicate"
      [] OTHER -> "conflict"

submit_external_result(i, kind) ==
    /\ Unlocked(i)
    /\ IF ResultReply(i) = "accepted"
       THEN /\ status' = [status EXCEPT ![i] = kind]
            /\ hermes' = [hermes EXCEPT ![i] = kind]
            /\ prog' = [prog EXCEPT ![i] = 0]
            /\ keyed' = [keyed EXCEPT ![i] = TRUE]
            /\ accepted' = [accepted EXCEPT ![i] = IF @ < MaxAccepts THEN @ + 1 ELSE @]
            /\ UNCHANGED <<bound, aged>>
       ELSE UNCHANGED rowVars
    /\ UNCHANGED <<workerVars, admin>>

\* Mutant: a late progress callback overwrites a later phase.
status_unordered(i, p) ==
    /\ Unlocked(i)
    /\ IF Exists(i) /\ bound[i] /\ status[i] \notin Terminal
       THEN /\ hermes' = [hermes EXCEPT ![i] = Phases[p]]
            /\ prog' = [prog EXCEPT ![i] = p]
       ELSE UNCHANGED <<hermes, prog>>
    /\ UNCHANGED <<status, bound, keyed, aged, accepted, workerVars, admin>>

update_investigation_status(i, p) ==
    /\ Unlocked(i)
    /\ IF Exists(i) /\ bound[i] /\ status[i] \notin Terminal /\ p >= prog[i]
       THEN /\ hermes' = [hermes EXCEPT ![i] = Phases[p]]
            /\ prog' = [prog EXCEPT ![i] = p]
       ELSE UNCHANGED <<hermes, prog>>
    /\ UNCHANGED <<status, bound, keyed, aged, accepted, workerVars, admin>>

-----------------------------------------------------------------------------
(* The worker tick.                                                         *)

\* The tick ends early, with nothing written: its process stops, or the row
\* it writes has been deleted and the flush raises StaleDataError.
Abort(w) ==
    /\ pc' = [pc EXCEPT ![w] = "idle"]
    /\ todo' = [todo EXCEPT ![w] = {}]
    /\ unsure' = [unsure EXCEPT ![w] = {}]
    /\ locks' = [locks EXCEPT ![w] = {}]
    /\ claimed' = [claimed EXCEPT ![w] = {}]
    /\ cur' = [cur EXCEPT ![w] = NoInvestigation]
    /\ UNCHANGED <<rowVars, admin>>

Crash(w) == pc[w] # "idle" /\ Abort(w)

TickStart(w) ==
    LET rows == {i \in Analyzing : Unlocked(i)} IN
    /\ pc[w] = "idle"
    /\ pc' = [pc EXCEPT ![w] = "reconcile"]
    /\ todo' = [todo EXCEPT ![w] = rows]
    /\ unsure' = [unsure EXCEPT ![w] = {i \in rows : hermes[i] = "dispatch_uncertain"}]
    /\ locks' = [locks EXCEPT ![w] = rows]
    /\ UNCHANGED <<rowVars, claimed, cur, admin>>

\* The row a worker reconciles next leaves its list.
Reconciled(w, i) ==
    /\ pc[w] = "reconcile"
    /\ todo[w] # {}
    /\ i = Oldest(todo[w])
    /\ todo' = [todo EXCEPT ![w] = @ \ {i}]
    /\ unsure' = [unsure EXCEPT ![w] = @ \ {i}]
    /\ UNCHANGED <<pc, claimed, cur, admin>>

\* The first commit of the tick releases every row lock it took.
CommitReleases(w) == locks' = [locks EXCEPT ![w] = {}]

Overdue(w, i) == i \in unsure[w] /\ aged[i]

ReconcileFail(w, i, h) ==
    /\ WritableBy(w, i)
    /\ Reconciled(w, i)
    /\ CommitReleases(w)
    /\ status' = [status EXCEPT ![i] = "failed"]
    /\ hermes' = [hermes EXCEPT ![i] = h]
    /\ UNCHANGED <<prog, bound, keyed, aged, accepted>>

ReconcileTimeout(w, i) ==
    /\ Overdue(w, i)
    /\ ReconcileFail(w, i, "reconcile_timeout")

ReconcileTerminal(w, i) ==
    /\ ~Overdue(w, i)
    /\ i \in unsure[w]
    /\ ReconcileFail(w, i, "reconcile_failed")

\* GET raised or answered 408, 429 or 5xx, or any code but 404 for a row that
\* was not uncertain: nothing is written and the locks stay.
ReconcileKeep(w, i) ==
    /\ ~Overdue(w, i)
    /\ Reconciled(w, i)
    /\ UNCHANGED <<rowVars, locks>>

ReconcileFound(w, i) ==
    /\ ~Overdue(w, i)
    /\ i \in unsure[w]
    /\ WritableBy(w, i)
    /\ Reconciled(w, i)
    /\ CommitReleases(w)
    /\ hermes' = [hermes EXCEPT ![i] = "dispatched"]
    /\ prog' = [prog EXCEPT ![i] = 0]
    /\ UNCHANGED <<status, bound, keyed, aged, accepted>>

ReconcileMissing(w, i) ==
    /\ ~Overdue(w, i)
    /\ WritableBy(w, i)
    /\ Reconciled(w, i)
    /\ CommitReleases(w)
    /\ status' = [status EXCEPT ![i] = "pending"]
    /\ bound' = [bound EXCEPT ![i] = FALSE]
    /\ hermes' = [hermes EXCEPT ![i] = "recovery_required"]
    /\ prog' = [prog EXCEPT ![i] = 0]
    /\ UNCHANGED <<keyed, aged, accepted>>

\* The row was deleted by a request that read it before it was dispatched.
ReconcileGone(w, i) ==
    /\ pc[w] = "reconcile"
    /\ i \in todo[w]
    /\ i = Oldest(todo[w])
    /\ ~Exists(i)
    /\ Abort(w)

\* Mutant: the active rows are not subtracted.
AvailableIgnoringActive == Capacity

Available == IF Capacity > Cardinality(Analyzing)
             THEN Capacity - Cardinality(Analyzing)
             ELSE 0

\* Mutants: LIMIT without ORDER BY, and LIMIT one too many.
IsAny(P, S, k) ==
    /\ P \subseteq S
    /\ Cardinality(P) <= k
    /\ Cardinality(P) < k => P = S

IsFirstPlusOne(P, S, k) ==
    /\ P \subseteq S
    /\ Cardinality(P) <= k + 1
    /\ Cardinality(P) < k + 1 => P = S
    /\ \A i \in P, j \in S \ P : i < j

\* The first k rows of S in created_at order.
IsFirst(P, S, k) ==
    /\ P \subseteq S
    /\ Cardinality(P) <= k
    /\ Cardinality(P) < k => P = S
    /\ \A i \in P, j \in S \ P : i < j

claim_deepagent_dispatches(w) ==
    /\ pc[w] = "reconcile"
    /\ todo[w] = {}
    /\ Available > 0
    /\ \E P \in SUBSET {i \in With("pending") : Unlocked(i)} :
          /\ IsFirst(P, {i \in With("pending") : Unlocked(i)}, Available)
          /\ bound' = [i \in Investigations |-> i \in P \/ bound[i]]
          /\ claimed' = [claimed EXCEPT ![w] = P]
    /\ CommitReleases(w)
    /\ pc' = [pc EXCEPT ![w] = "dispatch"]
    /\ UNCHANGED <<status, hermes, prog, keyed, aged, accepted, todo, unsure, cur, admin>>

\* No free slot: the claim returns without a commit and the locks stay.
ClaimNothing(w) ==
    /\ pc[w] = "reconcile"
    /\ todo[w] = {}
    /\ Available = 0
    /\ pc' = [pc EXCEPT ![w] = "batch"]
    /\ UNCHANGED <<rowVars, todo, unsure, locks, claimed, cur, admin>>

IsNextDispatch(w, i) ==
    /\ pc[w] = "dispatch"
    /\ claimed[w] # {}
    /\ i = Oldest(claimed[w])

\* A precondition raised LlmError (no client, no LLM runtime, no api_client).
DispatchRefused(w, i) ==
    /\ IsNextDispatch(w, i)
    /\ WritableBy(w, i)
    /\ status' = [status EXCEPT ![i] = "failed"]
    /\ claimed' = [claimed EXCEPT ![w] = @ \ {i}]
    /\ UNCHANGED <<hermes, prog, bound, keyed, aged, accepted,
                   pc, todo, unsure, locks, cur, admin>>

\* The commit before the POST.
DispatchBegin(w, i) ==
    /\ IsNextDispatch(w, i)
    /\ WritableBy(w, i)
    /\ status' = [status EXCEPT ![i] = "analyzing"]
    /\ hermes' = [hermes EXCEPT ![i] = "dispatching"]
    /\ aged' = [aged EXCEPT ![i] = FALSE]
    /\ claimed' = [claimed EXCEPT ![w] = @ \ {i}]
    /\ cur' = [cur EXCEPT ![w] = i]
    /\ pc' = [pc EXCEPT ![w] = "posting"]
    /\ UNCHANGED <<prog, bound, keyed, accepted, todo, unsure, locks, admin>>

\* The commit after the POST; the row is no longer locked.
PostDone(w, i) ==
    /\ pc[w] = "posting"
    /\ cur[w] = i
    /\ WritableBy(w, i)
    /\ pc' = [pc EXCEPT ![w] = "dispatch"]
    /\ cur' = [cur EXCEPT ![w] = NoInvestigation]
    /\ UNCHANGED <<bound, keyed, aged, accepted, todo, unsure, locks, claimed, admin>>

PostOk(w, i) ==
    /\ PostDone(w, i)
    /\ hermes' = [hermes EXCEPT ![i] = "dispatched"]
    /\ prog' = [prog EXCEPT ![i] = 0]
    /\ UNCHANGED status

PostUncertain(w, i) ==
    /\ PostDone(w, i)
    /\ hermes' = [hermes EXCEPT ![i] = "dispatch_uncertain"]
    /\ prog' = [prog EXCEPT ![i] = 0]
    /\ UNCHANGED status

PostRejected(w, i) ==
    /\ PostDone(w, i)
    /\ hermes' = [hermes EXCEPT ![i] = "dispatch_failed"]
    /\ status' = [status EXCEPT ![i] = "failed"]
    /\ UNCHANGED prog

DispatchGone(w, i) ==
    /\ IsNextDispatch(w, i) \/ (pc[w] = "posting" /\ cur[w] = i)
    /\ ~Exists(i)
    /\ Abort(w)

DispatchEnd(w) ==
    /\ pc[w] = "dispatch"
    /\ claimed[w] = {}
    /\ pc' = [pc EXCEPT ![w] = "batch"]
    /\ UNCHANGED <<rowVars, todo, unsure, locks, claimed, cur, admin>>

\* The rows of the other orchestrators have been processed and the session
\* closes.
TickEnd(w) == pc[w] = "batch" /\ Abort(w)

\* Time passes the age bound of an uncertain row.
Age(i) ==
    /\ hermes[i] = "dispatch_uncertain"
    /\ ~aged[i]
    /\ aged' = [aged EXCEPT ![i] = TRUE]
    /\ UNCHANGED <<status, hermes, prog, bound, keyed, accepted, workerVars, admin>>
=============================================================================
