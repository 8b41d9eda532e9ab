-------------------------------- MODULE Fleet --------------------------------
(***************************************************************************)
(* Enrolment, heartbeats, offline imports and the administrators' decisions *)
(* over the machines and their tokens, as the requests of one server.       *)
(*                                                                         *)
(* A request reads its rows, awaits something (the CA, Redis, the audit     *)
(* chain) and commits; requests, the monitor's sweep and the clock           *)
(* interleave at those points.  req[h] is what the h-th concurrent request  *)
(* has read and means to write.                                             *)
(***************************************************************************)
EXTENDS MachineRows, EnrollTokens

CONSTANTS
    Handlers,  \* bound: requests that are under way at once
    Ops        \* the requests that clients send

VARIABLE req

vars == <<machineVars, tokenVars, req>>

RowOps == {"heartbeat", "approve", "reject", "lifecycle", "import"}

Idle == [op |-> "idle"]

Requests ==
    {Idle}
      \union [op : RowOps, change : RowChanges]
      \union [op : {"enroll"}, change : RowChanges, token : Tokens]
      \union [op : {"deny"}, token : Tokens, was : TokenStatus \union {"none", "deleted"},
              hw : Hardware, why : Refusal, new : BOOLEAN, match : SUBSET Rows]
      \union [op : {"revoke"}, token : Tokens]
      \union [op : {"overview"}, expired : SUBSET Tokens]

FleetInit ==
    /\ MachinesInit
    /\ TokensInit
    /\ req = [h \in Handlers |-> Idle]

-----------------------------------------------------------------------------
(* What the requests read.                                                   *)

Begin(h, q) ==
    /\ q.op \in Ops
    /\ req[h] = Idle
    /\ req' = [req EXCEPT ![h] = q]
    /\ UNCHANGED <<machineVars, tokenVars>>

RowRequest(h, op, c) == Begin(h, [op |-> op, change |-> c])

heartbeat(h, r) ==
    /\ Exists(r)
    /\ RowRequest(h, "heartbeat", Change(r, HeartbeatSets(status[r]), retired[r], 0))

approve_machine(h, r) ==
    /\ status[r] = "pending"
    /\ RowRequest(h, "approve", Change(r, ApproveSets(seen[r]), FALSE, Keep))

reject_machine(h, r) ==
    /\ Exists(r)
    /\ RowRequest(h, "reject", Change(r, "decommissioned", TRUE, Keep))

update_lifecycle(h, r, retire) ==
    /\ Exists(r)
    /\ RowRequest(h, "lifecycle",
                  Change(r, IF retire THEN "decommissioned" ELSE status[r], retire, Keep))

\* The ids that a new machine of hardware w may get.
FreshRows(w) ==
    {r \in Rows :
        /\ r[1] = w
        /\ status[r] = "none"
        /\ \A h \in Handlers :
              req[h].op \in RowOps \union {"enroll"} => req[h].change.row # r}

\* Mutant: a known machine may also come in as a new one.
TakesAnyRow(w, r) == r \in RowsOf(w) \union FreshRows(w)

\* The row that the fingerprint of w leads to: its only row, or a new one.
\* With two rows scalar_one_or_none raises and nothing happens.
Takes(w, r) ==
    IF RowsOf(w) = {} THEN r \in FreshRows(w) ELSE RowsOf(w) = {r}

enroll(h, t, w, r) ==
    /\ Gate(t) = "open"
    /\ Takes(w, r)
    /\ LET to == IF Exists(r) THEN EnrollSets(status[r]) ELSE "pending" IN
       Begin(h, [op |-> "enroll", token |-> t, change |-> Change(r, to, retired[r], 0)])

\* The file of an isolated machine carries its own date.
import_offline(h, w, r, age) ==
    /\ Takes(w, r)
    /\ LET to == IF Exists(r) THEN status[r] ELSE "offline" IN
       RowRequest(h, "import", Change(r, to, retired[r], age))

\* A refused enrolment looks up the machine and its recent attempt.
deny(h, t, w) ==
    LET why == Gate(t)
        match == IF why = "unknown" THEN {} ELSE RowsOf(w)
    IN  /\ why # "open"
        /\ Cardinality(match) <= 1
        /\ ~AmbiguousAttempt(w, why)
        /\ Begin(h, [op |-> "deny", token |-> t, was |-> tok[t], hw |-> w, why |-> why,
                     new |-> IsNewAttempt(w, why), match |-> match])

revoke_token(h, t) ==
    /\ tok[t] \in {"pending", "expired"}
    /\ Begin(h, [op |-> "revoke", token |-> t])

\* The dashboard marks the pending tokens that have expired.
overview(h) ==
    LET late == {t \in past : tok[t] = "pending"} IN
    /\ late # {}
    /\ Begin(h, [op |-> "overview", expired |-> late])

-----------------------------------------------------------------------------
(* What they commit.  An UPDATE or DELETE of a row that is gone raises, and  *)
(* so does a foreign key without its row: the transaction writes nothing.    *)

Rollback == UNCHANGED <<machineVars, tokenVars>>

Finish(h) == req' = [req EXCEPT ![h] = Idle]

RowCommit(h) ==
    /\ req[h].op \in RowOps
    /\ Finish(h)
    /\ IF RowLives(req[h].change)
       THEN WriteRow(req[h].change) /\ UNCHANGED tokenVars
       ELSE Rollback

EnrollCommit(h) ==
    LET q == req[h] IN
    /\ q.op = "enroll"
    /\ Finish(h)
    /\ IF TokenWritable(q.token) /\ RowLives(q.change)
       THEN /\ WriteRow(q.change)
            /\ tok' = [tok EXCEPT ![q.token] = "used"]
            /\ uses' = [uses EXCEPT ![q.token] = Capped(@, MaxUses)]
            /\ UNCHANGED <<past, attempts, bound, matched>>
       ELSE Rollback

\* A new attempt names the token and the machine, unless the token is unknown.
DenyCommit(h) ==
    LET q == req[h]
        named == q.new /\ q.why # "unknown"
        marks == q.why = "expired" /\ q.was # "expired"
    IN  /\ q.op = "deny"
        /\ Finish(h)
        /\ IF /\ named \/ marks => HasToken(q.token)
              /\ named => \A r \in q.match : Exists(r)
           THEN /\ tok' = IF marks THEN [tok EXCEPT ![q.token] = "expired"] ELSE tok
                /\ attempts' = IF q.new
                               THEN [attempts EXCEPT ![<<q.hw, q.why>>] = Capped(@, MaxAttempts)]
                               ELSE attempts
                /\ bound' = IF named THEN bound \union {q.token} ELSE bound
                /\ matched' = IF named THEN matched \union q.match ELSE matched
                /\ UNCHANGED <<past, uses, machineVars>>
           ELSE Rollback

RevokeCommit(h) ==
    LET t == req[h].token IN
    /\ req[h].op = "revoke"
    /\ Finish(h)
    /\ IF HasToken(t) /\ Deletable({t})
       THEN SetTokens({t}, "deleted") /\ UNCHANGED machineVars
       ELSE Rollback

OverviewCommit(h) ==
    /\ req[h].op = "overview"
    /\ Finish(h)
    /\ IF \A t \in req[h].expired : HasToken(t)
       THEN SetTokens(req[h].expired, "expired") /\ UNCHANGED machineVars
       ELSE Rollback

\* The CA, the database or the client gives up: the session rolls back.
RequestFails(h) == req[h] # Idle /\ Finish(h) /\ Rollback

Commit(h) ==
    RowCommit(h) \/ EnrollCommit(h) \/ DenyCommit(h) \/ RevokeCommit(h) \/ OverviewCommit(h)

\* All requests and the sweep are lost.
ServerRestart ==
    /\ req' = [h \in Handlers |-> Idle]
    /\ sweep' = NoSweep
    /\ UNCHANGED <<status, retired, seen, tokenVars>>

-----------------------------------------------------------------------------
RowRead(h, r) ==
    \/ heartbeat(h, r)
    \/ approve_machine(h, r)
    \/ reject_machine(h, r)
    \/ \E retire \in BOOLEAN : update_lifecycle(h, r, retire)

TokenRead(h, t) ==
    \/ \E w \in Hardware : \E r \in Rows : enroll(h, t, w, r)
    \/ \E w \in Hardware : deny(h, t, w)
    \/ revoke_token(h, t)

Read(h) ==
    \/ \E r \in Rows : RowRead(h, r)
    \/ \E t \in Tokens : TokenRead(h, t)
    \/ \E w \in Hardware : \E r \in Rows : \E age \in 0..MaxAge : import_offline(h, w, r, age)
    \/ overview(h)

\* What the database lets a DELETE of machines remove.
DeleteMachine(r) == r \notin matched /\ delete_machine(r)

Monitor == SweepOfflineRead \/ SweepLostRead \/ SweepWrite \/ SweepGone

MachineStep ==
    /\ \/ Monitor
       \/ \E r \in Rows : DeleteMachine(r) \/ Silence(r)
    /\ UNCHANGED <<tokenVars, req>>

TokenStep ==
    /\ \/ \E t \in Tokens : create_token(t) \/ delete_token(t) \/ TokenExpires(t)
       \/ \E old, t \in Tokens : reissue_token(old, t)
       \/ \E w \in Hardware : \E why \in Refusal :
             AttemptCloses(w, why) \/ \E t \in Tokens : approve_attempt(w, why, t)
       \/ cleanup_tokens
    /\ UNCHANGED <<machineVars, req>>

Next ==
    \/ \E h \in Handlers : Read(h) \/ Commit(h) \/ RequestFails(h)
    \/ MachineStep
    \/ TokenStep
    \/ ServerRestart

Spec == FleetInit /\ [][Next]_vars

-----------------------------------------------------------------------------
(* Fairness.  Requests end, one way or the other; monitor_loop runs its       *)
(* sweeps and the token cleanup again and again; the server does not restart  *)
(* for ever, but for a restart that does what the end of a sweep or a request  *)
(* does.  A live agent keeps sending heartbeats, and not all of them fail.     *)

HeartbeatOf(r) == \E h \in Handlers : heartbeat(h, r)
HeartbeatCommit(h, r) ==
    req[h].op = "heartbeat" /\ req[h].change.row = r /\ RowCommit(h)
Offline == SweepOfflineRead /\ UNCHANGED <<tokenVars, req>>
SweepEnds == (SweepWrite \/ SweepGone) /\ UNCHANGED <<tokenVars, req>>
Cleanup == cleanup_tokens /\ UNCHANGED <<machineVars, req>>

Fairness ==
    /\ \A h \in Handlers : WF_vars(Commit(h) \/ RequestFails(h))
    /\ SF_vars(Offline) /\ WF_vars(SweepEnds) /\ WF_vars(Cleanup)
    /\ <>[][ServerRestart => SweepEnds \/ \E h \in Handlers : Commit(h) \/ RequestFails(h)]_vars

FairSpec == Spec /\ Fairness

LiveAgents ==
    \A r \in Rows :
       SF_vars(HeartbeatOf(r)) /\ \A h \in Handlers : SF_vars(HeartbeatCommit(h, r))

-----------------------------------------------------------------------------
(* Properties.                                                               *)

\* Every variable keeps its type: the counters stay within their bounds, and
\* a request holds what its handler read.
FleetTypeOK ==
    /\ MachinesTypeOK
    /\ TokensTypeOK
    /\ req \in [Handlers -> Requests]

Ends(h) == req[h] # Idle /\ req'[h] = Idle

\* A declined machine (heartbeat.py:46, enroll.py:221) leaves decommissioned
\* only by being deleted, by enrolling again, which queues it for approval, or
\* through a handler or a sweep that had read the row before it was declined.
DeclineLostOnlyIfStale ==
    [][\A r \in Rows :
          status[r] = "decommissioned" /\ status'[r] # "decommissioned" =>
             \/ status'[r] = "deleted"
             \/ r \in sweep.rows
             \/ \E h \in Handlers :
                   /\ Ends(h)
                   /\ req[h].op \in RowOps \union {"enroll"}
                   /\ req[h].change.row = r
                   /\ \/ req[h].change.was # "decommissioned"
                      \/ req[h].op = "enroll" /\ status'[r] = "pending"]_vars

\* The enrolments that passed the gate with token t and have not committed.
InFlight(t) == {h \in Handlers : req[h].op = "enroll" /\ req[h].token = t}

\* Once a token is used, expired or deleted no further enrolment passes the
\* gate with it (enroll.py:114-164): the ones that count it as used are among
\* those already on their way.
ClosedTokenDrains ==
    [][\A t \in Tokens :
          tok[t] \notin {"none", "pending"} =>
             uses'[t] + Cardinality(InFlight(t)') <= uses[t] + Cardinality(InFlight(t))]_vars

\* An enrolment that is awaiting the CA when its token is revoked or deleted
\* (tokens.py:436, monitor.py:163) does not commit.
RevokedNeverEnrols ==
    [][\A t \in Tokens : tok[t] = "deleted" => uses'[t] = uses[t]]_vars

\* A machine that falls silent does not stay online (monitor.py:41).
SilentGoesOffline ==
    \A r \in Rows :
       (status[r] = "online" /\ seen[r] > 0) ~> (status[r] # "online" \/ seen[r] = 0)

\* The heartbeats of a machine that nobody declined bring it back online from
\* every state, whatever sweeps and administrators do (heartbeat.py:52).
LiveMachineShown ==
    LiveAgents =>
       \A r \in Rows : []<>(status[r] \in {"online", "decommissioned"} \/ ~Exists(r))

\* As long as no refused enrolment names a token, expired tokens go away
\* (monitor.py:152).
UnnamedTokensCleaned ==
    \A t \in Tokens : (HasToken(t) /\ t \in past) ~> (~HasToken(t) \/ bound # {})

\* Expired tokens go away (monitor.py:152).
TokensCleaned == \A t \in Tokens : (HasToken(t) /\ t \in past) ~> ~HasToken(t)

\* A token enrols once (enroll.py:139-149, 290-294).
SingleUse == \A t \in Tokens : uses[t] <= 1

\* A machine that enrols again keeps its row (enroll.py:169-212).
OneRowPerMachine == \A w \in Hardware : Cardinality(RowsOf(w)) <= 1

\* The retries of one machine refresh the pending attempt that is in the window
\* of one day (enroll.py:60-75).
AttemptOnce == \A k \in DOMAIN attempts : attempts[k] <= 1
=============================================================================
