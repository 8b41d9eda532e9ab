---------------------------- MODULE FleetProofs ----------------------------
(***************************************************************************)
(* Proofs about the fleet, for any set of machines, tokens and concurrent   *)
(* requests.                                                                *)
(***************************************************************************)
EXTENDS Fleet, FiniteSetTheorems, TLAPS

-----------------------------------------------------------------------------
(* Types.                                                                   *)

\* What a request read is a change that its handler may make.
LEMMA ChangeType ==
    ASSUME MachinesTypeOK,
           NEW r \in Rows, NEW to \in MachineStatus, NEW has \in BOOLEAN, NEW age \in 0..Keep,
           status[r] # "deleted"
    PROVE  Change(r, to, has, age) \in RowChanges
  BY DEF Change, RowChanges, MachinesTypeOK

\* No handler makes an unknown status of the one it has read.
LEMMA StatusSets ==
    ASSUME NEW s \in MachineStatus
    PROVE  /\ HeartbeatSets(s) \in MachineStatus
           /\ EnrollSets(s) \in MachineStatus
  BY DEF HeartbeatSets, EnrollSets, MachineStatus

\* A request that begins leaves everything well typed.
LEMMA BeginType ==
    ASSUME FleetTypeOK, NEW h \in Handlers, NEW q \in Requests, Begin(h, q)
    PROVE  FleetTypeOK'
  BY DEF FleetTypeOK, MachinesTypeOK, TokensTypeOK, Begin, machineVars, tokenVars

\* A request about one row of machines is well typed.
LEMMA RowRequestType ==
    ASSUME FleetTypeOK, NEW h \in Handlers, NEW op \in RowOps, NEW c \in RowChanges,
           RowRequest(h, op, c)
    PROVE  FleetTypeOK'
<1>1. [op |-> op, change |-> c] \in Requests
  BY DEF Requests
<1> QED BY <1>1, BeginType DEF RowRequest

\* Reading a row or a token.
LEMMA RowReadType ==
    ASSUME FleetTypeOK, NEW h \in Handlers, NEW r \in Rows, RowRead(h, r)
    PROVE  FleetTypeOK'
<1> USE DEF FleetTypeOK
<1>1. MachinesTypeOK /\ seen[r] \in 0..2 /\ retired[r] \in BOOLEAN
  BY DEF MachinesTypeOK
<1>2. 0 \in 0..Keep /\ Keep \in 0..Keep
  BY DEF Keep
<1>3. Exists(r)
  BY DEF RowRead, heartbeat, approve_machine, reject_machine, update_lifecycle,
         Exists, MachineStatus
<1>4. status[r] \in MachineStatus /\ status[r] # "deleted"
  BY <1>3 DEF Exists, MachineStatus
<1>5. {"online", "offline", "decommissioned"} \subseteq MachineStatus
      /\ {"heartbeat", "approve", "reject", "lifecycle"} \subseteq RowOps
  BY DEF MachineStatus, RowOps
<1>6. CASE heartbeat(h, r)
  <2>1. Change(r, HeartbeatSets(status[r]), retired[r], 0) \in RowChanges
    BY <1>1, <1>2, <1>4, StatusSets, ChangeType
  <2> QED BY <1>5, <1>6, <2>1, RowRequestType DEF heartbeat
<1>7. CASE approve_machine(h, r)
  <2>1. ApproveSets(seen[r]) \in MachineStatus
    BY <1>5 DEF ApproveSets
  <2>2. Change(r, ApproveSets(seen[r]), FALSE, Keep) \in RowChanges
    BY <1>1, <1>2, <1>4, <2>1, ChangeType
  <2> QED BY <1>5, <1>7, <2>2, RowRequestType DEF approve_machine
<1>8. CASE reject_machine(h, r)
  <2>1. Change(r, "decommissioned", TRUE, Keep) \in RowChanges
    BY <1>1, <1>2, <1>4, <1>5, ChangeType
  <2> QED BY <1>5, <1>8, <2>1, RowRequestType DEF reject_machine
<1>9. ASSUME NEW retire \in BOOLEAN, update_lifecycle(h, r, retire)
      PROVE  FleetTypeOK'
  <2> DEFINE to == IF retire THEN "decommissioned" ELSE status[r]
  <2>1. to \in MachineStatus
    BY <1>4, <1>5
  <2> HIDE DEF to
  <2>2. Change(r, to, retire, Keep) \in RowChanges
    BY <1>1, <1>2, <1>4, <2>1, ChangeType
  <2>3. RowRequest(h, "lifecycle", Change(r, to, retire, Keep))
    BY <1>9 DEF update_lifecycle, to
  <2> QED BY <1>5, <2>2, <2>3, RowRequestType
<1> QED BY <1>6, <1>7, <1>8, <1>9 DEF RowRead

\* What a request reads of a token leaves everything well typed.
LEMMA TokenReadType ==
    ASSUME FleetTypeOK, NEW h \in Handlers, NEW t \in Tokens, TokenRead(h, t)
    PROVE  FleetTypeOK'
<1> USE DEF FleetTypeOK
<1>1. MachinesTypeOK /\ TokensTypeOK
  OBVIOUS
<1>2. ASSUME NEW w \in Hardware, NEW r \in Rows, enroll(h, t, w, r)
      PROVE  FleetTypeOK'
  <2> DEFINE to == IF Exists(r) THEN EnrollSets(status[r]) ELSE "pending"
  <2>1. to \in MachineStatus
    BY StatusSets DEF Exists, MachineStatus
  <2>2. status[r] # "deleted"
    BY <1>2 DEF enroll, Takes, RowsOf, FreshRows, Exists, MachineStatus
  <2>3. 0 \in 0..Keep /\ retired[r] \in BOOLEAN
    BY <1>1 DEF Keep, MachinesTypeOK
  <2> DEFINE q == [op |-> "enroll", token |-> t, change |-> Change(r, to, retired[r], 0)]
  <2>4. Begin(h, q)
    BY <1>2 DEF enroll
  <2> HIDE DEF to
  <2>5. Change(r, to, retired[r], 0) \in RowChanges
    BY <1>1, <2>1, <2>2, <2>3, ChangeType
  <2>6. q \in Requests
    BY <2>5 DEF Requests
  <2> HIDE DEF q
  <2> QED BY <2>4, <2>6, BeginType
<1>3. ASSUME NEW w \in Hardware, deny(h, t, w)
      PROVE  FleetTypeOK'
  <2> DEFINE why == Gate(t)
             match == IF why = "unknown" THEN {} ELSE RowsOf(w)
             q == [op |-> "deny", token |-> t, was |-> tok[t], hw |-> w, why |-> why,
                   new |-> IsNewAttempt(w, why), match |-> match]
  <2>1. Begin(h, q) /\ why # "open"
    BY <1>3 DEF deny
  <2>2. tok[t] \in TokenStatus \union {"none", "deleted"}
    BY <1>1 DEF TokensTypeOK
  <2>3. why \in Refusal
    BY <2>1, <2>2 DEF Gate, TokenStatus, Refusal
  <2>4. match \subseteq Rows
    BY DEF RowsOf
  <2>5. IsNewAttempt(w, why) \in BOOLEAN
    BY DEF IsNewAttempt
  <2> HIDE DEF why, match
  <2>6. q \in Requests
    BY <2>2, <2>3, <2>4, <2>5 DEF Requests
  <2> HIDE DEF q
  <2> QED BY <2>1, <2>6, BeginType
<1>4. CASE revoke_token(h, t)
  <2>1. [op |-> "revoke", token |-> t] \in Requests
    BY DEF Requests
  <2> QED BY <1>4, <2>1, BeginType DEF revoke_token
<1> QED BY <1>2, <1>3, <1>4 DEF TokenRead

\* Every request begins well typed.
LEMMA ReadType ==
    ASSUME FleetTypeOK, NEW h \in Handlers, Read(h)
    PROVE  FleetTypeOK'
<1>1. ASSUME NEW w \in Hardware, NEW r \in Rows, NEW age \in 0..MaxAge,
             import_offline(h, w, r, age)
      PROVE  FleetTypeOK'
  <2> DEFINE to == IF Exists(r) THEN status[r] ELSE "offline"
  <2>1. to \in MachineStatus
    BY DEF Exists, MachineStatus
  <2>2. MachinesTypeOK /\ status[r] # "deleted"
    BY <1>1 DEF FleetTypeOK, import_offline, Takes, RowsOf, FreshRows, Exists, MachineStatus
  <2>3. age \in 0..Keep /\ retired[r] \in BOOLEAN
    BY <2>2, AgeAssumption DEF Keep, MachinesTypeOK
  <2>4. RowRequest(h, "import", Change(r, to, retired[r], age)) /\ "import" \in RowOps
    BY <1>1 DEF import_offline, RowOps
  <2> HIDE DEF to
  <2>5. Change(r, to, retired[r], age) \in RowChanges
    BY <2>1, <2>2, <2>3, ChangeType
  <2> QED BY <2>4, <2>5, RowRequestType
<1>2. CASE overview(h)
  <2> DEFINE late == {t \in past : tok[t] = "pending"}
  <2>1. late \subseteq Tokens
    BY DEF FleetTypeOK, TokensTypeOK
  <2>2. Begin(h, [op |-> "overview", expired |-> late])
    BY <1>2 DEF overview
  <2> HIDE DEF late
  <2>3. [op |-> "overview", expired |-> late] \in Requests
    BY <2>1 DEF Requests
  <2> QED BY <2>2, <2>3, BeginType
<1> QED BY <1>1, <1>2, RowReadType, TokenReadType DEF Read

\* A column keeps its type when a change that was read is flushed.
LEMMA WriteRowType ==
    ASSUME MachinesTypeOK, NEW c \in RowChanges, WriteRow(c)
    PROVE  MachinesTypeOK'
<1> USE DEF MachinesTypeOK, RowChanges, WriteRow
<1>1. /\ c.row \in Rows
      /\ c.to \in MachineStatus
      /\ c.has \in BOOLEAN
      /\ c.age \in 0..Keep
  OBVIOUS
<1>2. status' \in [Rows -> MachineStatus \union {"none", "deleted"}]
  BY <1>1 DEF Flush
<1>3. retired' \in [Rows -> BOOLEAN]
  BY <1>1 DEF Flush
<1>4. seen' \in [Rows -> 0..2]
  BY <1>1 DEF Keep
<1> QED BY <1>2, <1>3, <1>4

\* What a request of each kind holds.
LEMMA RequestFields ==
    ASSUME NEW q \in Requests
    PROVE  /\ q.op \in RowOps \union {"enroll"} => q.change \in RowChanges
           /\ q.op = "enroll" => q.token \in Tokens
           /\ q.op = "deny" =>
                 /\ q.token \in Tokens
                 /\ q.hw \in Hardware
                 /\ q.why \in Refusal
                 /\ q.match \subseteq Rows
           /\ q.op = "revoke" => q.token \in Tokens
           /\ q.op = "overview" => q.expired \subseteq Tokens
  BY DEF Requests, RowOps, Idle

\* A capped counter stays within its bound.
LEMMA CappedType ==
    ASSUME NEW b \in Nat, NEW n \in 0..b
    PROVE  Capped(n, b) \in 0..b
  BY DEF Capped

\* Marking or deleting a set of tokens keeps their type.
LEMMA SetTokensType ==
    ASSUME TokensTypeOK, NEW S, NEW s \in TokenStatus \union {"deleted"}, SetTokens(S, s)
    PROVE  TokensTypeOK'
  BY DEF TokensTypeOK, SetTokens

\* Every commit, and every rollback, leaves everything well typed.
LEMMA CommitType ==
    ASSUME FleetTypeOK, NEW h \in Handlers, Commit(h) \/ RequestFails(h)
    PROVE  FleetTypeOK'
<1>1. MachinesTypeOK /\ TokensTypeOK /\ req \in [Handlers -> Requests] /\ req[h] \in Requests
  BY DEF FleetTypeOK
<1>2. ASSUME Finish(h) PROVE req' \in [Handlers -> Requests]
  BY <1>1, <1>2 DEF Finish, Requests
<1>3. ASSUME Rollback PROVE MachinesTypeOK' /\ TokensTypeOK'
  BY <1>1, <1>3 DEF Rollback, machineVars, tokenVars, MachinesTypeOK, TokensTypeOK
<1>4. ASSUME UNCHANGED machineVars PROVE MachinesTypeOK'
  BY <1>1, <1>4 DEF machineVars, MachinesTypeOK
<1>5. ASSUME UNCHANGED tokenVars PROVE TokensTypeOK'
  BY <1>1, <1>5 DEF tokenVars, TokensTypeOK
<1>6. CASE RowCommit(h)
  BY <1>1, <1>2, <1>3, <1>5, <1>6, RequestFields, WriteRowType DEF RowCommit, FleetTypeOK
<1>7. CASE EnrollCommit(h)
  <2>1. CASE Rollback
    BY <1>2, <1>3, <1>7, <2>1 DEF EnrollCommit, FleetTypeOK
  <2>2. CASE ~Rollback
    <3>1. MachinesTypeOK'
      BY <1>1, <1>7, <2>2, RequestFields, WriteRowType DEF EnrollCommit
    <3>2. req[h].token \in Tokens
      BY <1>1, <1>7, RequestFields DEF EnrollCommit
    <3>3. uses[req[h].token] \in 0..MaxUses /\ MaxUses \in Nat
      BY <1>1, <3>2, TokensAssumption DEF TokensTypeOK
    <3>4. Capped(uses[req[h].token], MaxUses) \in 0..MaxUses
      BY <3>3, CappedType
    <3>5. TokensTypeOK'
      BY <1>1, <1>7, <2>2, <3>2, <3>4 DEF EnrollCommit, TokensTypeOK, TokenStatus
    <3> QED BY <1>2, <1>7, <3>1, <3>5 DEF EnrollCommit, FleetTypeOK
  <2> QED BY <2>1, <2>2
<1>8. CASE DenyCommit(h)
  <2>1. CASE Rollback
    BY <1>2, <1>3, <1>8, <2>1 DEF DenyCommit, FleetTypeOK
  <2>2. CASE ~Rollback
    <3> DEFINE q == req[h]
    <3>1. q.token \in Tokens /\ <<q.hw, q.why>> \in Hardware \X Refusal /\ q.match \subseteq Rows
      BY <1>1, <1>8, RequestFields DEF DenyCommit
    <3>2. attempts[<<q.hw, q.why>>] \in 0..MaxAttempts /\ MaxAttempts \in Nat
      BY <1>1, <3>1, TokensAssumption DEF TokensTypeOK
    <3>3. Capped(attempts[<<q.hw, q.why>>], MaxAttempts) \in 0..MaxAttempts
      BY <3>2, CappedType
    <3>4. /\ tok' \in {tok, [tok EXCEPT ![q.token] = "expired"]}
          /\ attempts' \in {attempts, [attempts EXCEPT ![<<q.hw, q.why>>] = Capped(@, MaxAttempts)]}
          /\ bound' \in {bound, bound \union {q.token}}
          /\ matched' \in {matched, matched \union q.match}
          /\ UNCHANGED <<past, uses, machineVars>>
      BY <1>8, <2>2 DEF DenyCommit
    <3>5. tok' \in [Tokens -> TokenStatus \union {"none", "deleted"}]
      BY <1>1, <3>4 DEF TokensTypeOK, TokenStatus
    <3>6. attempts' \in [Hardware \X Refusal -> 0..MaxAttempts]
      BY <1>1, <3>3, <3>4 DEF TokensTypeOK
    <3>7. bound' \subseteq Tokens /\ matched' \subseteq Rows
      BY <1>1, <3>1, <3>4 DEF TokensTypeOK
    <3>8. TokensTypeOK'
      BY <1>1, <3>4, <3>5, <3>6, <3>7 DEF TokensTypeOK
    <3> QED BY <1>2, <1>4, <1>8, <3>4, <3>8 DEF DenyCommit, FleetTypeOK
  <2> QED BY <2>1, <2>2
<1>9. CASE RevokeCommit(h)
  BY <1>1, <1>2, <1>3, <1>4, <1>9, SetTokensType DEF RevokeCommit, FleetTypeOK
<1>10. CASE OverviewCommit(h)
  <2>1. "expired" \in TokenStatus
    BY DEF TokenStatus
  <2> QED BY <1>1, <1>2, <1>3, <1>4, <1>10, <2>1, SetTokensType DEF OverviewCommit, FleetTypeOK
<1>11. CASE RequestFails(h)
  BY <1>2, <1>3, <1>11 DEF RequestFails, FleetTypeOK
<1> QED BY <1>6, <1>7, <1>8, <1>9, <1>10, <1>11 DEF Commit

\* The sweeps, the clock and a deletion keep the machine rows well typed.
LEMMA MachineStepType ==
    ASSUME FleetTypeOK, MachineStep
    PROVE  FleetTypeOK'
<1>1. MachinesTypeOK /\ UNCHANGED <<tokenVars, req>>
  BY DEF FleetTypeOK, MachineStep
<1> SUFFICES MachinesTypeOK'
  BY <1>1 DEF FleetTypeOK, TokensTypeOK, tokenVars
<1> USE DEF MachinesTypeOK
<1>2. ASSUME NEW to \in {"offline", "lost"}, NEW rows \in SUBSET Rows, Sweep(to, rows)
      PROVE  MachinesTypeOK'
  BY <1>1, <1>2 DEF Sweep
<1>3. CASE SweepOfflineRead \/ SweepLostRead
  <2>1. {r \in Rows : SilentOnline(r)} \in SUBSET Rows /\ {r \in Rows : SilentOffline(r)} \in SUBSET Rows
    OBVIOUS
  <2> QED BY <1>2, <1>3, <2>1 DEF SweepOfflineRead, SweepLostRead
<1>4. CASE SweepWrite
  <2>1. PICK S \in SUBSET sweep.rows \ {{}} :
          /\ status' = [r \in Rows |-> IF r \in S THEN sweep.to ELSE status[r]]
          /\ sweep' = IF S = sweep.rows THEN NoSweep ELSE [sweep EXCEPT !.rows = @ \ S]
          /\ UNCHANGED <<retired, seen>>
    BY <1>4 DEF SweepWrite
  <2>2. sweep.to \in MachineStatus \union {"none"}
    BY <1>1 DEF MachineStatus
  <2>3. status' \in [Rows -> MachineStatus \union {"none", "deleted"}]
    BY <1>1, <2>1, <2>2
  <2>4. sweep' \in [to : {"none", "offline", "lost"}, rows : SUBSET Rows]
    BY <1>1, <2>1 DEF NoSweep
  <2> QED BY <1>1, <2>1, <2>3, <2>4
<1>5. CASE SweepGone
  BY <1>1, <1>5 DEF SweepGone, NoSweep
<1>6. ASSUME NEW r \in Rows, DeleteMachine(r) \/ Silence(r)
      PROVE  MachinesTypeOK'
  BY <1>1, <1>6, AgeAssumption DEF DeleteMachine, delete_machine, Silence
<1> QED BY <1>3, <1>4, <1>5, <1>6 DEF MachineStep, Monitor

\* What administrators, the cleanup and the clock do to tokens keeps their type.
LEMMA TokenStepType ==
    ASSUME FleetTypeOK, TokenStep
    PROVE  FleetTypeOK'
<1>1. TokensTypeOK /\ UNCHANGED <<machineVars, req>>
  BY DEF FleetTypeOK, TokenStep
<1> SUFFICES TokensTypeOK'
  BY <1>1 DEF FleetTypeOK, MachinesTypeOK, machineVars
<1>2. ASSUME NEW t \in Tokens, create_token(t)
      PROVE  TokensTypeOK'
  BY <1>1, <1>2 DEF TokensTypeOK, create_token, TokenStatus
<1>3. ASSUME NEW t \in Tokens, delete_token(t)
      PROVE  TokensTypeOK'
  BY <1>1, <1>3, SetTokensType DEF delete_token
<1>4. ASSUME NEW t \in Tokens, TokenExpires(t)
      PROVE  TokensTypeOK'
  BY <1>1, <1>4 DEF TokensTypeOK, TokenExpires
<1>5. CASE cleanup_tokens
  BY <1>1, <1>5, SetTokensType DEF cleanup_tokens
<1>6. ASSUME NEW w \in Hardware, NEW why \in Refusal, AttemptCloses(w, why)
      PROVE  TokensTypeOK'
  <2>1. attempts[<<w, why>>] \in 0..MaxAttempts /\ attempts[<<w, why>>] > 0 /\ MaxAttempts \in Nat
    BY <1>1, <1>6, TokensAssumption DEF TokensTypeOK, AttemptCloses
  <2>2. attempts[<<w, why>>] - 1 \in 0..MaxAttempts
    BY <2>1
  <2> QED BY <1>1, <1>6, <2>2 DEF TokensTypeOK, AttemptCloses
<1>7. ASSUME NEW w \in Hardware, NEW why \in Refusal, NEW t \in Tokens, approve_attempt(w, why, t)
      PROVE  TokensTypeOK'
  <2>1. attempts[<<w, why>>] \in 0..MaxAttempts /\ attempts[<<w, why>>] > 0 /\ MaxAttempts \in Nat
    BY <1>1, <1>7, TokensAssumption DEF TokensTypeOK, approve_attempt
  <2>2. attempts[<<w, why>>] - 1 \in 0..MaxAttempts
    BY <2>1
  <2> QED BY <1>1, <1>7, <2>2 DEF TokensTypeOK, approve_attempt, TokenStatus
<1> QED BY <1>2, <1>3, <1>4, <1>5, <1>6, <1>7 DEF TokenStep, reissue_token

\* Every variable of the fleet keeps its type: the counters their bounds, the
\* sweep its rows, and a request holds what its handler can have read.
THEOREM FleetTypes == Spec => []FleetTypeOK
<1>1. FleetInit => FleetTypeOK
  <2> SUFFICES ASSUME FleetInit PROVE FleetTypeOK
    OBVIOUS
  <2>1. MachinesTypeOK
    BY DEF FleetInit, MachinesInit, MachinesTypeOK, NoSweep
  <2>2. TokensTypeOK
    BY TokensAssumption DEF FleetInit, TokensInit, TokensTypeOK
  <2>3. req \in [Handlers -> Requests]
    BY DEF FleetInit, Requests
  <2> QED BY <2>1, <2>2, <2>3 DEF FleetTypeOK
<1>2. FleetTypeOK /\ [Next]_vars => FleetTypeOK'
  <2> SUFFICES ASSUME FleetTypeOK, [Next]_vars PROVE FleetTypeOK'
    OBVIOUS
  <2>1. ASSUME NEW h \in Handlers, Read(h) \/ Commit(h) \/ RequestFails(h)
        PROVE  FleetTypeOK'
    BY <2>1, ReadType, CommitType
  <2>2. CASE ServerRestart
    BY <2>2 DEF ServerRestart, FleetTypeOK, MachinesTypeOK, TokensTypeOK, tokenVars,
                NoSweep, Requests
  <2>3. CASE UNCHANGED vars
    BY <2>3 DEF vars, machineVars, tokenVars, FleetTypeOK, MachinesTypeOK, TokensTypeOK
  <2> QED BY <2>1, <2>2, <2>3, MachineStepType, TokenStepType DEF Next
<1> QED BY <1>1, <1>2, PTL DEF Spec

-----------------------------------------------------------------------------
(* Deleted tokens.                                                          *)

\* An enrolment that is under way when its token is revoked or cleaned up
\* does not commit (tokens.py:436, monitor.py:163): the flush finds no row.
THEOREM RevokedEnrolsNoMore == Spec => RevokedNeverEnrols
<1>1. FleetTypeOK /\ [Next]_vars =>
        [\A t \in Tokens : tok[t] = "deleted" => uses'[t] = uses[t]]_vars
  <2> SUFFICES ASSUME FleetTypeOK, [Next]_vars, NEW t \in Tokens, tok[t] = "deleted"
               PROVE  uses'[t] = uses[t]
    OBVIOUS
  <2>1. ASSUME NEW h \in Handlers, EnrollCommit(h)
        PROVE  uses'[t] = uses[t]
    <3>1. CASE TokenWritable(req[h].token)
      <4>1. req[h].token # t
        BY <3>1 DEF TokenWritable, HasToken, TokenStatus
      <4> QED BY <2>1, <4>1 DEF EnrollCommit, Rollback, tokenVars, FleetTypeOK, TokensTypeOK
    <3>2. CASE ~TokenWritable(req[h].token)
      BY <2>1, <3>2 DEF EnrollCommit, Rollback, tokenVars
    <3> QED BY <3>1, <3>2
  <2>2. ASSUME NEW h \in Handlers, Read(h) \/ RequestFails(h)
        PROVE  uses' = uses
    BY <2>2 DEF Read, RowRead, TokenRead, heartbeat, approve_machine, reject_machine,
                update_lifecycle, enroll, deny, revoke_token, import_offline, overview,
                RowRequest, Begin, RequestFails, Rollback, tokenVars
  <2>3. ASSUME NEW h \in Handlers,
               RowCommit(h) \/ DenyCommit(h) \/ RevokeCommit(h) \/ OverviewCommit(h)
        PROVE  uses' = uses
    BY <2>3 DEF RowCommit, DenyCommit, RevokeCommit, OverviewCommit, SetTokens, Rollback, tokenVars
  <2>4. CASE MachineStep \/ TokenStep \/ ServerRestart \/ UNCHANGED vars
    BY <2>4 DEF MachineStep, TokenStep, ServerRestart, vars, tokenVars, create_token,
                delete_token, SetTokens, TokenExpires, reissue_token, AttemptCloses,
                approve_attempt, cleanup_tokens
  <2> QED BY <2>1, <2>2, <2>3, <2>4 DEF Next, Commit
<1> QED BY <1>1, FleetTypes, PTL DEF Spec, RevokedNeverEnrols

-----------------------------------------------------------------------------
(* Declined machines.                                                       *)

\* What a request that has read a declined machine means to write: enrolment
\* queues it for approval, every other request leaves it declined.
KeepsDecline(q) ==
    /\ q.op \in RowOps /\ q.change.was = "decommissioned" => q.change.to = "decommissioned"
    /\ q.op = "enroll" /\ q.change.was = "decommissioned" => q.change.to = "pending"

DeclineInv == \A h \in Handlers : KeepsDecline(req[h])

\* A request that begins as its handler computed it.
LEMMA BeginKeepsDecline ==
    ASSUME FleetTypeOK, DeclineInv, NEW h \in Handlers, NEW q, Begin(h, q), KeepsDecline(q)
    PROVE  DeclineInv'
<1>1. req' = [req EXCEPT ![h] = q] /\ DOMAIN req = Handlers
  BY DEF Begin, FleetTypeOK
<1>2. ASSUME NEW g \in Handlers PROVE KeepsDecline(req'[g])
  <2>1. CASE g = h
    BY <1>1, <2>1
  <2>2. CASE g # h
    BY <1>1, <2>2 DEF DeclineInv
  <2> QED BY <2>1, <2>2
<1> QED BY <1>2 DEF DeclineInv, KeepsDecline

\* No handler but enrolment turns a declined machine into anything else.
LEMMA ReadKeepsDecline ==
    ASSUME FleetTypeOK, DeclineInv, NEW h \in Handlers, Read(h)
    PROVE  DeclineInv'
<1>1. ASSUME NEW r \in Rows, RowRead(h, r)
      PROVE  DeclineInv'
  <2>1. ASSUME NEW op, NEW to, NEW has, RowRequest(h, op, Change(r, to, has, 0)),
               op # "enroll", status[r] = "decommissioned" => to = "decommissioned"
        PROVE  DeclineInv'
    BY <2>1, BeginKeepsDecline DEF RowRequest, Change, KeepsDecline
  <2>2. ASSUME NEW op, NEW to, NEW has, RowRequest(h, op, Change(r, to, has, Keep)),
               op # "enroll", status[r] = "decommissioned" => to = "decommissioned"
        PROVE  DeclineInv'
    BY <2>2, BeginKeepsDecline DEF RowRequest, Change, KeepsDecline
  <2>3. CASE heartbeat(h, r)
    BY <2>1, <2>3 DEF heartbeat, HeartbeatSets
  <2>4. CASE approve_machine(h, r)
    BY <2>2, <2>4 DEF approve_machine
  <2>5. CASE reject_machine(h, r)
    BY <2>2, <2>5 DEF reject_machine
  <2>6. ASSUME NEW retire \in BOOLEAN, update_lifecycle(h, r, retire)
        PROVE  DeclineInv'
    BY <2>2, <2>6 DEF update_lifecycle
  <2> QED BY <1>1, <2>3, <2>4, <2>5, <2>6 DEF RowRead
<1>2. ASSUME NEW t \in Tokens, TokenRead(h, t)
      PROVE  DeclineInv'
  <2>1. ASSUME NEW w \in Hardware, NEW r \in Rows, enroll(h, t, w, r)
        PROVE  DeclineInv'
    <3> DEFINE to == IF Exists(r) THEN EnrollSets(status[r]) ELSE "pending"
               q == [op |-> "enroll", token |-> t, change |-> Change(r, to, retired[r], 0)]
    <3>1. Begin(h, q)
      BY <2>1 DEF enroll
    <3>2. status[r] = "decommissioned" => to = "pending"
      BY DEF EnrollSets
    <3>3. KeepsDecline(q)
      BY <3>2 DEF KeepsDecline, Change, RowOps
    <3> QED BY <3>1, <3>3, BeginKeepsDecline
  <2>2. ASSUME NEW q, Begin(h, q), q.op \notin RowOps \union {"enroll"}
        PROVE  DeclineInv'
    BY <2>2, BeginKeepsDecline DEF KeepsDecline
  <2>3. ASSUME NEW w \in Hardware, deny(h, t, w)
        PROVE  DeclineInv'
    BY <2>2, <2>3 DEF deny, RowOps
  <2>4. CASE revoke_token(h, t)
    BY <2>2, <2>4 DEF revoke_token, RowOps
  <2> QED BY <1>2, <2>1, <2>3, <2>4 DEF TokenRead
<1>3. ASSUME NEW w \in Hardware, NEW r \in Rows, NEW age \in 0..MaxAge,
             import_offline(h, w, r, age)
      PROVE  DeclineInv'
  <2> DEFINE to == IF Exists(r) THEN status[r] ELSE "offline"
             q == [op |-> "import", change |-> Change(r, to, retired[r], age)]
  <2>1. Begin(h, q)
    BY <1>3 DEF import_offline, RowRequest
  <2>2. status[r] = "decommissioned" => to = "decommissioned"
    BY DEF Exists, MachineStatus
  <2>3. KeepsDecline(q)
    BY <2>2 DEF KeepsDecline, Change
  <2> QED BY <2>1, <2>3, BeginKeepsDecline
<1>4. CASE overview(h)
  <2> DEFINE q == [op |-> "overview", expired |-> {t \in past : tok[t] = "pending"}]
  <2>1. Begin(h, q)
    BY <1>4 DEF overview
  <2>2. KeepsDecline(q)
    BY DEF KeepsDecline, RowOps
  <2> QED BY <2>1, <2>2, BeginKeepsDecline
<1> QED BY <1>1, <1>2, <1>3, <1>4 DEF Read

\* No request ever means to lift a decline that it has read, but enrolment.
LEMMA DeclineAlways == Spec => []DeclineInv
<1>1. FleetInit => DeclineInv
  BY DEF FleetInit, DeclineInv, KeepsDecline, Idle, RowOps
<1>2. FleetTypeOK /\ DeclineInv /\ [Next]_vars => DeclineInv'
  <2> SUFFICES ASSUME FleetTypeOK, DeclineInv, [Next]_vars PROVE DeclineInv'
    OBVIOUS
  <2>1. KeepsDecline(Idle)
    BY DEF KeepsDecline, Idle, RowOps
  <2>2. ASSUME NEW h \in Handlers, Finish(h)
        PROVE  DeclineInv'
    <3>1. ASSUME NEW g \in Handlers PROVE req'[g] \in {req[g], Idle}
      BY <2>2 DEF Finish, FleetTypeOK
    <3>2. ASSUME NEW g \in Handlers PROVE KeepsDecline(req'[g])
      BY <2>1, <3>1 DEF DeclineInv
    <3> QED BY <3>2 DEF DeclineInv, KeepsDecline
  <2>3. ASSUME NEW h \in Handlers, Commit(h) \/ RequestFails(h)
        PROVE  DeclineInv'
    BY <2>2, <2>3 DEF Commit, RowCommit, EnrollCommit, DenyCommit, RevokeCommit,
                      OverviewCommit, RequestFails
  <2>4. CASE ServerRestart
    <3>1. ASSUME NEW g \in Handlers PROVE KeepsDecline(req'[g])
      BY <2>1, <2>4 DEF ServerRestart
    <3> QED BY <3>1 DEF DeclineInv, KeepsDecline
  <2>5. CASE req' = req
    BY <2>5 DEF DeclineInv, KeepsDecline
  <2> QED BY <2>3, <2>4, <2>5, ReadKeepsDecline DEF Next, MachineStep, TokenStep, vars
<1> QED BY <1>1, <1>2, FleetTypes, PTL DEF Spec

\* A declined machine stays declined until it is deleted, enrols again or is
\* overwritten by a handler or a sweep that had read it before (heartbeat.py:46).
THEOREM DeclineHolds == Spec => DeclineLostOnlyIfStale
<1> DEFINE Explained(r) ==
       \/ status'[r] = "deleted"
       \/ r \in sweep.rows
       \/ \E h \in Handlers :
             /\ Ends(h)
             /\ req[h].op \in RowOps \union {"enroll"}
             /\ req[h].change.row = r
             /\ \/ req[h].change.was # "decommissioned"
                \/ req[h].op = "enroll" /\ status'[r] = "pending"
<1>1. ASSUME FleetTypeOK, DeclineInv, [Next]_vars, NEW r \in Rows,
             status[r] = "decommissioned", status'[r] # "decommissioned"
      PROVE  Explained(r)
  <2>0. status \in [Rows -> MachineStatus \union {"none", "deleted"}]
    BY <1>1 DEF FleetTypeOK, MachinesTypeOK
  <2>1. ASSUME NEW h \in Handlers, WriteRow(req[h].change), Finish(h),
               req[h].op \in RowOps \union {"enroll"}
        PROVE  Explained(r)
    <3> DEFINE c == req[h].change
    <3>1. status' = Flush(status, c.row, c.was, c.to)
      BY <2>1 DEF WriteRow
    <3>2. c.row = r /\ c.to # c.was /\ status'[r] = c.to
      BY <1>1, <2>0, <3>1 DEF Flush
    <3>3. Ends(h)
      BY <1>1, <2>1 DEF Ends, Finish, FleetTypeOK, Idle, RowOps
    <3>4. c.was # "decommissioned" \/ (req[h].op = "enroll" /\ status'[r] = "pending")
      BY <1>1, <2>1, <3>2 DEF DeclineInv, KeepsDecline
    <3> QED BY <2>1, <3>2, <3>3, <3>4
  <2>2. ASSUME NEW h \in Handlers, RowCommit(h) \/ EnrollCommit(h)
        PROVE  Explained(r)
    BY <1>1, <2>1, <2>2 DEF RowCommit, EnrollCommit, Rollback, machineVars
  <2>3. ASSUME NEW h \in Handlers,
               Read(h) \/ DenyCommit(h) \/ RevokeCommit(h) \/ OverviewCommit(h) \/ RequestFails(h)
        PROVE  status' = status
    BY <2>3 DEF Read, RowRead, TokenRead, heartbeat, approve_machine, reject_machine,
                update_lifecycle, enroll, deny, revoke_token, import_offline, overview,
                RowRequest, Begin, DenyCommit, RevokeCommit, OverviewCommit, RequestFails,
                Rollback, machineVars
  <2>4. CASE MachineStep
    <3>1. CASE SweepWrite
      BY <1>1, <3>1 DEF SweepWrite
    <3>2. ASSUME NEW s \in Rows, DeleteMachine(s)
          PROVE  Explained(r)
      BY <1>1, <2>0, <3>2 DEF DeleteMachine, delete_machine
    <3>3. CASE UNCHANGED status
      BY <1>1, <3>3
    <3> QED BY <2>4, <3>1, <3>2, <3>3
            DEF MachineStep, Monitor, SweepOfflineRead, SweepLostRead, Sweep, SweepGone, Silence
  <2>5. CASE TokenStep \/ ServerRestart \/ UNCHANGED vars
    BY <1>1, <2>5 DEF TokenStep, ServerRestart, vars, machineVars
  <2> QED BY <1>1, <2>2, <2>3, <2>4, <2>5 DEF Next, Commit
<1>2. FleetTypeOK /\ DeclineInv /\ [Next]_vars =>
        [\A r \in Rows :
            status[r] = "decommissioned" /\ status'[r] # "decommissioned" => Explained(r)]_vars
  BY <1>1
<1> QED BY <1>2, FleetTypes, DeclineAlways, PTL DEF Spec, DeclineLostOnlyIfStale

-----------------------------------------------------------------------------
(* Closed tokens.                                                           *)

\* Whoever marks a token as expired has seen that its time has passed.
LateInv ==
    /\ \A t \in Tokens : tok[t] = "expired" => t \in past
    /\ \A h \in Handlers :
          /\ req[h].op = "deny" /\ req[h].why = "expired" => req[h].token \in past
          /\ req[h].op = "overview" => req[h].expired \subseteq past

\* Requests begin from what the gate told them.
LEMMA BeginLate ==
    ASSUME FleetTypeOK, LateInv, NEW h \in Handlers, Read(h)
    PROVE  LateInv'
<1>1. ASSUME NEW q, Begin(h, q),
             q.op = "deny" /\ q.why = "expired" => q.token \in past,
             q.op = "overview" => q.expired \subseteq past
      PROVE  LateInv'
  <2>1. req' = [req EXCEPT ![h] = q] /\ DOMAIN req = Handlers /\ UNCHANGED <<tok, past>>
    BY <1>1 DEF Begin, FleetTypeOK, tokenVars
  <2>2. ASSUME NEW g \in Handlers
        PROVE  /\ req'[g].op = "deny" /\ req'[g].why = "expired" => req'[g].token \in past
               /\ req'[g].op = "overview" => req'[g].expired \subseteq past
    <3>1. CASE g = h
      BY <1>1, <2>1, <3>1
    <3>2. CASE g # h
      BY <2>1, <3>2 DEF LateInv
    <3> QED BY <3>1, <3>2
  <2> QED BY <2>1, <2>2 DEF LateInv
<1>2. ASSUME NEW q, Begin(h, q), q.op \notin {"deny", "overview"}
      PROVE  LateInv'
  BY <1>1, <1>2
<1>3. ASSUME NEW r \in Rows, RowRead(h, r)
      PROVE  LateInv'
  BY <1>2, <1>3 DEF RowRead, heartbeat, approve_machine, reject_machine, update_lifecycle, RowRequest
<1>4. ASSUME NEW t \in Tokens, TokenRead(h, t)
      PROVE  LateInv'
  <2>1. ASSUME NEW w \in Hardware, NEW r \in Rows, enroll(h, t, w, r)
        PROVE  LateInv'
    BY <1>2, <2>1 DEF enroll
  <2>2. ASSUME NEW w \in Hardware, deny(h, t, w)
        PROVE  LateInv'
    <3> DEFINE why == Gate(t)
               match == IF why = "unknown" THEN {} ELSE RowsOf(w)
               q == [op |-> "deny", token |-> t, was |-> tok[t], hw |-> w, why |-> why,
                     new |-> IsNewAttempt(w, why), match |-> match]
    <3>1. Begin(h, q)
      BY <2>2 DEF deny
    <3>2. tok[t] \in TokenStatus \union {"none", "deleted"}
      BY DEF FleetTypeOK, TokensTypeOK
    <3>3. why = "expired" => t \in past
      BY <3>2 DEF Gate, TokenStatus
    <3> QED BY <1>1, <3>1, <3>3
  <2>3. CASE revoke_token(h, t)
    BY <1>2, <2>3 DEF revoke_token
  <2> QED BY <1>4, <2>1, <2>2, <2>3 DEF TokenRead
<1>5. ASSUME NEW w \in Hardware, NEW r \in Rows, NEW age \in 0..MaxAge,
             import_offline(h, w, r, age)
      PROVE  LateInv'
  BY <1>2, <1>5 DEF import_offline, RowRequest
<1>6. CASE overview(h)
  <2> DEFINE late == {t \in past : tok[t] = "pending"}
  <2>1. Begin(h, [op |-> "overview", expired |-> late]) /\ late \subseteq past
    BY <1>6 DEF overview
  <2> QED BY <1>1, <2>1
<1> QED BY <1>3, <1>4, <1>5, <1>6 DEF Read

\* Time does not run backwards, and only expired tokens are marked expired.
LEMMA ExpiryStep ==
    ASSUME FleetTypeOK, LateInv, [Next]_vars
    PROVE  /\ past \subseteq past'
           /\ \A t \in Tokens : tok'[t] = "expired" => t \in past'
<1>0. tok \in [Tokens -> TokenStatus \union {"none", "deleted"}]
  BY DEF FleetTypeOK, TokensTypeOK
<1>1. ASSUME tok' = tok, past \subseteq past'
      PROVE  \A t \in Tokens : tok'[t] = "expired" => t \in past'
  BY <1>1 DEF LateInv
<1>2. ASSUME NEW h \in Handlers, Read(h) \/ RequestFails(h) \/ RowCommit(h)
      PROVE  UNCHANGED <<tok, past>>
  BY <1>2 DEF Read, RowRead, TokenRead, heartbeat, approve_machine, reject_machine,
              update_lifecycle, enroll, deny, revoke_token, import_offline, overview,
              RowRequest, Begin, RequestFails, RowCommit, Rollback, tokenVars
<1>3. ASSUME NEW S, NEW s, SetTokens(S, s), s = "expired" => S \subseteq past
      PROVE  /\ past = past'
             /\ \A t \in Tokens : tok'[t] = "expired" => t \in past'
  BY <1>3 DEF SetTokens, LateInv
<1>4. ASSUME NEW h \in Handlers, EnrollCommit(h)
      PROVE  /\ past = past'
             /\ \A t \in Tokens : tok'[t] = "expired" => t \in past'
  <2>1. past' = past /\ (tok' = tok \/ tok' = [tok EXCEPT ![req[h].token] = "used"])
    BY <1>4 DEF EnrollCommit, Rollback, tokenVars
  <2> QED BY <1>0, <2>1 DEF LateInv
<1>5. ASSUME NEW h \in Handlers, DenyCommit(h)
      PROVE  /\ past = past'
             /\ \A t \in Tokens : tok'[t] = "expired" => t \in past'
  <2>1. /\ past' = past
        /\ \/ tok' = tok
           \/ tok' = [tok EXCEPT ![req[h].token] = "expired"] /\ req[h].token \in past
    BY <1>5 DEF DenyCommit, Rollback, tokenVars, LateInv
  <2> QED BY <1>0, <2>1 DEF LateInv
<1>6. ASSUME NEW h \in Handlers, RevokeCommit(h) \/ OverviewCommit(h)
      PROVE  /\ past = past'
             /\ \A t \in Tokens : tok'[t] = "expired" => t \in past'
  <2>1. CASE UNCHANGED <<tok, past>>
    BY <1>1, <2>1
  <2>2. CASE \E S, s : SetTokens(S, s) /\ (s = "expired" => S \subseteq past)
    BY <1>3, <2>2
  <2> QED BY <1>6, <2>1, <2>2 DEF RevokeCommit, OverviewCommit, Rollback, tokenVars, LateInv
<1>7. CASE TokenStep
  <2>1. ASSUME NEW t \in Tokens, create_token(t) \/ TokenExpires(t)
        PROVE  /\ past \subseteq past'
               /\ \A u \in Tokens : tok'[u] = "expired" => u \in past'
    BY <1>0, <2>1 DEF create_token, TokenExpires, LateInv
  <2>2. ASSUME NEW t \in Tokens, delete_token(t)
        PROVE  /\ past \subseteq past'
               /\ \A u \in Tokens : tok'[u] = "expired" => u \in past'
    BY <1>3, <2>2 DEF delete_token
  <2>3. CASE cleanup_tokens
    BY <1>3, <2>3 DEF cleanup_tokens
  <2>4. ASSUME NEW w \in Hardware, NEW why \in Refusal, AttemptCloses(w, why)
        PROVE  /\ past \subseteq past'
               /\ \A u \in Tokens : tok'[u] = "expired" => u \in past'
    BY <1>1, <2>4 DEF AttemptCloses
  <2>5. ASSUME NEW w \in Hardware, NEW why \in Refusal, NEW t \in Tokens,
               approve_attempt(w, why, t)
        PROVE  /\ past \subseteq past'
               /\ \A u \in Tokens : tok'[u] = "expired" => u \in past'
    BY <1>0, <2>5 DEF approve_attempt, LateInv
  <2> QED BY <1>7, <2>1, <2>2, <2>3, <2>4, <2>5 DEF TokenStep, reissue_token
<1>8. CASE MachineStep \/ ServerRestart \/ UNCHANGED vars
  BY <1>1, <1>8 DEF MachineStep, ServerRestart, vars, tokenVars
<1> QED BY <1>1, <1>2, <1>4, <1>5, <1>6, <1>7, <1>8 DEF Next, Commit

\* Only tokens whose time has passed are ever marked as expired.
LEMMA LateAlways == Spec => []LateInv
<1>1. FleetInit => LateInv
  BY DEF FleetInit, TokensInit, LateInv, Idle
<1>2. FleetTypeOK /\ LateInv /\ [Next]_vars => LateInv'
  <2> SUFFICES ASSUME FleetTypeOK, LateInv, [Next]_vars PROVE LateInv'
    OBVIOUS
  <2>1. /\ past \subseteq past'
        /\ \A t \in Tokens : tok'[t] = "expired" => t \in past'
    BY ExpiryStep
  <2>2. ASSUME \A g \in Handlers : req'[g] = req[g] \/ req'[g] = Idle
        PROVE  LateInv'
    BY <2>1, <2>2 DEF LateInv, Idle
  <2>3. ASSUME NEW h \in Handlers, Commit(h) \/ RequestFails(h)
        PROVE  LateInv'
    <3>1. Finish(h)
      BY <2>3 DEF Commit, RowCommit, EnrollCommit, DenyCommit, RevokeCommit,
                  OverviewCommit, RequestFails
    <3> QED BY <2>2, <3>1 DEF Finish, FleetTypeOK
  <2>4. CASE ServerRestart
    BY <2>2, <2>4 DEF ServerRestart
  <2>5. CASE req' = req
    BY <2>2, <2>5
  <2> QED BY <2>3, <2>4, <2>5, BeginLate DEF Next, MachineStep, TokenStep, vars
<1> QED BY <1>1, <1>2, FleetTypes, PTL DEF Spec

\* Nobody passes the gate with a closed token.
LEMMA ReadDoesNotAdmit ==
    ASSUME FleetTypeOK, LateInv, NEW h \in Handlers, Read(h),
           NEW t \in Tokens, tok[t] \notin {"none", "pending"}
    PROVE  /\ uses' = uses
           /\ InFlight(t)' \subseteq InFlight(t)
<1>1. ASSUME NEW q, Begin(h, q), q.op = "enroll" => q.token # t
      PROVE  /\ uses' = uses
             /\ InFlight(t)' \subseteq InFlight(t)
  BY <1>1 DEF Begin, tokenVars, InFlight, FleetTypeOK
<1>2. ASSUME NEW r \in Rows, RowRead(h, r)
      PROVE  /\ uses' = uses
             /\ InFlight(t)' \subseteq InFlight(t)
  BY <1>1, <1>2 DEF RowRead, heartbeat, approve_machine, reject_machine, update_lifecycle, RowRequest
<1>3. ASSUME NEW u \in Tokens, TokenRead(h, u)
      PROVE  /\ uses' = uses
             /\ InFlight(t)' \subseteq InFlight(t)
  <2>1. ASSUME NEW w \in Hardware, NEW r \in Rows, enroll(h, u, w, r)
        PROVE  /\ uses' = uses
               /\ InFlight(t)' \subseteq InFlight(t)
    <3>1. tok[t] \in {"used", "expired", "deleted"} /\ (tok[t] = "expired" => t \in past)
      BY DEF FleetTypeOK, TokensTypeOK, TokenStatus, LateInv
    <3>2. Gate(t) # "open"
      BY <3>1 DEF Gate, TokenStatus
    <3>3. u # t
      BY <2>1, <3>2 DEF enroll
    <3> QED BY <1>1, <2>1, <3>3 DEF enroll
  <2>2. ASSUME NEW w \in Hardware, deny(h, u, w)
        PROVE  /\ uses' = uses
               /\ InFlight(t)' \subseteq InFlight(t)
    BY <1>1, <2>2 DEF deny
  <2>3. CASE revoke_token(h, u)
    BY <1>1, <2>3 DEF revoke_token
  <2> QED BY <1>3, <2>1, <2>2, <2>3 DEF TokenRead
<1>4. ASSUME NEW w \in Hardware, NEW r \in Rows, NEW age \in 0..MaxAge,
             import_offline(h, w, r, age)
      PROVE  /\ uses' = uses
             /\ InFlight(t)' \subseteq InFlight(t)
  BY <1>1, <1>4 DEF import_offline, RowRequest
<1>5. CASE overview(h)
  BY <1>1, <1>5 DEF overview
<1> QED BY <1>2, <1>3, <1>4, <1>5 DEF Read

\* Whoever passed the gate and commits is no longer under way.
LEMMA EnrolmentCounts ==
    ASSUME FleetTypeOK, NEW h \in Handlers, EnrollCommit(h), NEW t \in Tokens
    PROVE  \/ uses'[t] = uses[t] /\ InFlight(t)' \subseteq InFlight(t)
           \/ /\ uses'[t] \in {uses[t], uses[t] + 1}
              /\ h \in InFlight(t)
              /\ InFlight(t)' = InFlight(t) \ {h}
<1>1. InFlight(t)' = InFlight(t) \ {h}
  BY DEF EnrollCommit, Finish, FleetTypeOK, InFlight, Idle
<1>2. CASE req[h].token # t
  BY <1>1, <1>2 DEF EnrollCommit, Rollback, tokenVars, FleetTypeOK, TokensTypeOK
<1>3. CASE req[h].token = t
  <2>1. h \in InFlight(t)
    BY <1>3 DEF EnrollCommit, InFlight
  <2>2. uses'[t] \in {uses[t], Capped(uses[t], MaxUses)}
    BY <1>3 DEF EnrollCommit, Rollback, tokenVars, FleetTypeOK, TokensTypeOK
  <2> QED BY <1>1, <2>1, <2>2 DEF Capped
<1> QED BY <1>2, <1>3

\* With finitely many requests at once, no step adds to the enrolments that a
\* closed token counts or is about to count.
LEMMA DrainsStep ==
    ASSUME IsFiniteSet(Handlers), FleetTypeOK, LateInv, [Next]_vars,
           NEW t \in Tokens, tok[t] \notin {"none", "pending"}
    PROVE  uses'[t] + Cardinality(InFlight(t)') <= uses[t] + Cardinality(InFlight(t))
<1> DEFINE Drains ==
       uses'[t] + Cardinality(InFlight(t)') <= uses[t] + Cardinality(InFlight(t))
<1>1. InFlight(t) \subseteq Handlers /\ IsFiniteSet(InFlight(t))
      /\ Cardinality(InFlight(t)) \in Nat /\ uses[t] \in Nat
  BY FS_Subset, FS_CardinalityType, TokensAssumption DEF InFlight, FleetTypeOK, TokensTypeOK
<1>2. ASSUME uses'[t] = uses[t], InFlight(t)' \subseteq InFlight(t)
      PROVE  Drains
  <2> DEFINE C == Cardinality(InFlight(t)')
  <2>1. C \in Nat /\ C <= Cardinality(InFlight(t))
    BY <1>1, <1>2, FS_Subset, FS_CardinalityType
  <2> HIDE DEF C
  <2>2. uses'[t] + C <= uses[t] + Cardinality(InFlight(t))
    BY <1>1, <1>2, <2>1
  <2> QED BY <2>2 DEF C
<1>3. ASSUME NEW h \in Handlers, EnrollCommit(h)
      PROVE  Drains
  <2>1. CASE /\ uses'[t] \in {uses[t], uses[t] + 1}
             /\ h \in InFlight(t)
             /\ InFlight(t)' = InFlight(t) \ {h}
    <3> DEFINE C == Cardinality(InFlight(t)')
    <3>1. C = Cardinality(InFlight(t)) - 1
      BY <1>1, <2>1, FS_RemoveElement
    <3> HIDE DEF C
    <3>2. uses'[t] + C <= uses[t] + Cardinality(InFlight(t))
      BY <1>1, <2>1, <3>1
    <3> QED BY <3>2 DEF C
  <2> QED BY <1>2, <1>3, <2>1, EnrolmentCounts
<1>4. ASSUME NEW h \in Handlers, Read(h)
      PROVE  Drains
  BY <1>2, <1>4, ReadDoesNotAdmit
<1>5. ASSUME NEW h \in Handlers,
             \/ RowCommit(h) \/ DenyCommit(h) \/ RevokeCommit(h) \/ OverviewCommit(h)
             \/ RequestFails(h)
      PROVE  Drains
  <2>1. Finish(h) /\ uses' = uses
    BY <1>5 DEF RowCommit, DenyCommit, RevokeCommit, OverviewCommit, RequestFails,
                SetTokens, Rollback, tokenVars
  <2>2. InFlight(t)' \subseteq InFlight(t)
    BY <2>1 DEF Finish, InFlight, FleetTypeOK, Idle
  <2> QED BY <1>2, <2>1, <2>2
<1>6. CASE ServerRestart
  BY <1>2, <1>6 DEF ServerRestart, tokenVars, InFlight, Idle
<1>7. CASE MachineStep \/ TokenStep \/ UNCHANGED vars
  <2>1. UNCHANGED <<uses, req>>
    BY <1>7 DEF MachineStep, TokenStep, vars, tokenVars, create_token,
                delete_token, SetTokens, TokenExpires, reissue_token, AttemptCloses,
                approve_attempt, cleanup_tokens
  <2> QED BY <1>2, <2>1 DEF InFlight
<1> QED BY <1>3, <1>4, <1>5, <1>6, <1>7 DEF Next, Commit

\* With finitely many requests at once, the enrolments counted for a token
\* that is used, expired or deleted (enroll.py:114-164) are among those that
\* had passed the gate while it was open.
THEOREM ClosedDrains ==
    ASSUME IsFiniteSet(Handlers)
    PROVE  Spec => ClosedTokenDrains
<1>1. FleetTypeOK /\ LateInv /\ [Next]_vars =>
        [\A t \in Tokens :
           tok[t] \notin {"none", "pending"} =>
             uses'[t] + Cardinality(InFlight(t)') <= uses[t] + Cardinality(InFlight(t))]_vars
  BY DrainsStep
<1> QED BY <1>1, FleetTypes, LateAlways, PTL DEF Spec, ClosedTokenDrains

-----------------------------------------------------------------------------
(* How much concurrent requests can get wrong.  Each of the three checks      *)
(* below is read by a request and relied on when it commits, and nothing in   *)
(* the database enforces it: n requests at once can get it wrong by n, and    *)
(* one at a time never do.                                                   *)

\* The hypothesis under which each check holds: requests do not overlap.
SingleHandler == \E h : Handlers = {h}

\* The sizes of two sets that only shrink.
LEMMA SumShrinks ==
    ASSUME NEW A, NEW B, NEW A1 \in SUBSET A, NEW B1 \in SUBSET B, IsFiniteSet(A), IsFiniteSet(B)
    PROVE  /\ Cardinality(A1) + Cardinality(B1) <= Cardinality(A) + Cardinality(B)
           /\ IsFiniteSet(A1)
  BY FS_Subset, FS_CardinalityType

\* A closed token stays closed: what could be opened again is no row any more.
LEMMA StaysClosed ==
    ASSUME FleetTypeOK, [Next]_vars, NEW t \in Tokens, tok'[t] \in {"none", "pending"}
    PROVE  tok[t] \in {"none", "pending"}
<1>0. tok \in [Tokens -> TokenStatus \union {"none", "deleted"}]
  BY DEF FleetTypeOK, TokensTypeOK
<1>1. ASSUME NEW h \in Handlers, Read(h) \/ RequestFails(h) \/ RowCommit(h)
      PROVE  tok' = tok
  BY <1>1 DEF Read, RowRead, TokenRead, heartbeat, approve_machine, reject_machine,
              update_lifecycle, enroll, deny, revoke_token, import_offline, overview,
              RowRequest, Begin, RequestFails, RowCommit, Rollback, tokenVars
<1>2. ASSUME NEW h \in Handlers,
             EnrollCommit(h) \/ DenyCommit(h) \/ RevokeCommit(h) \/ OverviewCommit(h)
      PROVE  tok[t] \in {"none", "pending"}
  BY <1>0, <1>2 DEF EnrollCommit, DenyCommit, RevokeCommit, OverviewCommit, SetTokens,
                    Rollback, tokenVars
<1>3. CASE TokenStep
  BY <1>0, <1>3 DEF TokenStep, create_token, delete_token, SetTokens, TokenExpires,
                    reissue_token, AttemptCloses, approve_attempt, cleanup_tokens
<1>4. CASE MachineStep \/ ServerRestart \/ UNCHANGED vars
  BY <1>4 DEF MachineStep, ServerRestart, vars, tokenVars
<1> QED BY <1>1, <1>2, <1>3, <1>4 DEF Next, Commit

\* Only the commit of an enrolment counts one.
LEMMA OnlyEnrolmentsCount ==
    ASSUME FleetTypeOK, [Next]_vars, ~ \E h \in Handlers : EnrollCommit(h)
    PROVE  uses' = uses
<1>1. ASSUME NEW h \in Handlers, Read(h) \/ RequestFails(h)
      PROVE  uses' = uses
  BY <1>1 DEF Read, RowRead, TokenRead, heartbeat, approve_machine, reject_machine,
              update_lifecycle, enroll, deny, revoke_token, import_offline, overview,
              RowRequest, Begin, RequestFails, Rollback, tokenVars
<1>2. ASSUME NEW h \in Handlers,
             RowCommit(h) \/ DenyCommit(h) \/ RevokeCommit(h) \/ OverviewCommit(h)
      PROVE  uses' = uses
  BY <1>2 DEF RowCommit, DenyCommit, RevokeCommit, OverviewCommit, SetTokens, Rollback, tokenVars
<1>3. CASE MachineStep \/ TokenStep \/ ServerRestart \/ UNCHANGED vars
  BY <1>3 DEF MachineStep, TokenStep, ServerRestart, vars, tokenVars, create_token,
              delete_token, SetTokens, TokenExpires, reissue_token, AttemptCloses,
              approve_attempt, cleanup_tokens
<1> QED BY <1>1, <1>2, <1>3 DEF Next, Commit

\* An open token has enrolled nobody; what a token has enrolled and may still
\* enrol fits into the requests that can be under way at once.
UseInv ==
    \A t \in Tokens :
       /\ tok[t] \in {"none", "pending"} => uses[t] = 0
       /\ uses[t] + Cardinality(InFlight(t)) <= Cardinality(Handlers)

\* A token enrols at most as many machines as there are requests at once
\* (enroll.py:139-149, 290-294).
THEOREM UsesBounded ==
    ASSUME IsFiniteSet(Handlers)
    PROVE  Spec => []UseInv
<1>1. FleetInit => UseInv
  <2> SUFFICES ASSUME FleetInit, NEW t \in Tokens
               PROVE  uses[t] = 0 /\ uses[t] + Cardinality(InFlight(t)) <= Cardinality(Handlers)
    BY DEF UseInv
  <2>1. uses[t] = 0 /\ InFlight(t) = {}
    BY DEF FleetInit, TokensInit, InFlight, Idle
  <2>2. Cardinality({}) = 0 /\ Cardinality(Handlers) \in Nat
    BY FS_EmptySet, FS_CardinalityType
  <2> QED BY <2>1, <2>2
<1>2. FleetTypeOK /\ FleetTypeOK' /\ LateInv /\ UseInv /\ [Next]_vars => UseInv'
  <2> SUFFICES ASSUME FleetTypeOK, FleetTypeOK', LateInv, UseInv, [Next]_vars, NEW t \in Tokens
               PROVE  /\ tok'[t] \in {"none", "pending"} => uses'[t] = 0
                      /\ uses'[t] + Cardinality(InFlight(t)') <= Cardinality(Handlers)
    BY DEF UseInv
  <2>1. /\ InFlight(t) \in SUBSET Handlers /\ InFlight(t)' \in SUBSET Handlers
        /\ Cardinality(InFlight(t)) \in Nat /\ Cardinality(InFlight(t)') \in Nat
        /\ Cardinality(InFlight(t)') <= Cardinality(Handlers)
        /\ Cardinality(Handlers) \in Nat
    BY FS_Subset, FS_CardinalityType DEF InFlight
  <2>2. uses[t] \in Nat /\ uses'[t] \in Nat
    BY TokensAssumption DEF FleetTypeOK, TokensTypeOK
  <2>3. ASSUME uses'[t] + Cardinality(InFlight(t)') <= uses[t] + Cardinality(InFlight(t))
        PROVE  uses'[t] + Cardinality(InFlight(t)') <= Cardinality(Handlers)
    BY <2>1, <2>2, <2>3 DEF UseInv
  <2>4. CASE \E h \in Handlers : EnrollCommit(h)
    <3>1. PICK h \in Handlers : EnrollCommit(h)
      BY <2>4
    <3>2. uses'[t] # uses[t] => tok'[t] = "used"
      BY <3>1 DEF EnrollCommit, Rollback, tokenVars, FleetTypeOK, TokensTypeOK
    <3>3. tok'[t] \in {"none", "pending"} => uses'[t] = 0
      BY <3>2, StaysClosed DEF UseInv
    <3>4. uses'[t] + Cardinality(InFlight(t)') <= uses[t] + Cardinality(InFlight(t))
      <4>1. CASE uses'[t] = uses[t] /\ InFlight(t)' \subseteq InFlight(t)
        <5>1. Cardinality(InFlight(t)') <= Cardinality(InFlight(t))
          BY <2>1, <4>1, FS_Subset
        <5> QED BY <2>1, <2>2, <4>1, <5>1
      <4>2. CASE /\ uses'[t] \in {uses[t], uses[t] + 1}
                 /\ h \in InFlight(t)
                 /\ InFlight(t)' = InFlight(t) \ {h}
        <5>1. Cardinality(InFlight(t)') = Cardinality(InFlight(t)) - 1
          BY <2>1, <4>2, FS_Subset, FS_RemoveElement
        <5> QED BY <2>1, <2>2, <4>2, <5>1
      <4> QED BY <3>1, <4>1, <4>2, EnrolmentCounts
    <3> QED BY <2>3, <3>3, <3>4
  <2>5. CASE ~ \E h \in Handlers : EnrollCommit(h)
    <3>1. uses' = uses
      BY <2>5, OnlyEnrolmentsCount
    <3>2. tok'[t] \in {"none", "pending"} => uses'[t] = 0
      BY <3>1, StaysClosed DEF UseInv
    <3>3. CASE tok[t] \in {"none", "pending"}
      BY <2>1, <3>1, <3>2, <3>3 DEF UseInv
    <3>4. CASE tok[t] \notin {"none", "pending"}
      BY <2>3, <3>2, <3>4, DrainsStep
    <3> QED BY <3>3, <3>4
  <2> QED BY <2>4, <2>5
<1> QED BY <1>1, <1>2, FleetTypes, LateAlways, PTL DEF Spec

\* A token enrols once, if requests do not overlap (enroll.py:139-149, 290-294).
THEOREM SerialUse ==
    ASSUME SingleHandler
    PROVE  Spec => []SingleUse
<1>1. PICK h : Handlers = {h}
  BY DEF SingleHandler
<1>2. IsFiniteSet(Handlers) /\ Cardinality(Handlers) = 1
  BY <1>1, FS_Singleton
<1>3. FleetTypeOK /\ UseInv => SingleUse
  <2> SUFFICES ASSUME FleetTypeOK, UseInv, NEW t \in Tokens PROVE uses[t] <= 1
    BY DEF SingleUse
  <2>1. uses[t] \in Nat /\ InFlight(t) \in SUBSET Handlers
    BY TokensAssumption DEF FleetTypeOK, TokensTypeOK, InFlight
  <2>2. Cardinality(InFlight(t)) \in Nat
    BY <1>2, <2>1, FS_Subset, FS_CardinalityType
  <2> QED BY <1>2, <2>1, <2>2 DEF UseInv
<1> QED BY <1>2, <1>3, FleetTypes, UsesBounded, PTL

-----------------------------------------------------------------------------
(* Rows of one machine.                                                      *)

\* The requests that take hardware w for a new machine.
Inserting(w) ==
    {h \in Handlers :
        /\ req[h].op \in RowOps \union {"enroll"}
        /\ req[h].change.was = "none"
        /\ req[h].change.row[1] = w}

\* The rows of a machine, and the ones under way, are as many as requests fit.
RowsInv ==
    \A w \in Hardware :
       /\ IsFiniteSet(RowsOf(w))
       /\ Cardinality(RowsOf(w)) + Cardinality(Inserting(w)) <= Cardinality(Handlers)

\* A request takes a machine for a new one only if it has no row.
LEMMA ReadInserts ==
    ASSUME FleetTypeOK, NEW h \in Handlers, Read(h), NEW w \in Hardware
    PROVE  /\ RowsOf(w)' = RowsOf(w)
           /\ Inserting(w)' \subseteq Inserting(w) \/ RowsOf(w) = {}
<1> DEFINE Good ==
       RowsOf(w)' = RowsOf(w) /\ (Inserting(w)' \subseteq Inserting(w) \/ RowsOf(w) = {})
<1>1. ASSUME NEW q, Begin(h, q),
             \/ q.op \notin RowOps \union {"enroll"}
             \/ q.change.was # "none"
             \/ q.change.row[1] = w => RowsOf(w) = {}
      PROVE  Good
  BY <1>1 DEF Begin, machineVars, RowsOf, Exists, Inserting, FleetTypeOK
<1>2. ASSUME NEW r \in Rows, RowRead(h, r)
      PROVE  Good
  <2>1. status[r] # "none"
    BY <1>2 DEF RowRead, heartbeat, approve_machine, reject_machine, update_lifecycle,
                Exists, MachineStatus
  <2>2. ASSUME NEW op, NEW to, NEW has, NEW age, RowRequest(h, op, Change(r, to, has, age))
        PROVE  Good
    BY <1>1, <2>1, <2>2 DEF RowRequest, Change
  <2> QED BY <1>2, <2>2 DEF RowRead, heartbeat, approve_machine, reject_machine, update_lifecycle
<1>3. ASSUME NEW v \in Hardware, NEW r \in Rows, Takes(v, r)
      PROVE  status[r] # "none" \/ (r[1] = w => RowsOf(w) = {})
  BY <1>3 DEF Takes, RowsOf, FreshRows, Exists, MachineStatus
<1>4. ASSUME NEW t \in Tokens, TokenRead(h, t)
      PROVE  Good
  <2>1. ASSUME NEW v \in Hardware, NEW r \in Rows, enroll(h, t, v, r)
        PROVE  Good
    BY <1>1, <1>3, <2>1 DEF enroll, Change
  <2>2. ASSUME NEW v \in Hardware, deny(h, t, v)
        PROVE  Good
    BY <1>1, <2>2 DEF deny, RowOps
  <2>3. CASE revoke_token(h, t)
    BY <1>1, <2>3 DEF revoke_token, RowOps
  <2> QED BY <1>4, <2>1, <2>2, <2>3 DEF TokenRead
<1>5. ASSUME NEW v \in Hardware, NEW r \in Rows, NEW age \in 0..MaxAge,
             import_offline(h, v, r, age)
      PROVE  Good
  BY <1>1, <1>3, <1>5 DEF import_offline, RowRequest, Change
<1>6. CASE overview(h)
  BY <1>1, <1>6 DEF overview, RowOps
<1> QED BY <1>2, <1>4, <1>5, <1>6 DEF Read

\* The commit of a change adds a row only for a machine it took for new.
LEMMA CommitInserts ==
    ASSUME FleetTypeOK, NEW h \in Handlers, RowCommit(h) \/ EnrollCommit(h), NEW w \in Hardware
    PROVE  /\ Inserting(w)' = Inserting(w) \ {h}
           /\ \/ RowsOf(w)' \subseteq RowsOf(w)
              \/ /\ h \in Inserting(w)
                 /\ RowsOf(w)' \subseteq RowsOf(w) \union {req[h].change.row}
<1>1. Inserting(w)' = Inserting(w) \ {h}
  BY DEF RowCommit, EnrollCommit, Finish, FleetTypeOK, Inserting, Idle, RowOps
<1>2. CASE UNCHANGED status
  BY <1>1, <1>2 DEF RowsOf, Exists
<1>3. CASE WriteRow(req[h].change) /\ RowLives(req[h].change)
  <2> DEFINE c == req[h].change
  <2>1. c.row \in Rows /\ status \in [Rows -> MachineStatus \union {"none", "deleted"}]
    BY RequestFields DEF FleetTypeOK, MachinesTypeOK, RowChanges, RowCommit, EnrollCommit
  <2>2. \A r \in Rows : r # c.row => status'[r] = status[r]
    BY <1>3, <2>1 DEF WriteRow, Flush
  <2>3. RowsOf(w)' \subseteq RowsOf(w) \union {c.row}
    BY <2>2 DEF RowsOf, Exists
  <2>4. CASE Exists(c.row) \/ c.row[1] # w
    BY <1>1, <2>2, <2>4 DEF RowsOf, Exists
  <2>5. CASE ~Exists(c.row) /\ c.row[1] = w
    BY <1>1, <1>3, <2>3, <2>5 DEF RowLives, Inserting, RowCommit, EnrollCommit
  <2> QED BY <2>4, <2>5
<1> QED BY <1>2, <1>3 DEF RowCommit, EnrollCommit, Rollback, machineVars

\* Nothing else adds a row or takes a machine for a new one.
LEMMA OthersInsertNothing ==
    ASSUME FleetTypeOK, NEW w \in Hardware,
           \/ \E h \in Handlers :
                 DenyCommit(h) \/ RevokeCommit(h) \/ OverviewCommit(h) \/ RequestFails(h)
           \/ MachineStep \/ TokenStep \/ ServerRestart \/ UNCHANGED vars
    PROVE  RowsOf(w)' \subseteq RowsOf(w) /\ Inserting(w)' \subseteq Inserting(w)
<1>1. ASSUME NEW h \in Handlers,
             DenyCommit(h) \/ RevokeCommit(h) \/ OverviewCommit(h) \/ RequestFails(h)
      PROVE  RowsOf(w)' \subseteq RowsOf(w) /\ Inserting(w)' \subseteq Inserting(w)
  <2>1. Finish(h) /\ status' = status
    BY <1>1 DEF DenyCommit, RevokeCommit, OverviewCommit, RequestFails, Rollback, machineVars
  <2> QED BY <2>1 DEF Finish, FleetTypeOK, Inserting, RowsOf, Exists, Idle, RowOps
<1>2. CASE MachineStep
  <2>1. req' = req
    BY <1>2 DEF MachineStep
  <2>2. \A r \in Rows : Exists(r)' => Exists(r)
    <3>1. CASE SweepWrite
      BY <3>1 DEF SweepWrite, Exists
    <3>2. ASSUME NEW s \in Rows, DeleteMachine(s)
          PROVE  \A r \in Rows : Exists(r)' => Exists(r)
      BY <3>2 DEF DeleteMachine, delete_machine, Exists, FleetTypeOK, MachinesTypeOK
    <3>3. CASE UNCHANGED status
      BY <3>3 DEF Exists
    <3> QED BY <1>2, <3>1, <3>2, <3>3
            DEF MachineStep, Monitor, SweepOfflineRead, SweepLostRead, Sweep, SweepGone, Silence
  <2> QED BY <2>1, <2>2 DEF RowsOf, Inserting
<1>3. CASE ServerRestart
  BY <1>3 DEF ServerRestart, Inserting, RowsOf, Exists, Idle, RowOps
<1>4. CASE TokenStep \/ UNCHANGED vars
  BY <1>4 DEF TokenStep, vars, machineVars, Inserting, RowsOf, Exists
<1> QED BY <1>1, <1>2, <1>3, <1>4

\* However requests overlap, a machine never gets more rows than there are
\* requests at once (enroll.py:169-212).
THEOREM RowsBounded ==
    ASSUME IsFiniteSet(Handlers)
    PROVE  Spec => []RowsInv
<1>1. FleetInit => RowsInv
  <2> SUFFICES ASSUME FleetInit, NEW w \in Hardware
               PROVE  /\ IsFiniteSet(RowsOf(w))
                      /\ Cardinality(RowsOf(w)) + Cardinality(Inserting(w)) <= Cardinality(Handlers)
    BY DEF RowsInv
  <2>1. RowsOf(w) = {} /\ Inserting(w) = {}
    BY DEF FleetInit, MachinesInit, RowsOf, Exists, MachineStatus, Inserting, Idle, RowOps
  <2>2. Cardinality({}) = 0 /\ IsFiniteSet({}) /\ Cardinality(Handlers) \in Nat
    BY FS_EmptySet, FS_CardinalityType
  <2> QED BY <2>1, <2>2
<1>2. FleetTypeOK /\ RowsInv /\ [Next]_vars => RowsInv'
  <2> SUFFICES ASSUME FleetTypeOK, RowsInv, [Next]_vars, NEW w \in Hardware
               PROVE  /\ IsFiniteSet(RowsOf(w)')
                      /\ Cardinality(RowsOf(w)') + Cardinality(Inserting(w)') <= Cardinality(Handlers)
    BY DEF RowsInv
  <2> DEFINE R == RowsOf(w)
             I == Inserting(w)
             R1 == RowsOf(w)'
             I1 == Inserting(w)'
  <2>1. /\ IsFiniteSet(R) /\ IsFiniteSet(I) /\ IsFiniteSet(I1)
        /\ Cardinality(R) + Cardinality(I) <= Cardinality(Handlers)
        /\ Cardinality(R) \in Nat /\ Cardinality(I) \in Nat /\ Cardinality(I1) \in Nat
        /\ Cardinality(I1) <= Cardinality(Handlers) /\ Cardinality(Handlers) \in Nat
    <3>1. I \in SUBSET Handlers /\ I1 \in SUBSET Handlers
      BY DEF Inserting
    <3> QED BY <3>1, FS_Subset, FS_CardinalityType DEF RowsInv
  <2> DEFINE Good == IsFiniteSet(R1) /\ Cardinality(R1) + Cardinality(I1) <= Cardinality(Handlers)
  <2>2. ASSUME R1 \subseteq R, I1 \subseteq I
        PROVE  Good
    <3> HIDE DEF R, I, R1, I1
    <3>1. /\ Cardinality(R1) + Cardinality(I1) <= Cardinality(R) + Cardinality(I)
          /\ IsFiniteSet(R1)
      BY <2>1, <2>2, SumShrinks
    <3>2. Cardinality(R1) \in Nat
      BY <3>1, FS_CardinalityType
    <3> QED BY <2>1, <3>1, <3>2
  <2>3. ASSUME NEW h \in Handlers, Read(h)
        PROVE  Good
    <3>1. CASE R = {}
      <4>1. R1 = {}
        BY <2>3, <3>1, ReadInserts
      <4>2. Cardinality({}) = 0 /\ IsFiniteSet({})
        BY FS_EmptySet
      <4> HIDE DEF R, I, R1, I1
      <4> QED BY <2>1, <4>1, <4>2
    <3>2. CASE R # {}
      BY <2>2, <2>3, <3>2, ReadInserts
    <3> QED BY <3>1, <3>2
  <2>4. ASSUME NEW h \in Handlers, RowCommit(h) \/ EnrollCommit(h)
        PROVE  Good
    <3>1. CASE R1 \subseteq R
      BY <2>2, <2>4, <3>1, CommitInserts
    <3>2. CASE h \in I /\ R1 \subseteq R \union {req[h].change.row}
      <4> DEFINE row == req[h].change.row
      <4>1. I1 = I \ {h}
        BY <2>4, CommitInserts
      <4> HIDE DEF R, I, R1, I1, row
      <4>2. Cardinality(I1) = Cardinality(I) - 1
        BY <2>1, <3>2, <4>1, FS_RemoveElement
      <4>3. IsFiniteSet(R \union {row}) /\ Cardinality(R \union {row}) <= Cardinality(R) + 1
        <5>1. /\ IsFiniteSet(R \union {row})
              /\ Cardinality(R \union {row}) \in {Cardinality(R), Cardinality(R) + 1}
          BY <2>1, FS_AddElement
        <5> QED BY <2>1, <5>1
      <4>4. Cardinality(R \union {row}) \in Nat
        BY <4>3, FS_CardinalityType
      <4>5. IsFiniteSet(R1) /\ Cardinality(R1) <= Cardinality(R \union {row}) /\ Cardinality(R1) \in Nat
        BY <3>2, <4>3, FS_Subset, FS_CardinalityType DEF row
      <4> QED BY <2>1, <4>2, <4>3, <4>4, <4>5
    <3> QED BY <2>4, <3>1, <3>2, CommitInserts
  <2>5. CASE \/ \E h \in Handlers :
                   DenyCommit(h) \/ RevokeCommit(h) \/ OverviewCommit(h) \/ RequestFails(h)
             \/ MachineStep \/ TokenStep \/ ServerRestart \/ UNCHANGED vars
    BY <2>2, <2>5, OthersInsertNothing
  <2> QED BY <2>3, <2>4, <2>5 DEF Next, Commit
<1> QED BY <1>1, <1>2, FleetTypes, PTL DEF Spec

\* A machine that enrols again keeps its row, if requests do not overlap
\* (enroll.py:169-212).
THEOREM SerialRows ==
    ASSUME SingleHandler
    PROVE  Spec => []OneRowPerMachine
<1>1. PICK h : Handlers = {h}
  BY DEF SingleHandler
<1>2. IsFiniteSet(Handlers) /\ Cardinality(Handlers) = 1
  BY <1>1, FS_Singleton
<1>3. RowsInv => OneRowPerMachine
  <2> SUFFICES ASSUME RowsInv, NEW w \in Hardware PROVE Cardinality(RowsOf(w)) <= 1
    BY DEF OneRowPerMachine
  <2>1. Cardinality(Inserting(w)) \in Nat
    <3>1. Inserting(w) \in SUBSET Handlers
      BY DEF Inserting
    <3> QED BY <1>2, <3>1, FS_Subset, FS_CardinalityType
  <2>2. Cardinality(RowsOf(w)) \in Nat
    BY FS_CardinalityType DEF RowsInv
  <2> QED BY <1>2, <2>1, <2>2 DEF RowsInv
<1> QED BY <1>2, <1>3, RowsBounded, PTL

-----------------------------------------------------------------------------
(* Refused enrolments.                                                       *)

\* The refusals that found no recent attempt and will file one.
Refusing(w, why) ==
    {h \in Handlers :
        req[h].op = "deny" /\ req[h].new /\ req[h].hw = w /\ req[h].why = why}

\* The pending attempts, and the ones under way, are as many as requests fit.
AttemptsInv ==
    \A w \in Hardware : \A why \in Refusal :
       attempts[<<w, why>>] + Cardinality(Refusing(w, why)) <= Cardinality(Handlers)

\* A refusal files an attempt only if it has found none.
LEMMA ReadRefuses ==
    ASSUME FleetTypeOK, NEW h \in Handlers, Read(h), NEW w \in Hardware, NEW why \in Refusal
    PROVE  /\ attempts' = attempts
           /\ Refusing(w, why)' \subseteq Refusing(w, why) \/ attempts[<<w, why>>] = 0
<1> DEFINE Good ==
       /\ attempts' = attempts
       /\ Refusing(w, why)' \subseteq Refusing(w, why) \/ attempts[<<w, why>>] = 0
<1>1. ASSUME NEW q, Begin(h, q),
             q.op = "deny" /\ q.new /\ q.hw = w /\ q.why = why => attempts[<<w, why>>] = 0
      PROVE  Good
  BY <1>1 DEF Begin, tokenVars, Refusing, FleetTypeOK
<1>2. ASSUME NEW r \in Rows, RowRead(h, r)
      PROVE  Good
  BY <1>1, <1>2 DEF RowRead, heartbeat, approve_machine, reject_machine, update_lifecycle,
                    RowRequest
<1>3. ASSUME NEW t \in Tokens, TokenRead(h, t)
      PROVE  Good
  <2>1. ASSUME NEW v \in Hardware, NEW r \in Rows, enroll(h, t, v, r)
        PROVE  Good
    BY <1>1, <2>1 DEF enroll
  <2>2. ASSUME NEW v \in Hardware, deny(h, t, v)
        PROVE  Good
    BY <1>1, <2>2 DEF deny, IsNewAttempt
  <2>3. CASE revoke_token(h, t)
    BY <1>1, <2>3 DEF revoke_token
  <2> QED BY <1>3, <2>1, <2>2, <2>3 DEF TokenRead
<1>4. ASSUME NEW v \in Hardware, NEW r \in Rows, NEW age \in 0..MaxAge,
             import_offline(h, v, r, age)
      PROVE  Good
  BY <1>1, <1>4 DEF import_offline, RowRequest, RowOps
<1>5. CASE overview(h)
  BY <1>1, <1>5 DEF overview
<1> QED BY <1>2, <1>3, <1>4, <1>5 DEF Read

\* Whoever files an attempt is then no longer about to.
LEMMA RefusalCounts ==
    ASSUME FleetTypeOK, NEW h \in Handlers, DenyCommit(h), NEW w \in Hardware, NEW why \in Refusal
    PROVE  \/ /\ attempts'[<<w, why>>] = attempts[<<w, why>>]
              /\ Refusing(w, why)' \subseteq Refusing(w, why)
           \/ /\ attempts'[<<w, why>>] \in {attempts[<<w, why>>], attempts[<<w, why>>] + 1}
              /\ h \in Refusing(w, why)
              /\ Refusing(w, why)' = Refusing(w, why) \ {h}
<1>1. Refusing(w, why)' = Refusing(w, why) \ {h}
  BY DEF DenyCommit, Finish, FleetTypeOK, Refusing, Idle
<1>2. /\ attempts \in [Hardware \X Refusal -> 0..MaxAttempts]
      /\ req[h].hw \in Hardware /\ req[h].why \in Refusal
  BY RequestFields DEF DenyCommit, FleetTypeOK, TokensTypeOK
<1>3. CASE h \in Refusing(w, why)
  <2>1. attempts'[<<w, why>>] \in {attempts[<<w, why>>], Capped(attempts[<<w, why>>], MaxAttempts)}
    BY <1>2, <1>3 DEF DenyCommit, Rollback, tokenVars, Refusing
  <2> QED BY <1>1, <1>3, <2>1 DEF Capped
<1>4. CASE h \notin Refusing(w, why)
  <2>1. attempts' = attempts \/ (req[h].new /\ <<req[h].hw, req[h].why>> # <<w, why>>)
    BY <1>4 DEF DenyCommit, Rollback, tokenVars, Refusing
  <2>2. attempts'[<<w, why>>] = attempts[<<w, why>>]
    BY <1>2, <2>1 DEF DenyCommit, Rollback, tokenVars
  <2> QED BY <1>1, <2>2
<1> QED BY <1>3, <1>4

\* Everything else leaves the attempts alone, or closes one.
LEMMA OthersRefuseNothing ==
    ASSUME FleetTypeOK, NEW w \in Hardware, NEW why \in Refusal,
           \/ \E h \in Handlers :
                 RowCommit(h) \/ EnrollCommit(h) \/ RevokeCommit(h) \/ OverviewCommit(h) \/ RequestFails(h)
           \/ MachineStep \/ TokenStep \/ ServerRestart \/ UNCHANGED vars
    PROVE  /\ attempts'[<<w, why>>] <= attempts[<<w, why>>]
           /\ Refusing(w, why)' \subseteq Refusing(w, why)
<1>0. attempts \in [Hardware \X Refusal -> 0..MaxAttempts] /\ attempts[<<w, why>>] \in Nat
  BY TokensAssumption DEF FleetTypeOK, TokensTypeOK
<1>1. ASSUME NEW h \in Handlers,
             RowCommit(h) \/ EnrollCommit(h) \/ RevokeCommit(h) \/ OverviewCommit(h) \/ RequestFails(h)
      PROVE  attempts' = attempts /\ Refusing(w, why)' \subseteq Refusing(w, why)
  <2>1. Finish(h) /\ attempts' = attempts
    BY <1>1 DEF RowCommit, EnrollCommit, RevokeCommit, OverviewCommit, RequestFails, SetTokens,
                Rollback, tokenVars
  <2> QED BY <2>1 DEF Finish, FleetTypeOK, Refusing, Idle
<1>2. CASE TokenStep
  <2>1. Refusing(w, why)' = Refusing(w, why)
    BY <1>2 DEF TokenStep, Refusing
  <2>2. ASSUME NEW v \in Hardware, NEW z \in Refusal,
               \/ AttemptCloses(v, z)
               \/ \E t \in Tokens : approve_attempt(v, z, t)
        PROVE  attempts'[<<w, why>>] <= attempts[<<w, why>>]
    <3>1. attempts' = [attempts EXCEPT ![<<v, z>>] = @ - 1]
      BY <2>2 DEF AttemptCloses, approve_attempt
    <3>2. attempts'[<<w, why>>] \in {attempts[<<w, why>>], attempts[<<w, why>>] - 1}
      BY <1>0, <3>1
    <3> QED BY <1>0, <3>2
  <2>3. CASE attempts' = attempts
    BY <1>0, <2>1, <2>3
  <2> QED BY <1>2, <2>1, <2>2, <2>3
          DEF TokenStep, create_token, delete_token, SetTokens, TokenExpires, reissue_token,
              cleanup_tokens
<1>3. CASE MachineStep \/ ServerRestart \/ UNCHANGED vars
  <2>1. attempts' = attempts
    BY <1>3 DEF MachineStep, ServerRestart, vars, tokenVars
  <2>2. Refusing(w, why)' \subseteq Refusing(w, why)
    BY <1>3 DEF MachineStep, ServerRestart, vars, Refusing, Idle
  <2> QED BY <1>0, <2>1, <2>2
<1> QED BY <1>0, <1>1, <1>2, <1>3

\* However requests overlap, a refused machine never has more pending attempts
\* of one kind than there are requests at once (enroll.py:60-75).
THEOREM AttemptsBounded ==
    ASSUME IsFiniteSet(Handlers)
    PROVE  Spec => []AttemptsInv
<1>1. FleetInit => AttemptsInv
  <2> SUFFICES ASSUME FleetInit, NEW w \in Hardware, NEW why \in Refusal
               PROVE  attempts[<<w, why>>] + Cardinality(Refusing(w, why)) <= Cardinality(Handlers)
    BY DEF AttemptsInv
  <2>1. attempts[<<w, why>>] = 0 /\ Refusing(w, why) = {}
    BY DEF FleetInit, TokensInit, Refusing, Idle
  <2>2. Cardinality({}) = 0 /\ Cardinality(Handlers) \in Nat
    BY FS_EmptySet, FS_CardinalityType
  <2> QED BY <2>1, <2>2
<1>2. FleetTypeOK /\ FleetTypeOK' /\ AttemptsInv /\ [Next]_vars => AttemptsInv'
  <2> SUFFICES ASSUME FleetTypeOK, FleetTypeOK', AttemptsInv, [Next]_vars,
                      NEW w \in Hardware, NEW why \in Refusal
               PROVE  attempts'[<<w, why>>] + Cardinality(Refusing(w, why)') <= Cardinality(Handlers)
    BY DEF AttemptsInv
  <2> DEFINE n == attempts[<<w, why>>]
             n1 == attempts'[<<w, why>>]
             D == Refusing(w, why)
             D1 == Refusing(w, why)'
  <2>1. /\ IsFiniteSet(D) /\ IsFiniteSet(D1)
        /\ n + Cardinality(D) <= Cardinality(Handlers)
        /\ Cardinality(D) \in Nat /\ Cardinality(D1) \in Nat
        /\ Cardinality(D1) <= Cardinality(Handlers) /\ Cardinality(Handlers) \in Nat
    <3>1. D \in SUBSET Handlers /\ D1 \in SUBSET Handlers
      BY DEF Refusing
    <3> QED BY <3>1, FS_Subset, FS_CardinalityType DEF AttemptsInv
  <2>2. n \in Nat /\ n1 \in Nat
    BY TokensAssumption DEF FleetTypeOK, TokensTypeOK
  <2>3. ASSUME n1 <= n, D1 \subseteq D
        PROVE  n1 + Cardinality(D1) <= Cardinality(Handlers)
    <3> HIDE DEF n, n1, D, D1
    <3>1. Cardinality(D1) <= Cardinality(D)
      BY <2>1, <2>3, FS_Subset
    <3> QED BY <2>1, <2>2, <2>3, <3>1
  <2>4. ASSUME NEW h \in Handlers, Read(h)
        PROVE  n1 + Cardinality(D1) <= Cardinality(Handlers)
    <3>1. n1 = n /\ (D1 \subseteq D \/ n = 0)
      BY <2>4, ReadRefuses
    <3> HIDE DEF n, n1, D, D1
    <3>2. CASE n = 0
      BY <2>1, <3>1, <3>2
    <3>3. CASE D1 \subseteq D
      BY <2>2, <2>3, <3>1, <3>3
    <3> QED BY <3>1, <3>2, <3>3
  <2>5. ASSUME NEW h \in Handlers, DenyCommit(h)
        PROVE  n1 + Cardinality(D1) <= Cardinality(Handlers)
    <3>1. \/ n1 = n /\ D1 \subseteq D
          \/ n1 \in {n, n + 1} /\ h \in D /\ D1 = D \ {h}
      BY <2>5, RefusalCounts
    <3> HIDE DEF n, n1, D, D1
    <3>2. CASE n1 = n /\ D1 \subseteq D
      BY <2>2, <2>3, <3>2
    <3>3. CASE n1 \in {n, n + 1} /\ h \in D /\ D1 = D \ {h}
      <4>1. Cardinality(D1) = Cardinality(D) - 1
        BY <2>1, <3>3, FS_RemoveElement
      <4> QED BY <2>1, <2>2, <3>3, <4>1
    <3> QED BY <3>1, <3>2, <3>3
  <2>6. CASE \/ \E h \in Handlers :
                   RowCommit(h) \/ EnrollCommit(h) \/ RevokeCommit(h) \/ OverviewCommit(h) \/ RequestFails(h)
             \/ MachineStep \/ TokenStep \/ ServerRestart \/ UNCHANGED vars
    BY <2>3, <2>6, OthersRefuseNothing
  <2> QED BY <2>4, <2>5, <2>6 DEF Next, Commit
<1> QED BY <1>1, <1>2, FleetTypes, PTL DEF Spec

\* The retries of one machine refresh its pending attempt, if requests do not
\* overlap (enroll.py:60-75).
THEOREM SerialAttempts ==
    ASSUME SingleHandler
    PROVE  Spec => []AttemptOnce
<1>1. PICK h : Handlers = {h}
  BY DEF SingleHandler
<1>2. IsFiniteSet(Handlers) /\ Cardinality(Handlers) = 1
  BY <1>1, FS_Singleton
<1>3. FleetTypeOK /\ AttemptsInv => AttemptOnce
  <2> SUFFICES ASSUME FleetTypeOK, AttemptsInv, NEW k \in Hardware \X Refusal
               PROVE  attempts[k] <= 1
    BY DEF AttemptOnce, FleetTypeOK, TokensTypeOK
  <2>1. PICK w \in Hardware, why \in Refusal : k = <<w, why>>
    OBVIOUS
  <2>2. attempts[k] \in Nat /\ Refusing(w, why) \in SUBSET Handlers
    BY TokensAssumption DEF FleetTypeOK, TokensTypeOK, Refusing
  <2>3. Cardinality(Refusing(w, why)) \in Nat
    BY <1>2, <2>2, FS_Subset, FS_CardinalityType
  <2> QED BY <1>2, <2>1, <2>2, <2>3 DEF AttemptsInv
<1> QED BY <1>2, <1>3, FleetTypes, AttemptsBounded, PTL
=============================================================================
