---------------------------- MODULE MachineProofs ----------------------------
(***************************************************************************)
(* Theorems about what the server keeps for one machine: the agent's       *)
(* certificate and wishes for a scan (AgentCare), fingerprint drifts and   *)
(* tags (MachineDesk), for every number of overlapping requests.           *)
(***************************************************************************)
EXTENDS AgentCare, MachineDesk, FiniteSetTheorems, TLAPS

-----------------------------------------------------------------------------
(* Renewal of the certificate.                                               *)

\* The certificate that a renewal carries is new: it is neither revoked nor
\* the one in use.
RenewalSound ==
    /\ signed \in Nat \ {0}
    /\ revoked \subseteq 1..signed
    /\ certificate \in 1..signed
    /\ renewal.phase \in {"signed", "answered"} =>
          /\ renewal.new \in 1..signed
          /\ renewal.new # certificate
          /\ renewal.new \notin revoked

\* A renewal is a record, so that EXCEPT changes its phase.
RenewalTyped == renewal \in [phase : {"idle", "asked", "signed", "answered"}, new : Nat]

\* Every step of a renewal keeps the three parts.
LEMMA RenewalKept ==
    ASSUME RenewalTyped, RenewalSound, KeepsACertificate, RenewalNext
    PROVE  RenewalTyped' /\ RenewalSound' /\ KeepsACertificate'
<1> USE DEF RenewalTyped, RenewalSound, KeepsACertificate, NoRenewal
<1>1. CASE renew_request
  BY <1>1 DEF renew_request
<1>2. CASE renew_cert
  <2>1. renewal.phase = "asked" /\ UNCHANGED <<revoked, certificate, answerLost>>
    BY <1>2 DEF renew_cert
  <2>2. CASE signed' = signed + 1 /\ renewal' = [phase |-> "signed", new |-> signed + 1]
    BY <2>1, <2>2
  <2>3. CASE signed' = signed /\ renewal' = NoRenewal
    BY <2>1, <2>3
  <2>4. QED
    BY <1>2, <2>2, <2>3 DEF renew_cert
<1>3. CASE revoke
  BY <1>3 DEF revoke
<1>4. CASE renewal_arrives
  BY <1>4 DEF renewal_arrives
<1>5. CASE renewal_lost
  BY <1>5 DEF renewal_lost
<1>6. QED
  BY <1>1, <1>2, <1>3, <1>4, <1>5 DEF RenewalNext

-----------------------------------------------------------------------------
(* The wish for a scan.                                                      *)

\* A wish that is still owed is in Redis or in a heartbeat that has deleted it:
\* one that has only found it does not count, since another may delete it.
WishHeld == wanted /\ ~wishExcused => flag \/ \E b \in Beats : beat[b] = "seen"

BeatsTyped == beat \in [Beats -> {"idle", "asked", "found", "seen", "unseen"}]

\* Every step about the wish keeps it held.
LEMMA WishKept ==
    ASSUME BeatsTyped, WishHeld, RescanNext
    PROVE  BeatsTyped' /\ WishHeld'
<1> USE DEF BeatsTyped, WishHeld
<1>1. CASE request_rescan
  BY <1>1 DEF request_rescan
<1>2. CASE rescan_expires
  BY <1>2 DEF rescan_expires
<1>3. ASSUME NEW b \in Beats, heartbeat(b) \/ heartbeat_get(b)
      PROVE  BeatsTyped' /\ WishHeld'
  BY <1>3 DEF heartbeat, heartbeat_get
<1>4. ASSUME NEW b \in Beats, heartbeat_delete(b) PROVE BeatsTyped' /\ WishHeld'
  BY <1>4 DEF heartbeat_delete
<1>5. ASSUME NEW b \in Beats, heartbeat_answer(b) PROVE BeatsTyped' /\ WishHeld'
  BY <1>5 DEF heartbeat_answer
<1>6. ASSUME NEW b \in Beats, heartbeat_lost(b) PROVE BeatsTyped' /\ WishHeld'
  BY <1>6 DEF heartbeat_lost
<1>7. QED
  BY <1>1, <1>2, <1>3, <1>4, <1>5, <1>6 DEF RescanNext

\* The renewal and the wish do not touch each other's variables.
LEMMA CareKept ==
    ASSUME RenewalTyped, RenewalSound, KeepsACertificate, BeatsTyped, WishHeld,
           [CareNext]_careVars
    PROVE  (RenewalTyped /\ RenewalSound /\ KeepsACertificate /\ BeatsTyped /\ WishHeld)'
<1>1. ASSUME UNCHANGED renewalVars PROVE (RenewalTyped /\ RenewalSound /\ KeepsACertificate)'
  BY <1>1 DEF renewalVars, RenewalTyped, RenewalSound, KeepsACertificate
<1>2. ASSUME UNCHANGED rescanVars PROVE (BeatsTyped /\ WishHeld)'
  BY <1>2 DEF rescanVars, BeatsTyped, WishHeld
<1>3. CASE RenewalNext
  <2>1. UNCHANGED rescanVars
    BY <1>3 DEF RenewalNext, renew_request, renew_cert, revoke, renewal_arrives, renewal_lost
  <2>2. QED
    BY <1>2, <1>3, <2>1, RenewalKept
<1>4. CASE RescanNext
  <2>1. UNCHANGED renewalVars
    BY <1>4 DEF RescanNext, request_rescan, rescan_expires, heartbeat, heartbeat_get,
       heartbeat_delete, heartbeat_answer, heartbeat_lost
  <2>2. QED
    BY <1>1, <1>4, <2>1, WishKept
<1>5. CASE UNCHANGED careVars
  BY <1>1, <1>2, <1>5 DEF careVars
<1>6. QED
  BY <1>3, <1>4, <1>5 DEF CareNext

\* At the start the agent has certificate 1 and nobody has asked for a scan.
LEMMA CareBegins ==
    CareInit => RenewalTyped /\ RenewalSound /\ KeepsACertificate /\ BeatsTyped /\ WishHeld
BY DEF CareInit, RenewalTyped, RenewalSound, KeepsACertificate, BeatsTyped, WishHeld, NoRenewal

\* renew signs before it revokes (routes/renew.py:61-75): an agent is without a
\* valid certificate only while the answer is under way or was lost.
THEOREM CertificateKept == CareSpec => []KeepsACertificate
<1>1. RenewalTyped /\ RenewalSound /\ KeepsACertificate /\ BeatsTyped /\ WishHeld
        /\ [CareNext]_careVars
        => (RenewalTyped /\ RenewalSound /\ KeepsACertificate /\ BeatsTyped /\ WishHeld)'
  BY CareKept
<1>2. QED
  BY <1>1, CareBegins, PTL DEF CareSpec

\* However many heartbeats read and delete the key in two calls each
\* (routes/heartbeat.py:73-75), none of them drops a wish for a scan.
THEOREM RescanKept == CareSpec => []RescanNotForgotten
<1>1. RenewalTyped /\ RenewalSound /\ KeepsACertificate /\ BeatsTyped /\ WishHeld
        /\ [CareNext]_careVars
        => (RenewalTyped /\ RenewalSound /\ KeepsACertificate /\ BeatsTyped /\ WishHeld)'
  BY CareKept
<1>2. WishHeld => RescanNotForgotten
  BY DEF WishHeld, RescanNotForgotten
<1>3. QED
  BY <1>1, <1>2, CareBegins, PTL DEF CareSpec

\* No step about the certificate or the wish leaves the types.
LEMMA CareTypesKept ==
    ASSUME CareTypeOK, RenewalSound, [CareNext]_careVars
    PROVE  CareTypeOK'
<1> USE AgentCareAssumption
<1>0. /\ signed \in 1..MaxCertificates /\ signed \in Nat
      /\ renewal.phase \in {"idle", "asked", "signed", "answered"} /\ renewal.new \in 0..signed
      /\ renewal = [phase |-> renewal.phase, new |-> renewal.new]
  BY DEF CareTypeOK
<1>1. ASSUME UNCHANGED rescanVars, signed' \in 1..MaxCertificates, signed <= signed',
             revoked' \subseteq revoked \union {certificate}, certificate' \in 1..signed',
             answerLost' \in BOOLEAN,
             renewal' \in [phase : {"idle", "asked", "signed", "answered"}, new : 0..signed']
      PROVE  CareTypeOK'
  BY <1>0, <1>1 DEF CareTypeOK, rescanVars
<1>2. NoRenewal \in [phase : {"idle", "asked", "signed", "answered"}, new : 0..signed]
  BY <1>0 DEF NoRenewal
<1>3. CASE renew_request
  BY <1>0, <1>1, <1>2, <1>3 DEF renew_request, CareTypeOK, NoRenewal
<1>4. CASE renew_cert
  <2>1. CASE signed < MaxCertificates /\ signed' = signed + 1
               /\ renewal' = [phase |-> "signed", new |-> signed + 1]
               /\ UNCHANGED <<revoked, certificate, answerLost, rescanVars>>
    <3>1. signed' \in 1..MaxCertificates /\ signed <= signed' /\ signed + 1 \in 0..signed'
      BY <1>0, <2>1
    <3>2. certificate' \in 1..signed' /\ answerLost' \in BOOLEAN
      BY <1>0, <2>1 DEF CareTypeOK
    <3> QED BY <1>1, <2>1, <3>1, <3>2
  <2>2. CASE renewal' = NoRenewal
               /\ UNCHANGED <<signed, revoked, certificate, answerLost, rescanVars>>
    BY <1>0, <1>1, <1>2, <2>2 DEF CareTypeOK
  <2> QED BY <1>4, <2>1, <2>2 DEF renew_cert
<1>5. CASE revoke
  <2>1. renewal' = [phase |-> "answered", new |-> renewal.new]
    BY <1>0, <1>5 DEF revoke
  <2> QED BY <1>0, <1>1, <1>5, <2>1 DEF revoke, CareTypeOK
<1>6. CASE renewal_arrives
  BY <1>0, <1>1, <1>2, <1>6 DEF renewal_arrives, CareTypeOK, RenewalSound
<1>7. CASE renewal_lost
  BY <1>0, <1>1, <1>2, <1>7 DEF renewal_lost, CareTypeOK
<1>8. ASSUME UNCHANGED renewalVars, wishes' \in 0..MaxWishes,
             beat' \in [Beats -> {"idle", "asked", "found", "seen", "unseen"}],
             {flag', wanted', wishExcused'} \subseteq BOOLEAN
      PROVE  CareTypeOK'
  BY <1>8 DEF CareTypeOK, renewalVars
<1>9. CASE request_rescan
  <2>1. wishes' \in 0..MaxWishes /\ UNCHANGED <<renewalVars, beat>>
    BY <1>9 DEF request_rescan, CareTypeOK
  <2>2. {flag', wanted', wishExcused'} \subseteq BOOLEAN
    BY <1>9 DEF request_rescan, CareTypeOK
  <2>3. beat \in [Beats -> {"idle", "asked", "found", "seen", "unseen"}]
    BY DEF CareTypeOK
  <2> QED BY <1>8, <2>1, <2>2, <2>3
<1>10. CASE rescan_expires
  BY <1>8, <1>10 DEF rescan_expires, CareTypeOK
<1>11. ASSUME NEW b \in Beats,
              \/ heartbeat(b) \/ heartbeat_get(b) \/ heartbeat_delete(b)
              \/ heartbeat_answer(b) \/ heartbeat_lost(b)
       PROVE  CareTypeOK'
  <2>1. beat' \in [Beats -> {"idle", "asked", "found", "seen", "unseen"}]
    BY <1>11 DEF heartbeat, heartbeat_get, heartbeat_delete, heartbeat_answer,
                 heartbeat_lost, CareTypeOK
  <2>2. UNCHANGED <<renewalVars, wishes>> /\ wishes \in 0..MaxWishes
    BY <1>11 DEF heartbeat, heartbeat_get, heartbeat_delete, heartbeat_answer,
                 heartbeat_lost, CareTypeOK
  <2>3. {flag', wanted', wishExcused'} \subseteq BOOLEAN
    BY <1>11 DEF heartbeat, heartbeat_get, heartbeat_delete, heartbeat_answer,
                 heartbeat_lost, CareTypeOK
  <2> QED BY <1>8, <2>1, <2>2, <2>3
<1>12. CASE UNCHANGED careVars
  BY <1>12 DEF careVars, renewalVars, rescanVars, CareTypeOK
<1> QED BY <1>3, <1>4, <1>5, <1>6, <1>7, <1>9, <1>10, <1>11, <1>12
        DEF CareNext, RenewalNext, RescanNext

\* Certificates, wishes and heartbeats keep their types from the start.
LEMMA CareTyped == CareSpec => []CareTypeOK
<1>1. CareInit => CareTypeOK
  <2> SUFFICES ASSUME CareInit PROVE CareTypeOK
    OBVIOUS
  <2>1. signed \in 1..MaxCertificates /\ wishes \in 0..MaxWishes
    BY AgentCareAssumption DEF CareInit
  <2>2. renewal \in [phase : {"idle", "asked", "signed", "answered"}, new : 0..signed]
    BY DEF CareInit, NoRenewal
  <2>3. /\ beat \in [Beats -> {"idle", "asked", "found", "seen", "unseen"}]
        /\ {answerLost, flag, wanted, wishExcused} \subseteq BOOLEAN
    BY DEF CareInit
  <2>4. revoked \subseteq 1..signed /\ certificate \in 1..signed
    BY DEF CareInit
  <2> QED BY <2>1, <2>2, <2>3, <2>4 DEF CareTypeOK
<1>2. RenewalTyped /\ RenewalSound /\ KeepsACertificate /\ BeatsTyped /\ WishHeld
        /\ [CareNext]_careVars
        => (RenewalTyped /\ RenewalSound /\ KeepsACertificate /\ BeatsTyped /\ WishHeld)'
  BY CareKept
<1>3. CareTypeOK /\ RenewalSound /\ [CareNext]_careVars => CareTypeOK'
  BY CareTypesKept
<1> QED BY <1>1, <1>2, <1>3, CareBegins, PTL DEF CareSpec

-----------------------------------------------------------------------------
(* Drifts.                                                                   *)

DriftRow == {NoDrift} \union [new : Prints, status : {"pending", "approved", "rejected"}]

\* An enrolment that stores a drift has found none pending, and unless another
\* one did so at the same time at most one is pending.
DriftsSound ==
    /\ drift \in [DriftRows -> DriftRow]
    /\ DOMAIN enrol = Enrols
    /\ DOMAIN resolver = Resolvers
    /\ \A e \in Enrols : enrol[e].phase = "detected" => enrol[e].pending = {} /\ enrol[e].print \in Prints
    /\ \A e \in Enrols : enrol[e].phase = "matched" => enrol[e].print \in Prints
    /\ \A v \in Resolvers : resolver[v].phase = "read" =>
          resolver[v].drift \in DriftRows /\ resolver[v].decision \in {"approved", "rejected"}
          /\ drift[resolver[v].drift] # NoDrift
    /\ ~driftRaced => \A c, d \in Pending : c = d

\* The rows that are not drifts have no status "pending".
LEMMA NoDriftStatus == NoDrift.status = "none" /\ AtRest.phase = "idle"
BY DEF NoDrift, AtRest

\* One or no pending row makes a set of at most one element.
LEMMA DriftsCounted ==
    ASSUME DriftsSound
    PROVE  OnePendingDrift
<1>1. SUFFICES ASSUME ~driftRaced PROVE ~(Cardinality(Pending) > 1)
  BY DEF OnePendingDrift, Pending
<1>2. CASE Pending = {}
  BY <1>2, FS_EmptySet
<1>3. ASSUME NEW d \in Pending PROVE ~(Cardinality(Pending) > 1)
  <2>1. Pending = {d}
    BY <1>1, <1>3 DEF DriftsSound
  <2>2. Cardinality({d}) = 1
    BY FS_Singleton
  <2>3. QED
    BY <2>1, <2>2
<1>4. QED
  BY <1>2, <1>3

\* A drift is stored by an enrolment that had found none.
LEMMA DriftStored ==
    ASSUME DriftsSound, NEW e \in Enrols, enrol_commits(e)
    PROVE  DriftsSound'
<1>1. enrol[e].phase = "detected" /\ enrol[e].pending = {} /\ enrol[e].print \in Prints
  BY DEF enrol_commits, DriftsSound
<1>2. DOMAIN enrol' = Enrols /\ \A f \in Enrols : f # e => enrol'[f] = enrol[f]
  BY DEF enrol_commits, DriftsSound
<1>3. enrol'[e] = AtRest /\ UNCHANGED resolver
  BY DEF enrol_commits, DriftsSound
<1>4. \A f \in Enrols : enrol'[f].phase # "idle" => enrol'[f] = enrol[f]
  BY <1>2, <1>3, NoDriftStatus
<1>5. CASE UNCHANGED <<drift, driftRaced>>
  BY <1>2, <1>3, <1>4, <1>5 DEF DriftsSound, Pending
<1>6. ASSUME NEW d \in DriftRows, drift[d] = NoDrift,
             drift' = [drift EXCEPT ![d] = [new |-> enrol[e].print, status |-> "pending"]],
             driftRaced' = (driftRaced \/ Pending \ enrol[e].pending # {})
      PROVE  DriftsSound'
  <2>1. drift' \in [DriftRows -> DriftRow]
    BY <1>1, <1>6 DEF DriftsSound, DriftRow
  <2>2. \A c \in DriftRows : c # d => drift'[c] = drift[c]
    BY <1>6 DEF DriftsSound
  <2>3. ~driftRaced' => Pending = {}
    BY <1>1, <1>6
  <2>4. ~driftRaced' => \A b, c \in Pending' : b = c
    BY <2>2, <2>3 DEF Pending
  <2>5. ASSUME NEW v \in Resolvers, resolver'[v].phase = "read"
        PROVE  resolver'[v].drift \in DriftRows /\ resolver'[v].decision \in {"approved", "rejected"}
                 /\ drift'[resolver'[v].drift] # NoDrift
    BY <1>3, <1>6, <2>2, <2>5 DEF DriftsSound
  <2>6. QED
    BY <1>2, <1>3, <1>4, <2>1, <2>4, <2>5 DEF DriftsSound
<1>7. QED
  BY <1>5, <1>6 DEF enrol_commits

\* A decision makes a row of a status other than "pending".
LEMMA DriftDecided ==
    ASSUME DriftsSound, NEW v \in Resolvers, resolve_commits(v)
    PROVE  DriftsSound'
<1> DEFINE d == resolver[v].drift
<1>1. d \in DriftRows /\ resolver[v].decision \in {"approved", "rejected"} /\ drift[d] # NoDrift
  BY DEF resolve_commits, DriftsSound
<1>2. drift[d] \in [new : Prints, status : {"pending", "approved", "rejected"}]
  BY <1>1 DEF DriftsSound, DriftRow
<1>3. drift' = [drift EXCEPT ![d] = [drift[d] EXCEPT !.status = resolver[v].decision]]
  BY DEF resolve_commits
<1>4. /\ drift'[d] \in [new : Prints, status : {"approved", "rejected"}]
      /\ \A c \in DriftRows : c # d => drift'[c] = drift[c]
  BY <1>1, <1>2, <1>3 DEF DriftsSound
<1>5. drift' \in [DriftRows -> DriftRow]
  BY <1>1, <1>3, <1>4 DEF DriftsSound, DriftRow
<1>6. Pending' \subseteq Pending
  BY <1>4 DEF Pending
<1>7. \A c \in DriftRows : drift[c] # NoDrift => drift'[c] # NoDrift
  BY <1>4 DEF NoDrift
<1>8. DOMAIN resolver' = Resolvers /\ \A w \in Resolvers : w # v => resolver'[w] = resolver[w]
  BY DEF resolve_commits, DriftsSound
<1>9. resolver'[v] = AtRest
  BY DEF resolve_commits, DriftsSound
<1>10. \A w \in Resolvers : resolver'[w].phase = "read" => resolver'[w] = resolver[w]
  BY <1>8, <1>9, NoDriftStatus
<1>11. UNCHANGED <<enrol, driftRaced>>
  BY DEF resolve_commits
<1>12. QED
  BY <1>5, <1>6, <1>7, <1>8, <1>10, <1>11 DEF DriftsSound

\* The other steps about drifts change no row of the table.
LEMMA DriftsRead ==
    ASSUME DriftsSound, UNCHANGED <<drift, driftRaced>>,
           \/ \E e \in Enrols : \/ \E p \in Prints : perform_enroll(e, p)
                                \/ no_drift(e) \/ drift_detected(e)
           \/ \E v \in Resolvers, d \in DriftRows, decision \in {"approved", "rejected"} :
                 _resolve(v, d, decision)
    PROVE  DriftsSound'
<1>1. Pending' = Pending
  BY DEF Pending
<1>2. ASSUME NEW e \in Enrols, NEW p \in Prints, perform_enroll(e, p) PROVE DriftsSound'
  BY <1>1, <1>2 DEF perform_enroll, DriftsSound
<1>3. ASSUME NEW e \in Enrols, no_drift(e) PROVE DriftsSound'
  BY <1>1, <1>3, NoDriftStatus DEF no_drift, DriftsSound
<1>4. ASSUME NEW e \in Enrols, drift_detected(e) PROVE DriftsSound'
  BY <1>1, <1>4 DEF drift_detected, DriftsSound
<1>5. ASSUME NEW v \in Resolvers, NEW d \in DriftRows, NEW decision \in {"approved", "rejected"},
             _resolve(v, d, decision)
      PROVE  DriftsSound'
  <2>1. drift[d] # NoDrift
    BY <1>5, NoDriftStatus DEF _resolve, Pending
  <2>2. QED
    BY <1>1, <1>5, <2>1 DEF _resolve, DriftsSound
<1>6. QED
  BY <1>2, <1>3, <1>4, <1>5

-----------------------------------------------------------------------------
(* Tags.                                                                     *)

\* The machine has at most one classification; a request that deletes it also
\* brings another, and none begins on a machine without tags.
TagsSound ==
    /\ DOMAIN tagger = Taggers
    /\ \A c, d \in classes : c = d
    /\ purposes # {} => classes # {}
    /\ \A t \in Taggers : tagger[t].phase = "deleting" =>
          /\ classes # {}
          /\ \A c, d \in tagger[t].classes : c = d
          /\ tagger[t].classes = {} => tagger[t].oldClasses = {}

\* A set whose elements are all the same has at most one.
LEMMA TagsCounted ==
    ASSUME TagsSound
    PROVE  ExactlyOneClassification
<1>1. CASE classes = {}
  BY <1>1, FS_EmptySet DEF TagsSound, ExactlyOneClassification
<1>2. ASSUME NEW c \in classes PROVE ExactlyOneClassification
  <2>1. classes = {c}
    BY <1>2 DEF TagsSound
  <2>2. Cardinality({c}) = 1
    BY FS_Singleton
  <2>3. QED
    BY <2>1, <2>2 DEF ExactlyOneClassification
<1>3. QED
  BY <1>1, <1>2

\* Every step about tags keeps them sound.
LEMMA TagsKept ==
    ASSUME TagsSound, TagNext
    PROVE  TagsSound'
<1>1. ASSUME NEW class, NEW chosen, apply_token_tags(class, chosen) PROVE TagsSound'
  BY <1>1 DEF apply_token_tags, TagsSound
<1>2. ASSUME NEW t \in Taggers, NEW class, \A c, d \in class : c = d,
             classes # {}, UNCHANGED <<classes, purposes>>,
             NEW chosen, NEW old,
             tagger' = [tagger EXCEPT ![t] =
                [phase |-> "deleting", classes |-> class, purposes |-> chosen,
                 oldClasses |-> IF class = {} THEN {} ELSE classes, oldPurposes |-> old]]
      PROVE  TagsSound'
  <2>1. tagger'[t].classes = class /\ (class = {} => tagger'[t].oldClasses = {})
    BY <1>2 DEF TagsSound
  <2>2. DOMAIN tagger' = Taggers /\ \A s \in Taggers : s # t => tagger'[s] = tagger[s]
    BY <1>2 DEF TagsSound
  <2>3. QED
    BY <1>2, <2>1, <2>2 DEF TagsSound
<1>3. ASSUME NEW t \in Taggers, tags_commit(t) PROVE TagsSound'
  <2>1. DOMAIN tagger' = Taggers /\ \A s \in Taggers : s # t => tagger'[s] = tagger[s]
    BY <1>3 DEF tags_commit, TagsSound
  <2>2. tagger'[t] = AtRest
    BY <1>3 DEF tags_commit, TagsSound
  <2>3. \A s \in Taggers : tagger'[s].phase = "deleting" => tagger'[s] = tagger[s]
    BY <2>1, <2>2, NoDriftStatus
  <2>4. CASE TagsConflict(t)
    BY <1>3, <2>1, <2>3, <2>4 DEF tags_commit, TagsSound
  <2>5. CASE ~TagsConflict(t)
    <3>1. classes' = (classes \ tagger[t].oldClasses) \union tagger[t].classes
      BY <1>3, <2>5 DEF tags_commit
    <3>2. tagger[t].classes # {} => classes \ tagger[t].oldClasses = {}
      BY <2>5 DEF TagsConflict
    <3>3. tagger[t].phase = "deleting"
      BY <1>3 DEF tags_commit
    <3>4. classes' = classes \/ (classes' = tagger[t].classes /\ tagger[t].classes # {})
      BY <3>1, <3>2, <3>3 DEF TagsSound
    <3>5. classes' # {} /\ \A c, d \in classes' : c = d
      BY <3>3, <3>4 DEF TagsSound
    <3>6. QED
      BY <2>1, <2>3, <3>5 DEF TagsSound
  <2>6. QED
    BY <2>4, <2>5
<1>4. ASSUME NEW t \in Taggers, NEW class \in CLASSIFICATION_KEYS, NEW chosen \in SUBSET Purposes,
             \/ set_machine_tags(t, {class}, chosen, TRUE)
             \/ set_machine_tags(t, {class}, {}, FALSE)
             \/ set_machine_tags(t, {}, chosen, TRUE)
      PROVE  TagsSound'
  <2>1. CASE set_machine_tags(t, {class}, chosen, TRUE)
    <3>1. tagger' = [tagger EXCEPT ![t] =
             [phase |-> "deleting", classes |-> {class}, purposes |-> chosen,
              oldClasses |-> IF {class} = {} THEN {} ELSE classes, oldPurposes |-> purposes]]
      BY <2>1 DEF set_machine_tags
    <3>2. classes # {} /\ UNCHANGED <<classes, purposes>>
      BY <2>1 DEF set_machine_tags
    <3>3. QED
      BY <1>2, <3>1, <3>2
  <2>2. CASE set_machine_tags(t, {class}, {}, FALSE)
    BY <1>2, <2>2 DEF set_machine_tags
  <2>3. CASE set_machine_tags(t, {}, chosen, TRUE)
    BY <1>2, <2>3 DEF set_machine_tags
  <2>4. QED
    BY <1>4, <2>1, <2>2, <2>3
<1>5. QED
  BY <1>1, <1>3, <1>4 DEF TagNext

-----------------------------------------------------------------------------
(* The desk as a whole.                                                      *)

\* Drifts, tags and the assignment do not touch each other's variables.
LEMMA DeskKept ==
    ASSUME DriftsSound, TagsSound, [MachineDeskNext]_deskVars
    PROVE  DriftsSound' /\ TagsSound'
<1>1. ASSUME UNCHANGED driftVars PROVE DriftsSound'
  BY <1>1 DEF driftVars, DriftsSound, Pending
<1>2. ASSUME UNCHANGED tagVars PROVE TagsSound'
  BY <1>2 DEF tagVars, TagsSound
<1>3. CASE DriftNext
  <2>1. UNCHANGED tagVars
    BY <1>3 DEF DriftNext, perform_enroll, no_drift, drift_detected, enrol_commits, _resolve,
       resolve_commits
  <2>2. DriftsSound'
    <3>1. ASSUME NEW e \in Enrols, \/ \E p \in Prints : perform_enroll(e, p)
                                   \/ no_drift(e) \/ drift_detected(e)
          PROVE  DriftsSound'
      BY <3>1, DriftsRead DEF perform_enroll, no_drift, drift_detected
    <3>2. ASSUME NEW v \in Resolvers, NEW d \in DriftRows,
                 NEW decision \in {"approved", "rejected"}, _resolve(v, d, decision)
          PROVE  DriftsSound'
      BY <3>2, DriftsRead DEF _resolve
    <3>3. QED
      BY <1>3, <3>1, <3>2, DriftStored, DriftDecided DEF DriftNext
  <2>3. QED
    BY <1>2, <2>1, <2>2
<1>4. CASE TagNext
  <2>1. UNCHANGED driftVars
    BY <1>4 DEF TagNext, apply_token_tags, set_machine_tags, tags_commit
  <2>2. QED
    BY <1>1, <1>4, <2>1, TagsKept
<1>5. CASE AssignNext
  <2>1. UNCHANGED driftVars /\ UNCHANGED tagVars
    BY <1>5 DEF AssignNext, assign_user, unassign_user, delete_assigned_user
  <2>2. QED
    BY <1>1, <1>2, <2>1
<1>6. CASE UNCHANGED deskVars
  BY <1>1, <1>2, <1>6 DEF deskVars
<1>7. QED
  BY <1>3, <1>4, <1>5, <1>6 DEF MachineDeskNext

\* At the start there are no drifts and no tags.
LEMMA DeskBegins == MachineDeskInit => DriftsSound /\ TagsSound
<1>1. ASSUME MachineDeskInit PROVE DriftsSound
  BY <1>1, NoDriftStatus DEF MachineDeskInit, DriftsSound, DriftRow, Pending
<1>2. ASSUME MachineDeskInit PROVE TagsSound
  BY <1>2, NoDriftStatus DEF MachineDeskInit, TagsSound
<1>3. QED
  BY <1>1, <1>2

\* A second drift is pending only when two enrolments looked for one at once
\* (routes/enroll.py:230), whatever administrators decide meanwhile.
THEOREM DriftUnlessRaced == MachineDeskSpec => []OnePendingDrift
<1>1. DriftsSound /\ TagsSound /\ [MachineDeskNext]_deskVars => (DriftsSound /\ TagsSound)'
  BY DeskKept
<1>2. DriftsSound => OnePendingDrift
  BY DriftsCounted
<1>3. QED
  BY <1>1, <1>2, DeskBegins, PTL DEF MachineDeskSpec

\* The unique index lets overlapping requests leave exactly one classification
\* (services/tags.py): one that would add a second is rolled back as a whole.
THEOREM OneClassification == MachineDeskSpec => []ExactlyOneClassification
<1>1. DriftsSound /\ TagsSound /\ [MachineDeskNext]_deskVars => (DriftsSound /\ TagsSound)'
  BY DeskKept
<1>2. TagsSound => ExactlyOneClassification
  BY TagsCounted
<1>3. QED
  BY <1>1, <1>2, DeskBegins, PTL DEF MachineDeskSpec

-----------------------------------------------------------------------------
(* The types of the desk.                                                    *)

\* Besides the types: what a request about tags brings is a classification and
\* purposes, and the machine is assigned to one person or to nobody.
DeskRows ==
    /\ DOMAIN tagger = Taggers
    /\ \A t \in Taggers : tagger[t].phase = "deleting" =>
          tagger[t].classes \subseteq CLASSIFICATION_KEYS /\ tagger[t].purposes \subseteq Purposes
    /\ \A u, v \in assigned : u = v

\* No step of the desk leaves the types, given what is known of the drifts.
LEMMA DeskTypesKept ==
    ASSUME MachineDeskTypeOK, DeskRows, DriftsSound, DriftsSound', [MachineDeskNext]_deskVars
    PROVE  MachineDeskTypeOK' /\ DeskRows'
<1> DEFINE DriftPart == /\ identity \in Prints
                        /\ \A e \in Enrols : enrol[e].phase \in {"idle", "matched", "detected"}
                        /\ \A v \in Resolvers : resolver[v].phase \in {"idle", "read"}
           TagPart == /\ classes \subseteq CLASSIFICATION_KEYS /\ purposes \subseteq Purposes
                      /\ \A t \in Taggers : tagger[t].phase \in {"idle", "deleting"}
                      /\ DOMAIN tagger = Taggers
                      /\ \A t \in Taggers : tagger[t].phase = "deleting" =>
                            /\ tagger[t].classes \subseteq CLASSIFICATION_KEYS
                            /\ tagger[t].purposes \subseteq Purposes
           AssignPart == /\ assigned \subseteq staff /\ staff \subseteq People
                         /\ \A u, v \in assigned : u = v
<1>1. DriftPart /\ TagPart /\ AssignPart
  BY DEF MachineDeskTypeOK, DeskRows
<1>2. ASSUME DriftPart', TagPart', AssignPart' PROVE MachineDeskTypeOK' /\ DeskRows'
  <2>1. Cardinality(assigned') <= 1
    <3>1. CASE assigned' = {}
      BY <3>1, FS_EmptySet
    <3>2. ASSUME NEW u \in assigned' PROVE Cardinality(assigned') <= 1
      <4>1. assigned' = {u}
        BY <1>2, <3>2
      <4>2. Cardinality({u}) = 1
        BY FS_Singleton
      <4> QED BY <4>1, <4>2
    <3> QED BY <3>1, <3>2
  <2> QED BY <1>2, <2>1 DEF MachineDeskTypeOK, DeskRows, DriftsSound, DriftRow
<1>3. ASSUME UNCHANGED driftVars PROVE DriftPart'
  BY <1>1, <1>3 DEF driftVars
<1>4. ASSUME UNCHANGED tagVars PROVE TagPart'
  BY <1>1, <1>4 DEF tagVars
<1>5. ASSUME UNCHANGED assignVars PROVE AssignPart'
  BY <1>1, <1>5 DEF assignVars
<1>6. CASE DriftNext
  <2>0. DOMAIN enrol = Enrols /\ DOMAIN resolver = Resolvers
    BY DEF DriftsSound
  <2>1. UNCHANGED tagVars /\ UNCHANGED assignVars
    BY <1>6 DEF DriftNext, perform_enroll, no_drift, drift_detected, enrol_commits, _resolve,
       resolve_commits
  <2>2. ASSUME NEW e \in Enrols, NEW row, row.phase \in {"idle", "matched", "detected"},
               enrol' = [enrol EXCEPT ![e] = row], UNCHANGED <<identity, resolver>>
        PROVE  DriftPart'
    BY <1>1, <2>0, <2>2
  <2>3. ASSUME NEW e \in Enrols, NEW p \in Prints, perform_enroll(e, p) PROVE DriftPart'
    <3>1. /\ enrol'[e].phase = "matched" /\ UNCHANGED <<identity, resolver>>
          /\ \A c \in Enrols : c # e => enrol'[c] = enrol[c]
      BY <2>0, <2>3 DEF perform_enroll
    <3> QED BY <1>1, <3>1
  <2>4. ASSUME NEW e \in Enrols, no_drift(e) \/ drift_detected(e) \/ enrol_commits(e)
        PROVE  DriftPart'
    BY <2>2, <2>4, NoDriftStatus DEF no_drift, drift_detected, enrol_commits
  <2>5. ASSUME NEW v \in Resolvers, NEW d \in DriftRows, NEW decision, _resolve(v, d, decision)
        PROVE  DriftPart'
    BY <1>1, <2>0, <2>5 DEF _resolve
  <2>6. ASSUME NEW v \in Resolvers, resolve_commits(v) PROVE DriftPart'
    <3>1. drift[resolver[v].drift] \in [new : Prints, status : {"pending", "approved", "rejected"}]
      BY <2>6 DEF resolve_commits, DriftsSound, DriftRow
    <3>2. identity' \in Prints
      BY <1>1, <2>6, <3>1 DEF resolve_commits
    <3> QED BY <1>1, <2>0, <2>6, <3>2, NoDriftStatus DEF resolve_commits
  <2>7. DriftPart'
    BY <1>6, <2>3, <2>4, <2>5, <2>6 DEF DriftNext
  <2> QED BY <1>2, <1>4, <1>5, <2>1, <2>7
<1>7. CASE TagNext
  <2>1. UNCHANGED driftVars /\ UNCHANGED assignVars
    BY <1>7 DEF TagNext, apply_token_tags, set_machine_tags, tags_commit
  <2>2. ASSUME NEW class \in CLASSIFICATION_KEYS, NEW chosen \in SUBSET Purposes,
               apply_token_tags(class, chosen)
        PROVE  TagPart'
    BY <1>1, <2>2 DEF apply_token_tags
  <2>3. ASSUME NEW t \in Taggers, NEW some \in SUBSET CLASSIFICATION_KEYS,
               NEW chosen \in SUBSET Purposes, NEW given, set_machine_tags(t, some, chosen, given)
        PROVE  TagPart'
    <3>1. /\ tagger'[t].phase = "deleting" /\ tagger'[t].classes = some
          /\ tagger'[t].purposes = chosen /\ DOMAIN tagger' = Taggers
          /\ \A s \in Taggers : s # t => tagger'[s] = tagger[s]
          /\ UNCHANGED <<classes, purposes>>
      BY <1>1, <2>3 DEF set_machine_tags
    <3> QED BY <1>1, <3>1
  <2>4. ASSUME NEW t \in Taggers, tags_commit(t) PROVE TagPart'
    <3>1. /\ tagger'[t] = AtRest /\ DOMAIN tagger' = Taggers
          /\ \A s \in Taggers : s # t => tagger'[s] = tagger[s]
      BY <1>1, <2>4 DEF tags_commit
    <3>2. classes' \subseteq CLASSIFICATION_KEYS /\ purposes' \subseteq Purposes
      BY <1>1, <2>4 DEF tags_commit
    <3> QED BY <1>1, <3>1, <3>2, NoDriftStatus
  <2>5. ASSUME NEW t \in Taggers, NEW class \in CLASSIFICATION_KEYS, NEW chosen \in SUBSET Purposes,
               \/ set_machine_tags(t, {class}, chosen, TRUE)
               \/ set_machine_tags(t, {class}, {}, FALSE)
               \/ set_machine_tags(t, {}, chosen, TRUE)
        PROVE  TagPart'
    <3>1. {class} \in SUBSET CLASSIFICATION_KEYS /\ {} \in SUBSET CLASSIFICATION_KEYS
            /\ {} \in SUBSET Purposes
      OBVIOUS
    <3> HIDE DEF TagPart
    <3> QED BY <2>3, <2>5, <3>1
  <2>6. TagPart'
    <3> HIDE DEF TagPart
    <3> QED BY <1>7, <2>2, <2>4, <2>5 DEF TagNext
  <2> QED BY <1>2, <1>3, <1>5, <2>1, <2>6
<1>8. CASE AssignNext
  <2>1. UNCHANGED driftVars /\ UNCHANGED tagVars /\ AssignPart'
    BY <1>1, <1>8 DEF AssignNext, assign_user, unassign_user, delete_assigned_user
  <2> QED BY <1>2, <1>3, <1>4, <2>1
<1>9. CASE UNCHANGED deskVars
  BY <1>2, <1>3, <1>4, <1>5, <1>9 DEF deskVars
<1> QED BY <1>6, <1>7, <1>8, <1>9 DEF MachineDeskNext

\* Drifts, tags and the assignment keep their types from the start.
LEMMA DeskTyped == MachineDeskSpec => []MachineDeskTypeOK
<1>1. MachineDeskInit => MachineDeskTypeOK /\ DeskRows
  <2> SUFFICES ASSUME MachineDeskInit PROVE MachineDeskTypeOK /\ DeskRows
    OBVIOUS
  <2>1. identity \in Prints
    BY PrintsAssumption DEF MachineDeskInit
  <2>2. assigned = {} /\ Cardinality(assigned) = 0
    BY FS_EmptySet DEF MachineDeskInit
  <2> QED BY <2>1, <2>2, NoDriftStatus DEF MachineDeskInit, MachineDeskTypeOK, DeskRows
<1>2. DriftsSound /\ TagsSound /\ [MachineDeskNext]_deskVars => (DriftsSound /\ TagsSound)'
  BY DeskKept
<1>3. MachineDeskTypeOK /\ DeskRows /\ DriftsSound /\ DriftsSound' /\ [MachineDeskNext]_deskVars
        => (MachineDeskTypeOK /\ DeskRows)'
  BY DeskTypesKept
<1> QED BY <1>1, <1>2, <1>3, DeskBegins, PTL DEF MachineDeskSpec
=============================================================================
