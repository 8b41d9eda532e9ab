----------------------- MODULE VelociraptorArtifacts -----------------------
(***************************************************************************)
(* The custom artifacts: their definitions in velociraptor_artifacts and on  *)
(* the Velociraptor server.  A handler reads the row by a plain SELECT,       *)
(* waits for the server, and commits the columns in which the row is to       *)
(* differ from its copy; of all handlers only an upload has its change        *)
(* flushed, and so locked, before it waits.  The bundle of the release is     *)
(* seeded after each change of the configuration, and the definitions of the  *)
(* server are pulled back.                                                    *)
(*                                                                         *)
(* A definition stands for its sha256.                                       *)
(***************************************************************************)
EXTENDS Naturals, FiniteSets

CONSTANTS
    Artifacts,      \* names Custom.*
    Bundled,        \* those of the bundle
    MaxDefinition,  \* bound: definitions are 1..MaxDefinition
    Handlers        \* requests and background tasks under way at once

ASSUME ArtifactsAssumption == Bundled \subseteq Artifacts /\ MaxDefinition \in Nat \ {0}

Definitions == 1..MaxDefinition
NoDefinition == 0

VARIABLES
    stored,    \* definition_yaml of the row, or none without a row
    pushState, \* last_push_status: "none", "pushed" or "failed"
    served,    \* the definition that the Velociraptor server has
    bundle,    \* the definition in the bundle of this release
    handler,   \* what each handler is doing
    everServed \* history: definitions that the server has ever had

rowsVars == <<stored, pushState>>
servedVars == <<served, everServed>>
artifactVars == <<rowsVars, servedVars, bundle, handler>>

\* What a session has read of a row: that there is none ("absent"), or its
\* columns ("live"; "gone" once that row has been deleted).
NoCopy == [row |-> "absent", def |-> NoDefinition, state |-> "none"]
RowRead(a) == [row |-> IF stored[a] = NoDefinition THEN "absent" ELSE "live",
               def |-> stored[a], state |-> pushState[a]]

NoHandler ==
    [art |-> "none", def |-> NoDefinition, copy |-> NoCopy, step |-> "none", holds |-> FALSE]

ArtifactsInit ==
    /\ stored = [a \in Artifacts |-> NoDefinition]
    /\ pushState = [a \in Artifacts |-> "none"]
    /\ served = [a \in Artifacts |-> NoDefinition]
    /\ everServed = {}
    /\ bundle = 1
    /\ handler = [h \in Handlers |-> NoHandler]

Begin(h, a, d, copy, step) ==
    /\ handler[h] = NoHandler
    /\ handler' = [handler EXCEPT ![h] =
          [art |-> a, def |-> d, copy |-> copy, step |-> step, holds |-> FALSE]]
    /\ UNCHANGED <<rowsVars, servedVars, bundle>>

Step(h, s) == handler' = [handler EXCEPT ![h].step = s]
End(h) == handler' = [handler EXCEPT ![h] = NoHandler]

\* A row with a flushed change is held, and so is the name of a new row, until
\* its transaction ends.
Blocked(h) ==
    \E k \in Handlers \ {h} : handler[k].holds /\ handler[k].art = handler[h].art

\* An UPDATE of a row that is gone and an INSERT of a name that is there fail.
Outdated(h) ==
    \/ handler[h].copy.row = "gone"
    \/ handler[h].copy.row = "absent" /\ stored[handler[h].art] # NoDefinition

\* Only a column that the handler makes differ from its copy is written.
Column(read, new, now) == IF new = read THEN now ELSE new

Commit(h, d, s) ==
    LET a == handler[h].art
        copy == handler[h].copy IN
    /\ ~Blocked(h)
    /\ IF Outdated(h)
         THEN UNCHANGED rowsVars
         ELSE /\ stored' = [stored EXCEPT ![a] = Column(copy.def, d, @)]
              /\ pushState' = [pushState EXCEPT ![a] = Column(copy.state, s, @)]
    /\ End(h)
    /\ UNCHANGED <<servedVars, bundle>>

Serve(a, d) ==
    /\ served' = [served EXCEPT ![a] = d]
    /\ everServed' = IF d = NoDefinition THEN everServed ELSE everServed \union {<<a, d>>}

-----------------------------------------------------------------------------
(* The handlers.                                                             *)

\* POST stores a definition, new or changed; PUT changes one.
upload_artifact(h, a) == \E d \in Definitions : Begin(h, a, d, RowRead(a), "flush")

\* The flush, before the configuration is read, waits for another upload.
flush_upload(h) ==
    LET differs == handler[h].def # handler[h].copy.def IN
    /\ handler[h].step = "flush"
    /\ differs => ~Blocked(h)
    /\ IF differs /\ Outdated(h)
         THEN End(h)
         ELSE handler' = [handler EXCEPT ![h].step = "push", ![h].holds = differs]
    /\ UNCHANGED <<rowsVars, servedVars, bundle>>

\* POST /push reads the row and changes nothing before the push.
repush_artifact(h, a) ==
    /\ stored[a] # NoDefinition
    /\ Begin(h, a, stored[a], RowRead(a), "push")

\* The row is to get the bundle's definition.  A row that was pushed is not
\* pushed again when the server has an artifact of that name: the comparison of
\* the definitions comes after the row's has been replaced, and always holds.
seed_velociraptor_artifacts(h, a) ==
    /\ a \in Bundled
    /\ Begin(h, a, bundle, RowRead(a), IF pushState[a] = "pushed" THEN "look" ELSE "push")

existing_check(h) ==
    /\ handler[h].step = "look"
    /\ Step(h, IF served[handler[h].art] # NoDefinition THEN "skipped" ELSE "push")
    /\ UNCHANGED <<rowsVars, servedVars, bundle>>

\* artifact_set, and the look that verifies it; an answer may be lost.
push_artifact(h) ==
    /\ handler[h].step = "push"
    /\ \/ Serve(handler[h].art, handler[h].def) /\ (Step(h, "accepted") \/ Step(h, "refused"))
       \/ Step(h, "refused") /\ UNCHANGED servedVars
    /\ UNCHANGED <<rowsVars, bundle>>

\* Mutant: the row says "pushed" whatever came of the push.
RecordsPushed(h) == "pushed"

Records(h) == CASE handler[h].step = "accepted" -> "pushed"
                [] handler[h].step = "refused" -> "failed"
                [] handler[h].step = "skipped" -> handler[h].copy.state

_push_and_record(h) ==
    /\ handler[h].step \in {"accepted", "refused", "skipped"}
    /\ Commit(h, handler[h].def, Records(h))

\* Of the row that is to be deleted only the id matters.
delete_custom_artifact(h, a) ==
    /\ stored[a] # NoDefinition
    /\ Begin(h, a, NoDefinition, [NoCopy EXCEPT !.row = "live"], "unset")

\* Without ?force=true an error of the server ends the request.
delete_artifact(h) ==
    /\ handler[h].step = "unset"
    /\ \/ Serve(handler[h].art, NoDefinition) /\ (Step(h, "drop") \/ End(h))
       \/ UNCHANGED servedVars /\ (Step(h, "drop") \/ End(h))
    /\ UNCHANGED <<rowsVars, bundle>>

\* The row that was read is deleted, by its id: the copies of it are of a row
\* that is gone, and a row that is gone already is not missed.
drop_row(h) ==
    LET a == handler[h].art IN
    /\ handler[h].step = "drop"
    /\ ~Blocked(h)
    /\ IF handler[h].copy.row = "gone"
         THEN End(h) /\ UNCHANGED rowsVars
         ELSE /\ stored' = [stored EXCEPT ![a] = NoDefinition]
              /\ pushState' = [pushState EXCEPT ![a] = "none"]
              /\ handler' = [k \in Handlers |->
                    IF k = h THEN NoHandler
                    ELSE IF handler[k].art = a /\ handler[k].copy.row = "live"
                    THEN [handler[k] EXCEPT !.copy.row = "gone"]
                    ELSE handler[k]]
    /\ UNCHANGED <<servedVars, bundle>>

\* One definition of those that the server returned; then its row.
pull_server_artifacts(h, a) ==
    /\ served[a] # NoDefinition
    /\ Begin(h, a, served[a], NoCopy, "pulled")

read_pulled_row(h) ==
    /\ handler[h].step = "pulled"
    /\ handler' = [handler EXCEPT ![h].copy = RowRead(handler[h].art), ![h].step = "found"]
    /\ UNCHANGED <<rowsVars, servedVars, bundle>>

sync_artifacts_from_server(h) ==
    /\ handler[h].step = "found"
    /\ Commit(h, handler[h].def, "pushed")

\* The sync that a change of the configuration starts (after the links and the
\* seed) leaves the status of a row alone that had the definition already.
_trigger_auto_sync_after_config(h) ==
    /\ handler[h].step = "found"
    /\ handler[h].copy.def = handler[h].def
    /\ End(h)
    /\ UNCHANGED <<rowsVars, servedVars, bundle>>

HandlerCrash(h) ==
    /\ handler[h] # NoHandler
    /\ End(h)
    /\ UNCHANGED <<rowsVars, servedVars, bundle>>

\* The datastore of the Velociraptor server is lost.
ServerRebuilt ==
    /\ served' = [a \in Artifacts |-> NoDefinition]
    /\ UNCHANGED <<rowsVars, everServed, bundle, handler>>

\* The server is upgraded to a release with another bundle.
Upgrade ==
    /\ bundle < MaxDefinition
    /\ \A h \in Handlers : handler[h] = NoHandler
    /\ bundle' = bundle + 1
    /\ UNCHANGED <<rowsVars, servedVars, handler>>

ArtifactsNext ==
    \/ \E h \in Handlers :
         \/ \E a \in Artifacts :
              \/ upload_artifact(h, a) \/ repush_artifact(h, a)
              \/ seed_velociraptor_artifacts(h, a)
              \/ delete_custom_artifact(h, a) \/ pull_server_artifacts(h, a)
         \/ flush_upload(h) \/ existing_check(h) \/ push_artifact(h) \/ _push_and_record(h)
         \/ delete_artifact(h) \/ drop_row(h) \/ read_pulled_row(h)
         \/ sync_artifacts_from_server(h) \/ _trigger_auto_sync_after_config(h)
         \/ HandlerCrash(h)
    \/ ServerRebuilt \/ Upgrade

ArtifactsSpec == ArtifactsInit /\ [][ArtifactsNext]_artifactVars

-----------------------------------------------------------------------------
(* Properties.                                                               *)

\* Every variable keeps its type; exactly the rows that exist have a status.
ArtifactsTypeOK ==
    /\ stored \in [Artifacts -> 0..MaxDefinition]
    /\ pushState \in [Artifacts -> {"none", "pushed", "failed"}]
    /\ \A a \in Artifacts : (stored[a] = NoDefinition) = (pushState[a] = "none")
    /\ served \in [Artifacts -> 0..MaxDefinition]
    /\ \A a \in Artifacts : served[a] # NoDefinition => <<a, served[a]>> \in everServed
    /\ bundle \in Definitions
    /\ \A h \in Handlers : handler[h] = NoHandler \/ handler[h].art \in Artifacts

SaysPushed(a) == pushState[a] = "pushed" /\ <<a, stored[a]>> \notin everServed

\* What a commit leaves out because the handler's copy of the row was older than
\* the row: it writes only the status, over a definition stored meanwhile;
StatusOnly(h) ==
    /\ handler[h].step \in {"accepted", "found"}
    /\ handler[h].def = handler[h].copy.def /\ handler[h].def # stored[handler[h].art]
\* or only the definition, and the failure of its push is not told because the
\* copy said "failed" already.
FailureUntold(h) ==
    /\ handler[h].step = "refused" /\ handler[h].def # handler[h].copy.def
    /\ handler[h].copy.state = "failed" /\ pushState[handler[h].art] = "pushed"
\* A seed that skips the push of a bundle that has changed.
ChangeUnpushed(h) ==
    handler[h].step = "skipped" /\ handler[h].def # handler[h].copy.def

\* A row comes to say "pushed" of a definition that the server has never had
\* only by the seed that leaves its push out, or by a handler whose commit left a
\* column to one that had committed since it read the row: no push that fails or
\* whose answer is lost, no pull, deletion or crash in between brings it about
\* (_push_and_record, seed_velociraptor_artifacts).
FalselyPushedOnlyIfStale ==
    [][\A a \in Artifacts : SaysPushed(a)' =>
          \/ SaysPushed(a)
          \/ \E h \in Handlers : /\ handler[h].art = a /\ handler[h].copy.row = "live"
                                 /\ StatusOnly(h) \/ FailureUntold(h) \/ ChangeUnpushed(h)]_artifactVars

\* The seed leaves out the push of an artifact only if the row was pushed with
\* the bundle's own sha256, as the comment says
\* (velociraptor_artifact_seed.py:122).  It does not hold of a bundle that has
\* changed: the row's sha256 has been replaced before the two are compared.
SkipsOnlySameDefinition ==
    \A h \in Handlers : handler[h].step = "skipped" => handler[h].def = handler[h].copy.def

=============================================================================
