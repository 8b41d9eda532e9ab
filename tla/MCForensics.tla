----------------------------- MODULE MCForensics -----------------------------
(***************************************************************************)
(* The components of the investigations side by side, each in a behaviour  *)
(* of its own: they share no state, so one run checks all of them without  *)
(* the product of their state spaces.                                      *)
(***************************************************************************)
EXTENDS DfirPipeline, CollectWorker, VelociraptorLinks, VelociraptorArtifacts, DfirDesk, AnalysisGraph

MCHwOf == [r \in {"m1", "m2", "m3"} |-> IF r = "m3" THEN "k" ELSE "hw"]
MCBase == <<"pslist", "windows_event_logs">>

VARIABLE part  \* the component that takes the steps of this behaviour

Components == {"pipeline", "collect", "links", "artifacts", "desk", "graph"}

allVars == <<part, vars, collectVars, linkVars, artifactVars, deskVars, graphVars>>

AllInit ==
    /\ part \in Components
    /\ Init
    /\ CollectInit
    /\ LinksInit
    /\ ArtifactsInit
    /\ DeskInit
    /\ GraphInit

AllNext ==
    \/ part = "pipeline" /\ Next /\ UNCHANGED <<part, collectVars, linkVars, artifactVars,
            deskVars, graphVars>>
    \/ part = "collect" /\ CollectNext /\ UNCHANGED <<part, vars, linkVars, artifactVars,
            deskVars, graphVars>>
    \/ part = "links" /\ LinksNext /\ UNCHANGED <<part, vars, collectVars, artifactVars,
            deskVars, graphVars>>
    \/ part = "artifacts" /\ ArtifactsNext /\ UNCHANGED <<part, vars, collectVars, linkVars,
            deskVars, graphVars>>
    \/ part = "desk" /\ DeskNext /\ UNCHANGED <<part, vars, collectVars, linkVars,
            artifactVars, graphVars>>
    \/ part = "graph" /\ GraphNext /\ UNCHANGED <<part, vars, collectVars, linkVars,
            artifactVars, deskVars>>

AllSpec == AllInit /\ [][AllNext]_allVars

\* The type invariants of the components: every variable keeps its type, an
\* investigation has its job, a link its machine, and an alert its flow.
ForensicsTypeOK ==
    /\ TypeOK
    /\ CollectTypeOK
    /\ LinksTypeOK
    /\ ArtifactsTypeOK
    /\ DeskTypeOK
    /\ GraphTypeOK
=============================================================================
