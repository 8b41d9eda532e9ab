--------------------------- MODULE AnalysisGraph ---------------------------
(***************************************************************************)
(* The graph that DeepAgent runs for one investigation: verify the target,   *)
(* let the model plan at most three steps, collect them one by one, let it   *)
(* plan at most two more (Tier 2) on the evidence, collect those, assess and *)
(* render.  A tool that fails leaves an item of evidence all the same; only  *)
(* a failing node ends the run.  LangGraph gives up after a number of nodes   *)
(* (recursion_limit).                                                       *)
(*                                                                         *)
(* A plan is a sequence of tools.  The model may answer anything, so what is  *)
(* kept of an answer is any sequence that the checks on it let through.       *)
(***************************************************************************)
EXTENDS Naturals, Sequences, SequencesExt

CONSTANTS
    PlatformTools,   \* TOOL_POLICIES of the platform; empty except for windows
    BaselineTools,   \* BASELINE_TOOLS, in order
    InitialCustom,   \* initial_custom_tool_names: the Tier 1 artifacts
    Tier2Candidates, \* tier2_custom_tool_names
    MaxSteps         \* Settings.max_steps

\* An artifact has one tier, and the names of the catalogue are no artifacts.
ASSUME ToolsAssumption ==
    /\ (PlatformTools \union InitialCustom) \intersect Tier2Candidates = {}
    /\ BaselineTools \in Seq(PlatformTools)
    /\ PlatformTools # {} => BaselineTools # <<>>
    /\ MaxSteps \in Nat \ {0}

INITIAL_TRIAGE_MAX_STEPS == 3
MAX_TIER2_STEPS == 2
MAX_DETAIL_CALLS == 2
EventLogs == "windows_event_logs"
EventLogsDetail == "windows_event_logs_detail"

Lesser(m, n) == IF m <= n THEN m ELSE n
MaxTools == INITIAL_TRIAGE_MAX_STEPS + MAX_TIER2_STEPS

VARIABLES
    node,          \* the node that runs next; "END" and "failed" are no nodes
    nodesRun,      \* how many nodes have run
    plan,          \* state["plan"].steps
    step_index,
    evidence,      \* items, each an evidence_id, its tool and whether it is a detail
    tier2_planned

graphVars == <<node, nodesRun, plan, step_index, evidence, tier2_planned>>

GraphInit ==
    /\ node = "verify_target"
    /\ nodesRun = 0
    /\ plan = <<>> /\ step_index = 0 /\ evidence = <<>>
    /\ tier2_planned = FALSE

Goto(n) == node' = n /\ nodesRun' = nodesRun + 1

\* What is kept of an answer of the model: tools that are allowed, each once, and
\* the first limit of them.
DistinctOf(allowed, limit) == {steps \in SeqOf(allowed, limit) : IsInjective(steps)}

-----------------------------------------------------------------------------
(* The nodes.                                                                *)

verify_target ==
    /\ node = "verify_target"
    /\ \E n \in {"plan", "failed"} : Goto(n)
    /\ UNCHANGED <<plan, step_index, evidence, tier2_planned>>

\* Nothing to fall back on is an empty plan, which the schema refuses.
sanitize_plan(steps, limit) ==
    CASE steps # <<>> -> {steps}
      [] steps = <<>> /\ PlatformTools # {} ->
           {SubSeq(BaselineTools, 1, Lesser(limit, Len(BaselineTools)))}
      [] OTHER -> {<<t>> : t \in InitialCustom}

InitialLimit == Lesser(MaxSteps, INITIAL_TRIAGE_MAX_STEPS)

plan_initial ==
    /\ node = "plan"
    /\ \E steps \in DistinctOf(PlatformTools \union InitialCustom, InitialLimit) :
         LET plans == sanitize_plan(steps, InitialLimit) IN
           \/ plan' \in plans /\ Goto("collect")
           \/ plans = {} /\ plan' = plan /\ Goto("failed")
    /\ UNCHANGED <<step_index, evidence, tier2_planned>>

\* The model may fail as well.
plan_fails ==
    /\ node = "plan"
    /\ Goto("failed")
    /\ UNCHANGED <<plan, step_index, evidence, tier2_planned>>

\* What collect returns or raises is one item: a tool that is refused, missing, late
\* or failing leaves one as well.
Item(n, t, d) == [id |-> n, tool |-> t, detail |-> d]

\* Ids are numbered by step; the details of the event log go on counting from
\* their step, and the next step does not know of them.
Details(n) == [k \in 1..n |-> Item(step_index + 1 + k, EventLogsDetail, TRUE)]

after_collect(index) ==
    CASE index < Len(plan) -> "collect"
      [] index >= Len(plan) /\ ~tier2_planned -> "plan_tier2"
      [] OTHER -> "assess"

\* How many of the expansions that the model asks for are accepted: those outside
\* the case, of event ids not sampled, too long or repeated are refused.
validate_event_log_expansions == 0..MAX_DETAIL_CALLS

\* A triage that fails has no details.
collect_step ==
    LET tool == plan[step_index + 1] IN
    /\ node = "collect"
    /\ \E n \in IF tool = EventLogs THEN validate_event_log_expansions ELSE {0} :
         evidence' = evidence \o <<Item(step_index + 1, tool, FALSE)>> \o Details(n)
    /\ step_index' = step_index + 1
    /\ Goto(after_collect(step_index + 1))
    /\ UNCHANGED <<plan, tier2_planned>>

after_tier2_plan == IF step_index < Len(plan') THEN "collect" ELSE "assess"

\* Mutants: Tier 2 is planned as long as it finds something, and it starts at the
\* first step again.
plan_tier2_again ==
    /\ node = "plan_tier2"
    /\ \E steps \in DistinctOf(Tier2Candidates, MAX_TIER2_STEPS) : plan' = plan \o steps
    /\ tier2_planned' = (plan' = plan)
    /\ Goto(after_tier2_plan)
    /\ UNCHANGED <<step_index, evidence>>
plan_tier2_from_start ==
    /\ node = "plan_tier2"
    /\ plan' \in DistinctOf(Tier2Candidates, MAX_TIER2_STEPS)
    /\ tier2_planned' = TRUE
    /\ step_index' = 0
    /\ Goto(IF plan' = <<>> THEN "assess" ELSE "collect")
    /\ UNCHANGED evidence

\* The tools that the evidence still names once it is cut to max_evidence_chars.
\* The cut takes data first, but may skip any item; which depends on their sizes.
fit_evidence_budget == SUBSET {evidence[k].tool : k \in 1..Len(evidence)}

\* What is kept of the proposal for Tier 2, tools with an item in the evidence
\* that fits being out; a model that fails proposes nothing.
plan_tier2_expansion(fits) == DistinctOf(Tier2Candidates \ fits, MAX_TIER2_STEPS)

plan_tier2 ==
    /\ node = "plan_tier2"
    /\ \E fits \in fit_evidence_budget :
         \E steps \in plan_tier2_expansion(fits) : plan' = plan \o steps
    /\ tier2_planned' = TRUE
    /\ Goto(after_tier2_plan)
    /\ UNCHANGED <<step_index, evidence>>

assess ==
    /\ node = "assess"
    /\ \E n \in {"render_report", "failed"} : Goto(n)
    /\ UNCHANGED <<plan, step_index, evidence, tier2_planned>>

render_report ==
    /\ node = "render_report"
    /\ \E n \in {"END", "failed"} : Goto(n)
    /\ UNCHANGED <<plan, step_index, evidence, tier2_planned>>

GraphNext ==
    \/ verify_target \/ plan_initial \/ plan_fails \/ collect_step
    \/ plan_tier2 \/ assess \/ render_report

GraphSpec == GraphInit /\ [][GraphNext]_graphVars

-----------------------------------------------------------------------------
(* Properties.                                                               *)

\* Every variable keeps its type, and no plan is longer than both tiers allow.
GraphTypeOK ==
    /\ node \in {"verify_target", "plan", "collect", "plan_tier2", "assess",
                 "render_report", "END", "failed"}
    /\ nodesRun \in Nat
    /\ Len(plan) <= MaxTools /\ step_index \in 0..Len(plan)
    /\ tier2_planned \in BOOLEAN

\* An investigation that collects all it may, Tier 2 included, stays within the
\* recursion_limit that the runner allows (runner.py:69); beyond it LangGraph
\* would throw the evidence away.
WithinRecursionLimit == nodesRun <= MaxSteps + 8

\* Findings name their evidence by id.  Two items have one id only when one of
\* them is a detail of the event log (graph.py:384): the steps of Tier 1 and of
\* Tier 2 are always told apart.
IdsClashOnlyWithDetails ==
    \A j, k \in 1..Len(evidence) :
        j # k /\ evidence[j].id = evidence[k].id => evidence[j].detail \/ evidence[k].detail
=============================================================================
