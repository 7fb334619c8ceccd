------------------------------- MODULE Builders -------------------------------
(***************************************************************************)
(* Four parts of the AI service that work off a plan, a graph or a request *)
(* of their own and share no state: the coding pipeline, the autonomous    *)
(* pipeline with its brains, the application's workflow engine and the     *)
(* user profile.  A behaviour is one of one of them, so that their states  *)
(* add up and do not multiply.                                             *)
(***************************************************************************)
EXTENDS CodingPipeline

CONSTANTS Run, TaskGraphs, MaxPasses, MaxRuns,
          Graphs, Execution, MaxUpdates,
          Call, Signal, Cap, Deltas, Key, Kinds

VARIABLES part,
          stageOf, fix, status, verdict, results, graphOf, left, pass, executed, passes,
          started, ended, runs,
          workflow, stored, updates, state, graph, order, ran,
          row, kind, at, copy, delta, bound, noted

Pipeline == INSTANCE AutonomousPipeline
    WITH Plans <- TaskGraphs, at <- stageOf, plan <- graphOf, remaining <- left, batch <- pass
Workflows == INSTANCE AppWorkflow
Profile == INSTANCE UserProfile WITH seen <- noted

ASSUME BuildersAssumption ==
    Pipeline!PipelineAssumption /\ Workflows!WorkflowsAssumption /\ Profile!ProfileAssumption

pipelineVars == <<stageOf, fix, status, verdict, results, graphOf, left, pass, executed, passes,
                  started, ended, runs>>
workflowVars == <<workflow, stored, updates, state, graph, order, ran>>
profileVars == <<row, kind, at, copy, delta, bound, noted>>
buildersVars == <<part, vars, pipelineVars, workflowVars, profileVars>>

BuildersInit ==
    /\ part \in {"coding", "pipeline", "workflows", "profile"}
    /\ Init /\ Pipeline!Init /\ Workflows!Init /\ Profile!Init

BuildersNext ==
    \/ part = "coding" /\ Next /\ UNCHANGED <<part, pipelineVars, workflowVars, profileVars>>
    \/ part = "pipeline" /\ Pipeline!Next /\ UNCHANGED <<part, vars, workflowVars, profileVars>>
    \/ part = "workflows" /\ Workflows!Next /\ UNCHANGED <<part, vars, pipelineVars, profileVars>>
    \/ part = "profile" /\ Profile!Next /\ UNCHANGED <<part, vars, pipelineVars, workflowVars>>

BuildersSpec ==
    /\ BuildersInit /\ [][BuildersNext]_buildersVars
    /\ part = "coding" => Fairness

-----------------------------------------------------------------------------

\* A run of the coding pipeline ends, and leaves nothing at work.
CodingEnds == part = "coding" => RunEnds

\* Each step of a task graph runs after the steps it depends on, and once, and
\* a plan is left only when it is done, out of passes or stuck.
PlanInOrder == Pipeline!PlanInOrder

\* What a run of the autonomous pipeline says of itself is what happened.
VerdictIsTrue == Pipeline!VerdictIsTrue

\* The nodes of a workflow run in the order of its graph.
GraphInOrder == Workflows!GraphInOrder

\* A call takes nothing it could see out of a profile but what it replaces.
LossNeedsOverlap == Profile!LossNeedsOverlap
=============================================================================
