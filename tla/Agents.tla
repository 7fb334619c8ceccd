-------------------------------- MODULE Agents --------------------------------
(***************************************************************************)
(* Two ways in which agents work together and which share no state: the    *)
(* bus of messages and the orchestrator of many agents.  A behaviour is    *)
(* one of one of them, so that their states add up and do not multiply; no *)
(* fair action of the other is enabled where it starts.                    *)
(***************************************************************************)
EXTENDS AgentBus

CONSTANTS Run, Subtask, Plans, MaxDeletes

VARIABLES part,
          pc, plan, cleanup, job, output, retry, failed, registered, deleted, board

Multi == INSTANCE MultiAgentOrchestrator

ASSUME AgentsAssumption == Multi!OrchestratorAssumption

multiVars == <<pc, plan, cleanup, job, output, retry, failed, registered, deleted, board>>
agentsVars == <<part, vars, multiVars>>

AgentsInit ==
    /\ part \in {"bus", "multi"}
    /\ Init /\ Multi!Init

AgentsNext ==
    \/ part = "bus" /\ Next /\ UNCHANGED <<part, multiVars>>
    \/ part = "multi" /\ Multi!Next /\ UNCHANGED <<part, vars>>

AgentsSpec == AgentsInit /\ [][AgentsNext]_agentsVars /\ Fairness /\ Multi!Fairness

-----------------------------------------------------------------------------

\* A run's cleanup removes the nodes of its own subtasks, all of them, and no others.
CleanupExact == Multi!CleanupExact

\* An answer a run returns with is on the board under its node's name, unless a
\* later one of the same key has taken its place.
ResultsTrue == Multi!ResultsTrue

\* A run of the orchestrator returns.
RunReturns == Multi!RunReturns
=============================================================================
