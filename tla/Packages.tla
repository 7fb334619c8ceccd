------------------------------- MODULE Packages -------------------------------
(***************************************************************************)
(* Two packages that share no state: the workflow engine and the swarm     *)
(* manager.  A behaviour is one of one of them, so that their states add   *)
(* up and do not multiply.                                                 *)
(***************************************************************************)
EXTENDS WorkflowExecutor

CONSTANTS Swarm, Agent, Role, Task, Specs, None

VARIABLES part,
          spec, used, member, agent, erred, count, running, cooling, roleMap, stage, place, shared

Swarms == INSTANCE SwarmManager WITH state <- agent

ASSUME PackagesAssumption == Swarms!SwarmAssumption

swarmVars == <<spec, used, member, agent, erred, count, running, cooling, roleMap, stage, place, shared>>
packagesVars == <<part, vars, swarmVars>>

PackagesInit ==
    /\ part \in {"workflow", "swarms"}
    /\ Init /\ Swarms!Init

PackagesNext ==
    \/ part = "workflow" /\ Next /\ UNCHANGED <<part, swarmVars>>
    \/ part = "swarms" /\ Swarms!Next /\ UNCHANGED <<part, vars>>

PackagesSpec ==
    /\ PackagesInit /\ [][PackagesNext]_packagesVars
    /\ part = "workflow" => Fairness

-----------------------------------------------------------------------------

\* Every execution of a workflow ends.
WorkflowEnds == part = "workflow" => ExecutionEnds

\* No sequence of calls makes a swarm larger than it may be.
SizeWithinLimits == Swarms!SizeWithinLimits

\* Scaling takes agents away one at a time, and none that works.
ScalingSparesWork == Swarms!ScalingSparesWork
=============================================================================
