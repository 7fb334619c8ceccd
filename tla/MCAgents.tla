------------------------------- MODULE MCAgents -------------------------------
(* The agents, with the decompositions of two runs. *)
EXTENDS Agents

Subtasks == 1..3
Ids == [i \in Subtasks |-> i]

Of(n, pattern, keys, lacking, unsliceable) ==
    [todo |-> 1..n, pattern |-> pattern, key |-> keys,
     lacking |-> lacking, unsliceable |-> unsliceable]

\* the patterns, with keys that repeat; a field missing after a node was
\* spawned; a description that makes one of two parallel subtasks raise
SomePlans == {Of(2, "chain", <<1, 1, 1>>, {}, {}), Of(3, "hub_spoke", <<2, 1, 2>>, {}, {}),
              Of(2, "parallel", <<1, 1, 1>>, {}, {}),
              Of(2, "parallel", Ids, {2}, {}), Of(2, "parallel", Ids, {}, {1})}

\* the second run is there to share the session
PlansOf == [r \in Run |-> IF r = "r1" THEN SomePlans ELSE {Of(1, "parallel", Ids, {}, {})}]

\* Only the first run, and only where it runs, may be told to keep its nodes.
MCInit == AgentsInit /\ \A r \in Run : cleanup[r] \/ (part = "multi" /\ r = "r1")

\* AgentsSpec from these states
MCSpec == MCInit /\ [][AgentsNext]_agentsVars /\ Fairness /\ Multi!Fairness
=============================================================================
