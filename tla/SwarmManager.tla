----------------------------- MODULE SwarmManager -----------------------------
(***************************************************************************)
(* Agent swarms (packages/swarm-manager, and swarm_manager_service.py that *)
(* wraps it).  Every operation is synchronous: an action is one call.      *)
(* What makes it hard is that a task takes three calls (route_task(),      *)
(* assign_task(), complete_task()) with others in between, and that the    *)
(* metrics that scaling decides on are kept beside the agents they count.  *)
(*                                                                         *)
(* Swarms, agents and tasks are numbered as they come, for their random    *)
(* ids.  Which agent a route or a removal picks is left open.  No          *)
(* operation sets an agent to FAILED, so that state does not occur.        *)
(***************************************************************************)
EXTENDS Integers, FiniteSets

CONSTANTS Swarm, \* bound: swarms that may be spawned
          Agent, \* bound: agents that may be made
          Role, Task,
          Specs, \* the specifications a swarm may be spawned with
          None

SwarmAssumption ==
    /\ Swarm \cup Agent \cup Task \subseteq Nat \ {0}
    /\ IsFiniteSet(Agent) /\ None \notin Swarm \cup Agent /\ None \notin Specs
    /\ Specs \subseteq [role : Role, min : Int, max : Int, initial : Nat, slots : Nat \ {0}]

VARIABLES
    spec,    \* spec[s]: SwarmSpec of a swarm, None before and after
    used,    \* the ids drawn
    member,  \* member[a]: the swarm that lists the agent
    state,   \* state[a]: SwarmAgent.state
    erred,   \* the agents with tasks_failed > 0
    count,   \* count[s]: metrics.agent_count
    running, \* running[s]: metrics.total_tasks_running, hence utilization_pct
    cooling, \* the swarms scaled less than cooldown_seconds ago
    roleMap, \* _swarm_ids of the service
    stage,   \* stage[t]: how far a task is
    place,   \* place[t]: the swarm and the agent it was routed to
    shared   \* the agents that were given a task while they had one

vars == <<spec, used, member, state, erred, count, running, cooling, roleMap, stage, place, shared>>
metrics == <<count, running>>
tasks == <<stage, place, shared>>
service == <<spec, used, roleMap>>

TypeOK ==
    /\ spec \in [Swarm -> Specs \cup {None}]
    /\ used \subseteq Swarm
    /\ member \in [Agent -> Swarm \cup {None}]
    /\ state \in [Agent -> {"unborn", "spawning", "active", "idle", "terminated"}]
    /\ erred \subseteq Agent
    /\ count \in [Swarm -> Nat]
    /\ running \in [Swarm -> Nat]
    /\ cooling \subseteq Swarm
    /\ roleMap \in [Role -> Swarm \cup {None}]
    /\ stage \in [Task -> {"new", "routed", "working", "over"}]
    /\ place \in [Task -> Swarm \X Agent \cup {<<None, None>>}]
    /\ shared \subseteq Agent

Init ==
    /\ spec = [s \in Swarm |-> None]
    /\ used = {}
    /\ member = [a \in Agent |-> None]
    /\ state = [a \in Agent |-> "unborn"]
    /\ erred = {}
    /\ count = [s \in Swarm |-> 0]
    /\ running = [s \in Swarm |-> 0]
    /\ cooling = {}
    /\ roleMap = [r \in Role |-> None]
    /\ stage = [t \in Task |-> "new"]
    /\ place = [t \in Task |-> <<None, None>>]
    /\ shared = {}

Alive == {s \in Swarm : spec[s] # None}
Members(s) == {a \in Agent : member[a] = s}
InState(s, S) == {a \in Members(s) : state[a] \in S}
Born == Cardinality({a \in Agent : state[a] # "unborn"})
\* The next n agents, as long as the bound on agents allows
Made(n) == {A \in SUBSET Agent : A = (Born + 1)..(Born + n)}

\* _update_metrics(), which leaves the metrics of a swarm without agents alone.
UpdateMetrics(s) ==
    LET now == {a \in Agent : member'[a] = s}
    IN IF now = {} THEN UNCHANGED metrics
       ELSE /\ count' = [count EXCEPT ![s] = Cardinality(now)]
            /\ running' = [running EXCEPT ![s] = Cardinality({a \in now : state'[a] = "active"})]

-----------------------------------------------------------------------------
(* Swarms *)

\* The first agents are active at once, though without a task.
SpawnSwarm(s, sp) ==
    /\ s = Cardinality(used) + 1
    /\ spec' = [spec EXCEPT ![s] = sp]
    /\ used' = used \cup {s}
    /\ roleMap' = [roleMap EXCEPT ![sp.role] = s]
    /\ \E A \in Made(sp.initial) :
         /\ member' = [a \in Agent |-> IF a \in A THEN s ELSE member[a]]
         /\ state' = [a \in Agent |-> IF a \in A THEN "active" ELSE state[a]]
    /\ count' = [count EXCEPT ![s] = sp.initial]
    /\ running' = [running EXCEPT ![s] = 0]
    /\ UNCHANGED <<erred, cooling, tasks>>

Terminated(s) ==
    /\ spec' = [spec EXCEPT ![s] = None]
    /\ count' = [count EXCEPT ![s] = 0]
    /\ running' = [running EXCEPT ![s] = 0]
    /\ cooling' = cooling \ {s}

\* The service forgets the role that maps to the swarm, if one still does.
TerminateSwarm(s) ==
    /\ s \in Alive
    /\ roleMap' = [r \in Role |-> IF roleMap[r] = s THEN None ELSE roleMap[r]]
    /\ Terminated(s)
    /\ member' = [a \in Agent |-> IF member[a] = s THEN None ELSE member[a]]
    /\ state' = [a \in Agent |-> IF member[a] = s THEN "terminated" ELSE state[a]]
    /\ UNCHANGED <<used, erred, tasks>>

\* Mutant of Room: a merge may fill a target beyond its maximum by one.
RoomPlusOne(u) == spec[u].max - Cardinality(Members(u)) + 1

Room(u) == spec[u].max - Cardinality(Members(u))

\* Agents of s move to u as far as there is room; an s left empty is terminated.
\* Only u's metrics are updated.  A merge of a swarm with itself, which would
\* list its agents twice, is left out.
MergeSwarms(s, u) ==
    /\ {s, u} \subseteq Alive /\ s # u /\ Room(u) > 0
    /\ \E A \in SUBSET Members(s) :
         /\ Cardinality(A) = IF Room(u) < Cardinality(Members(s)) THEN Room(u)
                             ELSE Cardinality(Members(s))
         /\ member' = [a \in Agent |-> IF a \in A THEN u ELSE member[a]]
         /\ spec' = IF A = Members(s) THEN [spec EXCEPT ![s] = None] ELSE spec
         /\ cooling' = IF A = Members(s) THEN cooling \ {s} ELSE cooling
         /\ LET all == Members(u) \cup A
                left == IF A = Members(s) THEN 0 ELSE count[s]
                busy == IF A = Members(s) THEN 0 ELSE running[s]
            IN IF all = {} THEN UNCHANGED metrics
               ELSE /\ count' = [count EXCEPT ![s] = left, ![u] = Cardinality(all)]
                    /\ running' = [running EXCEPT ![s] = busy,
                                     ![u] = Cardinality({a \in all : state[a] = "active"})]
    /\ UNCHANGED <<used, state, erred, roleMap, tasks>>

-----------------------------------------------------------------------------
(* Scaling and healing *)

\* spawn_agents(): as many as the maximum allows.
SpawnAgents(s, n) ==
    /\ \E A \in Made(IF n < Room(s) THEN n ELSE Room(s)) :
         /\ member' = [a \in Agent |-> IF a \in A THEN s ELSE member[a]]
         /\ state' = [a \in Agent |-> IF a \in A THEN "spawning" ELSE state[a]]
    /\ UpdateMetrics(s)

\* Mutant of Killable: agents are removed whatever they do.
KillableAny(s) == Members(s)

\* Only idle agents are killed.
Killable(s) == InState(s, {"idle"})

Smallest(S) == CHOOSE n \in S : \A m \in S : n <= m

\* kill_agents(): down to the minimum.
KillAgents(s, n) ==
    /\ \E A \in SUBSET Killable(s) :
         /\ Cardinality(A) = Smallest({n, Cardinality(Killable(s)), Cardinality(Members(s)) - spec[s].min})
         /\ member' = [a \in Agent |-> IF a \in A THEN None ELSE member[a]]
         /\ state' = [a \in Agent |-> IF a \in A THEN "terminated" ELSE state[a]]
    /\ UpdateMetrics(s)

\* Utilization against scale_up_threshold = 0.8 and scale_down_threshold = 0.2.
High(s) == 10 * running[s] >= 8 * spec[s].slots
Low(s) == 10 * running[s] <= 2 * spec[s].slots

\* auto_scale() decides on the metrics as they are, stale or not.
ScaleUp(s) ==
    /\ s \in Alive \ cooling /\ High(s) /\ count[s] < spec[s].max /\ Room(s) > 0
    /\ SpawnAgents(s, IF spec[s].max - count[s] < 2 THEN spec[s].max - count[s] ELSE 2)
    /\ cooling' = cooling \cup {s}
    /\ UNCHANGED <<service, erred, tasks>>

ScaleDown(s) ==
    /\ s \in Alive \ cooling /\ Low(s) /\ ~(High(s) /\ count[s] < spec[s].max)
    /\ count[s] > spec[s].min
    /\ Killable(s) # {} /\ Cardinality(Members(s)) > spec[s].min
    /\ KillAgents(s, 1)
    /\ cooling' = cooling \cup {s}
    /\ UNCHANGED <<service, erred, tasks>>

CooldownOver(s) ==
    /\ s \in cooling
    /\ cooling' = cooling \ {s}
    /\ UNCHANGED <<service, member, state, erred, metrics, tasks>>

\* health_check(): an error rate above 0.1, which one failure in fewer than ten
\* tasks always is, no available agent, or utilization above 90%.
Unhealthy(s) ==
    \/ Members(s) \cap erred # {}
    \/ InState(s, {"active", "idle"}) = {}
    \/ 10 * running[s] > 9 * spec[s].slots

\* heal_swarm(): refilled to the minimum as far as there is room; the metrics are
\* recalculated in any case.
HealSwarm(s) ==
    /\ s \in Alive /\ Unhealthy(s)
    /\ IF spec[s].min > Cardinality(Members(s)) /\ Room(s) > 0
       THEN SpawnAgents(s, spec[s].min - Cardinality(Members(s)))
       ELSE UNCHANGED <<member, state>> /\ UpdateMetrics(s)
    /\ UNCHANGED <<service, erred, cooling, tasks>>

-----------------------------------------------------------------------------
(* Tasks *)

\* route_task(): an agent that is idle, or active, hence perhaps at work.
RouteTask(t) ==
    /\ stage[t] = "new" /\ \A u \in Task : u < t => stage[u] # "new"
    /\ stage' = [stage EXCEPT ![t] = "routed"]
    /\ \E s \in Alive : \E a \in InState(s, {"active", "idle"}) : place' = [place EXCEPT ![t] = <<s, a>>]
    /\ UNCHANGED <<service, member, state, erred, metrics, cooling, shared>>

WorkOf(a) == {t \in Task : stage[t] = "working" /\ place[t][2] = a}

\* assign_task(): whatever the agent does; false if the swarm has it no longer.
AssignTask(t) ==
    LET s == place[t][1]  a == place[t][2] IN
    /\ stage[t] = "routed"
    /\ IF member[a] = s
       THEN /\ stage' = [stage EXCEPT ![t] = "working"]
            /\ state' = [state EXCEPT ![a] = "active"]
            /\ shared' = IF WorkOf(a) = {} THEN shared ELSE shared \cup {a}
            /\ UNCHANGED member
            /\ UpdateMetrics(s)
       ELSE /\ stage' = [stage EXCEPT ![t] = "over"]
            /\ UNCHANGED <<state, shared, member, metrics>>
    /\ UNCHANGED <<service, erred, cooling, place>>

\* complete_task(): the agent is idle again, if the swarm still has it.
CompleteTask(t, ok) ==
    LET s == place[t][1]  a == place[t][2] IN
    /\ stage[t] = "working"
    /\ stage' = [stage EXCEPT ![t] = "over"]
    /\ IF member[a] = s
       THEN /\ state' = [state EXCEPT ![a] = "idle"]
            /\ erred' = IF ok THEN erred ELSE erred \cup {a}
            /\ UNCHANGED member
            /\ UpdateMetrics(s)
       ELSE UNCHANGED <<state, erred, member, metrics>>
    /\ UNCHANGED <<service, cooling, place, shared>>

Next ==
    \/ \E s \in Swarm : \/ \E sp \in Specs : SpawnSwarm(s, sp)
                        \/ TerminateSwarm(s) \/ ScaleUp(s) \/ ScaleDown(s)
                        \/ CooldownOver(s) \/ HealSwarm(s)
                        \/ \E u \in Swarm : MergeSwarms(s, u)
    \/ \E t \in Task : RouteTask(t) \/ AssignTask(t) \/ \E ok \in BOOLEAN : CompleteTask(t, ok)

Spec == Init /\ [][Next]_vars

-----------------------------------------------------------------------------
(* Properties *)

\* No sequence of calls fills a swarm beyond its maximum, or the number of
\* agents it was created with if that is more; and what scaling decides on is
\* never fewer agents than there are.
SizeWithinLimits ==
    \A s \in Alive :
        /\ Cardinality(Members(s)) <= spec[s].max \/ Cardinality(Members(s)) <= spec[s].initial
        /\ Cardinality(Members(s)) <= count[s]

\* A swarm loses agents to scaling one at a time, never below its minimum, and
\* never one that works on a task, unless that agent has been given two.
ScalingSparesWork ==
    [][\A s \in Alive : LET killed == {a \in Members(s) : state'[a] = "terminated"} IN
         spec'[s] # None /\ killed # {} =>
            /\ Cardinality(killed) = 1
            /\ Cardinality(Members(s)) > spec[s].min
            /\ \A a \in killed \ shared : WorkOf(a) = {}]_vars

=============================================================================
