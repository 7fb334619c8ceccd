------------------------ MODULE MultiAgentOrchestrator ------------------------
(***************************************************************************)
(* Multi-agent runs (multi_agent/multi_orchestrator.py): run() has an LLM  *)
(* decompose a task, spawns a node per subtask, executes the subtasks in   *)
(* parallel, as a chain, or in parallel with a hub that retries, then      *)
(* aggregates the answers and removes the nodes it spawned.  Several runs  *)
(* share a session: its registry (agent_factory.py), its bus topic and its *)
(* blackboard (blackboard.py).                                             *)
(*                                                                         *)
(* An action is what happens between two awaits that really wait, which    *)
(* are the calls of an LLM: publishing a status message returns at once.   *)
(* A node is <<run, subtask>>; what spawn_for_task() spawns to do a        *)
(* subtask again is <<run, subtask, "again">>, and subtask 0 is the whole  *)
(* task.  Keys of subtasks are the LLM's choice; subtasks with one id are  *)
(* done by one node, which matters to the name under their answers only.   *)
(***************************************************************************)
EXTENDS Naturals, FiniteSets

CONSTANTS Run,     \* calls of run() in one session
          Subtask, \* places of subtasks: 1..max_agents
          Plans,   \* Plans[r]: the decompositions into subtasks an LLM may return
          MaxDeletes \* bound: nodes removed by hand

OrchestratorAssumption ==
    /\ Subtask \subseteq Nat \ {0} /\ IsFiniteSet(Subtask) /\ MaxDeletes \in Nat
    /\ \A p \in UNION {Plans[r] : r \in Run} :
        /\ \E n \in Subtask : p.todo = 1..n /\ p.todo \subseteq Subtask
        /\ p.pattern \in {"parallel", "chain", "hub_spoke"}
        /\ p.key \in [Subtask -> Subtask] \* slots, by name or by id, which may repeat
        /\ p.lacking \subseteq p.todo     \* without a role or an id
        /\ p.unsliceable \subseteq p.todo \* with a description that is no text

VARIABLES
    pc,         \* pc[r]: where run() is
    plan,       \* plan[r]: the decomposition
    cleanup,    \* cleanup[r]: the parameter
    job,        \* job[r][i]: where run_one(), or the chain's step, is
    output,     \* output[r][i]: output of the subtask's SubtaskResult
    retry,      \* retry[r]: the failed subtasks that the hub still retries
    failed,     \* error_msg is set
    registered, \* the nodes in the registry, subscribed to the bus
    deleted,    \* the nodes removed by DELETE /agents/{agent_id}
    board       \* per slot of the blackboard, whose answer it holds, the latest, if any

vars == <<pc, plan, cleanup, job, output, retry, failed, registered, deleted, board>>

Answer == {"text", "empty", "error"}
None == [todo |-> {}, pattern |-> "parallel", key |-> [i \in Subtask |-> i],
         lacking |-> {}, unsliceable |-> {}]
Nodes(r) == {<<r, i>> : i \in Subtask}
AgainNodes(r) == {<<r, i, "again">> : i \in Subtask \cup {0}}
\* Slots: one per key of a subtask, "result_" and the node's id, "final_output".
Slot == {<<>>} \cup {<<i>> : i \in Subtask} \cup UNION {AgainNodes(r) : r \in Run}
Least(S) == CHOOSE i \in S : \A j \in S : i <= j

TypeOK ==
    /\ pc \in [Run -> {"idle", "decompose", "execute", "hub", "aggregate", "single", "over"}]
    /\ \A r \in Run : plan[r] \in Plans[r] \cup {None}
    /\ cleanup \in [Run -> BOOLEAN]
    /\ job \in [Run -> [Subtask -> {"none", "start", "llm", "done"}]]
    /\ output \in [Run -> [Subtask -> Answer \cup {"none"}]]
    /\ retry \in [Run -> SUBSET Subtask]
    /\ failed \in [Run -> BOOLEAN]
    /\ registered \subseteq UNION {Nodes(r) \cup AgainNodes(r) : r \in Run}
    /\ deleted \subseteq UNION {Nodes(r) \cup AgainNodes(r) : r \in Run}
    /\ board \in [Slot -> {<<>>} \cup UNION {Nodes(r) \cup AgainNodes(r) \cup {<<r>>} : r \in Run}]

Init ==
    /\ pc = [r \in Run |-> "idle"]
    /\ plan = [r \in Run |-> None]
    /\ cleanup \in [Run -> BOOLEAN]
    /\ job = [r \in Run |-> [i \in Subtask |-> "none"]]
    /\ output = [r \in Run |-> [i \in Subtask |-> "none"]]
    /\ retry = [r \in Run |-> {}]
    /\ failed = [r \in Run |-> FALSE]
    /\ registered = {}
    /\ deleted = {}
    /\ board = [k \in Slot |-> <<>>]

Goto(r, l) == pc' = [pc EXCEPT ![r] = l]

\* Mutant of Written: an empty answer is written too.
WrittenEmptyToo(a, slot, of) == IF a # "error" THEN [board EXCEPT ![slot] = of] ELSE board

\* process_task() writes an answer of the LLM to the board, if it is not empty.
\* A slot keeps its latest entry only.
Written(a, slot, of) == IF a = "text" THEN [board EXCEPT ![slot] = of] ELSE board

\* The nodes in the list spawned are removed at the end, if so desired.
Finally(r, nodes) == registered' = IF cleanup[r] THEN nodes \ Nodes(r) ELSE nodes

-----------------------------------------------------------------------------
(* run() *)

Start(r) ==
    /\ pc[r] = "idle"
    /\ Goto(r, "decompose")
    /\ UNCHANGED <<plan, cleanup, job, output, retry, failed, registered, deleted, board>>

\* Nothing to split: one agent for the whole task, designed by an LLM.
DecomposedToNothing(r) ==
    /\ pc[r] = "decompose"
    /\ Goto(r, "single")
    /\ UNCHANGED <<plan, cleanup, job, output, retry, failed, registered, deleted, board>>

\* spawn_for_task() spawns the agent and runs it; run() returns its answer.
SpawnSingle(r) ==
    /\ pc[r] = "single" /\ <<r, 0, "again">> \notin registered \cup deleted
    /\ registered' = registered \cup {<<r, 0, "again">>}
    /\ UNCHANGED <<pc, plan, cleanup, job, output, retry, failed, deleted, board>>

SingleReturns(r, a) ==
    /\ pc[r] = "single" /\ <<r, 0, "again">> \in registered \cup deleted
    /\ Goto(r, "over")
    /\ board' = Written(a, <<r, 0, "again">>, <<r, 0, "again">>)
    /\ UNCHANGED <<plan, cleanup, job, output, retry, failed, registered, deleted>>

\* Mutant of Decomposed: an error while spawning is not covered by the finally.
DecomposedLeaky(r, p) ==
    /\ pc[r] = "decompose" /\ p.todo # {}
    /\ plan' = [plan EXCEPT ![r] = p]
    /\ registered' = registered \cup {<<r, i>> : i \in {j \in p.todo : \A q \in p.lacking : j < q}}
    /\ Goto(r, IF p.lacking # {} THEN "over" ELSE "execute")
    /\ failed' = [failed EXCEPT ![r] = p.lacking # {}]
    /\ job' = [job EXCEPT ![r] =
                 [i \in Subtask |-> IF p.lacking = {} /\ i \in (IF p.pattern = "chain" THEN {1} ELSE p.todo)
                                    THEN "start" ELSE "none"]]
    /\ UNCHANGED <<cleanup, output, retry, deleted, board>>

\* A node per subtask.  A subtask that lacks a field ends the run with an error
\* after the nodes before it were spawned.
Decomposed(r, p) ==
    /\ pc[r] = "decompose" /\ p.todo # {}
    /\ plan' = [plan EXCEPT ![r] = p]
    /\ LET spawned == registered \cup {<<r, i>> : i \in {j \in p.todo : \A q \in p.lacking : j < q}}
       IN IF p.lacking # {}
          THEN Goto(r, "over") /\ failed' = [failed EXCEPT ![r] = TRUE] /\ Finally(r, spawned)
          ELSE Goto(r, "execute") /\ registered' = spawned /\ UNCHANGED failed
    /\ job' = [job EXCEPT ![r] =
                 [i \in Subtask |-> IF p.lacking = {} /\ i \in (IF p.pattern = "chain" THEN {1} ELSE p.todo)
                                    THEN "start" ELSE "none"]]
    /\ UNCHANGED <<cleanup, output, retry, deleted, board>>

\* A subtask is announced and its node asks the LLM.
BeginSubtask(r, i) ==
    /\ job[r][i] = "start" /\ i \notin plan[r].unsliceable
    /\ job' = [job EXCEPT ![r][i] = "llm"]
    /\ UNCHANGED <<pc, plan, cleanup, output, retry, failed, registered, deleted, board>>

\* The announcement raises: gather() passes the error on and the run ends,
\* while the other subtasks go on.
SubtaskRaises(r, i) ==
    /\ job[r][i] = "start" /\ i \in plan[r].unsliceable
    /\ job' = [job EXCEPT ![r][i] = "done"]
    /\ IF pc[r] = "execute"
       THEN Goto(r, "over") /\ failed' = [failed EXCEPT ![r] = TRUE] /\ Finally(r, registered)
       ELSE UNCHANGED <<pc, failed, registered>>
    /\ UNCHANGED <<plan, cleanup, output, retry, deleted, board>>

Successor(r, i) == IF plan[r].pattern = "chain" THEN {i + 1} \cap plan[r].todo ELSE {}

\* Mutant of SubtaskReturns: a chain waits for an answer that is one.
SubtaskReturnsIfText(r, i, a) ==
    /\ job[r][i] = "llm"
    /\ output' = [output EXCEPT ![r][i] = a]
    /\ job' = [job EXCEPT ![r] = [j \in Subtask |-> CASE j = i -> "done"
                                                     [] j \in Successor(r, i) /\ a = "text" -> "start"
                                                     [] OTHER -> job[r][j]]]
    /\ board' = Written(a, <<plan[r].key[i]>>, <<r, i>>)
    /\ UNCHANGED <<pc, plan, cleanup, retry, failed, registered, deleted>>

\* process_task() returns; an exception of the provider is returned as text.
SubtaskReturns(r, i, a) ==
    /\ job[r][i] = "llm"
    /\ output' = [output EXCEPT ![r][i] = a]
    /\ job' = [job EXCEPT ![r] = [j \in Subtask |-> CASE j = i -> "done"
                                                     [] j \in Successor(r, i) -> "start"
                                                     [] OTHER -> job[r][j]]]
    /\ board' = Written(a, <<plan[r].key[i]>>, <<r, i>>)
    /\ UNCHANGED <<pc, plan, cleanup, retry, failed, registered, deleted>>

\* success=bool(output): the text of an error is an output.
Empty(r) == {i \in plan[r].todo : output[r][i] = "empty"}

\* failed[:2]
FirstTwo(S) == {i \in S : Cardinality({j \in S : j < i}) < 2}

\* All subtasks have returned: the hub looks for failed ones to retry.
PatternReturns(r) ==
    /\ pc[r] = "execute" /\ \A i \in plan[r].todo : job[r][i] = "done"
    /\ retry' = [retry EXCEPT ![r] = IF plan[r].pattern = "hub_spoke" THEN FirstTwo(Empty(r)) ELSE {}]
    /\ Goto(r, IF retry'[r] # {} THEN "hub" ELSE "aggregate")
    /\ UNCHANGED <<plan, cleanup, job, output, failed, registered, deleted, board>>

Again(r) == <<r, Least(retry[r]), "again">>

\* The hub's spawn_for_task(): an agent is designed, spawned and run, and its
\* answer replaces the empty one.
SpawnAgain(r) ==
    /\ pc[r] = "hub" /\ Again(r) \notin registered \cup deleted
    /\ registered' = registered \cup {Again(r)}
    /\ UNCHANGED <<pc, plan, cleanup, job, output, retry, failed, deleted, board>>

AgainReturns(r, a) ==
    /\ pc[r] = "hub" /\ Again(r) \in registered \cup deleted
    /\ output' = [output EXCEPT ![r][Least(retry[r])] = a]
    /\ retry' = [retry EXCEPT ![r] = @ \ {Least(@)}]
    /\ Goto(r, IF retry'[r] # {} THEN "hub" ELSE "aggregate")
    /\ board' = Written(a, Again(r), Again(r))
    /\ UNCHANGED <<plan, cleanup, job, failed, registered, deleted>>

\* The answers are put together, and the nodes removed.
Aggregate(r) ==
    /\ pc[r] = "aggregate"
    /\ Goto(r, "over")
    /\ Finally(r, registered)
    /\ board' = [board EXCEPT ![<<>>] = <<r>>]
    /\ UNCHANGED <<plan, cleanup, job, output, retry, failed, deleted>>

\* DELETE /agents/{agent_id}, at any time.
Delete(n) ==
    /\ n \in registered /\ Cardinality(deleted) < MaxDeletes
    /\ registered' = registered \ {n}
    /\ deleted' = deleted \cup {n}
    /\ UNCHANGED <<pc, plan, cleanup, job, output, retry, failed, board>>

Control(r) ==
    \/ DecomposedToNothing(r) \/ SpawnSingle(r)
    \/ \E p \in Plans[r] : Decomposed(r, p)
    \/ PatternReturns(r) \/ SpawnAgain(r) \/ Aggregate(r)
    \/ \E a \in Answer : SingleReturns(r, a) \/ AgainReturns(r, a)
Work(r, i) == \/ BeginSubtask(r, i) \/ SubtaskRaises(r, i)
              \/ \E a \in Answer : SubtaskReturns(r, i, a)

Next == \/ \E r \in Run : Start(r) \/ Control(r) \/ \E i \in Subtask : Work(r, i)
        \/ \E n \in registered : Delete(n)

\* The event loop runs what is ready, and calls of an LLM have timeouts.
Fairness == \A r \in Run : WF_vars(Control(r)) /\ \A i \in Subtask : WF_vars(Work(r, i))

Spec == Init /\ [][Next]_vars /\ Fairness

-----------------------------------------------------------------------------
(* Properties *)

Working(r) == {i \in Subtask : job[r][i] \in {"start", "llm"}}
Spawned(n) == n \in registered \cup deleted

\* The cleanup at the end of a run, in an error too, removes what the run has
\* spawned for its subtasks, and no other run's cleanup removes it earlier.
CleanupExact ==
    \A r \in Run :
        /\ pc[r] = "over" /\ cleanup[r] => registered \cap Nodes(r) = {}
        /\ pc[r] \in {"execute", "hub", "aggregate"} => \A i \in plan[r].todo : Spawned(<<r, i>>)

\* The slot k holds the answer of a subtask that was to write there.
Shown(k) ==
    \E q \in Run : \E j \in plan[q].todo :
        plan[q].key[j] = k /\ output[q][j] = "text" /\ board[<<k>>] = <<q, j>>

\* A run without an error ends when every subtask has returned and none of them
\* is at work.  An answer is lost to nothing but an answer: its slot holds it, or
\* that of a later subtask with the same key, of this run or of another; and
\* what the hub asked for again is in the slot of its node.  The hub retries the
\* first two whose output is empty, and no other.
ResultsTrue ==
    \A r \in Run : pc[r] = "over" /\ ~failed[r] =>
        /\ Working(r) = {}
        /\ \A i \in plan[r].todo :
              LET again == <<r, i, "again">>
                  before == {j \in plan[r].todo : j < i /\ Spawned(<<r, j, "again">>)}
              IN /\ output[r][i] # "none"
                 /\ output[r][i] = "text" =>
                      Shown(plan[r].key[i]) \/ (Spawned(again) /\ board[again] = again)
                 /\ output[r][i] = "empty" /\ plan[r].pattern = "hub_spoke" =>
                      Spawned(again) \/ Cardinality(before) = 2
                 /\ Spawned(again) => plan[r].pattern = "hub_spoke" /\ Cardinality(before) < 2

\* A run that has begun returns.
RunReturns == \A r \in Run : (pc[r] = "decompose") ~> (pc[r] = "over")

=============================================================================
