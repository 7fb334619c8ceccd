------------------------------ MODULE AppWorkflow ------------------------------
(***************************************************************************)
(* The workflow engine of the application (workflows/engine.py, models.py  *)
(* and router.py): a graph is stored, replaced in place, deleted and       *)
(* executed node by node in topological order.  Only a delay node waits    *)
(* (an LLM node's call fails before it is made, on an undefined name), so  *)
(* other requests come in between at delays alone.                         *)
(*                                                                         *)
(* A graph is a function of its nodes 1..n, in the order of the list, to   *)
(* their kind, and the list of its edges <<source, target, condition>>.    *)
(***************************************************************************)
EXTENDS Naturals, Sequences, FiniteSets

CONSTANTS Graphs,    \* what clients may send
          Execution, \* calls of execute_workflow()
          MaxUpdates \* bound: PUT requests

WorkflowsAssumption ==
    /\ MaxUpdates \in Nat
    /\ Graphs \subseteq [kind : Seq(STRING), edges : Seq(Nat \X Nat \X {"none", "True", "False"})]

VARIABLES
    workflow, \* the one workflow: the object that is changed in place
    stored,   \* is it still in _workflows?
    updates,
    state,    \* state[e]: "idle", "refused", "running", "delayed", "completed", "error"
    graph,    \* graph[e]: the workflow as it was validated and sorted
    order,    \* order[e]: sorted_nodes
    ran       \* ran[e]: the nodes whose output is in the context, in order

appVars == <<workflow, stored, updates, state, graph, order, ran>>

Init ==
    /\ workflow \in Graphs /\ stored = TRUE /\ updates = 0
    /\ state = [e \in Execution |-> "idle"]
    /\ graph = [e \in Execution |-> [kind |-> <<>>, edges |-> <<>>]]
    /\ order = [e \in Execution |-> <<>>]
    /\ ran = [e \in Execution |-> <<>>]

Nodes(g) == DOMAIN g.kind
Rows(g) == DOMAIN g.edges
Source(g, i) == g.edges[i][1]
Target(g, i) == g.edges[i][2]
Condition(g, i) == g.edges[i][3]

\* No code runs between two awaits of another request.
Undisturbed == \A e \in Execution : state[e] # "running"

-----------------------------------------------------------------------------
(* WorkflowDefinition.validate() and _topological_sort() *)

\* From a node back to itself along edges: a set that is its own image.
Cyclic(g) ==
    \E S \in SUBSET Nodes(g) \ {{}} : \A n \in S : \E i \in Rows(g) : Target(g, i) = n /\ Source(g, i) \in S

Valid(g) ==
    /\ \A i \in Rows(g) : {Source(g, i), Target(g, i)} \subseteq Nodes(g)
    /\ \E n \in Nodes(g) : g.kind[n] = "trigger"
    /\ ~Cyclic(g)

\* Edges into n from the nodes of S, up to row i of the list
Degree(g, n, S, i) == Cardinality({j \in 1..i : Target(g, j) = n /\ Source(g, j) \in S})

\* The members of a set of numbers in order
InOrder(S) ==
    CHOOSE q \in [1..Cardinality(S) -> S] : \A i, j \in DOMAIN q : i < j => q[i] < q[j]

\* Mutant of Freed: a node is queued at the first edge that reaches it.
FreedEarly(g, n, deg) ==
    InOrder({i \in Rows(g) : Source(g, i) = n /\ Degree(g, Target(g, i), {n}, i) = 1})

\* The rows at which taking n out brings the degree of the row's target to 0.
Freed(g, n, deg) ==
    InOrder({i \in Rows(g) : Source(g, i) = n /\ deg[Target(g, i)] = Degree(g, Target(g, i), {n}, i)})

\* Kahn's algorithm: where its loop starts, and what a turn makes of it
SortStart(g) ==
    LET deg == [n \in Nodes(g) |-> Degree(g, n, Nodes(g), Len(g.edges))]
    IN [queue |-> InOrder({n \in Nodes(g) : deg[n] = 0}), deg |-> deg, out |-> <<>>]

SortTurn(g, s) ==
    LET n == Head(s.queue)
        rows == Freed(g, n, s.deg)
    IN IF s.queue = <<>> THEN s
       ELSE [queue |-> Tail(s.queue) \o [i \in DOMAIN rows |-> Target(g, rows[i])],
             deg |-> [m \in Nodes(g) |-> s.deg[m] - Degree(g, m, {n}, Len(g.edges))],
             out |-> Append(s.out, n)]

Sorted(g) ==
    LET s[k \in 0..Len(g.kind)] == IF k = 0 THEN SortStart(g) ELSE SortTurn(g, s[k - 1])
    IN s[Len(g.kind)].out

-----------------------------------------------------------------------------
(* Requests *)

\* PUT replaces the nodes, the edges or both, without a validation.
Update ==
    /\ Undisturbed /\ stored /\ updates < MaxUpdates
    /\ \E g, h \in Graphs \cup {workflow} : workflow' = [kind |-> g.kind, edges |-> h.edges]
    /\ updates' = updates + 1
    /\ UNCHANGED <<stored, state, graph, order, ran>>

Delete ==
    /\ Undisturbed /\ stored
    /\ stored' = FALSE
    /\ UNCHANGED <<workflow, updates, state, graph, order, ran>>

\* execute_workflow() up to its loop: not found, or not valid, is a ValueError.
Execute(e) ==
    /\ Undisturbed /\ state[e] = "idle"
    /\ IF ~stored \/ ~Valid(workflow)
       THEN /\ state' = [state EXCEPT ![e] = "refused"]
            /\ UNCHANGED <<graph, order>>
       ELSE /\ state' = [state EXCEPT ![e] = "running"]
            /\ graph' = [graph EXCEPT ![e] = workflow]
            /\ order' = [order EXCEPT ![e] = Sorted(workflow)]
    /\ UNCHANGED <<workflow, stored, updates, ran>>

Current(e) == order[e][Len(ran[e]) + 1]
\* _resolve_condition(): is there a first edge to go on by?
HasPath(g, n, result) ==
    \E i \in Rows(g) :
        Source(g, i) = n /\ Condition(g, i) \in (IF result THEN {"none", "True"} ELSE {"False"})

\* Nodes that do not wait.  A condition without a path ends the execution; one
\* with a path does not choose: the next node of the order runs.
RunNode(e) ==
    /\ state[e] = "running" /\ Len(ran[e]) < Len(order[e])
    /\ LET n == Current(e)  kind == graph[e].kind[n] IN
       /\ kind # "delay"
       /\ ran' = [ran EXCEPT ![e] = Append(@, n)]
       /\ IF kind = "condition"
          THEN \E result \in BOOLEAN :
                  state' = IF HasPath(workflow, n, result) THEN state ELSE [state EXCEPT ![e] = "completed"]
          ELSE UNCHANGED state
    /\ UNCHANGED <<workflow, stored, updates, graph, order>>

\* A delay waits, or its seconds are no number.
Delay(e) ==
    /\ state[e] = "running" /\ Len(ran[e]) < Len(order[e]) /\ graph[e].kind[Current(e)] = "delay"
    /\ \E s \in {"delayed", "error"} : state' = [state EXCEPT ![e] = s]
    /\ UNCHANGED <<workflow, stored, updates, graph, order, ran>>

WakeUp(e) ==
    /\ Undisturbed /\ state[e] = "delayed"
    /\ state' = [state EXCEPT ![e] = "running"]
    /\ ran' = [ran EXCEPT ![e] = Append(@, Current(e))]
    /\ UNCHANGED <<workflow, stored, updates, graph, order>>

Complete(e) ==
    /\ state[e] = "running" /\ Len(ran[e]) = Len(order[e])
    /\ state' = [state EXCEPT ![e] = "completed"]
    /\ UNCHANGED <<workflow, stored, updates, graph, order, ran>>

Next ==
    \/ Update \/ Delete
    \/ \E e \in Execution : Execute(e) \/ RunNode(e) \/ Delay(e) \/ WakeUp(e) \/ Complete(e)

Spec == Init /\ [][Next]_appVars

-----------------------------------------------------------------------------
(* Properties *)

\* An execution runs no node twice and none before all nodes that lead to it in
\* the graph it was started with, and is completed after the whole graph, or at
\* a condition; what is sent meanwhile can only make it stop at one.
GraphInOrder ==
    \A e \in Execution :
        /\ \A i, j \in DOMAIN ran[e] : ran[e][i] = ran[e][j] => i = j
        /\ \A j \in DOMAIN ran[e], k \in DOMAIN graph[e].edges :
            Target(graph[e], k) = ran[e][j] => \E i \in 1..(j - 1) : ran[e][i] = Source(graph[e], k)
        /\ state[e] = "completed" =>
            \/ {ran[e][i] : i \in DOMAIN ran[e]} = Nodes(graph[e])
            \/ graph[e].kind[ran[e][Len(ran[e])]] = "condition"
=============================================================================
