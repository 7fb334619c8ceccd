-------------------------- MODULE MCWorkflowExecutor --------------------------
(* WorkflowExecutor on the workflows the builders make, and a few others. *)
EXTENDS WorkflowExecutor

FourSteps == 1..4

\* Step s of a workflow of n steps depends on d[s] and is of kind k[s].
Of(n, d, k, branches, group, width, failFast, retries) ==
    [steps |-> 1..n,
     deps |-> [s \in FourSteps |-> IF s <= n THEN d[s] ELSE {}],
     kind |-> [s \in FourSteps |-> IF s <= n THEN k[s] ELSE "task"],
     branches |-> [s \in FourSteps |-> IF s <= n /\ k[s] = "conditional" THEN branches ELSE <<>>],
     group |-> [s \in FourSteps |-> IF s <= n /\ k[s] = "parallel" THEN group ELSE {}],
     width |-> width, failFast |-> failFast,
     retries |-> [s \in FourSteps |-> retries]]

Tasks == <<"task", "task", "task", "task">>
\* every DAG of three steps, in every order, with one retry; and a diamond
Acyclic(d) == \E rank \in [1..3 -> 1..3] : \A s \in 1..3 : \A q \in d[s] : rank[q] < rank[s]
Dags == {d \in [1..3 -> SUBSET (1..3)] : Acyclic(d)}
Diamond == Of(4, <<{}, {1}, {1}, {2, 3}>>, Tasks, <<>>, {}, 1, FALSE, 0)
\* and dependencies that cannot be met: on each other, on a step there is not
Cycle == Of(3, <<{2}, {1}, {}>>, Tasks, <<>>, {}, 1, FALSE, 0)
Dangling == Of(3, <<{}, {1, 4}, {2}>>, Tasks, <<>>, {}, 1, FALSE, 0)
PlainWorkflows == {Cycle, Dangling, Diamond} \cup {Of(3, d, Tasks, <<>>, {}, 1, FALSE, 1) : d \in Dags}
\* build_conditional_workflow(if_branch = [1, 2], else_branch = [3])
Conditional == Of(4, <<{}, {1}, {}, {}>>, <<"task", "task", "task", "conditional">>,
                  <<<<1, 2>>, <<3>>>>, {}, 1, FALSE, 0)
\* build_parallel_pipeline([[1, 2], [3]])
Parallel == Of(4, <<{}, {1}, {}, {}>>, <<"task", "task", "task", "parallel">>,
               <<>>, {1, 3}, 2, FALSE, 1)
\* a group before its sub-steps, with fail_fast and a semaphore that is short
FailFast == Of(4, <<{}, {}, {}, {}>>, <<"parallel", "task", "task", "task">>,
               <<>>, {2, 3, 4}, 2, TRUE, 0)

AllWorkflows == PlainWorkflows \cup {Conditional, Parallel, FailFast}
OnlyConditional == {Conditional}

=============================================================================
