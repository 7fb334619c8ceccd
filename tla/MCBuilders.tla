------------------------------ MODULE MCBuilders ------------------------------
(* The builders on small plans, graphs and sets of calls. *)
EXTENDS Builders

-----------------------------------------------------------------------------
(* Plans of the coding pipeline *)

Three == 1..3

\* A plan of n steps with ids i, dependencies d, agents a, files f, of which
\* the steps in par are marked parallel.
Of(n, i, d, par, a, f) ==
    [steps |-> 1..n, id |-> i, deps |-> d, parallel |-> par, agent |-> a, path |-> f]

OneFile == [s \in Three |-> "a"]
Editors == [s \in Three |-> "editor"]
Ids == [s \in Three |-> s]

\* every pair of dependencies between two editors, cycles and unknown ids included
Pairs == {Of(2, Ids, <<d1, d2, {}>>, par, Editors, OneFile) :
             d1 \in {{}, {2}}, d2 \in {{}, {1}, {3}}, par \in SUBSET {1, 2}}
\* a join of two parallel editors; a fork; a join over two rounds; one id
\* twice; a failing agent
Triples == {Of(3, Ids, <<{}, {}, {1, 2}>>, {1, 2}, Editors, OneFile),
            Of(3, Ids, <<{}, {1}, {1}>>, {3}, Editors, <<"a", "a", "b">>),
            Of(3, Ids, <<{}, {1}, {1, 2}>>, {1, 3}, Editors, OneFile),
            Of(3, <<1, 1, 2>>, <<{}, {2}, {1}>>, {}, Editors, OneFile),
            Of(3, Ids, <<{}, {}, {2}>>, {1}, <<"editor", "terminal", "reviewer">>, OneFile)}
Nothing == Of(0, Ids, <<{}, {}, {}>>, {}, Editors, OneFile)
SomePlans == Pairs \cup Triples \cup {Nothing}

-----------------------------------------------------------------------------
(* Task graphs, workflows and calls of the others *)

\* no step; a join; forward references; a cycle; an unknown step; one id twice
GraphOf(ids, needs) == [i \in DOMAIN needs |-> [id |-> ids[i], needs |-> needs[i]]]
SomeTaskGraphs ==
    {GraphOf(<<1, 2, 3>>, q) :
         q \in {<<>>, <<{}, {1, 3}, {1}>>, <<{2}, {}, {1}>>, <<{}, {3}, {2}>>, <<{}, {9}>>}}
    \cup {GraphOf(<<1, 1, 2>>, <<{}, {2}, {1}>>)}

\* Any of these edges, one of them perhaps twice, a cycle, an unknown target;
\* and a condition with a path for true, for false or for both.
SomeEdges == <<<<1, 2, "none">>, <<1, 2, "none">>, <<1, 3, "none">>, <<3, 2, "none">>,
               <<2, 1, "none">>, <<1, 4, "none">>>>
Chosen(S) == SelectSeq(SomeEdges, LAMBDA e : \E i \in S : SomeEdges[i] = e)
Twice == [kind |-> <<"trigger", "output", "delay">>, edges |-> SubSeq(SomeEdges, 1, 4)]
SomeWorkflows ==
    {[kind |-> <<"trigger", k, "delay">>, edges |-> Chosen(S)] : S \in SUBSET (2..6), k \in {"delay", "output"}}
    \cup {[kind |-> <<"trigger", "delay", "condition", "output">>,
           edges |-> <<<<1, 2, "none">>, <<2, 3, "none">>, <<3, 4, c>>>>] : c \in {"none", "True", "False"}}

\* nothing, one entry, and two, which leave no place for another
SomeDeltas == {<<>>, <<"a">>, <<"b", "c">>}

\* Turns at the same time, and with every other request.
SomeKinds == {<<"turn", "turn", "turn">>, <<"turn", "turn", "get">>, <<"turn", "turn", "patch">>,
              <<"turn", "turn", "reset">>, <<"turn", "patch", "reset">>, <<"turn", "get", "reset">>}

-----------------------------------------------------------------------------

\* Where a part is not the one that runs, its choices at the start are made.
MCInit ==
    /\ BuildersInit
    /\ part = "coding" \/ plan = Nothing
    /\ part = "pipeline" \/ \A r \in Run : fix[r]
    /\ part = "workflows" \/ workflow = Twice
    /\ part = "profile" \/ kind = <<"turn", "turn", "turn">>

\* BuildersSpec from these states
MCSpec ==
    /\ MCInit /\ [][BuildersNext]_buildersVars
    /\ part = "coding" => Fairness
=============================================================================
