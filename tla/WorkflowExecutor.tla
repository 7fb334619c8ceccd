--------------------------- MODULE WorkflowExecutor ---------------------------
(***************************************************************************)
(* The workflow engine (packages/workflow-engine): execute() runs the      *)
(* steps of a workflow in rounds.  Each round takes the steps that are     *)
(* ready and runs them one after the other; a conditional step runs the    *)
(* steps of the branch it chooses, a parallel step runs its sub-steps in   *)
(* asyncio tasks of their own, under a semaphore.  A step's handler is     *)
(* tried again under its retry policy, and the workflow may be cancelled   *)
(* at any await.                                                           *)
(*                                                                         *)
(* Steps are numbered in the order of Workflow.steps.  Handlers, and the   *)
(* transforms around them, either succeed or fail.                         *)
(***************************************************************************)
EXTENDS Naturals, FiniteSets, Sequences

CONSTANTS Step,      \* a set of numbers
          Workflows  \* the workflows that are run

\* What the builders make, and any other workflow whose groups hold tasks.
ASSUME WorkflowAssumption ==
    /\ Step \subseteq Nat
    /\ \A w \in Workflows :
        /\ w.steps \subseteq Step                  \* the steps it has
        /\ w.deps \in [Step -> SUBSET Step]        \* depends_on
        /\ \A s \in Step \ w.steps : w.deps[s] = {}
        /\ w.kind \in [Step -> {"task", "conditional", "parallel"}]
        /\ w.branches \in [Step -> Seq(Seq(w.steps))] \* of a conditional step
        /\ w.group \in [Step -> SUBSET Step]       \* of a parallel step
        /\ \A s \in Step : \A q \in w.group[s] : w.kind[q] = "task"
        /\ \A s \in Step : \A i \in DOMAIN w.branches[s] :
              \A k \in DOMAIN w.branches[s][i] : w.kind[w.branches[s][i][k]] = "task"
        /\ w.width \in Nat /\ w.failFast \in BOOLEAN
        /\ w.retries \in [Step -> Nat]

Status == {"pending", "running", "completed", "failed", "skipped"}

VARIABLES
    wf,     \* the workflow
    state,  \* Workflow.status
    status, \* status[s]: WorkflowStep.status
    phase,  \* where execute() is: "pick" ready steps, "for" the next of them,
            \* inside a "task", a "branch" or a "group", or "ended"
    ready,  \* the steps of this round still to run
    cur,    \* the step that execute() is in
    todo,   \* the steps of the chosen branch still to run, current one first
    pool,   \* pool[s]: the asyncio task of a parallel sub-step
    tries,  \* tries[s]: attempts of the handler in progress, 0 if it is not
    runs,   \* runs[s]: how often the step was executed
    chosen, \* the steps of the branches that were chosen
    good,   \* completed_steps
    bad     \* failed_steps

vars == <<wf, state, status, phase, ready, cur, todo, pool, tries, runs, chosen, good, bad>>
counts == <<good, bad>>

Steps == wf.steps
Dependents(s) == {q \in Steps : s \in wf.deps[q]}

Init ==
    /\ wf \in Workflows
    /\ state = "running"
    /\ status = [s \in Step |-> "pending"]
    /\ phase = "pick"
    /\ ready = {}
    /\ cur = 0
    /\ todo = <<>>
    /\ pool = [s \in Step |-> "none"]
    /\ tries = [s \in Step |-> 0]
    /\ runs = [s \in Step |-> 0]
    /\ chosen = {}
    /\ good = 0
    /\ bad = 0

-----------------------------------------------------------------------------
(* Handlers *)

\* The handler of s is called, as a first attempt.
Begin(s) ==
    /\ tries' = [tries EXCEPT ![s] = 1]
    /\ runs' = [runs EXCEPT ![s] = @ + 1]

\* The handler of s, or its last attempt, returns or fails.
End(s) ==
    /\ tries[s] > 0
    /\ tries' = [tries EXCEPT ![s] = 0]
    /\ UNCHANGED runs

\* execute_with_retry(): a retryable failure, the backoff, the next attempt.
Retry(s) ==
    /\ tries[s] \in 1..wf.retries[s]
    /\ tries' = [tries EXCEPT ![s] = @ + 1]
    /\ UNCHANGED <<wf, state, status, phase, ready, cur, todo, pool, runs, chosen, counts>>

-----------------------------------------------------------------------------
(* Rounds *)

\* Mutant of Ready: a step waits for one of its dependencies only.
ReadyAny ==
    {s \in Steps : status[s] = "pending"
        /\ (wf.deps[s] = {} \/ \E d \in wf.deps[s] : d \in Steps /\ status[d] = "completed")}

\* get_ready_steps()
Ready ==
    {s \in Steps : status[s] = "pending"
        /\ \A d \in wf.deps[s] : d \in Steps /\ status[d] = "completed"}

Pick ==
    /\ phase = "pick" /\ Ready # {}
    /\ ready' = Ready
    /\ phase' = "for"
    /\ UNCHANGED <<wf, state, status, cur, todo, pool, tries, runs, chosen, counts>>

\* Mutant of Finish: the status does not look at the failed steps.
FinishCompleted ==
    /\ phase = "pick" /\ Ready = {}
    /\ state' = "completed"
    /\ phase' = "ended"
    /\ UNCHANGED <<wf, status, ready, cur, todo, pool, tries, runs, chosen, counts>>

\* No step is ready: the workflow is over.
Finish ==
    /\ phase = "pick" /\ Ready = {}
    /\ state' = IF bad > 0 THEN "failed" ELSE "completed"
    /\ phase' = "ended"
    /\ UNCHANGED <<wf, status, ready, cur, todo, pool, tries, runs, chosen, counts>>

\* The next ready step is marked running ...
IsNext(s) == s \in ready /\ \A q \in ready : s <= q

Enter(s, p) ==
    /\ phase = "for" /\ IsNext(s)
    /\ ready' = ready \ {s}
    /\ cur' = s
    /\ phase' = p
    /\ status' = [status EXCEPT ![s] = "running"]

\* ... and executed: a task,
EnterTask(s) ==
    /\ wf.kind[s] = "task"
    /\ Enter(s, "task")
    /\ Begin(s)
    /\ UNCHANGED <<wf, state, todo, pool, chosen, counts>>

\* a conditional step that runs its first branch whose condition is true,
EnterBranch(s, i) ==
    /\ wf.kind[s] = "conditional" /\ i \in DOMAIN wf.branches[s]
    /\ Enter(s, "branch")
    /\ todo' = wf.branches[s][i]
    /\ chosen' = chosen \cup {wf.branches[s][i][k] : k \in DOMAIN wf.branches[s][i]}
    /\ UNCHANGED <<wf, state, pool, tries, runs, counts>>

\* or none,
EnterNoBranch(s) ==
    /\ wf.kind[s] = "conditional"
    /\ Enter(s, "branch")
    /\ todo' = <<>>
    /\ UNCHANGED <<wf, state, pool, tries, runs, chosen, counts>>

\* a parallel step that creates the tasks of its sub-steps.
EnterGroup(s) ==
    /\ wf.kind[s] = "parallel"
    /\ Enter(s, "group")
    /\ pool' = [q \in Step |-> IF q \in wf.group[s] \cap Steps THEN "queued" ELSE "none"]
    /\ UNCHANGED <<wf, state, todo, tries, runs, chosen, counts>>

Complete(s) ==
    /\ status' = [status EXCEPT ![s] = "completed"]
    /\ good' = good + 1
    /\ phase' = "for"
    /\ UNCHANGED bad

\* Mutant of Fail: the dependents are left pending.
FailAlone(s) ==
    /\ status' = [status EXCEPT ![s] = "failed"]
    /\ bad' = bad + 1
    /\ phase' = "for"
    /\ UNCHANGED good

\* A failed step skips its dependents, whatever their status.
Fail(s) ==
    /\ status' = [q \in Step |-> IF q \in Dependents(s) THEN "skipped"
                                 ELSE IF q = s THEN "failed" ELSE status[q]]
    /\ bad' = bad + 1
    /\ phase' = "for"
    /\ UNCHANGED good

TaskEnds(ok) ==
    /\ phase = "task"
    /\ End(cur)
    /\ IF ok THEN Complete(cur) ELSE Fail(cur)
    /\ UNCHANGED <<wf, state, ready, cur, todo, pool, chosen>>

\* The evaluation of a condition raises, before any sub-step runs.
ConditionFails(s) ==
    /\ wf.kind[s] = "conditional"
    /\ phase = "for" /\ IsNext(s)
    /\ ready' = ready \ {s}
    /\ cur' = s
    /\ Fail(s)
    /\ UNCHANGED <<wf, state, todo, pool, tries, runs, chosen>>

\* After the round: pending steps with a failed dependency are skipped.
Sweep ==
    /\ phase = "for" /\ ready = {}
    /\ status' = [s \in Step |->
          IF s \in Steps /\ status[s] = "pending"
             /\ \E d \in wf.deps[s] \cap Steps : status[d] = "failed"
          THEN "skipped" ELSE status[s]]
    /\ phase' = "pick"
    /\ UNCHANGED <<wf, state, ready, cur, todo, pool, tries, runs, chosen, counts>>

-----------------------------------------------------------------------------
(* Conditional steps *)

\* The branch's next step runs, whatever it depends on and whatever its status.
BranchStarts ==
    /\ phase = "branch" /\ todo # <<>>
    /\ LET s == Head(todo) IN
       /\ tries[s] = 0
       /\ status' = [status EXCEPT ![s] = "running"]
       /\ Begin(s)
    /\ UNCHANGED <<wf, state, phase, ready, cur, todo, pool, chosen, counts>>

\* Its failure is recorded, the branch goes on.
BranchEnds(ok) ==
    /\ phase = "branch" /\ todo # <<>>
    /\ LET s == Head(todo) IN
       /\ End(s)
       /\ status' = [status EXCEPT ![s] = IF ok THEN "completed" ELSE "failed"]
    /\ todo' = Tail(todo)
    /\ UNCHANGED <<wf, state, phase, ready, cur, pool, chosen, counts>>

BranchReturns ==
    /\ phase = "branch" /\ todo = <<>>
    /\ Complete(cur)
    /\ UNCHANGED <<wf, state, ready, cur, todo, pool, tries, runs, chosen>>

-----------------------------------------------------------------------------
(* Parallel steps *)

In(p) == {s \in Step : pool[s] = p}

\* run_sub_step() passes the semaphore, ...
SubStarts(s) ==
    /\ pool[s] = "queued" /\ Cardinality(In("running")) < wf.width
    /\ pool' = [pool EXCEPT ![s] = "running"]
    /\ status' = [status EXCEPT ![s] = "running"]
    /\ Begin(s)
    /\ UNCHANGED <<wf, state, phase, ready, cur, todo, chosen, counts>>

\* Mutant of SubEnds: the slot of the semaphore is not given back.
SubEndsHolding(s, ok) ==
    /\ pool[s] = "running"
    /\ End(s)
    /\ status' = [status EXCEPT ![s] = IF ok THEN "completed" ELSE "failed"]
    /\ UNCHANGED <<wf, state, phase, ready, cur, todo, pool, chosen, counts>>

\* ... and ends; only with fail_fast does a failure leave the task.
SubEnds(s, ok) ==
    /\ pool[s] = "running"
    /\ End(s)
    /\ status' = [status EXCEPT ![s] = IF ok THEN "completed" ELSE "failed"]
    /\ pool' = [pool EXCEPT ![s] = IF ~ok /\ wf.failFast THEN "raised" ELSE "done"]
    /\ UNCHANGED <<wf, state, phase, ready, cur, todo, chosen, counts>>

\* Mutant of GroupReturns: FIRST_COMPLETED instead of ALL_COMPLETED.
GroupReturnsEarly ==
    /\ phase = "group"
    /\ In("done") \cup In("raised") # {}
    /\ status' = [status EXCEPT ![cur] = "completed"]
    /\ good' = good + 1
    /\ phase' = "for"
    /\ UNCHANGED <<wf, state, ready, cur, todo, pool, tries, runs, chosen, bad>>

\* asyncio.wait() returns when all tasks are done or, with fail_fast, one has
\* raised: then the others are cancelled, and those already running marked
\* failed.  The parallel step itself completes in any case.
GroupReturns ==
    /\ phase = "group"
    /\ \/ In("queued") \cup In("running") = {}
       \/ In("raised") # {}
    /\ status' = [s \in Step |-> IF s = cur THEN "completed"
                                 ELSE IF pool[s] = "running" THEN "failed" ELSE status[s]]
    /\ tries' = [s \in Step |-> IF pool[s] = "running" THEN 0 ELSE tries[s]]
    /\ pool' = [s \in Step |-> "none"]
    /\ good' = good + 1
    /\ phase' = "for"
    /\ UNCHANGED <<wf, state, ready, cur, todo, runs, chosen, bad>>

-----------------------------------------------------------------------------
(* Cancellation *)

\* The task that awaits execute() is cancelled.  What is awaited ends with it,
\* except the tasks of a group, which asyncio.wait() leaves alone.
Suspended == phase = "group" \/ \E s \in Step : tries[s] > 0

Cancel ==
    /\ phase \in {"task", "branch", "group"} /\ Suspended
    /\ state' = "cancelled"
    /\ status' = [s \in Step |-> IF status[s] = "running" THEN "failed" ELSE status[s]]
    /\ tries' = IF phase = "group" THEN tries ELSE [s \in Step |-> 0]
    /\ phase' = "ended"
    /\ UNCHANGED <<wf, ready, cur, todo, pool, runs, chosen, counts>>

-----------------------------------------------------------------------------

Main ==
    \/ Pick
    \/ Finish
    \/ \E s \in Step :
          \/ EnterTask(s)
          \/ \E i \in 1..2 : EnterBranch(s, i)
          \/ EnterNoBranch(s)
          \/ ConditionFails(s)
          \/ EnterGroup(s)
    \/ \E ok \in BOOLEAN : TaskEnds(ok) \/ BranchEnds(ok)
    \/ Sweep
    \/ BranchStarts
    \/ BranchReturns
    \/ GroupReturns

Sub(s) == SubStarts(s) \/ \E ok \in BOOLEAN : SubEnds(s, ok)

Next == Main \/ Cancel \/ \E s \in Step : Sub(s) \/ Retry(s)

Spec == Init /\ [][Next]_vars

\* The event loop runs what is ready, and handlers end; nobody has to cancel.
Fairness == WF_vars(Main) /\ \A s \in Step : WF_vars(Sub(s))

FairSpec == Spec /\ Fairness

-----------------------------------------------------------------------------
(* Properties *)

\* Every variable keeps its type.
TypeOK ==
    /\ wf \in Workflows
    /\ state \in {"running", "completed", "failed", "cancelled"}
    /\ status \in [Step -> Status]
    /\ phase \in {"pick", "for", "task", "branch", "group", "ended"}
    /\ ready \in SUBSET Steps
    /\ cur \in Step \cup {0}
    /\ todo \in Seq(Steps)
    /\ pool \in [Step -> {"none", "queued", "running", "done", "raised"}]
    /\ tries \in [Step -> Nat]
    /\ runs \in [Step -> Nat]
    /\ chosen \in SUBSET Steps
    /\ good \in Nat /\ bad \in Nat

\* A workflow of plain tasks: what build_linear_pipeline() makes, or any DAG.
Plain == \A s \in Step : wf.kind[s] = "task"

\* The executor keeps DagPromise for workflows of plain tasks.
Promise == INSTANCE DagPromise WITH
    deps <- wf.deps,
    st <- [s \in Step |-> IF Plain THEN status[s] ELSE "pending"]

KeepsPromise == Promise!Spec

With(p) == {s \in Steps : status[s] = p}
Over == phase = "ended" /\ state # "cancelled"

\* Every step can be reached: dependencies exist and have no cycle.
Grounded ==
    /\ \A s \in Steps : wf.deps[s] \subseteq Steps
    /\ \A S \in SUBSET Steps : S # {} => \E s \in S : wf.deps[s] \cap S = {}

\* The result tells the truth: if its dependencies make sense, which nothing
\* checks, a plain workflow is reported completed only if every step of it has
\* completed; its counters are those of its steps in any case.
ResultTrue ==
    Plain /\ Over =>
        /\ Grounded => (state = "completed" <=> With("completed") = Steps)
        /\ good = Cardinality(With("completed"))
        /\ bad = Cardinality(With("failed"))

\* Every step of a plain workflow that is over is accounted for: it ran once, or
\* it was skipped for a failed dependency, or it waits for one that never ran or
\* that there is not.
Accounted ==
    Plain /\ Over => \A s \in Steps :
        /\ runs[s] = IF status[s] \in {"completed", "failed"} THEN 1 ELSE 0
        /\ status[s] = "skipped" => wf.deps[s] \cap With("failed") # {}
        /\ status[s] = "pending" => wf.deps[s] \ (With("completed") \cup With("failed")) # {}

\* Handlers do not pile up: inside a group no more of them run at once than its
\* max_concurrency, outside no more than one, also after re-runs and failures.
HandlersBounded ==
    Cardinality({s \in Step : tries[s] > 0})
        <= IF phase = "group" \/ state = "cancelled" THEN wf.width ELSE 1

\* Every execution ends: rounds, branches, groups and retries run out.
ExecutionEnds == <>(phase = "ended")

\* "Steps to run if condition is true": when the workflow has completed, a
\* step of a branch has run only if the branch was chosen.
BranchOnlyIfTrue ==
    state = "completed" => \A s, c \in Steps :
        /\ runs[s] > 0
        /\ \E i \in DOMAIN wf.branches[c] : \E k \in DOMAIN wf.branches[c][i] :
              wf.branches[c][i][k] = s
        => s \in chosen

=============================================================================
