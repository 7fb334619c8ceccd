---------------------------- MODULE CodingPipeline ----------------------------
(***************************************************************************)
(* The coding pipeline (agents/orchestrator.py): run() takes a task        *)
(* through its phases, then executes the steps of the plan in batches:     *)
(* the ready steps marked parallel in one asyncio.gather(), then the       *)
(* other ready ones one by one.  A step is tried again after a failure;    *)
(* an editor's step is in swarm mode a contest of two editors.  The edits  *)
(* that come out are collected, and a reviewer sees them at the end.       *)
(*                                                                         *)
(* An action is what happens between two awaits.  Steps are numbered by    *)
(* their place in the plan; a plan is written by an LLM, so that ids may   *)
(* repeat and dependencies may be cyclic or name nothing.                  *)
(***************************************************************************)
EXTENDS Naturals, Sequences, FiniteSets

CONSTANTS Step,       \* the places of steps: 1..n
          Id,         \* ids of steps
          Path,       \* files
          Plans,      \* the plans the planner may return
          MaxRetries, \* _STEP_MAX_RETRIES
          Swarm       \* jarvis_swarm_mode

Agent == {"editor", "terminal", "reviewer", "file_picker"}

ASSUME PipelineAssumption ==
    /\ Step \subseteq Nat \ {0} /\ IsFiniteSet(Step)
    /\ MaxRetries \in Nat \ {0}
    /\ Swarm \in BOOLEAN
    /\ Plans \subseteq [steps : SUBSET Step, id : [Step -> Id], deps : [Step -> SUBSET Id],
                        parallel : SUBSET Step, agent : [Step -> Agent], path : [Step -> Path]]

VARIABLES
    phase,     \* the phase of run(), or how it ended
    cancelled, \* cancel_event
    plan,      \* steps
    remaining, \* the steps still in the loop
    completed, \* completed_ids
    iteration, \* rounds of the loop
    batch,     \* the steps of this round's gather()
    queue,     \* the steps of this round still to run one by one
    st,        \* st[s]: where _execute_step_with_retry() of s is
    tries,     \* tries[s]: its attempts
    seen,      \* seen[s]: the file_contents its last attempt was given
    edit,      \* edit[s]: the edit in its result
    contents,  \* file_contents: per file the step that wrote it, 0 at first
    edits      \* all_edits, as the steps they come from

vars == <<phase, cancelled, plan, remaining, completed, iteration, batch, queue,
          st, tries, seen, edit, contents, edits>>
loop == <<plan, remaining, completed, iteration, batch, queue>>
work == <<st, tries, seen, edit>>
files == <<contents, edits>>

NoEdit == "none"
Mode == {"replace", "patch"}
Original == 0
Version == Step \cup {Original}
Before == {"start", "compress", "spec", "file_picker", "load_files", "planner"}
Over == {"done", "cancelled", "error", "abandoned"}
Idle == {"idle", "ok", "failed"}

TypeOK ==
    /\ phase \in Before \cup {"loop", "parallel", "sequential", "review"} \cup Over
    /\ cancelled \in BOOLEAN
    /\ plan \in Plans
    /\ remaining \subseteq plan.steps
    /\ completed \subseteq Id
    /\ iteration \in Nat
    /\ batch \subseteq Step /\ queue \subseteq Step
    /\ st \in [Step -> Idle \cup {"ready", "running", "fallback", "waiting"}]
    /\ tries \in [Step -> 0..MaxRetries]
    /\ seen \in [Step -> [Path -> Version]]
    /\ edit \in [Step -> Mode \cup {NoEdit}]
    /\ contents \in [Path -> Version]
    /\ edits \in Seq(Step)

Untouched == [p \in Path |-> Original]

\* The plan is chosen at the start and read once the planner returns.
Init ==
    /\ phase = "start"
    /\ cancelled = FALSE
    /\ plan \in Plans
    /\ remaining = {}
    /\ completed = {}
    /\ iteration = 0
    /\ batch = {}
    /\ queue = {}
    /\ st = [s \in Step |-> "idle"]
    /\ tries = [s \in Step |-> 0]
    /\ seen = [s \in Step |-> Untouched]
    /\ edit = [s \in Step |-> NoEdit]
    /\ contents = Untouched
    /\ edits = <<>>

-----------------------------------------------------------------------------
(* The phases before the loop *)

Following == [start |-> "compress", compress |-> "spec", spec |-> "file_picker",
              file_picker |-> "load_files", load_files |-> "planner"]

\* An agent returns; the next phase looks at cancel_event, loading files does not.
NextPhase ==
    /\ phase \in DOMAIN Following
    /\ phase' = IF cancelled /\ Following[phase] # "load_files" THEN "cancelled" ELSE Following[phase]
    /\ UNCHANGED <<cancelled, loop, work, files>>

\* The planner returns: without steps the run is over.
PlanReturned ==
    /\ phase = "planner"
    /\ phase' = IF plan.steps = {} THEN "error" ELSE IF cancelled THEN "cancelled" ELSE "loop"
    /\ remaining' = plan.steps
    /\ UNCHANGED <<cancelled, plan, completed, iteration, batch, queue, work, files>>

-----------------------------------------------------------------------------
(* The loop over the steps *)

\* Mutant of Ready: any() instead of all().
ReadyWithAny == {s \in remaining : plan.deps[s] = {} \/ plan.deps[s] \cap completed # {}}

Ready == {s \in remaining : plan.deps[s] \subseteq completed}

\* Mutant of MaxIterations: as many rounds as there are parallel steps.
ParallelRounds == Cardinality(plan.parallel) + 1

\* guard against infinite loop
MaxIterations == Cardinality(plan.steps) + 5

\* Mutant of StartRound: cancel_event is not looked at between rounds.
StartRoundUnasked ==
    /\ phase = "loop" /\ remaining # {} /\ iteration < MaxIterations
    /\ iteration' = iteration + 1
    /\ batch' = Ready \cap plan.parallel
    /\ queue' = Ready \ plan.parallel
    /\ phase' = IF Ready = {} THEN "review" ELSE IF batch' # {} THEN "parallel" ELSE "sequential"
    /\ st' = [s \in Step |-> IF s \in batch' THEN "ready" ELSE st[s]]
    /\ UNCHANGED <<cancelled, plan, remaining, completed, tries, seen, edit, files>>

\* A round begins: cancelled, with the parallel steps, with the others, or not
\* at all because no step is ready (a cycle, or an id that does not exist).
StartRound ==
    /\ phase = "loop" /\ remaining # {} /\ iteration < MaxIterations
    /\ iteration' = iteration + 1
    /\ \/ /\ cancelled
          /\ phase' = "cancelled"
          /\ UNCHANGED <<batch, queue, st>>
       \/ /\ ~cancelled /\ Ready # {}
          /\ batch' = Ready \cap plan.parallel
          /\ queue' = Ready \ plan.parallel
          /\ phase' = IF batch' # {} THEN "parallel" ELSE "sequential"
          /\ st' = [s \in Step |-> IF s \in batch' THEN "ready" ELSE st[s]]
       \/ /\ ~cancelled /\ Ready = {}
          /\ phase' = "review"
          /\ UNCHANGED <<batch, queue, st>>
    /\ UNCHANGED <<cancelled, plan, remaining, completed, tries, seen, edit, files>>

EndOfRound(ids) == {s \in remaining : plan.id[s] \notin ids}

\* The steps of a set in the order of the plan
InOrder(S) ==
    CHOOSE q \in [1..Cardinality(S) -> S] : \A i, j \in DOMAIN q : i < j => q[i] < q[j]

HasEdit(s) == st[s] = "ok" /\ edit[s] # NoEdit

\* gather() returns: the edits of the successful steps are collected in order.
CollectBatch ==
    /\ phase = "parallel" /\ \A s \in batch : st[s] \in {"ok", "failed"}
    /\ edits' = edits \o InOrder({s \in batch : HasEdit(s)})
    /\ completed' = completed \cup {plan.id[s] : s \in batch}
    /\ batch' = {}
    /\ phase' = IF queue # {} THEN "sequential" ELSE "loop"
    /\ remaining' = IF queue # {} THEN remaining ELSE EndOfRound(completed')
    /\ UNCHANGED <<cancelled, plan, iteration, queue, work, contents>>

Current == CHOOSE s \in queue : \A q \in queue : s <= q

\* The next step of the queue is called.
CallNext ==
    /\ phase = "sequential" /\ queue # {} /\ st[Current] = "idle"
    /\ st' = [st EXCEPT ![Current] = "ready"]
    /\ UNCHANGED <<phase, cancelled, loop, tries, seen, edit, files>>

\* Mutant of CollectOne: a patch is stored as if it were the whole file.
CollectOneAnyMode ==
    /\ phase = "sequential" /\ queue # {} /\ st[Current] \in {"ok", "failed"}
    /\ edits' = IF HasEdit(Current) THEN Append(edits, Current) ELSE edits
    /\ contents' = IF HasEdit(Current)
                   THEN [contents EXCEPT ![plan.path[Current]] = Current] ELSE contents
    /\ completed' = completed \cup {plan.id[Current]}
    /\ queue' = queue \ {Current}
    /\ phase' = IF queue' # {} THEN "sequential" ELSE "loop"
    /\ remaining' = IF queue' # {} THEN remaining ELSE EndOfRound(completed')
    /\ UNCHANGED <<cancelled, plan, iteration, batch, work>>

\* It returned or raised: its edit is collected, and replaces the file's contents.
CollectOne ==
    /\ phase = "sequential" /\ queue # {} /\ st[Current] \in {"ok", "failed"}
    /\ edits' = IF HasEdit(Current) THEN Append(edits, Current) ELSE edits
    /\ contents' = IF HasEdit(Current) /\ edit[Current] = "replace"
                   THEN [contents EXCEPT ![plan.path[Current]] = Current] ELSE contents
    /\ completed' = completed \cup {plan.id[Current]}
    /\ queue' = queue \ {Current}
    /\ phase' = IF queue' # {} THEN "sequential" ELSE "loop"
    /\ remaining' = IF queue' # {} THEN remaining ELSE EndOfRound(completed')
    /\ UNCHANGED <<cancelled, plan, iteration, batch, work>>

\* The loop is over.
LeaveLoop ==
    /\ phase = "loop" /\ (remaining = {} \/ iteration >= MaxIterations)
    /\ phase' = "review"
    /\ UNCHANGED <<cancelled, loop, work, files>>

\* The final review, if there are edits, then the "done" event.
Review ==
    /\ phase = "review"
    /\ phase' = "done"
    /\ UNCHANGED <<cancelled, loop, work, files>>

-----------------------------------------------------------------------------
(* _execute_step_with_retry() *)

\* An attempt starts: the agent's prompt is built from file_contents as they are.
Attempt(s) ==
    /\ st[s] \in {"ready", "waiting"}
    /\ st' = [st EXCEPT ![s] = "running"]
    /\ tries' = [tries EXCEPT ![s] = @ + 1]
    /\ seen' = [seen EXCEPT ![s] = contents]
    /\ UNCHANGED <<phase, cancelled, loop, edit, files>>

\* Both editors of a contest failed: a single editor tries once more.
Fallback(s) ==
    /\ Swarm /\ plan.agent[s] = "editor" /\ st[s] = "running"
    /\ st' = [st EXCEPT ![s] = "fallback"]
    /\ UNCHANGED <<phase, cancelled, loop, tries, seen, edit, files>>

\* The agent, or the winner of the contest, succeeded.  Only editors return
\* edits.  TerminalAgent passes arguments that the shell helper does not take.
Succeed(s, e) ==
    /\ st[s] \in {"running", "fallback"} /\ plan.agent[s] # "terminal"
    /\ plan.agent[s] # "editor" => e = NoEdit
    /\ st' = [st EXCEPT ![s] = "ok"]
    /\ edit' = [edit EXCEPT ![s] = e]
    /\ UNCHANGED <<phase, cancelled, loop, tries, seen, files>>

\* The agent failed: backoff and another attempt, or the last error is raised.
Fail(s) ==
    /\ \/ st[s] = "fallback"
       \/ st[s] = "running" /\ ~(Swarm /\ plan.agent[s] = "editor")
    /\ st' = [st EXCEPT ![s] = IF tries[s] < MaxRetries THEN "waiting" ELSE "failed"]
    /\ UNCHANGED <<phase, cancelled, loop, tries, seen, edit, files>>

-----------------------------------------------------------------------------
(* From outside *)

Cancel ==
    /\ ~cancelled /\ phase \notin Over
    /\ cancelled' = TRUE
    /\ UNCHANGED <<phase, loop, work, files>>

\* The client of the event stream is gone: whatever run() awaits is cancelled.
Disconnect ==
    /\ phase \notin Over
    /\ phase' = "abandoned"
    /\ st' = [s \in Step |-> IF st[s] \in Idle THEN st[s] ELSE "idle"]
    /\ UNCHANGED <<cancelled, loop, tries, seen, edit, files>>

Agents(s) == Attempt(s) \/ Fallback(s) \/ Fail(s) \/ \E e \in Mode \cup {NoEdit} : Succeed(s, e)
Control == \/ NextPhase \/ PlanReturned \/ StartRound \/ CollectBatch
           \/ CallNext \/ CollectOne \/ LeaveLoop \/ Review
Next == Control \/ (\E s \in Step : Agents(s)) \/ Cancel \/ Disconnect

\* The event loop runs what is ready; agents' requests have timeouts.
Fairness == WF_vars(Control) /\ \A s \in Step : WF_vars(Agents(s))

Spec == Init /\ [][Next]_vars /\ Fairness

-----------------------------------------------------------------------------
(* Properties *)

Ended(s) == st[s] \in {"ok", "failed"}
Working(s) == st[s] \notin Idle

\* A step is started only after, for each of its dependencies, a step of that
\* id has ended; and a step of the queue never works beside another one, so
\* that file_contents cannot change under a step that has read them.
StepsInOrder ==
    \A s \in Step :
        /\ tries[s] > 0 => \A d \in plan.deps[s] : \E q \in plan.steps : plan.id[q] = d /\ Ended(q)
        /\ Working(s) => \A p \in Path : tries[s] > 0 => seen[s][p] = contents[p]
        /\ Working(s) /\ s \notin plan.parallel => \A q \in Step \ {s} : ~Working(q)

\* all_edits holds the edit of every successful step that has been collected,
\* once, and nothing of a step that failed; file_contents are the last of the
\* full replacements by steps of the queue.
EditsAccounted ==
    /\ \A s \in Step : Cardinality({i \in DOMAIN edits : edits[i] = s})
                       = IF HasEdit(s) /\ s \notin batch \cup queue THEN 1 ELSE 0
    /\ \A p \in Path :
         LET Writes == {i \in DOMAIN edits : /\ plan.path[edits[i]] = p /\ edit[edits[i]] = "replace"
                                             /\ edits[i] \notin plan.parallel}
         IN contents[p] = IF Writes = {} THEN Original
                          ELSE edits[CHOOSE i \in Writes : \A j \in Writes : j <= i]

\* After cancel_event is set, the round in progress may go on, but no step of a
\* later round is started.
CancelStopsRounds ==
    [][\A s \in Step : cancelled /\ st[s] = "idle" /\ st'[s] # "idle" => s \in batch \cup queue]_vars

\* A run comes to an end, and nothing works on after it.  A run that is done
\* has executed every step but those that share the id of one that was, and
\* those that wait for a step that will never complete.
RunEnds ==
    <>[](/\ phase \in Over /\ \A s \in Step : ~Working(s)
         /\ phase = "done" => \A s \in plan.steps :
               \/ Ended(s)
               \/ plan.id[s] \in completed
               \/ ~(plan.deps[s] \subseteq completed))

=============================================================================
