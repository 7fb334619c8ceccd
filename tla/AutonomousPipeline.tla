-------------------------- MODULE AutonomousPipeline --------------------------
(***************************************************************************)
(* The autonomous pipeline (services/autonomous_pipeline.py): plan,        *)
(* execute, validate, debug, retry, optimize, and a table of the last      *)
(* runs.  Execute and retry call MacroBrain.process() (brain/macro_brain), *)
(* which asks a sector brain or an LLM, or has a plan made and executes    *)
(* its steps in passes.                                                    *)
(*                                                                         *)
(* An action is what happens between two awaits that really wait: the      *)
(* calls of an LLM.  A result is "good", "weak" (a success that does not   *)
(* validate: empty, or of low confidence), "bad", or "null": a success     *)
(* whose content is null, at which run() raises.                           *)
(***************************************************************************)
EXTENDS Naturals, Sequences, FiniteSets

CONSTANTS Run,       \* calls of run()
          Plans,     \* task graphs an LLM may return: of each step the id and depends_on
          MaxPasses, \* 50
          MaxRuns    \* 50, the size of the table

PipelineAssumption ==
    /\ MaxPasses \in Nat \ {0} /\ MaxRuns \in Nat \ {0}
    /\ Plans \subseteq Seq([id : Nat, needs : SUBSET Nat])

VARIABLES
    at,        \* at[r]: the await a run is at
    fix,       \* fix[r]: auto_fix, with max_retries > 0
    status,    \* status[r][s]: of stage s
    verdict,   \* verdict[r]: PipelineRun.status
    results,   \* results[r]: what process() returned, calls in order
    plan,      \* plan[r]: the task graph that is executed
    remaining, \* remaining[r]: its steps that no pass has taken yet
    batch,     \* batch[r]: the steps of the pass that are still to run
    executed,  \* executed[r]: the steps that ran, in order
    passes,
    started,   \* runs by the time they started
    ended,     \* runs that returned
    runs       \* _runs

vars == <<at, fix, status, verdict, results, plan, remaining, batch, executed, passes,
          started, ended, runs>>
planVars == <<plan, remaining, batch, executed, passes>>

Stage == {"plan", "execute", "validate", "debug", "retry", "optimize"}
In(x, s) == \E i \in DOMAIN s : s[i] = x

Init ==
    /\ at = [r \in Run |-> "idle"]
    /\ fix \in [Run -> BOOLEAN]
    /\ status = [r \in Run |-> [s \in Stage |-> "pending"]]
    /\ verdict = [r \in Run |-> "pending"]
    /\ results = [r \in Run |-> <<>>]
    /\ plan = [r \in Run |-> <<>>]
    /\ remaining = [r \in Run |-> {}]
    /\ batch = [r \in Run |-> {}]
    /\ executed = [r \in Run |-> <<>>]
    /\ passes = [r \in Run |-> 0]
    /\ started = <<>> /\ ended = {} /\ runs = {}

Goto(r, l) == at' = [at EXCEPT ![r] = l]

-----------------------------------------------------------------------------
(* run(), around process() *)

\* s before t in the order of their starts
Before(s, t) == \E i, j \in DOMAIN started : i < j /\ started[i] = s /\ started[j] = t

\* The run that started first, which may be the one just recorded.
Evict(r, table) == CHOOSE s \in table : \A t \in table \ {s} : Before(s, t)

\* The last lines of run(): the run is recorded, and one too many evicted.
Record(r) ==
    LET table == runs \cup {r}
    IN runs' = IF Cardinality(table) > MaxRuns THEN table \ {Evict(r, table)} ELSE table

\* Mutant of Completes: what the retry returned takes the place of the result.
CompletesAtLast(res) == In(res[Len(res)], <<"good", "weak">>)

\* execution_result, which a successful retry replaces, or the execute stage.
Completes(res) == \E i \in DOMAIN res : In(res[i], <<"good", "weak">>)

Finish(r, st, res) ==
    /\ status' = [status EXCEPT ![r] = [st EXCEPT !["optimize"] = "success"]]
    /\ verdict' = [verdict EXCEPT ![r] = IF Completes(res) THEN "completed" ELSE "completed_with_issues"]
    /\ Goto(r, "over")
    /\ Record(r)
    /\ ended' = ended \cup {r}

\* An exception: what is running has failed.
Crash(r, st) ==
    /\ status' = [status EXCEPT ![r] = [s \in Stage |-> IF st[s] = "running" THEN "failed" ELSE st[s]]]
    /\ verdict' = [verdict EXCEPT ![r] = "failed"]
    /\ Goto(r, "over")
    /\ Record(r)
    /\ ended' = ended \cup {r}

Start(r) ==
    /\ at[r] = "idle"
    /\ Goto(r, "plan")
    /\ status' = [status EXCEPT ![r]["plan"] = "running"]
    /\ started' = Append(started, r)
    /\ UNCHANGED <<fix, verdict, results, planVars, ended, runs>>

\* The strategy, or the fallback of one step: the plan is only shown.
PlanStage(r) ==
    /\ at[r] = "plan"
    /\ Goto(r, "route")
    /\ status' = [status EXCEPT ![r]["plan"] = "success", ![r]["execute"] = "running"]
    /\ UNCHANGED <<fix, verdict, results, planVars, started, ended, runs>>

\* process() returned x to the execute stage: that is validated, and if it does
\* not pass, an LLM is asked for a diagnosis.
ExecuteReturns(r, x) ==
    LET st == [status[r] EXCEPT !["execute"] = IF x = "bad" THEN "failed" ELSE "success",
                                !["validate"] = IF x = "good" THEN "success" ELSE "failed"]
    IN IF x # "good" /\ fix[r]
       THEN /\ status' = [status EXCEPT ![r] = [st EXCEPT !["debug"] = "running"]]
            /\ Goto(r, "debug")
            /\ UNCHANGED <<verdict, ended, runs>>
       ELSE Finish(r, [st EXCEPT !["debug"] = "skipped", !["retry"] = "skipped"], Append(results[r], x))

RetryReturns(r, x) ==
    Finish(r, [status[r] EXCEPT !["retry"] = IF x = "bad" THEN "failed" ELSE "success"],
           Append(results[r], x))

\* process() returns x, to the stage that called it.
Return(r, x) ==
    /\ results' = [results EXCEPT ![r] = Append(@, x)]
    /\ IF x = "null" THEN Crash(r, status[r])
       ELSE IF status[r]["execute"] = "running" THEN ExecuteReturns(r, x) ELSE RetryReturns(r, x)

\* The diagnosis, or a default one if the call fails; null content raises.
Debug(r) ==
    /\ at[r] = "debug"
    /\ \/ /\ status' = [status EXCEPT ![r]["debug"] = "success", ![r]["retry"] = "running"]
          /\ Goto(r, "route")
          /\ UNCHANGED <<verdict, ended, runs>>
       \/ Crash(r, status[r])
    /\ UNCHANGED <<fix, results, planVars, started>>

-----------------------------------------------------------------------------
(* process() *)

\* The SmartRouter's choice.
Route(r) ==
    /\ at[r] = "route"
    /\ \E l \in {"brain", "strategy", "direct"} : Goto(r, l)
    /\ UNCHANGED <<fix, status, verdict, results, planVars, started, ended, runs>>

\* A sector brain, or the LLM directly: neither raises.
Answers(r) ==
    /\ at[r] \in {"brain", "direct"}
    /\ \E x \in {"good", "weak", "bad", "null"} : Return(r, x)
    /\ UNCHANGED <<fix, planVars, started>>

\* generate_plan(); what it raises leads to the LLM, as all that follows does.
Strategy(r) ==
    /\ at[r] = "strategy"
    /\ \/ \E p \in Plans :
            /\ plan' = [plan EXCEPT ![r] = p]
            /\ remaining' = [remaining EXCEPT ![r] = DOMAIN p]
            /\ batch' = [batch EXCEPT ![r] = {}]
            /\ executed' = [executed EXCEPT ![r] = <<>>]
            /\ passes' = [passes EXCEPT ![r] = 0]
            /\ Goto(r, "steps")
       \/ Goto(r, "direct") /\ UNCHANGED planVars
    /\ UNCHANGED <<fix, status, verdict, results, started, ended, runs>>

\* What ran is looked up by its id, which an LLM may have given to many steps.
Has(r, d) == \E i \in DOMAIN executed[r] : plan[r][executed[r][i]].id = d

\* Mutant of Ready: one dependency that ran is enough.
ReadyWithOne(r) ==
    {s \in remaining[r] : plan[r][s].needs = {} \/ \E d \in plan[r][s].needs : Has(r, d)}

Ready(r) == {s \in remaining[r] : \A d \in plan[r][s].needs : Has(r, d)}

\* The next pass of _execute_plan().  If no step is ready, the list is emptied
\* and remove() then raises: the plan is abandoned.
Pass(r) ==
    /\ at[r] = "steps" /\ batch[r] = {}
    /\ remaining[r] # {} /\ passes[r] < MaxPasses
    /\ passes' = [passes EXCEPT ![r] = @ + 1]
    /\ batch' = [batch EXCEPT ![r] = Ready(r)]
    /\ IF Ready(r) = {} THEN Goto(r, "direct") ELSE UNCHANGED at
    /\ UNCHANGED <<fix, status, verdict, results, plan, remaining, executed, started, ended, runs>>

\* The steps of a pass, in the order of the plan; whether one succeeded only
\* shows in the confidence.
RunStep(r) ==
    /\ at[r] = "steps" /\ batch[r] # {}
    /\ LET s == CHOOSE s \in batch[r] : \A t \in batch[r] : s <= t IN
       /\ batch' = [batch EXCEPT ![r] = @ \ {s}]
       /\ remaining' = [remaining EXCEPT ![r] = @ \ {s}]
       /\ executed' = [executed EXCEPT ![r] = Append(@, s)]
    /\ UNCHANGED <<at, fix, status, verdict, results, plan, passes, started, ended, runs>>

\* No step is left, or no pass.  A plan always succeeds: its critical steps are
\* looked up under a key no result has.
PlanReturns(r) ==
    /\ at[r] = "steps" /\ batch[r] = {}
    /\ remaining[r] = {} \/ passes[r] = MaxPasses
    /\ \E x \in IF executed[r] = <<>> THEN {"weak"} ELSE {"good", "weak"} : Return(r, x)
    /\ UNCHANGED <<fix, planVars, started>>

Advance(r) ==
    \/ PlanStage(r) \/ Debug(r) \/ Route(r) \/ Answers(r) \/ Strategy(r)
    \/ Pass(r) \/ RunStep(r) \/ PlanReturns(r)

Next == \E r \in Run : Start(r) \/ Advance(r)

Spec == Init /\ [][Next]_vars

-----------------------------------------------------------------------------
(* Properties *)

\* Each of the steps left waits for an id that no step has, or steps left only.
Stuck(r) ==
    \A s \in remaining[r] : \E d \in plan[r][s].needs :
        \A t \in DOMAIN plan[r] : plan[r][t].id = d => t \in remaining[r]

\* Whatever graph the LLM made up (cycles, unknown and repeated ids included),
\* no step runs twice, or before one of each id it depends on, and none is lost.
\* When process() is done with a plan, all steps have run, or one in each of the
\* fifty passes at least, or those left wait for each other or for no step at
\* all: then the plan is given up.  (_execute_plan)
PlanInOrder ==
    \A r \in Run :
        /\ \A i \in DOMAIN executed[r] : \A d \in plan[r][executed[r][i]].needs :
            \E j \in 1..(i - 1) : plan[r][executed[r][j]].id = d
        /\ Cardinality({executed[r][i] : i \in DOMAIN executed[r]}) = Len(executed[r])
        /\ Len(executed[r]) + Cardinality(remaining[r]) = Len(plan[r])
        /\ at[r] # "steps" => Stuck(r) \/ Len(executed[r]) >= MaxPasses

\* A run is completed if and only if one of its executions succeeded and nothing
\* raised; a stage is never left running, and an earlier success survives a
\* retry that failed.  (run)
VerdictIsTrue ==
    \A r \in Run : at[r] = "over" =>
        LET succeeded == \E i \in DOMAIN results[r] : results[r][i] \in {"good", "weak"} IN
        /\ verdict[r] = "completed" => succeeded
        /\ verdict[r] = "completed_with_issues" => ~succeeded /\ status[r]["execute"] = "failed"
        /\ \A s \in Stage : status[r][s] # "running"
        /\ verdict[r] # "failed" => \A s \in Stage : status[r][s] # "pending"

=============================================================================
