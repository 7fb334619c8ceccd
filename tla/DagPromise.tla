------------------------------ MODULE DagPromise ------------------------------
(***************************************************************************)
(* What the executor promises of a workflow whose steps are plain tasks:   *)
(* a step runs at most once, only after everything it depends on has       *)
(* completed, and its failure takes the steps that depend on it out of the *)
(* run.                                                                    *)
(***************************************************************************)
CONSTANT Step
VARIABLES deps, st
vars == <<deps, st>>

Dependents(s) == {q \in Step : s \in deps[q]}

Init == st = [s \in Step |-> "pending"]

Start(s) ==
    /\ st[s] = "pending"
    /\ \A d \in deps[s] : st[d] = "completed"
    /\ st' = [st EXCEPT ![s] = "running"]

Complete(s) ==
    /\ st[s] = "running"
    /\ st' = [st EXCEPT ![s] = "completed"]

\* A failed step skips its dependents, none of which has started.
Fail(s) ==
    /\ st[s] = "running"
    /\ \A q \in Dependents(s) : st[q] \in {"pending", "skipped"}
    /\ st' = [q \in Step |-> IF q = s THEN "failed"
                             ELSE IF q \in Dependents(s) THEN "skipped" ELSE st[q]]

\* The cancellation of the workflow fails the step it interrupts.
Interrupt(s) ==
    /\ st[s] = "running"
    /\ st' = [st EXCEPT ![s] = "failed"]

Next ==
    /\ \E s \in Step : Start(s) \/ Complete(s) \/ Fail(s) \/ Interrupt(s)
    /\ UNCHANGED deps

Spec == Init /\ [][Next]_vars

=============================================================================
