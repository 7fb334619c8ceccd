------------------------------ MODULE MCPackages ------------------------------
(* The packages on the workflows of MCWorkflowExecutor and on three swarms. *)
EXTENDS Packages, MCWorkflowExecutor

\* POST /swarms takes any minimum and maximum: one to three agents; none to
\* one, with two at the start; and a minimum above the initial number.
SomeSpecs == {[role |-> "coding", min |-> 1, max |-> 3, initial |-> 2, slots |-> 1],
              [role |-> "coding", min |-> 2, max |-> 2, initial |-> 1, slots |-> 2],
              [role |-> "research", min |-> 0, max |-> 1, initial |-> 2, slots |-> 10]}

\* The workflow engine makes its choices at the start, which matter only to it.
MCInit == PackagesInit /\ (part = "workflow" \/ wf = Conditional)

\* PackagesSpec from these states
MCSpec ==
    /\ MCInit /\ [][PackagesNext]_packagesVars
    /\ part = "workflow" => Fairness
=============================================================================
