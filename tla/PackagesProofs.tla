---------------------------- MODULE PackagesProofs ----------------------------
(***************************************************************************)
(* Proofs about two packages: the workflow executor, for any set of        *)
(* workflows, and the swarm manager, for any swarms, agents and tasks.     *)
(*                                                                         *)
(* Why a plain workflow keeps DagPromise: the steps that are ready are     *)
(* pending with completed dependencies, and stay so while the round is     *)
(* worked off (ReadyIsFresh), because only the current step is running     *)
(* (OneRunning), whatever started had completed dependencies (Ordered),    *)
(* and the current step is therefore nobody's completed dependency.        *)
(*                                                                         *)
(* Why a swarm keeps its limits: swarms and agents are numbered in the     *)
(* order in which they come (Roster), so that a size that was recounted    *)
(* stays true until the members change, and an agent that never had two    *)
(* tasks at once is idle only when it works on none (Toil).                *)
(***************************************************************************)
EXTENDS Packages, Integers, TLAPS, FiniteSetTheorems

\* A plain workflow never is in a branch or a group.
PlainPhase ==
    /\ phase \in {"pick", "for", "task", "ended"}
    /\ \A s \in Step : pool[s] = "none"

OneRunning ==
    /\ phase = "task" => cur \in Steps /\ status[cur] = "running"
    /\ \A s \in Step : status[s] = "running" => phase = "task" /\ s = cur

ReadyIsFresh ==
    phase \in {"for", "task"} =>
        \A s \in ready : status[s] = "pending" /\ \A d \in wf.deps[s] : status[d] = "completed"

Ordered ==
    \A s \in Step : status[s] \notin {"pending", "skipped"} =>
        \A d \in wf.deps[s] : status[d] = "completed"

\* The second pass of a round has nothing to do.
FailureSpread ==
    phase # "ended" =>
        \A s \in Step : status[s] = "pending" => \A d \in wf.deps[s] : status[d] # "failed"

PlainInv == PlainPhase /\ OneRunning /\ ReadyIsFresh /\ Ordered /\ FailureSpread

IInv == TypeOK /\ (Plain => PlainInv)

\* What a plain workflow's counters, runs and skipped steps say of its statuses,
\* and what is known when it is over.
Account ==
    /\ \A s \in Step : runs[s] = IF status[s] \in {"running", "completed", "failed"} THEN 1 ELSE 0
    /\ \A s \in Step \ Steps : status[s] = "pending"
    /\ \A s \in Step : status[s] = "skipped" => \E d \in wf.deps[s] : status[d] = "failed"
    /\ state # "cancelled" =>
         /\ IsFiniteSet(With("completed")) /\ good = Cardinality(With("completed"))
         /\ IsFiniteSet(With("failed")) /\ bad = Cardinality(With("failed"))
    /\ phase # "ended" => state = "running"
    /\ Over => /\ Ready = {} /\ (state = "completed" <=> bad = 0)
               /\ \A s \in Step : status[s] = "pending" => \A d \in wf.deps[s] : status[d] # "failed"

\* Of any workflow: whose handlers may be at work in which phase.
Slots ==
    /\ IsFiniteSet(In("running")) /\ Cardinality(In("running")) <= wf.width
    /\ state = "cancelled" => phase = "ended"
    /\ IF phase = "group" \/ state = "cancelled"
       THEN \A s \in Step : tries[s] > 0 => pool[s] = "running"
       ELSE \A s \in Step :
              /\ pool[s] = "none"
              /\ tries[s] > 0 => \/ phase = "task" /\ s = cur
                                 \/ phase = "branch" /\ todo # <<>> /\ s = Head(todo)

Ledger == IInv /\ (Plain => Account) /\ Slots

-----------------------------------------------------------------------------
(* Types *)

LEMMA WfFacts ==
    ASSUME wf \in Workflows
    PROVE  /\ Steps \subseteq Step
           /\ wf.deps \in [Step -> SUBSET Step]
           /\ \A s \in Step \ Steps : wf.deps[s] = {}
           /\ wf.kind \in [Step -> {"task", "conditional", "parallel"}]
           /\ wf.branches \in [Step -> Seq(Seq(Steps))]
           /\ wf.group \in [Step -> SUBSET Step]
           /\ Step \subseteq Nat
  BY WorkflowAssumption DEF Steps

LEMMA TypeInit == Init => TypeOK
  BY DEF Init, TypeOK, Steps, Status

LEMMA CompleteTypes ==
    ASSUME TypeOK, NEW s \in Step \cup {0}, Complete(s)
    PROVE  status' \in [Step -> Status] /\ good' \in Nat /\ bad' \in Nat /\ phase' = "for"
  <1>1. status' \in [Step -> Status]
    BY DEF Complete, TypeOK, Status
  <1>2. QED BY <1>1 DEF Complete, TypeOK

LEMMA FailTypes ==
    ASSUME TypeOK, NEW s \in Step \cup {0}, Fail(s)
    PROVE  status' \in [Step -> Status] /\ good' \in Nat /\ bad' \in Nat /\ phase' = "for"
  <1>1. status' \in [Step -> Status]
    BY DEF Fail, TypeOK, Status
  <1>2. QED BY <1>1 DEF Fail, TypeOK

LEMMA TypeNext == TypeOK /\ [Next]_vars => TypeOK'
  <1> SUFFICES ASSUME TypeOK, [Next]_vars PROVE TypeOK'
    OBVIOUS
  <1> USE WfFacts
  <1>1. Steps \subseteq Step
    BY DEF TypeOK
  <1>2. ASSUME NEW s \in Step, EnterTask(s) PROVE TypeOK'
    <2>1. status' \in [Step -> Status] /\ tries' \in [Step -> Nat] /\ runs' \in [Step -> Nat]
      BY <1>2 DEF EnterTask, Enter, Begin, TypeOK, Status
    <2>2. QED BY <1>2, <2>1 DEF EnterTask, Enter, Begin, TypeOK, Steps, counts
  <1>3. ASSUME NEW s \in Step, NEW i \in 1..2, EnterBranch(s, i) PROVE TypeOK'
    <2>1. status' \in [Step -> Status]
      BY <1>3 DEF EnterBranch, Enter, TypeOK, Status
    <2>2. wf.branches[s][i] \in Seq(Steps)
      BY <1>3 DEF EnterBranch, TypeOK
    <2>3. \A k \in DOMAIN wf.branches[s][i] : wf.branches[s][i][k] \in Steps
      BY <2>2
    <2>4. chosen' \in SUBSET Steps /\ todo' \in Seq(Steps)
      BY <1>3, <2>2, <2>3 DEF EnterBranch, TypeOK
    <2>5. QED BY <1>3, <2>1, <2>4 DEF EnterBranch, Enter, TypeOK, Steps, counts
  <1>4. ASSUME NEW s \in Step, EnterNoBranch(s) PROVE TypeOK'
    <2>1. status' \in [Step -> Status]
      BY <1>4 DEF EnterNoBranch, Enter, TypeOK, Status
    <2>2. todo' \in Seq(Steps')
      BY <1>4 DEF EnterNoBranch
    <2>3. QED BY <1>4, <2>1, <2>2 DEF EnterNoBranch, Enter, TypeOK, Steps, counts
  <1>5. ASSUME NEW s \in Step, ConditionFails(s) PROVE TypeOK'
    <2>1. status' \in [Step -> Status] /\ bad' \in Nat
      BY <1>5 DEF ConditionFails, Fail, TypeOK, Status
    <2>2. QED BY <1>5, <2>1 DEF ConditionFails, Fail, TypeOK, Steps, counts
  <1>6. ASSUME NEW s \in Step, EnterGroup(s) PROVE TypeOK'
    <2>1. status' \in [Step -> Status]
      BY <1>6 DEF EnterGroup, Enter, TypeOK, Status
    <2>2. pool' \in [Step -> {"none", "queued", "running", "done", "raised"}]
      BY <1>6 DEF EnterGroup
    <2>3. QED BY <1>6, <2>1, <2>2 DEF EnterGroup, Enter, TypeOK, Steps, counts
  <1>7. ASSUME NEW ok \in BOOLEAN, TaskEnds(ok) PROVE TypeOK'
    <2>1. status' \in [Step -> Status] /\ good' \in Nat /\ bad' \in Nat
      BY <1>7, CompleteTypes, FailTypes DEF TaskEnds, TypeOK
    <2>2. tries' \in [Step -> Nat] /\ phase' = "for"
      BY <1>7, CompleteTypes, FailTypes DEF TaskEnds, End, TypeOK
    <2>3. UNCHANGED <<wf, state, ready, cur, todo, pool, chosen, runs>>
      BY <1>7 DEF TaskEnds, End
    <2>4. QED BY <2>1, <2>2, <2>3 DEF TypeOK, Steps
  <1>8. ASSUME NEW ok \in BOOLEAN, BranchEnds(ok) PROVE TypeOK'
    <2>1. Tail(todo) \in Seq(Steps)
      BY <1>8 DEF BranchEnds, TypeOK
    <2>2. status' \in [Step -> Status] /\ tries' \in [Step -> Nat]
      BY <1>8 DEF BranchEnds, End, TypeOK, Status
    <2>3. QED BY <1>8, <2>1, <2>2 DEF BranchEnds, End, TypeOK, Steps, counts
  <1>9. ASSUME Sweep PROVE TypeOK'
    <2>1. status' \in [Step -> Status]
      BY <1>9 DEF Sweep, TypeOK, Status
    <2>2. QED BY <1>9, <2>1 DEF Sweep, TypeOK, Steps, counts
  <1>10. ASSUME BranchStarts PROVE TypeOK'
    <2>1. status' \in [Step -> Status] /\ tries' \in [Step -> Nat] /\ runs' \in [Step -> Nat]
      BY <1>10 DEF BranchStarts, Begin, TypeOK, Status
    <2>2. QED BY <1>10, <2>1 DEF BranchStarts, Begin, TypeOK, Steps, counts
  <1>11. ASSUME BranchReturns PROVE TypeOK'
    <2>1. status' \in [Step -> Status] /\ good' \in Nat
      BY <1>11, CompleteTypes DEF BranchReturns, TypeOK
    <2>2. QED BY <1>11, <2>1 DEF BranchReturns, Complete, TypeOK, Steps
  <1>12. ASSUME GroupReturns PROVE TypeOK'
    <2>1. status' \in [Step -> Status] /\ tries' \in [Step -> Nat] /\ good' \in Nat
      BY <1>12 DEF GroupReturns, TypeOK, Status
    <2>2. pool' \in [Step -> {"none", "queued", "running", "done", "raised"}]
      BY <1>12 DEF GroupReturns
    <2>3. QED BY <1>12, <2>1, <2>2 DEF GroupReturns, TypeOK, Steps
  <1>13. ASSUME Cancel PROVE TypeOK'
    <2>1. status' \in [Step -> Status] /\ tries' \in [Step -> Nat]
      BY <1>13 DEF Cancel, TypeOK, Status
    <2>2. QED BY <1>13, <2>1 DEF Cancel, TypeOK, Steps, counts
  <1>14. ASSUME NEW s \in Step, SubStarts(s) PROVE TypeOK'
    <2>1. status' \in [Step -> Status] /\ tries' \in [Step -> Nat] /\ runs' \in [Step -> Nat]
      BY <1>14 DEF SubStarts, Begin, TypeOK, Status
    <2>2. pool' \in [Step -> {"none", "queued", "running", "done", "raised"}]
      BY <1>14 DEF SubStarts, TypeOK
    <2>3. QED BY <1>14, <2>1, <2>2 DEF SubStarts, Begin, TypeOK, Steps, counts
  <1>15. ASSUME NEW s \in Step, NEW ok \in BOOLEAN, SubEnds(s, ok) PROVE TypeOK'
    <2>1. status' \in [Step -> Status] /\ tries' \in [Step -> Nat]
      BY <1>15 DEF SubEnds, End, TypeOK, Status
    <2>2. pool' \in [Step -> {"none", "queued", "running", "done", "raised"}]
      BY <1>15 DEF SubEnds, TypeOK
    <2>3. QED BY <1>15, <2>1, <2>2 DEF SubEnds, End, TypeOK, Steps, counts
  <1>16. ASSUME NEW s \in Step, Retry(s) PROVE TypeOK'
    <2>1. tries' \in [Step -> Nat]
      BY <1>16 DEF Retry, TypeOK
    <2>2. QED BY <1>16, <2>1 DEF Retry, TypeOK, Steps, counts
  <1>17. CASE Pick
    BY <1>17 DEF Pick, Ready, TypeOK, Steps, counts
  <1>18. CASE Finish
    BY <1>18 DEF Finish, TypeOK, Steps, counts
  <1>19. CASE UNCHANGED vars
    BY <1>19 DEF vars, counts, TypeOK, Steps
  <1>20. QED
    BY <1>2, <1>3, <1>4, <1>5, <1>6, <1>7, <1>8, <1>9, <1>10, <1>11, <1>12, <1>13,
       <1>14, <1>15, <1>16, <1>17, <1>18, <1>19 DEF Next, Main, Sub

-----------------------------------------------------------------------------
(* Plain workflows *)

LEMMA InitIInv == Init => IInv
  <1> SUFFICES ASSUME Init PROVE IInv
    OBVIOUS
  <1>1. TypeOK
    BY TypeInit
  <1>2. PlainInv
    BY <1>1, WfFacts
       DEF Init, TypeOK, PlainInv, PlainPhase, OneRunning, ReadyIsFresh, Ordered, FailureSpread
  <1>3. QED BY <1>1, <1>2 DEF IInv

\* A dependent of a step that is not completed has not started.
LEMMA DependentsWait ==
    ASSUME TypeOK, Ordered, NEW s \in Step, status[s] # "completed",
           NEW q \in Step, s \in wf.deps[q]
    PROVE  status[q] \in {"pending", "skipped"}
  BY DEF Ordered, TypeOK, Status

\* What each step of the code does to a plain workflow's statuses.
PlainStep ==
    \/ /\ UNCHANGED status
       /\ phase' \in {"pick", "for", "task", "ended"}
    \/ \E s \in ready : /\ phase = "for" /\ phase' = "task"
                        /\ status' = [status EXCEPT ![s] = "running"]
    \/ phase = "task" /\ phase' = "for" /\ status' = [status EXCEPT ![cur] = "completed"]
    \/ /\ phase = "task" /\ phase' = "for"
       /\ status' = [q \in Step |-> IF q \in Dependents(cur) THEN "skipped"
                                    ELSE IF q = cur THEN "failed" ELSE status[q]]
    \/ phase = "task" /\ phase' = "ended" /\ status' = [status EXCEPT ![cur] = "failed"]

LEMMA PlainNext ==
    ASSUME IInv, Plain, Next
    PROVE  IInv' /\ Plain' /\ PlainStep /\ wf' = wf
  <1>1. TypeOK' /\ PlainPhase /\ OneRunning /\ ReadyIsFresh /\ Ordered /\ FailureSpread /\ TypeOK
    BY TypeNext DEF IInv, PlainInv
  <1>w. /\ Steps \subseteq Step /\ wf.deps \in [Step -> SUBSET Step]
        /\ \A s \in Step \ Steps : wf.deps[s] = {}
        /\ Step \subseteq Nat
    BY <1>1, WfFacts DEF TypeOK
  <1>t. status \in [Step -> Status] /\ ready \subseteq Steps
    BY <1>1 DEF TypeOK
  <1>p. wf' = wf => Plain'
    BY DEF Plain
  <1>5. ASSUME NEW s \in Step, EnterTask(s) PROVE PlainInv' /\ PlainStep /\ wf' = wf
    <2>1. /\ phase = "for" /\ phase' = "task" /\ cur' = s /\ s \in ready /\ ready' = ready \ {s}
          /\ status' = [status EXCEPT ![s] = "running"] /\ wf' = wf /\ pool' = pool
      BY <1>5 DEF EnterTask, Enter, IsNext
    <2>2. status[s] = "pending" /\ \A d \in wf.deps[s] : status[d] = "completed"
      BY <1>1, <2>1 DEF ReadyIsFresh
    <2>3. \A q \in Step : q # s => status'[q] = status[q]
      BY <1>t, <2>1
    <2>4. status'[s] = "running"
      BY <1>t, <2>1
    <2>5. PlainPhase' /\ OneRunning'
      BY <1>1, <1>t, <2>1, <2>3, <2>4 DEF PlainPhase, OneRunning, Steps
    <2>6. \A d \in Step : status[d] = "completed" => status'[d] = "completed"
      BY <2>2, <2>3
    <2>7. ReadyIsFresh'
      BY <1>1, <1>t, <1>w, <2>1, <2>3, <2>6 DEF ReadyIsFresh
    <2>8. Ordered'
      BY <1>1, <1>w, <2>1, <2>2, <2>3, <2>6 DEF Ordered
    <2>9. FailureSpread'
      BY <1>1, <1>w, <2>1, <2>3, <2>4 DEF FailureSpread
    <2>10. QED BY <2>1, <2>5, <2>7, <2>8, <2>9 DEF PlainInv, PlainStep
  <1>6. ASSUME phase = "task", phase' = "for", Complete(cur), UNCHANGED <<wf, ready, cur, pool>>
        PROVE PlainInv' /\ PlainStep
    <2>1. cur \in Step /\ status[cur] = "running"
      BY <1>1, <1>6, <1>w DEF OneRunning
    <2>2. status' = [status EXCEPT ![cur] = "completed"]
      BY <1>6 DEF Complete
    <2>3. \A q \in Step : q # cur => status'[q] = status[q]
      BY <1>t, <2>2
    <2>4. status'[cur] = "completed"
      BY <1>t, <2>1, <2>2
    <2>5. PlainPhase' /\ OneRunning'
      BY <1>1, <1>6, <2>3, <2>4 DEF PlainPhase, OneRunning
    <2>6. \A d \in Step : status[d] = "completed" => status'[d] = "completed"
      BY <2>3, <2>4
    <2>7. ReadyIsFresh'
      BY <1>1, <1>6, <1>t, <1>w, <2>1, <2>3, <2>6 DEF ReadyIsFresh
    <2>8. Ordered'
      BY <1>1, <1>6, <1>w, <2>1, <2>3, <2>6 DEF Ordered
    <2>9. FailureSpread'
      BY <1>1, <1>6, <1>w, <2>3, <2>4 DEF FailureSpread
    <2>10. QED BY <1>6, <2>2, <2>5, <2>7, <2>8, <2>9 DEF PlainInv, PlainStep
  <1>7. ASSUME phase = "task", phase' = "for", Fail(cur), UNCHANGED <<wf, ready, cur, pool>>
        PROVE PlainInv' /\ PlainStep
    <2>1. cur \in Step /\ status[cur] = "running"
      BY <1>1, <1>7, <1>w DEF OneRunning
    <2>2. status' = [q \in Step |-> IF q \in Dependents(cur) THEN "skipped"
                                    ELSE IF q = cur THEN "failed" ELSE status[q]]
      BY <1>7 DEF Fail
    <2>3. \A q \in Step : q \in Dependents(cur) <=> cur \in wf.deps[q]
      BY <1>w DEF Dependents
    <2>4. \A q \in Dependents(cur) : status[q] \in {"pending", "skipped"} /\ q \in Step
      BY <1>1, <1>w, <2>1, DependentsWait DEF Dependents
    <2>5. status'[cur] = "failed"
      BY <2>1, <2>2, <2>4
    <2>6. \A d \in Step : status[d] = "completed" => status'[d] = "completed"
      BY <2>1, <2>2, <2>4
    <2>7. PlainPhase' /\ OneRunning'
      BY <1>1, <1>7, <2>2, <2>5 DEF PlainPhase, OneRunning
    <2>8. ReadyIsFresh'
      <3>1. \A s \in ready : s \notin Dependents(cur) /\ s # cur
        BY <1>1, <1>7, <1>t, <1>w, <2>1, <2>3 DEF ReadyIsFresh
      <3>2. \A s \in ready : status'[s] = "pending"
        BY <1>1, <1>7, <1>t, <1>w, <2>2, <3>1 DEF ReadyIsFresh
      <3>3. QED BY <1>1, <1>7, <1>t, <1>w, <2>6, <3>2 DEF ReadyIsFresh
    <2>9. Ordered'
      <3>1. \A q \in Step : status'[q] \notin {"pending", "skipped"} =>
                status[q] \notin {"pending", "skipped"}
        BY <2>1, <2>2
      <3>2. QED BY <1>1, <1>7, <1>w, <2>6, <3>1 DEF Ordered
    <2>10. FailureSpread'
      <3>1. SUFFICES ASSUME NEW q \in Step, status'[q] = "pending", NEW d \in wf.deps[q]
                     PROVE  status'[d] # "failed"
        BY <1>7 DEF FailureSpread
      <3>2. d \in Step
        BY <1>w
      <3>3. q \notin Dependents(cur) /\ status[q] = "pending"
        BY <2>2, <3>1
      <3>4. d # cur
        BY <2>3, <3>1, <3>3
      <3>5. status[d] # "failed"
        BY <1>1, <1>7, <3>1, <3>3 DEF FailureSpread
      <3>6. QED BY <2>2, <3>2, <3>4, <3>5
    <2>11. QED BY <1>7, <2>2, <2>7, <2>8, <2>9, <2>10 DEF PlainInv, PlainStep
  <1>8. ASSUME NEW ok \in BOOLEAN, TaskEnds(ok) PROVE PlainInv' /\ PlainStep /\ wf' = wf
    <2>1. phase = "task" /\ UNCHANGED <<wf, ready, cur, pool>>
      BY <1>8 DEF TaskEnds
    <2>2. Complete(cur) \/ Fail(cur)
      BY <1>8 DEF TaskEnds
    <2>3. phase' = "for"
      BY <2>2 DEF Complete, Fail
    <2>4. QED BY <1>6, <1>7, <2>1, <2>2, <2>3
  <1>9. ASSUME Cancel PROVE PlainInv' /\ PlainStep /\ wf' = wf
    <2>1. /\ phase = "task" /\ phase' = "ended" /\ UNCHANGED <<wf, ready, cur, pool>>
          /\ status' = [s \in Step |-> IF status[s] = "running" THEN "failed" ELSE status[s]]
      BY <1>1, <1>9 DEF Cancel, PlainPhase
    <2>2. cur \in Step /\ status[cur] = "running"
      BY <1>1, <1>w, <2>1 DEF OneRunning
    <2>3. status' = [status EXCEPT ![cur] = "failed"]
      BY <1>1, <1>t, <2>1, <2>2 DEF OneRunning
    <2>4. PlainPhase' /\ OneRunning'
      BY <1>1, <2>1 DEF PlainPhase, OneRunning
    <2>5. ReadyIsFresh' /\ FailureSpread'
      BY <2>1 DEF ReadyIsFresh, FailureSpread
    <2>6. Ordered'
      BY <1>1, <1>w, <2>1 DEF Ordered
    <2>7. QED BY <2>1, <2>3, <2>4, <2>5, <2>6 DEF PlainInv, PlainStep
  <1>10. ASSUME Pick PROVE PlainInv' /\ PlainStep /\ wf' = wf
    <2>1. UNCHANGED <<wf, status, cur, pool>> /\ phase = "pick" /\ phase' = "for" /\ ready' = Ready
      BY <1>10 DEF Pick
    <2>2. ReadyIsFresh'
      BY <2>1 DEF ReadyIsFresh, Ready
    <2>3. PlainPhase' /\ OneRunning'
      BY <1>1, <2>1 DEF PlainPhase, OneRunning, Steps
    <2>4. Ordered' /\ FailureSpread'
      BY <1>1, <2>1 DEF Ordered, FailureSpread
    <2>5. QED BY <2>1, <2>2, <2>3, <2>4 DEF PlainInv, PlainStep
  <1>11. ASSUME Finish PROVE PlainInv' /\ PlainStep /\ wf' = wf
    <2>1. UNCHANGED <<wf, status, cur, pool, ready>> /\ phase = "pick" /\ phase' = "ended"
      BY <1>11 DEF Finish
    <2>2. QED
      BY <1>1, <2>1 DEF PlainInv, PlainPhase, OneRunning, ReadyIsFresh, Ordered, FailureSpread,
                        Steps, PlainStep
  <1>12. ASSUME Sweep PROVE PlainInv' /\ PlainStep /\ wf' = wf
    <2>1. /\ UNCHANGED <<wf, cur, pool, ready>> /\ phase = "for" /\ phase' = "pick"
          /\ status' = [s \in Step |->
                IF s \in Steps /\ status[s] = "pending"
                   /\ \E d \in wf.deps[s] \cap Steps : status[d] = "failed"
                THEN "skipped" ELSE status[s]]
      BY <1>12 DEF Sweep
    <2>2. \A s \in Step : status[s] = "pending" => \A d \in wf.deps[s] : status[d] # "failed"
      BY <1>1, <2>1 DEF FailureSpread
    <2>3. status' = status
      BY <1>t, <2>1, <2>2
    <2>4. QED
      BY <1>1, <2>1, <2>3 DEF PlainInv, PlainPhase, OneRunning, ReadyIsFresh, Ordered,
                              FailureSpread, Steps, PlainStep
  <1>13. ASSUME NEW s \in Step, Retry(s) PROVE PlainInv' /\ PlainStep /\ wf' = wf
    <2>1. UNCHANGED <<wf, status, cur, pool, ready, phase>>
      BY <1>13 DEF Retry
    <2>2. phase' \in {"pick", "for", "task", "ended"}
      BY <1>1, <2>1 DEF PlainPhase
    <2>3. QED
      BY <1>1, <2>1, <2>2 DEF PlainInv, PlainPhase, OneRunning, ReadyIsFresh, Ordered,
                              FailureSpread, Steps, PlainStep
  <1>14. \A s \in Step : /\ ~EnterNoBranch(s) /\ ~ConditionFails(s) /\ ~EnterGroup(s)
                         /\ \A i \in 1..2 : ~EnterBranch(s, i)
    BY DEF Plain, EnterNoBranch, ConditionFails, EnterGroup, EnterBranch
  <1>15. ~BranchStarts /\ ~BranchReturns /\ ~GroupReturns /\ \A ok \in BOOLEAN : ~BranchEnds(ok)
    BY <1>1 DEF PlainPhase, BranchStarts, BranchReturns, GroupReturns, BranchEnds
  <1>16. \A s \in Step : ~Sub(s)
    BY <1>1 DEF PlainPhase, Sub, SubStarts, SubEnds
  <1>17. PlainInv' /\ PlainStep /\ wf' = wf
    BY <1>5, <1>8, <1>9, <1>10, <1>11, <1>12, <1>13, <1>14, <1>15, <1>16 DEF Next, Main
  <1>18. QED BY <1>1, <1>17, <1>p DEF IInv

LEMMA WfKept == Next => wf' = wf
  BY DEF Next, Main, Sub, Pick, Finish, EnterTask, EnterBranch, EnterNoBranch, ConditionFails,
         EnterGroup, TaskEnds, BranchEnds, Sweep, BranchStarts, BranchReturns, GroupReturns,
         SubStarts, SubEnds, Retry, Cancel

LEMMA NextIInv == IInv /\ [Next]_vars => IInv'
  <1> SUFFICES ASSUME IInv, [Next]_vars PROVE IInv'
    OBVIOUS
  <1>1. TypeOK'
    BY TypeNext DEF IInv
  <1>2. CASE Next /\ Plain
    BY <1>2, PlainNext
  <1>3. CASE Next /\ ~Plain
    BY <1>1, <1>3, WfKept DEF IInv, Plain
  <1>4. CASE UNCHANGED vars
    BY <1>1, <1>4 DEF IInv, vars, Plain, PlainInv, PlainPhase, OneRunning, ReadyIsFresh,
                      Ordered, FailureSpread, Steps
  <1>5. QED BY <1>2, <1>3, <1>4

-----------------------------------------------------------------------------

\* Every variable keeps its type, whatever workflow runs.
THEOREM ExecutorTypeCorrect == Spec => []TypeOK
  <1>1. IInv => TypeOK
    BY DEF IInv
  <1>2. QED BY InitIInv, NextIInv, <1>1, PTL DEF Spec

\* The step of the promise that a step of a plain workflow is.
LEMMA PlainStepIsPromised ==
    ASSUME TypeOK, TypeOK', PlainInv, Plain, Plain', PlainStep, wf' = wf
    PROVE  [Promise!Next]_(Promise!vars)
  <1> DEFINE st == [s \in Step |-> IF Plain THEN status[s] ELSE "pending"]
  <1>1. st = status /\ st' = status'
    BY DEF TypeOK
  <1>2. /\ wf.deps \in [Step -> SUBSET Step] /\ \A s \in Step \ Steps : wf.deps[s] = {}
        /\ Steps \subseteq Step
    BY WfFacts DEF TypeOK
  <1>3. phase = "task" => cur \in Step /\ status[cur] = "running"
    BY <1>2 DEF PlainInv, OneRunning
  <1>4. CASE UNCHANGED status
    BY <1>1, <1>4 DEF Promise!vars
  <1>5. ASSUME NEW s \in ready, phase = "for", status' = [status EXCEPT ![s] = "running"]
        PROVE  Promise!Next
    <2>1. s \in Step /\ status[s] = "pending" /\ \A d \in wf.deps[s] : status[d] = "completed"
      BY <1>2, <1>5 DEF TypeOK, PlainInv, ReadyIsFresh
    <2>2. \A d \in wf.deps[s] : st[d] = "completed"
      BY <1>1, <2>1
    <2>3. Promise!Start(s)
      BY <1>1, <1>5, <2>1, <2>2 DEF Promise!Start
    <2>4. QED BY <2>1, <2>3 DEF Promise!Next
  <1>6. ASSUME phase = "task", status' = [status EXCEPT ![cur] = "completed"]
        PROVE  Promise!Next
    BY <1>1, <1>3, <1>6 DEF Promise!Complete, Promise!Next
  <1>7. ASSUME phase = "task",
               status' = [q \in Step |-> IF q \in Dependents(cur) THEN "skipped"
                                         ELSE IF q = cur THEN "failed" ELSE status[q]]
        PROVE  Promise!Next
    <2>1. Promise!Dependents(cur) = Dependents(cur)
      BY <1>2 DEF Promise!Dependents, Dependents
    <2>2. \A q \in Dependents(cur) : status[q] \in {"pending", "skipped"}
      BY <1>2, <1>3, <1>7, DependentsWait DEF Dependents, PlainInv
    <2>3. cur \notin Dependents(cur)
      BY <1>3, <1>7, <2>2
    <2>4. status' = [q \in Step |-> IF q = cur THEN "failed"
                                    ELSE IF q \in Dependents(cur) THEN "skipped" ELSE status[q]]
      BY <1>7, <2>3
    <2>5. Promise!Fail(cur)
      BY <1>1, <1>3, <1>7, <2>1, <2>2, <2>4 DEF Promise!Fail
    <2>6. \E s \in Step : Promise!Fail(s)
      <3>1. cur \in Step
        BY <1>3, <1>7
      <3>2. QED BY <2>5, <3>1 DEF Promise!Fail
    <2>7. QED BY <2>6 DEF Promise!Next
  <1>8. ASSUME phase = "task", status' = [status EXCEPT ![cur] = "failed"]
        PROVE  Promise!Next
    BY <1>1, <1>3, <1>8 DEF Promise!Interrupt, Promise!Next
  <1>9. QED BY <1>4, <1>5, <1>6, <1>7, <1>8 DEF PlainStep

\* Any workflow of plain tasks keeps DagPromise: each step runs at most once, after
\* its dependencies completed, and a failure skips dependents that never started.
THEOREM ExecutorKeepsPromise == Spec => KeepsPromise
  <1>1. Init => Promise!Init
    BY DEF Init, Promise!Init
  <1>2. IInv /\ [Next]_vars => [Promise!Next]_(Promise!vars)
    <2> SUFFICES ASSUME IInv, [Next]_vars PROVE [Promise!Next]_(Promise!vars)
      OBVIOUS
    <2>1. CASE UNCHANGED vars
      BY <2>1 DEF vars, Plain, Promise!vars
    <2>2. CASE Next /\ ~Plain
      <3>1. wf' = wf /\ ~Plain'
        BY <2>2, WfKept DEF Plain
      <3>2. QED BY <2>2, <3>1 DEF Promise!vars
    <2>3. CASE Next /\ Plain
      <3>1. IInv' /\ Plain' /\ PlainStep /\ wf' = wf
        BY <2>3, PlainNext
      <3>2. QED BY <2>3, <3>1, PlainStepIsPromised DEF IInv
    <2>4. QED BY <2>1, <2>2, <2>3
  <1>3. QED BY InitIInv, NextIInv, <1>1, <1>2, PTL DEF Spec, KeepsPromise, Promise!Spec

-----------------------------------------------------------------------------
(* The account of a plain workflow *)

LEMMA InitLedger == Init => Ledger
  <1> SUFFICES ASSUME Init PROVE Ledger
    OBVIOUS
  <1>1. IInv /\ TypeOK /\ Steps \subseteq Step
    BY InitIInv, WfFacts DEF IInv, TypeOK
  <1>2. With("completed") = {} /\ With("failed") = {} /\ In("running") = {}
    BY <1>1 DEF Init, With, In
  <1>3. Account
    BY <1>1, <1>2, FS_EmptySet DEF Init, Account, Over
  <1>4. wf.width \in Nat
    BY <1>1, WorkflowAssumption DEF TypeOK
  <1>5. Slots
    <2>1. IsFiniteSet(In("running")) /\ Cardinality(In("running")) <= wf.width
      BY <1>2, <1>4, FS_EmptySet
    <2>2. state = "running" /\ phase = "pick" /\ \A s \in Step : pool[s] = "none" /\ tries[s] = 0
      BY DEF Init
    <2>3. QED  BY <2>1, <2>2 DEF Slots
  <1>6. QED  BY <1>1, <1>3, <1>5 DEF Ledger

\* One more step has status p, and no step loses it.
LEMMA OneMore ==
    ASSUME NEW p, NEW s \in Steps, status[s] # p, IsFiniteSet(With(p)), wf' = wf,
           \A q \in Steps : status'[q] = p <=> status[q] = p \/ q = s
    PROVE  IsFiniteSet(With(p)') /\ Cardinality(With(p)') = Cardinality(With(p)) + 1
  <1>1. With(p)' = With(p) \cup {s} /\ s \notin With(p)
    BY DEF With, Steps
  <1>2. QED  BY <1>1, FS_AddElement

LEMMA AccountNext ==
    ASSUME IInv, Plain, Account, Next
    PROVE  Account'
  <1>1. TypeOK /\ TypeOK' /\ PlainPhase /\ OneRunning /\ ReadyIsFresh /\ Ordered /\ FailureSpread
    BY TypeNext DEF IInv, PlainInv
  <1>w. /\ Steps \subseteq Step /\ wf.deps \in [Step -> SUBSET Step] /\ wf' = wf /\ Steps' = Steps
    BY <1>1, WfFacts, WfKept DEF TypeOK, Steps
  <1>t. status \in [Step -> Status] /\ runs \in [Step -> Nat] /\ ready \subseteq Steps
    BY <1>1 DEF TypeOK
  <1>4. ASSUME NEW s \in Step, EnterTask(s) PROVE Account'
    <2>1. /\ phase = "for" /\ phase' = "task" /\ s \in ready /\ s \in Steps
          /\ status' = [status EXCEPT ![s] = "running"] /\ runs' = [runs EXCEPT ![s] = @ + 1]
          /\ UNCHANGED <<good, bad, state>>
      BY <1>4, <1>t DEF EnterTask, Enter, IsNext, Begin, counts
    <2>2. status[s] = "pending" /\ runs[s] = 0 /\ state = "running"
      BY <1>1, <2>1 DEF ReadyIsFresh, Account
    <2>3. With("completed")' = With("completed") /\ With("failed")' = With("failed")
      BY <1>t, <1>w, <2>1, <2>2 DEF With
    <2>4. \A q \in Step : status'[q] = IF q = s THEN "running" ELSE status[q]
      BY <1>t, <2>1
    <2>5. \A q \in Step : runs'[q] = IF q = s THEN 1 ELSE runs[q]
      BY <1>t, <2>1, <2>2
    <2>6. \A d \in Step : status[d] = "failed" => status'[d] = "failed"
      BY <2>2, <2>4
    <2>7. \A q \in Step : status'[q] = "skipped" => \E d \in wf'.deps[q] : status'[d] = "failed"
      BY <1>w, <2>4, <2>6 DEF Account
    <2>8. QED
      BY <1>w, <2>1, <2>2, <2>3, <2>4, <2>5, <2>7 DEF Account, Over
  <1>5. ASSUME phase = "task", Complete(cur), UNCHANGED <<state, runs>> PROVE Account'
    <2>1. /\ cur \in Steps /\ status[cur] = "running" /\ state = "running" /\ phase' = "for"
          /\ good' = good + 1 /\ bad' = bad
      BY <1>1, <1>5 DEF OneRunning, Account, Complete
    <2>2. \A q \in Step : status'[q] = IF q = cur THEN "completed" ELSE status[q]
      BY <1>t, <1>5 DEF Complete
    <2>3. IsFiniteSet(With("completed")') /\ Cardinality(With("completed")') = good'
      BY <1>w, <2>1, <2>2, OneMore DEF Account
    <2>4. With("failed")' = With("failed")
      BY <1>w, <2>1, <2>2 DEF With
    <2>5. \A q \in Step : status'[q] = "skipped" => \E d \in wf'.deps[q] : status'[d] = "failed"
      BY <1>w, <2>1, <2>2 DEF Account
    <2>6. QED
      BY <1>5, <1>w, <2>1, <2>2, <2>3, <2>4, <2>5 DEF Account, Over
  <1>6. ASSUME phase = "task", Fail(cur), UNCHANGED <<state, runs>> PROVE Account'
    <2>1. /\ cur \in Steps /\ status[cur] = "running" /\ state = "running" /\ phase' = "for"
          /\ bad' = bad + 1 /\ good' = good
      BY <1>1, <1>6 DEF OneRunning, Account, Fail
    <2>2. \A q \in Dependents(cur) : q \in Steps /\ status[q] \in {"pending", "skipped"} /\ cur \in wf.deps[q]
      BY <1>1, <1>w, <2>1, DependentsWait DEF Dependents
    <2>3. \A q \in Step : status'[q] = IF q \in Dependents(cur) THEN "skipped"
                                       ELSE IF q = cur THEN "failed" ELSE status[q]
      BY <1>6 DEF Fail
    <2>4. status'[cur] = "failed"
      BY <1>w, <2>1, <2>2, <2>3
    <2>5. IsFiniteSet(With("failed")') /\ Cardinality(With("failed")') = bad'
      BY <1>w, <2>1, <2>2, <2>3, <2>4, OneMore DEF Account
    <2>6. With("completed")' = With("completed")
      BY <1>w, <2>1, <2>2, <2>3 DEF With
    <2>7. \A d \in Step : status[d] = "failed" => status'[d] = "failed"
      BY <2>2, <2>3
    <2>8. \A q \in Step : status'[q] = "skipped" => \E d \in wf'.deps[q] : status'[d] = "failed"
      BY <1>w, <2>1, <2>2, <2>3, <2>4, <2>7 DEF Account
    <2>9. \A q \in Step : runs'[q] = IF status'[q] \in {"running", "completed", "failed"} THEN 1 ELSE 0
      BY <1>6, <2>1, <2>2, <2>3 DEF Account
    <2>10. QED
      BY <1>6, <1>w, <2>1, <2>2, <2>3, <2>5, <2>6, <2>8, <2>9 DEF Account, Over
  <1>7. ASSUME NEW ok \in BOOLEAN, TaskEnds(ok) PROVE Account'
    BY <1>5, <1>6, <1>7 DEF TaskEnds, End
  <1>8. ASSUME Cancel PROVE Account'
    <2>1. /\ state' = "cancelled" /\ phase' = "ended" /\ runs' = runs
          /\ \A s \in Step : status'[s] = IF status[s] = "running" THEN "failed" ELSE status[s]
      BY <1>8 DEF Cancel
    <2>2. QED
      BY <1>w, <2>1 DEF Account, Over
  <1>9. ASSUME UNCHANGED <<status, runs, good, bad, state>>, phase # "ended", phase' # "ended" PROVE Account'
    <2>1. With("completed")' = With("completed") /\ With("failed")' = With("failed")
      BY <1>9, <1>w DEF With
    <2>2. QED
      BY <1>9, <1>w, <2>1 DEF Account, Over
  <1>10. ASSUME Finish PROVE Account'
    <2>1. /\ UNCHANGED <<status, runs, good, bad>> /\ Ready = {} /\ phase' = "ended" /\ phase = "pick"
          /\ state' = IF bad > 0 THEN "failed" ELSE "completed"
      BY <1>10 DEF Finish, counts
    <2>2. /\ With("completed")' = With("completed") /\ With("failed")' = With("failed") /\ Ready' = Ready
      BY <1>w, <2>1 DEF With, Ready
    <2>3. state = "running" /\ bad \in Nat
      BY <1>1, <2>1 DEF Account, TypeOK
    <2>4. \A s \in Step : status[s] = "pending" => \A d \in wf.deps[s] : status[d] # "failed"
      BY <1>1, <2>1 DEF FailureSpread
    <2>5. QED
      BY <1>w, <2>1, <2>2, <2>3, <2>4 DEF Account, Over
  <1>11. ASSUME Sweep PROVE Account'
    <2>1. PlainStep /\ phase = "for" /\ phase' = "pick" /\ UNCHANGED <<runs, good, bad, state>>
      BY <1>11, PlainNext DEF Sweep, counts
    <2>2. UNCHANGED status
      BY <2>1 DEF PlainStep
    <2>3. QED  BY <1>9, <2>1, <2>2
  <1>12. ASSUME Pick PROVE Account'
    BY <1>9, <1>12 DEF Pick, counts
  <1>13. ASSUME NEW s \in Step, Retry(s) PROVE Account'
    <2>1. UNCHANGED <<wf, status, phase, state, runs, good, bad>>
      BY <1>13 DEF Retry, counts
    <2>2. With("completed")' = With("completed") /\ With("failed")' = With("failed") /\ Ready' = Ready
      BY <1>w, <2>1 DEF With, Ready
    <2>3. QED
      BY <1>w, <2>1, <2>2 DEF Account, Over
  <1>14. \A s \in Step : /\ ~EnterNoBranch(s) /\ ~ConditionFails(s) /\ ~EnterGroup(s)
                         /\ \A i \in 1..2 : ~EnterBranch(s, i)
    BY DEF Plain, EnterNoBranch, ConditionFails, EnterGroup, EnterBranch
  <1>15. ~BranchStarts /\ ~BranchReturns /\ ~GroupReturns /\ \A ok \in BOOLEAN : ~BranchEnds(ok)
    BY <1>1 DEF PlainPhase, BranchStarts, BranchReturns, GroupReturns, BranchEnds
  <1>16. \A s \in Step : ~Sub(s)
    BY <1>1 DEF PlainPhase, Sub, SubStarts, SubEnds
  <1>17. QED
    BY <1>4, <1>7, <1>8, <1>10, <1>11, <1>12, <1>13, <1>14, <1>15, <1>16 DEF Next, Main

-----------------------------------------------------------------------------
(* The handlers of any workflow *)

\* Outside groups handlers run where execute() is.
AtWork(s) ==
    \/ phase = "task" /\ s = cur
    \/ phase = "branch" /\ todo # <<>> /\ s = Head(todo)

\* A step outside groups that leaves no handler anywhere else.
LEMMA SlotsOutside ==
    ASSUME Slots, TypeOK, wf' = wf, pool' = pool, state # "cancelled", state' # "cancelled", phase # "group", phase' # "group",
           \A s \in Step : tries'[s] > 0 => AtWork(s)'
    PROVE  Slots'
  <1>1. \A s \in Step : pool'[s] = "none"
    BY DEF Slots
  <1>2. In("running")' = In("running")
    BY DEF In
  <1>3. QED  BY <1>1, <1>2 DEF Slots, AtWork

LEMMA SlotsNext ==
    ASSUME TypeOK, Slots, Next
    PROVE  Slots'
  <1>1. /\ tries \in [Step -> Nat] /\ wf.width \in Nat /\ wf' = wf
        /\ pool \in [Step -> {"none", "queued", "running", "done", "raised"}]
    BY WfKept, WorkflowAssumption DEF TypeOK
  <1>i. phase \notin {"ended", "group"} => state # "cancelled" /\ \A s \in Step : tries[s] > 0 => AtWork(s)
    BY DEF Slots, AtWork
  <1>n. phase \notin {"ended", "group", "task", "branch"} => \A s \in Step : tries[s] = 0
    BY <1>1, <1>i DEF AtWork
  <1>4. ASSUME NEW s \in Step, EnterTask(s) PROVE Slots'
    <2>1. /\ phase = "for" /\ phase' = "task" /\ cur' = s /\ UNCHANGED <<pool, state>>
          /\ tries' = [tries EXCEPT ![s] = 1]
      BY <1>4 DEF EnterTask, Enter, Begin
    <2>2. \A q \in Step : tries'[q] > 0 => q = s
      BY <1>1, <1>n, <2>1
    <2>3. QED  BY <1>1, <1>i, <2>1, <2>2, SlotsOutside DEF AtWork
  <1>5. ASSUME UNCHANGED <<pool, tries, state>>, phase \in {"pick", "for"}, phase' \in {"pick", "for", "task", "branch"}
        PROVE  Slots'
    BY <1>1, <1>i, <1>n, <1>5, SlotsOutside
  <1>6. CASE Pick \/ Sweep \/ \E s \in Step : EnterNoBranch(s) \/ ConditionFails(s) \/ \E i \in 1..2 : EnterBranch(s, i)
    BY <1>5, <1>6 DEF Pick, Sweep, EnterNoBranch, ConditionFails, EnterBranch, Enter, Fail
  <1>7. CASE Finish
    <2>1. UNCHANGED <<pool, tries>> /\ phase = "pick" /\ phase' = "ended" /\ state' \in {"failed", "completed"}
      BY <1>7 DEF Finish
    <2>2. QED  BY <1>1, <1>i, <1>n, <2>1, SlotsOutside
  <1>8. ASSUME NEW s \in Step, EnterGroup(s) PROVE Slots'
    <2>1. /\ phase = "for" /\ phase' = "group" /\ UNCHANGED <<tries, state>>
          /\ \A q \in Step : pool'[q] \in {"queued", "none"}
      BY <1>8 DEF EnterGroup, Enter
    <2>2. In("running")' = {}
      BY <2>1 DEF In
    <2>3. QED  BY <1>1, <1>i, <1>n, <2>1, <2>2, FS_EmptySet DEF Slots
  <1>9. ASSUME NEW ok \in BOOLEAN, TaskEnds(ok) PROVE Slots'
    <2>1. /\ phase = "task" /\ phase' = "for" /\ UNCHANGED <<pool, state>>
          /\ tries' = [tries EXCEPT ![cur] = 0]
      BY <1>9 DEF TaskEnds, End, Complete, Fail
    <2>2. \A q \in Step : tries'[q] = 0
      BY <1>1, <1>i, <2>1 DEF AtWork
    <2>3. QED  BY <1>1, <1>i, <2>1, <2>2, SlotsOutside
  <1>10. ASSUME NEW ok \in BOOLEAN, BranchEnds(ok) PROVE Slots'
    <2>1. /\ phase = "branch" /\ phase' = "branch" /\ UNCHANGED <<pool, state>>
          /\ tries' = [tries EXCEPT ![Head(todo)] = 0]
      BY <1>10 DEF BranchEnds, End
    <2>2. \A q \in Step : tries'[q] = 0
      BY <1>1, <1>i, <2>1 DEF AtWork
    <2>3. QED  BY <1>1, <1>i, <2>1, <2>2, SlotsOutside
  <1>11. CASE BranchStarts
    <2>1. /\ phase = "branch" /\ phase' = "branch" /\ UNCHANGED <<pool, state, todo>> /\ todo # <<>>
          /\ tries' = [tries EXCEPT ![Head(todo)] = 1]
      BY <1>11 DEF BranchStarts, Begin
    <2>2. \A q \in Step : tries'[q] > 0 => q = Head(todo)
      BY <1>1, <1>i, <2>1 DEF AtWork
    <2>3. QED  BY <1>1, <1>i, <2>1, <2>2, SlotsOutside DEF AtWork
  <1>12. CASE BranchReturns
    <2>1. /\ phase = "branch" /\ phase' = "for" /\ UNCHANGED <<pool, state, tries>> /\ todo = <<>>
      BY <1>12 DEF BranchReturns, Complete
    <2>2. \A q \in Step : tries[q] = 0
      BY <1>1, <1>i, <2>1 DEF AtWork
    <2>3. QED  BY <1>1, <1>i, <2>1, <2>2, SlotsOutside
  <1>13. CASE GroupReturns
    <2>1. /\ phase = "group" /\ phase' = "for" /\ state' = state
          /\ \A q \in Step : pool'[q] = "none" /\ tries'[q] = IF pool[q] = "running" THEN 0 ELSE tries[q]
      BY <1>13 DEF GroupReturns
    <2>2. \A q \in Step : tries'[q] = 0
      BY <1>1, <2>1 DEF Slots
    <2>3. In("running")' = {}
      BY <2>1 DEF In
    <2>4. state' # "cancelled"
      BY <2>1 DEF Slots
    <2>5. QED  BY <1>1, <2>1, <2>2, <2>3, <2>4, FS_EmptySet DEF Slots
  <1>14. CASE Cancel
    <2>1. /\ state' = "cancelled" /\ phase' = "ended" /\ pool' = pool
          /\ tries' = IF phase = "group" THEN tries ELSE [s \in Step |-> 0]
      BY <1>14 DEF Cancel
    <2>2. In("running")' = In("running")
      BY <2>1 DEF In
    <2>3. \A q \in Step : tries'[q] > 0 => pool'[q] = "running"
      BY <2>1 DEF Slots
    <2>4. QED  BY <1>1, <2>1, <2>2, <2>3 DEF Slots
  <1>15. ASSUME NEW s \in Step, SubStarts(s) PROVE Slots'
    <2>1. /\ pool[s] = "queued" /\ Cardinality(In("running")) < wf.width /\ UNCHANGED <<phase, state>>
          /\ pool' = [pool EXCEPT ![s] = "running"] /\ tries' = [tries EXCEPT ![s] = 1]
      BY <1>15 DEF SubStarts, Begin
    <2>2. phase = "group" \/ state = "cancelled"
      BY <2>1 DEF Slots
    <2>3. In("running")' = In("running") \cup {s} /\ s \notin In("running")
      BY <1>1, <2>1 DEF In
    <2>4. IsFiniteSet(In("running")') /\ Cardinality(In("running")') = Cardinality(In("running")) + 1
      BY <2>3, FS_AddElement DEF Slots
    <2>5. Cardinality(In("running")) \in Nat
      BY FS_CardinalityType DEF Slots
    <2>6. \A q \in Step : tries'[q] > 0 => pool'[q] = "running"
      BY <1>1, <2>1, <2>2 DEF Slots
    <2>7. QED  BY <1>1, <2>1, <2>2, <2>4, <2>5, <2>6 DEF Slots
  <1>16. ASSUME NEW s \in Step, NEW ok \in BOOLEAN, SubEnds(s, ok) PROVE Slots'
    <2>1. /\ pool[s] = "running" /\ UNCHANGED <<phase, state>>
          /\ pool' = [pool EXCEPT ![s] = IF ~ok /\ wf.failFast THEN "raised" ELSE "done"]
          /\ tries' = [tries EXCEPT ![s] = 0]
      BY <1>16 DEF SubEnds, End
    <2>2. phase = "group" \/ state = "cancelled"
      BY <2>1 DEF Slots
    <2>3. In("running")' \in SUBSET In("running")
      BY <1>1, <2>1 DEF In
    <2>4. IsFiniteSet(In("running")') /\ Cardinality(In("running")') <= Cardinality(In("running"))
      BY <2>3, FS_Subset DEF Slots
    <2>5. Cardinality(In("running")) \in Nat /\ Cardinality(In("running")') \in Nat
      BY <2>4, FS_CardinalityType DEF Slots
    <2>6. \A q \in Step : tries'[q] > 0 => pool'[q] = "running"
      BY <1>1, <2>1, <2>2 DEF Slots
    <2>7. QED  BY <1>1, <2>1, <2>2, <2>4, <2>5, <2>6 DEF Slots
  <1>17. ASSUME NEW s \in Step, Retry(s) PROVE Slots'
    <2>1. /\ tries[s] > 0 /\ tries' = [tries EXCEPT ![s] = @ + 1]
          /\ UNCHANGED <<pool, phase, state, cur, todo>>
      BY <1>1, <1>17, WorkflowAssumption DEF Retry, TypeOK
    <2>2. \A q \in Step : tries'[q] > 0 => tries[q] > 0
      BY <1>1, <2>1
    <2>3. In("running")' = In("running")
      BY <2>1 DEF In
    <2>4. QED  BY <1>1, <2>1, <2>2, <2>3 DEF Slots
  <1>18. QED
    BY <1>4, <1>6, <1>7, <1>8, <1>9, <1>10, <1>11, <1>12, <1>13, <1>14, <1>15, <1>16, <1>17 DEF Next, Main, Sub

LEMMA NextLedger == Ledger /\ [Next]_vars => Ledger'
  <1> SUFFICES ASSUME Ledger, [Next]_vars PROVE Ledger'
    OBVIOUS
  <1>1. IInv' /\ TypeOK
    BY NextIInv DEF Ledger, IInv
  <1>2. CASE Next
    <2>1. Slots'
      BY <1>1, <1>2, SlotsNext DEF Ledger
    <2>2. Plain' => Account'
      BY <1>2, AccountNext, WfKept DEF Ledger, Plain
    <2>3. QED  BY <1>1, <2>1, <2>2 DEF Ledger
  <1>3. CASE UNCHANGED vars
    BY <1>1, <1>3 DEF Ledger, vars, counts, Plain, Account, Slots, Over, With, In, Ready, Steps
  <1>4. QED  BY <1>2, <1>3

-----------------------------------------------------------------------------

\* No more handlers run at once than a group's max_concurrency allows, and
\* outside groups one, in any workflow and however it fails or is cancelled.
THEOREM ExecutorHandlersBounded == Spec => []HandlersBounded
  <1>1. ASSUME Ledger PROVE HandlersBounded
    <2> DEFINE busy == {s \in Step : tries[s] > 0}
    <2>1. wf.width \in Nat /\ Slots
      BY <1>1, WorkflowAssumption DEF Ledger, IInv, TypeOK
    <2>2. CASE phase = "group" \/ state = "cancelled"
      <3>1. busy \in SUBSET In("running")
        BY <2>1, <2>2 DEF Slots, In
      <3>2. IsFiniteSet(busy) /\ Cardinality(busy) <= Cardinality(In("running"))
        BY <2>1, <3>1, FS_Subset DEF Slots
      <3>3. Cardinality(busy) \in Nat /\ Cardinality(In("running")) \in Nat
        BY <2>1, <3>2, FS_CardinalityType DEF Slots
      <3>4. QED  BY <2>1, <2>2, <3>2, <3>3 DEF HandlersBounded, Slots
    <2>3. CASE ~(phase = "group" \/ state = "cancelled")
      <3>1. PICK x : busy \in SUBSET {x}
        <4>1. CASE phase = "task"
          BY <2>1, <2>3, <4>1 DEF Slots
        <4>2. CASE phase # "task"
          BY <2>1, <2>3, <4>2 DEF Slots
        <4>3. QED  BY <4>1, <4>2
      <3>2. IsFiniteSet({x}) /\ Cardinality({x}) = 1
        BY FS_Singleton
      <3>3. Cardinality(busy) <= 1
        BY <3>1, <3>2, FS_Subset
      <3>4. QED  BY <2>3, <3>3 DEF HandlersBounded
    <2>4. QED  BY <2>2, <2>3
  <1>2. QED  BY <1>1, InitLedger, NextLedger, PTL DEF Spec

\* The counters of a plain workflow are right, and it is reported completed only
\* if all of it is, provided that its dependencies can be met (execute).
THEOREM ExecutorResultTrue == Spec => []ResultTrue
  <1>1. ASSUME Ledger PROVE ResultTrue
    <2> SUFFICES ASSUME Plain, Over
                 PROVE  /\ Grounded => (state = "completed" <=> With("completed") = Steps)
                        /\ good = Cardinality(With("completed"))
                        /\ bad = Cardinality(With("failed"))
      BY DEF ResultTrue
    <2>1. TypeOK /\ PlainInv /\ Account
      BY <1>1 DEF Ledger, IInv
    <2>2. good = Cardinality(With("completed")) /\ bad = Cardinality(With("failed"))
          /\ Ready = {} /\ (state = "completed" <=> With("failed") = {})
      BY <2>1, FS_EmptySet DEF Account, Over
    <2>3. Steps \subseteq Step /\ status \in [Step -> Status]
      BY <2>1, WfFacts DEF TypeOK
    <2>4. ASSUME Grounded, With("failed") = {} PROVE With("completed") = Steps
      <3>1. \A s \in Steps : status[s] \in {"pending", "completed"}
        <4>1. SUFFICES ASSUME NEW s \in Steps PROVE status[s] \in {"pending", "completed"}
          OBVIOUS
        <4>2. status[s] # "running"
          BY <2>1, <2>3 DEF PlainInv, OneRunning, Over
        <4>3. status[s] # "failed"
          BY <2>4 DEF With
        <4>4. status[s] # "skipped"
          <5>1. SUFFICES ASSUME status[s] = "skipped" PROVE FALSE
            OBVIOUS
          <5>2. PICK d \in wf.deps[s] : status[d] = "failed"
            BY <2>1, <2>3, <5>1 DEF Account
          <5>3. d \in Steps
            BY <2>4 DEF Grounded
          <5>4. QED  BY <2>4, <5>2, <5>3 DEF With
        <4>5. QED  BY <2>3, <4>2, <4>3, <4>4 DEF Status
      <3>2. With("pending") = {}
        <4>1. SUFFICES ASSUME With("pending") # {} PROVE FALSE
          OBVIOUS
        <4>2. PICK s \in With("pending") : wf.deps[s] \cap With("pending") = {}
          BY <2>4, <4>1 DEF Grounded, With
        <4>3. s \in Steps /\ status[s] = "pending" /\ wf.deps[s] \subseteq Steps
          BY <2>4, <4>2 DEF Grounded, With
        <4>4. \A d \in wf.deps[s] : d \in Steps /\ status[d] = "completed"
          BY <3>1, <4>2, <4>3 DEF With
        <4>5. s \in Ready
          BY <4>3, <4>4 DEF Ready
        <4>6. QED  BY <2>2, <4>5
      <3>3. QED  BY <3>1, <3>2 DEF With
    <2>5. ASSUME With("completed") = Steps PROVE With("failed") = {}
      BY <2>5 DEF With
    <2>6. QED  BY <2>2, <2>4, <2>5
  <1>2. QED  BY <1>1, InitLedger, NextLedger, PTL DEF Spec

\* Each step of a plain workflow that is over ran once, or was skipped for a
\* failed dependency, or waits for one that did not run (_find_dependents).
THEOREM ExecutorAccounted == Spec => []Accounted
  <1>1. ASSUME Ledger PROVE Accounted
    <2> SUFFICES ASSUME Plain, Over, NEW s \in Steps
                 PROVE  /\ runs[s] = IF status[s] \in {"completed", "failed"} THEN 1 ELSE 0
                        /\ status[s] = "skipped" => wf.deps[s] \cap With("failed") # {}
                        /\ status[s] = "pending" => wf.deps[s] \ (With("completed") \cup With("failed")) # {}
      BY DEF Accounted
    <2>1. TypeOK /\ PlainInv /\ Account /\ Ready = {}
      BY <1>1 DEF Ledger, IInv, Account
    <2>2. s \in Step /\ Steps \subseteq Step /\ wf.deps[s] \subseteq Step
      BY <2>1, WfFacts DEF TypeOK
    <2>3. runs[s] = IF status[s] \in {"completed", "failed"} THEN 1 ELSE 0
      BY <2>1, <2>2 DEF Account, PlainInv, OneRunning, Over
    <2>4. ASSUME status[s] = "skipped" PROVE wf.deps[s] \cap With("failed") # {}
      <3>1. PICK d \in wf.deps[s] : status[d] = "failed"
        BY <2>1, <2>2, <2>4 DEF Account
      <3>2. d \in Steps
        BY <2>1, <2>2, <3>1 DEF Account
      <3>3. QED  BY <3>1, <3>2 DEF With
    <2>5. ASSUME status[s] = "pending"
          PROVE  wf.deps[s] \ (With("completed") \cup With("failed")) # {}
      <3>1. PICK d \in wf.deps[s] : ~(d \in Steps /\ status[d] = "completed")
        BY <2>1, <2>5 DEF Ready
      <3>2. d \notin With("failed")
        <4>1. status[d] # "failed"
          BY <2>1, <2>2, <2>5 DEF Account
        <4>2. QED  BY <4>1 DEF With
      <3>3. QED  BY <3>1, <3>2 DEF With
    <2>6. QED  BY <2>3, <2>4, <2>5
  <1>2. QED  BY <1>1, InitLedger, NextLedger, PTL DEF Spec

-----------------------------------------------------------------------------
(* The swarm manager *)

\* Swarms and agents are numbered as they come; who is in a swarm is alive and
\* the swarm is too.
Roster ==
    /\ \E k \in Nat : used = 1..k
    /\ \A s \in Swarm \ used : spec[s] = None
    /\ \E k \in Nat : {a \in Agent : agent[a] # "unborn"} = 1..k
    /\ \A a \in Agent : member[a] # None =>
         /\ agent[a] \in {"spawning", "active", "idle"}
         /\ spec[member[a]] # None

\* An agent that was never given two tasks works on one at most, and on none
\* when it is idle.
Works(t, a) == stage[t] = "working" /\ place[t][2] = a

Toil ==
    /\ \A t \in Task : stage[t] \in {"routed", "working"} => place[t] \in Swarm \X Agent
    /\ \A a \in Agent \ shared : \A t \in Task :
         Works(t, a) => agent[a] # "idle" /\ \A u \in Task : Works(u, a) => t = u

SwarmIInv == Swarms!TypeOK /\ Roster /\ Toil /\ SizeWithinLimits

-----------------------------------------------------------------------------

\* The instance counts as the library does.
LEMMA SwarmCardinality == \A S : Swarms!Cardinality(S) = Cardinality(S) /\ (Swarms!IsFiniteSet(S) <=> IsFiniteSet(S))
  BY DEF Swarms!Cardinality, Cardinality, Swarms!IsFiniteSet, IsFiniteSet

LEMMA SwarmConstants ==
    /\ Swarm \in SUBSET (Nat \ {0}) /\ Agent \in SUBSET (Nat \ {0}) /\ Task \subseteq Nat
    /\ IsFiniteSet(Agent) /\ None \notin Swarm /\ None \notin Agent /\ None \notin Specs
    /\ \A sp \in Specs : /\ sp.role \in Role /\ sp.min \in Int /\ sp.max \in Int
                         /\ sp.initial \in Nat /\ sp.slots \in Nat
  BY PackagesAssumption, SwarmCardinality DEF Swarms!SwarmAssumption

USE SwarmConstants, SwarmCardinality

\* The sets of agents that are counted.
LEMMA AgentSets ==
    ASSUME NEW A \in SUBSET Agent
    PROVE  IsFiniteSet(A) /\ Cardinality(A) \in Nat
  BY FS_Subset, FS_CardinalityType

LEMMA MoreAgents ==
    ASSUME NEW A \in SUBSET Agent, NEW B \in SUBSET A
    PROVE  Cardinality(B) <= Cardinality(A)
  BY AgentSets, FS_Subset

LEMMA JoinedAgents ==
    ASSUME NEW A \in SUBSET Agent, NEW B \in SUBSET Agent
    PROVE  Cardinality(A \cup B) <= Cardinality(A) + Cardinality(B)
  <1>1. /\ Cardinality(A) \in Nat /\ Cardinality(B) \in Nat /\ Cardinality(A \cap B) \in Nat
        /\ IsFiniteSet(A) /\ IsFiniteSet(B)
    BY AgentSets
  <1>2. Cardinality(A \cup B) = Cardinality(A) + Cardinality(B) - Cardinality(A \cap B)
    BY <1>1, FS_Union
  <1>3. QED  BY <1>1, <1>2

LEMMA CountTo == \A k \in Nat : Cardinality(1..k) = k
  BY FS_Interval

\* Agents that are added are new, and as many as were asked for.
LEMMA MadeAgents ==
    ASSUME Roster, Swarms!TypeOK, NEW n \in Nat, NEW A \in Swarms!Made(n)
    PROVE  /\ A \in SUBSET Agent /\ Cardinality(A) = n
           /\ \A a \in A : agent[a] = "unborn" /\ member[a] = None
           /\ \E k \in Nat : {a \in Agent : agent[a] # "unborn"} \cup A = 1..k
  <1> PICK k \in Nat : {a \in Agent : agent[a] # "unborn"} = 1..k
    BY DEF Roster
  <1>1. Swarms!Born = k
    BY CountTo DEF Swarms!Born
  <1>2. A \in SUBSET Agent /\ A = (k + 1)..(k + n)
    BY <1>1 DEF Swarms!Made
  <1>3. Cardinality(A) = n
    BY <1>2, FS_Interval
  <1>4. \A a \in A : agent[a] = "unborn"
    BY <1>2
  <1>5. \A a \in A : member[a] = None
    BY <1>2, <1>4 DEF Roster
  <1>6. 1..k \cup (k + 1)..(k + n) = 1..(k + n)
    OBVIOUS
  <1>7. QED  BY <1>2, <1>3, <1>4, <1>5, <1>6

\* The metrics after an update count the agents that there are then.
LEMMA MetricsUpdated ==
    ASSUME Swarms!TypeOK, NEW s \in Swarm, Swarms!UpdateMetrics(s)
    PROVE  /\ count' \in [Swarm -> Nat] /\ running' \in [Swarm -> Nat]
           /\ Cardinality(Swarms!Members(s)') <= count'[s]
           /\ \A u \in Swarm \ {s} : count'[u] = count[u]
  <1> DEFINE mine == {a \in Agent : member'[a] = s}
             busy == {a \in mine : agent'[a] = "active"}
  <1>1. Cardinality(mine) \in Nat /\ Cardinality(busy) \in Nat
    BY AgentSets
  <1>2. count \in [Swarm -> Nat] /\ running \in [Swarm -> Nat]
    BY DEF Swarms!TypeOK
  <1>3. Swarms!Members(s)' = mine
    BY DEF Swarms!Members
  <1>4. CASE mine = {}
    <2>1. count' = count /\ running' = running
      BY <1>4 DEF Swarms!UpdateMetrics, Swarms!metrics
    <2>2. Cardinality(mine) = 0
      BY <1>4, FS_EmptySet
    <2> HIDE DEF mine
    <2>3. Cardinality(Swarms!Members(s)') = 0
      BY <1>3, <2>2
    <2>4. count'[s] \in Nat
      BY <1>2, <2>1
    <2>5. QED  BY <1>2, <2>1, <2>3, <2>4
  <1>5. CASE mine # {}
    <2>1. /\ count' = [count EXCEPT ![s] = Cardinality(mine)]
          /\ running' = [running EXCEPT ![s] = Cardinality(busy)]
      BY <1>5 DEF Swarms!UpdateMetrics
    <2>2. QED  BY <1>1, <1>2, <1>3, <2>1
  <1>6. QED  BY <1>4, <1>5

\* A swarm whose agents and count stay as they are is within its limits.
LEMMA SizeKept ==
    ASSUME SizeWithinLimits,
           \A s \in Swarm : spec'[s] # None =>
               \/ Cardinality(Swarms!Members(s)') <= count'[s]
                  /\ (\/ Cardinality(Swarms!Members(s)') <= spec'[s].max
                      \/ Cardinality(Swarms!Members(s)') <= spec'[s].initial)
               \/ spec'[s] = spec[s] /\ count'[s] = count[s] /\ Swarms!Members(s)' = Swarms!Members(s)
    PROVE  SizeWithinLimits'
  BY DEF SizeWithinLimits, Swarms!SizeWithinLimits, Swarms!Alive

\* The limits of a swarm that only loses agents, or keeps them.
LEMMA SizeShrunk ==
    ASSUME SwarmIInv, NEW s \in Swarm, spec[s] # None, spec'[s] = spec[s],
           Swarms!Members(s)' \subseteq Swarms!Members(s)
    PROVE  /\ Cardinality(Swarms!Members(s)') <= count[s]
           /\ \/ Cardinality(Swarms!Members(s)') <= spec'[s].max
              \/ Cardinality(Swarms!Members(s)') <= spec'[s].initial
  <1>1. Swarms!Members(s) \in SUBSET Agent
    BY DEF Swarms!Members
  <1>2. Cardinality(Swarms!Members(s)') <= Cardinality(Swarms!Members(s))
    BY <1>1, MoreAgents
  <1>3. Cardinality(Swarms!Members(s)') \in Nat /\ Cardinality(Swarms!Members(s)) \in Nat
    BY <1>1, AgentSets
  <1>4. spec[s].max \in Int /\ spec[s].initial \in Nat /\ count[s] \in Nat
    BY DEF SwarmIInv, Swarms!TypeOK
  <1>5. /\ Cardinality(Swarms!Members(s)) <= count[s]
        /\ Cardinality(Swarms!Members(s)) <= spec[s].max \/ Cardinality(Swarms!Members(s)) <= spec[s].initial
    BY DEF SwarmIInv, SizeWithinLimits, Swarms!SizeWithinLimits, Swarms!Alive
  <1>6. QED  BY <1>2, <1>3, <1>4, <1>5

-----------------------------------------------------------------------------

LEMMA SwarmInit == Swarms!Init => SwarmIInv
  <1> SUFFICES ASSUME Swarms!Init PROVE SwarmIInv
    OBVIOUS
  <1> USE DEF Swarms!Init
  <1>1. Swarms!TypeOK
    BY DEF Swarms!TypeOK
  <1>2. Roster
    <2>1. 0 \in Nat /\ {} = 1..0
      OBVIOUS
    <2>2. {a \in Agent : agent[a] # "unborn"} = {} /\ \A a \in Agent : member[a] = None
      OBVIOUS
    <2>3. QED  BY <2>1, <2>2 DEF Roster
  <1>3. Toil
    BY DEF Toil, Works
  <1>4. SizeWithinLimits
    BY DEF SizeWithinLimits, Swarms!SizeWithinLimits, Swarms!Alive
  <1>5. QED  BY <1>1, <1>2, <1>3, <1>4 DEF SwarmIInv

LEMMA SwarmSpawned ==
    ASSUME SwarmIInv, NEW s \in Swarm, NEW sp \in Specs, Swarms!SpawnSwarm(s, sp)
    PROVE  SwarmIInv'
  <1> PICK A \in Swarms!Made(sp.initial) :
         /\ member' = [a \in Agent |-> IF a \in A THEN s ELSE member[a]]
         /\ agent' = [a \in Agent |-> IF a \in A THEN "active" ELSE agent[a]]
    BY DEF Swarms!SpawnSwarm
  <1>1. /\ s = Cardinality(used) + 1
        /\ spec' = [spec EXCEPT ![s] = sp]
        /\ used' = used \cup {s}
        /\ roleMap' = [roleMap EXCEPT ![sp.role] = s]
        /\ count' = [count EXCEPT ![s] = sp.initial]
        /\ running' = [running EXCEPT ![s] = 0]
        /\ UNCHANGED <<erred, cooling, stage, place, shared>>
    BY DEF Swarms!SpawnSwarm, Swarms!tasks
  <1>2. Swarms!TypeOK /\ Roster /\ Toil /\ SizeWithinLimits
    BY DEF SwarmIInv
  <1>3. /\ A \in SUBSET Agent /\ Cardinality(A) = sp.initial
        /\ \A a \in A : agent[a] = "unborn" /\ member[a] = None
        /\ \E k \in Nat : {a \in Agent : agent[a] # "unborn"} \cup A = 1..k
    BY <1>2, MadeAgents
  <1>4. s \notin used /\ \E k \in Nat : used' = 1..k
    <2> PICK k \in Nat : used = 1..k
      BY <1>2 DEF Roster
    <2>1. s = k + 1
      BY <1>1, CountTo
    <2>2. 1..k \cup {k + 1} = 1..(k + 1) /\ k + 1 \notin 1..k
      OBVIOUS
    <2>3. QED  BY <1>1, <2>1, <2>2
  <1>5. spec[s] = None
    BY <1>2, <1>4 DEF Roster
  <1>6. Swarms!TypeOK'
    BY <1>1, <1>2, <1>3 DEF Swarms!TypeOK
  <1>7. Roster'
    <2>1. \A u \in Swarm \ used' : spec'[u] = None
      BY <1>1, <1>2 DEF Roster, Swarms!TypeOK
    <2>2. {a \in Agent : agent'[a] # "unborn"} = {a \in Agent : agent[a] # "unborn"} \cup A
      BY <1>3
    <2>3. ASSUME NEW a \in Agent, member'[a] # None
          PROVE  agent'[a] \in {"spawning", "active", "idle"} /\ spec'[member'[a]] # None
      BY <1>1, <1>2, <2>3 DEF Roster, Swarms!TypeOK
    <2>4. QED  BY <1>3, <1>4, <2>1, <2>2, <2>3 DEF Roster
  <1>8. Toil'
    <2>1. \A q \in Task, a \in Agent : Works(q, a)' = Works(q, a)
      BY <1>1 DEF Works
    <2>2. \A a \in Agent : agent'[a] = "idle" => agent[a] = "idle"
      BY <1>3
    <2>3. QED  BY <1>1, <1>2, <2>1, <2>2 DEF Toil
  <1>9. SizeWithinLimits'
    <2>1. Swarms!Members(s)' = A
      BY <1>2, <1>3, <1>5 DEF Swarms!Members, Roster
    <2>2. ASSUME NEW u \in Swarm, u # s
          PROVE  spec'[u] = spec[u] /\ count'[u] = count[u] /\ Swarms!Members(u)' = Swarms!Members(u)
      <3>1. spec'[u] = spec[u] /\ count'[u] = count[u]
        BY <1>1, <1>2, <2>2 DEF Swarms!TypeOK
      <3>2. Swarms!Members(u)' = Swarms!Members(u)
        BY <1>3, <2>2 DEF Swarms!Members
      <3>3. QED  BY <3>1, <3>2
    <2>3. spec'[s] = sp /\ count'[s] = sp.initial
      BY <1>1, <1>2 DEF Swarms!TypeOK
    <2>4. QED  BY <1>2, <1>3, <2>1, <2>2, <2>3, SizeKept
  <1>10. QED  BY <1>6, <1>7, <1>8, <1>9 DEF SwarmIInv

LEMMA SwarmTerminated ==
    ASSUME SwarmIInv, NEW s \in Swarm, Swarms!TerminateSwarm(s)
    PROVE  SwarmIInv'
  <1> USE DEF Swarms!TerminateSwarm, Swarms!Terminated, Swarms!tasks
  <1>1. Swarms!TypeOK /\ Roster /\ Toil /\ SizeWithinLimits
    BY DEF SwarmIInv
  <1>2. Swarms!TypeOK'
    BY <1>1 DEF Swarms!TypeOK
  <1>3. Roster'
    <2>1. {a \in Agent : agent'[a] # "unborn"} = {a \in Agent : agent[a] # "unborn"}
      BY <1>1 DEF Roster
    <2>2. \A a \in Agent : member'[a] # None =>
             agent'[a] \in {"spawning", "active", "idle"} /\ spec'[member'[a]] # None
      BY <1>1 DEF Roster, Swarms!TypeOK
    <2>3. \A u \in Swarm \ used' : spec'[u] = None
      BY <1>1 DEF Roster, Swarms!TypeOK
    <2>4. QED  BY <1>1, <2>1, <2>2, <2>3 DEF Roster
  <1>4. Toil'
    <2>1. \A q \in Task, a \in Agent : Works(q, a)' = Works(q, a)
      BY DEF Works
    <2>2. QED  BY <1>1, <2>1 DEF Toil
  <1>5. SizeWithinLimits'
    <2>1. ASSUME NEW u \in Swarm, u # s
          PROVE  spec'[u] = spec[u] /\ count'[u] = count[u] /\ Swarms!Members(u)' = Swarms!Members(u)
      BY <1>1, <2>1 DEF Swarms!TypeOK, Swarms!Members
    <2>2. spec'[s] = None
      BY <1>1 DEF Swarms!TypeOK
    <2>3. QED  BY <1>1, <2>1, <2>2, SizeKept
  <1>6. QED  BY <1>2, <1>3, <1>4, <1>5 DEF SwarmIInv

LEMMA SwarmsMerged ==
    ASSUME SwarmIInv, NEW s \in Swarm, NEW u \in Swarm, Swarms!MergeSwarms(s, u)
    PROVE  SwarmIInv'
  <1>1. Swarms!TypeOK /\ Roster /\ Toil /\ SizeWithinLimits
    BY DEF SwarmIInv
  <1>2. /\ spec[s] # None /\ spec[u] # None /\ s # u /\ Swarms!Room(u) > 0
        /\ UNCHANGED <<used, agent, erred, roleMap, stage, place, shared>>
    BY DEF Swarms!MergeSwarms, Swarms!Alive, Swarms!tasks
  <1> PICK A \in SUBSET Swarms!Members(s) :
         /\ Cardinality(A) = IF Swarms!Room(u) < Cardinality(Swarms!Members(s)) THEN Swarms!Room(u)
                             ELSE Cardinality(Swarms!Members(s))
         /\ member' = [a \in Agent |-> IF a \in A THEN u ELSE member[a]]
         /\ spec' = IF A = Swarms!Members(s) THEN [spec EXCEPT ![s] = None] ELSE spec
         /\ cooling' = IF A = Swarms!Members(s) THEN cooling \ {s} ELSE cooling
         /\ LET all == Swarms!Members(u) \cup A
                left == IF A = Swarms!Members(s) THEN 0 ELSE count[s]
                busy == IF A = Swarms!Members(s) THEN 0 ELSE running[s]
            IN IF all = {} THEN UNCHANGED Swarms!metrics
               ELSE /\ count' = [count EXCEPT ![s] = left, ![u] = Cardinality(all)]
                    /\ running' = [running EXCEPT ![s] = busy,
                                     ![u] = Cardinality({a \in all : agent[a] = "active"})]
    BY DEF Swarms!MergeSwarms
  <1> DEFINE all == Swarms!Members(u) \cup A
             left == IF A = Swarms!Members(s) THEN 0 ELSE count[s]
             busy == IF A = Swarms!Members(s) THEN 0 ELSE running[s]
  <1>3. /\ A \in SUBSET Agent /\ all \in SUBSET Agent
        /\ Swarms!Members(s) \in SUBSET Agent /\ Swarms!Members(u) \in SUBSET Agent
        /\ {a \in all : agent[a] = "active"} \in SUBSET Agent
    BY DEF Swarms!Members
  <1>4. /\ count \in [Swarm -> Nat] /\ running \in [Swarm -> Nat]
        /\ left \in Nat /\ busy \in Nat
        /\ Cardinality(all) \in Nat /\ Cardinality({a \in all : agent[a] = "active"}) \in Nat
    BY <1>1, <1>3, AgentSets DEF Swarms!TypeOK
  <1>5. /\ all = {} => count' = count /\ running' = running
        /\ all # {} => /\ count' = [[count EXCEPT ![s] = left] EXCEPT ![u] = Cardinality(all)]
                       /\ running' \in [Swarm -> Nat]
    BY <1>4 DEF Swarms!metrics
  <1>6. /\ count' \in [Swarm -> Nat] /\ running' \in [Swarm -> Nat]
        /\ count'[u] >= Cardinality(all)
        /\ A # Swarms!Members(s) => count'[s] = count[s]
        /\ \A v \in Swarm \ {s, u} : count'[v] = count[v]
    BY <1>2, <1>4, <1>5, FS_EmptySet
  <1>7. /\ Swarms!Members(u)' = all
        /\ Swarms!Members(s)' = Swarms!Members(s) \ A
        /\ \A v \in Swarm \ {s, u} : Swarms!Members(v)' = Swarms!Members(v)
    BY <1>2 DEF Swarms!Members
  <1>8. /\ \A v \in Swarm \ {s} : spec'[v] = spec[v]
        /\ A = Swarms!Members(s) => spec'[s] = None
        /\ A # Swarms!Members(s) => spec'[s] = spec[s]
    BY <1>1 DEF Swarms!TypeOK
  <1>9. Swarms!TypeOK'
    <2>1. spec' \in [Swarm -> Specs \cup {None}] /\ cooling' \in SUBSET Swarm
      BY <1>1 DEF Swarms!TypeOK
    <2>2. member' \in [Agent -> Swarm \cup {None}]
      BY <1>1, <1>3 DEF Swarms!TypeOK
    <2>3. QED  BY <1>1, <1>2, <1>6, <2>1, <2>2 DEF Swarms!TypeOK
  <1>10. Roster'
    <2>1. \A v \in Swarm \ used' : spec'[v] = None
      BY <1>1, <1>2, <1>8 DEF Roster
    <2>2. ASSUME NEW a \in Agent, member'[a] # None
          PROVE  agent'[a] \in {"spawning", "active", "idle"} /\ spec'[member'[a]] # None
      <3>1. CASE a \in A
        BY <1>1, <1>2, <1>8, <3>1 DEF Roster, Swarms!Members
      <3>2. CASE a \notin A
        <4>1. member'[a] = member[a] /\ member[a] \in Swarm /\ spec[member[a]] # None
          BY <1>1, <2>2, <3>2 DEF Roster, Swarms!TypeOK
        <4>2. member[a] = s => A # Swarms!Members(s)
          BY <3>2 DEF Swarms!Members
        <4>3. QED  BY <1>1, <1>2, <1>8, <4>1, <4>2 DEF Roster
      <3>3. QED  BY <3>1, <3>2
    <2>3. QED  BY <1>1, <1>2, <2>1, <2>2 DEF Roster
  <1>11. Toil'
    <2>1. \A q \in Task, a \in Agent : Works(q, a)' = Works(q, a)
      BY <1>2 DEF Works
    <2>2. QED  BY <1>1, <1>2, <2>1 DEF Toil
  <1>12. SizeWithinLimits'
    <2>1. Cardinality(all) <= spec'[u].max
      <3>1. Cardinality(all) <= Cardinality(Swarms!Members(u)) + Cardinality(A)
        BY <1>3, JoinedAgents
      <3>2. spec[u] \in Specs /\ Cardinality(Swarms!Members(u)) \in Nat
        BY <1>1, <1>2, <1>3, AgentSets DEF Swarms!TypeOK
      <3>3. Cardinality(A) <= spec[u].max - Cardinality(Swarms!Members(u))
        BY <1>3, <3>2, AgentSets DEF Swarms!Room
      <3>4. Cardinality(A) \in Nat /\ spec[u].max \in Int /\ spec'[u] = spec[u]
        BY <1>2, <1>3, <1>8, <3>2, AgentSets
      <3>5. QED  BY <1>4, <3>1, <3>2, <3>3, <3>4
    <2>2. spec'[s] # None =>
            /\ Cardinality(Swarms!Members(s)') <= count'[s]
            /\ \/ Cardinality(Swarms!Members(s)') <= spec'[s].max
               \/ Cardinality(Swarms!Members(s)') <= spec'[s].initial
      BY <1>2, <1>6, <1>7, <1>8, SizeShrunk
    <2>3. QED  BY <1>1, <1>4, <1>6, <1>7, <1>8, <2>1, <2>2, SizeKept
  <1>13. QED  BY <1>9, <1>10, <1>11, <1>12 DEF SwarmIInv

\* The part of scaling up and of healing that makes agents.
LEMMA AgentsSpawned ==
    ASSUME SwarmIInv, NEW s \in Swarm, NEW n \in Nat, spec[s] # None, Swarms!Room(s) > 0,
           Swarms!SpawnAgents(s, n), cooling' \subseteq Swarm,
           UNCHANGED <<spec, used, roleMap, erred, stage, place, shared>>
    PROVE  SwarmIInv'
  <1> DEFINE m == IF n < Swarms!Room(s) THEN n ELSE Swarms!Room(s)
  <1>1. Swarms!TypeOK /\ Roster /\ Toil /\ SizeWithinLimits
    BY DEF SwarmIInv
  <1>2. PICK A \in Swarms!Made(m) :
         /\ member' = [a \in Agent |-> IF a \in A THEN s ELSE member[a]]
         /\ agent' = [a \in Agent |-> IF a \in A THEN "spawning" ELSE agent[a]]
    BY DEF Swarms!SpawnAgents
  <1>3. /\ Swarms!Members(s) \in SUBSET Agent /\ Cardinality(Swarms!Members(s)) \in Nat
        /\ spec[s] \in Specs /\ spec[s].max \in Int
    BY <1>1, AgentSets DEF Swarms!Members, Swarms!TypeOK
  <1>4. m \in Nat /\ m <= spec[s].max - Cardinality(Swarms!Members(s))
    BY <1>3 DEF Swarms!Room
  <1>5. /\ A \in SUBSET Agent /\ Cardinality(A) = m
        /\ \A a \in A : agent[a] = "unborn" /\ member[a] = None
        /\ \E k \in Nat : {a \in Agent : agent[a] # "unborn"} \cup A = 1..k
    BY <1>1, <1>4, MadeAgents
  <1>6. /\ count' \in [Swarm -> Nat] /\ running' \in [Swarm -> Nat]
        /\ Cardinality(Swarms!Members(s)') <= count'[s]
        /\ \A u \in Swarm \ {s} : count'[u] = count[u]
    BY <1>1, MetricsUpdated DEF Swarms!SpawnAgents
  <1> HIDE DEF m
  <1>7. Swarms!TypeOK'
    BY <1>1, <1>2, <1>5, <1>6 DEF Swarms!TypeOK
  <1>8. Roster'
    <2>1. {a \in Agent : agent'[a] # "unborn"} = {a \in Agent : agent[a] # "unborn"} \cup A
      BY <1>2, <1>5
    <2>2. ASSUME NEW a \in Agent, member'[a] # None
          PROVE  agent'[a] \in {"spawning", "active", "idle"} /\ spec'[member'[a]] # None
      BY <1>1, <1>2, <2>2 DEF Roster
    <2>3. QED  BY <1>1, <1>5, <2>1, <2>2 DEF Roster
  <1>9. Toil'
    <2>1. \A q \in Task, a \in Agent : Works(q, a)' = Works(q, a)
      BY DEF Works
    <2>2. \A a \in Agent : agent'[a] = "idle" => agent[a] = "idle"
      BY <1>2, <1>5
    <2>3. QED  BY <1>1, <2>1, <2>2 DEF Toil
  <1>10. SizeWithinLimits'
    <2>1. Swarms!Members(s)' = Swarms!Members(s) \cup A
      BY <1>2, <1>5 DEF Swarms!Members
    <2>2. Cardinality(Swarms!Members(s)') <= spec[s].max
      <3>1. Cardinality(Swarms!Members(s) \cup A) <= Cardinality(Swarms!Members(s)) + Cardinality(A)
        BY <1>3, <1>5, JoinedAgents
      <3>2. Cardinality(Swarms!Members(s) \cup A) \in Nat
        BY <1>3, <1>5, AgentSets
      <3>3. QED  BY <1>3, <1>4, <1>5, <2>1, <3>1, <3>2
    <2>3. \A u \in Swarm \ {s} : Swarms!Members(u)' = Swarms!Members(u)
      BY <1>2, <1>5 DEF Swarms!Members
    <2>4. QED  BY <1>1, <1>6, <2>2, <2>3, SizeKept
  <1>11. QED  BY <1>7, <1>8, <1>9, <1>10 DEF SwarmIInv

\* A call that keeps the agents of each swarm and updates its metrics.
LEMMA SizeRecounted ==
    ASSUME SwarmIInv, NEW s \in Swarm, Swarms!UpdateMetrics(s), UNCHANGED <<spec, member>>
    PROVE  SizeWithinLimits'
  <1>1. /\ Cardinality(Swarms!Members(s)') <= count'[s]
        /\ \A u \in Swarm \ {s} : count'[u] = count[u]
    BY MetricsUpdated DEF SwarmIInv
  <1>2. \A u \in Swarm : Swarms!Members(u)' = Swarms!Members(u)
    BY DEF Swarms!Members
  <1>3. spec[s] # None =>
          \/ Cardinality(Swarms!Members(s)') <= spec'[s].max
          \/ Cardinality(Swarms!Members(s)') <= spec'[s].initial
    BY <1>2, SizeShrunk
  <1>4. QED  BY <1>1, <1>2, <1>3, SizeKept DEF SwarmIInv

LEMMA SwarmScaledUp ==
    ASSUME SwarmIInv, NEW s \in Swarm, Swarms!ScaleUp(s)
    PROVE  SwarmIInv'
  <1> DEFINE n == IF spec[s].max - count[s] < 2 THEN spec[s].max - count[s] ELSE 2
  <1>1. /\ spec[s] # None /\ count[s] < spec[s].max /\ Swarms!Room(s) > 0
        /\ Swarms!SpawnAgents(s, n)
        /\ cooling' = cooling \cup {s}
        /\ UNCHANGED <<spec, used, roleMap, erred, stage, place, shared>>
    BY DEF Swarms!ScaleUp, Swarms!Alive, Swarms!service, Swarms!tasks
  <1>2. spec[s] \in Specs /\ count[s] \in Nat /\ cooling' \subseteq Swarm
    BY <1>1 DEF SwarmIInv, Swarms!TypeOK
  <1>3. n \in Nat
    BY <1>1, <1>2
  <1>4. QED  BY <1>1, <1>2, <1>3, AgentsSpawned

\* Scaling down takes one idle agent from a swarm above its minimum.
LEMMA OneKilled ==
    ASSUME SwarmIInv, NEW s \in Swarm, Swarms!ScaleDown(s)
    PROVE  \E A \in SUBSET Swarms!Killable(s) :
             /\ Cardinality(A) = 1
             /\ Cardinality(Swarms!Members(s)) > spec[s].min
             /\ member' = [a \in Agent |-> IF a \in A THEN None ELSE member[a]]
             /\ agent' = [a \in Agent |-> IF a \in A THEN "terminated" ELSE agent[a]]
  <1> DEFINE K == Cardinality(Swarms!Killable(s))
             spare == Cardinality(Swarms!Members(s)) - spec[s].min
  <1>1. PICK A \in SUBSET Swarms!Killable(s) :
          /\ Cardinality(A) = Swarms!Smallest({1, K, spare})
          /\ member' = [a \in Agent |-> IF a \in A THEN None ELSE member[a]]
          /\ agent' = [a \in Agent |-> IF a \in A THEN "terminated" ELSE agent[a]]
    BY DEF Swarms!ScaleDown, Swarms!KillAgents
  <1>2. /\ Swarms!Killable(s) # {} /\ Cardinality(Swarms!Members(s)) > spec[s].min
        /\ spec[s] # None
    BY DEF Swarms!ScaleDown, Swarms!Alive
  <1>3. Swarms!Killable(s) \in SUBSET Agent /\ Swarms!Members(s) \in SUBSET Agent
    BY DEF Swarms!Killable, Swarms!InState, Swarms!Members
  <1>4. K \in Nat /\ K # 0
    BY <1>2, <1>3, AgentSets, FS_EmptySet
  <1>5. spare \in Int /\ spare >= 1
    BY <1>2, <1>3, AgentSets DEF SwarmIInv, Swarms!TypeOK
  <1>6. Swarms!Smallest({1, K, spare}) = 1
    <2> HIDE DEF K, spare
    <2>1. 1 \in {1, K, spare} /\ \A m \in {1, K, spare} : 1 <= m
      BY <1>4, <1>5
    <2>2. \A x \in {1, K, spare} : (\A m \in {1, K, spare} : x <= m) => x = 1
      BY <1>4, <1>5
    <2>3. QED  BY <2>1, <2>2 DEF Swarms!Smallest
  <1>7. QED  BY <1>1, <1>2, <1>6

LEMMA SwarmScaledDown ==
    ASSUME SwarmIInv, NEW s \in Swarm, Swarms!ScaleDown(s)
    PROVE  SwarmIInv'
  <1>1. Swarms!TypeOK /\ Roster /\ Toil /\ SizeWithinLimits
    BY DEF SwarmIInv
  <1>2. /\ spec[s] # None /\ Swarms!UpdateMetrics(s) /\ cooling' = cooling \cup {s}
        /\ UNCHANGED <<spec, used, roleMap, erred, stage, place, shared>>
    BY DEF Swarms!ScaleDown, Swarms!KillAgents, Swarms!Alive, Swarms!service, Swarms!tasks
  <1>3. PICK A \in SUBSET Swarms!Killable(s) :
          /\ member' = [a \in Agent |-> IF a \in A THEN None ELSE member[a]]
          /\ agent' = [a \in Agent |-> IF a \in A THEN "terminated" ELSE agent[a]]
    BY OneKilled
  <1>4. \A a \in A : a \in Agent /\ member[a] = s /\ agent[a] = "idle"
    BY DEF Swarms!Killable, Swarms!InState, Swarms!Members
  <1>5. /\ count' \in [Swarm -> Nat] /\ running' \in [Swarm -> Nat]
        /\ Cardinality(Swarms!Members(s)') <= count'[s]
        /\ \A u \in Swarm \ {s} : count'[u] = count[u]
    BY <1>1, <1>2, MetricsUpdated
  <1>6. Swarms!TypeOK'
    BY <1>1, <1>2, <1>3, <1>5 DEF Swarms!TypeOK
  <1>7. Roster'
    <2>1. {a \in Agent : agent'[a] # "unborn"} = {a \in Agent : agent[a] # "unborn"}
      BY <1>3, <1>4
    <2>2. ASSUME NEW a \in Agent, member'[a] # None
          PROVE  agent'[a] \in {"spawning", "active", "idle"} /\ spec'[member'[a]] # None
      BY <1>1, <1>2, <1>3, <2>2 DEF Roster
    <2>3. QED  BY <1>1, <1>2, <2>1, <2>2 DEF Roster
  <1>8. Toil'
    <2>1. \A q \in Task, a \in Agent : Works(q, a)' = Works(q, a)
      BY <1>2 DEF Works
    <2>2. \A a \in Agent : agent'[a] = "idle" => agent[a] = "idle"
      BY <1>3
    <2>3. QED  BY <1>1, <1>2, <2>1, <2>2 DEF Toil
  <1>9. SizeWithinLimits'
    <2>1. Swarms!Members(s)' \subseteq Swarms!Members(s)
      BY <1>3 DEF Swarms!Members
    <2>2. \A u \in Swarm \ {s} : Swarms!Members(u)' = Swarms!Members(u)
      BY <1>3, <1>4 DEF Swarms!Members
    <2>3. \/ Cardinality(Swarms!Members(s)') <= spec'[s].max
          \/ Cardinality(Swarms!Members(s)') <= spec'[s].initial
      BY <1>2, <2>1, SizeShrunk
    <2>4. QED  BY <1>1, <1>2, <1>5, <2>2, <2>3, SizeKept
  <1>10. QED  BY <1>6, <1>7, <1>8, <1>9 DEF SwarmIInv

LEMMA SwarmHealed ==
    ASSUME SwarmIInv, NEW s \in Swarm, Swarms!HealSwarm(s)
    PROVE  SwarmIInv'
  <1> DEFINE n == spec[s].min - Cardinality(Swarms!Members(s))
  <1>1. /\ spec[s] # None
        /\ UNCHANGED <<spec, used, roleMap, erred, cooling, stage, place, shared>>
    BY DEF Swarms!HealSwarm, Swarms!Alive, Swarms!service, Swarms!tasks
  <1>2. Swarms!TypeOK /\ Roster /\ Toil
    BY DEF SwarmIInv
  <1>3. CASE spec[s].min > Cardinality(Swarms!Members(s)) /\ Swarms!Room(s) > 0
    <2>1. Swarms!SpawnAgents(s, n)
      BY <1>3 DEF Swarms!HealSwarm
    <2>2. Cardinality(Swarms!Members(s)) \in Nat /\ spec[s] \in Specs /\ cooling' \subseteq Swarm
      BY <1>1, <1>2, AgentSets DEF Swarms!TypeOK, Swarms!Members
    <2>3. n \in Nat
      BY <1>3, <2>2
    <2>4. QED  BY <1>1, <1>3, <2>1, <2>2, <2>3, AgentsSpawned
  <1>4. CASE ~(spec[s].min > Cardinality(Swarms!Members(s)) /\ Swarms!Room(s) > 0)
    <2>1. UNCHANGED <<member, agent>> /\ Swarms!UpdateMetrics(s)
      BY <1>4 DEF Swarms!HealSwarm
    <2>2. SizeWithinLimits'
      BY <1>1, <2>1, SizeRecounted
    <2>3. Swarms!TypeOK'
      BY <1>1, <1>2, <2>1, MetricsUpdated DEF Swarms!TypeOK
    <2>4. Roster' /\ Toil'
      BY <1>1, <1>2, <2>1 DEF Roster, Toil, Works
    <2>5. QED  BY <2>2, <2>3, <2>4 DEF SwarmIInv
  <1>5. QED  BY <1>3, <1>4

LEMMA TaskRouted ==
    ASSUME SwarmIInv, NEW t \in Task, Swarms!RouteTask(t)
    PROVE  SwarmIInv'
  <1>1. Swarms!TypeOK /\ Roster /\ Toil /\ SizeWithinLimits
    BY DEF SwarmIInv
  <1>2. /\ stage[t] = "new" /\ stage' = [stage EXCEPT ![t] = "routed"]
        /\ \E p \in Swarm \X Agent : place' = [place EXCEPT ![t] = p]
        /\ UNCHANGED <<spec, used, roleMap, member, agent, erred, count, running, cooling, shared>>
    <2>1. PICK s \in Swarms!Alive : \E a \in Swarms!InState(s, {"active", "idle"}) :
                 place' = [place EXCEPT ![t] = <<s, a>>]
      BY DEF Swarms!RouteTask
    <2>2. PICK a \in Swarms!InState(s, {"active", "idle"}) : place' = [place EXCEPT ![t] = <<s, a>>]
      BY <2>1
    <2>3. <<s, a>> \in Swarm \X Agent
      BY DEF Swarms!Alive, Swarms!InState, Swarms!Members
    <2>4. QED  BY <2>2, <2>3 DEF Swarms!RouteTask, Swarms!service, Swarms!metrics
  <1>3. Swarms!TypeOK'
    BY <1>1, <1>2 DEF Swarms!TypeOK
  <1>4. Toil'
    <2>1. \A q \in Task, a \in Agent : Works(q, a)' = Works(q, a)
      BY <1>1, <1>2 DEF Works, Swarms!TypeOK
    <2>2. \A q \in Task : stage'[q] \in {"routed", "working"} => place'[q] \in Swarm \X Agent
      BY <1>1, <1>2 DEF Toil, Swarms!TypeOK
    <2>3. QED  BY <1>1, <1>2, <2>1, <2>2 DEF Toil
  <1>5. Roster' /\ SizeWithinLimits'
    BY <1>1, <1>2 DEF Roster, SizeWithinLimits, Swarms!SizeWithinLimits, Swarms!Alive, Swarms!Members
  <1>6. QED  BY <1>3, <1>4, <1>5 DEF SwarmIInv

LEMMA TaskAssigned ==
    ASSUME SwarmIInv, NEW t \in Task, Swarms!AssignTask(t)
    PROVE  SwarmIInv'
  <1> DEFINE s == place[t][1]
             a == place[t][2]
  <1>1. Swarms!TypeOK /\ Roster /\ Toil /\ SizeWithinLimits
    BY DEF SwarmIInv
  <1>2. /\ stage[t] = "routed" /\ member' = member
        /\ UNCHANGED <<spec, used, roleMap, erred, cooling, place>>
    BY DEF Swarms!AssignTask, Swarms!service, Swarms!metrics
  <1>3. s \in Swarm /\ a \in Agent
    BY <1>1, <1>2 DEF Toil
  <1>4. CASE member[a] = s
    <2>1. /\ stage' = [stage EXCEPT ![t] = "working"]
          /\ agent' = [agent EXCEPT ![a] = "active"]
          /\ shared' = IF Swarms!WorkOf(a) = {} THEN shared ELSE shared \cup {a}
          /\ Swarms!UpdateMetrics(s)
      BY <1>4 DEF Swarms!AssignTask
    <2>2. SizeWithinLimits'
      BY <1>2, <1>3, <2>1, SizeRecounted
    <2>3. Swarms!TypeOK'
      BY <1>1, <1>2, <1>3, <2>1, MetricsUpdated DEF Swarms!TypeOK
    <2>4. Roster'
      <3>1. member[a] # None /\ agent[a] # "unborn"
        BY <1>1, <1>3, <1>4 DEF Roster
      <3>2. {b \in Agent : agent'[b] # "unborn"} = {b \in Agent : agent[b] # "unborn"}
        BY <1>1, <1>3, <2>1, <3>1 DEF Swarms!TypeOK
      <3>3. \A b \in Agent : agent'[b] = agent[b] \/ agent'[b] = "active"
        BY <1>1, <2>1 DEF Swarms!TypeOK
      <3>4. QED  BY <1>1, <1>2, <3>2, <3>3 DEF Roster
    <2>5. Toil'
      <3>1. \A b \in Agent \ {a} : agent'[b] = agent[b] /\ \A q \in Task : Works(q, b)' = Works(q, b)
        BY <1>1, <1>2, <2>1 DEF Works, Swarms!TypeOK
      <3>2. agent'[a] = "active" /\ \A q \in Task : stage'[q] = "working" /\ place'[q][2] = a => Works(q, a) \/ q = t
        BY <1>1, <1>2, <1>3, <2>1 DEF Works, Swarms!TypeOK
      <3>3. a \notin shared' => \A q \in Task : ~Works(q, a)
        BY <2>1 DEF Works, Swarms!WorkOf
      <3>4. \A q \in Task : stage'[q] \in {"routed", "working"} => place'[q] \in Swarm \X Agent
        BY <1>1, <1>2, <2>1 DEF Toil, Swarms!TypeOK
      <3> HIDE DEF s, a
      <3>5. ASSUME NEW b \in Agent, b \notin shared', NEW q \in Task, Works(q, b)'
            PROVE  agent'[b] # "idle" /\ \A u \in Task : Works(u, b)' => q = u
        <4>1. b \notin shared
          BY <2>1, <3>5
        <4>2. CASE b = a
          <5>1. a \notin shared' /\ agent'[b] = "active"
            BY <3>2, <3>5, <4>2
          <5>2. ASSUME NEW u \in Task, Works(u, b)' PROVE u = t
            BY <3>2, <3>3, <4>2, <5>1, <5>2 DEF Works
          <5>3. QED  BY <3>5, <5>1, <5>2
        <4>3. CASE b # a
          BY <1>1, <3>1, <3>5, <4>1, <4>3 DEF Toil
        <4>4. QED  BY <4>2, <4>3
      <3>6. QED  BY <3>4, <3>5 DEF Toil
    <2>6. QED  BY <2>2, <2>3, <2>4, <2>5 DEF SwarmIInv
  <1>5. CASE member[a] # s
    <2>1. /\ stage' = [stage EXCEPT ![t] = "over"]
          /\ UNCHANGED <<agent, shared, count, running>>
      BY <1>5 DEF Swarms!AssignTask, Swarms!metrics
    <2>2. Swarms!TypeOK'
      BY <1>1, <1>2, <2>1 DEF Swarms!TypeOK
    <2>3. Roster' /\ SizeWithinLimits'
      BY <1>1, <1>2, <2>1 DEF Roster, SizeWithinLimits, Swarms!SizeWithinLimits, Swarms!Alive, Swarms!Members
    <2>4. Toil'
      <3>1. \A q \in Task, b \in Agent : Works(q, b)' = Works(q, b)
        BY <1>1, <1>2, <2>1 DEF Works, Swarms!TypeOK
      <3>2. \A q \in Task : stage'[q] \in {"routed", "working"} => place'[q] \in Swarm \X Agent
        BY <1>1, <1>2, <2>1 DEF Toil, Swarms!TypeOK
      <3>3. QED  BY <1>1, <1>2, <2>1, <3>1, <3>2 DEF Toil
    <2>5. QED  BY <2>2, <2>3, <2>4 DEF SwarmIInv
  <1>6. QED  BY <1>4, <1>5

LEMMA TaskCompleted ==
    ASSUME SwarmIInv, NEW t \in Task, NEW ok \in BOOLEAN, Swarms!CompleteTask(t, ok)
    PROVE  SwarmIInv'
  <1> DEFINE s == place[t][1]
             a == place[t][2]
  <1>1. Swarms!TypeOK /\ Roster /\ Toil /\ SizeWithinLimits
    BY DEF SwarmIInv
  <1>2. /\ stage[t] = "working" /\ stage' = [stage EXCEPT ![t] = "over"] /\ member' = member
        /\ UNCHANGED <<spec, used, roleMap, cooling, place, shared>>
    BY DEF Swarms!CompleteTask, Swarms!service, Swarms!metrics
  <1>3. s \in Swarm /\ a \in Agent
    BY <1>1, <1>2 DEF Toil
  <1>4. /\ \A q \in Task, b \in Agent : Works(q, b)' <=> Works(q, b) /\ q # t
        /\ Works(t, a)
        /\ \A q \in Task : stage'[q] \in {"routed", "working"} => place'[q] \in Swarm \X Agent
    BY <1>1, <1>2 DEF Works, Swarms!TypeOK, Toil
  <1>5. CASE member[a] = s
    <2>1. /\ agent' = [agent EXCEPT ![a] = "idle"]
          /\ erred' = IF ok THEN erred ELSE erred \cup {a}
          /\ Swarms!UpdateMetrics(s)
      BY <1>5 DEF Swarms!CompleteTask
    <2>2. SizeWithinLimits'
      BY <1>2, <1>3, <2>1, SizeRecounted
    <2>3. Swarms!TypeOK'
      BY <1>1, <1>2, <1>3, <2>1, MetricsUpdated DEF Swarms!TypeOK
    <2>4. Roster'
      <3>1. member[a] # None /\ agent[a] # "unborn"
        BY <1>1, <1>3, <1>5 DEF Roster
      <3>2. {b \in Agent : agent'[b] # "unborn"} = {b \in Agent : agent[b] # "unborn"}
        BY <1>1, <1>3, <2>1, <3>1 DEF Swarms!TypeOK
      <3>3. \A b \in Agent : agent'[b] = agent[b] \/ agent'[b] = "idle"
        BY <1>1, <2>1 DEF Swarms!TypeOK
      <3>4. QED  BY <1>1, <1>2, <3>2, <3>3 DEF Roster
    <2>5. Toil'
      <3>1. \A b \in Agent \ {a} : agent'[b] = agent[b]
        BY <1>1, <2>1 DEF Swarms!TypeOK
      <3> HIDE DEF s, a
      <3>2. ASSUME NEW b \in Agent \ shared, NEW q \in Task, Works(q, b)'
            PROVE  agent'[b] # "idle" /\ \A u \in Task : Works(u, b)' => q = u
        <4>1. Works(q, b) /\ q # t
          BY <1>4, <3>2
        <4>2. agent[b] # "idle" /\ \A u \in Task : Works(u, b) => q = u
          BY <1>1, <4>1 DEF Toil
        <4>3. b # a
          BY <1>4, <4>1, <4>2
        <4>4. QED  BY <1>4, <3>1, <4>2, <4>3
      <3>3. shared' = shared
        BY <1>2
      <3>4. QED  BY <1>4, <3>2, <3>3 DEF Toil
    <2>6. QED  BY <2>2, <2>3, <2>4, <2>5 DEF SwarmIInv
  <1>6. CASE member[a] # s
    <2>1. UNCHANGED <<agent, erred, count, running>>
      BY <1>6 DEF Swarms!CompleteTask, Swarms!metrics
    <2>2. Swarms!TypeOK'
      BY <1>1, <1>2, <2>1 DEF Swarms!TypeOK
    <2>3. Roster' /\ SizeWithinLimits'
      BY <1>1, <1>2, <2>1 DEF Roster, SizeWithinLimits, Swarms!SizeWithinLimits, Swarms!Alive, Swarms!Members
    <2>4. Toil'
      BY <1>1, <1>2, <1>4, <2>1 DEF Toil
    <2>5. QED  BY <2>2, <2>3, <2>4 DEF SwarmIInv
  <1>7. QED  BY <1>5, <1>6

\* What an unseen cool-down or a stutter leaves alone.
LEMMA SwarmQuiet ==
    ASSUME SwarmIInv, cooling' \subseteq cooling,
           UNCHANGED <<spec, used, member, agent, erred, count, running, roleMap, stage, place, shared>>
    PROVE  SwarmIInv'
  <1>1. Swarms!TypeOK'
    BY DEF SwarmIInv, Swarms!TypeOK
  <1>2. Roster' /\ Toil'
    BY DEF SwarmIInv, Roster, Toil, Works
  <1>3. SizeWithinLimits'
    BY DEF SwarmIInv, SizeWithinLimits, Swarms!SizeWithinLimits, Swarms!Alive, Swarms!Members
  <1>4. QED  BY <1>1, <1>2, <1>3 DEF SwarmIInv

LEMMA SwarmStep == SwarmIInv /\ [Swarms!Next]_Swarms!vars => SwarmIInv'
  <1> SUFFICES ASSUME SwarmIInv, [Swarms!Next]_Swarms!vars PROVE SwarmIInv'
    OBVIOUS
  <1>1. ASSUME NEW s \in Swarm, NEW sp \in Specs, Swarms!SpawnSwarm(s, sp) PROVE SwarmIInv'
    BY <1>1, SwarmSpawned
  <1>2. ASSUME NEW s \in Swarm, Swarms!TerminateSwarm(s) PROVE SwarmIInv'
    BY <1>2, SwarmTerminated
  <1>3. ASSUME NEW s \in Swarm, Swarms!ScaleUp(s) PROVE SwarmIInv'
    BY <1>3, SwarmScaledUp
  <1>4. ASSUME NEW s \in Swarm, Swarms!ScaleDown(s) PROVE SwarmIInv'
    BY <1>4, SwarmScaledDown
  <1>5. ASSUME NEW s \in Swarm, Swarms!CooldownOver(s) PROVE SwarmIInv'
    BY <1>5, SwarmQuiet DEF Swarms!CooldownOver, Swarms!service, Swarms!metrics, Swarms!tasks
  <1>6. ASSUME NEW s \in Swarm, Swarms!HealSwarm(s) PROVE SwarmIInv'
    BY <1>6, SwarmHealed
  <1>7. ASSUME NEW s \in Swarm, NEW u \in Swarm, Swarms!MergeSwarms(s, u) PROVE SwarmIInv'
    BY <1>7, SwarmsMerged
  <1>8. ASSUME NEW t \in Task, Swarms!RouteTask(t) PROVE SwarmIInv'
    BY <1>8, TaskRouted
  <1>9. ASSUME NEW t \in Task, Swarms!AssignTask(t) PROVE SwarmIInv'
    BY <1>9, TaskAssigned
  <1>10. ASSUME NEW t \in Task, NEW ok \in BOOLEAN, Swarms!CompleteTask(t, ok) PROVE SwarmIInv'
    BY <1>10, TaskCompleted
  <1>11. CASE UNCHANGED Swarms!vars
    BY <1>11, SwarmQuiet DEF Swarms!vars
  <1>12. QED  BY <1>1, <1>2, <1>3, <1>4, <1>5, <1>6, <1>7, <1>8, <1>9, <1>10, <1>11 DEF Swarms!Next

\* No sequence of calls fills a swarm beyond its maximum, or its first size if
\* that is more, and scaling never counts fewer agents than there are (spawn_agents).
THEOREM SwarmsSizeWithinLimits == Swarms!Spec => []SizeWithinLimits
  <1>1. SwarmIInv => SizeWithinLimits
    BY DEF SwarmIInv
  <1>2. QED  BY SwarmInit, SwarmStep, <1>1, PTL DEF Swarms!Spec

-----------------------------------------------------------------------------

LEMMA SparesWork ==
    ASSUME SwarmIInv, Swarms!Next, NEW s \in Swarms!Alive, spec'[s] # None,
           {a \in Swarms!Members(s) : agent'[a] = "terminated"} # {}
    PROVE  LET killed == {a \in Swarms!Members(s) : agent'[a] = "terminated"} IN
             /\ Cardinality(killed) = 1
             /\ Cardinality(Swarms!Members(s)) > spec[s].min
             /\ \A a \in killed \ shared : Swarms!WorkOf(a) = {}
  <1> DEFINE killed == {a \in Swarms!Members(s) : agent'[a] = "terminated"}
             Goal == /\ Cardinality(killed) = 1
                     /\ Cardinality(Swarms!Members(s)) > spec[s].min
                     /\ \A a \in killed \ shared : Swarms!WorkOf(a) = {}
  <1>1. /\ Swarms!TypeOK /\ Roster /\ Toil /\ s \in Swarm
        /\ \A a \in Swarms!Members(s) : a \in Agent /\ member[a] = s /\ agent[a] # "terminated"
    BY DEF SwarmIInv, Roster, Swarms!Members, Swarms!Alive
  <1>2. PICK a \in Swarms!Members(s) : agent'[a] = "terminated"
    OBVIOUS
  <1>3. a \in Agent /\ member[a] = s /\ agent[a] # "terminated"
    BY <1>1
  <1>4. ASSUME NEW v \in Swarm, Swarms!ScaleDown(v) PROVE Goal
    <2>1. PICK A \in SUBSET Swarms!Killable(v) :
             /\ Cardinality(A) = 1
             /\ Cardinality(Swarms!Members(v)) > spec[v].min
             /\ agent' = [b \in Agent |-> IF b \in A THEN "terminated" ELSE agent[b]]
      BY <1>4, OneKilled
    <2>2. \A b \in A : b \in Agent /\ member[b] = v /\ agent[b] = "idle"
      BY DEF Swarms!Killable, Swarms!InState, Swarms!Members
    <2>3. v = s
      BY <1>2, <1>3, <2>1, <2>2
    <2>4. killed = A
      BY <1>1, <2>1, <2>2, <2>3 DEF Swarms!Members
    <2>5. ASSUME NEW b \in A, b \notin shared PROVE Swarms!WorkOf(b) = {}
      BY <1>1, <2>2, <2>5 DEF Toil, Works, Swarms!WorkOf
    <2> HIDE DEF killed
    <2>6. QED  BY <2>1, <2>3, <2>4, <2>5
  <1>5. ASSUME NEW v \in Swarm, NEW sp \in Specs, Swarms!SpawnSwarm(v, sp) PROVE FALSE
    BY <1>2, <1>3, <1>5 DEF Swarms!SpawnSwarm
  <1>6. ASSUME NEW v \in Swarm, Swarms!TerminateSwarm(v) PROVE FALSE
    BY <1>1, <1>2, <1>3, <1>6 DEF Swarms!TerminateSwarm, Swarms!Terminated, Swarms!TypeOK
  <1>7. ASSUME NEW v \in Swarm, NEW n, Swarms!SpawnAgents(v, n) PROVE FALSE
    BY <1>2, <1>3, <1>7 DEF Swarms!SpawnAgents
  <1>8. ASSUME NEW v \in Swarm, Swarms!ScaleUp(v) PROVE FALSE
    BY <1>7, <1>8 DEF Swarms!ScaleUp
  <1>9. ASSUME NEW v \in Swarm, Swarms!HealSwarm(v) PROVE FALSE
    BY <1>2, <1>3, <1>7, <1>9 DEF Swarms!HealSwarm
  <1>10. ASSUME agent' = agent PROVE FALSE
    BY <1>2, <1>3, <1>10
  <1>11. ASSUME NEW t \in Task, Swarms!AssignTask(t) PROVE FALSE
    BY <1>1, <1>2, <1>3, <1>10, <1>11 DEF Swarms!AssignTask, Swarms!TypeOK
  <1>12. ASSUME NEW t \in Task, NEW ok \in BOOLEAN, Swarms!CompleteTask(t, ok) PROVE FALSE
    BY <1>1, <1>2, <1>3, <1>10, <1>12 DEF Swarms!CompleteTask, Swarms!TypeOK
  <1>13. QED
    BY <1>4, <1>5, <1>6, <1>8, <1>9, <1>10, <1>11, <1>12
       DEF Swarms!Next, Swarms!CooldownOver, Swarms!MergeSwarms, Swarms!RouteTask

\* A living swarm loses its agents one at a time, above its minimum, and none that
\* works, unless that agent was given two tasks (auto_scale, kill_agents).
THEOREM SwarmsScalingSparesWork == Swarms!Spec => ScalingSparesWork
  <1>1. SwarmIInv /\ [Swarms!Next]_Swarms!vars =>
          [\A s \in Swarms!Alive : LET killed == {a \in Swarms!Members(s) : agent'[a] = "terminated"} IN
             spec'[s] # None /\ killed # {} =>
                /\ Swarms!Cardinality(killed) = 1
                /\ Swarms!Cardinality(Swarms!Members(s)) > spec[s].min
                /\ \A a \in killed \ shared : Swarms!WorkOf(a) = {}]_Swarms!vars
    BY SparesWork
  <1>2. QED  BY SwarmInit, SwarmStep, <1>1, PTL DEF Swarms!Spec, ScalingSparesWork, Swarms!ScalingSparesWork

-----------------------------------------------------------------------------
(* The parts beside each other *)

\* A step of the packages is a step or a stutter of each part.
LEMMA PackagesSteps == [PackagesNext]_packagesVars => [Next]_vars /\ [Swarms!Next]_Swarms!vars
  BY DEF PackagesNext, packagesVars, swarmVars, vars, Swarms!vars

\* In any behaviour of the executor and of the swarms all their safety properties
\* hold.
THEOREM PackagesSafe ==
    PackagesSpec => /\ []ResultTrue /\ []Accounted /\ []HandlersBounded /\ KeepsPromise
                    /\ []SizeWithinLimits /\ ScalingSparesWork
  <1>1. PackagesInit => Init /\ Swarms!Init
    BY DEF PackagesInit
  <1>2. PackagesSpec => Spec
    BY <1>1, PackagesSteps, PTL DEF PackagesSpec, Spec
  <1>3. PackagesSpec => Swarms!Spec
    BY <1>1, PackagesSteps, PTL DEF PackagesSpec, Swarms!Spec
  <1>4. QED
    BY <1>2, <1>3, ExecutorResultTrue, ExecutorAccounted, ExecutorHandlersBounded,
       ExecutorKeepsPromise, SwarmsSizeWithinLimits, SwarmsScalingSparesWork, PTL
===============================================================================
