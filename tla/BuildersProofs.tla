---------------------------- MODULE BuildersProofs ----------------------------
(***************************************************************************)
(* Proofs about the builders: the coding pipeline, for any plans that      *)
(* satisfy PipelineAssumption, cyclic ones and repeated ids included, any  *)
(* number of retries, with contests of editors or without; the autonomous  *)
(* pipeline, for any task graphs; the application's workflow engine, for   *)
(* any graphs; and the user profile, for any calls at the same time.       *)
(*                                                                         *)
(* What StepsInOrder needs beside itself: where in the round a working     *)
(* step stands, that a step of the round has not run before, and that an   *)
(* id is completed only by a step that has ended.  EditsAccounted follows  *)
(* from the same and from what the last replacement of a file is           *)
(* (EditsInv).                                                             *)
(*                                                                         *)
(* The autonomous pipeline keeps its plan because a step is executed or    *)
(* left, and what a pass has taken is ready (PlanInv); its verdict,        *)
(* because the statuses of the stages tell where it is (StatusInv).        *)
(*                                                                         *)
(* The graph of an execution is sorted by Kahn's algorithm, which is       *)
(* proved for every graph without a cycle: degrees count the edges from    *)
(* nodes that are not out yet, and a node is queued or out when it has     *)
(* none (Sorting).                                                         *)
(*                                                                         *)
(* A profile loses nothing that a call could see, because what a call has  *)
(* seen is in what it will write (SeenIsKept).                             *)
(***************************************************************************)
EXTENDS Builders, Integers, SequenceTheorems, TLAPS, FiniteSetTheorems, WellFoundedInduction

-----------------------------------------------------------------------------
(* Numbers in order, and sequences without repetition *)

LEMMA LeastExists ==
    ASSUME NEW S \in SUBSET Nat, S # {}
    PROVE  \E i \in S : \A j \in S : i <= j
  <1> DEFINE T == {1..n : n \in S}
             R == StrictSubsetOrdering(Nat)
  <1>1. T \subseteq FiniteSubsetsOf(Nat) /\ T # {}
    <2>1. \A n \in S : 1..n \in SUBSET Nat /\ IsFiniteSet(1..n)
      BY FS_Interval
    <2>2. QED  BY <2>1 DEF FiniteSubsetsOf
  <1>2. \E x \in T : \A y \in T : ~(<<y, x>> \in R)
    BY <1>1, FS_StrictSubsetOrderingWellFounded, WFMin
  <1>3. PICK i \in S : \A j \in S : <<1..j, 1..i>> \notin R
    BY <1>2
  <1>4. ASSUME NEW j \in S, ~(i <= j) PROVE FALSE
    <2>1. 1..j \in SUBSET Nat /\ 1..i \in SUBSET Nat /\ 1..j \subseteq 1..i
      BY <1>4
    <2>2. i \in 1..i /\ i \notin 1..j
      BY <1>4
    <2>3. QED  BY <1>3, <2>1, <2>2 DEF StrictSubsetOrdering
  <1>5. QED  BY <1>4

Increasing(q, S) ==
    q \in [1..Cardinality(S) -> S] /\ \A i, j \in DOMAIN q : i < j => q[i] < q[j]

LEMMA OrderExists ==
    ASSUME NEW S \in SUBSET Nat, IsFiniteSet(S)
    PROVE  \E q : Increasing(q, S)
  <1> DEFINE Bad == {n \in Nat : \E T \in SUBSET Nat : IsFiniteSet(T) /\ Cardinality(T) = n
                                                       /\ \A q : ~Increasing(q, T)}
  <1>1. SUFFICES Bad = {}
    BY <1>1, FS_CardinalityType
  <1>2. SUFFICES ASSUME Bad # {} PROVE FALSE
    OBVIOUS
  <1>3. PICK n \in Bad : \A m \in Bad : n <= m
    BY <1>2, LeastExists
  <1>4. PICK T \in SUBSET Nat : IsFiniteSet(T) /\ Cardinality(T) = n /\ \A q : ~Increasing(q, T)
    BY <1>3
  <1>5. T # {}
    <2>1. SUFFICES ASSUME T = {} PROVE FALSE
      OBVIOUS
    <2>2. Cardinality(T) = 0
      BY <2>1, FS_EmptySet
    <2>3. [i \in 1..0 |-> 0] \in [1..Cardinality(T) -> T]
      BY <2>2
    <2>4. Increasing([i \in 1..0 |-> 0], T)
      BY <2>3 DEF Increasing
    <2>5. QED  BY <1>4, <2>4
  <1>6. PICK x \in T : \A y \in T : x <= y
    BY <1>5, LeastExists
  <1>7. IsFiniteSet(T \ {x}) /\ Cardinality(T \ {x}) = n - 1 /\ n \in Nat \ {0}
    <2>1. IsFiniteSet(T \ {x}) /\ Cardinality(T \ {x}) = Cardinality(T) - 1
      BY <1>4, <1>6, FS_RemoveElement
    <2>2. Cardinality(T) # 0 /\ Cardinality(T) \in Nat
      BY <1>4, <1>5, FS_EmptySet, FS_CardinalityType
    <2>3. QED  BY <1>4, <2>1, <2>2
  <1>8. n - 1 \in Nat /\ n - 1 \notin Bad
    BY <1>3, <1>7
  <1>9. PICK q : Increasing(q, T \ {x})
    BY <1>4, <1>7, <1>8
  <1>10. q \in [1..(n - 1) -> T \ {x}] /\ \A i, j \in 1..(n - 1) : i < j => q[i] < q[j]
    BY <1>7, <1>9 DEF Increasing
  <1> DEFINE r == [i \in 1..n |-> IF i = 1 THEN x ELSE q[i - 1]]
  <1>11. r \in [1..n -> T]
    <2>1. ASSUME NEW i \in 1..n PROVE r[i] \in T
      BY <1>6, <1>7, <1>10
    <2>2. QED  BY <2>1
  <1>12. ASSUME NEW i \in 1..n, NEW j \in 1..n, i < j PROVE r[i] < r[j]
    <2>1. r[j] = q[j - 1] /\ j - 1 \in 1..(n - 1) /\ q[j - 1] \in T \ {x}
      BY <1>7, <1>10, <1>12
    <2>2. CASE i = 1
      <3>1. r[i] = x
        BY <2>2, <1>7
      <3>2. x <= q[j - 1] /\ x # q[j - 1] /\ x \in Nat /\ q[j - 1] \in Nat
        BY <1>6, <2>1
      <3>3. QED  BY <2>1, <3>1, <3>2
    <2>3. CASE i # 1
      <3>1. r[i] = q[i - 1] /\ i - 1 \in 1..(n - 1) /\ i - 1 < j - 1
        BY <1>7, <1>12, <2>3
      <3>2. QED  BY <1>10, <2>1, <3>1
    <2>4. QED  BY <2>2, <2>3
  <1>13. Increasing(r, T)
    <2>1. DOMAIN r = 1..n
      OBVIOUS
    <2> HIDE DEF r
    <2>2. QED  BY <1>4, <1>11, <1>12, <2>1 DEF Increasing
  <1>14. QED  BY <1>4, <1>13

\* It has every member, each once.
LEMMA OrderCovers ==
    ASSUME NEW S \in SUBSET Nat, IsFiniteSet(S), NEW q, Increasing(q, S)
    PROVE  /\ q \in Seq(S) /\ Len(q) = Cardinality(S) /\ DOMAIN q = 1..Len(q)
           /\ \A x \in S : \E i \in DOMAIN q : q[i] = x
           /\ IsInjective(q)
  <1> DEFINE n == Cardinality(S)
  <1>1. n \in Nat
    BY FS_CardinalityType
  <1>2. q \in [1..n -> S] /\ \A i, j \in 1..n : i < j => q[i] < q[j]
    BY DEF Increasing
  <1> HIDE DEF n
  <1>3. q \in Seq(S) /\ Len(q) = n /\ DOMAIN q = 1..n
    BY <1>1, <1>2
  <1>4. ASSUME NEW i \in 1..n, NEW j \in 1..n, q[i] = q[j] PROVE i = j
    <2>1. q[i] \in Nat /\ q[j] \in Nat
      BY <1>2
    <2>2. i \in Int /\ j \in Int
      BY <1>1
    <2>3. ~(i < j) /\ ~(j < i)
      BY <1>2, <1>4, <2>1
    <2>4. QED  BY <2>2, <2>3
  <1>5. q \in Injection(1..n, S)
    BY <1>2, <1>4 DEF Injection, IsInjective
  <1>6. IsFiniteSet(1..n) /\ Cardinality(1..n) = n
    BY <1>1, FS_Interval
  <1>7. q \in Surjection(1..n, S)
    BY <1>5, <1>6, FS_Injection DEF n
  <1>8. \A x \in S : \E i \in 1..n : q[i] = x
    BY <1>7 DEF Surjection
  <1>9. QED  BY <1>3, <1>4, <1>8 DEF n, IsInjective

LEMMA TakeHead ==
    ASSUME NEW S, NEW q \in Seq(S), q # <<>>, IsInjective(q)
    PROVE  /\ Head(q) \in S /\ Head(q) \in Range(q) /\ Tail(q) \in Seq(S)
           /\ Range(Tail(q)) = Range(q) \ {Head(q)} /\ IsInjective(Tail(q))
  <1>1. /\ Head(q) \in S /\ Head(q) = q[1] /\ Tail(q) \in Seq(S) /\ Len(q) \in Nat /\ Len(q) # 0
        /\ DOMAIN q = 1..Len(q) /\ DOMAIN Tail(q) = 1..(Len(q) - 1)
        /\ \A i \in 1..(Len(q) - 1) : Tail(q)[i] = q[i + 1]
    OBVIOUS
  <1>2. ASSUME NEW i \in DOMAIN Tail(q) PROVE i + 1 \in DOMAIN q /\ Tail(q)[i] = q[i + 1] /\ i + 1 # 1
    BY <1>1
  <1>3. ASSUME NEW i \in DOMAIN q, i # 1 PROVE i - 1 \in DOMAIN Tail(q) /\ Tail(q)[i - 1] = q[i]
    <2>1. i - 1 \in 1..(Len(q) - 1) /\ (i - 1) + 1 = i
      BY <1>1, <1>3
    <2>2. QED  BY <1>1, <2>1
  <1>4. 1 \in DOMAIN q
    BY <1>1
  <1>5. IsInjective(Tail(q))
    <2>1. ASSUME NEW i \in DOMAIN Tail(q), NEW j \in DOMAIN Tail(q), Tail(q)[i] = Tail(q)[j] PROVE i = j
      <3>1. i + 1 = j + 1
        BY <1>2, <2>1 DEF IsInjective
      <3>2. i \in Int /\ j \in Int
        BY <1>1
      <3>3. QED  BY <3>1, <3>2
    <2>2. QED  BY <2>1 DEF IsInjective
  <1>6. ASSUME NEW x \in Range(Tail(q)) PROVE x \in Range(q) \ {Head(q)}
    <2>1. PICK i \in DOMAIN Tail(q) : Tail(q)[i] = x
      BY DEF Range
    <2>2. x = q[i + 1] /\ i + 1 \in DOMAIN q /\ i + 1 # 1
      BY <1>2, <2>1
    <2>3. x # q[1]
      BY <1>4, <2>2 DEF IsInjective
    <2>4. QED  BY <1>1, <2>2, <2>3 DEF Range
  <1>7. ASSUME NEW x \in Range(q) \ {Head(q)} PROVE x \in Range(Tail(q))
    <2>1. PICK i \in DOMAIN q : q[i] = x
      BY DEF Range
    <2>2. i # 1
      BY <1>1, <2>1
    <2>3. QED  BY <1>3, <2>1, <2>2 DEF Range
  <1>8. Head(q) \in Range(q)
    BY <1>1, <1>4 DEF Range
  <1>9. QED  BY <1>1, <1>5, <1>6, <1>7, <1>8

LEMMA RangeOfConcat ==
    ASSUME NEW S, NEW p \in Seq(S), NEW q \in Seq(S)
    PROVE  /\ p \o q \in Seq(S) /\ Range(p \o q) = Range(p) \cup Range(q)
           /\ IsInjective(p) /\ IsInjective(q) /\ Range(p) \cap Range(q) = {} => IsInjective(p \o q)
  <1> DEFINE r == p \o q
             m == Len(p)
             n == Len(q)
  <1>1. /\ r \in Seq(S) /\ m \in Nat /\ n \in Nat /\ DOMAIN p = 1..m /\ DOMAIN q = 1..n /\ DOMAIN r = 1..(m + n)
        /\ \A i \in 1..(m + n) : r[i] = IF i <= m THEN p[i] ELSE q[i - m]
    BY ConcatProperties, LenProperties
  <1> HIDE DEF r, m, n
  <1>2. ASSUME NEW i \in DOMAIN r
        PROVE  \/ i <= m /\ i \in DOMAIN p /\ r[i] = p[i]
               \/ ~(i <= m) /\ i - m \in DOMAIN q /\ r[i] = q[i - m]
    BY <1>1
  <1>3. ASSUME NEW i \in DOMAIN p PROVE i \in DOMAIN r /\ r[i] = p[i]
    BY <1>1
  <1>4. ASSUME NEW i \in DOMAIN q PROVE i + m \in DOMAIN r /\ r[i + m] = q[i]
    <2>1. i + m \in 1..(m + n) /\ ~(i + m <= m) /\ (i + m) - m = i
      BY <1>1
    <2>2. QED  BY <1>1, <2>1
  <1>5. Range(r) = Range(p) \cup Range(q)
    BY <1>2, <1>3, <1>4 DEF Range
  <1>6. ASSUME IsInjective(p), IsInjective(q), Range(p) \cap Range(q) = {},
               NEW i \in DOMAIN r, NEW j \in DOMAIN r, r[i] = r[j]
        PROVE  i = j
    <2>1. \A a \in DOMAIN p, b \in DOMAIN q : p[a] # q[b]
      BY <1>6 DEF Range
    <2>2. CASE i <= m
      BY <1>2, <1>6, <2>1, <2>2 DEF IsInjective
    <2>3. CASE ~(i <= m)
      <3>1. ~(j <= m) /\ i - m = j - m
        BY <1>2, <1>6, <2>1, <2>3 DEF IsInjective
      <3>2. i \in Int /\ j \in Int
        BY <1>1
      <3>3. QED  BY <1>1, <3>1, <3>2
    <2>4. QED  BY <2>2, <2>3
  <1>7. QED  BY <1>1, <1>5, <1>6 DEF IsInjective, r

LEMMA RangeOfAppend ==
    ASSUME NEW S, NEW q \in Seq(S), NEW x \in S
    PROVE  /\ Append(q, x) \in Seq(S) /\ Range(Append(q, x)) = Range(q) \cup {x}
           /\ IsInjective(q) /\ x \notin Range(q) => IsInjective(Append(q, x))
  <1>1. PICK y : y = <<x>>
    OBVIOUS
  <1>2. Append(q, x) = q \o y /\ y \in Seq(S)
    BY <1>1, AppendIsConcat
  <1>3. Range(y) = {x} /\ IsInjective(y)
    BY <1>1 DEF Range, IsInjective
  <1>4. /\ q \o y \in Seq(S) /\ Range(q \o y) = Range(q) \cup Range(y)
        /\ IsInjective(q) /\ IsInjective(y) /\ Range(q) \cap Range(y) = {} => IsInjective(q \o y)
    BY <1>2, RangeOfConcat
  <1>5. QED  BY <1>2, <1>3, <1>4

-----------------------------------------------------------------------------
(* The coding pipeline *)

\* TypeOK without `edits', of which the other variables are independent.
Types ==
    /\ phase \in Before \cup {"loop", "parallel", "sequential", "review"} \cup Over
    /\ cancelled \in BOOLEAN
    /\ plan \in Plans
    /\ remaining \subseteq plan.steps
    /\ completed \subseteq Id
    /\ iteration \in Nat
    /\ batch \subseteq Step /\ queue \subseteq Step
    /\ st \in [Step -> Idle \cup {"ready", "running", "fallback", "waiting"}]
    /\ tries \in [Step -> 0..MaxRetries]
    /\ seen \in [Step -> [Path -> Version]]
    /\ edit \in [Step -> Mode \cup {NoEdit}]
    /\ contents \in [Path -> Version]

\* What the round in progress holds.
RoundShape ==
    /\ batch \cup queue \subseteq plan.steps
    /\ batch \cap queue = {}
    /\ queue \cap plan.parallel = {} /\ batch \subseteq plan.parallel
    /\ phase \in Before => completed = {}
    /\ phase = "sequential" => batch = {}
    /\ phase \in Before \cup {"loop", "review"} => batch = {} /\ queue = {}
    /\ phase \in {"parallel", "sequential"} => batch \cup queue # {}
    /\ phase = "parallel" => batch # {}

\* Where a step stands.
Placed(s) ==
    /\ Working(s) => \/ phase = "parallel" /\ s \in batch
                     \/ phase = "sequential" /\ s \in queue /\ s = Current
    /\ phase \in Before => st[s] = "idle"
    /\ st[s] = "idle" /\ phase \notin Over => tries[s] = 0
    /\ st[s] = "ready" => tries[s] = 0
    /\ st[s] = "waiting" => tries[s] < MaxRetries
    /\ s \in queue /\ phase \notin Over => st[s] = "idle" \/ (phase = "sequential" /\ s = Current)
    /\ Ended(s) => s \in plan.steps /\ (plan.id[s] \in completed \/ s \in batch \cup queue)
    /\ phase = "loop" /\ s \in remaining => plan.id[s] \notin completed
    /\ s \in batch \cup queue \/ tries[s] > 0 => plan.deps[s] \subseteq completed
    /\ Working(s) /\ tries[s] > 0 => seen[s] = contents

CompletedEnded == \A d \in completed : \E q \in plan.steps : plan.id[q] = d /\ Ended(q)

IInv == Types /\ RoundShape /\ (\A s \in Step : Placed(s)) /\ CompletedEnded

-----------------------------------------------------------------------------

\* The queue has a first step.
LEMMA CurrentInQueue ==
    ASSUME queue \subseteq Step, queue # {}
    PROVE  Current \in queue /\ \A q \in queue : Current <= q
  <1>1. \E s \in queue : \A q \in queue : s <= q
    BY PipelineAssumption, LeastExists
  <1>2. QED  BY <1>1 DEF Current

LEMMA PlanType ==
    ASSUME plan \in Plans
    PROVE  /\ plan.steps \subseteq Step /\ plan.parallel \subseteq Step
           /\ plan.id \in [Step -> Id] /\ plan.deps \in [Step -> SUBSET Id]
           /\ plan.agent \in [Step -> Agent] /\ plan.path \in [Step -> Path]
  BY PipelineAssumption

LEMMA InitIInv == Init => IInv
  <1> SUFFICES ASSUME Init PROVE IInv
    OBVIOUS
  <1>1. Types
    <2>1. 0 \in 0..MaxRetries
      BY PipelineAssumption
    <2>2. Untouched \in [Path -> Version]
      BY DEF Untouched, Version, Original
    <2>3. QED  BY <2>1, <2>2 DEF Init, Types, Before, Idle, Mode, NoEdit
  <1>2. RoundShape
    BY DEF Init, RoundShape, Before
  <1>3. ASSUME NEW s \in Step PROVE Placed(s)
    BY <1>3, PipelineAssumption DEF Init, Placed, Working, Ended, Idle, Before, Over
  <1>4. CompletedEnded
    BY DEF Init, CompletedEnded
  <1>5. QED  BY <1>1, <1>2, <1>3, <1>4 DEF IInv

-----------------------------------------------------------------------------

\* The control flow of run().
LEMMA ControlIInv == IInv /\ Control => IInv'
  <1> SUFFICES ASSUME IInv, Control PROVE IInv'
    OBVIOUS
  <1>1. /\ Types /\ RoundShape /\ CompletedEnded /\ \A s \in Step : Placed(s)
        /\ plan \in Plans /\ batch \subseteq Step /\ queue \subseteq Step
    BY DEF IInv, Types
  <1>p. /\ plan.steps \subseteq Step /\ plan.id \in [Step -> Id] /\ plan.deps \in [Step -> SUBSET Id]
    BY <1>1, PlanType
  <1> USE DEF Ended, Working
  <1>3. CASE NextPhase
    <2>1. phase \in Before /\ phase' \in Before \cup {"cancelled"}
      BY <1>3 DEF NextPhase, Following, Before
    <2>2. UNCHANGED <<cancelled, loop, work, files>>
      BY <1>3 DEF NextPhase
    <2>3. Types'
      BY <1>1, <2>1, <2>2 DEF loop, work, files, Types, Over
    <2>4. RoundShape' /\ CompletedEnded'
      BY <1>1, <2>1, <2>2 DEF loop, work, files, RoundShape, CompletedEnded, Before
    <2>5. ASSUME NEW s \in Step PROVE Placed(s)'
      BY <1>1, <2>1, <2>2 DEF loop, work, files, RoundShape, Placed, Before, Over, Idle
    <2>6. QED  BY <2>3, <2>4, <2>5 DEF IInv
  <1>4. CASE PlanReturned
    <2>1. /\ phase = "planner" /\ phase' \in {"error", "cancelled", "loop"} /\ remaining' = plan.steps
          /\ UNCHANGED <<cancelled, plan, completed, iteration, batch, queue, work, files>>
      BY <1>4 DEF PlanReturned
    <2>2. Types'
      BY <1>1, <2>1 DEF work, files, Types, Over
    <2>3. RoundShape' /\ CompletedEnded'
      BY <1>1, <2>1 DEF work, files, RoundShape, CompletedEnded, Before
    <2>4. ASSUME NEW s \in Step PROVE Placed(s)'
      BY <1>1, <2>1 DEF work, files, RoundShape, Placed, Before, Over, Idle
    <2>5. QED  BY <2>2, <2>3, <2>4 DEF IInv
  <1>5. CASE StartRound
    <2>1. CASE UNCHANGED <<batch, queue, st>>
      <3>1. /\ phase = "loop" /\ phase' \in {"cancelled", "review", "parallel", "sequential"}
            /\ iteration' = iteration + 1
            /\ UNCHANGED <<cancelled, plan, remaining, completed, batch, queue, st, tries, seen, edit, files>>
        BY <1>5, <2>1 DEF StartRound
      <3>2. phase' \in {"cancelled", "review"}
        BY <1>1, <1>5, <2>1, <3>1 DEF StartRound, RoundShape, Before
      <3>3. Types'
        BY <1>1, <3>1, <3>2 DEF files, Types, Over
      <3>4. RoundShape' /\ CompletedEnded'
        BY <1>1, <3>1, <3>2 DEF files, RoundShape, CompletedEnded, Before
      <3>5. ASSUME NEW s \in Step PROVE Placed(s)'
        BY <1>1, <3>1, <3>2 DEF files, RoundShape, Placed, Before, Over, Idle
      <3>6. QED  BY <3>3, <3>4, <3>5 DEF IInv
    <2>2. CASE ~UNCHANGED <<batch, queue, st>>
      <3>1. /\ phase = "loop" /\ Ready # {}
            /\ batch' = Ready \cap plan.parallel /\ queue' = Ready \ plan.parallel
            /\ phase' = IF batch' # {} THEN "parallel" ELSE "sequential"
            /\ st' = [s \in Step |-> IF s \in batch' THEN "ready" ELSE st[s]]
            /\ iteration' = iteration + 1
            /\ UNCHANGED <<cancelled, plan, remaining, completed, tries, seen, edit, contents>>
        BY <1>5, <2>2 DEF StartRound, files
      <3>2. /\ Ready \subseteq remaining /\ Ready \subseteq plan.steps /\ Ready \subseteq Step
            /\ \A s \in Ready : plan.deps[s] \subseteq completed
        BY <1>1, <1>p DEF Ready, Types
      <3>3. \A s \in Ready : st[s] = "idle" /\ tries[s] = 0
        BY <1>1, <3>1, <3>2 DEF Types, Placed, RoundShape, Idle, Over
      <3>4. Types'
        BY <1>1, <3>1, <3>2 DEF Types, Over
      <3>5. RoundShape'
        BY <1>1, <3>1, <3>2 DEF RoundShape, Before
      <3>6. CompletedEnded'
        <4>1. \A q \in Step : Ended(q) => Ended(q)'
          BY <1>1, <3>1, <3>3 DEF Types
        <4>2. QED  BY <1>1, <1>p, <3>1, <4>1 DEF CompletedEnded
      <3>7. ASSUME NEW s \in Step PROVE Placed(s)'
        <4>1. CASE s \in batch'
          BY <1>1, <3>1, <3>2, <3>3, <4>1 DEF Placed, RoundShape, Before, Over, Idle
        <4>2. CASE s \notin batch'
          BY <1>1, <3>1, <3>2, <3>3, <4>2 DEF Placed, RoundShape, Before, Over, Idle, Types
        <4>3. QED  BY <4>1, <4>2
      <3>8. QED  BY <3>4, <3>5, <3>6, <3>7 DEF IInv
    <2>3. QED  BY <2>1, <2>2
  <1>6. CASE CollectBatch
    <2>1. /\ phase = "parallel" /\ \A s \in batch : Ended(s)
          /\ completed' = completed \cup {plan.id[s] : s \in batch}
          /\ batch' = {}
          /\ phase' = IF queue # {} THEN "sequential" ELSE "loop"
          /\ remaining' = IF queue # {} THEN remaining ELSE EndOfRound(completed')
          /\ UNCHANGED <<cancelled, plan, iteration, queue, work, contents>>
      BY <1>6 DEF CollectBatch
    <2>2. Types'
      BY <1>1, <1>p, <2>1 DEF work, Types, EndOfRound
    <2>3. RoundShape'
      BY <1>1, <2>1 DEF RoundShape, Before
    <2>4. CompletedEnded'
      BY <1>1, <2>1 DEF work, CompletedEnded, RoundShape
    <2>5. ASSUME NEW s \in Step PROVE Placed(s)'
      <3>1. ~Working(s) /\ ~Working(s)' /\ completed \subseteq completed'
        BY <1>1, <2>1 DEF work, Placed, Idle
      <3>2. QED
        BY <1>1, <2>1, <3>1 DEF work, Placed, RoundShape, Before, Over, Idle, EndOfRound
    <2>6. QED  BY <2>2, <2>3, <2>4, <2>5 DEF IInv
  <1>7. CASE CallNext
    <2>1. /\ phase = "sequential" /\ queue # {} /\ st[Current] = "idle"
          /\ st' = [st EXCEPT ![Current] = "ready"]
          /\ UNCHANGED <<phase, cancelled, loop, tries, seen, edit, files>>
          /\ Current \in queue /\ Current' = Current
      BY <1>1, <1>7, CurrentInQueue DEF CallNext, loop, Current
    <2>2. Types'
      BY <1>1, <2>1 DEF loop, files, Types
    <2>3. RoundShape'
      BY <1>1, <2>1 DEF loop, files, RoundShape
    <2>4. CompletedEnded'
      <3>1. \A q \in Step : Ended(q) => Ended(q)'
        BY <1>1, <2>1 DEF Types
      <3>2. QED  BY <1>1, <1>p, <2>1, <3>1 DEF loop, CompletedEnded
    <2>5. ASSUME NEW s \in Step PROVE Placed(s)'
      <3>1. CASE s = Current
        BY <1>1, <2>1, <3>1 DEF loop, files, Types, Placed, Before, Over, Idle
      <3>2. CASE s # Current
        BY <1>1, <2>1, <3>2 DEF loop, files, Types, Placed, Before, Over, Idle
      <3>3. QED  BY <3>1, <3>2
    <2>6. QED  BY <2>2, <2>3, <2>4, <2>5 DEF IInv
  <1>8. CASE CollectOne
    <2>1. /\ phase = "sequential" /\ queue # {} /\ Ended(Current)
          /\ contents' = IF HasEdit(Current) /\ edit[Current] = "replace"
                          THEN [contents EXCEPT ![plan.path[Current]] = Current] ELSE contents
          /\ completed' = completed \cup {plan.id[Current]}
          /\ queue' = queue \ {Current}
          /\ phase' = IF queue' # {} THEN "sequential" ELSE "loop"
          /\ remaining' = IF queue' # {} THEN remaining ELSE EndOfRound(completed')
          /\ UNCHANGED <<cancelled, plan, iteration, batch, work>>
          /\ Current \in queue
      BY <1>1, <1>8, CurrentInQueue DEF CollectOne
    <2>2. Types'
      BY <1>1, <1>p, <2>1 DEF work, Types, EndOfRound, Version
    <2>3. RoundShape'
      BY <1>1, <2>1 DEF RoundShape, Before
    <2>4. CompletedEnded'
      BY <1>1, <2>1 DEF work, CompletedEnded, RoundShape
    <2>5. ASSUME NEW s \in Step PROVE Placed(s)'
      <3>1. ~Working(s) /\ ~Working(s)' /\ completed \subseteq completed'
        BY <1>1, <2>1 DEF work, Placed, Idle
      <3>2. s \in queue' => st'[s] = "idle"
        BY <1>1, <2>1 DEF work, Placed, Over
      <3>3. QED
        BY <1>1, <2>1, <3>1, <3>2 DEF work, Placed, RoundShape, Before, Over, Idle, EndOfRound
    <2>6. QED  BY <2>2, <2>3, <2>4, <2>5 DEF IInv
  <1>9. CASE LeaveLoop \/ Review
    <2>1. /\ phase \in {"loop", "review"} /\ phase' \in {"review", "done"}
          /\ UNCHANGED <<cancelled, loop, work, files>>
      BY <1>9 DEF LeaveLoop, Review
    <2>2. Types'
      BY <1>1, <2>1 DEF loop, work, files, Types, Over
    <2>3. RoundShape' /\ CompletedEnded'
      BY <1>1, <2>1 DEF loop, work, files, RoundShape, CompletedEnded, Before
    <2>4. ASSUME NEW s \in Step PROVE Placed(s)'
      BY <1>1, <2>1 DEF loop, work, files, RoundShape, Placed, Before, Over, Idle
    <2>5. QED  BY <2>2, <2>3, <2>4 DEF IInv
  <1>10. QED  BY <1>3, <1>4, <1>5, <1>6, <1>7, <1>8, <1>9 DEF Control

\* One attempt at a step, in any of its stages.
LEMMA AgentsIInv == ASSUME IInv, NEW a \in Step, Agents(a) PROVE IInv'
  <1>1. /\ Types /\ RoundShape /\ CompletedEnded /\ \A s \in Step : Placed(s)
        /\ plan \in Plans
    BY DEF IInv, Types
  <1>p. plan.steps \subseteq Step
    BY <1>1, PlanType
  <1> USE DEF Ended, Working
  \* What all four have in common.
  <1>3. /\ Working(a) /\ UNCHANGED <<phase, cancelled, loop, files>> /\ Current' = Current
        /\ \A s \in Step \ {a} : st'[s] = st[s] /\ tries'[s] = tries[s] /\ seen'[s] = seen[s]
        /\ st'[a] \in {"running", "fallback", "ok", "waiting", "failed"}
        /\ st' \in [Step -> Idle \cup {"ready", "running", "fallback", "waiting"}]
    BY <1>1 DEF Agents, Attempt, Fallback, Succeed, Fail, Types, Idle, loop, Current
  <1>4. tries' \in [Step -> 0..MaxRetries] /\ (st'[a] = "waiting" => tries'[a] < MaxRetries)
    <2>1. CASE Attempt(a)
      BY <1>1, <2>1, PipelineAssumption DEF Attempt, Types, Placed
    <2>2. CASE ~Attempt(a)
      BY <1>1, <2>2 DEF Agents, Fallback, Succeed, Fail, Types
    <2>3. QED  BY <2>1, <2>2
  <1>5. /\ seen' \in [Step -> [Path -> Version]] /\ edit' \in [Step -> Mode \cup {NoEdit}]
        /\ tries'[a] > 0 => seen'[a] = contents
    BY <1>1, <1>3 DEF Agents, Attempt, Fallback, Succeed, Fail, Types, Placed
  <1>6. Types'
    BY <1>1, <1>3, <1>4, <1>5 DEF Types, loop, files
  <1>7. RoundShape'
    BY <1>1, <1>3 DEF RoundShape, loop, files
  <1>8. CompletedEnded'
    <2>1. \A q \in Step : Ended(q) => Ended(q)'
      BY <1>1, <1>3 DEF Idle
    <2>2. QED  BY <1>1, <1>p, <1>3, <2>1 DEF CompletedEnded, loop
  <1>9. ASSUME NEW s \in Step PROVE Placed(s)'
    <2>1. CASE s = a
      <3>1. phase \in {"parallel", "sequential"} /\ a \in batch \cup queue /\ a \in plan.steps
        BY <1>1, <1>3 DEF Placed, RoundShape
      <3>2. QED
        BY <1>1, <1>3, <1>4, <1>5, <2>1, <3>1 DEF Placed, loop, files, Before, Over, Idle
    <2>2. CASE s # a
      BY <1>1, <1>3, <2>2 DEF Placed, loop, files, Before, Over, Idle
    <2>3. QED  BY <2>1, <2>2
  <1>10. QED  BY <1>6, <1>7, <1>8, <1>9 DEF IInv

LEMMA OutsideIInv == IInv /\ (Cancel \/ Disconnect \/ UNCHANGED vars) => IInv'
  <1> SUFFICES ASSUME IInv, Cancel \/ Disconnect \/ UNCHANGED vars PROVE IInv'
    OBVIOUS
  <1>1. /\ Types /\ RoundShape /\ CompletedEnded /\ (\A s \in Step : Placed(s))
        /\ plan \in Plans
    BY DEF IInv, Types
  <1>p. plan.steps \subseteq Step
    BY <1>1, PlanType
  <1> USE DEF Ended, Working
  <1>3. CASE Cancel \/ UNCHANGED vars
    <2>1. /\ cancelled' \in BOOLEAN /\ UNCHANGED <<phase, loop, work, files>> /\ Current' = Current
      BY <1>1, <1>3 DEF Cancel, vars, Types, loop, work, files, Current
    <2>2. Types'
      BY <1>1, <2>1 DEF Types, loop, work, files
    <2>3. RoundShape' /\ CompletedEnded'
      BY <1>1, <2>1 DEF RoundShape, CompletedEnded, loop, work, files
    <2>4. ASSUME NEW s \in Step PROVE Placed(s)'
      BY <1>1, <2>1 DEF Placed, loop, work, files
    <2>5. QED  BY <2>2, <2>3, <2>4 DEF IInv
  <1>4. CASE Disconnect
    <2>1. /\ phase' = "abandoned" /\ st' = [s \in Step |-> IF st[s] \in Idle THEN st[s] ELSE "idle"]
          /\ UNCHANGED <<cancelled, loop, tries, seen, edit, files>>
      BY <1>4 DEF Disconnect
    <2>2. Types'
      BY <1>1, <2>1 DEF Types, loop, files, Idle, Over
    <2>3. RoundShape'
      BY <1>1, <2>1 DEF RoundShape, loop, files, Before
    <2>4. \A q \in Step : ~Working(q)' /\ (Ended(q) <=> Ended(q)')
      BY <1>1, <2>1 DEF Idle
    <2>5. CompletedEnded'
      BY <1>1, <1>p, <2>1, <2>4 DEF CompletedEnded, loop
    <2>6. ASSUME NEW s \in Step PROVE Placed(s)'
      BY <1>1, <2>1, <2>4 DEF Placed, loop, files, Before, Over, Idle
    <2>7. QED  BY <2>2, <2>3, <2>5, <2>6 DEF IInv
  <1>5. QED  BY <1>3, <1>4

-----------------------------------------------------------------------------

\* The inductive invariant holds of every reachable state.
THEOREM CodingInvariant == Init /\ [][Next]_vars => []IInv
  <1>1. IInv /\ [Next]_vars => IInv'
    BY ControlIInv, AgentsIInv, OutsideIInv DEF Next
  <1>2. QED  BY <1>1, InitIInv, PTL

LEMMA StepsPlaced == IInv => StepsInOrder
  <1> SUFFICES ASSUME IInv, NEW s \in Step
               PROVE  /\ tries[s] > 0 => \A d \in plan.deps[s] :
                                            \E q \in plan.steps : plan.id[q] = d /\ Ended(q)
                      /\ Working(s) => \A p \in Path : tries[s] > 0 => seen[s][p] = contents[p]
                      /\ Working(s) /\ s \notin plan.parallel => \A q \in Step \ {s} : ~Working(q)
    BY DEF StepsInOrder
  <1>1. CompletedEnded /\ RoundShape /\ \A q \in Step : Placed(q)
    BY DEF IInv
  <1>2. tries[s] > 0 => \A d \in plan.deps[s] : \E q \in plan.steps : plan.id[q] = d /\ Ended(q)
    BY <1>1 DEF Placed, CompletedEnded
  <1>3. Working(s) => \A p \in Path : tries[s] > 0 => seen[s][p] = contents[p]
    BY <1>1 DEF Placed
  <1>4. Working(s) /\ s \notin plan.parallel => \A q \in Step \ {s} : ~Working(q)
    BY <1>1 DEF Placed, RoundShape
  <1>5. QED  BY <1>2, <1>3, <1>4

\* For every plan: no step starts before its dependencies have ended, and what
\* a step has read does not change while it works (run()).
THEOREM CodingStepsInOrder == Spec => []StepsInOrder
  BY CodingInvariant, StepsPlaced, PTL DEF Spec

LEMMA CancelledStarts ==
    IInv /\ [Next]_vars =>
        [\A s \in Step : cancelled /\ st[s] = "idle" /\ st'[s] # "idle" => s \in batch \cup queue]_vars
  <1> SUFFICES ASSUME IInv, Next, NEW s \in Step, cancelled, st[s] = "idle", st'[s] # "idle"
               PROVE  s \in batch \cup queue
    BY DEF vars
  <1>1. Types /\ Placed(s)
    BY DEF IInv
  <1>2. CASE CallNext
    <2>1. Current \in queue /\ st' = [st EXCEPT ![Current] = "ready"]
      BY <1>1, <1>2, CurrentInQueue DEF CallNext, Types
    <2>2. QED  BY <1>1, <2>1 DEF Types
  <1>3. CASE Control /\ ~CallNext
    BY <1>1, <1>3 DEF Control, NextPhase, PlanReturned, StartRound, CollectBatch, CollectOne, LeaveLoop,
                      Review, work
  <1>4. ASSUME NEW a \in Step, Agents(a) PROVE FALSE
    BY <1>1, <1>4 DEF Agents, Attempt, Fallback, Succeed, Fail, Types
  <1>5. CASE Cancel \/ Disconnect
    BY <1>1, <1>5 DEF Cancel, Disconnect, work, Idle
  <1>6. QED  BY <1>2, <1>3, <1>4, <1>5 DEF Next

\* After cancel_event is set, no step of a later round is started, whatever the
\* plan and wherever the round is (cancel_event in run()).
THEOREM CodingCancelStopsRounds == Spec => CancelStopsRounds
  BY CodingInvariant, CancelledStarts, PTL DEF Spec, CancelStopsRounds

-----------------------------------------------------------------------------
(* The edits that come out *)

WritesTo(p) == {i \in DOMAIN edits : /\ plan.path[edits[i]] = p /\ edit[edits[i]] = "replace"
                                     /\ edits[i] \notin plan.parallel}

Collected == {s \in Step : HasEdit(s) /\ s \notin batch \cup queue}

LastWritten(p) ==
    \/ contents[p] = Original /\ WritesTo(p) = {}
    \/ \E i \in WritesTo(p) : contents[p] = edits[i] /\ \A j \in WritesTo(p) : j <= i

\* all_edits has what was collected, once, and a file has the last replacement.
EditsInv ==
    /\ edits \in Seq(Step) /\ IsInjective(edits) /\ Range(edits) = Collected
    /\ \A p \in Path : LastWritten(p)

LEMMA OrderedSteps ==
    ASSUME NEW T \in SUBSET Step, NEW q, q = InOrder(T)
    PROVE  q \in Seq(Step) /\ IsInjective(q) /\ Range(q) = T
  <1>1. T \in SUBSET Nat /\ IsFiniteSet(T)
    BY PipelineAssumption, FS_Subset
  <1>2. \E o \in [1..Cardinality(T) -> T] : \A i, j \in DOMAIN o : i < j => o[i] < o[j]
    BY <1>1, OrderExists DEF Increasing
  <1>3. Increasing(q, T)
    BY <1>2 DEF InOrder, Increasing
  <1>4. q \in Seq(T) /\ IsInjective(q) /\ \A x \in T : \E i \in DOMAIN q : q[i] = x
    BY <1>1, <1>3, OrderCovers
  <1>5. QED  BY <1>4 DEF Range

LEMMA EditsInit == Init => EditsInv
  <1> SUFFICES ASSUME Init PROVE EditsInv
    OBVIOUS
  <1>1. edits = <<>> /\ DOMAIN <<>> = {} /\ <<>> \in Seq(Step)
    BY DEF Init
  <1>2. IsInjective(edits) /\ Range(edits) = {} /\ \A p \in Path : WritesTo(p) = {}
    BY <1>1 DEF IsInjective, Range, WritesTo
  <1>3. Collected = {}
    BY DEF Init, Collected, HasEdit
  <1>4. \A p \in Path : contents[p] = Original
    BY DEF Init, Untouched
  <1>5. QED  BY <1>1, <1>2, <1>3, <1>4 DEF EditsInv, LastWritten

\* A step that collects nothing and leaves what was collected alone
LEMMA EditsKept ==
    ASSUME EditsInv, UNCHANGED <<edits, contents, plan>>, Collected' = Collected,
           \A s \in Collected : edit'[s] = edit[s]
    PROVE  EditsInv'
  <1>1. \A i \in DOMAIN edits : edits[i] \in Collected
    BY DEF EditsInv, Range
  <1>2. \A p \in Path : WritesTo(p)' = WritesTo(p)
    BY <1>1 DEF WritesTo
  <1>3. ASSUME NEW p \in Path PROVE LastWritten(p)'
    BY <1>2 DEF LastWritten, EditsInv
  <1>4. QED  BY <1>3 DEF EditsInv

LEMMA EditsStep == IInv /\ EditsInv /\ [Next]_vars => EditsInv'
  <1> SUFFICES ASSUME IInv, EditsInv, [Next]_vars PROVE EditsInv'
    OBVIOUS
  <1>1. Types /\ RoundShape /\ \A s \in Step : Placed(s)
    BY DEF IInv
  <1>2. /\ plan.steps \subseteq Step /\ plan.parallel \subseteq Step /\ plan.path \in [Step -> Path]
        /\ batch \subseteq Step /\ queue \subseteq Step
    BY <1>1, PlanType DEF Types
  <1>3. CASE UNCHANGED <<files, plan, batch, queue, edit>> /\ \A s \in Step : st'[s] = "ok" <=> st[s] = "ok"
    <2>1. Collected' = Collected
      BY <1>3 DEF Collected, HasEdit
    <2>2. QED  BY <1>3, <2>1, EditsKept DEF files
  <1>4. CASE NextPhase \/ PlanReturned \/ LeaveLoop \/ Review \/ Cancel \/ UNCHANGED vars
    BY <1>3, <1>4 DEF NextPhase, PlanReturned, LeaveLoop, Review, Cancel, loop, work, files, vars
  <1>5. CASE Disconnect
    <2>1. \A s \in Step : st'[s] = "ok" <=> st[s] = "ok"
      BY <1>5 DEF Disconnect, Idle
    <2>2. QED  BY <1>3, <1>5, <2>1 DEF Disconnect, loop, files
  <1>6. CASE StartRound
    <2>1. phase = "loop" /\ batch = {} /\ queue = {} /\ UNCHANGED <<plan, edit, files>>
      BY <1>1, <1>6 DEF StartRound, RoundShape
    <2>2. \A s \in Step : st'[s] = "ok" => st[s] = "ok"
      BY <1>1, <1>6 DEF StartRound, Types
    <2>3. ASSUME NEW s \in Ready PROVE s \in Step /\ st[s] # "ok"
      <3>1. s \in remaining /\ s \in Step
        BY <1>1, <1>2 DEF Ready, Types
      <3>2. plan.id[s] \notin completed
        BY <1>1, <2>1, <3>1 DEF Placed
      <3>3. QED  BY <1>1, <2>1, <3>1, <3>2 DEF Placed, Ended
    <2>4. batch' \cup queue' \subseteq Ready
      BY <1>6, <2>1 DEF StartRound
    <2>5. \A s \in Step : st[s] = "ok" => st'[s] = "ok" /\ s \notin batch' \cup queue'
      BY <1>1, <1>6, <2>3, <2>4 DEF StartRound, Types
    <2>6. Collected' = Collected
      BY <2>1, <2>2, <2>5 DEF Collected, HasEdit
    <2>7. QED  BY <2>1, <2>6, EditsKept DEF files
  <1>7. CASE CollectBatch
    <2>1. PICK T : T = {s \in batch : HasEdit(s)}
      OBVIOUS
    <2>2. PICK q : q = InOrder(T)
      OBVIOUS
    <2>3. PICK old : old = edits
      OBVIOUS
    <2>4. /\ edits' = old \o q /\ batch' = {} /\ UNCHANGED <<plan, queue, work, contents>>
      BY <1>7, <2>1, <2>2, <2>3 DEF CollectBatch
    <2>5. q \in Seq(Step) /\ IsInjective(q) /\ Range(q) = T
      BY <1>2, <2>1, <2>2, OrderedSteps
    <2>6. old \in Seq(Step) /\ IsInjective(old) /\ Range(old) = Collected
      BY <2>3 DEF EditsInv
    <2>7. Range(old) \cap Range(q) = {}
      BY <2>1, <2>5, <2>6 DEF Collected
    <2>8. /\ old \o q \in Seq(Step) /\ IsInjective(old \o q)
          /\ Range(old \o q) = Range(old) \cup Range(q)
      BY <2>5, <2>6, <2>7, RangeOfConcat
    <2>9. Collected' = Collected \cup T
      BY <1>1, <1>2, <2>1, <2>4 DEF Collected, HasEdit, work, RoundShape
    <2>10. \A p \in Path : WritesTo(p)' = WritesTo(p)
      <3>1. /\ DOMAIN old = 1..Len(old) /\ DOMAIN q = 1..Len(q) /\ Len(old) \in Nat /\ Len(q) \in Nat
            /\ DOMAIN (old \o q) = 1..(Len(old) + Len(q))
            /\ \A i \in 1..(Len(old) + Len(q)) :
                 (old \o q)[i] = IF i <= Len(old) THEN old[i] ELSE q[i - Len(old)]
        BY <2>5, <2>6, <2>8, ConcatProperties, LenProperties
      <3>2. PICK r : r = old \o q
        OBVIOUS
      <3>3. ASSUME NEW i \in DOMAIN r, i \notin DOMAIN old PROVE r[i] \in plan.parallel
        <4>1. i - Len(old) \in DOMAIN q /\ r[i] = q[i - Len(old)]
          BY <3>1, <3>2, <3>3
        <4>2. r[i] \in T
          BY <2>5, <4>1 DEF Range
        <4>3. QED  BY <1>1, <2>1, <4>2 DEF RoundShape
      <3>4. \A i \in DOMAIN old : i \in DOMAIN r /\ r[i] = old[i]
        BY <3>1, <3>2
      <3>5. edits' = r /\ plan' = plan /\ edit' = edit
        BY <2>4, <3>2 DEF work
      <3>6. QED  BY <2>3, <3>3, <3>4, <3>5 DEF WritesTo
    <2>11. ASSUME NEW p \in Path PROVE LastWritten(p)'
      <3>1. \A i \in WritesTo(p) : edits'[i] = edits[i]
        <4>1. \A i \in DOMAIN old : (old \o q)[i] = old[i]
          BY <2>5, <2>6, ConcatProperties, LenProperties
        <4>2. QED  BY <2>3, <2>4, <4>1 DEF WritesTo
      <3>2. WritesTo(p)' = WritesTo(p) /\ contents' = contents
        BY <2>4, <2>10
      <3>3. CASE contents[p] = Original /\ WritesTo(p) = {}
        BY <3>2, <3>3 DEF LastWritten
      <3>4. CASE \E i \in WritesTo(p) : contents[p] = edits[i] /\ \A j \in WritesTo(p) : j <= i
        BY <3>1, <3>2, <3>4 DEF LastWritten
      <3>5. QED  BY <3>3, <3>4 DEF EditsInv, LastWritten
    <2>12. QED  BY <2>4, <2>5, <2>6, <2>8, <2>9, <2>11 DEF EditsInv
  <1>8. CASE CallNext
    <2>1. st[Current] = "idle" /\ st' = [st EXCEPT ![Current] = "ready"] /\ UNCHANGED <<loop, tries, seen, edit, files>>
      BY <1>8 DEF CallNext
    <2>2. \A s \in Step : st'[s] = "ok" <=> st[s] = "ok"
      BY <1>1, <2>1 DEF Types
    <2>3. QED  BY <1>3, <2>1, <2>2 DEF loop
  <1>9. CASE CollectOne
    <2>1. PICK c : c = Current
      OBVIOUS
    <2>2. PICK old : old = edits
      OBVIOUS
    <2>3. /\ edits' = IF HasEdit(c) THEN Append(old, c) ELSE old
          /\ contents' = IF HasEdit(c) /\ edit[c] = "replace"
                         THEN [contents EXCEPT ![plan.path[c]] = c] ELSE contents
          /\ queue' = queue \ {c} /\ UNCHANGED <<plan, batch, work>>
      BY <1>9, <2>1, <2>2 DEF CollectOne
    <2>4. c \in queue /\ c \in Step /\ c \notin batch /\ c \notin plan.parallel
      <3>1. c \in queue
        BY <1>2, <1>9, <2>1, CurrentInQueue DEF CollectOne
      <3>2. QED  BY <1>1, <1>2, <3>1 DEF RoundShape
    <2>5. old \in Seq(Step) /\ IsInjective(old) /\ Range(old) = Collected
      BY <2>2 DEF EditsInv
    <2>6. CASE ~HasEdit(c)
      <3>1. Collected' = Collected
        BY <2>3, <2>6 DEF Collected, HasEdit, work
      <3>2. QED  BY <2>2, <2>3, <2>6, <3>1, EditsKept DEF work
    <2>7. CASE HasEdit(c)
      <3>1. Collected' = Collected \cup {c}
        BY <2>3, <2>4, <2>7 DEF Collected, HasEdit, work
      <3>2. c \notin Range(old)
        BY <2>4, <2>5 DEF Collected
      <3>3. PICK r : r = Append(old, c)
        OBVIOUS
      <3>4. r \in Seq(Step) /\ Range(r) = Range(old) \cup {c} /\ IsInjective(r)
        BY <2>4, <2>5, <3>2, <3>3, RangeOfAppend
      <3>5. PICK n : n = Len(old) /\ n \in Nat
        BY <2>5
      <3>6. /\ DOMAIN old = 1..n /\ DOMAIN r = 1..(n + 1) /\ r[n + 1] = c
            /\ \A i \in 1..n : r[i] = old[i]
        BY <2>4, <2>5, <3>3, <3>5
      <3>7. edits' = r /\ plan' = plan /\ edit' = edit
        BY <2>3, <2>7, <3>3 DEF work
      <3>8. ASSUME NEW p \in Path PROVE LastWritten(p)'
        <4>1. \A i \in WritesTo(p) : i \in 1..n /\ r[i] = edits[i]
          BY <2>2, <3>6 DEF WritesTo
        <4>2. CASE p = plan.path[c] /\ edit[c] = "replace"
          <5>1. n + 1 \in WritesTo(p)'
            BY <2>4, <3>6, <3>7, <3>5, <4>2 DEF WritesTo
          <5>2. \A j \in WritesTo(p)' : j <= n + 1
            BY <3>5, <3>6, <3>7 DEF WritesTo
          <5>3. contents'[p] = c
            BY <1>1, <2>3, <2>7, <4>2 DEF Types
          <5>4. QED  BY <3>6, <3>7, <5>1, <5>2, <5>3 DEF LastWritten
        <4>3. CASE ~(p = plan.path[c] /\ edit[c] = "replace")
          <5>1. WritesTo(p)' = WritesTo(p)
            <6>1. \A i \in 1..(n + 1) : i \in 1..n \/ i = n + 1
              BY <3>5
            <6>2. 1..n \subseteq 1..(n + 1)
              BY <3>5
            <6>3. QED  BY <2>2, <3>6, <3>7, <4>3, <6>1, <6>2 DEF WritesTo
          <5>2. contents'[p] = contents[p]
            BY <1>1, <2>3, <4>3 DEF Types
          <5>3. CASE contents[p] = Original /\ WritesTo(p) = {}
            BY <5>1, <5>2, <5>3 DEF LastWritten
          <5>4. CASE \E i \in WritesTo(p) : contents[p] = edits[i] /\ \A j \in WritesTo(p) : j <= i
            BY <3>7, <4>1, <5>1, <5>2, <5>4 DEF LastWritten
          <5>5. QED  BY <5>3, <5>4 DEF EditsInv, LastWritten
        <4>4. QED  BY <4>2, <4>3
      <3>9. QED  BY <2>5, <3>1, <3>4, <3>7, <3>8 DEF EditsInv
    <2>8. QED  BY <2>6, <2>7
  <1>10. ASSUME NEW a \in Step, Agents(a) PROVE EditsInv'
    <2>1. CASE \E e \in Mode \cup {NoEdit} : Succeed(a, e)
      <3>1. PICK e : Succeed(a, e)
        BY <2>1
      <3>2. /\ st[a] \in {"running", "fallback"} /\ st' = [st EXCEPT ![a] = "ok"]
            /\ edit' = [edit EXCEPT ![a] = e] /\ UNCHANGED <<loop, files>>
        BY <3>1 DEF Succeed
      <3>3. a \in batch \cup queue
        BY <1>1, <3>2 DEF Placed, Working, Idle
      <3>4. Collected' = Collected
        BY <1>1, <3>2, <3>3 DEF Collected, HasEdit, Types, loop
      <3>5. \A s \in Collected : edit'[s] = edit[s]
        BY <1>1, <3>2, <3>3 DEF Collected, Types
      <3>6. QED  BY <3>2, <3>4, <3>5, EditsKept DEF loop, files
    <2>2. CASE Attempt(a) \/ Fallback(a) \/ Fail(a)
      <3>1. /\ UNCHANGED <<loop, edit, files>> /\ st[a] # "ok"
            /\ \E x \in {"running", "fallback", "waiting", "failed"} : st' = [st EXCEPT ![a] = x]
        BY <2>2 DEF Attempt, Fallback, Fail
      <3>2. \A s \in Step : st'[s] = "ok" <=> st[s] = "ok"
        BY <1>1, <3>1 DEF Types
      <3>3. QED  BY <1>3, <3>1, <3>2 DEF loop
    <2>3. QED  BY <1>10, <2>1, <2>2 DEF Agents
  <1>11. QED
    BY <1>4, <1>5, <1>6, <1>7, <1>8, <1>9, <1>10 DEF Next, Control

LEMMA EditsCounted == EditsInv => EditsAccounted
  <1> SUFFICES ASSUME EditsInv PROVE EditsAccounted
    OBVIOUS
  <1>1. ASSUME NEW s \in Step
        PROVE  Cardinality({i \in DOMAIN edits : edits[i] = s})
                 = IF HasEdit(s) /\ s \notin batch \cup queue THEN 1 ELSE 0
    <2>1. PICK A : A = {i \in DOMAIN edits : edits[i] = s}
      OBVIOUS
    <2>2. CASE s \in Collected
      <3>1. PICK i \in DOMAIN edits : edits[i] = s
        BY <2>2 DEF EditsInv, Range
      <3>2. A = {i}
        BY <2>1, <3>1 DEF EditsInv, IsInjective
      <3>3. Cardinality(A) = 1
        BY <3>2, FS_Singleton
      <3>4. QED  BY <2>1, <2>2, <3>3 DEF Collected
    <2>3. CASE s \notin Collected
      <3>1. A = {}
        BY <2>1, <2>3 DEF EditsInv, Range
      <3>2. Cardinality(A) = 0
        BY <3>1, FS_EmptySet
      <3>3. QED  BY <2>1, <2>3, <3>2 DEF Collected
    <2>4. QED  BY <2>2, <2>3
  <1>2. ASSUME NEW p \in Path
        PROVE  contents[p] = IF WritesTo(p) = {} THEN Original
                             ELSE edits[CHOOSE i \in WritesTo(p) : \A j \in WritesTo(p) : j <= i]
    <2>1. CASE contents[p] = Original /\ WritesTo(p) = {}
      BY <2>1
    <2>2. CASE \E i \in WritesTo(p) : contents[p] = edits[i] /\ \A j \in WritesTo(p) : j <= i
      <3>1. PICK i \in WritesTo(p) : contents[p] = edits[i] /\ \A j \in WritesTo(p) : j <= i
        BY <2>2
      <3>2. PICK W : W = WritesTo(p)
        OBVIOUS
      <3>3. W \subseteq Nat
        BY <3>2 DEF WritesTo, EditsInv
      <3>4. PICK m : m = CHOOSE k \in W : \A j \in W : j <= k
        OBVIOUS
      <3>5. m \in W /\ \A j \in W : j <= m
        BY <3>1, <3>2, <3>4
      <3>6. m = i
        BY <3>1, <3>2, <3>3, <3>5
      <3>7. QED  BY <3>1, <3>2, <3>4, <3>6
    <2>3. QED  BY <2>1, <2>2 DEF EditsInv, LastWritten
  <1>3. QED  BY <1>1, <1>2 DEF EditsAccounted, WritesTo

LEMMA EditsInvariant == Init /\ [][Next]_vars => []EditsInv
  BY CodingInvariant, EditsInit, EditsStep, PTL

\* For every plan: what is collected is the edit of each successful step, once,
\* and a file's contents are the last of the replacements (run()).
THEOREM CodingEditsAccounted == Spec => []EditsAccounted
  BY EditsInvariant, EditsCounted, PTL DEF Spec

-----------------------------------------------------------------------------
(* The autonomous pipeline *)

\* The steps of its plan that a run has executed
Ran(r) == {executed[r][i] : i \in DOMAIN executed[r]}

\* A run is waiting for process(), in the execute stage or in the retry stage.
Calling == {"route", "brain", "strategy", "direct", "steps"}

TaskStep == [id : Nat, needs : SUBSET Nat]

PipelineTypes ==
    /\ stageOf \in [Run -> {"idle", "plan", "debug", "over"} \cup Calling]
    /\ fix \in [Run -> BOOLEAN]
    /\ status \in [Run -> [Pipeline!Stage -> {"pending", "running", "success", "failed", "skipped"}]]
    /\ verdict \in [Run -> {"pending", "completed", "completed_with_issues", "failed"}]
    /\ results \in [Run -> Seq({"good", "weak", "bad", "null"})]
    /\ graphOf \in [Run -> Seq(TaskStep)]
    /\ left \in [Run -> SUBSET Nat]
    /\ pass \in [Run -> SUBSET Nat]
    /\ executed \in [Run -> Seq(Nat)]
    /\ passes \in [Run -> Nat]

\* What a pass has taken is ready, and every pass has run one step at least.
PassIsReady(r) ==
    stageOf[r] = "steps" =>
        /\ pass[r] \subseteq left[r]
        /\ \A s \in pass[r] : \A d \in graphOf[r][s].needs : Pipeline!Has(r, d)
        /\ passes[r] <= Len(executed[r]) + 1
        /\ pass[r] = {} => passes[r] <= Len(executed[r])

\* Every step is executed or left, not both, and none is executed twice.
StepsOnce(r) ==
    /\ Ran(r) \cup left[r] = DOMAIN graphOf[r] /\ Ran(r) \cap left[r] = {}
    /\ Cardinality(Ran(r)) = Len(executed[r])

\* Each step comes after those it depends on.
DepsFirst(r) ==
    \A i \in DOMAIN executed[r] : \A d \in graphOf[r][executed[r][i]].needs :
        \E j \in 1..(i - 1) : graphOf[r][executed[r][j]].id = d

PlanDone(r) == Pipeline!Stuck(r) \/ Len(executed[r]) >= MaxPasses

PlanInv(r) ==
    /\ StepsOnce(r) /\ DepsFirst(r) /\ PassIsReady(r)
    /\ stageOf[r] # "steps" => PlanDone(r)

\* The first execution did not validate.
Tried(r) ==
    \E x \in {"weak", "bad"} :
        results[r] = <<x>> /\ status[r]["execute"] = (IF x = "bad" THEN "failed" ELSE "success")

\* What the statuses of the stages are wherever a run is.
StatusInv(r) ==
    /\ stageOf[r] \in {"idle", "plan"} => results[r] = <<>>
    /\ stageOf[r] = "idle" => \A s \in Pipeline!Stage : status[r][s] = "pending"
    /\ stageOf[r] = "plan" => \A s \in Pipeline!Stage \ {"plan"} : status[r][s] = "pending"
    /\ stageOf[r] \in Calling \cup {"debug"} =>
         status[r]["plan"] = "success" /\ status[r]["optimize"] = "pending"
    /\ stageOf[r] \in Calling =>
         \/ /\ status[r]["execute"] = "running" /\ results[r] = <<>>
            /\ \A s \in {"validate", "debug", "retry"} : status[r][s] = "pending"
         \/ /\ status[r]["validate"] = "failed" /\ status[r]["debug"] = "success"
            /\ status[r]["retry"] = "running" /\ Tried(r)
    /\ stageOf[r] = "debug" =>
         /\ status[r]["validate"] = "failed" /\ status[r]["debug"] = "running"
         /\ status[r]["retry"] = "pending" /\ Tried(r)

\* What the verdict of a run that has ended says.
Succeeded(r) == \E i \in DOMAIN results[r] : results[r][i] \in {"good", "weak"}

VerdictInv(r) ==
    stageOf[r] = "over" =>
        /\ verdict[r] = "completed" => Succeeded(r)
        /\ verdict[r] = "completed_with_issues" => ~Succeeded(r) /\ status[r]["execute"] = "failed"
        /\ \A s \in Pipeline!Stage : status[r][s] # "running"
        /\ verdict[r] # "failed" => \A s \in Pipeline!Stage : status[r][s] # "pending"

PipelineIInv ==
    /\ PipelineTypes
    /\ \A r \in Run : PlanInv(r) /\ StatusInv(r) /\ VerdictInv(r)

-----------------------------------------------------------------------------

LEMMA PipelineConstants ==
    /\ \A S : Pipeline!Cardinality(S) = Cardinality(S)
    /\ \A p \in TaskGraphs : p \in Seq(TaskStep)
    /\ Pipeline!Stage = {"plan", "execute", "validate", "debug", "retry", "optimize"}
  <1>1. \A S : Pipeline!Cardinality(S) = Cardinality(S)
    BY DEF Pipeline!Cardinality, Cardinality
  <1>2. QED  BY <1>1, BuildersAssumption DEF Pipeline!PipelineAssumption, Pipeline!Stage, TaskStep

LEMMA CallingNames ==
    \A l \in {"route", "brain", "strategy", "direct", "steps"} :
        l \in Calling /\ l \in {"idle", "plan", "debug", "over"} \cup Calling
  BY DEF Calling

\* An action that is of another run, or leaves these alone.
LEMMA PlanKept ==
    ASSUME NEW r \in Run, PlanInv(r),
           stageOf'[r] = "steps" => stageOf[r] = "steps",
           stageOf[r] = "steps" => stageOf'[r] = "steps" \/ PlanDone(r),
           /\ graphOf'[r] = graphOf[r] /\ left'[r] = left[r] /\ passes'[r] = passes[r]
           /\ pass'[r] = pass[r] /\ executed'[r] = executed[r]
    PROVE  PlanInv(r)'
  <1>1. Ran(r)' = Ran(r)
    BY DEF Ran
  <1>2. \A d : Pipeline!Has(r, d)' <=> Pipeline!Has(r, d)
    BY DEF Pipeline!Has
  <1>3. StepsOnce(r)' /\ DepsFirst(r)'
    BY <1>1 DEF PlanInv, StepsOnce, DepsFirst
  <1>4. PassIsReady(r)'
    BY <1>2 DEF PlanInv, PassIsReady
  <1>5. PlanDone(r) => PlanDone(r)'
    BY DEF PlanDone, Pipeline!Stuck
  <1>6. QED  BY <1>3, <1>4, <1>5 DEF PlanInv

LEMMA RunLeftAlone ==
    ASSUME NEW r \in Run, PlanInv(r), StatusInv(r), VerdictInv(r),
           /\ stageOf'[r] = stageOf[r] /\ status'[r] = status[r]
           /\ verdict'[r] = verdict[r] /\ results'[r] = results[r]
           /\ graphOf'[r] = graphOf[r] /\ left'[r] = left[r] /\ passes'[r] = passes[r]
           /\ pass'[r] = pass[r] /\ executed'[r] = executed[r]
    PROVE  PlanInv(r)' /\ StatusInv(r)' /\ VerdictInv(r)'
  <1>1. PlanInv(r)'
    BY PlanKept
  <1>2. StatusInv(r)'
    BY DEF StatusInv, Tried
  <1>3. VerdictInv(r)'
    BY DEF VerdictInv, Succeeded
  <1>4. QED  BY <1>1, <1>2, <1>3

LEMMA PipelineInit == Pipeline!Init => PipelineIInv
  <1> SUFFICES ASSUME Pipeline!Init PROVE PipelineIInv
    OBVIOUS
  <1> USE DEF Pipeline!Init
  <1>1. <<>> \in Seq({"good", "weak", "bad", "null"}) /\ <<>> \in Seq(TaskStep) /\ <<>> \in Seq(Nat)
    OBVIOUS
  <1>2. PipelineTypes
    BY <1>1 DEF PipelineTypes
  <1>3. ASSUME NEW r \in Run PROVE PlanInv(r) /\ StatusInv(r) /\ VerdictInv(r)
    <2>1. Ran(r) = {} /\ Len(executed[r]) = 0 /\ DOMAIN executed[r] = {}
      BY DEF Ran
    <2>2. PlanInv(r)
      BY <2>1, FS_EmptySet DEF PlanInv, StepsOnce, DepsFirst, PassIsReady, PlanDone, Pipeline!Stuck
    <2>3. StatusInv(r) /\ VerdictInv(r)
      BY DEF StatusInv, VerdictInv, Calling
    <2>4. QED  BY <2>2, <2>3
  <1>4. QED  BY <1>2, <1>3 DEF PipelineIInv

\* A change of the status of one run and of where it is.
LEMMA StatusSet ==
    ASSUME PipelineTypes, NEW r \in Run,
           NEW ns \in [Pipeline!Stage -> {"pending", "running", "success", "failed", "skipped"}],
           status' = [status EXCEPT ![r] = ns],
           NEW l \in {"idle", "plan", "debug", "over"} \cup Calling,
           stageOf' = [stageOf EXCEPT ![r] = l]
    PROVE  /\ status' \in [Run -> [Pipeline!Stage -> {"pending", "running", "success", "failed", "skipped"}]]
           /\ stageOf' \in [Run -> {"idle", "plan", "debug", "over"} \cup Calling]
           /\ status'[r] = ns /\ stageOf'[r] = l
           /\ \A q \in Run : q # r => status'[q] = status[q] /\ stageOf'[q] = stageOf[q]
  BY DEF PipelineTypes

\* The stages up to process().
LEMMA RunStarts ==
    ASSUME PipelineIInv, NEW r \in Run, Pipeline!Start(r) \/ Pipeline!PlanStage(r) \/ Pipeline!Route(r)
    PROVE  PipelineIInv'
  <1> USE PipelineConstants
  <1>1. /\ PipelineTypes /\ PlanInv(r) /\ StatusInv(r) /\ VerdictInv(r)
        /\ UNCHANGED <<fix, verdict, results, graphOf, left, pass, executed, passes>>
    BY DEF PipelineIInv, Pipeline!Start, Pipeline!PlanStage, Pipeline!Route, Pipeline!planVars
  <1>2. ASSUME NEW ns \in [Pipeline!Stage -> {"pending", "running", "success", "failed", "skipped"}],
               NEW l \in {"plan"} \cup Calling,
               status' = [status EXCEPT ![r] = ns], stageOf' = [stageOf EXCEPT ![r] = l],
               l # "steps", stageOf[r] # "steps",
               StatusInv(r)'
        PROVE  PipelineIInv'
    <2>1. /\ status' \in [Run -> [Pipeline!Stage -> {"pending", "running", "success", "failed", "skipped"}]]
          /\ stageOf' \in [Run -> {"idle", "plan", "debug", "over"} \cup Calling]
          /\ stageOf'[r] = l
          /\ \A q \in Run : q # r => status'[q] = status[q] /\ stageOf'[q] = stageOf[q]
      BY <1>1, <1>2, StatusSet
    <2>2. PipelineTypes'
      BY <1>1, <2>1 DEF PipelineTypes
    <2>3. PlanInv(r)' /\ VerdictInv(r)'
      BY <1>1, <1>2, <2>1, PlanKept DEF VerdictInv, Calling
    <2>4. \A q \in Run : q # r => PlanInv(q)' /\ StatusInv(q)' /\ VerdictInv(q)'
      BY <1>1, <2>1, RunLeftAlone DEF PipelineIInv
    <2>5. QED  BY <1>2, <2>2, <2>3, <2>4 DEF PipelineIInv
  <1>3. CASE Pipeline!Start(r)
    <2>1. PICK ns : /\ ns = [status[r] EXCEPT !["plan"] = "running"]
                    /\ status' = [status EXCEPT ![r] = ns]
      BY <1>3 DEF Pipeline!Start
    <2>2. stageOf[r] = "idle" /\ stageOf' = [stageOf EXCEPT ![r] = "plan"]
      BY <1>3 DEF Pipeline!Start, Pipeline!Goto
    <2>3. /\ ns \in [Pipeline!Stage -> {"pending", "running", "success", "failed", "skipped"}]
          /\ \A s \in Pipeline!Stage : s # "plan" => ns[s] = status[r][s]
      BY <1>1, <2>1 DEF PipelineTypes
    <2>4. StatusInv(r)'
      BY <1>1, <2>1, <2>2, <2>3 DEF StatusInv, PipelineTypes, Calling
    <2>5. QED  BY <1>2, <2>1, <2>2, <2>3, <2>4
  <1>4. CASE Pipeline!PlanStage(r)
    <2>1. PICK ns : /\ ns = [status[r] EXCEPT !["plan"] = "success", !["execute"] = "running"]
                    /\ status' = [status EXCEPT ![r] = ns]
      BY <1>1, <1>4 DEF Pipeline!PlanStage, PipelineTypes
    <2>2. stageOf[r] = "plan" /\ stageOf' = [stageOf EXCEPT ![r] = "route"]
      BY <1>4 DEF Pipeline!PlanStage, Pipeline!Goto
    <2>3. /\ ns \in [Pipeline!Stage -> {"pending", "running", "success", "failed", "skipped"}]
          /\ ns["plan"] = "success" /\ ns["execute"] = "running"
          /\ \A s \in Pipeline!Stage : s \notin {"plan", "execute"} => ns[s] = status[r][s]
      BY <1>1, <2>1 DEF PipelineTypes
    <2>4. StatusInv(r)'
      BY <1>1, <2>1, <2>2, <2>3 DEF StatusInv, PipelineTypes, Calling
    <2>5. QED  BY <1>2, <2>1, <2>2, <2>3, <2>4 DEF Calling
  <1>5. CASE Pipeline!Route(r)
    <2>1. PICK l \in {"brain", "strategy", "direct"} : stageOf' = [stageOf EXCEPT ![r] = l]
      BY <1>5 DEF Pipeline!Route, Pipeline!Goto
    <2>2. stageOf[r] = "route" /\ status' = status
      BY <1>5 DEF Pipeline!Route
    <2>3. status' = [status EXCEPT ![r] = status[r]]
          /\ status[r] \in [Pipeline!Stage -> {"pending", "running", "success", "failed", "skipped"}]
      BY <1>1, <2>2 DEF PipelineTypes
    <2>4. StatusInv(r)'
      BY <1>1, <2>1, <2>2 DEF StatusInv, PipelineTypes, Calling, Tried
    <2>5. QED  BY <1>2, <2>1, <2>2, <2>3, <2>4 DEF Calling
  <1>6. QED  BY <1>3, <1>4, <1>5

\* A run ends, or goes on to the debug stage.
LEMMA RunGoesOn ==
    ASSUME PipelineIInv, NEW r \in Run,
           stageOf' \in [Run -> {"idle", "plan", "debug", "over"} \cup Calling],
           status' \in [Run -> [Pipeline!Stage -> {"pending", "running", "success", "failed", "skipped"}]],
           verdict' \in [Run -> {"pending", "completed", "completed_with_issues", "failed"}],
           results' \in [Run -> Seq({"good", "weak", "bad", "null"})],
           UNCHANGED <<fix, graphOf, left, pass, executed, passes>>,
           stageOf'[r] # "steps", PlanDone(r), StatusInv(r)', VerdictInv(r)',
           \A q \in Run : q # r => /\ stageOf'[q] = stageOf[q] /\ status'[q] = status[q]
                                   /\ verdict'[q] = verdict[q] /\ results'[q] = results[q]
    PROVE  PipelineIInv'
  <1>1. PipelineTypes'
    BY DEF PipelineIInv, PipelineTypes
  <1>2. PlanInv(r)'
    BY PlanKept DEF PipelineIInv
  <1>3. \A q \in Run : q # r => PlanInv(q)' /\ StatusInv(q)' /\ VerdictInv(q)'
    BY RunLeftAlone DEF PipelineIInv
  <1>4. QED  BY <1>1, <1>2, <1>3 DEF PipelineIInv

\* An exception ends the run.
LEMMA RunCrashes ==
    ASSUME PipelineIInv, NEW r \in Run, Pipeline!Crash(r, status[r]), PlanDone(r),
           results' \in [Run -> Seq({"good", "weak", "bad", "null"})],
           \A q \in Run : q # r => results'[q] = results[q],
           UNCHANGED <<fix, graphOf, left, pass, executed, passes>>
    PROVE  PipelineIInv'
  <1> DEFINE ns == [s \in Pipeline!Stage |-> IF status[r][s] = "running" THEN "failed" ELSE status[r][s]]
  <1>1. PipelineTypes
    BY DEF PipelineIInv
  <1>2. /\ status' = [status EXCEPT ![r] = ns] /\ stageOf' = [stageOf EXCEPT ![r] = "over"]
        /\ verdict' = [verdict EXCEPT ![r] = "failed"]
    BY DEF Pipeline!Crash, Pipeline!Goto
  <1>3. /\ ns \in [Pipeline!Stage -> {"pending", "running", "success", "failed", "skipped"}]
        /\ \A s \in Pipeline!Stage : ns[s] # "running"
    BY <1>1 DEF PipelineTypes
  <1> HIDE DEF ns
  <1>4. /\ status' \in [Run -> [Pipeline!Stage -> {"pending", "running", "success", "failed", "skipped"}]]
        /\ stageOf' \in [Run -> {"idle", "plan", "debug", "over"} \cup Calling]
        /\ status'[r] = ns /\ stageOf'[r] = "over"
        /\ \A q \in Run : q # r => status'[q] = status[q] /\ stageOf'[q] = stageOf[q]
    BY <1>1, <1>2, <1>3, StatusSet
  <1>5. /\ verdict' \in [Run -> {"pending", "completed", "completed_with_issues", "failed"}]
        /\ verdict'[r] = "failed" /\ \A q \in Run : q # r => verdict'[q] = verdict[q]
    BY <1>1, <1>2 DEF PipelineTypes
  <1>6. StatusInv(r)' /\ VerdictInv(r)'
    BY <1>3, <1>4, <1>5 DEF StatusInv, VerdictInv, Calling
  <1>7. QED  BY <1>4, <1>5, <1>6, RunGoesOn

\* The last lines of run(), with the results of all its executions.
LEMMA RunFinishes ==
    ASSUME PipelineIInv, NEW r \in Run,
           NEW ns \in [Pipeline!Stage -> {"pending", "running", "success", "failed", "skipped"}],
           NEW res \in Seq({"good", "weak", "bad", "null"}),
           Pipeline!Finish(r, ns, res), PlanDone(r),
           results' \in [Run -> Seq({"good", "weak", "bad", "null"})], results'[r] = res,
           \A q \in Run : q # r => results'[q] = results[q],
           UNCHANGED <<fix, graphOf, left, pass, executed, passes>>,
           \A s \in Pipeline!Stage : s # "optimize" => ns[s] \notin {"running", "pending"},
           (\A i \in DOMAIN res : res[i] \notin {"good", "weak"}) => ns["execute"] = "failed"
    PROVE  PipelineIInv'
  <1> USE PipelineConstants
  <1> DEFINE nst == [ns EXCEPT !["optimize"] = "success"]
  <1>1. PipelineTypes
    BY DEF PipelineIInv
  <1>2. /\ status' = [status EXCEPT ![r] = nst] /\ stageOf' = [stageOf EXCEPT ![r] = "over"]
        /\ verdict' = [verdict EXCEPT ![r] = IF Pipeline!Completes(res) THEN "completed"
                                             ELSE "completed_with_issues"]
    BY DEF Pipeline!Finish, Pipeline!Goto
  <1>3. /\ nst \in [Pipeline!Stage -> {"pending", "running", "success", "failed", "skipped"}]
        /\ \A s \in Pipeline!Stage : nst[s] \notin {"running", "pending"}
        /\ nst["execute"] = ns["execute"]
    OBVIOUS
  <1> HIDE DEF nst
  <1>4. /\ status' \in [Run -> [Pipeline!Stage -> {"pending", "running", "success", "failed", "skipped"}]]
        /\ stageOf' \in [Run -> {"idle", "plan", "debug", "over"} \cup Calling]
        /\ status'[r] = nst /\ stageOf'[r] = "over"
        /\ \A q \in Run : q # r => status'[q] = status[q] /\ stageOf'[q] = stageOf[q]
    BY <1>1, <1>2, <1>3, StatusSet
  <1>5. /\ verdict' \in [Run -> {"pending", "completed", "completed_with_issues", "failed"}]
        /\ verdict'[r] = IF Pipeline!Completes(res) THEN "completed" ELSE "completed_with_issues"
        /\ \A q \in Run : q # r => verdict'[q] = verdict[q]
    BY <1>1, <1>2 DEF PipelineTypes
  <1>6. Pipeline!Completes(res) <=> \E i \in DOMAIN res : res[i] \in {"good", "weak"}
    <2>1. \A x : Pipeline!In(x, <<"good", "weak">>) <=> x \in {"good", "weak"}
      <3>1. DOMAIN <<"good", "weak">> = {1, 2} /\ <<"good", "weak">>[1] = "good" /\ <<"good", "weak">>[2] = "weak"
        OBVIOUS
      <3>2. QED  BY <3>1 DEF Pipeline!In
    <2>2. QED  BY <2>1 DEF Pipeline!Completes
  <1>7. StatusInv(r)' /\ VerdictInv(r)'
    <2>1. Succeeded(r)' <=> Pipeline!Completes(res)
      BY <1>6 DEF Succeeded
    <2>2. ~Pipeline!Completes(res) => nst["execute"] = "failed"
      BY <1>3, <1>6
    <2>3. QED  BY <1>3, <1>4, <1>5, <2>1, <2>2 DEF StatusInv, VerdictInv, Calling
  <1>8. QED  BY <1>4, <1>5, <1>7, RunGoesOn

\* process() returns to the stage that called it.
LEMMA RunReturnedTo ==
    ASSUME PipelineIInv, NEW r \in Run, NEW x \in {"good", "weak", "bad", "null"},
           stageOf[r] \in Calling, Pipeline!Return(r, x), PlanDone(r),
           UNCHANGED <<fix, graphOf, left, pass, executed, passes>>
    PROVE  PipelineIInv'
  <1> USE PipelineConstants
  <1>1. PipelineTypes /\ StatusInv(r)
    BY DEF PipelineIInv
  <1>2. PICK res : res = Append(results[r], x)
    OBVIOUS
  <1>3. /\ res \in Seq({"good", "weak", "bad", "null"})
        /\ results' \in [Run -> Seq({"good", "weak", "bad", "null"})] /\ results'[r] = res
        /\ \A q \in Run : q # r => results'[q] = results[q]
    <2>1. results' = [results EXCEPT ![r] = res] /\ results[r] \in Seq({"good", "weak", "bad", "null"})
      BY <1>1, <1>2 DEF Pipeline!Return, PipelineTypes
    <2>2. res \in Seq({"good", "weak", "bad", "null"})
      BY <1>2, <2>1
    <2>3. QED  BY <1>1, <2>1, <2>2 DEF PipelineTypes
  <1>4. CASE x = "null"
    BY <1>3, <1>4, RunCrashes DEF Pipeline!Return
  <1>5. CASE x # "null" /\ status[r]["execute"] = "running"
    <2>1. /\ results[r] = <<>> /\ res = <<x>>
          /\ status[r]["plan"] = "success" /\ status[r]["optimize"] = "pending"
          /\ \A s \in {"validate", "debug", "retry"} : status[r][s] = "pending"
      <3>1. ~Tried(r)
        BY <1>5 DEF Tried
      <3>2. results[r] = <<>>
        BY <1>1, <1>5, <3>1 DEF StatusInv
      <3>3. res = <<x>>
        BY <1>2, <3>2
      <3>4. QED  BY <1>1, <1>5, <3>1, <3>2, <3>3 DEF StatusInv
    <2>2. PICK ns : ns = [status[r] EXCEPT !["execute"] = IF x = "bad" THEN "failed" ELSE "success",
                                           !["validate"] = IF x = "good" THEN "success" ELSE "failed"]
      OBVIOUS
    <2>3. /\ ns \in [Pipeline!Stage -> {"pending", "running", "success", "failed", "skipped"}]
          /\ ns["execute"] = (IF x = "bad" THEN "failed" ELSE "success")
          /\ ns["validate"] = (IF x = "good" THEN "success" ELSE "failed")
          /\ \A s \in Pipeline!Stage : s \notin {"execute", "validate"} => ns[s] = status[r][s]
      BY <1>1, <2>2 DEF PipelineTypes
    <2>4. Pipeline!ExecuteReturns(r, x)
      BY <1>5 DEF Pipeline!Return
    <2>5. CASE x # "good" /\ fix[r]
      <3>1. PICK dst : dst = [ns EXCEPT !["debug"] = "running"]
        OBVIOUS
      <3>2. /\ status' = [status EXCEPT ![r] = dst] /\ stageOf' = [stageOf EXCEPT ![r] = "debug"]
            /\ verdict' = verdict
        BY <2>2, <2>4, <2>5, <3>1 DEF Pipeline!ExecuteReturns, Pipeline!Goto
      <3>3. /\ dst \in [Pipeline!Stage -> {"pending", "running", "success", "failed", "skipped"}]
            /\ dst["debug"] = "running"
            /\ \A s \in Pipeline!Stage : s # "debug" => dst[s] = ns[s]
        BY <2>3, <3>1
      <3>4. /\ status' \in [Run -> [Pipeline!Stage -> {"pending", "running", "success", "failed", "skipped"}]]
            /\ stageOf' \in [Run -> {"idle", "plan", "debug", "over"} \cup Calling]
            /\ status'[r] = dst /\ stageOf'[r] = "debug"
            /\ \A q \in Run : q # r => status'[q] = status[q] /\ stageOf'[q] = stageOf[q]
        BY <1>1, <3>2, <3>3, StatusSet
      <3>5. verdict' \in [Run -> {"pending", "completed", "completed_with_issues", "failed"}]
        BY <1>1, <3>2 DEF PipelineTypes
      <3>6. Tried(r)'
        <4>1. x \in {"weak", "bad"} /\ results'[r] = <<x>>
          BY <1>3, <1>5, <2>1, <2>5
        <4>2. status'[r]["execute"] = (IF x = "bad" THEN "failed" ELSE "success")
          BY <2>3, <3>3, <3>4
        <4>3. QED  BY <4>1, <4>2 DEF Tried
      <3>7. StatusInv(r)' /\ VerdictInv(r)'
        BY <2>1, <2>3, <2>5, <3>3, <3>4, <3>6 DEF StatusInv, VerdictInv, Calling
      <3>8. QED  BY <1>3, <3>2, <3>4, <3>5, <3>7, RunGoesOn
    <2>6. CASE ~(x # "good" /\ fix[r])
      <3>1. PICK nst : nst = [ns EXCEPT !["debug"] = "skipped", !["retry"] = "skipped"]
        OBVIOUS
      <3>2. Pipeline!Finish(r, nst, res)
        BY <1>2, <2>2, <2>4, <2>6, <3>1 DEF Pipeline!ExecuteReturns
      <3>3. /\ nst \in [Pipeline!Stage -> {"pending", "running", "success", "failed", "skipped"}]
            /\ nst["debug"] = "skipped" /\ nst["retry"] = "skipped"
            /\ \A s \in Pipeline!Stage : s \notin {"debug", "retry"} => nst[s] = ns[s]
        BY <2>3, <3>1
      <3>4. \A s \in Pipeline!Stage : s # "optimize" => nst[s] \notin {"running", "pending"}
        BY <2>1, <2>3, <3>3
      <3>5. (\A i \in DOMAIN res : res[i] \notin {"good", "weak"}) => nst["execute"] = "failed"
        <4>1. 1 \in DOMAIN res /\ res[1] = x
          BY <2>1
        <4>2. QED  BY <1>5, <2>3, <3>3, <4>1
      <3>6. QED  BY <1>3, <3>2, <3>3, <3>4, <3>5, RunFinishes
    <2>7. QED  BY <2>5, <2>6
  <1>6. CASE x # "null" /\ status[r]["execute"] # "running"
    <2>1. /\ status[r]["plan"] = "success" /\ status[r]["optimize"] = "pending"
          /\ status[r]["validate"] = "failed" /\ status[r]["debug"] = "success"
          /\ Tried(r)
      BY <1>1, <1>6 DEF StatusInv
    <2>2. PICK y \in {"weak", "bad"} :
            results[r] = <<y>> /\ status[r]["execute"] = (IF y = "bad" THEN "failed" ELSE "success")
      BY <2>1 DEF Tried
    <2>3. PICK ns : ns = [status[r] EXCEPT !["retry"] = IF x = "bad" THEN "failed" ELSE "success"]
      OBVIOUS
    <2>4. /\ ns \in [Pipeline!Stage -> {"pending", "running", "success", "failed", "skipped"}]
          /\ ns["retry"] = (IF x = "bad" THEN "failed" ELSE "success")
          /\ \A s \in Pipeline!Stage : s # "retry" => ns[s] = status[r][s]
      BY <1>1, <2>3 DEF PipelineTypes
    <2>5. Pipeline!Finish(r, ns, res)
      BY <1>2, <1>6, <2>3 DEF Pipeline!Return, Pipeline!RetryReturns
    <2>6. \A s \in Pipeline!Stage : s # "optimize" => ns[s] \notin {"running", "pending"}
      BY <2>1, <2>2, <2>4
    <2>7. (\A i \in DOMAIN res : res[i] \notin {"good", "weak"}) => ns["execute"] = "failed"
      <3>1. 1 \in DOMAIN res /\ res[1] = y
        BY <1>2, <2>2
      <3>2. QED  BY <2>2, <2>4, <3>1
    <2>8. QED  BY <1>3, <2>4, <2>5, <2>6, <2>7, RunFinishes
  <1>7. QED  BY <1>4, <1>5, <1>6

LEMMA RunDebugs ==
    ASSUME PipelineIInv, NEW r \in Run, Pipeline!Debug(r)
    PROVE  PipelineIInv'
  <1> USE PipelineConstants
  <1>1. /\ PipelineTypes /\ StatusInv(r) /\ stageOf[r] = "debug" /\ PlanDone(r)
        /\ UNCHANGED <<fix, results, graphOf, left, pass, executed, passes>>
    BY DEF PipelineIInv, PlanInv, Pipeline!Debug, Pipeline!planVars
  <1>2. results' \in [Run -> Seq({"good", "weak", "bad", "null"})] /\ \A q \in Run : results'[q] = results[q]
    BY <1>1 DEF PipelineTypes
  <1>3. CASE Pipeline!Crash(r, status[r])
    BY <1>1, <1>2, <1>3, RunCrashes
  <1>4. CASE ~Pipeline!Crash(r, status[r])
    <2>1. PICK ns : /\ ns = [status[r] EXCEPT !["debug"] = "success", !["retry"] = "running"]
                    /\ status' = [status EXCEPT ![r] = ns]
      BY <1>1, <1>4 DEF Pipeline!Debug, PipelineTypes
    <2>2. stageOf' = [stageOf EXCEPT ![r] = "route"] /\ verdict' = verdict
      BY <1>4 DEF Pipeline!Debug, Pipeline!Goto
    <2>3. /\ ns \in [Pipeline!Stage -> {"pending", "running", "success", "failed", "skipped"}]
          /\ ns["debug"] = "success" /\ ns["retry"] = "running"
          /\ \A s \in Pipeline!Stage : s \notin {"debug", "retry"} => ns[s] = status[r][s]
      BY <1>1, <2>1 DEF PipelineTypes
    <2>4. /\ status' \in [Run -> [Pipeline!Stage -> {"pending", "running", "success", "failed", "skipped"}]]
          /\ stageOf' \in [Run -> {"idle", "plan", "debug", "over"} \cup Calling]
          /\ status'[r] = ns /\ stageOf'[r] = "route"
          /\ \A q \in Run : q # r => status'[q] = status[q] /\ stageOf'[q] = stageOf[q]
      BY <1>1, <2>1, <2>2, <2>3, StatusSet, CallingNames
    <2>5. verdict' \in [Run -> {"pending", "completed", "completed_with_issues", "failed"}]
      BY <1>1, <2>2 DEF PipelineTypes
    <2>6. Tried(r)'
      BY <1>1, <2>3, <2>4 DEF StatusInv, Tried
    <2>7. StatusInv(r)' /\ VerdictInv(r)'
      BY <1>1, <2>3, <2>4, <2>6 DEF StatusInv, VerdictInv, Calling
    <2>8. QED  BY <1>1, <1>2, <2>2, <2>4, <2>5, <2>7, RunGoesOn
  <1>5. QED  BY <1>3, <1>4

\* A plan is made, or process() turns to the LLM.
LEMMA RunPlans ==
    ASSUME PipelineIInv, NEW r \in Run,
           NEW l \in {"steps", "direct"}, stageOf' = [stageOf EXCEPT ![r] = l], stageOf[r] \in Calling,
           UNCHANGED <<fix, status, verdict, results>>,
           PipelineTypes', PlanInv(r)',
           \A q \in Run : q # r => /\ graphOf'[q] = graphOf[q] /\ left'[q] = left[q]
                                   /\ passes'[q] = passes[q]
                                   /\ pass'[q] = pass[q] /\ executed'[q] = executed[q]
    PROVE  PipelineIInv'
  <1>1. PipelineTypes /\ StatusInv(r)
    BY DEF PipelineIInv
  <1>2. stageOf'[r] = l /\ l \in Calling /\ \A q \in Run : q # r => stageOf'[q] = stageOf[q]
    BY <1>1, CallingNames DEF PipelineTypes
  <1>3. StatusInv(r)' /\ VerdictInv(r)'
    BY <1>1, <1>2 DEF StatusInv, VerdictInv, Calling, Tried
  <1>4. \A q \in Run : q # r => PlanInv(q)' /\ StatusInv(q)' /\ VerdictInv(q)'
    BY <1>2, RunLeftAlone DEF PipelineIInv
  <1>5. QED  BY <1>3, <1>4 DEF PipelineIInv

LEMMA RunStrategy ==
    ASSUME PipelineIInv, NEW r \in Run, Pipeline!Strategy(r)
    PROVE  PipelineIInv'
  <1>1. /\ PipelineTypes /\ PlanInv(r) /\ stageOf[r] \in Calling /\ stageOf[r] # "steps"
        /\ UNCHANGED <<fix, status, verdict, results>>
    BY CallingNames DEF PipelineIInv, Pipeline!Strategy
  <1>2. ASSUME NEW p \in TaskGraphs,
               graphOf' = [graphOf EXCEPT ![r] = p], left' = [left EXCEPT ![r] = DOMAIN p],
               pass' = [pass EXCEPT ![r] = {}], executed' = [executed EXCEPT ![r] = <<>>],
               passes' = [passes EXCEPT ![r] = 0], stageOf' = [stageOf EXCEPT ![r] = "steps"]
        PROVE  PipelineIInv'
    <2>1. p \in Seq(TaskStep) /\ DOMAIN p \in SUBSET Nat /\ <<>> \in Seq(Nat)
      BY PipelineConstants
    <2>2. stageOf' \in [Run -> {"idle", "plan", "debug", "over"} \cup Calling]
      BY <1>1, <1>2, CallingNames DEF PipelineTypes
    <2>3. PipelineTypes'
      BY <1>1, <1>2, <2>1, <2>2 DEF PipelineTypes
    <2>4. /\ graphOf'[r] = p /\ left'[r] = DOMAIN p /\ pass'[r] = {} /\ executed'[r] = <<>>
          /\ passes'[r] = 0 /\ stageOf'[r] = "steps"
      BY <1>1, <1>2 DEF PipelineTypes
    <2>5. \A q \in Run : q # r => /\ graphOf'[q] = graphOf[q] /\ left'[q] = left[q]
                                  /\ passes'[q] = passes[q]
                                  /\ pass'[q] = pass[q] /\ executed'[q] = executed[q]
      BY <1>1, <1>2 DEF PipelineTypes
    <2>6. PlanInv(r)'
      <3>1. Ran(r)' = {} /\ Len(executed'[r]) = 0 /\ DOMAIN executed'[r] = {}
        BY <2>4 DEF Ran
      <3>2. QED  BY <2>4, <3>1, FS_EmptySet DEF PlanInv, StepsOnce, DepsFirst, PassIsReady
    <2>7. QED  BY <1>1, <1>2, <2>3, <2>5, <2>6, RunPlans
  <1>3. CASE stageOf' = [stageOf EXCEPT ![r] = "direct"] /\ UNCHANGED <<graphOf, left, pass, executed, passes>>
    <2>1. stageOf' \in [Run -> {"idle", "plan", "debug", "over"} \cup Calling] /\ stageOf'[r] = "direct"
      BY <1>1, <1>3, CallingNames DEF PipelineTypes
    <2>2. PipelineTypes'
      BY <1>1, <1>3, <2>1 DEF PipelineTypes
    <2>3. PlanInv(r)'
      BY <1>1, <1>3, <2>1, PlanKept
    <2>4. QED  BY <1>1, <1>3, <2>2, <2>3, RunPlans
  <1>4. QED  BY <1>2, <1>3 DEF Pipeline!Strategy, Pipeline!Goto, Pipeline!planVars

\* A pass takes what is ready; if nothing is, the plan is abandoned.
LEMMA RunTakesPass ==
    ASSUME PipelineIInv, NEW r \in Run, Pipeline!Pass(r)
    PROVE  PipelineIInv'
  <1> DEFINE ready == Pipeline!Ready(r)
  <1>1. /\ PipelineTypes /\ PlanInv(r) /\ stageOf[r] = "steps" /\ stageOf[r] \in Calling
        /\ pass[r] = {} /\ UNCHANGED <<fix, status, verdict, results, graphOf, left, executed>>
        /\ pass' = [pass EXCEPT ![r] = ready] /\ passes' = [passes EXCEPT ![r] = passes[r] + 1]
    BY CallingNames DEF PipelineIInv, Pipeline!Pass
  <1>2. PICK l \in {"steps", "direct"} :
            stageOf' = [stageOf EXCEPT ![r] = l] /\ (l = "direct" <=> ready = {})
    BY <1>1 DEF Pipeline!Pass, Pipeline!Goto, PipelineTypes
  <1>3. /\ ready \in SUBSET left[r]
        /\ \A s \in left[r] : s \in ready <=> \A d \in graphOf[r][s].needs : Pipeline!Has(r, d)
    BY DEF Pipeline!Ready
  <1> HIDE DEF ready
  <1>4. /\ pass'[r] = ready /\ passes'[r] = passes[r] + 1 /\ passes[r] \in Nat
        /\ Len(executed[r]) \in Nat /\ stageOf'[r] = l
        /\ \A q \in Run : q # r => pass'[q] = pass[q] /\ passes'[q] = passes[q]
    BY <1>1, <1>2 DEF PipelineTypes
  <1>5. PipelineTypes'
    <2>1. stageOf' \in [Run -> {"idle", "plan", "debug", "over"} \cup Calling]
      BY <1>1, <1>2, CallingNames DEF PipelineTypes
    <2>2. pass' \in [Run -> SUBSET Nat] /\ passes' \in [Run -> Nat]
      BY <1>1, <1>3 DEF PipelineTypes
    <2>3. QED  BY <1>1, <2>1, <2>2 DEF PipelineTypes
  <1>6. PlanInv(r)'
    <2>1. Ran(r)' = Ran(r)
      BY <1>1 DEF Ran
    <2>2. \A d : Pipeline!Has(r, d)' <=> Pipeline!Has(r, d)
      BY <1>1 DEF Pipeline!Has
    <2>3. StepsOnce(r)' /\ DepsFirst(r)'
      BY <1>1, <2>1 DEF PlanInv, StepsOnce, DepsFirst
    <2>4. PassIsReady(r)'
      <3>1. passes[r] <= Len(executed[r])
        BY <1>1 DEF PlanInv, PassIsReady
      <3>2. passes'[r] <= Len(executed[r]) + 1
        BY <1>4, <3>1
      <3>3. stageOf'[r] = "steps" => pass'[r] # {}
        BY <1>2, <1>4
      <3>4. QED  BY <1>1, <1>3, <1>4, <2>2, <3>2, <3>3 DEF PassIsReady
    <2>5. ready = {} => PlanDone(r)'
      <3> SUFFICES ASSUME ready = {}, NEW s \in left[r]
                   PROVE  \E d \in graphOf[r][s].needs :
                              \A t \in DOMAIN graphOf[r] : graphOf[r][t].id = d => t \in left[r]
        BY <1>1 DEF PlanDone, Pipeline!Stuck
      <3>1. PICK d \in graphOf[r][s].needs : ~Pipeline!Has(r, d)
        BY <1>3
      <3>2. \A t \in Ran(r) : graphOf[r][t].id # d
        BY <3>1 DEF Pipeline!Has, Ran
      <3>3. Ran(r) \cup left[r] = DOMAIN graphOf[r]
        BY <1>1 DEF PlanInv, StepsOnce
      <3>4. QED  BY <3>2, <3>3
    <2>6. QED  BY <1>2, <1>4, <2>3, <2>4, <2>5 DEF PlanInv
  <1>7. QED  BY <1>1, <1>2, <1>4, <1>5, <1>6, RunPlans

LEMMA RunsStep ==
    ASSUME PipelineIInv, NEW r \in Run, Pipeline!RunStep(r)
    PROVE  PipelineIInv'
  <1>1. /\ PipelineTypes /\ PlanInv(r) /\ stageOf[r] = "steps" /\ pass[r] # {}
        /\ UNCHANGED <<stageOf, fix, status, verdict, results, graphOf, passes>>
    BY DEF PipelineIInv, Pipeline!RunStep
  <1>2. PICK s \in pass[r] : /\ pass' = [pass EXCEPT ![r] = pass[r] \ {s}]
                             /\ left' = [left EXCEPT ![r] = left[r] \ {s}]
                             /\ executed' = [executed EXCEPT ![r] = Append(executed[r], s)]
    <2>1. pass[r] \in SUBSET Nat
      BY <1>1 DEF PipelineTypes
    <2>2. (CHOOSE s \in pass[r] : \A t \in pass[r] : s <= t) \in pass[r]
      BY <1>1, <2>1, LeastExists
    <2>3. QED  BY <2>2 DEF Pipeline!RunStep
  <1>3. /\ s \in left[r] /\ s \in DOMAIN graphOf[r] /\ s \notin Ran(r) /\ s \in Nat
        /\ \A d \in graphOf[r][s].needs : Pipeline!Has(r, d)
    BY <1>1 DEF PlanInv, StepsOnce, PassIsReady, PipelineTypes
  <1>4. executed[r] \in Seq(Nat) /\ graphOf[r] \in Seq(TaskStep)
    BY <1>1 DEF PipelineTypes
  <1>5. PICK e : e = Append(executed[r], s)
    OBVIOUS
  <1>6. /\ e \in Seq(Nat) /\ Len(e) = Len(executed[r]) + 1 /\ e[Len(e)] = s
        /\ DOMAIN e = DOMAIN executed[r] \cup {Len(e)}
        /\ \A i \in DOMAIN executed[r] : e[i] = executed[r][i]
        /\ Len(executed[r]) \in Nat /\ DOMAIN executed[r] = 1..Len(executed[r])
    BY <1>3, <1>4, <1>5
  <1>7. /\ executed'[r] = e /\ left'[r] = left[r] \ {s} /\ pass'[r] = pass[r] \ {s}
        /\ \A q \in Run : q # r => left'[q] = left[q] /\ pass'[q] = pass[q] /\ executed'[q] = executed[q]
    BY <1>1, <1>2, <1>5 DEF PipelineTypes
  <1>8. PipelineTypes'
    <2>1. executed' \in [Run -> Seq(Nat)]
      BY <1>1, <1>2, <1>5, <1>6 DEF PipelineTypes
    <2>2. left' \in [Run -> SUBSET Nat] /\ pass' \in [Run -> SUBSET Nat]
      BY <1>1, <1>2 DEF PipelineTypes
    <2>3. QED  BY <1>1, <2>1, <2>2 DEF PipelineTypes
  <1>9. Ran(r)' = Ran(r) \cup {s}
    BY <1>6, <1>7 DEF Ran
  <1>10. \A d : Pipeline!Has(r, d) => Pipeline!Has(r, d)'
    BY <1>1, <1>6, <1>7 DEF Pipeline!Has
  <1>11. StepsOnce(r)'
    <2>1. Ran(r)' \cup left'[r] = DOMAIN graphOf'[r] /\ Ran(r)' \cap left'[r] = {}
      BY <1>1, <1>3, <1>7, <1>9 DEF PlanInv, StepsOnce
    <2>2. Cardinality(Ran(r)') = Len(executed'[r])
      <3>1. IsFiniteSet(Ran(r))
        <4>1. Ran(r) \subseteq 1..Len(graphOf[r]) /\ Len(graphOf[r]) \in Nat
          BY <1>1, <1>4 DEF PlanInv, StepsOnce
        <4>2. IsFiniteSet(1..Len(graphOf[r]))
          BY <4>1, FS_Interval
        <4>3. QED  BY <4>1, <4>2, FS_Subset
      <3>2. Cardinality(Ran(r) \cup {s}) = Cardinality(Ran(r)) + 1
        BY <1>3, <3>1, FS_AddElement
      <3>3. QED  BY <1>1, <1>6, <1>7, <1>9, <3>2 DEF PlanInv, StepsOnce
    <2>3. QED  BY <2>1, <2>2 DEF StepsOnce
  <1>12. DepsFirst(r)'
    <2>1. DepsFirst(r)
      BY <1>1 DEF PlanInv
    <2>2. ASSUME NEW i \in DOMAIN e, NEW d \in graphOf[r][e[i]].needs
          PROVE  \E j \in 1..(i - 1) : graphOf[r][e[j]].id = d
      <3>1. CASE i \in DOMAIN executed[r]
        <4>1. PICK j \in 1..(i - 1) : graphOf[r][executed[r][j]].id = d
          BY <1>6, <2>1, <2>2, <3>1 DEF DepsFirst
        <4>2. j \in DOMAIN executed[r]
          BY <1>6, <3>1
        <4>3. QED  BY <1>6, <4>1, <4>2
      <3>2. CASE i = Len(e)
        <4>1. PICK j \in DOMAIN executed[r] : graphOf[r][executed[r][j]].id = d
          BY <1>3, <1>6, <2>2, <3>2 DEF Pipeline!Has
        <4>2. j \in 1..(i - 1)
          BY <1>6, <3>2
        <4>3. QED  BY <1>6, <4>1, <4>2
      <3>3. QED  BY <1>6, <2>2, <3>1, <3>2
    <2>3. QED  BY <1>1, <1>7, <2>2 DEF DepsFirst
  <1>16. PassIsReady(r)'
    <2>1. /\ pass[r] \subseteq left[r] /\ passes[r] <= Len(executed[r]) + 1
          /\ \A t \in pass[r] : \A d \in graphOf[r][t].needs : Pipeline!Has(r, d)
      BY <1>1 DEF PlanInv, PassIsReady
    <2>2. \A t \in pass'[r] : \A d \in graphOf'[r][t].needs : Pipeline!Has(r, d)'
      BY <1>1, <1>7, <1>10, <2>1
    <2>3. pass'[r] \subseteq left'[r]
      BY <1>7, <2>1
    <2>4. passes'[r] = passes[r] /\ passes[r] \in Nat /\ Len(executed'[r]) = Len(executed[r]) + 1
      BY <1>1, <1>6, <1>7 DEF PipelineTypes
    <2>5. passes'[r] <= Len(executed'[r]) /\ passes'[r] <= Len(executed'[r]) + 1
      BY <1>6, <2>1, <2>4
    <2>6. QED  BY <2>2, <2>3, <2>5 DEF PassIsReady
  <1>13. StatusInv(r)' /\ VerdictInv(r)'
    BY <1>1 DEF PipelineIInv, StatusInv, VerdictInv, Succeeded, Tried
  <1>14. \A q \in Run : q # r => PlanInv(q)' /\ StatusInv(q)' /\ VerdictInv(q)'
    BY <1>1, <1>7, RunLeftAlone DEF PipelineIInv
  <1>15. QED  BY <1>1, <1>8, <1>11, <1>12, <1>13, <1>14, <1>16 DEF PipelineIInv, PlanInv

LEMMA PipelineStep == PipelineIInv /\ [Pipeline!Next]_Pipeline!vars => PipelineIInv'
  <1> SUFFICES ASSUME PipelineIInv, Pipeline!Next \/ UNCHANGED Pipeline!vars PROVE PipelineIInv'
    OBVIOUS
  <1>1. ASSUME NEW r \in Run, Pipeline!Start(r) \/ Pipeline!PlanStage(r) \/ Pipeline!Route(r)
        PROVE  PipelineIInv'
    BY <1>1, RunStarts
  <1>2. ASSUME NEW r \in Run, Pipeline!Debug(r) PROVE PipelineIInv'
    BY <1>2, RunDebugs
  <1>3. ASSUME NEW r \in Run, Pipeline!Answers(r) \/ Pipeline!PlanReturns(r) PROVE PipelineIInv'
    <2>1. stageOf[r] \in Calling /\ UNCHANGED <<fix, graphOf, left, pass, executed, passes>>
      BY <1>3, CallingNames DEF Pipeline!Answers, Pipeline!PlanReturns, Pipeline!planVars
    <2>2. PICK x \in {"good", "weak", "bad", "null"} : Pipeline!Return(r, x)
      BY <1>3 DEF Pipeline!Answers, Pipeline!PlanReturns
    <2>3. PlanDone(r)
      <3>1. CASE Pipeline!Answers(r)
        BY <3>1 DEF Pipeline!Answers, PipelineIInv, PlanInv
      <3>2. CASE Pipeline!PlanReturns(r)
        <4>1. stageOf[r] = "steps" /\ pass[r] = {} /\ (left[r] = {} \/ passes[r] = MaxPasses)
          BY <3>2 DEF Pipeline!PlanReturns
        <4>2. passes[r] <= Len(executed[r])
          BY <4>1 DEF PipelineIInv, PlanInv, PassIsReady
        <4>3. QED  BY <4>1, <4>2 DEF PlanDone, Pipeline!Stuck
      <3>3. QED  BY <1>3, <3>1, <3>2
    <2>4. QED  BY <2>1, <2>2, <2>3, RunReturnedTo
  <1>4. ASSUME NEW r \in Run, Pipeline!Strategy(r) PROVE PipelineIInv'
    BY <1>4, RunStrategy
  <1>5. ASSUME NEW r \in Run, Pipeline!Pass(r) PROVE PipelineIInv'
    BY <1>5, RunTakesPass
  <1>6. ASSUME NEW r \in Run, Pipeline!RunStep(r) PROVE PipelineIInv'
    BY <1>6, RunsStep
  <1>7. CASE UNCHANGED Pipeline!vars
    <2>1. UNCHANGED <<stageOf, fix, status, verdict, results, graphOf, left, pass, executed, passes>>
      BY <1>7 DEF Pipeline!vars
    <2>2. PipelineTypes'
      BY <2>1 DEF PipelineIInv, PipelineTypes
    <2>3. QED  BY <2>1, <2>2, RunLeftAlone DEF PipelineIInv
  <1>8. QED  BY <1>1, <1>2, <1>3, <1>4, <1>5, <1>6, <1>7 DEF Pipeline!Next, Pipeline!Advance

LEMMA PipelineInv == Pipeline!Spec => []PipelineIInv
  BY PipelineInit, PipelineStep, PTL DEF Pipeline!Spec

\* Whatever task graph an LLM made up, no step of it is lost, runs twice or runs
\* before one of each id it depends on; and a plan is left only when all steps
\* ran, or one in each pass, or those left wait for each other or for none.
THEOREM PipelinePlanInOrder == Pipeline!Spec => []PlanInOrder
  <1>1. PipelineIInv => PlanInOrder
    <2> SUFFICES ASSUME PipelineIInv, NEW r \in Run
                 PROVE  /\ DepsFirst(r) /\ Cardinality(Ran(r)) = Len(executed[r])
                        /\ Len(executed[r]) + Cardinality(left[r]) = Len(graphOf[r])
                        /\ stageOf[r] # "steps" => PlanDone(r)
      BY PipelineConstants DEF PlanInOrder, Pipeline!PlanInOrder, Ran, DepsFirst, PlanDone
    <2>1. /\ StepsOnce(r) /\ DepsFirst(r) /\ (stageOf[r] # "steps" => PlanDone(r))
          /\ graphOf[r] \in Seq(TaskStep)
      BY DEF PipelineIInv, PlanInv, PipelineTypes
    <2>2. Len(executed[r]) + Cardinality(left[r]) = Len(graphOf[r])
      <3>1. /\ Ran(r) \cup left[r] = 1..Len(graphOf[r]) /\ Ran(r) \cap left[r] = {}
            /\ Len(graphOf[r]) \in Nat
        BY <2>1 DEF StepsOnce
      <3>2. IsFiniteSet(1..Len(graphOf[r])) /\ Cardinality(1..Len(graphOf[r])) = Len(graphOf[r])
        BY <3>1, FS_Interval
      <3>3. IsFiniteSet(Ran(r)) /\ IsFiniteSet(left[r])
        BY <3>1, <3>2, FS_Subset
      <3>4. /\ Cardinality(Ran(r) \cup left[r])
                 = Cardinality(Ran(r)) + Cardinality(left[r]) - Cardinality(Ran(r) \cap left[r])
            /\ Cardinality(Ran(r) \cap left[r]) = 0
            /\ Cardinality(Ran(r)) \in Nat /\ Cardinality(left[r]) \in Nat
        BY <3>1, <3>3, FS_Union, FS_EmptySet, FS_CardinalityType
      <3>5. Cardinality(Ran(r)) = Len(executed[r])
        BY <2>1 DEF StepsOnce
      <3>6. Cardinality(Ran(r) \cup left[r]) = Len(graphOf[r])
        BY <3>1, <3>2
      <3>7. Cardinality(Ran(r)) + Cardinality(left[r]) = Len(graphOf[r])
        BY <3>4, <3>6
      <3>8. QED  BY <3>5, <3>7
    <2>3. QED  BY <2>1, <2>2 DEF StepsOnce
  <1>2. QED  BY <1>1, PipelineInv, PTL

\* A run that has ended is completed only when one of its executions succeeded,
\* has issues only when none did, and no stage is left running.
THEOREM PipelineVerdictTrue == Pipeline!Spec => []VerdictIsTrue
  <1>1. PipelineIInv => VerdictIsTrue
    BY DEF PipelineIInv, VerdictInv, Succeeded, VerdictIsTrue, Pipeline!VerdictIsTrue
  <1>2. QED  BY <1>1, PipelineInv, PTL

-----------------------------------------------------------------------------
(* Kahn's algorithm *)

Graph == [kind : Seq(STRING), edges : Seq(Nat \X Nat \X {"none", "True", "False"})]

\* The rows of edges into n from the nodes of S, up to row i
Into(g, n, S, i) == {j \in 1..i : Workflows!Target(g, j) = n /\ Workflows!Source(g, j) \in S}

\* out has no node twice, and none before all nodes with an edge to it.
InTurn(g, out) ==
    /\ out \in Seq(Workflows!Nodes(g))
    /\ IsInjective(out)
    /\ \A i \in DOMAIN out, k \in Workflows!Rows(g) :
         Workflows!Target(g, k) = out[i] => \E j \in 1..(i - 1) : out[j] = Workflows!Source(g, k)

\* The state s of the loop: degrees count the edges from what is not yet out,
\* and what has none of them is queued or out.
Sorting(g, s) ==
    /\ InTurn(g, s.out)
    /\ s.queue \in Seq(Workflows!Nodes(g))
    /\ IsInjective(s.queue)
    /\ Range(s.queue) \cap Range(s.out) = {}
    /\ s.deg \in [Workflows!Nodes(g) -> Nat]
    /\ \A n \in Workflows!Nodes(g) :
         /\ s.deg[n] = Workflows!Degree(g, n, Workflows!Nodes(g) \ Range(s.out), Len(g.edges))
         /\ s.deg[n] = 0 <=> n \in Range(s.queue) \cup Range(s.out)

LEMMA GraphFacts ==
    ASSUME NEW g \in Graph
    PROVE  /\ Len(g.kind) \in Nat /\ Workflows!Nodes(g) = 1..Len(g.kind)
           /\ Len(g.edges) \in Nat /\ Workflows!Rows(g) = 1..Len(g.edges)
  <1>1. g.kind \in Seq(STRING) /\ g.edges \in Seq(Nat \X Nat \X {"none", "True", "False"})
    BY DEF Graph
  <1>2. QED  BY <1>1, LenProperties DEF Workflows!Nodes, Workflows!Rows

LEMMA OrderedSet ==
    ASSUME NEW S \in SUBSET Nat, IsFiniteSet(S)
    PROVE  Increasing(Workflows!InOrder(S), S)
  <1>1. Workflows!Cardinality(S) = Cardinality(S)
    BY DEF Workflows!Cardinality, Cardinality
  <1>2. \E q \in [1..Cardinality(S) -> S] : \A i, j \in DOMAIN q : i < j => q[i] < q[j]
    BY OrderExists DEF Increasing
  <1>3. QED  BY <1>1, <1>2 DEF Workflows!InOrder, Increasing

LEMMA DegreeFacts ==
    ASSUME NEW g, NEW n, NEW S, NEW i \in Nat
    PROVE  /\ IsFiniteSet(Into(g, n, S, i))
           /\ Workflows!Degree(g, n, S, i) = Cardinality(Into(g, n, S, i))
           /\ Workflows!Degree(g, n, S, i) \in Nat
           /\ Workflows!Degree(g, n, S, i) = 0 <=> Into(g, n, S, i) = {}
  <1>1. IsFiniteSet(1..i) /\ Into(g, n, S, i) \in SUBSET (1..i)
    BY FS_Interval DEF Into
  <1>2. IsFiniteSet(Into(g, n, S, i))
    BY <1>1, FS_Subset
  <1>3. Workflows!Degree(g, n, S, i) = Cardinality(Into(g, n, S, i))
    BY DEF Workflows!Degree, Into, Workflows!Cardinality, Cardinality
  <1>4. Cardinality(Into(g, n, S, i)) \in Nat
    BY <1>2, FS_CardinalityType
  <1>5. Cardinality(Into(g, n, S, i)) = 0 <=> Into(g, n, S, i) = {}
    BY <1>2, FS_EmptySet
  <1>6. QED  BY <1>2, <1>3, <1>4, <1>5

\* More rows give no smaller degree, and the same only without another edge.
LEMMA DegreeGrows ==
    ASSUME NEW g, NEW n, NEW S, NEW i \in Nat, NEW k \in Nat, i <= k
    PROVE  /\ Workflows!Degree(g, n, S, i) <= Workflows!Degree(g, n, S, k)
           /\ Workflows!Degree(g, n, S, i) = Workflows!Degree(g, n, S, k)
                => Into(g, n, S, i) = Into(g, n, S, k)
  <1>1. Into(g, n, S, i) \in SUBSET Into(g, n, S, k)
    BY DEF Into
  <1>2. /\ Cardinality(Into(g, n, S, i)) <= Cardinality(Into(g, n, S, k))
        /\ Cardinality(Into(g, n, S, i)) = Cardinality(Into(g, n, S, k))
             => Into(g, n, S, i) = Into(g, n, S, k)
    BY <1>1, DegreeFacts, FS_Subset
  <1>3. QED  BY <1>2, DegreeFacts

\* The edges from n are some of the edges from a set that n is in.
LEMMA DegreeSplit ==
    ASSUME NEW g, NEW m, NEW S, NEW n \in S, NEW i \in Nat
    PROVE  Workflows!Degree(g, m, S \ {n}, i) = Workflows!Degree(g, m, S, i) - Workflows!Degree(g, m, {n}, i)
  <1> DEFINE A == Into(g, m, S \ {n}, i)
             B == Into(g, m, {n}, i)
  <1>1. Into(g, m, S, i) = A \cup B /\ A \cap B = {}
    BY DEF Into
  <1>2. IsFiniteSet(A) /\ IsFiniteSet(B)
    BY DegreeFacts
  <1>3. Cardinality(A) \in Nat /\ Cardinality(B) \in Nat
    BY <1>2, FS_CardinalityType
  <1>4. Cardinality(A \cup B) = Cardinality(A) + Cardinality(B) - Cardinality(A \cap B)
    BY <1>2, FS_Union
  <1>5. Cardinality(A \cap B) = 0
    BY <1>1, FS_EmptySet
  <1>6. Workflows!Degree(g, m, S, i) = Cardinality(A \cup B)
    BY <1>1, DegreeFacts
  <1>7. Workflows!Degree(g, m, S \ {n}, i) = Cardinality(A) /\ Workflows!Degree(g, m, {n}, i) = Cardinality(B)
    BY DegreeFacts
  <1> HIDE DEF A, B
  <1>8. QED  BY <1>3, <1>4, <1>5, <1>6, <1>7

Targets(g, rows) == [i \in DOMAIN rows |-> Workflows!Target(g, rows[i])]

\* Degrees that count the edges from n, and the nodes with no others
Counts(g, n, deg) ==
    /\ deg \in [Workflows!Nodes(g) -> Nat]
    /\ \A m \in Workflows!Nodes(g) : Workflows!Degree(g, m, {n}, Len(g.edges)) <= deg[m]
LastFrom(g, n, deg, T) ==
    /\ T \in Seq(Workflows!Nodes(g))
    /\ IsInjective(T)
    /\ \A m \in Workflows!Nodes(g) :
         m \in Range(T) <=> deg[m] # 0 /\ deg[m] = Workflows!Degree(g, m, {n}, Len(g.edges))

\* What taking n out makes free: the nodes all of whose edges left come from n.
LEMMA FreedNodes ==
    ASSUME NEW g \in Graph, Workflows!Valid(g), NEW n \in Workflows!Nodes(g),
           NEW deg, Counts(g, n, deg),
           NEW rows, rows = Workflows!Freed(g, n, deg), NEW T, T = Targets(g, rows)
    PROVE  LastFrom(g, n, deg, T)
  <1> DEFINE N == Workflows!Nodes(g)
             E == Len(g.edges)
             D(m, i) == Workflows!Degree(g, m, {n}, i)
             R == {i \in 1..E : Workflows!Source(g, i) = n
                                /\ deg[Workflows!Target(g, i)] = D(Workflows!Target(g, i), i)}
  <1>c. /\ deg \in [N -> Nat] /\ \A m \in N : D(m, E) <= deg[m]
        /\ T = [i \in DOMAIN rows |-> Workflows!Target(g, rows[i])]
    BY DEF Counts, Targets
  <1>2. E \in Nat /\ Workflows!Rows(g) = 1..E
    BY GraphFacts
  <1>3. \A i \in 1..E : Workflows!Target(g, i) \in N
    BY <1>2 DEF Workflows!Valid
  <1>4. R \in SUBSET Nat /\ IsFiniteSet(R)
    <2>1. IsFiniteSet(1..E) /\ R \in SUBSET (1..E)
      BY <1>2, FS_Interval
    <2>2. QED  BY <1>2, <2>1, FS_Subset
  <1>5. Increasing(rows, R)
    <2>1. rows = Workflows!InOrder(R)
      BY <1>2 DEF Workflows!Freed
    <2>2. QED  BY <1>4, <2>1, OrderedSet
  <1>6. /\ rows \in Seq(R) /\ DOMAIN rows = 1..Len(rows) /\ Len(rows) \in Nat
        /\ \A x \in R : \E i \in DOMAIN rows : rows[i] = x
        /\ IsInjective(rows)
    <2> HIDE DEF R
    <2>1. rows \in Seq(R) /\ DOMAIN rows = 1..Len(rows)
      BY <1>4, <1>5, OrderCovers
    <2>2. Len(rows) \in Nat
      BY <2>1
    <2>3. (\A x \in R : \E i \in DOMAIN rows : rows[i] = x) /\ IsInjective(rows)
      BY <1>4, <1>5, OrderCovers
    <2>4. QED  BY <2>1, <2>2, <2>3
  <1>7. \A i, j \in DOMAIN rows : i < j => rows[i] < rows[j]
    BY <1>5 DEF Increasing
  <1>8. ASSUME NEW i \in DOMAIN rows
        PROVE  /\ rows[i] \in R /\ rows[i] \in 1..E /\ rows[i] \in Nat /\ T[i] = Workflows!Target(g, rows[i])
               /\ Workflows!Source(g, rows[i]) = n /\ deg[T[i]] = D(T[i], rows[i])
    <2>1. \A x \in R : /\ x \in 1..E /\ x \in Nat /\ Workflows!Source(g, x) = n
                       /\ deg[Workflows!Target(g, x)] = D(Workflows!Target(g, x), x)
      BY <1>2
    <2> HIDE DEF R
    <2>2. rows[i] \in R
      BY <1>6, <1>8
    <2>3. T[i] = Workflows!Target(g, rows[i])
      BY <1>8, <1>c
    <2> HIDE DEF D, E
    <2>4. QED  BY <2>1, <2>2, <2>3
  <1>9. T \in Seq(N) /\ DOMAIN T = DOMAIN rows
    BY <1>3, <1>6, <1>8, <1>c
  <1>10. ASSUME NEW i \in DOMAIN rows, NEW j \in DOMAIN rows, i < j, T[i] = T[j] PROVE FALSE
    <2> DEFINE t == T[i]
    <2>1. rows[i] < rows[j] /\ t = Workflows!Target(g, rows[i]) /\ t = Workflows!Target(g, rows[j])
      BY <1>7, <1>8, <1>10
    <2>2. deg[t] = D(t, rows[i]) /\ deg[t] = D(t, rows[j])
      BY <1>8, <2>1
    <2>3. Into(g, t, {n}, rows[i]) = Into(g, t, {n}, rows[j])
      BY <1>8, <2>1, <2>2, DegreeGrows
    <2>4. rows[j] \in Into(g, t, {n}, rows[j])
      BY <1>8, <2>1 DEF Into
    <2>5. rows[j] \notin Into(g, t, {n}, rows[i])
      BY <1>8, <2>1 DEF Into
    <2>6. QED  BY <2>3, <2>4, <2>5
  <1>11. IsInjective(T)
    <2>1. \A i, j \in 1..Len(rows) : i = j \/ i < j \/ j < i
      BY <1>6
    <2>2. QED  BY <1>6, <1>9, <1>10, <2>1 DEF IsInjective
  <1>12. ASSUME NEW m \in N, m \in Range(T) PROVE deg[m] # 0 /\ deg[m] = D(m, E)
    <2>1. PICK i \in DOMAIN rows : T[i] = m
      BY <1>9, <1>12 DEF Range
    <2>2. deg[m] = D(m, rows[i]) /\ rows[i] \in Into(g, m, {n}, rows[i])
      <3>1. deg[m] = D(m, rows[i])
        BY <1>8, <2>1
      <3>2. rows[i] \in 1..rows[i] /\ Workflows!Target(g, rows[i]) = m /\ Workflows!Source(g, rows[i]) = n
        BY <1>2, <1>8, <2>1
      <3>3. QED  BY <3>1, <3>2 DEF Into
    <2>3. D(m, rows[i]) # 0 /\ D(m, rows[i]) <= D(m, E) /\ D(m, E) \in Nat /\ D(m, rows[i]) \in Nat
      BY <1>2, <1>8, <2>2, DegreeFacts, DegreeGrows
    <2>4. D(m, E) <= deg[m] /\ deg[m] \in Nat
      BY <1>c
    <2> HIDE DEF D, E
    <2>5. QED  BY <2>2, <2>3, <2>4
  <1>13. ASSUME NEW m \in N, deg[m] # 0, deg[m] = D(m, E) PROVE m \in Range(T)
    <2> DEFINE C == {i \in 0..E : D(m, i) = D(m, E)}
    <2>1. C \in SUBSET Nat /\ E \in C
      BY <1>2
    <2>2. PICK i \in C : \A j \in C : i <= j
      BY <2>1, LeastExists
    <2>3. D(m, 0) = 0 /\ D(m, E) # 0
      <3>1. PICK z \in Nat : z = 0
        OBVIOUS
      <3>2. Into(g, m, {n}, z) = {}
        BY <3>1 DEF Into
      <3>3. D(m, z) = 0
        BY <3>2, DegreeFacts
      <3> HIDE DEF D, E
      <3>4. QED  BY <1>13, <3>1, <3>3
    <2>4. i \in 1..E /\ i - 1 \in 0..E /\ i - 1 \in Nat
      BY <1>2, <2>2, <2>3
    <2>5. i - 1 \notin C
      <3> HIDE DEF C, E
      <3>1. i \in Nat /\ ~(i <= i - 1)
        BY <2>1, <2>2
      <3>2. QED  BY <2>2, <3>1
    <2>6. D(m, i - 1) # D(m, i)
      <3> HIDE DEF D, E
      <3>1. QED  BY <2>2, <2>4, <2>5
    <2>7. Into(g, m, {n}, i - 1) # Into(g, m, {n}, i)
      BY <2>4, <2>6, DegreeFacts
    <2>8. i \in Into(g, m, {n}, i)
      BY <2>4, <2>7 DEF Into
    <2>9. i \in R /\ Workflows!Target(g, i) = m
      BY <1>13, <2>2, <2>4, <2>8 DEF Into
    <2>10. PICK k \in DOMAIN rows : rows[k] = i
      BY <1>6, <2>9
    <2>11. T[k] = m /\ k \in DOMAIN T
      BY <1>8, <1>9, <2>9, <2>10
    <2>12. QED  BY <2>11 DEF Range
  <1>14. QED  BY <1>9, <1>11, <1>12, <1>13 DEF LastFrom

\* A turn of the loop
LEMMA SortTurnKeeps ==
    ASSUME NEW g \in Graph, Workflows!Valid(g), NEW s, Sorting(g, s), s.queue # <<>>,
           NEW t, t = Workflows!SortTurn(g, s)
    PROVE  Sorting(g, t) /\ Len(t.out) = Len(s.out) + 1
  <1>n. PICK N : N = Workflows!Nodes(g)
    OBVIOUS
  <1>e. PICK E : E = Len(g.edges)
    OBVIOUS
  <1>h. PICK n : n = Head(s.queue)
    OBVIOUS
  <1>q. PICK rest : rest = Tail(s.queue)
    OBVIOUS
  <1>d. PICK d : d = s.deg
    OBVIOUS
  <1>r. PICK rows : rows = Workflows!Freed(g, n, d)
    OBVIOUS
  <1>t. PICK T : T = [i \in DOMAIN rows |-> Workflows!Target(g, rows[i])]
    OBVIOUS
  <1> DEFINE D(m) == Workflows!Degree(g, m, {n}, E)
  <1>8. E \in Nat /\ Workflows!Rows(g) = 1..E
    BY <1>e, GraphFacts
  <1>9. /\ s.out \in Seq(N) /\ s.queue \in Seq(N) /\ d \in [N -> Nat]
        /\ IsInjective(s.out) /\ IsInjective(s.queue)
        /\ Range(s.queue) \cap Range(s.out) = {}
        /\ \A m \in N : /\ d[m] = Workflows!Degree(g, m, N \ Range(s.out), E)
                        /\ d[m] = 0 <=> m \in Range(s.queue) \cup Range(s.out)
    BY <1>n, <1>e, <1>d DEF Sorting, InTurn
  <1>10. /\ t.queue = rest \o T /\ t.out = Append(s.out, n)
        /\ t.deg = [m \in N |-> d[m] - D(m)]
    BY <1>n, <1>e, <1>h, <1>q, <1>d, <1>r, <1>t DEF Workflows!SortTurn
  <1>11. /\ n \in N /\ n \in Range(s.queue) /\ n \notin Range(s.out) /\ rest \in Seq(N)
        /\ Range(rest) = Range(s.queue) \ {n} /\ IsInjective(rest)
    BY <1>9, <1>h, <1>q, TakeHead
  <1>12. /\ t.out \in Seq(N) /\ Range(t.out) = Range(s.out) \cup {n} /\ IsInjective(t.out)
        /\ Len(t.out) = Len(s.out) + 1
    <2>1. PICK o : o = s.out
      OBVIOUS
    <2>2. /\ Append(o, n) \in Seq(N) /\ Range(Append(o, n)) = Range(o) \cup {n} /\ IsInjective(Append(o, n))
          /\ Len(Append(o, n)) = Len(o) + 1
      BY <1>9, <1>11, <2>1, RangeOfAppend, AppendProperties
    <2>3. QED  BY <1>10, <2>1, <2>2
  <1>13. ASSUME NEW m \in N
        PROVE  /\ D(m) \in Nat
               /\ Workflows!Degree(g, m, N \ Range(t.out), E) = d[m] - D(m)
               /\ Workflows!Degree(g, m, N \ Range(t.out), E) \in Nat
    <2>1. PICK A : A = N \ Range(s.out)
      OBVIOUS
    <2>2. N \ Range(t.out) = A \ {n} /\ n \in A
      BY <1>11, <1>12, <2>1
    <2>3. Workflows!Degree(g, m, A \ {n}, E) = Workflows!Degree(g, m, A, E) - D(m)
      BY <1>8, <2>2, DegreeSplit
    <2>4. D(m) \in Nat /\ Workflows!Degree(g, m, A \ {n}, E) \in Nat
      BY <1>8, DegreeFacts
    <2> HIDE DEF D
    <2>5. QED  BY <1>9, <2>1, <2>2, <2>3, <2>4
  <1>14. \A m \in N : D(m) <= d[m] /\ d[m] \in Nat /\ D(m) \in Nat /\ t.deg[m] = d[m] - D(m)
    <2>1. \A m \in N : D(m) \in Nat /\ d[m] \in Nat /\ d[m] - D(m) \in Nat
      BY <1>9, <1>13
    <2>2. \A m \in N : t.deg[m] = d[m] - D(m)
      BY <1>10
    <2> HIDE DEF D
    <2>3. QED  BY <2>1, <2>2
  <1>15. T \in Seq(N) /\ IsInjective(T) /\ \A m \in N : m \in Range(T) <=> d[m] # 0 /\ d[m] = D(m)
    <2>1. Counts(g, n, d) /\ n \in Workflows!Nodes(g) /\ T = Targets(g, rows)
      BY <1>9, <1>11, <1>14, <1>n, <1>e, <1>t DEF Counts, Targets
    <2>2. LastFrom(g, n, d, T)
      BY <2>1, <1>r, FreedNodes
    <2>3. QED  BY <2>2, <1>n, <1>e DEF LastFrom
  <1> HIDE DEF D
  <1>16. Range(T) \subseteq N
    BY <1>15 DEF Range
  <1>17. /\ t.queue \in Seq(N) /\ IsInjective(t.queue)
         /\ Range(t.queue) = (Range(s.queue) \ {n}) \cup Range(T)
    <2>1. Range(rest) \cap Range(T) = {}
      BY <1>9, <1>11, <1>15, <1>16
    <2>2. QED  BY <1>10, <1>11, <1>15, <2>1, RangeOfConcat
  <1>18. Range(t.queue) \cap Range(t.out) = {}
    BY <1>9, <1>11, <1>12, <1>15, <1>16, <1>17
  <1>19. t.deg \in [N -> Nat] /\ \A m \in N : t.deg[m] = Workflows!Degree(g, m, N \ Range(t.out), E)
    <2>1. \A m \in N : t.deg[m] \in Nat /\ t.deg[m] = Workflows!Degree(g, m, N \ Range(t.out), E)
      BY <1>13, <1>14
    <2>2. QED  BY <1>10, <2>1
  <1>20. ASSUME NEW m \in N PROVE t.deg[m] = 0 <=> m \in Range(t.queue) \cup Range(t.out)
    <2>1. m \in Range(t.queue) \cup Range(t.out) <=> d[m] = 0 \/ m \in Range(T)
      BY <1>9, <1>11, <1>12, <1>17
    <2>2. t.deg[m] = 0 <=> d[m] = D(m)
      BY <1>14
    <2>3. d[m] = 0 => D(m) = 0
      BY <1>14
    <2>4. QED  BY <1>15, <2>1, <2>2, <2>3
  <1>21. InTurn(g, t.out)
    <2>1. ASSUME NEW i \in DOMAIN t.out, NEW k \in Workflows!Rows(g), Workflows!Target(g, k) = t.out[i]
          PROVE  \E j \in 1..(i - 1) : t.out[j] = Workflows!Source(g, k)
      <3>1. /\ Len(s.out) \in Nat /\ DOMAIN t.out = 1..(Len(s.out) + 1) /\ DOMAIN s.out = 1..Len(s.out)
            /\ t.out[Len(s.out) + 1] = n /\ \A j \in 1..Len(s.out) : t.out[j] = s.out[j]
        BY <1>9, <1>10, <1>11
      <3>2. CASE i = Len(s.out) + 1
        <4>1. Workflows!Degree(g, n, N \ Range(s.out), E) = 0
          BY <1>9, <1>11
        <4>2. Into(g, n, N \ Range(s.out), E) = {}
          BY <1>8, <4>1, DegreeFacts
        <4>3. k \in 1..E /\ Workflows!Target(g, k) = n
          BY <1>8, <2>1, <3>1, <3>2
        <4>4. Workflows!Source(g, k) \in N
          BY <1>n DEF Workflows!Valid
        <4>5. Workflows!Source(g, k) \in Range(s.out)
          BY <4>2, <4>3, <4>4 DEF Into
        <4>6. PICK j \in 1..Len(s.out) : s.out[j] = Workflows!Source(g, k)
          BY <3>1, <4>5 DEF Range
        <4>7. j \in 1..(i - 1) /\ t.out[j] = Workflows!Source(g, k)
          BY <3>1, <3>2, <4>6
        <4>8. QED  BY <4>7
      <3>3. CASE i # Len(s.out) + 1
        <4>1. i \in 1..Len(s.out) /\ s.out[i] = Workflows!Target(g, k)
          BY <2>1, <3>1, <3>3
        <4>2. PICK j \in 1..(i - 1) : s.out[j] = Workflows!Source(g, k)
          BY <3>1, <4>1 DEF Sorting, InTurn
        <4>3. j \in 1..Len(s.out)
          BY <3>1, <4>1, <4>2
        <4>4. QED  BY <3>1, <4>2, <4>3
      <3>4. QED  BY <3>2, <3>3
    <2>2. QED  BY <1>12, <2>1, <1>n DEF InTurn
  <1>22. QED
    BY <1>12, <1>17, <1>18, <1>19, <1>20, <1>21, <1>n, <1>e DEF Sorting

LEMMA SortStarts ==
    ASSUME NEW g \in Graph, Workflows!Valid(g), NEW s, s = Workflows!SortStart(g)
    PROVE  Sorting(g, s) /\ s.out = <<>>
  <1>n. PICK N : N = Workflows!Nodes(g)
    OBVIOUS
  <1>e. PICK E : E = Len(g.edges)
    OBVIOUS
  <1>d. PICK d : d = [n \in N |-> Workflows!Degree(g, n, N, E)]
    OBVIOUS
  <1>z. PICK Z : Z = {n \in N : d[n] = 0}
    OBVIOUS
  <1>5. E \in Nat /\ N = 1..Len(g.kind) /\ Len(g.kind) \in Nat
    BY <1>n, <1>e, GraphFacts
  <1>6. s = [queue |-> Workflows!InOrder(Z), deg |-> d, out |-> <<>>]
    BY <1>n, <1>e, <1>d, <1>z DEF Workflows!SortStart
  <1>7. d \in [N -> Nat]
    BY <1>5, <1>d, DegreeFacts
  <1>8. Z \in SUBSET Nat /\ IsFiniteSet(Z)
    <2>1. IsFiniteSet(N) /\ Z \in SUBSET N /\ N \in SUBSET Nat
      BY <1>5, <1>z, FS_Interval
    <2>2. QED  BY <2>1, FS_Subset
  <1>9. PICK q : q = Workflows!InOrder(Z)
    OBVIOUS
  <1>10. q \in Seq(Z) /\ IsInjective(q) /\ \A x \in Z : \E i \in DOMAIN q : q[i] = x
    BY <1>8, <1>9, OrderedSet, OrderCovers
  <1>11. Range(q) = Z
    BY <1>10 DEF Range
  <1>12. q \in Seq(N) /\ Range(<<>>) = {} /\ IsInjective(<<>>) /\ <<>> \in Seq(N) /\ DOMAIN <<>> = {}
    BY <1>10, <1>z DEF Range, IsInjective
  <1>13. s.queue = q /\ s.deg = d /\ s.out = <<>>
    BY <1>6, <1>9
  <1>14. N \ Range(s.out) = N
    BY <1>12, <1>13
  <1>15. \A n \in N : /\ s.deg[n] = Workflows!Degree(g, n, N \ Range(s.out), E)
                      /\ s.deg[n] = 0 <=> n \in Range(s.queue) \cup Range(s.out)
    BY <1>11, <1>12, <1>13, <1>14, <1>d, <1>z
  <1>16. InTurn(g, s.out)
    BY <1>12, <1>13, <1>n DEF InTurn
  <1>17. QED
    BY <1>7, <1>10, <1>11, <1>12, <1>13, <1>15, <1>16, <1>n, <1>e DEF Sorting

\* When nothing is queued, everything is out: what is left would be a cycle.
LEMMA NothingLeft ==
    ASSUME NEW g \in Graph, Workflows!Valid(g), NEW s, Sorting(g, s), s.queue = <<>>
    PROVE  Range(s.out) = Workflows!Nodes(g)
  <1>1. PICK S : S = Workflows!Nodes(g) \ Range(s.out)
    OBVIOUS
  <1>2. Range(s.queue) = {}
    BY DEF Range
  <1>3. ASSUME NEW n \in S PROVE \E i \in Workflows!Rows(g) : Workflows!Target(g, i) = n /\ Workflows!Source(g, i) \in S
    <2>1. PICK E : E = Len(g.edges) /\ E \in Nat /\ Workflows!Rows(g) = 1..E
      BY GraphFacts
    <2>2. Workflows!Degree(g, n, S, E) # 0
      BY <1>1, <1>2, <2>1 DEF Sorting
    <2>3. Into(g, n, S, E) # {}
      BY <2>1, <2>2, DegreeFacts
    <2>4. QED  BY <2>1, <2>3 DEF Into
  <1>4. S = {}
    BY <1>1, <1>3 DEF Workflows!Valid, Workflows!Cyclic
  <1>5. Range(s.out) \subseteq Workflows!Nodes(g)
    BY DEF Sorting, InTurn, Range
  <1>6. QED  BY <1>1, <1>4, <1>5

Start(g) == Workflows!SortStart(g)
Turn(g, s) == Workflows!SortTurn(g, s)
Loops(g, m, s) == s = [k \in 0..m |-> IF k = 0 THEN Start(g) ELSE Turn(g, s[k - 1])]

LEMMA LoopExists ==
    ASSUME NEW g, NEW n \in Nat
    PROVE  \E s : Loops(g, n, s)
  <1> DEFINE Bad == {m \in Nat : \A s : ~Loops(g, m, s)}
  <1>1. SUFFICES ASSUME Bad # {} PROVE FALSE
    OBVIOUS
  <1>2. PICK m \in Bad : \A k \in Bad : m <= k
    BY <1>1, LeastExists
  <1>3. CASE m = 0
    <2>1. Loops(g, 0, [k \in 0..0 |-> Start(g)])
      BY DEF Loops
    <2>2. QED  BY <1>2, <1>3, <2>1
  <1>4. CASE m # 0
    <2>1. m - 1 \in Nat /\ m - 1 \notin Bad
      BY <1>2, <1>4
    <2>2. PICK s : Loops(g, m - 1, s)
      BY <2>1
    <2> DEFINE t == [k \in 0..m |-> IF k = m THEN Turn(g, s[m - 1]) ELSE s[k]]
    <2>3. ASSUME NEW k \in 0..m PROVE t[k] = IF k = 0 THEN Start(g) ELSE Turn(g, t[k - 1])
      <3>1. CASE k = m
        BY <1>4, <2>1, <3>1
      <3>2. CASE k # m
        <4>1. k \in 0..(m - 1) /\ t[k] = s[k] /\ (k # 0 => k - 1 \in 0..m /\ k - 1 # m /\ t[k - 1] = s[k - 1])
          BY <2>1, <3>2
        <4>2. s[k] = IF k = 0 THEN Start(g) ELSE Turn(g, s[k - 1])
          BY <2>2, <4>1 DEF Loops
        <4>3. QED  BY <4>1, <4>2
      <3>3. QED  BY <3>1, <3>2
    <2>4. DOMAIN t = 0..m /\ t = [k \in 0..m |-> t[k]]
      OBVIOUS
    <2> HIDE DEF t
    <2>5. Loops(g, m, t)
      BY <2>3, <2>4 DEF Loops
    <2>6. QED  BY <1>2, <2>5
  <1>5. QED  BY <1>3, <1>4

LEMMA SortedLoop ==
    ASSUME NEW g, Len(g.kind) \in Nat
    PROVE  \E s : Loops(g, Len(g.kind), s) /\ Workflows!Sorted(g) = s[Len(g.kind)].out
  <1> DEFINE s == CHOOSE s : Loops(g, Len(g.kind), s)
  <1>1. Loops(g, Len(g.kind), s)
    BY LoopExists
  <1>2. Workflows!Sorted(g) = s[Len(g.kind)].out
    BY DEF Workflows!Sorted, Loops, Start, Turn
  <1>3. QED  BY <1>1, <1>2

\* The order that comes out: every node once, after all nodes with an edge to it.
LEMMA SortedInTurn ==
    ASSUME NEW g \in Graph, Workflows!Valid(g), NEW o, o = Workflows!Sorted(g)
    PROVE  InTurn(g, o) /\ Range(o) = Workflows!Nodes(g)
  <1>1. PICK n : n = Len(g.kind) /\ n \in Nat /\ Workflows!Nodes(g) = 1..n
    BY GraphFacts
  <1>2. PICK s : Loops(g, n, s) /\ o = s[n].out
    BY <1>1, SortedLoop
  <1>3. \A k \in 0..n : s[k] = IF k = 0 THEN Start(g) ELSE Turn(g, s[k - 1])
    BY <1>2 DEF Loops
  <1> DEFINE Good(k) == Sorting(g, s[k]) /\ (s[k].queue = <<>> \/ Len(s[k].out) = k)
             Bad == {k \in 0..n : ~Good(k)}
  <1>4. Bad = {}
    <2>1. SUFFICES ASSUME Bad # {} PROVE FALSE
      OBVIOUS
    <2>2. PICK k \in Bad : \A j \in Bad : k <= j
      <3>1. Bad \in SUBSET Nat
        BY <1>1
      <3> HIDE DEF Bad
      <3>2. QED  BY <2>1, <3>1, LeastExists
    <2>3. CASE k = 0
      <3>1. PICK x : x = s[0]
        OBVIOUS
      <3>2. x = Workflows!SortStart(g)
        BY <1>1, <1>3, <3>1 DEF Start
      <3>3. Sorting(g, x) /\ Len(x.out) = 0
        BY <3>2, SortStarts
      <3>4. QED  BY <2>2, <2>3, <3>1, <3>3
    <2>4. CASE k # 0
      <3>1. k \in 1..n /\ k - 1 \in 0..n /\ k \in Nat
        BY <1>1, <2>2, <2>4
      <3>2. k - 1 \notin Bad
        <4> HIDE DEF Bad
        <4>1. QED  BY <2>2, <3>1
      <3>3. Good(k - 1)
        BY <3>1, <3>2
      <3>4. PICK x : x = s[k - 1]
        OBVIOUS
      <3>5. PICK y : y = s[k]
        OBVIOUS
      <3>6. y = Workflows!SortTurn(g, x) /\ Sorting(g, x) /\ (x.queue = <<>> \/ Len(x.out) = k - 1)
        BY <1>3, <2>4, <3>1, <3>3, <3>4, <3>5 DEF Turn
      <3>7. CASE x.queue = <<>>
        <4>1. y = x
          BY <3>6, <3>7 DEF Workflows!SortTurn
        <4>2. QED  BY <2>2, <3>5, <3>6, <3>7, <4>1
      <3>8. CASE x.queue # <<>>
        <4>1. Sorting(g, y) /\ Len(y.out) = Len(x.out) + 1
          BY <3>6, <3>8, SortTurnKeeps
        <4>2. Len(y.out) = k
          BY <3>1, <3>6, <3>8, <4>1
        <4>3. QED  BY <2>2, <3>5, <4>1, <4>2
      <3>9. QED  BY <3>7, <3>8
    <2>5. QED  BY <2>3, <2>4
  <1>5. PICK x : x = s[n]
    OBVIOUS
  <1>6. Sorting(g, x) /\ (x.queue = <<>> \/ Len(x.out) = n) /\ o = x.out
    <2>1. n \in 0..n
      BY <1>1
    <2>2. QED  BY <1>2, <1>4, <1>5, <2>1
  <1>7. InTurn(g, o)
    BY <1>6 DEF Sorting
  <1>8. CASE x.queue = <<>>
    BY <1>6, <1>7, <1>8, NothingLeft
  <1>9. CASE Len(x.out) = n
    <2>1. o \in Seq(1..n) /\ Len(o) = n /\ IsInjective(o)
      BY <1>1, <1>6, <1>7, <1>9 DEF InTurn
    <2>2. o \in [1..n -> 1..n] /\ DOMAIN o = 1..n
      BY <1>1, <2>1
    <2>3. o \in Injection(1..n, 1..n)
      BY <2>1, <2>2 DEF Injection
    <2>f. IsFiniteSet(1..n)
      BY <1>1, FS_Interval
    <2>5. o \in Surjection(1..n, 1..n)
      BY <2>3, <2>f, FS_Injection
    <2>6. Range(o) = 1..n
      BY <2>2, <2>5 DEF Surjection, Range
    <2>7. QED  BY <1>1, <1>7, <2>6
  <1>10. QED  BY <1>6, <1>8, <1>9

-----------------------------------------------------------------------------
(* Executions of graphs *)

\* An order of all nodes of a graph
Whole(g, o) == g \in Graph /\ InTurn(g, o) /\ Range(o) = Workflows!Nodes(g)

WorkflowTypes ==
    /\ workflow \in Graph
    /\ state \in [Execution -> {"idle", "refused", "running", "delayed", "completed", "error"}]
    /\ DOMAIN graph = Execution
    /\ order \in [Execution -> Seq(Nat)]
    /\ ran \in [Execution -> Seq(Nat)]

\* What has run is the beginning of the order.
Follows(e) ==
    /\ Len(ran[e]) <= Len(order[e])
    /\ \A i \in 1..Len(ran[e]) : ran[e][i] = order[e][i]

ExecutionInv(e) ==
    /\ Follows(e)
    /\ IF state[e] \in {"idle", "refused"}
       THEN order[e] = <<>> /\ ran[e] = <<>> /\ graph[e].edges = <<>>
       ELSE Whole(graph[e], order[e])
    /\ state[e] = "delayed" => Len(ran[e]) < Len(order[e])
    /\ state[e] = "completed" =>
         \/ Len(ran[e]) = Len(order[e])
         \/ Len(ran[e]) # 0 /\ graph[e].kind[ran[e][Len(ran[e])]] = "condition"

WorkflowIInv == WorkflowTypes /\ \A e \in Execution : ExecutionInv(e)

LEMMA WorkflowInit == Workflows!Init => WorkflowIInv
  <1> SUFFICES ASSUME Workflows!Init PROVE WorkflowIInv
    OBVIOUS
  <1>1. workflow \in Graph
    BY BuildersAssumption DEF Workflows!Init, Workflows!WorkflowsAssumption, Graph
  <1>2. WorkflowTypes
    BY <1>1 DEF Workflows!Init, WorkflowTypes
  <1>3. ASSUME NEW e \in Execution PROVE ExecutionInv(e)
    BY DEF Workflows!Init, ExecutionInv, Follows
  <1>4. QED  BY <1>2, <1>3 DEF WorkflowIInv

\* One more node of the order has run.
LEMMA RanNext ==
    ASSUME WorkflowIInv, NEW e \in Execution, state[e] \notin {"idle", "refused"},
           Len(ran[e]) < Len(order[e]),
           ran' = [ran EXCEPT ![e] = Append(@, Workflows!Current(e))],
           UNCHANGED <<graph, order>>
    PROVE  /\ ran' \in [Execution -> Seq(Nat)] /\ Follows(e)'
           /\ Len(ran'[e]) = Len(ran[e]) + 1 /\ Len(ran[e]) \in Nat
           /\ ran'[e][Len(ran'[e])] = Workflows!Current(e)
  <1>1. /\ ran \in [Execution -> Seq(Nat)] /\ order \in [Execution -> Seq(Nat)] /\ Follows(e)
    BY DEF WorkflowIInv, WorkflowTypes, ExecutionInv
  <1>2. PICK r : r = ran[e]
    OBVIOUS
  <1>3. PICK o : o = order[e]
    OBVIOUS
  <1>4. PICK c : c = Workflows!Current(e)
    OBVIOUS
  <1>5. /\ r \in Seq(Nat) /\ o \in Seq(Nat) /\ Len(r) < Len(o) /\ c = o[Len(r) + 1]
        /\ Len(r) \in Nat /\ Len(o) \in Nat
        /\ \A i \in 1..Len(r) : r[i] = o[i]
    BY <1>1, <1>2, <1>3, <1>4 DEF Follows, Workflows!Current
  <1>6. c \in Nat
    BY <1>5
  <1>7. ran'[e] = Append(r, c) /\ ran' \in [Execution -> Seq(Nat)]
    BY <1>1, <1>2, <1>4, <1>5, <1>6
  <1>8. /\ Len(ran'[e]) = Len(r) + 1 /\ ran'[e][Len(r) + 1] = c
        /\ \A i \in 1..(Len(r) + 1) : ran'[e][i] = o[i]
    <2>1. PICK a : a = Append(r, c)
      OBVIOUS
    <2>2. Len(a) = Len(r) + 1 /\ a[Len(r) + 1] = c /\ \A i \in 1..Len(r) : a[i] = r[i]
      BY <1>5, <1>6, <2>1
    <2>3. ASSUME NEW i \in 1..(Len(r) + 1) PROVE a[i] = o[i]
      <3>1. i \in 1..Len(r) \/ i = Len(r) + 1
        BY <1>5
      <3>2. CASE i \in 1..Len(r)
        BY <1>5, <2>2, <3>2
      <3>3. CASE i = Len(r) + 1
        BY <1>5, <2>2, <3>3
      <3>4. QED  BY <3>1, <3>2, <3>3
    <2>4. QED  BY <1>7, <2>1, <2>2, <2>3
  <1>9. Len(ran'[e]) <= Len(order'[e]) /\ \A i \in 1..Len(ran'[e]) : ran'[e][i] = order'[e][i]
    BY <1>3, <1>5, <1>8
  <1>10. QED  BY <1>2, <1>4, <1>5, <1>7, <1>8, <1>9 DEF Follows

LEMMA WorkflowStep == WorkflowIInv /\ [Workflows!Next]_(Workflows!appVars) => WorkflowIInv'
  <1> SUFFICES ASSUME WorkflowIInv, [Workflows!Next]_(Workflows!appVars) PROVE WorkflowIInv'
    OBVIOUS
  <1>1. WorkflowTypes /\ \A e \in Execution : ExecutionInv(e)
    BY DEF WorkflowIInv
  \* What an execution looks at stays with it.
  <1>2. ASSUME NEW e \in Execution,
               state'[e] = state[e], graph'[e] = graph[e], order'[e] = order[e], ran'[e] = ran[e]
        PROVE  ExecutionInv(e)'
    BY <1>1, <1>2 DEF ExecutionInv, Follows
  <1>3. CASE Workflows!Update \/ Workflows!Delete \/ UNCHANGED Workflows!appVars
    <2>1. UNCHANGED <<state, graph, order, ran>>
      BY <1>3 DEF Workflows!Update, Workflows!Delete, Workflows!appVars
    <2>2. workflow' \in Graph
      <3>1. CASE Workflows!Update
        <4>1. PICK g \in Graphs \cup {workflow}, h \in Graphs \cup {workflow} :
                  workflow' = [kind |-> g.kind, edges |-> h.edges]
          BY <3>1 DEF Workflows!Update
        <4>2. g \in Graph /\ h \in Graph
          BY <1>1, BuildersAssumption DEF WorkflowTypes, Workflows!WorkflowsAssumption, Graph
        <4>3. QED  BY <4>1, <4>2 DEF Graph
      <3>2. CASE Workflows!Delete \/ UNCHANGED Workflows!appVars
        BY <1>1, <3>2 DEF Workflows!Delete, Workflows!appVars, WorkflowTypes
      <3>3. QED  BY <1>3, <3>1, <3>2
    <2>3. WorkflowTypes'
      BY <1>1, <2>1, <2>2 DEF WorkflowTypes
    <2>4. QED  BY <1>2, <2>1, <2>3 DEF WorkflowIInv
  <1>4. ASSUME NEW e \in Execution, Workflows!Execute(e) PROVE WorkflowIInv'
    <2> USE <1>4
    <2>1. UNCHANGED <<workflow, ran>> /\ state[e] = "idle"
      BY DEF Workflows!Execute
    <2>2. order[e] = <<>> /\ ran[e] = <<>> /\ graph[e].edges = <<>>
      BY <1>1, <2>1 DEF ExecutionInv
    <2>3. CASE ~stored \/ ~Workflows!Valid(workflow)
      <3>1. state' = [state EXCEPT ![e] = "refused"] /\ UNCHANGED <<graph, order>>
        BY <2>3 DEF Workflows!Execute
      <3>2. WorkflowTypes'
        BY <1>1, <2>1, <3>1 DEF WorkflowTypes
      <3>3. ExecutionInv(e)'
        BY <1>1, <2>1, <2>2, <3>1 DEF ExecutionInv, Follows, WorkflowTypes
      <3>4. \A d \in Execution \ {e} : state'[d] = state[d]
        BY <1>1, <3>1 DEF WorkflowTypes
      <3>5. QED  BY <1>2, <2>1, <3>1, <3>2, <3>3, <3>4 DEF WorkflowIInv
    <2>4. CASE ~(~stored \/ ~Workflows!Valid(workflow))
      <3>1. /\ state' = [state EXCEPT ![e] = "running"] /\ graph' = [graph EXCEPT ![e] = workflow]
            /\ order' = [order EXCEPT ![e] = Workflows!Sorted(workflow)]
        BY <2>4 DEF Workflows!Execute
      <3>2. PICK g : g = workflow
        OBVIOUS
      <3>3. PICK o : o = Workflows!Sorted(g)
        OBVIOUS
      <3>4. Whole(g, o)
        BY <1>1, <2>4, <3>2, <3>3, SortedInTurn DEF WorkflowTypes, Whole
      <3>5. o \in Seq(Nat)
        BY <3>4, GraphFacts DEF Whole, InTurn
      <3>6. WorkflowTypes'
        BY <1>1, <2>1, <3>1, <3>2, <3>3, <3>5 DEF WorkflowTypes
      <3>7. state'[e] = "running" /\ graph'[e] = g /\ order'[e] = o /\ ran'[e] = <<>>
        BY <1>1, <2>1, <2>2, <3>1, <3>2, <3>3 DEF WorkflowTypes
      <3>8. Len(o) \in Nat
        BY <3>5
      <3>9. ExecutionInv(e)'
        BY <3>4, <3>7, <3>8 DEF ExecutionInv, Follows
      <3>10. \A d \in Execution \ {e} : state'[d] = state[d] /\ graph'[d] = graph[d] /\ order'[d] = order[d]
        BY <1>1, <3>1 DEF WorkflowTypes
      <3>11. QED  BY <1>2, <2>1, <3>6, <3>9, <3>10 DEF WorkflowIInv
    <2>5. QED  BY <2>3, <2>4
  <1>5. ASSUME NEW e \in Execution, Workflows!RunNode(e) PROVE WorkflowIInv'
    <2>1. /\ state[e] = "running" /\ Len(ran[e]) < Len(order[e]) /\ UNCHANGED <<workflow, graph, order>>
          /\ ran' = [ran EXCEPT ![e] = Append(@, Workflows!Current(e))]
          /\ \/ UNCHANGED state
             \/ /\ graph[e].kind[Workflows!Current(e)] = "condition"
                /\ state' = [state EXCEPT ![e] = "completed"]
      BY <1>5 DEF Workflows!RunNode
    <2>r. /\ ran' \in [Execution -> Seq(Nat)] /\ Follows(e)'
          /\ Len(ran'[e]) = Len(ran[e]) + 1 /\ Len(ran[e]) \in Nat
          /\ ran'[e][Len(ran'[e])] = Workflows!Current(e)
      BY <2>1, RanNext
    <2>3. /\ ran' \in [Execution -> Seq(Nat)] /\ Follows(e)' /\ Len(ran'[e]) # 0
          /\ ran'[e][Len(ran'[e])] = Workflows!Current(e)
      BY <2>r
    <2>4. WorkflowTypes'
      BY <1>1, <2>1, <2>3 DEF WorkflowTypes
    <2>5. ExecutionInv(e)'
      BY <1>1, <2>1, <2>3 DEF ExecutionInv, WorkflowTypes
    <2>6. \A d \in Execution \ {e} : state'[d] = state[d] /\ ran'[d] = ran[d]
      BY <1>1, <2>1 DEF WorkflowTypes
    <2>7. QED  BY <1>2, <2>1, <2>4, <2>5, <2>6 DEF WorkflowIInv
  <1>6. ASSUME NEW e \in Execution, Workflows!Delay(e) PROVE WorkflowIInv'
    <2>1. PICK s \in {"delayed", "error"} : state' = [state EXCEPT ![e] = s]
      BY <1>6 DEF Workflows!Delay
    <2>2. state[e] = "running" /\ Len(ran[e]) < Len(order[e]) /\ UNCHANGED <<workflow, graph, order, ran>>
      BY <1>6 DEF Workflows!Delay
    <2>3. WorkflowTypes'
      BY <1>1, <2>1, <2>2 DEF WorkflowTypes
    <2>4. ExecutionInv(e)'
      BY <1>1, <2>1, <2>2 DEF ExecutionInv, WorkflowTypes, Follows
    <2>5. \A d \in Execution \ {e} : state'[d] = state[d]
      BY <1>1, <2>1 DEF WorkflowTypes
    <2>6. QED  BY <1>2, <2>2, <2>3, <2>4, <2>5 DEF WorkflowIInv
  <1>7. ASSUME NEW e \in Execution, Workflows!WakeUp(e) PROVE WorkflowIInv'
    <2>1. /\ state[e] = "delayed" /\ state' = [state EXCEPT ![e] = "running"]
          /\ ran' = [ran EXCEPT ![e] = Append(@, Workflows!Current(e))]
          /\ UNCHANGED <<workflow, graph, order>>
      BY <1>7 DEF Workflows!WakeUp
    <2>2. Len(ran[e]) < Len(order[e])
      BY <1>1, <2>1 DEF ExecutionInv
    <2>3. ran' \in [Execution -> Seq(Nat)] /\ Follows(e)'
      BY <2>1, <2>2, RanNext
    <2>4. WorkflowTypes'
      BY <1>1, <2>1, <2>3 DEF WorkflowTypes
    <2>5. ExecutionInv(e)'
      BY <1>1, <2>1, <2>3 DEF ExecutionInv, WorkflowTypes
    <2>6. \A d \in Execution \ {e} : state'[d] = state[d] /\ ran'[d] = ran[d]
      BY <1>1, <2>1 DEF WorkflowTypes
    <2>7. QED  BY <1>2, <2>1, <2>4, <2>5, <2>6 DEF WorkflowIInv
  <1>8. ASSUME NEW e \in Execution, Workflows!Complete(e) PROVE WorkflowIInv'
    <2>1. /\ state[e] = "running" /\ Len(ran[e]) = Len(order[e])
          /\ state' = [state EXCEPT ![e] = "completed"] /\ UNCHANGED <<workflow, graph, order, ran>>
      BY <1>8 DEF Workflows!Complete
    <2>2. WorkflowTypes'
      BY <1>1, <2>1 DEF WorkflowTypes
    <2>3. ExecutionInv(e)'
      BY <1>1, <2>1 DEF ExecutionInv, WorkflowTypes, Follows
    <2>4. \A d \in Execution \ {e} : state'[d] = state[d]
      BY <1>1, <2>1 DEF WorkflowTypes
    <2>5. QED  BY <1>2, <2>1, <2>2, <2>3, <2>4 DEF WorkflowIInv
  <1>9. QED  BY <1>3, <1>4, <1>5, <1>6, <1>7, <1>8 DEF Workflows!Next

LEMMA WorkflowInv == Workflows!Spec => []WorkflowIInv
  BY WorkflowInit, WorkflowStep, PTL DEF Workflows!Spec

\* An execution runs no node twice and none before all nodes that lead to it in
\* the graph it was started with, whatever is sent meanwhile, for any graph.
THEOREM WorkflowsGraphInOrder == Workflows!Spec => []GraphInOrder
  <1>1. WorkflowIInv => GraphInOrder
    <2> SUFFICES ASSUME WorkflowIInv PROVE GraphInOrder
      OBVIOUS
    <2>1. ASSUME NEW e \in Execution
          PROVE  /\ \A i, j \in DOMAIN ran[e] : ran[e][i] = ran[e][j] => i = j
                 /\ \A j \in DOMAIN ran[e], k \in DOMAIN graph[e].edges :
                      Workflows!Target(graph[e], k) = ran[e][j]
                        => \E i \in 1..(j - 1) : ran[e][i] = Workflows!Source(graph[e], k)
                 /\ state[e] = "completed" =>
                      \/ {ran[e][i] : i \in DOMAIN ran[e]} = Workflows!Nodes(graph[e])
                      \/ graph[e].kind[ran[e][Len(ran[e])]] = "condition"
      <3>1. ExecutionInv(e) /\ ran[e] \in Seq(Nat) /\ order[e] \in Seq(Nat)
        BY DEF WorkflowIInv, WorkflowTypes
      <3>2. PICK r : r = ran[e]
        OBVIOUS
      <3>3. PICK o : o = order[e]
        OBVIOUS
      <3>4. PICK g : g = graph[e]
        OBVIOUS
      <3>5. CASE state[e] \in {"idle", "refused"}
        BY <3>1, <3>5 DEF ExecutionInv
      <3>6. CASE state[e] \notin {"idle", "refused"}
        <4>1. /\ Whole(g, o) /\ Len(r) <= Len(o) /\ \A i \in 1..Len(r) : r[i] = o[i]
              /\ Len(r) \in Nat /\ Len(o) \in Nat /\ DOMAIN r = 1..Len(r) /\ DOMAIN o = 1..Len(o)
          BY <3>1, <3>2, <3>3, <3>4, <3>6 DEF ExecutionInv, Follows
        <4>2. \A i \in DOMAIN r : i \in DOMAIN o /\ r[i] = o[i]
          BY <4>1
        <4>3. \A i, j \in DOMAIN r : r[i] = r[j] => i = j
          BY <4>1, <4>2 DEF Whole, InTurn, IsInjective
        <4>4. ASSUME NEW j \in DOMAIN r, NEW k \in Workflows!Rows(g), Workflows!Target(g, k) = r[j]
              PROVE  \E i \in 1..(j - 1) : r[i] = Workflows!Source(g, k)
          <5>1. PICK i \in 1..(j - 1) : o[i] = Workflows!Source(g, k)
            BY <4>1, <4>2, <4>4 DEF Whole, InTurn
          <5>2. i \in 1..Len(r)
            BY <4>1, <5>1
          <5>3. QED  BY <4>1, <5>1, <5>2
        <4>5. ASSUME Len(r) = Len(o) PROVE {r[i] : i \in DOMAIN r} = Workflows!Nodes(g)
          <5>1. DOMAIN r = DOMAIN o /\ \A i \in DOMAIN o : r[i] = o[i]
            BY <4>1, <4>5
          <5>2. QED  BY <4>1, <5>1 DEF Whole, Range
        <4>6. state[e] = "completed" => Len(r) = Len(o) \/ g.kind[r[Len(r)]] = "condition"
          BY <3>1, <3>2, <3>3, <3>4 DEF ExecutionInv
        <4>7. QED  BY <3>2, <3>4, <4>3, <4>4, <4>5, <4>6 DEF Workflows!Rows
      <3>7. QED  BY <3>5, <3>6
    <2>2. QED  BY <2>1 DEF GraphInOrder, Workflows!GraphInOrder
  <1>2. QED  BY <1>1, WorkflowInv, PTL

-----------------------------------------------------------------------------
(* The user profile *)

Profiles == [key : Nat, entries : Seq(Signal), turns : Nat, recent : BOOLEAN]
Merges == [new : Seq(Signal), replaces : BOOLEAN, turns : Nat]

\* Where a call holds a row that it has read.
Holding == {"merge", "asking", "persist", "touch"}

ProfileTypes ==
    /\ row \in Profiles
    /\ at \in [Call -> {"idle", "select", "create", "insert", "reselect", "delete", "failed", "done"}
                       \cup Holding]
    /\ copy \in [Call -> Profiles]
    /\ delta \in [Call -> Merges]
    /\ bound \in [Call -> BOOLEAN]
    /\ noted \in [Call -> SUBSET Signal]

\* What a call has seen is stored still, and is in what it holds.
SeenIsKept ==
    \A c \in Call :
        /\ noted[c] \subseteq Profile!Stored(row)
        /\ at[c] \in Holding => noted[c] \subseteq Profile!Stored(copy[c])

ProfileIInv == ProfileTypes /\ SeenIsKept

\* What is in a profile, of whatever time.
LEMMA ProfileFields ==
    ASSUME NEW p \in Profiles, NEW b \in BOOLEAN
    PROVE  /\ [p EXCEPT !.recent = b] \in Profiles
           /\ Profile!Stored([p EXCEPT !.recent = b]) = Profile!Stored(p)
           /\ Profile!Stored(p) \subseteq Signal
  <1>1. [p EXCEPT !.recent = b] \in Profiles /\ [p EXCEPT !.recent = b].entries = p.entries
    BY DEF Profiles
  <1>2. p.entries \in Seq(Signal)
    BY DEF Profiles
  <1>3. QED  BY <1>1, <1>2 DEF Profile!Stored

\* The newest n of a sequence are one of its entries, and miss none of them.
LEMMA NewestFacts ==
    ASSUME NEW q \in Seq(Signal), NEW n \in Nat \ {0}
    PROVE  /\ Profile!Newest(q, n) \in Seq(Signal)
           /\ \A i \in DOMAIN q : i > Len(q) - n =>
                 \E j \in DOMAIN Profile!Newest(q, n) : Profile!Newest(q, n)[j] = q[i]
  <1>1. CASE Len(q) <= n
    BY <1>1 DEF Profile!Newest
  <1>2. CASE ~(Len(q) <= n)
    <2> DEFINE b == Len(q) - n
               r == SubSeq(q, b + 1, Len(q))
    <2>1. b \in Nat /\ b + 1 \in 1..Len(q) /\ Profile!Newest(q, n) = r
      BY <1>2 DEF Profile!Newest
    <2>2. r \in Seq(Signal) /\ Len(r) = n /\ \A j \in 1..n : r[j] = q[b + j]
      BY <2>1
    <2> HIDE DEF r
    <2>3. ASSUME NEW i \in DOMAIN q, i > Len(q) - n PROVE i - b \in DOMAIN r /\ r[i - b] = q[i]
      <3>1. i - b \in 1..n /\ b + (i - b) = i
        BY <2>1, <2>3
      <3>2. QED  BY <2>2, <3>1
    <2>4. QED  BY <2>1, <2>2, <2>3
  <1>3. QED  BY <1>1, <1>2

\* What is in front of a sequence stays where it is.
LEMMA InFront ==
    ASSUME NEW q \in Seq(Signal), NEW w \in Seq(Signal)
    PROVE  /\ q \o w \in Seq(Signal) /\ Len(q \o w) = Len(q) + Len(w)
           /\ \A i \in DOMAIN q : i \in DOMAIN (q \o w) /\ (q \o w)[i] = q[i]
  OBVIOUS

\* An entry that the newest n leave out is not among the last n.
LEMMA LeftOut ==
    ASSUME NEW q \in Seq(Signal), NEW w \in Seq(Signal), NEW n \in Nat \ {0},
           NEW i \in DOMAIN q,
           \A j \in DOMAIN Profile!Newest(q \o w, n) : Profile!Newest(q \o w, n)[j] # q[i]
    PROVE  Len(q) - i + Len(w) >= n
  <1>1. PICK a : /\ a = q \o w /\ a \in Seq(Signal) /\ Len(a) = Len(q) + Len(w)
                 /\ i \in DOMAIN a /\ a[i] = q[i]
    BY InFront
  <1>2. ~(i > Len(a) - n)
    <2>1. \A j \in DOMAIN Profile!Newest(a, n) : Profile!Newest(a, n)[j] # a[i]
      BY <1>1
    <2>2. QED  BY <1>1, <2>1, NewestFacts
  <1>3. i \in Nat /\ Len(q) \in Nat /\ Len(w) \in Nat
    OBVIOUS
  <1>4. QED  BY <1>1, <1>2, <1>3

\* What a merge leaves out of a profile it replaces or pushes out.
LEMMA MergedProfile ==
    ASSUME NEW p \in Profiles, NEW d \in Merges
    PROVE  /\ Profile!Merged(p, d) \in Profiles
           /\ \A s \in Profile!Stored(p) \ Profile!Stored(Profile!Merged(p, d)) :
                 \/ d.replaces
                 \/ \E i \in DOMAIN p.entries :
                       p.entries[i] = s /\ Len(p.entries) - i + Len(d.new) >= Cap
  <1> DEFINE all == p.entries \o d.new
             kept == IF d.replaces THEN d.new ELSE Profile!Newest(all, Cap)
             m == [p EXCEPT !.entries = kept, !.turns = p.turns + d.turns]
  <1>1. /\ p.entries \in Seq(Signal) /\ d.new \in Seq(Signal) /\ p.turns + d.turns \in Nat
        /\ Cap \in Nat \ {0}
    BY BuildersAssumption DEF Profiles, Merges, Profile!ProfileAssumption
  <1>2. all \in Seq(Signal)
    BY <1>1, InFront
  <1>3. Profile!Merged(p, d) = m
    BY DEF Profile!Merged
  <1> HIDE DEF all
  <1>4. kept \in Seq(Signal)
    BY <1>1, <1>2, NewestFacts
  <1>5. m \in Profiles /\ m.entries = kept
    <2> HIDE DEF kept
    <2>1. QED  BY <1>1, <1>4 DEF Profiles
  <1>6. ASSUME NEW i \in DOMAIN p.entries, ~d.replaces, p.entries[i] \notin Profile!Stored(m)
        PROVE  Len(p.entries) - i + Len(d.new) >= Cap
    <2>1. kept = Profile!Newest(all, Cap)
      BY <1>6
    <2>2. \A j \in DOMAIN kept : kept[j] # p.entries[i]
      BY <1>5, <1>6 DEF Profile!Stored
    <2>3. QED  BY <1>1, <2>1, <2>2, LeftOut DEF all
  <1>7. \A s \in Profile!Stored(p) : \E i \in DOMAIN p.entries : p.entries[i] = s
    BY DEF Profile!Stored
  <1> HIDE DEF m
  <1>8. QED  BY <1>3, <1>5, <1>6, <1>7

\* What a call may merge is a delta.
LEMMA DeltaTypes ==
    ASSUME NEW p, NEW n \in Nat
    PROVE  Profile!DeltasOn(p, n) \subseteq Merges
  <1>1. Deltas \subseteq Seq(Signal)
    BY BuildersAssumption DEF Profile!ProfileAssumption
  <1>2. ASSUME NEW d \in Profile!DeltasOn(p, n) PROVE d \in Merges
    <2>1. PICK q \in Deltas, b \in BOOLEAN : d = [new |-> q, replaces |-> b, turns |-> n]
      BY <1>2 DEF Profile!DeltasOn
    <2>2. QED  BY <1>1, <2>1 DEF Merges
  <1>3. QED  BY <1>2

LEMMA ProfileInit == Profile!Init => ProfileIInv
  <1> SUFFICES ASSUME Profile!Init PROVE ProfileIInv
    OBVIOUS
  <1>1. Profile!NoRow \in Profiles /\ Profile!Nothing \in Merges
    BY DEF Profile!NoRow, Profile!Nothing, Profiles, Merges
  <1>2. QED  BY <1>1 DEF Profile!Init, ProfileIInv, ProfileTypes, SeenIsKept, Holding

\* One step of one call.
LEMMA ProfileCallStep ==
    ASSUME ProfileIInv, NEW c \in Call,
           \/ Profile!Begin(c) \/ Profile!Select(c) \/ Profile!Create(c) \/ Profile!Insert(c)
           \/ Profile!Reselect(c) \/ Profile!MergeAtOnce(c) \/ Profile!Ask(c) \/ Profile!Answer(c)
           \/ Profile!CloseSession(c) \/ Profile!Persist(c) \/ Profile!Touch(c) \/ Profile!Reset(c)
    PROVE  ProfileIInv'
  <1> USE DEF Profile!Go, Holding
  <1>1. ProfileTypes /\ SeenIsKept
    BY DEF ProfileIInv
  <1>2. /\ Profile!Stored(row) \subseteq Signal
        /\ Profile!NoRow \in Profiles /\ Profile!Stored(Profile!NoRow) = {}
    <2>1. Profile!NoRow \in Profiles /\ Profile!NoRow.entries = <<>>
      BY DEF Profiles, Profile!NoRow
    <2>2. Profile!Stored(Profile!NoRow) = {}
      BY <2>1 DEF Profile!Stored
    <2>3. Profile!Stored(row) \subseteq Signal
      BY <1>1, ProfileFields DEF ProfileTypes
    <2>4. QED  BY <2>1, <2>2, <2>3
  <1>3. CASE Profile!Begin(c)
    BY <1>1, <1>2, <1>3 DEF Profile!Begin, ProfileIInv, ProfileTypes, SeenIsKept
  <1>4. CASE Profile!Select(c)
    BY <1>1, <1>4 DEF Profile!Select, ProfileIInv, ProfileTypes, SeenIsKept
  <1>5. CASE Profile!Create(c)
    BY <1>1, <1>5 DEF Profile!Create, ProfileIInv, ProfileTypes, SeenIsKept
  <1>6. CASE Profile!Insert(c)
    <2>1. /\ row' \in Profiles /\ Profile!Stored(row) \subseteq Profile!Stored(row')
          /\ at' \in [Call -> {"failed", "done", "reselect"} \cup {at[d] : d \in Call}]
          /\ \A d \in Call : at'[d] \in Holding => at[d] \in Holding
      <3>1. CASE row # Profile!NoRow
        BY <1>1, <1>6, <3>1 DEF Profile!Insert, ProfileTypes
      <3>2. CASE row = Profile!NoRow
        <4>1. PICK k \in Key : row' = [key |-> k, entries |-> <<>>, turns |-> 0, recent |-> TRUE]
          BY <1>6, <3>2 DEF Profile!Insert
        <4>2. k \in Nat
          BY BuildersAssumption DEF Profile!ProfileAssumption
        <4>3. row' \in Profiles /\ Profile!Stored(row) = {}
          BY <1>2, <3>2, <4>1, <4>2 DEF Profiles
        <4>4. QED  BY <1>1, <1>6, <3>2, <4>3 DEF Profile!Insert, ProfileTypes
      <3>3. QED  BY <3>1, <3>2
    <2>2. at' \in [Call -> {"idle", "select", "create", "insert", "reselect", "delete", "failed", "done"}
                           \cup Holding]
      BY <1>1, <1>6 DEF Profile!Insert, ProfileTypes
    <2>3. QED  BY <1>1, <1>6, <2>1, <2>2 DEF Profile!Insert, ProfileIInv, ProfileTypes, SeenIsKept
  <1>7. CASE Profile!Reselect(c)
    BY <1>1, <1>7 DEF Profile!Reselect, ProfileIInv, ProfileTypes, SeenIsKept
  <1>8. ASSUME NEW n \in {0, 1}, NEW d \in Profile!DeltasOn(copy[c], n),
               delta' = [delta EXCEPT ![c] = d],
               at[c] \in Holding, NEW to \in Holding, at' = [at EXCEPT ![c] = to],
               UNCHANGED <<row, kind, copy, bound, noted>>
        PROVE  ProfileIInv'
    <2>1. delta' \in [Call -> Merges]
      BY <1>1, <1>8, DeltaTypes DEF ProfileTypes
    <2>2. QED  BY <1>1, <1>8, <2>1 DEF ProfileIInv, ProfileTypes, SeenIsKept
  <1>10. CASE Profile!MergeAtOnce(c)
    <2>1. PICK d \in Profile!DeltasOn(copy[c], 0) :
              /\ delta' = [delta EXCEPT ![c] = d]
              /\ \E to \in Holding : at' = [at EXCEPT ![c] = to]
      BY <1>10 DEF Profile!MergeAtOnce
    <2>2. QED  BY <1>8, <1>10, <2>1 DEF Profile!MergeAtOnce
  <1>11. CASE Profile!Ask(c)
    BY <1>1, <1>11 DEF Profile!Ask, ProfileIInv, ProfileTypes, SeenIsKept
  <1>12. CASE Profile!Answer(c)
    BY <1>8, <1>12 DEF Profile!Answer
  <1>13. CASE Profile!CloseSession(c)
    BY <1>1, <1>13 DEF Profile!CloseSession, ProfileIInv, ProfileTypes, SeenIsKept
  <1>14. CASE Profile!Persist(c)
    <2>1. row' \in Profiles
      <3>1. [Profile!Merged(copy[c], delta[c]) EXCEPT !.recent = TRUE] \in Profiles
        BY <1>1, MergedProfile, ProfileFields DEF ProfileTypes
      <3>2. QED  BY <1>1, <1>14, <3>1 DEF Profile!Persist, ProfileTypes
    <2>2. at' \in [Call -> {"idle", "select", "create", "insert", "reselect", "delete", "failed", "done"}
                           \cup Holding]
          /\ \A d \in Call : at'[d] \in Holding => at[d] \in Holding
      BY <1>1, <1>14 DEF Profile!Persist, ProfileTypes
    <2>3. noted' \in [Call -> SUBSET Signal]
          /\ \A d \in Call : noted'[d] = noted[d] \cap Profile!Stored(row')
      BY <1>1, <1>14 DEF Profile!Persist, ProfileTypes
    <2>4. QED  BY <1>1, <1>14, <2>1, <2>2, <2>3 DEF Profile!Persist, ProfileIInv, ProfileTypes, SeenIsKept
  <1>15. CASE Profile!Touch(c)
    <2>1. row' \in Profiles /\ Profile!Stored(row') = Profile!Stored(row)
      <3>1. row' = row \/ row' = [row EXCEPT !.recent = TRUE]
        BY <1>15 DEF Profile!Touch
      <3>2. QED  BY <1>1, <3>1, ProfileFields DEF ProfileTypes
    <2>2. QED  BY <1>1, <1>15, <2>1 DEF Profile!Touch, ProfileIInv, ProfileTypes, SeenIsKept
  <1>16. CASE Profile!Reset(c)
    BY <1>1, <1>2, <1>16 DEF Profile!Reset, ProfileIInv, ProfileTypes, SeenIsKept
  <1>17. QED
    BY <1>3, <1>4, <1>5, <1>6, <1>7, <1>10, <1>11, <1>12, <1>13, <1>14, <1>15, <1>16

LEMMA ProfileStep == ProfileIInv /\ [Profile!Next]_(Profile!profileVars) => ProfileIInv'
  <1> SUFFICES ASSUME ProfileIInv, [Profile!Next]_(Profile!profileVars) PROVE ProfileIInv'
    OBVIOUS
  <1>1. CASE Profile!Cool
    <2>1. row' \in Profiles /\ Profile!Stored(row') = Profile!Stored(row)
      BY <1>1, ProfileFields DEF Profile!Cool, ProfileIInv, ProfileTypes
    <2>2. QED  BY <1>1, <2>1 DEF Profile!Cool, ProfileIInv, ProfileTypes, SeenIsKept
  <1>2. CASE UNCHANGED Profile!profileVars
    BY <1>2 DEF Profile!profileVars, ProfileIInv, ProfileTypes, SeenIsKept
  <1>3. QED  BY <1>1, <1>2, ProfileCallStep DEF Profile!Next

\* What a step takes out of a profile that stays there.
LEMMA ProfileLoss ==
    ASSUME ProfileIInv, Profile!Next, row' # Profile!NoRow,
           NEW s \in Profile!Stored(row) \ Profile!Stored(row')
    PROVE  \E c \in Call :
               /\ at[c] = "persist" /\ at'[c] = "done"
               /\ s \notin noted[c] \/ delta[c].replaces \/ Profile!PushedOut(c, s)
  <1> USE DEF Profile!Go, Holding
  <1>1. ProfileTypes /\ SeenIsKept
    BY DEF ProfileIInv
  <1>2. ~Profile!Cool
    BY <1>1, ProfileFields DEF Profile!Cool, ProfileTypes
  <1>3. PICK c \in Call :
            \/ Profile!Begin(c) \/ Profile!Select(c) \/ Profile!Create(c) \/ Profile!Insert(c)
            \/ Profile!Reselect(c) \/ Profile!MergeAtOnce(c) \/ Profile!Ask(c) \/ Profile!Answer(c)
            \/ Profile!CloseSession(c) \/ Profile!Persist(c) \/ Profile!Touch(c) \/ Profile!Reset(c)
    BY <1>2 DEF Profile!Next
  <1>4. row' # row
    OBVIOUS
  <1>5. ~Profile!Insert(c)
    <2>1. row # Profile!NoRow
      BY DEF Profile!NoRow, Profile!Stored
    <2>2. QED  BY <1>4, <2>1 DEF Profile!Insert
  <1>6. ~Profile!Touch(c)
    <2>1. Profile!Touch(c) => row' = row \/ row' = [row EXCEPT !.recent = TRUE]
      BY DEF Profile!Touch
    <2>2. QED  BY <1>1, <1>4, <2>1, ProfileFields DEF ProfileTypes
  <1>7. ~Profile!Reset(c)
    BY DEF Profile!Reset
  <1>8. Profile!Persist(c)
    BY <1>3, <1>4, <1>5, <1>6, <1>7
    DEF Profile!Begin, Profile!Select, Profile!Create, Profile!Reselect, Profile!MergeAtOnce,
        Profile!Ask, Profile!Answer, Profile!CloseSession
  <1>9. /\ at[c] = "persist" /\ at'[c] = "done"
        /\ row' = [Profile!Merged(copy[c], delta[c]) EXCEPT !.recent = TRUE]
    BY <1>1, <1>4, <1>8 DEF Profile!Persist, ProfileTypes
  <1>10. Profile!Stored(row') = Profile!Stored(Profile!Merged(copy[c], delta[c]))
    BY <1>1, <1>9, MergedProfile, ProfileFields DEF ProfileTypes
  <1>11. ASSUME s \in noted[c] PROVE delta[c].replaces \/ Profile!PushedOut(c, s)
    <2>1. s \in Profile!Stored(copy[c])
      BY <1>1, <1>9, <1>11 DEF SeenIsKept
    <2>2. copy[c] \in Profiles /\ delta[c] \in Merges
      BY <1>1 DEF ProfileTypes
    <2>3. QED  BY <1>10, <2>1, <2>2, MergedProfile DEF Profile!PushedOut
  <1>12. QED  BY <1>9, <1>11

\* An entry leaves a profile only by a reset, or by the write of a call that had
\* begun before the entry was there or whose delta replaces it or pushes it out,
\* for any calls at the same time, any deltas and any cap.
THEOREM ProfileLossNeedsOverlap == Profile!Spec => LossNeedsOverlap
  <1>1. ProfileIInv /\ [Profile!Next]_(Profile!profileVars)
        => [row' # Profile!NoRow =>
              \A s \in Profile!Stored(row) \ Profile!Stored(row') :
                  \E c \in Call :
                      /\ at[c] = "persist" /\ at'[c] = "done"
                      /\ s \notin noted[c] \/ delta[c].replaces \/ Profile!PushedOut(c, s)]_(Profile!profileVars)
    BY ProfileLoss
  <1>2. QED  BY <1>1, ProfileInit, ProfileStep, PTL DEF Profile!Spec, LossNeedsOverlap, Profile!LossNeedsOverlap

-----------------------------------------------------------------------------
(* The parts beside each other *)

\* A step of the builders is a step or a stutter of each part.
LEMMA BuildersSteps ==
    [BuildersNext]_buildersVars =>
        /\ [Next]_vars /\ [Pipeline!Next]_Pipeline!vars
        /\ [Workflows!Next]_(Workflows!appVars) /\ [Profile!Next]_(Profile!profileVars)
  BY DEF BuildersNext, buildersVars, pipelineVars, workflowVars, profileVars, vars, Pipeline!vars,
         Workflows!appVars, Profile!profileVars

\* In any behaviour of the four builders all their safety properties hold.
THEOREM BuildersSafe ==
    BuildersSpec => /\ []StepsInOrder /\ []EditsAccounted /\ CancelStopsRounds
                    /\ []PlanInOrder /\ []VerdictIsTrue
                    /\ []GraphInOrder /\ LossNeedsOverlap
  <1>1. BuildersInit => Init /\ Pipeline!Init /\ Workflows!Init /\ Profile!Init
    BY DEF BuildersInit
  <1>2. BuildersSpec => Init /\ [][Next]_vars
    BY <1>1, BuildersSteps, PTL DEF BuildersSpec
  <1>3. BuildersSpec => Pipeline!Spec
    BY <1>1, BuildersSteps, PTL DEF BuildersSpec, Pipeline!Spec
  <1>4. BuildersSpec => Workflows!Spec
    BY <1>1, BuildersSteps, PTL DEF BuildersSpec, Workflows!Spec
  <1>5. BuildersSpec => Profile!Spec
    BY <1>1, BuildersSteps, PTL DEF BuildersSpec, Profile!Spec
  <1>6. BuildersSpec => []StepsInOrder /\ []EditsAccounted
    BY <1>2, CodingInvariant, StepsPlaced, EditsInvariant, EditsCounted, PTL
  <1>7. BuildersSpec => CancelStopsRounds
    BY <1>2, CodingInvariant, CancelledStarts, PTL DEF CancelStopsRounds
  <1>8. QED
    BY <1>3, <1>4, <1>5, <1>6, <1>7, PipelinePlanInOrder, PipelineVerdictTrue,
       WorkflowsGraphInOrder, ProfileLossNeedsOverlap, PTL

===============================================================================
