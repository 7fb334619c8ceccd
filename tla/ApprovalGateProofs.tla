------------------------- MODULE ApprovalGateProofs -------------------------
(***************************************************************************)
(* Proofs about the approval gate, for any finite set of requests, any     *)
(* limit of the pending table and any number of answers.                   *)
(*                                                                         *)
(* The inductive invariant adds to the properties what ties the four views *)
(* of one request together (where its caller stands, the pending table,    *)
(* the event, the history): Coherent(r).  Without it a step could resume a *)
(* request that had never been answered, or answer one that has returned.  *)
(***************************************************************************)
EXTENDS ApprovalGate, TLAPS, FiniteSetTheorems

Coherent(r) ==
    /\ caller[r] = "idle" =>
         r \notin pending /\ logged[r] = 0 /\ resolvedBy[r] = "none" /\ ~SaidYes(r)
    /\ r \in pending =>
         caller[r] \in {"waiting", "expiring", "cancelled"} /\ logged[r] = 0
    /\ Blocked(r) /\ r \notin pending => status[r] = "rejected" /\ logged[r] = 1
    /\ Blocked(r) => risk[r] # "low"
    /\ caller[r] = "waiting" /\ r \notin pending => event[r]
    /\ status[r] = "approved" => resolvedBy[r] = "user" /\ SaidYes(r) /\ LastAnswer(r)
    /\ resolvedBy[r] = "timeout" => Returned(r)

IInv ==
    /\ TypeOK
    /\ PendingBound
    /\ GrantIsEarned
    /\ LoggedWhenReturned
    /\ \A r \in Req : Coherent(r)

-----------------------------------------------------------------------------

\* What one more answer does to the two predicates that read the answers.
LEMMA AppendAnswer ==
    ASSUME NEW s \in Seq(BOOLEAN), NEW b \in BOOLEAN
    PROVE  /\ Append(s, b) \in Seq(BOOLEAN)
           /\ Len(Append(s, b)) \in Nat \ {0}
           /\ Append(s, b)[Len(Append(s, b))] = b
  OBVIOUS

LEMMA AppendSaysYes ==
    ASSUME NEW s \in Seq(BOOLEAN), NEW b \in BOOLEAN, NEW t, t = Append(s, b)
    PROVE  (\E i \in 1..Len(t) : t[i] = TRUE)
             <=> (b = TRUE \/ \E i \in 1..Len(s) : s[i] = TRUE)
  <1>1. /\ Len(s) \in Nat
        /\ Len(t) = Len(s) + 1
        /\ t[Len(s) + 1] = b
        /\ \A i \in 1..Len(s) : t[i] = s[i]
    OBVIOUS
  <1>2. 1..Len(t) = 1..Len(s) \cup {Len(s) + 1}
    BY <1>1
  <1>3. QED  BY <1>1, <1>2, Zenon

\* Evicting one pending request makes room for one more.
LEMMA PendingStaysBounded ==
    ASSUME NEW S \in SUBSET Req, NEW r \in Req,
           Cardinality(S) <= MaxPending
    PROVE  /\ Cardinality(S \ {r}) <= MaxPending
           /\ Cardinality(S) < MaxPending => Cardinality(S \cup {r}) <= MaxPending
           /\ \A o \in S : Cardinality((S \ {o}) \cup {r}) <= MaxPending
  <1>1. IsFiniteSet(S) /\ Cardinality(S) \in Nat
    BY GateAssumption, FS_Subset, FS_CardinalityType
  <1>2. IsFiniteSet(S \ {r}) /\ Cardinality(S \ {r}) \in {Cardinality(S), Cardinality(S) - 1}
    BY <1>1, FS_RemoveElement
  <1>3. Cardinality(S \cup {r}) \in {Cardinality(S), Cardinality(S) + 1}
    BY <1>1, FS_AddElement
  <1>4. ASSUME NEW o \in S
        PROVE  Cardinality((S \ {o}) \cup {r}) <= MaxPending
    <2>1. IsFiniteSet(S \ {o}) /\ Cardinality(S \ {o}) = Cardinality(S) - 1
      BY <1>1, FS_RemoveElement
    <2>2. Cardinality((S \ {o}) \cup {r})
            \in {Cardinality(S \ {o}), Cardinality(S \ {o}) + 1}
      BY <2>1, FS_AddElement
    <2>3. QED  BY <1>1, <2>1, <2>2, GateAssumption
  <1>5. QED  BY <1>1, <1>2, <1>3, <1>4, GateAssumption

-----------------------------------------------------------------------------

LEMMA InitIInv == Init => IInv
  <1> SUFFICES ASSUME Init PROVE IInv
    OBVIOUS
  <1>1. TypeOK
    BY DEF Init, TypeOK, Callers
  <1>2. PendingBound
    BY GateAssumption, FS_EmptySet DEF Init, PendingBound
  <1>3. GrantIsEarned /\ LoggedWhenReturned
    BY DEF Init, GrantIsEarned, LoggedWhenReturned, Returned
  <1>4. ASSUME NEW r \in Req PROVE Coherent(r)
    BY DEF Init, Coherent, Blocked, Returned, SaidYes
  <1>5. QED  BY <1>1, <1>2, <1>3, <1>4 DEF IInv

\* The step lemma: one case per action of one request.
LEMMA StepIInv == IInv /\ [Next]_vars => IInv'
  <1> SUFFICES ASSUME IInv, [Next]_vars PROVE IInv'
    OBVIOUS
  <1> USE DEF Returned, Blocked
  <1>1. /\ TypeOK /\ PendingBound /\ GrantIsEarned /\ LoggedWhenReturned
        /\ \A q \in Req : Coherent(q)
    BY DEF IInv
  <1>2. ASSUME NEW r \in Req, RequestLow(r) PROVE IInv'
    <2>1. TypeOK'
      BY <1>1, <1>2 DEF RequestLow, TypeOK, Callers, Risk, Status
    <2>2. PendingBound'
      BY <1>1, <1>2 DEF RequestLow, PendingBound
    <2>3. GrantIsEarned' /\ LoggedWhenReturned'
      BY <1>1, <1>2 DEF RequestLow, TypeOK, GrantIsEarned, LoggedWhenReturned,
                        SaidYes, LastAnswer, Coherent
    <2>4. ASSUME NEW q \in Req PROVE Coherent(q)'
      BY <1>1, <1>2 DEF RequestLow, TypeOK, Coherent, SaidYes, LastAnswer
    <2>5. QED  BY <2>1, <2>2, <2>3, <2>4 DEF IInv
  <1>3. ASSUME NEW r \in Req, NEW k \in Risk \ {"low"}, NEW t \in TimeoutArg,
               RequestWithRoom(r, k, t)
        PROVE  IInv'
    <2>1. TypeOK'
      <3>1. EffectiveTimeout(k, t) \in BOOLEAN
        BY DEF EffectiveTimeout
      <3>2. timed' \in [Req -> BOOLEAN]
        BY <1>1, <1>3, <3>1 DEF RequestWithRoom, Enqueue, TypeOK
      <3>3. QED
        BY <1>1, <1>3, <3>2 DEF RequestWithRoom, Enqueue, TypeOK, Callers, Risk, Status
    <2>2. PendingBound'
      <3>1. Cardinality(pending) \in Nat
        BY <1>1, GateAssumption, FS_Subset, FS_CardinalityType DEF TypeOK
      <3>2. Cardinality(pending) < MaxPending
        BY <1>3, <3>1, GateAssumption DEF RequestWithRoom, Full
      <3>3. QED
        BY <1>1, <1>3, <3>2, PendingStaysBounded DEF RequestWithRoom, PendingBound, TypeOK
    <2>3. GrantIsEarned' /\ LoggedWhenReturned'
      BY <1>1, <1>3 DEF RequestWithRoom, Enqueue, TypeOK, GrantIsEarned,
                        LoggedWhenReturned, SaidYes, LastAnswer
    <2>4. ASSUME NEW q \in Req PROVE Coherent(q)'
      BY <1>1, <1>3 DEF RequestWithRoom, Enqueue, TypeOK, Coherent, SaidYes, LastAnswer
    <2>5. QED  BY <2>1, <2>2, <2>3, <2>4 DEF IInv
  <1>4. ASSUME NEW r \in Req, NEW k \in Risk \ {"low"}, NEW t \in TimeoutArg, NEW o \in Req,
               RequestEvicting(r, k, t, o)
        PROVE  IInv'
    <2>1. o \in pending /\ r \notin pending /\ o # r
      BY <1>1, <1>4 DEF RequestEvicting, Oldest, Enqueue, Coherent
    <2>2. TypeOK'
      <3>1. EffectiveTimeout(k, t) \in BOOLEAN
        BY DEF EffectiveTimeout
      <3>2. timed' \in [Req -> BOOLEAN]
        BY <1>1, <1>4, <3>1 DEF RequestEvicting, Enqueue, TypeOK
      <3>3. status' \in [Req -> Status \cup {"none"}]
        BY <1>1, <1>4 DEF RequestEvicting, TypeOK, Status
      <3>4. /\ resolvedBy' \in [Req -> {"none", "user", "timeout", "auto", "system"}]
            /\ event' \in [Req -> BOOLEAN]
            /\ logged' \in [Req -> Nat]
            /\ pending' \in SUBSET Req
        BY <1>1, <1>4 DEF RequestEvicting, TypeOK
      <3>5. /\ caller' \in [Req -> Callers]
            /\ risk' \in [Req -> Risk \cup {"none"}]
            /\ born' \in [Req -> Nat]
            /\ clock' \in Nat
            /\ answers' \in [Req -> Seq(BOOLEAN)]
        BY <1>1, <1>4 DEF RequestEvicting, Enqueue, TypeOK, Callers
      <3>6. QED  BY <3>2, <3>3, <3>4, <3>5 DEF TypeOK
    <2>3. PendingBound'
      BY <1>1, <1>4, <2>1, PendingStaysBounded DEF RequestEvicting, PendingBound, TypeOK
    <2>4. GrantIsEarned' /\ LoggedWhenReturned'
      <3>1. ~Returned(o)' /\ ~Returned(r)'
        BY <1>1, <1>4, <2>1 DEF RequestEvicting, Enqueue, TypeOK, Coherent
      <3>2. ASSUME NEW q \in Req \ {o, r}
            PROVE  /\ caller'[q] = caller[q] /\ risk'[q] = risk[q]
                   /\ status'[q] = status[q] /\ resolvedBy'[q] = resolvedBy[q]
                   /\ logged'[q] = logged[q] /\ answers'[q] = answers[q]
        BY <1>1, <1>4, <2>1 DEF RequestEvicting, Enqueue, TypeOK
      <3>3. QED
        BY <1>1, <3>1, <3>2 DEF GrantIsEarned, LoggedWhenReturned, SaidYes, LastAnswer
    <2>5. ASSUME NEW q \in Req PROVE Coherent(q)'
      BY <1>1, <1>4, <2>1 DEF RequestEvicting, Enqueue, TypeOK, Coherent, SaidYes,
                              LastAnswer
    <2>6. QED  BY <2>2, <2>3, <2>4, <2>5 DEF IInv
  <1>5. ASSUME NEW r \in Req, ResumeAnswered(r) PROVE IInv'
    <2>1. TypeOK'
      BY <1>1, <1>5 DEF ResumeAnswered, TypeOK, Callers
    <2>2. PendingBound'
      BY <1>1, <1>5, PendingStaysBounded DEF ResumeAnswered, PendingBound, TypeOK
    <2>3. GrantIsEarned'
      BY <1>1, <1>5 DEF ResumeAnswered, TypeOK, GrantIsEarned, SaidYes, LastAnswer, Coherent
    <2>4. LoggedWhenReturned'
      BY <1>1, <1>5 DEF ResumeAnswered, TypeOK, LoggedWhenReturned, Coherent
    <2>5. ASSUME NEW q \in Req PROVE Coherent(q)'
      BY <1>1, <1>5 DEF ResumeAnswered, TypeOK, Coherent, SaidYes, LastAnswer
    <2>6. QED  BY <2>1, <2>2, <2>3, <2>4, <2>5 DEF IInv
  <1>6. ASSUME NEW r \in Req, TimerFires(r) \/ CancelCaller(r) PROVE IInv'
    <2>1. TypeOK'
      BY <1>1, <1>6 DEF TimerFires, CancelCaller, TypeOK, Callers
    <2>2. PendingBound'
      BY <1>1, <1>6 DEF TimerFires, CancelCaller, PendingBound
    <2>3. GrantIsEarned' /\ LoggedWhenReturned'
      BY <1>1, <1>6 DEF TimerFires, CancelCaller, TypeOK, GrantIsEarned,
                        LoggedWhenReturned, SaidYes, LastAnswer
    <2>4. ASSUME NEW q \in Req PROVE Coherent(q)'
      BY <1>1, <1>6 DEF TimerFires, CancelCaller, TypeOK, Coherent, SaidYes, LastAnswer
    <2>5. QED  BY <2>1, <2>2, <2>3, <2>4 DEF IInv
  <1>7. ASSUME NEW r \in Req, ResumeTimedOut(r) PROVE IInv'
    <2>1. TypeOK'
      BY <1>1, <1>7 DEF ResumeTimedOut, TypeOK, Callers, Status
    <2>2. PendingBound'
      BY <1>1, <1>7, PendingStaysBounded DEF ResumeTimedOut, PendingBound, TypeOK
    <2>3. GrantIsEarned'
      BY <1>1, <1>7 DEF ResumeTimedOut, TypeOK, GrantIsEarned, SaidYes, LastAnswer
    <2>4. LoggedWhenReturned'
      BY <1>1, <1>7 DEF ResumeTimedOut, TypeOK, LoggedWhenReturned, Coherent
    <2>5. ASSUME NEW q \in Req PROVE Coherent(q)'
      BY <1>1, <1>7 DEF ResumeTimedOut, TypeOK, Coherent, SaidYes, LastAnswer
    <2>6. QED  BY <2>1, <2>2, <2>3, <2>4, <2>5 DEF IInv
  <1>8. ASSUME NEW r \in Req, NEW b \in BOOLEAN, Respond(r, b) PROVE IInv'
    <2>1. /\ answers[r] \in Seq(BOOLEAN)
          /\ answers' = [answers EXCEPT ![r] = Append(answers[r], b)]
          /\ answers'[r] = Append(answers[r], b)
          /\ \A q \in Req \ {r} : answers'[q] = answers[q]
      BY <1>1, <1>8 DEF Respond, TypeOK
    <2>2. TypeOK'
      BY <1>1, <1>8, <2>1, AppendAnswer DEF Respond, TypeOK, Status
    <2>3. PendingBound'
      BY <1>1, <1>8 DEF Respond, PendingBound
    <2>4. caller[r] \in {"waiting", "expiring", "cancelled"} /\ logged[r] = 0
      BY <1>1, <1>8 DEF Respond, Coherent
    <2>5. GrantIsEarned' /\ LoggedWhenReturned'
      BY <1>1, <1>8, <2>1, <2>4 DEF Respond, TypeOK, GrantIsEarned, LoggedWhenReturned,
                                    SaidYes, LastAnswer
    <2>6. b => SaidYes(r)' /\ LastAnswer(r)'
      <3>1. SUFFICES ASSUME b = TRUE PROVE SaidYes(r)' /\ LastAnswer(r)'
        OBVIOUS
      <3>2. /\ Len(answers'[r]) \in 1..Len(answers'[r])
            /\ answers'[r][Len(answers'[r])] = TRUE
        BY <2>1, <3>1, AppendAnswer
      <3>3. QED  BY <3>2, Zenon DEF SaidYes, LastAnswer
    <2>7. ASSUME NEW q \in Req PROVE Coherent(q)'
      <3>1. CASE q = r
        BY <1>1, <1>8, <2>1, <2>4, <2>6, <3>1 DEF Respond, TypeOK, Coherent
      <3>2. CASE q # r
        BY <1>1, <1>8, <2>1, <3>2 DEF Respond, TypeOK, Coherent, SaidYes, LastAnswer
      <3>3. QED  BY <3>1, <3>2
    <2>8. QED  BY <2>2, <2>3, <2>5, <2>7 DEF IInv
  <1>9. CASE UNCHANGED vars
    BY <1>1, <1>9 DEF vars, IInv, TypeOK, PendingBound, GrantIsEarned, LoggedWhenReturned,
                 Coherent, SaidYes, LastAnswer
  <1>10. QED
    BY <1>2, <1>3, <1>4, <1>5, <1>6, <1>7, <1>8, <1>9 DEF Next, RequestBlocking

LEMMA Invariance == Spec => []IInv
  BY InitIInv, StepIInv, PTL DEF Spec

-----------------------------------------------------------------------------

\* The gate's variables keep their types.
THEOREM GateTypeCorrect == Spec => []TypeOK
  BY Invariance, PTL DEF IInv

\* No agent is granted an action of high or critical risk unless the last
\* acknowledged answer was yes and no eviction rejected it since.
THEOREM GateGrantsAreEarned == Spec => []GrantIsEarned
  BY Invariance, PTL DEF IInv

\* _pending holds at most _MAX_PENDING requests, whatever callers are cancelled.
THEOREM GatePendingBounded == Spec => []PendingBound
  BY Invariance, PTL DEF IInv

\* A suspended caller is still answerable or already woken; a returned one is
\* not answerable any more.
THEOREM GateNoLostWaiter == Spec => []NoLostWaiter
  <1>1. IInv => NoLostWaiter
    BY DEF IInv, Coherent, NoLostWaiter, Returned
  <1>2. QED  BY <1>1, Invariance, PTL

\* Every returned request is in the history, twice only if it was evicted.
THEOREM GateLogsReturned == Spec => []LoggedWhenReturned
  BY Invariance, PTL DEF IInv

\* What a caller was told is final, in the outcome, the status and the history.
THEOREM GateDecisionsFinal == Spec => DecisionFinal
  <1> DEFINE Frozen(r) == /\ caller'[r] = caller[r]
                          /\ status'[r] = status[r]
                          /\ resolvedBy'[r] = resolvedBy[r]
                          /\ logged'[r] = logged[r]
  <1>1. ASSUME IInv, [Next]_vars, NEW r \in Req, Returned(r)
        PROVE  Frozen(r)
    <2>1. r \notin pending /\ TypeOK
      BY <1>1 DEF IInv, Coherent, Returned
    <2>2. CASE UNCHANGED vars
      BY <2>2 DEF vars
    <2>3. ASSUME NEW q \in Req, NEW k \in Risk \ {"low"}, NEW t \in TimeoutArg,
                 RequestWithRoom(q, k, t) \/ \E o \in Req : RequestEvicting(q, k, t, o)
          PROVE  Frozen(r)
      BY <1>1, <2>1, <2>3 DEF TypeOK, Returned, RequestWithRoom, RequestEvicting, Enqueue,
                              Oldest
    <2>4. ASSUME NEW q \in Req, \/ RequestLow(q) \/ ResumeAnswered(q) \/ TimerFires(q)
                                \/ ResumeTimedOut(q) \/ CancelCaller(q)
          PROVE  Frozen(r)
      BY <1>1, <2>1, <2>4 DEF TypeOK, Returned, Blocked, RequestLow, ResumeAnswered,
                              TimerFires, ResumeTimedOut, CancelCaller
    <2>5. ASSUME NEW q \in Req, NEW b \in BOOLEAN, Respond(q, b)
          PROVE  Frozen(r)
      BY <1>1, <2>1, <2>5 DEF TypeOK, Respond
    <2>6. QED
      BY <1>1, <2>2, <2>3, <2>4, <2>5 DEF Next, RequestBlocking
  <1>2. IInv /\ [Next]_vars => [\A r \in Req : Returned(r) => Frozen(r)]_vars
    BY <1>1
  <1>3. QED  BY <1>2, Invariance, PTL DEF Spec, DecisionFinal

-----------------------------------------------------------------------------
(* The gate implements ApprovalPromise *)

\* The abstract step that each step of the gate takes, said in the gate's terms.
LEMMA AbstractStep ==
    ASSUME IInv, [Next]_vars
    PROVE  [Promise!Next]_(Promise!vars)
  <1> USE DEF Promise!vars, Promise!Next
  <1>1. /\ TypeOK /\ \A q \in Req : Coherent(q)
    BY DEF IInv
  <1>2. CASE UNCHANGED vars
    BY <1>2 DEF vars, Blocked, SaidYes
  <1>3. ASSUME NEW r \in Req, RequestLow(r) PROVE Promise!Next
    <2>1. Promise!Open(r, "low")
      BY <1>1, <1>3 DEF RequestLow, TypeOK, Callers, Blocked, SaidYes, Promise!Open
    <2>2. QED  BY <2>1 DEF Promise!Risk
  <1>4. ASSUME NEW r \in Req, NEW k \in Risk \ {"low"}, NEW t \in TimeoutArg,
               RequestWithRoom(r, k, t) \/ \E o \in Req : RequestEvicting(r, k, t, o)
        PROVE  Promise!Next
    <2>1. Enqueue(r, k, t)
      BY <1>4 DEF RequestWithRoom, RequestEvicting
    <2>2. Promise!Open(r, k)
      BY <1>1, <2>1 DEF Enqueue, TypeOK, Callers, Blocked, SaidYes, Promise!Open
    <2>3. QED  BY <2>2 DEF Promise!Risk, Risk
  <1>5. ASSUME NEW r \in Req, ResumeAnswered(r) PROVE Promise!Next
    <2>1. CASE status[r] = "approved"
      <3>1. Promise!Grant(r)
        BY <1>1, <1>5, <2>1 DEF ResumeAnswered, TypeOK, Callers, Blocked, SaidYes, Coherent,
                                Promise!Grant
      <3>2. QED  BY <3>1
    <2>2. CASE status[r] # "approved"
      <3>1. Promise!Deny(r)
        BY <1>1, <1>5, <2>2 DEF ResumeAnswered, TypeOK, Callers, Blocked, SaidYes,
                                Promise!Deny
      <3>2. QED  BY <3>1
    <2>3. QED  BY <2>1, <2>2
  <1>6. ASSUME NEW r \in Req, TimerFires(r) PROVE UNCHANGED Promise!vars
    BY <1>1, <1>6 DEF TimerFires, TypeOK, Callers, Blocked, SaidYes
  <1>7. ASSUME NEW r \in Req, ResumeTimedOut(r) PROVE Promise!Next
    <2>1. CASE risk[r] = "medium"
      <3>1. Promise!Grant(r)
        BY <1>1, <1>7, <2>1 DEF ResumeTimedOut, TypeOK, Callers, Blocked, SaidYes,
                                Promise!Grant
      <3>2. QED  BY <3>1
    <2>2. CASE risk[r] # "medium"
      <3>1. Promise!Deny(r)
        BY <1>1, <1>7, <2>2 DEF ResumeTimedOut, TypeOK, Callers, Blocked, SaidYes,
                                Promise!Deny
      <3>2. QED  BY <3>1
    <2>3. QED  BY <2>1, <2>2
  <1>8. ASSUME NEW r \in Req, CancelCaller(r) PROVE Promise!Next
    <2>1. Promise!Abandon(r)
      BY <1>1, <1>8 DEF CancelCaller, TypeOK, Callers, Blocked, SaidYes, Promise!Abandon
    <2>2. QED  BY <2>1
  <1>9. ASSUME NEW r \in Req, NEW b \in BOOLEAN, Respond(r, b)
        PROVE  [Promise!Next]_(Promise!vars)
    <2>1. UNCHANGED <<caller, risk>> /\ caller[r] \in {"waiting", "expiring", "cancelled"}
      BY <1>1, <1>9 DEF Respond, Coherent
    <2>2. \A q \in Req : SaidYes(q)' <=> (SaidYes(q) \/ (q = r /\ b = TRUE))
      <3>1. /\ answers[r] \in Seq(BOOLEAN) /\ answers'[r] = Append(answers[r], b)
            /\ \A q \in Req \ {r} : answers'[q] = answers[q]
        BY <1>1, <1>9 DEF Respond, TypeOK
      <3>2. answers'[r] \in Seq(BOOLEAN)
        BY <3>1, AppendAnswer
      <3>3. ASSUME NEW s \in Seq(BOOLEAN), NEW i \in 1..Len(s)
            PROVE  s[i] <=> s[i] = TRUE
        <4>1. s[i] \in BOOLEAN
          OBVIOUS
        <4>2. QED  BY <4>1, Zenon
      <3>4. SaidYes(r) <=> \E i \in 1..Len(answers[r]) : answers[r][i] = TRUE
        BY <3>1, <3>3, Zenon DEF SaidYes
      <3>5. SaidYes(r)' <=> \E i \in 1..Len(answers'[r]) : answers'[r][i] = TRUE
        BY <3>2, <3>3, Zenon DEF SaidYes
      <3>6. SaidYes(r)' <=> (SaidYes(r) \/ b = TRUE)
        <4>1. (\E i \in 1..Len(answers'[r]) : answers'[r][i] = TRUE)
                <=> (b = TRUE \/ \E i \in 1..Len(answers[r]) : answers[r][i] = TRUE)
          BY <3>1, AppendSaysYes, Zenon
        <4>2. QED  BY <3>4, <3>5, <4>1, Zenon
      <3>7. ASSUME NEW q \in Req \ {r} PROVE SaidYes(q)' <=> SaidYes(q)
        BY <3>1, Zenon DEF SaidYes
      <3>8. QED  BY <3>6, <3>7, Zenon
    <2>3. CASE b = TRUE
      <3>1. {q \in Req : SaidYes(q)}' = {q \in Req : SaidYes(q)} \cup {r}
        BY <2>2, <2>3, Zenon
      <3>2. Promise!SayYes(r)
        BY <1>1, <2>1, <3>1 DEF TypeOK, Callers, Blocked, Promise!SayYes
      <3>3. QED  BY <3>2
    <2>4. CASE b # TRUE
      <3>1. {q \in Req : SaidYes(q)}' = {q \in Req : SaidYes(q)}
        BY <2>2, <2>4, Zenon
      <3>2. UNCHANGED Promise!vars
        BY <2>1, <3>1 DEF Blocked
      <3>3. QED  BY <3>2
    <2>5. QED  BY <2>3, <2>4
  <1>10. QED
    BY <1>2, <1>3, <1>4, <1>5, <1>6, <1>7, <1>8, <1>9 DEF Next, RequestBlocking

\* The gate implements the promise for every set of requests and every limit.
THEOREM GateKeepsPromise == Spec => KeepsPromise
  <1>1. Init => Promise!Init
    BY DEF Init, Promise!Init, Blocked, SaidYes
  <1>2. IInv /\ [Next]_vars => [Promise!Next]_(Promise!vars)
    BY AbstractStep
  <1>3. QED  BY <1>1, <1>2, Invariance, PTL DEF Spec, KeepsPromise, Promise!Spec

=============================================================================
