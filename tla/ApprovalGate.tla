---------------------------- MODULE ApprovalGate ----------------------------
(***************************************************************************)
(* The approval gate of the AI service (app/approval/gate.py): agents call *)
(* the coroutine request(), which blocks on an asyncio.Event, and the REST *)
(* router calls respond() from other coroutines of the same event loop.    *)
(* Code between two awaits is atomic, so an action is one stretch of code  *)
(* between suspension points.                                              *)
(*                                                                         *)
(* asyncio.wait_for() (Python 3.11) is two steps: the timer callback       *)
(* releases the waiter (TimerFires), and the coroutine resumes a loop      *)
(* iteration later (ResumeTimedOut).  Between the two the request is still *)
(* in _pending and respond() still accepts answers for it.  An event set   *)
(* before the timer fires wins; one set after it loses.                    *)
(***************************************************************************)
EXTENDS Naturals, Sequences, FiniteSets

CONSTANTS Req,          \* the requests agents submit, each one once
          MaxPending,   \* _MAX_PENDING
          MaxAnswers    \* bound: answers a human gives to one request

ASSUME GateAssumption ==
    /\ IsFiniteSet(Req)
    /\ MaxPending \in Nat \ {0}
    /\ MaxAnswers \in Nat \ {0}

Risk == {"low", "medium", "high", "critical"}
Status == {"pending", "approved", "rejected", "timed_out", "auto_approved"}

\* The timeout_s argument: absent, zero (falsy, so it waits without a timer)
\* or a positive number of seconds.
TimeoutArg == {"absent", "zero", "positive"}

VARIABLES
    caller,     \* caller[r]: where the coroutine request(r) stands
    risk,       \* risk[r], "none" before the request is made
    timed,      \* timed[r]: request(r) waits under a timer
    status,     \* status[r], "none" before the request is made
    resolvedBy, \* resolved_by of r
    event,      \* event[r]: r._event is set
    pending,    \* the keys of _pending
    born,       \* born[r]: position of r in the insertion order of _pending
    clock,      \* the next position
    logged,     \* logged[r]: how many entries of _history are r
    answers     \* answers[r]: the answers for which respond(r) returned True

vars == <<caller, risk, timed, status, resolvedBy, event, pending, born, clock,
          logged, answers>>

Callers == {"idle", "waiting", "expiring", "granted", "denied", "cancelled"}
Blocked(r) == caller[r] \in {"waiting", "expiring"}
Returned(r) == caller[r] \in {"granted", "denied"}

TypeOK ==
    /\ caller \in [Req -> Callers]
    /\ risk \in [Req -> Risk \cup {"none"}]
    /\ timed \in [Req -> BOOLEAN]
    /\ status \in [Req -> Status \cup {"none"}]
    /\ resolvedBy \in [Req -> {"none", "user", "timeout", "auto", "system"}]
    /\ event \in [Req -> BOOLEAN]
    /\ pending \in SUBSET Req
    /\ born \in [Req -> Nat]
    /\ clock \in Nat
    /\ logged \in [Req -> Nat]
    /\ answers \in [Req -> Seq(BOOLEAN)]

Init ==
    /\ caller = [r \in Req |-> "idle"]
    /\ risk = [r \in Req |-> "none"]
    /\ timed = [r \in Req |-> FALSE]
    /\ status = [r \in Req |-> "none"]
    /\ resolvedBy = [r \in Req |-> "none"]
    /\ event = [r \in Req |-> FALSE]
    /\ pending = {}
    /\ born = [r \in Req |-> 0]
    /\ clock = 0
    /\ logged = [r \in Req |-> 0]
    /\ answers = [r \in Req |-> <<>>]

-----------------------------------------------------------------------------
(* request(), up to its await *)

EffectiveTimeout(k, t) ==
    \/ t = "positive"
    \/ t = "absent" /\ k = "medium"

\* request(risk_level=LOW): logged and granted without waiting.
RequestLow(r) ==
    /\ caller[r] = "idle"
    /\ caller' = [caller EXCEPT ![r] = "granted"]
    /\ risk' = [risk EXCEPT ![r] = "low"]
    /\ status' = [status EXCEPT ![r] = "auto_approved"]
    /\ resolvedBy' = [resolvedBy EXCEPT ![r] = "auto"]
    /\ logged' = [logged EXCEPT ![r] = @ + 1]
    /\ UNCHANGED <<timed, event, pending, born, clock, answers>>

\* The first key of the dictionary _pending: the one inserted before all others.
Oldest(o) == o \in pending /\ \A q \in pending : born[o] <= born[q]

\* The rest of request(): the new request joins _pending and its caller blocks.
Enqueue(r, k, t) ==
    /\ caller[r] = "idle"
    /\ caller' = [caller EXCEPT ![r] = "waiting"]
    /\ risk' = [risk EXCEPT ![r] = k]
    /\ timed' = [timed EXCEPT ![r] = EffectiveTimeout(k, t)]
    /\ born' = [born EXCEPT ![r] = clock]
    /\ clock' = clock + 1
    /\ UNCHANGED answers

Full == Cardinality(pending) >= MaxPending

RequestWithRoom(r, k, t) ==
    /\ ~Full
    /\ Enqueue(r, k, t)
    /\ pending' = pending \cup {r}
    /\ status' = [status EXCEPT ![r] = "pending"]
    /\ UNCHANGED <<resolvedBy, event, logged>>

\* Mutant of RequestEvicting: _reject_internal forgets req._event.set().
RequestEvictingSilently(r, k, t, o) ==
    /\ Full
    /\ Oldest(o)
    /\ Enqueue(r, k, t)
    /\ pending' = (pending \ {o}) \cup {r}
    /\ status' = [status EXCEPT ![o] = "rejected", ![r] = "pending"]
    /\ resolvedBy' = [resolvedBy EXCEPT ![o] = "system"]
    /\ logged' = [logged EXCEPT ![o] = @ + 1]
    /\ UNCHANGED event

\* At the limit the oldest request o is rejected first (_reject_internal), in
\* whatever state it is.
RequestEvicting(r, k, t, o) ==
    /\ Full
    /\ Oldest(o)
    /\ Enqueue(r, k, t)
    /\ pending' = (pending \ {o}) \cup {r}
    /\ status' = [status EXCEPT ![o] = "rejected", ![r] = "pending"]
    /\ resolvedBy' = [resolvedBy EXCEPT ![o] = "system"]
    /\ event' = [event EXCEPT ![o] = TRUE]
    /\ logged' = [logged EXCEPT ![o] = @ + 1]

-----------------------------------------------------------------------------
(* The rest of request(), after its await *)

\* Mutant of ResumeAnswered: a woken caller is granted unless it was rejected
\* by a user (the system's rejection is forgotten).
ResumeAnsweredUnlessUserRejects(r) ==
    /\ caller[r] = "waiting"
    /\ event[r]
    /\ pending' = pending \ {r}
    /\ logged' = [logged EXCEPT ![r] = @ + 1]
    /\ caller' = [caller EXCEPT ![r] =
                    IF status[r] = "approved" \/ resolvedBy[r] = "system"
                    THEN "granted" ELSE "denied"]
    /\ UNCHANGED <<risk, timed, status, resolvedBy, event, born, clock, answers>>

\* The event was set: the waiting coroutine runs on.
ResumeAnswered(r) ==
    /\ caller[r] = "waiting"
    /\ event[r]
    /\ pending' = pending \ {r}
    /\ logged' = [logged EXCEPT ![r] = @ + 1]
    /\ caller' = [caller EXCEPT ![r] =
                    IF status[r] = "approved" THEN "granted" ELSE "denied"]
    /\ UNCHANGED <<risk, timed, status, resolvedBy, event, born, clock, answers>>

\* The timer callback of wait_for() runs before the event is set.
TimerFires(r) ==
    /\ caller[r] = "waiting"
    /\ timed[r]
    /\ ~event[r]
    /\ caller' = [caller EXCEPT ![r] = "expiring"]
    /\ UNCHANGED <<risk, timed, status, resolvedBy, event, pending, born, clock,
                   logged, answers>>

\* Mutant of ResumeTimedOut: the timeout grants every risk below critical.
ResumeTimedOutLax(r) ==
    /\ caller[r] = "expiring"
    /\ status' = [status EXCEPT ![r] = "timed_out"]
    /\ resolvedBy' = [resolvedBy EXCEPT ![r] = "timeout"]
    /\ pending' = pending \ {r}
    /\ logged' = [logged EXCEPT ![r] = @ + 1]
    /\ caller' = [caller EXCEPT ![r] =
                    IF risk[r] # "critical" THEN "granted" ELSE "denied"]
    /\ UNCHANGED <<risk, timed, event, born, clock, answers>>

\* except asyncio.TimeoutError: overwrites the status, whatever it is by now.
ResumeTimedOut(r) ==
    /\ caller[r] = "expiring"
    /\ status' = [status EXCEPT ![r] = "timed_out"]
    /\ resolvedBy' = [resolvedBy EXCEPT ![r] = "timeout"]
    /\ pending' = pending \ {r}
    /\ logged' = [logged EXCEPT ![r] = @ + 1]
    /\ caller' = [caller EXCEPT ![r] =
                    IF risk[r] = "medium" THEN "granted" ELSE "denied"]
    /\ UNCHANGED <<risk, timed, event, born, clock, answers>>

\* The agent's task is cancelled at the await.  CancelledError passes both
\* branches, so the request stays in _pending with nobody waiting for it.
CancelCaller(r) ==
    /\ Blocked(r)
    /\ caller' = [caller EXCEPT ![r] = "cancelled"]
    /\ UNCHANGED <<risk, timed, status, resolvedBy, event, pending, born, clock,
                   logged, answers>>

-----------------------------------------------------------------------------
(* respond(), for a request that _pending holds; for any other one it returns *)
(* False and changes nothing.                                                 *)

\* Mutant of Respond: the answer is recorded but the event is not set.
RespondNoWake(r, approved) ==
    /\ r \in pending
    /\ Len(answers[r]) < MaxAnswers
    /\ status' = [status EXCEPT ![r] = IF approved THEN "approved" ELSE "rejected"]
    /\ resolvedBy' = [resolvedBy EXCEPT ![r] = "user"]
    /\ answers' = [answers EXCEPT ![r] = Append(@, approved)]
    /\ UNCHANGED <<event, caller, risk, timed, pending, born, clock, logged>>

Respond(r, approved) ==
    /\ r \in pending
    /\ Len(answers[r]) < MaxAnswers
    /\ status' = [status EXCEPT ![r] = IF approved THEN "approved" ELSE "rejected"]
    /\ resolvedBy' = [resolvedBy EXCEPT ![r] = "user"]
    /\ event' = [event EXCEPT ![r] = TRUE]
    /\ answers' = [answers EXCEPT ![r] = Append(@, approved)]
    /\ UNCHANGED <<caller, risk, timed, pending, born, clock, logged>>

-----------------------------------------------------------------------------

RequestBlocking(r) ==
    \E k \in Risk \ {"low"}, t \in TimeoutArg :
        \/ RequestWithRoom(r, k, t)
        \/ \E o \in Req : RequestEvicting(r, k, t, o)

Next ==
    \E r \in Req :
        \/ RequestLow(r)
        \/ RequestBlocking(r)
        \/ ResumeAnswered(r)
        \/ TimerFires(r)
        \/ ResumeTimedOut(r)
        \/ CancelCaller(r)
        \/ \E approved \in BOOLEAN : Respond(r, approved)

Spec == Init /\ [][Next]_vars

\* The event loop runs every ready callback and every due timer; agents and
\* humans owe nothing.
Fairness ==
    \A r \in Req :
        /\ WF_vars(ResumeAnswered(r))
        /\ WF_vars(TimerFires(r))
        /\ WF_vars(ResumeTimedOut(r))

FairSpec == Spec /\ Fairness

-----------------------------------------------------------------------------
(* Safety *)

SaidYes(r) == \E i \in 1..Len(answers[r]) : answers[r][i]
LastAnswer(r) == answers[r][Len(answers[r])]

\* Nobody is granted anything by accident: every grant is a low risk, a medium
\* risk whose time ran out, or one whose last acknowledged answer was yes and
\* which the overflow eviction had not rejected since.
GrantIsEarned ==
    \A r \in Req : caller[r] = "granted" =>
        \/ risk[r] = "low"
        \/ risk[r] = "medium" /\ resolvedBy[r] = "timeout"
        \/ resolvedBy[r] = "user" /\ SaidYes(r) /\ LastAnswer(r)

\* _pending never outgrows _MAX_PENDING, zombies of cancelled callers included:
\* one eviction makes room for one insertion.
PendingBound == Cardinality(pending) <= MaxPending

\* No caller is left behind: a coroutine still suspended on its event is either
\* reachable by respond() or has been woken, and no finished one is reachable.
NoLostWaiter ==
    \A r \in Req :
        /\ caller[r] = "waiting" /\ r \notin pending => event[r]
        /\ r \in pending => ~Returned(r)

\* Every request whose caller returned is in the history: once, or twice when
\* the overflow evicted it (_reject_internal and request() both append it).
LoggedWhenReturned ==
    \A r \in Req : Returned(r) =>
        /\ logged[r] \in {1, 2}
        /\ logged[r] = 2 => status[r] \in {"rejected", "timed_out"}

\* What a caller was told is final: no later answer, eviction or timer changes
\* the outcome, the recorded status or the history of a returned request.
DecisionFinal ==
    [][\A r \in Req : Returned(r) =>
          /\ caller'[r] = caller[r]
          /\ status'[r] = status[r]
          /\ resolvedBy'[r] = resolvedBy[r]
          /\ logged'[r] = logged[r]]_vars

\* The gate implements the promise: each of its steps opens, votes on, closes
\* or abandons one request, or is invisible.
Promise == INSTANCE ApprovalPromise WITH
    verdict <- [r \in Req |->
        CASE caller[r] = "idle" -> "none"
          [] Blocked(r) -> "open"
          [] caller[r] = "cancelled" -> "abandoned"
          [] OTHER -> caller[r]],
    ayes <- {r \in Req : SaidYes(r)}

KeepsPromise == Promise!Spec

-----------------------------------------------------------------------------
(* Liveness *)

\* Every answer reaches the caller: once respond() returned True, once the
\* overflow rejected it or once its timer is armed, the coroutine stops waiting.
AnsweredReturns ==
    \A r \in Req :
        /\ answers[r] # <<>> ~> ~Blocked(r)
        /\ resolvedBy[r] = "system" ~> ~Blocked(r)
        /\ timed[r] ~> ~Blocked(r)

-----------------------------------------------------------------------------
(* Claims of the sources that the code does not keep *)

\* request(): "Returns True if approved, raises ApprovalDeniedError if
\* rejected": a caller whose request was answered no, and only no, is denied.
RejectedIsDenied ==
    \A r \in Req : caller[r] = "granted" =>
        (answers[r] # <<>> => SaidYes(r))

=============================================================================
