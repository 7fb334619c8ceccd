----------------------------- MODULE CircuitBreaker ----------------------------
(***************************************************************************)
(* The gateway's way to the AI service (proxy/ai_proxy.go): do() runs its  *)
(* HTTP call inside gobreaker's Execute(); Stream() only looks at the      *)
(* breaker's state, calls outside it, and reports a failure afterwards.    *)
(*                                                                         *)
(* An action is one acquisition of the breaker's lock or one network call. *)
(* gobreaker compares generations for equality only, so `current' holds    *)
(* the calls begun in the present one.                                     *)
(***************************************************************************)
EXTENDS Naturals, FiniteSets

CONSTANTS Call,   \* goroutines in do(), each of which may call again
          Stream, \* goroutines in Stream()
          MaxRequests, MaxConsecutive, \* 5 and 5 in New()
          MinRequests, \* 10: fewer requests have no ratio
          MaxCounted   \* bound: requests counted in one interval

BreakerAssumption ==
    /\ Call \cap Stream = {}
    /\ {MaxRequests, MaxConsecutive, MinRequests, MaxCounted} \subseteq Nat \ {0}
    /\ MaxRequests <= MaxCounted

VARIABLES
    state,   \* of the breaker
    counts,  \* gobreaker.Counts
    current, \* the calls begun in the present generation
    pc,      \* pc[c]: how far a do() or a Stream() is
    world    \* "calm", "down": the service fails, or "impatient": clients cancel

vars == <<state, counts, current, pc, world>>

Counts == [requests : 0..MaxCounted, failures : 0..MaxCounted,
           consecutive : 0..MaxCounted, successes : 0..MaxCounted]
Zero == [requests |-> 0, failures |-> 0, consecutive |-> 0, successes |-> 0]

TypeOK ==
    /\ state \in {"closed", "open", "half-open"}
    /\ counts \in Counts
    /\ current \subseteq Call \cup Stream
    /\ pc \in [Call \cup Stream -> {"idle", "calling", "passed", "failed", "recording"}]
    /\ world \in {"calm", "down", "impatient"}

Init ==
    /\ state = "closed" /\ counts = Zero /\ current = {}
    /\ pc = [c \in Call \cup Stream |-> "idle"]
    /\ world = "calm"

-----------------------------------------------------------------------------
(* gobreaker *)

NewGeneration(s) == state' = s /\ counts' = Zero /\ current' = {}

\* 60 s in the closed state, 30 s in the open one.
IntervalElapses == state = "closed" /\ NewGeneration("closed") /\ UNCHANGED <<pc, world>>
TimeoutElapses == state = "open" /\ NewGeneration("half-open") /\ UNCHANGED <<pc, world>>

Refused == state = "open" \/ (state = "half-open" /\ counts.requests >= MaxRequests)

BeforeRequest(c) ==
    /\ ~Refused
    /\ counts.requests < MaxCounted
    /\ counts' = [counts EXCEPT !.requests = @ + 1]
    /\ current' = current \cup {c}
    /\ UNCHANGED state

\* ReadyToTrip of New(): five failures in a row, or 60% of ten or more.
ReadyToTrip(n) ==
    \/ n.consecutive >= MaxConsecutive
    \/ n.requests >= MinRequests /\ 10 * n.failures >= 6 * n.requests

AfterFailure ==
    LET n == [counts EXCEPT !.failures = @ + 1, !.consecutive = @ + 1, !.successes = 0]
    IN IF state = "half-open" \/ ReadyToTrip(n) THEN NewGeneration("open")
       ELSE counts' = n /\ UNCHANGED <<state, current>>

AfterSuccess ==
    LET n == [counts EXCEPT !.successes = @ + 1, !.consecutive = 0]
    IN IF state = "half-open" /\ n.successes >= MaxRequests THEN NewGeneration("closed")
       ELSE counts' = n /\ UNCHANGED <<state, current>>

\* What an earlier generation began is not counted.
AfterRequest(c, failed) ==
    IF c \notin current THEN UNCHANGED <<state, counts, current>>
    ELSE IF failed THEN AfterFailure ELSE AfterSuccess

-----------------------------------------------------------------------------
(* The proxy *)

\* do(): a refused call returns ErrCircuitOpen and makes no request.
Do(c) ==
    /\ pc[c] = "idle"
    /\ \/ /\ BeforeRequest(c)
          /\ pc' = [pc EXCEPT ![c] = "calling"]
       \/ Refused /\ UNCHANGED <<state, counts, current, pc>>
    /\ UNCHANGED world

\* Mutant of Failed: every status but 2xx is a failure.
FailedUnlessOK(outcome) == outcome # "ok"

\* A transport error, the client's cancellation among them, or a status of 500
\* and above.
Failed(outcome) == outcome \in {"error", "cancelled", "5xx"}

Outcomes == {"ok", "4xx"} \cup CASE world = "calm" -> {}
                                  [] world = "down" -> {"error", "5xx"}
                                  [] world = "impatient" -> {"cancelled"}

DoReturns(c) ==
    /\ pc[c] = "calling"
    /\ \E outcome \in Outcomes : AfterRequest(c, Failed(outcome))
    /\ pc' = [pc EXCEPT ![c] = "idle"]
    /\ UNCHANGED world

\* Stream() looks at the state ...
StreamLooks(s) ==
    /\ pc[s] = "idle" /\ state # "open"
    /\ pc' = [pc EXCEPT ![s] = "passed"]
    /\ UNCHANGED <<state, counts, current, world>>

\* ... and sends, whatever the state is by now.
StreamSends(s) ==
    /\ pc[s] = "passed"
    /\ pc' = [pc EXCEPT ![s] = "calling"]
    /\ UNCHANGED <<state, counts, current, world>>

\* The caller reads the body of a stream that began; nothing is recorded.
StreamAnswered(s) ==
    /\ pc[s] = "calling"
    /\ \E outcome \in Outcomes : pc' = [pc EXCEPT ![s] = IF Failed(outcome) THEN "failed" ELSE "idle"]
    /\ UNCHANGED <<state, counts, current, world>>

\* A failure is recorded by an Execute() that only fails, if it is let in.
StreamRecords(s) ==
    /\ pc[s] = "failed"
    /\ \/ BeforeRequest(s) /\ pc' = [pc EXCEPT ![s] = "recording"]
       \/ Refused /\ pc' = [pc EXCEPT ![s] = "idle"] /\ UNCHANGED <<state, counts, current>>
    /\ UNCHANGED world

StreamRecorded(s) ==
    /\ pc[s] = "recording"
    /\ AfterRequest(s, TRUE)
    /\ pc' = [pc EXCEPT ![s] = "idle"]
    /\ UNCHANGED world

WorldChanges ==
    /\ world' \in {"calm", "down", "impatient"}
    /\ UNCHANGED <<state, counts, current, pc>>

Next ==
    \/ IntervalElapses \/ TimeoutElapses \/ WorldChanges
    \/ \E c \in Call : Do(c) \/ DoReturns(c)
    \/ \E s \in Stream : StreamLooks(s) \/ StreamSends(s) \/ StreamAnswered(s)
                         \/ StreamRecords(s) \/ StreamRecorded(s)

\* Time passes, calls end (the client has a timeout), started code goes on.
Fairness ==
    /\ WF_vars(IntervalElapses) /\ WF_vars(TimeoutElapses)
    /\ \A c \in Call : WF_vars(DoReturns(c))
    /\ \A s \in Stream : WF_vars(StreamSends(s) \/ StreamAnswered(s) \/ StreamRecords(s) \/ StreamRecorded(s))

Spec == Init /\ [][Next]_vars /\ Fairness

-----------------------------------------------------------------------------
(* Properties *)

\* When the service has recovered and clients keep asking, the breaker closes
\* for good, whatever streams and calls from before report late.
Recovers ==
    (<>[](world = "calm") /\ WF_vars(\E c \in Call : Do(c))) => <>[](state = "closed")
=============================================================================
