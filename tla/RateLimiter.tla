------------------------------ MODULE RateLimiter ------------------------------
(***************************************************************************)
(* The per-session rate limiter of the gateway (middleware/rate_limit.go). *)
(* Requests are goroutines: one fetches its session's limiter under the    *)
(* mutex and asks it after the unlock; a ticker forgets limiters of idle   *)
(* sessions.  A unit of time is what one token takes to come back.         *)
(***************************************************************************)
EXTENDS Integers, FiniteSets, Sequences

CONSTANTS Session, Request,
          Burst,     \* requestsPerMinute / 10, and 1 at least
          IdleLimit, \* 10 minutes
          MaxStall,  \* how long a goroutine may be suspended between two lines
          MaxTime,   \* bound: of the clock
          None

\* Burst tokens come back in a minute at most, and no goroutine is suspended for
\* the other nine.
LimiterAssumption ==
    /\ {Burst, IdleLimit, MaxStall, MaxTime} \subseteq Nat
    /\ Burst > 0 /\ Burst + MaxStall <= IdleLimit
    /\ None \notin Nat

VARIABLES
    now,
    limiters, \* limiters[s]: the number of the session's limiter, or None
    lastSeen, \* lastSeen[s] of the limiter in the map
    tokens,   \* tokens[n] of limiter n, forgotten ones included
    caller,   \* caller[r]: the session and limiter a goroutine has fetched, and when
    admitted  \* admitted[s]: the times at which requests of a session were let through

vars == <<now, limiters, lastSeen, tokens, caller, admitted>>

Init ==
    /\ now = 0
    /\ limiters = [s \in Session |-> None]
    /\ lastSeen = [s \in Session |-> 0]
    /\ tokens = <<>>
    /\ caller = [r \in Request |-> None]
    /\ admitted = [s \in Session |-> <<>>]

\* Mutant of Seen: lastSeen is written where the limiter is made.
SeenWhenMade(s) == lastSeen' = IF limiters[s] = None THEN [lastSeen EXCEPT ![s] = now] ELSE lastSeen

Seen(s) == lastSeen' = [lastSeen EXCEPT ![s] = now]

\* getLimiter(), under the mutex.
GetLimiter(r, s) ==
    /\ caller[r] = None
    /\ IF limiters[s] = None
       THEN tokens' = Append(tokens, Burst) /\ limiters' = [limiters EXCEPT ![s] = Len(tokens) + 1]
       ELSE UNCHANGED <<tokens, limiters>>
    /\ Seen(s)
    /\ caller' = [caller EXCEPT ![r] = [session |-> s, limiter |-> limiters'[s], at |-> now]]
    /\ UNCHANGED <<now, admitted>>

\* Allow(): the request goes on or is answered with 429.
Allow(r) ==
    /\ caller[r] # None
    /\ caller' = [caller EXCEPT ![r] = None]
    /\ LET n == caller[r].limiter  s == caller[r].session IN
       IF tokens[n] > 0
       THEN /\ tokens' = [tokens EXCEPT ![n] = @ - 1]
            /\ admitted' = [admitted EXCEPT ![s] = Append(@, now)]
       ELSE UNCHANGED <<tokens, admitted>>
    /\ UNCHANGED <<now, limiters, lastSeen>>

Idle(s) == now - lastSeen[s] > IdleLimit

\* The ticker's turn, all sessions under one lock.
CleanUp ==
    /\ \E s \in Session : limiters[s] # None /\ Idle(s)
    /\ limiters' = [s \in Session |-> IF Idle(s) THEN None ELSE limiters[s]]
    /\ UNCHANGED <<now, lastSeen, tokens, caller, admitted>>

Tick ==
    /\ now < MaxTime
    /\ \A r \in Request : caller[r] # None => now - caller[r].at < MaxStall
    /\ now' = now + 1
    /\ tokens' = [n \in DOMAIN tokens |-> IF tokens[n] < Burst THEN tokens[n] + 1 ELSE Burst]
    /\ UNCHANGED <<limiters, lastSeen, caller, admitted>>

Next ==
    \/ \E r \in Request : Allow(r) \/ \E s \in Session : GetLimiter(r, s)
    \/ CleanUp \/ Tick

Spec == Init /\ [][Next]_vars

-----------------------------------------------------------------------------
(* Properties *)

\* However requests, the clean-up and time interleave, a session is let through
\* no more often in any span of time than one token bucket would allow: the
\* limiter forgotten and made again gives no second burst.
OneBucketPerSession ==
    \A s \in Session : \A i, j \in DOMAIN admitted[s] :
        i <= j => j - i + 1 <= Burst + (admitted[s][j] - admitted[s][i])

=============================================================================
