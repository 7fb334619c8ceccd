------------------------------- MODULE Gateway --------------------------------
(***************************************************************************)
(* One run for three parts of the Go gateway that share no state: the      *)
(* relay of a broker stream, the circuit breaker and the rate limiter.  A  *)
(* behaviour is one of one of them, so that their states add up and do not *)
(* multiply; no fair action of the other two is enabled where they start.  *)
(***************************************************************************)
EXTENDS EventRelay

CONSTANTS Call, Stream, MaxRequests, MaxConsecutive, MinRequests, MaxCounted,
          Session, Request, Burst, IdleLimit, MaxStall, MaxTime, None

VARIABLES part, state, counts, current, pc, service,
          now, limiters, lastSeen, tokens, caller, admitted

Breaker == INSTANCE CircuitBreaker WITH world <- service
Limiter == INSTANCE RateLimiter

ASSUME GatewayAssumption == Breaker!BreakerAssumption /\ Limiter!LimiterAssumption

breakerVars == <<state, counts, current, pc, service>>
limiterVars == <<now, limiters, lastSeen, tokens, caller, admitted>>
gatewayVars == <<part, vars, breakerVars, limiterVars>>

GatewayInit ==
    /\ part \in {"relay", "breaker", "limiter"}
    /\ Init /\ Breaker!Init /\ Limiter!Init

GatewayNext ==
    \/ part = "relay" /\ Next /\ UNCHANGED <<part, breakerVars, limiterVars>>
    \/ part = "breaker" /\ Breaker!Next /\ UNCHANGED <<part, vars, limiterVars>>
    \/ part = "limiter" /\ Limiter!Next /\ UNCHANGED <<part, vars, breakerVars>>

GatewaySpec == GatewayInit /\ [][GatewayNext]_gatewayVars /\ Fairness /\ Breaker!Fairness

-----------------------------------------------------------------------------

\* When the service has recovered and clients keep asking, the breaker closes
\* for good, whatever streams and calls from before report late.
Recovers == Breaker!Recovers

\* No interleaving of requests, clean-up and time gives a session a second burst.
OneBucketPerSession == Limiter!OneBucketPerSession
=============================================================================
