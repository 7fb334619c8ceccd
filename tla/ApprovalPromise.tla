--------------------------- MODULE ApprovalPromise ---------------------------
(***************************************************************************)
(* What the approval gate promises to the agents that call it, without     *)
(* pending tables, events or timers: a request is opened once, is closed   *)
(* once, and a request of high or critical risk is granted only after a    *)
(* human said yes to it.                                                   *)
(***************************************************************************)

CONSTANTS Req       \* the requests ever submitted

Risk == {"low", "medium", "high", "critical"}

VARIABLES verdict,  \* verdict[r]: what the caller of request(r) has been told
          risk,     \* risk[r]: its risk level, once opened
          ayes      \* the requests a human has said yes to while they were open

vars == <<verdict, risk, ayes>>

Init ==
    /\ verdict = [r \in Req |-> "none"]
    /\ risk = [r \in Req |-> "none"]
    /\ ayes = {}

\* A request of low risk is granted as it is opened; any other one stays open.
Open(r, k) ==
    /\ verdict[r] = "none"
    /\ risk' = [risk EXCEPT ![r] = k]
    /\ verdict' = [verdict EXCEPT ![r] = IF k = "low" THEN "granted" ELSE "open"]
    /\ UNCHANGED ayes

\* A yes counts while the gate still lists the request, which it may do after
\* the caller has been cancelled.
SayYes(r) ==
    /\ verdict[r] \in {"open", "abandoned"}
    /\ ayes' = ayes \cup {r}
    /\ UNCHANGED <<verdict, risk>>

Grant(r) ==
    /\ verdict[r] = "open"
    /\ risk[r] = "medium" \/ r \in ayes
    /\ verdict' = [verdict EXCEPT ![r] = "granted"]
    /\ UNCHANGED <<risk, ayes>>

Deny(r) ==
    /\ verdict[r] = "open"
    /\ verdict' = [verdict EXCEPT ![r] = "denied"]
    /\ UNCHANGED <<risk, ayes>>

\* The caller's task is cancelled while it waits.
Abandon(r) ==
    /\ verdict[r] = "open"
    /\ verdict' = [verdict EXCEPT ![r] = "abandoned"]
    /\ UNCHANGED <<risk, ayes>>

Next ==
    \E r \in Req :
        \/ \E k \in Risk : Open(r, k)
        \/ SayYes(r)
        \/ Grant(r)
        \/ Deny(r)
        \/ Abandon(r)

Spec == Init /\ [][Next]_vars

=============================================================================
