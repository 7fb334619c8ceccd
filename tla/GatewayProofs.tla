---------------------------- MODULE GatewayProofs -----------------------------
(***************************************************************************)
(* Proofs about two parts of the gateway: the relay of one broker stream,  *)
(* for any number of lines, any set of lines that are too long and any     *)
(* size of the queue; and the limiter of the sessions' requests, for any   *)
(* number of requests and sessions and any rate.                           *)
(*                                                                         *)
(* NoGap looks at the whole path of a line at once.  The inductive         *)
(* invariant says where each part of the path starts: what was written,    *)
(* what the writer holds, the queue and what the pump holds are four       *)
(* consecutive stretches of the numbers 1, 2, 3, ... up to `held'.         *)
(*                                                                         *)
(* OneBucketPerSession counts what is let through in a stretch of time.    *)
(* Its invariant keeps the account of a bucket: what it holds and what it  *)
(* has let through since any request are within a burst and the time gone  *)
(* by (Saved), also when the bucket is forgotten, which is full by then    *)
(* (Refilled) because cleanup() waits longer than filling takes.           *)
(***************************************************************************)
EXTENDS Gateway, Integers, TLAPS

\* s holds the numbers from b + 1 on.
From(s, b) == \A i \in 1..Len(s) : s[i] = b + i

\* The number of lines that have left the queue
Taken == Len(written) + (IF writer = "writing" THEN 1 ELSE 0)

Consecutive ==
    /\ From(written, 0)
    /\ writer = "writing" => writing = Len(written) + 1
    /\ writer # "ended" =>
         /\ From(queue, Taken)
         /\ pump = "scanning" => held = Taken + Len(queue)
         /\ pump = "holding" => held = Taken + Len(queue) + 1

IInv == TypeOK /\ (pump = "holding" => held > 0) /\ Consecutive

-----------------------------------------------------------------------------

\* Two stretches that follow one another are one.
LEMMA FromConcat ==
    ASSUME NEW s \in Seq(Nat), NEW t \in Seq(Nat), NEW b \in Nat,
           From(s, b), From(t, b + Len(s))
    PROVE  From(s \o t, b) /\ s \o t \in Seq(Nat) /\ Len(s \o t) = Len(s) + Len(t)
  <1>1. s \o t \in Seq(Nat) /\ Len(s \o t) = Len(s) + Len(t)
    OBVIOUS
  <1>2. ASSUME NEW i \in 1..Len(s \o t) PROVE (s \o t)[i] = b + i
    <2>1. CASE i <= Len(s)
      BY <2>1 DEF From
    <2>2. CASE i > Len(s)
      <3>1. i - Len(s) \in 1..Len(t) /\ (s \o t)[i] = t[i - Len(s)]
        BY <1>1, <2>2
      <3>2. QED  BY <3>1 DEF From
    <2>3. QED  BY <2>1, <2>2
  <1>3. QED  BY <1>1, <1>2 DEF From

LEMMA FromAppend ==
    ASSUME NEW S, NEW s \in Seq(S), NEW b \in Nat, From(s, b), NEW x \in S, x = b + Len(s) + 1
    PROVE  /\ Append(s, x) \in Seq(S) /\ Len(Append(s, x)) = Len(s) + 1
           /\ From(Append(s, x), b)
  <1>1. /\ Append(s, x) \in Seq(S) /\ Len(Append(s, x)) = Len(s) + 1
        /\ \A i \in 1..Len(s) : Append(s, x)[i] = s[i]
        /\ Append(s, x)[Len(s) + 1] = x
    OBVIOUS
  <1>2. QED  BY <1>1 DEF From

LEMMA FromTail ==
    ASSUME NEW S, NEW s \in Seq(S), NEW b \in Nat, From(s, b), s # <<>>
    PROVE  /\ Tail(s) \in Seq(S) /\ Len(Tail(s)) = Len(s) - 1
           /\ Head(s) = b + 1 /\ Head(s) \in S
           /\ From(Tail(s), b + 1)
  <1>1. /\ Tail(s) \in Seq(S) /\ Len(Tail(s)) = Len(s) - 1 /\ Len(s) \in Nat \ {0}
        /\ \A i \in 1..Len(Tail(s)) : Tail(s)[i] = s[i + 1]
        /\ Head(s) = s[1] /\ Head(s) \in S
    OBVIOUS
  <1>2. QED  BY <1>1 DEF From

-----------------------------------------------------------------------------

LEMMA InitIInv == Init => IInv
  <1> SUFFICES ASSUME Init PROVE IInv
    OBVIOUS
  <1>1. TypeOK
    <2>1. /\ sent \in 0..Lines /\ held \in 0..Lines /\ writing \in 0..Lines
          /\ <<>> \in Seq(1..Lines) /\ Len(<<>>) <= QueueSize
      BY RelayAssumption DEF Init
    <2>2. QED  BY <2>1 DEF Init, TypeOK
  <1>2. From(<<>>, 0)
    BY DEF From
  <1>3. Consecutive
    BY <1>2 DEF Init, Consecutive, Taken
  <1>4. QED  BY <1>1, <1>3 DEF Init, IInv

LEMMA StepIInv == IInv /\ [Next]_vars => IInv'
  <1> SUFFICES ASSUME IInv, [Next]_vars PROVE IInv'
    OBVIOUS
  <1>1. /\ TypeOK /\ (pump = "holding" => held > 0) /\ Consecutive
        /\ Len(written) \in Nat /\ Len(queue) \in Nat /\ Taken \in Nat
    BY DEF IInv, TypeOK, Taken
  <1> USE RelayAssumption
  \* The broker and the client change nothing the invariant is about.
  <1>2. CASE BrokerSends \/ BrokerEnds \/ ClientChanges
    <2>1. TypeOK'
      <3>1. sent' \in 0..Lines /\ ended' \in BOOLEAN /\ client' \in {"reading", "slow", "gone"}
        <4>1. CASE BrokerSends
          BY <1>1, <4>1 DEF BrokerSends, TypeOK
        <4>2. CASE BrokerEnds \/ ClientChanges
          BY <1>1, <4>2 DEF BrokerEnds, ClientChanges, TypeOK
        <4>3. QED  BY <1>2, <4>1, <4>2
      <3>2. UNCHANGED <<pump, reader, writer, held, queue, writing, written, done, body, conn>>
        BY <1>2 DEF BrokerSends, BrokerEnds, ClientChanges, data
      <3>3. QED  BY <1>1, <3>1, <3>2 DEF TypeOK
    <2>2. Consecutive' /\ (pump' = "holding" => held' > 0)
      BY <1>1, <1>2 DEF BrokerSends, BrokerEnds, ClientChanges, data, Consecutive, Taken
    <2>3. QED  BY <2>1, <2>2 DEF IInv
  <1>3. CASE PumpScans
    <2>1. TypeOK'
      <3>1. held' \in 0..Lines
        BY <1>1, <1>3 DEF PumpScans, TypeOK
      <3>2. /\ pump' \in {"holding", "returned"}
            /\ done' = done /\ body' \in BOOLEAN /\ conn' \in BOOLEAN
            /\ UNCHANGED <<sent, ended, client, reader, writer, queue, writing, written>>
        BY <1>1, <1>3 DEF PumpScans, PumpReturns, world, TypeOK
      <3>3. QED  BY <1>1, <3>1, <3>2 DEF TypeOK
    <2>2. Consecutive'
      BY <1>1, <1>3 DEF PumpScans, PumpReturns, world, TypeOK, Consecutive, Taken
    <2>3. QED  BY <1>1, <1>3, <2>1, <2>2 DEF IInv, PumpScans, PumpReturns, TypeOK
  <1>4. CASE PumpEnqueues
    <2>1. CASE Len(queue) < QueueSize
      <3>1. held \in 1..Lines /\ queue' = Append(queue, held) /\ queue \in Seq(1..Lines)
            /\ pump = "holding" /\ pump' = "scanning"
        BY <1>1, <1>4, <2>1 DEF PumpEnqueues, TypeOK
      <3>2. queue' \in Seq(1..Lines) /\ Len(queue') = Len(queue) + 1
        BY <3>1
      <3>3. TypeOK'
        BY <1>1, <1>4, <2>1, <3>1, <3>2 DEF PumpEnqueues, world, TypeOK
      <3>4. writer # "ended" => From(queue', Taken)
        BY <1>1, <3>1, FromAppend DEF Consecutive
      <3>5. UNCHANGED <<written, writing, writer, held>> /\ Taken' = Taken
        BY <1>4, <2>1 DEF PumpEnqueues, world, Taken
      <3>6. Consecutive'
        BY <1>1, <3>1, <3>2, <3>4, <3>5 DEF Consecutive
      <3>7. QED  BY <3>1, <3>3, <3>6 DEF IInv
    <2>2. CASE ~(Len(queue) < QueueSize)
      BY <1>1, <1>4, <2>2 DEF PumpEnqueues, world, IInv, TypeOK, Consecutive, Taken
    <2>3. QED  BY <2>1, <2>2
  <1>5. CASE PumpEnds
    BY <1>1, <1>5 DEF PumpEnds, PumpReturns, world, data, IInv, TypeOK, Consecutive, Taken
  <1>6. CASE ReaderEnds
    BY <1>1, <1>6 DEF ReaderEnds, CloseDone, world, data, IInv, TypeOK, Consecutive, Taken
  <1>7. CASE WriterSeesDone \/ WriterFails
    BY <1>1, <1>7 DEF WriterSeesDone, WriterFails, CloseDone, world, data, IInv, TypeOK, Consecutive, Taken
  <1>8. CASE WriterTakes
    <2>1. /\ writer = "running" /\ From(queue, Taken) /\ queue # <<>> /\ queue \in Seq(1..Lines)
          /\ Taken = Len(written)
      BY <1>1, <1>8 DEF WriterTakes, TypeOK, Consecutive, Taken
    <2>2. /\ queue' \in Seq(1..Lines) /\ Len(queue') = Len(queue) - 1
          /\ writing' = Len(written) + 1 /\ writing' \in 1..Lines
          /\ From(queue', Taken + 1)
      BY <1>1, <1>8, <2>1, FromTail DEF WriterTakes
    <2>3. Taken' = Taken + 1 /\ writer' = "writing"
      BY <1>1, <1>8, <2>1 DEF WriterTakes, Taken
    <2>4. TypeOK'
      BY <1>1, <1>8, <2>2 DEF WriterTakes, world, TypeOK
    <2>5. QED
      BY <1>1, <1>8, <2>1, <2>2, <2>3, <2>4 DEF WriterTakes, world, IInv, Consecutive
  <1>9. CASE WriterWrites
    <2>1. /\ writer = "writing" /\ writing = Len(written) + 1 /\ writing \in 1..Lines
          /\ written \in Seq(1..Lines) /\ From(written, 0)
      BY <1>1, <1>9 DEF WriterWrites, TypeOK, Consecutive
    <2>2. /\ written' \in Seq(1..Lines) /\ Len(written') = Len(written) + 1 /\ From(written', 0)
      BY <1>9, <2>1, FromAppend DEF WriterWrites
    <2>3. Taken' = Taken /\ writer' = "running"
      BY <1>1, <1>9, <2>1, <2>2 DEF WriterWrites, Taken
    <2>4. TypeOK'
      BY <1>1, <1>9, <2>2 DEF WriterWrites, world, TypeOK
    <2>5. QED
      BY <1>1, <1>9, <2>1, <2>2, <2>3, <2>4 DEF WriterWrites, world, IInv, Consecutive
  <1>10. CASE UNCHANGED vars
    BY <1>1, <1>10 DEF vars, IInv, TypeOK, Consecutive, Taken
  <1>11. QED
    BY <1>2, <1>3, <1>4, <1>5, <1>6, <1>7, <1>8, <1>9, <1>10 DEF Next, Pump, Writer

\* The four stretches, put together, are the path NoGap looks at.
LEMMA ConsecutiveNoGap == IInv => NoGap
  <1> SUFFICES ASSUME IInv PROVE NoGap
    OBVIOUS
  <1> DEFINE w == IF writer = "writing" THEN <<writing>> ELSE <<>>
             p == IF pump = "holding" THEN <<held>> ELSE <<>>
             all == written \o w \o queue \o p
  <1>1. /\ TypeOK /\ Consecutive /\ (pump = "holding" => held > 0)
        /\ Len(written) \in Nat /\ Len(queue) \in Nat /\ Taken \in Nat
    BY DEF IInv, TypeOK, Taken
  <1>2. written \in Seq(Nat) /\ queue \in Seq(Nat) /\ DOMAIN written = 1..Len(written)
    BY <1>1, RelayAssumption DEF TypeOK
  <1>3. \A i \in DOMAIN written : written[i] = i
    BY <1>1, <1>2 DEF Consecutive, From
  <1>4. ASSUME writer # "ended"
        PROVE  (\A i \in DOMAIN all : all[i] = i) /\ (pump # "returned" => Len(all) = held)
    <2>1. w \in Seq(Nat) /\ Len(w) \in Nat /\ From(w, 0 + Len(written)) /\ Len(written) + Len(w) = Taken
      <3>1. CASE writer = "writing"
        BY <1>1, <3>1, RelayAssumption DEF Consecutive, From, Taken, TypeOK
      <3>2. CASE writer # "writing"
        BY <1>1, <3>2 DEF From, Taken
      <3>3. QED  BY <3>1, <3>2
    <2>2. From(queue, 0 + Taken) /\ From(written, 0)
      BY <1>1, <1>4 DEF Consecutive
    <2>3. p \in Seq(Nat) /\ Len(p) \in Nat /\ From(p, 0 + (Taken + Len(queue)))
          /\ (pump # "returned" => Taken + Len(queue) + Len(p) = held)
      <3>1. CASE pump = "holding"
        BY <1>1, <1>4, <3>1, RelayAssumption DEF Consecutive, From, TypeOK
      <3>2. CASE pump # "holding"
        BY <1>1, <1>4, <3>2, RelayAssumption DEF Consecutive, From, TypeOK
      <3>3. QED  BY <3>1, <3>2
    <2> HIDE DEF w, p
    <2>4. From(written \o w, 0) /\ written \o w \in Seq(Nat) /\ Len(written \o w) = Taken
      BY <1>2, <2>1, <2>2, FromConcat
    <2>5. /\ From((written \o w) \o queue, 0) /\ (written \o w) \o queue \in Seq(Nat)
          /\ Len((written \o w) \o queue) = Taken + Len(queue)
      BY <1>2, <2>2, <2>4, FromConcat
    <2>6. /\ From(all, 0) /\ all \in Seq(Nat) /\ Len(all) = Taken + Len(queue) + Len(p)
      BY <2>3, <2>5, FromConcat
    <2> HIDE DEF all
    <2>7. \A i \in DOMAIN all : all[i] = i
      <3>1. DOMAIN all = 1..Len(all) /\ Len(all) \in Nat
        BY <2>6
      <3>2. QED  BY <2>6, <3>1 DEF From
    <2>8. QED  BY <1>1, <2>3, <2>6, <2>7
  <1>5. QED  BY <1>3, <1>4 DEF NoGap

\* The inductive invariant holds of every reachable state.
THEOREM RelayInvariant == Spec => []IInv
  BY InitIInv, StepIInv, PTL DEF Spec

\* Types are kept, the bound of the outbound queue among them.
THEOREM RelayTypeCorrect == Spec => []TypeOK
  <1>1. IInv => TypeOK
    BY DEF IInv
  <1>2. QED  BY <1>1, RelayInvariant, PTL

\* The client sees the broker's lines from the first, in order and without a
\* gap, whatever the size of the queue and however slow the client (Stream()).
THEOREM RelayNoGap == Spec => []NoGap
  BY ConsecutiveNoGap, RelayInvariant, PTL

-----------------------------------------------------------------------------

\* How many requests of a session have been let through since its i-th.
Since(s, i) == Len(admitted[s]) - i + 1

LimiterTypeOK ==
    /\ now \in Nat
    /\ tokens \in Seq(0..Burst)
    /\ limiters \in [Session -> DOMAIN tokens \cup {None}]
    /\ lastSeen \in [Session -> Nat]
    /\ caller \in [Request -> [session : Session, limiter : DOMAIN tokens, at : Nat] \cup {None}]
    /\ admitted \in [Session -> Seq(Nat)]

\* No two sessions share a limiter, and a goroutine holds the one in the map,
\* which it has fetched no longer than MaxStall ago.
LimitersHeld ==
    /\ \A s, t \in Session : limiters[s] # None /\ limiters[s] = limiters[t] => s = t
    /\ \A r \in Request : caller[r] # None =>
         /\ limiters[caller[r].session] = caller[r].limiter
         /\ caller[r].at <= lastSeen[caller[r].session]
         /\ now <= caller[r].at + MaxStall

\* Requests are let through in the order of time, and soon after a fetch.
Timely ==
    \A s \in Session :
        /\ lastSeen[s] <= now
        /\ \A i \in DOMAIN admitted[s] :
             /\ admitted[s][i] <= now
             /\ admitted[s][i] <= lastSeen[s] + MaxStall
             /\ \A j \in DOMAIN admitted[s] : i <= j => admitted[s][i] <= admitted[s][j]

\* What the bucket holds and what it has let through since any time are within
\* a burst and the time gone by; a bucket forgotten was full.
Saved ==
    \A s \in Session : \A i \in DOMAIN admitted[s] :
        /\ limiters[s] # None => tokens[limiters[s]] + Since(s, i) <= Burst + (now - admitted[s][i])
        /\ limiters[s] = None => Since(s, i) <= now - admitted[s][i]

\* A bucket is full, or has been refilled ever since it was last drawn from.
Refilled ==
    \A s \in Session : limiters[s] # None =>
        \/ tokens[limiters[s]] = Burst
        \/ /\ Len(admitted[s]) > 0
           /\ tokens[limiters[s]] >= now - admitted[s][Len(admitted[s])]

LimiterIInv == LimiterTypeOK /\ LimitersHeld /\ Timely /\ Saved /\ Refilled /\ OneBucketPerSession

-----------------------------------------------------------------------------

LEMMA LimiterConstants ==
    /\ Burst \in Nat /\ Burst > 0 /\ IdleLimit \in Nat /\ MaxStall \in Nat
    /\ Burst + MaxStall <= IdleLimit /\ None \notin Nat
  BY GatewayAssumption DEF Limiter!LimiterAssumption

USE LimiterConstants

LEMMA Appended ==
    ASSUME NEW S, NEW q \in Seq(S), NEW x \in S
    PROVE  /\ Append(q, x) \in Seq(S) /\ Len(Append(q, x)) = Len(q) + 1 /\ Len(q) \in Nat
           /\ DOMAIN q = 1..Len(q) /\ DOMAIN Append(q, x) = 1..(Len(q) + 1)
           /\ \A i \in DOMAIN q : Append(q, x)[i] = q[i] /\ q[i] \in S
           /\ Append(q, x)[Len(q) + 1] = x
  OBVIOUS

LEMMA LimiterInit == Limiter!Init => LimiterIInv
  <1> SUFFICES ASSUME Limiter!Init PROVE LimiterIInv
    OBVIOUS
  <1>1. /\ <<>> \in Seq(0..Burst) /\ <<>> \in Seq(Nat) /\ DOMAIN <<>> = {} /\ Len(<<>>) = 0
    OBVIOUS
  <1>2. LimiterTypeOK
    <2>1. limiters \in [Session -> DOMAIN tokens \cup {None}] /\ lastSeen \in [Session -> Nat]
      BY <1>1 DEF Limiter!Init
    <2>2. caller \in [Request -> [session : Session, limiter : DOMAIN tokens, at : Nat] \cup {None}]
      BY DEF Limiter!Init
    <2>3. now \in Nat /\ tokens \in Seq(0..Burst) /\ admitted \in [Session -> Seq(Nat)]
      BY <1>1 DEF Limiter!Init
    <2>4. QED  BY <2>1, <2>2, <2>3 DEF LimiterTypeOK
  <1>3. LimitersHeld /\ Timely /\ Saved /\ Refilled
    BY <1>1 DEF Limiter!Init, LimitersHeld, Timely, Saved, Refilled
  <1>4. OneBucketPerSession
    BY <1>1 DEF Limiter!Init, OneBucketPerSession, Limiter!OneBucketPerSession
  <1>5. QED  BY <1>2, <1>3, <1>4 DEF LimiterIInv

LEMMA LimiterGets ==
    ASSUME LimiterIInv, NEW r \in Request, NEW s \in Session, Limiter!GetLimiter(r, s)
    PROVE  LimiterIInv'
  <1> USE DEF Limiter!GetLimiter, Limiter!Seen
  <1>t. LimiterTypeOK
    BY DEF LimiterIInv
  <1>a. tokens \in Seq(0..Burst) /\ Burst \in 0..Burst
    BY <1>t DEF LimiterTypeOK
  <1>3. \A n \in DOMAIN tokens : n \in DOMAIN tokens' /\ tokens'[n] = tokens[n]
    BY <1>a, Appended
  <1>4. \A t \in Session : t # s => limiters'[t] = limiters[t] /\ lastSeen'[t] = lastSeen[t]
    BY <1>t DEF LimiterTypeOK
  <1>5. /\ limiters'[s] \in DOMAIN tokens' /\ limiters'[s] # None /\ lastSeen'[s] = now
        /\ \/ limiters[s] # None /\ limiters'[s] = limiters[s]
           \/ limiters[s] = None /\ limiters'[s] = Len(tokens) + 1 /\ tokens'[limiters'[s]] = Burst
    BY <1>t DEF LimiterTypeOK
  <1>6. LimiterTypeOK'
    <2>1. tokens' \in Seq(0..Burst)
      <3>1. Append(tokens, Burst) \in Seq(0..Burst)
        BY <1>a, Appended
      <3>2. QED  BY <1>a, <3>1
    <2>2. DOMAIN tokens \subseteq DOMAIN tokens'
      BY <1>3
    <2>3. limiters' \in [Session -> DOMAIN tokens' \cup {None}]
      BY <1>t, <1>5, <2>2 DEF LimiterTypeOK
    <2>4. caller' \in [Request -> [session : Session, limiter : DOMAIN tokens', at : Nat] \cup {None}]
      BY <1>t, <1>5, <2>2 DEF LimiterTypeOK
    <2>5. QED  BY <1>t, <2>1, <2>3, <2>4 DEF LimiterTypeOK
  <1>7. LimitersHeld'
    <2>1. ASSUME NEW t \in Session, NEW u \in Session, limiters'[t] # None, limiters'[t] = limiters'[u]
          PROVE  t = u
      BY <1>t, <1>4, <1>5, <2>1 DEF LimiterIInv, LimitersHeld, LimiterTypeOK
    <2>2. ASSUME NEW q \in Request, caller'[q] # None
          PROVE  /\ limiters'[caller'[q].session] = caller'[q].limiter
                 /\ caller'[q].at <= lastSeen'[caller'[q].session]
                 /\ now' <= caller'[q].at + MaxStall
      <3>1. CASE q = r
        BY <1>t, <1>5, <3>1 DEF LimiterTypeOK
      <3>2. CASE q # r
        <4>1. /\ caller'[q] = caller[q] /\ caller[q].session \in Session
              /\ caller[q].limiter \in DOMAIN tokens /\ caller[q].at \in Nat
          BY <1>t, <2>2, <3>2 DEF LimiterTypeOK
        <4>2. /\ limiters[caller[q].session] = caller[q].limiter
              /\ caller[q].at <= lastSeen[caller[q].session]
              /\ now <= caller[q].at + MaxStall
              /\ lastSeen[caller[q].session] <= now
          BY <2>2, <4>1 DEF LimiterIInv, LimitersHeld, Timely
        <4>3. limiters[caller[q].session] # None
          BY <4>1, <4>2
        <4>4. QED  BY <1>t, <1>4, <1>5, <4>1, <4>2, <4>3 DEF LimiterTypeOK
      <3>3. QED  BY <3>1, <3>2
    <2>3. QED  BY <2>1, <2>2 DEF LimitersHeld
  <1>8. Timely'
    BY <1>t, <1>4, <1>5 DEF LimiterIInv, Timely, LimiterTypeOK
  <1>9. ASSUME NEW t \in Session, limiters'[t] = limiters[t]
        PROVE  limiters[t] # None => tokens'[limiters'[t]] = tokens[limiters[t]]
    BY <1>t, <1>3, <1>9 DEF LimiterTypeOK
  <1>10. ASSUME NEW t \in Session, limiters'[t] # limiters[t]
        PROVE  limiters[t] = None /\ tokens'[limiters'[t]] = Burst
    BY <1>4, <1>5, <1>10
  <1>11. Saved'
    <2>1. ASSUME NEW t \in Session, NEW i \in DOMAIN admitted[t]
          PROVE  /\ limiters'[t] # None =>
                      tokens'[limiters'[t]] + Since(t, i) <= Burst + (now - admitted[t][i])
                 /\ limiters'[t] = None => Since(t, i) <= now - admitted[t][i]
      <3>1. Since(t, i) \in Int /\ admitted[t][i] \in Nat /\ now \in Nat
        BY <1>t DEF LimiterTypeOK, Since
      <3>2. CASE limiters'[t] = limiters[t]
        BY <1>9, <3>2 DEF LimiterIInv, Saved
      <3>3. CASE limiters'[t] # limiters[t]
        BY <1>10, <1>4, <1>5, <3>1, <3>3 DEF LimiterIInv, Saved
      <3>4. QED  BY <3>2, <3>3
    <2>2. QED  BY <2>1 DEF Saved, Since
  <1>12. Refilled'
    BY <1>9, <1>10 DEF LimiterIInv, Refilled
  <1>13. OneBucketPerSession'
    BY DEF LimiterIInv, OneBucketPerSession, Limiter!OneBucketPerSession
  <1>14. QED  BY <1>6, <1>7, <1>8, <1>11, <1>12, <1>13 DEF LimiterIInv

LEMMA LimiterAllows ==
    ASSUME LimiterIInv, NEW r \in Request, Limiter!Allow(r)
    PROVE  LimiterIInv'
  <1> DEFINE s == caller[r].session
             n == caller[r].limiter
             old == admitted[s]
             new == admitted'[s]
  <1> USE DEF Limiter!Allow
  <1>t. LimiterTypeOK
    BY DEF LimiterIInv
  <1>2. /\ s \in Session /\ n \in DOMAIN tokens /\ caller[r].at \in Nat
        /\ limiters[s] = n /\ n # None
        /\ caller[r].at <= lastSeen[s] /\ now <= caller[r].at + MaxStall
    BY <1>t DEF LimiterIInv, LimiterTypeOK, LimitersHeld
  <1>3. caller' \in [Request -> [session : Session, limiter : DOMAIN tokens, at : Nat] \cup {None}]
    BY <1>t DEF LimiterTypeOK
  <1>4. LimitersHeld'
    BY <1>t DEF LimiterIInv, LimitersHeld, LimiterTypeOK
  <1>5. CASE tokens[n] = 0
    <2>1. UNCHANGED <<tokens, admitted>>
      BY <1>5
    <2>2. LimiterTypeOK'
      BY <1>t, <1>3, <2>1 DEF LimiterTypeOK
    <2>3. Timely' /\ Saved' /\ Refilled' /\ OneBucketPerSession'
      BY <2>1 DEF LimiterIInv, Timely, Saved, Refilled, Since, OneBucketPerSession, Limiter!OneBucketPerSession
    <2>4. QED  BY <1>4, <2>2, <2>3 DEF LimiterIInv
  <1>6. CASE tokens[n] # 0
    <2>1. /\ tokens[n] \in 1..Burst
          /\ tokens' = [tokens EXCEPT ![n] = @ - 1]
          /\ admitted' = [admitted EXCEPT ![s] = Append(@, now)]
      BY <1>t, <1>2, <1>6 DEF LimiterTypeOK
    <2>2. /\ tokens' \in Seq(0..Burst) /\ DOMAIN tokens' = DOMAIN tokens
          /\ tokens'[n] = tokens[n] - 1
          /\ \A m \in DOMAIN tokens : m # n => tokens'[m] = tokens[m]
      BY <1>t, <1>2, <2>1 DEF LimiterTypeOK
    <2>3. /\ new = Append(old, now) /\ old \in Seq(Nat)
          /\ \A t \in Session : t # s => admitted'[t] = admitted[t]
          /\ admitted' \in [Session -> Seq(Nat)]
      BY <1>t, <1>2, <2>1 DEF LimiterTypeOK
    <2> HIDE DEF s, n, old, new
    <2>4. /\ Len(new) = Len(old) + 1 /\ Len(old) \in Nat
          /\ DOMAIN old = 1..Len(old) /\ DOMAIN new = 1..(Len(old) + 1)
          /\ \A i \in DOMAIN old : new[i] = old[i] /\ old[i] \in Nat
          /\ new[Len(old) + 1] = now /\ now \in Nat
      <3>1. now \in Nat
        BY <1>t DEF LimiterTypeOK
      <3>2. QED  BY <2>3, <3>1, Appended
    <2>5. LimiterTypeOK'
      BY <1>t, <1>3, <2>2, <2>3 DEF LimiterTypeOK
    <2>6. \A i \in DOMAIN old : old[i] <= now /\ old[i] <= lastSeen[s] + MaxStall
      BY <1>2 DEF LimiterIInv, Timely, old
    <2>7. Timely'
      <3>1. ASSUME NEW t \in Session
            PROVE  /\ lastSeen'[t] <= now'
                   /\ \A i \in DOMAIN admitted'[t] :
                        /\ admitted'[t][i] <= now'
                        /\ admitted'[t][i] <= lastSeen'[t] + MaxStall
                        /\ \A j \in DOMAIN admitted'[t] : i <= j => admitted'[t][i] <= admitted'[t][j]
        <4>1. CASE t # s
          BY <2>3, <4>1 DEF LimiterIInv, Timely
        <4>2. CASE t = s
          <5>1. lastSeen[s] \in Nat /\ now \in Nat /\ MaxStall \in Nat /\ now <= lastSeen[s] + MaxStall
            BY <1>t, <1>2 DEF LimiterTypeOK
          <5>2. lastSeen[s] <= now /\ \A i, j \in DOMAIN old : i <= j => old[i] <= old[j]
            BY <1>2 DEF LimiterIInv, Timely, old
          <5>3. \A i \in DOMAIN new : new[i] <= now /\ new[i] <= lastSeen[s] + MaxStall
            BY <2>4, <2>6, <5>1
          <5>4. \A i, j \in DOMAIN new : i <= j => new[i] <= new[j]
            BY <2>4, <2>6, <5>1, <5>2
          <5>5. QED  BY <4>2, <5>2, <5>3, <5>4 DEF new
        <4>3. QED  BY <4>1, <4>2
      <3>2. QED  BY <3>1 DEF Timely
    <2>8. \A t \in Session : t # s /\ limiters[t] # None => tokens'[limiters[t]] = tokens[limiters[t]]
      BY <1>t, <1>2, <2>2 DEF LimiterIInv, LimitersHeld, LimiterTypeOK
    <2>9. \A i \in DOMAIN new : tokens'[n] + (Len(new) - i + 1) <= Burst + (now - new[i])
      <3>1. \A i \in DOMAIN old : tokens[n] + (Len(old) - i + 1) <= Burst + (now - old[i])
        BY <1>2 DEF LimiterIInv, Saved, Since, old
      <3>2. ASSUME NEW i \in DOMAIN new
            PROVE  tokens'[n] + (Len(new) - i + 1) <= Burst + (now - new[i])
        <4>1. CASE i \in DOMAIN old
          <5>1. /\ i \in Nat /\ old[i] \in Nat /\ new[i] = old[i] /\ tokens[n] \in Nat
                /\ tokens[n] + (Len(old) - i + 1) <= Burst + (now - old[i])
            BY <2>1, <2>4, <3>1, <4>1
          <5>2. tokens'[n] = tokens[n] - 1 /\ Len(new) = Len(old) + 1 /\ Len(old) \in Nat
            BY <2>2, <2>4
          <5>3. QED  BY <5>1, <5>2
        <4>2. CASE i = Len(old) + 1
          BY <2>1, <2>2, <2>4, <4>2
        <4>3. QED  BY <2>4, <4>1, <4>2
      <3>3. QED  BY <3>2
    <2>10. Saved'
      <3>1. ASSUME NEW t \in Session, NEW i \in DOMAIN admitted'[t]
            PROVE  /\ limiters'[t] # None => tokens'[limiters'[t]] + Since(t, i)' <= Burst + (now' - admitted'[t][i])
                   /\ limiters'[t] = None => Since(t, i)' <= now' - admitted'[t][i]
        <4>1. CASE t # s
          BY <2>3, <2>8, <3>1, <4>1 DEF LimiterIInv, Saved, Since
        <4>2. CASE t = s
          BY <1>2, <2>9, <3>1, <4>2 DEF Since, new
        <4>3. QED  BY <4>1, <4>2
      <3>2. QED  BY <3>1 DEF Saved
    <2>11. Refilled'
      <3>1. ASSUME NEW t \in Session, limiters[t] # None
            PROVE  \/ tokens'[limiters[t]] = Burst
                   \/ /\ Len(admitted'[t]) > 0
                      /\ tokens'[limiters[t]] >= now - admitted'[t][Len(admitted'[t])]
        <4>1. CASE t # s
          BY <2>3, <2>8, <3>1, <4>1 DEF LimiterIInv, Refilled
        <4>2. CASE t = s
          <5>1. now - now = 0 /\ tokens[n] - 1 >= 0
            BY <2>1, <2>4
          <5>2. QED  BY <1>2, <2>2, <2>4, <4>2, <5>1 DEF new
        <4>3. QED  BY <4>1, <4>2
      <3>2. QED  BY <3>1 DEF Refilled
    <2>12. OneBucketPerSession'
      <3>1. ASSUME NEW t \in Session, NEW i \in DOMAIN admitted'[t], NEW j \in DOMAIN admitted'[t], i <= j
            PROVE  j - i + 1 <= Burst + (admitted'[t][j] - admitted'[t][i])
        <4>1. CASE t # s
          BY <2>3, <3>1, <4>1 DEF LimiterIInv, OneBucketPerSession, Limiter!OneBucketPerSession
        <4>2. CASE t = s
          <5>1. CASE j \in DOMAIN old
            <6>1. i \in DOMAIN old
              BY <2>4, <3>1, <4>2, <5>1 DEF new
            <6>2. j - i + 1 <= Burst + (old[j] - old[i])
              BY <1>2, <3>1, <5>1, <6>1 DEF LimiterIInv, OneBucketPerSession, Limiter!OneBucketPerSession, old
            <6>3. QED  BY <2>4, <4>2, <5>1, <6>1, <6>2 DEF new
          <5>2. CASE j = Len(new)
            <6>1. i \in DOMAIN new /\ i \in Nat /\ new[j] = now
              BY <2>4, <3>1, <4>2, <5>2 DEF new
            <6>a. new[i] \in Nat /\ tokens'[n] \in Nat /\ now \in Nat
              BY <2>1, <2>2, <2>4, <6>1
            <6>3. j - i + 1 <= Burst + (now - new[i])
              BY <2>4, <2>9, <5>2, <6>1, <6>a
            <6>4. QED  BY <4>2, <6>1, <6>3 DEF new
          <5>3. QED  BY <2>4, <3>1, <4>2, <5>1, <5>2 DEF new
        <4>3. QED  BY <4>1, <4>2
      <3>2. QED  BY <3>1 DEF OneBucketPerSession, Limiter!OneBucketPerSession
    <2>13. QED  BY <1>4, <2>5, <2>7, <2>10, <2>11, <2>12 DEF LimiterIInv
  <1>7. QED  BY <1>5, <1>6

LEMMA LimiterCleansUp ==
    ASSUME LimiterIInv, Limiter!CleanUp
    PROVE  LimiterIInv'
  <1> USE DEF Limiter!CleanUp, Limiter!Idle
  <1>t. LimiterTypeOK
    BY DEF LimiterIInv
  <1>2. LimiterTypeOK'
    BY <1>t DEF LimiterTypeOK
  <1>3. \A s \in Session : limiters'[s] = limiters[s] \/ (Limiter!Idle(s) /\ limiters'[s] = None)
    BY <1>t DEF LimiterTypeOK
  <1>4. ASSUME NEW r \in Request, caller[r] # None
        PROVE  caller[r].session \in Session /\ ~Limiter!Idle(caller[r].session)
    BY <1>t, <1>4 DEF LimiterIInv, LimiterTypeOK, LimitersHeld
  <1>5. LimitersHeld'
    BY <1>3, <1>4 DEF LimiterIInv, LimitersHeld
  <1>6. ASSUME NEW s \in Session, limiters[s] # None, Limiter!Idle(s)
        PROVE  tokens[limiters[s]] = Burst
    <2>1. ASSUME Len(admitted[s]) > 0, tokens[limiters[s]] >= now - admitted[s][Len(admitted[s])]
          PROVE  FALSE
      <3>1. Len(admitted[s]) \in DOMAIN admitted[s] /\ admitted[s][Len(admitted[s])] \in Nat
        BY <1>t, <2>1 DEF LimiterTypeOK
      <3>2. admitted[s][Len(admitted[s])] <= lastSeen[s] + MaxStall
        BY <3>1 DEF LimiterIInv, Timely
      <3>3. tokens[limiters[s]] \in 0..Burst
        BY <1>t, <1>6 DEF LimiterTypeOK
      <3>4. QED  BY <1>t, <1>6, <2>1, <3>1, <3>2, <3>3 DEF LimiterTypeOK
    <2>2. QED  BY <1>6, <2>1 DEF LimiterIInv, Refilled
  <1>7. Saved'
    <2>1. ASSUME NEW s \in Session, NEW i \in DOMAIN admitted[s], limiters'[s] # limiters[s]
          PROVE  Since(s, i) <= now - admitted[s][i]
      <3>1. Burst + Since(s, i) <= Burst + (now - admitted[s][i])
        BY <1>3, <1>6, <2>1 DEF LimiterIInv, Saved
      <3>2. Since(s, i) \in Int /\ admitted[s][i] \in Nat /\ now \in Nat
        BY <1>t DEF LimiterTypeOK, Since
      <3>3. QED  BY <3>1, <3>2
    <2>2. QED  BY <1>3, <2>1 DEF LimiterIInv, Saved, Since
  <1>8. Refilled'
    BY <1>3 DEF LimiterIInv, Refilled
  <1>9. Timely' /\ OneBucketPerSession'
    BY DEF LimiterIInv, Timely, OneBucketPerSession, Limiter!OneBucketPerSession
  <1>10. QED  BY <1>2, <1>5, <1>7, <1>8, <1>9 DEF LimiterIInv

LEMMA LimiterTicks ==
    ASSUME LimiterIInv, Limiter!Tick
    PROVE  LimiterIInv'
  <1> USE DEF Limiter!Tick
  <1>t. LimiterTypeOK
    BY DEF LimiterIInv
  <1>2. /\ now' = now + 1 /\ now \in Nat
        /\ tokens' \in Seq(0..Burst) /\ DOMAIN tokens' = DOMAIN tokens
        /\ \A n \in DOMAIN tokens : /\ tokens[n] \in 0..Burst
                                    /\ tokens'[n] = IF tokens[n] < Burst THEN tokens[n] + 1 ELSE Burst
    <2>1. /\ now \in Nat /\ Len(tokens) \in Nat /\ DOMAIN tokens = 1..Len(tokens)
          /\ \A n \in DOMAIN tokens : tokens[n] \in 0..Burst
      BY <1>t DEF LimiterTypeOK
    <2>2. tokens' \in [1..Len(tokens) -> 0..Burst]
      BY <2>1
    <2>3. QED  BY <2>1, <2>2
  <1>3. LimiterTypeOK'
    BY <1>t, <1>2 DEF LimiterTypeOK
  <1>4. LimitersHeld'
    <2>1. ASSUME NEW r \in Request, caller[r] # None
          PROVE  now' <= caller[r].at + MaxStall
      BY <1>t, <2>1 DEF LimiterTypeOK
    <2>2. QED  BY <2>1 DEF LimiterIInv, LimitersHeld
  <1>5. Timely'
    BY <1>t, <1>2 DEF LimiterIInv, Timely, LimiterTypeOK
  <1>6. Saved'
    <2>1. ASSUME NEW s \in Session, NEW i \in DOMAIN admitted[s]
          PROVE  /\ limiters[s] # None =>
                      tokens'[limiters[s]] + Since(s, i) <= Burst + (now' - admitted[s][i])
                 /\ limiters[s] = None => Since(s, i) <= now' - admitted[s][i]
      <3>1. Since(s, i) \in Int /\ admitted[s][i] \in Nat
        BY <1>t DEF LimiterTypeOK, Since
      <3>2. limiters[s] # None => limiters[s] \in DOMAIN tokens
        BY <1>t DEF LimiterTypeOK
      <3>3. /\ limiters[s] # None => tokens[limiters[s]] + Since(s, i) <= Burst + (now - admitted[s][i])
            /\ limiters[s] = None => Since(s, i) <= now - admitted[s][i]
        BY DEF LimiterIInv, Saved
      <3>4. CASE limiters[s] = None
        BY <1>2, <3>1, <3>3, <3>4
      <3>5. CASE limiters[s] # None
        <4>1. /\ tokens[limiters[s]] \in Nat
              /\ tokens'[limiters[s]] \in Nat
              /\ tokens'[limiters[s]] <= tokens[limiters[s]] + 1
          BY <1>2, <3>2, <3>5
        <4>2. tokens[limiters[s]] + Since(s, i) <= Burst + (now - admitted[s][i])
          BY <3>3, <3>5
        <4>3. now \in Nat /\ now' = now + 1
          BY <1>2
        <4>4. QED  BY <3>1, <3>5, <4>1, <4>2, <4>3
      <3>6. QED  BY <3>4, <3>5
    <2>2. QED  BY <2>1 DEF Saved, Since
  <1>7. Refilled'
    <2>1. ASSUME NEW s \in Session, limiters[s] # None
          PROVE  \/ tokens'[limiters[s]] = Burst
                 \/ /\ Len(admitted[s]) > 0
                    /\ tokens'[limiters[s]] >= now' - admitted[s][Len(admitted[s])]
      <3>1. limiters[s] \in DOMAIN tokens
        BY <1>t, <2>1 DEF LimiterTypeOK
      <3>2. Len(admitted[s]) > 0 => admitted[s][Len(admitted[s])] \in Nat
        BY <1>t DEF LimiterTypeOK
      <3>3. QED  BY <1>2, <2>1, <3>1, <3>2 DEF LimiterIInv, Refilled
    <2>2. QED  BY <2>1 DEF Refilled
  <1>8. OneBucketPerSession'
    BY DEF LimiterIInv, OneBucketPerSession, Limiter!OneBucketPerSession
  <1>9. QED  BY <1>3, <1>4, <1>5, <1>6, <1>7, <1>8 DEF LimiterIInv

LEMMA LimiterStep == LimiterIInv /\ [Limiter!Next]_Limiter!vars => LimiterIInv'
  <1> SUFFICES ASSUME LimiterIInv, [Limiter!Next]_Limiter!vars PROVE LimiterIInv'
    OBVIOUS
  <1>1. ASSUME NEW r \in Request, Limiter!Allow(r) PROVE LimiterIInv'
    BY <1>1, LimiterAllows
  <1>2. ASSUME NEW r \in Request, NEW s \in Session, Limiter!GetLimiter(r, s) PROVE LimiterIInv'
    BY <1>2, LimiterGets
  <1>3. CASE Limiter!CleanUp
    BY <1>3, LimiterCleansUp
  <1>4. CASE Limiter!Tick
    BY <1>4, LimiterTicks
  <1>5. CASE UNCHANGED Limiter!vars
    BY <1>5 DEF Limiter!vars, LimiterIInv, LimiterTypeOK, LimitersHeld, Timely, Saved, Since, Refilled,
                OneBucketPerSession, Limiter!OneBucketPerSession
  <1>6. QED  BY <1>1, <1>2, <1>3, <1>4, <1>5 DEF Limiter!Next

\* However requests, clean-up and time interleave: in no span of time is a session
\* let through more often than its burst and what the time refills (RateLimiter()).
THEOREM GatewayOneBucket == Limiter!Spec => []OneBucketPerSession
  <1>1. LimiterIInv => OneBucketPerSession
    BY DEF LimiterIInv
  <1>2. QED  BY LimiterInit, LimiterStep, <1>1, PTL DEF Limiter!Spec

-----------------------------------------------------------------------------
(* The parts beside each other *)

\* A step of the gateway is a step or a stutter of each of its parts.
LEMMA GatewaySteps ==
    [GatewayNext]_gatewayVars =>
        [Next]_vars /\ [Breaker!Next]_Breaker!vars /\ [Limiter!Next]_Limiter!vars
  BY DEF GatewayNext, gatewayVars, breakerVars, limiterVars, vars, Breaker!vars, Limiter!vars

\* In any behaviour of the three parts of the gateway what a relay writes is a
\* gapless prefix of the broker's lines, and no session has a second burst.
THEOREM GatewaySafe == GatewaySpec => []NoGap /\ []OneBucketPerSession
  <1>1. GatewayInit => Init /\ Limiter!Init
    BY DEF GatewayInit
  <1>2. QED
    BY <1>1, GatewaySteps, RelayNoGap, GatewayOneBucket, PTL DEF GatewaySpec, Spec, Limiter!Spec
===============================================================================
