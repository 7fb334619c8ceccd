-------------------------- MODULE EventBrokerProofs --------------------------
(***************************************************************************)
(* Proofs about the event broker, for any topics, tasks, capacity and cap. *)
(*                                                                         *)
(* Why a rooted subscriber misses nothing: its receiver keeps its channel  *)
(* in the map (Anchored), channels are never shared or reused (Distinct),  *)
(* so a publisher that starts later finds the same channel (Routed), and   *)
(* its send() finds at least that receiver.                                *)
(***************************************************************************)
EXTENDS EventBroker, TLAPS, FiniteSetTheorems

Distinct ==
    /\ \A t, u \in Topic : chan[t] # None /\ chan[t] = chan[u] => t = u
    /\ \A t \in Topic : chan[t] <= created
    /\ \A x \in Task : held[x] <= created
    /\ \A x \in Task, t \in Topic : held[x] # None /\ chan[t] = held[x] => at[x] = t

TaskShape ==
    /\ \A x \in Task : pc[x] \in {"holding", "attached"} => held[x] # None
    /\ \A x \in Task : pc[x] \in {"idle", "missed"} => held[x] = None
    /\ \A x \in Task : pc[x] \in {"missed", "holding", "attached"} => at[x] \in Topic
    /\ \A p \in Publisher : pc[p] \in {"idle", "missed", "holding"}
    /\ \A p \in Publisher : ev[p] # None <=> pc[p] # "idle"
    /\ \A p \in Publisher : ev[p] <= started
    /\ \A s \in Subscriber : \A e \in owed[s] : e <= started
    /\ \A s \in Subscriber : pc[s] \in {"idle", "missed", "holding"} => owed[s] = {}
    /\ \A s \in rooted : pc[s] \in {"attached", "gone"}

Anchored == \A s \in rooted : Attached(s) => chan[at[s]] = held[s]

Routed ==
    \A s \in rooted, p \in Publisher : Attached(s) /\ ev[p] \in owed[s] =>
        /\ at[p] = at[s]
        /\ pc[p] = "holding" => held[p] = held[s]

IInv ==
    /\ TypeOK
    /\ Distinct
    /\ TaskShape
    /\ Anchored
    /\ Routed
    /\ RootedMissesNothing

-----------------------------------------------------------------------------

LEMMA InitIInv == Init => IInv
  BY BrokerAssumption
  DEF Init, IInv, TypeOK, Distinct, TaskShape, Anchored, Routed, RootedMissesNothing,
      Attached, None, Channel, Event, Task

\* A channel with a receiver is neither swept nor evicted.
LEMMA NotSwept ==
    ASSUME NEW t \in Topic, chan[t] # None, Receivers(chan[t]) # {}
    PROVE  t \notin Swept /\ t \notin Evicted
  BY DEF Swept, Evicted

\* Appending to a channel's log forgets nothing that is in it.
LEMMA AppendKeeps ==
    ASSUME NEW s \in Seq(Event), NEW e \in Event
    PROVE  /\ Append(s, e) \in Seq(Event)
           /\ Len(Append(s, e)) = Len(s) + 1
           /\ Append(s, e)[Len(s) + 1] = e
           /\ \A i \in 1..Len(s) : i \in 1..Len(Append(s, e)) /\ Append(s, e)[i] = s[i]
  OBVIOUS

\* Either path of the first lookup leaves task x on topic t, holding the
\* topic's channel or nothing.
LEMMA LookupEffect ==
    ASSUME TypeOK, TaskShape, NEW x \in Task, NEW t \in Topic, Lookup(x, t)
    PROVE  /\ pc[x] = "idle"
           /\ UNCHANGED <<chan, created, log, cursor, rooted>>
           /\ fresh' \in SUBSET Topic
           /\ at' = [at EXCEPT ![x] = t]
           /\ pc' = [pc EXCEPT ![x] = IF chan[t] = None THEN "missed" ELSE "holding"]
           /\ held' = [held EXCEPT ![x] = chan[t]]
  <1> USE DEF Lookup, None, Task
  <1>1. CASE FastHit(x, t)
    BY <1>1 DEF FastHit, FastMiss, TypeOK
  <1>2. CASE FastMiss(x, t)
    <2>1. held[x] = None /\ chan[t] = None
      BY <1>2 DEF FastMiss, TaskShape
    <2>2. held = [held EXCEPT ![x] = chan[t]]
      BY <2>1 DEF TypeOK
    <2>3. QED  BY <1>2, <2>1, <2>2 DEF FastMiss, TypeOK
  <1>3. QED  BY <1>1, <1>2

LEMMA StepIInv == IInv /\ [Next]_vars => IInv'
  <1> SUFFICES ASSUME IInv, [Next]_vars PROVE IInv'
    OBVIOUS
  <1> USE BrokerAssumption DEF Task, None
  <1>1. /\ TypeOK /\ Distinct /\ TaskShape /\ Anchored /\ Routed /\ RootedMissesNothing
    BY DEF IInv
  <1>2. ASSUME NEW p \in Publisher, Send(p) PROVE IInv'
    <2>1. ev[p] \in Event /\ held[p] \in Channel
      BY <1>1, <1>2 DEF TypeOK, TaskShape, Send
    <2>2. log' \in [Channel -> Seq(Event)]
      BY <1>1, <1>2, <2>1, AppendKeeps DEF TypeOK, Send
    <2>3. TypeOK'
      BY <1>1, <1>2, <2>2 DEF TypeOK, Send
    <2>4. Distinct' /\ TaskShape' /\ Anchored' /\ Routed'
      BY <1>1, <1>2 DEF TypeOK, Distinct, TaskShape, Anchored, Routed, Attached, Send, Event
    <2>5. ASSUME NEW s \in rooted, Attached(s)', NEW e \in owed[s]
          PROVE  InFlight(e)' \/ Logged(held[s], e)'
      <3>1. s \in Subscriber /\ Attached(s) /\ held'[s] = held[s] /\ held[s] \in Channel
        BY <1>1, <1>2, <2>5 DEF TypeOK, TaskShape, Attached, Send
      <3>2. CASE Logged(held[s], e)
        BY <1>1, <1>2, <2>1, <3>1, <3>2, AppendKeeps DEF TypeOK, Logged, Send
      <3>3. CASE e = ev[p]
        <4>1. held[p] = held[s]
          BY <1>1, <1>2, <2>5, <3>1, <3>3 DEF Routed, Send
        <4>2. Receivers(held[p]) # {}
          BY <3>1, <4>1 DEF Receivers, Attached
        <4>3. /\ log[held[s]] \in Seq(Event)
              /\ log'[held[s]] = Append(log[held[s]], e)
          BY <1>1, <1>2, <3>1, <3>3, <4>1, <4>2 DEF TypeOK, Send
        <4>4. Len(log[held[s]]) + 1 \in 1..Len(log'[held[s]])
          BY <2>1, <3>3, <4>3, AppendKeeps
        <4>5. log'[held'[s]][Len(log[held[s]]) + 1] = e
          BY <2>1, <3>1, <3>3, <4>3, AppendKeeps
        <4>6. QED  BY <3>1, <4>4, <4>5 DEF Logged
      <3>4. CASE e # ev[p] /\ InFlight(e)
        BY <1>1, <1>2, <3>4 DEF TypeOK, InFlight, Send
      <3>5. QED
        BY <1>1, <2>5, <3>1, <3>2, <3>3, <3>4 DEF RootedMissesNothing
    <2>6. RootedMissesNothing'
      BY <1>1, <1>2, <2>5 DEF RootedMissesNothing, TypeOK, TaskShape, Attached, Send, Logged
    <2>7. QED  BY <2>3, <2>4, <2>6 DEF IInv
  <1>3. ASSUME NEW p \in Publisher, NEW t \in Topic, StartPublish(p, t) PROVE IInv'
    <2>1. pc[p] = "idle" /\ started + 1 \in Event
      BY <1>1, <1>3 DEF StartPublish, Lookup, TypeOK, Event
    <2>2. /\ UNCHANGED <<chan, created, log, cursor, rooted>>
          /\ fresh' \in SUBSET Topic
          /\ at' = [at EXCEPT ![p] = t]
          /\ pc' = [pc EXCEPT ![p] = IF chan[t] = None THEN "missed" ELSE "holding"]
          /\ held' = [held EXCEPT ![p] = chan[t]]
          /\ started' = started + 1
          /\ ev' = [ev EXCEPT ![p] = started + 1]
      BY <1>1, <1>3, LookupEffect DEF StartPublish
    <2>3. TypeOK'
      <3>1. owed' \in [Subscriber -> SUBSET Event]
        BY <1>1, <1>3, <2>1 DEF TypeOK, StartPublish
      <3>2. QED  BY <1>1, <2>1, <2>2, <3>1 DEF TypeOK, Event
    <2>4. Distinct' /\ Anchored'
      BY <1>1, <2>1, <2>2 DEF TypeOK, TaskShape, Distinct, Anchored, Attached
    <2>5. TaskShape'
      <3>1. /\ \A q \in Publisher : ev'[q] <= started'
            /\ \A q \in Publisher : ev'[q] # None <=> pc'[q] # "idle"
        BY <1>1, <2>1, <2>2 DEF TypeOK, TaskShape, Event
      <3>2. /\ \A s \in Subscriber : \A e \in owed'[s] : e <= started'
            /\ \A s \in Subscriber : pc'[s] \in {"idle", "missed", "holding"} => owed'[s] = {}
        BY <1>1, <1>3, <2>1, <2>2 DEF TypeOK, TaskShape, Event, StartPublish
      <3>3. QED  BY <1>1, <2>1, <2>2, <3>1, <3>2 DEF TypeOK, TaskShape
    <2>6. Routed'
      <3> SUFFICES ASSUME NEW s \in rooted, NEW q \in Publisher,
                          Attached(s)', ev'[q] \in owed'[s]
                   PROVE  at'[q] = at'[s] /\ (pc'[q] = "holding" => held'[q] = held'[s])
        BY <2>2 DEF Routed
      <3>1. /\ s \in Subscriber /\ s # p /\ Attached(s)
            /\ at'[s] = at[s] /\ held'[s] = held[s] /\ chan[at[s]] = held[s]
        BY <1>1, <2>2 DEF TypeOK, Anchored, Attached
      <3>2. CASE q = p
        <4>1. ev'[p] = started + 1 /\ at'[p] = t
          BY <1>1, <2>2 DEF TypeOK
        <4>2. at[s] = t
          <5>1. started + 1 \notin owed[s]
            BY <1>1, <2>1, <3>1 DEF TypeOK, TaskShape, Event
          <5>2. QED  BY <1>3, <3>1, <3>2, <4>1, <5>1 DEF StartPublish
        <4>3. held'[p] = chan[t]
          BY <1>1, <2>2 DEF TypeOK
        <4>4. QED  BY <3>1, <3>2, <4>1, <4>2, <4>3
      <3>3. CASE q # p
        <4>1. /\ ev'[q] = ev[q] /\ at'[q] = at[q] /\ pc'[q] = pc[q] /\ held'[q] = held[q]
          BY <1>1, <2>2, <3>3 DEF TypeOK
        <4>2. ev[q] <= started
          BY <1>1 DEF TaskShape
        <4>3. ev[q] \in owed[s]
          BY <1>1, <1>3, <3>1, <4>1, <4>2 DEF TypeOK, StartPublish, Event
        <4>4. QED  BY <1>1, <3>1, <4>1, <4>3 DEF Routed
      <3>4. QED  BY <3>2, <3>3
    <2>7. RootedMissesNothing'
      <3> SUFFICES ASSUME NEW s \in rooted, Attached(s)', NEW e \in owed'[s]
                   PROVE  InFlight(e)' \/ Logged(held[s], e)'
        BY <2>2 DEF RootedMissesNothing
      <3>1. s \in Subscriber /\ s # p /\ Attached(s) /\ held'[s] = held[s] /\ log' = log
        BY <1>1, <2>2 DEF TypeOK, Attached
      <3>2. CASE e = started + 1
        <4>1. ev'[p] = e
          BY <1>1, <1>3, <3>2 DEF TypeOK, StartPublish
        <4>2. QED  BY <4>1 DEF InFlight
      <3>3. CASE e # started + 1
        <4>1. e \in owed[s]
          BY <1>3, <3>1, <3>3 DEF StartPublish
        <4>2. CASE Logged(held[s], e)
          BY <3>1, <4>2 DEF Logged
        <4>3. ASSUME NEW q \in Publisher, ev[q] = e PROVE InFlight(e)'
          <5>1. e # None
            BY <1>1, <3>1, <4>1 DEF TypeOK, Event
          <5>2. q # p
            BY <1>1, <2>1, <4>3, <5>1 DEF TaskShape
          <5>3. ev'[q] = e
            BY <1>1, <1>3, <4>3, <5>2 DEF TypeOK, StartPublish
          <5>4. QED  BY <5>3 DEF InFlight
        <4>4. QED
          BY <1>1, <3>1, <4>1, <4>2, <4>3 DEF RootedMissesNothing, InFlight
      <3>4. QED  BY <3>2, <3>3
    <2>8. QED  BY <2>3, <2>4, <2>5, <2>6, <2>7 DEF IInv
  <1>4. ASSUME NEW x \in Task, SlowHit(x) PROVE IInv'
    <2>1. TypeOK'
      BY <1>1, <1>4 DEF TypeOK, TaskShape, SlowHit
    <2>2. Distinct' /\ TaskShape'
      BY <1>1, <1>4 DEF TypeOK, Distinct, TaskShape, SlowHit
    <2>3. Anchored' /\ Routed'
      BY <1>1, <1>4 DEF TypeOK, TaskShape, Anchored, Routed, Attached, SlowHit
    <2>4. RootedMissesNothing'
      BY <1>1, <1>4 DEF TypeOK, TaskShape, RootedMissesNothing, Attached, InFlight, Logged,
                        SlowHit
    <2>5. QED  BY <2>1, <2>2, <2>3, <2>4 DEF IInv
  <1>5. ASSUME NEW x \in Task, SlowCreate(x) PROVE IInv'
    <2>1. /\ at[x] \in Topic /\ created + 1 \in Channel /\ created + 1 # None
          /\ Evicted \subseteq Topic
      BY <1>1, <1>5 DEF TypeOK, TaskShape, SlowCreate, Channel, Evicted, Entries
    <2>2. TypeOK'
      BY <1>1, <1>5, <2>1 DEF TypeOK, SlowCreate, Channel
    <2>3. Distinct'
      <3>1. /\ \A t \in Topic : chan[t] <= created /\ chan[t] \in Nat
            /\ \A y \in Task : held[y] <= created /\ held[y] \in Nat
            /\ created \in Nat
        BY <1>1 DEF TypeOK, Distinct, Channel
      <3>2. \A t \in Topic : chan'[t] = created + 1 <=> t = at[x]
        BY <1>5, <2>1, <3>1 DEF SlowCreate
      <3>3. \A t \in Topic : t # at[x] => chan'[t] \in {chan[t], None}
        BY <1>5, <2>1 DEF SlowCreate
      <3>4. /\ \A t, u \in Topic : chan'[t] # None /\ chan'[t] = chan'[u] => t = u
            /\ \A t \in Topic : chan'[t] <= created'
        BY <1>1, <1>5, <3>1, <3>2, <3>3 DEF Distinct, SlowCreate
      <3>5. /\ held'[x] = created + 1 /\ at' = at
            /\ \A y \in Task \ {x} : held'[y] = held[y]
        BY <1>1, <1>5 DEF TypeOK, SlowCreate
      <3>6. \A y \in Task : held'[y] <= created'
        BY <1>5, <3>1, <3>5 DEF SlowCreate
      <3>7. ASSUME NEW y \in Task, NEW t \in Topic, held'[y] # None, chan'[t] = held'[y]
            PROVE  at'[y] = t
        <4>1. CASE y = x
          BY <3>2, <3>5, <3>7, <4>1
        <4>2. CASE y # x
          BY <1>1, <3>1, <3>2, <3>3, <3>5, <3>7, <4>2 DEF Distinct
        <4>3. QED  BY <4>1, <4>2
      <3>8. QED  BY <3>4, <3>6, <3>7 DEF Distinct
    <2>4. TaskShape'
      BY <1>1, <1>5, <2>1 DEF TypeOK, TaskShape, SlowCreate
    <2>5. ASSUME NEW s \in rooted, Attached(s)'
          PROVE  /\ s # x /\ Attached(s) /\ s \in Subscriber /\ at[s] # at[x]
                 /\ chan'[at[s]] = held[s] /\ held'[s] = held[s]
      <3>1. s # x /\ s \in Subscriber /\ Attached(s) /\ held'[s] = held[s]
        BY <1>1, <1>5, <2>5 DEF TypeOK, TaskShape, Attached, SlowCreate
      <3>2. chan[at[s]] = held[s] /\ held[s] # None /\ at[s] \in Topic
        BY <1>1, <3>1 DEF Anchored, TaskShape, Attached
      <3>3. Receivers(chan[at[s]]) # {}
        BY <3>1, <3>2 DEF Receivers, Attached
      <3>4. at[s] \notin Evicted
        BY <3>2, <3>3, NotSwept
      <3>5. at[s] # at[x]
        BY <1>5, <3>2 DEF SlowCreate
      <3>6. QED  BY <1>5, <3>1, <3>2, <3>4, <3>5 DEF SlowCreate
    <2>6. Anchored'
      BY <1>5, <2>5 DEF Anchored, SlowCreate
    <2>7. Routed'
      BY <1>1, <1>5, <2>5 DEF TypeOK, Routed, SlowCreate
    <2>8. RootedMissesNothing'
      BY <1>1, <1>5, <2>5 DEF RootedMissesNothing, InFlight, Logged, SlowCreate
    <2>9. QED  BY <2>2, <2>3, <2>4, <2>6, <2>7, <2>8 DEF IInv
  <1>6. ASSUME NEW x \in Task, Abort(x) PROVE IInv'
    <2>1. /\ UNCHANGED <<chan, fresh, created, started, at, held, log, cursor, rooted>>
          /\ pc' = [pc EXCEPT ![x] = IF x \in Publisher THEN "idle" ELSE "gone"]
          /\ pc[x] = "missed"
      BY <1>6 DEF Abort
    <2>2. CASE x \in Publisher
      <3>1. /\ ev' = [ev EXCEPT ![x] = None]
            /\ owed' = [s \in Subscriber |-> owed[s] \ {ev[x]}]
        BY <1>6, <2>2 DEF Abort
      <3>2. TypeOK' /\ Distinct'
        BY <1>1, <2>1, <2>2, <3>1 DEF TypeOK, Distinct
      <3>3. TaskShape'
        BY <1>1, <2>1, <2>2, <3>1 DEF TypeOK, TaskShape
      <3>4. Anchored' /\ Routed'
        BY <1>1, <2>1, <2>2, <3>1 DEF TypeOK, TaskShape, Anchored, Routed, Attached, Event
      <3>5. RootedMissesNothing'
        <4> SUFFICES ASSUME NEW s \in rooted, pc'[s] = "attached", NEW e \in owed'[s]
                     PROVE  (\E p \in Publisher : ev'[p] = e) \/ Logged(held[s], e)
          BY <2>1 DEF RootedMissesNothing, Attached, InFlight, Logged
        <4>1. s \in Subscriber /\ pc[s] = "attached" /\ e \in owed[s] /\ e # ev[x]
          BY <1>1, <2>1, <2>2, <3>1 DEF TypeOK
        <4>2. (\E p \in Publisher : ev[p] = e) \/ Logged(held[s], e)
          BY <1>1, <4>1 DEF RootedMissesNothing, Attached, InFlight
        <4>3. \A p \in Publisher : ev[p] = e => ev'[p] = e
          BY <1>1, <3>1, <4>1 DEF TypeOK
        <4>4. QED  BY <4>2, <4>3
      <3>6. QED  BY <3>2, <3>3, <3>4, <3>5 DEF IInv
    <2>3. CASE x \notin Publisher
      <3>1. x \in Subscriber /\ UNCHANGED <<ev, owed>>
        BY <1>6, <2>3 DEF Abort
      <3>2. TypeOK' /\ Distinct'
        BY <1>1, <2>1, <2>3, <3>1 DEF TypeOK, Distinct
      <3>3. TaskShape'
        BY <1>1, <2>1, <2>3, <3>1 DEF TypeOK, TaskShape
      <3>4. x \notin rooted
        BY <1>1, <2>1 DEF TaskShape
      <3>5. \A q \in rooted \cup Publisher : pc'[q] = pc[q]
        BY <1>1, <2>1, <2>3, <3>4 DEF TypeOK
      <3>6. Anchored' /\ Routed' /\ RootedMissesNothing'
        BY <1>1, <2>1, <3>1, <3>5 DEF Anchored, Routed, RootedMissesNothing, Attached,
                                     InFlight, Logged
      <3>7. QED  BY <3>2, <3>3, <3>6 DEF IInv
    <2>4. QED  BY <2>2, <2>3
  <1>7. ASSUME NEW s \in Subscriber, NEW t \in Topic, StartSubscribe(s, t) PROVE IInv'
    <2>1. /\ pc[s] = "idle" /\ UNCHANGED <<started, ev, owed>>
          /\ UNCHANGED <<chan, created, log, cursor, rooted>>
          /\ fresh' \in SUBSET Topic
          /\ at' = [at EXCEPT ![s] = t]
          /\ pc' = [pc EXCEPT ![s] = IF chan[t] = None THEN "missed" ELSE "holding"]
          /\ held' = [held EXCEPT ![s] = chan[t]]
      BY <1>1, <1>7, LookupEffect DEF StartSubscribe
    <2>2. TypeOK' /\ Distinct'
      BY <1>1, <2>1 DEF TypeOK, Distinct
    <2>3. TaskShape'
      BY <1>1, <2>1 DEF TypeOK, TaskShape
    <2>4. ASSUME NEW q \in rooted PROVE q # s
      BY <1>1, <2>1, <2>4 DEF TaskShape
    <2>5. /\ \A q \in rooted : /\ q \in Subscriber /\ at'[q] = at[q] /\ held'[q] = held[q]
                               /\ pc'[q] = pc[q]
          /\ \A p \in Publisher : at'[p] = at[p] /\ held'[p] = held[p] /\ pc'[p] = pc[p]
      BY <1>1, <2>1, <2>4 DEF TypeOK
    <2>6. Anchored' /\ Routed' /\ RootedMissesNothing'
      BY <1>1, <2>1, <2>5 DEF Anchored, Routed, RootedMissesNothing, Attached,
                              InFlight, Logged
    <2>7. QED  BY <2>2, <2>3, <2>6 DEF IInv
  <1>8. ASSUME NEW s \in Subscriber, Attach(s) PROVE IInv'
    <2>1. log[held[s]] \in Seq(Event) /\ owed[s] = {}
      BY <1>1, <1>8 DEF TypeOK, TaskShape, Attach
    <2>2. TypeOK' /\ Distinct'
      BY <1>1, <1>8, <2>1 DEF TypeOK, Distinct, Attach
    <2>3. TaskShape'
      BY <1>1, <1>8 DEF TypeOK, TaskShape, Attach
    <2>4. Anchored'
      BY <1>1, <1>8 DEF TypeOK, TaskShape, Anchored, Attached, Attach
    <2>5. Routed'
      BY <1>1, <1>8, <2>1 DEF TypeOK, TaskShape, Routed, Attached, Attach
    <2>6. RootedMissesNothing'
      <3>1. /\ UNCHANGED <<ev, log, held, owed>> /\ rooted' \subseteq rooted \cup {s}
            /\ \A q \in Subscriber \ {s} : pc'[q] = pc[q]
            /\ rooted \subseteq Subscriber
        BY <1>1, <1>8 DEF TypeOK, Attach
      <3>2. ASSUME NEW q \in rooted', pc'[q] = "attached", NEW e \in owed'[q]
            PROVE  InFlight(e) \/ Logged(held[q], e)
        <4>1. q # s /\ q \in rooted /\ e \in owed[q]
          BY <2>1, <3>1, <3>2
        <4>2. pc[q] = "attached"
          BY <3>1, <3>2, <4>1
        <4>3. QED  BY <1>1, <4>1, <4>2 DEF RootedMissesNothing, Attached
      <3>3. QED  BY <3>1, <3>2 DEF RootedMissesNothing, Attached, InFlight, Logged
    <2>7. QED  BY <2>2, <2>3, <2>4, <2>5, <2>6 DEF IInv
  <1>9. ASSUME NEW s \in Subscriber, Receive(s) PROVE IInv'
    <2>1. TypeOK'
      <3>1. log[held[s]] \in Seq(Event) /\ cursor[s] \in Nat
        BY <1>1, <1>9 DEF TypeOK, TaskShape, Receive
      <3>2. (IF Behind(s) > Capacity THEN Len(log[held[s]]) + 1 - Capacity
             ELSE cursor[s] + 1) \in Nat
        BY <3>1 DEF Behind
      <3>3. QED  BY <1>1, <1>9, <3>2 DEF TypeOK, Receive
    <2>2. QED
      BY <1>1, <1>9, <2>1 DEF IInv, Distinct, TaskShape, Anchored, Routed,
                              RootedMissesNothing, Attached, InFlight, Logged, Receive
  <1>10. ASSUME NEW s \in Subscriber, StreamEnds(s) \/ Disconnect(s) PROVE IInv'
    <2>1. /\ pc' = [pc EXCEPT ![s] = "gone"]
          /\ UNCHANGED <<chan, fresh, created, started, at, held, ev, log, cursor, owed, rooted>>
      BY <1>10 DEF StreamEnds, Disconnect
    <2>2. TypeOK' /\ Distinct' /\ TaskShape'
      BY <1>1, <2>1 DEF TypeOK, Distinct, TaskShape
    <2>3. \A q \in rooted : Attached(q)' => Attached(q)
      BY <1>1, <2>1 DEF TypeOK, Attached
    <2>4. \A p \in Publisher : pc'[p] = pc[p]
      BY <1>1, <2>1 DEF TypeOK
    <2>5. Anchored' /\ Routed' /\ RootedMissesNothing'
      BY <1>1, <2>1, <2>3, <2>4 DEF Anchored, Routed, RootedMissesNothing, InFlight, Logged
    <2>6. QED  BY <2>2, <2>5 DEF IInv
  <1>11. CASE Sweep
    <2>1. TypeOK' /\ Distinct' /\ TaskShape'
      BY <1>1, <1>11 DEF TypeOK, Distinct, TaskShape, Sweep
    <2>2. ASSUME NEW s \in rooted, Attached(s) PROVE chan'[at[s]] = held[s]
      <3>1. /\ chan[at[s]] = held[s] /\ held[s] # None /\ at[s] \in Topic
            /\ s \in Subscriber
        BY <1>1, <2>2 DEF TypeOK, Anchored, TaskShape, Attached
      <3>2. Receivers(chan[at[s]]) # {}
        BY <2>2, <3>1 DEF Receivers, Attached
      <3>3. QED  BY <1>11, <3>1, <3>2, NotSwept DEF Sweep
    <2>3. Anchored' /\ Routed' /\ RootedMissesNothing'
      BY <1>1, <1>11, <2>2 DEF Anchored, Routed, RootedMissesNothing, Attached, InFlight,
                               Logged, Sweep
    <2>4. QED  BY <2>1, <2>3 DEF IInv
  <1>12. CASE (\E t \in Topic : IdleTtlPasses(t)) \/ UNCHANGED vars
    BY <1>1, <1>12 DEF IInv, TypeOK, Distinct, TaskShape, Anchored, Routed,
                 RootedMissesNothing, Attached, InFlight, Logged, IdleTtlPasses, vars
  <1>13. QED
    BY <1>2, <1>3, <1>4, <1>5, <1>6, <1>7, <1>8, <1>9, <1>10, <1>11, <1>12 DEF Next

LEMMA Invariance == Spec => []IInv
  BY InitIInv, StepIInv, PTL DEF Spec

-----------------------------------------------------------------------------

\* The broker's variables keep their types.
THEOREM BrokerTypeCorrect == Spec => []TypeOK
  BY Invariance, PTL DEF IInv

\* A subscriber whose channel was the topic's as it subscribed misses no event
\* published later, under any interleaving of sweeps and evictions.
THEOREM BrokerRootedMissesNothing == Spec => []RootedMissesNothing
  BY Invariance, PTL DEF IInv

\* No step takes a channel from its subscribers.
THEOREM BrokerActiveChannelKept == Spec => ActiveChannelKept
  <1>1. ASSUME IInv, [Next]_vars, NEW t \in Topic, chan[t] # None, Receivers(chan[t]) # {}
        PROVE  chan'[t] = chan[t]
    <2>1. t \notin Swept /\ t \notin Evicted
      BY <1>1, NotSwept
    <2>2. CASE Sweep
      BY <2>1, <2>2 DEF Sweep
    <2>3. ASSUME NEW x \in Task, SlowCreate(x) PROVE chan'[t] = chan[t]
      BY <1>1, <2>1, <2>3 DEF SlowCreate
    <2>4. CASE UNCHANGED chan
      BY <2>4
    <2>5. QED
      BY <1>1, <2>2, <2>3, <2>4
      DEF Next, vars, Send, StartPublish, StartSubscribe, Lookup, SlowHit, Abort, Attach,
          Receive, StreamEnds, Disconnect, IdleTtlPasses
  <1>2. IInv /\ [Next]_vars
          => [\A t \in Topic : chan[t] # None /\ Receivers(chan[t]) # {}
                => chan'[t] = chan[t]]_vars
    BY <1>1
  <1>3. QED  BY <1>2, Invariance, PTL DEF Spec, ActiveChannelKept

-----------------------------------------------------------------------------
(* The soft cap *)

LEMMA EntriesFinite == IsFiniteSet(Entries) /\ Cardinality(Entries) \in Nat
  BY FS_Subset, FS_CardinalityType, BrokerAssumption DEF Entries

\* A step that only removes entries does not make them more.
LEMMA FewerEntries ==
    ASSUME Entries' \subseteq Entries
    PROVE  ~(Cardinality(Entries') > Cardinality(Entries))
  <1>1. Cardinality(Entries') <= Cardinality(Entries)
    BY EntriesFinite, FS_Subset
  <1>2. Cardinality(Entries') \in Nat
    BY EntriesFinite, FS_Subset, FS_CardinalityType
  <1>3. QED  BY <1>1, <1>2, EntriesFinite

\* A channel created where an entry was evicted leaves no more entries than before.
LEMMA CreationReplaces ==
    ASSUME NEW u, NEW t, t \in Entries, Entries' \subseteq (Entries \ {t}) \cup {u}
    PROVE  ~(Cardinality(Entries') > Cardinality(Entries))
  <1> DEFINE rest == Entries \ {t}
  <1>1. IsFiniteSet(rest) /\ Cardinality(rest) = Cardinality(Entries) - 1
    BY EntriesFinite, FS_RemoveElement
  <1>2. /\ IsFiniteSet(rest \cup {u})
        /\ Cardinality(rest \cup {u})
             = IF u \in rest THEN Cardinality(rest) ELSE Cardinality(rest) + 1
    BY <1>1, FS_AddElement
  <1>3. /\ Cardinality(Entries') <= Cardinality(rest \cup {u})
        /\ Cardinality(Entries') \in Nat
    BY <1>2, FS_Subset, FS_CardinalityType
  <1> HIDE DEF rest
  <1>4. QED  BY <1>1, <1>2, <1>3, EntriesFinite

\* Below the cap one creation does not exceed it.
LEMMA CreationAddsOne ==
    ASSUME NEW u, Entries' \subseteq Entries \cup {u}
    PROVE  Cardinality(Entries') <= Cardinality(Entries) + 1 /\ Cardinality(Entries') \in Nat
  <1>1. /\ IsFiniteSet(Entries \cup {u})
        /\ Cardinality(Entries \cup {u}) <= Cardinality(Entries) + 1
    BY EntriesFinite, FS_AddElement
  <1>2. /\ Cardinality(Entries') <= Cardinality(Entries \cup {u})
        /\ Cardinality(Entries') \in Nat
    BY <1>1, FS_Subset, FS_CardinalityType
  <1>3. Cardinality(Entries \cup {u}) \in Nat
    BY <1>1, FS_CardinalityType
  <1>4. QED  BY <1>1, <1>2, <1>3, EntriesFinite

\* The number of channels exceeds max_count only by a creation that found every
\* channel in use, whatever number of topics, tasks and races there are.
THEOREM BrokerCapExceededOnlyWhenBusy == Spec => CapExceededOnlyWhenBusy
  <1>1. ASSUME IInv, [Next]_vars, Cardinality(Entries') > MaxCount,
               Cardinality(Entries') > Cardinality(Entries), NEW t \in Entries
        PROVE  Receivers(chan[t]) # {}
    <2>1. ASSUME NEW x \in Task, SlowCreate(x), Receivers(chan[t]) = {} PROVE FALSE
      <3>1. /\ at[x] \in Topic
            /\ chan' = [v \in Topic |-> IF v = at[x] THEN created + 1
                                        ELSE IF v \in Evicted THEN None ELSE chan[v]]
        BY <1>1, <2>1 DEF SlowCreate, IInv, TypeOK, TaskShape
      <3>2. t # at[x] /\ t \in Topic
        BY <1>1, <2>1 DEF SlowCreate, Entries
      <3>3. CASE Cardinality(Entries) >= MaxCount
        <4>1. t \in Evicted
          BY <1>1, <2>1, <3>3 DEF Evicted
        <4>2. Entries' \subseteq (Entries \ {t}) \cup {at[x]}
          BY <3>1, <3>2, <4>1 DEF Entries
        <4>3. QED  BY <1>1, <4>2, CreationReplaces
      <3>4. CASE ~(Cardinality(Entries) >= MaxCount)
        <4>1. Entries' \subseteq Entries \cup {at[x]}
          BY <3>1 DEF Entries
        <4>2. Cardinality(Entries') <= Cardinality(Entries) + 1 /\ Cardinality(Entries') \in Nat
          BY <4>1, CreationAddsOne
        <4>3. QED  BY <1>1, <3>4, <4>2, EntriesFinite, BrokerAssumption
      <3>5. QED  BY <3>3, <3>4
    <2>2. CASE Sweep
      <3>1. Entries' \subseteq Entries
        BY <2>2 DEF Sweep, Entries
      <3>2. QED  BY <1>1, <3>1, FewerEntries
    <2>3. CASE UNCHANGED chan
      <3>1. Entries' \subseteq Entries
        BY <2>3 DEF Entries
      <3>2. QED  BY <1>1, <3>1, FewerEntries
    <2>4. QED
      BY <1>1, <2>1, <2>2, <2>3
      DEF Next, vars, Send, StartPublish, StartSubscribe, Lookup, SlowHit, Abort, Attach,
          Receive, StreamEnds, Disconnect, IdleTtlPasses
  <1>2. IInv /\ [Next]_vars
          => [Cardinality(Entries') > MaxCount /\ Cardinality(Entries') > Cardinality(Entries)
                => \A t \in Entries : Receivers(chan[t]) # {}]_vars
    BY <1>1
  <1>3. QED  BY <1>2, Invariance, PTL DEF Spec, CapExceededOnlyWhenBusy

=============================================================================
