---------------------------- MODULE EventBroker ----------------------------
(***************************************************************************)
(* The Rust event broker (rust-broker/src/broker.rs, handlers.rs): a map   *)
(* from topics to tokio broadcast channels behind an RwLock, HTTP tasks    *)
(* that publish and subscribe, and a sweeper that evicts idle channels.    *)
(*                                                                         *)
(* Tasks run on a multi-threaded runtime.  What happens under one lock     *)
(* acquisition is one action; get_or_create_channel() returns a clone of   *)
(* the sender, and the caller sends or subscribes on it after the lock is  *)
(* released, when the map may already have forgotten that channel.         *)
(*                                                                         *)
(* A broadcast channel (tokio) is its log of sent events and one cursor    *)
(* per receiver; it is closed for its receivers once no sender is left,    *)
(* neither in the map nor in a task.                                       *)
(***************************************************************************)
EXTENDS Naturals, Sequences, FiniteSets

CONSTANTS Topic,
          Publisher,    \* tasks in publish(): POST handlers, the Redis task
          Subscriber,   \* SSE connections of stream_events()
          Capacity,     \* events a channel's ring keeps for slow receivers
          MaxCount,     \* max_count, the cap on the number of channels
          TtlPasses,    \* FALSE: all happens in less than idle_ttl
          MaxChannels,  \* bound: channels ever created
          MaxEvents     \* bound: events ever published

ASSUME BrokerAssumption ==
    /\ IsFiniteSet(Topic)
    /\ Publisher \cap Subscriber = {}
    /\ Capacity \in Nat \ {0}
    /\ MaxCount \in Nat
    /\ TtlPasses \in BOOLEAN
    /\ MaxChannels \in Nat
    /\ MaxEvents \in Nat

None == 0
Channel == 1..MaxChannels
Event == 1..MaxEvents
Task == Publisher \cup Subscriber

VARIABLES
    chan,     \* chan[t]: the channel the map holds for topic t, or None
    fresh,    \* topics whose entry was touched less than idle_ttl ago
    created,  \* number of channels created
    started,  \* number of events whose publish() has started
    pc,       \* pc[x]: where task x stands
    at,       \* at[x]: the topic task x works on
    held,     \* held[x]: the channel of the sender or receiver task x holds
    ev,       \* ev[p]: the event publisher p is carrying
    log,      \* log[c]: the events sent on channel c
    cursor,   \* cursor[s]: position in the log s reads next
    owed,     \* owed[s]: events whose publish() started after s subscribed
    rooted    \* subscribers whose channel the map still held as they subscribed

vars == <<chan, fresh, created, started, pc, at, held, ev, log, cursor, owed, rooted>>

TypeOK ==
    /\ chan \in [Topic -> Channel \cup {None}]
    /\ fresh \in SUBSET Topic
    /\ created \in 0..MaxChannels
    /\ started \in 0..MaxEvents
    /\ pc \in [Task -> {"idle", "missed", "holding", "attached", "gone"}]
    /\ at \in [Task -> Topic \cup {None}]
    /\ held \in [Task -> Channel \cup {None}]
    /\ ev \in [Publisher -> Event \cup {None}]
    /\ log \in [Channel -> Seq(Event)]
    /\ cursor \in [Subscriber -> Nat]
    /\ owed \in [Subscriber -> SUBSET Event]
    /\ rooted \in SUBSET Subscriber

Init ==
    /\ chan = [t \in Topic |-> None]
    /\ fresh = {}
    /\ created = 0
    /\ started = 0
    /\ pc = [x \in Task |-> "idle"]
    /\ at = [x \in Task |-> None]
    /\ held = [x \in Task |-> None]
    /\ ev = [p \in Publisher |-> None]
    /\ log = [c \in Channel |-> <<>>]
    /\ cursor = [s \in Subscriber |-> 0]
    /\ owed = [s \in Subscriber |-> {}]
    /\ rooted = {}

-----------------------------------------------------------------------------
(* tokio::sync::broadcast *)

\* receiver_count() of channel c: a sender clone in a task does not count.
Receivers(c) == {s \in Subscriber : pc[s] = "attached" /\ held[s] = c}

\* Mutant of SenderAlive: a subscriber keeps the sender beside its receiver.
SenderAliveInReceiver(c) ==
    \/ \E t \in Topic : chan[t] = c
    \/ \E x \in Task : pc[x] \in {"holding", "attached"} /\ held[x] = c

\* Some sender of c exists: in the map, or cloned by a task about to use it.
SenderAlive(c) ==
    \/ \E t \in Topic : chan[t] = c
    \/ \E x \in Task : pc[x] = "holding" /\ held[x] = c

-----------------------------------------------------------------------------
(* get_or_create_channel() *)

\* Fast path, under the read lock: the entry exists, is touched and cloned.
FastHit(x, t) ==
    /\ chan[t] # None
    /\ fresh' = fresh \cup {t}
    /\ held' = [held EXCEPT ![x] = chan[t]]
    /\ pc' = [pc EXCEPT ![x] = "holding"]
    /\ at' = [at EXCEPT ![x] = t]

\* The read lock is released with nothing found.
FastMiss(x, t) ==
    /\ chan[t] = None
    /\ pc' = [pc EXCEPT ![x] = "missed"]
    /\ at' = [at EXCEPT ![x] = t]
    /\ UNCHANGED <<fresh, held>>

Lookup(x, t) ==
    /\ pc[x] = "idle"
    /\ FastHit(x, t) \/ FastMiss(x, t)
    /\ UNCHANGED <<chan, created, log, cursor, rooted>>

\* Slow path, under the write lock: another task has inserted the entry.
SlowHit(x) ==
    /\ pc[x] = "missed"
    /\ chan[at[x]] # None
    /\ fresh' = fresh \cup {at[x]}
    /\ held' = [held EXCEPT ![x] = chan[at[x]]]
    /\ pc' = [pc EXCEPT ![x] = "holding"]
    /\ UNCHANGED <<chan, created, started, at, ev, log, cursor, owed, rooted>>

Entries == {t \in Topic : chan[t] # None}

\* Mutant of Evicted: the cap check drops every channel.
EvictedAll == IF Cardinality(Entries) >= MaxCount THEN Entries ELSE {}

\* Mutant of Evicted: nothing is evicted at the cap.
EvictedNone == {}

\* The cap check: at the cap every channel without receivers is evicted, fresh
\* or not; if all have receivers the cap is exceeded.
Evicted ==
    IF Cardinality(Entries) >= MaxCount
    THEN {t \in Entries : Receivers(chan[t]) = {}}
    ELSE {}

SlowCreate(x) ==
    /\ pc[x] = "missed"
    /\ chan[at[x]] = None
    /\ created < MaxChannels
    /\ created' = created + 1
    /\ chan' = [t \in Topic |-> IF t = at[x] THEN created + 1
                                ELSE IF t \in Evicted THEN None ELSE chan[t]]
    /\ fresh' = (fresh \ Evicted) \cup {at[x]}
    /\ held' = [held EXCEPT ![x] = created + 1]
    /\ pc' = [pc EXCEPT ![x] = "holding"]
    /\ UNCHANGED <<started, at, ev, log, cursor, owed, rooted>>

\* The client of a handler waiting for the write lock goes away: the handler is
\* dropped, and with it the event it carries.
Abort(x) ==
    /\ pc[x] = "missed"
    /\ pc' = [pc EXCEPT ![x] = IF x \in Publisher THEN "idle" ELSE "gone"]
    /\ IF x \in Publisher
       THEN /\ ev' = [ev EXCEPT ![x] = None]
            /\ owed' = [s \in Subscriber |-> owed[s] \ {ev[x]}]
       ELSE UNCHANGED <<ev, owed>>
    /\ UNCHANGED <<chan, fresh, created, started, at, held, log, cursor, rooted>>

-----------------------------------------------------------------------------
(* publish() *)

\* publish() starts with a new event; everyone attached to its topic is owed it.
StartPublish(p, t) ==
    /\ started < MaxEvents
    /\ Lookup(p, t)
    /\ started' = started + 1
    /\ ev' = [ev EXCEPT ![p] = started + 1]
    /\ owed' = [s \in Subscriber |->
                  IF pc[s] = "attached" /\ at[s] = t
                  THEN owed[s] \cup {started + 1} ELSE owed[s]]

\* sender.send() outside the lock: with no receiver the event is dropped.
\* Afterwards the clone is dropped.
Send(p) ==
    /\ pc[p] = "holding"
    /\ log' = IF Receivers(held[p]) = {} THEN log
              ELSE [log EXCEPT ![held[p]] = Append(@, ev[p])]
    /\ pc' = [pc EXCEPT ![p] = "idle"]
    /\ held' = [held EXCEPT ![p] = None]
    /\ ev' = [ev EXCEPT ![p] = None]
    /\ UNCHANGED <<chan, fresh, created, started, at, cursor, owed, rooted>>

-----------------------------------------------------------------------------
(* subscribe() and stream_events() *)

StartSubscribe(s, t) ==
    /\ Lookup(s, t)
    /\ UNCHANGED <<started, ev, owed>>

\* sender.subscribe() outside the lock: the receiver starts at the log's end,
\* the sender clone is dropped.
Attach(s) ==
    /\ pc[s] = "holding"
    /\ pc' = [pc EXCEPT ![s] = "attached"]
    /\ cursor' = [cursor EXCEPT ![s] = Len(log[held[s]]) + 1]
    /\ rooted' = IF chan[at[s]] = held[s] THEN rooted \cup {s} ELSE rooted
    /\ UNCHANGED <<chan, fresh, created, started, at, held, ev, log, owed>>

Behind(s) == Len(log[held[s]]) + 1 - cursor[s]

\* BroadcastStream yields the next event, or a Lagged error that the handler
\* filters out while the receiver skips to the oldest event still in the ring.
Receive(s) ==
    /\ pc[s] = "attached"
    /\ Behind(s) > 0
    /\ cursor' = [cursor EXCEPT ![s] =
                    IF Behind(s) > Capacity
                    THEN Len(log[held[s]]) + 1 - Capacity
                    ELSE @ + 1]
    /\ UNCHANGED <<chan, fresh, created, started, pc, at, held, ev, log, owed, rooted>>

\* The channel is closed and drained: the stream, and with it the response, ends.
StreamEnds(s) ==
    /\ pc[s] = "attached"
    /\ Behind(s) = 0
    /\ ~SenderAlive(held[s])
    /\ pc' = [pc EXCEPT ![s] = "gone"]
    /\ UNCHANGED <<chan, fresh, created, started, at, held, ev, log, cursor, owed, rooted>>

\* The client disconnects and the receiver is dropped.
Disconnect(s) ==
    /\ pc[s] = "attached"
    /\ pc' = [pc EXCEPT ![s] = "gone"]
    /\ UNCHANGED <<chan, fresh, created, started, at, held, ev, log, cursor, owed, rooted>>

-----------------------------------------------------------------------------
(* The sweeper *)

\* idle_ttl passes (or the wall clock jumps) without a touch of t's entry.
IdleTtlPasses(t) ==
    /\ TtlPasses
    /\ t \in fresh
    /\ fresh' = fresh \ {t}
    /\ UNCHANGED <<chan, created, started, pc, at, held, ev, log, cursor, owed, rooted>>

\* Mutant of Swept: a channel is swept unless it is active and recently used.
SweptUnlessBoth == {t \in Entries : ~(t \in fresh /\ Receivers(chan[t]) # {})}

\* Mutant of Swept: a channel is swept only if idle and subscribed to.
SweptOnlyActive == {t \in Entries : t \notin fresh /\ Receivers(chan[t]) # {}}

Swept == {t \in Entries : t \notin fresh /\ Receivers(chan[t]) = {}}

\* sweep_idle_channels(), under the write lock.
Sweep ==
    /\ Swept # {}
    /\ chan' = [t \in Topic |-> IF t \in Swept THEN None ELSE chan[t]]
    /\ UNCHANGED <<fresh, created, started, pc, at, held, ev, log, cursor, owed, rooted>>

-----------------------------------------------------------------------------

Next ==
    \/ \E p \in Publisher : Send(p) \/ \E t \in Topic : StartPublish(p, t)
    \/ \E x \in Task : SlowHit(x) \/ SlowCreate(x) \/ Abort(x)
    \/ \E s \in Subscriber :
          \/ \E t \in Topic : StartSubscribe(s, t)
          \/ Attach(s)
          \/ Receive(s)
          \/ StreamEnds(s)
          \/ Disconnect(s)
    \/ \E t \in Topic : IdleTtlPasses(t)
    \/ Sweep

Spec == Init /\ [][Next]_vars

\* Running tasks run on and the interval timer of the sweeper keeps ticking;
\* nobody has to publish, subscribe, disconnect or leave a topic idle.
Fairness ==
    /\ \A p \in Publisher : WF_vars(Send(p))
    /\ \A x \in Task : WF_vars(SlowHit(x) \/ SlowCreate(x))
    /\ \A s \in Subscriber :
          WF_vars(Attach(s)) /\ WF_vars(Receive(s)) /\ WF_vars(StreamEnds(s))
    /\ WF_vars(Sweep)

FairSpec == Spec /\ Fairness

-----------------------------------------------------------------------------
(* Safety *)

Attached(s) == pc[s] = "attached"

\* The subscriber reads from the channel that the map gives to new publishers.
Homed(s) == Attached(s) /\ chan[at[s]] = held[s]

InFlight(e) == \E p \in Publisher : ev[p] = e
Logged(c, e) == \E i \in 1..Len(log[c]) : log[c][i] = e

\* Neither the sweep nor the emergency eviction takes a channel from its
\* subscribers: an entry with a receiver stays, and stays the same channel.
ActiveChannelKept ==
    [][\A t \in Topic :
          chan[t] # None /\ Receivers(chan[t]) # {} => chan'[t] = chan[t]]_vars

\* A subscriber whose channel was still the topic's as it subscribed misses
\* nothing for as long as it stays: every event whose publish() started later,
\* and is over, went through its channel, whatever was evicted meanwhile.
RootedMissesNothing ==
    \A s \in rooted : Attached(s) =>
        \A e \in owed[s] : InFlight(e) \/ Logged(held[s], e)

\* The cap is soft but only just: a channel is created beyond max_count only if
\* every other channel has a subscriber at that moment.
CapExceededOnlyWhenBusy ==
    [][Cardinality(Entries') > MaxCount /\ Cardinality(Entries') > Cardinality(Entries)
         => \A t \in Entries : Receivers(chan[t]) # {}]_vars

-----------------------------------------------------------------------------
(* Liveness *)

\* A subscriber that lost the race against an eviction is not left listening
\* to a dead channel: its stream ends, so the client can connect again.
OrphanEnds == \A s \in Subscriber : Attached(s) /\ ~Homed(s) ~> ~Attached(s)

\* An idle channel without subscribers is evicted, unless it is used again.
IdleEvicted ==
    \A t \in Topic :
        (chan[t] # None /\ t \notin fresh /\ Receivers(chan[t]) = {})
            ~> (chan[t] = None \/ t \in fresh \/ Receivers(chan[t]) # {})

-----------------------------------------------------------------------------
(* A claim of the sources that the code does not keep *)

\* subscribe() "returns a receiver for a topic": whoever holds an open receiver
\* gets the events published to the topic from then on.  It does not when its
\* channel is evicted at the cap (or swept) between the clone and subscribe().
SubscriberMissesNothing ==
    \A s \in Subscriber : Attached(s) /\ SenderAlive(held[s]) =>
        \A e \in owed[s] : InFlight(e) \/ Logged(held[s], e)

=============================================================================
