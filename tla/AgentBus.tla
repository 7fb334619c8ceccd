------------------------------- MODULE AgentBus -------------------------------
(***************************************************************************)
(* The message bus of the multi-agent system (app/multi_agent) in one      *)
(* session: the REST API publishes messages, the agents of the session     *)
(* subscribe to its topic and answer the tasks sent to them, and SSE       *)
(* streams show it all to the UI.                                          *)
(*                                                                         *)
(* publish() awaits the handlers it calls, and a handler publishes in its  *)
(* turn: calls nest.  The only places where a call can be suspended are    *)
(* the full inbox of a recipient and the LLM that works on a task; the     *)
(* model interleaves at every call, which allows more.                     *)
(***************************************************************************)
EXTENDS Naturals, Sequences, SequencesExt

CONSTANTS Agent,        \* ids of agents; each is spawned at most once
          Stream,       \* SSE connections
          Nobody,       \* no recipient, or a sender that is not an agent
          InboxSize,    \* maxsize of an agent's inbox
          QueueSize,    \* maxsize of a stream's queue
          HistorySize,  \* history_size of the bus
          HistoryShown, \* messages of the history that a stream starts with
          MaxSent       \* bound: messages sent by the API

ASSUME BusAssumption ==
    /\ Nobody \notin Agent
    /\ InboxSize \in Nat \ {0} /\ QueueSize \in Nat \ {0}
    /\ HistoryShown \in Nat \ {0} /\ HistorySize \in Nat
    /\ HistoryShown <= HistorySize
    /\ MaxSent \in Nat

\* A task makes its recipient publish three messages.
Id == 1..(4 * MaxSent)

VARIABLES
    agents,  \* the registered agents, in the order of their registration
    spawned, \* all that ever were
    sent,    \* number of messages that the API published
    msg,     \* the messages in the order of their publication
    call,    \* call[i]: the publish() of message i
    inbox,   \* inbox[a]: length of the queue _inbox of a
    history, \* the ring buffer of the session's topic
    stream,  \* stream[s]: "off", "connected", "live", "leaked" or "closed"
    queue,   \* queue[s]: the queue of s on the bus
    since,   \* since[s]: number of messages published before s connected
    shown,   \* shown[s]: what the client was sent
    dropped  \* streams whose queue was full at some publish

vars == <<agents, spawned, sent, msg, call, inbox, history, stream, queue, since, shown, dropped>>
tables == <<agents, spawned>>
feeds == <<stream, since, shown>>

NoCall == [stage |-> "none", left |-> <<>>, direct |-> FALSE, child |-> 0]
Over(i) == call[i].stage = "over"

Init ==
    /\ agents = <<>>
    /\ spawned = {}
    /\ sent = 0
    /\ msg = <<>>
    /\ call = [i \in Id |-> NoCall]
    /\ inbox = [a \in Agent |-> 0]
    /\ history = <<>>
    /\ stream = [s \in Stream |-> "off"]
    /\ queue = [s \in Stream |-> <<>>]
    /\ since = [s \in Stream |-> 0]
    /\ shown = [s \in Stream |-> <<>>]
    /\ dropped = {}

-----------------------------------------------------------------------------
(* Agents *)

\* AgentFactory.spawn(): the node registers for direct messages and topics.
Spawn(a) ==
    /\ a \notin spawned
    /\ spawned' = spawned \cup {a}
    /\ agents' = Append(agents, a)
    /\ UNCHANGED <<sent, msg, call, inbox, history, feeds, queue, dropped>>

\* AgentRegistry.remove(): later messages miss it, deliveries under way do not.
Unregister(a) ==
    /\ a \in ToSet(agents)
    /\ agents' = SelectSeq(agents, LAMBDA b : b # a)
    /\ UNCHANGED <<spawned, sent, msg, call, inbox, history, feeds, queue, dropped>>

-----------------------------------------------------------------------------
(* publish() *)

LastOf(seq, k) == IF Len(seq) <= k THEN seq ELSE SubSeq(seq, Len(seq) - k + 1, Len(seq))

Attached == {s \in Stream : stream[s] \in {"connected", "live", "leaked"}}

Full(s) == Len(queue[s]) >= QueueSize

\* The call before its first delivery: unicast to a registered recipient,
\* otherwise the topic's subscribers except the sender.
NewCall(m) ==
    IF m.to \in ToSet(agents)
    THEN [stage |-> "put", left |-> <<m.to>>, direct |-> TRUE, child |-> 0]
    ELSE [stage |-> "next", left |-> SelectSeq(agents, LAMBDA b : b # m.from),
          direct |-> FALSE, child |-> 0]

\* History and streams get the message first; calls is the table of the calls
\* in which the caller, if it is one, already waits for the new one.
Publish(m, calls) ==
    LET i == Len(msg) + 1 IN
    /\ msg' = Append(msg, m)
    /\ call' = [calls EXCEPT ![i] = NewCall(m)]
    /\ history' = LastOf(Append(history, i), HistorySize)
    /\ queue' = [s \in Stream |-> IF s \in Attached /\ ~Full(s)
                                  THEN Append(queue[s], i) ELSE queue[s]]
    /\ dropped' = dropped \cup {s \in Attached : Full(s)}
    /\ UNCHANGED <<tables, feeds>>

\* POST /multi-agent/message; any sender may be named.
Send(from, to, kind) ==
    /\ sent < MaxSent
    /\ sent' = sent + 1
    /\ Publish([from |-> from, to |-> to, kind |-> kind], call)
    /\ UNCHANGED inbox

Advance(i, next) ==
    /\ call' = [call EXCEPT ![i] = next]
    /\ UNCHANGED <<tables, sent, msg, history, feeds, queue, dropped>>

\* Mutant of Put: a full inbox is waited for although there is room.
PutOffByOne(i) ==
    /\ call[i].stage = "put"
    /\ LET a == Head(call[i].left) IN
       /\ inbox[a] + 1 < InboxSize
       /\ inbox' = [inbox EXCEPT ![a] = @ + 1]
    /\ Advance(i, [call[i] EXCEPT !.stage = IF msg[i].kind = "task" THEN "ack" ELSE "over"])

\* _on_direct_message(): the inbox, which nothing ever empties, takes the
\* message, or the call waits; a task is then handled.
Put(i) ==
    /\ call[i].stage = "put"
    /\ LET a == Head(call[i].left) IN
       /\ inbox[a] < InboxSize
       /\ inbox' = [inbox EXCEPT ![a] = @ + 1]
    /\ Advance(i, [call[i] EXCEPT !.stage = IF msg[i].kind = "task" THEN "ack" ELSE "over"])

\* Subscribers are called in turn; they do nothing with what is not their task.
Broadcast(i) ==
    /\ call[i].stage = "next"
    /\ IF call[i].left = <<>>
       THEN Advance(i, [call[i] EXCEPT !.stage = "over"])
       ELSE Advance(i, [call[i] EXCEPT !.left = Tail(@)])
    /\ UNCHANGED inbox

\* The handler of i publishes a message of its own and waits for that call.
Nest(i, to, next) ==
    /\ Publish([from |-> Head(call[i].left), to |-> to, kind |-> "note"],
               [call EXCEPT ![i] = [@ EXCEPT !.stage = next, !.child = Len(msg) + 1]])
    /\ UNCHANGED <<sent, inbox>>

Ready(i) == call[i].child # 0 => Over(call[i].child)

\* LLMAgentNode.handle_message(): the status message, ...
Ack(i) ==
    /\ call[i].stage = "ack"
    /\ Nest(i, msg[i].from, "work")

\* ... process_task(): the LLM's output is broadcast, or it fails, ...
WorkDone(i) ==
    /\ call[i].stage = "work" /\ Ready(i)
    /\ Nest(i, Nobody, "reply")

WorkFailed(i) ==
    /\ call[i].stage = "work" /\ Ready(i)
    /\ Advance(i, [call[i] EXCEPT !.stage = "reply"])
    /\ UNCHANGED inbox

\* ... and the reply to the sender.
Reply(i) ==
    /\ call[i].stage = "reply" /\ Ready(i)
    /\ Nest(i, msg[i].from, "replied")

Return(i) ==
    /\ call[i].stage = "replied" /\ Ready(i)
    /\ Advance(i, [call[i] EXCEPT !.stage = "over"])
    /\ UNCHANGED inbox

-----------------------------------------------------------------------------
(* stream_session() *)

\* The queue is on the bus before the response starts.
Connect(s) ==
    /\ stream[s] = "off"
    /\ stream' = [stream EXCEPT ![s] = "connected"]
    /\ since' = [since EXCEPT ![s] = Len(msg)]
    /\ UNCHANGED <<tables, sent, msg, call, inbox, history, queue, shown, dropped>>

\* Mutant of ShowHistory: what is queued already is discarded.
ShowHistoryAfresh(s) ==
    /\ stream[s] = "connected"
    /\ stream' = [stream EXCEPT ![s] = "live"]
    /\ shown' = [shown EXCEPT ![s] = LastOf(history, HistoryShown)]
    /\ queue' = [queue EXCEPT ![s] = <<>>]
    /\ UNCHANGED <<tables, sent, msg, call, inbox, history, since, dropped>>

\* event_generator() starts: the recent history ...
ShowHistory(s) ==
    /\ stream[s] = "connected"
    /\ stream' = [stream EXCEPT ![s] = "live"]
    /\ shown' = [shown EXCEPT ![s] = LastOf(history, HistoryShown)]
    /\ UNCHANGED <<tables, sent, msg, call, inbox, history, queue, since, dropped>>

\* ... then the queue.
ShowNext(s) ==
    /\ stream[s] = "live" /\ queue[s] # <<>>
    /\ shown' = [shown EXCEPT ![s] = Append(@, Head(queue[s]))]
    /\ queue' = [queue EXCEPT ![s] = Tail(@)]
    /\ UNCHANGED <<tables, sent, msg, call, inbox, history, stream, since, dropped>>

\* The client goes.  A generator that never started runs no finally: its queue
\* stays on the bus.
Close(s) ==
    /\ stream[s] \in {"connected", "live"}
    /\ stream' = [stream EXCEPT ![s] = IF @ = "live" THEN "closed" ELSE "leaked"]
    /\ UNCHANGED <<tables, sent, msg, call, inbox, history, queue, since, shown, dropped>>

-----------------------------------------------------------------------------

Step(i) ==
    \/ Put(i)
    \/ Broadcast(i)
    \/ Ack(i)
    \/ WorkDone(i) \/ WorkFailed(i)
    \/ Reply(i)
    \/ Return(i)

Next ==
    \/ \E a \in Agent : Spawn(a) \/ Unregister(a)
    \/ \E from, to \in Agent \cup {Nobody} : \E kind \in {"task", "note"} : Send(from, to, kind)
    \/ \E i \in Id : Step(i)
    \/ \E s \in Stream : Connect(s) \/ ShowHistory(s) \/ ShowNext(s) \/ Close(s)

Spec == Init /\ [][Next]_vars

\* The event loop runs every call on, and the LLM answers or fails; no user has
\* to do anything.
Fairness == \A i \in Id : WF_vars(Step(i))

FairSpec == Spec /\ Fairness

-----------------------------------------------------------------------------
(* Properties *)

Calls == [stage : {"none", "put", "next", "ack", "work", "reply", "replied", "over"},
          left : Seq(Agent), direct : BOOLEAN, child : Id \cup {0}]

\* Every variable keeps its type.
TypeOK ==
    /\ agents \in Seq(spawned) /\ spawned \in SUBSET Agent
    /\ sent \in 0..MaxSent
    /\ msg \in Seq([from : Agent \cup {Nobody}, to : Agent \cup {Nobody}, kind : {"task", "note"}])
    /\ call \in [Id -> Calls]
    /\ inbox \in [Agent -> 0..InboxSize]
    /\ history \in Seq(Id) /\ Len(history) <= HistorySize
    /\ stream \in [Stream -> {"off", "connected", "live", "leaked", "closed"}]
    /\ queue \in [Stream -> Seq(Id)] /\ \A s \in Stream : Len(queue[s]) <= QueueSize
    /\ since \in [Stream -> Nat]
    /\ shown \in [Stream -> Seq(Id)]
    /\ dropped \in SUBSET Stream

Rising(seq) == \A k \in 2..Len(seq) : seq[k - 1] < seq[k]

\* A stream whose queue was never full has no gap: every message published since
\* it connected, and since the oldest one of the history it started with, has
\* been shown or is queued, in the order of publication (one that came between
\* the connection and the history is shown twice).
StreamHasNoGap ==
    \A s \in Stream \ dropped : stream[s] = "live" =>
        LET all == shown[s] \o queue[s] IN
        /\ \A i \in since[s] + 1..Len(msg) : Contains(all, i)
        /\ shown[s] # <<>> => \A i \in shown[s][1]..since[s] : Contains(all, i)
        /\ \E cut \in 0..Len(all) :
              Rising(SubSeq(all, 1, cut)) /\ Rising(SubSeq(all, cut + 1, Len(all)))

\* A call of publish() hangs only behind a full inbox: unless some agent has got
\* as many direct messages as its inbox holds, every call returns.
HangsOnlyOnInbox ==
    \A i \in Id : (i <= Len(msg) /\ ~Over(i)) ~> (Over(i) \/ \E a \in Agent : inbox[a] = InboxSize)

=============================================================================
