------------------------------ MODULE EventRelay -------------------------------
(***************************************************************************)
(* The gateway's relay of one broker stream to one WebSocket client        *)
(* (handlers/events.go): a reader, a writer and a pump goroutine that share *)
(* a bounded queue and end one another through `done', the response body    *)
(* and the connection.                                                      *)
(*                                                                         *)
(* Lines are numbered in the order in which the broker sends them.  A write *)
(* to a client that does not read may fit into a buffer or run into its     *)
(* deadline, and a client that sends no pong runs into the read deadline.   *)
(***************************************************************************)
EXTENDS Naturals, Sequences

CONSTANTS Lines,    \* bound: lines the broker sends
          Large,    \* the lines longer than scannerMaxBuf
          QueueSize \* outboundQueue

ASSUME RelayAssumption == Lines \in Nat /\ QueueSize \in Nat \ {0} /\ Large \subseteq 1..Lines

VARIABLES
    sent,    \* how many lines the broker has sent
    ended,   \* the broker has ended the stream
    client,  \* "reading", "slow" or "gone"
    pump,    \* "scanning", "holding" a payload, "returned"
    held,    \* the number of lines the pump has read
    reader, writer, \* "running", "writing" (the writer), "ended"
    queue, writing, \* outbound, and the payload of the writer
    done, body, conn, \* done is closed; the body and the connection are open
    written  \* the payloads written to the client

vars == <<sent, ended, client, pump, held, reader, writer, queue, writing, done, body, conn, written>>
world == <<sent, ended, client>>
data == <<held, queue, writing, written>>

TypeOK ==
    /\ sent \in 0..Lines /\ held \in 0..Lines /\ writing \in 0..Lines
    /\ ended \in BOOLEAN /\ done \in BOOLEAN /\ body \in BOOLEAN /\ conn \in BOOLEAN
    /\ client \in {"reading", "slow", "gone"}
    /\ pump \in {"scanning", "holding", "returned"}
    /\ reader \in {"running", "ended"}
    /\ writer \in {"running", "writing", "ended"}
    /\ queue \in Seq(1..Lines) /\ Len(queue) <= QueueSize
    /\ written \in Seq(1..Lines)

Init ==
    /\ sent = 0 /\ ended = FALSE /\ client = "reading"
    /\ pump = "scanning" /\ held = 0
    /\ reader = "running" /\ writer = "running"
    /\ queue = <<>> /\ writing = 0 /\ written = <<>>
    /\ done = FALSE /\ body = TRUE /\ conn = TRUE

-----------------------------------------------------------------------------
(* The broker and the client *)

BrokerSends ==
    /\ ~ended /\ sent < Lines
    /\ sent' = sent + 1
    /\ UNCHANGED <<ended, client, pump, reader, writer, data, done, body, conn>>

BrokerEnds ==
    /\ ~ended
    /\ ended' = TRUE
    /\ UNCHANGED <<sent, client, pump, reader, writer, data, done, body, conn>>

ClientChanges ==
    /\ client # "gone"
    /\ client' \in {"reading", "slow", "gone"} \ {client}
    /\ UNCHANGED <<sent, ended, pump, reader, writer, data, done, body, conn>>

-----------------------------------------------------------------------------
(* The goroutines *)

\* Mutant of CloseDone: the body is left to the pump.
CloseDoneOnly == done' = TRUE /\ UNCHANGED body

\* closeDone(): the body is closed too, which ends a Scan() that waits.
CloseDone == done' = TRUE /\ body' = FALSE

\* The deferred calls of Stream(): closeBody() and conn.Close(), not closeDone().
PumpReturns == pump' = "returned" /\ body' = FALSE /\ conn' = FALSE /\ UNCHANGED done

\* A line that is not too long; what follows depends on done.
PumpScans ==
    /\ pump = "scanning" /\ body /\ held < sent /\ held + 1 \notin Large
    /\ held' = held + 1
    /\ IF done THEN PumpReturns
       ELSE pump' = "holding" /\ UNCHANGED <<done, body, conn>>
    /\ UNCHANGED <<world, reader, writer, queue, writing, written>>

\* Mutant of PumpEnqueues: a full queue drops the payload and the pump goes on.
PumpEnqueuesOrDrops ==
    /\ pump = "holding"
    /\ queue' = IF Len(queue) < QueueSize THEN Append(queue, held) ELSE queue
    /\ pump' = "scanning"
    /\ UNCHANGED <<world, held, reader, writer, writing, done, body, conn, written>>

\* A full queue ends the connection.
PumpEnqueues ==
    /\ pump = "holding"
    /\ IF Len(queue) < QueueSize
       THEN /\ queue' = Append(queue, held)
            /\ pump' = "scanning"
            /\ UNCHANGED <<done, body, conn>>
       ELSE /\ done' = TRUE /\ body' = FALSE /\ conn' = FALSE /\ pump' = "returned"
            /\ UNCHANGED queue
    /\ UNCHANGED <<world, held, reader, writer, writing, written>>

\* Scan() returns false: the body is closed or at its end, or a line is too long.
PumpEnds ==
    /\ pump = "scanning"
    /\ ~body \/ (ended /\ held = sent) \/ (held < sent /\ held + 1 \in Large)
    /\ PumpReturns
    /\ UNCHANGED <<world, reader, writer, data>>

\* ReadMessage() fails: the connection is closed, the client left or is silent
\* beyond the read deadline.
ReaderEnds ==
    /\ reader = "running" /\ (~conn \/ client # "reading")
    /\ reader' = "ended"
    /\ CloseDone
    /\ UNCHANGED <<world, pump, writer, data, conn>>

\* select: a closed done and a waiting payload are picked at random.
WriterSeesDone ==
    /\ writer = "running" /\ done
    /\ writer' = "ended"
    /\ CloseDone
    /\ UNCHANGED <<world, pump, reader, data, conn>>

WriterTakes ==
    /\ writer = "running" /\ queue # <<>>
    /\ writer' = "writing" /\ writing' = Head(queue) /\ queue' = Tail(queue)
    /\ UNCHANGED <<world, pump, held, reader, done, body, conn, written>>

WriterWrites ==
    /\ writer = "writing" /\ conn /\ client # "gone"
    /\ written' = Append(written, writing)
    /\ writer' = "running"
    /\ UNCHANGED <<world, pump, held, reader, queue, writing, done, body, conn>>

\* WriteMessage() fails, for a payload or for a ping.
WriterFails ==
    /\ writer # "ended" /\ (~conn \/ client # "reading")
    /\ writer' = "ended"
    /\ CloseDone
    /\ UNCHANGED <<world, pump, reader, data, conn>>

Pump == PumpScans \/ PumpEnqueues \/ PumpEnds
Writer == WriterSeesDone \/ WriterTakes \/ WriterWrites \/ WriterFails

Next == BrokerSends \/ BrokerEnds \/ ClientChanges \/ Pump \/ ReaderEnds \/ Writer

\* Goroutines that can run do, and a deadline or a closed connection is noticed.
Fairness == WF_vars(Pump) /\ WF_vars(ReaderEnds) /\ WF_vars(Writer)

Spec == Init /\ [][Next]_vars /\ Fairness

-----------------------------------------------------------------------------
(* Properties *)

\* The client sees every line from the first, in order and without a gap, up to
\* where its connection ends: a slow client is cut off, never skipped.
NoGap ==
    LET all == written \o (IF writer = "writing" THEN <<writing>> ELSE <<>>)
               \o queue \o (IF pump = "holding" THEN <<held>> ELSE <<>>)
    IN /\ \A i \in DOMAIN written : written[i] = i
       /\ writer # "ended" =>
             /\ \A i \in DOMAIN all : all[i] = i
             /\ pump # "returned" => Len(all) = held

\* Whichever of the three ends first, the others follow, and the connection and
\* the body are closed: nothing is leaked, also when the topic is silent.
AllEnd ==
    (reader = "ended" \/ writer = "ended" \/ pump = "returned")
        ~> (reader = "ended" /\ writer = "ended" /\ pump = "returned" /\ ~conn /\ ~body)
=============================================================================
