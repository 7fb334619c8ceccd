----------------------------- MODULE AgentsProofs -----------------------------
(***************************************************************************)
(* Proofs about two ways in which agents work together: the bus of         *)
(* messages, for any number of agents, streams and messages and any sizes  *)
(* of the queues and of the history, and the orchestrator of many agents,  *)
(* for any runs and any decompositions.                                    *)
(*                                                                         *)
(* The numbers of the messages that a live stream of the bus has been      *)
(* shown or has queued are two stretches: the part of the history it       *)
(* started with and everything since it connected, the second beginning at *)
(* the latest where the first ends.  How calls nest plays no part in it:   *)
(* all that counts of a publish() is what it does to the history and to    *)
(* the queues.                                                             *)
(*                                                                         *)
(* The invariant of the orchestrator is one of each run alone (RunInv):    *)
(* another run changes neither its nodes nor the slots of its nodes, and   *)
(* takes an answer out of a shared slot only for another one (OtherKept).  *)
(***************************************************************************)
EXTENDS Agents, Integers, SequenceTheorems, TLAPS, FiniteSetTheorems, WellFoundedInduction

\* s holds the numbers from b + 1 on.
From(s, b) == \A k \in 1..Len(s) : s[k] = b + k

\* What s has been shown and what it will be: the part of the history up to
\* position h, which starts after message a, then all since it connected.
Spliced(s, h, a) ==
    LET all == shown[s] \o queue[s]
        new == Len(msg) - since[s]
    IN
    /\ Len(all) = h + new
    /\ \A k \in 1..h : all[k] = a + k
    /\ \A k \in 1..new : all[h + k] = since[s] + k
    /\ since[s] <= a + h
    /\ h = 0 => a = 0

Feed(s) ==
    /\ since[s] <= Len(msg)
    /\ stream[s] = "off" => queue[s] = <<>>
    /\ stream[s] = "connected" =>
           From(queue[s], since[s]) /\ Len(queue[s]) = Len(msg) - since[s]
    /\ stream[s] = "live" => \E h, a \in 0..Len(msg) : Spliced(s, h, a)

\* The ring buffer holds the last HistorySize messages.
Ring ==
    /\ Len(history) = IF Len(msg) <= HistorySize THEN Len(msg) ELSE HistorySize
    /\ From(history, Len(msg) - Len(history))

FeedTypes ==
    /\ Len(msg) \in Nat /\ msg = [k \in 1..Len(msg) |-> msg[k]]
    /\ history \in Seq(Nat)
    /\ stream \in [Stream -> {"off", "connected", "live", "leaked", "closed"}]
    /\ queue \in [Stream -> Seq(Nat)]
    /\ since \in [Stream -> Nat]
    /\ shown \in [Stream -> Seq(Nat)]

IInv == FeedTypes /\ Ring /\ \A s \in Stream \ dropped : Feed(s)

-----------------------------------------------------------------------------
LEMMA FromAppend ==
    ASSUME NEW s \in Seq(Nat), NEW b \in Nat, From(s, b), NEW x \in Nat, x = b + Len(s) + 1
    PROVE  /\ Append(s, x) \in Seq(Nat) /\ Len(Append(s, x)) = Len(s) + 1
           /\ From(Append(s, x), b)
  <1>1. /\ Append(s, x) \in Seq(Nat) /\ Len(Append(s, x)) = Len(s) + 1
        /\ \A i \in 1..Len(s) : Append(s, x)[i] = s[i]
        /\ Append(s, x)[Len(s) + 1] = x
    OBVIOUS
  <1>2. QED  BY <1>1 DEF From

LEMMA ConcatAppend ==
    ASSUME NEW s \in Seq(Nat), NEW t \in Seq(Nat), NEW x \in Nat
    PROVE  s \o Append(t, x) = Append(s \o t, x)
  <1>1. <<x>> \in Seq(Nat) /\ s \o t \in Seq(Nat)
    OBVIOUS
  <1>2. Append(t, x) = t \o <<x>> /\ Append(s \o t, x) = (s \o t) \o <<x>>
    BY <1>1, AppendIsConcat
  <1>3. QED  BY <1>1, <1>2, ConcatAssociative

LEMMA ConcatTail ==
    ASSUME NEW s \in Seq(Nat), NEW t \in Seq(Nat), t # <<>>
    PROVE  Append(s, Head(t)) \o Tail(t) = s \o t
  <1>1. ASSUME NEW x \in Nat, NEW u \in Seq(Nat)
        PROVE  Append(s, x) \o u = s \o (<<x>> \o u)
    <2>1. <<x>> \in Seq(Nat) /\ Append(s, x) = s \o <<x>>
      BY AppendIsConcat
    <2>2. QED  BY <2>1, ConcatAssociative
  <1>2. Head(t) \in Nat /\ Tail(t) \in Seq(Nat)
    OBVIOUS
  <1>3. <<Head(t)>> \o Tail(t) = t
    OBVIOUS
  <1>4. Append(s, Head(t)) \o Tail(t) = s \o (<<Head(t)>> \o Tail(t))
    BY <1>1, <1>2
  <1>5. QED  BY <1>3, <1>4, Zenon

\* The last k of a stretch are a stretch with the same end.
LEMMA LastOfStretch ==
    ASSUME NEW s \in Seq(Nat), NEW b \in Nat, From(s, b), NEW k \in Nat \ {0}
    PROVE  /\ LastOf(s, k) \in Seq(Nat)
           /\ Len(LastOf(s, k)) = IF Len(s) <= k THEN Len(s) ELSE k
           /\ From(LastOf(s, k), b + Len(s) - Len(LastOf(s, k)))
  <1>1. CASE Len(s) <= k
    BY <1>1 DEF LastOf, From
  <1>2. CASE Len(s) > k
    <2> DEFINE t == SubSeq(s, Len(s) - k + 1, Len(s))
    <2>1. LastOf(s, k) = t
      BY <1>2 DEF LastOf
    <2>2. /\ t \in Seq(Nat) /\ Len(t) = k
          /\ \A i \in 1..k : t[i] = s[Len(s) - k + i]
      BY <1>2, SubSeqProperties
    <2>3. ASSUME NEW i \in 1..k PROVE t[i] = b + Len(s) - k + i
      <3>1. Len(s) - k + i \in 1..Len(s)
        BY <1>2
      <3>2. QED  BY <2>2, <3>1 DEF From
    <2>4. QED  BY <1>2, <2>1, <2>2, <2>3 DEF From
  <1>3. QED  BY <1>1, <1>2

LEMMA InitIInv == Init => IInv
  <1> SUFFICES ASSUME Init PROVE IInv
    OBVIOUS
  <1>1. FeedTypes
    BY DEF Init, FeedTypes
  <1>2. Ring
    BY BusAssumption DEF Init, Ring, From
  <1>3. ASSUME NEW s \in Stream PROVE Feed(s)
    BY DEF Init, Feed
  <1>4. QED  BY <1>1, <1>2, <1>3 DEF IInv

\* A step that moves neither the messages nor what the streams have keeps the
\* invariant.
LEMMA QuietStep ==
    ASSUME IInv, UNCHANGED <<msg, history, queue, dropped, feeds>>
    PROVE  IInv'
  <1>1. UNCHANGED <<msg, history, queue, dropped, stream, since, shown>>
    BY DEF feeds
  <1>2. FeedTypes' /\ Ring'
    BY <1>1 DEF IInv, FeedTypes, Ring, From
  <1>3. ASSUME NEW s \in Stream \ dropped PROVE Feed(s)'
    <2>1. Feed(s)
      BY DEF IInv
    <2>2. ASSUME NEW h, NEW a PROVE Spliced(s, h, a)' <=> Spliced(s, h, a)
      BY <1>1 DEF Spliced
    <2>3. QED  BY <1>1, <2>1, <2>2 DEF Feed, From
  <1>4. QED  BY <1>1, <1>2, <1>3 DEF IInv

\* Whoever publishes, and whatever else that does: the ring and the queues of the
\* attached streams take the new message.
LEMMA PublishStep ==
    ASSUME IInv, NEW m, NEW calls, Publish(m, calls)
    PROVE  IInv'
  <1> DEFINE n == Len(msg)
  <1>1. n \in Nat /\ msg' = Append(msg, m) /\ Len(msg') = n + 1
        /\ msg' = [k \in 1..Len(msg') |-> msg'[k]]
    <2> DEFINE T == {msg[k] : k \in 1..n} \cup {m}
    <2>1. n \in Nat /\ msg \in Seq(T)
      BY IsASeq DEF IInv, FeedTypes
    <2>2. msg' = Append(msg, m)
      BY DEF Publish
    <2>3. Append(msg, m) \in Seq(T) /\ Len(Append(msg, m)) = n + 1
      BY <2>1, AppendProperties
    <2>4. QED  BY <2>1, <2>2, <2>3, LenProperties
  <1> HIDE DEF n
  <1>2. history' \in Seq(Nat) /\ Ring'
    <2> DEFINE H == Append(history, n + 1)
    <2>1. /\ history \in Seq(Nat) /\ Len(history) \in Nat /\ Len(history) <= n
          /\ Len(history) = IF n <= HistorySize THEN n ELSE HistorySize
          /\ From(history, n - Len(history))
      BY <1>1, BusAssumption DEF IInv, FeedTypes, Ring, n
    <2>2. HistorySize \in Nat \ {0}
      BY BusAssumption
    <2>3. H \in Seq(Nat) /\ Len(H) = Len(history) + 1 /\ From(H, n - Len(history))
      BY <1>1, <2>1, FromAppend
    <2>4. history' = LastOf(H, HistorySize)
      BY DEF Publish, n
    <2> HIDE DEF H
    <2>5. /\ history' \in Seq(Nat)
          /\ Len(history') = IF Len(H) <= HistorySize THEN Len(H) ELSE HistorySize
          /\ From(history', n - Len(history) + Len(H) - Len(history'))
      <3>1. n - Len(history) \in Nat
        BY <1>1, <2>1
      <3>2. QED  BY <2>2, <2>3, <2>4, <3>1, LastOfStretch
    <2>6. n - Len(history) + Len(H) - Len(history') = Len(msg') - Len(history')
      BY <1>1, <2>1, <2>3
    <2>7. Len(history') = IF Len(msg') <= HistorySize THEN Len(msg') ELSE HistorySize
      BY <1>1, <2>2, <2>1, <2>3, <2>5
    <2>8. QED  BY <2>5, <2>6, <2>7 DEF Ring
  <1>3. UNCHANGED <<stream, since, shown>>
    BY DEF Publish, feeds
  <1>4. ASSUME NEW s \in Stream
        PROVE  queue'[s] = IF s \in Attached /\ ~Full(s) THEN Append(queue[s], n + 1) ELSE queue[s]
    BY DEF Publish, n
  <1>5. queue' \in [Stream -> Seq(Nat)]
    BY <1>1 DEF Publish, IInv, FeedTypes
  <1>6. ASSUME NEW s \in Stream \ dropped' PROVE Feed(s)'
    <2>1. Feed(s) /\ s \in Stream \ dropped
      BY DEF Publish, IInv
    <2>2. stream[s] \in {"connected", "live"} => queue'[s] = Append(queue[s], n + 1)
      BY <1>4 DEF Publish, Attached
    <2>3. queue[s] \in Seq(Nat) /\ shown[s] \in Seq(Nat) /\ since[s] \in Nat /\ since[s] <= n
      BY <2>1 DEF IInv, FeedTypes, Feed, n
    <2>4. CASE stream[s] = "connected"
      <3>1. queue'[s] \in Seq(Nat) /\ Len(queue'[s]) = Len(queue[s]) + 1 /\ From(queue'[s], since[s])
        <4>1. From(queue[s], since[s]) /\ Len(queue[s]) = n - since[s]
          BY <2>1, <2>4 DEF Feed, n
        <4>2. n + 1 \in Nat /\ n + 1 = since[s] + Len(queue[s]) + 1
          BY <1>1, <2>3, <4>1
        <4>3. QED  BY <2>2, <2>3, <2>4, <4>1, <4>2, FromAppend
      <3>2. Len(queue'[s]) = Len(msg') - since'[s] /\ since'[s] <= Len(msg')
        <4>1. Len(queue[s]) = n - since[s]
          BY <2>1, <2>4 DEF Feed, n
        <4>2. QED  BY <1>1, <1>3, <2>3, <3>1, <4>1
      <3>3. QED  BY <1>3, <2>4, <3>1, <3>2 DEF Feed
    <2>5. CASE stream[s] = "live"
      <3>1. PICK h \in 0..n, a \in 0..n : Spliced(s, h, a)
        BY <2>1, <2>5 DEF Feed, n
      <3> DEFINE all == shown[s] \o queue[s]
      <3>2. all \in Seq(Nat) /\ Len(all) = h + (n - since[s]) /\ h \in Nat /\ a \in Nat
        BY <1>1, <2>3, <3>1 DEF Spliced, n
      <3>3. shown'[s] \o queue'[s] = Append(all, n + 1)
        <4>1. shown'[s] = shown[s] /\ queue'[s] = Append(queue[s], n + 1) /\ n + 1 \in Nat
          BY <1>1, <1>3, <2>2, <2>5
        <4>2. QED  BY <2>3, <4>1, ConcatAppend
      <3>4. /\ Len(Append(all, n + 1)) = Len(all) + 1
            /\ \A k \in 1..Len(all) : Append(all, n + 1)[k] = all[k]
            /\ Append(all, n + 1)[Len(all) + 1] = n + 1
        <4>1. n + 1 \in Nat /\ all \in Seq(Nat)
          BY <1>1, <3>2
        <4> HIDE DEF all
        <4>2. QED  BY <4>1, AppendProperties
      <3>5. /\ \A k \in 1..h : all[k] = a + k
            /\ \A k \in 1..(n - since[s]) : all[h + k] = since[s] + k
        BY <3>1 DEF Spliced, n
      <3> HIDE DEF all
      <3>6. ASSUME NEW k \in 1..h PROVE Append(all, n + 1)[k] = a + k
        <4>1. k \in 1..Len(all)
          BY <1>1, <2>3, <3>2
        <4>2. QED  BY <3>4, <3>5, <4>1
      <3>7. ASSUME NEW k \in 1..(n + 1 - since[s]) PROVE Append(all, n + 1)[h + k] = since[s] + k
        <4>1. CASE k = n + 1 - since[s]
          <5>1. h + k = Len(all) + 1 /\ since[s] + k = n + 1
            BY <1>1, <2>3, <3>2, <4>1
          <5>2. QED  BY <3>4, <5>1
        <4>2. CASE k # n + 1 - since[s]
          <5>1. k \in 1..(n - since[s]) /\ h + k \in 1..Len(all)
            <6>1. Len(all) = h + (n - since[s]) /\ h \in Nat
              BY <3>2
            <6>2. n \in Nat /\ since[s] \in Nat /\ since[s] <= n
              BY <1>1, <2>3
            <6>3. QED  BY <4>2, <6>1, <6>2
          <5>2. QED  BY <3>4, <3>5, <5>1
        <4>3. QED  BY <4>1, <4>2
      <3>8. Spliced(s, h, a)'
        <4>1. /\ since[s] <= a + h /\ (h = 0 => a = 0)
              /\ Len(Append(all, n + 1)) = h + (n + 1 - since[s])
          BY <1>1, <2>3, <3>1, <3>2, <3>4 DEF Spliced
        <4>2. since'[s] = since[s] /\ Len(msg') = n + 1
          BY <1>1, <1>3
        <4> DEFINE new == n + 1 - since[s]
        <4>3. \A k \in 1..new : Append(all, n + 1)[h + k] = since[s] + k
          BY <3>7
        <4> HIDE DEF new
        <4>4. new = Len(msg') - since'[s] /\ Len(Append(all, n + 1)) = h + new
          <5>1. new = n + 1 - since[s]
            BY DEF new
          <5>2. n \in Nat /\ since[s] \in Nat
            BY <1>1, <2>3
          <5>3. new = Len(msg') - since[s]
            BY <4>2, <5>2, <5>1
          <5>4. Len(Append(all, n + 1)) = h + new
            BY <4>1, <5>1
          <5>5. QED  BY <4>2, <5>3, <5>4
        <4>5. QED  BY <3>3, <3>6, <4>1, <4>2, <4>3, <4>4 DEF Spliced
      <3>9. h \in 0..Len(msg') /\ a \in 0..Len(msg') /\ since'[s] <= Len(msg')
        BY <1>1, <1>3, <2>3, <3>1
      <3>10. QED  BY <1>3, <2>5, <3>9, <3>8 DEF Feed
    <2>6. CASE stream[s] \notin {"connected", "live"}
      BY <1>1, <1>3, <1>4, <2>1, <2>3, <2>6 DEF Feed, Attached, n
    <2>7. QED  BY <2>4, <2>5, <2>6
  <1>7. QED  BY <1>1, <1>2, <1>3, <1>5, <1>6 DEF IInv, FeedTypes

-----------------------------------------------------------------------------
(* The steps of a stream *)

\* What a step of one stream leaves to show: its own feed.
LEMMA StreamStep ==
    ASSUME IInv, NEW s \in Stream, UNCHANGED <<msg, history, dropped>>,
           FeedTypes', \A r \in Stream \ {s} :
               UNCHANGED <<stream[r], queue[r], since[r], shown[r]>>,
           s \notin dropped => Feed(s)'
    PROVE  IInv'
  <1>1. ASSUME NEW r \in Stream \ dropped', r # s PROVE Feed(r)'
    <2>1. Feed(r) /\ UNCHANGED <<stream[r], queue[r], since[r], shown[r], msg>>
      BY <1>1 DEF IInv
    <2>2. ASSUME NEW h, NEW a PROVE Spliced(r, h, a)' <=> Spliced(r, h, a)
      BY <2>1 DEF Spliced
    <2>3. QED  BY <2>1, <2>2 DEF Feed, From
  <1>2. Ring'
    BY DEF IInv, Ring, From
  <1>3. QED  BY <1>1, <1>2 DEF IInv

LEMMA ConnectStep == ASSUME IInv, NEW s \in Stream, Connect(s) PROVE IInv'
  <1>1. FeedTypes'
    BY DEF Connect, IInv, FeedTypes
  <1>2. s \notin dropped => Feed(s)'
    BY DEF Connect, IInv, FeedTypes, Feed, From
  <1>3. \A r \in Stream \ {s} : UNCHANGED <<stream[r], queue[r], since[r], shown[r]>>
    BY DEF Connect, IInv, FeedTypes
  <1>4. QED  BY <1>1, <1>2, <1>3, StreamStep DEF Connect

LEMMA ShowHistoryStep == ASSUME IInv, NEW s \in Stream, ShowHistory(s) PROVE IInv'
  <1> DEFINE L == LastOf(history, HistoryShown)
             n == Len(msg)
             h == Len(L)
             a == n - h
             all == L \o queue[s]
  <1>1. /\ n \in Nat /\ history \in Seq(Nat) /\ Len(history) <= n
        /\ Len(history) = IF n <= HistorySize THEN n ELSE HistorySize
        /\ From(history, n - Len(history))
    BY BusAssumption DEF IInv, FeedTypes, Ring
  <1>2. /\ L \in Seq(Nat) /\ h = (IF Len(history) <= HistoryShown THEN Len(history) ELSE HistoryShown)
        /\ From(L, n - Len(history) + Len(history) - h)
    <2>1. n - Len(history) \in Nat /\ HistoryShown \in Nat \ {0}
      BY <1>1, BusAssumption
    <2>2. QED  BY <1>1, <2>1, LastOfStretch
  <1>3. From(L, a) /\ h \in 0..n /\ a \in 0..n /\ (h = 0 => a = 0)
    BY <1>1, <1>2, BusAssumption
  <1>4. FeedTypes'
    BY <1>2 DEF ShowHistory, IInv, FeedTypes
  <1>5. ASSUME s \notin dropped PROVE Feed(s)'
    <2>1. /\ queue[s] \in Seq(Nat) /\ since[s] \in Nat /\ since[s] <= n
          /\ From(queue[s], since[s]) /\ Len(queue[s]) = n - since[s]
      BY <1>5 DEF ShowHistory, IInv, FeedTypes, Feed
    <2>2. all \in Seq(Nat) /\ Len(all) = h + Len(queue[s])
      BY <1>2, <2>1, ConcatProperties
    <2>3. ASSUME NEW k \in 1..h PROVE all[k] = a + k
      <3>1. L[k] = a + k
        BY <1>3 DEF From
      <3>2. Len(L) \in Nat /\ Len(queue[s]) \in Nat /\ L \in Seq(Nat) /\ queue[s] \in Seq(Nat)
        BY <1>2, <2>1, LenProperties
      <3>3. k \in 1..(Len(L) + Len(queue[s])) /\ k <= Len(L)
        BY <3>2
      <3> HIDE DEF L
      <3>4. all[k] = L[k]
        BY <3>2, <3>3, ConcatProperties
      <3>5. QED  BY <3>1, <3>4
    <2>4. ASSUME NEW k \in 1..(n - since[s]) PROVE all[h + k] = since[s] + k
      <3>1. k \in 1..Len(queue[s]) /\ h + k \in (h + 1)..(h + Len(queue[s])) /\ (h + k) - h = k
        BY <1>1, <1>3, <2>1
      <3>2. all[h + k] = queue[s][(h + k) - h]
        <4>1. L \in Seq(Nat) /\ queue[s] \in Seq(Nat) /\ Len(L) = h
          BY <1>2, <2>1
        <4>2. \A i \in (Len(L) + 1)..(Len(L) + Len(queue[s])) : all[i] = queue[s][i - Len(L)]
          BY <4>1, ConcatProperties
        <4> HIDE DEF L, all
        <4>3. QED  BY <3>1, <4>1, <4>2
      <3>3. QED  BY <2>1, <3>1, <3>2 DEF From
    <2>5. /\ shown'[s] = L /\ queue'[s] = queue[s] /\ stream'[s] = "live"
          /\ since'[s] = since[s] /\ msg' = msg
      BY DEF ShowHistory, IInv, FeedTypes
    <2>6. PICK g \in 0..n, b \in 0..n : g = h /\ b = a
      BY <1>3
    <2>7. /\ \A k \in 1..g : all[k] = b + k
          /\ \A k \in 1..(n - since[s]) : all[g + k] = since[s] + k
      BY <2>3, <2>6, <2>4
    <2>8. since[s] <= b + g /\ Len(all) = g + (n - since[s]) /\ (g = 0 => b = 0)
      BY <1>1, <1>3, <2>1, <2>2, <2>6
    <2>9. shown'[s] \o queue'[s] = all /\ Len(msg') = n
      BY <2>5
    <2> HIDE DEF all, h, a, n, L
    <2>10. Spliced(s, g, b)'
      BY <2>5, <2>7, <2>8, <2>9 DEF Spliced
    <2>11. since'[s] <= Len(msg') /\ g \in 0..Len(msg') /\ b \in 0..Len(msg')
      BY <2>1, <2>5, <2>6, <2>9
    <2>12. QED  BY <2>5, <2>10, <2>11 DEF Feed
  <1>6. \A r \in Stream \ {s} : UNCHANGED <<stream[r], queue[r], since[r], shown[r]>>
    BY DEF ShowHistory, IInv, FeedTypes
  <1>7. QED  BY <1>4, <1>5, <1>6, StreamStep DEF ShowHistory

LEMMA ShowNextStep == ASSUME IInv, NEW s \in Stream, ShowNext(s) PROVE IInv'
  <1>1. /\ queue[s] \in Seq(Nat) /\ queue[s] # <<>> /\ shown[s] \in Seq(Nat)
        /\ shown'[s] = Append(shown[s], Head(queue[s])) /\ queue'[s] = Tail(queue[s])
        /\ stream[s] = "live" /\ UNCHANGED <<msg, stream, since>>
    BY DEF ShowNext, IInv, FeedTypes
  <1>2. /\ Head(queue[s]) \in Nat /\ Tail(queue[s]) \in Seq(Nat)
    BY <1>1, HeadTailProperties
  <1>3. shown'[s] \in Seq(Nat) /\ shown'[s] \o queue'[s] = shown[s] \o queue[s]
    <2>1. Append(shown[s], Head(queue[s])) \o Tail(queue[s]) = shown[s] \o queue[s]
      BY <1>1, ConcatTail
    <2>2. Append(shown[s], Head(queue[s])) \in Seq(Nat)
      BY <1>1, <1>2, AppendProperties
    <2>3. QED  BY <1>1, <2>1, <2>2, Zenon
  <1>4. FeedTypes'
    BY <1>1, <1>2 DEF ShowNext, IInv, FeedTypes
  <1>5. s \notin dropped => Feed(s)'
    <2>1. UNCHANGED <<msg, stream[s], since[s]>> /\ stream[s] = "live" /\ (Feed(s) \/ s \in dropped)
      BY <1>1 DEF IInv
    <2>2. ASSUME NEW h, NEW a, UNCHANGED <<msg, since[s]>> PROVE Spliced(s, h, a)' <=> Spliced(s, h, a)
      BY <1>3, <2>2 DEF Spliced
    <2>3. QED  BY <2>1, <2>2 DEF Feed
  <1>6. \A r \in Stream \ {s} : UNCHANGED <<stream[r], queue[r], since[r], shown[r]>>
    BY DEF ShowNext, IInv, FeedTypes
  <1>7. QED  BY <1>4, <1>5, <1>6, StreamStep DEF ShowNext

LEMMA CloseStep == ASSUME IInv, NEW s \in Stream, Close(s) PROVE IInv'
  <1>1. FeedTypes'
    BY DEF Close, IInv, FeedTypes
  <1>2. s \notin dropped => Feed(s)'
    BY DEF Close, IInv, FeedTypes, Feed
  <1>3. \A r \in Stream \ {s} : UNCHANGED <<stream[r], queue[r], since[r], shown[r]>>
    BY DEF Close, IInv, FeedTypes
  <1>4. QED  BY <1>1, <1>2, <1>3, StreamStep DEF Close

-----------------------------------------------------------------------------

LEMMA NextIInv == IInv /\ [Next]_vars => IInv'
  <1> SUFFICES ASSUME IInv, [Next]_vars PROVE IInv'
    OBVIOUS
  <1>1. ASSUME NEW b \in Agent, Spawn(b) \/ Unregister(b) PROVE IInv'
    BY <1>1, QuietStep DEF Spawn, Unregister
  <1>2. ASSUME NEW from, NEW to, NEW kind, Send(from, to, kind) PROVE IInv'
    BY <1>2, PublishStep DEF Send
  <1>3. ASSUME NEW i \in Id, Step(i) PROVE IInv'
    <2>1. CASE Put(i)
      BY <2>1, QuietStep DEF Put, Advance
    <2>2. CASE Broadcast(i)
      BY <2>2, QuietStep DEF Broadcast, Advance
    <2>3. CASE Ack(i)
      BY <2>3, PublishStep DEF Ack, Nest
    <2>4. CASE WorkDone(i)
      BY <2>4, PublishStep DEF WorkDone, Nest
    <2>5. CASE WorkFailed(i)
      BY <2>5, QuietStep DEF WorkFailed, Advance
    <2>6. CASE Reply(i)
      BY <2>6, PublishStep DEF Reply, Nest
    <2>7. CASE Return(i)
      BY <2>7, QuietStep DEF Return, Advance
    <2>8. QED  BY <1>3, <2>1, <2>2, <2>3, <2>4, <2>5, <2>6, <2>7 DEF Step
  <1>4. ASSUME NEW s \in Stream, Connect(s) \/ ShowHistory(s) \/ ShowNext(s) \/ Close(s) PROVE IInv'
    BY <1>4, ConnectStep, ShowHistoryStep, ShowNextStep, CloseStep
  <1>5. CASE UNCHANGED vars
    BY <1>5, QuietStep DEF vars, feeds
  <1>6. QED  BY <1>1, <1>2, <1>3, <1>4, <1>5 DEF Next

\* The invariant above holds of every behaviour of the bus.
THEOREM BusInvariant == Spec => []IInv
  BY InitIInv, NextIInv, PTL DEF Spec

LEMMA SplicedHasNoGap ==
    ASSUME IInv, NEW s \in Stream \ dropped, stream[s] = "live"
    PROVE  LET all == shown[s] \o queue[s] IN
           /\ \A i \in since[s] + 1..Len(msg) : Contains(all, i)
           /\ shown[s] # <<>> => \A i \in shown[s][1]..since[s] : Contains(all, i)
           /\ \E cut \in 0..Len(all) :
                 Rising(SubSeq(all, 1, cut)) /\ Rising(SubSeq(all, cut + 1, Len(all)))
  <1> DEFINE all == shown[s] \o queue[s]
             n == Len(msg)
  <1>1. PICK h \in 0..n, a \in 0..n : Spliced(s, h, a)
    BY DEF IInv, Feed
  <1>2. /\ n \in Nat /\ since[s] \in Nat /\ since[s] <= n
        /\ shown[s] \in Seq(Nat) /\ queue[s] \in Seq(Nat) /\ all \in Seq(Nat)
    BY DEF IInv, FeedTypes, Feed
  <1>3. /\ Len(all) = h + (n - since[s]) /\ Len(all) \in Nat
        /\ since[s] <= a + h
        /\ h = 0 => a = 0
        /\ h \in Nat /\ a \in Nat
    BY <1>1, <1>2 DEF Spliced
  <1>4. /\ \A k \in 1..h : all[k] = a + k
        /\ \A k \in 1..(n - since[s]) : all[h + k] = since[s] + k
    BY <1>1 DEF Spliced
  <1>5. shown[s] # <<>> => 1 \in 1..Len(all) /\ all[1] = shown[s][1]
    <2>1. Len(shown[s]) \in Nat /\ Len(queue[s]) \in Nat
      BY <1>2, LenProperties
    <2>2. ASSUME shown[s] # <<>> PROVE Len(shown[s]) # 0
      BY <1>2, <2>2, EmptySeq
    <2>3. ASSUME shown[s] # <<>>
          PROVE  1 \in 1..(Len(shown[s]) + Len(queue[s])) /\ 1 <= Len(shown[s])
      <3>1. Len(shown[s]) # 0
        BY <2>2, <2>3
      <3>2. ASSUME NEW p \in Nat, NEW q \in Nat, p # 0 PROVE 1 \in 1..(p + q) /\ 1 <= p
        BY <3>2
      <3>3. QED  BY <2>1, <3>1, <3>2
    <2>4. QED  BY <1>2, <2>3, ConcatProperties
  <1> HIDE DEF all, n
  <1>6. ASSUME NEW i \in since[s] + 1..n PROVE Contains(all, i)
    <2>1. i - since[s] \in 1..(n - since[s]) /\ since[s] + (i - since[s]) = i
      BY <1>2
    <2>2. all[h + (i - since[s])] = i
      BY <1>4, <2>1
    <2>3. h + (i - since[s]) \in 1..Len(all)
      BY <1>2, <1>3, <2>1
    <2>4. QED  BY <2>2, <2>3 DEF Contains
  <1>7. ASSUME shown[s] # <<>>, NEW i \in shown[s][1]..since[s] PROVE Contains(all, i)
    <2>1. CASE h = 0
      <3>1. a = 0 /\ since[s] = 0 /\ 1 \in 1..(n - since[s])
        BY <1>2, <1>3, <1>7, <1>5, <2>1
      <3>2. all[h + 1] = since[s] + 1
        BY <1>4, <3>1
      <3>3. QED  BY <1>2, <1>7, <1>5, <2>1, <3>1, <3>2
    <2>2. CASE h > 0
      <3>1. all[1] = a + 1
        BY <1>3, <1>4, <2>2
      <3>2. i - a \in 1..h /\ a + (i - a) = i
        BY <1>2, <1>3, <1>7, <1>5, <3>1
      <3>3. all[i - a] = i /\ i - a \in 1..Len(all)
        <4>1. all[i - a] = i
          BY <1>4, <3>2
        <4>2. QED  BY <1>2, <1>3, <3>2, <4>1
      <3>4. QED  BY <3>3 DEF Contains
    <2>3. QED  BY <1>3, <2>1, <2>2
  <1>8. Rising(SubSeq(all, 1, h)) /\ Rising(SubSeq(all, h + 1, Len(all))) /\ h \in 0..Len(all)
    <2>1. h \in 0..Len(all) /\ Len(all) \in Nat /\ Len(all) - h = n - since[s]
      BY <1>2, <1>3
    <2>2. /\ Len(SubSeq(all, 1, h)) = h
          /\ \A k \in 1..h : SubSeq(all, 1, h)[k] = all[k]
      <3>1. h - 1 + 1 = h /\ \A i \in 1..h : all[i] \in Nat
        BY <1>2, <2>1
      <3>2. /\ Len(SubSeq(all, 1, h)) = IF 1 <= h THEN h - 1 + 1 ELSE 0
            /\ \A k \in 1..(h - 1 + 1) : SubSeq(all, 1, h)[k] = all[1 + k - 1]
        BY <1>2, <3>1, SubSeqProperties
      <3>3. QED  BY <2>1, <3>2
    <2>3. \A k \in 1..h : SubSeq(all, 1, h)[k] = a + k
      BY <1>4, <2>1, <2>2
    <2>4. Rising(SubSeq(all, 1, h))
      BY <1>3, <2>1, <2>2, <2>3 DEF Rising
    <2> DEFINE late == SubSeq(all, h + 1, Len(all))
    <2>5. /\ Len(late) = n - since[s]
          /\ \A k \in 1..(n - since[s]) : late[k] = all[h + k]
      BY <1>2, <1>3, <2>1, SubSeqProperties
    <2> HIDE DEF late
    <2>6. ASSUME NEW k \in 2..Len(late) PROVE late[k - 1] < late[k]
      <3>1. k \in 1..(n - since[s]) /\ k - 1 \in 1..(n - since[s])
        BY <1>2, <2>5
      <3>2. late[k] = since[s] + k /\ late[k - 1] = since[s] + (k - 1)
        BY <1>4, <2>5, <3>1
      <3>3. QED  BY <1>2, <3>1, <3>2
    <2>7. Rising(late)
      BY <2>6 DEF Rising
    <2>8. QED  BY <2>1, <2>4, <2>7 DEF late
  <1>9. QED  BY <1>6, <1>7, <1>8 DEF all, n

\* A stream that lost nothing to a full queue shows or has queued every message
\* since it connected and every one since the first it showed, in two rising
\* stretches, however the calls of publish() nest.  (stream_session)
THEOREM BusStreamHasNoGap == Spec => []StreamHasNoGap
  <1>1. IInv => StreamHasNoGap
    BY SplicedHasNoGap DEF StreamHasNoGap
  <1>2. QED  BY <1>1, BusInvariant, PTL

-----------------------------------------------------------------------------
(* The orchestrator of many agents *)

Twin(r, i) == <<r, i, "again">>
Redone(r, i) == Multi!Spawned(Twin(r, i))
Entries == {<<>>} \cup UNION {Multi!Nodes(r) \cup Multi!AgainNodes(r) \cup {<<r>>} : r \in Run}

Begun(r) == pc[r] \notin {"idle", "decompose", "single"}
Finished(r) == pc[r] \in {"hub", "aggregate"} \/ (pc[r] = "over" /\ ~failed[r])

\* The nodes of the subtasks are there while the run needs them.
OwnNodes(r) ==
    /\ ~Begun(r) \/ (pc[r] = "over" /\ cleanup[r]) => registered \cap Multi!Nodes(r) = {}
    /\ pc[r] \in {"execute", "hub", "aggregate"} => \A i \in plan[r].todo : Multi!Spawned(<<r, i>>)

\* Which subtasks are at work, and which have an output.
Jobs(r) ==
    /\ ~Begun(r) => plan[r].todo = {}
    /\ failed[r] => pc[r] = "over"
    /\ \A i \in Subtask :
         /\ i \notin plan[r].todo => job[r][i] = "none"
         /\ job[r][i] # "done" => output[r][i] = "none"
         /\ job[r][i] = "done" /\ ~failed[r] => output[r][i] # "none"
         /\ job[r][i] \in {"start", "llm"} => pc[r] = "execute" \/ failed[r]
         /\ i \in plan[r].todo /\ Finished(r) => job[r][i] = "done"
    /\ plan[r].pattern = "chain" =>
         \A i, j \in Subtask : i < j /\ job[r][i] # "done" => job[r][j] = "none"

\* An answer is on the board, or was replaced there by another of the same key.
OnBoard(r, i) ==
    \/ Multi!Shown(plan[r].key[i])
    \/ Redone(r, i) /\ board[Twin(r, i)] = Twin(r, i)

Answers(r) == \A i \in plan[r].todo : output[r][i] = "text" => OnBoard(r, i)

\* The subtasks that the hub has done again or will.
Chosen(r, i) == Redone(r, i) \/ i \in retry[r]
ChosenBefore(r, i) == {j \in plan[r].todo : j < i /\ Chosen(r, j)}

Retries(r) ==
    /\ retry[r] \subseteq plan[r].todo
    /\ retry[r] # {} <=> pc[r] = "hub"
    /\ \A i \in Subtask :
         /\ ~Begun(r) \/ pc[r] = "execute" => ~Redone(r, i)
         /\ i \in retry[r] => output[r][i] = "empty"
    /\ Finished(r) => \A i \in plan[r].todo :
         /\ output[r][i] = "empty" /\ plan[r].pattern = "hub_spoke" =>
              Chosen(r, i) \/ Cardinality(ChosenBefore(r, i)) = 2
         /\ Chosen(r, i) => plan[r].pattern = "hub_spoke" /\ Cardinality(ChosenBefore(r, i)) < 2

\* What answers there are, and for which slots, an action leaves so.
AnswersStay ==
    \A q \in Run : \A j \in plan[q].todo : output[q][j] = "text" =>
        j \in plan'[q].todo /\ plan'[q].key[j] = plan[q].key[j] /\ output'[q][j] = "text"

\* A slot with an answer has one after an action.
ShownKept(k) == Multi!Shown(k) => Multi!Shown(k)'

\* The board after an answer was written to it, or an empty one was not.
BoardHas(a, k, x) ==
    /\ board' \in [Multi!Slot -> Entries]
    /\ \A m \in Multi!Slot : m # k => board'[m] = board[m]
    /\ board'[k] = IF a = "text" THEN x ELSE board[k]

RunInv(r) == OwnNodes(r) /\ Jobs(r) /\ Answers(r) /\ Retries(r)

MultiIInv ==
    /\ Multi!TypeOK
    /\ plan \in [Run -> {Multi!None} \cup UNION {Plans[r] : r \in Run}]
    /\ board \in [Multi!Slot -> Entries]
    /\ \A r \in Run : RunInv(r)

-----------------------------------------------------------------------------

LEMMA LeastExists ==
    ASSUME NEW S \in SUBSET Nat, S # {}
    PROVE  \E i \in S : \A j \in S : i <= j
  <1> DEFINE T == {1..n : n \in S}
             R == StrictSubsetOrdering(Nat)
  <1>1. T \subseteq FiniteSubsetsOf(Nat) /\ T # {}
    <2>1. \A n \in S : 1..n \in SUBSET Nat /\ IsFiniteSet(1..n)
      BY FS_Interval
    <2>2. QED  BY <2>1 DEF FiniteSubsetsOf
  <1>2. \E x \in T : \A y \in T : ~(<<y, x>> \in R)
    BY <1>1, FS_StrictSubsetOrderingWellFounded, WFMin
  <1>3. PICK i \in S : \A j \in S : <<1..j, 1..i>> \notin R
    BY <1>2
  <1>4. ASSUME NEW j \in S, ~(i <= j) PROVE FALSE
    <2>1. 1..j \in SUBSET Nat /\ 1..i \in SUBSET Nat /\ 1..j \subseteq 1..i
      BY <1>4
    <2>2. i \in 1..i /\ i \notin 1..j
      BY <1>4
    <2>3. QED  BY <1>3, <2>1, <2>2 DEF StrictSubsetOrdering
  <1>5. QED  BY <1>4

LEMMA LeastIsLeast ==
    ASSUME NEW S \in SUBSET Nat, S # {}
    PROVE  Multi!Least(S) \in S /\ \A j \in S : Multi!Least(S) <= j
  BY LeastExists DEF Multi!Least

LEMMA MultiCardinality ==
    \A S : Multi!Cardinality(S) = Cardinality(S) /\ (Multi!IsFiniteSet(S) <=> IsFiniteSet(S))
  BY DEF Multi!Cardinality, Cardinality, Multi!IsFiniteSet, IsFiniteSet

LEMMA PlanFacts ==
    /\ Subtask \in SUBSET (Nat \ {0}) /\ IsFiniteSet(Subtask)
    /\ \A r \in Run : \A p \in Plans[r] :
         /\ p.todo \in SUBSET Subtask /\ p.key \in [Subtask -> Subtask]
         /\ \E n \in Nat : p.todo = 1..n
         /\ p.todo # {} => 1 \in p.todo
  <1>1. /\ Subtask \in SUBSET (Nat \ {0}) /\ IsFiniteSet(Subtask)
        /\ \A r \in Run : \A p \in Plans[r] :
              /\ p.key \in [Subtask -> Subtask]
              /\ \E n \in Subtask : p.todo = 1..n /\ p.todo \subseteq Subtask
    BY AgentsAssumption, MultiCardinality DEF Multi!OrchestratorAssumption
  <1>2. QED  BY <1>1

LEMMA SubtaskNat == \A i \in Subtask : i \in Nat /\ i # 0
  BY PlanFacts

LEMMA NextSubtask ==
    ASSUME NEW i \in Subtask, NEW j \in Subtask, j = i + 1
    PROVE  i \in Nat /\ j \in Nat /\ i < j /\ j # i
  BY SubtaskNat

\* The same of the plan of a run.
LEMMA PlanOfRun ==
    ASSUME Multi!TypeOK, NEW r \in Run
    PROVE  /\ plan[r].todo \in SUBSET Subtask /\ plan[r].todo \in SUBSET Nat
           /\ IsFiniteSet(plan[r].todo)
           /\ \A i \in Subtask : plan[r].key[i] \in Subtask
           /\ \E n \in Nat : plan[r].todo = 1..n
  <1>1. CASE plan[r] \in Plans[r]
    BY <1>1, PlanFacts, FS_Subset
  <1>2. CASE plan[r] = Multi!None
    <2>1. plan[r].todo = {} /\ plan[r].todo = 1..0 /\ \A i \in Subtask : plan[r].key[i] = i
      BY <1>2 DEF Multi!None
    <2>2. QED  BY <2>1, FS_EmptySet
  <1>3. QED  BY <1>1, <1>2 DEF Multi!TypeOK

\* Nodes and slots of the board are told apart.
LEMMA Apart ==
    /\ \A r, q, i, j : Twin(r, i) = Twin(q, j) => r = q /\ i = j
    /\ \A r, q, i, j : <<r, i>> = <<q, j>> => r = q /\ i = j
    /\ \A r, q, i, j : Twin(r, i) # <<q, j>>
    /\ \A r, i, j : Twin(r, i) # <<j>>
    /\ \A r, i : Twin(r, i) # <<>>
    /\ \A j : <<j>> # <<>>
  BY DEF Twin

LEMMA SlotFacts ==
    /\ \A r \in Run : \A i \in Subtask \cup {0} :
         /\ Twin(r, i) \in Multi!Slot /\ Twin(r, i) \in Entries
         /\ Twin(r, i) \in UNION {Multi!Nodes(q) \cup Multi!AgainNodes(q) : q \in Run}
    /\ \A i \in Subtask : <<i>> \in Multi!Slot
    /\ <<>> \in Multi!Slot
    /\ \A r \in Run : <<r>> \in Entries /\ Multi!Nodes(r) \subseteq Entries
    /\ \A r \in Run : \A i \in Subtask : \A q \in Run : Twin(r, i) \notin Multi!Nodes(q)
    /\ 0 \notin Subtask
  <1>1. ASSUME NEW r \in Run, NEW i \in Subtask \cup {0}
        PROVE  Twin(r, i) \in Multi!AgainNodes(r)
    BY DEF Twin, Multi!AgainNodes
  <1>2. \A r \in Run : Multi!AgainNodes(r) \subseteq Multi!Slot
    BY DEF Multi!Slot
  <1>3. /\ \A i \in Subtask : <<i>> \in Multi!Slot
        /\ <<>> \in Multi!Slot
    BY DEF Multi!Slot
  <1>4. \A r \in Run : <<r>> \in Entries /\ Multi!Nodes(r) \subseteq Entries /\ Multi!AgainNodes(r) \subseteq Entries
    BY DEF Entries
  <1>5. \A r \in Run : \A i \in Subtask : \A q \in Run : Twin(r, i) \notin Multi!Nodes(q)
    BY Apart DEF Multi!Nodes
  <1>6. \A r \in Run : Multi!AgainNodes(r) \subseteq UNION {Multi!Nodes(q) \cup Multi!AgainNodes(q) : q \in Run}
    OBVIOUS
  <1>7. QED  BY <1>1, <1>2, <1>3, <1>4, <1>5, <1>6, PlanFacts

\* A write of an answer to the board.
LEMMA BoardWritten ==
    ASSUME board \in [Multi!Slot -> Entries], NEW a, NEW k \in Multi!Slot, NEW x \in Entries,
           board' = Multi!Written(a, k, x)
    PROVE  BoardHas(a, k, x)
  <1>1. CASE a = "text"
    <2>1. board' = [board EXCEPT ![k] = x]
      BY <1>1 DEF Multi!Written
    <2>2. QED  BY <1>1, <2>1 DEF BoardHas
  <1>2. CASE a # "text"
    BY <1>2 DEF Multi!Written, BoardHas
  <1>3. QED  BY <1>1, <1>2

\* The first two of a set of places.
LEMMA FirstTwoFacts ==
    ASSUME NEW E \in SUBSET Nat, IsFiniteSet(E)
    PROVE  /\ Multi!FirstTwo(E) \subseteq E
           /\ \A i \in Multi!FirstTwo(E) :
                 Cardinality({j \in Multi!FirstTwo(E) : j < i}) < 2
           /\ \A i \in E \ Multi!FirstTwo(E) :
                 Cardinality({j \in Multi!FirstTwo(E) : j < i}) = 2
  <1> DEFINE Below(i) == {j \in E : j < i}
             F == Multi!FirstTwo(E)
  <1>1. \A i \in E : Below(i) \in SUBSET E /\ IsFiniteSet(Below(i)) /\ Cardinality(Below(i)) \in Nat
    BY FS_Subset, FS_CardinalityType
  <1>2. F = {i \in E : Cardinality(Below(i)) < 2}
    BY MultiCardinality DEF Multi!FirstTwo
  <1> HIDE DEF F
  <1>3. ASSUME NEW i \in F PROVE Cardinality({j \in F : j < i}) < 2
    <2>1. {j \in F : j < i} \subseteq Below(i) /\ i \in E /\ IsFiniteSet(Below(i)) /\ Cardinality(Below(i)) \in Nat
          /\ Cardinality(Below(i)) < 2
      BY <1>1, <1>2
    <2>2. Cardinality({j \in F : j < i}) <= Cardinality(Below(i)) /\ Cardinality({j \in F : j < i}) \in Nat
      BY <2>1, FS_Subset, FS_CardinalityType
    <2>3. QED  BY <2>1, <2>2
  <1>4. ASSUME NEW i \in E \ F PROVE Cardinality({j \in F : j < i}) = 2
    <2>1. IsFiniteSet(Below(i)) /\ Cardinality(Below(i)) \in Nat /\ ~(Cardinality(Below(i)) < 2)
      BY <1>1, <1>2
    <2>2. Below(i) # {}
      BY <2>1, FS_EmptySet
    <2>3. PICK a \in Below(i) : \A j \in Below(i) : a <= j
      BY <2>2, LeastExists
    <2>4. Below(i) \ {a} # {}
      <3>1. Cardinality(Below(i) \ {a}) = Cardinality(Below(i)) - 1
        BY <2>1, FS_RemoveElement
      <3>2. QED  BY <2>1, <3>1, FS_EmptySet
    <2>5. PICK b \in Below(i) \ {a} : \A j \in Below(i) \ {a} : b <= j
      BY <2>4, LeastExists
    <2>6. /\ a \in E /\ b \in E /\ a \in Nat /\ b \in Nat /\ i \in Nat
          /\ a < b /\ a < i /\ b < i
      <3>1. a \in E /\ b \in E /\ a < i /\ b < i /\ a <= b /\ a # b /\ i \in Nat
        BY <2>3, <2>5
      <3>2. QED  BY <3>1
    <2>7. a \in F /\ b \in F
      <3>1. ASSUME NEW j \in Below(a) PROVE FALSE
        <4>1. j \in Nat /\ j < a /\ j \in Below(i)
          BY <2>6
        <4>2. QED  BY <2>3, <2>6, <4>1
      <3>2. ASSUME NEW j \in Below(b), j # a PROVE FALSE
        <4>1. j \in Nat /\ j < b /\ j \in Below(i) \ {a}
          BY <2>6, <3>2
        <4>2. QED  BY <2>5, <2>6, <4>1
      <3>3. a \in Below(b)
        BY <2>6
      <3>4. Below(a) = {} /\ Below(b) = {a}
        BY <3>1, <3>2, <3>3
      <3>5. Cardinality(Below(a)) < 2 /\ Cardinality(Below(b)) < 2
        BY <3>4, FS_EmptySet, FS_Singleton
      <3>6. QED  BY <1>2, <2>6, <3>5
    <2>8. Cardinality({a, b}) = 2
      <3>1. IsFiniteSet({a}) /\ Cardinality({a}) = 1 /\ b \notin {a} /\ {a} \cup {b} = {a, b}
        BY <2>6, FS_Singleton
      <3>2. Cardinality({a} \cup {b}) = IF b \in {a} THEN Cardinality({a}) ELSE Cardinality({a}) + 1
        BY <3>1, FS_AddElement
      <3>3. Cardinality({a} \cup {b}) = 1 + 1
        BY <3>1, <3>2
      <3>4. QED  BY <3>1, <3>3
    <2>9. ASSUME NEW j \in F, j < i, j # a, j # b PROVE FALSE
      <3>1. j \in E /\ Cardinality(Below(j)) < 2 /\ IsFiniteSet(Below(j)) /\ Cardinality(Below(j)) \in Nat
        BY <1>1, <1>2
      <3>2. {a, b} \subseteq Below(j)
        BY <2>3, <2>5, <2>6, <2>9, <3>1
      <3>3. Cardinality({a, b}) <= Cardinality(Below(j))
        BY <3>1, <3>2, FS_Subset
      <3>4. QED  BY <2>8, <3>1, <3>3
    <2>10. {j \in F : j < i} = {a, b}
      BY <2>6, <2>7, <2>9
    <2>11. QED  BY <2>8, <2>10
  <1>5. QED  BY <1>2, <1>3, <1>4 DEF F

USE PlanFacts, SlotFacts

-----------------------------------------------------------------------------

\* What an action leaves as it is, part by part.
LEMMA OwnNodesKept ==
    ASSUME NEW q \in Run, OwnNodes(q),
           pc'[q] = pc[q] /\ plan'[q] = plan[q] /\ cleanup'[q] = cleanup[q],
           \A n \in Multi!Nodes(q) : /\ n \in registered' => n \in registered
                                     /\ Multi!Spawned(n) => Multi!Spawned(n)',
           plan[q].todo \in SUBSET Subtask
    PROVE  OwnNodes(q)'
  BY DEF OwnNodes, Begun, Multi!Nodes

LEMMA AnswersKept ==
    ASSUME Multi!TypeOK, NEW q \in Run, Answers(q), plan'[q] = plan[q],
           \A i \in Subtask : /\ output'[q][i] = "text" => output[q][i] = "text"
                              /\ Redone(q, i) => Redone(q, i)'
                              /\ board'[Twin(q, i)] = board[Twin(q, i)]
                              /\ ShownKept(i)
    PROVE  Answers(q)'
  <1>1. ASSUME NEW i \in plan[q].todo, output'[q][i] = "text" PROVE OnBoard(q, i)'
    <2>1. i \in Subtask /\ plan[q].key[i] \in Subtask
      BY PlanOfRun
    <2>2. OnBoard(q, i)
      BY <1>1, <2>1 DEF Answers
    <2>4. Twin(q, i)' = Twin(q, i)
      BY DEF Twin
    <2>5. PICK k \in Subtask : k = plan[q].key[i]
      BY <2>1
    <2>6. CASE Multi!Shown(k)
      <3>1. Multi!Shown(k)' /\ plan'[q].key[i] = k
        BY <2>5, <2>6 DEF ShownKept
      <3>2. QED  BY <2>5, <3>1 DEF OnBoard
    <2>7. CASE Redone(q, i) /\ board[Twin(q, i)] = Twin(q, i)
      <3>1. Redone(q, i)' /\ board'[Twin(q, i)] = Twin(q, i)
        BY <2>1, <2>7
      <3>2. QED  BY <2>4, <3>1 DEF OnBoard
    <2>8. QED  BY <2>2, <2>5, <2>6, <2>7 DEF OnBoard
  <1>2. QED  BY <1>1 DEF Answers

LEMMA RetriesKept ==
    ASSUME Multi!TypeOK, NEW q \in Run, Retries(q),
           plan'[q] = plan[q] /\ retry'[q] = retry[q],
           pc'[q] = "hub" <=> pc[q] = "hub",
           ~Begun(q)' \/ pc'[q] = "execute" => ~Begun(q) \/ pc[q] = "execute",
           Finished(q)' => Finished(q) /\ output'[q] = output[q],
           retry[q] # {} => output'[q] = output[q],
           \A i \in Subtask : Redone(q, i)' <=> Redone(q, i)
    PROVE  Retries(q)'
  <1>1. \A i \in Subtask : Twin(q, i)' = Twin(q, i)
    BY DEF Twin
  <1>2. \A i \in Subtask : Chosen(q, i)' <=> Chosen(q, i)
    BY DEF Chosen
  <1>3. plan[q].todo \in SUBSET Subtask
    BY PlanOfRun
  <1>4. \A i \in Subtask : ChosenBefore(q, i)' = ChosenBefore(q, i)
    BY <1>2, <1>3 DEF ChosenBefore
  <1>5. ASSUME NEW i \in Subtask
        PROVE  /\ ~Begun(q)' \/ pc'[q] = "execute" => ~Redone(q, i)'
               /\ i \in retry'[q] => output'[q][i] = "empty"
    BY DEF Retries
  <1>6. ASSUME Finished(q)', NEW i \in plan'[q].todo
        PROVE  /\ output'[q][i] = "empty" /\ plan'[q].pattern = "hub_spoke" =>
                    Chosen(q, i)' \/ Cardinality(ChosenBefore(q, i)') = 2
               /\ Chosen(q, i)' => plan'[q].pattern = "hub_spoke" /\ Cardinality(ChosenBefore(q, i)') < 2
    <2>1. i \in plan[q].todo /\ i \in Subtask /\ Finished(q) /\ output'[q] = output[q]
      BY <1>3, <1>6
    <2>2. /\ output[q][i] = "empty" /\ plan[q].pattern = "hub_spoke" =>
               Chosen(q, i) \/ Cardinality(ChosenBefore(q, i)) = 2
          /\ Chosen(q, i) => plan[q].pattern = "hub_spoke" /\ Cardinality(ChosenBefore(q, i)) < 2
      BY <2>1 DEF Retries
    <2>3. (Chosen(q, i)' <=> Chosen(q, i)) /\ ChosenBefore(q, i)' = ChosenBefore(q, i)
      BY <1>2, <1>4, <2>1
    <2>4. QED  BY <2>1, <2>2, <2>3
  <1>7. retry'[q] \subseteq plan'[q].todo /\ (retry'[q] # {} <=> pc'[q] = "hub")
    BY DEF Retries
  <1>8. QED  BY <1>1, <1>5, <1>6, <1>7 DEF Retries

\* All of it, when the action is of another run or of none.
LEMMA RunKept ==
    ASSUME MultiIInv, NEW q \in Run,
           /\ pc'[q] = pc[q] /\ plan'[q] = plan[q] /\ cleanup'[q] = cleanup[q]
           /\ job'[q] = job[q] /\ output'[q] = output[q]
           /\ retry'[q] = retry[q] /\ failed'[q] = failed[q],
           \A n \in Multi!Nodes(q) : /\ n \in registered' => n \in registered
                                     /\ Multi!Spawned(n) => Multi!Spawned(n)',
           \A i \in Subtask : /\ Redone(q, i)' <=> Redone(q, i)
                              /\ board'[Twin(q, i)] = board[Twin(q, i)]
                              /\ ShownKept(i)
    PROVE  RunInv(q)'
  <1>1. /\ OwnNodes(q) /\ Jobs(q) /\ Answers(q) /\ Retries(q)
        /\ Multi!TypeOK /\ plan[q].todo \in SUBSET Subtask
    BY PlanOfRun DEF MultiIInv, RunInv
  <1>2. OwnNodes(q)'
    BY <1>1, OwnNodesKept
  <1>3. Jobs(q)'
    BY <1>1 DEF Jobs, Begun, Finished
  <1>4. Answers(q)'
    BY <1>1, AnswersKept
  <1>5. Retries(q)'
    <2>1. (Begun(q)' <=> Begun(q)) /\ (Finished(q)' <=> Finished(q))
      BY DEF Begun, Finished
    <2>2. QED  BY <1>1, <2>1, RetriesKept
  <1>6. QED  BY <1>2, <1>3, <1>4, <1>5 DEF RunInv

LEMMA OtherKept ==
    ASSUME MultiIInv, NEW r \in Run, NEW q \in Run, q # r,
           /\ pc'[q] = pc[q] /\ plan'[q] = plan[q] /\ cleanup'[q] = cleanup[q]
           /\ job'[q] = job[q] /\ output'[q] = output[q]
           /\ retry'[q] = retry[q] /\ failed'[q] = failed[q],
           deleted' = deleted,
           \A n : n \notin Multi!Nodes(r) /\ n \notin Multi!AgainNodes(r) =>
                   (n \in registered' <=> n \in registered),
           \A k \in Subtask : ShownKept(k),
           \A i \in Subtask : board'[Twin(q, i)] = board[Twin(q, i)]
    PROVE  RunInv(q)'
  <1>1. \A n \in Multi!Nodes(q) : n \notin Multi!Nodes(r) /\ n \notin Multi!AgainNodes(r)
    BY Apart DEF Multi!Nodes, Multi!AgainNodes, Twin
  <1>2. \A i \in Subtask : Twin(q, i) \notin Multi!Nodes(r) /\ Twin(q, i) \notin Multi!AgainNodes(r)
    BY Apart DEF Multi!Nodes, Multi!AgainNodes, Twin
  <1>3. \A i \in Subtask : Redone(q, i)' <=> Redone(q, i)
    <2>1. \A i \in Subtask : Twin(q, i)' = Twin(q, i)
      BY DEF Twin
    <2>2. QED  BY <1>2, <2>1 DEF Redone, Multi!Spawned
  <1>4. \A n \in Multi!Nodes(q) : /\ n \in registered' => n \in registered
                                  /\ Multi!Spawned(n) => Multi!Spawned(n)'
    BY <1>1 DEF Multi!Spawned
  <1>5. QED  BY <1>3, <1>4, RunKept

LEMMA SlotsKept == ASSUME AnswersStay PROVE \A k : board'[<<k>>] = board[<<k>>] => ShownKept(k)
  BY DEF AnswersStay, ShownKept, Multi!Shown

LEMMA ShownSame == ASSUME UNCHANGED <<plan, output, board>> PROVE \A k : ShownKept(k)
  BY DEF ShownKept, Multi!Shown

\* The parts of the invariant that are not about one run.
Shapes ==
    /\ Multi!TypeOK
    /\ plan \in [Run -> {Multi!None} \cup UNION {Plans[r] : r \in Run}]
    /\ board \in [Multi!Slot -> Entries]

LEMMA MultiInit == Multi!Init => MultiIInv
  <1> SUFFICES ASSUME Multi!Init PROVE MultiIInv
    OBVIOUS
  <1> USE DEF Multi!Init
  <1>1. board \in [Multi!Slot -> Entries]
    <2>1. <<>> \in Entries
      BY DEF Entries
    <2>2. QED  BY <2>1
  <1>2. Multi!TypeOK
    BY DEF Multi!TypeOK, Multi!Answer
  <1>3. plan \in [Run -> {Multi!None} \cup UNION {Plans[r] : r \in Run}]
    OBVIOUS
  <1>4. ASSUME NEW r \in Run PROVE RunInv(r)
    <2>1. plan[r].todo = {} /\ ~Begun(r) /\ ~Finished(r)
      BY DEF Multi!None, Begun, Finished
    <2>2. OwnNodes(r)
      BY DEF OwnNodes
    <2>3. Jobs(r)
      BY <2>1 DEF Jobs
    <2>4. Answers(r)
      BY <2>1 DEF Answers
    <2>5. Retries(r)
      BY <2>1 DEF Retries, Redone, Multi!Spawned
    <2>6. QED  BY <2>2, <2>3, <2>4, <2>5 DEF RunInv
  <1>5. QED  BY <1>1, <1>2, <1>3, <1>4 DEF MultiIInv

\* run() begins, or finds nothing to split.
LEMMA RunMoves ==
    ASSUME MultiIInv, NEW r \in Run, Multi!Start(r) \/ Multi!DecomposedToNothing(r)
    PROVE  MultiIInv'
  <1> PICK l \in {"decompose", "single"} : pc' = [pc EXCEPT ![r] = l]
    BY DEF Multi!Start, Multi!DecomposedToNothing, Multi!Goto
  <1>1. /\ pc[r] \in {"idle", "decompose"}
        /\ UNCHANGED <<plan, cleanup, job, output, retry, failed, registered, deleted, board>>
    BY DEF Multi!Start, Multi!DecomposedToNothing
  <1>2. pc' \in [Run -> {"idle", "decompose", "execute", "hub", "aggregate", "single", "over"}]
        /\ pc'[r] = l /\ \A q \in Run : q # r => pc'[q] = pc[q]
    BY DEF MultiIInv, Multi!TypeOK
  <1>3. Multi!TypeOK'
    BY <1>1, <1>2 DEF MultiIInv, Multi!TypeOK
  <1>4. RunInv(r)'
    <2>1. RunInv(r) /\ ~Begun(r) /\ ~Begun(r)' /\ ~Finished(r)'
      BY <1>1, <1>2 DEF MultiIInv, Begun, Finished
    <2>2. OwnNodes(r)'
      BY <1>1, <1>2, <2>1 DEF RunInv, OwnNodes, Multi!Nodes
    <2>3. Jobs(r)'
      BY <1>1, <1>2, <2>1 DEF RunInv, Jobs, Begun
    <2>4. Answers(r)'
      BY <1>1, <2>1 DEF RunInv, Jobs, Answers
    <2>5. Retries(r)'
      BY <1>1, <1>2, <2>1 DEF RunInv, Retries, Redone, Twin, Multi!Spawned
    <2>6. QED  BY <2>2, <2>3, <2>4, <2>5 DEF RunInv
  <1>5. \A q \in Run : q # r => RunInv(q)'
    BY <1>1, <1>2, OtherKept, ShownSame
  <1>6. QED  BY <1>1, <1>3, <1>4, <1>5 DEF MultiIInv

LEMMA RunSpawnsSingle ==
    ASSUME MultiIInv, NEW r \in Run, Multi!SpawnSingle(r)
    PROVE  MultiIInv'
  <1>1. /\ pc[r] = "single" /\ registered' = registered \cup {Twin(r, 0)}
        /\ UNCHANGED <<pc, plan, cleanup, job, output, retry, failed, deleted, board>>
    BY DEF Multi!SpawnSingle, Twin
  <1>2. Multi!TypeOK'
    BY <1>1 DEF MultiIInv, Multi!TypeOK
  <1>3. Twin(r, 0) \notin Multi!Nodes(r) /\ \A i \in Subtask : Twin(r, i) # Twin(r, 0)
    BY Apart DEF Multi!Nodes
  <1>4. RunInv(r)'
    <2>1. \A n \in Multi!Nodes(r) : /\ n \in registered' => n \in registered
                                    /\ Multi!Spawned(n) => Multi!Spawned(n)'
      BY <1>1, <1>3 DEF Multi!Spawned
    <2>2. \A i \in Subtask : Redone(r, i)' <=> Redone(r, i)
      <3>1. \A i \in Subtask : Twin(r, i)' = Twin(r, i)
        BY DEF Twin
      <3>2. QED  BY <1>1, <1>3, <3>1 DEF Redone, Multi!Spawned
    <2>3. QED  BY <1>1, <2>1, <2>2, RunKept, ShownSame
  <1>5. \A n : n \notin Multi!AgainNodes(r) => (n \in registered' <=> n \in registered)
    BY <1>1 DEF Multi!AgainNodes, Twin
  <1>6. \A q \in Run : q # r => RunInv(q)'
    BY <1>1, <1>5, OtherKept, ShownSame
  <1>7. QED  BY <1>1, <1>2, <1>4, <1>6 DEF MultiIInv

LEMMA RunReturnsSingle ==
    ASSUME MultiIInv, NEW r \in Run, NEW a \in Multi!Answer, Multi!SingleReturns(r, a)
    PROVE  MultiIInv'
  <1>1. /\ pc[r] = "single" /\ pc' = [pc EXCEPT ![r] = "over"]
        /\ board' = Multi!Written(a, Twin(r, 0), Twin(r, 0))
        /\ UNCHANGED <<plan, cleanup, job, output, retry, failed, registered, deleted>>
    BY DEF Multi!SingleReturns, Multi!Goto, Twin
  <1>2. /\ board' \in [Multi!Slot -> Entries]
        /\ \A m \in Multi!Slot : m # Twin(r, 0) => board'[m] = board[m]
        /\ \A k \in Subtask : ShownKept(k)
    <2>1. Twin(r, 0) \in Multi!Slot /\ Twin(r, 0) \in Entries /\ board \in [Multi!Slot -> Entries]
      BY DEF MultiIInv
    <2>2. BoardHas(a, Twin(r, 0), Twin(r, 0))
      BY <1>1, <2>1, BoardWritten
    <2>3. \A m \in Multi!Slot : m # Twin(r, 0) => board'[m] = board[m]
      BY <2>2 DEF BoardHas
    <2>4. \A k \in Subtask : <<k>> \in Multi!Slot /\ <<k>> # Twin(r, 0)
      BY Apart
    <2>5. AnswersStay
      BY <1>1 DEF AnswersStay
    <2>6. QED  BY <2>2, <2>3, <2>4, <2>5, SlotsKept DEF BoardHas
  <1>3. /\ pc' \in [Run -> {"idle", "decompose", "execute", "hub", "aggregate", "single", "over"}]
        /\ pc'[r] = "over" /\ \A q \in Run : q # r => pc'[q] = pc[q]
    BY <1>1 DEF MultiIInv, Multi!TypeOK
  <1>4. Multi!TypeOK'
    BY <1>1, <1>2, <1>3 DEF MultiIInv, Multi!TypeOK, Entries
  <1>5. \A q \in Run : \A i \in Subtask : board'[Twin(q, i)] = board[Twin(q, i)]
    <2>1. ASSUME NEW q \in Run, NEW i \in Subtask
          PROVE  Twin(q, i) \in Multi!Slot /\ Twin(q, i) # Twin(r, 0)
      BY Apart
    <2>2. QED  BY <1>2, <2>1
  <1>6. RunInv(r)'
    <2>1. RunInv(r) /\ ~Begun(r) /\ plan'[r].todo = {} /\ pc'[r] = "over"
      BY <1>1, <1>3 DEF MultiIInv, RunInv, Jobs, Begun
    <2>2. OwnNodes(r)'
      BY <1>1, <2>1 DEF RunInv, OwnNodes, Multi!Nodes, Begun
    <2>3. Jobs(r)'
      BY <1>1, <2>1 DEF RunInv, Jobs, Begun
    <2>4. Answers(r)'
      BY <2>1 DEF Answers
    <2>5. Retries(r)'
      BY <1>1, <2>1 DEF RunInv, Retries, Begun
    <2>6. QED  BY <2>2, <2>3, <2>4, <2>5 DEF RunInv
  <1>7. \A q \in Run : q # r => RunInv(q)'
    BY <1>1, <1>2, <1>3, <1>5, OtherKept
  <1>8. QED  BY <1>1, <1>2, <1>4, <1>6, <1>7 DEF MultiIInv

\* A node per subtask.
LEMMA RunDecomposed ==
    ASSUME MultiIInv, NEW r \in Run, NEW p \in Plans[r], Multi!Decomposed(r, p)
    PROVE  MultiIInv'
  <1> DEFINE grown == registered \cup {<<r, i>> : i \in {j \in p.todo : \A q \in p.lacking : j < q}}
             first == IF p.pattern = "chain" THEN {1} ELSE p.todo
             jobs == [i \in Subtask |-> IF p.lacking = {} /\ i \in first THEN "start" ELSE "none"]
             l == IF p.lacking # {} THEN "over" ELSE "execute"
  <1> HIDE DEF grown, first, jobs, l
  <1>1. /\ pc[r] = "decompose" /\ p.todo # {}
        /\ pc' = [pc EXCEPT ![r] = l]
        /\ plan' = [plan EXCEPT ![r] = p]
        /\ job' = [job EXCEPT ![r] = jobs]
        /\ UNCHANGED <<cleanup, output, retry, deleted, board>>
    BY DEF Multi!Decomposed, Multi!Goto, jobs, first, l
  <1>2. /\ p.lacking = {} => failed' = failed /\ registered' = grown
        /\ p.lacking # {} => /\ failed' = [failed EXCEPT ![r] = TRUE]
                             /\ registered' = IF cleanup[r] THEN grown \ Multi!Nodes(r) ELSE grown
    BY DEF Multi!Decomposed, Multi!Finally, grown
  <1>3. /\ p.todo \in SUBSET Subtask /\ 1 \in p.todo /\ first \in SUBSET p.todo
        /\ jobs \in [Subtask -> {"none", "start", "llm", "done"}]
        /\ l \in {"over", "execute"} /\ (l = "execute" <=> p.lacking = {})
    BY <1>1 DEF first, jobs, l
  <1>4. /\ registered \subseteq grown /\ grown \subseteq registered \cup Multi!Nodes(r)
        /\ p.lacking = {} => \A i \in p.todo : <<r, i>> \in grown
    BY <1>3 DEF grown, Multi!Nodes
  <1> USE DEF Multi!TypeOK
  <1>5. /\ pc'[r] = l /\ plan'[r] = p /\ job'[r] = jobs /\ failed'[r] = (p.lacking # {} \/ failed[r])
        /\ failed' \in [Run -> BOOLEAN]
        /\ \A q \in Run : q # r => /\ pc'[q] = pc[q] /\ plan'[q] = plan[q]
                                   /\ job'[q] = job[q] /\ failed'[q] = failed[q]
    <2>1. pc'[r] = l /\ \A q \in Run : q # r => pc'[q] = pc[q]
      BY <1>1 DEF MultiIInv
    <2>2. plan'[r] = p /\ \A q \in Run : q # r => plan'[q] = plan[q]
      BY <1>1 DEF MultiIInv
    <2>3. job'[r] = jobs /\ \A q \in Run : q # r => job'[q] = job[q]
      BY <1>1 DEF MultiIInv
    <2>4. /\ failed'[r] = (p.lacking # {} \/ failed[r]) /\ failed' \in [Run -> BOOLEAN]
          /\ \A q \in Run : q # r => failed'[q] = failed[q]
      BY <1>2 DEF MultiIInv
    <2>5. QED  BY <2>1, <2>2, <2>3, <2>4
  <1>6. Multi!TypeOK'
    <2>1. /\ pc' \in [Run -> {"idle", "decompose", "execute", "hub", "aggregate", "single", "over"}]
          /\ job' \in [Run -> [Subtask -> {"none", "start", "llm", "done"}]]
      BY <1>1, <1>3 DEF MultiIInv
    <2>2. \A q \in Run : plan'[q] \in Plans[q] \cup {Multi!None}
      BY <1>5 DEF MultiIInv
    <2>3. registered' \subseteq UNION {Multi!Nodes(q) \cup Multi!AgainNodes(q) : q \in Run}
      BY <1>2, <1>4 DEF MultiIInv
    <2>4. QED  BY <1>1, <1>5, <2>1, <2>2, <2>3 DEF MultiIInv
  <1>7. plan' \in [Run -> {Multi!None} \cup UNION {Plans[q] : q \in Run}]
    BY <1>1 DEF MultiIInv
  <1>8. board' \in [Multi!Slot -> Entries]
    BY <1>1 DEF MultiIInv
  <1>9. \A n : n \notin Multi!Nodes(r) => (n \in registered' <=> n \in registered)
    BY <1>2, <1>4
  <1>10. RunInv(r)'
    <2>1. /\ RunInv(r) /\ ~Begun(r) /\ plan[r].todo = {} /\ retry[r] = {} /\ failed[r] = FALSE
          /\ Begun(r)' /\ ~Finished(r)'
      <3>1. RunInv(r) /\ ~Begun(r) /\ failed[r] \in BOOLEAN
        BY <1>1 DEF MultiIInv, Begun
      <3>2. plan[r].todo = {} /\ failed[r] = FALSE /\ retry[r] = {}
        BY <1>1, <3>1 DEF RunInv, Jobs, Retries
      <3>3. Begun(r)' /\ ~Finished(r)'
        BY <1>3, <1>5 DEF Begun, Finished
      <3>4. QED  BY <3>1, <3>2, <3>3
    <2>2. \A i \in Subtask : output'[r][i] = "none"
      BY <1>1, <2>1 DEF RunInv, Jobs
    <2>3. OwnNodes(r)'
      <3>1. pc'[r] = "over" /\ cleanup'[r] => registered' \cap Multi!Nodes(r) = {}
        BY <1>1, <1>2, <1>3, <1>5
      <3>2. pc'[r] \in {"execute", "hub", "aggregate"} => \A i \in plan'[r].todo : <<r, i>> \in registered'
        BY <1>2, <1>3, <1>4, <1>5
      <3>3. QED  BY <2>1, <3>1, <3>2 DEF OwnNodes, Multi!Spawned, Multi!Nodes
    <2>4. Jobs(r)'
      <3>1. \A i \in Subtask : /\ i \notin p.todo => jobs[i] = "none"
                               /\ jobs[i] \in {"none", "start"}
                               /\ jobs[i] = "start" => p.lacking = {}
        BY <1>3 DEF jobs
      <3>2. ASSUME p.pattern = "chain", NEW j \in Subtask, NEW k \in Subtask, j < k PROVE jobs[k] = "none"
        <4>1. k # 1 /\ first = {1}
          BY <3>2 DEF first
        <4>2. QED  BY <4>1 DEF jobs
      <3>3. QED  BY <1>3, <1>5, <2>1, <2>2, <3>1, <3>2 DEF Jobs
    <2>5. Answers(r)'
      BY <1>3, <1>5, <2>2 DEF Answers
    <2>6. Retries(r)'
      <3>1. \A i \in Subtask : ~Redone(r, i)'
        <4>1. \A i \in Subtask : Twin(r, i) \notin Multi!Nodes(r) /\ Twin(r, i)' = Twin(r, i)
          BY DEF Twin
        <4>2. QED  BY <1>1, <1>9, <2>1, <4>1 DEF RunInv, Retries, Redone, Multi!Spawned
      <3>2. \A i \in Subtask : Twin(r, i)' = Twin(r, i)
        BY DEF Twin
      <3>3. QED  BY <1>1, <1>3, <1>5, <2>1, <3>1, <3>2 DEF Retries
    <2>7. QED  BY <2>3, <2>4, <2>5, <2>6 DEF RunInv
  <1>11. \A k \in Subtask : ShownKept(k)
    <2>1. plan[r].todo = {}
      BY <1>1 DEF MultiIInv, RunInv, Jobs, Begun
    <2>2. AnswersStay
      BY <1>1, <1>5, <2>1 DEF AnswersStay
    <2>3. QED  BY <1>1, <2>2, SlotsKept
  <1>13. \A q \in Run : q # r => RunInv(q)'
    BY <1>1, <1>5, <1>9, <1>11, OtherKept
  <1>14. QED  BY <1>6, <1>7, <1>8, <1>10, <1>13 DEF MultiIInv

\* A subtask is announced.
LEMMA RunBegins ==
    ASSUME MultiIInv, NEW r \in Run, NEW i \in Subtask, Multi!BeginSubtask(r, i)
    PROVE  MultiIInv'
  <1>1. /\ job[r][i] = "start" /\ job' = [job EXCEPT ![r][i] = "llm"]
        /\ UNCHANGED <<pc, plan, cleanup, output, retry, failed, registered, deleted, board>>
    BY DEF Multi!BeginSubtask
  <1>2. /\ job' \in [Run -> [Subtask -> {"none", "start", "llm", "done"}]]
        /\ job'[r][i] = "llm"
        /\ \A j \in Subtask : j # i => job'[r][j] = job[r][j]
        /\ \A q \in Run : q # r => job'[q] = job[q]
    BY <1>1 DEF MultiIInv, Multi!TypeOK
  <1>3. Multi!TypeOK'
    BY <1>1, <1>2 DEF MultiIInv, Multi!TypeOK
  <1>4. RunInv(r)'
    <2>1. /\ OwnNodes(r) /\ Jobs(r) /\ Answers(r) /\ Retries(r) /\ Multi!TypeOK
          /\ plan[r].todo \in SUBSET Subtask
      BY PlanOfRun DEF MultiIInv, RunInv
    <2>2. (Begun(r)' <=> Begun(r)) /\ (Finished(r)' <=> Finished(r))
      BY <1>1 DEF Begun, Finished
    <2>3. OwnNodes(r)'
      BY <1>1, <2>1, OwnNodesKept DEF Multi!Spawned
    <2>4. Jobs(r)'
      <3>1. ~Finished(r)
        BY <1>1, <2>1 DEF Jobs, Finished
      <3>2. QED  BY <1>1, <1>2, <2>1, <2>2, <3>1 DEF Jobs
    <2>5. \A j \in Subtask : Redone(r, j)' <=> Redone(r, j)
      BY <1>1 DEF Redone, Twin, Multi!Spawned
    <2>6. Answers(r)'
      BY <1>1, <2>1, <2>5, AnswersKept, ShownSame
    <2>7. Retries(r)'
      BY <1>1, <2>1, <2>2, <2>5, RetriesKept
    <2>8. QED  BY <2>3, <2>4, <2>6, <2>7 DEF RunInv
  <1>5. \A q \in Run : q # r => RunInv(q)'
    BY <1>1, <1>2, OtherKept, ShownSame
  <1>6. QED  BY <1>1, <1>3, <1>4, <1>5 DEF MultiIInv

\* A subtask whose announcement raises ends the run, unless it has ended.
LEMMA RunRaises ==
    ASSUME MultiIInv, NEW r \in Run, NEW i \in Subtask, Multi!SubtaskRaises(r, i)
    PROVE  MultiIInv'
  <1>1. /\ job[r][i] = "start" /\ job' = [job EXCEPT ![r][i] = "done"]
        /\ UNCHANGED <<plan, cleanup, output, retry, deleted, board>>
    BY DEF Multi!SubtaskRaises
  <1>2. \/ /\ pc[r] = "execute" /\ pc' = [pc EXCEPT ![r] = "over"]
           /\ failed' = [failed EXCEPT ![r] = TRUE]
           /\ registered' = IF cleanup[r] THEN registered \ Multi!Nodes(r) ELSE registered
        \/ pc[r] # "execute" /\ UNCHANGED <<pc, failed, registered>>
    BY DEF Multi!SubtaskRaises, Multi!Goto, Multi!Finally
  <1>3. /\ job' \in [Run -> [Subtask -> {"none", "start", "llm", "done"}]]
        /\ job'[r][i] = "done"
        /\ \A j \in Subtask : j # i => job'[r][j] = job[r][j]
        /\ \A q \in Run : q # r => job'[q] = job[q]
    BY <1>1 DEF MultiIInv, Multi!TypeOK
  <1>4. /\ OwnNodes(r) /\ Jobs(r) /\ Answers(r) /\ Retries(r) /\ Multi!TypeOK
        /\ plan[r].todo \in SUBSET Subtask /\ i \in plan[r].todo
    BY <1>1, PlanOfRun DEF MultiIInv, RunInv, Jobs
  <1>5. /\ pc'[r] = "over" /\ failed'[r] = TRUE
        /\ pc' \in [Run -> {"idle", "decompose", "execute", "hub", "aggregate", "single", "over"}]
        /\ failed' \in [Run -> BOOLEAN]
        /\ \A q \in Run : q # r => pc'[q] = pc[q] /\ failed'[q] = failed[q]
        /\ pc[r] = "execute" \/ (pc[r] = "over" /\ failed[r])
    <2>1. CASE pc[r] = "execute"
      BY <1>2, <2>1 DEF MultiIInv, Multi!TypeOK
    <2>2. CASE pc[r] # "execute"
      BY <1>1, <1>2, <1>4, <2>2 DEF MultiIInv, Multi!TypeOK, Jobs
    <2>3. QED  BY <2>1, <2>2
  <1>6. /\ registered' \subseteq registered
        /\ \A n : n \notin Multi!Nodes(r) => (n \in registered' <=> n \in registered)
        /\ pc[r] = "execute" /\ cleanup[r] => registered' \cap Multi!Nodes(r) = {}
        /\ pc[r] # "execute" => registered' = registered
    BY <1>2
  <1>7. Multi!TypeOK'
    BY <1>1, <1>3, <1>5, <1>6 DEF MultiIInv, Multi!TypeOK
  <1>8. RunInv(r)'
    <2>1. ~Finished(r)' /\ Begun(r)'
      BY <1>5 DEF Begun, Finished
    <2>2. OwnNodes(r)'
      BY <1>1, <1>4, <1>5, <1>6, <2>1 DEF OwnNodes, Multi!Nodes
    <2>3. Jobs(r)'
      BY <1>1, <1>3, <1>4, <1>5, <2>1 DEF Jobs
    <2>4. \A j \in Subtask : Redone(r, j)' <=> Redone(r, j)
      <3>1. \A j \in Subtask : Twin(r, j)' = Twin(r, j)
        BY DEF Twin
      <3>2. QED  BY <1>1, <1>6, <3>1 DEF Redone, Multi!Spawned
    <2>5. Answers(r)'
      BY <1>1, <1>4, <2>4, AnswersKept, ShownSame
    <2>6. Retries(r)'
      BY <1>1, <1>4, <1>5, <2>1, <2>4, RetriesKept
    <2>7. QED  BY <2>2, <2>3, <2>5, <2>6 DEF RunInv
  <1>9. \A q \in Run : q # r => RunInv(q)'
    BY <1>1, <1>3, <1>5, <1>6, OtherKept, ShownSame
  <1>10. QED  BY <1>1, <1>7, <1>8, <1>9 DEF MultiIInv

\* A node answers.
LEMMA RunAnswers ==
    ASSUME MultiIInv, NEW r \in Run, NEW i \in Subtask, NEW a \in Multi!Answer,
           Multi!SubtaskReturns(r, i, a)
    PROVE  MultiIInv'
  <1> DEFINE jobs == [j \in Subtask |-> CASE j = i -> "done"
                                          [] j \in Multi!Successor(r, i) -> "start"
                                          [] OTHER -> job[r][j]]
  <1> HIDE DEF jobs
  <1>1. /\ job[r][i] = "llm" /\ job' = [job EXCEPT ![r] = jobs]
        /\ output' = [output EXCEPT ![r][i] = a]
        /\ board' = Multi!Written(a, <<plan[r].key[i]>>, <<r, i>>)
        /\ UNCHANGED <<pc, plan, cleanup, retry, failed, registered, deleted>>
    BY DEF Multi!SubtaskReturns, jobs
  <1>2. /\ OwnNodes(r) /\ Jobs(r) /\ Answers(r) /\ Retries(r) /\ Multi!TypeOK
        /\ plan[r].todo \in SUBSET Subtask /\ i \in plan[r].todo
        /\ plan[r].key[i] \in Subtask /\ output[r][i] = "none"
    BY <1>1, PlanOfRun DEF MultiIInv, RunInv, Jobs
  <1>3. /\ jobs \in [Subtask -> {"none", "start", "llm", "done"}] /\ jobs[i] = "done"
        /\ \A j \in Subtask : j # i => \/ jobs[j] = job[r][j]
                                       \/ /\ j \in plan[r].todo /\ jobs[j] = "start"
                                          /\ plan[r].pattern = "chain" /\ j = i + 1
    <2>1. \A j \in Subtask : jobs[j] = CASE j = i -> "done"
                                          [] j \in Multi!Successor(r, i) -> "start"
                                          [] OTHER -> job[r][j]
      BY DEF jobs
    <2>2. \A j \in Multi!Successor(r, i) : j \in plan[r].todo /\ j = i + 1 /\ j # i /\ plan[r].pattern = "chain"
      BY SubtaskNat DEF Multi!Successor
    <2>3. \A j \in Subtask : job[r][j] \in {"none", "start", "llm", "done"}
      BY DEF MultiIInv, Multi!TypeOK
    <2>4. ASSUME NEW j \in Subtask
          PROVE  /\ j = i => jobs[j] = "done"
                 /\ j # i => jobs[j] = job[r][j] \/ (j \in Multi!Successor(r, i) /\ jobs[j] = "start")
      <3>1. CASE j = i
        BY <2>1, <2>2, <3>1, SubtaskNat
      <3>2. CASE j # i /\ j \in Multi!Successor(r, i)
        BY <2>1, <3>2, Zenon
      <3>3. CASE j # i /\ j \notin Multi!Successor(r, i)
        BY <2>1, <3>3, Zenon
      <3>4. QED  BY <3>1, <3>2, <3>3
    <2>5. QED  BY <2>2, <2>3, <2>4 DEF jobs
  <1>4. /\ job' \in [Run -> [Subtask -> {"none", "start", "llm", "done"}]] /\ job'[r] = jobs
        /\ output' \in [Run -> [Subtask -> Multi!Answer \cup {"none"}]] /\ output'[r][i] = a
        /\ \A j \in Subtask : j # i => output'[r][j] = output[r][j]
        /\ \A q \in Run : q # r => job'[q] = job[q] /\ output'[q] = output[q]
    BY <1>1, <1>3 DEF MultiIInv, Multi!TypeOK
  <1>5. /\ board' \in [Multi!Slot -> Entries]
        /\ \A m \in Multi!Slot : m # <<plan[r].key[i]>> => board'[m] = board[m]
        /\ a = "text" => Multi!Shown(plan[r].key[i])'
        /\ \A k \in Subtask : ShownKept(k)
    <2>1. PICK k \in Subtask : k = plan[r].key[i]
      BY <1>2
    <2>2. BoardHas(a, <<k>>, <<r, i>>)
      <3>1. <<k>> \in Multi!Slot /\ <<r, i>> \in Entries /\ board \in [Multi!Slot -> Entries]
        BY DEF MultiIInv, Entries, Multi!Nodes
      <3>2. board' = Multi!Written(a, <<k>>, <<r, i>>)
        BY <1>1, <2>1
      <3>3. QED  BY <3>1, <3>2, BoardWritten
    <2>3. a = "text" => Multi!Shown(k)'
      <3>1. plan' = plan /\ i \in plan[r].todo /\ output'[r][i] = a
        BY <1>1, <1>2, <1>4
      <3>2. QED  BY <2>1, <2>2, <3>1 DEF Multi!Shown, BoardHas
    <2>4. AnswersStay
      <3>1. ASSUME NEW q \in Run, NEW j \in plan[q].todo, output[q][j] = "text" PROVE output'[q][j] = "text"
        <4>1. j \in Subtask
          BY <1>2, PlanOfRun
        <4>2. QED  BY <1>2, <1>4, <3>1, <4>1
      <3>2. QED  BY <1>1, <3>1 DEF AnswersStay
    <2>5. ASSUME NEW m \in Subtask PROVE ShownKept(m)
      <3>1. CASE m # k
        <4>1. <<m>> \in Multi!Slot /\ <<m>> # <<k>>
          BY <3>1
        <4>2. QED  BY <2>2, <2>4, <4>1, SlotsKept DEF BoardHas
      <3>2. CASE m = k /\ a = "text"
        BY <2>3, <3>2 DEF ShownKept
      <3>3. CASE m = k /\ a # "text"
        BY <2>2, <2>4, <3>3, SlotsKept DEF BoardHas
      <3>4. QED  BY <3>1, <3>2, <3>3
    <2>6. QED  BY <1>1, <2>1, <2>2, <2>3, <2>5 DEF BoardHas
  <1>6. \A q \in Run : \A j \in Subtask : board'[Twin(q, j)] = board[Twin(q, j)]
    <2>1. ASSUME NEW q \in Run, NEW j \in Subtask
          PROVE  Twin(q, j) \in Multi!Slot /\ Twin(q, j) # <<plan[r].key[i]>>
      BY Apart
    <2>2. QED  BY <1>5, <2>1
  <1>7. Multi!TypeOK'
    BY <1>1, <1>4, <1>5 DEF MultiIInv, Multi!TypeOK, Entries
  <1>8. pc[r] = "execute" \/ (pc[r] = "over" /\ failed[r])
    BY <1>1, <1>2 DEF Jobs
  <1>9. RunInv(r)'
    <2>1. ~Finished(r)' /\ (Begun(r)' <=> Begun(r)) /\ Begun(r)
      BY <1>1, <1>8 DEF Begun, Finished
    <2>2. OwnNodes(r)'
      BY <1>1, <1>2, OwnNodesKept DEF Multi!Spawned
    <2>3. Jobs(r)'
      <3>1. ASSUME NEW j \in Subtask
            PROVE  /\ j \notin plan[r].todo => jobs[j] = "none"
                   /\ jobs[j] # "done" => output'[r][j] = "none"
                   /\ jobs[j] = "done" /\ ~failed[r] => output'[r][j] # "none"
                   /\ jobs[j] \in {"start", "llm"} => pc[r] = "execute" \/ failed[r]
        <4>1. CASE j = i
          BY <1>2, <1>3, <1>4, <4>1 DEF Multi!Answer
        <4>2. CASE j # i /\ jobs[j] = job[r][j]
          BY <1>2, <1>4, <4>2 DEF Jobs
        <4>3. CASE /\ j \in plan[r].todo /\ jobs[j] = "start"
                   /\ plan[r].pattern = "chain" /\ j = i + 1
          <5>1. i \in Nat /\ j \in Nat /\ i < j /\ j # i
            BY <4>3, NextSubtask
          <5>2. job[r][j] = "none"
            BY <1>1, <1>2, <4>3, <5>1 DEF Jobs
          <5>3. output'[r][j] = "none"
            BY <1>2, <1>4, <5>1, <5>2 DEF Jobs
          <5>4. QED  BY <1>8, <4>3, <5>3
        <4>4. QED  BY <1>3, <4>1, <4>2, <4>3
      <3>2. ASSUME plan[r].pattern = "chain", NEW j \in Subtask, NEW k \in Subtask, j < k, jobs[j] # "done"
            PROVE  jobs[k] = "none"
        <4>1. i \in Nat /\ j \in Nat /\ k \in Nat /\ j # i
          BY <1>3, <3>2
        <4>2. CASE jobs[j] = job[r][j]
          <5>1. job[r][k] = "none" /\ k # i
            BY <1>1, <1>2, <3>2, <4>2 DEF Jobs
          <5>2. ASSUME k = i + 1 PROVE FALSE
            <6>1. j < i
              BY <3>2, <4>1, <5>2
            <6>2. job[r][i] = "none"
              BY <1>2, <3>2, <4>2, <6>1 DEF Jobs
            <6>3. QED  BY <1>1, <6>2
          <5>3. QED  BY <1>3, <5>1, <5>2
        <4>3. CASE j = i + 1
          <5>1. i < k /\ k # i /\ k # i + 1
            BY <3>2, <4>1, <4>3
          <5>2. job[r][k] = "none"
            BY <1>1, <1>2, <3>2, <5>1 DEF Jobs
          <5>3. QED  BY <1>3, <5>1, <5>2
        <4>4. QED  BY <1>3, <4>1, <4>2, <4>3
      <3>3. QED  BY <1>1, <1>2, <1>4, <2>1, <3>1, <3>2 DEF Jobs
    <2>4. \A j \in Subtask : Redone(r, j)' <=> Redone(r, j)
      BY <1>1 DEF Redone, Twin, Multi!Spawned
    <2>5. Answers(r)'
      <3>1. ASSUME NEW j \in plan[r].todo, output'[r][j] = "text" PROVE OnBoard(r, j)'
        <4>1. Twin(r, j)' = Twin(r, j)
          BY DEF Twin
        <4>2. CASE j = i
          BY <1>1, <1>4, <1>5, <3>1, <4>2 DEF OnBoard
        <4>3. CASE j # i
          <5>1. OnBoard(r, j) /\ j \in Subtask /\ plan[r].key[j] \in Subtask
            BY <1>2, <1>4, <3>1, <4>3, PlanOfRun DEF Answers
          <5>2. PICK k \in Subtask : k = plan[r].key[j]
            BY <5>1
          <5>3. ShownKept(k) /\ board'[Twin(r, j)] = board[Twin(r, j)] /\ plan'[r].key[j] = k
            BY <1>1, <1>5, <1>6, <5>1, <5>2
          <5>4. CASE Multi!Shown(k)
            <6>1. Multi!Shown(k)'
              BY <5>3, <5>4 DEF ShownKept
            <6>2. QED  BY <5>3, <6>1 DEF OnBoard
          <5>5. CASE ~Multi!Shown(k)
            BY <2>4, <4>1, <5>1, <5>2, <5>3, <5>5 DEF OnBoard
          <5>6. QED  BY <5>4, <5>5
        <4>4. QED  BY <4>2, <4>3
      <3>2. QED  BY <1>1, <3>1 DEF Answers
    <2>8. retry[r] = {}
      BY <1>2, <1>8 DEF Retries
    <2>6. Retries(r)'
      BY <1>1, <1>2, <1>8, <2>1, <2>4, <2>8, RetriesKept
    <2>7. QED  BY <2>2, <2>3, <2>5, <2>6 DEF RunInv
  <1>10. \A q \in Run : q # r => RunInv(q)'
    BY <1>1, <1>4, <1>5, <1>6, OtherKept
  <1>11. QED  BY <1>1, <1>5, <1>7, <1>9, <1>10 DEF MultiIInv

\* All have returned; the hub chooses whom to ask again.
LEMMA RunPatternReturns ==
    ASSUME MultiIInv, NEW r \in Run, Multi!PatternReturns(r)
    PROVE  MultiIInv'
  <1>1. /\ pc[r] = "execute" /\ \A i \in plan[r].todo : job[r][i] = "done"
        /\ UNCHANGED <<plan, cleanup, job, output, failed, registered, deleted, board>>
    BY DEF Multi!PatternReturns
  <1>2. PICK R : /\ R = IF plan[r].pattern = "hub_spoke" THEN Multi!FirstTwo(Multi!Empty(r)) ELSE {}
                 /\ retry' = [retry EXCEPT ![r] = R]
    BY DEF Multi!PatternReturns
  <1>3. PICK E : E = Multi!Empty(r)
    OBVIOUS
  <1>4. /\ OwnNodes(r) /\ Jobs(r) /\ Answers(r) /\ Retries(r) /\ Multi!TypeOK
        /\ plan[r].todo \in SUBSET Subtask /\ plan[r].todo \in SUBSET Nat /\ IsFiniteSet(plan[r].todo)
        /\ failed[r] = FALSE
    <2>1. OwnNodes(r) /\ Jobs(r) /\ Answers(r) /\ Retries(r) /\ Multi!TypeOK
      BY DEF MultiIInv, RunInv
    <2>2. failed[r] = FALSE
      BY <1>1, <2>1 DEF Jobs, Multi!TypeOK
    <2>3. QED  BY <2>1, <2>2, PlanOfRun
  <1>5. /\ E \subseteq plan[r].todo /\ R \subseteq E
        /\ \A i \in plan[r].todo : output[r][i] = "empty" <=> i \in E
        /\ \A i \in R : plan[r].pattern = "hub_spoke" /\ Cardinality({j \in R : j < i}) < 2
        /\ plan[r].pattern = "hub_spoke" => \A i \in E \ R : Cardinality({j \in R : j < i}) = 2
    <2>1. E \subseteq plan[r].todo /\ \A i \in plan[r].todo : output[r][i] = "empty" <=> i \in E
      BY <1>3 DEF Multi!Empty
    <2>2. E \in SUBSET Nat /\ IsFiniteSet(E)
      BY <1>4, <2>1, FS_Subset
    <2>3. CASE plan[r].pattern = "hub_spoke"
      <3>1. R = Multi!FirstTwo(E)
        BY <1>2, <1>3, <2>3
      <3>2. QED  BY <2>1, <2>2, <2>3, <3>1, FirstTwoFacts
    <2>4. CASE plan[r].pattern # "hub_spoke"
      BY <1>2, <2>1, <2>4
    <2>5. QED  BY <2>3, <2>4
  <1>6. /\ pc' \in [Run -> {"idle", "decompose", "execute", "hub", "aggregate", "single", "over"}]
        /\ pc'[r] = (IF R # {} THEN "hub" ELSE "aggregate") /\ retry'[r] = R
        /\ retry' \in [Run -> SUBSET Subtask]
        /\ \A q \in Run : q # r => pc'[q] = pc[q] /\ retry'[q] = retry[q]
    <2>1. retry'[r] = R /\ retry' \in [Run -> SUBSET Subtask] /\ \A q \in Run : q # r => retry'[q] = retry[q]
      BY <1>2, <1>4, <1>5 DEF Multi!TypeOK
    <2>2. pc' = [pc EXCEPT ![r] = IF R # {} THEN "hub" ELSE "aggregate"]
      BY <2>1 DEF Multi!PatternReturns, Multi!Goto
    <2>3. QED  BY <1>4, <2>1, <2>2 DEF Multi!TypeOK
  <1>7. Multi!TypeOK'
    BY <1>1, <1>6 DEF MultiIInv, Multi!TypeOK
  <1>8. RunInv(r)'
    <2>1. Begun(r) /\ Begun(r)' /\ Finished(r)'
      BY <1>1, <1>6 DEF Begun, Finished
    <2>2. OwnNodes(r)'
      BY <1>1, <1>4, <1>6, <2>1 DEF OwnNodes, Multi!Spawned
    <2>3. Jobs(r)'
      BY <1>1, <1>4, <1>6, <2>1 DEF Jobs
    <2>4. \A j \in Subtask : Redone(r, j)' <=> Redone(r, j)
      BY <1>1 DEF Redone, Twin, Multi!Spawned
    <2>5. Answers(r)'
      BY <1>1, <1>4, <2>4, AnswersKept, ShownSame
    <2>6. Retries(r)'
      <3>1. \A j \in Subtask : ~Redone(r, j)' /\ (Chosen(r, j)' <=> j \in R)
        BY <1>1, <1>4, <1>6, <2>4 DEF Retries, Chosen
      <3>2. \A j \in Subtask : j \in R => output'[r][j] = "empty"
        BY <1>1, <1>5
      <3>3. ASSUME NEW i \in plan[r].todo
            PROVE  /\ output'[r][i] = "empty" /\ plan'[r].pattern = "hub_spoke" =>
                         Chosen(r, i)' \/ Cardinality(ChosenBefore(r, i)') = 2
                   /\ Chosen(r, i)' => plan'[r].pattern = "hub_spoke" /\ Cardinality(ChosenBefore(r, i)') < 2
        <4>1. \A j \in plan'[r].todo : Chosen(r, j)' <=> j \in R
          BY <1>1, <1>4, <3>1
        <4>2. ChosenBefore(r, i)' = {j \in R : j < i}
          BY <1>1, <1>5, <4>1 DEF ChosenBefore
        <4>3. i \in Subtask /\ (Chosen(r, i)' <=> i \in R)
          BY <1>4, <3>1
        <4>4. ASSUME output[r][i] = "empty", plan[r].pattern = "hub_spoke"
              PROVE  i \in R \/ Cardinality({j \in R : j < i}) = 2
          BY <1>5, <4>4
        <4>5. ASSUME i \in R
              PROVE  plan[r].pattern = "hub_spoke" /\ Cardinality({j \in R : j < i}) < 2
          BY <1>5, <4>5
        <4>6. QED  BY <1>1, <4>2, <4>3, <4>4, <4>5
      <3>4. QED  BY <1>1, <1>4, <1>5, <1>6, <2>1, <3>1, <3>2, <3>3 DEF Retries
    <2>7. QED  BY <2>2, <2>3, <2>5, <2>6 DEF RunInv
  <1>9. \A q \in Run : q # r => RunInv(q)'
    BY <1>1, <1>6, OtherKept, ShownSame
  <1>10. QED  BY <1>1, <1>7, <1>8, <1>9 DEF MultiIInv

\* The failed subtask whose turn it is.
LEMMA LeastRetry ==
    ASSUME MultiIInv, NEW r \in Run, pc[r] = "hub"
    PROVE  \E l \in retry[r] : l = Multi!Least(retry[r]) /\ Multi!Again(r) = Twin(r, l)
  <1>1. retry[r] # {} /\ retry[r] \in SUBSET Nat
    BY SubtaskNat DEF MultiIInv, RunInv, Retries, Multi!TypeOK
  <1>2. QED  BY <1>1, LeastIsLeast DEF Multi!Again, Twin

LEMMA RunSpawnsAgain ==
    ASSUME MultiIInv, NEW r \in Run, Multi!SpawnAgain(r)
    PROVE  MultiIInv'
  <1>1. pc[r] = "hub" /\ UNCHANGED <<pc, plan, cleanup, job, output, retry, failed, deleted, board>>
    BY DEF Multi!SpawnAgain
  <1>2. PICK l \in retry[r] : registered' = registered \cup {Twin(r, l)}
    BY <1>1, LeastRetry DEF Multi!SpawnAgain
  <1>3. /\ OwnNodes(r) /\ Jobs(r) /\ Answers(r) /\ Retries(r) /\ Multi!TypeOK
        /\ plan[r].todo \in SUBSET Subtask /\ l \in Subtask /\ l \in plan[r].todo
    <2>1. OwnNodes(r) /\ Jobs(r) /\ Answers(r) /\ Retries(r) /\ Multi!TypeOK
      BY DEF MultiIInv, RunInv
    <2>2. plan[r].todo \in SUBSET Subtask
      BY <2>1, PlanOfRun
    <2>3. QED  BY <2>1, <2>2 DEF Retries
  <1>4. Multi!TypeOK'
    BY <1>1, <1>2, <1>3 DEF Multi!TypeOK
  <1>5. \A j \in Subtask : Redone(r, j)' <=> Redone(r, j) \/ j = l
    <2>1. \A j \in Subtask : Twin(r, j)' = Twin(r, j) /\ (Twin(r, j) = Twin(r, l) <=> j = l)
      BY Apart DEF Twin
    <2>2. QED  BY <1>1, <1>2, <2>1 DEF Redone, Multi!Spawned
  <1>6. RunInv(r)'
    <2>1. Begun(r) /\ Begun(r)' /\ Finished(r) /\ Finished(r)'
      BY <1>1 DEF Begun, Finished
    <2>2. OwnNodes(r)'
      <3>1. \A n \in Multi!Nodes(r) : n # Twin(r, l)
        BY <1>3
      <3>2. \A n \in Multi!Nodes(r) : /\ n \in registered' => n \in registered
                                      /\ Multi!Spawned(n) => Multi!Spawned(n)'
        BY <1>1, <1>2, <3>1 DEF Multi!Spawned
      <3>3. QED  BY <1>1, <1>3, <3>2, OwnNodesKept
    <2>3. Jobs(r)'
      BY <1>1, <1>3, <2>1 DEF Jobs
    <2>4. Answers(r)'
      BY <1>1, <1>3, <1>5, AnswersKept, ShownSame
    <2>5. Retries(r)'
      <3>1. \A j \in Subtask : Chosen(r, j)' <=> Chosen(r, j)
        BY <1>1, <1>2, <1>5 DEF Chosen
      <3>2. \A j \in Subtask : ChosenBefore(r, j)' = ChosenBefore(r, j)
        BY <1>1, <1>3, <3>1 DEF ChosenBefore
      <3>3. \A j \in Subtask : Twin(r, j)' = Twin(r, j)
        BY DEF Twin
      <3>4. ASSUME NEW i \in plan[r].todo
            PROVE  /\ output'[r][i] = "empty" /\ plan'[r].pattern = "hub_spoke" =>
                         Chosen(r, i)' \/ Cardinality(ChosenBefore(r, i)') = 2
                   /\ Chosen(r, i)' => plan'[r].pattern = "hub_spoke" /\ Cardinality(ChosenBefore(r, i)') < 2
        <4>1. /\ output[r][i] = "empty" /\ plan[r].pattern = "hub_spoke" =>
                   Chosen(r, i) \/ Cardinality(ChosenBefore(r, i)) = 2
              /\ Chosen(r, i) => plan[r].pattern = "hub_spoke" /\ Cardinality(ChosenBefore(r, i)) < 2
          BY <1>3, <2>1 DEF Retries
        <4>2. i \in Subtask /\ (Chosen(r, i)' <=> Chosen(r, i)) /\ ChosenBefore(r, i)' = ChosenBefore(r, i)
          BY <1>3, <3>1, <3>2
        <4>3. QED  BY <1>1, <4>1, <4>2
      <3>5. QED  BY <1>1, <1>3, <2>1, <3>3, <3>4 DEF Retries
    <2>6. QED  BY <2>2, <2>3, <2>4, <2>5 DEF RunInv
  <1>7. \A n : n \notin Multi!AgainNodes(r) => (n \in registered' <=> n \in registered)
    BY <1>2, <1>3 DEF Multi!AgainNodes, Twin
  <1>8. \A q \in Run : q # r => RunInv(q)'
    BY <1>1, <1>7, OtherKept, ShownSame
  <1>9. QED  BY <1>1, <1>4, <1>6, <1>8 DEF MultiIInv

\* What it answered replaces the empty output.
LEMMA RunAnswersAgain ==
    ASSUME MultiIInv, NEW r \in Run, NEW a \in Multi!Answer, Multi!AgainReturns(r, a)
    PROVE  MultiIInv'
  <1>1. pc[r] = "hub" /\ UNCHANGED <<plan, cleanup, job, failed, registered, deleted>>
    BY DEF Multi!AgainReturns
  <1>2. PICK l \in retry[r] : l = Multi!Least(retry[r]) /\ Multi!Again(r) = Twin(r, l)
    BY <1>1, LeastRetry
  <1>3. PICK R : R = retry[r] \ {l}
    OBVIOUS
  <1>4. /\ OwnNodes(r) /\ Jobs(r) /\ Answers(r) /\ Retries(r) /\ Multi!TypeOK
        /\ plan[r].todo \in SUBSET Subtask /\ l \in Subtask /\ l \in plan[r].todo
    <2>1. OwnNodes(r) /\ Jobs(r) /\ Answers(r) /\ Retries(r) /\ Multi!TypeOK
      BY DEF MultiIInv, RunInv
    <2>2. plan[r].todo \in SUBSET Subtask
      BY <2>1, PlanOfRun
    <2>3. QED  BY <2>1, <2>2 DEF Retries
  <1>5. Redone(r, l)
    BY <1>2 DEF Multi!AgainReturns, Redone, Multi!Spawned
  <1>6. /\ output' \in [Run -> [Subtask -> Multi!Answer \cup {"none"}]] /\ output'[r][l] = a
        /\ \A j \in Subtask : j # l => output'[r][j] = output[r][j]
        /\ \A q \in Run : q # r => output'[q] = output[q]
    <2>1. output' = [output EXCEPT ![r][l] = a]
      BY <1>2 DEF Multi!AgainReturns
    <2>2. QED  BY <1>4, <2>1 DEF Multi!TypeOK
  <1>7. /\ retry'[r] = R /\ retry' \in [Run -> SUBSET Subtask]
        /\ pc'[r] = (IF R # {} THEN "hub" ELSE "aggregate")
        /\ pc' \in [Run -> {"idle", "decompose", "execute", "hub", "aggregate", "single", "over"}]
        /\ \A q \in Run : q # r => pc'[q] = pc[q] /\ retry'[q] = retry[q]
    <2>1. retry' = [retry EXCEPT ![r] = R]
      BY <1>2, <1>3 DEF Multi!AgainReturns
    <2>2. retry'[r] = R /\ retry' \in [Run -> SUBSET Subtask] /\ \A q \in Run : q # r => retry'[q] = retry[q]
      BY <1>3, <1>4, <2>1 DEF Multi!TypeOK
    <2>3. pc' = [pc EXCEPT ![r] = IF R # {} THEN "hub" ELSE "aggregate"]
      BY <2>2 DEF Multi!AgainReturns, Multi!Goto
    <2>4. QED  BY <1>4, <2>2, <2>3 DEF Multi!TypeOK
  <1>8. BoardHas(a, Twin(r, l), Twin(r, l))
    <2>1. /\ Twin(r, l) \in Multi!Slot /\ Twin(r, l) \in Entries
          /\ board \in [Multi!Slot -> Entries]
          /\ board' = Multi!Written(a, Twin(r, l), Twin(r, l))
      BY <1>2, <1>4 DEF MultiIInv, Multi!AgainReturns
    <2>2. QED  BY <2>1, BoardWritten
  <1>9. \A q \in Run : \A j \in Subtask : (q # r \/ j # l) => board'[Twin(q, j)] = board[Twin(q, j)]
    <2>1. ASSUME NEW q \in Run, NEW j \in Subtask, q # r \/ j # l
          PROVE  Twin(q, j) \in Multi!Slot /\ Twin(q, j) # Twin(r, l)
      BY <2>1, Apart
    <2>2. QED  BY <1>8, <2>1 DEF BoardHas
  <1>14. \A k \in Subtask : ShownKept(k)
    <2>1. output[r][l] = "empty"
      BY <1>4, <1>1 DEF Retries
    <2>2. AnswersStay
      <3>1. ASSUME NEW q \in Run, NEW j \in plan[q].todo, output[q][j] = "text" PROVE output'[q][j] = "text"
        <4>1. j \in Subtask
          BY <1>4, PlanOfRun
        <4>2. QED  BY <1>6, <2>1, <3>1, <4>1
      <3>2. QED  BY <1>1, <3>1 DEF AnswersStay
    <2>3. \A k \in Subtask : <<k>> \in Multi!Slot /\ <<k>> # Twin(r, l)
      BY Apart
    <2>4. QED  BY <1>8, <2>2, <2>3, SlotsKept DEF BoardHas
  <1>10. Multi!TypeOK'
    BY <1>1, <1>4, <1>6, <1>7, <1>8 DEF Multi!TypeOK, Entries, BoardHas
  <1>11. RunInv(r)'
    <2>1. Begun(r) /\ Begun(r)' /\ Finished(r) /\ Finished(r)' /\ pc'[r] \in {"hub", "aggregate"}
      BY <1>1, <1>7 DEF Begun, Finished
    <2>2. OwnNodes(r)'
      BY <1>1, <1>4, <2>1 DEF OwnNodes, Multi!Spawned
    <2>3. Jobs(r)'
      <3>1. job[r][l] = "done" /\ failed[r] = FALSE /\ a # "none"
        BY <1>1, <1>4, <2>1 DEF Jobs, Multi!TypeOK, Multi!Answer
      <3>2. QED  BY <1>1, <1>4, <1>6, <2>1, <3>1 DEF Jobs
    <2>4. \A j \in Subtask : Redone(r, j)' <=> Redone(r, j)
      BY <1>1 DEF Redone, Twin, Multi!Spawned
    <2>5. \A j \in Subtask : Twin(r, j)' = Twin(r, j)
      BY DEF Twin
    <2>6. Answers(r)'
      <3>1. ASSUME NEW j \in plan[r].todo, output'[r][j] = "text" PROVE OnBoard(r, j)'
        <4>2. CASE j = l
          <5>1. a = "text"
            BY <1>6, <3>1, <4>2
          <5>2. board'[Twin(r, l)] = Twin(r, l)
            BY <1>8, <5>1 DEF BoardHas
          <5>3. QED  BY <1>4, <1>5, <2>4, <2>5, <4>2, <5>2 DEF OnBoard
        <4>3. CASE j # l
          <5>1. OnBoard(r, j) /\ j \in Subtask /\ plan[r].key[j] \in Subtask
            BY <1>4, <1>6, <3>1, <4>3, PlanOfRun DEF Answers
          <5>2. PICK k \in Subtask : k = plan[r].key[j]
            BY <5>1
          <5>3. ShownKept(k) /\ board'[Twin(r, j)] = board[Twin(r, j)] /\ plan'[r].key[j] = k
            BY <1>1, <1>9, <1>14, <4>3, <5>1, <5>2
          <5>4. CASE Multi!Shown(k)
            <6>1. Multi!Shown(k)'
              BY <5>3, <5>4 DEF ShownKept
            <6>2. QED  BY <5>3, <6>1 DEF OnBoard
          <5>5. CASE ~Multi!Shown(k)
            BY <2>4, <2>5, <5>1, <5>2, <5>3, <5>5 DEF OnBoard
          <5>6. QED  BY <5>4, <5>5
        <4>4. QED  BY <4>2, <4>3
      <3>2. QED  BY <1>1, <3>1 DEF Answers
    <2>7. Retries(r)'
      <3>1. \A j \in Subtask : Chosen(r, j)' <=> Chosen(r, j)
        BY <1>3, <1>5, <1>7, <2>4 DEF Chosen
      <3>2. \A j \in Subtask : ChosenBefore(r, j)' = ChosenBefore(r, j)
        BY <1>1, <1>4, <3>1 DEF ChosenBefore
      <3>3. ASSUME NEW i \in plan[r].todo
            PROVE  /\ output'[r][i] = "empty" /\ plan'[r].pattern = "hub_spoke" =>
                         Chosen(r, i)' \/ Cardinality(ChosenBefore(r, i)') = 2
                   /\ Chosen(r, i)' => plan'[r].pattern = "hub_spoke" /\ Cardinality(ChosenBefore(r, i)') < 2
        <4>1. /\ output[r][i] = "empty" /\ plan[r].pattern = "hub_spoke" =>
                   Chosen(r, i) \/ Cardinality(ChosenBefore(r, i)) = 2
              /\ Chosen(r, i) => plan[r].pattern = "hub_spoke" /\ Cardinality(ChosenBefore(r, i)) < 2
          BY <1>4, <2>1 DEF Retries
        <4>2. i \in Subtask /\ (Chosen(r, i)' <=> Chosen(r, i)) /\ ChosenBefore(r, i)' = ChosenBefore(r, i)
          BY <1>4, <3>1, <3>2
        <4>3. i # l => output'[r][i] = output[r][i]
          BY <1>6, <4>2
        <4>4. Chosen(r, l)
          BY <1>5 DEF Chosen
        <4>5. QED  BY <1>1, <4>1, <4>2, <4>3, <4>4
      <3>4. \A i \in Subtask : i \in R => output'[r][i] = "empty"
        BY <1>3, <1>4, <1>6 DEF Retries
      <3>5. R \subseteq plan[r].todo
        BY <1>3, <1>4 DEF Retries
      <3>6. QED  BY <1>1, <1>4, <1>7, <2>1, <2>5, <3>3, <3>4, <3>5 DEF Retries
    <2>8. QED  BY <2>2, <2>3, <2>6, <2>7 DEF RunInv
  <1>12. \A q \in Run : q # r => RunInv(q)'
    BY <1>1, <1>6, <1>7, <1>9, <1>14, OtherKept
  <1>13. QED  BY <1>1, <1>8, <1>10, <1>11, <1>12 DEF MultiIInv, BoardHas

\* The answers are put together and the nodes of the subtasks removed.
LEMMA RunAggregates ==
    ASSUME MultiIInv, NEW r \in Run, Multi!Aggregate(r)
    PROVE  MultiIInv'
  <1>1. /\ pc[r] = "aggregate" /\ pc' = [pc EXCEPT ![r] = "over"]
        /\ registered' = IF cleanup[r] THEN registered \ Multi!Nodes(r) ELSE registered
        /\ UNCHANGED <<plan, cleanup, job, output, retry, failed, deleted>>
    BY DEF Multi!Aggregate, Multi!Goto, Multi!Finally
  <1>2. BoardHas("text", <<>>, <<r>>)
    <2>1. /\ <<>> \in Multi!Slot /\ <<r>> \in Entries /\ board \in [Multi!Slot -> Entries]
          /\ board' = Multi!Written("text", <<>>, <<r>>)
      BY DEF MultiIInv, Multi!Aggregate, Multi!Written
    <2>2. QED  BY <2>1, BoardWritten
  <1>3. /\ OwnNodes(r) /\ Jobs(r) /\ Answers(r) /\ Retries(r) /\ Multi!TypeOK
        /\ plan[r].todo \in SUBSET Subtask
    BY PlanOfRun DEF MultiIInv, RunInv
  <1>4. /\ pc' \in [Run -> {"idle", "decompose", "execute", "hub", "aggregate", "single", "over"}]
        /\ pc'[r] = "over" /\ \A q \in Run : q # r => pc'[q] = pc[q]
    BY <1>1, <1>3 DEF Multi!TypeOK
  <1>5. Multi!TypeOK'
    BY <1>1, <1>2, <1>3, <1>4 DEF Multi!TypeOK, Entries, BoardHas
  <1>6. /\ \A q \in Run : \A j \in Subtask : board'[Twin(q, j)] = board[Twin(q, j)]
        /\ \A k \in Subtask : ShownKept(k)
    <2>1. \A q \in Run : \A j \in Subtask : Twin(q, j) \in Multi!Slot /\ Twin(q, j) # <<>>
      BY Apart
    <2>2. \A k \in Subtask : <<k>> \in Multi!Slot /\ <<k>> # <<>>
      BY Apart
    <2>3. AnswersStay
      BY <1>1 DEF AnswersStay
    <2>4. QED  BY <1>2, <2>1, <2>2, <2>3, SlotsKept DEF BoardHas
  <1>7. \A n : n \notin Multi!Nodes(r) => (n \in registered' <=> n \in registered)
    BY <1>1
  <1>8. RunInv(r)'
    <2>1. Begun(r) /\ Begun(r)' /\ Finished(r) /\ failed[r] = FALSE
      BY <1>1, <1>3, <1>4 DEF Begun, Finished, Jobs, Multi!TypeOK
    <2>2. OwnNodes(r)'
      BY <1>1, <1>3, <1>4, <2>1 DEF OwnNodes, Multi!Nodes
    <2>3. Jobs(r)'
      BY <1>1, <1>3, <1>4, <2>1 DEF Jobs
    <2>4. \A j \in Subtask : Redone(r, j)' <=> Redone(r, j)
      <3>1. \A j \in Subtask : Twin(r, j)' = Twin(r, j) /\ Twin(r, j) \notin Multi!Nodes(r)
        BY DEF Twin
      <3>2. QED  BY <1>1, <1>7, <3>1 DEF Redone, Multi!Spawned
    <2>5. Answers(r)'
      BY <1>1, <1>3, <1>6, <2>4, AnswersKept
    <2>6. Retries(r)'
      BY <1>1, <1>3, <1>4, <1>6, <2>1, <2>4, RetriesKept
    <2>7. QED  BY <2>2, <2>3, <2>5, <2>6 DEF RunInv
  <1>9. \A q \in Run : q # r => RunInv(q)'
    BY <1>1, <1>4, <1>6, <1>7, OtherKept
  <1>10. QED  BY <1>1, <1>2, <1>5, <1>8, <1>9 DEF MultiIInv, BoardHas

\* A node is removed by hand.
LEMMA NodeDeleted ==
    ASSUME MultiIInv, NEW n \in registered, Multi!Delete(n)
    PROVE  MultiIInv'
  <1>1. /\ registered' = registered \ {n} /\ deleted' = deleted \cup {n}
        /\ UNCHANGED <<pc, plan, cleanup, job, output, retry, failed, board>>
    BY DEF Multi!Delete
  <1>2. Multi!TypeOK'
    BY <1>1 DEF MultiIInv, Multi!TypeOK
  <1>3. \A m : Multi!Spawned(m)' <=> Multi!Spawned(m)
    BY <1>1 DEF Multi!Spawned
  <1>4. ASSUME NEW q \in Run PROVE RunInv(q)'
    <2>1. \A i \in Subtask : Redone(q, i)' <=> Redone(q, i)
      <3>1. \A i \in Subtask : Twin(q, i)' = Twin(q, i)
        BY DEF Twin
      <3>2. QED  BY <1>1, <3>1 DEF Redone, Multi!Spawned
    <2>2. \A m \in Multi!Nodes(q) : /\ m \in registered' => m \in registered
                                    /\ Multi!Spawned(m) => Multi!Spawned(m)'
      BY <1>1 DEF Multi!Spawned
    <2>3. QED  BY <1>1, <2>1, <2>2, RunKept, ShownSame
  <1>5. QED  BY <1>1, <1>2, <1>4 DEF MultiIInv

LEMMA MultiSame ==
    ASSUME MultiIInv, UNCHANGED Multi!vars
    PROVE  MultiIInv'
  <1>1. UNCHANGED <<pc, plan, cleanup, job, output, retry, failed, registered, deleted, board>>
    BY DEF Multi!vars
  <1>2. Multi!TypeOK'
    BY <1>1 DEF MultiIInv, Multi!TypeOK
  <1>3. ASSUME NEW q \in Run PROVE RunInv(q)'
    <2>1. \A i \in Subtask : Redone(q, i)' <=> Redone(q, i)
      BY <1>1 DEF Redone, Twin, Multi!Spawned
    <2>2. QED  BY <1>1, <2>1, RunKept, ShownSame DEF Multi!Spawned
  <1>4. QED  BY <1>1, <1>2, <1>3 DEF MultiIInv

LEMMA MultiStep == MultiIInv /\ [Multi!Next]_Multi!vars => MultiIInv'
  <1> SUFFICES ASSUME MultiIInv, Multi!Next \/ UNCHANGED Multi!vars PROVE MultiIInv'
    OBVIOUS
  <1>1. ASSUME NEW r \in Run, Multi!Start(r) \/ Multi!DecomposedToNothing(r) PROVE MultiIInv'
    BY <1>1, RunMoves
  <1>2. ASSUME NEW r \in Run, Multi!SpawnSingle(r) PROVE MultiIInv'
    BY <1>2, RunSpawnsSingle
  <1>3. ASSUME NEW r \in Run, NEW p \in Plans[r], Multi!Decomposed(r, p) PROVE MultiIInv'
    BY <1>3, RunDecomposed
  <1>4. ASSUME NEW r \in Run, Multi!PatternReturns(r) PROVE MultiIInv'
    BY <1>4, RunPatternReturns
  <1>5. ASSUME NEW r \in Run, Multi!SpawnAgain(r) PROVE MultiIInv'
    BY <1>5, RunSpawnsAgain
  <1>6. ASSUME NEW r \in Run, Multi!Aggregate(r) PROVE MultiIInv'
    BY <1>6, RunAggregates
  <1>7. ASSUME NEW r \in Run, NEW a \in Multi!Answer, Multi!SingleReturns(r, a) PROVE MultiIInv'
    BY <1>7, RunReturnsSingle
  <1>8. ASSUME NEW r \in Run, NEW a \in Multi!Answer, Multi!AgainReturns(r, a) PROVE MultiIInv'
    BY <1>8, RunAnswersAgain
  <1>9. ASSUME NEW r \in Run, NEW i \in Subtask, Multi!Work(r, i) PROVE MultiIInv'
    <2>1. CASE Multi!BeginSubtask(r, i)
      BY <2>1, RunBegins
    <2>2. CASE Multi!SubtaskRaises(r, i)
      BY <2>2, RunRaises
    <2>3. ASSUME NEW a \in Multi!Answer, Multi!SubtaskReturns(r, i, a) PROVE MultiIInv'
      BY <2>3, RunAnswers
    <2>4. QED  BY <1>9, <2>1, <2>2, <2>3 DEF Multi!Work
  <1>10. ASSUME NEW n \in registered, Multi!Delete(n) PROVE MultiIInv'
    BY <1>10, NodeDeleted
  <1>11. CASE UNCHANGED Multi!vars
    BY <1>11, MultiSame
  <1>12. QED
    BY <1>1, <1>2, <1>3, <1>4, <1>5, <1>6, <1>7, <1>8, <1>9, <1>10, <1>11 DEF Multi!Next, Multi!Control

LEMMA MultiInv == Multi!Spec => []MultiIInv
  <1>1. Multi!Init => MultiIInv
    BY MultiInit
  <1>2. MultiIInv /\ [Multi!Next]_Multi!vars => MultiIInv'
    BY MultiStep
  <1>3. QED  BY <1>1, <1>2, PTL DEF Multi!Spec

\* A run that cleans up has removed every node of its subtasks when it returns, in
\* an error too, and until then no other run has removed one of them.
THEOREM RunsCleanUpExactly == Multi!Spec => []CleanupExact
  <1>1. MultiIInv => CleanupExact
    <2> SUFFICES ASSUME MultiIInv PROVE CleanupExact
      OBVIOUS
    <2>1. \A r \in Run : OwnNodes(r)
      BY DEF MultiIInv, RunInv
    <2>2. QED  BY <2>1 DEF CleanupExact, Multi!CleanupExact, OwnNodes
  <1>2. QED  BY <1>1, MultiInv, PTL

\* A run without an error returns when no subtask is at work; the slot of each
\* answer holds it or a later one of the same key; the hub asked again for the
\* first two that had none, and for no other.
THEOREM RunResultsTrue == Multi!Spec => []ResultsTrue
  <1>1. MultiIInv => ResultsTrue
    <2> SUFFICES ASSUME MultiIInv, NEW r \in Run, pc[r] = "over", ~failed[r]
                 PROVE  /\ Multi!Working(r) = {}
                        /\ \A i \in plan[r].todo :
                              /\ output[r][i] # "none"
                              /\ output[r][i] = "text" => OnBoard(r, i)
                              /\ output[r][i] = "empty" /\ plan[r].pattern = "hub_spoke" =>
                                   Redone(r, i) \/ Cardinality({j \in plan[r].todo : j < i /\ Redone(r, j)}) = 2
                              /\ Redone(r, i) => /\ plan[r].pattern = "hub_spoke"
                                                 /\ Cardinality({j \in plan[r].todo : j < i /\ Redone(r, j)}) < 2
      BY MultiCardinality DEF ResultsTrue, Multi!ResultsTrue, OnBoard, Redone, Twin
    <2>1. /\ Jobs(r) /\ Answers(r) /\ Retries(r) /\ plan[r].todo \in SUBSET Subtask
          /\ Finished(r)
      BY PlanOfRun DEF MultiIInv, RunInv, Finished
    <2>2. retry[r] = {}
      BY <2>1 DEF Retries
    <2>3. Multi!Working(r) = {}
      <3>1. \A i \in Subtask : job[r][i] \notin {"start", "llm"}
        BY <2>1 DEF Jobs
      <3>2. QED  BY <3>1 DEF Multi!Working
    <2>4. ASSUME NEW i \in plan[r].todo
          PROVE  output[r][i] # "none" /\ (output[r][i] = "text" => OnBoard(r, i))
      BY <2>1 DEF Jobs, Answers
    <2>5. ASSUME NEW i \in plan[r].todo
          PROVE  /\ output[r][i] = "empty" /\ plan[r].pattern = "hub_spoke" =>
                      Redone(r, i) \/ Cardinality({j \in plan[r].todo : j < i /\ Redone(r, j)}) = 2
                 /\ Redone(r, i) => /\ plan[r].pattern = "hub_spoke"
                                    /\ Cardinality({j \in plan[r].todo : j < i /\ Redone(r, j)}) < 2
      BY <2>1, <2>2 DEF Retries, Chosen, ChosenBefore
    <2>6. QED  BY <2>3, <2>4, <2>5
  <1>2. QED  BY <1>1, MultiInv, PTL

-----------------------------------------------------------------------------
(* The parts beside each other *)

\* A step of the agents is a step or a stutter of each part.
LEMMA AgentsSteps == [AgentsNext]_agentsVars => [Next]_vars /\ [Multi!Next]_Multi!vars
  BY DEF AgentsNext, agentsVars, multiVars, vars, Multi!vars

\* In any behaviour of the bus and of the orchestrator streams have no gap, runs
\* clean up, and results are true.
THEOREM AgentsSafe == AgentsSpec => []StreamHasNoGap /\ []CleanupExact /\ []ResultsTrue
  <1>1. AgentsInit => Init /\ Multi!Init
    BY DEF AgentsInit
  <1>2. QED
    BY <1>1, AgentsSteps, BusStreamHasNoGap, RunsCleanUpExactly, RunResultsTrue, PTL
       DEF AgentsSpec, Spec, Multi!Spec
===============================================================================
