---------------------------- MODULE ChatTurnProofs ----------------------------
(***************************************************************************)
(* Proofs about chat turns, for any number of turns, questions, contexts   *)
(* and providers, any relation of similarity between questions, and        *)
(* streams of any length.                                                  *)
(*                                                                         *)
(* The inductive invariant has a part that looks at one turn alone,        *)
(* Local(t): how far its reply is, and what that allows its detached       *)
(* writers; and a part that ties turns together, Shared: what the cache,   *)
(* a hit and the memories refer to is a turn whose writers were launched,  *)
(* which by Local is over and was answered.                                *)
(***************************************************************************)
EXTENDS ChatTurn, TLAPS, FiniteSetTheorems

\* START TOKEN*
Started(s) == Len(s) > 0 /\ s[1] = "start" /\ \A i \in 2..Len(s) : s[i] = "token"

\* ... END or ERROR, or ERROR alone
Ending(s) ==
    /\ Len(s) > 0 /\ s[Len(s)] \in {"end", "error"}
    /\ IF Len(s) = 1 THEN s[1] = "error" ELSE s[1] = "start"
    /\ \A i \in 2..(Len(s) - 1) : s[i] = "token"

\* ... [DONE]
Finished(s) ==
    /\ Len(s) > 1 /\ s[Len(s)] = "done" /\ s[Len(s) - 1] \in {"end", "error"}
    /\ IF Len(s) = 2 THEN s[1] = "error" ELSE s[1] = "start"
    /\ \A i \in 2..(Len(s) - 2) : s[i] = "token"

Silent == {"idle", "exact", "search", "fetch", "prepare", "chat", "probe"}

Local(t) ==
    /\ pc[t] \in Silent => log[t] = <<>>
    /\ pc[t] = "replay" => log[t] = <<>> \/ Started(log[t])
    /\ pc[t] = "open" => Started(log[t]) /\ at[t] <= Providers
    /\ pc[t] = "closing" => Ending(log[t]) /\ (key[t] # None /\ Last(log[t]) = "end" => at[t] <= Providers)
    /\ pc[t] = "done" => at[t] <= Providers /\ Finished(log[t]) /\ log[t][Len(log[t]) - 1] = "end" /\ key[t] # None
    /\ pc[t] = "over" => IF ask[t].stream /\ log[t] # <<"refused">>
                         THEN log[t] = <<>> \/ Started(log[t]) \/ Ending(log[t]) \/ Finished(log[t])
                         ELSE log[t] \in {<<"response">>, <<"refused">>}
    /\ pc[t] \in {"replay", "probe", "open", "closing", "done"} => ask[t].stream
    /\ pc[t] = "chat" => ~ask[t].stream /\ key[t] # None
    /\ pc[t] \in {"idle", "exact", "search", "fetch", "prepare", "replay"} => key[t] = None
    /\ key[t] # None => key[t] \in Question \X Context /\ key[t][1] = ask[t].question /\ hit[t] = None
    /\ pc[t] = "fetch" => wanted[t] \in Key /\ <<ask[t].question, wanted[t][1]>> \in Similar
    /\ pc[t] \in Silent => hit[t] = None
    /\ store[t] # "idle" => pc[t] = "over" /\ key[t] # None /\ Answered(t)
    /\ \A p \in Provider : post[t][p] # "idle" =>
         pc[t] # "idle" /\ (ask[t].stream => p = at[t] /\ pc[t] = "over" /\ Answered(t))

Shared ==
    /\ \A k \in Key : redis[k] # None => store[redis[k]] # "idle" /\ key[redis[k]] = k
    /\ \A t \in Turn : hit[t] # None =>
         hit[t] # t /\ store[hit[t]] # "idle" /\ <<ask[t].question, ask[hit[t]].question>> \in Similar
    /\ \A m \in memories : post[m[1]][m[2]] # "idle"

IInv == TypeOK /\ (\A t \in Turn : Local(t)) /\ Shared

-----------------------------------------------------------------------------

(* What one more event makes of a log. *)

LEMMA EmptyGrows ==
    /\ Append(<<>>, "start") \in Seq(Event) /\ Started(Append(<<>>, "start"))
    /\ Append(<<>>, "error") \in Seq(Event) /\ Ending(Append(<<>>, "error"))
    /\ Append(<<>>, "response") = <<"response">> /\ <<"response">> \in Seq(Event)
    /\ Append(<<>>, "refused") = <<"refused">> /\ <<"refused">> \in Seq(Event)
  BY DEF Started, Ending, Event

LEMMA StartedGrows ==
    ASSUME NEW s \in Seq(Event), Started(s)
    PROVE  /\ Append(s, "token") \in Seq(Event) /\ Started(Append(s, "token"))
           /\ \A e \in {"end", "error"} : Append(s, e) \in Seq(Event) /\ Ending(Append(s, e))
           /\ s # <<>>
  <1>1. ASSUME NEW e \in Event
        PROVE  /\ Append(s, e) \in Seq(Event) /\ Len(Append(s, e)) = Len(s) + 1 /\ Len(s) \in Nat
               /\ \A i \in 1..Len(s) : Append(s, e)[i] = s[i]
               /\ Append(s, e)[Len(s) + 1] = e
    OBVIOUS
  <1>2. {"token", "end", "error"} \subseteq Event
    BY DEF Event
  <1>3. Append(s, "token") \in Seq(Event) /\ Started(Append(s, "token"))
    BY <1>1, <1>2 DEF Started
  <1>4. ASSUME NEW e \in {"end", "error"} PROVE Append(s, e) \in Seq(Event) /\ Ending(Append(s, e))
    BY <1>1, <1>2 DEF Started, Ending
  <1>5. s # <<>>
    BY DEF Started
  <1>6. QED  BY <1>3, <1>4, <1>5

LEMMA EndingGrows ==
    ASSUME NEW s \in Seq(Event), Ending(s)
    PROVE  /\ Append(s, "done") \in Seq(Event) /\ Finished(Append(s, "done"))
           /\ Append(s, "done")[Len(Append(s, "done")) - 1] = Last(s)
  <1>1. "done" \in Event
    BY DEF Event
  <1>2. /\ Append(s, "done") \in Seq(Event) /\ Len(Append(s, "done")) = Len(s) + 1 /\ Len(s) \in Nat
        /\ \A i \in 1..Len(s) : Append(s, "done")[i] = s[i]
        /\ Append(s, "done")[Len(s) + 1] = "done"
    BY <1>1
  <1>3. QED  BY <1>2 DEF Ending, Finished, Last

\* Every log that a stream may have is well formed.
LEMMA LogsWellFormed ==
    ASSUME NEW s \in Seq(Event), s = <<>> \/ Started(s) \/ Ending(s) \/ Finished(s)
    PROVE  WellFormed(s)
  <1>1. Len(s) \in Nat /\ DOMAIN s = 1..Len(s)
    OBVIOUS
  <1>2. CASE s = <<>>
    BY <1>2 DEF WellFormed
  <1>3. CASE Started(s)
    BY <1>1, <1>3 DEF WellFormed, Started
  <1>4. CASE Ending(s)
    BY <1>1, <1>4 DEF WellFormed, Ending
  <1>5. CASE Finished(s)
    BY <1>1, <1>5 DEF WellFormed, Finished
  <1>6. QED  BY <1>2, <1>3, <1>4, <1>5

-----------------------------------------------------------------------------

\* A step of turn t leaves the variables of the other turns alone.
Apart(t) ==
    \A u \in Turn \ {t} :
        /\ pc'[u] = pc[u] /\ ask'[u] = ask[u] /\ key'[u] = key[u] /\ wanted'[u] = wanted[u]
        /\ at'[u] = at[u] /\ log'[u] = log[u] /\ hit'[u] = hit[u]
        /\ store'[u] = store[u] /\ post'[u] = post[u]

\* If such a step keeps what is local to t, and its hit is a good one, it keeps
\* everything: what others refer to is over, and t is not.
LEMMA TurnStep ==
    ASSUME IInv, NEW t \in Turn, pc[t] # "over", Apart(t), UNCHANGED <<redis, points, memories>>,
           TypeOK', Local(t)',
           \A p \in Provider : post[t][p] # "idle" => post'[t][p] # "idle",
           hit'[t] = None \/ (ask'[t] = ask[t] /\ hit'[t] = hit[t])
             \/ (/\ ask'[t] = ask[t] /\ store[hit'[t]] # "idle"
                 /\ <<ask[t].question, ask[hit'[t]].question>> \in Similar)
    PROVE  IInv'
  <1>1. TypeOK /\ Shared /\ (\A u \in Turn : Local(u))
    BY DEF IInv
  <1>2. ASSUME NEW u \in Turn PROVE Local(u)'
    <2>1. CASE u = t
      BY <2>1
    <2>2. CASE u # t
      BY <1>1, <2>2 DEF Apart, Local, Answered, Last
    <2>3. QED  BY <2>1, <2>2
  <1>3. ASSUME NEW o \in Turn, store[o] # "idle"
        PROVE  o # t /\ store'[o] # "idle" /\ key'[o] = key[o] /\ ask'[o] = ask[o]
    <2>1. Local(o)
      BY <1>1
    <2>2. o # t
      BY <1>3, <2>1 DEF Local
    <2>3. QED  BY <1>3, <2>2 DEF Apart
  <1>4. Shared'
    <2>1. \A k \in Key : redis'[k] # None => store'[redis'[k]] # "idle" /\ key'[redis'[k]] = k
      BY <1>1, <1>3 DEF Shared, TypeOK
    <2>2. ASSUME NEW u \in Turn, hit'[u] # None
          PROVE  hit'[u] # u /\ store'[hit'[u]] # "idle" /\ <<ask'[u].question, ask'[hit'[u]].question>> \in Similar
      <3>1. hit'[u] \in Turn
        BY <2>2 DEF TypeOK
      <3>2. CASE u = t
        <4>1. CASE ask'[t] = ask[t] /\ hit'[t] = hit[t]
          BY <1>1, <1>3, <2>2, <3>1, <3>2, <4>1 DEF Shared
        <4>2. CASE ask'[t] = ask[t] /\ store[hit'[t]] # "idle"
                     /\ <<ask[t].question, ask[hit'[t]].question>> \in Similar
          BY <1>3, <3>1, <3>2, <4>2
        <4>3. QED  BY <2>2, <3>2, <4>1, <4>2
      <3>3. CASE u # t
        <4>1. hit'[u] = hit[u] /\ ask'[u] = ask[u]
          BY <3>3 DEF Apart
        <4>2. /\ hit[u] # u /\ store[hit[u]] # "idle"
              /\ <<ask[u].question, ask[hit[u]].question>> \in Similar
          BY <1>1, <2>2, <4>1 DEF Shared
        <4>3. hit[u] \in Turn
          BY <3>1, <4>1
        <4>4. store'[hit[u]] # "idle" /\ ask'[hit[u]] = ask[hit[u]]
          BY <1>3, <4>2, <4>3
        <4>5. QED  BY <4>1, <4>2, <4>4
      <3>4. QED  BY <3>2, <3>3
    <2>3. ASSUME NEW m \in memories' PROVE post'[m[1]][m[2]] # "idle"
      <3>1. m[1] \in Turn /\ m[2] \in Provider /\ post[m[1]][m[2]] # "idle"
        BY <1>1 DEF Shared, TypeOK, Update
      <3>2. CASE m[1] = t
        BY <3>1, <3>2
      <3>3. CASE m[1] # t
        BY <3>1, <3>3 DEF Apart
      <3>4. QED  BY <3>2, <3>3
    <2>4. QED  BY <2>1, <2>2, <2>3 DEF Shared
  <1>5. QED  BY <1>2, <1>4 DEF IInv

LEMMA InitIInv == Init => IInv
  <1> SUFFICES ASSUME Init PROVE IInv
    OBVIOUS
  <1>1. 1 \in 1..(Providers + 1) /\ (CHOOSE q \in Question : TRUE) \in Question
    BY ChatAssumption
  <1>2. TypeOK
    BY <1>1, ChatAssumption DEF Init, TypeOK
  <1>3. ASSUME NEW t \in Turn PROVE Local(t)
    BY <1>3 DEF Init, Local, Silent
  <1>4. Shared
    BY DEF Init, Shared
  <1>5. QED  BY <1>2, <1>3, <1>4 DEF IInv

-----------------------------------------------------------------------------
(* The steps of a turn. *)

LEMMA SendTyped ==
    ASSUME TypeOK, NEW t \in Turn, NEW e, Append(log[t], e) \in Seq(Event), Send(t, e)
    PROVE  log' \in [Turn -> Seq(Event)]
  BY DEF Send, TypeOK

LEMMA LaunchTyped ==
    ASSUME TypeOK, NEW t \in Turn, NEW p \in Provider, Launch(t, p)
    PROVE  post' \in [Turn -> [Provider -> {"idle", "memory", "over"}]]
  <1>1. [post[t] EXCEPT ![p] = "memory"] \in [Provider -> {"idle", "memory", "over"}]
    BY DEF TypeOK
  <1>2. QED  BY <1>1 DEF Launch, TypeOK

LEMMA StartStep == ASSUME IInv, NEW t \in Turn, Start(t) PROVE IInv'
  <1>1. TypeOK /\ Local(t) /\ Shared /\ log[t] \in Seq(Event)
    BY DEF IInv, TypeOK
  <1>2. TypeOK'
    <2>1. ask' \in [Turn -> [question : Question, stream : BOOLEAN]]
      BY <1>1 DEF Start, TypeOK
    <2>2. log' \in [Turn -> Seq(Event)]
      <3>1. log[t] = <<>>
        BY <1>1 DEF Start, Local, Silent
      <3>2. CASE Respond(t, "refused")
        BY <1>1, <3>1, <3>2, EmptyGrows, SendTyped DEF Respond
      <3>3. CASE UNCHANGED log
        BY <1>1, <3>3 DEF TypeOK
      <3>4. QED  BY <3>2, <3>3 DEF Start
    <2>3. QED
      BY <1>1, <2>1, <2>2 DEF Start, Respond, Goto, TypeOK, cacheVars, memoryVars
  <1>3. Local(t)'
    BY <1>1, EmptyGrows DEF Start, Respond, Goto, Send, turnVars, cacheVars, memoryVars, Local, Silent,
       Answered, Last, TypeOK
  <1>4. Apart(t)
    BY <1>1 DEF Start, Respond, Goto, Send, turnVars, cacheVars, memoryVars, Apart, TypeOK
  <1>5. QED
    BY <1>1, <1>2, <1>3, <1>4, TurnStep DEF Start, Respond, Goto, Send, cacheVars, memoryVars, Local, Silent

\* What the cache holds under a key is the answer of a turn to the key's question.
LEMMA HitIsGood ==
    ASSUME IInv, NEW t \in Turn, NEW k \in Key, redis[k] # None, <<ask[t].question, k[1]>> \in Similar
    PROVE  /\ redis[k] \in Turn /\ store[redis[k]] # "idle"
           /\ <<ask[t].question, ask[redis[k]].question>> \in Similar
  <1>1. redis[k] \in Turn
    BY DEF IInv, TypeOK
  <1>2. store[redis[k]] # "idle" /\ key[redis[k]] = k
    BY DEF IInv, Shared
  <1>3. Local(redis[k])
    BY <1>1 DEF IInv
  <1>4. ask[redis[k]].question = k[1]
    BY <1>2, <1>3 DEF Local
  <1>5. QED  BY <1>1, <1>2, <1>4

\* A lookup that found a good answer.
LEMMA RepeatStep ==
    ASSUME IInv, NEW t \in Turn, pc[t] \in {"exact", "fetch"}, NEW o \in Turn, Repeat(t, o),
           store[o] # "idle", <<ask[t].question, ask[o].question>> \in Similar,
           wanted' = wanted \/ wanted' = [wanted EXCEPT ![t] = None],
           UNCHANGED <<ask, key, at, cacheVars, memoryVars>>
    PROVE  IInv'
  <1>1. TypeOK /\ Local(t) /\ Shared /\ log[t] = <<>>
    BY DEF IInv, Local, Silent
  <1>2. TypeOK'
    <2>1. log' \in [Turn -> Seq(Event)]
      <3>1. CASE ask[t].stream
        BY <1>1, <3>1 DEF Repeat, TypeOK
      <3>2. CASE ~ask[t].stream
        BY <1>1, <3>2, EmptyGrows, SendTyped DEF Repeat, Respond
      <3>3. QED  BY <3>1, <3>2
    <2>2. QED
      BY <1>1, <2>1 DEF Repeat, Respond, Goto, TypeOK, cacheVars, memoryVars
  <1>3. Local(t)'
    BY <1>1, EmptyGrows DEF Repeat, Respond, Goto, Send, cacheVars, memoryVars, Local, Silent, Answered, Last, TypeOK
  <1>4. Apart(t)
    BY <1>1 DEF Repeat, Respond, Goto, Send, cacheVars, memoryVars, Apart, TypeOK
  <1>5. hit'[t] = o
    BY <1>1 DEF Repeat, TypeOK
  <1>6. QED
    BY <1>1, <1>2, <1>3, <1>4, <1>5, TurnStep DEF cacheVars, memoryVars

LEMMA GetExactStep == ASSUME IInv, NEW t \in Turn, GetExact(t) PROVE IInv'
  <1>1. TypeOK /\ Local(t) /\ Shared /\ log[t] \in Seq(Event)
    BY DEF IInv, TypeOK
  <1>k. RawKey(t) \in Key /\ <<ask[t].question, RawKey(t)[1]>> \in Similar
    BY <1>1, ChatAssumption DEF RawKey, Key, TypeOK
  <1>3. CASE redis[RawKey(t)] # None /\ Repeat(t, redis[RawKey(t)])
    BY <1>1, <1>k, <1>3, HitIsGood, RepeatStep DEF GetExact, Local, Silent
  <1>4. CASE Goto(t, "search") /\ UNCHANGED <<log, hit>>
    <2>1. TypeOK'
      BY <1>1, <1>4 DEF GetExact, Goto, TypeOK, cacheVars, memoryVars
    <2>2. Local(t)'
      BY <1>1, <1>4 DEF GetExact, Goto, turnVars, cacheVars, memoryVars, Local, Silent, Answered, Last, TypeOK
    <2>3. Apart(t)
      BY <1>1, <1>4 DEF GetExact, Goto, cacheVars, memoryVars, Apart, TypeOK
    <2>4. QED
      BY <1>1, <1>4, <2>1, <2>2, <2>3, TurnStep DEF GetExact, cacheVars, memoryVars
  <1>5. QED  BY <1>3, <1>4 DEF GetExact

LEMMA SearchStep == ASSUME IInv, NEW t \in Turn, Search(t) PROVE IInv'
  <1>1. TypeOK /\ Local(t) /\ Shared /\ log[t] \in Seq(Event)
    BY DEF IInv, TypeOK
  <1>2. TypeOK'
    <2>1. Nearest(ask[t].question) \subseteq Key
      BY <1>1 DEF Nearest, Near, TypeOK
    <2>2. wanted' \in [Turn -> Key \cup {None}]
      BY <1>1, <2>1 DEF Search, TypeOK
    <2>3. QED
      BY <1>1, <2>2 DEF Search, Goto, TypeOK, cacheVars, memoryVars
  <1>3. Local(t)'
    BY <1>1 DEF Search, Goto, Near, Nearest, cacheVars, memoryVars, Local, Silent, Answered, Last, TypeOK
  <1>4. Apart(t)
    BY <1>1 DEF Search, Goto, cacheVars, memoryVars, Apart, TypeOK
  <1>5. QED
    BY <1>1, <1>2, <1>3, <1>4, TurnStep DEF Search, cacheVars, memoryVars

LEMMA FetchStep == ASSUME IInv, NEW t \in Turn, Fetch(t) PROVE IInv'
  <1>1. TypeOK /\ Local(t) /\ Shared /\ log[t] \in Seq(Event)
    BY DEF IInv, TypeOK
  <1>k. wanted[t] \in Key /\ <<ask[t].question, wanted[t][1]>> \in Similar
    BY <1>1 DEF Fetch, Local
  <1>3. CASE redis[wanted[t]] # None /\ Repeat(t, redis[wanted[t]])
    BY <1>1, <1>k, <1>3, HitIsGood, RepeatStep DEF Fetch
  <1>4. CASE Goto(t, "prepare") /\ UNCHANGED <<log, hit>>
    <2>1. TypeOK'
      BY <1>1, <1>4 DEF Fetch, Goto, TypeOK, cacheVars, memoryVars
    <2>2. Local(t)'
      BY <1>1, <1>4 DEF Fetch, Goto, turnVars, cacheVars, memoryVars, Local, Silent, Answered, Last, TypeOK
    <2>3. Apart(t)
      BY <1>1, <1>4 DEF Fetch, Goto, cacheVars, memoryVars, Apart, TypeOK
    <2>4. QED
      BY <1>1, <1>4, <2>1, <2>2, <2>3, TurnStep DEF Fetch, cacheVars, memoryVars
  <1>5. QED  BY <1>3, <1>4 DEF Fetch

LEMMA PrepareStep == ASSUME IInv, NEW t \in Turn, Prepare(t) PROVE IInv'
  <1>1. TypeOK /\ Local(t) /\ Shared /\ log[t] \in Seq(Event)
    BY DEF IInv, TypeOK
  <1>l. log[t] = <<>> /\ hit[t] = None /\ key[t] = None /\ pc[t] = "prepare" /\ store[t] = "idle"
    BY <1>1 DEF Prepare, Local, Silent, TypeOK
  <1>3. CASE Respond(t, "refused") /\ UNCHANGED key
    <2>1. TypeOK'
      BY <1>1, <1>l, <1>3, EmptyGrows DEF Prepare, Respond, Goto, Send, cacheVars, memoryVars, TypeOK
    <2>2. Local(t)'
      BY <1>1, <1>l, <1>3, EmptyGrows DEF Prepare, Respond, Goto, Send, cacheVars, memoryVars, Local, Silent, Answered, Last, TypeOK
    <2>3. Apart(t)
      BY <1>1, <1>3 DEF Prepare, Respond, Goto, Send, cacheVars, memoryVars, Apart, TypeOK
    <2>4. QED
      BY <1>l, <2>1, <2>2, <2>3, TurnStep DEF Prepare, cacheVars, memoryVars
  <1>4. CASE /\ IF ask[t].stream THEN Goto(t, "replay") /\ UNCHANGED log ELSE Respond(t, "response")
             /\ UNCHANGED key
    <2>1. TypeOK'
      <3>1. CASE ask[t].stream
        BY <1>1, <1>4, <3>1 DEF Prepare, Goto, cacheVars, memoryVars, TypeOK
      <3>2. CASE ~ask[t].stream
        <4>1. log' \in [Turn -> Seq(Event)]
          BY <1>1, <1>l, <1>4, <3>2, EmptyGrows, SendTyped DEF Respond
        <4>2. QED
          BY <1>1, <1>4, <3>2, <4>1 DEF Prepare, Respond, Goto, cacheVars, memoryVars, TypeOK
      <3>3. QED  BY <3>1, <3>2
    <2>2. Local(t)'
      BY <1>1, <1>l, <1>4, EmptyGrows DEF Prepare, Respond, Goto, Send, cacheVars, memoryVars, Local, Silent, Answered, Last, TypeOK
    <2>3. Apart(t)
      BY <1>1, <1>4 DEF Prepare, Respond, Goto, Send, cacheVars, memoryVars, Apart, TypeOK
    <2>4. QED
      BY <1>l, <2>1, <2>2, <2>3, TurnStep DEF Prepare, cacheVars, memoryVars
  <1>5. ASSUME NEW c \in Context, key' = [key EXCEPT ![t] = <<ask[t].question, c>>],
               Goto(t, IF ask[t].stream THEN "probe" ELSE "chat"), UNCHANGED log
        PROVE  IInv'
    <2>1. /\ <<ask[t].question, c>> \in Question \X Context /\ <<ask[t].question, c>>[1] = ask[t].question
          /\ <<ask[t].question, c>> # None
      BY <1>1, ChatAssumption DEF TypeOK
    <2>2. TypeOK'
      <3>1. key' \in [Turn -> Key \cup {None}]
        BY <1>1, <1>5, <2>1 DEF Key, TypeOK
      <3>2. QED
        BY <1>1, <1>5, <3>1 DEF Prepare, Goto, cacheVars, memoryVars, TypeOK
    <2>3. Local(t)'
      BY <1>1, <1>l, <1>5, <2>1 DEF Prepare, Goto, cacheVars, memoryVars, Local, Silent, Answered, Last, TypeOK
    <2>4. Apart(t)
      BY <1>1, <1>5 DEF Prepare, Goto, cacheVars, memoryVars, Apart, TypeOK
    <2>5. QED
      BY <1>l, <2>2, <2>3, <2>4, TurnStep DEF Prepare, cacheVars, memoryVars
  <1>6. QED  BY <1>3, <1>4, <1>5 DEF Prepare

LEMMA ReplayStep == ASSUME IInv, NEW t \in Turn, Replay(t) PROVE IInv'
  <1>1. TypeOK /\ Local(t) /\ Shared /\ log[t] \in Seq(Event)
    BY DEF IInv, TypeOK
  <1>l. ask[t].stream /\ key[t] = None /\ pc[t] = "replay" /\ store[t] = "idle"
    BY <1>1 DEF Replay, Local, TypeOK
  <1>s. log[t] # <<>> => Started(log[t])
    BY <1>1, <1>l DEF Local
  <1>4. PICK e \in Event : /\ Send(t, e) /\ Append(log[t], e) \in Seq(Event)
                           /\ \/ UNCHANGED pc /\ Started(Append(log[t], e))
                              \/ Goto(t, "closing") /\ Ending(Append(log[t], e))
    <2>1. CASE log[t] = <<>> /\ Send(t, "start") /\ UNCHANGED pc
      BY <2>1, EmptyGrows DEF Event
    <2>2. CASE log[t] # <<>> /\ Token(t) /\ UNCHANGED pc
      BY <1>1, <1>s, <2>2, StartedGrows DEF Event, Token
    <2>3. CASE log[t] # <<>> /\ Send(t, "end") /\ Goto(t, "closing")
      BY <1>1, <1>s, <2>3, StartedGrows DEF Event
    <2>4. QED  BY <2>1, <2>2, <2>3 DEF Replay
  <1>5. TypeOK'
    BY <1>1, <1>4 DEF Replay, Goto, Send, cacheVars, memoryVars, TypeOK
  <1>6. Local(t)'
    BY <1>1, <1>l, <1>4 DEF Replay, Goto, Send, cacheVars, memoryVars, Local, Silent, Answered, Last, TypeOK
  <1>7. Apart(t)
    BY <1>1, <1>4 DEF Replay, Goto, Send, cacheVars, memoryVars, Apart, TypeOK
  <1>8. QED
    BY <1>1, <1>l, <1>5, <1>6, <1>7, TurnStep DEF Replay, cacheVars, memoryVars

LEMMA ProbeStep == ASSUME IInv, NEW t \in Turn, Probe(t) PROVE IInv'
  <1>1. TypeOK /\ Local(t) /\ Shared /\ log[t] \in Seq(Event)
    BY DEF IInv, TypeOK
  <1>2. TypeOK'
    BY <1>1, EmptyGrows DEF Probe, Goto, Send, turnVars, cacheVars, memoryVars, Local, Silent, TypeOK, Event
  <1>3. Local(t)'
    BY <1>1, EmptyGrows DEF Probe, Goto, Send, turnVars, cacheVars, memoryVars, Local, Silent, Answered, Last, TypeOK
  <1>4. Apart(t)
    BY <1>1 DEF Probe, Goto, Send, turnVars, cacheVars, memoryVars, Apart, TypeOK
  <1>5. QED
    BY <1>1, <1>2, <1>3, <1>4, TurnStep DEF Probe, Goto, Send, turnVars, cacheVars, memoryVars, Local, Silent

LEMMA ProbeFailsStep == ASSUME IInv, NEW t \in Turn, ProbeFails(t) PROVE IInv'
  <1>1. TypeOK /\ Local(t) /\ Shared /\ log[t] \in Seq(Event)
    BY DEF IInv, TypeOK
  <1>2. TypeOK'
    <2>1. at[t] + 1 \in 1..(Providers + 1)
      BY <1>1, ChatAssumption DEF ProbeFails, TypeOK
    <2>2. at' \in [Turn -> 1..(Providers + 1)]
      BY <1>1, <2>1 DEF ProbeFails, TypeOK
    <2>3. QED
      BY <1>1, <2>2 DEF ProbeFails, TypeOK, cacheVars, memoryVars
  <1>3. Local(t)'
    BY <1>1 DEF ProbeFails, cacheVars, memoryVars, Local, Silent, Answered, Last, TypeOK
  <1>4. Apart(t)
    BY <1>1 DEF ProbeFails, cacheVars, memoryVars, Apart, TypeOK
  <1>5. QED
    BY <1>1, <1>2, <1>3, <1>4, TurnStep DEF ProbeFails, cacheVars, memoryVars

LEMMA NoProviderLeftStep == ASSUME IInv, NEW t \in Turn, NoProviderLeft(t) PROVE IInv'
  <1>1. TypeOK /\ Local(t) /\ Shared /\ log[t] \in Seq(Event)
    BY DEF IInv, TypeOK
  <1>2. TypeOK'
    BY <1>1, EmptyGrows DEF NoProviderLeft, Goto, Send, turnVars, cacheVars, memoryVars, Local, Silent, TypeOK, Event
  <1>3. Local(t)'
    BY <1>1, EmptyGrows DEF NoProviderLeft, Goto, Send, turnVars, cacheVars, memoryVars, Local, Silent, Answered, Last, TypeOK
  <1>4. Apart(t)
    BY <1>1 DEF NoProviderLeft, Goto, Send, turnVars, cacheVars, memoryVars, Apart, TypeOK
  <1>5. QED
    BY <1>1, <1>2, <1>3, <1>4, TurnStep DEF NoProviderLeft, Goto, Send, turnVars, cacheVars, memoryVars, Local, Silent

LEMMA StreamTokenStep == ASSUME IInv, NEW t \in Turn, StreamToken(t) PROVE IInv'
  <1>1. TypeOK /\ Local(t) /\ Shared /\ log[t] \in Seq(Event)
    BY DEF IInv, TypeOK
  <1>2. TypeOK'
    BY <1>1, StartedGrows DEF StreamToken, Token, Send, turnVars, cacheVars, memoryVars, Local, Silent, TypeOK, Event
  <1>3. Local(t)'
    BY <1>1, StartedGrows DEF StreamToken, Token, Send, turnVars, cacheVars, memoryVars, Local, Silent, Answered, Last, TypeOK
  <1>4. Apart(t)
    BY <1>1 DEF StreamToken, Token, Send, turnVars, cacheVars, memoryVars, Apart, TypeOK
  <1>5. QED
    BY <1>1, <1>2, <1>3, <1>4, TurnStep DEF StreamToken, Token, Send, turnVars, cacheVars, memoryVars, Local, Silent

LEMMA StreamEndsStep == ASSUME IInv, NEW t \in Turn, StreamEnds(t) PROVE IInv'
  <1>1. TypeOK /\ Local(t) /\ Shared /\ log[t] \in Seq(Event)
    BY DEF IInv, TypeOK
  <1>2. TypeOK'
    BY <1>1, StartedGrows DEF StreamEnds, Goto, Send, turnVars, cacheVars, memoryVars, Local, Silent, TypeOK, Event
  <1>3. Local(t)'
    BY <1>1, StartedGrows DEF StreamEnds, Goto, Send, turnVars, cacheVars, memoryVars, Local, Silent, Answered, Last, TypeOK
  <1>4. Apart(t)
    BY <1>1 DEF StreamEnds, Goto, Send, turnVars, cacheVars, memoryVars, Apart, TypeOK
  <1>5. QED
    BY <1>1, <1>2, <1>3, <1>4, TurnStep DEF StreamEnds, Goto, Send, turnVars, cacheVars, memoryVars, Local, Silent

LEMMA StreamBreaksStep == ASSUME IInv, NEW t \in Turn, StreamBreaks(t) PROVE IInv'
  <1>1. TypeOK /\ Local(t) /\ Shared /\ log[t] \in Seq(Event)
    BY DEF IInv, TypeOK
  <1>2. TypeOK'
    BY <1>1, StartedGrows DEF StreamBreaks, Goto, Send, turnVars, cacheVars, memoryVars, Local, Silent, TypeOK, Event
  <1>3. Local(t)'
    BY <1>1, StartedGrows DEF StreamBreaks, Goto, Send, turnVars, cacheVars, memoryVars, Local, Silent, Answered, Last, TypeOK
  <1>4. Apart(t)
    BY <1>1 DEF StreamBreaks, Goto, Send, turnVars, cacheVars, memoryVars, Apart, TypeOK
  <1>5. QED
    BY <1>1, <1>2, <1>3, <1>4, TurnStep DEF StreamBreaks, Goto, Send, turnVars, cacheVars, memoryVars, Local, Silent

LEMMA CloseStep == ASSUME IInv, NEW t \in Turn, Close(t) PROVE IInv'
  <1>1. TypeOK /\ Local(t) /\ Shared /\ log[t] \in Seq(Event)
    BY DEF IInv, TypeOK
  <1>2. TypeOK'
    BY <1>1, EndingGrows DEF Close, Goto, Send, turnVars, cacheVars, memoryVars, Local, Silent, TypeOK, Event
  <1>3. Local(t)'
    BY <1>1, EndingGrows DEF Close, Goto, Send, turnVars, cacheVars, memoryVars, Local, Silent, Answered, Last, TypeOK
  <1>4. Apart(t)
    BY <1>1 DEF Close, Goto, Send, turnVars, cacheVars, memoryVars, Apart, TypeOK
  <1>5. QED
    BY <1>1, <1>2, <1>3, <1>4, TurnStep DEF Close, Goto, Send, turnVars, cacheVars, memoryVars, Local, Silent

LEMMA CutStep == ASSUME IInv, NEW t \in Turn, Cut(t) PROVE IInv'
  <1>1. TypeOK /\ Local(t) /\ Shared /\ log[t] \in Seq(Event)
    BY DEF IInv, TypeOK
  <1>2. TypeOK'
    BY <1>1 DEF Cut, Goto, turnVars, cacheVars, memoryVars, Local, Silent, TypeOK, Event
  <1>3. Local(t)'
    BY <1>1 DEF Cut, Goto, turnVars, cacheVars, memoryVars, Local, Silent, Answered, Last, TypeOK
  <1>4. Apart(t)
    BY <1>1 DEF Cut, Goto, turnVars, cacheVars, memoryVars, Apart, TypeOK
  <1>5. QED
    BY <1>1, <1>2, <1>3, <1>4, TurnStep DEF Cut, Goto, turnVars, cacheVars, memoryVars, Local, Silent

LEMMA ChatStep == ASSUME IInv, NEW t \in Turn, Chat(t) PROVE IInv'
  <1>1. TypeOK /\ Local(t) /\ Shared /\ log[t] \in Seq(Event)
    BY DEF IInv, TypeOK
  <1>l. log[t] = <<>> /\ hit[t] = None /\ pc[t] = "chat" /\ store[t] = "idle" /\ at[t] \in Provider
    BY <1>1, ChatAssumption DEF Chat, Local, Silent, TypeOK, Provider
  <1>3. TypeOK'
    <2>1. at' \in [Turn -> 1..(Providers + 1)]
      <3>1. at[t] + 1 \in 1..(Providers + 1)
        BY <1>l, ChatAssumption DEF Provider
      <3>2. QED  BY <1>1, <3>1 DEF Chat, TypeOK
    <2>2. post' \in [Turn -> [Provider -> {"idle", "memory", "over"}]]
      BY <1>1, <1>l, LaunchTyped DEF Chat, TypeOK
    <2>3. log' \in [Turn -> Seq(Event)]
      <3>1. CASE Respond(t, "response")
        BY <1>1, <1>l, <3>1, EmptyGrows, SendTyped DEF Respond
      <3>2. CASE UNCHANGED log
        BY <1>1, <3>2 DEF TypeOK
      <3>3. QED  BY <3>1, <3>2 DEF Chat
    <2>4. store' \in [Turn -> {"idle", "redis", "qdrant", "over"}]
      BY <1>1 DEF Chat, Keep, TypeOK
    <2>5. pc' \in [Turn -> {"idle", "exact", "search", "fetch", "prepare", "chat", "probe", "replay",
                           "open", "closing", "done", "over"}]
      BY <1>1 DEF Chat, Respond, Goto, TypeOK
    <2>6. QED
      BY <1>1, <2>1, <2>2, <2>3, <2>4, <2>5 DEF Chat, TypeOK
  <1>4. Local(t)'
    <2>1. CASE Respond(t, "response")
      BY <1>1, <1>l, <2>1, EmptyGrows DEF Chat, Respond, Goto, Send, Launch, Keep, Local, Silent, Answered, TypeOK
    <2>2. CASE UNCHANGED <<pc, log, store>>
      BY <1>1, <1>l, <2>2 DEF Chat, Launch, Local, Silent, TypeOK
    <2>3. QED  BY <2>1, <2>2 DEF Chat
  <1>5. Apart(t)
    BY <1>1 DEF Chat, Respond, Goto, Send, Launch, Keep, Apart, TypeOK
  <1>6. \A p \in Provider : post[t][p] # "idle" => post'[t][p] # "idle"
    BY <1>1 DEF Chat, Launch, TypeOK
  <1>7. QED
    BY <1>1, <1>l, <1>3, <1>4, <1>5, <1>6, TurnStep DEF Chat

LEMMA ChatFailsStep == ASSUME IInv, NEW t \in Turn, ChatFails(t) PROVE IInv'
  <1>1. TypeOK /\ Local(t) /\ Shared /\ log[t] \in Seq(Event)
    BY DEF IInv, TypeOK
  <1>2. TypeOK'
    BY <1>1, EmptyGrows DEF ChatFails, Respond, Goto, Send, turnVars, cacheVars, memoryVars, Local, Silent, TypeOK, Event
  <1>3. Local(t)'
    BY <1>1, EmptyGrows DEF ChatFails, Respond, Goto, Send, turnVars, cacheVars, memoryVars, Local, Silent, Answered, Last, TypeOK
  <1>4. Apart(t)
    BY <1>1 DEF ChatFails, Respond, Goto, Send, turnVars, cacheVars, memoryVars, Apart, TypeOK
  <1>5. QED
    BY <1>1, <1>2, <1>3, <1>4, TurnStep DEF ChatFails, Respond, Goto, Send, turnVars, cacheVars, memoryVars, Local, Silent

\* The writers of t are launched when its stream is over: its turn had none.
LEMMA ResumeStep == ASSUME IInv, NEW t \in Turn, Resume(t) PROVE IInv'
  <1>1. TypeOK /\ Local(t) /\ Shared /\ log[t] \in Seq(Event)
    BY DEF IInv, TypeOK
  <1>l. /\ pc[t] = "done" /\ store[t] = "idle" /\ ask[t].stream /\ key[t] # None
        /\ Finished(log[t]) /\ log[t][Len(log[t]) - 1] = "end"
        /\ \A p \in Provider : post[t][p] = "idle"
    BY <1>1 DEF Resume, Local
  <1>p. at[t] \in Provider
    BY <1>1, ChatAssumption DEF Resume, Local, TypeOK, Provider
  <1>4. TypeOK'
    <2>1. post' \in [Turn -> [Provider -> {"idle", "memory", "over"}]]
      BY <1>1, <1>p, LaunchTyped DEF Resume, TypeOK
    <2>2. QED  BY <1>1, <2>1 DEF Resume, Keep, Goto, TypeOK
  <1>5. Local(t)'
    <2>1. Answered(t)
      BY <1>1, <1>l DEF Answered, Finished, Last
    <2>2. /\ pc'[t] = "over" /\ ask'[t] = ask[t] /\ key'[t] = key[t] /\ log'[t] = log[t]
          /\ at'[t] = at[t] /\ hit'[t] = hit[t] /\ wanted'[t] = wanted[t]
      BY <1>1 DEF Resume, Goto, TypeOK
    <2>3. \A p \in Provider : post'[t][p] # "idle" => p = at[t]
      BY <1>1, <1>l DEF Resume, Launch, TypeOK
    <2>4. Answered(t)'
      BY <2>1, <2>2 DEF Answered, Last
    <2>5. log[t] # <<"refused">>
      BY <1>1, <1>l DEF Finished
    <2>6. key[t] \in Question \X Context /\ key[t][1] = ask[t].question /\ hit[t] = None
      BY <1>1, <1>l DEF Local
    <2>7. QED
      BY <1>l, <2>2, <2>3, <2>4, <2>5, <2>6 DEF Local, Silent
  <1>6. Apart(t)
    BY <1>1 DEF Resume, Launch, Keep, Goto, Apart, TypeOK
  <1>7. QED
    BY <1>1, <1>l, <1>4, <1>5, <1>6, TurnStep DEF Resume

-----------------------------------------------------------------------------
(* The steps of the detached writers, whose turn is over, and of Redis. *)

LEMMA StoreRedisStep == ASSUME IInv, NEW t \in Turn, StoreRedis(t) PROVE IInv'
  <1>1. TypeOK /\ Local(t) /\ Shared
    BY DEF IInv
  <1>k. key[t] \in Key /\ store[t] = "redis"
    BY <1>1 DEF StoreRedis, Local, TypeOK
  <1>3. TypeOK'
    BY <1>1, <1>k DEF StoreRedis, TypeOK, turnVars, memoryVars
  <1>4. ASSUME NEW u \in Turn PROVE Local(u)'
    <2>1. Local(u) /\ (store'[u] # "idle" <=> store[u] # "idle")
      BY <1>1, <1>k DEF IInv, StoreRedis, TypeOK
    <2>2. QED
      BY <2>1 DEF StoreRedis, turnVars, memoryVars, Local, Answered, Last
  <1>5. Shared'
    <2>1. \A u \in Turn : store'[u] # "idle" <=> store[u] # "idle"
      BY <1>1, <1>k DEF StoreRedis, TypeOK
    <2>2. ASSUME NEW k \in Key, redis'[k] # None PROVE store'[redis'[k]] # "idle" /\ key'[redis'[k]] = k
      <3>1. redis'[k] \in Turn
        BY <1>3, <2>2 DEF TypeOK
      <3>2. CASE redis'[k] = redis[k]
        BY <1>1, <2>1, <2>2, <3>1, <3>2 DEF Shared, StoreRedis, turnVars
      <3>3. CASE k = key[t] /\ redis'[k] = t
        BY <1>k, <2>1, <3>3 DEF StoreRedis, turnVars
      <3>4. QED
        BY <1>1, <3>2, <3>3 DEF StoreRedis, TypeOK
    <2>3. QED
      BY <1>1, <2>1, <2>2 DEF Shared, StoreRedis, turnVars, memoryVars, TypeOK
  <1>6. QED  BY <1>3, <1>4, <1>5 DEF IInv

LEMMA StoreQdrantStep == ASSUME IInv, NEW t \in Turn, StoreQdrant(t) PROVE IInv'
  <1>1. TypeOK /\ Local(t) /\ Shared
    BY DEF IInv
  <1>k. key[t] \in Key /\ store[t] = "qdrant"
    BY <1>1 DEF StoreQdrant, Local, TypeOK
  <1>3. TypeOK'
    BY <1>1, <1>k DEF StoreQdrant, TypeOK, turnVars, memoryVars
  <1>4. \A u \in Turn : store'[u] # "idle" <=> store[u] # "idle"
    BY <1>1, <1>k DEF StoreQdrant, TypeOK
  <1>5. ASSUME NEW u \in Turn PROVE Local(u)'
    <2>1. Local(u)
      BY DEF IInv
    <2>2. QED
      BY <1>4, <2>1 DEF StoreQdrant, turnVars, memoryVars, Local, Answered, Last
  <1>6. Shared'
    BY <1>1, <1>4 DEF Shared, StoreQdrant, turnVars, memoryVars, TypeOK
  <1>7. QED  BY <1>3, <1>5, <1>6 DEF IInv

LEMMA ExpireStep == ASSUME IInv, NEW k \in Key, Expire(k) PROVE IInv'
  <1>1. TypeOK /\ Shared
    BY DEF IInv
  <1>2. TypeOK'
    BY <1>1 DEF Expire, TypeOK, turnVars, memoryVars
  <1>3. ASSUME NEW u \in Turn PROVE Local(u)'
    <2>1. Local(u)
      BY DEF IInv
    <2>2. QED
      BY <2>1 DEF Expire, turnVars, memoryVars, Local, Answered, Last
  <1>4. Shared'
    BY <1>1 DEF Shared, Expire, turnVars, memoryVars, TypeOK
  <1>5. QED  BY <1>2, <1>3, <1>4 DEF IInv

LEMMA StoreMemoryStep == ASSUME IInv, NEW t \in Turn, NEW p \in Provider, StoreMemory(t, p) PROVE IInv'
  <1>1. TypeOK /\ Shared
    BY DEF IInv
  <1>2. TypeOK'
    <2>1. post' \in [Turn -> [Provider -> {"idle", "memory", "over"}]]
      <3>1. [post[t] EXCEPT ![p] = "over"] \in [Provider -> {"idle", "memory", "over"}]
        BY <1>1 DEF TypeOK
      <3>2. QED  BY <1>1, <3>1 DEF StoreMemory, TypeOK
    <2>2. memories' \subseteq Update
      BY <1>1 DEF StoreMemory, TypeOK, Update
    <2>3. QED
      BY <1>1, <2>1, <2>2 DEF StoreMemory, TypeOK, turnVars, cacheVars
  <1>3. \A u \in Turn, q \in Provider : post'[u][q] # "idle" <=> post[u][q] # "idle"
    <2>1. ASSUME NEW u \in Turn, NEW q \in Provider PROVE post'[u][q] # "idle" <=> post[u][q] # "idle"
      <3>1. CASE u = t
        BY <1>1, <3>1 DEF StoreMemory, TypeOK
      <3>2. CASE u # t
        BY <1>1, <3>2 DEF StoreMemory, TypeOK
      <3>3. QED  BY <3>1, <3>2
    <2>2. QED  BY <2>1
  <1>4. ASSUME NEW u \in Turn PROVE Local(u)'
    <2>1. Local(u)
      BY DEF IInv
    <2>2. QED
      BY <1>3, <2>1 DEF StoreMemory, turnVars, cacheVars, Local, Answered, Last
  <1>5. Shared'
    <2>1. ASSUME NEW m \in memories' PROVE post'[m[1]][m[2]] # "idle"
      <3>1. m[1] \in Turn /\ m[2] \in Provider
        BY <1>2 DEF TypeOK, Update
      <3>2. post[m[1]][m[2]] # "idle"
        BY <1>1 DEF StoreMemory, Shared
      <3>3. QED  BY <1>3, <3>1, <3>2
    <2>2. QED
      BY <1>1, <2>1 DEF Shared, StoreMemory, turnVars, cacheVars
  <1>6. QED  BY <1>2, <1>4, <1>5 DEF IInv

-----------------------------------------------------------------------------

LEMMA NextIInv == IInv /\ [Next]_vars => IInv'
  <1> SUFFICES ASSUME IInv, [Next]_vars PROVE IInv'
    OBVIOUS
  <1>1. CASE UNCHANGED vars
    BY <1>1 DEF vars, turnVars, cacheVars, memoryVars, IInv, TypeOK, Local, Shared, Answered, Last
  <1>2. ASSUME NEW t \in Turn, Start(t) \/ Cut(t) PROVE IInv'
    BY <1>2, StartStep, CutStep
  <1>3. ASSUME NEW t \in Turn, Advance(t) PROVE IInv'
    BY <1>3, GetExactStep, SearchStep, FetchStep, PrepareStep, ReplayStep, ProbeStep, ProbeFailsStep,
       NoProviderLeftStep, StreamTokenStep, StreamEndsStep, StreamBreaksStep, CloseStep, ResumeStep,
       ChatStep, ChatFailsStep DEF Advance
  <1>4. ASSUME NEW t \in Turn, Write(t) PROVE IInv'
    BY <1>4, StoreRedisStep, StoreQdrantStep, StoreMemoryStep DEF Write
  <1>5. ASSUME NEW k \in Key, Expire(k) PROVE IInv'
    BY <1>5, ExpireStep
  <1>6. QED  BY <1>1, <1>2, <1>3, <1>4, <1>5 DEF Next

\* The inductive invariant holds in every state.
THEOREM ChatInvariant == Spec => []IInv
  BY InitIInv, NextIInv, PTL DEF Spec

\* Every variable keeps its type.
THEOREM ChatTypeCorrect == Spec => []TypeOK
  <1>1. IInv => TypeOK
    BY DEF IInv
  <1>2. QED  BY <1>1, ChatInvariant, PTL

\* Whatever fails, and whenever, a client of a stream sees START, tokens, END or
\* ERROR and [DONE], in this order, or a beginning of it (_stream_events).
THEOREM ChatStreamWellFormed == Spec => []StreamWellFormed
  <1>1. ASSUME IInv PROVE StreamWellFormed
    <2>1. ASSUME NEW t \in Turn
          PROVE  IF ask[t].stream /\ log[t] # <<"refused">>
                 THEN WellFormed(log[t])
                 ELSE Len(log[t]) <= 1 /\ "start" \notin {log[t][i] : i \in DOMAIN log[t]}
      <3>1. Local(t) /\ log[t] \in Seq(Event)
            /\ pc[t] \in {"idle", "exact", "search", "fetch", "prepare", "chat", "probe", "replay",
                         "open", "closing", "done", "over"}
        BY <1>1 DEF IInv, TypeOK
      <3>2. \/ log[t] = <<>> \/ Started(log[t]) \/ Ending(log[t]) \/ Finished(log[t])
            \/ log[t] \in {<<"response">>, <<"refused">>}
        BY <3>1 DEF Local, Silent
      <3>3. CASE ask[t].stream /\ log[t] # <<"refused">>
        <4>1. log[t] = <<>> \/ Started(log[t]) \/ Ending(log[t]) \/ Finished(log[t])
          BY <3>1, <3>3 DEF Local, Silent
        <4>2. QED  BY <3>1, <3>3, <4>1, LogsWellFormed
      <3>4. CASE ~(ask[t].stream /\ log[t] # <<"refused">>)
        <4>1. log[t] \in {<<>>, <<"response">>, <<"refused">>}
          BY <3>1, <3>4 DEF Local, Silent
        <4>2. CASE log[t] = <<>>
          BY <3>4, <4>2
        <4>3. CASE log[t] = <<"response">>
          BY <3>4, <4>3
        <4>4. CASE log[t] = <<"refused">>
          BY <3>4, <4>4
        <4>5. QED  BY <4>1, <4>2, <4>3, <4>4
      <3>5. QED  BY <3>3, <3>4
    <2>2. QED  BY <2>1 DEF StreamWellFormed
  <1>2. QED  BY <1>1, ChatInvariant, PTL

\* A repeated answer was given to a similar question, and its own client got the
\* whole of it, whatever was stored or expired between search and fetch.
THEOREM ChatHitsAreWholeAnswers == Spec => []HitsAreWholeAnswers
  <1>1. ASSUME IInv PROVE HitsAreWholeAnswers
    <2>1. ASSUME NEW t \in Turn, hit[t] # None
          PROVE  /\ hit[t] # t /\ hit[hit[t]] = None /\ key[hit[t]] # None
                 /\ Answered(hit[t])
                 /\ <<ask[t].question, ask[hit[t]].question>> \in Similar
      <3>1. hit[t] \in Turn
        BY <1>1, <2>1 DEF IInv, TypeOK
      <3>2. hit[t] # t /\ store[hit[t]] # "idle" /\ <<ask[t].question, ask[hit[t]].question>> \in Similar
        BY <1>1, <2>1 DEF IInv, Shared
      <3>3. Local(hit[t])
        BY <1>1, <3>1 DEF IInv
      <3>4. QED  BY <3>2, <3>3 DEF Local
    <2>2. QED  BY <2>1 DEF HitsAreWholeAnswers
  <1>2. QED  BY <1>1, ChatInvariant, PTL

\* A streamed turn is remembered by the provider that served it, and only if its
\* client got it whole (_post_turn_update).
THEOREM ChatRemembersWhatWasSaid == Spec => []RemembersWhatWasSaid
  <1>1. ASSUME IInv PROVE RemembersWhatWasSaid
    <2>1. ASSUME NEW m \in memories, ask[m[1]].stream PROVE m[2] = at[m[1]] /\ Answered(m[1])
      <3>1. m[1] \in Turn /\ m[2] \in Provider /\ post[m[1]][m[2]] # "idle"
        BY <1>1 DEF IInv, Shared, TypeOK, Update
      <3>2. Local(m[1])
        BY <1>1, <3>1 DEF IInv
      <3>3. QED  BY <2>1, <3>1, <3>2 DEF Local
    <2>2. QED  BY <2>1 DEF RemembersWhatWasSaid
  <1>2. QED  BY <1>1, ChatInvariant, PTL

=============================================================================
