------------------------------- MODULE ChatTurn -------------------------------
(***************************************************************************)
(* The main path of the program: POST /chat/completions (routers/chat.py)  *)
(* with the semantic cache (cache/semantic_cache.py) before it and, after  *)
(* the answer, two detached writers: the cache's _store() and the memory   *)
(* (services/memory_service.py).  Several turns at once.  What follows the *)
(* memory, the update of the user's profile, is in UserProfile.            *)
(*                                                                         *)
(* An action is what happens between two awaits.  Answers are not texts:   *)
(* an answer is the turn it was given in.  What enrichment adds to a       *)
(* conversation, and the model that answers, is a Context; the key of a    *)
(* cached answer is a question with its context, while a lookup hashes the *)
(* messages as the client sent them, which is the context "raw".           *)
(***************************************************************************)
EXTENDS Naturals, Sequences, FiniteSets

CONSTANTS Turn,       \* requests to /chat/completions
          Question,   \* last user messages
          Similar,    \* the pairs of questions whose vectors pass the threshold
          Context,    \* what enrichment adds, with the model that answers
          None,
          Providers,  \* length of the list of providers, in priority order
          MaxTokens   \* bound: chunks with text in one stream

ASSUME ChatAssumption ==
    /\ IsFiniteSet(Turn) /\ IsFiniteSet(Question) /\ Context # {} /\ "raw" \notin Context
    /\ None \notin Turn \cup (Question \X Context)
    /\ Similar \subseteq Question \X Question /\ \A q \in Question : <<q, q>> \in Similar
    /\ Question # {} /\ Providers \in Nat /\ MaxTokens \in Nat

VARIABLES
    \* a turn
    pc,        \* pc[t]: the await it is at
    ask,       \* ask[t]: the last user message, whether the client streams
    key,       \* key[t]: the key under which its answer would be cached
    wanted,    \* wanted[t]: the key that the search by meaning returned
    at,        \* at[t]: the provider that is asked
    log,       \* log[t]: what the client has been sent
    hit,       \* hit[t]: the turn whose cached answer is repeated, or None
    \* what they share
    redis,     \* redis[k]: the turn whose answer is stored under k, or None
    points,    \* keys that have a vector in Qdrant
    memories,  \* stored chunks of memory, each <<turn, provider>>
    \* the detached writers
    store,     \* store[t]: where _store() is
    post       \* post[t][p]: where _post_turn_update() of p's answer is

turnVars == <<pc, ask, key, wanted, at, log, hit>>
cacheVars == <<redis, points, store>>
memoryVars == <<memories, post>>
vars == <<turnVars, cacheVars, memoryVars>>

Provider == 1..Providers
Key == Question \X (Context \cup {"raw"})
Update == Turn \X Provider \* _post_turn_update() of the answer of a provider
Event == {"start", "token", "end", "error", "done", "response", "refused"}
Last(s) == s[Len(s)]

TypeOK ==
    /\ pc \in [Turn -> {"idle", "exact", "search", "fetch", "prepare", "chat", "probe", "replay",
                        "open", "closing", "done", "over"}]
    /\ ask \in [Turn -> [question : Question, stream : BOOLEAN]]
    /\ key \in [Turn -> Key \cup {None}] /\ wanted \in [Turn -> Key \cup {None}]
    /\ at \in [Turn -> 1..(Providers + 1)]
    /\ log \in [Turn -> Seq(Event)]
    /\ hit \in [Turn -> Turn \cup {None}]
    /\ redis \in [Key -> Turn \cup {None}] /\ points \subseteq Key
    /\ memories \subseteq Update
    /\ store \in [Turn -> {"idle", "redis", "qdrant", "over"}]
    /\ post \in [Turn -> [Provider -> {"idle", "memory", "over"}]]

Init ==
    /\ pc = [t \in Turn |-> "idle"]
    /\ ask = [t \in Turn |-> [question |-> CHOOSE q \in Question : TRUE, stream |-> TRUE]]
    /\ key = [t \in Turn |-> None] /\ wanted = [t \in Turn |-> None]
    /\ at = [t \in Turn |-> 1]
    /\ log = [t \in Turn |-> <<>>]
    /\ hit = [t \in Turn |-> None]
    /\ redis = [k \in Key |-> None] /\ points = {}
    /\ memories = {}
    /\ store = [t \in Turn |-> "idle"]
    /\ post = [t \in Turn |-> [p \in Provider |-> "idle"]]

Goto(t, l) == pc' = [pc EXCEPT ![t] = l]
Send(t, e) == log' = [log EXCEPT ![t] = Append(@, e)]
\* A reply that is one JSON body.
Respond(t, e) == Goto(t, "over") /\ Send(t, e)

-----------------------------------------------------------------------------
(* Before the answer. *)

\* 503 without a provider.  The cache is asked only if the client names no
\* model and the model of the mode is configured or still remembered.
Start(t) ==
    /\ pc[t] = "idle"
    /\ \E q \in Question, s \in BOOLEAN : ask' = [ask EXCEPT ![t] = [question |-> q, stream |-> s]]
    /\ \/ Respond(t, "refused")
       \/ /\ \E l \in {"exact", "prepare"} : Goto(t, l)
          /\ UNCHANGED log
    /\ UNCHANGED <<key, wanted, at, hit, cacheVars, memoryVars>>

\* A hit is streamed like an answer, or is the response.
Repeat(t, o) ==
    /\ hit' = [hit EXCEPT ![t] = o]
    /\ IF ask[t].stream THEN Goto(t, "replay") /\ UNCHANGED log ELSE Respond(t, "response")

RawKey(t) == <<ask[t].question, "raw">>

\* Layer 1: the messages as they came.  Redis may fail, or not answer in 0.1 s.
\* No stored key is raw, as inject_system_prompt() always adds the identity.
GetExact(t) ==
    /\ pc[t] = "exact"
    /\ \/ /\ redis[RawKey(t)] # None
          /\ Repeat(t, redis[RawKey(t)])
       \/ Goto(t, "search") /\ UNCHANGED <<log, hit>>
    /\ UNCHANGED <<ask, key, wanted, at, cacheVars, memoryVars>>

\* Mutant of Near: the search has no threshold.
NearAny(q) == points

\* Points that pass the threshold; the search returns a nearest one only.
Near(q) == {k \in points : <<q, k[1]>> \in Similar}
Nearest(q) == IF \E k \in Near(q) : k[1] = q THEN {k \in Near(q) : k[1] = q} ELSE Near(q)

\* Layer 2: the vector of the last user message, without model or context.
Search(t) ==
    /\ pc[t] = "search"
    /\ \/ \E k \in Nearest(ask[t].question) :
            /\ wanted' = [wanted EXCEPT ![t] = k]
            /\ Goto(t, "fetch")
       \/ Goto(t, "prepare") /\ UNCHANGED wanted
    /\ UNCHANGED <<ask, key, at, log, hit, cacheVars, memoryVars>>

\* Redis holds the response under the key the point names, unless it expired.
Fetch(t) ==
    /\ pc[t] = "fetch"
    /\ \/ redis[wanted[t]] # None /\ Repeat(t, redis[wanted[t]])
       \/ Goto(t, "prepare") /\ UNCHANGED <<log, hit>>
    /\ wanted' = [wanted EXCEPT ![t] = None]
    /\ UNCHANGED <<ask, key, at, cacheVars, memoryVars>>

\* Enrichment and the model, then the skills: one that is triggered answers
\* instead of an LLM.  400 if there is no model.
Prepare(t) ==
    /\ pc[t] = "prepare"
    /\ \/ Respond(t, "refused") /\ UNCHANGED key
       \/ /\ IF ask[t].stream THEN Goto(t, "replay") /\ UNCHANGED log ELSE Respond(t, "response")
          /\ UNCHANGED key
       \/ /\ \E c \in Context : key' = [key EXCEPT ![t] = <<ask[t].question, c>>]
          /\ Goto(t, IF ask[t].stream THEN "probe" ELSE "chat")
          /\ UNCHANGED log
    /\ UNCHANGED <<ask, wanted, at, hit, cacheVars, memoryVars>>

-----------------------------------------------------------------------------
(* The answer as a stream. *)

\* A chunk without text is read on without a step.
Token(t) == Len(SelectSeq(log[t], LAMBDA e : e = "token")) < MaxTokens /\ Send(t, "token")

\* _stream_cached(): a hit or a skill's output, cut into tokens.
Replay(t) ==
    /\ pc[t] = "replay"
    /\ \/ log[t] = <<>> /\ Send(t, "start") /\ UNCHANGED pc
       \/ log[t] # <<>> /\ Token(t) /\ UNCHANGED pc
       \/ log[t] # <<>> /\ Send(t, "end") /\ Goto(t, "closing")
    /\ UNCHANGED <<ask, key, wanted, at, hit, cacheVars, memoryVars>>

\* The first chunk, or the end of an empty stream, within 10 s.
Probe(t) ==
    /\ pc[t] = "probe" /\ at[t] <= Providers
    /\ Send(t, "start")
    /\ Goto(t, "open")
    /\ UNCHANGED <<ask, key, wanted, at, hit, cacheVars, memoryVars>>

\* Mutant of ProbeFails: the list of providers is gone round until one answers.
ProbeFailsRound(t) ==
    /\ pc[t] = "probe"
    /\ at' = [at EXCEPT ![t] = (@ % Providers) + 1]
    /\ UNCHANGED <<pc, ask, key, wanted, log, hit, cacheVars, memoryVars>>

ProbeFails(t) ==
    /\ pc[t] = "probe" /\ at[t] <= Providers
    /\ at' = [at EXCEPT ![t] = @ + 1]
    /\ UNCHANGED <<pc, ask, key, wanted, log, hit, cacheVars, memoryVars>>

NoProviderLeft(t) ==
    /\ pc[t] = "probe" /\ at[t] > Providers
    /\ Send(t, "error")
    /\ Goto(t, "closing")
    /\ UNCHANGED <<ask, key, wanted, at, hit, cacheVars, memoryVars>>

StreamToken(t) ==
    /\ pc[t] = "open"
    /\ Token(t)
    /\ UNCHANGED <<pc, ask, key, wanted, at, hit, cacheVars, memoryVars>>

StreamEnds(t) ==
    /\ pc[t] = "open"
    /\ Send(t, "end")
    /\ Goto(t, "closing")
    /\ UNCHANGED <<ask, key, wanted, at, hit, cacheVars, memoryVars>>

\* Mutant of StreamBreaks: the next provider is tried after the first chunk too.
StreamBreaksOver(t) ==
    /\ pc[t] = "open"
    /\ at' = [at EXCEPT ![t] = @ + 1]
    /\ Goto(t, "probe")
    /\ UNCHANGED <<ask, key, wanted, log, hit, cacheVars, memoryVars>>

\* After the first chunk no other provider is tried.
StreamBreaks(t) ==
    /\ pc[t] = "open"
    /\ Send(t, "error")
    /\ Goto(t, "closing")
    /\ UNCHANGED <<ask, key, wanted, at, hit, cacheVars, memoryVars>>

\* Mutant of Close: the return after an error is forgotten.
CloseAny(t) ==
    /\ pc[t] = "closing"
    /\ Send(t, "done")
    /\ Goto(t, IF key[t] # None THEN "done" ELSE "over")
    /\ UNCHANGED <<ask, key, wanted, at, hit, cacheVars, memoryVars>>

\* data: [DONE].  Only a provider's stream that ended has code after it.
Close(t) ==
    /\ pc[t] = "closing"
    /\ Send(t, "done")
    /\ Goto(t, IF key[t] # None /\ Last(log[t]) = "end" THEN "done" ELSE "over")
    /\ UNCHANGED <<ask, key, wanted, at, hit, cacheVars, memoryVars>>

Launch(t, p) == post' = [post EXCEPT ![t][p] = "memory"]
Keep(t) == store' = [store EXCEPT ![t] = "redis"]

\* The generator is resumed once more after [DONE]: an answer with text is kept.
Resume(t) ==
    /\ pc[t] = "done"
    /\ IF "token" \in {log[t][i] : i \in DOMAIN log[t]}
       THEN Launch(t, at[t]) /\ Keep(t)
       ELSE UNCHANGED <<post, store>>
    /\ Goto(t, "over")
    /\ UNCHANGED <<ask, key, wanted, at, log, hit, redis, points, memories>>

\* The client, or the gateway that stops reading at [DONE], is gone.
Cut(t) ==
    /\ pc[t] \in {"replay", "probe", "open", "closing", "done"}
    /\ Goto(t, "over")
    /\ UNCHANGED <<ask, key, wanted, at, log, hit, cacheVars, memoryVars>>

-----------------------------------------------------------------------------
(* The answer as a response: the providers one after the other. *)

Chat(t) ==
    /\ pc[t] = "chat" /\ at[t] <= Providers
    /\ \/ /\ Respond(t, "response")                \* with text
          /\ Launch(t, at[t]) /\ Keep(t)
          /\ UNCHANGED at
       \/ /\ Respond(t, "response")                \* with empty text: not cached
          /\ Launch(t, at[t]) /\ UNCHANGED <<store, at>>
       \/ /\ at' = [at EXCEPT ![t] = @ + 1]        \* an empty list of choices raises
          /\ Launch(t, at[t])                      \* after the update was launched
          /\ UNCHANGED <<pc, log, store>>
       \/ /\ at' = [at EXCEPT ![t] = @ + 1]        \* the call fails
          /\ UNCHANGED <<pc, log, store, post>>
    /\ UNCHANGED <<ask, key, wanted, hit, redis, points, memories>>

\* 502 completion_error
ChatFails(t) ==
    /\ pc[t] = "chat" /\ at[t] > Providers
    /\ Respond(t, "refused")
    /\ UNCHANGED <<ask, key, wanted, at, hit, cacheVars, memoryVars>>

-----------------------------------------------------------------------------
(* SemanticCache.set(): its task goes on even if Redis refused the answer. *)

StoreRedis(t) ==
    /\ store[t] = "redis"
    /\ \/ redis' = [redis EXCEPT ![key[t]] = t]
       \/ UNCHANGED redis
    /\ store' = [store EXCEPT ![t] = "qdrant"]
    /\ UNCHANGED <<turnVars, points, memoryVars>>

StoreQdrant(t) ==
    /\ store[t] = "qdrant"
    /\ \/ points' = points \cup {key[t]}
       \/ UNCHANGED points
    /\ store' = [store EXCEPT ![t] = "over"]
    /\ UNCHANGED <<turnVars, redis, memoryVars>>

\* The TTL is Redis's: the point stays.
Expire(k) ==
    /\ redis[k] # None
    /\ redis' = [redis EXCEPT ![k] = None]
    /\ UNCHANGED <<turnVars, points, store, memoryVars>>

-----------------------------------------------------------------------------
(* _post_turn_update() *)

\* A chunk that cannot be stored ends the update, before the profile is read.
StoreMemory(t, p) ==
    /\ post[t][p] = "memory"
    /\ \/ memories' = memories \cup {<<t, p>>}
       \/ UNCHANGED memories
    /\ post' = [post EXCEPT ![t][p] = "over"]
    /\ UNCHANGED <<turnVars, cacheVars>>

-----------------------------------------------------------------------------

\* What the handler does by itself, its providers and stores answering.
Advance(t) ==
    \/ GetExact(t) \/ Search(t) \/ Fetch(t) \/ Prepare(t)
    \/ Replay(t) \/ Probe(t) \/ ProbeFails(t) \/ NoProviderLeft(t)
    \/ StreamToken(t) \/ StreamEnds(t) \/ StreamBreaks(t) \/ Close(t) \/ Resume(t)
    \/ Chat(t) \/ ChatFails(t)

Write(t) ==
    \/ StoreRedis(t) \/ StoreQdrant(t)
    \/ \E p \in Provider : StoreMemory(t, p)

Next ==
    \/ \E t \in Turn : Start(t) \/ Advance(t) \/ Cut(t) \/ Write(t)
    \/ \E k \in Key : Expire(k)

Spec == Init /\ [][Next]_vars

\* The awaits of a turn have time limits: cache 0.1 and 0.3 s, enrichment
\* 1.5 s, first token 10 s, and the HTTP clients' own while a stream is read;
\* embeddings and the database have none and are assumed to answer.
FairSpec == Spec /\ \A t \in Turn : WF_vars(Advance(t)) /\ WF_vars(Write(t))

-----------------------------------------------------------------------------
(* Properties *)

\* Is a stream, as far as it got, START TOKEN* END DONE or with ERROR in the
\* place of END, or ERROR DONE alone?
WellFormed(s) ==
    \A i \in DOMAIN s :
        /\ s[i] = "start" <=> i = 1 /\ s[1] # "error"
        /\ s[i] \in {"end", "error"} => i + 1 >= Len(s)
        /\ s[i] = "done" <=> i > 1 /\ s[i - 1] \in {"end", "error"}

\* Whatever provider fails, and whenever, the client of a stream sees one
\* START, then the tokens of one answer, then one END or ERROR and [DONE]; a
\* client that does not stream gets one response.  (_stream_events)
StreamWellFormed ==
    \A t \in Turn :
        IF ask[t].stream /\ log[t] # <<"refused">>
        THEN WellFormed(log[t]) ELSE Len(log[t]) <= 1 /\ "start" \notin {log[t][i] : i \in DOMAIN log[t]}

\* The client of t got the whole of a provider's answer with text.
Answered(t) == log[t] = <<"response">> \/ (Last(log[t]) = "done" /\ log[t][Len(log[t]) - 1] = "end")

\* A cached answer that is repeated, whatever was stored, replaced or expired
\* between the search and the fetch, is an answer of a provider to a question
\* similar to the one asked, which its own client got whole: never one that
\* broke off, was cut, or was itself repeated.  (SemanticCache.get)
HitsAreWholeAnswers ==
    \A t \in Turn : hit[t] # None =>
        /\ hit[t] # t /\ hit[hit[t]] = None /\ key[hit[t]] # None
        /\ Answered(hit[t])
        /\ <<ask[t].question, ask[hit[t]].question>> \in Similar

\* A streamed turn is remembered once, by the provider that served it, and only
\* if its client got it whole.  (_post_turn_update)
RemembersWhatWasSaid ==
    \A m \in memories : ask[m[1]].stream => m[2] = at[m[1]] /\ Answered(m[1])

\* A turn that is started ends, whatever fails, and what it launched ends too.
TurnEnds ==
    \A t \in Turn : pc[t] # "idle" ~>
        pc[t] = "over" /\ store[t] \in {"idle", "over"}
                       /\ \A p \in Provider : post[t][p] \in {"idle", "over"}

=============================================================================
