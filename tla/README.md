# A TLA+ model of Jarvis (F.R.I.D.A.Y)

TLA+ modules for the parts of this repository whose correctness depends on the
order in which things happen: the approval gate, the event broker, the
scheduler, the workflow engine, the agent bus and the multi-agent runs on it,
the coding pipeline, the autonomous pipeline, the application's workflows, the
user profile, agent swarms, the chat turn, and the gateway's relay, breaker and
limiter.  TLC checks them on small instances, and TLAPS proves every safety
property that the passing runs check for all values of their constants.  `PROJECT.json`
is the index: components, runs, mutants, the source lines of every definition
(`map`), findings, hazards, theorems.

Contents: 1 the system, 2 the modules, 3 the runs, 4 the proofs,
5 disagreements with the sources, 6 what is not modelled, 7 the plan,
8 how to run it.

Paths: `APP` is `src/backend/python-ai-service/app`, `RS` is
`src/backend/rust-broker/src`, `GO` is `src/backend/go-gateway/internal`, `PKG`
is `src/packages`.

## 1. The system

Clients (a React/Tauri front end, Telegram and Discord bots, a CLI) talk HTTP
and WebSocket to a Go gateway.  The gateway authenticates, limits rates and
forwards requests to a Python AI service through a circuit breaker; its event
handler relays the SSE streams of a Rust broker to WebSocket clients.  The AI
service is one asyncio process that holds nearly all of the program's logic and
keeps its durable state in SQLite, Redis and Qdrant.  The Rust broker fans out
events received by HTTP or from Redis to SSE subscribers.

### Inventory

Each component with the state it keeps, its operations, and what makes it correct.

| component | state | operations | hard because | correct when |
|---|---|---|---|---|
| Approval gate (`APP/approval/gate.py`) | `_pending`, `_history`, per request an `asyncio.Event`, status, risk | `request`, `respond`, eviction at the limit, timeout, cancellation of the caller | a timer, an answer, an eviction and a cancellation race for one caller that is suspended in `wait_for` | high and critical risks are granted only on a yes; nobody waits for an answer that can no longer arrive; a decision is final |
| Event broker (`RS/broker.rs`, `handlers.rs`) | map of topic to broadcast channel under a `RwLock`, last-used times | `publish`, `subscribe`, cap eviction, TTL sweep | a sender is cloned under the lock and used after it | no eviction separates a subscriber from its topic; idle channels go away |
| Scheduler (`APP/scheduler/worker.py`) | rows in SQLite, APScheduler jobs and `_loaded` in memory | create, remove, pause, resume, firing, restart | two stores written in two steps with an await between; one of them does not survive | jobs and rows agree; removed and paused tasks are silent; enabled ones run |
| Workflow engine (`PKG/workflow-engine`) | step statuses, result counters, branch choices | execute, retry, cancel, conditional and parallel steps | rounds over a graph that branches and groups also walk; failure while other steps run | dependencies respected, each step once, the result truthful, the run ends |
| Agent bus, nodes, factory (`APP/multi_agent`) | subscriptions, history ring, bounded inboxes and stream queues | `publish`, acknowledgements, replies, spawn, unregister, SSE streams | handlers publish inside `publish`; bounded queues with nobody reading | streams show what was published, in order; calls return |
| Multi-agent orchestrator, blackboard (`APP/multi_agent/multi_orchestrator.py`, `blackboard.py`) | nodes of a session, versioned slots | three execution patterns, retries by the hub, cleanup | partial failure of parallel agents | no result lost, nothing left registered afterwards |
| Swarm manager (`PKG/swarm-manager`, `APP/services/swarm_manager_service.py`) | swarms, agents' states, metrics, role map | create, spawn, assign, complete, scale, merge, terminate | long legal call sequences; counters kept beside the states they count | counts agree with states; size within limits |
| Coding pipeline (`APP/agents/orchestrator.py`) | plan, file contents, edits | batches of steps, retries, cancellation, verification | steps in parallel that feed later ones | edits of a failed attempt do not survive, those of a good one do |
| Chat turn (`APP/routers/chat.py`, with `APP/cache`, `APP/services/memory_service.py`) | conversation of one request, cached answers in Redis and their vectors in Qdrant, memories | look up, enrich, ask a provider or fall back, stream, detached stores | a stream may break, be cut or be abandoned at any token, and the writers after it run by themselves | a stream is well formed; only whole answers are cached and remembered; the turn ends |
| Circuit breaker, rate limiter (`GO/proxy`, `GO/http/middleware`) | breaker state, a limiter per session | `Do`, allow, clean-up | many goroutines, time | the service's failures and only those open the breaker |
| Event relay, chat stream (`GO/http/handlers`) | per connection a queue and three goroutines | relay, ping, drop of slow clients | goroutines that end one another | all goroutines end; nothing is dropped silently |
| Application workflows (`APP/workflows`) | workflows that can be edited, run statuses | update, execute, conditions | an edit while a run is suspended | a run follows one version |
| Macro brain, autonomous pipeline (`APP/brain/macro_brain.py`, `APP/services/autonomous_pipeline.py`) | plan steps, run table | passes over a plan, validation, retry | partial failure | the final status says what happened |
| Providers and discovery, health (`APP/providers`) | registry, health counters | route, fall back | I/O failure | the first healthy provider answers |
| User profile (`APP/services/profile_service.py`) | one row per user | detached update after a turn, GET, PATCH, DELETE | read, an LLM call, write back whole, each in a session of its own | an entry is lost only to a reset, to a later one of its key, or to a call that overlaps |
| Session replay, device agent, wake word, skills | small stores in front of a database, a browser, a thread | see section 6 | read, await, write | no update lost |
| Memory fabric, API registry, GPU services | in-memory indices, scores, a cache budget | add, prune, select | eviction at the limit | limits hold |
| Reasoning, code indexing, prompts, images, Obsidian, evolution services | none that several actors share | prompts and files | not concurrent | |

The components call each other as follows.  The approval gate is offered to agents as
a Python object, and its REST router carries the answers and the listings; no module
of this commit calls `request()`, so the model takes any caller.  The
scheduler's actions call chat, skills or an HTTP address.  `workflow_service`
wraps the workflow engine.  The multi-agent orchestrator spawns nodes through
the factory, and they speak through the bus; the UI watches the bus by SSE.  The
gateway's event handler is a client of the broker's streams.  All Python
components share one event loop: code between two awaits is atomic, and every
await is a place where any other coroutine may run.  The broker runs on tokio's
multi-threaded runtime: code under a lock is atomic, nothing else is.

## 2. The modules

| module | models | abstract specification | proofs |
|---|---|---|---|
| `ApprovalGate` | approval gate | `ApprovalPromise` | `ApprovalGateProofs` |
| `EventBroker` | event broker | in its own properties | `EventBrokerProofs` |
| `SchedulerWorker` | scheduler | in its own properties | `SchedulerWorkerProofs` |
| `WorkflowExecutor` | workflow engine package | `DagPromise` | `PackagesProofs` |
| `SwarmManager` | swarm manager and its service | in its own properties | `PackagesProofs` |
| `AgentBus` | agent bus, nodes and factory | in its own properties | `AgentsProofs` |
| `MultiAgentOrchestrator` | multi-agent runs, blackboard | in its own properties | `AgentsProofs` |
| `CodingPipeline` | coding pipeline | in its own properties | `BuildersProofs` |
| `AutonomousPipeline` | autonomous pipeline with the plans of the macro brain | in its own properties | `BuildersProofs` |
| `AppWorkflow` | the application's workflow engine | in its own properties | `BuildersProofs` |
| `UserProfile` | user profile | in its own properties | `BuildersProofs` |
| `ChatTurn` | chat turn with semantic cache and memory | in its own properties | `ChatTurnProofs` |
| `EventRelay` | the gateway's event relay | in its own properties | `GatewayProofs` |
| `CircuitBreaker`, `RateLimiter` | the gateway's breaker, its limiter | in their own properties | `GatewayProofs` (limiter) |

`Packages` (workflow engine, swarms), `Agents` (bus, multi-agent runs),
`Builders` (coding pipeline, autonomous pipeline, application workflows, profile)
and `Gateway` (relay, breaker, limiter) each hold several parts: a behaviour
chooses its part at the start (`part`) and stays with it, and the variables of the
others keep their initial values.  The parts of one such module share no state in
the program either, so nothing is lost by not interleaving them, and their state
spaces add up instead of multiplying.  One part is extended, the others are
instances, because they use the same names for different things; the proofs of
the parts are in the proof module of their composition.  `MCPackages`, `MCAgents`
and `MCBuilders` add the instances that are checked; `MCWorkflowExecutor` has the
workflows, `MCChatTurn` the questions.

Definitions keep the names of the source where they can.  A definition whose
comment begins with "Mutant of" is not part of the model: it is a plausible
mistake in the code, used to show that a property notices it.

**ApprovalGate.**  An action is a stretch of code between two awaits.
`request()` is cut at its await into `RequestLow`, `RequestWithRoom` and
`RequestEvicting` before it, `ResumeAnswered` and `ResumeTimedOut` after it;
`respond()` is `Respond`, a cancelled caller is `CancelCaller`.
`asyncio.wait_for` takes two steps when it times out (`TimerFires`, the timer
callback that releases the coroutine, then `ResumeTimedOut`, the coroutine
resumed by a later turn of the loop), and anything may run between them.
`pending` is the dictionary, with `born` for its insertion order (its first key
is what the eviction takes); `event[r]` is the request's `asyncio.Event`;
`caller[r]` is where the caller of `request()` is.  `answers` and `logged`
record what `respond()` acknowledged and how often the request was appended to
the history.  `ApprovalPromise` knows none of this: a request is opened and
closed once, and above medium risk only a yes closes it with a grant.

**EventBroker.**  An action is one acquisition of the lock, or one use of the
sender or receiver afterwards.  `get_or_create_channel()` is `Lookup` under the
read lock and `SlowHit`/`SlowCreate` under the write lock (with the eviction at
the cap); `publish()` is `StartPublish`, that lookup, then `Send`; `subscribe()`
is `StartSubscribe`, that lookup, then `Attach`; the SSE stream is `Receive` and
`StreamEnds`; `Sweep` is the background task.  tokio's `broadcast` channel is
modelled from its use: a log, and per receiver a cursor that skips what has been
overwritten (`Lagged`); a channel whose senders are all gone ends its streams.
`TtlPasses` says whether channels may become idle long enough to be swept
(`IdleTtlPasses`).  `owed[s]` is the history the properties need: the events whose
`publish()` began while `s` was attached to their topic.  A publisher fed from
Redis is one of the publishers.

**SchedulerWorker.**  An action is what happens between two awaits.  `row` is
the SQLite table and survives `Stop` (a clean stop and a crash alike); `job` and
`loaded` are the APScheduler store and `_loaded`, which do not.  `create_task`
commits (`AddCommit`) and schedules afterwards (`AddSchedule`);
`remove_task` deletes, then drops the job; `pause_task` and `resume_task`
change the job, then read and write the row.  An execution reads its row, runs
its action, reads and writes again; an ORM session writes only the columns it
changed, so sessions overwrite each other's columns only where both changed
them.  Cron and interval triggers are "recurring"; "date" fires once within
`misfire_grace_time` of its date, else it is dropped; "invalid" is a trigger
that raises when scheduled.

**WorkflowExecutor.**  The main coroutine picks the ready steps of a round
(`Pick`), enters each (`Enter...`), and ends the round with a sweep for
failures (`Sweep`) or the run (`Finish`).  A conditional step runs its branch
one step after the other, a parallel step runs its group under a semaphore with
or without fail-fast; retries follow `retry.py`; `Cancel` cancels at any
await.  Nothing validates the dependencies of a workflow, so cycles and unknown
steps are among the workflows checked.  `DagPromise` says what a workflow of
plain tasks is owed: a step starts once, after its dependencies have completed,
and a failure skips its dependents.

**SwarmManager.**  Every operation is synchronous, so an action is one call of
the service: spawn, route, assign, complete, scale, heal, merge, terminate.  A
task takes three of them.  `count` and `running` are the metrics, kept beside
the agents that they count and refreshed only where the code refreshes them;
`roleMap` is the service's `_swarm_ids`.

**AgentBus.**  A call of `publish()` records the message, then gives it to its
handlers one after the other, and a handler calls `publish()` in its turn: the
record `call[i]` is the frame of one such call.  A direct message waits for room
in the recipient's inbox (`Put`), which nothing empties; a task is acknowledged
(`Ack`), worked on (`WorkDone`, `WorkFailed`) and answered (`Reply`).  A UI
stream subscribes (`Connect`), copies the history (`ShowHistory`) and shows its
queue; a full queue drops.  Spawning and removing agents interleave with all of it.

**MultiAgentOrchestrator.**  Several `run()`s of one session.  Each has an LLM
decompose the task (`Decomposed`), spawns a node per subtask, works on them in
parallel, as a chain, or in parallel with a hub that retries the first two empty
answers (`SpawnAgain`), then aggregates; `Finally` removes the nodes it spawned.
The LLM chooses the ids of subtasks, which may repeat and may be missing;
a subtask may raise, and `gather()` then leaves while its siblings go on.
`registered` is the registry, `board` the blackboard: per slot whose answer it
holds, the latest, for `blackboard.py` keeps one entry per key.  Two subtasks with
one key, of one run or of two, overwrite each other.

**CodingPipeline.**  Phases, then rounds: `StartRound` takes the ready steps,
those marked parallel go to one `gather()` (`batch`, collected by
`CollectBatch`), the others are called one by one (`CallNext`, `CollectOne`).
`Attempt`, `Fallback`, `Succeed` and `Fail` are `_execute_step_with_retry()`; in
swarm mode an editor's step is a contest of two.  `seen[s]` is the
`file_contents` that a step was given, which its edit is made from.  `Cancel`
sets the event at any await, `Disconnect` cancels the task.

**AutonomousPipeline.**  The six stages of `run()`; `Execute` and `Retry` are
calls of `MacroBrain.process()`, which answers through a sector brain or an LLM
(`Answers`) or has a task graph made and takes it through passes (`Strategy`, `Pass`,
`RunStep`, `PlanReturns`).  A task graph gives each step an id, which the LLM may
repeat, and the ids it waits for; `Stuck` says that what is left waits for nothing
but itself.  A result is good, weak, bad or null by what the stages after it make
of it.  `runs` is the bounded table.

**AppWorkflow.**  `Execute` validates and sorts the stored graph, `RunNode` and
`Delay` walk the order.  Only delays wait, so updates, deletions and other
executions come in there, on the same object the execution reads its conditions
from.

**UserProfile.**  One row and calls in database sessions of their own: `Begin`,
`Select`, `Create`/`Insert`/`Reselect` (the race of two first requests), the LLM
of a turn's update (`Ask`, `Answer`), `Persist`, `Touch`, `Reset`.  SQLAlchemy
is modelled from its use: a closed session forgets its rows, and what it changes
afterwards is written by no commit (`bound`).  `_merge_delta()` treats each key of
the document by itself, so one key stands for all: its `entries`, of which the
newest `Cap` stay.  A list has a cap of fifty; a plain value is a key with a cap of
one, where what is new takes the place of what was there.  A delta adds entries that
its reader did not see, or has another type than the key and replaces it
(`replaces`).

**ChatTurn.**  A turn from `Start` to its end: the exact lookup (`GetExact`), the
lookup by meaning (`Search`, then `Fetch` from the other store), `Replay` of a
hit, else `Prepare` and the providers in order (`Probe`, `StreamToken`,
`StreamBreaks`, `ProbeFails`), or `Chat` for a client that does not stream.
`Cut` ends a client's connection at any await.  `Launch` starts the detached
`_store()` (`StoreRedis`, `StoreQdrant`) and memory (`StoreMemory`); `Expire`
ages Redis alone.  An answer is the turn that gave it, so that a hit can be traced.

**EventRelay.**  Reader, writer and pump goroutines, the queue between pump and
writer, and the three things by which they end one another: `done`, the
response body and the connection.  The client may be slow or gone; the broker
may end its stream.

**CircuitBreaker, RateLimiter.**  gobreaker and the token bucket of
`x/time/rate` are external and modelled from their use: generations, counts,
the three states; tokens that come back with time.  `Do` is one lock
acquisition before the call and one after it; `Stream` looks at the state and
reports later.  The limiter fetches under the mutex (`GetLimiter`), asks after it
(`Allow`); `CleanUp` forgets idle sessions in between.

## 3. The runs

| run | instance | states | shows |
|---|---|---|---|
| `gate` | 2 requests, 1 slot, 2 answers each | 73,552 | `GrantIsEarned` a grant is a low risk, a timed-out medium one, or a last answer yes; `NoLostWaiter` a blocked caller is listed or already woken; `KeepsPromise` refinement of `ApprovalPromise`; `AnsweredReturns` the answered, evicted or timed stop waiting |
| `broker` | 2 topics, 2 publishers, 1 subscriber, cap 1, 3 channels, 3 events | 153,259 | `RootedMissesNothing` a subscriber of the current channel gets every later event whatever is evicted; `ActiveChannelKept` a channel with receivers stays; `CapExceededOnlyWhenBusy` the cap gives way only to subscribers; `OrphanEnds` a subscriber of an evicted channel sees its stream end; `IdleEvicted` |
| `scheduler` | 1 task, 2 requests at a time, 2 executions, 2 starts | 326,516 | `LoadedAgrees` a job is in `_loaded`, and what is in `_loaded` has a job or is a date task that is past; `OffIsSilent` no job for a removed or paused task once its requests are over; `RunsCounted` no lost count |
| `packages` | 31 workflows; 2 swarms, 4 agents, 2 tasks | 223,450 | `ResultTrue` status and counters tell the truth; `Accounted` each step ran once or has a reason not to; `HandlersBounded` concurrency within its limit; `KeepsPromise` refinement of `DagPromise`; `WorkflowEnds`; `SizeWithinLimits` and `ScalingSparesWork` no sequence of calls makes a swarm too large or takes an agent from its work |
| `agents` | bus: 2 agents, 1 stream, queues of 2, 1 API message; multi: 2 runs, up to 3 subtasks | 206,745 | `StreamHasNoGap` a stream that lost nothing to a full queue shows every message in order; `HangsOnlyOnInbox` only a full inbox keeps `publish()` from returning; `CleanupExact` a run's cleanup removes its own nodes, no sooner than its end; `ResultsTrue` no error means that every subtask has returned, and that an answer is on the board or gave way to another of its key; `RunReturns` |
| `builders` | see below | 904,429 | `StepsInOrder`, `EditsAccounted`, `CancelStopsRounds`, `CodingEnds` of the coding pipeline; `PlanInOrder`, `VerdictIsTrue` of the autonomous one; `GraphInOrder` of application workflows; `LossNeedsOverlap` of the profile |
| `gateway` | relay: 4 lines, 1 too long, queue of 2; breaker: 3 callers, 1 stream; limiter: 1 session, 2 requests | 38,351 | `NoGap` a client sees a gapless prefix; `AllEnd` the three goroutines end one another; `Recovers` the breaker closes for good after the service has recovered; `OneBucketPerSession` the clean-up gives no second burst |
| `chat` | 2 turns, 3 questions, 2 providers, 1 token | 620,071 | `StreamWellFormed`; `HitsAreWholeAnswers` a hit was once the whole answer to a similar question; `RemembersWhatWasSaid` a streamed turn is remembered once and only if it was said to the end; `TurnEnds` |

The other four runs (`gate_race`, `broker_orphan`, `scheduler_resumed`,
`workflow_branch`) end in a violation; section 5 is about them.

**Bounds.**  *Gate*: with two requests and one slot each can evict the other, and
a second answer can contradict the first.  *Broker*: a cap of one and a second
topic force the eviction, two publishers make it race with a subscriber's lookup;
three channels allow a channel to be replaced twice; a capacity of one makes every
second event lag.  *Scheduler*: what goes wrong goes wrong between requests on one
task, so one task with two concurrent requests suffices; two starts give one
restart.  *Workflows*: all DAGs on three steps, with one retry each, contain every
shape of dependency between two rounds (chain, fork, join, and independent steps
in both orders); the diamond adds a join of two branches; a cycle and an unknown
dependency are there because nothing refuses them; the others are what the
builders make, and a group with fail-fast and a semaphore that is too narrow.
*Swarms*: two swarms are needed for a merge, four agents reach the maximum of one
of the three specifications and let the others shrink to their minimum; two tasks
can be routed to the same agent.  *Bus*: two agents are the least for which a
reply is a nested call; one task makes four messages, enough to fill an inbox, a
queue and the history.  It does not reach two tasks in progress at once.
*Multi-agent*: three subtasks are one more than a hub retries; the second run
shares registry and board; the five decompositions have one of each pattern, a
repeated id, missing fields and a text that cannot be cut. *Coding*: plans of up
to three steps with every pair of dependencies between two of them (cycles and
unknown ids too), a fork, joins, a repeated id and failing agents, two tries, two
files.  *Autonomous*: six task graphs (a join, forward references, a cycle, an
unknown id, a repeated id, no step), two passes, and two runs for a table of one,
so that one is evicted.  *Application workflows*: graphs of three or four nodes,
one execution, one update.  *Profile*: three calls in six mixes; the third finds
what the first two left; a key of two entries, so that an entry of one call and
the two of another push each other out.  *`broker_orphan`*: no channel idles
(`TtlPasses` is FALSE) and there is an event more, so that only the eviction at
the cap can take a channel away and somebody publishes afterwards.  *Relay*: the
queue of two fills while the writer holds a third line.  *Breaker*: it trips at
two in a row, and two probes close it.  *Limiter*: a burst of two, an idle limit
of three, six units of time: a limiter is made, forgotten and made again.  *Chat*:
two of three questions mean the same, so one turn can hit what the other stored; a
second provider is there for the first to fail over to; with one token a stream
can break before, after and between.

**Fairness.**  *Gate*: weak fairness of `ResumeAnswered`, `TimerFires` and
`ResumeTimedOut`, because an event loop runs what is ready and fires timers that
are due; nobody is obliged to answer or to ask.  *Broker*: weak fairness of the
steps of a running handler (`Send`, `SlowHit`, `SlowCreate`, `Attach`), of
`Receive` and `StreamEnds` (hyper polls a stream that is ready) and of `Sweep` (an
interval timer); publishing, subscribing and disconnecting are free. *Workflow
engine*: weak fairness of the main coroutine and of each task; that includes the
end of a handler, which the code enforces by timeout only for steps without a
retry policy (`executor.py:183`), so for the others `WorkflowEnds` assumes a
handler that returns.  *Bus, multi-agent, coding, chat*: weak fairness of each
coroutine that is under way (`Control`, `Work`, `Agents`, `Advance`, the detached
`Write`), which includes that the call of an LLM or a tool ends or fails, as their
HTTP clients have timeouts.  A chat turn also awaits embeddings and the database,
which have no time limit: `TurnEnds` assumes that they answer.  Nobody is obliged
to ask, to cancel or to leave.  *Relay*: weak fairness of the pump, of `Writer`
and of `ReaderEnds`: reads and writes on the WebSocket carry deadlines.
*Breaker*: time passes (`IntervalElapses`, `TimeoutElapses`), calls return and
streams go on; `Recovers` speaks of behaviours in which the service stays well and
clients keep asking.  *Scheduler, swarms, autonomous pipeline, application
workflows, profile, limiter*: none; their properties are safety.

Deadlock checking is off where the system may rest: requests all decided, events
all published, a run over.

## 4. The proofs

The proofs hold for every value of the constants that satisfies the named
assumption of the module.

**ApprovalGateProofs** (`GateAssumption`: finitely many requests, positive
limits).  Proved: types, `GrantIsEarned`, that the table keeps its limit,
`NoLostWaiter`, that every decided request is in the history, that nothing changes
a returned request, and that the gate implements
`ApprovalPromise`.  `IInv` adds
`Coherent(r)`, which ties together where a caller is, whether its request is
listed, its status, its event and its answers: for instance that a waiting
caller whose request is no longer listed has its event set, that a blocked one
that is not listed was rejected and logged once (the eviction), and that a status
"approved" comes from a user whose last acknowledged answer was yes.  The step
proof has a step per action and under it one per conjunct; the refinement uses
`IInv` to show that a resumed caller with status "approved" has a yes among its
answers.

**EventBrokerProofs** (`BrokerAssumption`: finitely many topics, disjoint
publishers and subscribers, natural bounds and a positive capacity).  Proved:
types, `ActiveChannelKept`, `RootedMissesNothing`, `CapExceededOnlyWhenBusy`.
The second of these needs that a channel is never the channel of two topics and never reused
(`Distinct`), that a task past its lookup holds a channel made for its topic
(`TaskShape`), that the channel of an attached, rooted subscriber is the one in
the map (`Anchored`), and that a publisher with an owed event in flight holds,
or will find, that same channel (`Routed`).  Anchoring survives both evictions
because each spares channels with receivers, which is the argument.  The cap is
about cardinalities: a creation at the cap that evicts an entry leaves no more
entries than before, one below the cap at most `max_count`.

**SchedulerWorkerProofs** (`SchedulerAssumption`).  Proved: types, `LoadedAgrees`,
`OffIsSilent`, `RunsCounted`, for any number of tasks, requests and executions.
Per task, `Known` says that nothing exists of a task that was not given out and
nothing runs while the process is down, `Agrees` is `LoadedAgrees` for one task,
`Counted` that the session of the one execution is the only writer of the row's
count, and `Orderly` that a task whose requests never overlapped has at most
one request under way, and a job that fits its row but for what that request is
about to do.

**PackagesProofs, workflow engine** (`WorkflowAssumption`: the records in `Workflows` are
well formed).  Proved: types and `HandlersBounded` for all workflows, and for all
workflows of plain tasks, of any size and with any dependencies, refinement of
`DagPromise`, `ResultTrue` and `Accounted`.
Neither step order nor skipping is inductive by itself.  `IInv` adds that a plain
workflow never is in a branch or a group (`PlainPhase`), at most one step is
running, the one of the current task (`OneRunning`), the ready steps of the
round that have not been entered are pending with their dependencies completed
(`ReadyIsFresh`), no step got past pending before its dependencies completed
(`Ordered`), and no pending step depends on a failed one (`FailureSpread`).
`Ledger` adds what the counters count and which slots of the semaphore are taken.

**PackagesProofs, swarms** (`SwarmAssumption`).  Proved: `SizeWithinLimits`,
`ScalingSparesWork`.  `Roster` says that swarms and agents are given out in order
and that an agent of a swarm is alive in a swarm that exists, so that what is
spawned adds exactly its number; `Toil` that a task at work has an agent that is not
idle and no other task, unless that agent is in `shared`.  Scaling takes idle agents,
hence none that works; `count` may be stale after a merge, but only too high.

**AgentsProofs, bus** (`BusAssumption`).  Proved: `StreamHasNoGap`.  What a live stream
has shown and queued is one stretch of the history up to where it was copied,
spliced to everything since its connection (`Feed`); the history is the last
messages without a gap (`Ring`).  Nothing is needed about agents or calls.

**AgentsProofs, multi-agent runs** (`OrchestratorAssumption`: any decompositions into
finitely many numbered subtasks).  Proved: `CleanupExact`, `ResultsTrue`.  Per
run, `OwnNodes` says which of its nodes are registered when, `Jobs` how far each
subtask is at each point of the run (an exception leaves siblings at work, and that
run has failed), `Answers` that for each answer its slot holds an answer of a
subtask with that key, or that the hub has it in the slot of a second node, and
`Retries` that the hub took the first two subtasks without an answer and who has a
second node.  A step of another run may write the slot too; what it writes is then an
answer of its own under the same key (`AnswersStay`, `ShownKept`).

**BuildersProofs, coding pipeline** (`PipelineAssumption` of `CodingPipeline`: any
plans).  Proved: `StepsInOrder`, `CancelStopsRounds`, `EditsAccounted`.
`RoundShape` says which of batch, queue and remaining steps are at work in which
phase, `Placed(s)` where a step may be for its state, and `CompletedEnded` that
ids in `completed_ids` belong to steps that have ended.  `EditsInv` says that the
edits are those of the steps that have one and are out of the round, each once,
and that a file's contents are the last replacement among them (`LastWritten`).

**BuildersProofs, autonomous pipeline** (`PipelineAssumption` of
`AutonomousPipeline`: any task graphs, with repeated ids).  Proved: `PlanInOrder`,
`VerdictIsTrue`. `StepsOnce` says that what has run and what is left make up the
plan, `PassIsReady` that the steps of a pass wait for nothing that has not run,
and that each pass before it ran a step at least; `PlanDone` that a plan that was
left is stuck or has used its passes; `StatusInv` which stages are done, running
or failed at each point of a run, from which the verdict follows.

**BuildersProofs, application workflows** (`WorkflowsAssumption`: any graphs with
finitely many nodes and edges).  Proved: `GraphInOrder`, and with it that
`_topological_sort()` is right on every graph that `validate()` lets through.
`Sorting(g, s)` is the invariant of Kahn's loop: what is out is in order, each
degree counts the edges from what is not out, and a node is queued or out exactly
when nothing it waits for is missing.  The
hard step is one turn: that among the rows taken out the last one into a node, and
no other, brings its degree to 0 (`LastFrom`).  When the queue is empty everything
is out, or the rest would be a cycle (`NothingLeft`).  The loop is a recursive
function in the model; that such a function exists, that a set of numbers can be
listed in order, and that an increasing listing has every member once are proved
by taking a least counterexample (`LeastExists`, from the well-foundedness of
finite sets under inclusion), which needs no induction theorem.

**BuildersProofs, profile** (`ProfileAssumption`).  Proved: `LossNeedsOverlap`.
What has been in the row since before a call began, and has not left it (`seen`),
is still in the row, and in the copy that the call will write (`SeenIsKept`).
`MergedProfile` says what a merge takes out of a copy: nothing, unless the delta
replaces all or the entry is old enough to be pushed out of the newest `Cap`
(`PushedOut`).  So an entry that a write removes was stored after the call began,
or is one its own delta displaces.  `seen` is a history variable that every write
must prune: an entry that was lost and stored again belongs to nobody who began
before.

**GatewayProofs, relay** (`RelayAssumption`).  Proved: types and `NoGap`.  While the writer
runs, the lines written, being written, queued and held by the pump are four
consecutive stretches of what the broker has sent (`Consecutive`); once the
writer has ended nothing more is written, so what the pump drops leaves no gap.

**GatewayProofs, limiter** (`LimiterAssumption`: the time to refill a full burst
and the longest stall of a request fit into the idle limit together).  Proved:
`OneBucketPerSession`.  `LimitersHeld` says that no request holds a limiter that was
forgotten, `Timely` that what was let through is not later than the session was
seen, give or take the stall.  `Saved` weighs the requests let through since any
moment against the time since then and the tokens left; `Refilled` says that a
limiter has at least what time gave it since its last request.  A session that is
forgotten has been idle long enough to be owed a full burst anyhow, which is why a new
limiter gives nothing away.

**ChatTurnProofs** (`ChatAssumption`).  Proved: types, `StreamWellFormed`,
`HitsAreWholeAnswers` and `RemembersWhatWasSaid`.  `Local(t)` relates where a turn is
to what its client has been sent; `Shared` says that every cached answer is from a turn that
launched its store under that key, every hit from another turn that did so
for a similar question, and every memory from a turn that launched it; `Local`
lets a streamed turn launch these only after its stream ended well.

**The compositions.**  `PackagesSafe`, `AgentsSafe`, `BuildersSafe` and
`GatewaySafe` say the same of the compositions, of which the runs check the behaviours
from a choice of initial states: a step of a
composition is a step or a stutter of each of its parts (`PackagesSteps` and so on), so
its behaviours have the safety properties of all of them.

**Only model-checked.**  Every invariant and every action property of a passing run,
and both refinements, are proved.  Liveness is out of this prover's reach
(`AnsweredReturns`, `OrphanEnds`, `IdleEvicted`, `WorkflowEnds`,
`HangsOnlyOnInbox`, `RunReturns`, `CodingEnds`, `AllEnd`, `Recovers`,
`TurnEnds`); the breaker has no other property, so no theorem is about it.
`ResultTrue` and `Accounted` say nothing of workflows with branches or groups, in the
runs as in the theorems.  The induction theorems of the library take an operator
and cannot be used here, and recursive operators are avoided; where a proof needs
an induction it takes a least counterexample, as above.  The types of `call` and
`agents` of the bus are not proved: they are made with `SelectSeq`, which is
recursive.

## 5. Where code and words disagree

Each of these runs checks one sentence of the sources and ends with a
counterexample.

* `gate_race`, `RejectedIsDenied` (`gate.py:151`).  A rejection that arrives
  after the timer fired and before the coroutine resumes is acknowledged, then
  overwritten by the timeout branch; a medium risk is granted.
* `broker_orphan`, `SubscriberMissesNothing` (`broker.rs:90`).  If the channel
  is evicted at the cap between the clone of the sender and `subscribe()`, the
  subscriber listens to a channel the map has forgotten, while a publisher that
  holds the old sender keeps it open.  The run keeps channels from idling, so it
  happens within one TTL; a sweep can do the same.  `OrphanEnds` shows that it does
  not last: its stream ends.
* `scheduler_resumed`, `EnabledIsScheduled` (`worker.py:116`).  A task whose
  row is disabled when the process restarts has no job to resume after it: the
  request succeeds and schedules nothing.  In the counterexample the task was created
  disabled; one that was paused is in the same state.
* `workflow_branch`, `BranchOnlyIfTrue` (`executor.py:55`).  The steps of a
  branch are steps of the workflow, so the main loop runs those without
  dependencies whatever the condition says.

Some passing properties carry an exemption because the code does less than one
would wish: `OffIsSilent` leaves out tasks with overlapping requests (`raced`), so
neither the race between a create and a remove nor a pause that dies before its
commit breaks it, and those created disabled (`bornOff`); `LoadedAgrees` date
tasks whose date has come, whose name stays in `_loaded`; `ResultTrue` those
workflows whose dependencies make no sense (`Grounded`); `LossNeedsOverlap` what
was stored while a call was under way; `StepsInOrder` counts a failed step as
done, as the code does.

Further observations made while translating, with no run of their own:

* Gate: a full table rejects its oldest request, a critical one too
  (`gate.py:134`), although critical is documented to "block forever until
  explicit response" (`gate.py:14`).  Scheduler: the row of a one-shot stays
  enabled, so a restart within the misfire grace of its date runs it again
  (`worker.py:137`).
* Workflow engine: a workflow whose dependencies are cyclic or name nothing is
  reported "completed" with steps that never ran (`executor.py:94`).
* Coding pipeline: the edits of a parallel batch reach `all_edits` but not
  `file_contents` (`orchestrator.py:303`), so a later step edits the older file; a
  failed step joins `completed_ids` (`:305`, `:328`), so its dependents run; the
  router passes no `cancel_event`; the terminal agent calls its tool with
  arguments that the tool does not take (`terminal.py:57`), so its steps always
  fail.
* Multi-agent runs: the nodes that the hub spawns for retries and the node of
  the single-agent fallback are not among those cleaned up
  (`multi_orchestrator.py:227`).
* Swarms: the handler of DELETE shadows `success` and answers 500
  (`routers/swarm_manager.py:62`); a merge leaves the role map at the swarm it
  emptied; with the default limits the utilization that scales up cannot be
  reached; a spawned agent is never available to `route_task()`.
* Gateway: requests that clients cancel count as failures of the service
  (`ai_proxy.go:119`); lines still queued when the broker ends its stream are
  not written (`events.go:54`); a line that is too long ends the connection
  where the comment says it is dropped (`events.go:28`), and ends a chat stream
  silently (`chat.go:104`).
* Chat: the exact layer of the cache is asked with the raw messages and written with
  the enriched ones, so it never hits; the search by meaning filters neither
  model nor conversation; the vector of an expired answer shadows others; a reply
  with an empty list of choices, not streamed, is remembered as an empty answer, and
  the next provider's as well (`chat.py:400`, `:431`), so `RemembersWhatWasSaid`
  speaks of streamed turns only.
* Autonomous pipeline: critical steps are looked up under a key that no result
  has (`macro_brain.py:175`); on a cycle `remove()` raises on the emptied list
  (`:303`), and the plan is abandoned for a direct answer, where the comment
  (`:298`) says "just execute remaining": `PlanInOrder` says what the code does; a long
  run can be
  evicted from the table by its successors before it ends.
* Application workflows: the node that a condition chose is computed and dropped
  (`engine.py:135`, while `:9` says that it routes); an LLM node uses an undefined
  `config` (`:226`); `GET /workflows/executions` is shadowed by the route with an
  id (`router.py:54`).
* Profile: an update whose session closes while the LLM is asked writes nothing
  (`profile_service.py:15` promises a merge); the key of a deleted row is used
  again, so an update under way can undo a reset.

## 6. What is not modelled

Inside the modelled components: the Redis subscriber of the broker that ends
without a restart (`broker.rs:203`), its metrics and health endpoints;
subscriptions of bus agents to other topics and wildcard monitors
(`agent_bus.py:148`, `:155`); what a scheduled action does beyond whether it
fails; a `return` in a `finally` of the executor that swallows a cancellation;
failures inside a branch or a group, which the counters of the result do not
include (`ResultTrue` and `Accounted` speak of plain workflows); the swarms'
message ring and reports; a swarm merged with itself (`manager.py:343`), which
lists its agents twice until it is terminated and needs bags where the model has
sets; plan steps without a description and edits without a path; dependencies of a
task graph that are null, which raise while the plan is made and lead to a direct
answer like any other failure of `Strategy`; a subtask's key that names a slot of
the program (`final_output`) or is empty; deltas of a profile that replace
`preferences` or `stats` by something that is no object, at which later updates
raise, and deltas with more than `Cap` new entries; the database's lock timeouts;
what the gateway does before the broker has answered.  Wording, logging and
serialisation are left out everywhere.

Components left out, with the reason in `PROJECT.json`: those planned in section
7; pure I/O (provider adapters, bots, CLI, routers, image and speech output);
prompts and scores (reasoning, evolution, relevance in the memory fabric and the
API registry, which are real numbers TLC cannot evaluate); vendored code
(LuxTTS, which is most of the repository's Python by lines); the front end, whose
stream order is the only behaviour worth a model.

### Hazards that no property covers

`PROJECT.json` lists the hazards with the properties that cover them, and two
without (the last two here).  Further ones, in modelled and other components:

| at | what can go wrong |
|---|---|
| `RS/handlers.rs:62` | a slow SSE client lags behind the ring: the error is filtered out and the client never told |
| `APP/scheduler/worker.py:137` | a restart within the misfire grace runs a one-shot again |
| `PKG/workflow-engine/workflow_engine/executor.py:183` | a step with a retry policy has no timeout |
| `PKG/workflow-engine/workflow_engine/executor.py:100` | a group outlives the workflow that was cancelled |
| `PKG/workflow-engine/workflow_engine/executor.py:217` | a failure inside a branch is not counted (a group: `:262`) |
| `APP/multi_agent/agent_bus.py:149` | a subscriber that leaves during a publication still gets the message, from the copy of the list |
| `APP/multi_agent/multi_orchestrator.py:359` | a node the hub spawns to retry stays registered after the run |
| `APP/workflows/engine.py:135` | the branch not taken runs |
| `APP/routers/chat.py:407` | the enrichments use one database session concurrently |
| `APP/session_replay/store.py:88` | a session read back from Redis enters the table but not the order: it is never evicted nor listed |
| `APP/services/skill_evolution.py:93` | a skill is rewritten while another cycle, or a request, holds the same row: two successors with the same name and version |
| `PKG/memory-fabric/memory_fabric/fabric.py:314` | the threshold that starts a pruning is below its target: pruning for size removes nothing where it starts |
| `APP/gpu/vram_cache.py:370` | a vector larger than the whole budget is stored after everything else was evicted |
| `src/frontend/src/features/communication/useChat.ts:144` | the streaming flag is one for all messages: the end of one stream clears it while another is running |
| `APP/device_agent/engine.py:59` | actions share one browser, and work on a page another request's `navigate()` may have opened (`:124`) |
| `APP/voice/wake_word.py:69` | start and stop race with the thread; `:63` writes "listening" after the thread may already have ended |

## 7. Plan

1. Small modules with one hazard each: `DeviceAgent`, `WakeWord`, `SessionReplay`,
   `SkillEvolution`, `VramCache`, `MemoryFabric`, `HealthMonitor`.
2. Compositions: the relay with the broker behind it (what a browser sees of a
   topic); the multi-agent runs with the bus instead of a publication that
   returns at once.
3. The bus with two tasks in progress, other topics and wildcard monitors;
   failures inside branches and groups of the workflow engine.
4. Abstract specifications of the broker (a topic is a log, a subscriber reads a
   contiguous part of it) and of the scheduler (a task runs while it is enabled).
5. Theorems: a safety invariant of the circuit breaker (no call of an old
   generation changes the present one); accounting for workflows with branches and
   groups; the types of the bus's calls.

## 8. How to run it

    tlc -workers 4 -config ApprovalGate.cfg ApprovalGate.tla
    tlapm ApprovalGateProofs.tla

and likewise for the module and configuration that `PROJECT.json` names for each
run.  Every run ends within about a minute and a half; the proofs take a few
minutes each.
