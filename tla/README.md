# agenthub-api: a TLA+ verification project

agenthub-api is the Go backend of AgentHub: tenants configure agents, tools and
knowledge; users talk to agents in chat sessions; every message starts a *run*
that an agentic loop executes in the background while clients follow it over
SSE. This directory holds TLA+ models of the part of it that is concurrent,
distributed and able to fail, TLC runs that check them on small instances, and
TLAPS proofs of the invariants that hold for all instances.

## 1. Inventory

| Component (code) | State | Operations | Interacts with | What makes it correct |
|---|---|---|---|---|
| **Chat run executor** `chat/async_executor.go`, `chat/repository.go`, `chat/handler.go` (cancelRun), migration 60 | table `chat_run`; maps `cancellers`, `cancelled`; worker goroutines and their contexts | EnqueueRun, failEnqueuedRun, consumeWorker, processTask, Cancel/cancelRun, Shutdown | Postgres, RabbitMQ, the runner, completion hooks | one live run per session; one runner per session; outcomes stored before they are announced; a cancel stays a cancel; nothing blocks a session for ever |
| **Event buffer** `chat/eventbuffer.go` | ring of events, sequence numbers, done flag | Append, MarkDone, EventsSince, NewestSeq, IsDone | worker, voice handler, resumeSession | the ring is a sliding window of the run's events |
| **Event stream** `chat/handler.go` (resumeSession, filterReplayableEvents, voiceInput) | per connection: position, pending frames; per client: Last-Event-ID | replay, poll, reconnect | event buffer, clients | every event once and in order, no silent hole, no answered form shown again, streams end |
| Event buffer registry `chat/eventbuffer.go` | run id -> buffer, owner | GetOrCreateForSession, Owner, Remove | executor, handlers | one buffer per run, isolation of sessions, bounded |
| Background run registry, legacy streaming `chat/background.go`, `chat/handler.go` (runSession) | in-memory runs with status and TTL; a 64-slot live channel | Register, MarkCompleted, Cancel, cleanup | runner, event buffer | terminal states are final; live and replayed frames agree |
| **User-input requests** `chat/agentic/elicitation.go`, `frontend_action.go`, `adapter.go`, tool-suspend rows in `chat/repository.go` | handlers per session and pod, their queues, suspended rows | register, Submit, Respond, resolve | agentic loop, HTTP handlers, other pods | every answer reaches the request it was given to |
| **Trigger scheduler** `trigger/` | `agent_trigger.next_run_at`, `agent_trigger_run` | create, update, tick, fireOne, MarkRun | executor, completion hook | a due trigger fires, and is then due at its next time |
| **Agentic loop** `chat/agentic/runner.go`, `context.go` | the conversation in memory and in `chat_message`, the response chain, counters of recoveries and repetitions | load, call, store, execute, compact, finalize | LLM providers, tool executor, hooks, repository | calls and results stay paired, nothing is lost from a chain, every run ends and says so once |
| **Tool turn** `runner.go` (executeWithPermissions), `denial.go` | calls, denials, stored facts and given values of a run | reject, ask, store, route | permission rules, user, executors | only what is permitted runs, within its limits |
| **Tool executor** `toolexec.go`, `toolcache.go` | batches, goroutines, semaphore, result cache | partition, execute, abort | tools | calls with effects do not overlap; one result per call |
| **Sub-agents** `subtask.go`, `coordinator.go`, `mailbox.go` | costs, tasks and their rows, messages | execute in parallel, record, send, read | child loops, Postgres | bounded spending, all tasks settled |
| **Model call** `retry.go`, `streamfallback.go` | attempts, overloads in a row, model | stream, back off, fall back | provider | bounded requests, errors the loop can act on |
| **MCP client** `mcpbridge.go` | listings per tenant, failures per tenant and server | list, call, trip | MCP runtime | a server is taken away for cause only; what could be listed is offered |
| **OAuth credentials** `oauth/` | the row with its tokens, a token cache per process | resolve, connect, refresh, edit, delete | OAuth providers, tools | the stored refresh token is usable; no token outlives an edit or a delete |
| **Tenants and signup** `tenant/`, `tenantsignup/`, `admintenant/`, `keycloak/provisioner.go`, `workloadidentity/`, `cmd/migrate-workload-identities` | row, schema, Keycloak realm, stored credential of a tenant | create, delete, backfill | Keycloak, Postgres | an active tenant is complete; a creation can be repeated after a failure |
| Approvals, webhooks, registry/marketplace | one or a few rows each | status transitions, deliveries, installation | HTTP, other services | transitions are legal, partial failures are undone |
| Configuration CRUD, measurements, documents, memory, core templates, server and middleware, commons | one table or one client each | CRUD, queries, wiring | Postgres, HTTP | no protocol of their own |

What is hard here, and hard to test: two requests or two pods interleaving
between a read and a write of `chat_run`; a call that fails after it took
effect; a message that is delivered twice, late or never; a process that dies
between two steps; a cancel, a deadline and an expiry racing each other;
readers that reconnect while the ring evicts events under them; a conversation
that must stay acceptable to the provider across failed writes, crashes and
compactions; goroutines of one turn that abort each other; answers of a user
that arrive late, twice, or at another pod. The hazards in
`PROJECT.json` name each of these with its line.

## 2. The modules

| Module | What it is |
|---|---|
| `EventLog` | abstract specification: a sliding window over the events of a run |
| `EventBuffer` | the ring of `eventbuffer.go`; refines `EventLog` (`LogSpec`) |
| `EventBufferProofs` | type correctness, ring invariant, refinement and what EventsSince returns, proved |
| `ResumeStream` | extends `EventBuffer`: producers, the resume handler step by step, reconnecting clients |
| `ResumeStreamProofs` | order, completeness and forms of what a client receives, proved |
| `ChatRun` | the executor: requests, table, queue, pods, workers, cancels, faults |
| `ChatRunProofs` | every safety property of `ChatRun`, proved |
| `Conversation` | the messages of a session and the functions that repair and shrink them |
| `SessionLog` | abstract specification: what a session stores, and when a run announces its end |
| `AgentLoop` | extends `Conversation`: the runs of a session, one step per stored row; refines `SessionLog` (`KeepsSessionLog`) |
| `AgentLoopProofs` | every safety property of `AgentLoop`, and what the repairs of `Conversation` return, proved |
| `ToolTurn` | executeWithPermissions over the tool turns of a run |
| `ToolBatches` | ExecuteAll: the goroutines of one turn, semaphore, abort, cache |
| `ToolProofs` | the safety of `ToolTurn` and of `ToolBatches`, proved |
| `Subtasks` | the sub-agents of one turn: budget, tasks, mailbox |
| `ModelCall` | one query: retries, the request without streaming, fallback models |
| `McpClient` | listing cache and circuit breaker, shared by the runs of a process |
| `RunPartsProofs` | the safety of `ModelCall`, `McpClient` and `Subtasks`, proved |
| `UserInput`, `UserInputProofs` | forms, consents and client actions, answered through any pod; its safety, proved |
| `TriggerScheduler` | cron triggers of a tenant and the scheduler of every pod |
| `OAuthTokens` | one OAuth credential, its token cache and the requests that use it |
| `TenantProvisioning` | the life of one tenant id: creations, deletions, backfills |
| `ServicesProofs` | the safety of `OAuthTokens` and of `TenantProvisioning`, proved |
| `MC*` | constants for TLC; each `.cfg` is one run |

The modules are the layers of one path: `TriggerScheduler` and the users start
runs (`ChatRun`); the step "run" of `ChatRun` is one run of `AgentLoop`, which
fills the buffer that `ResumeStream` reads; its model call is a `ModelCall`, its
step `ExecuteBatch` a turn of `ToolTurn`, which hands calls to `ToolBatches`,
`Subtasks` and `McpClient` and asks the user through `UserInput`. They are
composed by extension where they share state (`EventBuffer` in `ResumeStream`,
`Conversation` in `AgentLoop`) and otherwise meet in the outcomes that the upper
one leaves open. `OAuthTokens` and `TenantProvisioning` stand beside that path:
they are what tools and tenants rest on, and share no state with a run.

### EventBuffer

One action per method; each method holds the mutex throughout. `buf`, `start`,
`count`, `nextSeq`, `done` are the fields of the struct. `EventsSince(a)` is the
returned slice and `~Overflowed(a)` the returned flag. The 64-bit sequence
number does not wrap within the life of a run and is a natural number.

### ResumeStream

`resumeSession` is split at every call that takes the buffer's mutex and at
every frame it writes: `ResumeSession` (EventsSince, the overflow notice and the
filter), `SkipToNewest` (NewestSeq), `Send`, `CheckDone` (the IsDone after the
replay), `Poll`, `PollCheck`. `Disconnect` may happen at any of them; the client
comes back with the id of the last frame it received. Producers are the worker
(`WorkerAppend`, `WorkerDone`) and, for a voice run,
`AppendVoiceTranscriptionEvent`, which the handler calls after the run has been
handed to the queue. Events are abstracted to what the filter tells apart: a
request for input, an event that resolves one, anything else. `waiting` are the
requests the run is blocked on. Ids of requests serve again, as in the code: a
consent has the id `consent-<tool>-<runID>`, a call read from text the id
`call_txt_<index>_<name>`. The answer to a form is followed by events with its
id; the answer to a consent (`ConsentDecided`) by none, because the events of
the call carry the id of the call. The form of `canvas_feedback`, for which the
run does not wait, is a consent decided at once. `Submit`'s return and the event
that tells of it are one step for a form, and a request is in the buffer before
its answer comes. The same id used for a form and for a consent is left out.
`log`, `received`, `connectedAt` and `connects` are history variables. A client
that reaches a pod without the buffer gets 404; that is not modelled.

### ChatRun

* `status`, `starter`, `queueAged`, `runAged` are the row of a run: its status,
  whether (and by whom) `started_at` was set, and the two comparisons with the
  clock that EnqueueRun makes. `IndexAllows` is the partial unique index
  `uq_chat_run_one_active_per_session`.
* `EnqueueCheck`, `EnqueueExpire`, `EnqueueInsert`, `EnqueuePublish`,
  `FailEnqueuedRun` are the calls of one request. A request that is refused
  with ErrRunAlreadyActive returns to "idle": the user may try again.
* `Deliver` and `Acknowledge` are the consumer (startTask, then Ack);
  `BrokerRestart` drops messages, which are published non-persistent.
* `Register` .. `Return` are processTask, one action per database call or map
  operation. Everything between activation and the runner's first event is one
  action, `Startup`, which may fail; the whole agentic loop is the step
  "run", left by `RunnerEnds`.
* `CancelStore`, `CancelLoad`, `CancelPersist` are cancelRun with
  AsyncExecutor.Cancel inside.
* `Shutdown`, `StopConsuming`, `Exit`, `Crash` are the life of a pod, which
  restarts empty.
* Any database or broker call may fail, with or without effect
  (`FailedWrite`, the disjuncts with `Fault`).

Left out, because no state depends on it: the checks of session and agent before
the run is created, malformed queue messages (rejected without effect), the
chat messages and the metrics row that processTask writes, the configuration
without a broker URL.

### AgentLoop and Conversation

`runLoop` is split wherever it stores a row, calls the model or can return. A
message is abstracted to its role, whether it has text, the ids of the calls it
makes or answers, and whether a response id is stored with it; these are what
the functions of `Conversation` look at. `Persist` is a write with the run's
context, `PersistDetached` one with `contextForToolResultPersistence`.
`localEmitError` and `emitError` are kept apart: only the first makes the
deferred cleanup store a message. Errors of the model are those the loop treats
differently (overflow of the output limit, prompt too long, invalid response id,
others). Whether a reply brings a response id is open for each reply: the
request without streaming never does, and the id restored from the history may
be another provider's. `ChainReply` moves the index of what was sent in any case
and replaces the id only if there is a new one, as the code does; `covered` is
what the response of the kept id has seen, and `lapsed` says that the index has
moved past it. The results of a batch, the notes of hooks and the compaction
stage are arbitrary. Left out: prompts and tool schemas, usage and metadata
rows, and `compactFailures`, which cannot grow because the loop passes no
summarizer. `stop_hook_veto` has no step: no hook sets PreventContinuation.

`RunEndHooks` stores the notes of the run-end hooks after `CompleteRun` has
announced the end.

`SessionLog` is what a session looks like from its rows and its events: notes,
replies, results, the end of a run, remarks of hooks after it. `AgentLoop`
implements it with the rows as log, the calls of the reply whose results are
still to be stored as `pending`, and `pc`, `completed` and `crashed` as `phase`.
That a truncated reply keeps its calls without results is allowed there, as in
the code (`Reply` may drop them).

### ToolTurn, ToolBatches, Subtasks

`ToolTurn` handles the calls of a reply one by one, in the order of the checks
of executeWithPermissions (`Verdict`); what a call is routed as is its `Kind`.
`outcome` keeps how many tool_result events each path sends. `ToolBatches` has
one step per channel operation, context check or cache call of a goroutine.
`Subtasks` has a step for every point where sub-agents see each other: the
semaphore, the cost so far, the tasks' rows, the mailbox. A child loop is
reduced to its turns with their costs; a warning event may mark a finished child
as failed. Costs are counted in steps of 1/`Unit` micro-dollar, so that the
truncation of the tracker (`Truncated`) loses something. At the end of the turn
the parent adds what its sub-agents report to its own cost (`ParentCharged`), or
ends by denial escalation before it does (`ParentEscalates`).

A child has sub-agents of its own, down to the depth limit. They are modelled by
what they cost: with b left when they start, at most `NestedShare * b +
NestedSlack`, added after the child's budget check (`NextTurn`), or dropped if
the turn ends by denial escalation (`ChildEscalates`). `OverspendBounded` is a
bound of the same form for this level, which is then the assumption of the level
above; at the depth limit both numbers are 0. From there the recursion is by
hand: with 3 slots a level multiplies the share by 3, so three levels may spend
27 times what was left of the budget, and the slacks. Not modelled: the tasks
and messages of nested sub-agents (which share coordinator and mailbox with the
others, but only the rows and addresses of their own), the steps inside a nested
turn (its cost is one step), a budget of 0 (no limit), that an empty reply is
asked for again once only, and floating-point errors.

### ModelCall, McpClient

An error is one of the classes that the substring tests tell apart, among them
a prompt that is too long by a number that contains 429. `McpClient` composes
cache and breaker the way `server.go` does, breaker outside.

### UserInput, TriggerScheduler

`UserInput` has one session, runs on several pods, the handlers with their
queues and the rows; `disturbed` marks runs whose registration another run of
the session has replaced or removed. `TriggerScheduler` measures time in minutes
of a small day; `SelectedColumns` and `ScannedColumns` are the two numbers pgx
compares. fireOne is two steps: session and run, either of which may fail
(`FireOne`), and the write of the next run (`MarkFired`), whose error is only
logged.

### OAuthTokens, TenantProvisioning

Both have one step per call to the database, the provider or Keycloak, and one
per critical section of the cache; a faulty call may fail before or after its
effect (a refresh that does not reach the provider leaves its token good), and a
process may end between any two. In `OAuthTokens` a token is the number of the
provider's answer that issued it, and a configuration the number of the edit
that wrote it, so that "older" can be said of both. The provider either replaces
a refresh token when it is used or keeps it (`rotates`). `applied`, `raced` and
`lost` are history variables. Left out: the types of authentication that need no
token, PKCE, and the validation of requests. The cache belongs to a process; the
module has one, and what an edit on another pod leaves behind is named below. In
`TenantProvisioning` a secret is the name of the job that generated it.
`overlapped` and `clean` are history variables: whether a deletion has begun, or
other work was under way, since the row was inserted, and which creations have
met neither a fault nor company. An identity provider that is not configured is
left out.

## 3. The runs

Bounds are constants: `Capacity`, `MaxEvents`, `MaxConnects`; `MaxTasks`
(deliveries), `MaxFaults`, `TerminalAttempts`. `CHECK_DEADLOCK FALSE` is set
wherever all runs, streams and requests may have come to their end.

| Run | Instance | Shows |
|---|---|---|
| `stream_evicting` | capacity 2, 4 events (the ring wraps), one client with 2 connections, one form and one consent, voice run; 1.0 million states | the ring (`TypeOK`, `RingInv`, `SinceComplete`, refinement `LogSpec`); `DeliveryIncreasing`, `NoSilentGap`, `FormsConsistent`; under fairness `EventuallyCloses`, `StreamsUnlessOvertaken` |
| `run_calm` | 3 runs, 2 sessions, 1 pod, 3 tasks, no faults, cancels or timeouts | `NoConcurrentRunners`, `ActiveHasWorker`; under fairness `AcceptedRunFinishes` |
| `run_cancel` | 1 run, delivered up to twice to 2 pods, 1 cancel at any moment through either pod, 1 fault, time passes; 2.1 million states | `CancelIsNotTimeout`, `CancellersExact`, `NoResurrection` |
| `run_recovers` | 2 runs of a session, 2 faults, 2 attempts of the terminal write, time passes | `OneLivePerSession`, `OutcomeDurable`, `AnnouncedIsStored`; under fairness `StuckSessionRecovers` |
| `agent_loop` | 2 runs of a session, 2 iterations each, 2 replies in all if one run makes them, batches of `MCBatches`, one failed write, fallback, reply without response id, note or crash, a window of 6 rows | `RequestsWellFormed`, `StoredResultsGrounded`, `ChainCoversOmitted`, refinement `KeepsSessionLog`; under fairness `RunEnds` |
| `run_parts` | turns: 3 turns of 8 batches, limits of 2; batches: 3 calls, 2 slots, cache of 1; sub-agents: 3 with 2 slots, 2 turns each, half micro-dollars, a budget of 2 of which 1 is spent, calls that cost 1 and nested sub-agents that cost 0 or 2, 1 incident; model call: 4 attempts, 2 fallbacks; MCP: 3 runs, 2 tenants, 1 server, limit 2 | `OnlyPermittedExecute`, `EffectsBounded`, `TurnSafe`; `BatchesSafe`, under fairness `BatchesEnd`; `OverspendBounded`, `SubtasksSettle`; `ModelCallSafe`; `TrippedForCause` |
| `services` | user input: 2 runs of a session on one of 2 pods, 2 requests, 2 answers to either pod; OAuth: 3 requests, 3 tokens, 1 edit, 1 fault; tenants: 2 creations, 1 deletion, 1 backfill, 2 faults | `WaitingReachable`, `AnswersAgree`; `StoredRefreshIsGood`, `ServedIsCurrent`; `ActiveIsProvisioned`, `CleanCreateCompletes` |

`run_parts` and `services` explore several modules in one run: `focus` is chosen
at the start and only that part takes steps, so the states are the sum and not
the product of theirs. The sub-agents of `run_parts` are symmetric; the one
liveness property is about another part, in whose behaviours the symmetry
identifies nothing. In `services` the runs of a session and the requests of a
credential are symmetric. Three OAuth requests are one to connect and two that
refresh, edit or delete against each other; two creations are a failed one and
its repetition, with a fault to spare. Each limit is small enough to be passed:
two slots for three goroutines or sub-agents, two denials, a cache of one entry
for two keys, a budget that one call and the sub-agents of a child exceed. The
bound of a module on disturbances is shared by their kinds (`MaxExtras` for
failed writes, fallbacks, replies without a response id, crashes and notes in
`AgentLoop`; `MaxIncidents` for messages and failing task writes in `Subtasks`),
which keeps every kind possible. In `Subtasks` the bound holds for any costs by
proof; the run explores those of its cfg.
`TurnSafe`, `BatchesSafe`, `SubtasksSettle`, `ModelCallSafe`, `FormsConsistent`
and `AnswersAgree` are conjunctions of named parts.

One client is enough in `ResumeStream`: readers share only the buffer and do not
change it. Two runs of one session are what the races of `ChatRun` need; the
third run of `run_calm` is of another session. `TerminalAttempts` is 3 in the
code; the runs with faults use 2, and `run_recovers` has two faults, so that all
attempts can fail. `OutcomeDurable` and `AnnouncedIsStored` speak of runs whose
request was accepted, that did not age and that one task and no cancel worked
on: every other writer of the row overwrites its status unconditionally, by
design of the code. A second delivery of a run shares the entries of a pod's
maps with the first, and either task removes them; so `CancelIsNotTimeout` and
the converse half of `CancellersExact` are said of runs with one task, and hold
with any faults. A context is "done" once its cancel function was called and
"expired" if only its deadline has passed, so that `CancelIsNotTimeout` can be
said while time passes. A cancel that reaches another pod than the one that
works on the run only writes the row, which Activate overwrites;
`NoResurrection` is therefore said of runs whose cancels reached the pod of
their task, without faults.

**Fairness.** Streams: the handler's goroutine is scheduled and its ticker
fires (weak fairness of its steps); runs, clients and networks owe nothing.
Executor: goroutines run, clocks advance, the broker delivers what it holds, a
user whose request was refused tries again (weak fairness of each). A runner
owes nothing in `FairSpec`: only its deadline is sure. `RunToEndSpec` adds that
an undisturbed runner ends, which `run_calm` needs because no time passes there.
Agentic loop: its goroutine runs, and TotalTimeout ends every context; no reply
is owed. `RunEnds` needs the timeout, because recoveries are not counted as
iterations. Tool executor: goroutines run and every execution returns, by
ToolTimeout at the latest; nothing is assumed about who gets the semaphore.
Scheduler: the ticker of a pod fires again and again.

## 4. Disagreements between code and documentation

Five runs are expected to fail; each checks what a comment or a test of the code
claims.

* `stream_close_race` - the done check after the replay is a second critical
  section: events appended in between, the last of the run, are not sent
  (handler.go:1262).
* `consent_again` - a consent that was given is shown again on reconnect, because no
  event with its id follows it and the filter waits for one (handler.go:1581).
* `answer_lost` - an answer that reaches a pod without the run's handler resolves
  the suspended row and is acknowledged, but the run never hears of it
  (adapter.go:874).
* `trigger_silent` - ListDue selects 12 columns and scans 11, so it fails whenever
  a trigger is due and no trigger is ever fired (trigger/repository.go:408). With
  `ScannedColumns == 12` the property holds, even if a MarkRun fails.
* `partial_tools` - the circuit breaker drops the tools of the MCP servers that
  answered when another one could not be listed (mcpbridge.go:466).

Others, which the same modules show under other constants or properties:

* A connected client that the ring overtakes gets neither events nor a notice
  any more: the poll loop drops the overflow flag (handler.go:1278).
* An expired run is still executed when its message arrives or until its runner
  reacts to the deadline, next to the run that replaced it
  (async_executor.go:318): `MCRunCalm.cfg` with `TimePasses = TRUE` violates
  `NoConcurrentRunners`.
* With two pods a cancel written between the read of the row and the
  unconditional activation is overwritten (async_executor.go:687): without its
  condition on the pods of the cancels, `NoResurrection` is violated in
  `run_cancel`.
* A cancel during startup makes the MarkRunFailed of the error path fail too,
  with the same context (async_executor.go:696): a cancel in `MCRunCalm.cfg`
  violates `ActiveHasWorker`.
* The five causes that `RequestsWellFormed` excepts: a batch stored in part is
  kept by filterUnresolvedToolUses as soon as one call has a result
  (runner.go:2019); a truncated reply keeps its calls (1660); the history window
  may start with a result; aiMessagesToChatMessages drops ToolCallID (3168); ids
  of calls written as text repeat from turn to turn (texttoolcall.go:121).
* After a reply without a response id the index of what was sent moves while the
  id stays (runner.go:1072), so the next request leaves out messages that the
  response it is chained to has never seen, although it is to "only send new
  items when the provider supports server-side history" (943): without `lapsed`,
  `ChainCoversOmitted` is violated in `agent_loop`.
* A denial escalation returns before the costs of the turn's sub-agents are added to
  those of the run (runner.go:1367), although the roll-up is to "reflect the full
  cost of the run including nested agents" (1382): `CostsAddUp` excepts it, and
  `OverspendBounded` bounds what is counted.
* Sub-agents of a sub-agent are charged after its budget check, and every one
  that starts is granted all that is left: see the bound in section 2.
* A tool_calls reply without calls, repeated, indexes an empty slice
  (runner.go:1316).
* A bulk store marks the facts it failed to write as stored, and a later store
  of the same fact reports success (runner.go:2845).
* Calls refused by the retry limit or the allowed set, client actions and
  unsupported modes send their tool_result twice (runner.go:2420, 1441).
* A broadcast between sub-agents is read by one of them only (mailbox.go:308).
* All consents of a tool within a run share one id (runner.go:3381), so that a
  repeated answer is taken for the next consent.
* The wait for a form ignores the cancel of its run, although "the parent context
  is still checked for cancellation" (runner.go:2712).
* The request without streaming returns text only; calls in the answer are lost
  (streamfallback.go:152).
* A cron range "N-M" passes Validate and matches N only; day, month and weekday
  are ignored (trigger/cron.go:109, 134).
* An edit of an OAuth credential drops its refresh token and its expiry, because
  Update writes a credential built without them, although it "preserva campos
  vazios" (oauth/service.go:276, 349): the connection cannot be refreshed any
  more and its access token is taken for valid for ever.
* RefreshToken and ExchangeCode write the whole row they read before they called
  the provider, and so undo an edit made meanwhile (oauth/service.go:564, 608); a
  client token requested before an edit is cached after it (496), and the caches
  of other pods are not evicted at all. `ServedIsCurrent` excepts the first two
  (`raced`).
* When a refresh fails, the request goes on with client credentials: a user's
  connection silently acts as the application.
* A creation whose row was deleted under it marks ACTIVE the row of a later
  creation, which has no schema yet (tenant/service.go:173): without the
  exception `overlapped`, `ActiveIsProvisioned` is violated.
* Signup and admintenant.Create go on to the administrator and report success
  although provisioning failed, or although the role of the administrator could
  not be assigned (user/keycloak.go:488).
* The failure of a provisioning that timed out is recorded with the context that
  timed out; the row stays PROVISIONING and a repetition is refused because it
  exists (tenant/service.go:139).
* Two places do not compile at this commit: the return with two of three results
  at streamfallback.go:150, and the interface at server.go:97, which
  trigger.Repository does not satisfy. The modules take the evident meaning.

Smaller ones met while modelling, without a run of their own:

* EventsSince reports an overflow for `afterSeq = oldest - 1`, where nothing was
  missed (eventbuffer.go:141 against its comment at 118).
* The voice transcription may be appended after MarkDone, which "signals that no
  more events will be appended" (handler.go:759, eventbuffer.go:103).
* The startup error paths call no completion hook, although hooks are "called
  after a chat run finishes (success/fail/cancel)" (async_executor.go:111).
* A redelivered message gives two tasks of one run a single entry in
  `cancellers`; the first to return removes the other's (async_executor.go:654).
* After an ambiguous publish, failEnqueuedRun marks failed a run that a worker
  may have completed.

## 5. The proofs

`EventBufferProofs`, for every `Capacity > 0` and every `MaxEvents`:

* `TypeCorrect`: `Spec => []TypeOK`.
* `RingCorrect`: `Spec => []RingInv`. The inductive invariant is
  `TypeOK /\ RingInv`: contiguity of the window alone is not inductive, since
  an append to a ring that is not full writes slot `start + count`, and one
  must know that `start = 0` until the ring is full and that `count` is the
  smaller of `nextSeq - 1` and `Capacity`. The arithmetic of `%` is in lemmas.
* `RingImplementsLog`: `Spec => LogSpec`, with the window read from `start` as
  refinement mapping; the step is split into a ring with room (Append) and a
  full ring (Append of the Tail).
* `SinceIsComplete`: `Spec => []SinceComplete`, from `TypeOK /\ RingInv`. The loop
  of EventsSince is the recursive function of `KeepAt`; what it returns is proved
  without an induction theorem, from the least position at which it would be
  wrong (`LeastNumber`, which follows from the library's `WFMin`). `KeepAtEnd` says
  what keeping an end of a sequence gives, `KeepAtPicks` what keeping any
  positions gives: those elements, in order.

`ResumeStreamProofs`, for any clients, connections, requests, consents, events
and ring: `DeliveredInOrder`, `GapsAnnounced`, `FormsShown`. The invariant
`StreamInv` rests on the ring's and has two parts about the run, that the ring
holds the end of the log (`LogMatches`) and that the run waits for the forms
whose last request no event resolves, and perhaps for consents (`WaitingForms`),
and one per client:

* `ReceivedAt`: the properties for what was received, and that Last-Event-ID is
  the last frame received unless an overflow was announced since (`InStep`);
* `NothingMissing`: nothing evicted and no overflow: every event up to
  Last-Event-ID was received or is a form that an event resolves;
* `PendingAt`: the frames still to be written are in order, lie after
  `lastSent`, and what they leave out is a form that an event resolves. This is
  why a ring that overtakes a handler between EventsSince and its frames does no
  harm;
* `HandlerAt`: `lastSent` and Last-Event-ID agree while `InStep`, which is what
  makes the next gap announced or filled; at the end of the replay the handler
  is past the position at which it connected, so no later tick brings a form
  that was answered then.

`Snapshot` says what one call of EventsSince reads, `FilterIsExact` what the
filter hides: only requests resolved later in the same replay, and all of those
whose id had not been resolved before. The code compares with the first event
that resolves the id, so that a request which reuses an id may be shown although
it is answered; this and the consents are the two exceptions of
`FormsConsistent`.

`ChatRunProofs`, for any sets of runs, sessions, pods and cancels and any bounds:

* `RunInvariant`: `Spec => []RunInv`, with `RunInv == TypeOK /\ OutcomeSet /\
  OneLivePerSession`, what every step preserves by itself and what the other
  proofs start from. `OutcomeSet` (a task that writes or announces an outcome
  has one) is needed because PersistOutcome writes `task[t].out`, which must not
  be a live status. There is one step per action for the types; for the sessions
  every step falls into one of three lemmas: the status column is unchanged, a
  row leaves the live statuses, or a row becomes live under the index. `OneLive`
  follows.
* `BooksKept`: `Books` relates what is spread over the system: tasks are numbered
  by delivery and keep run and pod, a run is on the queue only after its request
  published it, only an aged run is expired, failed attempts are faults, hooks
  fired for a run have a task past them. `AllStored` says of a task that alone
  worked on its run that the row holds its outcome from the write on. Together
  they are inductive. `Durable` (`OutcomeDurable`) and `AnnouncedOnlyIfStored`
  (`AnnouncedIsStored`) follow.
* `MapsKept`: `CancellersExact` is inductive with `Books`; `IntentKept` (a cancel
  between its two map operations finds its intent) and `EndedByCancel` (the
  cancel function of a run's only task is called only after a cancel of the run was
  recorded on its pod) are inductive with it, with deadlines and faults.
  `MapExact` and `CancelIsCancel` (`CancelIsNotTimeout`) follow.
* `UncancelledKept`: without faults every pod is up, a run is delivered once, an
  intent lasts until the task returns, a cancelled row was named by a request, and
  `PastCheck`: a task past its two checks runs a run that is not cancelled, and
  the requests that named it have not written the row. `CancelledStays`
  (`NoResurrection`, an action property) follows.
* `CalmKept`: while nothing failed, no time passed and no cancel named a run
  (`Calm`, the instance of `run_calm`), the row of every run is what the position
  of its request, its message or its only task says (`RowFollows`).
  `CalmRunnersApart` (`Calm => NoConcurrentRunners`) and `CalmActiveHasWorker`
  (`Calm => ActiveHasWorker`) follow: two runners on a session would be two active
  rows, which `OneLivePerSession` excludes. Without `Calm` both are false, by
  design: an expired run is replaced while its runner goes on.

`AgentLoopProofs`, for any batches of calls, limits, history window, numbers of
runs, replies and faults, and whichever replies bring a response id:
`SentIsWellFormed`, `ResultsFollowCalls`, `OmittedIsCovered`,
`RunAnnouncedOnce`, `LoopKeepsLog`. The invariant has six parts.

* `EndInv`: an announced end is marked and only the run-end hooks and the cleanup
  follow it; a run that has not marked one has not announced one.
* `ErrorInv`: a run with a recorded error is at its cleanup and has not
  announced its end, so the cleanup stores no message after an announcement.
* `RowsInv`: every result has its call at the same distance before it
  (`Grounded`); while a reply is open, rows and messages end with it and with the
  first results of its calls, in their order.
* `ChainInv`: `sent` is 0 before the first reply; the response of the kept id
  has seen no more than what was sent, and exactly that unless a reply without
  an id came after it (`lapsed`).
* `RepairInv`, as long as none of the five causes applies: every stored reply is
  answered in full or not at all, but for the one being answered, and no id is
  used by two replies, because a reply's ids bear its number.
* `SentInv`, likewise: between turns the conversation is complete, during a turn it
  is but for the results to come.

`LoopKeepsLog` is the refinement `Spec => KeepsSessionLog`, from `EndInv` and
`ErrorInv`: `LogStep` maps every action to a step of `SessionLog` or a stutter.
Appended notes are `Write`, a stored reply or result is `Reply` or `Result`
(`PendingCalls`: storing a result takes the first of the pending calls), every
failure is `GiveUp`, a note of a run-end hook is `Remark`, the cleanup is `End`.

That a run starts complete is where the repairs come in (`HistoryCompletes`). The
filter looks for ids, not for places: it drops the right replies because ids are
distinct and results directly follow their calls (`FilterCompletes`); the sanitizer
replaces or drops only messages without calls, and never one between a call and
its results (`SanitizerCompletes`); a window that does not start with a result cuts
no turn (`PartRepairable`). Both repairs are recursive functions over the length
of the history. The library's induction theorems take an operator as parameter and
cannot be used, so `ValuesExist` and `UpTo` prove what is needed from the smallest
number at which it would fail (`LeastNumber`, from the well-foundedness of Nat).

`ToolProofs`, for any tools, rules, batches and number of turns: `PermittedOnly`,
`BoundedEffects`, `AccountsAgree`. The invariant `TurnInv` adds to the three
properties what the calls handled so far have sent (`SentSoFar`), that a call is
counted before it is executed (`CountedFirst`), and what the marks say of the
store.

In the same module, for any number of calls, slots and cache entries:
`BatchesAreSafe`, all six parts of `BatchesSafe`. `WritesAreOrdered` needs that the
calls of a batch are consecutive, that a batch with a write has no other call,
and that later calls have not begun; the semaphore bound needs that the slots
taken are exactly the goroutines inside (cardinalities, `FiniteSetTheorems`);
the cache needs that the order list has no duplicates and lists the entries.

`RunPartsProofs`, for any number of attempts, any chain of fallbacks and any
errors: `CallIsSafe`, all parts of `ModelCallSafe`. The invariant bounds the
requests by position: the attempts of the primary so far, then the fallbacks.
For any runs, tenants, servers and threshold: `TrippedOnlyForCause`. The counter
of the breaker is the row of failures since the last success (`FailuresCounted`);
what may still fail on a tripped server is bounded by the calls in flight, of
which the one that tripped it is no longer one (`LateBounded`, a cardinality).

For any sub-agents, slots, costs and budget, and any share and slack of the
level below: `SubtasksAccounted` and `OverspendIsBounded`. `CostInv` says that
the tracker holds the initial cost and what the settled children reported,
truncated; and that what those reported and the others may still cost
(`Committed`: the share of a grant and the slack) sums to at most the slots
times what one slot can commit. `ChildInv` says that a child within its loop has
spent its grant at most as far as its own sub-agents overran it, so that one
call more and their overrun are the slack; `ReportInv` that what has ended is
reported in full, and that only a denial escalation makes the cost differ from
what is counted. The sums are those of a recursive function over sets
(`SumOver`), whose facts are proved from a smallest set at which they would
fail; `SumIsFold` says that the fold of the module is this sum.

`UserInputProofs`, for any runs, pods, requests and answers:
`WaitingIsReachable` and `AnswersDoAgree`. The invariant `InputInv` follows an
answer from the client to the row and to the run:

* `RequestAt`: a request that waits is in the queue it was put in, of its own run
  unless the session was disturbed; only consents of one run share an id;
* `EntryAt`, `Taken`: an entry with an answer has one that was given to it, or to
  another consent of its run after a cancel or a repeated answer (`Displaced`);
* `AnswerAt`: once Respond has handled an answer, its request has been told, or
  one of the excuses of RowAgreesWithRun holds already (`Told`, `Excused`);
* `RowAt`: the answer in a row has been handled by Respond before, and is for that
  row's request or a sibling's.

An answer that Respond finds nothing to do with is excused because the request,
if reachable, holds another answer already, so one of the two was a repetition
(`NothingOpen`); one that it gives to another request than it was for is displaced
because the request it was for has an answer or was given up (`RespondTakes`).

`ServicesProofs`, for any numbers of creations, deletions, backfills and faults:
`ExposedIsProvisioned` and `CleanCompletes`. The invariant says at every step of
a creation or a backfill what of schema, realm, secret and administrator is
there (`CreatorAt`, `BackfillAt`, `CleanAt`), as long as no other work has
overlapped; that a clean creation is alone is an invariant of its own. A clean
creation that answers without an error has given its account the admin role; one
whose account was left over answers an error, and the theorem says only that
there is one.

In the same module, for any number of requests, tokens, edits and faults:
`StoredRefreshGood` and `ServedCurrent`. For the first: a refresh token is held
by one request in flight or by the row, never both; the request that spent the
stored token holds the good one until Save, unless a fault lost it. For the
second: the configuration a request read is at least the one applied when it
began, and the cached token is of the applied configuration unless a race was
recorded.

**What the proofs taught about the models.** `ServedIsCurrent` was not inductive
as first written: its exception for a put that an edit overtook was narrower
than what PutToken allows, which TLC's bounds hid; `raced` now records exactly
the puts of a token whose configuration was replaced meanwhile. GetByID had two
CASE arms that could both apply. `AnswersTheRequest` excused a consent only for
a cancel or a repeated answer to the consent that its answer was given to; but
the shift goes on: with three consents, a repeated answer to the first gives the
second's place to the third's answer, although neither was repeated. The bound
of the run was two; TLC confirmed the case with three, and `Displaced` now says
it. The properties of `ChatRun` about cancels were only true of one pod or one
delivery and are now stated for any, with the condition they need.

**Assumptions.** `CapacityAssumption`, `MaxEventsAssumption`,
`NoEventAssumption`, `ClientAssumption`, `EventsAssumption`,
`ChatRunAssumptions`, `ToolTurnAssumptions`, `BatchesAssumption`,
`ToolBatchesAssumptions`, `TurnsAssumption`, `ModelCallAssumption`,
`McpAssumption`, `SubtasksAssumptions`, `ConversationAssumptions`,
`AgentLoopAssumptions`, `UserInputAssumptions`, `TenantAssumption`,
`OAuthAssumption`: types and signs of the constants and distinctness of "none"
values. TLC evaluates each in a run.

**Only model-checked.** All liveness, which is out of the prover's reach:
`AcceptedRunFinishes`, `StuckSessionRecovers`, `EventuallyCloses`, `RunEnds`,
`BatchesEnd` and `StreamsUnlessOvertaken`. Every other property of a passing run
is stated by a theorem.

## 6. Not modelled, and the plan

Not modelled: the registry of event buffers (a map that only grows), the legacy
in-process streaming path, the run rows of triggers (unreachable, see above),
approvals, webhooks, registry and marketplace. Concurrent structures
without a production caller (ConcToolExecutor, Mailbox, BackgroundSubagentRegistry,
CommandQueue, FlushGate, QueryGuard, ConsolidationLock, BackgroundTaskTracker,
BatchUploader) are left out on purpose. Most of the repository's lines are CRUD
services, adapters, prompts and static data, for which a state machine would only
repeat the statements.

Next, in order of importance:

1. `BackgroundRuns`: the in-memory registry, its TTL, runSession's live channel
   against the replay of `ResumeStream`.
2. Approvals and webhook deliveries.
3. A run as its user sees it (accepted, then one outcome) as an abstract
   specification of `ChatRun`.

Not planned, with the reason in `PROJECT.json`: CRUD services, I/O adapters,
static data, aggregate queries.
