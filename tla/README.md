# CEO-OS: TLA+ models, model checking and proofs

CEO-OS is a FastAPI service (`apps/api`) around a durable task runtime (LangGraph over a
task table), a bounded workforce of agents, a capability registry filled by memory,
computer, browser, vision and integration tools, a voice runtime, and a separate local
voice assistant (`jarvis`). This directory holds TLA+ modules for the parts whose
correctness depends on interleaving, loss and order, the TLC runs that check them on small
instances and TLAPS proofs that hold for every value of their constants.

Run a model with `tlc -config <run>.cfg <module>.tla` and a proof module with
`tlapm <module>.tla`; `PROJECT.json` lists runs, mutants, hazards, theorems, and for every
definition the lines it models.

## 1. Inventory

| Component (source) | State | Operations | Interacts with |
|---|---|---|---|
| Task runtime (`runtime.py` CeoRuntime, TaskRunner; `database.py`) | tasks and task_steps rows, LangGraph checkpoint, `_running` | create, execute (plan, control, execute, success, cancelled), start, recover, shutdown | endpoints and voice start runs; capabilities; memory (episode); event hub |
| Task lease (`database.py` acquire/renew/release, TaskRunner._heartbeat) | lease_owner, lease_expires_at | acquire, renew, release, lapse | every API process on the database |
| Agent runtime (`agents/runtime/runtime_service.py`, `agents/repository.py`) | agents, assignments, messages rows; `_running`, a semaphore | create, clone, update, pause, resume, terminate, assign, delegate, shutdown | tools call delegate inside a task step; endpoints; event hub |
| Event hub (`events.py`) | history deque, websocket set | connect, disconnect, publish, recent | everyone publishes, and an exception of a websocket reaches the publisher |
| Capability and integration registries (`core/capabilities.py`, `integrations/registry.py`, `mcp_adapter.py`) | tools by name, provider states, listeners | register, unregister, connect, disconnect, execute | `_sync_integration_tools` (main.py) re-registers on every change |
| Memory (`memory/service.py`) | memory rows with status, supersedes_id, access_count | create, get, search, correct, delete, record episode | task runtime, tools |
| Voice (`voice/runtime.py`) | one session, generation, active task, speech task | append, commit, interrupt, stop, resume, transcript pump | submits, waits for and cancels tasks |
| Jarvis (`jarvis/backend`) | manager state, session, playback generation, wake word, usage rows | activate, end, watchdog, callbacks, directive, tools | Gemini socket, audio devices |
| Computer, vision, browser (`controller.py`, `runtime.py`, `engine.py`) | stop flag, generation, lock, effect cache | execute, stop, resume | capability registry |
| OAuth, secrets (`integrations/oauth.py`, `secrets.py`) | pending states, tokens, vault entries | initiate, exchange, revoke; register, lease, expire | integration providers |
| Telephony, restaurant workflow, messaging (`communications`, `workflows/restaurant`) | calls, messages, calendar events, memories of them | place, end; book; send, draft, follow up | Google client, memory, tools |
| Skills, proactive, production engines | skill definitions and statistics, triggers, insights, goals | create, version, disable, execute; evaluate; validate | endpoints, tools |
| CEO agent, Jarvis tools (`ceo_agent`, `jarvis/backend/tools`) | a run's messages and steps, trajectories, permissions | run, spawn; set permission | capabilities, LLM |
| Planner (`planner.py`) | none | text and registered names to a plan | task runtime, every tool |
| Google and Meta clients | events, mail; campaigns and the objects below them, figures | create, update, report | tools, endpoints |
| Agency, gstack, auto-builder, intelligence | history of builds | reports; build a provider | integration registry |
| Schemas, settings, dashboard, macOS helper | - | declarations and I/O | - |

What makes each hard, and what would make it correct:

- **Task runtime**: three sources of runs (submit, resume or cancel, recovery), a control
  column that is read at one await and acted on at another, checkpoints that lag the
  tables, retries that re-enter a node, a crash anywhere. Correct: one executor at a time,
  steps in order and each completed once, no success without evidence, no stranded task.
- **Lease**: clocks of several processes, late statements, heartbeats that die silently.
  Correct: no two executions while the heartbeats are healthy.
- **Agent runtime**: status checks against stale records, cancellation delivered at any
  await, a permit held across it, a clean-up loop that others can disturb. Correct: permits
  conserved, what is reported is recorded, no worker left, termination final.
- **Event hub**: publish fails in the middle of somebody else's update.
- **Jarvis, voice**: teardown re-entered from callbacks, watchdogs and new sessions, and
  generations that make late audio harmless. Correct: one session, idle means disconnected.
- **Memory**: read, await, write; row locks on one database and none on the other. Correct:
  one active successor, one row per key.
- **Controllers**: emergency stop against queued actions and drivers that never answer.
  Correct: nothing begins or succeeds across a stop, what is under way ends, no process,
  cached result or browser context is unaccounted for unless closing one raised.
- **Registries**: every change unregisters and re-registers every integration tool, while
  servers connect and fail. Correct: what is offered belongs to a provider that is there.
- **Submission, calls, bookings, skills, executive**: keys that make a repetition harmless,
  across awaits and restarts. Correct: one task, call, event, budget or count per request.
- **Planner**: fifty-five intents in order over a hundred tools. Correct: every command is
  planned, or the first other intent that applies, and every step names a served tool with the
  arguments it needs, except the one step of `run <tool>`, whose arguments the message writes.

## 2. Modules

| Module | Models | Extended by |
|---|---|---|
| `TaskLedger` | what a task's row and evidence promise, abstractly | instantiated by `TaskRuntime` |
| `TaskRuntime` | one task through CeoRuntime, TaskRunner, the endpoints | `MCTaskRuntime`, `TaskRuntimeProofs` |
| `TaskLease` | one task's lease among processes | `MCTaskLease`, `TaskLeaseProofs` |
| `AgentRuntime` | delegations, assignments, lifecycle calls, shutdown | `MCAgentRuntime`, `AgentRuntimeProofs` |
| `JarvisSession` | the local assistant's manager, Gemini sessions, watchdog, wake word | `MCJarvisSession`, `JarvisSessionProofs` |
| `EffectGate` | the promise of a stop order, abstractly | instantiated by `GatedCalls` |
| `GatedCalls` | stop flag, generation, lock and task of the three controllers | the next three, `GatedCallsProofs` |
| `ComputerController` | the macOS helper's requests behind the gate | `Effects` |
| `VisionRuntime` | window listings, effects and the effect cache behind the gate | `Effects` |
| `BrowserEngine` | contexts and sessions behind the gate, shutdown | `Effects` |
| `Effects` | the three controllers together | `MCEffects`, `EffectsProofs` |
| `Planner`, `Catalog` | the intent table; every tool with risk and needed arguments | `Platform`, `MCPlatform` |
| `CapabilityRegistry` | integration registry, MCP and native providers, auto-builder, the listener | `Platform` |
| `Credentials` | OAuth states and tokens, the vault | `Platform` |
| `MemoryLedger` | what each request to the memories does, at one instant | instantiated by `MemoryService` |
| `MemoryService` | memory rows between reads and commits | `Platform` |
| `VoiceSession` | a voice session: socket loop, pump, speeches, result watchers | `Platform` |
| `Submission` | how a task comes to be, by message, voice or chat, over restarts | `Services` |
| `SkillLibrary` | skills, their versions and executions | `Services` |
| `ReasoningLoop` | the executive's reason/act loop, subagents, trajectories | `Services` |
| `Outreach` | calls, bookings, mail, messages, calendar | `Services` |
| `AdAccounts` | Meta campaigns, objects below them, figures | `Services` |
| `Oversight` | proactive triggers and goals, the confidence gate | `Services` |

`Services` composes the six parts that tasks call (`ServicesProofs` has their theorems),
`Platform` those and the parts tasks rely on (`PlatformProofs`); `MCPlatform` is an instance
of `Platform` for one run. These parts share no state with each other in the program (a task
calls them one at a time), so an interleaving of two of them shows nothing that each alone
does not: a variable `which` names the part that a behaviour runs, and every part is an
initial state. `Effects` does the same with the three controllers. Each part has a
specification of its own beside (`SkillSpec`, `VoiceSpec`, ...), which is what its theorem
is about and what `Spec` implies.

In all modules **one step is the code between two awaits** of one coroutine: asyncio
interleaves nothing finer. Definitions whose comment starts with "Mutant:" are not part of
any behaviour; each is a plausible bug of the definition after it, and shows that a
property depends on the code (PROJECT.json, `mutants`).

### TaskRuntime

| Code | Model |
|---|---|
| tasks row: status, control, lease, plan | `status`, `control`, `lease`, `plan` |
| task_steps rows | `steps[i]`: status and capability; `attempts` is only logged and is left out |
| LangGraph checkpoint, in-memory graph state | `ckpt`, `g[r]`: next node, step index, plan, resume token |
| asyncio tasks in `_running` | runs `1..nrun` with `pc[r]`, the await each is at |
| endpoints between their check and their write | `req[c]`, with the status that was checked |
| loss of the process, restart | `up`; `Crash`, `Shutdown`, `Restart` |

`RunStep(r)` is `_run` and, inside it, `execute` and the nodes; `WriteControl` and
`StartRun` are the two halves of an endpoint after its check (`Accept`). One task is enough:
no operation touches another task's rows. LangGraph is modelled from how the code uses
it: a node's result becomes the state of the next superstep, the checkpoint is written
some time later (`Persist`) and flushed when the graph is left by a normal end, an
exception or a cancellation; `interrupt` re-runs its node when resumed, with a token that
lasts for the first superstep; a finished graph does nothing. The planner may answer with
any plan of `Plans`, and with another one when it is asked again, because the configured
provider may be a language model. A capability may succeed, fail for good or fail
transiently. Statements outside the graph's error handling are assumed to succeed while
the process is up.

`TaskLedger` keeps of all this the status, the plan, the set of steps with evidence, and
whether the work is `closed`: evidence grows in the plan's order, success needs all of it, a
final status ends planning and execution, and a task that is closed is written to no more
but by a resume's QUEUED. `TaskRuntime` implements it with `evidence` mapped to the rows that
are successes and `closed` to a persisted graph that has ended. Its `Overwrite` is the part of the promise the code does not keep: an exception
while a final event is published, and a late resume, write over a final status.

### TaskLease

`AcquireLease`, `RenewLease` and `ReleaseLease` are the three UPDATE statements; each is
atomic and stamps the time its process read up to `Latency` earlier on a clock up to
`MaxSkew` ahead. A heartbeat can raise (`HeartbeatFails`) or be arbitrarily late (`Tick`
does not wait for it), and `_run` works on in both cases, as in the code. `TaskRuntime`
uses the outcome in a single process: its lease is held while its process is up, and
expires only after a loss.

### AgentRuntime

`at[j]` is the await of assignment `j`'s `_execute_assignment`, `deleg[d]` the place of a
`delegate` call, `call[c]` a lifecycle call between its check and its write. `doomed` holds
cancellations on their way: `Unwind` delivers one at the coroutine's current await, with
the statement it was waiting for applied or not, and sends it to the handler the code has
there. `Fault` is a publish that raises: `EventHub.publish` catches RuntimeError only.
`Shutdown`, `ShutdownEnds` and `CancelDelegate` are the shutdown order of `main.py`
(agent runtime first, task runner later). Abstracted: budgets, templates and authority
checks of `create_agent`; the FIFO order of the semaphore; `update_agent`, which changes no
field the model has. A loss of the process is not modelled: the documents leave
assignments of a lost process to future work.

### JarvisSession

| Code | Model |
|---|---|
| `JarvisAgentManager.state`, `_is_running`, `active_session` | `state`, `running`, `active` |
| wake word manager, not paused | `listening` |
| coroutines made by `create_task` and not started | `ready`, in the order they were made |
| `activate_session` of session `k`, at its awaits | `place[k]` |
| `GeminiLiveSession._running`, its websocket | `up[k]`, `sock[k]` |
| `end_session` waiting for `socket.close` | `closing` |
| rows the cost tracker writes for a session | `usage[k]` |

`ready` is served first in, first out, as asyncio does; request handlers, microphone frames
and completed I/O may come between any two, which is more than asyncio allows and sound for
safety. The watchdog's `stop` cancels the workers and so the watchdog itself: `Watchdog` is
cut short at the first await of the close, unless the connection is already lost and the
close need not wait. The websockets library is modelled from its use: the close frame is
written before the close first waits, and connecting and closing have time limits.

`rushed` is history, not state of the code. A call is *in time* when the manager is settled
(in none of its transitional states, nothing queued), when no session is asked of a stopped
agent, and when no wake word is heard while an activation is queued. Two invariants speak of
behaviours whose calls are all in time, because the code does not keep them otherwise (see
Findings); watchdogs, failed connections, drops and queued callbacks may happen at any
moment in both. Abstracted: audio frames, transcripts, tool calls, directives, mute,
settings, and the playback generation.

### The controllers: EffectGate, GatedCalls and three users

| Code | Model |
|---|---|
| `state.stopped`, `state.generation` | `stopped`, `generation` |
| the `asyncio.Lock` of a controller | `holder`, and `queue` of its waiters in order |
| a call: before it, waiting, holding the lock, its driver task made, ended | `at[c]` |
| the local `generation` of `_run` / `execute` | `seen[c]` |
| `task.cancel()` on its way | `doomed` |

`Admit`, `Enter`, `Dispatch`, `Return`, `Unwind`, `Abandon` and `Refuse` are the pieces of
`_run` (vision, browser) and `execute` (computer) between their awaits; the computer
dispatches in a step of its own because it may first ask for the frontmost application.
`EffectGate` says what documents 07 and 08 promise of a stop: it knows only a call's phase
and which calls an order has overtaken. `GateKept` is its specification under a refinement
mapping: `Phase` merges waiting and holding, `Barred` is the set of calls under way that
were admitted in an earlier generation. What is particular to each controller is beside
the gate: `ComputerController` has the helper processes (`cut`: those whose request was
cancelled and that nobody kills), `VisionRuntime` the listing an effect was checked against,
the desktop that changes under it and the cache under a caller's key, `BrowserEngine` the
contexts, the sessions that name them, the sweep of a stop that waits for the call it has
cancelled, the shutdown, and what either leaves open when closing a context raises
(`SweepRaises`, `ShutdownRaises`, kept in `left`). Abstracted: pixel scales, URL and path
policy, the tabs of a session.

### Planner and Catalog

`Planner!Intents` is the table of `DeterministicProvider.plan` in its order: what an intent
`hears` (groups of phrases, one of each is needed), what it `needs` registered and the
steps it plans, each with the names of its arguments. A message is the set of phrases it
holds; `Consider` decides on one intent and `AddStep` appends one step of it, so a behaviour
walks the chain of `if`s. `Catalog` lists
the tools `create_app` registers, with their class of risk and the arguments their
`execute` raises without.

### CapabilityRegistry and Credentials

`InstallMcp`, `Ingest` (the auto-builder), `Uninstall`, `Start` and `Shutdown` are the
operations of `IntegrationRegistry`; a native provider connects within a step, an MCP
provider is awaited (`Connected`, `Disconnected`) and may fail, and `Synced` is what the
listener leaves offered: local tools and those of healthy providers in order, up to the
first name that is taken. `Credentials` has no awaits: state tokens are single-use and
expire, tokens are vault entries, and time is a counter.

### MemoryService and VoiceSession

A memory request is at its read, its lock or its commit (`request`), so two of them
interleave as two database sessions do; `RowLocks` says whether `with_for_update` locks.
`MemoryLedger` keeps the rows and the answers only: a request stores a memory under a free
key, finds the one that has it, replaces an active memory by its correction or removes one,
in the instant it is answered. `MemoryService` implements it without renaming a variable;
searches, refusals and the first halves of requests are stutters. That a memory is superseded
by one other at most and a key names one row (`OneSuccessorOneKey`) follows, and is proved by
itself too.
`VoiceSession` has four kinds of actors: `loop` is the socket's coroutine, `pump` the
transcripts', `watchers` one per task, `voices` the speeches; `vgeneration` and
`speechGeneration` are the counters that make late answers harmless.

### Submission, SkillLibrary, ReasoningLoop

`Look`, `Insert` and `LookAgain` are the three statements of `TaskRepository.create`;
`Announced` and `PublishRaises` what follows the commit; chats use a fresh key. What becomes
of the task is `TaskRuntime`'s, but for what decides whether anybody works on it: the gate that
reads a pause and then parks (`MeetGate`, `Park`), the end of a run, the runs that wait behind
it (`behind`: one or more), pause, cancel and the two halves of a resume. A `Restart` executes
what is recoverable. In `SkillLibrary` an execution keeps the definition object
and the list of steps it began with while the shelf changes. In `ReasoningLoop` a run is
suspended at the model, a tool or a subagent, and its status is judged at its end from
what its calls did. A call is its name and whether its arguments are an object, which the
parser does not check: `ConcludeRaises` is the summary that raises over one that are not, so
the run ends unrecorded and the call of its parent is an error. Any name with the prefixes
`browser.`, `macos.` and `media.` before the name of a Jarvis tool reaches that tool
(`JarvisServes`).

### Outreach, AdAccounts, Oversight

`Outreach` is everything the process does to the outside over its deterministic providers,
with the two memory writes of a booking as the only places where it can be cut off, and a
loss of the process that keeps the memories only. `AdAccounts` has the objects and the
figures made at the first report; budgets are any integers, as the tools pass on whatever
number they are given (the HTTP schemas refuse negative ones). `Oversight` evaluates the
enabled triggers over metrics with overrides and weighs confidence against risk.

## 3. Runs

| Run | Instance | Shows |
|---|---|---|
| `task_core` | two plans (one and two steps), two clients, 4 runs, 2 requests, 1 loss | `OneExecutor`, `CheckpointBacked`, `SuccessHasEvidence`, `StepsInOrder`, `LedgerKept` (refinement) through retries, pauses, crashes, re-planning and recovery |
| `task_settles` | one plan of two steps, two clients, 3 requests, 4 runs, no loss, fair | `RunsEnd`, `TaskSettles`, `RestIsSettled` |
| `lease` | three processes, one clock ahead of another, TTL 6, beat 2, 20 ticks | `NoOverlap`, `UnexpiredLeaseKept` |
| `agents_core` | a delegation of one, a hired agent, an assignment, one permit, 2 lifecycle calls, 1 fault | `PermitsConserved`, `CompletedIsRecorded`, `OutcomeKept` |
| `agents_cleanup` | a delegation of two, one termination at any moment, fair | `WorkersRetired`, `DelegationEnds` |
| `jarvis` | four requests or wake words, fair | `IdleMeansDisconnected`, `TeardownsHitTheirOwn`, `UsageRecordedOnce`, `ManagerSettles` |
| `effects` | each controller with three calls and two orders, fair | `OneHelper`, `ReportsAreBacked`, `ContextsAreOwned`, `GateKept` (refinement), `StopReleases`; 225,846 states |
| `platform` | one instance of each of the other parts | nine invariants, an action property and a refinement (`TypeOK` and those below); 1,030,230 states |
| `cancel_lost` | one client, 2 requests | **violated** `CancelIsTerminal` |
| `abandoned_work` | one loss, fair | **violated** `AbandonedWorkRecovered` |
| `agent_resurrected` | two clients, 2 lifecycle calls | **violated** `TerminatedIsFinal` |
| `watchdog_silent` | one call, one session, fair | **violated** `InactivityReturnsToWake` |

What `platform` shows, and of which instance:

| Property | Part and instance | Says |
|---|---|---|
| `PlanIsFirstIntent`, `PlansAreServed` | planner: every phrase alone, neighbouring intents and commands with any intent, registries that lack what an intent needs | at every point the plan holds the ready steps of the commands so far, or of the first other intent, each once and in order; its steps are served, with the arguments they need (but that of `run <tool>`, which is the whole plan then); tool names differ and stay under their integration's ceiling |
| `ToolsFollowProviders` | registry: five providers, two names that clash, failing servers | what is offered is local or of a healthy registered provider (or one being disconnected), local tools stay, and unless names clash every tool of a healthy provider is offered |
| `StatesGrantOnce` | OAuth: two providers, expiring states and tokens | a state token is exchanged at most once and then gone; two providers never share a credential |
| `RequestsAreAtomic` | memory: three rows, three requests, PostgreSQL's row locks | the service implements `MemoryLedger`: what a create, a correction or a deletion read before its commit still holds at it, hence one successor of a memory and one row per key |
| `WithdrawnIsSilent` | voice: two turns, two stops | the result of a task an order took back is never told; nor is one that was awaited when the session was stopped, or waited for a speech to end when it was stopped or interrupted, told or spoken afterwards; one whose message is just being sent is still spoken (Findings) |
| `RunsAreAccounted` | skills: one id, two definitions, two executions; executive with an analyst, two turns, two calls, one of them malformed | outcomes agree with the steps and are counted once; a run that leaves no record was cut off or had a malformed call |
| `OneTaskPerKey` | two callers of one key, one of whom may bring a chat or an utterance instead, pauses, resumes and cancels of the first task, two lives of the process | one task per key, of which one caller is told that it is new; once its creator is answered it is worked on, ended or paused (WAITING under PAUSE or CANCEL), unless the process was lost or a resume that was checked earlier wrote QUEUED over the end of its graph |
| `OutreachIsBacked` | two bookings, a listed and an unlisted place, two calls and events, a lost process; two campaigns, budgets of −$5, 0 and 60 cents | a place is rung once for a time; a confirmed booking has a known call for its place and time and an event of its own; a campaign's reports agree on one figure that a budget of it explains |
| `OversightIsSound` | six triggers, the custom one created enabled or disabled, three evaluations | the gate is monotone; an enabled trigger has fired as often as an evaluation met its condition, one created disabled never |

**Why the bounds are enough.** Two steps are the least that have an order; two plans are
the least that let a re-plan disagree with the stored rows; three requests of two callers
contain a pause, the resume that ends it and another that was checked before and is written
after the resumed run has ended; a pause and a resume need two
requests, and a third run is one that waits behind an active one while a fourth can
recover. One loss followed by a restart contains every window between two durable writes.
Two workers and one permit make workers wait for each other; one worker with a hired agent
is enough for two tasks registered under one name. Three processes let a lease lapse,
be taken and be released late by the first. Four calls to the Jarvis manager make two
sessions and end both, or make two and leave two calls that interfere. Three
calls to a controller are one that holds the lock, one that is next and one behind it, and
two orders are a stop and the resume that would let an overtaken call pass. The other parts
need two of whatever contends (requests for a row, callers of a key, executions of a
skill, bookings of a place) and one event that disturbs both: a second definition, a
restart, a stop. Tasks do not meet each other beyond their key, so only the first one
submitted is paused, resumed and cancelled (`Steered`), and a resume that is late needs no
more than the pause before it. Where a theorem is listed below, the proof removes these bounds.

**Deadlock** is not checked: a task ends, an assignment ends and the bounded clock and
budgets stop, so every instance has legitimate final states. What must not hang is stated
as liveness.

**Fairness.** `TaskRuntime`: weak fairness of each run's step and of the second halves of
accepted requests; asyncio serves its ready queue in order and the database answers. Nothing
makes a client ask, a process crash, a lease expire in a live process or the checkpoint be
written early. Retries are finite because the policy stops after three attempts.
`AgentRuntime`: weak fairness of each assignment, of each delegation and of an accepted
assign; the semaphore serves its waiters and `asyncio.timeout` ends every executor call.
Lifecycle calls and shutdown are never assumed. `JarvisSession`: queued coroutines start,
connecting and closing end by their time limits, the back-off is a sleep and the watchdog's
clock runs; no call, and no drop of a connection, is assumed. `MCEffects`: asyncio delivers
cancellations and wakes the waiters of a lock, and the frontmost query of the computer
controller has a time limit; neither drivers nor pages are assumed to answer, so
`StopReleases` rests on cancellation alone. `platform` checks safety only.

### Findings

1. **A cancel can be lost** (`cancel_lost`). `_control` reads PAUSE, then awaits the write of
   WAITING. A cancel in between stores CANCEL, sees a status other than WAITING and a live
   run, and starts nothing; the run then interrupts. The task rests at WAITING.
2. **Recovery looks once** (`abandoned_work`). A restart within `lease_seconds` of a crash
   finds the old lease alive and skips the task; there is no later sweep.
3. **A terminated agent can come back** (`agent_resurrected`). Lifecycle calls check a record
   and write a status after an await, unconditionally.
4. **The watchdog ends a session and tells nobody** (`watchdog_silent`). It calls `stop`, which
   cancels it; `on_session_ended` is not reached. The manager stays ACTIVE with a stopped
   session and the wake word paused until somebody ends the session.

The models contain more behaviour of this kind, for which no property is stated because
the code permits it: a resume or cancel that was checked before a task ended writes to the
terminal task (main.py:1403, 1411), and when its graph is finished it stays QUEUED for ever,
because a run of a finished graph writes no status (one caller gets there with a pause, a
resume, a pause that the resumed run steps over and a late resume); a pause during the first superstep of a resumed run
finds the resume token and is dropped (runtime.py:151); a run that begins with CANCEL stored
and its checkpoint at `execute` performs that step before it reads the column
(runtime.py:108); a re-plan after a crash reuses step rows by index (database.py:203); an
assignment cancelled before its `try`, or twice, keeps QUEUED or RUNNING
(runtime_service.py:371-378); and a termination racing the clean-up loop makes `delegate`
raise with the remaining workers active (runtime_service.py:324), which is why
`WorkersRetired` speaks of delegations that return. In the Jarvis manager, when calls
overlap: an end during a connect stops a session without a socket, and the connection that
then opens stays open although the manager went through IDLE (manager.py:156, session.py:72);
the back-off of a failed activation, or the callback of an ended session, ends a newer
session (manager.py:154, 231); a stopped agent accepts an activation, and a start after it
reports IDLE over the connection (manager.py:88, 120); and a stop with a session leads back to IDLE
with the wake word resumed, because the teardown it queues runs last (manager.py:102-113).

More of the code's behaviour that no property forbids, met while modelling:

- *Agents.* A worker's row exists before its task is in `_running`, so a termination in
  between cancels nothing (runtime_service.py:193). Workers of the `agent.spawn` tool are
  never terminated. Directors' default tools include names nothing registers.
- *Controllers.* A computer stop leaves the helper process of the cancelled request running
  (client.py:50-57, against docs/07:19-20). A vision effect is checked against the latest
  listing before the lock and may act on a window that is gone (against docs/07:41). A
  browser stop that cuts `open_session` short leaves a context that no session names, and one
  whose first `close()` raises has forgotten every session and closes none of the rest
  (engine.py:420-426; a shutdown that raises there never closes the browser): against
  docs/08:20, "closes every context". `ContextsAreOwned` says that contexts are lost in no
  other way.
- *Registries.* The listener copies tools until the first name that is taken, so an integration
  with such a name takes the tools of every later provider out of service. An MCP provider
  removed while it connects leaves a server that no provider names.
- *OAuth.* A second exchange for a provider leaves the older credentials in the vault (the
  refresh token without an expiry); revoking removes the newest only.
- *Memory.* On SQLite two corrections of one memory both commit, and both rows are active.
- *Voice.* A stop or an interrupt that comes while `voice.task.completed` is being sent is
  followed by the speech of that result, because the speech generation is read after the send
  (voice/runtime.py:191-199, against docs/09-VOICE.md:37-39: stop "interrupts speech"); a task
  that was told and then replaced may be spoken too, and an older speech that overlaps the latest
  is not cancelled. A stop while the pump awaits a submission does not cancel that task, and it interrupts
  the latest speech only (the same lines say that a stop cancels the active task).
- *Submission.* A publish that raises strands a committed task until the next restart, and the
  retry is told it is not new. The interactive chat never starts its task: a failure leaves it
  QUEUED for the next recovery to execute, its SUCCESS overwrites a cancellation, and its
  answer is lost because `output` is no column.
- *Plans.* "call <tool>" is taken by the outbound call once telephony is registered. "run
  files.read" plans the tool without a path, and the step raises (planner.py:1059-1081). A
  step's `timeout_seconds` is not used.
- *Skills.* `qualify_lead` passes its dry run and fails every execution. A version made during
  an execution makes `total_steps` differ from the steps executed.
- *Executive.* It calls tools of class R2 without an approval and outside its
  `allowed_capabilities`; Jarvis tools under ASK run as under ALLOW, and their failures, like
  unknown names, answer with a simulated success; a subagent that FAILED counts as a
  successful call; making a plan of a run carries out its Jarvis tools. A call whose arguments
  are a string, a list or null (parser.py:67, 103) makes the summary raise outside any `try`
  (agent.py:184, sanitizer.py:39): the run leaves no trajectory, and a parent's spawn fails.
- *Outreach.* The booking key ignores party size and name and the event is always at 19:00 on
  one date; an unlisted place is rung again, and an event written again, when a cut-off
  booking is executed again; scheduled mail is never sent, and follow-ups never run.
- *Ads.* `launch_meta_campaign` names tools the catalog does not have, and reports a simulated
  success (against plans/MILESTONE-18:37). `meta.campaigns.create` and `.update` accept a
  negative budget (integrations/meta/tools.py:159, 208), which is reported as a negative spend.
- *Oversight.* Automatic actions name a tool nobody registers, or lack arguments. Nothing
  calls `record_cost` or `record_agent_telemetry`. `risk_ceiling` is enforced for MCP only.

## 4. Proofs

| Module | Theorem | Assumes |
|---|---|---|
| `TaskRuntimeProofs` | `TypeCorrect`, `MutualExclusion`, `CheckpointsAreBacked`, `SuccessIsEvidenced`, `StepsRunInOrder`, `CompletedStepsAreKept`, `LedgerIsImplemented` | the constants' assumptions |
| `TaskRuntimeProofs` | `RestIsAlwaysSettled` | also `MaxCrashes = 0`: the process is never lost |
| `TaskLeaseProofs` | `TypeCorrect`, `LeaseExcludes`, `LeaseIsKept` | `TimeAssumption`: beat + lag + latency + skew fit in the TTL |
| `AgentRuntimeProofs` | `TypeCorrect`, `NoPermitLeaks`, `ReportsAreRecorded`, `OutcomesAreKept` | finitely many jobs, workers distinct |
| `AgentRuntimeProofs` | `DelegationsCleanUp` | also `Ops \subseteq {"terminate"}` |
| `JarvisSessionProofs` | `TypeCorrect`, `NoDoubleBilling`, `IdleIsFree`, `LateTeardownsAreHarmless` | `MaxCalls \in Nat` |
| `GatedCallsProofs` | `GateTypesHold`, `GateKeepsItsPromise` | `MaxOrders \in Nat`, `None` is no call |
| `EffectsProofs` | of each controller: `ComputerKeepsItsPromise`, `OneHelperHolds`; `VisionKeepsItsPromise`, `ReportsAreTrue`; `BrowserKeepsItsPromise`, `ContextsStayOwned` | as the gate; `EffectsAssumption` (`Titled \subseteq Effects \subseteq Calls`) for vision, `SessionsAssumption` (openers and closers are different calls, every call has a name) for the browser |
| `EffectsProofs` | of the three together: `TypeCorrect`, `OneHelperActs`, `SuccessesAreBacked`, `OnlyRaisingLosesContexts`, `EveryGateIsKept` | all of these |
| `ServicesProofs` | of each service: `EachKeyHasOneTask`, `GateNeverTightens`, `OversightStaysSound`, `FiguresAreFinal`, `SkillCountsAreTrue`, `BookingsAreBacked`, `LoopTypesHold`, `RunsAreJudgedTruly` | the constants' assumptions (below) |
| `PlatformProofs` | of each part: `GrantsAreOnce`, `KeysNameOneRow`, `VoiceTypesHold`, `WithdrawnStaysSilent`, `RegistryTypesHold`, `OffersFollowProviders`, `PlansAreInOrder` | the constants' assumptions |
| `PlatformProofs` | of a part: `CorrectionsFormChains`, `RequestsTakeEffectAtOnce` | also `RowLocks` |
| `PlatformProofs` | of the whole: `PlatformTypesHold`, `PlatformAccounts`, `PlatformOutreach`, `PlatformOversight`, `PlatformSubmitsOnce`, `PlatformGrantsOnce`, `PlatformCorrectsOnce` and `PlatformRequestsAtomic` (with `RowLocks`), `PlatformOffersFollow`, `PlatformStaysSilent`, `PlatformPlansInOrder` | all of these |

They hold for any plans, clients, runs, losses, processes, clocks, agents, assignments,
permits, sessions and number of calls; for any callers and keys, skills, procedures and
executions, runs, tools and answers, bookings and places, budgets, triggers and metrics,
rows and requests, turns and stops, providers and their tools, messages and registries.

What the parts of the platform assume of their constants is what the code fixes: budgets are
integers of any sign (`BudgetsAssumption`), lives and bounds are numbers
(`CredentialsAssumption`, `VoiceAssumption`), the markers for "no row", "no run" and "no key" are no rows, runs or
keys (`MemoryAssumption`, `LoopAssumption`), the key a task step gives its call is not made as
the booking workflow makes its own (`StepKeysAssumption`), `time.now` is registered
(`LoopAssumption`), the built-in skills are definitions (`SkillsAssumption`), and the
providers registered at import have different names and ordered tools
(`RegistryAssumption`). `RowLocks` is a hypothesis and no assumption: PostgreSQL satisfies it
and SQLite, the default database, does not.

*Task runtime.* `IInv` is inductive: `Chain` (runs are numbered, only the newest is not done
or waits behind a live chain), `Held` (whoever is past acquire holds the lease, and is
alone), `Located` (a run's pc agrees with the node its graph state names), `Evidence` (a
run past its lookup knows the row of its current step), `Planned` (a graph state with a
plan has the plan of the row), with `StepsInOrder` and `SuccessHasEvidence`. None of the
properties is inductive without them: that SUCCESS has evidence needs that the graph's
index only passes recorded steps, and that needs to know where the run is. For the ledger,
`OpenWork` (a run is in the graph, or records a failure, only while the persisted graph is
unfinished) and `FinalIsOver` (a final status means a finished graph, a run on its last steps,
or nobody left) make every write of a run in the graph a write to an open task, and
`LastWords` (whoever finishes the graph has written a final status, which only a resume
hides) is what lets it close. For
`RestIsAlwaysSettled`, `PInv` names who is bound to move a task that is neither terminal nor
parked (`Attended`: a request certain to create a run, a run yet to load the checkpoint, or
one whose exits from the graph settle the task); `LeaseBacked` is what lets every successor
acquire. With a loss it is false (`abandoned_work`), hence `MaxCrashes = 0`. An earlier form,
in which a finished graph was no exception, is false from four requests on: see Findings.

*Lease.* `Renewed`: a working process whose heartbeat is healthy owns the lease, and the
lease lasts until that heartbeat may be as late as a healthy one can be. No clock that is
at most `MaxSkew` ahead has passed it, so no acquire succeeds.

*Agents.* `RowAt` ties the row to the coroutine's place, `Undispatched` says a delegation's
assignments have no coroutine before `Dispatch` (which would otherwise overwrite one that
works), and `Counted` is the conservation itself. `Retired` counts the prefix of workers
the clean-up loop has passed.

*Jarvis.* `IInv` is types, `Fresh`, `Ledger` and `Calm`. `Fresh` (nothing has happened to a
session that is not made) and `Ledger` (a session is recorded when it has been active and is
closed, and is never both active and closing) hold in every behaviour and give
`UsageRecordedOnce`. `Calm` says what each state of the manager means for sessions, sockets,
queue and listening as long as every call is in time (`Owned`, `Tried`, `Queued`, `Hears`);
without it neither `IdleMeansDisconnected` nor `TeardownsHitTheirOwn` is inductive.

*Controllers.* `GateTypeOK` is inductive as it stands: it ties the lock's holder to the calls'
places and the queue to the waiters, each once. The refinement is a step simulation, one
lemma per action of the gate: a call that begins is not barred because its generation was
compared after its last await, and nobody else acts because only the lock's holder does. A
controller's step is a step of the gate or leaves it alone, so each inherits the promise.
`OneHelper` is inductive with the types. `ReportsAreBacked` needs that a call which is done was
applied. `ContextsAreOwned` needs `Swift` (who acts while the engine is stopped is about to be
cancelled, and a stop waits for it), `Recorded` (sessions and sweeps name contexts that
exist), `Reserved` (the name of a context being made stays free until it is registered) and
`Begun` (the shutdown takes its list once).

*Services.* Each invariant is a few named conjuncts. `Submission`: a request holds the task of
its key (`HoldsItsTask`), a task is one creator's (`CreatesItsOwn`), and whatever was
handled stays so or its life of the process is over (`CreatedIsHandled`, `LivesAreOrdered`).
That a run which parks leaves the task paused or to a run behind it is `PausesHold`: a resume
that lifts the pause while the gate is at it finds the run executing and queues behind it.
`Oversight` and `AdAccounts` relate a history to the state: the firings of an enabled trigger
are the readings after its creation that met its condition, a figure is a fortnight of a budget the campaign
had. `SkillLibrary`: the steps done follow the plan the execution began with (`FollowsPlan`),
and the counters of a definition are the finite sets of executions of it that ended.
`Outreach`: the key of a call determines the place and time (`KeysOfTwoKinds`), the key of an
attempt at an unlisted place names the call that was next (`AttemptsAreCalls`), so no two
calls share one (`KeysRingOnce`) and a booking's call is its own. `ReasoningLoop`: the place
of a run says what its steps are (`InTurn`), a parent waits for one subagent at work
(`Family`), and a run is recorded when it ends and after its subagents (`Recorded`).

*Platform.* `Credentials`: what is in the vault or a state was issued, tokens of two providers
were issued apart, and a state that was granted is no longer accepted. `MemoryService`: a row
that is prepared is not there yet and is one request's (`PreparedAreNew`), which with the
unique index gives `OneKey`; what a request read under lock is locked by it and active until
its commit (`LocksHold`), which gives `OneSuccessor`. The refinement of `MemoryLedger` rests on
both, and on a request having no answer before it is done (`OpenUnanswered`), one lemma per
commit; without locks it fails, as `Amend` needs the memory active when it is replaced.
`VoiceSession`: the tasks are submitted in their order, and what is not submitted yet
cannot be withdrawn (`InOrder`, `Handed`); a watcher tells the active task only, which is never
a withdrawn one (`WithdrawnForGood`), and has a task of its own (`OneWatcherEach`). A task that
was hushed has its watcher gone or waiting under a generation that has passed, and every
generation only grows (`StaysHushed`). `CapabilityRegistry`: unless a removal is under way,
`offered` is what a synchronisation at this moment would offer (`InStep`); a synchronisation
gives each name one provider because slots are ordered, and a provider that is registered and
not yet healthy changes nothing (`SyncedAlike`). `Planner`: `PlannerInv` adds to the property
that an intent which was followed has left a step (`FollowedIsPlanned`), which is what the
code's `if not steps` stands for; it rests on `IntentsAreBacked`, that the first step of every
intent of the table asks for nothing the intent did not and every step names a capability that
was looked up. A step is appended after all that is due, so it takes the next rank and moves
no other (`PlacesStay`). The composition: each step of `Next` is a step
of one part and a stutter of the others (`PartsStep`, `ServicesStep`), so `Spec` implies the
specification of every part (`WholeIsItsParts`), and the theorems of the parts carry over.

**Only model-checked**: all liveness (`RunsEnd`, `TaskSettles`, `DelegationEnds`,
`ManagerSettles`, `StopReleases`), which is out of the prover's reach; and `PlansAreServed`,
which looks every capability of the planner's table up in the catalogue of tools: both are
finite and neither depends on a constant, so the run, which plans every step of every intent,
decides it.

## 5. Not modelled, and the plan

Next, in this order:

1. Jarvis playback: the generation that drops late audio after a barge-in, and the session's
   messages and tool calls, composed with `JarvisSession`.
2. `VoiceSession` composed with `Submission`, so that a task a stop has missed is seen to run.

Left out, with the reason:

- Event hub history, Redis relay and connection set: no state another part reads.
- Jarvis audio capture and playback devices, audio clips, speech models, the macOS helper and
  the CUA app, the dashboard: I/O. Schemas and settings: declarations.
- Canned engines (agency, gstack, business and marketing intelligence, the audit, cost and
  performance reports): fixed texts and figures; their tools are in `Catalog`.
- `hermes` is not registered by `main.py`, and `swarm.spawn_parallel` has no caller. The
  agents' capability router and template registry only order and cut lists of names.
- Hosted model providers, Twilio and the real HTTP endpoints of Google and Meta: external.
