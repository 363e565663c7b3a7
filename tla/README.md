# Agentic Pilot in TLA+

Agentic Pilot is a local agent that executes tasks ("send a mail", "open the
settings") in a browser or on the Windows desktop. A FastAPI process (`backend/`)
accepts tasks, plans them with a language model and drives Playwright and UI
Automation; a second process (`observatory/`) shows what it does; `main.py` starts and
stops both. All of `backend/` runs in one asyncio event loop: the hard behaviours are
those of coroutines that interleave at awaits, of requests that overlap with running
tasks, of cancellations, failures and restarts in the middle of something, of pages
and windows that change while they are acted upon, and of nested loops of retries
with several counters that are meant to stop them.

This directory holds TLA+ modules translated from that code, the configurations
with which TLC checks them, and theorems about them that TLAPS checks. The paths
below are relative to the repository's root. `PROJECT.json` names, for every
definition, the lines it stands for.

    tlc -config pool_safety.cfg MCPoolSafety        # one of the runs listed below
    tlapm BrowserPool_proofs.tla                    # one of the eight modules with theorems

## Contents

1. The system
2. How the project is put together
3. The modules
4. The runs
5. Fairness and assumptions about clients and services
6. The proofs
7. Where the code and its documents differ
8. What is only model-checked, and what is not modelled
9. What could come next

## 1. The system

| component | state | operations | what is hard | modules |
|---|---|---|---|---|
| Browser context pool (`backend/browser/pool.py`) | queue of idle contexts, `_active`, `_task_contexts`, `_retained_contexts`, the browser, `_lock` | `get_task_context`, `acquire`, `release_task_context`, `retain_task_context`, `close_task_browser`, `close_all_retained`, `start`, `shutdown`, idle watchdog | coroutines between two critical sections carry a context that is in no table; cancellation and failing Playwright calls there; the browser dies | `BrowserPool` |
| Task runner (`backend/agent/runner.py`, `backend/api/tasks.py`, `approvals.py`) | `_active`, `_started_at`, `_pause_events`, the runs | submit, approve, pause, resume, resume_blocked, switch_fallback, cancel, `_run`, timeout watchdog | a request updates the row, awaits, and schedules later; two requests for one task; several runs of one task | `TaskRunner`, `TaskLifecycle` |
| Runner and pool together | the contexts that tasks leave behind | a resumption looks for the page of a blocked task, a submission closes what others retained | the key of a context is a task or a session, and the row does not give the session back | `TaskContexts` |
| Rows and checkpoints (`backend/db`, `backend/agent/checkpoint.py`) | `tasks.status`, `approvals.status`, events, one file per task | written by requests, nodes and runs | several writers that do not look at what is there; restart | `TaskRunner`, `TaskStream` |
| Agent graph (`backend/agent/graph.py`, `nodes.py`, `desktop_nodes.py`, `backend/recovery/engine.py`) | `AgentState` | 17 nodes and their routers | retries, recovery, limit of model calls and LangGraph's limit interact; ways around a node | `AgentGraph` |
| Browser executor (`backend/browser/executor.py`) | the page | navigate, type, press, select, click | an await fails after something was sent; the page changes by itself | `BrowserActions` |
| Verification manager (`backend/verification`) | none | predicates on pages and results | the page is read twice; precedence of the rules | `Completion`, `BrowserActions` |
| Desktop automation (`backend/desktop`) | the desktop, the last observation | observe, ground, act, verify | names contain one another; windows change between observation and action; a call that raises answers like one that found nothing | `DesktopScreen`, `DesktopClick`, `DesktopGoals` |
| Model providers (`backend/llm`, `backend/vision`) | the key, counters of attempts | `complete`, `complete_structured` | nested retries, a change of model, fallbacks | `LlmCalls` |
| Model choice (`registry.py`, `router.py`, `analyzer.py`) | installed models, the model of each task | probe, mark, route | what is installed changes; a probe answers late | `ModelRouting` |
| Retrieval (`backend/rag`) | collection, hashes of what was ingested, cache of answers | ingest, delete, clear, search; chunk; build a context | overlapping ingestions, one step of several fails; budgets met exactly | `Knowledge`, `Context` |
| Telemetry (`backend/telemetry/broadcaster.py`, `backend/api/observability.py`) and Observatory (`observatory/`) | history, queues, buffer, connection status, feeds | publish, subscribe, replay, reconnect, multiplex, open a run | order, drops, duplicates, loss and repetition across reconnects | `EventFeed`, `EventStream` |
| Stream of a task (`stream_task`, `useTaskStream.ts`) | rows, one connection, what the window shows | read, send, close, reconnect | two reads of one state; the browser reconnects by itself | `TaskStream` |
| Launcher (`main.py`) | child processes, a flag, the menu | start, restart, quit, signals | a signal between any two steps; two launchers on the same ports | `Launcher` |
| Memory, evidence, experiments, replay, plugins, security helpers, settings, scripts | files, registries | | little concurrency | not modelled, section 8 |

How they interact. A request handler calls `TaskRunner`, which writes the row and
creates an `asyncio.Task` for `_run`. The run drives the graph with
`graph.astream`; between two nodes it waits for the pause event, saves a
checkpoint and publishes events. Browser nodes ask the pool for the context of
the task, or of its session; `complete_node` writes the final status and gives
the context back or retains it. Nodes ask the router for a model, a provider for an
answer, the retriever for documents; they act through the executors and judge what
happened with the verifiers. A later request for the same task (a decision, a
resume after a CAPTCHA, a fallback) schedules a *new* run, which starts from the
checkpoint. The pool's watchdog and the submission of another task close what was
retained. Everything publishes events to the broadcaster, from which the
Observatory reads them; a window with one task reads its events from the database.

What makes each component correct:

* **Pool.** A context has at most one owner at any time; two tasks never use one
  context; none is lost, none is counted twice or not at all; what is handed out
  is open; a session keeps its context; a run that waits is served; no failure
  stops the pool for ever.
* **Runner and rows.** A run can be reached by the request that cancels it; a
  cancelled task is not worked on; risky work has been asked for by a human; a
  task that waits for a decision can get one; the status moves the way a client
  expects, and ends; a checkpoint lives as long as it is needed.
* **Runner and pool.** No task meets the page of another one; a task that is told
  that it goes on finds the page that was looked at.
* **Graph.** A completed task was verified; nothing is done that `risk_check` has
  not let pass; a blocked task stays blocked; the number of model calls is
  bounded; every run ends.
* **Actions, clicks, verdicts.** What is reported as done was done, to what the plan
  named, and submitted no more often than asked; a verdict has evidence.
* **Providers and router.** The number of calls is bounded however loops nest; a
  fallback is asked whenever the first provider fails; a node gets a model that can
  do its work while one is installed.
* **Retrieval.** What is recorded as ingested is there; stale answers die out; a
  prompt loses nothing but what is too small, doubled or too much.
* **Streams.** A dashboard sees events in order, without gaps while it keeps up, none
  twice, and the newest in the end; the window of a task tells the truth about it.
* **Launcher.** It ends what it started, whatever interrupts it, and ends itself.

The hazards that these properties are for are in `PROJECT.json`, each at its line.

## 2. How the project is put together

A module models one component, or one question about it, with the constants it needs
and an assumption about them. Small modules are `EXTENDED` by the larger ones:
`DesktopClick` and `DesktopGoals` extend `DesktopScreen`, what UI Automation shows.
Two modules are abstract specifications that a detailed one implements:
`TaskLifecycle` for `TaskRunner`, `EventFeed` for `EventStream`. `TaskContexts`
composes the runner with the pool at a coarser grain than the two modules have.

`MCProgress` and `MCSteps` put several components side by side in one run. The
components of such a run share no state; the variable `part` says which of them a
behaviour follows, and the others keep their (one) initial state. The states of the run are
the disjoint union of the states of its parts, no interleaving between parts is added, and a
property of a part is the property of its own module, cited through its INSTANCE.
The parameters of the parts are constants of these two modules and get their values in
the `.cfg`, so that the theorems of section 6 hold for all of them. The same technique gives the
two uses of the pool in `MCPoolSafety`.

The theorems about a module are in a module of their own (`BrowserPool_proofs`,
`TaskRunner_proofs`, `AgentGraph_proofs`, `TaskContexts_proofs`, `EventStream_proofs`,
`Knowledge_proofs`); those about the parts of `MCProgress` and `MCSteps` are in
`MCProgress_proofs` and `MCSteps_proofs`.

A definition whose comment begins with "Mutant" is used by no specification: it is a
plausible bug of the definition it stands beside (a dropped guard, a missing reset,
an entry that stays), and `PROJECT.json` names the property that must fail with it.

Some properties are conjunctions of two or three that belong together
(`ContextsStayUsable`, `CallsAreBounded`, `ActionIsHonest`, `PromptIsSound`,
`ContextsApart`, `EachEventOnce`, `CatchesUp`, ...); each part has its name, its
comment, and a mutant of its own.

## 3. The modules

### BrowserPool (`backend/browser/pool.py`)

The processes are coroutines: `Runs`, which execute tasks, and `Closers` (request
handlers, the idle watchdog, the exit of the application). A coroutine runs
without interleaving until it awaits something that is not ready. The variable
`loop` names the coroutine in the middle of such a stretch; every action either
keeps the loop (`Continue`) or gives it up (`Await`), so the points at which other
coroutines may run are exactly the awaits of the code. `lock` and `lockQ` are the
`asyncio.Lock`, which is first come, first served and not reentrant.

| action | code |
|---|---|
| `GetTaskContext`, `Lookup`, `Assign` | `get_task_context` and its two critical sections |
| `Start`, `Launch`, `Chromium` | `start()`: nothing for a valid browser, else shutdown, then Playwright is started and launches Chromium, an await each |
| `Acquire`, `CreateOk`, `CreateFail`, `TakeAvailable`, `Count` | `acquire()`: idle, new, or wait for the queue |
| `GiveBack`, `Pop`, `Put`, `ClosePagesFail`, `Retain` | `complete_node`'s call of `release_task_context` or `retain_task_context` |
| `CloseTaskBrowser`, `CloseAllRetained`, `Snapshot`, `ClosePop` | `close_task_browser`, `close_all_retained` |
| `Shutdown`, `Drain`, `Clear`, `Quit`, `Stop` | `shutdown()`, also as part of `start` and of a failed creation; the browser is closed and Playwright stopped at two awaits |
| `Cancel`, `BrowserDies` | `CancelledError` or an exception at an await; the Chromium process |

A context is an identity; that it exists in the browser is `open`. The order of
the idle queue cannot be observed and is left out. Which of the two ways
`complete_node` takes depends on settings and status, and is a choice.

Two coroutines may be inside `start()` at once, because it takes no lock. `launcher` is the one whose launch
the present Playwright carries out; a `stop()` of that Playwright by the other makes its launch fail
(`doomed`); and of two launches that succeed, the second takes the place of the first in `_browser`, whose browser
then runs without a name (`orphans`).

### TaskRunner and TaskLifecycle (`backend/agent/runner.py`)

A handler is one request in progress; `hpc` says at which await it is. A run is
one `asyncio.Task` of `_run`; `rpc` says where it is. The graph appears only as
the nodes that change what the runner or the database see: `risk_check` creates
the approval, `complete_node` writes the final status, the nodes in between can
end the task one way or another or raise, and a failed parse goes round
`risk_check` (`ParseFails`). Between two nodes a run passes the gate: `WaitAtGate`
while the pause event is clear, `PassGate` with the checkpoint that is saved
there. `Schedule` is `_schedule`: it overwrites the entry of `_active`, whoever
had it. `CancelRun` and `MarkCancelled` are the two stretches of `cancel()`.
`HandleCancel`, `HandleException`, `Finally` and `NeverRuns` are the ends of
`_run`; the last one is the coroutine that is cancelled before its first step and
does not even reach its `finally`. `CompleteRaises` and `SummarizeFails` are what follows the write of the
final row (`nodes.py:1623`) and may raise: retaining or releasing the context, an event, the
summary; `_run` then writes "failed" over it. The constant `LateFaults` switches these two on. `Watch` is the watchdog, which works through a
copy of the start times across the awaits of `cancel()`.

History variables record what no table of the program remembers: `consented`
(tasks that a human has approved) and `resumed` (risky tasks that a human has
resumed from blocked without having approved them).

`TaskLifecycle` is what a client sees: the status of a task, and how it may move.
It knows nothing of runs, approvals or events. `ImplementsFairLifecycle` is its
fair specification, as a property of `TaskRunner` under the mapping that keeps
`status`.

### AgentGraph (`backend/agent/graph.py`, `nodes.py`, `desktop_nodes.py`, `backend/recovery/engine.py`)

One action for each node with the router behind it: the node reads the state `s`,
the update is merged, and `Goto` is the router's answer. What a model, a page, the
desktop or the verification manager answers is a choice; a text is kept as far as
the code tells texts apart (`error` is the class that `verify` and
`classify_failure` see in it). `Verify` and `DesktopVerify` are disjunctions of
their branches in the code's order. `ErrorRecovery` is `handle_failure` and
`recovery_router`. `NewRun` starts the next run of the task from its checkpoint,
as `approve`, `resume_blocked` and `switch_fallback` do, with the fields that
`_run` sets anew. `checked` and `proof` are history: whether `risk_check` has let
this run pass, and whether the end state that is claimed was seen by a check.

### TaskContexts (runner and pool together)

An operation of the pool is one step; its awaits are the subject of `BrowserPool`. The
waits of handlers and runs are left, and with them everything that can happen between them: for a context,
a page, the database, a decision, the user.

| action | code |
|---|---|
| `Submit`, `Approve`, `Reject`, `Cancel` | the handlers of `TaskRunner`; `Submit` closes what other tasks retained |
| `Ask`, `LookAtPage`, `NoPageToResume`, `CheckPage`, `GrantResume` | `resume_blocked`: the status, the context and its page, the CAPTCHA on it, the schedule |
| `Ask`, `AskFallback`, `SwitchFallback` | `switch_fallback`: the status, the context, the other provider's page and the schedule |
| `Enter`, `GetPage`, `Navigate`, `Finish`, `Raise` | the run: waiting for a context, loading a page, `complete_node` writing the row, a node that raises |
| `Leave` | what `complete_node` does after the row: retain or release the context (`nodes.py:1660-1686`), after which something may still raise |
| `Solve`, `CloseTaskBrowser` | the user at the CAPTCHA; the close button or the pool's watchdog |

Between `Finish` and `Leave` the row already says how the task ended, and clients act on it: a task may be asked
to resume, submitted beside, cancelled or closed while its context is still in `_task_contexts`. A lookup
waits for a run of its task that leaves, since that run came to the pool's lock before (`asyncio.Lock` is first
come, first served). One step still are each operation of the pool, all of `close_all_retained`, and a release
that is cancelled in its midst; `BrowserPool` splits these. A task has at most one
request of these two kinds in progress (section 7).

`GetTaskContext` is `get_task_context` with its three sources; the key is the session of a
first run and the task of a later one, because the record of a task does not get its
session back from the row (`database.py:370`).

### EventStream and EventFeed (`broadcaster.py`, `observability.py`, `observatory/`)

Core and the Observatory are two processes. `AddEvent` stores a row, `Broadcast` follows when
the row was read again and fills the history and the queues; what is stored when Core stops and not
broadcast is never broadcast. A run that is cancelled between the two loses the broadcast of
one event too; this is not modelled. `SelectRun` reads the rows, or none when that fails; `Subscribe`, `StartSse`, `Disconnect` are the handlers of Core;
`CheckHealth`, `Connect`, `Receive`, `EndOfStream`, `Wake` are `_consume_loop`;
`OpenWindow`, `Show`, `LoseWindow`, `SelectRun`, `MergeBuffered`, `ShowRun` are a dashboard
and the handlers it calls. `CoreStops` and `ObservatoryRestarts` lose what is in memory.
`EventFeed` is what one connection promises: it may skip, never repeat or go back.
`ImplementsFeed` maps a WebSocket of Core to it.

### TaskStream (`api/tasks.py` `stream_task`, `useTaskStream.ts`)

The generator reads the rows (`Read`), sends them (`Send`), reads the status (`Check`), and
ends; the window handles what arrives (`Deliver`), and the browser opens the next connection
when one ends. `RunEndings`, `CancelEndings` and `RejectEnding` are the orders in which the code
that ends a task writes the status and the last events.

### LlmCalls (`gateway.py`, `gemini.py`, `hybrid.py`, `vision/fallback.py`)

One request with its two nested loops (`outer`: parsing, `inner`: calls), the models it
names, and the service asked at the moment. Each answer of a service is an action
(`GeminiText`, `GeminiTimeout`, `GeminiError`, `GeminiQuota`, `GeminiAuth`, `OllamaText`,
`OllamaUnreachable`, `OllamaRefuses`, `NoKey`); `NextAttempt`, `Reparse`, `Raise` and `Return` are what
the loops do with it.

### ModelRouting (`registry.py`, `analyzer.py`, `router.py`)

`Probe` and `Answer` are the two sides of the request for Ollama's list, `MarkInstalled` its
use, `DaemonChanges` a model that is pulled or removed in between. `Analyze` and `Chosen` are
operators: from a request to a role and capabilities, and to a model. `installed` is the cache as Ollama gave it, with
models that the registry does not know; `Marked` are the registered ones among them, which is what `meta.installed` says:
a list of only unregistered models makes the registry one that was heard and has nothing. `First` is a loop that
returns the first model of a list that fits, `CandidateForRole` the one over the models of a
role. `RolesFit` says of the configured names what the router relies on: in the list of a role, every model that can do
what the analyzer asks for comes before any that cannot. It is true of `config.py`: the list for recovery
does name `qwen3.5:2b`, which lacks that capability, and names `qwen2.5:7b`, which has it, first. `Route` also keeps
what the router remembers.

### Knowledge and Context (`backend/rag`)

`Knowledge` is the state: workers that ingest, delete and clear in several calls of the
store (`Ingest`, `GetIds`, `RemoveIds`, `Add`, `Clear`, `Recreate`), clients that ask
(`Ask`, `Search`, `Save`) and the cache with its age. With `Faults` a call may fail.
`Context` is the computations: `Chunk` (sections, packing, overlap, minimum) and `Build`
(selection of chunks and memories within their shares of the budget), checked on every
small input against statements about what may be lost. Each loop of the code is a recursive function
from the number of rounds to the loop's variables; one round of it is `PackNext`, `SectionNext`
or the step of `Selected`.

### Launcher (`main.py`)

A launcher is one thread; `pc` is its place, with a stack of places to return to when a
signal interrupts it (`Signal`). `tracked` is `child_processes`, `todo` what `shutdown()` has still to
end; `options` are the arguments of each launcher, so that one with a menu and several without are
one specification. `ClearPorts`, `Spawn`, `Recorded` and `Waited` start a service;
`Enter`, `EndChild`, `Finish` are `shutdown()`; `Quit`, `Restart` and `Supervise` are the two loops.
Services listen late or die; two launchers share the ports.

### BrowserActions (`executor.py`, `verification/manager.py`)

One action from its call to its result, one step per await, each of which may raise:
`Fill`, `ReadBack`, `PressEnter`, `ClickBox`, `Keys`, `KeyEnter` are the three ways to type,
`Before`, `Operate` and `Compare` a click, `Goto`, `CheckUrl` and `Detect` a navigation with
its attempts. `PageLives` is what the page does by itself.

### Completion (`verify_task_completion`)

The verdict on a browser task as the code collects it, in two dictionaries that are
compared at each early return, for every task, page and answer that the code tells apart.

### DesktopScreen, DesktopClick and DesktopGoals (`backend/desktop`, `desktop_nodes.py`)

`DesktopScreen` is what UI Automation shows and how it is searched. A control has an identity (`rid`, its RuntimeId) that
stays while its name or state changes; whoever found it may go on using it. A walk skips, with all below
it, what cannot be read, so that a search may return any of the controls that match, or none, and an
observation any part of what there is (`Walks`, `Those` in the order of the tree).

`DesktopClick` is a round of observing (`Observe`, `Look`, `Walk`), planning, grounding (by name and id, by coordinates of
the observation) and operating. A control without InvokePattern is clicked with the mouse at its centre
(`AtCentre`, `uia.py:587-590`), which hits whatever lies there in the window in front, or nothing, and
answers True all the same. `DesktopGoals` is the check of the conditions of a task, with the predicates of
`verifier.py` for windows, programs, elements, texts and toggles; conditions that cannot be parsed are skipped
by the code and are none here. Nothing in the repository sets `goal_conditions`, so the case of the program is a task without any
(`Conclude`): it is completed when there is something to observe, or after three retries. Windows and
controls change before every call.

### MC modules

`MCPoolSafety`, `MCTaskRunner`, `MCAgentGraph`, `MCTaskContexts`, `MCEventStream` add model values,
symmetry sets and environments; `MCProgress` and `MCSteps` put components side by side
(section 2).

## 4. The runs

| run | asks | result |
|---|---|---|
| `pool_safety` | `OneOwner`, `IsolationApart`, `PlacesAddUp`, `EndedOwnsNothing`, `ContextsStayUsable`: three runs and a closer share a pool, apart without faults, or sharing a key with faults | hold; 2,715,943 states |
| `pool_live` | `WaiterIsServed`: whoever waits for a context of a full pool gets one, if the others give theirs back | holds; 62,460 states |
| `pool_recreate` | `FailedCreationRecovers`: a failed `new_context` is followed by a new browser | violated (section 7) |
| `runner_registry` | `Registered`, `NoUnaskedWork`, `CheckpointKept`: two tasks, a watchdog, nodes that raise and restarts, with clients that wait | hold; 7,592,802 states |
| `runner_live` | `ImplementsFairLifecycle` (the rows refine `TaskLifecycle` with its liveness), `CancelStops`, `WaitingCanBeDecided`, with clients that wait | hold; 6,601 states |
| `runner_approval` | `NoUnapprovedWork`: a risky task works only once somebody approved it | violated (section 7) |
| `graph_browser` | `CompletionVerified`, `NothingUnchecked`, `LlmBudget`, `BlockedStays`, `Terminates`: a risky task of three steps, run twice, stopped by its own counters | hold; 155,671 states |
| `graph_limit` | `Terminates`: the desktop's loop, stopped by LangGraph | holds; 20,262 states |
| `contexts` | `ContextsApart`, `ResumedFindsItsPage`: runner and pool together | hold; 500,840 states |
| `stream` | `NoGap`, `EachEventOnce`, `CatchesUp`, `ImplementsFeed`: events from Core over the Observatory to a dashboard | hold; 993,012 states |
| `progress` | `CallsAreBounded`, `FallbackAsked`, `RefusedKeyIsFinal` (requests to models), `StaleDiesOut` (cache), `ShutdownWorks` (launcher), `WindowIsTrue`, `ListedIsShown` (stream of a task), `EverythingEnds` (all but the cache) | hold; 235,271 states |
| `steps` | `ActionIsHonest` (browser), `KnownModelsServe` (choice of a model), `KnownIsStored` (ingestion), `PromptIsSound` (chunks and contexts), `DoneHasEvidence` (verdicts), `ClicksHitTarget` (desktop) | hold; 3,313,836 states |

`progress` and `steps` also check the types of their parts (`PartsTypeOK`), of which some say
more than that a variable has its type: the size of the cache, the indices of loops. The types
of all modules are theorems as well (section 6). All runs
together end in about a quarter of an hour on two workers. Every property of a passing run has a
mutant in `PROJECT.json`: a plausible mistake in a definition of the model with which TLC
finds the property violated.

Bounds, and why they are enough for the questions asked:

* **pool_safety**: a pool of two contexts, a third and a fourth that a pool which loses
  or miscounts one would create, and a closer; a run calls the pool twice, so
  that it meets what its first call left. *Apart*: three runs with keys of their own
  (`OneRunPerKey` is the discipline of the requests for one task or session that wait for
  each other), two that compete and one that waits; the first one starts the browser before another one calls
  (`StartedAlone`, section 5). *Shared*: two runs for one key, with three calls between them and two
  faults, of the three kinds cancellation, failing call and death of the browser, in any order and at any
  await. More faults only repeat these: each one leaves a coroutine gone, a context dropped
  or the browser dead.
* **pool_live**: a pool of one context, so that one of two runs waits; the other
  gives back or retains.
* **runner_registry**: two tasks, one that needs an approval, with runs, a request
  and the watchdog that interleave; nodes and the summary raise and the process
  restarts at any point, any number of times.
* **runner_live**: one risky task through every status, with two requests in
  progress and a pause, three nodes between the gate's visits.
* **graph_browser**: a plan of three steps (a first, a middle and a last one, and
  a navigation that goes back), two runs, the code's own limits 3, 6 and 15;
  `LlmCap` is above the bound that `LlmBudget` claims, so that it does not hide a
  violation. LangGraph's limit is switched off: the nodes must end by themselves.
* **graph_limit**: the desktop, whose loop of observations is bounded by nothing
  but LangGraph's limit, here its default of 25.
* **contexts**: two tasks that take each other's context, a session that both may have
  been submitted for, two contexts so that a third need waits; every fault and every act
  of a user at any time, also between the row and what follows it, and any number of times.
* **stream**: queues and histories of two and a replay of one, so that three events
  overflow each; one lost connection, one restart of Core, one of the Observatory and one
  opened run, each at any time, and a WebSocket that may be refused, so that SSE is used.
* **progress**: the code's own three attempts of both loops and two requests (the key may be
  refused by the first); a cache of one entry, two clients and two deletions; one launcher with
  two restarts, two signals and one death, and a pair with a signal each; every ending of a
  task with two lost connections and a second opening.
* **steps**: the code's own three attempts of a navigation and two changes of the page; the eight registered models with the
  role lists of `config.py` and a model that is not registered, three sets of models that Ollama has at first (one that is not
  registered; models for planning, recovery and images; models for code and small ones), one pull or removal and two requests; two
  overlapping workers, an edit and a restart; documents of up to five paragraphs and items of lengths that
  meet a limit, exceed it and miss it by one; every task and page that the verdict tells apart;
  names that contain each other, a control with only an id and one with nothing, controls without InvokePattern, more controls
  than are observed, two rounds of clicks or checks on a desktop that changes once in each; five sets of two conditions,
  which use every predicate, and the empty set.

`CHECK_DEADLOCK FALSE` everywhere: the program rests when every task has ended
and no request comes, when a request has its answer or a launcher is gone, and
`FailedCreationRecovers` is about a lock that is never given back. Symmetry is used only
in runs whose properties are invariants or action properties that treat all runs,
requests and contexts alike.

## 5. Fairness and assumptions about clients and services

* Pool: strong fairness of each coroutine's own steps. The event loop runs ready
  coroutines in order, so one that is ready again and again is run; weak
  fairness would not say so, because the stretch of another coroutine disables it
  for a moment. A run that has a context ends in `complete_node` and gives it back
  (`WaiterIsServed` is conditional on it), and the idle watchdog closes what is
  retained (its loop is started by `start()`).
* Runner: weak fairness of each run's and each request's next step, because
  nothing else disables it for good, and of the watchdog where it was started.
  `FairSpec` adds that a user who has paused a task resumes it; without it a
  paused task legitimately waits for ever. No fairness of requests, approvals or
  faults.
* Graph: weak fairness of the next node.
* Requests to models: weak fairness of `Step`, that is, a service answers or fails. Gemini is
  called with a timeout; the client of Ollama has none for reading an answer, so that for
  Ollama this is an assumption.
* Retrieval: calls of the store return, and time passes (`Tick`). No fairness of edits and
  deletions: `StaleDiesOut` is about a document that stays away.
* Launcher: each step of the launcher's thread is taken; every poll, wait and request it makes
  has a limit. No fairness of its services: one that never listens must not keep it.
* Streams: the event loops run generators and consumers, a browser reads its connection and
  opens the next one, Core is started again after it stopped. Nothing says that events are
  published or connections are lost.
* `NewestIsShown` (in `CatchesUp`) excepts two things that the code does not promise: a
  restart of Core loses its history, and opening a run replaces the feed.
* `ClientWaits = TRUE` means clients that act on a task only when nothing is in
  progress for it, as the user interface does, which shows the buttons of a status
  only in that status; they may still cancel at any time before the end. What the code
  does with other clients is in section 7. `NoUnaskedWork` and the types are theorems for every
  client; the other theorems about the runner assume `ClientWaits`: a request that has updated the
  row and not yet scheduled is overtaken by another one (section 7, `TaskRunner.CancelStops`).
* Two of these theorems also assume that there is no watchdog (`~WatchdogStarted`), which is the
  program as it is: the watchdog cancels from a copy of the start times, awaits in between, and may then
  cancel a task that has ended. `WaitingCanBeDecided` assumes that the process is not restarted: a restart
  may fall between the decision and the row that it changes. The refinement assumes that what
  follows the write of the final status, keeping or releasing the context, an event, `summarize_task`,
  does not raise (`~LateFaults`), because `_run` then
  writes "failed" over it. Each of these conditions is needed: without it TLC finds a counterexample to the property, with one
  task, or two for `CancelStops` with the watchdog.
* `KeysApart`, `StartedAlone` and the absence of faults, in the theorems about the pool, are the part *apart* of
  `pool_safety`: runs of different tasks and sessions, whose calls succeed, and of which one has started the browser before
  the next one calls. The code does not guarantee `StartedAlone`: `start()` takes no lock (`pool.py:64-101`), so two first
  calls may overlap; without it TLC finds `PlacesAddUp` violated. What two such runs, a shared key and faults do
  is section 7; `OneOwner` and `LockInUse` are theorems with all of these. In both parts no request is accepted once
  the application is exiting, as in `lifespan`.
* `WatchdogStarted = TRUE` is a configuration that the program has code for and
  never reaches (section 7); it is used where the watchdog can only make things
  worse.

## 6. The proofs

All theorems are about the specifications themselves, for every value of the
constants that satisfies the assumptions of the modules: any number of runs, requests, keys,
contexts, steps, attempts, events and faults, any size of queue, any documents, models and windows.
The assumptions are `PoolAssumption`, `RunnerAssumption`, `GraphAssumption`, `ContextsAssumption`,
`StreamAssumption`, `LlmAssumption`, `ActionsAssumption`, and those of the parts, which are
conjuncts of `ProgressAssumption` (`KnowledgeAssumption`, `LauncherAssumption`, `StreamAssumption` of
`TaskStream`) and `StepsAssumption` (`RoutingAssumption` with `RolesFit`, `KnowledgeAssumption`,
`ContextAssumption`, `CompletionAssumption`, `ScreenAssumption`, `ClickAssumption`,
`GoalsAssumption`). TLC evaluates all of them. They give constants their types, except for
`RolesFit`, which is a fact about the names in `config.py` and `registry.py`: in the list of a role, every model that
can do what is asked of the role comes before any that cannot, and what is found for a role in general can do what
is asked of it. TLC evaluates it for the defaults of both files.

| theorem | says | argument |
|---|---|---|
| `PoolTypeCorrect` | `Spec => []TypeOK` | with `RolesOK`: a working coroutine has a key, and closers never acquire |
| `PoolOneOwner` | `Spec => []OneOwner` | `IInv == TypeOK /\ RolesOK /\ OneOwner` is inductive |
| `PoolLockInUse` | `Spec => []LockInUse`, with every fault | `LockInUse` with `QueueIs`, below |
| `PoolIsolation`, `PoolAccounting`, `PoolEndedOwnsNothing` | `SafetySpec => []IsolationApart`, `[]PlacesAddUp`, `[]EndedOwnsNothing` | `Quiet`, below |
| `PoolContextsUsable` | `SafetySpec => ContextsStayUsable` | `Quiet`, before and after a step |
| `PoolWaitersHaveAChance` | `SafetySpec => [](~shared => WaitsForSomebody)` | `Quiet`: a full pool is full of contexts that somebody has |
| `RunnerTypeCorrect` | `Spec => []TypeOK` | with `HasNext`: a run at the gate knows its next node |
| `RunnerNoUnaskedWork` | `Spec => []NoUnaskedWork` | `GateInv`, below |
| `RunnerRegistered` | `ClientWaits /\ Spec => []Registered` | `Orderly`, below |
| `RunnerCheckpointKept` | `ClientWaits /\ Spec => CheckpointKept` | `Orderly` and `Saved`: a waiting task has a checkpoint, and nobody is about to delete it |
| `RunnerWaitingCanBeDecided` | `ClientWaits /\ ~Restarts /\ Spec => []WaitingCanBeDecided` | `Decidable`: the approval is pending whenever the row says that a decision is awaited |
| `RunnerCancelStops` | `ClientWaits /\ ~WatchdogStarted /\ Spec => []CancelStops` | `Stopped`: what a cancelled task still has has been told to stop |
| `RunnerImplementsLifecycle` | with such clients, no watchdog, and a memory that does not raise, `Spec => Lifecycle!Spec` | `Agrees`: where a run or a request is, and what the row says |
| `GraphTypeCorrect` | `Spec => []TypeOK` | inductive as it stands |
| `GraphNothingUnchecked` | `Spec => []NothingUnchecked` | `GuardInv`, below |
| `GraphBlockedStays` | `Spec => BlockedStays` | `BlockedInv`: a blocked task is on a path of nodes that all end in a `complete` |
| `GraphCompletionVerified` | in the browser, `Spec => []CompletionVerified` | `BrowserInv /\ VerdictInv`, below |
| `GraphLlmBudget` | in the browser, if `LlmLimit >= 2`, `Spec => []LlmBudget` | `BudgetInv`, below |
| `GraphBrowserRunsEnd` | in the browser, every node makes `NodesLeft` smaller | the rank of a state, below |
| `ContextsTypeCorrect` | `Spec => []TypeOK` | with `KeyOK`: the key of a run is its task or its session |
| `ContextsStayApart` | `Spec => []ContextsApart` | places and pages, below |
| `ContextsResumedPage` | `Spec => []ResumedFindsItsPage` | places and pages, below |
| `StreamWebSocketInOrder` | `Spec => []WebSocketInOrder` | `Inv`, below |
| `StreamImplementsFeed` | `Spec => ImplementsFeed` | each step of a connection is one of `EventFeed`, below |
| `StreamNoGap` | `Spec => []NoGap` | `Complete`: what a connection has still to deliver ends with everything newer than what it has delivered |
| `StreamEachEventOnce` | `Spec => []EachEventOnce` | `Kept`, `Requests`, `Once`: what the buffer, a feed and an answer on its way hold, each once |
| `StreamTypeCorrect` | `Spec => []TypeOK` | `Latest` and `Append` keep a queue in its size; merging goes over the feed by induction |
| `StreamNewestWasShown` | `Spec => []NewestWasShown` | `Travels`: where the newest event is, below |
| `KnowledgeTypeCorrect` | `KnowledgeAssumption /\ Spec => []TypeOK` | `CacheOK`: what removing, renewing, aging and saving an entry leaves |
| `StaleOnlyAges` | `KnowledgeAssumption /\ Spec => [][StaleAges]_vars` | entry by entry: `Within`, `IsKept`; below |
| `LlmTypeCorrect`, `LlmCallsAreBounded` | `Spec => []TypeOK`, `[]CallsAreBounded` | `Counting`, below |
| `LlmFallbackAsked` | `Spec => []FallbackAsked` | `Ending`: what a failed request has behind it |
| `LlmRefusedKeyIsFinal` | `Spec => RefusedKeyIsFinal` | `Ending`: after a refused key Gemini is not the service being asked |
| `ActionsTypeCorrect`, `ActionsAreHonest` | `Spec => []TypeOK`, `[]ActionIsHonest` | `Places /\ LoadsCounted /\ Sendings /\ Truths`, below |
| `LlmRequestsEnd` | every answer makes `AttemptsLeft` smaller | the attempts used up, `Used` |
| `LauncherShutdownWorks` | `Main!Spec => []ShutdownWorks` | `Accounted` and `FlagUp`, below |
| `FeedWindowIsTrue` | `Feed!Spec => []WindowIsTrue` | `InTransit`, `Delivered`, `Over`: what is sent, what has come, what the end of a stream means |
| `LauncherStopsByItself` | `Main!Spec` implies that a launcher told to stop has at most eleven steps left | `StopsLeft` and `OnItsWay`, below |
| `FeedSkipsNothing` | `Feed!Spec => []NothingSkipped` | from the invariant of `FeedWindowIsTrue` |
| `FeedConnectionsEnd` | `Feed!Spec` implies that an ended task's connections end | `ServesLeft`, below |
| `ProgressPartsTyped` | `ProgressSpec => []PartsTypeOK` | `PartsInv`: the invariants of the parts, and a part that is not run stays in its initial state |
| `ProgressPartsWork` | of `ProgressSpec`, what the theorems above say of the parts | `PartsInv` |
| `IngestKnownIsStored` | `StepsSpec => []KnownIsStored` | `Stored`: what is known as ingested is stored, or a worker carries it and will write it |
| `StepsKnownModelsServe` | `StepsSpec => KnownModelsServe` | `CapableIsChosen`, from `RolesFit`; `KnowledgeStays`: a failed probe forgets nothing |
| `StepsPromptIsSound` | `StepsSpec => []PromptIsSound` | loop invariants, below |
| `StepsDoneHasEvidence` | `StepsSpec => []DoneHasEvidence`, with and without conditions | `Undecided` for the browser; `Seen`, `Found`, `Indexed`, `Passed`, `AllPassed` for the desktop |
| `StepsPartsTyped` | `StepsSpec => []PartsTypeOK` | each part by itself; the indices and results of loops over data by `RunsOnly` |
| `StepsActionsAreHonest` | `StepsSpec => []ActionIsHonest` | the invariant of `ActionsAreHonest`, in every part |
| `StepsClicksHitTarget` | `StepsSpec => []ClicksHitTarget`: through UI Automation; where the mouse goes is section 7 | `Operated`, `Grounded`, `Untouched`, `Invented`: what each place of a click knows of its target |

*One owner.* `OneOwner` says that a context is in the idle queue, in one entry of
one table, or carried by one coroutine. The difficult steps are those that move a
context between two awaits: `Assign` overwrites an entry (the context that was
there is then lost, which is not a second owner), a cancelled coroutine drops what
it carries, and `CreateOk` needs that a new context is none that anything refers
to. The proof has one step for each action and, below it, one for each conjunct
that the action can disturb.

*A quiet pool.* `Quiet` is what holds of the pool when nothing fails, no two runs use one key and no two start the browser. Its
parts need each other: the lock is had by the coroutine that is in a critical section (`QueueOK`); while
there is no browser there is no context, and only a coroutine in `start` is about to launch one
(`BrowserOK`, `LaunchOK`, `StopOK`); what is idle, assigned or retained is open (`PlacesOpen`); the tables are
keyed by whom they say (`KeysOK`); every open context is in a place (`NothingLost`), so that `_active`,
which counts, agrees with the places (`Accounting`, a fact about cardinalities); and a task whose run is
over has none (`EndedTaskOwnsNothing`). A mistake in one of these would show in another one many steps later. `Apart`
restates the exclusion of section 5 as a condition on a step.

*The lock.* `LockInUse` holds of the pool with every fault at once: cancellations, failing calls, deaths of the
browser, shared keys. It says who may have `_lock` at an await: the coroutine that creates a context,
or one whose creation failed and which asks, inside `shutdown`, for the lock it has (`Recreating`). The second
case is the counterexample of section 7, and by this theorem it is, if the calls of Playwright return, the only way in which the pool can come to a halt over
its lock: no cancelled coroutine, and none that failed elsewhere, takes the lock with it. `QueueIs` says that
whoever stands in line stands there once, at a label that asks for the lock.

*Orderly clients.* `Orderly` says, for one task, that at most one run is unfinished, that it is the one in
`_active`, and that a request that is going to schedule excludes both. Everything else about the
runner is said relative to it: `Saved`, `Decidable`, `Stopped` and `Agrees` each add what the row, the approval, the
checkpoint and the event say at each place of a run and of a request.

*No unasked work.* That a working run is cleared is not inductive: the flag
`approved` comes from a request that was three awaits away from the human. `GateInv`
follows it backwards: working and approved runs are cleared, a free identity of a
run has nothing left that would make a new run work, and every request that is
going to schedule an approved run was made for a task that was approved or resumed.
No assumption on clients is used; cancellations, restarts and rejections are in.

*Nothing unchecked.* The way from a failed parse through `error_recovery` reaches
the loop of the browser without `risk_check`. `GuardInv` separates the two ways: a
run that has an environment, or an intent inside the loop, has passed; one without an
intent plans no action, and a run that has not passed has no environment, so that
recovery cannot send it to the desktop.

*Completion.* `VerdictInv` says that `complete` is reached with a verdict: never
with a status that still says running, and as completed only from the branch of
`verify` that asked the verification manager. It needs `BrowserInv`, since the
desktop's completion has no such check (section 7).

*Model calls of a task.* Three counters interact: `verify` fails a task at `LlmLimit` calls, but
only when it gets to that branch; a successful action moves the step forward
without looking at the limit, and an error is retried up to a bound of its own. `Paid` is the
account: beyond the limit, each call has been paid for by a retry or by a step,
and a new run, whose navigation may set the step back, gets a credit of `Steps`.

*Places and pages.* That a context is in one place (`InOnePlace`) is not enough to say whose
page is in it, because contexts move between tables with what they show. The invariant adds that a
task never has a context in both tables (`NotBoth`), that what lies idle is blank
(`IdleBlank`), and that what is in a task's place shows nothing or that task's page
(`OwnPage`). Requests and runs that leave are in the midst of something while others go on: a task is blocked or asked
for only between two of its runs (`AtRest`), what a request has looked up stays in its place, with the task's page if it
goes on (`Looked`), and a run that leaves takes nothing that a later run or a granted resumption relies on (`LeavesOwn`).
`ResumedFindsItsPage` then follows the page from the request that looked at
it to the run that uses it, past submissions and closings that only take what is retained.

*The feed.* What a connection has delivered, what is left of its replay and what its queue
holds are, one after the other, in ascending order (`InOrder`), and nothing in them is newer than the
newest event (`SourcesInOrder`); dropping the head of a full queue, the step that a proof about one queue
would miss, keeps both. `OneConnection` is needed because an old connection's replay must be
gone when the next one begins. `FeedStep` maps every action to a step of `EventFeed` or a
stutter; the refinement follows with the theorem above.

*Each event once.* Three copies of an event are on their ways to a dashboard: in the buffer that a
new window gets, in the stream of new ones, and in the answer to opening a run. `Requests` bounds what an answer
holds by what was buffered when it was asked for; `Kept` says that what the window merges is either not older than
that or already there.

*Shutdown.* `Accounted` follows every process that a launcher has started and that still runs: it is in
`child_processes`; while `shutdown()` runs, among those that it has yet to end; after a `shutdown()` that no signal
interrupted, there is none. Excepted by name is what a signal between `Popen` and the entry lost (`lost`). `FlagUp`
says that the flag which makes a second `shutdown()` return at once belongs to one that runs, or that a signal ended.

*Calls of one request.* `Counting` says, at every place of the two loops, how many calls the
attempts so far can have made; the outer loop repeats only what could not be parsed, so
that an outage pays for one inner loop, whatever the outer one has left.

*Actions.* `Sendings` counts what each way of typing has sent by the time an await fails, which is when
the next way begins; `LoadsCounted` ties the document a navigation reports to the one
that its last check saw; `Truths` is what must hold at the places where a success is returned.

*Checks on the desktop.* A search may return nothing because a call raised, and the desktop changes
between two calls, so that what a check has seen is no longer on the screen. `Seen` and `Found` tie the
windows and hits that it keeps to a moment of this check, `Passed` each result to such a moment, and `AllPassed` the
verdict to the results. Without conditions, the only case that the nodes produce, the verdict rests on one look: `Fronted`
and the walk say that there was a window if one was seen, and the three retries are the exception that the code makes
and the property names. What `Evident` asks of a condition is as much as the code looks at: less than the condition
says for a window in focus and for something absent (section 7).

*Prompts.* `Chunk` and `Build` are loops over data. `PackedTo`, `ReadTo` and `Cut` are the invariants of packing, of reading
sections and of cutting a paragraph that is too long: what has been read is in a chunk, in the buffer, or
was given up for one of the reasons that the code has; and no piece is too large. `Picks` is that of the
selections: what is left out is a duplicate or did not fit. `PromptInv` then says of the state that its chunks
are those of its document.

*What ends.* Fairness and ENABLED are out of the prover's reach, but most of what a liveness property claims is not:
that each step leads somewhere, and that no way goes round in a circle. These parts are theorems, for every value
of the constants; what TLC alone checks is the property with its fairness.

| property, checked by TLC | theorem | what fairness adds |
|---|---|---|
| `Terminates`, in the browser | `GraphBrowserRunsEnd`: `NodesLeft` is a number bounded by the constants, and every node makes it smaller | the next node is run |
| `RequestEnds` (in `EverythingEnds`) | `LlmRequestsEnd`: `AttemptsLeft` falls with every answer and is positive while a service is being asked | services answer or fail |
| `StopsInTheEnd` (in `EverythingEnds`) | `LauncherStopsByItself`: `StopsLeft` is at most eleven, 0 only when the launcher is gone, falls with each of its steps, and rises only with a signal | the launcher's thread runs |
| `StreamsEnd` (in `EverythingEnds`) | `FeedConnectionsEnd`: `ServesLeft` falls with each step of the generator once the task is over | the generator runs, and no more is written |
| `ListedIsShown` | `FeedSkipsNothing`: a listed event is shown, on the wire, read, or newer than what was read | the connection is served, or opened again |
| `NewestIsShown` (in `CatchesUp`) | `StreamNewestWasShown`: a dashboard with nothing on its way has shown the newest event | consumer, windows and reconnections go on |
| `StaleDiesOut` | `StaleOnlyAges`: no answer with the document becomes younger or is found anew | time passes, clients save what they hold |
| `WaiterIsServed` | `PoolWaitersHaveAChance`: there is a context to be had, on its way, or with somebody who is not waiting | runs and watchdog go on, the queue is fair |

`NodesLeft` is the only difficult rank: a node may raise the retries or set the step back. `RoundsLeft` counts the
rounds through the loop of the browser that retries, steps and model calls still admit, and the place in the
loop counts below it. Two facts are needed that the code does not state (`Answered`): an action that no model has been asked for
ends in an error, and what `verify` accepts as done was planned by a model. On the desktop there is no such rank,
because nothing but LangGraph's limit ends that loop: `graph_limit` checks it.

*The newest event.* `Travels` says where the event that Core published last is, at every place of the way: in Core's history, in
the replay or the queue of the connection, in the consumer's hands, in the buffer, in a window's replay or queue, or shown. A full queue
drops its head, never its newest element (`LatestEndsIn`), and a reconnection begins with a replay that ends with it. `NewestWasShown` is
what remains when all these places are empty. Its two conditions are those of section 5, and TLC finds it violated
without either.

*Stale answers.* `StaleDiesOut` could fail in three ways: a hit that makes an entry young again, a search that finds what
was deleted, an answer that waits with a client and is cached again and again. `StaleAges` excludes them for every step of
a state in which the document is not stored: a cached answer with it was there before and is not younger (`IsKept`), or a client saves it
and no longer holds it; so the answers that can still come are as many as the clients that hold one.

*Loops.* A proof by induction over data needs the library's induction theorems, which take an operator as their
parameter, and no prover here can instantiate those. The first section of `MCSteps_proofs` goes around this: the numbers of
rounds for which a partial result exists, or satisfies what is claimed, are a *set*, and induction over a set (`SetInduction`, from the
theorem about well-founded relations) needs no operator. Loops are therefore written as recursive functions from the number of
rounds, never with RECURSIVE, and a proof about one cites `RunsExist` (it exists and has the values of its definition),
`RunsOnly` (its values are in a set that each round keeps) or `RunsKeep` (what each round keeps holds after each) with the set it needs.

## 7. Where the code and its documents differ

Two runs end in a counterexample. Each states what a line of the repository says, and
shows what the code does instead.

| run | the repository says | the code does |
|---|---|---|
| `pool_recreate` | the warning at `pool.py:131`: "recreating browser" | `acquire` calls `shutdown` with `_lock` held (`pool.py:132`), and `close_all_retained` waits for that lock (`pool.py:259`): `asyncio.Lock` is not reentrant, so this coroutine and every later user of the pool wait for ever |
| `runner_approval` | `README.md:428`: high-risk actions trigger mandatory approvals | `resume_blocked` and `switch_fallback` schedule with `approved=True` (`runner.py:138`, `188`); a task that blocked on the way around `risk_check` (a failed parse, then `error_recovery`) goes on as approved |

The following are stated in the modules as properties, each with the line it quotes, and do
not hold; TLC finds a counterexample to each when it is added to the named run (for a module
that a run contains as a part, through its INSTANCE: `Click!RightControl`). They have no
run of their own.

| property | run | the code does |
|---|---|---|
| `TaskRunner.CancelStops` | `runner_live` under `Spec`, with `ClientWaits = FALSE` | `runner.py:192` "cancel a running or queued task and persist the status": a request that has updated the row and not yet scheduled (`runner.py:84-85`, `134-138`) schedules after the cancellation |
| `TaskRunner.OverdueEnds` | `runner_live` under `LoopSpec` | `docs/configuration.md:42` promises a maximum execution window; `lifespan` (`main.py:53`) never calls `start()`, which alone creates the watchdog (`runner.py:35-39`) |
| `AgentGraph.CompletionVerified` | `graph_limit` | `ARCHITECTURE.md:4` "no completion without verification": no node sets `goal_conditions`, and after three retries `desktop_verify` completes a task it saw nothing of (`desktop_nodes.py:813-849`) |
| `TaskContexts.NoPageIsTrue` | `contexts` | a task of a session is told that it has no page although it has: the row gives the session not back (`runner.py:116`, `database.py:370`) |
| `TaskContexts.LeftCanBeClosed` | `contexts` | `pool.py:204`: what a session's or a cancelled task's run leaves in `_task_contexts` is closed by nothing |
| `TaskContexts.EndedOwnsNothing` | `contexts` | `nodes.py:1681` releases what a failed or cancelled task has, but a cancelled run does not get to `complete_node` (`runner.py:355`) |
| `TaskContexts.ChallengeStaysOpen` | `contexts` | `README.md:188` "The browser remains open at the challenge page": the next submission closes it (`runner.py:65`) |
| `EventStream.ShownChronologically` | `stream` | `docs/observability.md:75` "chronological event feed": the consumer appends replayed events to a buffer that has them (`event_stream.py:94`), and a dashboard shows old ones after newer ones |
| `EventStream.EveryConnectionInOrder` | `stream` | `observability.py:36`: over SSE the queue is subscribed before the history is read, and an event in between is sent twice |
| `EventStream.StatusIsTrue` | `stream` | `event_stream.py:51`, `152`: the status stays connected when a WebSocket ends without an exception |
| `TaskStream.EndedStreamIsWhole` | `progress` | `api/tasks.py:166-190`: an event stored between the two reads, or after the row says that the task is over, comes only with the browser's next connection |
| `LlmCalls.QuotaAsksLite` | `progress` | `gemini.py:213` announces the lite model; in the last attempt the loop ends instead |
| `LlmCalls.LocalModelFits` | `progress` | `hybrid.py:21` promises offline execution; the fallback for an image hands the name of the Gemini model to Ollama (`hybrid.py:96`) |
| `Knowledge.KnownIsStored` | `progress` (with failing calls) | `pipeline.py:56`: `add_chunks` answers 0 when the write failed, and the file is skipped as unchanged from then on |
| `Knowledge.OneVersionStored` | `steps` | `pipeline.py:51` "delete old chunks": the id is the hash of the new content, so the old version stays |
| `Context.WithinBudget` | `steps` | `context_builder.py:73`: headers and frame come on top of the budget |
| `ModelRouting.OnlyInstalled` | `steps` | `router.py:32` "filters installed": the last resort need not be (`router.py:171`) |
| `ModelRouting.CooldownHolds` | `steps` with `Cooldown = 2` | `docs/configuration.md:19`: no code reads the setting (with its default of 1 nothing is asked) |
| `ModelRouting.SwitchIsReported` | `steps` | `router.py:133`: a task that keeps its model is told that nothing is switched although another task's model is loaded |
| `Launcher.QuitStopsAll` | `progress` | `main.py:547` "Stop All Services": Ollama stays (`main.py:655`) |
| `Launcher.RestartStartsAll` | `progress` | `main.py:546`: the Observatory is ended and not started again |
| `Launcher.OnlyStaleCleared` | `progress` | `main.py:711` "stale processes": the services of another launcher are ended too (`main.py:156`) |
| `Launcher.SignalStopsAll` | `progress` | a signal between `Popen` and the entry in `child_processes` (`main.py:405`) leaves that process |
| `BrowserActions.SuccessIsReadBack` | `steps` | `executor.py:27`: what is typed with the keyboard after `fill` raised is not read back |
| `BrowserActions.SubmittedOnce` | `steps` | an await that raises after Enter makes the fallback type and press Enter again (`executor.py:61`) |
| `BrowserActions.ClickChangedSomething` | `steps` | `executor.py:21` "verify the DOM mutated": the check passes when nothing changed (`manager.py:92`) |
| `Completion.BlockedIsNotDone`, `HomepageIsNotDone` | `steps` | `manager.py:185-187`: a page that blocks the search, or a home page with a parameter, may count as the result |
| `DesktopClick.RightControl` | `steps` | `uia.py:551`: a control whose name contains the planned one and comes first is operated |
| `DesktopClick.FreshCoordinates` | `steps` | `grounding.py:8`, `212`: the coordinates are those from before the model's answer |
| `DesktopClick.ObservedIsActive` | `steps` | `desktop_nodes.py:105`: the window of the last round is observed, the present one remembered |
| `DesktopClick.OneOperation` | `steps` | `uia.py:611`: a toggle whose new state cannot be read is clicked as well |
| `DesktopClick.DoubleClickReaches` | `steps` | `desktop_nodes.py:614`: a double click on a control that was found fails |
| `DesktopGoals.FocusedIsFocused` | `steps` with a `focused` condition that expects a window | `verifier.py:217`: a window that exists counts as focused |
| `DesktopGoals.AbsenceIsReal` | `steps` | `verifier.py:190`: a call that raises counts as absence |
| `DesktopGoals.SomethingSeen` | `steps` | `desktop_nodes.py:845` "all plan steps executed and verified": after three retries a task without conditions is completed although nothing was to be seen (`desktop_nodes.py:826-830`) |
| `DesktopGoals.AllHeldTogether` | `steps` | `verifier.py:175` "Fresh observation for all checks": conditions are judged at different times |

The models also reach the following; where a passing run excludes one, it does so by a
named constant or an exception written in the property.

* **The pool's bound.** A coroutine that waited takes a context from the queue
  before it counts it (`pool.py:144-146`). In between `_active` is one too small, and
  another `acquire` may create one context more than `docs/configuration.md:28`
  allows. `Accounting` therefore counts what is on its way.
* **Two runs that start the browser.** `start()` takes no lock. Of two coroutines that find no valid browser, one may stop the
  Playwright with which the other launches (`pool.py:82`, `371-376`), whose run then fails; or both launch,
  `_browser` is overwritten, and the first browser runs on with contexts that the pool counts, and is closed by nobody.
  The part *apart* sets `StartedAlone`; the shared one does not.
* **Two requests to resume.** `resume_blocked` and `switch_fallback` of one task may overlap (`runner.py:106-189`): each schedules a run,
  and two runs of one task then share its context. `TaskContexts.Ask` lets a task have one such request at a time;
  in `TaskRunner` they overlap when `ClientWaits = FALSE`.
* **A click that hit nothing.** A control without InvokePattern is clicked at the centre of its rectangle, whatever lies
  there (`uia.py:587-590`), and `invoke_element` answers True. `SemanticOperated` names this exception.
* **A session's context.** Two runs that share a key can both find no context and
  acquire; the second assignment (`pool.py:182`) overwrites the first, which then
  belongs to nobody. The part of `pool_safety` with runs apart sets `OneRunPerKey`; the shared one does not.
* **A cancelled run keeps its context.** `_run` catches `CancelledError` and only
  writes an event (`runner.py:355`): `complete_node`, whose comment says that failed
  and cancelled tasks release theirs (`nodes.py:1681`), is not reached.
* **Ended tasks are rewritten.** `cancel` does not look at the row
  (`runner.py:200`), so a deleted task that had completed is cancelled afterwards, and a
  rejection (`runner.py:88`) may overwrite what another request wrote.
* **Restart.** `checkpoint.py:4` speaks of resuming after an interruption. Nothing
  reschedules rows that were running, and `_active` starts empty: such a task stays
  'running' until a client cancels it.
* **Pause events.** `resume_blocked` replaces the event (`runner.py:136`); a run that
  waits for the old one is not woken by `resume`.
* **Recovery in mixed tasks.** `recovery_router` (`graph.py:131`) looks at the
  environment of the moment, and a task with steps in both can be sent to the loop
  of the other.
* **Retries.** `retry_count` is carried from one step to the next (`nodes.py:1423`
  and what follows), while `wiki/Configuration.md:67` says "per individual action".
* **A step back.** `navigate` sets the step to 2 whenever the first one is a
  navigation and there are more (`nodes.py:383-386`); in a resumed run that is a step that was already done.
* **Approval timeout.** `approval_timeout_seconds` (`config.py:69`,
  `docs/configuration.md:40`) is read by nothing.
* **A waiter without a giver.** Whoever waits in `acquire` waits for the queue
  (`pool.py:144`). A context that is dropped because its pages do not close or the
  browser died, or that a cancelled run carried, makes room in `_active` at most, and is never put
  there: with one fault of any kind `WaiterIsServed` does not hold. `pool_live` has none.

## 8. What is only model-checked, and what is not modelled

*Only model-checked.* Liveness under fairness and ENABLED are out of the prover's
reach: `WaiterIsServed`, `Terminates`, `CatchesUp`, `StaleDiesOut`, `ListedIsShown` and
`EverythingEnds` are checked on the instances of section 4, and of `ImplementsFairLifecycle` the
fairness; its initial states and steps are `RunnerImplementsLifecycle`. What of these properties is
about steps, and not about fairness, is proved (section 6, *What ends*). Every invariant and action
property of a passing run is stated by a theorem, in the cases where the theorem has a condition under
that condition (section 5). No module declares a RECURSIVE operator.

*Abstractions.* Texts, pages, plans and verdicts of models are choices among what
the code tells apart. An await is a point where other coroutines run only if the
awaited call can suspend there; a stretch between two of them is one action.
Wall-clock time is the statement that a run is overdue, and in the cache a number of ticks. A
coroutine that is cancelled ends at the await where it is. SQL statements are atomic and do not fail.
In `TaskContexts` an operation of the pool is one step, and so is a release that is cancelled in its midst; that the
awaits inside are harmless is what `BrowserPool` is for, and where they
are not, it is in section 7. Searches and walks of UI Automation are one step each, whose answer may be any
of those that a walk with failing calls can give; the desktop changes between them. A message on the wire when a connection is lost is one that
was not sent.

*Not modelled*, each with its reason in `PROJECT.json`:

* code without shared state that changes: plugins (a registry filled at import), the text
  filters, the settings, health and session handlers that read;
* files that synchronous code writes and scripts read later: evidence, experiments, replay,
  the audit log, traces and profiles;
* code that nothing calls: the code executor, `context()` of the pool, `can_resume` of the
  checkpoints;
* episodic memory, one record that is added after a task: that the call may raise is part of
  `TaskRunner`;
* what happens inside a page or another program: the script that extracts the DOM, the model
  that looks at a picture, embeddings and the search of the vector store; on the desktop typing,
  launching programs and moving windows (their outcomes are choices of `AgentGraph`);
* rendering in the user interfaces, packaging, and the scripts, benchmarks and tests, which were
  read as documentation.

## 9. What could come next

* Proofs: `RunnerWaitingCanBeDecided` with restarts, in the form that a restart leaves; the refinement of `TaskLifecycle` with the watchdog, for an abstract
  specification that lets an overdue task be cancelled twice; the pool with faults, where
  `NothingLost` becomes an account of what was dropped.
* Models: typing and launching on the desktop, which repeat the fallbacks of
  `BrowserActions`; the sessions' rows, to say what a repaired `database.py:370` would
  give (`TaskContexts` with the session as the key of every run).
