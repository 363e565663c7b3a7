----------------------------- MODULE BrowserPool -----------------------------
(***************************************************************************)
(* The pool of Playwright browser contexts (backend/browser/pool.py).      *)
(*                                                                         *)
(* Coroutines of one asyncio event loop call the pool: task runs look up,  *)
(* release or retain the context of their task, and closers (API handlers, *)
(* the idle watchdog, task submission, application exit) close what was    *)
(* retained.  A coroutine runs without interleaving until it awaits        *)
(* something that is not ready, so `loop' names the coroutine that is in   *)
(* the middle of such a stretch (NULL between two stretches): every step   *)
(* either keeps the loop or gives it up.  `lock' and `lockQ' are the       *)
(* asyncio.Lock: it is first-come first-served, and a coroutine that finds *)
(* it free while others are queued goes to the end of the queue.           *)
(***************************************************************************)
EXTENDS Integers, Sequences, FiniteSets, SequencesExt

CONSTANTS
  Runs,         \* coroutines that execute tasks
  Closers,      \* coroutines that close retained contexts or stop the pool
  Tasks,        \* keys of tasks without a session
  Sessions,     \* keys of persistent sessions
  Contexts,     \* identities of BrowserContext objects
  NULL,         \* None
  MaxContexts,  \* the configured size of the pool
  OneRunPerKey, \* TRUE: no two runs work under the same key at the same time
  MaxGets,      \* bound: calls of get_task_context by one run
  MaxCancels,   \* bound: runs that are cancelled or raise while using the pool
  MaxFailures,  \* bound: Playwright calls that raise although the browser is up
  MaxCrashes    \* bound: times the browser process dies

Keys  == Tasks \cup Sessions
Procs == Runs \cup Closers

ASSUME PoolAssumption ==
  /\ NULL \notin Contexts \cup Procs \cup Keys
  /\ Runs \cap Closers = {}
  /\ Tasks \cap Sessions = {}
  /\ MaxContexts \in Nat \ {0}
  /\ OneRunPerKey \in BOOLEAN
  /\ {MaxGets, MaxCancels, MaxFailures, MaxCrashes} \subseteq Nat

VARIABLES
  available,  \* _available: idle contexts (the order of the queue is not observable)
  active,     \* _active
  taskCtx,    \* _task_contexts, NULL where the key is absent
  retained,   \* _retained_contexts, NULL where the key is absent
  browser,    \* "none": _browser is None, "up": valid, "dead": no longer connected
  playwright, \* "none": _playwright is None, "up": it is not
  launcher,   \* the coroutine that awaits the launch of a browser by _playwright, or NULL
  doomed,     \* coroutines that launch a browser with a Playwright that was stopped
  orphans,    \* TRUE: a browser may run that _browser no longer names
  open,       \* contexts that exist in a browser
  lock,       \* the coroutine that awaits inside _lock, NULL if none does
  lockQ,      \* coroutines waiting for _lock, in order
  loop,       \* the coroutine the event loop is running, NULL between stretches
  pc,         \* where each coroutine is
  key,        \* local: session_id or task_id
  ctx,        \* local: the context in hand
  todo,       \* local: retained keys still to be closed
  cont,       \* local: what follows the closing ("idle", or the caller of shutdown)
  gets, cancels, failures, crashes   \* counters of the bounds

pool      == <<available, active, taskCtx, retained>>
lockVars  == <<lock, lockQ>>
chromium  == <<browser, playwright, launcher, doomed, orphans>>
closing   == <<todo, cont>>
counters  == <<gets, cancels, failures, crashes>>
vars == <<pool, chromium, open, lockVars, loop, pc, key, ctx, closing, counters>>

\* Statements that begin with "async with self._lock".
LockLabels == {"lookup", "acquire", "count", "assign", "pop", "retain",
               "snapshot", "closePop", "put"}
Labels == LockLabels \cup {"idle", "hold", "start", "create", "wait",
                           "drain", "clear", "quit", "stop", "launch", "chromium"}

\* Contexts that some object of the program still refers to.
Referenced == available \cup open \cup {taskCtx[k] : k \in Keys}
                \cup {retained[k] : k \in Keys} \cup {ctx[p] : p \in Procs}

Init ==
  /\ available = {} /\ active = 0
  /\ taskCtx = [k \in Keys |-> NULL] /\ retained = [k \in Keys |-> NULL]
  /\ browser = "none" /\ playwright = "none" /\ launcher = NULL /\ doomed = {} /\ orphans = FALSE
  /\ open = {}
  /\ lock = NULL /\ lockQ = <<>> /\ loop = NULL
  /\ pc = [p \in Procs |-> "idle"] /\ key = [p \in Procs |-> NULL]
  /\ ctx = [p \in Procs |-> NULL]
  /\ todo = [p \in Procs |-> {}] /\ cont = [p \in Procs |-> "idle"]
  /\ gets = [p \in Procs |-> 0] /\ cancels = 0 /\ failures = 0 /\ crashes = 0

-----------------------------------------------------------------------------
(* The event loop and the lock. *)

\* p may execute the statement `label' now.
At(p, label) == pc[p] = label /\ loop \in {NULL, p}

\* p goes on to `label'; it keeps the loop unless the statement there awaits.
Continue(p, label) == pc' = [pc EXCEPT ![p] = label] /\ loop' = p
Await(p, label)    == pc' = [pc EXCEPT ![p] = label] /\ loop' = NULL

LockIsFreeFor(p) == lock = NULL /\ (lockQ # <<>> => Head(lockQ) = p)

\* A critical section that does not await: taken and given back in one step.
Locked(p, label) ==
  /\ At(p, label)
  /\ LockIsFreeFor(p)
  /\ lockQ' = IF lockQ = <<>> THEN lockQ ELSE Tail(lockQ)

\* asyncio.Lock.acquire when the lock is held or others already wait for it.
QueueForLock(p) ==
  /\ pc[p] \in LockLabels /\ loop \in {NULL, p}
  /\ ~LockIsFreeFor(p)
  /\ ~Contains(lockQ, p)
  /\ lockQ' = Append(lockQ, p)
  /\ loop' = NULL
  /\ UNCHANGED <<pool, chromium, open, lock, pc, key, ctx, closing, counters>>

-----------------------------------------------------------------------------
(* get_task_context and acquire. *)

\* The application is exiting: no run is left, no request is accepted and the
\* watchdog is cancelled.
Stopping == \E p \in Closers : cont[p] = "stop"

\* A node of the run asks for the context of its task or session.
GetTaskContext(p, k) ==
  /\ ~Stopping
  /\ \/ pc[p] = "idle"
     \/ pc[p] = "hold" /\ key[p] = k
  /\ loop = NULL /\ gets[p] < MaxGets
  /\ OneRunPerKey => \A q \in Runs \ {p} : pc[q] = "idle" \/ key[q] # k
  /\ Continue(p, "lookup")
  /\ key' = [key EXCEPT ![p] = k]
  /\ ctx' = [ctx EXCEPT ![p] = NULL]
  /\ gets' = [gets EXCEPT ![p] = @ + 1]
  /\ UNCHANGED <<pool, chromium, open, lockVars, closing, cancels, failures, crashes>>

\* Mutant: the retained context that is reused stays in its table.
LookupKept(p) ==
  LET k == key[p] IN
  /\ Locked(p, "lookup")
  /\ \/ /\ taskCtx[k] # NULL
        /\ ctx' = [ctx EXCEPT ![p] = taskCtx[k]]
        /\ Await(p, "hold")
        /\ UNCHANGED taskCtx
     \/ /\ taskCtx[k] = NULL /\ retained[k] # NULL
        /\ taskCtx' = [taskCtx EXCEPT ![k] = retained[k]]
        /\ ctx' = [ctx EXCEPT ![p] = retained[k]]
        /\ Await(p, "hold")
     \/ /\ taskCtx[k] = NULL /\ retained[k] = NULL
        /\ Continue(p, "start")
        /\ UNCHANGED <<taskCtx, ctx>>
  /\ UNCHANGED <<available, active, retained, chromium, open, lock, key, closing, counters>>

\* Reuse the context in use, else the retained one, else acquire one.
Lookup(p) ==
  LET k == key[p] IN
  /\ Locked(p, "lookup")
  /\ \/ /\ taskCtx[k] # NULL
        /\ ctx' = [ctx EXCEPT ![p] = taskCtx[k]]
        /\ Await(p, "hold")
        /\ UNCHANGED <<taskCtx, retained>>
     \/ /\ taskCtx[k] = NULL /\ retained[k] # NULL
        /\ retained' = [retained EXCEPT ![k] = NULL]
        /\ taskCtx' = [taskCtx EXCEPT ![k] = retained[k]]
        /\ ctx' = [ctx EXCEPT ![p] = retained[k]]
        /\ Await(p, "hold")
     \/ /\ taskCtx[k] = NULL /\ retained[k] = NULL
        /\ Continue(p, "start")
        /\ UNCHANGED <<taskCtx, retained, ctx>>
  /\ UNCHANGED <<available, active, chromium, open, lock, key, closing, counters>>

\* _is_browser_valid: a stopped Playwright makes a browser invalid too.
BrowserIsValid == browser = "up" /\ playwright = "up"

\* start(): nothing to do for a valid browser, else shut down and launch again.
Start(p) ==
  /\ At(p, "start")
  /\ IF BrowserIsValid
     THEN Continue(p, "acquire") /\ UNCHANGED cont
     ELSE Continue(p, "snapshot") /\ cont' = [cont EXCEPT ![p] = "launch"]
  /\ UNCHANGED <<pool, chromium, open, lockVars, key, ctx, todo, counters>>

\* Playwright is started, and starts to launch a browser, ...
Launch(p) ==
  /\ At(p, "launch")
  /\ \/ /\ playwright' = "up" /\ launcher' = p
        /\ Await(p, "chromium")
        /\ UNCHANGED <<cont, failures>>
     \/ /\ failures < MaxFailures
        /\ failures' = failures + 1
        /\ Await(p, "idle")
        /\ cont' = [cont EXCEPT ![p] = "idle"]
        /\ UNCHANGED <<playwright, launcher>>
  /\ UNCHANGED <<pool, browser, doomed, orphans, open, lockVars, key, ctx, todo, gets, cancels, crashes>>

\* The launch of p is over.
Launched(p) ==
  /\ launcher' = IF launcher = p THEN NULL ELSE launcher
  /\ doomed' = doomed \ {p}

\* ... which takes the place of a browser that another start() has launched meanwhile, or
\* fails because another start() has stopped the Playwright.
Chromium(p) ==
  /\ At(p, "chromium")
  /\ \/ /\ p \notin doomed
        /\ browser' = "up" /\ orphans' = (orphans \/ browser = "up")
        /\ Continue(p, "acquire")
        /\ UNCHANGED failures
     \/ /\ p \in doomed \/ failures < MaxFailures
        /\ failures' = IF p \in doomed THEN failures ELSE failures + 1
        /\ Await(p, "idle")
        /\ UNCHANGED <<browser, orphans>>
  /\ Launched(p)
  /\ cont' = [cont EXCEPT ![p] = "idle"]
  /\ UNCHANGED <<pool, playwright, open, lockVars, key, ctx, todo, gets, cancels, crashes>>

\* An idle context, else a new one if the pool is not full, else wait.
Acquire(p) ==
  /\ Locked(p, "acquire")
  /\ \/ /\ \E c \in available : /\ available' = available \ {c}
                                /\ ctx' = [ctx EXCEPT ![p] = c]
        /\ active' = active + 1
        /\ Continue(p, "assign")
        /\ UNCHANGED lock
     \/ /\ available = {} /\ active < MaxContexts
        /\ active' = active + 1
        /\ lock' = p
        /\ Await(p, "create")
        /\ UNCHANGED <<available, ctx>>
     \/ /\ available = {} /\ active >= MaxContexts
        /\ Await(p, "wait")
        /\ UNCHANGED <<available, active, ctx, lock>>
  /\ UNCHANGED <<taskCtx, retained, chromium, open, key, closing, counters>>

\* new_context and add_init_script return; the lock has been held all along.
CreateOk(p) ==
  /\ At(p, "create")
  /\ browser = "up"
  /\ \E c \in Contexts \ Referenced : /\ open' = open \cup {c}
                                      /\ ctx' = [ctx EXCEPT ![p] = c]
  /\ lock' = NULL
  /\ Continue(p, "assign")
  /\ UNCHANGED <<pool, chromium, lockQ, key, closing, counters>>

\* new_context raises: shutdown() is called with the lock still held.
CreateFail(p) ==
  /\ At(p, "create")
  /\ browser = "up" => failures < MaxFailures
  /\ failures' = IF browser = "up" THEN failures + 1 ELSE failures
  /\ cont' = [cont EXCEPT ![p] = "recreate"]
  /\ Continue(p, "snapshot")
  /\ UNCHANGED <<pool, chromium, open, lockVars, key, ctx, todo, gets, cancels, crashes>>

\* A waiter takes a context that was put back, and counts it under the lock.
TakeAvailable(p) ==
  /\ At(p, "wait")
  /\ \E c \in available : /\ available' = available \ {c}
                          /\ ctx' = [ctx EXCEPT ![p] = c]
  /\ Continue(p, "count")
  /\ UNCHANGED <<active, taskCtx, retained, chromium, open, lockVars, key, closing, counters>>

\* Mutant: the context a waiter takes is not counted.
CountMissed(p) ==
  /\ Locked(p, "count")
  /\ Continue(p, "assign")
  /\ UNCHANGED <<pool, chromium, open, lock, key, ctx, closing, counters>>

Count(p) ==
  /\ Locked(p, "count")
  /\ active' = active + 1
  /\ Continue(p, "assign")
  /\ UNCHANGED <<available, taskCtx, retained, chromium, open, lock, key, ctx, closing, counters>>

Assign(p) ==
  /\ Locked(p, "assign")
  /\ taskCtx' = [taskCtx EXCEPT ![key[p]] = ctx[p]]
  /\ Await(p, "hold")
  /\ UNCHANGED <<available, active, retained, chromium, open, lock, key, ctx, closing, counters>>

-----------------------------------------------------------------------------
(* release_task_context, retain_task_context, and runs that end without them. *)

\* Mutant: complete_node calls neither, as if every task had a session.
GiveBackMissed(p) ==
  /\ pc[p] = "hold" /\ loop = NULL
  /\ Await(p, "idle")
  /\ ctx' = [ctx EXCEPT ![p] = NULL]
  /\ UNCHANGED <<pool, chromium, open, lockVars, key, closing, counters>>

\* Mutant: the context of a session is treated like that of a task.
GiveBackSession(p) ==
  /\ pc[p] = "hold" /\ loop = NULL
  /\ Continue(p, "pop") \/ Continue(p, "retain")
  /\ ctx' = [ctx EXCEPT ![p] = NULL]
  /\ UNCHANGED <<pool, chromium, open, lockVars, key, closing, counters>>

\* complete_node calls one of the two; both leave a session's context alone.
GiveBack(p) ==
  /\ pc[p] = "hold" /\ loop = NULL
  /\ IF key[p] \in Sessions
     THEN Await(p, "idle")
     ELSE Continue(p, "pop") \/ Continue(p, "retain")
  /\ ctx' = [ctx EXCEPT ![p] = NULL]
  /\ UNCHANGED <<pool, chromium, open, lockVars, key, closing, counters>>

\* Mutant: get instead of pop, the task keeps the context it releases.
PopKept(p) ==
  LET c == taskCtx[key[p]] IN
  /\ Locked(p, "pop")
  /\ IF c = NULL \/ browser = "none"
     THEN Await(p, "idle") /\ UNCHANGED ctx
     ELSE Await(p, "put") /\ ctx' = [ctx EXCEPT ![p] = c]
  /\ UNCHANGED <<pool, chromium, open, lock, key, closing, counters>>

\* release_task_context; release() does nothing once the browser is gone.
Pop(p) ==
  LET c == taskCtx[key[p]] IN
  /\ Locked(p, "pop")
  /\ taskCtx' = [taskCtx EXCEPT ![key[p]] = NULL]
  /\ IF c = NULL \/ browser = "none"
     THEN Await(p, "idle") /\ UNCHANGED ctx
     ELSE Await(p, "put") /\ ctx' = [ctx EXCEPT ![p] = c]
  /\ UNCHANGED <<available, active, retained, chromium, open, lock, key, closing, counters>>

Retain(p) ==
  LET c == taskCtx[key[p]] IN
  /\ Locked(p, "retain")
  /\ IF c = NULL
     THEN UNCHANGED <<taskCtx, retained>>
     ELSE /\ taskCtx' = [taskCtx EXCEPT ![key[p]] = NULL]
          /\ retained' = [retained EXCEPT ![key[p]] = c]
  /\ Await(p, "idle")
  /\ UNCHANGED <<available, active, chromium, open, lock, key, ctx, closing, counters>>

\* The run is cancelled, or raises, at a point where it awaits something.
Cancel(p) ==
  /\ pc[p] # "idle" /\ loop = NULL /\ cancels < MaxCancels
  /\ cancels' = cancels + 1
  /\ pc' = [pc EXCEPT ![p] = "idle"]
  /\ lock' = IF lock = p THEN NULL ELSE lock
  /\ lockQ' = IF Contains(lockQ, p)
               THEN RemoveAt(lockQ, CHOOSE i \in 1..Len(lockQ) : lockQ[i] = p)
               ELSE lockQ
  /\ ctx' = [ctx EXCEPT ![p] = NULL]
  /\ todo' = [todo EXCEPT ![p] = {}]
  /\ cont' = [cont EXCEPT ![p] = "idle"]
  /\ Launched(p)
  /\ UNCHANGED <<pool, browser, playwright, orphans, open, loop, key, gets, failures, crashes>>

-----------------------------------------------------------------------------
(* close_task_browser, close_all_retained and shutdown. *)

\* Where the coroutine goes after closing one key, `rest' being left to close.
AfterClosing(p, rest) ==
  IF rest # {} THEN Continue(p, "closePop")
  ELSE IF cont[p] = "idle" THEN Await(p, "idle") ELSE Continue(p, "drain")

\* The user closes the browser of a task, or the watchdog finds it expired.
CloseTaskBrowser(p, k) ==
  /\ ~Stopping
  /\ pc[p] = "idle" /\ loop = NULL
  /\ todo' = [todo EXCEPT ![p] = {k}]
  /\ Continue(p, "closePop")
  /\ UNCHANGED <<pool, chromium, open, lockVars, key, ctx, cont, counters>>

\* Submission of a new task.
CloseAllRetained(p) ==
  /\ ~Stopping
  /\ pc[p] = "idle" /\ loop = NULL
  /\ Continue(p, "snapshot")
  /\ UNCHANGED <<pool, chromium, open, lockVars, key, ctx, closing, counters>>

\* Application exit; every run has been cancelled before.
Shutdown(p) ==
  /\ \A q \in Procs : pc[q] = "idle"
  /\ loop = NULL /\ browser # "none"
  /\ cont' = [cont EXCEPT ![p] = "stop"]
  /\ Continue(p, "snapshot")
  /\ UNCHANGED <<pool, chromium, open, lockVars, key, ctx, todo, counters>>

Snapshot(p) ==
  LET ids == {k \in Keys : retained[k] # NULL} IN
  /\ Locked(p, "snapshot")
  /\ todo' = [todo EXCEPT ![p] = ids]
  /\ AfterClosing(p, ids)
  /\ UNCHANGED <<pool, chromium, open, lock, key, ctx, cont, counters>>

ClosePop(p) ==
  /\ Locked(p, "closePop")
  /\ \E k \in todo[p] :
       /\ todo' = [todo EXCEPT ![p] = @ \ {k}]
       /\ IF retained[k] = NULL
          THEN AfterClosing(p, todo[p] \ {k}) /\ UNCHANGED <<retained, ctx>>
          ELSE /\ retained' = [retained EXCEPT ![k] = NULL]
               /\ ctx' = [ctx EXCEPT ![p] = retained[k]]
               /\ Await(p, "put")
  /\ UNCHANGED <<available, active, taskCtx, chromium, open, lock, key, cont, counters>>

\* Mutant: the context is counted as free and not put back.
PutLost(p) ==
  /\ Locked(p, "put")
  /\ active' = IF active = 0 THEN 0 ELSE active - 1
  /\ ctx' = [ctx EXCEPT ![p] = NULL]
  /\ AfterClosing(p, todo[p])
  /\ UNCHANGED <<available, taskCtx, retained, chromium, open, lock, key, closing, counters>>

\* The pages are closed; the context goes back to the queue.
Put(p) ==
  /\ Locked(p, "put")
  /\ active' = IF active = 0 THEN 0 ELSE active - 1
  /\ available' = available \cup {ctx[p]}
  /\ ctx' = [ctx EXCEPT ![p] = NULL]
  /\ AfterClosing(p, todo[p])
  /\ UNCHANGED <<taskCtx, retained, chromium, open, lock, key, closing, counters>>

\* page.close() raises: the context that was popped is not put back.  start() swallows the
\* exception of its shutdown, forgets the browser that may still run, and launches another.
ClosePagesFail(p) ==
  /\ At(p, "put") /\ ~Contains(lockQ, p)
  /\ browser = "up" => failures < MaxFailures
  /\ failures' = IF browser = "up" THEN failures + 1 ELSE failures
  /\ ctx' = [ctx EXCEPT ![p] = NULL]
  /\ todo' = [todo EXCEPT ![p] = {}]
  /\ IF cont[p] = "launch"
     THEN /\ browser' = "none" /\ playwright' = "none" /\ launcher' = NULL
          /\ orphans' = (orphans \/ browser = "up")
          /\ Await(p, "launch") /\ UNCHANGED cont
     ELSE /\ UNCHANGED <<browser, playwright, launcher, orphans>>
          /\ Await(p, "idle") /\ cont' = [cont EXCEPT ![p] = "idle"]
  /\ UNCHANGED <<pool, doomed, open, lockVars, key, gets, cancels, crashes>>

\* shutdown closes the queued contexts one by one, then those of the tasks.
Drain(p) ==
  LET inUse == {taskCtx[k] : k \in Keys} \ {NULL} IN
  /\ At(p, "drain")
  /\ \/ \E c \in available : /\ available' = available \ {c}
                             /\ open' = open \ {c}
                             /\ Await(p, "drain")
     \/ /\ available = {}
        /\ open' = open \ inUse
        /\ IF inUse = {} THEN Continue(p, "clear") ELSE Await(p, "clear")
        /\ UNCHANGED available
  /\ UNCHANGED <<active, taskCtx, retained, chromium, lockVars, key, ctx, closing, counters>>

\* Mutant: shutdown forgets to clear the contexts of the tasks.
ClearMissed(p) ==
  /\ At(p, "clear")
  /\ retained' = [k \in Keys |-> NULL]
  /\ active' = 0
  /\ IF browser = "none" THEN Continue(p, "quit") ELSE Await(p, "quit")
  /\ UNCHANGED <<available, taskCtx, chromium, open, lockVars, key, ctx, closing, counters>>

Clear(p) ==
  /\ At(p, "clear")
  /\ taskCtx' = [k \in Keys |-> NULL] /\ retained' = [k \in Keys |-> NULL]
  /\ active' = 0
  /\ IF browser = "none" THEN Continue(p, "quit") ELSE Await(p, "quit")
  /\ UNCHANGED <<available, chromium, open, lockVars, key, ctx, closing, counters>>

\* The contexts of a browser that is closed, or dies, go with it.
ContextsGo == IF orphans THEN open' \in SUBSET open ELSE open' = {}

\* What follows shutdown: start() launches a browser, other callers are done.
AfterShutdown(p) ==
  IF cont[p] = "launch"
  THEN Await(p, "launch") /\ UNCHANGED cont
  ELSE Await(p, "idle") /\ cont' = [cont EXCEPT ![p] = "idle"]

\* The browser is closed, and Playwright is asked to stop: nothing that it still launches comes.
Quit(p) ==
  /\ At(p, "quit")
  /\ browser' = "none" /\ ContextsGo
  /\ IF playwright = "none"
     THEN AfterShutdown(p) /\ UNCHANGED <<launcher, doomed>>
     ELSE /\ Await(p, "stop") /\ UNCHANGED cont
          /\ launcher' = NULL /\ doomed' = doomed \cup ({launcher} \ {NULL})
  /\ UNCHANGED <<pool, playwright, orphans, lockVars, key, ctx, todo, counters>>

Stop(p) ==
  /\ At(p, "stop")
  /\ playwright' = "none" /\ launcher' = NULL
  /\ AfterShutdown(p)
  /\ UNCHANGED <<pool, browser, doomed, orphans, open, lockVars, key, ctx, todo, counters>>

\* The browser process dies; every context in it is gone.
BrowserDies ==
  /\ browser = "up" /\ loop = NULL /\ crashes < MaxCrashes
  /\ browser' = "dead" /\ ContextsGo
  /\ crashes' = crashes + 1
  /\ UNCHANGED <<pool, playwright, launcher, doomed, orphans, lockVars, loop, pc, key, ctx, closing, gets, cancels,
                 failures>>

-----------------------------------------------------------------------------

\* What a coroutine does by itself once it has called the pool.
Step(p) ==
  \/ QueueForLock(p) \/ Lookup(p) \/ Start(p) \/ Launch(p) \/ Chromium(p) \/ Acquire(p)
  \/ CreateOk(p) \/ CreateFail(p) \/ TakeAvailable(p) \/ Count(p) \/ Assign(p)
  \/ Pop(p) \/ Retain(p) \/ Snapshot(p) \/ ClosePop(p) \/ Put(p)
  \/ ClosePagesFail(p) \/ Drain(p) \/ Clear(p) \/ Quit(p) \/ Stop(p)

RunCall(p)   == (\E k \in Keys : GetTaskContext(p, k)) \/ GiveBack(p) \/ Cancel(p)
CloserCall(p) == (\E k \in Keys : CloseTaskBrowser(p, k)) \/ CloseAllRetained(p) \/ Shutdown(p)

Next ==
  \/ \E p \in Procs : Step(p)
  \/ \E p \in Runs : RunCall(p)
  \/ \E p \in Closers : CloserCall(p)
  \/ BrowserDies

Spec == Init /\ [][Next]_vars

\* The event loop runs ready coroutines first-come first-served, so one that is
\* ready again and again is not passed over for ever (strong fairness, since
\* another coroutine's stretch disables it for a moment); a run that has a
\* context ends in complete_node; the watchdog closes what is retained.
Fairness ==
  /\ \A p \in Procs : SF_vars(Step(p))
  /\ \A p \in Runs : SF_vars(GiveBack(p))
  /\ \A p \in Closers, k \in Keys : SF_vars(retained[k] # NULL /\ CloseTaskBrowser(p, k))

FairSpec == Spec /\ Fairness

-----------------------------------------------------------------------------
(* Properties. *)

PoolType ==
  /\ available \subseteq Contexts /\ active \in Nat
  /\ taskCtx \in [Keys -> Contexts \cup {NULL}]
  /\ retained \in [Keys -> Contexts \cup {NULL}]
  /\ browser \in {"none", "up", "dead"} /\ playwright \in {"none", "up"}
  /\ launcher \in Procs \cup {NULL} /\ doomed \subseteq Procs /\ orphans \in BOOLEAN /\ open \subseteq Contexts

LoopType ==
  /\ lock \in Procs \cup {NULL} /\ lockQ \in Seq(Procs)
  /\ loop \in Procs \cup {NULL}
  /\ pc \in [Procs -> Labels]

LocalType ==
  /\ key \in [Procs -> Keys \cup {NULL}]
  /\ ctx \in [Procs -> Contexts \cup {NULL}]
  /\ todo \in [Procs -> SUBSET Keys]
  /\ cont \in [Procs -> {"idle", "stop", "launch", "recreate"}]

CounterType == gets \in [Procs -> Nat] /\ cancels \in Nat /\ failures \in Nat /\ crashes \in Nat

TypeOK == PoolType /\ LoopType /\ LocalType /\ CounterType

\* Coroutines that have taken a context out of every table of the pool.
Carrying(p) == pc[p] \in {"count", "assign", "put"}

\* An idle context, and one in a table, is there once and in no other place.
TablesDisjoint ==
  /\ \A k, l \in Keys : k # l /\ taskCtx[k] # NULL => taskCtx[k] # taskCtx[l]
  /\ \A k, l \in Keys : k # l /\ retained[k] # NULL => retained[k] # retained[l]
  /\ \A k, l \in Keys : taskCtx[k] # NULL => taskCtx[k] # retained[l]
  /\ \A k \in Keys : taskCtx[k] \notin available /\ retained[k] \notin available

\* A carried context is in no table, and no other coroutine carries it.
CarriedAlone ==
  \A p \in Procs : Carrying(p) =>
    /\ ctx[p] # NULL /\ ctx[p] \notin available
    /\ \A k \in Keys : ctx[p] # taskCtx[k] /\ ctx[p] # retained[k]
    /\ \A q \in Procs \ {p} : Carrying(q) => ctx[p] # ctx[q]

(* A context has at most one owner: the queue of idle contexts, one entry  *)
(* of one of the two tables, or one coroutine that carries it from one to  *)
(* another.  Otherwise the pool would give one context to two tasks.       *)
OneOwner == TablesDisjoint /\ CarriedAlone

(* Two runs that work for different keys never hold the same context       *)
(* ("isolated Playwright contexts", pool.py:30).                           *)
Isolation ==
  \A p, q \in Runs : pc[p] = "hold" /\ pc[q] = "hold" /\ key[p] # key[q] => ctx[p] # ctx[q]

(* _active counts exactly the contexts that are neither idle nor just taken *)
(* by a waiter that has yet to count them, plus those being created (until  *)
(* the application exits).                                                  *)
Accounting ==
  LET uncounted == {ctx[p] : p \in {q \in Procs : pc[q] = "count"}}
      creating  == {p \in Procs : pc[p] = "create"}
  IN  ~Stopping => active = Cardinality(open \ (available \cup uncounted)) + Cardinality(creating)

(* No context is lost: each one is idle, owned by a key, or carried by a    *)
(* coroutine.  A lost context is never closed and never used again.         *)
NothingLost ==
  \A c \in open : \/ c \in available
                  \/ \E k \in Keys : c \in {taskCtx[k], retained[k]}
                  \/ \E p \in Procs : Carrying(p) /\ ctx[p] = c

(* Only a session keeps a context when no run works under its key: a task   *)
(* that has ended owns a retained context or none (nodes.py:1681).          *)
EndedTaskOwnsNothing ==
  \A k \in Tasks : (\A p \in Runs : pc[p] = "idle" \/ key[p] # k) => taskCtx[k] = NULL

(* A context handed out by the pool exists in the browser, unless the       *)
(* browser has just died: a stretch that ends in holding a context ends     *)
(* with an open one.                                                        *)
HandsOutOpen ==
  \A p \in Runs : pc[p] # "hold" /\ pc'[p] = "hold" /\ browser = "up" => ctx'[p] \in open'

(* The context of a persistent session stays the context of the session     *)
(* ("Persistent sessions remain open for future tasks", pool.py:191).       *)
SessionKeepsContext ==
  \A k \in Sessions : ~Stopping /\ taskCtx[k] # NULL => taskCtx'[k] = taskCtx[k]

(* A run that waits for a context gets one, if every run gives back.        *)
WaiterIsServed == \A p \in Runs : pc[p] = "wait" ~> pc[p] = "hold"

(* A run whose context could not be created goes on with a new browser.     *)
FailedCreationRecovers == \A p \in Runs : pc[p] = "create" ~> pc[p] \in {"assign", "hold", "idle"}
=============================================================================
