------------------------------ MODULE TaskRunner ------------------------------
(***************************************************************************)
(* How a task is submitted, approved, paused, resumed, cancelled and run   *)
(* (backend/agent/runner.py with the task and approval rows of             *)
(* backend/db/database.py, the handlers of backend/api/tasks.py and        *)
(* backend/api/approvals.py, and checkpoint.py).                           *)
(*                                                                         *)
(* Everything runs in one event loop; an action is the code between two    *)
(* awaits.  A run is one asyncio.Task of TaskRunner._run; the graph it     *)
(* drives appears as the nodes that change what the runner and the         *)
(* database see (AgentGraph has the rest).  A handler is one request, or   *)
(* the timeout watchdog.                                                   *)
(***************************************************************************)
EXTENDS Integers, FiniteSets

CONSTANTS
  Tasks,
  Risky,            \* tasks whose intent requires approval
  Runs,             \* identities of asyncio.Task objects
  Handlers,         \* requests that may be in progress at the same time
  Watchdog,         \* the coroutine _timeout_watchdog
  NULL,
  WatchdogStarted,  \* TRUE: TaskRunner.start() was called
  ClientWaits,      \* TRUE: clients act only on a task that is at rest
  LateFaults,       \* TRUE: what follows the write of the final row may raise
  Restarts,         \* TRUE: the process may stop and start again
  MaxNodes          \* bound: nodes a run passes between risk_check and complete

Terminal == {"completed", "failed", "cancelled"}
Statuses == Terminal \cup {"queued", "running", "waiting_approval", "blocked"}

ASSUME RunnerAssumption ==
  /\ Risky \subseteq Tasks
  /\ NULL \notin Runs \cup Tasks \cup Statuses
  /\ Watchdog \notin Handlers
  /\ {WatchdogStarted, ClientWaits, LateFaults, Restarts} \subseteq BOOLEAN
  /\ MaxNodes \in Nat \ {0}

VARIABLES
  status,     \* tasks.status, NULL before the row exists
  approval,   \* approvals.status of the approval of the task, NULL if none
  ckpt,       \* TRUE if the task has a checkpoint
  active,     \* TaskRunner._active
  started,    \* TaskRunner._started_at: "none", "fresh" or "overdue"
  event,      \* TaskRunner._pause_events: "none", "set" or "clear"
  rpc, rnext, \* runs: where each one is, and the node after the gate
  rtask,      \* runs: task_id
  rapproved,  \* runs: state["approved"]
  rstatus,    \* runs: state["status"]
  rnode,      \* runs: nodes passed since risk_check
  rcancel,    \* runs: asyncio.Task.cancel() was called
  hpc, htask, \* handlers: where each one is, and its task
  overdue,    \* the watchdog's copy of _started_at
  consented,  \* history: tasks that a human has approved at some time
  resumed     \* history: other risky tasks that a human has resumed from blocked

db       == <<status, approval>>
runner   == <<active, started, event>>
runVars  == <<rpc, rnext, rtask, rapproved, rstatus, rnode, rcancel>>
reqVars  == <<hpc, htask, overdue>>
history  == <<consented, resumed>>
vars == <<db, ckpt, runner, runVars, reqVars, history>>

RunLabels ==
  {"free", "created", "load", "risk", "work", "complete", "summarize", "finally", "except",
   "gate", "paused", "woken", "orphaned"}
Procs    == Handlers \cup {Watchdog}

\* A run of the task that has been scheduled and has not ended.
RunsOf(t) == {r \in Runs : rtask[r] = t}
\* The runs that wait for the pause event of t go to label.
Move(t, label) ==
  [r \in Runs |-> IF rpc[r] = "paused" /\ rtask[r] = t THEN label ELSE rpc[r]]
\* Nothing is in progress for the task.
AtRest(t) == RunsOf(t) = {} /\ \A h \in Procs : htask[h] # t

Init ==
  /\ status = [t \in Tasks |-> NULL] /\ approval = [t \in Tasks |-> NULL]
  /\ ckpt = [t \in Tasks |-> FALSE]
  /\ active = [t \in Tasks |-> NULL] /\ started = [t \in Tasks |-> "none"]
  /\ event = [t \in Tasks |-> "none"]
  /\ rpc = [r \in Runs |-> "free"] /\ rnext = [r \in Runs |-> "free"]
  /\ rtask = [r \in Runs |-> NULL] /\ rapproved = [r \in Runs |-> FALSE]
  /\ rstatus = [r \in Runs |-> "running"] /\ rnode = [r \in Runs |-> 1]
  /\ rcancel = [r \in Runs |-> FALSE]
  /\ hpc = [h \in Procs |-> "idle"] /\ htask = [h \in Procs |-> NULL]
  /\ overdue = {} /\ consented = {} /\ resumed = {}

-----------------------------------------------------------------------------
(* Requests. *)

\* The request h for task t begins and is next at label.
Begin(h, t, label) ==
  /\ hpc[h] = "idle"
  /\ hpc' = [hpc EXCEPT ![h] = label] /\ htask' = [htask EXCEPT ![h] = t]
Goto(h, label) == hpc' = [hpc EXCEPT ![h] = label] /\ UNCHANGED htask
\* The request h has been answered.
Answer(h) ==
  hpc' = [hpc EXCEPT ![h] = "idle"] /\ htask' = [htask EXCEPT ![h] = NULL]

\* Mutant: the new run is not registered.
ScheduleHidden(t, approved, pcs) ==
  \E r \in Runs :
    /\ rpc[r] = "free"
    /\ started' = [started EXCEPT ![t] = "fresh"]
    /\ rpc' = [pcs EXCEPT ![r] = "created"]
    /\ rtask' = [rtask EXCEPT ![r] = t]
    /\ rapproved' = [rapproved EXCEPT ![r] = approved]
    /\ rcancel' = [rcancel EXCEPT ![r] = FALSE]
    /\ UNCHANGED <<active, rnext, rstatus, rnode>>

\* TaskRunner._schedule, after which the other runs are where pcs says:
\* whatever run was registered before is forgotten.
Schedule(t, approved, pcs) ==
  \E r \in Runs :
    /\ rpc[r] = "free"
    /\ active' = [active EXCEPT ![t] = r]
    /\ started' = [started EXCEPT ![t] = "fresh"]
    /\ rpc' = [pcs EXCEPT ![r] = "created"]
    /\ rtask' = [rtask EXCEPT ![r] = t]
    /\ rapproved' = [rapproved EXCEPT ![r] = approved]
    /\ rcancel' = [rcancel EXCEPT ![r] = FALSE]
    /\ UNCHANGED <<rnext, rstatus, rnode>>

\* POST /api/tasks: the row is visible before the run is scheduled.
Submit(h, t) ==
  /\ status[t] = NULL
  /\ Begin(h, t, "submitted")
  /\ status' = [status EXCEPT ![t] = "queued"]
  /\ event' = [event EXCEPT ![t] = "set"]
  /\ UNCHANGED <<approval, ckpt, active, started, runVars, overdue, history>>

ScheduleSubmitted(h) ==
  /\ hpc[h] = "submitted"
  /\ Answer(h)
  /\ Schedule(htask[h], FALSE, rpc)
  /\ UNCHANGED <<db, ckpt, event, overdue, history>>

\* POST /api/approvals/{id}/respond: the decision overwrites any earlier one.
Respond(h, t, decision) ==
  /\ approval[t] # NULL
  /\ ClientWaits => AtRest(t) /\ status[t] = "waiting_approval" /\ approval[t] = "pending"
  /\ Begin(h, t, decision)
  /\ approval' = [approval EXCEPT ![t] = decision]
  /\ consented' = IF decision = "approved" THEN consented \cup {t} ELSE consented
  /\ UNCHANGED <<status, ckpt, runner, runVars, overdue, resumed>>

\* Mutant: a rejected task goes back to the queue as well.
ApplyDecisionToBoth(h) ==
  /\ hpc[h] \in {"approved", "rejected"}
  /\ status' = [status EXCEPT ![htask[h]] = "queued"]
  /\ Goto(h, "requeued")
  /\ UNCHANGED <<approval, ckpt, runner, runVars, overdue, history>>

\* The decision takes effect on the task row, whatever the row says by now.
ApplyDecision(h) ==
  /\ \/ /\ hpc[h] = "approved"
        /\ status' = [status EXCEPT ![htask[h]] = "queued"]
        /\ Goto(h, "requeued")
     \/ /\ hpc[h] = "rejected"
        /\ status' = [status EXCEPT ![htask[h]] = "failed"]
        /\ Answer(h)
  /\ UNCHANGED <<approval, ckpt, runner, runVars, overdue, history>>

\* approve ends by scheduling a new run.
ScheduleApproved(h) ==
  /\ hpc[h] = "requeued"
  /\ Answer(h)
  /\ Schedule(htask[h], TRUE, rpc)
  /\ UNCHANGED <<db, ckpt, event, overdue, history>>

\* resume_blocked and switch_fallback do too, with a new pause event: a run
\* that waits for the old one is out of reach of resume.
ScheduleUnblocked(h) ==
  LET t == htask[h] IN
  /\ hpc[h] = "unblocked"
  /\ Answer(h)
  /\ event' = [event EXCEPT ![t] = "set"]
  /\ Schedule(t, TRUE, Move(t, "orphaned"))
  /\ UNCHANGED <<db, ckpt, overdue, history>>

\* POST resume of a blocked task, or POST fallback: the status is read here.
ResumeBlocked(h, t, how) ==
  /\ status[t] = "blocked"
  /\ ClientWaits => AtRest(t)
  /\ Begin(h, t, how)
  /\ resumed' = resumed \cup (({t} \cap Risky) \ consented)
  /\ UNCHANGED <<db, ckpt, runner, runVars, overdue, consented>>

\* detect_captcha: the challenge is still there, or the task may go on.
CheckCaptcha(h) ==
  /\ hpc[h] = "resume"
  /\ Answer(h) \/ Goto(h, "fallback")
  /\ UNCHANGED <<db, ckpt, runner, runVars, overdue, history>>

Requeue(h) ==
  /\ hpc[h] = "fallback"
  /\ status' = [status EXCEPT ![htask[h]] = "queued"]
  /\ Goto(h, "unblocked")
  /\ UNCHANGED <<approval, ckpt, runner, runVars, overdue, history>>

\* POST pause, and POST resume of a task that is not blocked.
Pause(t) ==
  /\ event[t] = "set"
  /\ event' = [event EXCEPT ![t] = "clear"]
  /\ UNCHANGED <<db, ckpt, active, started, runVars, reqVars, history>>

Resume(t) ==
  /\ event[t] = "clear" /\ status[t] # "blocked"
  /\ event' = [event EXCEPT ![t] = "set"]
  /\ rpc' = Move(t, "woken")
  /\ UNCHANGED <<db, ckpt, active, started, rnext, rtask, rapproved, rstatus, rnode, rcancel,
                 reqVars, history>>

\* Mutant: the run is forgotten and not cancelled.
CancelRunForgets(h, t) ==
  /\ Begin(h, t, "cancelling")
  /\ event' = [event EXCEPT ![t] = IF @ = "clear" THEN "set" ELSE @]
  /\ rpc' = Move(t, "woken")
  /\ active' = [active EXCEPT ![t] = NULL]
  /\ UNCHANGED <<db, ckpt, started, rnext, rtask, rapproved, rstatus, rnode, rcancel,
                 history>>

\* The first stretch of TaskRunner.cancel: the registered run is cancelled.
CancelRun(h, t) ==
  /\ Begin(h, t, "cancelling")
  /\ event' = [event EXCEPT ![t] = IF @ = "clear" THEN "set" ELSE @]
  /\ rpc' = Move(t, "woken")
  /\ active' = [active EXCEPT ![t] = NULL]
  /\ rcancel' = [r \in Runs |-> rcancel[r] \/ r = active[t]]
  /\ UNCHANGED <<db, ckpt, started, rnext, rtask, rapproved, rstatus, rnode, history>>

\* DELETE /api/tasks/{id}
Cancel(h, t) ==
  /\ status[t] # NULL
  /\ ClientWaits => status[t] \notin Terminal /\ \A k \in Procs : htask[k] # t
  /\ CancelRun(h, t)
  /\ UNCHANGED overdue

\* The second stretch: the row becomes cancelled, whatever it was.
MarkCancelled(h) ==
  /\ hpc[h] = "cancelling"
  /\ status' = [status EXCEPT ![htask[h]] = "cancelled"]
  /\ Answer(h)
  /\ UNCHANGED <<approval, ckpt, runner, runVars, overdue, history>>

-----------------------------------------------------------------------------
(* The watchdog. *)

Elapse(t) ==
  /\ started[t] = "fresh"
  /\ started' = [started EXCEPT ![t] = "overdue"]
  /\ UNCHANGED <<db, ckpt, active, event, runVars, reqVars, history>>

\* Every minute it copies the start times and cancels the tasks that were
\* overdue then, the first one at once, each other one when the cancellation
\* before it has been recorded.
Watch ==
  LET late == {t \in Tasks : started[t] = "overdue"}
      due  == IF overdue = {} THEN late ELSE overdue
  IN  /\ WatchdogStarted
      /\ \E t \in due : CancelRun(Watchdog, t) /\ overdue' = due \ {t}

-----------------------------------------------------------------------------
(* A run. *)

\* r may execute what is at label: it has not been cancelled.
At(r, label) == rpc[r] = label /\ ~rcancel[r]

\* _run begins: the row says running, whatever it said before.
StartRun(r) ==
  /\ At(r, "created")
  /\ status' = [status EXCEPT ![rtask[r]] = "running"]
  /\ rpc' = [rpc EXCEPT ![r] = "load"]
  /\ UNCHANGED <<approval, ckpt, runner, rnext, rtask, rapproved, rstatus, rnode, rcancel,
                 reqVars, history>>

\* The initial state of the graph: running, whatever the checkpoint says.
LoadCheckpoint(r) ==
  /\ At(r, "load")
  /\ rpc' = [rpc EXCEPT ![r] = "risk"]
  /\ UNCHANGED <<db, ckpt, runner, rnext, rtask, rapproved, rstatus, rnode, rcancel, reqVars,
                 history>>

\* A node has returned; the run waits at the gate before it goes on.
Returned(r, st, next) ==
  /\ rstatus' = [rstatus EXCEPT ![r] = st]
  /\ rpc' = [rpc EXCEPT ![r] = "gate"] /\ rnext' = [rnext EXCEPT ![r] = next]

\* Mutant: the task waits, but no approval is created.
RiskCheckMute(r) ==
  LET t == rtask[r] IN
  /\ At(r, "risk")
  /\ IF t \in Risky /\ ~rapproved[r]
     THEN Returned(r, "waiting_approval", "complete")
     ELSE Returned(r, "running", "work")
  /\ UNCHANGED <<db, ckpt, runner, rtask, rapproved, rnode, rcancel, reqVars, history>>

\* parse_intent and risk_check: a risky task needs an approval first.
RiskCheck(r) ==
  LET t == rtask[r] IN
  /\ At(r, "risk")
  /\ IF t \in Risky /\ ~rapproved[r]
     THEN /\ approval' = [approval EXCEPT ![t] = "pending"]
          /\ Returned(r, "waiting_approval", "complete")
     ELSE /\ Returned(r, "running", "work")
          /\ UNCHANGED approval
  /\ UNCHANGED <<status, ckpt, runner, rtask, rapproved, rnode, rcancel, reqVars, history>>

\* The intent of a task that starts cannot be parsed: recovery sends it round
\* risk_check into the loop of the browser, where it does nothing but fail, or
\* meet a CAPTCHA.
ParseFails(r) ==
  /\ At(r, "risk") /\ ~rapproved[r]
  /\ \E st \in {"failed", "blocked"} : Returned(r, st, "complete")
  /\ UNCHANGED <<db, ckpt, runner, rtask, rapproved, rnode, rcancel, reqVars, history>>

\* A node between risk_check and complete: the graph goes on, or the task ends
\* one way or another.
Work(r) ==
  /\ At(r, "work")
  /\ \/ /\ rnode[r] < MaxNodes
        /\ rnode' = [rnode EXCEPT ![r] = @ + 1]
        /\ Returned(r, "running", "work")
     \/ /\ \E st \in {"completed", "failed", "blocked"} : Returned(r, st, "complete")
        /\ UNCHANGED rnode
  /\ UNCHANGED <<db, ckpt, runner, rtask, rapproved, rcancel, reqVars, history>>

\* Between two nodes: wait if the task is paused ...
WaitAtGate(r) ==
  /\ At(r, "gate") /\ event[rtask[r]] = "clear"
  /\ rpc' = [rpc EXCEPT ![r] = "paused"]
  /\ UNCHANGED <<db, ckpt, runner, rnext, rtask, rapproved, rstatus, rnode, rcancel, reqVars,
                 history>>

\* ... and then merge the result of the node and save a checkpoint.
PassGate(r) ==
  /\ \/ At(r, "gate") /\ event[rtask[r]] # "clear"
     \/ At(r, "woken")
  /\ ckpt' = [ckpt EXCEPT ![rtask[r]] = TRUE]
  /\ rpc' = [rpc EXCEPT ![r] = rnext[r]]
  /\ UNCHANGED <<db, runner, rnext, rtask, rapproved, rstatus, rnode, rcancel, reqVars,
                 history>>

\* Mutant: a task whose approval is pending is not written as waiting.
CompleteRunning(r) ==
  /\ At(r, "complete")
  /\ status' = [status EXCEPT ![rtask[r]] = IF rstatus[r] = "waiting_approval" THEN "running" ELSE rstatus[r]]
  /\ Returned(r, rstatus[r], "summarize")
  /\ UNCHANGED <<approval, ckpt, runner, rtask, rapproved, rnode, rcancel, reqVars, history>>

\* complete_node writes the final status into the row.
Complete(r) ==
  /\ At(r, "complete")
  /\ status' = [status EXCEPT ![rtask[r]] = rstatus[r]]
  /\ Returned(r, rstatus[r], "summarize")
  /\ UNCHANGED <<approval, ckpt, runner, rtask, rapproved, rnode, rcancel, reqVars, history>>

\* What complete_node does after that raises: the context is retained or released, an event
\* is added.  (A failing memory is caught.)
CompleteRaises(r) ==
  /\ At(r, "complete")
  /\ LateFaults
  /\ status' = [status EXCEPT ![rtask[r]] = rstatus[r]]
  /\ rpc' = [rpc EXCEPT ![r] = "except"]
  /\ UNCHANGED <<approval, ckpt, runner, rnext, rtask, rapproved, rstatus, rnode, rcancel,
                 reqVars, history>>

\* Mutant: the checkpoint is removed whatever the run ended with.
SummarizeAlways(r) ==
  /\ At(r, "summarize")
  /\ rpc' = [rpc EXCEPT ![r] = "finally"]
  /\ ckpt' = [ckpt EXCEPT ![rtask[r]] = FALSE]
  /\ UNCHANGED <<db, runner, rnext, rtask, rapproved, rstatus, rnode, rcancel, reqVars,
                 history>>

\* After the graph: summarize_task (not for a waiting task), the final events,
\* and the checkpoint of a completed task is removed.
Summarize(r) ==
  /\ At(r, "summarize")
  /\ rpc' = [rpc EXCEPT ![r] = "finally"]
  /\ ckpt' = IF rstatus[r] = "completed" THEN [ckpt EXCEPT ![rtask[r]] = FALSE] ELSE ckpt
  /\ UNCHANGED <<db, runner, rnext, rtask, rapproved, rstatus, rnode, rcancel, reqVars,
                 history>>

SummarizeFails(r) ==
  /\ At(r, "summarize") /\ rstatus[r] # "waiting_approval"
  /\ LateFaults
  /\ rpc' = [rpc EXCEPT ![r] = "except"]
  /\ UNCHANGED <<db, ckpt, runner, rnext, rtask, rapproved, rstatus, rnode, rcancel, reqVars,
                 history>>

\* A node raises, complete_node before it has written the row.
NodeRaises(r) ==
  /\ rpc[r] \in {"load", "risk", "work", "complete"} /\ ~rcancel[r]
  /\ rpc' = [rpc EXCEPT ![r] = "except"]
  /\ UNCHANGED <<db, ckpt, runner, rnext, rtask, rapproved, rstatus, rnode, rcancel, reqVars,
                 history>>

\* except Exception: the task has failed.
HandleException(r) ==
  /\ At(r, "except")
  /\ status' = [status EXCEPT ![rtask[r]] = "failed"]
  /\ rpc' = [rpc EXCEPT ![r] = "finally"]
  /\ UNCHANGED <<approval, ckpt, runner, rnext, rtask, rapproved, rstatus, rnode, rcancel,
                 reqVars, history>>

\* The coroutine r has ended.
End(r) ==
  /\ rpc' = [rpc EXCEPT ![r] = "free"] /\ rnext' = [rnext EXCEPT ![r] = "free"]
  /\ rtask' = [rtask EXCEPT ![r] = NULL]
  /\ rapproved' = [rapproved EXCEPT ![r] = FALSE]
  /\ rstatus' = [rstatus EXCEPT ![r] = "running"]
  /\ rnode' = [rnode EXCEPT ![r] = 1]
  /\ rcancel' = [rcancel EXCEPT ![r] = FALSE]

\* A coroutine that is cancelled before its first step never runs, not even
\* its finally clause.
NeverRuns(r) ==
  /\ rcancel[r] /\ rpc[r] = "created"
  /\ End(r)
  /\ UNCHANGED <<db, ckpt, runner, reqVars, history>>

\* except CancelledError: only an event is recorded.
HandleCancel(r) ==
  /\ rcancel[r] /\ rpc[r] \notin {"free", "created", "finally"}
  /\ rpc' = [rpc EXCEPT ![r] = "finally"]
  /\ UNCHANGED <<db, ckpt, runner, rnext, rtask, rapproved, rstatus, rnode, rcancel, reqVars,
                 history>>

\* finally: the entries of the task go, even if they are another run's.
Finally(r) ==
  /\ rpc[r] = "finally"
  /\ active' = [active EXCEPT ![rtask[r]] = NULL]
  /\ started' = [started EXCEPT ![rtask[r]] = "none"]
  /\ End(r)
  /\ UNCHANGED <<db, ckpt, event, reqVars, history>>

-----------------------------------------------------------------------------

\* The process stops, or crashes, and starts again: rows and checkpoints stay.
Restart ==
  /\ Restarts
  /\ active' = [t \in Tasks |-> NULL] /\ started' = [t \in Tasks |-> "none"]
  /\ event' = [t \in Tasks |-> "none"]
  /\ rpc' = [r \in Runs |-> "free"] /\ rnext' = [r \in Runs |-> "free"]
  /\ rtask' = [r \in Runs |-> NULL] /\ rapproved' = [r \in Runs |-> FALSE]
  /\ rstatus' = [r \in Runs |-> "running"] /\ rnode' = [r \in Runs |-> 1]
  /\ rcancel' = [r \in Runs |-> FALSE]
  /\ hpc' = [h \in Procs |-> "idle"] /\ htask' = [h \in Procs |-> NULL]
  /\ overdue' = {}
  /\ UNCHANGED <<db, ckpt, history>>

RunStep(r) ==
  \/ StartRun(r) \/ LoadCheckpoint(r) \/ RiskCheck(r) \/ ParseFails(r) \/ Work(r)
  \/ WaitAtGate(r) \/ PassGate(r)
  \/ Complete(r) \/ CompleteRaises(r) \/ Summarize(r) \/ SummarizeFails(r) \/ NodeRaises(r)
  \/ HandleException(r) \/ HandleCancel(r) \/ NeverRuns(r) \/ Finally(r)

HandlerStep(h) ==
  \/ ScheduleSubmitted(h) \/ ApplyDecision(h) \/ ScheduleApproved(h) \/ ScheduleUnblocked(h)
  \/ CheckCaptcha(h) \/ Requeue(h) \/ MarkCancelled(h)

Request(h, t) ==
  \/ Submit(h, t) \/ Cancel(h, t)
  \/ \E d \in {"approved", "rejected"} : Respond(h, t, d)
  \/ \E how \in {"resume", "fallback"} : ResumeBlocked(h, t, how)

Next ==
  \/ \E r \in Runs : RunStep(r)
  \/ \E h \in Procs : HandlerStep(h)
  \/ \E h \in Handlers, t \in Tasks : Request(h, t)
  \/ \E t \in Tasks : Pause(t) \/ Resume(t) \/ Elapse(t)
  \/ Watch
  \/ Restart

Spec == Init /\ [][Next]_vars

\* The event loop runs whatever is ready, and the watchdog's timer fires.
LoopFairness ==
  /\ \A r \in Runs : WF_vars(RunStep(r))
  /\ \A h \in Procs : WF_vars(HandlerStep(h))
  /\ WF_vars(Watch)

LoopSpec == Spec /\ LoopFairness

\* Besides, a user who has paused a task resumes it.
FairSpec == LoopSpec /\ \A t \in Tasks : WF_vars(Resume(t))

-----------------------------------------------------------------------------
(* Properties. *)

\* Every variable has the values its part of the code can give it.
RowType ==
  /\ status \in [Tasks -> Statuses \cup {NULL}]
  /\ approval \in [Tasks -> {NULL, "pending", "approved", "rejected"}]
  /\ ckpt \in [Tasks -> BOOLEAN]
TableType ==
  /\ active \in [Tasks -> Runs \cup {NULL}]
  /\ started \in [Tasks -> {"none", "fresh", "overdue"}]
  /\ event \in [Tasks -> {"none", "set", "clear"}]
RunType ==
  /\ rpc \in [Runs -> RunLabels]
  /\ rnext \in [Runs -> {"free", "work", "complete", "summarize"}]
  /\ rtask \in [Runs -> Tasks \cup {NULL}]
  /\ rapproved \in [Runs -> BOOLEAN]
  /\ rstatus \in [Runs -> Statuses]
  /\ rnode \in [Runs -> 1..MaxNodes]
  /\ rcancel \in [Runs -> BOOLEAN]
  /\ \A r \in Runs : rpc[r] = "free" <=> rtask[r] = NULL
RequestType ==
  /\ hpc \in [Procs -> {"idle", "submitted", "approved", "rejected", "requeued",
                        "resume", "fallback", "unblocked", "cancelling"}]
  /\ htask \in [Procs -> Tasks \cup {NULL}]
  /\ \A h \in Procs : hpc[h] = "idle" <=> htask[h] = NULL
  /\ {overdue, consented, resumed} \subseteq SUBSET Tasks
\* The variables of TaskRunner, of the rows it writes, of its runs and of the
\* requests have their types; a busy run or request has a task.
TypeOK == RowType /\ TableType /\ RunType /\ RequestType

\* A run that is neither cancelled nor about to end is the one that _active
\* holds for its task: DELETE and shutdown reach it, and it is the only one.
Registered ==
  \A r \in Runs : rpc[r] \notin {"free", "finally"} /\ ~rcancel[r] => active[rtask[r]] = r

\* A task at rest that waits for a decision has a decision to wait for.
WaitingCanBeDecided ==
  \A t \in Tasks : AtRest(t) /\ status[t] = "waiting_approval" => approval[t] = "pending"

\* No run executes a step of a task that requires approval before a human has
\* approved it, whatever the clients do (the approved flag of _schedule).
NoUnapprovedWork ==
  \A r \in Runs : "work" \in {rpc[r], rnext[r]} /\ rtask[r] \in Risky => rtask[r] \in consented

\* It needs at least a human who has approved it, or who has resumed it from
\* blocked: a rejected, queued or restarted task does not get there by itself.
NoUnaskedWork ==
  \A r \in Runs : "work" \in {rpc[r], rnext[r]} /\ rtask[r] \in Risky
                  => rtask[r] \in consented \cup resumed

\* A cancelled task is not being run (TaskRunner.cancel).
CancelStops ==
  \A t \in Tasks : status[t] = "cancelled" /\ (\A h \in Procs : htask[h] # t)
                   => \A r \in RunsOf(t) : rcancel[r]

\* The checkpoint of a task that may still go on is never removed: after an
\* approval, a block, a failure, a pause or a restart the next run finds the
\* plan it had.  (The row of a run that completes may say cancelled: the
\* watchdog cancels the tasks of an old copy of the start times.)
CheckpointKept ==
  [][\A t \in Tasks : ckpt[t] /\ ~ckpt'[t] => status[t] \in {"completed", "cancelled"}]_<<ckpt, status>>

Lifecycle == INSTANCE TaskLifecycle WITH
  Tasks <- Tasks, NULL <- NULL, status <- status
\* Seen from outside, the status of a task moves as TaskLifecycle says, and a
\* task that is queued or running goes on to rest or to its end.
ImplementsFairLifecycle == Lifecycle!FairSpec

\* A run of a task that has exceeded max_task_duration_minutes ends.
OverdueEnds ==
  \A r \in Runs, t \in Tasks :
    rtask[r] = t /\ started[t] = "overdue" ~> rtask[r] # t \/ started[t] # "overdue"
=============================================================================
