----------------------------- MODULE TaskContexts -----------------------------
(***************************************************************************)
(* Tasks and the browser contexts they leave behind: the handlers and runs *)
(* of TaskRunner (backend/agent/runner.py) together with the tables of     *)
(* BrowserPool (backend/browser/pool.py), complete_node and the pages.     *)
(*                                                                         *)
(* What an operation of the pool does is one step here; its awaits are the *)
(* subject of BrowserPool.  Left are the waits of the handlers and runs:   *)
(* for a context, a page, the database, a decision, the user.              *)
(***************************************************************************)
CONSTANTS
  Tasks, Sessions,
  Contexts,  \* browser_pool_size of them
  NULL,
  KeepOpen,  \* keep_browser_open
  Uses       \* what users and faults do: see below

ASSUME ContextsAssumption ==
  /\ NULL \notin Tasks \cup Sessions \cup Contexts /\ Tasks \cap Sessions = {}
  /\ KeepOpen \in BOOLEAN
  /\ Uses \subseteq {"approval", "resume", "fallback", "cancel", "error", "close"}

VARIABLES
  status,    \* tasks.status
  session,   \* the session a task was submitted for, or NULL
  run,       \* the run of a task: "off", "ready", "wait", "work" or "loaded"
  key,       \* session_id or task_id of the run
  approved,  \* of the run
  leave,     \* what a run that has written its last status still does with the context of
             \* its task: "no" (nothing), "retain" or "release"
  req,       \* where a request that needs the task's context is: "none", "resume" or "fallback"
             \* (before the lookup), "check", "grant" or "switch" (after it)
  tabled,    \* _task_contexts
  retained,  \* _retained_contexts
  idle,      \* contexts that can be acquired, created or not
  page,      \* what the first page of a context shows
  resumed,   \* history: tasks whose resumption was granted and whose run has not begun to work
  misjudged  \* history: tasks that were told that there is no page although there is

vars == <<status, session, run, key, approved, leave, req, tabled, retained, idle, page,
          resumed, misjudged>>
pool == <<tabled, retained, idle, page>>
history == <<resumed, misjudged>>

Keys == Tasks \cup Sessions
NoPage == [of |-> NULL, captcha |-> FALSE]
Pages == {NoPage} \cup [of : Tasks, captcha : BOOLEAN]

Init ==
  /\ status = [t \in Tasks |-> "none"] /\ session = [t \in Tasks |-> NULL]
  /\ run = [t \in Tasks |-> "off"] /\ key = [t \in Tasks |-> t]
  /\ approved = [t \in Tasks |-> FALSE] /\ leave = [t \in Tasks |-> "no"] /\ req = [t \in Tasks |-> "none"]
  /\ tabled = [k \in Keys |-> NULL] /\ retained = [t \in Tasks |-> NULL]
  /\ idle = Contexts /\ page = [c \in Contexts |-> NoPage]
  /\ resumed = {} /\ misjudged = {}

-----------------------------------------------------------------------------
(* The pool.                                                               *)

\* Mutant: the pages of a context stay open when it is given back.
GiveBackOpen(cs) == idle' = idle \cup cs /\ UNCHANGED page

\* The pages are closed, and the contexts may be acquired again.
GiveBack(cs) ==
  /\ idle' = idle \cup cs
  /\ page' = [c \in Contexts |-> IF c \in cs THEN NoPage ELSE page[c]]

Values(f) == {f[x] : x \in DOMAIN f} \ {NULL}

\* get_task_context: the one in the table, the one that was retained, or another one;
\* without any the caller waits.
GetTaskContext(k, c) ==
  \/ tabled[k] = c /\ UNCHANGED <<tabled, retained, idle>>
  \/ /\ tabled[k] = NULL /\ k \in Tasks /\ retained[k] = c
     /\ retained' = [retained EXCEPT ![k] = NULL] /\ tabled' = [tabled EXCEPT ![k] = c]
     /\ UNCHANGED idle
  \/ /\ tabled[k] = NULL /\ (k \in Tasks => retained[k] = NULL)
     /\ c \in idle /\ idle' = idle \ {c} /\ UNCHANGED retained
     /\ tabled' = [tabled EXCEPT ![k] = c]

\* Mutant: the context is entered as retained and stays in the table.
RetainCopies(t) ==
  /\ retained' = [retained EXCEPT ![t] = tabled[t]] /\ UNCHANGED <<tabled, idle, page>>

\* retain_task_context, without a session.
Retain(t) ==
  IF tabled[t] = NULL THEN UNCHANGED pool
  ELSE /\ retained' = [retained EXCEPT ![t] = tabled[t]]
       /\ tabled' = [tabled EXCEPT ![t] = NULL] /\ UNCHANGED <<idle, page>>

\* release_task_context, without a session.
Release(t) ==
  /\ tabled' = [tabled EXCEPT ![t] = NULL] /\ UNCHANGED retained
  /\ GiveBack({tabled[t]} \ {NULL})

\* close_task_browser, for the user or the idle watchdog.
CloseTaskBrowser(t) ==
  /\ "close" \in Uses /\ retained[t] # NULL
  /\ retained' = [retained EXCEPT ![t] = NULL] /\ UNCHANGED tabled
  /\ GiveBack({retained[t]})
  /\ UNCHANGED <<status, session, run, key, approved, leave, req, history>>

-----------------------------------------------------------------------------
(* Requests.                                                               *)

CloseAllRetained ==
  retained' = [t \in Tasks |-> NULL] /\ UNCHANGED tabled /\ GiveBack(Values(retained))

Schedule(t, k, ok) ==
  /\ status' = [status EXCEPT ![t] = "queued"]
  /\ run' = [run EXCEPT ![t] = "ready"] /\ key' = [key EXCEPT ![t] = k]
  /\ approved' = [approved EXCEPT ![t] = ok]

Submit(t, s) ==
  /\ status[t] = "none" /\ CloseAllRetained
  /\ session' = [session EXCEPT ![t] = s]
  /\ Schedule(t, IF s = NULL THEN t ELSE s, FALSE)
  /\ UNCHANGED <<leave, req, history>>

\* approve(): the run begins without a session.
Approve(t) ==
  /\ status[t] = "waiting_approval" /\ Schedule(t, t, TRUE)
  /\ UNCHANGED <<session, leave, req, pool, history>>

Reject(t) ==
  /\ status[t] = "waiting_approval" /\ status' = [status EXCEPT ![t] = "failed"]
  /\ UNCHANGED <<session, run, key, approved, leave, req, pool, history>>

Request(t, from, to) == req[t] = from /\ req' = [req EXCEPT ![t] = to]

\* resume_blocked and switch_fallback look at the status and then need the context.
Ask(t, what) ==
  /\ what \in Uses /\ status[t] = "blocked" /\ Request(t, "none", what)
  /\ UNCHANGED <<status, session, run, key, approved, leave, pool, history>>

\* The lookup. The row gives no session_id back: the key is the task. The lock is first-come
\* first-served, and a run queues for it as soon as it has written the status that lets
\* others ask: it has left before.
Look(t, c) == leave[t] = "no" /\ GetTaskContext(t, c) /\ UNCHANGED page

\* Mutant: that there is a page is not checked.
LookAtAny(t) ==
  /\ Request(t, "resume", "check") /\ \E c \in Contexts : Look(t, c)
  /\ UNCHANGED <<status, session, run, key, approved, leave, history>>

\* There is a page, and it is looked at, ...
LookAtPage(t) ==
  /\ Request(t, "resume", "check") /\ \E c \in Contexts : Look(t, c) /\ page[c] # NoPage
  /\ UNCHANGED <<status, session, run, key, approved, leave, history>>

\* ... or there is none.
NoPageToResume(t) ==
  /\ Request(t, "resume", "none")
  /\ \E c \in Contexts : Look(t, c) /\ page[c] = NoPage
  /\ misjudged' = IF \E d \in Contexts : page[d].of = t THEN misjudged \cup {t} ELSE misjudged
  /\ UNCHANGED <<status, session, run, key, approved, leave, resumed>>

\* detect_captcha.
CheckPage(t) ==
  /\ Request(t, "check", IF page[tabled[t]].captcha THEN "none" ELSE "grant")
  /\ UNCHANGED <<status, session, run, key, approved, leave, pool, history>>

GrantResume(t) ==
  /\ Request(t, "grant", "none") /\ Schedule(t, t, TRUE) /\ resumed' = resumed \cup {t}
  /\ UNCHANGED <<session, leave, pool, misjudged>>

AskFallback(t) ==
  /\ Request(t, "fallback", "switch") /\ \E c \in Contexts : Look(t, c)
  /\ UNCHANGED <<status, session, run, key, approved, leave, history>>

\* The page, if there is one, goes to the other provider, or fails to.
SwitchFallback(t) ==
  /\ Request(t, "switch", "none")
  /\ page' \in IF page[tabled[t]] = NoPage THEN {page}
               ELSE {page, [page EXCEPT ![tabled[t]].captcha = FALSE]}
  /\ Schedule(t, t, TRUE) /\ UNCHANGED <<session, leave, tabled, retained, idle, history>>

\* cancel() does not look at the status, and gives nothing back: it ends the coroutine that
\* is registered, a run that works or else one that leaves, or none, if a run that ended late
\* took the registration of the next one with it (runner.py:369).
Cancel(t) ==
  /\ "cancel" \in Uses /\ status[t] # "none"
  /\ status' = [status EXCEPT ![t] = "cancelled"]
  /\ \/ /\ run' = [run EXCEPT ![t] = "off"]
        /\ leave' = IF run[t] = "off" THEN [leave EXCEPT ![t] = "no"] ELSE leave
     \/ UNCHANGED <<run, leave>>
  /\ resumed' = resumed \ {t}
  /\ UNCHANGED <<session, key, approved, req, pool, misjudged>>

-----------------------------------------------------------------------------
(* The runs.                                                               *)

\* complete_node writes the status, ...
End(t, st) ==
  /\ run' = [run EXCEPT ![t] = "off"] /\ status' = [status EXCEPT ![t] = st]
  /\ resumed' = resumed \ {t}
  /\ leave' = IF key[t] # t THEN leave
              ELSE [leave EXCEPT ![t] = IF st = "blocked" \/ (st = "completed" /\ KeepOpen)
                                        THEN "retain" ELSE "release"]
  /\ UNCHANGED <<session, key, approved, req, pool, misjudged>>

\* ... and then retains or releases the context; what follows may raise, and _run writes
\* another status.
Leave(t) ==
  /\ leave[t] # "no" /\ leave' = [leave EXCEPT ![t] = "no"]
  /\ IF leave[t] = "retain" THEN Retain(t) ELSE Release(t)
  /\ \/ UNCHANGED status
     \/ "error" \in Uses /\ status' = [status EXCEPT ![t] = "failed"]
  /\ UNCHANGED <<session, run, key, approved, req, history>>

\* The nodes before the browser: they may fail the task or ask for an approval.
Enter(t) ==
  /\ run[t] = "ready"
  /\ \/ /\ run' = [run EXCEPT ![t] = "wait"] /\ status' = [status EXCEPT ![t] = "running"]
        /\ UNCHANGED <<session, key, approved, leave, req, pool, history>>
     \/ "approval" \in Uses /\ ~approved[t] /\ End(t, "waiting_approval")
     \/ End(t, "failed")

\* _get_task_page; a run that leaves came to the lock before.
GetPage(t) ==
  /\ run[t] = "wait" /\ run' = [run EXCEPT ![t] = "work"]
  /\ key[t] = t => leave[t] = "no"
  /\ \E c \in Contexts : GetTaskContext(key[t], c)
  /\ UNCHANGED <<status, session, key, approved, leave, req, page, history>>

\* The page goes where the task wants, or stays, and may show a CAPTCHA.
Navigate(t) ==
  /\ run[t] = "work" /\ run' = [run EXCEPT ![t] = "loaded"]
  /\ \E b \in BOOLEAN : page' = [page EXCEPT ![tabled[key[t]]] = [of |-> t, captcha |-> b]]
  /\ resumed' = resumed \ {t}
  /\ UNCHANGED <<status, session, key, approved, leave, req, tabled, retained, idle, misjudged>>

Finish(t) ==
  /\ run[t] = "loaded"
  /\ IF page[tabled[key[t]]].captcha THEN End(t, "blocked")
     ELSE End(t, "completed") \/ End(t, "failed")

\* A node raises: _run writes the status, and complete_node is not reached.
Raise(t) ==
  /\ "error" \in Uses /\ run[t] # "off"
  /\ run' = [run EXCEPT ![t] = "off"] /\ status' = [status EXCEPT ![t] = "failed"]
  /\ resumed' = resumed \ {t}
  /\ UNCHANGED <<session, key, approved, leave, req, pool, misjudged>>

\* The user solves the CAPTCHA in the open window.
Solve(c) ==
  /\ page[c].captcha /\ page' = [page EXCEPT ![c].captcha = FALSE]
  /\ UNCHANGED <<status, session, run, key, approved, leave, req, tabled, retained, idle, history>>

RunStep(t) == Enter(t) \/ GetPage(t) \/ Navigate(t) \/ Finish(t) \/ Leave(t)
Reply(t) ==
  \/ LookAtPage(t) \/ NoPageToResume(t) \/ CheckPage(t) \/ GrantResume(t)
  \/ AskFallback(t) \/ SwitchFallback(t)

Next ==
  \/ \E t \in Tasks :
       \/ \E s \in Sessions \cup {NULL} : Submit(t, s)
       \/ \E what \in {"resume", "fallback"} : Ask(t, what)
       \/ Approve(t) \/ Reject(t) \/ Cancel(t) \/ CloseTaskBrowser(t)
       \/ RunStep(t) \/ Raise(t) \/ Reply(t)
  \/ \E c \in Contexts : Solve(c)

Spec == Init /\ [][Next]_vars

-----------------------------------------------------------------------------
(* Properties.                                                             *)

\* Every variable has its type, and a run that works has a context.
TypeOK ==
  /\ status \in [Tasks -> {"none", "queued", "running", "waiting_approval", "blocked",
                           "completed", "failed", "cancelled"}]
  /\ session \in [Tasks -> Sessions \cup {NULL}]
  /\ run \in [Tasks -> {"off", "ready", "wait", "work", "loaded"}]
  /\ key \in [Tasks -> Keys] /\ approved \in [Tasks -> BOOLEAN]
  /\ leave \in [Tasks -> {"no", "retain", "release"}]
  /\ req \in [Tasks -> {"none", "resume", "fallback", "check", "grant", "switch"}]
  /\ tabled \in [Keys -> Contexts \cup {NULL}] /\ retained \in [Tasks -> Contexts \cup {NULL}]
  /\ idle \subseteq Contexts /\ page \in [Contexts -> Pages]
  /\ resumed \subseteq Tasks /\ misjudged \subseteq Tasks
  /\ \A t \in Tasks : run[t] \in {"work", "loaded"} => tabled[key[t]] # NULL

\* Every context is in exactly one place, although submissions, resumptions, timeouts and the ends
\* of runs move it between the two tables and the queue.
InOnePlace ==
  /\ \A k \in Keys : tabled[k] # NULL =>
       /\ tabled[k] \notin idle
       /\ \A j \in Keys \ {k} : tabled[j] # tabled[k]
       /\ \A t \in Tasks : retained[t] # tabled[k]
  /\ \A t \in Tasks : retained[t] # NULL =>
       retained[t] \notin idle /\ \A u \in Tasks \ {t} : retained[u] # retained[t]
  /\ Contexts \subseteq idle \cup Values(tabled) \cup Values(retained)

\* What is kept for a task, or used by it, never shows the page of another task: a context
\* changes hands only with its pages closed (pool.py:157, 246).
OwnPage ==
  \A t \in Tasks, c \in Contexts :
    c \in {tabled[t], retained[t]} => page[c].of \in {t, NULL}

\* Both: a context is in one place, and what is in it belongs to who has it there.
ContextsApart == InOnePlace /\ OwnPage

\* A task that was told that it goes on after its CAPTCHA still has the page that was looked
\* at, whatever is submitted, closed or times out until its run gets there (runner.py:106-138).
ResumedFindsItsPage ==
  \A t \in resumed : tabled[t] # NULL /\ page[tabled[t]].of = t

\* test_captcha_handling.py:7 "User clears CAPTCHA: resumes existing task from current step":
\* nobody is told that there is no page while there is.
NoPageIsTrue == misjudged = {}

\* pool.py:204 "The context stays open until explicitly closed, a new task starts, or the
\* idle timeout fires.": what a task leaves behind can be closed.
LeftCanBeClosed ==
  \A t \in Tasks : run[t] = "off" /\ leave[t] = "no" /\ req[t] = "none" => tabled[t] = NULL

\* nodes.py:1681 "Release browser context (closes pages) for failed/cancelled tasks".
EndedOwnsNothing ==
  \A t \in Tasks : /\ status[t] \in {"failed", "cancelled"}
                   /\ run[t] = "off" /\ leave[t] = "no" /\ req[t] = "none"
                   => tabled[t] = NULL /\ retained[t] = NULL

\* README.md:188 "The browser remains open at the challenge page."
ChallengeStaysOpen ==
  \A t \in Tasks : status[t] = "blocked" => \E c \in Contexts : page[c].of = t
=============================================================================
