------------------------------- MODULE Launcher -------------------------------
(***************************************************************************)
(* The launcher, main.py: it clears the ports, starts Ollama, the backend, *)
(* the frontend and the Observatory one after the other, then watches them *)
(* until it is told to stop or, without a terminal, one of them dies.      *)
(*                                                                         *)
(* A launcher is one thread.  A signal interrupts it between any two       *)
(* steps: the handler runs shutdown() and leaves with sys.exit.  Several   *)
(* launchers may run on one machine and share its ports.                   *)
(***************************************************************************)
EXTENDS Naturals

CONSTANTS
  Launchers,     \* the processes of main.py
  MaxSignals,    \* bound: signals each launcher receives
  MaxRestarts,   \* bound: uses of [R]
  MaxDeaths      \* bound: services that die on their own

LauncherAssumption == {MaxSignals, MaxRestarts, MaxDeaths} \subseteq Nat

VARIABLES
  options,   \* how each launcher was called
  pc,        \* what each launcher is doing
  tracked,   \* child_processes; the order in which children are ended is left open
  flag,      \* _is_shutting_down
  todo,      \* children shutdown() has still to end
  return,    \* what follows the shutdown() that is running
  asked,     \* history: what it was told to do last
  proc,      \* the services each launcher has started, as the system sees them
  before,    \* history: the services that ran when [R] was chosen
  lost,      \* history: services that run but were never recorded
  cut,       \* history: launchers whose shutdown() was interrupted
  signals, restarts, deaths  \* counters of the bounds

control == <<options, pc, flag, todo, return, asked>>
bounds == <<signals, restarts, deaths>>
vars == <<control, tracked, proc, before, lost, cut, bounds>>

\* "observatory" stands for its backend and its frontend, which are started,
\* waited for and stopped together.
Services == {"ollama", "backend", "frontend", "observatory"}
Ports(l) ==
  {"backend", "frontend"} \cup (IF options[l].observatory THEN {"observatory"} ELSE {})

States == {"none", "booting", "listening", "dead"}
Alive(l, s) == proc[l][s] \in {"booting", "listening"}
Answers(s) == \E l \in Launchers : proc[l][s] = "listening"

\* --observatory; llm_provider is not "gemini"; sys.stdin is a terminal.
Options == [observatory : BOOLEAN, local : BOOLEAN, terminal : BOOLEAN]

\* The steps of start(), and what comes after each.
Begin(s) == <<"start", s>>
Record(s) == <<"record", s>>
Wait(s) == <<"wait", s>>
Clear == <<"clear", "none">>
Manage == <<"manage", "none">>
Stop == <<"stop", "none">>
Leave == <<"leave", "none">>
Off == <<"off", "none">>
Gone == <<"gone", "none">>
ClearAgain == <<"clearAgain", "none">>

After(l, s) ==
  CASE s = "ollama" -> Begin("backend")
    [] s = "backend" -> Begin("frontend")
    [] s = "frontend" -> IF asked[l] # "restart" /\ options[l].observatory THEN Begin("observatory")
                         ELSE Manage
    [] OTHER -> Manage

Init ==
  /\ options \in [Launchers -> Options]
  /\ pc = [l \in Launchers |-> Off] /\ tracked = [l \in Launchers |-> {}]
  /\ flag = [l \in Launchers |-> FALSE] /\ todo = [l \in Launchers |-> {}]
  /\ return = [l \in Launchers |-> "none"] /\ asked = [l \in Launchers |-> "start"]
  /\ proc = [l \in Launchers |-> [s \in Services |-> "none"]]
  /\ before = [l \in Launchers |-> {}] /\ lost = [l \in Launchers |-> {}] /\ cut = {}
  /\ signals = [l \in Launchers |-> 0] /\ restarts = 0 /\ deaths = 0

Go(l, step) == pc' = [pc EXCEPT ![l] = step]

\* The user runs main.py.
Start(l) ==
  /\ pc[l] = Off /\ Go(l, Clear)
  /\ UNCHANGED <<options, flag, todo, return, asked, tracked, proc, before, lost, cut, bounds>>

\* Every process that listens on a port of ours is ended, whoever started it.
Freed(l) ==
  [k \in Launchers |->
     [s \in Services |-> IF s \in Ports(l) /\ proc[k][s] = "listening" THEN "dead"
                         ELSE proc[k][s]]]

ClearPorts(l) ==
  /\ pc[l] \in {Clear, ClearAgain} /\ proc' = Freed(l)
  /\ Go(l, IF pc[l] = Clear /\ options[l].local THEN Begin("ollama") ELSE Begin("backend"))
  /\ UNCHANGED <<options, flag, todo, return, asked, tracked, before, lost, cut, bounds>>

\* check_environment may leave at once: the Python is too old.
TooOld(l) ==
  /\ pc[l] = Clear /\ Go(l, Leave) /\ asked' = [asked EXCEPT ![l] = "exit"]
  /\ UNCHANGED <<options, flag, todo, return, tracked, proc, before, lost, cut, bounds>>

-----------------------------------------------------------------------------
(* Starting one service: Popen, then the entry in child_processes, then    *)
(* the wait for an answer.                                                 *)

\* Ollama is used if it answers, and may not be installed; npm may be missing.
Skips(s) == (s = "ollama") \/ (s = "frontend")

Skip(l, s) ==
  /\ pc[l] = Begin(s) /\ Skips(s) /\ Go(l, After(l, s))
  /\ UNCHANGED <<options, flag, todo, return, asked, tracked, proc, before, lost, cut, bounds>>

Spawn(l, s) ==
  /\ pc[l] = Begin(s) /\ ~(s = "ollama" /\ Answers(s))
  /\ proc' = [proc EXCEPT ![l][s] = "booting"]
  /\ lost' = [lost EXCEPT ![l] = @ \cup {s}] /\ Go(l, Record(s))
  /\ UNCHANGED <<options, flag, todo, return, asked, tracked, before, cut, bounds>>

\* npm install fails: the exception leaves start().
InstallFails(l) ==
  /\ pc[l] = Begin("frontend") /\ Go(l, Stop)
  /\ return' = [return EXCEPT ![l] = "exit"] /\ asked' = [asked EXCEPT ![l] = "exit"]
  /\ UNCHANGED <<options, flag, todo, tracked, proc, before, lost, cut, bounds>>

Recorded(l, s) ==
  /\ pc[l] = Record(s) /\ Go(l, Wait(s))
  /\ tracked' = [tracked EXCEPT ![l] = @ \cup {s}]
  /\ lost' = [lost EXCEPT ![l] = @ \ {s}]
  /\ UNCHANGED <<options, flag, todo, return, asked, proc, before, cut, bounds>>

\* It answers, it has died, or the polls are used up: the start goes on.
Waited(l, s) ==
  /\ pc[l] = Wait(s) /\ Go(l, After(l, s))
  /\ UNCHANGED <<options, flag, todo, return, asked, tracked, proc, before, lost, cut, bounds>>

-----------------------------------------------------------------------------
(* shutdown().                                                             *)

\* Mutant: the handles are listed, not the names.
EntersAll(l) ==
  IF flag[l] THEN UNCHANGED <<flag, todo, tracked>>
  ELSE /\ flag' = [flag EXCEPT ![l] = TRUE]
       /\ todo' = [todo EXCEPT ![l] = {l}]
       /\ UNCHANGED tracked

\* Mutant: the children are forgotten before they are ended.
ForgetsFirst(l) ==
  IF flag[l] THEN UNCHANGED <<flag, todo, tracked>>
  ELSE /\ flag' = [flag EXCEPT ![l] = TRUE] /\ tracked' = [tracked EXCEPT ![l] = {}]
       /\ todo' = [todo EXCEPT ![l] = {}]

\* What shutdown() does first: nothing while another one is running.
Enter(l) ==
  IF flag[l] THEN UNCHANGED <<flag, todo, tracked>>
  ELSE /\ flag' = [flag EXCEPT ![l] = TRUE]
       /\ todo' = [todo EXCEPT ![l] = tracked[l] \ {"ollama"}]
       /\ UNCHANGED tracked

Shutdown(l) ==
  /\ pc[l] = Stop /\ ~flag[l] /\ Enter(l)
  /\ UNCHANGED <<options, pc, return, asked, proc, before, lost, cut, bounds>>

\* The tree of one child is terminated, then killed.
EndChild(l) ==
  /\ pc[l] = Stop /\ flag[l]
  /\ \E s \in todo[l] : /\ proc' = [proc EXCEPT ![l][s] = "dead"]
                        /\ todo' = [todo EXCEPT ![l] = @ \ {s}]
  /\ UNCHANGED <<options, pc, flag, return, asked, tracked, before, lost, cut, bounds>>

\* Mutant: the flag stays up.
FlagStays(l) == flag

FlagAfter(l) == [flag EXCEPT ![l] = FALSE]

\* The ports are cleared, the children forgotten, the flag taken down.
Finish(l) ==
  /\ pc[l] = Stop /\ flag[l] /\ todo[l] = {}
  /\ proc' = Freed(l) /\ tracked' = [tracked EXCEPT ![l] = {}]
  /\ flag' = FlagAfter(l)
  /\ Go(l, CASE return[l] = "restart" -> ClearAgain
             [] return[l] = "exit" -> Leave
             [] OTHER -> Gone)
  /\ UNCHANGED <<options, todo, return, asked, before, lost, cut, bounds>>

\* Mutant: a shutdown() that finds another one running waits for it.
WaitsAtExit(l) ==
  /\ pc[l] = Leave /\ ~flag[l] /\ Go(l, Stop) /\ return' = [return EXCEPT ![l] = "end"]
  /\ UNCHANGED <<options, flag, todo, asked, tracked, proc, before, lost, cut, bounds>>

\* On the way out shutdown() runs once more, from finally and from atexit.
AtExit(l) ==
  /\ pc[l] = Leave
  /\ IF flag[l] THEN Go(l, Gone) /\ UNCHANGED return
     ELSE Go(l, Stop) /\ return' = [return EXCEPT ![l] = "end"]
  /\ UNCHANGED <<options, flag, todo, asked, tracked, proc, before, lost, cut, bounds>>

-----------------------------------------------------------------------------
(* The manager and the handler of signals.                                 *)

Quit(l) ==
  /\ pc[l] = Manage /\ options[l].terminal /\ Go(l, Stop)
  /\ return' = [return EXCEPT ![l] = "exit"] /\ asked' = [asked EXCEPT ![l] = "quit"]
  /\ UNCHANGED <<options, flag, todo, tracked, proc, before, lost, cut, bounds>>

Restart(l) ==
  /\ pc[l] = Manage /\ options[l].terminal /\ restarts < MaxRestarts /\ restarts' = restarts + 1
  /\ Go(l, Stop) /\ return' = [return EXCEPT ![l] = "restart"]
  /\ asked' = [asked EXCEPT ![l] = "restart"]
  /\ before' = [before EXCEPT ![l] = {s \in Services : Alive(l, s)}]
  /\ UNCHANGED <<options, flag, todo, tracked, proc, lost, cut, signals, deaths>>

\* Without a terminal the death of the backend or the frontend ends the loop.
CriticalDied(l) ==
  \E s \in {"backend", "frontend"} : s \in tracked[l] /\ ~Alive(l, s)

Supervise(l) ==
  /\ pc[l] = Manage /\ ~options[l].terminal /\ CriticalDied(l) /\ Go(l, Stop)
  /\ return' = [return EXCEPT ![l] = "exit"] /\ asked' = [asked EXCEPT ![l] = "exit"]
  /\ UNCHANGED <<options, flag, todo, tracked, proc, before, lost, cut, bounds>>

\* SIGINT or SIGTERM.  The exit it raises ends the shutdown() it interrupts.
Signal(l) ==
  /\ pc[l] \notin {Off, Gone} /\ signals[l] < MaxSignals
  /\ signals' = [signals EXCEPT ![l] = @ + 1] /\ asked' = [asked EXCEPT ![l] = "signal"]
  /\ IF flag[l] THEN Go(l, Leave) /\ cut' = cut \cup {l} /\ UNCHANGED return
     ELSE Go(l, Stop) /\ return' = [return EXCEPT ![l] = "exit"] /\ UNCHANGED cut
  /\ UNCHANGED <<options, flag, todo, tracked, proc, before, lost, restarts, deaths>>

-----------------------------------------------------------------------------
(* The services, as far as the launchers see them.                         *)

\* A service that finds its port taken gives up.
Listen(l, s) ==
  /\ proc[l][s] = "booting"
  /\ proc' = [proc EXCEPT ![l][s] = IF Answers(s) THEN "dead" ELSE "listening"]
  /\ UNCHANGED <<control, tracked, before, lost, cut, bounds>>

Dies(l, s) ==
  /\ Alive(l, s) /\ deaths < MaxDeaths /\ deaths' = deaths + 1
  /\ proc' = [proc EXCEPT ![l][s] = "dead"]
  /\ UNCHANGED <<control, tracked, before, lost, cut, signals, restarts>>

LauncherStep(l) ==
  \/ ClearPorts(l) \/ TooOld(l)
  \/ \E s \in Services : Skip(l, s) \/ Spawn(l, s) \/ Recorded(l, s) \/ Waited(l, s)
  \/ InstallFails(l) \/ Shutdown(l) \/ EndChild(l) \/ Finish(l) \/ AtExit(l) \/ Supervise(l)

Next ==
  \/ \E l \in Launchers : Start(l) \/ LauncherStep(l) \/ Quit(l) \/ Restart(l) \/ Signal(l)
  \/ \E l \in Launchers, s \in Services : Listen(l, s) \/ Dies(l, s)

Spec == Init /\ [][Next]_vars

\* No step of the launcher waits for ever: every poll, wait_procs and request it
\* makes has a limit, and the loop without a terminal looks every two seconds.
FairSpec == Spec /\ \A l \in Launchers : WF_vars(LauncherStep(l))

-----------------------------------------------------------------------------
(* Properties.                                                             *)

\* Every variable keeps its type.
TypeOK ==
  /\ options \in [Launchers -> Options]
  /\ pc \in [Launchers -> ({"start", "record", "wait"} \X Services) \cup
               {Clear, ClearAgain, Manage, Stop, Leave, Off, Gone}]
  /\ \A l \in Launchers : tracked[l] \subseteq Services /\ todo[l] \subseteq Services
  /\ flag \in [Launchers -> BOOLEAN]
  /\ return \in [Launchers -> {"none", "restart", "exit", "end"}]
  /\ asked \in [Launchers -> {"start", "restart", "exit", "quit", "signal"}]
  /\ proc \in [Launchers -> [Services -> States]]
  /\ before \in [Launchers -> SUBSET Services] /\ lost \in [Launchers -> SUBSET Services]
  /\ cut \subseteq Launchers
  /\ signals \in [Launchers -> 0..MaxSignals] /\ restarts \in 0..MaxRestarts
  /\ deaths \in 0..MaxDeaths

\* A launcher that has ended without being interrupted while it stopped leaves
\* nothing it had recorded but Ollama, whatever it was doing when it was told to
\* stop, and however often it was restarted before (shutdown, main.py:655).
RecordedAreStopped ==
  \A l \in Launchers : pc[l] = Gone /\ l \notin cut =>
    \A s \in Services \ {"ollama"} : Alive(l, s) => s \in lost[l]

\* Nobody is left with a flag that makes every later shutdown() an empty call
\* while a shutdown() is neither running nor was interrupted (main.py:657-659, 696).
StopStillWorks ==
  \A l \in Launchers : flag[l] => pc[l] = Stop \/ l \in cut

\* shutdown() does its work, however its callers interrupt and repeat each other, and can
\* be called again (main.py:655-697).
ShutdownWorks == RecordedAreStopped /\ StopStillWorks

\* Who is told to stop, or loses a service it cannot do without while nobody
\* watches a terminal, is gone in the end (main.py:116-119, 564-569, 595).
HasToStop(l) ==
  asked[l] \in {"exit", "quit", "signal"} \/ (~options[l].terminal /\ pc[l] = Manage /\ CriticalDied(l))
StopsInTheEnd == \A l \in Launchers : HasToStop(l) ~> (pc[l] = Gone)

\* "[Q] Cleanly Stop All Services and Exit" (main.py:547): the launcher that was
\* told so leaves none of its services behind.
QuitStopsAll ==
  \A l \in Launchers : pc[l] = Gone /\ asked[l] = "quit" => \A s \in Services : ~Alive(l, s)

\* "[R] Restart Services" (main.py:546): when the menu is back, every service that
\* ran before has been started again (Ollama is kept; npm may be missing).
RestartStartsAll ==
  \A l \in Launchers : pc[l] = Manage /\ asked[l] = "restart" =>
    before[l] \ {"ollama", "frontend"} \subseteq tracked[l]

\* "Clearing stale processes on ports" (main.py:711): what the start clears belongs
\* to no launcher that is still running.
OnlyStaleCleared ==
  [][\A l, k \in Launchers : pc[l] = Clear /\ l # k /\ pc'[l] # Clear /\ pc[k] = Manage =>
       \A s \in Services : Alive(k, s) => proc'[k][s] = proc[k][s]]_vars

\* "Cleanly terminate child processes and ensure ports are freed." (main.py:656):
\* after a signal no service that uses a port stays.
SignalStopsAll ==
  \A l \in Launchers : pc[l] = Gone /\ asked[l] = "signal" =>
    \A s \in Ports(l) : ~Alive(l, s)
=============================================================================
