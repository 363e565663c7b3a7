----------------------------- MODULE DesktopGoals -----------------------------
(***************************************************************************)
(* The end of a desktop task: its goal conditions are checked one after    *)
(* the other, some against one observation, some by asking the desktop     *)
(* again, while the desktop goes on changing (backend/desktop/verifier.py, *)
(* agent/desktop_nodes.py desktop_verify_node).  A check that fails is     *)
(* repeated after the next action.  No node sets goal conditions: a task   *)
(* without any is completed when its last step succeeded and something can *)
(* be observed, or when that failed often enough.                          *)
(***************************************************************************)
EXTENDS DesktopScreen

CONSTANTS
  Processes, \* names of programs
  Goals,     \* the conditions a task may have, those that can be parsed
  MaxRounds  \* bound: 15 calls of the model

\* ELEMENT_VISIBLE and ELEMENT_ENABLED ask for a "ready" element, TEXT_EQUALS and VALUE_EQUALS
\* for a "text", TOGGLE_EQUALS, CHECKBOX_EQUALS and RADIO_SELECTED for a "toggle".
Predicates ==
  {"exists", "focused", "active", "running", "element", "ready", "text", "contains", "toggle"}

GoalsAssumption ==
  /\ MaxRounds \in Nat
  /\ \A g \in Goals :
       /\ g \in Seq({g[i] : i \in DOMAIN g})
       /\ \A i \in DOMAIN g : g[i].expect \in BOOLEAN /\ g[i].pred \in Predicates

VARIABLES
  running,  \* the programs that run
  conds,    \* the conditions of the task
  pc,       \* the call that comes next
  fresh,    \* observe: the active window it has read
  obs,      \* verify_all_goals: the observation
  results,  \* of the conditions checked so far
  window, found,  \* what find_window and find_element returned
  round,
  retries,  \* state["retry_count"]
  shown,    \* history: the controls there were since this check began
  held,     \* history: conditions that held at some moment since then
  missed,   \* history: a call since then answered less than was there
  together  \* history: all conditions held at one moment since then

calls     == <<conds, pc, fresh, obs, results, window, found, round, retries>>
histories == <<shown, held, missed, together>>
vars      == <<screen, running, calls, histories>>

-----------------------------------------------------------------------------
(* What the conditions mean.                                               *)

State(on) == IF on THEN "On" ELSE "Off"

\* Names that are empty are not looked at.
Titled(title, name) == name # "" /\ Contains(title, name)
Bears(text, name) == text # "" /\ Contains(text, name)

\* An element is looked for by its name, its type and the title of its window.
Fits(s, c) ==
  /\ Bears(s.control.name, c.name) \/ Bears(s.control.kind, c.name) \/ Bears(s.window, c.name)
  /\ c.pred = "ready" => s.control.ready

HasText(s, c) ==
  /\ Bears(s.control.name, c.name) /\ Contains(s.control.value, c.text)
  /\ c.pred = "contains" => c.text # "" /\ s.control.value # ""

In(w, c) == [window |-> w, control |-> c]

\* The controls of all windows, without and with the windows themselves.
Listed == UNION {{In(w, layout[w][i]) : i \in DOMAIN layout[w]} : w \in opened}
Showing == UNION {{In(w, Tree(w)[i]) : i \in DOMAIN Tree(w)} : w \in opened}

InFront(name) == foreground # Nothing /\ Titled(foreground, name)
Runs(name) == \E p \in running : Titled(p, name)

Holds(c) ==
  CASE c.pred = "exists" -> (\E w \in opened : Titled(w, c.name)) = c.expect
    [] c.pred = "focused" -> InFront(c.name) = c.expect
    [] c.pred = "active" -> InFront(c.name)
    [] c.pred = "running" -> Runs(c.name) = c.expect
    [] c.pred \in {"element", "ready"} -> (\E s \in Listed : Fits(s, c)) = c.expect
    [] c.pred \in {"text", "contains"} -> \E s \in Listed : HasText(s, c)
    [] c.pred = "toggle" ->
         \E s \in Listed : Bears(s.control.name, c.name) /\ s.control.state = State(c.expect)

Holding == {i \in DOMAIN conds : Holds(conds[i])}

Init ==
  /\ ScreenInit /\ running \in SUBSET Processes /\ conds \in Goals /\ pc = "idle"
  /\ fresh = Nothing /\ obs = <<>> /\ results = <<>> /\ window = Nothing /\ found = Nothing
  /\ round = 0 /\ retries = 0
  /\ shown = Showing /\ held = Holding /\ missed = FALSE /\ together = (held = DOMAIN conds)

\* The histories, part of every step; they begin anew with every check.
Remember(miss) ==
  /\ shown' = (IF pc = "idle" THEN {} ELSE shown) \cup Showing'
  /\ held' = (IF pc = "idle" THEN {} ELSE held) \cup Holding'
  /\ missed' = ((pc # "idle" /\ missed) \/ miss)
  /\ together' = ((pc # "idle" /\ together) \/ Holding' = DOMAIN conds)

-----------------------------------------------------------------------------
(* The observation.                                                        *)

\* Hard errors before the action that succeeded count as retries too; they are looked at only
\* for a task without conditions.
Begin ==
  /\ pc = "idle" /\ round < MaxRounds /\ round' = round + 1
  /\ retries' \in retries .. IF conds = <<>> THEN 3 ELSE retries
  /\ pc' = "observe" /\ results' = <<>>
  /\ UNCHANGED <<screen, running, conds, fresh, obs, window, found>> /\ Remember(FALSE)

\* observe reads the window in front, looks for it or, without conditions, for the active
\* window of the state, and walks it: three calls.
Observe ==
  /\ pc = "observe" /\ pc' = "window" /\ fresh' \in Active
  /\ UNCHANGED <<screen, running, conds, obs, results, window, found, round, retries>>
  /\ Remember(FALSE)

Look ==
  /\ pc = "window" /\ pc' = "walk"
  /\ window' \in IF conds = <<>> THEN opened \cup {Nothing}
                 ELSE IF fresh = Nothing THEN {Nothing} ELSE FindWindow(fresh)
  /\ UNCHANGED <<screen, running, conds, fresh, obs, results, found, round, retries>>
  /\ Remember(FALSE)

\* Mutant: an observation of an earlier check is used again.
OldObservation(seen) == IF round > 1 THEN obs ELSE seen

\* Fresh observation for all checks.
FreshObservation(seen) == seen

\* Mutant: the task is completed whatever is seen.
ConcludeAtOnce(something) == pc' = "completed" /\ UNCHANGED retries

\* Without conditions the task is completed if there is something to see, or after three
\* retries.
Conclude(something) ==
  IF something \/ retries = 3 THEN pc' = "completed" /\ UNCHANGED retries
  ELSE pc' = "idle" /\ retries' = retries + 1

Walk ==
  /\ pc = "walk"
  /\ \E walked \in Walks(Root(window)) :
       LET seen == Elements(Root(window), walked) IN
         /\ obs' = FreshObservation([i \in DOMAIN seen |-> In(Root(window), seen[i].control)])
         /\ IF conds # <<>> THEN pc' = "check" /\ UNCHANGED retries
            ELSE Conclude(fresh # Nothing \/ walked # {})
  /\ UNCHANGED <<screen, running, conds, fresh, results, window, found, round>>
  /\ Remember(\E s \in Listed : \A i \in DOMAIN obs' : obs'[i] # s)

-----------------------------------------------------------------------------
(* The conditions, in their order.                                         *)

Cond == conds[Len(results) + 1]

\* all(r.verified for r in results): then the task is completed.
Verdict(ok) ==
  /\ results' = Append(results, ok)
  /\ pc' = IF Len(results') < Len(conds) THEN "check"
           ELSE IF \A i \in DOMAIN results' : results'[i] THEN "completed" ELSE "idle"

CheckVars == <<screen, running, conds, fresh, obs, round, retries>>

Find(name) == IF name = "" THEN {Nothing} ELSE FindWindow(name)
Overlooked(w, name) == w = Nothing /\ \E v \in opened : Titled(v, name)

CheckExists ==
  /\ pc = "check" /\ Cond.pred = "exists"
  /\ UNCHANGED <<CheckVars, window, found>>
  /\ \E w \in Find(Cond.name) : /\ Verdict((w # Nothing) = Cond.expect)
                              /\ Remember(Overlooked(w, Cond.name))

\* _check_window_focused: a window in front settles it; if there is none of that title, the
\* window in front is asked once more, and any window that exists will do.
CheckFocused ==
  /\ pc = "check" /\ Cond.pred = "focused"
  /\ \E a \in Active :
       IF a # Nothing /\ Titled(a, Cond.name) THEN Verdict(Cond.expect)
       ELSE pc' = "focus" /\ UNCHANGED results
  /\ UNCHANGED <<CheckVars, window, found>> /\ Remember(FALSE)

FindFocused ==
  /\ pc = "focus"
  /\ UNCHANGED <<CheckVars, window, found>>
  /\ \E w \in Find(Cond.name), a \in Active :
       /\ Verdict((w # Nothing \/ (a # Nothing /\ Titled(a, Cond.name))) = Cond.expect)
       /\ Remember(Overlooked(w, Cond.name))

\* ACTIVE_WINDOW_EQUALS expects a match, whatever the value it is given.
CheckActive ==
  /\ pc = "check" /\ Cond.pred = "active"
  /\ \E a \in Active : Verdict(a # Nothing /\ Titled(a, Cond.name))
  /\ UNCHANGED <<CheckVars, window, found>> /\ Remember(FALSE)

\* A process that cannot be asked for its name is skipped.
CheckRunning ==
  /\ pc = "check" /\ Cond.pred = "running"
  /\ UNCHANGED <<CheckVars, window, found>>
  /\ \E runs \in {Runs(Cond.name), FALSE} :
       Verdict(runs = Cond.expect) /\ Remember(runs # Runs(Cond.name))

CheckElement ==
  /\ pc = "check" /\ Cond.pred \in {"element", "ready"}
  /\ Verdict((\E i \in DOMAIN obs : Fits(obs[i], Cond)) = Cond.expect)
  /\ UNCHANGED <<CheckVars, window, found>> /\ Remember(FALSE)

\* The first element of that name has to have the text; no text is equal to any.
CheckText ==
  /\ pc = "check" /\ Cond.pred \in {"text", "contains"}
  /\ LET named == {i \in DOMAIN obs : Bears(obs[i].control.name, Cond.name)}
     IN  Verdict(\/ Cond.pred = "text" /\ Cond.text = ""
                 \/ \E i \in named : HasText(obs[i], Cond) /\ \A j \in named : i <= j)
  /\ UNCHANGED <<CheckVars, window, found>> /\ Remember(FALSE)

\* _check_toggle_state looks for the window, the element and its state: three calls.
CheckToggle ==
  /\ pc = "check" /\ Cond.pred = "toggle" /\ pc' = "find"
  /\ window' \in Find(Cond.window)
  /\ UNCHANGED <<CheckVars, results, found>> /\ Remember(FALSE)

FindToggle ==
  /\ pc = "find" /\ pc' = "state"
  /\ found' \in IF Root(window) = Nothing THEN {Nothing}
                ELSE FindElement(Root(window), Cond.name, "", "")
  /\ UNCHANGED <<CheckVars, results, window>> /\ Remember(FALSE)

\* The first observed element of that name which has a state.
Observed ==
  LET fit == {i \in DOMAIN obs : /\ Contains(obs[i].control.name, Cond.name)
                                 /\ obs[i].control.state # "none"}
  IN  IF fit = {} THEN "Unknown"
      ELSE obs[CHOOSE i \in fit : \A j \in fit : i <= j].control.state

\* What the control that was found says now, if it is there and has a state.
Now == IF found = Nothing THEN {}
       ELSE {d.state : d \in {Tree(found.window)[i] : i \in DOMAIN Tree(found.window)}
                               \cap {e \in Controls : Same(e, found.control)}} \ {"none"}

ReadToggle ==
  /\ pc = "state" /\ \E state \in Now \cup {Observed} : Verdict(state = State(Cond.expect))
  /\ UNCHANGED <<CheckVars, window, found>> /\ Remember(FALSE)

CheckStep ==
  \/ Begin \/ Observe \/ Look \/ Walk
  \/ CheckExists \/ CheckFocused \/ FindFocused \/ CheckActive \/ CheckRunning
  \/ CheckElement \/ CheckText \/ CheckToggle \/ FindToggle \/ ReadToggle

\* Programs start and end too.
DesktopLives ==
  /\ pc # "completed"
  /\ \/ UserActs /\ UNCHANGED running
     \/ /\ changes < MaxChanges /\ changes' = changes + 1 /\ running' \in SUBSET Processes
        /\ UNCHANGED <<opened, layout, foreground>>
  /\ UNCHANGED calls /\ Remember(FALSE)

Next == CheckStep \/ DesktopLives

Spec == Init /\ [][Next]_vars

-----------------------------------------------------------------------------
\* Every variable has its type; a check goes on only while conditions are left.
TypeOK ==
  /\ ScreenTypeOK /\ running \subseteq Processes /\ conds \in Goals
  /\ pc \in {"idle", "observe", "window", "walk", "check", "focus", "find", "state", "completed"}
  /\ results \in Seq(BOOLEAN) /\ Len(results) <= Len(conds)
  /\ pc \in {"check", "focus", "find", "state"} => Len(results) < Len(conds)
  /\ Len(obs) <= MaxElements /\ {fresh, window} \subseteq Windows \cup {Nothing}
  /\ round \in 0 .. MaxRounds /\ retries \in 0 .. 3
  /\ held \subseteq DOMAIN conds /\ missed \in BOOLEAN /\ together \in BOOLEAN

\* What there was, at some moment since the check began, if a condition passed.  For a toggle
\* the element had that name at one moment and that state at one; for a window in focus there
\* was a window of that title; for something that must not be there, it was not, or a call
\* answered less than was there.
Evident(i) ==
  LET c == conds[i] IN
  CASE c.pred = "toggle" ->
         \E s, d \in shown : /\ s.window = d.window /\ Same(s.control, d.control)
                             /\ Contains(s.control.name, c.name)
                             /\ d.control.state = State(c.expect)
    [] c.pred \in {"text", "contains"} ->
         (c.pred = "text" /\ c.text = "") \/ \E s \in shown : HasText(s, c)
    [] c.pred = "active" -> i \in held
    [] c.pred \notin {"toggle", "text", "contains", "active"} /\ ~c.expect -> i \in held \/ missed
    [] c.pred \in {"exists", "focused"} /\ c.expect -> \E s \in shown : Titled(s.window, c.name)
    [] c.pred = "running" /\ c.expect -> i \in held
    [] c.pred \in {"element", "ready"} /\ c.expect -> \E s \in shown : Fits(s, c)

\* A task is completed only if there was evidence for each of its conditions while they were
\* checked for the last time, although calls of UI Automation fail, windows come and go
\* between two conditions and the state of a toggle may come from the observation; a task
\* without conditions only if there was a window then, or after three retries
\* (verify_all_goals, desktop_verify_node).
PassedWereTrue ==
  pc = "completed" =>
    /\ conds = <<>> => shown # {} \/ retries = 3
    /\ \A i \in DOMAIN conds : Evident(i)

\* verifier.py:3 "Verifies desktop action results and goal conditions using native UI
\* Automation state": a window that passes as focused was in front.
FocusedIsFocused ==
  pc = "completed" => \A i \in DOMAIN conds : conds[i].pred = "focused" /\ conds[i].expect => i \in held

\* The same for a condition that asks for something not to be there.
AbsenceIsReal ==
  pc = "completed" => \A i \in DOMAIN conds : ~conds[i].expect => i \in held

\* desktop_nodes.py:845 "all plan steps executed and verified": something was to be seen when
\* a task without conditions was completed.
SomethingSeen == pc = "completed" /\ conds = <<>> => shown # {}

\* verifier.py:175 "Fresh observation for all checks": the conditions of a completed task
\* held together.
AllHeldTogether == pc = "completed" => together
=============================================================================
