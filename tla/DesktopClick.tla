----------------------------- MODULE DesktopClick -----------------------------
(***************************************************************************)
(* How the agent clicks on the desktop: it observes a window, plans a      *)
(* click on an element of the observation, and grounds and executes the    *)
(* click by searching the window again (backend/agent/desktop_nodes.py,    *)
(* desktop/grounding.py).  Its own actions bring windows to the front too. *)
(***************************************************************************)
EXTENDS DesktopScreen

CONSTANT MaxRounds  \* bound: rounds of observing and acting

ClickAssumption == MaxRounds \in Nat

VARIABLES
  pc,      \* the call that comes next
  active,  \* state["active_window"]
  seen,    \* the window whose elements were observed
  obs,     \* those elements
  action,  \* the planned action
  fresh,   \* observe: the active window it has read
  window,  \* what find_window returned
  found,   \* the control of UI Automation
  ops,     \* history: controls this action operated
  result,  \* how the action ended
  round

vars == <<screen, pc, active, seen, obs, fresh, action, window, found, ops, result, round>>
memory == <<active, seen, obs, fresh>>

None == [kind |-> "none", clicks |-> 1, id |-> 0, coordinate |-> 0]

Init ==
  /\ ScreenInit /\ pc = "observe" /\ active = Nothing /\ seen = Nothing /\ obs = <<>>
  /\ fresh = Nothing /\ action = None /\ window = Nothing /\ found = Nothing /\ ops = <<>> /\ result = "none"
  /\ round = 0

\* desktop_observe_node reads the window in front, looks for the window of the last round and
\* walks it: three calls.
Observe ==
  /\ pc = "observe" /\ round < MaxRounds /\ round' = round + 1
  /\ fresh' \in Active
  /\ pc' = "look" /\ ops' = <<>> /\ result' = "none"
  /\ UNCHANGED <<screen, active, seen, obs, action, window, found>>

Look ==
  /\ pc = "look" /\ pc' = "walk"
  /\ window' \in IF active # Nothing THEN FindWindow(active)
                 ELSE IF fresh # Nothing THEN FindWindow(fresh) ELSE {Nothing}
  /\ UNCHANGED <<screen, memory, action, found, ops, result, round>>

\* The window in front is remembered, and what was observed of the other one.
Walk ==
  /\ pc = "walk" /\ pc' = "plan"
  /\ \E walked \in Walks(Root(window)) : obs' = Elements(Root(window), walked)
  /\ seen' = Root(window) /\ active' = fresh
  /\ UNCHANGED <<screen, fresh, action, window, found, ops, result, round>>

\* The model names an element, one that does not exist, or a coordinate as well.
Plan ==
  /\ pc = "plan"
  /\ \/ /\ action' \in [kind : {"click"}, clicks : {1, 2},
                        id : {obs[i].place : i \in DOMAIN obs} \cup {0}, coordinate : {0, 1}]
        /\ pc' = "window"
     \/ action' = [None EXCEPT !.kind = "focus"] /\ pc' = "focus"
  /\ window' = Nothing /\ found' = Nothing
  /\ UNCHANGED <<screen, memory, ops, result, round>>

Done(how) == pc' = "observe" /\ result' = how

\* focus_window, launch_application.
Focus ==
  /\ pc = "focus"
  /\ \/ \E w \in opened : foreground' = w /\ Done("semantic")
     \/ Done("failure") /\ UNCHANGED foreground
  /\ UNCHANGED <<opened, layout, changes, memory, action, window, found, ops, round>>

-----------------------------------------------------------------------------
(* ground_target.                                                          *)

\* Mutant: an id that is not there means the first element.
AnyElement == IF \E i \in DOMAIN obs : obs[i].place = action.id
              THEN {i \in DOMAIN obs : obs[i].place = action.id} ELSE DOMAIN obs \cap {1}

\* The elements of the observation with this id: one, or none.
Wanted == {i \in DOMAIN obs : obs[i].place = action.id}

Target == obs[CHOOSE i \in Wanted : TRUE]

\* With no element there is nothing to search for, nor a bounding box.
Coordinates ==
  IF Wanted # {} THEN {Target.place} ELSE {action.coordinate} \ {0}

WindowStep(from, to) ==
  /\ pc = from /\ Wanted # {} /\ pc' = to
  /\ window' \in IF active = Nothing THEN {Nothing} ELSE FindWindow(active)
  /\ UNCHANGED <<screen, memory, action, found, ops, result, round>>

Unknown ==
  /\ pc = "window" /\ Wanted = {}
  /\ IF Coordinates = {} THEN Done("failure") ELSE pc' = "coordinate" /\ UNCHANGED result
  /\ UNCHANGED <<screen, memory, action, window, found, ops, round>>

\* A control that is found is operated; a double click has no way to do that.
Operate ==
  IF action.clicks = 2 THEN Done("failure")
  ELSE /\ pc' = IF Target.control.state # "none" THEN "toggle" ELSE "invoke"
       /\ UNCHANGED result

SearchStep(from, name, aid, kind, to) ==
  /\ pc = from
  /\ found' \in IF Root(window) = Nothing \/ <<name, aid, kind>> = <<"", "", "">> THEN {Nothing}
                ELSE FindElement(Root(window), name, aid, kind)
  /\ IF found' = Nothing THEN pc' = to /\ UNCHANGED result ELSE Operate
  /\ UNCHANGED <<screen, memory, action, window, ops, round>>

Semantic ==
  \/ WindowStep("window", "semantic")
  \/ /\ pc = "semantic"
     /\ LET c == Target.control IN SearchStep("semantic", c.name, c.aid, c.kind, "window2")

Alternate ==
  \/ WindowStep("window2", "byName")
  \/ pc = "byName" /\ SearchStep("byName", Target.control.name, "", "", "byId")
  \/ pc = "byId" /\ SearchStep("byId", "", Target.control.aid, "", "coordinate")

-----------------------------------------------------------------------------
(* _execute_click_element.                                                 *)

Touch(w, c, how) == ops' = Append(ops, [window |-> w, control |-> c, how |-> how])
Through == Touch(found.window, found.control, "uia")

\* What lies at a place of the window in front.
Press(place) ==
  IF foreground # Nothing /\ place \in DOMAIN layout[foreground]
  THEN Touch(foreground, layout[foreground][place], "mouse") ELSE UNCHANGED ops

\* The mouse at the centre of the control that was found, in front or not (Click(),
\* pyautogui.click); nothing is pressed where its rectangle is empty.  The centre of a window
\* is anywhere.
AtCentre ==
  LET w == found.window
      at == {i \in DOMAIN layout[w] : Same(layout[w][i], found.control)}
  IN  UNCHANGED ops \/ \E i \in IF at = {} THEN DOMAIN layout[w] ELSE at : Press(i)

\* Mutant: the new state is not looked at.
ToggleFails == Done("semantic")

NotToggled == pc' = "invoke" /\ UNCHANGED result

\* toggle_element reads the new state after it has toggled: that may raise.
Toggle ==
  /\ pc = "toggle" /\ UNCHANGED <<screen, memory, action, window, found, round>>
  /\ \/ /\ Live(found) /\ found.control.state # "none" /\ Through
        /\ (Done("semantic") \/ NotToggled)
     \/ UNCHANGED ops /\ NotToggled

NotInvoked == pc' = "centre" /\ UNCHANGED result

\* invoke_element: Invoke through the pattern of the control, or, when it has none, a click of
\* the mouse that counts as much.  Either may raise, the first after it has had an effect.
Invoke ==
  /\ pc = "invoke" /\ UNCHANGED <<screen, memory, action, window, found, round>>
  /\ \/ Live(found) /\ found.control.invoke /\ Through /\ (Done("semantic") \/ NotInvoked)
     \/ Live(found) /\ ~found.control.invoke /\ AtCentre /\ Done("semantic")
     \/ UNCHANGED ops /\ NotInvoked

\* click_element_center: the mouse, moved by pyautogui or by Click().
Centre ==
  /\ pc = "centre" /\ UNCHANGED <<screen, memory, action, window, found, round>>
  /\ \/ Live(found) /\ AtCentre /\ Done("pattern")
     \/ UNCHANGED ops /\ Done("failure")

Coordinate ==
  /\ pc = "coordinate" /\ UNCHANGED <<screen, memory, action, window, found, round>>
  /\ \/ (\E place \in Coordinates : Press(place)) /\ Done("coordinate")
     \/ UNCHANGED ops /\ Done("failure")

-----------------------------------------------------------------------------
AgentStep == \/ Observe \/ Look \/ Walk \/ Plan \/ Focus
             \/ Semantic \/ Alternate \/ Unknown
             \/ Toggle \/ Invoke \/ Centre \/ Coordinate

Next == AgentStep \/ (UserActs /\ UNCHANGED <<pc, memory, action, window, found, ops, result, round>>)

Spec == Init /\ [][Next]_vars

-----------------------------------------------------------------------------
Ended == pc = "observe" /\ action.kind = "click"

\* Every variable has its type.
TypeOK ==
  /\ ScreenTypeOK
  /\ pc \in {"observe", "look", "walk", "plan", "focus", "window", "semantic", "window2", "byName", "byId",
             "toggle", "invoke", "centre", "coordinate"}
  /\ {active, seen, fresh, window} \subseteq Windows \cup {Nothing} /\ obs \in Seq(ElementType)
  /\ Len(obs) <= MaxElements /\ round \in 0 .. MaxRounds
  /\ result \in {"none", "failure", "semantic", "pattern", "coordinate"}
  /\ action.clicks \in {1, 2} /\ action.id \in Nat

\* What is operated through UI Automation had the name or the id of the planned element in
\* its own when it was found (only an element with neither is searched by its type), although
\* the tree was searched again, in two ways, and may have changed since the observation
\* (grounding.py levels 1 and 2, find_element).
UiaHitsTarget ==
  \A i \in DOMAIN ops : ops[i].how = "uia" =>
    LET c == Target.control IN
      \/ c.name # "" /\ Contains(ops[i].control.name, c.name)
      \/ c.aid # "" /\ Contains(ops[i].control.aid, c.aid)
      \/ c.name = "" /\ c.aid = "" /\ Contains(ops[i].control.kind, c.kind)

\* A click that counts as a semantic one has operated a control through UI Automation,
\* whichever call of the chain raised on the way (_execute_click_element, lines 612 to 646),
\* unless what was found has no InvokePattern: then the mouse was clicked at its centre, and
\* may have hit what covers it or nothing (uia.py:587-590).
SemanticOperated ==
  Ended /\ result = "semantic" =>
    \/ ops # <<>> /\ ops[Len(ops)].how = "uia"
    \/ found # Nothing /\ ~found.control.invoke

\* A click on an element that was not in the observation and has no coordinate touches
\* nothing and fails: the model may invent ids (grounding.py ground_target).
InventedTouchesNothing ==
  /\ action.kind = "click" /\ action.coordinate = 0
  /\ \A i \in DOMAIN obs : obs[i].place # action.id
  => ops = <<>> /\ result \in {"none", "failure"}

\* What is operated through UI Automation is what the plan meant as far as it can tell, and
\* a click only counts as one of UI Automation if it was, or if the control cannot be invoked
\* (grounding.py, desktop_nodes.py:583-666).
ClicksHitTarget == UiaHitsTarget /\ SemanticOperated /\ InventedTouchesNothing

\* uia.py:514 "Search for a specific UIA control matching the given criteria.": the control
\* that is operated is the one the plan names.
RightControl ==
  \A i \in DOMAIN ops : ops[i].how = "uia" => Same(ops[i].control, Target.control)

\* grounding.py:8 "Coordinate fallback from fresh observation": what is clicked at the place
\* of an element is that element.
FreshCoordinates ==
  Ended /\ result = "coordinate" /\ Wanted # {} =>
    \E i \in DOMAIN ops : Same(ops[i].control, Target.control)

\* observer.py:100 "Capture current desktop state as a compact observation.": the elements
\* belong to the window that the same observation names as the active one.
ObservedIsActive == active # Nothing /\ seen # Nothing => Contains(seen, active)

\* desktop_nodes.py:589 "Click an element using the grounding escalation chain.": one click
\* operates one control once.
OneOperation == Len(ops) <= 1

\* desktop_prompts.py:36 "Double-click a UI control": a control that is found is clicked.
DoubleClickReaches ==
  Ended /\ action.clicks = 2 /\ found # Nothing => result # "failure"
=============================================================================
