---------------------------- MODULE BrowserActions ----------------------------
(***************************************************************************)
(* One action on a page, from the call of the executor to its ActionResult *)
(* (backend/browser/executor.py, verification/manager.py).                 *)
(*                                                                         *)
(* Every await of the page may raise: a timeout, or another error, such as *)
(* the one of a page that navigates away under a script.  Between two      *)
(* awaits the page lives on: its scripts rewrite the field, or it leaves.  *)
(***************************************************************************)
EXTENDS Naturals, FiniteSets

CONSTANTS
  Attempts,   \* navigate: 3
  MaxChanges  \* bound: what the page does on its own

ASSUME ActionsAssumption == Attempts \in Nat \ {0} /\ MaxChanges \in Nat

VARIABLES
  act,       \* the action
  pc,        \* the await that comes next, "idle" before and "done" after
  attempt,   \* of navigate
  page,      \* the document the tab shows
  field,     \* what the field holds
  readBack,  \* history: what verify_input_value found
  loaded,    \* history: the document verify_url saw
  changed,   \* history: the document is not as it was before the click
  entered,   \* history: the documents that got Enter, each time
  typed,     \* history: the documents that got keys
  loads,     \* history: calls of goto
  result,    \* success of the ActionResult
  changes    \* counter of the bound

vars == <<act, pc, attempt, page, field, readBack, loaded, changed, entered, typed, loads,
          result, changes>>
seen == <<readBack, loaded, changed, entered, typed, loads>>

\* "form" is where the element was found; "failed" is an error page of the browser.
Documents == {"form", "next", "failed"}
Kinds == {"type", "click", "select", "navigate", "press", "scroll", "extract"}

\* press: with Enter; located: a selector is known; box: a bounding box is known;
\* rich: the element has no value but text.
Actions == [kind : Kinds, press : BOOLEAN, located : BOOLEAN, box : BOOLEAN, rich : BOOLEAN]

First(kind) ==
  CASE kind = "type" -> "fill"
    [] kind \in {"click", "select"} -> "before"
    [] kind = "navigate" -> "goto"
    [] OTHER -> "operate"

Init ==
  /\ act \in Actions /\ (act.press \/ act.rich => act.kind = "type")
  /\ pc = "idle" /\ attempt = 0 /\ page = "form" /\ field = "empty"
  /\ readBack = "none" /\ loaded = "none" /\ changed = FALSE
  /\ entered = [d \in Documents |-> 0] /\ typed = {} /\ loads = 0
  /\ result = "none" /\ changes = 0

Call ==
  /\ pc = "idle" /\ pc' = First(act.kind)
  /\ UNCHANGED <<act, attempt, page, field, seen, result, changes>>

Return(r) == pc' = "done" /\ result' = r

Enter == entered' = [entered EXCEPT ![page] = @ + 1]

-----------------------------------------------------------------------------
(* type_text.                                                              *)

Fill ==
  /\ pc = "fill" /\ UNCHANGED <<act, attempt, page, seen, result, changes>>
  /\ \/ act.located /\ page = "form" /\ field' = "text" /\ pc' = "readBack"
     \/ pc' = "clickBox" /\ UNCHANGED field

Holds == page = "form" /\ (field = "text" \/ (act.rich /\ field = "more"))

\* Mutant: a failed check is one of the errors that lead to the keyboard.
AnyErrorFallsBack ==
  /\ pc' = "clickBox" /\ UNCHANGED result

\* except VerificationError.
NotVerified == Return("failure")

ReadBack ==
  /\ pc = "readBack" /\ UNCHANGED <<act, attempt, page, field, loaded, changed, entered, typed,
                                    loads, changes>>
  /\ \/ /\ Holds /\ readBack' = "equal" /\ UNCHANGED result
        /\ pc' = IF act.press THEN "enter" ELSE "detect"
     \/ readBack' = "other" /\ NotVerified

\* The key may have been sent when the call raises.
PressEnter ==
  /\ pc = "enter"
  /\ UNCHANGED <<act, attempt, page, field, readBack, loaded, changed, typed, loads, result,
                 changes>>
  /\ \/ page = "form" /\ Enter /\ pc' \in {"detect", "clickBox"}
     \/ UNCHANGED entered /\ pc' = "clickBox"

\* except Exception: the mouse and the keyboard instead.
ClickBox ==
  /\ pc = "clickBox" /\ UNCHANGED <<act, attempt, page, field, seen, changes>>
  /\ \/ pc' = "keys" /\ UNCHANGED result
     \/ act.box /\ Return("failure")

\* The keys go to what has the focus, on whatever the page shows by now.
Keys ==
  /\ pc = "keys"
  /\ UNCHANGED <<act, attempt, page, readBack, loaded, changed, entered, loads, changes>>
  /\ \/ /\ typed' = typed \cup {page} /\ UNCHANGED result
        /\ field' \in IF page # "form" THEN {field}
                      ELSE {IF field = "empty" THEN "text" ELSE "more"} \cup
                           (IF act.box THEN {} ELSE {field})
        /\ pc' = IF act.press THEN "keyEnter" ELSE "keyDetect"
     \/ Return("failure") /\ UNCHANGED <<typed, field>>

\* Mutant: a keyboard that fails is tried again.
TriesAgain ==
  /\ pc = "keyEnter"
  /\ UNCHANGED <<act, attempt, page, field, readBack, loaded, changed, typed, loads, changes>>
  /\ \/ Enter /\ pc' \in {"keyDetect", "keys"} /\ UNCHANGED result
     \/ UNCHANGED entered /\ Return("failure")

KeyEnter ==
  /\ pc = "keyEnter"
  /\ UNCHANGED <<act, attempt, page, field, readBack, loaded, changed, typed, loads, changes>>
  /\ (Enter \/ UNCHANGED entered)
  /\ \/ entered' # entered /\ pc' = "keyDetect" /\ UNCHANGED result
     \/ Return("failure")

-----------------------------------------------------------------------------
(* click, select_option and the actions without an element.                *)

Before ==
  /\ pc = "before" /\ UNCHANGED <<act, attempt, page, field, seen, changes>>
  /\ \/ pc' = "operate" /\ UNCHANGED result
     \/ Return("failure")

Usable == act.kind \in {"press", "scroll", "extract"} \/ act.located
          \/ (act.kind = "click" /\ act.box)

Operate ==
  /\ pc = "operate"
  /\ UNCHANGED <<act, attempt, page, field, readBack, loaded, typed, loads, changes>>
  /\ \/ /\ Usable /\ (IF act.kind = "press" THEN Enter ELSE UNCHANGED entered)
        /\ IF act.kind = "extract" THEN UNCHANGED changed ELSE changed' \in BOOLEAN
        /\ \/ pc' = (IF act.kind = "click" THEN "compare" ELSE "detect") /\ UNCHANGED result
           \/ Return("failure")
     \/ UNCHANGED <<entered, changed>> /\ Return("failure")

\* verify_dom_mutation reads the page and accepts what it finds.
Compare ==
  /\ pc = "compare" /\ UNCHANGED <<act, attempt, page, field, seen, changes>>
  /\ \/ pc' = "detect" /\ UNCHANGED result
     \/ Return("failure")

-----------------------------------------------------------------------------
(* navigate.                                                               *)

LastAttempt == attempt = Attempts - 1

\* A timeout or a net::ERR_ error is worth another attempt.
Raised(transient) ==
  IF transient /\ ~LastAttempt
  THEN pc' = "goto" /\ attempt' = attempt + 1 /\ UNCHANGED result
  ELSE Return("failure") /\ UNCHANGED attempt

Goto ==
  /\ pc = "goto" /\ loads' = loads + 1
  /\ UNCHANGED <<act, field, readBack, loaded, changed, entered, typed, changes>>
  /\ \/ page' \in {"next", "failed"} /\ pc' = "checkUrl" /\ UNCHANGED <<attempt, result>>
     \/ UNCHANGED page /\ \E transient \in BOOLEAN : Raised(transient)

\* Mutant: the page is not looked at.
Trusting(p) == TRUE

Acceptable(p) == p # "failed"

CheckUrl ==
  /\ pc = "checkUrl" /\ loaded' = page
  /\ UNCHANGED <<act, page, field, readBack, changed, entered, typed, loads, changes>>
  /\ \/ Acceptable(page) /\ pc' = "detect" /\ UNCHANGED <<attempt, result>>
     \/ ~Acceptable(page) /\ Raised(FALSE)
     \/ \E transient \in BOOLEAN : Raised(transient)

\* _detect_page_state reads the page, and may raise like any other call.
Detect ==
  /\ pc \in {"detect", "keyDetect"} /\ UNCHANGED <<act, page, field, seen, changes>>
  /\ \/ Return("success") /\ UNCHANGED attempt
     \/ CASE act.kind = "navigate" -> \E transient \in BOOLEAN : Raised(transient)
          [] act.kind = "type" /\ pc = "detect" -> pc' = "clickBox" /\ UNCHANGED <<result, attempt>>
          [] OTHER -> Return("failure") /\ UNCHANGED attempt

-----------------------------------------------------------------------------
(* The page.                                                               *)

\* A script rewrites the field, or the page leaves, for instance after Enter.
PageLives ==
  /\ pc \notin {"idle", "done"} /\ changes < MaxChanges /\ changes' = changes + 1
  /\ \/ page = "form" /\ field # "empty" /\ field' = "other" /\ UNCHANGED page
     \/ page = "form" /\ page' = "next" /\ field' = "empty"
  /\ UNCHANGED <<act, pc, attempt, seen, result>>

ExecutorStep ==
  \/ Call \/ Fill \/ ReadBack \/ PressEnter \/ ClickBox \/ Keys \/ KeyEnter
  \/ Before \/ Operate \/ Compare \/ Goto \/ CheckUrl \/ Detect

Next == ExecutorStep \/ PageLives

Spec == Init /\ [][Next]_vars

-----------------------------------------------------------------------------
(* Properties.                                                             *)

\* Every variable keeps its type, and navigate stays within its attempts.
TypeOK ==
  /\ act \in Actions
  /\ pc \in {"idle", "fill", "readBack", "enter", "clickBox", "keys", "keyEnter", "keyDetect",
             "before", "operate", "compare", "goto", "checkUrl", "detect", "done"}
  /\ attempt \in 0..Attempts - 1 /\ loads \in 0..Attempts
  /\ page \in Documents /\ field \in {"empty", "text", "more", "other"}
  /\ readBack \in {"none", "equal", "other"} /\ loaded \in Documents \cup {"none"}
  /\ changed \in BOOLEAN /\ entered \in [Documents -> Nat] /\ typed \subseteq Documents
  /\ result \in {"none", "success", "failure"} /\ changes \in 0..MaxChanges

\* A field that was read back with another content ends the action as a failure,
\* and is neither submitted nor typed into again (executor.py:51-55).
WrongContentEnds ==
  readBack = "other" => result = "failure" /\ (\A d \in Documents : entered[d] = 0) /\ typed = {}

\* A navigation that is reported as done was not looking at an error page of the
\* browser when its last load was checked (verify_url, manager.py:69).
NavigateTellsTruth ==
  act.kind = "navigate" /\ result = "success" => loaded = "next" /\ page = "next"

\* However many of its awaits fail, type_text sends Enter at most twice, and not at
\* all when nobody asked for it.
EnterIsBounded ==
  act.kind = "type" =>
    entered["form"] + entered["next"] + entered["failed"] <= IF act.press THEN 2 ELSE 0

\* What an action reports and what it sends to the page, wherever its awaits fail and
\* whatever the page does meanwhile (executor.py, manager.py:69).
ActionIsHonest == WrongContentEnds /\ NavigateTellsTruth /\ EnterIsBounded

\* "Fill text, verify input_value matches, and optionally submit with Enter."
\* (executor.py:27): success means that the text was read back.
SuccessIsReadBack ==
  act.kind = "type" /\ result = "success" => readBack = "equal"

\* The same line: one action submits once.
SubmittedOnce ==
  act.kind = "type" => entered["form"] + entered["next"] + entered["failed"] <= 1

\* "Click an interactive element and verify the DOM mutated." (executor.py:21).
ClickChangedSomething ==
  act.kind = "click" /\ result = "success" => changed
=============================================================================
