------------------------------ MODULE Completion ------------------------------
(***************************************************************************)
(* Whether a browser task is done (backend/verification/manager.py):       *)
(* verify_task_completion collects what it expects and what it observes,   *)
(* and returns early, with the two compared, when something is missing.    *)
(* The page is read twice: its state first, its fields later.              *)
(***************************************************************************)
EXTENDS Naturals, FiniteSets

CONSTANT MaxSteps  \* bound: steps of a plan that are not completed

CompletionAssumption == MaxSteps \in 0 .. 99

VARIABLES
  task,      \* what the user asked for, and what the run brought
  page,      \* what the tab shows
  pc,        \* "state", "fields", "rest" or "done"
  expected, observed,  \* the dictionaries
  verified,  \* of the VerificationResult
  at,        \* history: what the tab showed when its state was read
  fields     \* history: whether the text was in a field when they were read

vars == <<task, page, pc, expected, observed, verified, at, fields>>

\* search, extract: words of the input; plan: more than one step; left: steps of the plan
\* that are not completed; text: something to type in.
Tasks == [search : BOOLEAN, extract : BOOLEAN, plan : BOOLEAN, left : 0 .. MaxSteps,
          text : BOOLEAN, data : BOOLEAN, answer : {"none", "plan", "short", "long"}]

\* "home": a search engine; "homeParam": the same with a parameter in the URL, such as
\* /?gws_rd=ssl; "blocked": sorry/index; "error": of the browser or of HTTP.
Pages == [at : {"home", "homeParam", "blocked", "error", "hung", "content"}, text : BOOLEAN]

Keys == {"task_completed", "has_error_state", "premature_completion_prevented", "text_verified",
         "information_extracted", "remaining_steps"}

Init ==
  /\ task \in {t \in Tasks : t.left > 1 => t.plan} /\ page \in Pages
  /\ pc = "state" /\ verified = FALSE /\ at = "none" /\ fields = FALSE
  /\ expected = [task_completed |-> TRUE] /\ observed = <<>>

-----------------------------------------------------------------------------
(* verify_expected_vs_observed.                                            *)

\* A number also matches one whose digits contain it: 0 in 10, in 20.
Agree(e, o) == e = o \/ (e \in Nat /\ o \in Nat /\ e = 0 /\ o % 10 = 0)

Mismatches(e, o) ==
  {key \in DOMAIN e : \/ key \notin DOMAIN o
                      \/ IF key = "remaining_steps" THEN ~Agree(e[key], o[key])
                         ELSE e[key] # o[key]}

With(f, key, value) == [k \in DOMAIN f \cup {key} |-> IF k = key THEN value ELSE f[k]]

Return(e, o) ==
  /\ pc' = "done" /\ expected' = e /\ observed' = o /\ verified' = (Mismatches(e, o) = {})

\* observed["task_completed"] = False.
Premature(e, o) == Return(e, With(o, "task_completed", FALSE))

-----------------------------------------------------------------------------
\* Extraction and a plan of several steps; with requires_search only in the second place.
Multistep(search) == task.extract \/ task.plan \/ (search /\ task.search)

HasError == page.at \in {"error", "hung"} \/ (page.at = "blocked" /\ Multistep(FALSE))

\* Without "search" and "q=" in the URL: /?gws_rd=ssl does not end in google.com.
AtHomepage == page.at = "home"

ReadState ==
  /\ pc = "state" /\ at' = page.at
  /\ LET e == With(expected, "has_error_state", FALSE)
         o == With(observed, "has_error_state", HasError)
     IN  IF HasError THEN Premature(e, o)
         ELSE IF Multistep(TRUE) /\ AtHomepage
         THEN Premature(With(e, "premature_completion_prevented", FALSE),
                        With(o, "premature_completion_prevented", TRUE))
         ELSE /\ pc' = IF task.text THEN "fields" ELSE "rest"
              /\ expected' = e /\ observed' = o /\ UNCHANGED verified
  /\ UNCHANGED <<task, page, fields>>

\* Reading them may raise: then nothing was found.
ReadFields ==
  /\ pc = "fields" /\ UNCHANGED <<task, page, at>> /\ fields' = page.text
  /\ \E found \in {page.text, FALSE} :
       LET e == With(expected, "text_verified", TRUE)
           o == With(observed, "text_verified", found)
       IN  IF found THEN pc' = "rest" /\ expected' = e /\ observed' = o /\ UNCHANGED verified
           ELSE Premature(e, o)

\* An answer of more than 40 characters that is not the first words of a plan.
Substantive == task.answer = "long"

\* Mutant: any answer stands in for the data.
AnyAnswer == task.data \/ task.answer # "none"

HasData == task.data \/ Substantive

Unfinished == task.left > 0 /\ ~(task.data \/ task.answer # "none")

Rest ==
  /\ pc = "rest" /\ UNCHANGED <<task, page, at, fields>>
  /\ LET e == IF task.extract THEN With(expected, "information_extracted", TRUE) ELSE expected
         o == IF task.extract THEN With(observed, "information_extracted", HasData) ELSE observed
     IN  IF task.extract /\ ~HasData THEN Premature(e, o)
         ELSE IF Unfinished
         THEN Premature(With(e, "remaining_steps", 0), With(o, "remaining_steps", task.left))
         ELSE Return(e, With(o, "task_completed", TRUE))

\* The page goes on: it loads, a field is emptied, it is blocked.
PageLives ==
  /\ pc # "done" /\ page' \in Pages
  /\ UNCHANGED <<task, pc, expected, observed, verified, at, fields>>

Verify == ReadState \/ ReadFields \/ Rest

Next == Verify \/ PageLives

Spec == Init /\ [][Next]_vars

-----------------------------------------------------------------------------
\* Every variable has its type; what was observed is a subset of what is known.
TypeOK ==
  /\ task \in Tasks /\ page \in Pages /\ pc \in {"state", "fields", "rest", "done"}
  /\ DOMAIN expected \subseteq Keys /\ DOMAIN observed \subseteq Keys
  /\ {verified, fields} \subseteq BOOLEAN /\ (verified => pc = "done")

\* A task counts as done only with evidence: the text was in a field when the fields were
\* read, there are data or a substantive answer when information was asked for, and the
\* plan has no open step or the run has an answer.  No early return passes the
\* comparison, although that is lenient with numbers (verify_task_completion).
VerifiedHasEvidence ==
  verified => /\ task.text => fields
              /\ task.extract => (task.data \/ task.answer = "long")
              /\ task.left > 0 => (task.data \/ task.answer # "none")

\* manager.py:185 "Verify that the user's requested objective has actually been achieved.":
\* a page that blocks the search does not count as its result.
BlockedIsNotDone == verified /\ task.search => at # "blocked"

\* manager.py:187 "Reaching a search engine homepage (e.g. google.com) is only action-level
\* navigation success, NEVER task completion if further steps ... were requested."
HomepageIsNotDone == verified /\ Multistep(TRUE) => at \notin {"home", "homeParam"}
=============================================================================
