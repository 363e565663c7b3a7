------------------------------ MODULE AgentGraph ------------------------------
(***************************************************************************)
(* The state machine that executes one task: the nodes and routers of      *)
(* backend/agent/graph.py with the nodes of nodes.py and desktop_nodes.py  *)
(* and RecoveryEngine.handle_failure (backend/recovery/engine.py).         *)
(*                                                                         *)
(* A node reads the state s, returns a dictionary that is merged into it,  *)
(* and the router names the next node.  What models, pages, the desktop    *)
(* and verification answer is a choice.  A text is kept as far as the code *)
(* tells texts apart: error is the class that verify and classify_failure  *)
(* see in it.                                                              *)
(***************************************************************************)
EXTENDS Integers

CONSTANTS
  Environment,      \* classify_environment(input_text)
  HasSite,          \* parsed_intent.site is a site, neither missing nor "unknown"
  Risky,            \* requires_approval(parsed_intent)
  Steps,            \* steps of the plan
  StepEnv,          \* classify_environment of the description of each step
  NavigateFirst,    \* step 1 of the plan is the navigation
  EnableRecovery,   \* config.enable_recovery
  VerifyRetries,    \* the literal 3 of verify and desktop_verify
  RecoveryRetries,  \* RecoveryEngine.max_total_retries
  LlmLimit,         \* the literal 15 of verify and desktop_verify
  RecursionLimit,   \* LangGraph's limit of nodes in a run, 0 if too large to matter
  LlmCap,           \* bound: llm_call_count is not counted beyond
  MaxRuns           \* bound: runs of the task

ASSUME GraphAssumption ==
  /\ Environment \in {"browser", "desktop", "mixed"}
  /\ {HasSite, Risky, NavigateFirst, EnableRecovery} \subseteq BOOLEAN
  /\ Steps \in Nat \ {0}
  /\ StepEnv \in [1..Steps -> {"browser", "desktop"}]
  /\ {VerifyRetries, RecoveryRetries, LlmLimit, RecursionLimit} \subseteq Nat
  /\ VerifyRetries <= RecoveryRetries
  /\ LlmCap \in Nat /\ LlmCap > LlmLimit
  /\ MaxRuns \in Nat \ {0}

VARIABLES
  node,     \* the node that runs next, "end", or "raised" after an exception
  s,        \* AgentState
  page,     \* the page the run finds: "blank" or "site"
  row,      \* tasks.status as a run leaves it
  taken,    \* nodes of this run, counted if there is a recursion limit
  runs,     \* runs of the task so far
  checked,  \* history: risk_check has let this run pass
  proof     \* history: the end state that this run claims was seen by a check

vars == <<node, s, page, row, taken, runs, checked, proof>>

Errors == {"none", "other", "verification", "vision", "captcha", "security"}
AgentState ==
  [status   : {"running", "failed", "blocked", "completed", "waiting_approval"},
   error    : Errors,
   retry    : 0..RecoveryRetries,  \* retry_count
   llm      : 0..LlmCap,           \* llm_call_count
   step     : 1..Steps,            \* current_step_index
   nav      : BOOLEAN,             \* navigation_succeeded
   approved : BOOLEAN,
   intent   : BOOLEAN,             \* parsed_intent and task_plan are there
   env      : {"none", Environment},
   action   : {"none", "act", "complete", "need_help", "no_vision", "reobserve", "wait"},
   lastOk   : BOOLEAN]             \* the last action in action_history, or on the desktop, succeeded

Nodes ==
  {"parse_intent", "risk_check", "environment_resolver", "auth_check", "navigate",
   "extract_dom", "retrieve_context", "plan_action", "execute_action", "verify",
   "error_recovery", "complete", "desktop_observe", "desktop_plan_action",
   "desktop_execute", "desktop_verify", "desktop_complete"}

\* The state TaskRunner._run starts a run with: what a checkpoint holds, and
\* fresh values for the rest.
InitialState(ckpt, approved) ==
  [ckpt EXCEPT !.status = "running", !.error = "none", !.nav = FALSE, !.approved = approved,
               !.env = "none", !.action = "none", !.lastOk = FALSE]

Init ==
  /\ node = "parse_intent"
  /\ s = [status |-> "running", error |-> "none", retry |-> 0, llm |-> 0, step |-> 1,
          nav |-> FALSE, approved |-> FALSE, intent |-> FALSE, env |-> "none",
          action |-> "none", lastOk |-> FALSE]
  /\ page \in {"blank", "site"} /\ row = "running" /\ taken = 0 /\ runs = 1
  /\ checked = FALSE /\ proof = FALSE

\* Mutant: nothing limits the nodes of a run.
RunUnlimited(n) ==
  /\ node = n
  /\ UNCHANGED <<page, taken, runs>>

\* The node n runs: LangGraph counts it.
Run(n) ==
  /\ node = n
  /\ RecursionLimit # 0 => taken < RecursionLimit
  /\ taken' = IF RecursionLimit = 0 THEN 0 ELSE taken + 1
  /\ UNCHANGED <<page, runs>>
Goto(n) == node' = n

Bump(llm, k) == IF llm + k > LlmCap THEN LlmCap ELSE llm + k
NotClaimed == UNCHANGED <<row, checked, proof>>

-----------------------------------------------------------------------------
(* The nodes that every task passes. *)

\* A resumed task has its intent and plan; an intent that cannot be parsed
\* goes to error_recovery, with no environment resolved yet.
ParseIntent ==
  /\ Run("parse_intent") /\ NotClaimed
  /\ \/ /\ s.intent
        /\ Goto("risk_check") /\ UNCHANGED s
     \/ /\ ~s.intent
        /\ \E calls \in {1, 2} :
             s' = [s EXCEPT !.intent = TRUE, !.step = 1, !.llm = Bump(@, calls)]
        /\ Goto("risk_check")
     \/ /\ ~s.intent
        /\ s' = [s EXCEPT !.status = "failed", !.error = "other"]
        /\ Goto("error_recovery")

RiskCheck ==
  /\ Run("risk_check")
  /\ IF Risky /\ ~s.approved
     THEN /\ s' = [s EXCEPT !.status = "waiting_approval"]
          /\ Goto("complete") /\ NotClaimed
     ELSE /\ s' = [s EXCEPT !.status = "running"]
          /\ checked' = TRUE
          /\ Goto("environment_resolver") /\ UNCHANGED <<row, proof>>

\* The only place where the environment decides where the task goes on.
EnvironmentResolver ==
  /\ Run("environment_resolver") /\ NotClaimed
  /\ s' = [s EXCEPT !.env = Environment]
  /\ Goto(IF \/ Environment = "desktop"
             \/ Environment = "mixed" /\ StepEnv[s.step] = "desktop"
          THEN "desktop_observe" ELSE "auth_check")

-----------------------------------------------------------------------------
(* The browser. *)

\* auth_check and retrieve_context change nothing that is modelled.
PassOn ==
  /\ \/ Run("auth_check") /\ Goto("navigate")
     \/ Run("retrieve_context") /\ Goto("plan_action")
  /\ UNCHANGED s /\ NotClaimed

\* A page that is already there is taken for the result of the navigation.
NavigateSkipped ==
  /\ Run("navigate") /\ page = "site" /\ NotClaimed
  /\ s' = [s EXCEPT !.nav = TRUE]
  /\ Goto("extract_dom")

\* Reaching the site completes step 1 if that is the navigation, whatever the
\* current step is.
Navigate ==
  /\ Run("navigate") /\ NotClaimed
  /\ HasSite /\ page = "site" => s.step = 1
  /\ \/ /\ HasSite
        /\ s' = [s EXCEPT !.nav = TRUE, !.step = IF NavigateFirst /\ Steps > 1 THEN 2 ELSE @]
        /\ Goto("extract_dom")
     \/ /\ \E e \in {s.error, "other", "captcha"} :
             /\ e = s.error => ~HasSite
             /\ s' = [s EXCEPT !.nav = FALSE, !.error = e]
        /\ Goto("error_recovery")

\* The page shows a CAPTCHA.
Block == s' = [s EXCEPT !.status = "blocked", !.error = "captcha"]

ExtractDom ==
  /\ Run("extract_dom") /\ NotClaimed
  /\ \/ Block /\ Goto("complete")
     \/ UNCHANGED s /\ Goto("retrieve_context")

\* Mutant: an action is planned without an intent.
PlanActionBlind ==
  /\ Run("plan_action") /\ NotClaimed
  /\ \/ \E a \in {"act", "complete", "need_help"} :
          s' = [s EXCEPT !.action = a, !.llm = Bump(@, 1)]
     \/ s' = [s EXCEPT !.action = "no_vision", !.status = "failed", !.error = "vision"]
     \/ s' = [s EXCEPT !.action = "need_help", !.status = "blocked", !.error = "captcha"]
  /\ Goto("execute_action")

\* Without an intent there is nothing to plan; a model call is counted only
\* when the node gets as far as an action.
PlanAction ==
  /\ Run("plan_action") /\ NotClaimed
  /\ \/ /\ ~s.intent
        /\ s' = [s EXCEPT !.action = "need_help"]
     \/ /\ s.intent
        /\ \E a \in {"act", "complete", "need_help"} :
             s' = [s EXCEPT !.action = a, !.llm = Bump(@, 1)]
     \/ /\ s.intent
        /\ s' = [s EXCEPT !.action = "no_vision", !.status = "failed", !.error = "vision"]
     \/ /\ s.intent
        /\ s' = [s EXCEPT !.action = "need_help", !.status = "blocked", !.error = "captcha"]
  /\ Goto("execute_action")

\* An action that raises leaves no result in the history; "complete" leaves
\* the error of an earlier action where it is.
ExecuteAction ==
  /\ Run("execute_action") /\ NotClaimed
  /\ \/ /\ s.action = "act"
        /\ \/ s' = [s EXCEPT !.error = "none", !.lastOk = TRUE]
           \/ \E e \in {"other", "verification", "captcha"}, ok \in {FALSE, s.lastOk} :
                s' = [s EXCEPT !.error = e, !.lastOk = ok]
     \/ s.action = "complete" /\ UNCHANGED s
     \/ s.action = "no_vision" /\ s' = [s EXCEPT !.error = "vision"]
     \/ /\ s.action = "need_help"
        /\ \E e \in {"other", "verification", "captcha"} : s' = [s EXCEPT !.error = e]
  /\ Goto("verify")

\* The answers of verify: try again from extract_dom, fail, or finish.
Again(upd) == s' = [upd EXCEPT !.status = "running"]
Fail(upd)  == s' = [upd EXCEPT !.status = "failed"]

VerifyError ==
  /\ s.error # "none"
  /\ IF s.error \notin {"vision", "verification"} /\ s.retry < VerifyRetries
     THEN Again([s EXCEPT !.retry = @ + 1]) /\ Goto("extract_dom")
     ELSE Fail(s) /\ Goto("error_recovery")
  /\ NotClaimed

\* The last action succeeded and the plan has more steps.
NextStep == s.lastOk /\ s.step < Steps /\ s.action # "complete"

VerifyStep ==
  /\ s.error = "none" /\ NextStep
  /\ Again([s EXCEPT !.step = @ + 1]) /\ Goto("extract_dom") /\ NotClaimed

\* verify_task_completion agrees.
VerifyCompletion ==
  /\ s.error = "none" /\ ~NextStep /\ (s.action = "complete" \/ s.step >= Steps)
  /\ s' = [s EXCEPT !.status = IF Risky /\ ~s.approved THEN "waiting_approval" ELSE "completed"]
  /\ proof' = TRUE
  /\ Goto("complete") /\ UNCHANGED <<row, checked>>

\* Mutant: a rejected completion starts another round without a limit.
VerifyGoesOnForever ==
  /\ s.error = "none" /\ ~NextStep
  /\ Again(s) /\ Goto("extract_dom") /\ NotClaimed

\* It does not, or it is not asked yet: go on within the limit of model calls.
VerifyGoesOn ==
  /\ s.error = "none" /\ ~NextStep
  /\ IF s.llm >= LlmLimit
     THEN Fail([s EXCEPT !.error = "other"]) /\ Goto("error_recovery")
     ELSE Again(s) /\ Goto("extract_dom")
  /\ NotClaimed

\* Mutant: a task that is blocked is judged like any other.
VerifyAny ==
  /\ Run("verify")
  /\ \/ Block /\ Goto("complete") /\ NotClaimed
     \/ VerifyError \/ VerifyStep \/ VerifyCompletion \/ VerifyGoesOn

\* verify: a blocked task stays blocked, a CAPTCHA blocks it, and only then
\* the action is looked at.
Verify ==
  /\ Run("verify")
  /\ \/ s.status = "blocked" /\ UNCHANGED s /\ Goto("complete") /\ NotClaimed
     \/ s.status # "blocked" /\ Block /\ Goto("complete") /\ NotClaimed
     \/ s.status # "blocked" /\ (VerifyError \/ VerifyStep \/ VerifyCompletion \/ VerifyGoesOn)

-----------------------------------------------------------------------------
(* Recovery and completion. *)

\* Mutant: a recovery is not counted as a retry.
ErrorRecoveryUncounted ==
  LET desktop == s.env = "desktop" IN
  /\ Run("error_recovery") /\ NotClaimed
  /\ IF EnableRecovery /\ s.retry < RecoveryRetries /\ s.error \notin {"captcha", "security"}
     THEN /\ s' = [s EXCEPT !.status = "running", !.error = "none"]
          /\ Goto(IF desktop THEN "desktop_observe" ELSE "extract_dom")
     ELSE /\ IF EnableRecovery /\ s.retry < RecoveryRetries
             THEN Block
             ELSE Fail([s EXCEPT !.error = IF EnableRecovery THEN "other" ELSE @])
          /\ Goto(IF desktop THEN "desktop_complete" ELSE "complete")

\* RecoveryEngine.handle_failure and recovery_router: a mixed task goes back
\* to the browser, and so does a desktop task whose intent was not parsed.
ErrorRecovery ==
  LET desktop == s.env = "desktop" IN
  /\ Run("error_recovery") /\ NotClaimed
  /\ IF EnableRecovery /\ s.retry < RecoveryRetries /\ s.error \notin {"captcha", "security"}
     THEN /\ s' = [s EXCEPT !.retry = @ + 1, !.status = "running", !.error = "none"]
          /\ Goto(IF desktop THEN "desktop_observe" ELSE "extract_dom")
     ELSE /\ IF EnableRecovery /\ s.retry < RecoveryRetries
             THEN Block
             ELSE Fail([s EXCEPT !.error = IF EnableRecovery THEN "other" ELSE @])
          /\ Goto(IF desktop THEN "desktop_complete" ELSE "complete")

\* The row gets the final status.
Finish(final) ==
  /\ s' = [s EXCEPT !.status = final] /\ row' = final
  /\ Goto("end") /\ UNCHANGED <<checked, proof>>

Final == IF s.status = "running" THEN "completed" ELSE s.status

\* Mutant: the navigation is not asked for.
CompleteUngated == Run("complete") /\ Finish(Final)

\* A task for a site is not completed without a navigation that succeeded.
Complete ==
  /\ Run("complete")
  /\ Finish(IF Final = "completed" /\ s.intent /\ HasSite /\ ~s.nav THEN "failed" ELSE Final)

DesktopComplete == Run("desktop_complete") /\ Finish(Final)

-----------------------------------------------------------------------------
(* The desktop. *)

DesktopObserve ==
  /\ Run("desktop_observe") /\ NotClaimed
  /\ \/ UNCHANGED s
     \/ s' = [s EXCEPT !.status = "blocked", !.error = "security"]
  /\ Goto("desktop_plan_action")

\* A plan that says "complete", or that fails, asks for another observation.
DesktopPlanAction ==
  /\ Run("desktop_plan_action") /\ NotClaimed
  /\ \/ s.status = "blocked" /\ s' = [s EXCEPT !.action = "wait"]
     \/ /\ s.status # "blocked"
        /\ \E a \in {"act", "reobserve", "wait"} :
             s' = [s EXCEPT !.action = a, !.llm = Bump(@, 1)]
  /\ Goto("desktop_execute")

\* An action can fail without an error (close_window).
DesktopExecute ==
  /\ Run("desktop_execute") /\ NotClaimed
  /\ \/ s' = [s EXCEPT !.error = "none", !.lastOk = TRUE]
     \/ /\ s.action = "act"
        /\ \E e \in {"none", "other", "security"} : s' = [s EXCEPT !.error = e, !.lastOk = FALSE]
  /\ Goto("desktop_verify")

(* desktop_verify. *)

DesktopReobserves ==
  /\ s.action = "reobserve"
  /\ Again([s EXCEPT !.error = "none"]) /\ Goto("desktop_observe") /\ NotClaimed

DesktopError ==
  /\ s.action # "reobserve" /\ s.error # "none" /\ ~s.lastOk
  /\ IF s.retry >= VerifyRetries
     THEN Fail(s) /\ Goto("error_recovery")
     ELSE Again([s EXCEPT !.retry = @ + 1]) /\ Goto("desktop_observe")
  /\ NotClaimed

DesktopNextStep ==
  /\ s.action # "reobserve" /\ s.lastOk /\ s.step < Steps
  /\ Again([s EXCEPT !.step = @ + 1, !.error = "none"])
  /\ Goto("desktop_observe") /\ NotClaimed

\* Nothing ever sets goal_conditions, so the branch that evaluates them is
\* never taken: a last step that succeeded is followed by an observation, and
\* after VerifyRetries the task completes although nothing was seen.
DesktopCompletion ==
  /\ s.action # "reobserve" /\ s.lastOk /\ s.step >= Steps
  /\ \E seen \in BOOLEAN :
       IF ~seen /\ s.retry < VerifyRetries
       THEN /\ Again([s EXCEPT !.retry = @ + 1, !.error = "none"])
            /\ Goto("desktop_observe") /\ NotClaimed
       ELSE /\ s' = [s EXCEPT !.status = "completed"] /\ proof' = seen
            /\ Goto("desktop_complete") /\ UNCHANGED <<row, checked>>

DesktopGoesOn ==
  /\ s.action # "reobserve" /\ s.error = "none" /\ ~s.lastOk
  /\ IF s.llm >= LlmLimit
     THEN Fail([s EXCEPT !.error = "other"]) /\ Goto("error_recovery")
     ELSE Again(s) /\ Goto("desktop_observe")
  /\ NotClaimed

DesktopStep ==
  DesktopReobserves \/ DesktopError \/ DesktopNextStep \/ DesktopCompletion \/ DesktopGoesOn

DesktopVerify ==
  /\ Run("desktop_verify")
  /\ \/ s.status = "blocked" /\ UNCHANGED s /\ Goto("desktop_complete") /\ NotClaimed
     \/ s.status # "blocked" /\ DesktopStep

-----------------------------------------------------------------------------
(* Around the graph. *)

\* _run marks the task failed when a node raises, ...
Raised ==
  /\ Goto("raised") /\ row' = "failed"
  /\ UNCHANGED <<s, page, taken, runs, checked, proof>>
NodeRaises == node \in Nodes /\ Raised
\* ... or when LangGraph gives up.
RecursionError == node \in Nodes /\ RecursionLimit # 0 /\ taken = RecursionLimit /\ Raised

\* approve, resume_blocked or switch_fallback: a new run from the checkpoint.
\* The page of the last run may have been closed in the meantime.
NewRun ==
  /\ node = "end" /\ row \in {"blocked", "waiting_approval"} /\ runs < MaxRuns
  /\ Goto("parse_intent") /\ runs' = runs + 1 /\ taken' = 0
  /\ s' = InitialState(s, TRUE)
  /\ page' \in {"blank", "site"}
  /\ row' = "running" /\ checked' = FALSE /\ proof' = FALSE

Step ==
  \/ ParseIntent \/ RiskCheck \/ EnvironmentResolver
  \/ PassOn \/ NavigateSkipped \/ Navigate \/ ExtractDom \/ PlanAction \/ ExecuteAction \/ Verify
  \/ ErrorRecovery \/ Complete \/ DesktopComplete
  \/ DesktopObserve \/ DesktopPlanAction \/ DesktopExecute \/ DesktopVerify
  \/ NodeRaises \/ RecursionError

Next == Step \/ NewRun

Spec == Init /\ [][Next]_vars

\* The event loop runs the next node whenever one is left.
FairSpec == Spec /\ WF_vars(Step)

-----------------------------------------------------------------------------
(* Properties. *)

\* The nodes keep to the state they share, retry_count to its bound, and the
\* current step to the plan that verify indexes with it.
TypeOK ==
  /\ node \in Nodes \cup {"end", "raised"}
  /\ s \in AgentState
  /\ page \in {"blank", "site"}
  /\ row \in {"running", "failed", "blocked", "completed", "waiting_approval"}
  /\ taken \in 0..RecursionLimit
  /\ runs \in 1..MaxRuns
  /\ checked \in BOOLEAN /\ proof \in BOOLEAN

\* "No completion without verification": a run that ends with a completed task
\* had its end state checked, and reached the site if the task is for one,
\* on whatever way through retries and recovery it came to its end.
CompletionVerified ==
  node = "end" /\ row = "completed" => proof /\ (s.intent /\ HasSite => s.nav)

\* Nothing is done that risk_check has not let pass in this run: the way from
\* a failed parse through error_recovery goes round that node, but only to
\* actions that ask for help.
NothingUnchecked ==
  /\ node = "execute_action" /\ s.action = "act" => checked /\ (Risky => s.approved)
  /\ node = "desktop_execute" => checked /\ (Risky => s.approved)

\* A task that is blocked goes to its end as blocked: no retry, recovery or
\* verdict of the nodes on the way takes it for running, failed or completed.
BlockedStays ==
  [][s.status = "blocked" /\ node \in Nodes =>
       s'.status = "blocked" /\ (node' = "end" => row' = "blocked")]_vars

\* What the limit of verify, the retries and the steps of the plan bound
\* together: the model calls of a task in the browser.
LlmBudget == s.llm <= LlmLimit + RecoveryRetries + Steps * runs

\* Every run comes to an end.
Terminates == node \in Nodes ~> node \notin Nodes
=============================================================================
