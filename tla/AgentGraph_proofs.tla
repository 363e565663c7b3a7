-------------------------- MODULE AgentGraph_proofs --------------------------
(***************************************************************************)
(* Proofs about the graph of nodes, for every environment, plan, limit and *)
(* number of runs that GraphAssumption admits.                             *)
(***************************************************************************)
EXTENDS AgentGraph, TLAPS

\* What the proofs use of GraphAssumption.
LEMMA Limits ==
  /\ Steps \in Nat /\ Steps >= 1
  /\ VerifyRetries \in Nat /\ RecoveryRetries \in Nat /\ VerifyRetries <= RecoveryRetries
  /\ LlmLimit \in Nat /\ LlmCap \in Nat /\ LlmCap > LlmLimit
  /\ RecursionLimit \in Nat
  /\ MaxRuns \in Nat /\ MaxRuns >= 1
BY GraphAssumption

\* Bumping the count of model calls keeps it in its range.
LEMMA BumpType ==
  ASSUME NEW llm \in 0..LlmCap, NEW k \in 0..2
  PROVE  Bump(llm, k) \in 0..LlmCap /\ Bump(llm, k) <= llm + k
BY Limits DEF Bump

\* TypeOK is inductive: a node writes into the state what its readers expect,
\* whatever models and pages answer.
LEMMA TypeInit == Init => TypeOK
<1> SUFFICES ASSUME Init PROVE TypeOK
  OBVIOUS
<1>1. s \in AgentState
  <2>1. 0 \in 0..RecoveryRetries /\ 0 \in 0..LlmCap /\ 1 \in 1..Steps
    BY Limits
  <2> QED BY <2>1 DEF Init, AgentState, Errors
<1>2. node \in Nodes
  BY DEF Init, Nodes
<1>3. taken \in 0..RecursionLimit /\ runs \in 1..MaxRuns
  BY Limits DEF Init
<1>4. /\ page \in {"blank", "site"} /\ row = "running"
      /\ checked = FALSE /\ proof = FALSE
  BY DEF Init
<1> QED BY <1>1, <1>2, <1>3, <1>4 DEF TypeOK

LEMMA TypeStep == TypeOK /\ [Next]_vars => TypeOK'
<1> SUFFICES ASSUME TypeOK, [Next]_vars PROVE TypeOK'
  OBVIOUS
<1> USE DEF TypeOK, Nodes, Goto
<1> DEFINE OK == /\ node \in Nodes /\ s \in AgentState /\ taken' \in 0..RecursionLimit
                 /\ page' = page /\ runs' = runs
<1>0. ASSUME NEW n \in Nodes, Run(n) PROVE OK
  BY <1>0, Limits DEF Run
<1>retry. s.retry < VerifyRetries \/ s.retry < RecoveryRetries => s.retry + 1 \in 0..RecoveryRetries
  BY Limits DEF AgentState
<1>step. /\ 1 \in 1..Steps /\ (Steps > 1 => 2 \in 1..Steps)
         /\ s.step < Steps => s.step + 1 \in 1..Steps
  BY Limits DEF AgentState
<1>bump. \A k \in {1, 2} : Bump(s.llm, k) \in 0..LlmCap
  <2> SUFFICES ASSUME NEW k \in {1, 2} PROVE Bump(s.llm, k) \in 0..LlmCap
    OBVIOUS
  <2> s.llm \in 0..LlmCap
    BY DEF AgentState
  <2> QED BY BumpType
<1>1. CASE ParseIntent
  <2>1. OK BY <1>0, <1>1 DEF ParseIntent
  <2>2. s' \in AgentState
    BY <1>1, <1>bump, <1>step, ZenonT(30) DEF ParseIntent, AgentState, Errors
  <2> QED BY <1>1, <2>1, <2>2 DEF ParseIntent, NotClaimed
<1>2. CASE RiskCheck
  <2>1. OK BY <1>0, <1>2 DEF RiskCheck
  <2>2. s' \in AgentState
    BY <1>2 DEF RiskCheck, AgentState
  <2> QED BY <1>2, <2>1, <2>2 DEF RiskCheck, NotClaimed
<1>3. CASE EnvironmentResolver
  <2>1. OK BY <1>0, <1>3 DEF EnvironmentResolver
  <2>2. s' \in AgentState
    BY <1>3 DEF EnvironmentResolver, AgentState
  <2> QED BY <1>3, <2>1, <2>2 DEF EnvironmentResolver, NotClaimed
<1>4. CASE PassOn
  <2>1. OK BY <1>0, <1>4 DEF PassOn
  <2> QED BY <1>4, <2>1 DEF PassOn, NotClaimed
<1>5. CASE NavigateSkipped
  <2>1. OK BY <1>0, <1>5 DEF NavigateSkipped
  <2>2. s' \in AgentState
    BY <1>5 DEF NavigateSkipped, AgentState
  <2> QED BY <1>5, <2>1, <2>2 DEF NavigateSkipped, NotClaimed
<1>6. CASE Navigate
  <2>1. OK BY <1>0, <1>6 DEF Navigate
  <2>2. s' \in AgentState
    BY <1>6, <1>step, ZenonT(30) DEF Navigate, AgentState, Errors
  <2> QED BY <1>6, <2>1, <2>2 DEF Navigate, NotClaimed
<1>7. CASE ExtractDom
  <2>1. OK BY <1>0, <1>7 DEF ExtractDom
  <2>2. s' \in AgentState
    BY <1>7, <2>1 DEF ExtractDom, Block, AgentState, Errors
  <2> QED BY <1>7, <2>1, <2>2 DEF ExtractDom, NotClaimed
<1>8. CASE PlanAction
  <2>1. OK BY <1>0, <1>8 DEF PlanAction
  <2>2. s' \in AgentState
    <3>1. CASE s' = [s EXCEPT !.action = "need_help"]
      BY <3>1, <2>1 DEF AgentState
    <3>2. ASSUME NEW a \in {"act", "complete", "need_help"},
                 s' = [s EXCEPT !.action = a, !.llm = Bump(@, 1)]
          PROVE  s' \in AgentState
      BY <3>2, <2>1, <1>bump DEF AgentState
    <3>3. CASE s' = [s EXCEPT !.action = "no_vision", !.status = "failed", !.error = "vision"]
      BY <3>3, <2>1 DEF AgentState, Errors
    <3>4. CASE s' = [s EXCEPT !.action = "need_help", !.status = "blocked", !.error = "captcha"]
      BY <3>4, <2>1 DEF AgentState, Errors
    <3> QED BY <1>8, <3>1, <3>2, <3>3, <3>4 DEF PlanAction
  <2> QED BY <1>8, <2>1, <2>2 DEF PlanAction, NotClaimed
<1>9. CASE ExecuteAction
  <2>1. OK BY <1>0, <1>9 DEF ExecuteAction
  <2>2. s' \in AgentState
    BY <1>9, <2>1, ZenonT(30) DEF ExecuteAction, AgentState, Errors
  <2> QED BY <1>9, <2>1, <2>2 DEF ExecuteAction, NotClaimed
<1>10. CASE Verify
  <2>1. OK BY <1>0, <1>10 DEF Verify
  <2>2. CASE s.status = "blocked" /\ UNCHANGED s /\ Goto("complete") /\ NotClaimed
    BY <2>1, <2>2 DEF NotClaimed
  <2>3. CASE Block /\ Goto("complete") /\ NotClaimed
    BY <2>1, <2>3, ZenonT(30) DEF Block, NotClaimed, AgentState, Errors
  <2>4. CASE VerifyError
    <3>1. s' \in AgentState
      BY <2>1, <2>4, <1>retry, ZenonT(30) DEF VerifyError, Again, Fail, AgentState
    <3> QED BY <2>1, <2>4, <3>1 DEF VerifyError, NotClaimed
  <2>5. CASE VerifyStep
    <3>1. s' \in AgentState
      BY <2>1, <2>5, <1>step DEF VerifyStep, NextStep, Again, AgentState
    <3> QED BY <2>1, <2>5, <3>1 DEF VerifyStep, NotClaimed
  <2>6. CASE VerifyCompletion
    BY <2>1, <2>6 DEF VerifyCompletion, AgentState
  <2>7. CASE VerifyGoesOn
    <3>1. s' \in AgentState
      BY <2>1, <2>7, ZenonT(30) DEF VerifyGoesOn, Again, Fail, AgentState, Errors
    <3> QED BY <2>1, <2>7, <3>1 DEF VerifyGoesOn, NotClaimed
  <2> QED BY <1>10, <2>2, <2>3, <2>4, <2>5, <2>6, <2>7 DEF Verify
<1>11. CASE ErrorRecovery
  <2>1. OK BY <1>0, <1>11 DEF ErrorRecovery
  <2>2. s' \in AgentState
    <3>1. CASE /\ s.retry < RecoveryRetries
               /\ s' = [s EXCEPT !.retry = @ + 1, !.status = "running", !.error = "none"]
      BY <3>1, <2>1, <1>retry DEF AgentState, Errors
    <3>2. CASE Block
      BY <3>2, <2>1 DEF Block, AgentState, Errors
    <3>3. CASE \E e \in {"other", s.error} : s' = [s EXCEPT !.error = e, !.status = "failed"]
      BY <3>3, <2>1 DEF AgentState, Errors
    <3> QED BY <1>11, <3>1, <3>2, <3>3 DEF ErrorRecovery, Fail
  <2> QED BY <1>11, <2>1, <2>2 DEF ErrorRecovery, NotClaimed
<1>12. CASE Complete \/ DesktopComplete
  <2>1. OK BY <1>0, <1>12 DEF Complete, DesktopComplete
  <2>2. PICK final \in {"failed", "blocked", "completed", "waiting_approval"} : Finish(final)
    BY <1>12, <2>1 DEF Complete, DesktopComplete, Final, AgentState
  <2>3. s' \in AgentState
    BY <2>1, <2>2 DEF Finish, AgentState
  <2> QED BY <2>1, <2>2, <2>3 DEF Finish
<1>13. CASE DesktopObserve
  <2>1. OK BY <1>0, <1>13 DEF DesktopObserve
  <2>2. s' \in AgentState
    BY <1>13, <2>1 DEF DesktopObserve, AgentState, Errors
  <2> QED BY <1>13, <2>1, <2>2 DEF DesktopObserve, NotClaimed
<1>14. CASE DesktopPlanAction
  <2>1. OK BY <1>0, <1>14 DEF DesktopPlanAction
  <2>2. s' \in AgentState
    BY <1>14, <1>bump DEF DesktopPlanAction, AgentState
  <2> QED BY <1>14, <2>1, <2>2 DEF DesktopPlanAction, NotClaimed
<1>15. CASE DesktopExecute
  <2>1. OK BY <1>0, <1>15 DEF DesktopExecute
  <2>2. s' \in AgentState
    BY <1>15, <2>1, ZenonT(30) DEF DesktopExecute, AgentState, Errors
  <2> QED BY <1>15, <2>1, <2>2 DEF DesktopExecute, NotClaimed
<1>16. CASE DesktopVerify
  <2>1. OK BY <1>0, <1>16 DEF DesktopVerify
  <2>2. CASE s.status = "blocked" /\ UNCHANGED s /\ Goto("desktop_complete") /\ NotClaimed
    BY <2>1, <2>2 DEF NotClaimed
  <2>3. CASE DesktopReobserves
    <3>1. s' \in AgentState
      BY <2>1, <2>3 DEF DesktopReobserves, Again, AgentState, Errors
    <3> QED BY <2>1, <2>3, <3>1 DEF DesktopReobserves, NotClaimed
  <2>4. CASE DesktopError
    <3>1. s' \in AgentState
      <4>1. CASE Fail(s)
        BY <4>1, <2>1 DEF Fail, AgentState
      <4>2. CASE s.retry < VerifyRetries /\ Again([s EXCEPT !.retry = @ + 1])
        BY <4>2, <2>1, <1>retry DEF Again, AgentState
      <4>3. s.retry \in Int /\ VerifyRetries \in Int
        BY <2>1, Limits DEF AgentState
      <4> QED BY <2>4, <4>1, <4>2, <4>3 DEF DesktopError
    <3> QED BY <2>1, <2>4, <3>1 DEF DesktopError, NotClaimed
  <2>5. CASE DesktopNextStep
    <3>1. s' \in AgentState
      BY <2>1, <2>5, <1>step DEF DesktopNextStep, Again, AgentState, Errors
    <3> QED BY <2>1, <2>5, <3>1 DEF DesktopNextStep, NotClaimed
  <2>6. CASE DesktopCompletion
    <3>1. s' \in AgentState
      <4>1. CASE s.retry < VerifyRetries /\ Again([s EXCEPT !.retry = @ + 1, !.error = "none"])
        BY <4>1, <2>1, <1>retry DEF Again, AgentState, Errors
      <4>2. CASE s' = [s EXCEPT !.status = "completed"]
        BY <4>2, <2>1 DEF AgentState
      <4> QED BY <2>6, <4>1, <4>2 DEF DesktopCompletion
    <3> QED BY <2>1, <2>6, <3>1 DEF DesktopCompletion, NotClaimed
  <2>7. CASE DesktopGoesOn
    <3>1. s' \in AgentState
      BY <2>1, <2>7, ZenonT(30) DEF DesktopGoesOn, Again, Fail, AgentState, Errors
    <3> QED BY <2>1, <2>7, <3>1 DEF DesktopGoesOn, NotClaimed
  <2> QED BY <1>16, <2>2, <2>3, <2>4, <2>5, <2>6, <2>7 DEF DesktopVerify, DesktopStep
<1>17. CASE NodeRaises \/ RecursionError
  BY <1>17 DEF NodeRaises, RecursionError, Raised
<1>18. CASE NewRun
  <2>1. s' \in AgentState
    BY <1>18 DEF NewRun, InitialState, AgentState, Errors
  <2>2. taken' \in 0..RecursionLimit /\ runs' \in 1..MaxRuns
    BY <1>18, Limits DEF NewRun
  <2>3. /\ node' = "parse_intent" /\ page' \in {"blank", "site"} /\ row' = "running"
        /\ checked' = FALSE /\ proof' = FALSE
    BY <1>18 DEF NewRun
  <2> QED BY <2>1, <2>2, <2>3
<1>19. CASE UNCHANGED vars
  BY <1>19 DEF vars
<1> QED
  BY <1>1, <1>2, <1>3, <1>4, <1>5, <1>6, <1>7, <1>8, <1>9, <1>10, <1>11, <1>12, <1>13, <1>14,
     <1>15, <1>16, <1>17, <1>18, <1>19 DEF Next, Step

\* The shared state of the graph keeps its type: the current step stays within
\* the plan it indexes, and the retries within their bound.
THEOREM GraphTypeCorrect == Spec => []TypeOK
BY TypeInit, TypeStep, PTL DEF Spec
-----------------------------------------------------------------------------
(* Inductive invariants. *)

\* This run has passed risk_check.
Cleared == checked /\ (Risky => s.approved)

\* Nodes behind risk_check, and nodes that a failed parse leads to as well.
BehindCheck == {"environment_resolver", "auth_check", "navigate", "desktop_observe",
                "desktop_plan_action", "desktop_execute", "desktop_verify"}
Cycle == {"extract_dom", "retrieve_context", "plan_action", "execute_action", "verify",
          "error_recovery"}

\* A run that has not passed risk_check has no environment, and it has come to
\* the cycle of the browser without an intent: it plans no action.
GuardInv ==
  /\ s.env # "none" => Cleared
  /\ node \in BehindCheck => Cleared
  /\ node \in Cycle /\ s.intent => Cleared
  /\ node = "execute_action" /\ ~s.intent => s.action # "act"

\* The nodes that a blocked task passes on its way to the end.
BlockedPath == {"execute_action", "verify", "complete", "desktop_plan_action",
                "desktop_execute", "desktop_verify", "desktop_complete"}
BlockedInv == s.status = "blocked" /\ node \in Nodes => node \in BlockedPath

BrowserNodes == {"parse_intent", "risk_check", "environment_resolver", "complete"}
                  \cup {"auth_check", "navigate"} \cup Cycle

\* A browser task stays in the browser, ...
BrowserInv ==
  /\ s.env \in {"none", "browser"}
  /\ node \in BrowserNodes \cup {"end", "raised"}

\* ... comes to complete with a verdict, ...
VerdictInv ==
  /\ node = "complete" => s.status # "running" /\ (s.status = "completed" => proof)
  /\ node = "end" /\ row = "completed" => proof /\ (s.intent /\ HasSite => s.nav)

\* ... and pays for every model call with a retry, a step or the limit of
\* verify; each new run may give back the steps that it loses in navigate.
\* credit is what the limit and the earlier runs have paid.
Paid(credit) ==
  /\ ~s.intent => s.llm = 0
  /\ s.llm <= credit + s.retry + s.step
  /\ node \in {"parse_intent", "risk_check", "environment_resolver", "auth_check", "navigate"}
       => s.llm <= credit + s.retry
  /\ node \in {"extract_dom", "retrieve_context", "plan_action"}
       => s.llm < credit + s.retry + s.step
BudgetInv == Paid(LlmLimit + Steps * runs - Steps)
-----------------------------------------------------------------------------
(* Nothing is done unchecked. *)

\* What the verdicts of the two verify nodes leave alone, and where they go.
LEMMA VerifyFrame ==
  ASSUME TypeOK, Verify
  PROVE  /\ s'.env = s.env /\ s'.approved = s.approved /\ s'.intent = s.intent
         /\ checked' = checked /\ node = "verify"
         /\ node' \in {"complete", "extract_dom", "error_recovery"}
<1> USE DEF Goto, NotClaimed
<1>0. s \in AgentState /\ node = "verify"
  BY DEF TypeOK, Verify, Run
<1>1. CASE s.status = "blocked" /\ UNCHANGED s /\ Goto("complete") /\ NotClaimed
  BY <1>0, <1>1
<1>2. CASE Block /\ Goto("complete") /\ NotClaimed
  BY <1>0, <1>2 DEF Block, AgentState
<1>3. CASE VerifyError
  BY <1>0, <1>3 DEF VerifyError, Again, Fail, AgentState
<1>4. CASE VerifyStep
  BY <1>0, <1>4 DEF VerifyStep, Again, AgentState
<1>5. CASE VerifyCompletion
  BY <1>0, <1>5 DEF VerifyCompletion, AgentState
<1>6. CASE VerifyGoesOn
  BY <1>0, <1>6 DEF VerifyGoesOn, Again, Fail, AgentState
<1> QED BY <1>1, <1>2, <1>3, <1>4, <1>5, <1>6 DEF Verify

LEMMA DesktopVerifyFrame ==
  ASSUME TypeOK, DesktopVerify
  PROVE  /\ s'.env = s.env /\ s'.approved = s.approved /\ s'.intent = s.intent
         /\ checked' = checked /\ node = "desktop_verify"
         /\ node' \in {"desktop_complete", "desktop_observe", "error_recovery"}
<1> USE DEF Goto, NotClaimed
<1>0. s \in AgentState /\ node = "desktop_verify"
  BY DEF TypeOK, DesktopVerify, Run
<1>1. CASE s.status = "blocked" /\ UNCHANGED s /\ Goto("desktop_complete") /\ NotClaimed
  BY <1>0, <1>1
<1>2. CASE DesktopReobserves
  BY <1>0, <1>2 DEF DesktopReobserves, Again, AgentState
<1>3. CASE DesktopError
  BY <1>0, <1>3 DEF DesktopError, Again, Fail, AgentState
<1>4. CASE DesktopNextStep
  BY <1>0, <1>4 DEF DesktopNextStep, Again, AgentState
<1>5. CASE DesktopCompletion
  BY <1>0, <1>5 DEF DesktopCompletion, Again, AgentState
<1>6. CASE DesktopGoesOn
  BY <1>0, <1>6 DEF DesktopGoesOn, Again, Fail, AgentState
<1> QED BY <1>1, <1>2, <1>3, <1>4, <1>5, <1>6 DEF DesktopVerify, DesktopStep

LEMMA GuardStep == TypeOK /\ GuardInv /\ [Next]_vars => GuardInv'
<1> SUFFICES ASSUME TypeOK, GuardInv, [Next]_vars PROVE GuardInv'
  OBVIOUS
<1> USE DEF GuardInv, BehindCheck, Cycle, Goto, NotClaimed
<1>0. s \in AgentState
  BY DEF TypeOK
<1>1. CASE ParseIntent
  BY <1>0, <1>1 DEF ParseIntent, Run, Cleared, AgentState
<1>2. CASE RiskCheck
  BY <1>0, <1>2 DEF RiskCheck, Run, Cleared, AgentState
<1>3. CASE EnvironmentResolver
  BY <1>0, <1>3 DEF EnvironmentResolver, Run, Cleared, AgentState
<1>4. CASE PassOn
  BY <1>0, <1>4 DEF PassOn, Run, Cleared, AgentState
<1>5. CASE NavigateSkipped \/ Navigate
  BY <1>0, <1>5 DEF NavigateSkipped, Navigate, Run, Cleared, AgentState
<1>6. CASE ExtractDom
  BY <1>0, <1>6 DEF ExtractDom, Block, Run, Cleared, AgentState
<1>7. CASE PlanAction
  BY <1>0, <1>7 DEF PlanAction, Run, Cleared, AgentState
<1>8. CASE ExecuteAction
  BY <1>0, <1>8 DEF ExecuteAction, Run, Cleared, AgentState
<1>9. CASE Verify
  BY <1>0, <1>9, VerifyFrame DEF Cleared
<1>10. CASE ErrorRecovery
  BY <1>0, <1>10, GraphAssumption DEF ErrorRecovery, Block, Fail, Run, Cleared, AgentState
<1>11. CASE Complete \/ DesktopComplete
  BY <1>0, <1>11 DEF Complete, DesktopComplete, Finish, Run, Cleared, AgentState
<1>12. CASE DesktopObserve
  BY <1>0, <1>12 DEF DesktopObserve, Run, Cleared, AgentState
<1>13. CASE DesktopPlanAction
  BY <1>0, <1>13 DEF DesktopPlanAction, Run, Cleared, AgentState
<1>14. CASE DesktopExecute
  BY <1>0, <1>14 DEF DesktopExecute, Run, Cleared, AgentState
<1>15. CASE DesktopVerify
  BY <1>0, <1>15, DesktopVerifyFrame DEF Cleared
<1>16. CASE NodeRaises \/ RecursionError
  BY <1>0, <1>16 DEF NodeRaises, RecursionError, Raised, Cleared
<1>17. CASE NewRun
  BY <1>0, <1>17 DEF NewRun, InitialState, Cleared, AgentState
<1>18. CASE UNCHANGED vars
  BY <1>18 DEF vars, Cleared
<1> QED
  BY <1>1, <1>2, <1>3, <1>4, <1>5, <1>6, <1>7, <1>8, <1>9, <1>10, <1>11, <1>12, <1>13, <1>14,
     <1>15, <1>16, <1>17, <1>18 DEF Next, Step

LEMMA GuardInit == Init => GuardInv
BY DEF Init, GuardInv, BehindCheck, Cycle

\* Whatever models answer and however often a task is resumed, no action is
\* executed in a run that risk_check has not let pass.
THEOREM GraphNothingUnchecked == Spec => []NothingUnchecked
<1>1. GuardInv /\ TypeOK => NothingUnchecked
  BY DEF GuardInv, NothingUnchecked, BehindCheck, Cycle, Cleared
<1> QED
  BY <1>1, TypeInit, TypeStep, GuardInit, GuardStep, PTL DEF Spec
-----------------------------------------------------------------------------
(* A blocked task ends as blocked. *)

LEMMA BlockedStep ==
  TypeOK /\ BlockedInv /\ [Next]_vars =>
    BlockedInv' /\ (s.status = "blocked" /\ node \in Nodes =>
                      s'.status = "blocked" /\ (node' = "end" => row' = "blocked"))
<1> DEFINE Kept == s.status = "blocked" /\ node \in Nodes =>
                     s'.status = "blocked" /\ (node' = "end" => row' = "blocked")
<1> SUFFICES ASSUME TypeOK, BlockedInv, [Next]_vars PROVE BlockedInv' /\ Kept
  OBVIOUS
<1> USE DEF BlockedInv, BlockedPath, Nodes, Goto, NotClaimed
<1>0. s \in AgentState
  BY DEF TypeOK
<1>1. CASE ParseIntent
  BY <1>0, <1>1 DEF ParseIntent, Run, AgentState
<1>2. CASE RiskCheck
  BY <1>0, <1>2 DEF RiskCheck, Run, AgentState
<1>3. CASE EnvironmentResolver
  BY <1>0, <1>3 DEF EnvironmentResolver, Run, AgentState
<1>4. CASE PassOn
  BY <1>0, <1>4 DEF PassOn, Run, AgentState
<1>5. CASE NavigateSkipped \/ Navigate
  BY <1>0, <1>5 DEF NavigateSkipped, Navigate, Run, AgentState
<1>6. CASE ExtractDom
  BY <1>0, <1>6 DEF ExtractDom, Block, Run, AgentState
<1>7. CASE PlanAction
  BY <1>0, <1>7 DEF PlanAction, Run, AgentState
<1>8. CASE ExecuteAction
  BY <1>0, <1>8 DEF ExecuteAction, Run, AgentState
<1>9. CASE Verify
  <2>1. node = "verify" /\ node' \in {"complete", "extract_dom", "error_recovery"}
    BY <1>9, VerifyFrame
  <2>2. CASE s.status = "blocked" /\ UNCHANGED s /\ Goto("complete") /\ NotClaimed
    BY <2>1, <2>2
  <2>3. CASE s.status # "blocked" /\ Block /\ Goto("complete") /\ NotClaimed
    BY <2>1, <2>3
  <2>4. CASE s.status # "blocked" /\ (VerifyError \/ VerifyStep \/ VerifyCompletion \/ VerifyGoesOn)
    <3>1. CASE VerifyError
      BY <1>0, <2>4, <3>1 DEF VerifyError, Again, Fail, AgentState
    <3>2. CASE VerifyStep
      BY <1>0, <2>4, <3>2 DEF VerifyStep, Again, AgentState
    <3>3. CASE VerifyCompletion
      BY <1>0, <2>4, <3>3 DEF VerifyCompletion, AgentState
    <3>4. CASE VerifyGoesOn
      BY <1>0, <2>4, <3>4 DEF VerifyGoesOn, Again, Fail, AgentState
    <3> QED BY <2>4, <3>1, <3>2, <3>3, <3>4
  <2> QED BY <1>9, <2>2, <2>3, <2>4 DEF Verify
<1>10. CASE ErrorRecovery
  BY <1>0, <1>10 DEF ErrorRecovery, Block, Fail, Run, AgentState
<1>11. CASE Complete \/ DesktopComplete
  BY <1>0, <1>11 DEF Complete, DesktopComplete, Finish, Final, Run, AgentState
<1>12. CASE DesktopObserve
  BY <1>0, <1>12 DEF DesktopObserve, Run, AgentState
<1>13. CASE DesktopPlanAction
  BY <1>0, <1>13 DEF DesktopPlanAction, Run, AgentState
<1>14. CASE DesktopExecute
  BY <1>0, <1>14 DEF DesktopExecute, Run, AgentState
<1>15. CASE DesktopVerify
  <2>1. node = "desktop_verify" /\ node' \in {"desktop_complete", "desktop_observe", "error_recovery"}
    BY <1>15, DesktopVerifyFrame
  <2>2. CASE s.status = "blocked" /\ UNCHANGED s /\ Goto("desktop_complete") /\ NotClaimed
    BY <2>1, <2>2
  <2>3. CASE s.status # "blocked" /\ DesktopStep
    <3>1. s'.status # "blocked"
      BY <1>0, <2>3 DEF DesktopStep, DesktopReobserves, DesktopError, DesktopNextStep,
           DesktopCompletion, DesktopGoesOn, Again, Fail, AgentState
    <3> QED BY <2>1, <2>3, <3>1
  <2> QED BY <1>15, <2>2, <2>3 DEF DesktopVerify
<1>16. CASE NodeRaises \/ RecursionError
  BY <1>0, <1>16 DEF NodeRaises, RecursionError, Raised
<1>17. CASE NewRun
  BY <1>0, <1>17 DEF NewRun, InitialState, AgentState
<1>18. CASE UNCHANGED vars
  BY <1>18 DEF vars
<1> QED
  BY <1>1, <1>2, <1>3, <1>4, <1>5, <1>6, <1>7, <1>8, <1>9, <1>10, <1>11, <1>12, <1>13, <1>14,
     <1>15, <1>16, <1>17, <1>18 DEF Next, Step

\* A task that is blocked, by a CAPTCHA or a security boundary, in any node of
\* any environment, is shown to the user as blocked.
THEOREM GraphBlockedStays == Spec => BlockedStays
<1>1. Init => BlockedInv
  BY DEF Init, BlockedInv
<1>2. TypeOK /\ BlockedInv /\ [Next]_vars =>
        [s.status = "blocked" /\ node \in Nodes =>
           s'.status = "blocked" /\ (node' = "end" => row' = "blocked")]_vars
  BY BlockedStep
<1>3. TypeOK /\ BlockedInv /\ [Next]_vars => BlockedInv'
  BY BlockedStep
<1> QED
  BY <1>1, <1>2, <1>3, TypeInit, TypeStep, PTL DEF Spec, BlockedStays
-----------------------------------------------------------------------------
(* The browser: completion is verified, and model calls are bounded. *)

LEMMA BrowserStep ==
  ASSUME Environment = "browser"
  PROVE  TypeOK /\ BrowserInv /\ [Next]_vars => BrowserInv'
<1> SUFFICES ASSUME TypeOK, BrowserInv, [Next]_vars PROVE BrowserInv'
  OBVIOUS
<1> USE DEF BrowserInv, BrowserNodes, Cycle, Goto
<1>0. s \in AgentState /\ Environment = "browser"
  BY DEF TypeOK
<1>1. CASE ParseIntent
  BY <1>0, <1>1 DEF ParseIntent, Run, AgentState
<1>2. CASE RiskCheck
  BY <1>0, <1>2 DEF RiskCheck, Run, AgentState
<1>3. CASE EnvironmentResolver
  BY <1>0, <1>3 DEF EnvironmentResolver, Run, AgentState
<1>4. CASE PassOn
  BY <1>0, <1>4 DEF PassOn, Run, AgentState
<1>5. CASE NavigateSkipped \/ Navigate
  BY <1>0, <1>5 DEF NavigateSkipped, Navigate, Run, AgentState
<1>6. CASE ExtractDom
  BY <1>0, <1>6 DEF ExtractDom, Block, Run, AgentState
<1>7. CASE PlanAction
  BY <1>0, <1>7 DEF PlanAction, Run, AgentState
<1>8. CASE ExecuteAction
  BY <1>0, <1>8 DEF ExecuteAction, Run, AgentState
<1>9. CASE Verify
  BY <1>0, <1>9, VerifyFrame
<1>10. CASE ErrorRecovery
  BY <1>0, <1>10 DEF ErrorRecovery, Block, Fail, Run, AgentState
<1>11. CASE Complete
  BY <1>0, <1>11 DEF Complete, Finish, Run, AgentState
<1>12. CASE DesktopComplete \/ DesktopObserve \/ DesktopPlanAction \/ DesktopExecute \/ DesktopVerify
  BY <1>12 DEF DesktopComplete, DesktopObserve, DesktopPlanAction, DesktopExecute, DesktopVerify, Run
<1>13. CASE NodeRaises \/ RecursionError
  BY <1>0, <1>13 DEF NodeRaises, RecursionError, Raised
<1>14. CASE NewRun
  BY <1>0, <1>14 DEF NewRun, InitialState, AgentState
<1>15. CASE UNCHANGED vars
  BY <1>15 DEF vars
<1> QED
  BY <1>1, <1>2, <1>3, <1>4, <1>5, <1>6, <1>7, <1>8, <1>9, <1>10, <1>11, <1>12, <1>13, <1>14,
     <1>15 DEF Next, Step

LEMMA VerdictStep == TypeOK /\ BrowserInv /\ VerdictInv /\ [Next]_vars => VerdictInv'
<1> SUFFICES ASSUME TypeOK, BrowserInv, VerdictInv, [Next]_vars PROVE VerdictInv'
  OBVIOUS
<1> USE DEF VerdictInv, Goto
<1>0. s \in AgentState /\ node \in BrowserNodes \cup {"end", "raised"}
  BY DEF TypeOK, BrowserInv
<1>1. CASE ParseIntent
  BY <1>0, <1>1 DEF ParseIntent, Run, AgentState
<1>2. CASE RiskCheck
  BY <1>0, <1>2 DEF RiskCheck, Run, AgentState
<1>3. CASE EnvironmentResolver
  BY <1>0, <1>3 DEF EnvironmentResolver, Run, AgentState
<1>4. CASE PassOn
  BY <1>0, <1>4 DEF PassOn, Run, AgentState
<1>5. CASE NavigateSkipped \/ Navigate
  BY <1>0, <1>5 DEF NavigateSkipped, Navigate, Run, AgentState
<1>6. CASE ExtractDom
  BY <1>0, <1>6 DEF ExtractDom, Block, Run, AgentState
<1>7. CASE PlanAction
  BY <1>0, <1>7 DEF PlanAction, Run, AgentState
<1>8. CASE ExecuteAction
  BY <1>0, <1>8 DEF ExecuteAction, Run, AgentState
<1>9. CASE Verify
  <2>1. CASE s.status = "blocked" /\ UNCHANGED s /\ Goto("complete") /\ NotClaimed
    BY <1>0, <2>1
  <2>2. CASE Block /\ Goto("complete") /\ NotClaimed
    BY <1>0, <2>2 DEF Block, AgentState
  <2>3. CASE VerifyError \/ VerifyStep \/ VerifyGoesOn
    BY <1>0, <2>3 DEF VerifyError, VerifyStep, VerifyGoesOn
  <2>4. CASE VerifyCompletion
    BY <1>0, <2>4 DEF VerifyCompletion, AgentState
  <2> QED BY <1>9, <2>1, <2>2, <2>3, <2>4 DEF Verify
<1>10. CASE ErrorRecovery
  BY <1>0, <1>10 DEF ErrorRecovery, Block, Fail, Run, AgentState
<1>11. CASE Complete
  <2>1. /\ s.status # "running" /\ (s.status = "completed" => proof)
        /\ proof' = proof /\ s'.nav = s.nav /\ s'.intent = s.intent /\ node' = "end"
    BY <1>0, <1>11 DEF Complete, Finish, Run, AgentState
  <2>2. row' = "completed" => s.status = "completed" /\ (s.intent /\ HasSite => s.nav)
    BY <1>11, <2>1 DEF Complete, Finish, Final
  <2> QED BY <2>1, <2>2
<1>12. CASE DesktopComplete \/ DesktopObserve \/ DesktopPlanAction \/ DesktopExecute \/ DesktopVerify
  BY <1>0, <1>12 DEF BrowserNodes, Cycle, DesktopComplete, DesktopObserve, DesktopPlanAction,
       DesktopExecute, DesktopVerify, Run
<1>13. CASE NodeRaises \/ RecursionError
  BY <1>0, <1>13 DEF NodeRaises, RecursionError, Raised
<1>14. CASE NewRun
  BY <1>0, <1>14 DEF NewRun, InitialState, AgentState
<1>15. CASE UNCHANGED vars
  BY <1>15 DEF vars
<1> QED
  BY <1>1, <1>2, <1>3, <1>4, <1>5, <1>6, <1>7, <1>8, <1>9, <1>10, <1>11, <1>12, <1>13, <1>14,
     <1>15 DEF Next, Step

LEMMA BrowserInit == Init => BrowserInv /\ VerdictInv
BY DEF Init, BrowserInv, BrowserNodes, VerdictInv

\* In the browser there is no completion without verification, nor without the
\* navigation of a task for a site.
THEOREM GraphCompletionVerified ==
  ASSUME Environment = "browser"
  PROVE  Spec => []CompletionVerified
<1>1. TypeOK /\ BrowserInv /\ [Next]_vars => BrowserInv'
  BY BrowserStep
<1>2. VerdictInv => CompletionVerified
  BY DEF VerdictInv, CompletionVerified
<1> QED
  BY <1>1, <1>2, TypeInit, TypeStep, BrowserInit, VerdictStep, PTL DEF Spec

\* A node of the browser spends no more model calls than its run has paid for.
LEMMA PaidStep ==
  ASSUME NEW credit \in Nat, credit >= LlmLimit, LlmLimit >= 2,
         TypeOK, BrowserInv, Paid(credit), Step
  PROVE  Paid(credit)'
<1> USE DEF Paid, Goto
<1> DEFINE Same == s'.llm = s.llm /\ s'.retry = s.retry /\ s'.step = s.step /\ s'.intent = s.intent
           MoreRetries == s'.llm = s.llm /\ s'.retry = s.retry + 1 /\ s'.step = s.step /\ s'.intent = s.intent
<1>0. s \in AgentState /\ node \in BrowserNodes \cup {"end", "raised"}
  BY DEF TypeOK, BrowserInv
<1>n. s.llm \in Nat /\ s.retry \in Nat /\ s.step \in Nat /\ s.step >= 1
  BY <1>0, Limits DEF AgentState
<1>bump. \A k \in {1, 2} : Bump(s.llm, k) \in Nat /\ Bump(s.llm, k) <= s.llm + k
  BY <1>0, BumpType, Limits DEF AgentState
<1>1. CASE ParseIntent
  <2>1. \/ Same /\ node = "parse_intent" /\ node' \in {"risk_check", "error_recovery"}
        \/ /\ node = "parse_intent" /\ node' = "risk_check" /\ ~s.intent /\ s'.intent
           /\ s'.step = 1 /\ s'.retry = s.retry
           /\ \E k \in {1, 2} : s'.llm = Bump(s.llm, k)
    BY <1>0, <1>1 DEF ParseIntent, Run, AgentState
  <2>2. CASE Same /\ node = "parse_intent" /\ node' \in {"risk_check", "error_recovery"}
    BY <1>n, <2>2
  <2>3. CASE /\ node = "parse_intent" /\ node' = "risk_check" /\ ~s.intent /\ s'.intent
             /\ s'.step = 1 /\ s'.retry = s.retry
             /\ \E k \in {1, 2} : s'.llm = Bump(s.llm, k)
    <3>1. s'.llm <= 2 /\ s'.llm \in Nat
      BY <1>bump, <2>3
    <3> QED BY <1>n, <2>3, <3>1, Limits
  <2> QED BY <2>1, <2>2, <2>3
<1>2. CASE RiskCheck \/ EnvironmentResolver \/ PassOn \/ NavigateSkipped
  <2>1. /\ Same
        /\ \/ /\ node \in {"risk_check", "environment_resolver", "auth_check", "navigate"}
              /\ node' \in {"environment_resolver", "auth_check", "navigate", "complete",
                            "extract_dom", "desktop_observe"}
           \/ node = "retrieve_context" /\ node' = "plan_action"
    BY <1>0, <1>2 DEF RiskCheck, EnvironmentResolver, PassOn, NavigateSkipped, Run, AgentState
  <2> QED BY <1>n, <2>1
<1>3. CASE Navigate
  <2>1. /\ s'.llm = s.llm /\ s'.retry = s.retry /\ s'.step \in {s.step, 2} /\ s'.intent = s.intent
        /\ node = "navigate" /\ node' \in {"extract_dom", "error_recovery"}
    BY <1>0, <1>3 DEF Navigate, Run, AgentState
  <2> QED BY <1>n, <2>1
<1>4. CASE ExtractDom
  <2>1. /\ Same /\ node = "extract_dom" /\ node' \in {"retrieve_context", "complete"}
    BY <1>0, <1>4 DEF ExtractDom, Block, Run, AgentState
  <2> QED BY <1>n, <2>1
<1>5. CASE PlanAction
  <2>1. /\ s'.retry = s.retry /\ s'.step = s.step /\ s'.intent = s.intent
        /\ s'.llm = s.llm \/ (s.intent /\ s'.llm = Bump(s.llm, 1))
        /\ node = "plan_action" /\ node' = "execute_action"
    <3>1. ASSUME s' = [s EXCEPT !.action = "need_help"]
          PROVE  Same
      BY <1>0, <3>1 DEF AgentState
    <3>2. ASSUME NEW a \in {"act", "complete", "need_help"}, s.intent,
                 s' = [s EXCEPT !.action = a, !.llm = Bump(@, 1)]
          PROVE  /\ s'.retry = s.retry /\ s'.step = s.step /\ s'.intent = s.intent
                 /\ s'.llm = Bump(s.llm, 1)
      BY <1>0, <3>2 DEF AgentState
    <3>3. ASSUME s' = [s EXCEPT !.action = "no_vision", !.status = "failed", !.error = "vision"]
          PROVE  Same
      BY <1>0, <3>3 DEF AgentState
    <3>4. ASSUME s' = [s EXCEPT !.action = "need_help", !.status = "blocked", !.error = "captcha"]
          PROVE  Same
      BY <1>0, <3>4 DEF AgentState
    <3>5. node = "plan_action" /\ node' = "execute_action"
      BY <1>5 DEF PlanAction, Run
    <3> QED BY <1>5, <3>1, <3>2, <3>3, <3>4, <3>5 DEF PlanAction
  <2>2. s'.llm <= s.llm + 1 /\ s'.llm \in Nat /\ (~s.intent => s'.llm = s.llm)
    BY <1>n, <1>bump, <2>1
  <2> QED BY <1>n, <2>1, <2>2
<1>6. CASE ExecuteAction
  <2>1. Same /\ node = "execute_action" /\ node' = "verify"
    BY <1>0, <1>6 DEF ExecuteAction, Run, AgentState
  <2> QED BY <1>n, <2>1
<1>7. CASE Verify
  <2>0. node = "verify"
    BY <1>7 DEF Verify, Run
  <2>1. CASE Same /\ node' \in {"complete", "error_recovery"}
    BY <1>n, <2>0, <2>1
  <2>2. CASE MoreRetries /\ node' = "extract_dom"
    BY <1>n, <2>0, <2>2
  <2>3. CASE VerifyStep
    <3>1. /\ s'.llm = s.llm /\ s'.retry = s.retry /\ s'.step = s.step + 1 /\ s'.intent = s.intent
          /\ node' = "extract_dom"
      BY <1>0, <2>3 DEF VerifyStep, Again, AgentState
    <3> QED BY <1>n, <2>0, <3>1
  <2>4. CASE Same /\ node' = "extract_dom" /\ s.llm < LlmLimit
    BY <1>n, <2>0, <2>4, Limits
  <2>5. CASE VerifyError
    BY <1>0, <2>1, <2>2, <2>5 DEF VerifyError, Again, Fail, AgentState
  <2>6. CASE VerifyGoesOn
    <3>1. CASE s.llm >= LlmLimit
      BY <1>0, <2>1, <2>6, <3>1 DEF VerifyGoesOn, Fail, AgentState
    <3>2. CASE ~(s.llm >= LlmLimit)
      <4>1. Same /\ node' = "extract_dom"
        BY <1>0, <2>6, <3>2 DEF VerifyGoesOn, Again, AgentState
      <4>2. s.llm < LlmLimit
        BY <1>n, <3>2, Limits
      <4> QED BY <2>4, <4>1, <4>2
    <3> QED BY <3>1, <3>2
  <2>7. CASE VerifyCompletion
    BY <1>0, <2>1, <2>7 DEF VerifyCompletion, AgentState
  <2>8. CASE (Block \/ UNCHANGED s) /\ Goto("complete")
    BY <1>0, <2>1, <2>8 DEF Block, AgentState
  <2> QED BY <1>7, <2>3, <2>5, <2>6, <2>7, <2>8 DEF Verify
<1>8. CASE ErrorRecovery
  <2>1. /\ node = "error_recovery"
        /\ MoreRetries \/ (Same /\ node' \in {"complete", "desktop_complete"})
        /\ node' \in {"extract_dom", "desktop_observe", "complete", "desktop_complete"}
    <3>1. CASE EnableRecovery /\ s.retry < RecoveryRetries /\ s.error \notin {"captcha", "security"}
      BY <1>0, <1>8, <3>1 DEF ErrorRecovery, Run, AgentState
    <3>2. CASE ~(EnableRecovery /\ s.retry < RecoveryRetries /\ s.error \notin {"captcha", "security"})
      <4>1. CASE EnableRecovery /\ s.retry < RecoveryRetries
        BY <1>0, <1>8, <3>2, <4>1 DEF ErrorRecovery, Block, Run, AgentState
      <4>2. CASE ~(EnableRecovery /\ s.retry < RecoveryRetries)
        BY <1>0, <1>8, <3>2, <4>2 DEF ErrorRecovery, Fail, Run, AgentState
      <4> QED BY <4>1, <4>2
    <3> QED BY <3>1, <3>2
  <2> QED BY <1>n, <2>1
<1>9. CASE Complete
  <2>1. Same /\ node = "complete" /\ node' = "end"
    BY <1>0, <1>9 DEF Complete, Finish, Run, AgentState
  <2> QED BY <1>n, <2>1
<1>10. CASE DesktopComplete \/ DesktopObserve \/ DesktopPlanAction \/ DesktopExecute \/ DesktopVerify
  BY <1>0, <1>10 DEF BrowserNodes, Cycle, DesktopComplete, DesktopObserve, DesktopPlanAction,
       DesktopExecute, DesktopVerify, Run
<1>11. CASE NodeRaises \/ RecursionError
  <2>1. UNCHANGED s /\ node' = "raised"
    BY <1>11 DEF NodeRaises, RecursionError, Raised
  <2> QED BY <1>n, <2>1
<1> QED
  BY <1>1, <1>2, <1>3, <1>4, <1>5, <1>6, <1>7, <1>8, <1>9, <1>10, <1>11 DEF Step

\* Only a new run changes the number of runs.
LEMMA StepKeepsRuns == ASSUME TypeOK, Step PROVE runs' = runs
BY DEF Step, ParseIntent, RiskCheck, EnvironmentResolver, PassOn, NavigateSkipped, Navigate,
   ExtractDom, PlanAction, ExecuteAction, Verify, ErrorRecovery, Complete, DesktopComplete,
   DesktopObserve, DesktopPlanAction, DesktopExecute, DesktopVerify, NodeRaises,
   RecursionError, Raised, Run

LEMMA BudgetStep ==
  ASSUME Environment = "browser", LlmLimit >= 2
  PROVE  TypeOK /\ BrowserInv /\ BudgetInv /\ [Next]_vars => BudgetInv'
<1> SUFFICES ASSUME TypeOK, BrowserInv, BudgetInv, [Next]_vars PROVE BudgetInv'
  OBVIOUS
<1> DEFINE credit == LlmLimit + Steps * runs - Steps
<1>0. runs \in Nat /\ runs >= 1
  BY Limits DEF TypeOK
<1>1. credit \in Nat /\ credit >= LlmLimit
  <2>1. \A k \in Nat : k >= 1 => Steps * k \in Nat /\ Steps * k >= Steps
    BY Limits
  <2>2. Steps * runs \in Nat /\ Steps * runs >= Steps
    BY <1>0, <2>1
  <2> QED BY <2>2, Limits
<1>2. CASE Step
  <2>1. \A c \in Nat : c >= LlmLimit /\ Paid(c) => Paid(c)'
    BY <1>2, PaidStep
  <2> QED BY <1>1, <1>2, <2>1, StepKeepsRuns DEF BudgetInv
<1>3. CASE NewRun
  <2>1. /\ runs' = runs + 1 /\ node' = "parse_intent"
        /\ s'.llm = s.llm /\ s'.retry = s.retry /\ s'.step = s.step /\ s'.intent = s.intent
    BY <1>3 DEF NewRun, InitialState, Goto, TypeOK, AgentState
  <2>2. s.step <= Steps /\ s.step \in Nat /\ s.llm \in Nat /\ s.retry \in Nat
    BY Limits DEF TypeOK, AgentState
  <2>3. LlmLimit + Steps * runs' - Steps = credit + Steps
    BY <1>0, <2>1, Limits
  <2>4. ASSUME NEW c \in Nat, Paid(c) PROVE s'.llm <= c + Steps + s'.retry
    <3>1. s.llm <= c + s.retry + s.step
      BY <2>4 DEF Paid
    <3> QED BY <2>1, <2>2, <2>4, <3>1, Limits
  <2>5. s'.llm <= credit + Steps + s'.retry /\ (~s'.intent => s'.llm = 0)
    BY <1>1, <2>1, <2>4 DEF BudgetInv, Paid
  <2>6. s'.step \in Nat /\ s'.retry \in Nat /\ s'.llm \in Nat
    BY <2>1, <2>2
  <2>7. s'.llm <= credit + Steps + s'.retry + s'.step
    BY <1>1, <2>5, <2>6, Limits
  <2> QED BY <2>1, <2>3, <2>5, <2>7 DEF BudgetInv, Paid
<1>4. CASE UNCHANGED vars
  BY <1>4 DEF vars, BudgetInv, Paid
<1> QED BY <1>2, <1>3, <1>4 DEF Next

\* The model calls of a task in the browser are bounded, also when errors,
\* recoveries and rejected completions alternate and the task is resumed.
THEOREM GraphLlmBudget ==
  ASSUME Environment = "browser", LlmLimit >= 2
  PROVE  Spec => []LlmBudget
<1>1. Init => BudgetInv
  <2>1. ASSUME Init PROVE s.llm = 0 /\ s.retry = 0 /\ s.step = 1 /\ runs = 1 /\ node = "parse_intent"
    BY <2>1 DEF Init
  <2> QED BY <2>1, Limits DEF BudgetInv, Paid
<1>2. TypeOK /\ BudgetInv => LlmBudget
  <2> SUFFICES ASSUME TypeOK, BudgetInv PROVE LlmBudget
    OBVIOUS
  <2>1. /\ s.llm \in Nat /\ s.retry \in Nat /\ s.step \in Nat
        /\ s.retry <= RecoveryRetries /\ s.step <= Steps /\ runs \in Nat
    BY Limits DEF TypeOK, AgentState
  <2>2. s.llm <= LlmLimit + Steps * runs - Steps + s.retry + s.step
    BY DEF BudgetInv, Paid
  <2>3. Steps * runs \in Nat
    BY <2>1, Limits
  <2> QED BY <2>1, <2>2, <2>3, Limits DEF LlmBudget
<1>3. TypeOK /\ BrowserInv /\ [Next]_vars => BrowserInv'
  BY BrowserStep
<1>4. TypeOK /\ BrowserInv /\ BudgetInv /\ [Next]_vars => BudgetInv'
  BY BudgetStep
<1> QED
  BY <1>1, <1>2, <1>3, <1>4, TypeInit, TypeStep, BrowserInit, PTL DEF Spec
-----------------------------------------------------------------------------
(* Every run comes to an end: each of its nodes brings it closer.            *)

\* The rounds from extract_dom to verify that the retries, the steps of the plan and the
\* limit of model calls still admit.
RoundsLeft(t) ==
  (RecoveryRetries - t.retry) + (Steps - t.step) + (IF t.llm < LlmLimit THEN LlmLimit - t.llm ELSE 0)
MostRounds == RecoveryRetries + Steps + LlmLimit

\* This round has been paid for with a model call: verify may start another one.
HasPaid(t) == t.intent /\ t.action # "no_vision" /\ t.status # "blocked" /\ t.llm < LlmLimit

\* The nodes that are passed once.
Once == {"parse_intent", "risk_check", "environment_resolver", "auth_check", "navigate"}

Place(n, t) ==
  CASE n = "parse_intent" -> 5 [] n = "risk_check" -> 4 [] n = "environment_resolver" -> 3
    [] n = "auth_check" -> 2 [] n = "navigate" -> 1
    [] n = "extract_dom" -> 7 [] n = "retrieve_context" -> 6 [] n = "plan_action" -> 5
    [] n = "execute_action" -> IF HasPaid(t) THEN 9 ELSE 4
    [] n = "verify" -> IF HasPaid(t) THEN 8 ELSE 3
    [] n = "error_recovery" -> 2 [] n = "complete" -> 1
    [] OTHER -> 0

\* An upper bound of the nodes that a run of the browser has left.
RankOf(n, t) ==
  IF n \in Once THEN 10 * MostRounds + Place(n, t)
  ELSE IF n \in Nodes THEN 10 * RoundsLeft(t) + Place(n, t)
  ELSE 0
NodesLeft == RankOf(node, s)

\* An action that no model has been asked for ends in an error.
Answered ==
  /\ node = "execute_action" /\ ~s.intent => s.action = "need_help"
  /\ node = "verify" /\ s.error = "none" => s.intent /\ s.action # "no_vision"

LEMMA RoundsAre ==
  ASSUME NEW t \in AgentState
  PROVE  RoundsLeft(t) \in Nat /\ RoundsLeft(t) + 1 <= MostRounds /\ MostRounds \in Nat
<1>1. /\ t.retry \in Nat /\ t.retry <= RecoveryRetries /\ t.step \in Nat /\ 1 <= t.step /\ t.step <= Steps
      /\ t.llm \in Nat
  BY Limits DEF AgentState
<1> QED BY <1>1, Limits DEF RoundsLeft, MostRounds

LEMMA PlacesAre ==
  ASSUME NEW t \in AgentState, NEW n \in BrowserNodes
  PROVE  Place(n, t) \in 1..9 /\ n \in Nodes
BY DEF Place, BrowserNodes, Cycle, Nodes

\* A step into another node with as many rounds left.
LEMMA Closer ==
  ASSUME NEW t \in AgentState, NEW u \in AgentState, NEW n \in BrowserNodes, NEW m \in BrowserNodes \cup {"end", "raised"},
         \/ m \in {"end", "raised"}
         \/ n \in Once /\ m \in Once /\ Place(m, u) < Place(n, t)
         \/ n \in Once /\ m \notin Once
         \/ n \notin Once /\ m \notin Once /\ RoundsLeft(u) <= RoundsLeft(t) /\ Place(m, u) < Place(n, t)
         \/ n \notin Once /\ m \notin Once /\ RoundsLeft(u) + 1 <= RoundsLeft(t)
  PROVE  RankOf(m, u) < RankOf(n, t)
<1>1. /\ RoundsLeft(t) \in Nat /\ RoundsLeft(u) \in Nat /\ MostRounds \in Nat
      /\ RoundsLeft(t) + 1 <= MostRounds /\ RoundsLeft(u) + 1 <= MostRounds
  BY RoundsAre
<1>2. Place(n, t) \in 1..9 /\ n \in Nodes
  BY PlacesAre
<1>3. RankOf(n, t) = IF n \in Once THEN 10 * MostRounds + Place(n, t) ELSE 10 * RoundsLeft(t) + Place(n, t)
  BY <1>2 DEF RankOf
<1>4. CASE m \in {"end", "raised"}
  <2>1. RankOf(m, u) = 0
    BY <1>4 DEF RankOf, Once, Nodes
  <2> QED BY <1>1, <1>2, <1>3, <2>1
<1>5. CASE m \in BrowserNodes
  <2>1. Place(m, u) \in 1..9 /\ m \in Nodes
    BY <1>5, PlacesAre
  <2>2. RankOf(m, u) = IF m \in Once THEN 10 * MostRounds + Place(m, u) ELSE 10 * RoundsLeft(u) + Place(m, u)
    BY <2>1 DEF RankOf
  <2>3. m \notin {"end", "raised"}
    BY <1>5 DEF BrowserNodes, Cycle
  <2> HIDE DEF Once
  <2> QED BY <1>1, <1>2, <1>3, <2>1, <2>2, <2>3
<1> QED BY <1>4, <1>5

LEMMA AnsweredStep == TypeOK /\ Answered /\ [Next]_vars => Answered'
<1> SUFFICES ASSUME TypeOK, Answered, [Next]_vars PROVE Answered'
  OBVIOUS
<1>0. s \in AgentState
  BY DEF TypeOK
<1>1. CASE PlanAction
  <2>1. node' = "execute_action"
    BY <1>1 DEF PlanAction, Goto
  <2>2. ~s'.intent => s'.action = "need_help"
    BY <1>0, <1>1 DEF PlanAction, AgentState
  <2> QED BY <2>1, <2>2 DEF Answered
<1>2. CASE ExecuteAction
  <2>1. node = "execute_action" /\ node' = "verify"
    BY <1>2 DEF ExecuteAction, Run, Goto
  <2>2. s'.error = "none" => s'.intent /\ s'.action # "no_vision"
    BY <1>0, <1>2, <2>1 DEF ExecuteAction, Answered, AgentState
  <2> QED BY <2>1, <2>2 DEF Answered
<1>3. CASE Verify
  BY <1>3, VerifyFrame DEF Answered
<1>4. CASE UNCHANGED vars
  BY <1>4 DEF vars, Answered
<1>5. CASE \/ ParseIntent \/ RiskCheck \/ EnvironmentResolver \/ PassOn \/ NavigateSkipped \/ Navigate
           \/ ExtractDom \/ ErrorRecovery \/ Complete \/ DesktopComplete \/ DesktopObserve
           \/ DesktopPlanAction \/ DesktopExecute \/ DesktopVerify \/ NodeRaises \/ RecursionError \/ NewRun
  <2>1. node' \notin {"execute_action", "verify"}
    <3>1. CASE DesktopVerify
      BY <3>1, DesktopVerifyFrame
    <3>2. CASE ~DesktopVerify
      BY <1>5, <3>2
         DEF ParseIntent, RiskCheck, EnvironmentResolver, PassOn, NavigateSkipped, Navigate, ExtractDom,
             ErrorRecovery, Complete, DesktopComplete, Finish, DesktopObserve, DesktopPlanAction,
             DesktopExecute, NodeRaises, RecursionError, Raised, NewRun, Goto
    <3> QED BY <3>1, <3>2
  <2> QED BY <2>1 DEF Answered
<1> QED BY <1>1, <1>2, <1>3, <1>4, <1>5 DEF Next, Step

\* Each node takes the run closer to its end.
LEMMA StepCloser ==
  ASSUME TypeOK, TypeOK', BrowserInv, BrowserInv', Answered, Step
  PROVE  RankOf(node', s') < RankOf(node, s)
<1> DEFINE Goal == RankOf(node', s') < RankOf(node, s)
           Same == s'.llm = s.llm /\ s'.retry = s.retry /\ s'.step = s.step
<1> USE DEF Goto
<1>0. /\ s \in AgentState /\ s' \in AgentState
      /\ node \in BrowserNodes \cup {"end", "raised"} /\ node' \in BrowserNodes \cup {"end", "raised"}
  BY DEF TypeOK, BrowserInv
<1>n. /\ s.llm \in Nat /\ s.retry \in Nat /\ s.step \in Nat
      /\ s'.llm \in Nat /\ s'.retry \in Nat /\ s'.step \in Nat
  BY <1>0, Limits DEF AgentState
<1>same. Same => RoundsLeft(s') = RoundsLeft(s)
  BY DEF RoundsLeft
<1>retry. s'.retry = s.retry + 1 /\ s'.llm = s.llm /\ s'.step = s.step => RoundsLeft(s') + 1 = RoundsLeft(s)
  BY <1>n, Limits DEF RoundsLeft
<1>step. s'.step = s.step + 1 /\ s'.llm = s.llm /\ s'.retry = s.retry => RoundsLeft(s') + 1 = RoundsLeft(s)
  BY <1>n, Limits DEF RoundsLeft
<1>back. ASSUME node \in Cycle, node' = "extract_dom", RoundsLeft(s') + 1 <= RoundsLeft(s) PROVE Goal
  <2>1. node \in BrowserNodes /\ node \notin Once /\ node' \in BrowserNodes /\ node' \notin Once
    BY <1>back DEF BrowserNodes, Cycle, Once
  <2> QED BY <1>0, <1>back, <2>1, Closer
<1>on. ASSUME node \in Cycle, node' \in Cycle \cup {"complete"}, Same, Place(node', s') < Place(node, s) PROVE Goal
  <2>1. node \in BrowserNodes /\ node \notin Once /\ node' \in BrowserNodes /\ node' \notin Once
    BY <1>on DEF BrowserNodes, Cycle, Once
  <2>2. RoundsLeft(s') <= RoundsLeft(s)
    <3>1. RoundsLeft(s) \in Nat
      BY <1>0, RoundsAre
    <3> QED BY <1>on, <1>same, <3>1
  <2> QED BY <1>0, <1>on, <2>1, <2>2, Closer
<1>1. CASE \/ ParseIntent \/ RiskCheck \/ EnvironmentResolver \/ Navigate \/ NavigateSkipped
           \/ (Run("auth_check") /\ node' = "navigate")
  <2>1. node \in Once /\ (node' \in Once => Place(node', s') < Place(node, s))
    BY <1>1 DEF ParseIntent, RiskCheck, EnvironmentResolver, Navigate, NavigateSkipped, Run, Once, Place
  <2>2. node \in BrowserNodes
    BY <2>1 DEF Once, BrowserNodes
  <2> QED BY <1>0, <2>1, <2>2, Closer
<1>2. CASE Run("retrieve_context") /\ node' = "plan_action" /\ UNCHANGED s
  <2>1. node = "retrieve_context" /\ Place(node', s') < Place(node, s)
    BY <1>2 DEF Run, Place
  <2> QED BY <1>2, <1>on, <2>1 DEF Cycle
<1>3. CASE ExtractDom
  <2>1. Same /\ node = "extract_dom" /\ node' \in {"retrieve_context", "complete"}
    BY <1>0, <1>3 DEF ExtractDom, Block, Run, AgentState
  <2>2. Place(node', s') < Place(node, s)
    BY <2>1 DEF Place
  <2> QED BY <1>on, <2>1, <2>2 DEF Cycle
<1>4. CASE PlanAction
  <2>0. node = "plan_action" /\ node' = "execute_action"
    BY <1>4 DEF PlanAction, Run
  <2>1. CASE Same /\ ~HasPaid(s')
    <3>1. Place(node', s') < Place(node, s)
      BY <2>0, <2>1 DEF Place
    <3> QED BY <1>on, <2>0, <2>1, <3>1 DEF Cycle
  <2>2. ASSUME NEW a \in {"act", "complete", "need_help"}, s' = [s EXCEPT !.action = a, !.llm = Bump(@, 1)]
        PROVE  Goal
    <3>1. s'.retry = s.retry /\ s'.step = s.step /\ s'.llm = Bump(s.llm, 1)
      BY <1>0, <2>2 DEF AgentState
    <3>2. CASE s.llm < LlmLimit
      <4>1. s'.llm = s.llm + 1
        BY <1>n, <3>1, <3>2, Limits DEF Bump
      <4>2. RoundsLeft(s') + 1 = RoundsLeft(s)
        BY <1>n, <3>1, <3>2, <4>1, Limits DEF RoundsLeft
      <4>3. node \in BrowserNodes /\ node \notin Once /\ node' \in BrowserNodes /\ node' \notin Once
        BY <2>0 DEF BrowserNodes, Cycle, Once
      <4>4. RoundsLeft(s) \in Nat
        BY <1>0, RoundsAre
      <4> QED BY <1>0, <4>2, <4>3, <4>4, Closer
    <3>3. CASE ~(s.llm < LlmLimit)
      <4>1. ~(s'.llm < LlmLimit)
        BY <1>n, <3>1, <3>3, Limits DEF Bump
      <4>2. Place(node', s') < Place(node, s)
        BY <2>0, <4>1 DEF Place, HasPaid
      <4>3. RoundsLeft(s') = RoundsLeft(s) /\ RoundsLeft(s) \in Nat
        BY <1>0, <3>1, <3>3, <4>1, RoundsAre DEF RoundsLeft
      <4>4. node \in BrowserNodes /\ node \notin Once /\ node' \in BrowserNodes /\ node' \notin Once
        BY <2>0 DEF BrowserNodes, Cycle, Once
      <4> QED BY <1>0, <4>2, <4>3, <4>4, Closer
    <3> QED BY <3>2, <3>3
  <2>3. ASSUME ~s.intent, s' = [s EXCEPT !.action = "need_help"] PROVE Same /\ ~HasPaid(s')
    BY <1>0, <2>3 DEF HasPaid, AgentState
  <2>4. ASSUME s' = [s EXCEPT !.action = "no_vision", !.status = "failed", !.error = "vision"]
        PROVE  Same /\ ~HasPaid(s')
    BY <1>0, <2>4 DEF HasPaid, AgentState
  <2>5. ASSUME s' = [s EXCEPT !.action = "need_help", !.status = "blocked", !.error = "captcha"]
        PROVE  Same /\ ~HasPaid(s')
    BY <1>0, <2>5 DEF HasPaid, AgentState
  <2> QED BY <1>4, <2>1, <2>2, <2>3, <2>4, <2>5 DEF PlanAction
<1>5. CASE ExecuteAction
  <2>1. /\ Same /\ node = "execute_action" /\ node' = "verify"
        /\ s'.intent = s.intent /\ s'.action = s.action /\ s'.status = s.status
    BY <1>0, <1>5 DEF ExecuteAction, Run, AgentState
  <2>2. HasPaid(s') <=> HasPaid(s)
    BY <2>1 DEF HasPaid
  <2>3. Place(node', s') < Place(node, s)
    BY <2>1, <2>2 DEF Place
  <2> QED BY <1>on, <2>1, <2>3 DEF Cycle
<1>6. CASE Verify
  <2>0. node = "verify" /\ node \in Cycle
    BY <1>6 DEF Verify, Run, Cycle
  <2>1. CASE Same /\ node' \in {"complete", "error_recovery"}
    <3>1. Place(node', s') < Place(node, s)
      BY <2>0, <2>1 DEF Place
    <3> QED BY <1>on, <2>0, <2>1, <3>1 DEF Cycle
  <2>2. CASE RoundsLeft(s') + 1 = RoundsLeft(s) /\ node' = "extract_dom"
    <3>1. RoundsLeft(s) \in Nat
      BY <1>0, RoundsAre
    <3> QED BY <1>back, <2>0, <2>2, <3>1
  <2>3. CASE VerifyError
    <3>1. \/ Same /\ node' = "error_recovery"
          \/ s'.retry = s.retry + 1 /\ s'.llm = s.llm /\ s'.step = s.step /\ node' = "extract_dom"
      BY <1>0, <2>3 DEF VerifyError, Again, Fail, AgentState
    <3> QED BY <1>retry, <2>1, <2>2, <3>1
  <2>4. CASE VerifyStep
    <3>1. s'.step = s.step + 1 /\ s'.llm = s.llm /\ s'.retry = s.retry /\ node' = "extract_dom"
      BY <1>0, <2>4 DEF VerifyStep, Again, AgentState
    <3> QED BY <1>step, <2>2, <3>1
  <2>5. CASE s.status # "blocked" /\ VerifyGoesOn
    <3>1. CASE s.llm >= LlmLimit
      BY <1>0, <2>1, <2>5, <3>1 DEF VerifyGoesOn, Fail, AgentState
    <3>2. CASE ~(s.llm >= LlmLimit)
      <4>1. Same /\ node' = "extract_dom" /\ s.error = "none"
        BY <1>0, <2>5, <3>2 DEF VerifyGoesOn, Again, AgentState
      <4>2. s.llm < LlmLimit
        BY <1>n, <3>2, Limits
      <4>3. HasPaid(s)
        BY <2>0, <2>5, <4>1, <4>2 DEF HasPaid, Answered
      <4>4. Place(node', s') < Place(node, s)
        BY <2>0, <4>1, <4>3 DEF Place
      <4> QED BY <1>on, <2>0, <4>1, <4>4 DEF Cycle
    <3> QED BY <3>1, <3>2
  <2>6. CASE VerifyCompletion
    BY <1>0, <2>1, <2>6 DEF VerifyCompletion, AgentState
  <2>7. CASE (Block \/ UNCHANGED s) /\ node' = "complete"
    BY <1>0, <2>1, <2>7 DEF Block, AgentState
  <2> QED BY <1>6, <2>3, <2>4, <2>5, <2>6, <2>7 DEF Verify
<1>7. CASE ErrorRecovery
  <2>0. node = "error_recovery" /\ node \in Cycle
    BY <1>7 DEF ErrorRecovery, Run, Cycle
  <2>d. s.env # "desktop"
    BY DEF BrowserInv
  <2>1. CASE EnableRecovery /\ s.retry < RecoveryRetries /\ s.error \notin {"captcha", "security"}
    <3>1. s'.retry = s.retry + 1 /\ s'.llm = s.llm /\ s'.step = s.step /\ node' = "extract_dom"
      BY <1>0, <1>7, <2>d, <2>1 DEF ErrorRecovery, AgentState
    <3>2. RoundsLeft(s) \in Nat
      BY <1>0, RoundsAre
    <3> QED BY <1>retry, <1>back, <2>0, <3>1, <3>2
  <2>2. CASE ~(EnableRecovery /\ s.retry < RecoveryRetries /\ s.error \notin {"captcha", "security"})
    <3>1. node' = "complete"
      BY <1>7, <2>d, <2>2 DEF ErrorRecovery
    <3>2. Same
      BY <1>0, <1>7, <2>2 DEF ErrorRecovery, Block, Fail, AgentState
    <3>3. Place(node', s') < Place(node, s)
      BY <2>0, <3>1 DEF Place
    <3> QED BY <1>on, <2>0, <3>1, <3>2, <3>3
  <2> QED BY <2>1, <2>2
<1>8. CASE Complete \/ NodeRaises \/ RecursionError
  <2>1. node' \in {"end", "raised"} /\ node \in Nodes
    BY <1>8 DEF Complete, Finish, Run, Nodes, NodeRaises, RecursionError, Raised
  <2>2. node \in BrowserNodes
    BY <1>0, <2>1 DEF Nodes
  <2> QED BY <1>0, <2>1, <2>2, Closer
<1>9. CASE DesktopComplete \/ DesktopObserve \/ DesktopPlanAction \/ DesktopExecute \/ DesktopVerify
  <2>1. node \notin BrowserNodes \cup {"end", "raised"}
    BY <1>9 DEF DesktopComplete, DesktopObserve, DesktopPlanAction, DesktopExecute, DesktopVerify, Run,
                BrowserNodes, Cycle
  <2> QED BY <1>0, <2>1
<1>10. CASE PassOn
  BY <1>1, <1>2, <1>10 DEF PassOn
<1> HIDE DEF Goal
<1> QED BY <1>1, <1>3, <1>4, <1>5, <1>6, <1>7, <1>8, <1>9, <1>10, Zenon DEF Step, Goal

\* A run of the browser passes at most 10 * (retries + steps + model calls) + 5 nodes: each
\* one takes it closer to its end, also when errors, recoveries and rejected completions
\* alternate.  What Terminates says under fairness follows from this.
THEOREM GraphBrowserRunsEnd ==
  ASSUME Environment = "browser"
  PROVE  Spec => /\ [](NodesLeft \in 0..(10 * (RecoveryRetries + Steps + LlmLimit) + 5))
                 /\ [][(node \in Nodes) => NodesLeft' < NodesLeft]_vars
<1> DEFINE Inv == TypeOK /\ BrowserInv /\ Answered
           Most == 10 * (RecoveryRetries + Steps + LlmLimit) + 5
<1>1. Init => Inv
  <2>1. Init => Answered
    BY DEF Init, Answered
  <2> QED BY <2>1, TypeInit, BrowserInit
<1>2. Inv /\ [Next]_vars => Inv'
  BY TypeStep, BrowserStep, AnsweredStep
<1>3. Inv => NodesLeft \in 0..Most
  <2> SUFFICES ASSUME Inv PROVE NodesLeft \in 0..Most
    OBVIOUS
  <2>1. /\ s \in AgentState /\ node \in BrowserNodes \cup {"end", "raised"}
    BY DEF TypeOK, BrowserInv
  <2>2. RoundsLeft(s) \in Nat /\ RoundsLeft(s) + 1 <= MostRounds /\ MostRounds \in Nat
    BY <2>1, RoundsAre
  <2>3. Most = 10 * MostRounds + 5
    BY DEF MostRounds
  <2> HIDE DEF Most
  <2>4. CASE node \in {"end", "raised"}
    <3>1. NodesLeft = 0
      BY <2>4 DEF NodesLeft, RankOf, Once, Nodes
    <3> QED BY <2>2, <2>3, <3>1
  <2>5. CASE node \in BrowserNodes
    <3>1. Place(node, s) \in 1..9 /\ node \in Nodes
      BY <2>1, <2>5, PlacesAre
    <3>2. CASE node \in Once
      <4>1. NodesLeft = 10 * MostRounds + Place(node, s)
        BY <3>2 DEF NodesLeft, RankOf
      <4>2. Place(node, s) \in 1..5
        BY <3>2 DEF Place, Once
      <4> QED BY <2>2, <2>3, <4>1, <4>2
    <3>3. CASE node \notin Once
      <4>1. NodesLeft = 10 * RoundsLeft(s) + Place(node, s)
        BY <3>1, <3>3 DEF NodesLeft, RankOf
      <4> QED BY <2>2, <2>3, <3>1, <4>1
    <3> QED BY <3>2, <3>3
  <2> QED BY <2>1, <2>4, <2>5
<1>4. Inv /\ Inv' /\ [Next]_vars => [(node \in Nodes) => NodesLeft' < NodesLeft]_vars
  <2> SUFFICES ASSUME Inv, Inv', Next, node \in Nodes PROVE NodesLeft' < NodesLeft
    OBVIOUS
  <2>1. Step
    BY DEF Next, NewRun, Nodes
  <2> QED BY <2>1, StepCloser DEF NodesLeft
<1> HIDE DEF Most
<1>5. Spec => /\ [](NodesLeft \in 0..Most)
              /\ [][(node \in Nodes) => NodesLeft' < NodesLeft]_vars
  BY <1>1, <1>2, <1>3, <1>4, PTL DEF Spec
<1> QED BY <1>5 DEF Most
=============================================================================
