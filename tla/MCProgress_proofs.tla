---------------------------- MODULE MCProgress_proofs ----------------------------
(***************************************************************************)
(* The parts of MCProgress, for every value of the constants: the types of *)
(* all of them, how many calls a request makes and that it ends            *)
(* (LlmCalls), what shutdown() of any number of launchers leaves and that  *)
(* a launcher told to stop does (Launcher), and what the window of a task  *)
(* shows, that no connection leaves out an event, and that connections end *)
(* (TaskStream).                                                           *)
(***************************************************************************)
EXTENDS MCProgress, Sequences, TLAPS

\* The calls an attempt of the outer loop has used up before the present call.
Used == outer * (MaxRetry + 1) + inner

\* The loops count the calls of the service that is being asked; what was asked before it
\* has kept to the budget; only a schema starts the outer loop again.
Counting ==
  /\ stage \in Services => calls[stage] <= Used
  /\ stage = "gemini" => calls["ollama"] = 0
  /\ CallBudget
  /\ stage \in Services /\ ~req.structured => outer = 0

\* A refused key ends what Gemini was asked for; a failure ends the request, under the
\* hybrid provider after a call of Ollama.
Ending ==
  /\ refused => stage # "gemini"
  /\ stage \in Services => result = "none"
  /\ FallbackAsked

Inv == TypeOK /\ Counting /\ Ending

\* Multiplication is monotonic: what the provers need to know of the two nested loops.
LEMMA Monotonic == ASSUME NEW a \in Nat, NEW b \in Nat, NEW n \in Nat, a <= b
                   PROVE  a * n <= b * n
<1>1. (b - a) * n >= 0 BY SMT
<1>2. (b - a) * n = b * n - a * n BY SMT
<1> QED BY <1>1, <1>2, SMT

\* One more call of the service keeps to the budget of the request.
LEMMA CallFits == ASSUME Inv, stage \in Services
                  PROVE  /\ calls[stage] + 1 <= (outer + 1) * (MaxRetry + 1)
                         /\ calls[stage] + 1 <= Budget
                         /\ Budget \in Nat
<1> DEFINE n == MaxRetry + 1
<1>1. MaxRetry \in Nat /\ outer \in Nat /\ inner \in Nat /\ calls[stage] \in Nat
      /\ outer <= MaxRetry /\ inner <= MaxRetry
  BY LlmAssumption DEF Inv, TypeOK, Services
<1>n. n \in Nat /\ outer + 1 <= n /\ inner + 1 <= n /\ outer + 1 \in Nat
  BY <1>1
<1>2. calls[stage] <= outer * n + inner BY DEF Inv, Counting, Used
<1>b. Budget = n * (IF req.structured THEN n ELSE 1) BY DEF Budget
<1>0. ~req.structured => outer = 0 BY DEF Inv, Counting
<1> HIDE DEF n
<1>3. (outer + 1) * n = outer * n + n /\ outer * n \in Nat /\ (outer + 1) * n \in Nat
  BY <1>1, <1>n, SMT
<1>4. calls[stage] + 1 <= (outer + 1) * n BY <1>1, <1>n, <1>2, <1>3
<1>5. (outer + 1) * n <= n * n /\ n * n \in Nat
  <2>1. n * n \in Nat BY <1>n, SMT
  <2> QED BY <1>n, <2>1, Monotonic
<1>6. CASE req.structured
  <2>1. Budget = n * n BY <1>6, <1>b
  <2> QED BY <1>1, <1>3, <1>4, <1>5, <2>1 DEF n
<1>7. CASE ~req.structured
  <2>1. Budget = n BY <1>7, <1>b, <1>n, SMT
  <2>2. (outer + 1) * n = n BY <1>7, <1>0, <1>n, SMT
  <2> QED BY <1>1, <1>n, <1>4, <2>1, <2>2 DEF n
<1> QED BY <1>6, <1>7

-----------------------------------------------------------------------------
(* The invariant. *)

LEMMA InitInv == Init => Inv
<1> SUFFICES ASSUME Init PROVE Inv OBVIOUS
<1>1. TypeOK
  <2>1. req \in [structured : BOOLEAN, image : BOOLEAN, override : Overrides]
    BY DEF Init, Overrides
  <2>2. keySet \in BOOLEAN /\ refused \in BOOLEAN BY DEF Init
  <2>3. calls \in [Services -> Nat] BY DEF Init
  <2>4. outer \in 0..MaxRetry /\ inner \in 0..MaxRetry /\ requests \in 0..MaxRequests
    BY LlmAssumption DEF Init
  <2> QED BY <2>1, <2>2, <2>3, <2>4 DEF Init, TypeOK, Overrides
<1>2. MaxRetry + 1 \in Nat /\ (MaxRetry + 1) * 1 = MaxRetry + 1 BY LlmAssumption, SMT
<1>3. CallBudget BY <1>2 DEF Init, CallBudget, Budget, Services
<1>4. Counting BY <1>3 DEF Init, Counting, Services
<1>5. Ending BY DEF Init, Ending, FallbackAsked, Services
<1> QED BY <1>1, <1>4, <1>5 DEF Inv

\* A new request starts from nothing.
LEMMA RequestInv == TypeOK /\ Request => Inv'
<1> SUFFICES ASSUME TypeOK, Request PROVE Inv' OBVIOUS
<1>1. stage' = First /\ First \in Services /\ req' \in Requests BY DEF Request, First, Services
<1>2. req' \in [structured : BOOLEAN, image : BOOLEAN, override : Overrides]
  BY <1>1 DEF Requests
<1>3. TypeOK'
  <2>1. keySet' \in BOOLEAN /\ refused' \in BOOLEAN BY DEF Request, TypeOK
  <2>2. calls' \in [Services -> Nat] BY DEF Request
  <2>3. outer' \in 0..MaxRetry /\ inner' \in 0..MaxRetry /\ requests' \in 0..MaxRequests
    BY LlmAssumption DEF Request, TypeOK
  <2>4. model' \in Overrides
    BY <1>2 DEF Request, ResolveGemini, ResolveOllama, Overrides
  <2> QED BY <1>1, <1>2, <2>1, <2>2, <2>3, <2>4 DEF Request, TypeOK, Overrides
<1>4. (MaxRetry + 1) * (MaxRetry + 1) \in Nat /\ (MaxRetry + 1) * 1 \in Nat
  <2>1. MaxRetry + 1 \in Nat BY LlmAssumption
  <2> QED BY <2>1, SMT
<1>5. Budget' \in Nat BY <1>2, <1>4 DEF Budget
<1>6. CallBudget' BY <1>5 DEF Request, CallBudget, Services
<1>7. 0 * (MaxRetry + 1) + 0 = 0 BY LlmAssumption, SMT
<1>8. Used' = 0 BY <1>7 DEF Request, Used
<1>9. Counting' BY <1>1, <1>6, <1>8 DEF Request, Counting, Services
<1>10. Ending' BY <1>1 DEF Request, Ending, FallbackAsked, Services
<1> QED BY <1>3, <1>9, <1>10 DEF Inv

\* The provider gives up: the counts of both services are within the budget.
LEMMA RaiseInv ==
  ASSUME Inv, stage \in Services, Raise, UNCHANGED <<keySet, req, requests>>,
         calls' \in [Services -> Nat], CallBudget',
         \A s \in Services \ {stage} : calls'[s] = calls[s],
         stage = "gemini" => refused' \in BOOLEAN,
         stage = "ollama" => refused' = refused /\ calls'["ollama"] > 0,
         exhausted' \in Overrides \cup {"lite"}
  PROVE  Inv'
<1>1. req \in [structured : BOOLEAN, image : BOOLEAN, override : Overrides]
      /\ refused \in BOOLEAN /\ outer \in 0..MaxRetry /\ inner \in 0..MaxRetry
      /\ model \in Overrides \cup {"lite"} /\ keySet \in BOOLEAN /\ requests \in 0..MaxRequests
  BY DEF Inv, TypeOK
<1>2. LocalModel \in Overrides
  BY <1>1 DEF LocalModel, ResolveOllama, FallbackOverride, Overrides
<1>3. CASE stage = "gemini" /\ Provider = "hybrid"
  <2>1. stage' = "ollama" /\ outer' = 0 /\ inner' = 0 /\ model' = LocalModel /\ result' = result
    BY <1>3 DEF Raise
  <2>2. result = "none" /\ calls["ollama"] = 0 BY <1>3 DEF Inv, Ending, Counting, Services
  <2>3. TypeOK' BY <1>1, <1>2, <1>3, <2>1, <2>2, LlmAssumption DEF TypeOK, Services
  <2>4. calls'["ollama"] = 0 BY <1>3, <2>2 DEF Services
  <2>5. Used' = 0
    <3>1. 0 * (MaxRetry + 1) + 0 = 0 BY LlmAssumption, SMT
    <3> QED BY <2>1, <3>1 DEF Used
  <2>6. Counting' BY <2>1, <2>4, <2>5 DEF Counting, Services
  <2>7. Ending' BY <2>1, <2>2 DEF Ending, FallbackAsked, Services
  <2> QED BY <2>3, <2>6, <2>7 DEF Inv
<1>4. CASE ~(stage = "gemini" /\ Provider = "hybrid")
  <2>1. stage' = "done" /\ result' = "failure" /\ UNCHANGED <<outer, inner, model>>
    BY <1>4 DEF Raise
  <2>2. refused' \in BOOLEAN BY <1>1 DEF Services
  <2>3. TypeOK' BY <1>1, <2>1, <2>2 DEF TypeOK, Services
  <2>4. Counting' BY <2>1 DEF Counting, Services
  <2>5. Ending' BY <1>4, <2>1 DEF Ending, FallbackAsked, Services
  <2> QED BY <2>3, <2>4, <2>5 DEF Inv
<1> QED BY <1>3, <1>4

\* A call: one more of this service, none of the other, within the budget.
LEMMA CallCounts ==
  ASSUME Inv, NEW s \in Services, Call(s)
  PROVE  /\ stage = s /\ UNCHANGED <<keySet, req, requests>>
         /\ calls' \in [Services -> Nat] /\ calls'[s] = calls[s] + 1 /\ calls'[s] > 0
         /\ \A r \in Services \ {s} : calls'[r] = calls[r]
         /\ CallBudget'
<1>1. stage = s /\ UNCHANGED <<keySet, req, requests>>
      /\ calls' = [calls EXCEPT ![s] = @ + 1] BY DEF Call
<1>2. calls \in [Services -> Nat] BY DEF Inv, TypeOK
<1>3. calls' \in [Services -> Nat] /\ calls'[s] = calls[s] + 1 /\ calls'[s] > 0
      /\ \A r \in Services \ {s} : calls'[r] = calls[r] BY <1>1, <1>2
<1>4. Budget' = Budget BY <1>1 DEF Budget
<1>5. calls[s] + 1 <= Budget BY <1>1, CallFits
<1>6. \A r \in Services : calls[r] <= Budget BY DEF Inv, Counting, CallBudget
<1>7. CallBudget' BY <1>3, <1>4, <1>5, <1>6 DEF CallBudget
<1> QED BY <1>1, <1>3, <1>7

\* An answer for the caller.
LEMMA ReturnInv ==
  ASSUME Inv, NEW s \in Services, Call(s), Return, UNCHANGED <<refused, exhausted>>
  PROVE  Inv'
<1>1. stage' = "done" /\ result' = "answer" /\ UNCHANGED <<outer, inner, model>> BY DEF Return
<1>2. TypeOK' BY <1>1, CallCounts DEF Inv, TypeOK
<1>3. Counting' BY <1>1, CallCounts DEF Counting, Services
<1>4. Ending' BY <1>1 DEF Ending, FallbackAsked, Services
<1> QED BY <1>2, <1>3, <1>4 DEF Inv

\* A call after which the provider gives up.
LEMMA CallRaiseInv ==
  ASSUME Inv, NEW s \in Services, Call(s), Raise,
         s = "gemini" => refused' \in BOOLEAN,
         s = "ollama" => refused' = refused,
         exhausted' \in Overrides \cup {"lite"}
  PROVE  Inv'
BY CallCounts, RaiseInv

\* The inner loop goes on, or the provider gives up.
LEMMA NextAttemptInv ==
  ASSUME Inv, NEW s \in Services, Call(s), NEW next \in Overrides \cup {"lite"},
         NextAttempt(next), UNCHANGED refused, exhausted' \in Overrides \cup {"lite"}
  PROVE  Inv'
<1>0. refused \in BOOLEAN BY DEF Inv, TypeOK
<1>1. CASE ~(inner < MaxRetry)
  <2>1. Raise BY <1>1 DEF NextAttempt
  <2> QED BY <1>0, <2>1, CallRaiseInv
<1>2. CASE inner < MaxRetry
  <2>1. inner' = inner + 1 /\ model' = next /\ UNCHANGED <<stage, outer, result>>
    BY <1>2 DEF NextAttempt
  <2>2. inner' \in 0..MaxRetry BY <1>2, <2>1, LlmAssumption DEF Inv, TypeOK
  <2>3. TypeOK' BY <2>1, <2>2, CallCounts DEF Inv, TypeOK
  <2>4. calls'[s] <= Used'
    <3>1. calls[s] <= Used BY CallCounts DEF Inv, Counting
    <3>2. Used' = Used + 1
      <4>1. outer \in Nat /\ inner \in Nat /\ outer' = outer BY <2>1 DEF Inv, TypeOK
      <4>2. outer * (MaxRetry + 1) \in Int
        <5>1. MaxRetry + 1 \in Int BY LlmAssumption
        <5> QED BY <4>1, <5>1, SMT
      <4> QED BY <2>1, <4>1, <4>2 DEF Used
    <3>3. Used \in Int /\ calls[s] \in Int
      <4>1. outer \in Int /\ inner \in Int /\ MaxRetry + 1 \in Int /\ calls[s] \in Int
        BY LlmAssumption DEF Inv, TypeOK
      <4> QED BY <4>1, SMT DEF Used
    <3> QED BY <3>1, <3>2, <3>3, CallCounts
  <2>5. Counting'
    <3>1. stage' = s BY <2>1, CallCounts
    <3>2. stage' = "gemini" => calls'["ollama"] = 0
      BY <2>1, CallCounts DEF Inv, Counting, Services
    <3>3. ~req'.structured => outer' = 0 BY <2>1, CallCounts DEF Inv, Counting
    <3> QED BY <2>4, <3>1, <3>2, <3>3, CallCounts DEF Counting
  <2>6. Ending' BY <2>1, CallCounts DEF Inv, Ending, FallbackAsked
  <2> QED BY <2>3, <2>5, <2>6 DEF Inv
<1> QED BY <1>1, <1>2

\* The text is asked for again, with the calls so far below the new count of attempts.
LEMMA ReparseInv ==
  ASSUME Inv, NEW s \in Services, Call(s), req.structured, Reparse,
         UNCHANGED <<refused, exhausted>>
  PROVE  Inv'
<1>0. refused \in BOOLEAN /\ exhausted \in Overrides \cup {"lite"} BY DEF Inv, TypeOK
<1>1. CASE ~(outer < MaxRetry)
  <2>1. Raise BY <1>1 DEF Reparse
  <2> QED BY <1>0, <2>1, CallRaiseInv
<1>2. CASE outer < MaxRetry
  <2>1. outer' = outer + 1 /\ inner' = 0 /\ UNCHANGED <<stage, result>>
        /\ model' = IF stage = "gemini" THEN ResolveGemini ELSE LocalModel
    BY <1>2 DEF Reparse
  <2>2. model' \in Overrides
    <3>1. req \in [structured : BOOLEAN, image : BOOLEAN, override : Overrides]
      BY DEF Inv, TypeOK
    <3> QED BY <2>1, <3>1
           DEF ResolveGemini, LocalModel, ResolveOllama, FallbackOverride, Overrides
  <2>3. outer' \in 0..MaxRetry /\ inner' \in 0..MaxRetry
    BY <1>2, <2>1, LlmAssumption DEF Inv, TypeOK
  <2>4. TypeOK' BY <2>1, <2>2, <2>3, CallCounts DEF Inv, TypeOK
  <2>5. calls'[s] <= Used'
    <3>1. calls[s] + 1 <= (outer + 1) * (MaxRetry + 1) BY CallFits, CallCounts
    <3>2. outer + 1 \in Int /\ MaxRetry + 1 \in Int BY LlmAssumption DEF Inv, TypeOK
    <3>3. (outer + 1) * (MaxRetry + 1) \in Int BY <3>2, SMT
    <3> QED BY <2>1, <3>1, <3>3, CallCounts DEF Used
  <2>6. Counting'
    <3>1. stage' = s /\ req'.structured BY <2>1, CallCounts
    <3>2. stage' = "gemini" => calls'["ollama"] = 0
      BY <2>1, CallCounts DEF Inv, Counting, Services
    <3> QED BY <2>5, <3>1, <3>2, CallCounts DEF Counting
  <2>7. Ending' BY <2>1, CallCounts DEF Inv, Ending, FallbackAsked
  <2> QED BY <2>4, <2>6, <2>7 DEF Inv
<1> QED BY <1>1, <1>2

LEMMA NextInv == Inv /\ [Next]_vars => Inv'
<1> SUFFICES ASSUME Inv, [Next]_vars PROVE Inv' OBVIOUS
<1>0. /\ "gemini" \in Services /\ "ollama" \in Services
      /\ model \in Overrides \cup {"lite"} /\ "lite" \in Overrides \cup {"lite"}
      /\ exhausted \in Overrides \cup {"lite"} /\ refused \in BOOLEAN
      /\ calls \in [Services -> Nat]
  BY DEF Inv, TypeOK, Services
<1>1. CASE Request BY <1>1, RequestInv DEF Inv
<1>2. CASE NoKey
  <2>1. Budget' = Budget BY <1>2 DEF NoKey, Budget
  <2>2. CallBudget' BY <1>2, <2>1 DEF NoKey, CallBudget, Inv, Counting
  <2> QED BY <1>0, <1>2, <2>2, RaiseInv DEF NoKey
<1>3. CASE GeminiText
  <2>1. Call("gemini") /\ UNCHANGED <<refused, exhausted>> /\ (Return \/ (req.structured /\ Reparse))
    BY <1>3 DEF GeminiText, GeminiCall
  <2> QED BY <1>0, <2>1, ReturnInv, ReparseInv
<1>4. CASE GeminiTimeout \/ GeminiError
  <2>1. Call("gemini") /\ UNCHANGED <<refused, exhausted>> /\ NextAttempt(model)
    BY <1>4 DEF GeminiTimeout, GeminiError, GeminiCall
  <2> QED BY <1>0, <2>1, NextAttemptInv
<1>5. CASE GeminiQuota
  <2>1. Call("gemini") /\ UNCHANGED refused /\ NextAttempt("lite")
        /\ exhausted' \in Overrides \cup {"lite"}
    BY <1>0, <1>5 DEF GeminiQuota, GeminiCall
  <2> QED BY <1>0, <2>1, NextAttemptInv
<1>6. CASE GeminiAuth
  <2>1. Call("gemini") /\ refused' = TRUE /\ Raise /\ exhausted' = exhausted
    BY <1>6 DEF GeminiAuth, GeminiCall
  <2> QED BY <1>0, <2>1, CallRaiseInv
<1>7. CASE OllamaText
  <2>1. Call("ollama") /\ UNCHANGED <<refused, exhausted>> /\ (Return \/ (req.structured /\ Reparse))
    BY <1>7 DEF OllamaText
  <2> QED BY <1>0, <2>1, ReturnInv, ReparseInv
<1>8. CASE OllamaUnreachable BY <1>0, <1>8, NextAttemptInv DEF OllamaUnreachable
<1>9. CASE OllamaRefuses BY <1>0, <1>9, CallRaiseInv DEF OllamaRefuses
<1>10. CASE UNCHANGED vars
  <2>1. TypeOK' BY <1>10 DEF vars, Inv, TypeOK
  <2>2. Counting' BY <1>10 DEF vars, Inv, Counting, CallBudget, Budget, Used
  <2>3. Ending' BY <1>10 DEF vars, Inv, Ending, FallbackAsked
  <2> QED BY <2>1, <2>2, <2>3 DEF Inv
<1> QED BY <1>1, <1>2, <1>3, <1>4, <1>5, <1>6, <1>7, <1>8, <1>9, <1>10 DEF Next, Step

LEMMA Invariance == Spec => []Inv
<1> QED BY InitInv, NextInv, PTL DEF Spec

-----------------------------------------------------------------------------
(* The theorems. *)

\* Every variable keeps its type.
THEOREM LlmTypeCorrect == Spec => []TypeOK
<1>1. Inv => TypeOK BY DEF Inv
<1> QED BY <1>1, Invariance, PTL

\* One request calls a service at most (R+1)^2 times, R+1 times without a schema, and
\* within one attempt of the outer loop R+1 times: an outage is never multiplied by the
\* retries of the parser (gateway.py, gemini.py).
LEMMA CallsFit == Inv => CallsAreBounded
<1>1. Inv => CallBudget BY DEF Inv, Counting
<1>2. Inv => OutageBudget
  <2> SUFFICES ASSUME Inv, stage \in Services PROVE calls[stage] <= (outer + 1) * (MaxRetry + 1)
    BY DEF OutageBudget
  <2>1. calls[stage] + 1 <= (outer + 1) * (MaxRetry + 1) BY CallFits
  <2>2. calls[stage] \in Int /\ outer + 1 \in Int /\ MaxRetry + 1 \in Int
    BY LlmAssumption DEF Inv, TypeOK
  <2>3. (outer + 1) * (MaxRetry + 1) \in Int BY <2>2, SMT
  <2> QED BY <2>1, <2>2, <2>3
<1> QED BY <1>1, <1>2 DEF CallsAreBounded

\* For every R, a request calls a service at most (R+1)^2 times, and R+1 times in every
\* round of the outer loop: the two loops of retries do not multiply further.
THEOREM LlmCallsAreBounded == Spec => []CallsAreBounded
BY CallsFit, Invariance, PTL

\* The hybrid provider reports a failure only after Ollama was asked.
THEOREM LlmFallbackAsked == Spec => []FallbackAsked
<1>1. Inv => FallbackAsked BY DEF Inv, Ending
<1> QED BY <1>1, Invariance, PTL

LEMMA RefusedIsFinalStep ==
  Inv /\ [Next]_vars => [refused /\ refused' => calls'["gemini"] = calls["gemini"]]_vars
<1> SUFFICES ASSUME Inv, Next, refused, refused' PROVE calls'["gemini"] = calls["gemini"]
  BY DEF vars
<1>1. stage # "gemini" BY DEF Inv, Ending
<1>2. CASE Request BY <1>2 DEF Request
<1>3. CASE Call("ollama") BY <1>3, CallCounts DEF Services
<1> QED BY <1>1, <1>2, <1>3
       DEF Next, Step, NoKey, GeminiText, GeminiTimeout, GeminiError, GeminiQuota, GeminiAuth,
           GeminiCall, Call, OllamaText, OllamaUnreachable, OllamaRefuses

\* After Gemini has refused the key no step calls it for the same request.
THEOREM LlmRefusedKeyIsFinal == Spec => RefusedKeyIsFinal
BY RefusedIsFinalStep, Invariance, PTL DEF Spec, RefusedKeyIsFinal

\* The attempts that the loops of the services still admit: Gemini may be followed by Ollama.
AllAttempts == (MaxRetry + 1) * (MaxRetry + 1)
AttemptsLeft ==
  CASE stage = "gemini" -> AllAttempts + AllAttempts - Used
    [] stage = "ollama" -> AllAttempts - Used
    [] OTHER -> 0

LEMMA UsedFits ==
  ASSUME TypeOK
  PROVE  /\ Used \in Nat /\ AllAttempts \in Nat /\ Used + 1 <= AllAttempts
         /\ (outer + 1) * (MaxRetry + 1) \in Nat /\ Used + 1 <= (outer + 1) * (MaxRetry + 1) + inner
         /\ inner <= MaxRetry => Used + 1 <= (outer + 1) * (MaxRetry + 1)
<1> DEFINE n == MaxRetry + 1
<1>1. /\ n \in Nat /\ outer \in Nat /\ inner \in Nat /\ outer + 1 \in Nat
      /\ outer + 1 <= n /\ inner + 1 <= n /\ n >= 1
  BY LlmAssumption DEF TypeOK
<1>2. Used = outer * n + inner /\ AllAttempts = n * n
  BY DEF Used, AllAttempts
<1> HIDE DEF n
<1>3. (outer + 1) * n = outer * n + n /\ outer * n \in Nat /\ (outer + 1) * n \in Nat /\ n * n \in Nat
  BY <1>1, SMT
<1>4. (outer + 1) * n <= n * n
  BY <1>1, Monotonic
<1> DEFINE a == outer * n
           b == (outer + 1) * n
           c == n * n
<1>5. b = a + n /\ a \in Nat /\ b \in Nat /\ c \in Nat /\ b <= c /\ Used = a + inner /\ AllAttempts = c
  BY <1>2, <1>3, <1>4
<1> HIDE DEF a, b, c
<1>6. Used \in Nat /\ AllAttempts \in Nat /\ Used + 1 <= AllAttempts /\ b \in Nat /\ Used + 1 <= b
  BY <1>1, <1>5
<1>7. Used + 1 <= b + inner
  BY <1>1, <1>6
<1> QED BY <1>6, <1>7 DEF b, n

\* What a step of the request does: it ends, it turns to Ollama, or one of the loops goes on.
LEMMA StepGoesOn ==
  ASSUME TypeOK, Step
  PROVE  /\ stage \in Services
         /\ \/ stage' = "done"
            \/ stage = "gemini" /\ stage' = "ollama" /\ outer' = 0 /\ inner' = 0
            \/ stage' = stage /\ outer' = outer /\ inner' = inner + 1
            \/ stage' = stage /\ outer' = outer + 1 /\ inner' = 0
<1>1. stage \in Services
  BY DEF Step, NoKey, GeminiText, GeminiTimeout, GeminiError, GeminiQuota, GeminiAuth, GeminiCall,
         OllamaText, OllamaUnreachable, OllamaRefuses, Call, Services
<1>2. Return \/ Raise \/ Reparse \/ \E next : NextAttempt(next)
  BY DEF Step, NoKey, GeminiText, GeminiTimeout, GeminiError, GeminiQuota, GeminiAuth, GeminiCall,
         OllamaText, OllamaUnreachable, OllamaRefuses
<1> QED BY <1>1, <1>2 DEF Return, Raise, Reparse, NextAttempt

LEMMA StepUses ==
  ASSUME TypeOK, TypeOK', Step
  PROVE  AttemptsLeft' < AttemptsLeft
<1> DEFINE all == AllAttempts
           used == Used
           used2 == Used'
<1>1. /\ used \in Nat /\ all \in Nat /\ used + 1 <= all /\ inner <= MaxRetry
      /\ used + 1 <= (outer + 1) * (MaxRetry + 1)
  <2>1. inner <= MaxRetry
    BY LlmAssumption DEF TypeOK
  <2> QED BY <2>1, UsedFits
<1>2. AllAttempts' = all
  BY DEF AllAttempts
<1>3. /\ stage = "gemini" => AttemptsLeft = all + all - used
      /\ stage = "ollama" => AttemptsLeft = all - used
      /\ stage' = "gemini" => AttemptsLeft' = all + all - used2
      /\ stage' = "ollama" => AttemptsLeft' = all - used2
      /\ stage' = "done" => AttemptsLeft' = 0
  BY <1>2 DEF AttemptsLeft
<1>4. stage \in {"gemini", "ollama"}
  BY StepGoesOn DEF Services
<1>5. CASE stage' = "done"
  <2> HIDE DEF all, used, used2
  <2> QED BY <1>1, <1>3, <1>4, <1>5
<1>6. CASE stage = "gemini" /\ stage' = "ollama" /\ outer' = 0 /\ inner' = 0
  <2>1. used2 = 0
    <3>1. 0 * (MaxRetry + 1) + 0 = 0
      BY LlmAssumption, SMT
    <3> QED BY <1>6, <3>1 DEF Used
  <2> HIDE DEF all, used, used2
  <2> QED BY <1>1, <1>3, <1>6, <2>1
<1>7. CASE stage' = stage /\ outer' = outer /\ inner' = inner + 1
  <2>1. used2 = used + 1
    <3> DEFINE a == outer * (MaxRetry + 1)
    <3>1. a \in Nat /\ inner \in Nat
      <4>1. outer \in Nat /\ MaxRetry + 1 \in Nat /\ inner \in Nat
        BY LlmAssumption DEF TypeOK
      <4> QED BY <4>1, SMT
    <3>2. used = a + inner /\ used2 = a + inner'
      BY <1>7 DEF Used
    <3> HIDE DEF a, used, used2
    <3> QED BY <1>7, <3>1, <3>2
  <2> HIDE DEF all, used, used2
  <2> QED BY <1>1, <1>3, <1>4, <1>7, <2>1
<1>8. CASE stage' = stage /\ outer' = outer + 1 /\ inner' = 0
  <2>1. used2 >= used + 1 /\ used2 \in Nat
    <3> DEFINE b == (outer + 1) * (MaxRetry + 1)
    <3>1. used2 = b + 0 /\ b \in Nat
      BY <1>8, UsedFits DEF Used
    <3>2. used + 1 <= b
      BY <1>1
    <3> HIDE DEF b, used, used2
    <3> QED BY <1>1, <3>1, <3>2
  <2> HIDE DEF all, used, used2
  <2> QED BY <1>1, <1>3, <1>4, <1>8, <2>1
<1> QED BY <1>5, <1>6, <1>7, <1>8, StepGoesOn

\* A request ends after at most 2 * (R + 1)^2 answers: each one, also a refusal, a text that
\* cannot be parsed and the change to the other service, uses up an attempt (gateway.py,
\* gemini.py, hybrid.py).  What RequestEnds says under fairness follows from this.
THEOREM LlmRequestsEnd ==
  Spec => /\ [](/\ AttemptsLeft \in 0..2 * ((MaxRetry + 1) * (MaxRetry + 1))
                /\ stage \in Services => AttemptsLeft > 0)
          /\ [][(stage \in Services) => AttemptsLeft' < AttemptsLeft]_vars
<1> DEFINE Bounded == /\ AttemptsLeft \in 0..2 * ((MaxRetry + 1) * (MaxRetry + 1))
                      /\ stage \in Services => AttemptsLeft > 0
<1>1. TypeOK => Bounded
  <2> SUFFICES ASSUME TypeOK PROVE Bounded
    OBVIOUS
  <2> DEFINE all == (MaxRetry + 1) * (MaxRetry + 1)
  <2>1. Used \in Nat /\ all \in Nat /\ Used + 1 <= all
    BY UsedFits DEF AllAttempts
  <2>2. /\ stage = "gemini" => AttemptsLeft = all + all - Used
        /\ stage = "ollama" => AttemptsLeft = all - Used
        /\ stage \notin {"gemini", "ollama"} => AttemptsLeft = 0
    BY DEF AttemptsLeft, AllAttempts
  <2> HIDE DEF all
  <2>3. AttemptsLeft \in 0..2 * all /\ (stage \in Services => AttemptsLeft > 0)
    BY <2>1, <2>2 DEF Services
  <2> QED BY <2>3 DEF all
<1>2. Inv /\ Inv' /\ [Next]_vars => [(stage \in Services) => AttemptsLeft' < AttemptsLeft]_vars
  <2> SUFFICES ASSUME Inv, Inv', Next, stage \in Services PROVE AttemptsLeft' < AttemptsLeft
    OBVIOUS
  <2>1. Step
    BY DEF Next, Request, Services
  <2> QED BY <2>1, StepUses DEF Inv
<1>3. Inv => TypeOK
  BY DEF Inv
<1> HIDE DEF Bounded
<1>4. Spec => []Bounded /\ [][(stage \in Services) => AttemptsLeft' < AttemptsLeft]_vars
  BY <1>1, <1>2, <1>3, InitInv, NextInv, PTL DEF Spec
<1> QED BY <1>4 DEF Bounded

-----------------------------------------------------------------------------
(* The launcher.                                                             *)

\* The services that shutdown() is to end; it keeps Ollama.
Children == Main!Services \ {"ollama"}

Places ==
  ({"start", "record", "wait"} \X Main!Services) \cup
    {Main!Clear, Main!ClearAgain, Main!Manage, Main!Stop, Main!Leave, Main!Off, Main!Gone}

LauncherTypes ==
  /\ pc \in [Launchers -> Places] /\ flag \in [Launchers -> BOOLEAN]
  /\ tracked \in [Launchers -> SUBSET Main!Services]
  /\ todo \in [Launchers -> SUBSET Main!Services]
  /\ lost \in [Launchers -> SUBSET Main!Services]
  /\ proc \in [Launchers -> [Main!Services -> Main!States]]

\* All children that run are in this set of names or were never recorded.
Within(l, names) == \A s \in Children : Main!Alive(l, s) => s \in lost[l] \/ s \in names

\* Whatever runs is recorded; a shutdown() that is running has yet to end it; one that is
\* over and was not interrupted has left nothing of it.
Accounted(l) ==
  /\ Within(l, tracked[l])
  /\ pc[l] = Main!Stop /\ flag[l] => Within(l, todo[l])
  /\ pc[l] = Main!Gone /\ l \notin cut => Within(l, {})

\* No child of l runs that did not run before.
Fewer(l) == \A s \in Children : Main!Alive(l, s)' => Main!Alive(l, s)

LEMMA LauncherTypesInit == Main!Init => LauncherTypes
BY DEF Main!Init, LauncherTypes, Places, Main!States, Main!Services, Main!Off

LEMMA AfterTyped ==
  ASSUME NEW l \in Launchers, NEW s \in Main!Services
  PROVE  Main!After(l, s) \in Places
BY DEF Main!After, Places, Main!Begin, Main!Services, Main!Manage

LEMMA FreedTyped ==
  ASSUME LauncherTypes, NEW l \in Launchers
  PROVE  Main!Freed(l) \in [Launchers -> [Main!Services -> Main!States]]
BY DEF LauncherTypes, Main!Freed, Main!States

LEMMA LauncherTypesStep ==
  ASSUME LauncherTypes, [Main!Next]_(Main!vars)
  PROVE  LauncherTypes'
<1>1. CASE UNCHANGED Main!vars
  BY <1>1 DEF LauncherTypes, Main!vars, Main!control
<1>2. ASSUME NEW l \in Launchers,
             \/ Main!Start(l) \/ Main!TooOld(l) \/ Main!InstallFails(l) \/ Main!AtExit(l)
             \/ Main!Supervise(l) \/ Main!Quit(l) \/ Main!Restart(l) \/ Main!Signal(l)
      PROVE  LauncherTypes'
  <2>1. UNCHANGED <<flag, todo, tracked, proc, lost>>
    BY <1>2 DEF Main!Start, Main!TooOld, Main!InstallFails, Main!AtExit, Main!Supervise, Main!Quit,
                Main!Restart, Main!Signal
  <2>2. \E p \in Places : pc' = [pc EXCEPT ![l] = p]
    BY <1>2 DEF Main!Start, Main!TooOld, Main!InstallFails, Main!AtExit, Main!Supervise, Main!Quit,
                Main!Restart, Main!Signal, Main!Go, Places
  <2> QED BY <2>1, <2>2 DEF LauncherTypes
<1>3. ASSUME NEW l \in Launchers, NEW s \in Main!Services, Main!Skip(l, s) \/ Main!Waited(l, s)
      PROVE  LauncherTypes'
  <2>1. UNCHANGED <<flag, todo, tracked, proc, lost>> /\ pc' = [pc EXCEPT ![l] = Main!After(l, s)]
    BY <1>3 DEF Main!Skip, Main!Waited, Main!Go
  <2> QED BY <2>1, AfterTyped DEF LauncherTypes
<1>4. ASSUME NEW l \in Launchers, NEW s \in Main!Services, Main!Spawn(l, s) PROVE LauncherTypes'
  <2>1. /\ UNCHANGED <<flag, todo, tracked>> /\ pc' = [pc EXCEPT ![l] = Main!Record(s)]
        /\ proc' = [proc EXCEPT ![l] = [proc[l] EXCEPT ![s] = "booting"]]
        /\ lost' = [lost EXCEPT ![l] = lost[l] \cup {s}]
    BY <1>4 DEF Main!Spawn, Main!Go
  <2>2. Main!Record(s) \in Places
    BY DEF Main!Record, Places
  <2>3. [proc[l] EXCEPT ![s] = "booting"] \in [Main!Services -> Main!States]
    BY DEF LauncherTypes, Main!States
  <2> QED BY <2>1, <2>2, <2>3 DEF LauncherTypes
<1>5. ASSUME NEW l \in Launchers, NEW s \in Main!Services, Main!Recorded(l, s) PROVE LauncherTypes'
  <2>1. /\ UNCHANGED <<flag, todo, proc>> /\ pc' = [pc EXCEPT ![l] = Main!Wait(s)]
        /\ tracked' = [tracked EXCEPT ![l] = tracked[l] \cup {s}]
        /\ lost' = [lost EXCEPT ![l] = lost[l] \ {s}]
    BY <1>5 DEF Main!Recorded, Main!Go
  <2>2. Main!Wait(s) \in Places
    BY DEF Main!Wait, Places
  <2> QED BY <2>1, <2>2 DEF LauncherTypes
<1>6. ASSUME NEW l \in Launchers, Main!ClearPorts(l) PROVE LauncherTypes'
  <2>1. UNCHANGED <<flag, todo, tracked, lost>> /\ proc' = Main!Freed(l)
    BY <1>6 DEF Main!ClearPorts
  <2>2. \E p \in Places : pc' = [pc EXCEPT ![l] = p]
    BY <1>6 DEF Main!ClearPorts, Main!Go, Main!Begin, Main!Services, Places
  <2> QED BY <2>1, <2>2, FreedTyped DEF LauncherTypes
<1>7. ASSUME NEW l \in Launchers, Main!Shutdown(l) PROVE LauncherTypes'
  <2>1. /\ UNCHANGED <<pc, tracked, proc, lost>> /\ flag' = [flag EXCEPT ![l] = TRUE]
        /\ todo' = [todo EXCEPT ![l] = tracked[l] \ {"ollama"}]
    BY <1>7 DEF Main!Shutdown, Main!Enter
  <2> QED BY <2>1 DEF LauncherTypes
<1>8. ASSUME NEW l \in Launchers, Main!EndChild(l) PROVE LauncherTypes'
  <2>1. PICK s \in todo[l] : /\ proc' = [proc EXCEPT ![l] = [proc[l] EXCEPT ![s] = "dead"]]
                             /\ todo' = [todo EXCEPT ![l] = todo[l] \ {s}]
    BY <1>8 DEF Main!EndChild
  <2>2. UNCHANGED <<pc, flag, tracked, lost>>
    BY <1>8 DEF Main!EndChild
  <2>3. [proc[l] EXCEPT ![s] = "dead"] \in [Main!Services -> Main!States]
    BY DEF LauncherTypes, Main!States
  <2> QED BY <2>1, <2>2, <2>3 DEF LauncherTypes
<1>9. ASSUME NEW l \in Launchers, Main!Finish(l) PROVE LauncherTypes'
  <2>1. /\ UNCHANGED <<todo, lost>> /\ proc' = Main!Freed(l)
        /\ tracked' = [tracked EXCEPT ![l] = {}] /\ flag' = [flag EXCEPT ![l] = FALSE]
    BY <1>9 DEF Main!Finish, Main!FlagAfter
  <2>2. \E p \in Places : pc' = [pc EXCEPT ![l] = p]
    BY <1>9 DEF Main!Finish, Main!Go, Places
  <2> QED BY <2>1, <2>2, FreedTyped DEF LauncherTypes
<1>10. ASSUME NEW l \in Launchers, NEW s \in Main!Services, Main!Listen(l, s) \/ Main!Dies(l, s)
       PROVE  LauncherTypes'
  <2>1. UNCHANGED <<pc, flag, todo, tracked, lost>>
    BY <1>10 DEF Main!Listen, Main!Dies, Main!control
  <2>2. \E p \in Main!States : proc' = [proc EXCEPT ![l] = [proc[l] EXCEPT ![s] = p]]
    BY <1>10 DEF Main!Listen, Main!Dies, Main!States
  <2>3. \A p \in Main!States : [proc[l] EXCEPT ![s] = p] \in [Main!Services -> Main!States]
    BY DEF LauncherTypes
  <2> QED BY <2>1, <2>2, <2>3 DEF LauncherTypes
<1> QED BY <1>1, <1>2, <1>3, <1>4, <1>5, <1>6, <1>7, <1>8, <1>9, <1>10 DEF Main!Next, Main!LauncherStep

\* A flag that is up belongs to a shutdown() that is running, or to one that a signal
\* ended; that launcher is leaving.
FlagUp(l) ==
  flag[l] => pc[l] = Main!Stop \/ (l \in cut /\ pc[l] \in {Main!Leave, Main!Gone})

\* A step of somebody else: it may end services, and starts none of l's.
Rests(l) ==
  /\ pc'[l] = pc[l] /\ flag'[l] = flag[l] /\ todo'[l] = todo[l] /\ tracked'[l] = tracked[l]
  /\ lost'[l] = lost[l] /\ (l \in cut' <=> l \in cut) /\ Fewer(l)

\* A step of l outside shutdown() and before a signal.
Moves(l) ==
  /\ flag'[l] = flag[l] /\ todo'[l] = todo[l] /\ tracked'[l] = tracked[l] /\ lost'[l] = lost[l]
  /\ (l \in cut' <=> l \in cut) /\ Fewer(l)
  /\ \/ pc[l] \notin {Main!Stop, Main!Leave, Main!Gone} /\ pc'[l] # Main!Gone
     \/ pc[l] = Main!Leave /\ flag[l] /\ pc'[l] = Main!Gone
     \/ pc[l] = Main!Leave /\ ~flag[l] /\ pc'[l] = Main!Stop

LEMMA RestsKeeps ==
  ASSUME NEW l, Accounted(l), FlagUp(l), Rests(l)
  PROVE  Accounted(l)' /\ FlagUp(l)'
<1>1. \A names : Within(l, names) => \A s \in Children : Main!Alive(l, s)' => s \in lost[l] \/ s \in names
  BY DEF Within, Rests, Fewer
<1>2. FlagUp(l)'
  BY DEF FlagUp, Rests
<1>3. Accounted(l)'
  BY <1>1 DEF Accounted, Rests, Within
<1> QED BY <1>2, <1>3

LEMMA MovesKeeps ==
  ASSUME NEW l, Accounted(l), FlagUp(l), Moves(l)
  PROVE  Accounted(l)' /\ FlagUp(l)'
<1>1. Within(l, tracked[l])'
  BY DEF Accounted, Within, Moves, Fewer
<1>2. ~(pc'[l] = Main!Stop /\ flag'[l]) /\ (pc'[l] = Main!Gone => l \in cut')
  <2>1. \/ ~flag[l] /\ pc'[l] # Main!Gone
        \/ flag[l] /\ pc[l] = Main!Leave /\ pc'[l] = Main!Gone
    <3>1. Main!Stop # Main!Gone /\ Main!Stop # Main!Leave
      BY DEF Main!Stop, Main!Leave, Main!Gone
    <3> QED BY <3>1, Zenon DEF Moves, FlagUp
  <2>2. CASE ~flag[l] /\ pc'[l] # Main!Gone
    <3>1. ~flag'[l]
      BY <2>2, Zenon DEF Moves
    <3> QED BY <2>2, <3>1
  <2>3. CASE flag[l] /\ pc[l] = Main!Leave /\ pc'[l] = Main!Gone
    <3>1. l \in cut'
      BY <2>3 DEF FlagUp, Moves, Main!Stop, Main!Leave
    <3> QED BY <2>3, <3>1 DEF Main!Stop, Main!Gone
  <2> QED BY <2>1, <2>2, <2>3
<1>3. FlagUp(l)'
  BY DEF Moves, FlagUp, Main!Stop, Main!Leave, Main!Gone
<1> QED BY <1>1, <1>2, <1>3 DEF Accounted

LEMMA FreedFewer ==
  ASSUME LauncherTypes, NEW l \in Launchers, NEW m \in Launchers, proc' = Main!Freed(l)
  PROVE  Fewer(m)
BY DEF Fewer, Children, Main!Freed, Main!Alive, LauncherTypes

LEMMA OneFewer ==
  ASSUME LauncherTypes, NEW l \in Launchers, NEW s \in Main!Services, NEW p, NEW m \in Launchers,
         proc' = [proc EXCEPT ![l][s] = p], p = "dead" \/ m # l \/ Main!Alive(l, s)
  PROVE  Fewer(m)
<1> SUFFICES ASSUME NEW t \in Children, Main!Alive(m, t)' PROVE Main!Alive(m, t)
  BY DEF Fewer
<1>1. t \in Main!Services /\ proc'[m][t] \in {"booting", "listening"}
  BY DEF Children, Main!Alive
<1>2. CASE m = l /\ t = s
  BY <1>1, <1>2 DEF LauncherTypes
<1>3. CASE ~(m = l /\ t = s)
  BY <1>1, <1>3 DEF LauncherTypes, Main!Alive
<1> QED BY <1>2, <1>3

\* Whoever moves, the others rest.
LEMMA OthersRest ==
  ASSUME LauncherTypes, NEW l \in Launchers, NEW m \in Launchers, m # l,
         \/ Main!Start(l) \/ Main!LauncherStep(l) \/ Main!Quit(l) \/ Main!Restart(l) \/ Main!Signal(l)
  PROVE  Rests(m)
<1>1. /\ pc'[m] = pc[m] /\ flag'[m] = flag[m] /\ todo'[m] = todo[m] /\ tracked'[m] = tracked[m]
      /\ lost'[m] = lost[m] /\ (m \in cut' <=> m \in cut)
  BY DEF LauncherTypes, Main!LauncherStep, Main!Start, Main!Quit, Main!Restart, Main!Signal,
         Main!ClearPorts, Main!TooOld, Main!Skip, Main!Spawn, Main!Recorded, Main!Waited,
         Main!InstallFails, Main!Shutdown, Main!Enter, Main!EndChild, Main!Finish,
         Main!FlagAfter, Main!AtExit, Main!Supervise, Main!Go
<1>2. Fewer(m)
  <2>1. CASE proc' = proc
    BY <2>1 DEF Fewer, Main!Alive
  <2>2. CASE proc' = Main!Freed(l)
    BY <2>2, FreedFewer
  <2>3. CASE \E s \in Main!Services, p \in {"dead", "booting"} : proc' = [proc EXCEPT ![l][s] = p]
    BY <2>3, OneFewer
  <2>4. CASE Main!EndChild(l)
    <3>1. todo[l] \subseteq Main!Services
      BY DEF LauncherTypes
    <3> QED BY <2>3, <2>4, <3>1 DEF Main!EndChild
  <2> QED
    BY <2>1, <2>2, <2>3, <2>4
       DEF Main!LauncherStep, Main!Start, Main!Quit, Main!Restart, Main!Signal,
           Main!ClearPorts, Main!TooOld, Main!Skip, Main!Spawn, Main!Recorded, Main!Waited,
           Main!InstallFails, Main!Shutdown, Main!Finish, Main!AtExit, Main!Supervise
<1> QED BY <1>1, <1>2 DEF Rests

\* The steps of l itself.
LEMMA OwnStep ==
  ASSUME LauncherTypes, NEW l \in Launchers, Accounted(l), FlagUp(l),
         \/ Main!Start(l) \/ Main!LauncherStep(l) \/ Main!Quit(l) \/ Main!Restart(l) \/ Main!Signal(l)
  PROVE  Accounted(l)' /\ FlagUp(l)'
<1>0. /\ pc \in [Launchers -> Places] /\ flag \in [Launchers -> BOOLEAN]
      /\ tracked \in [Launchers -> SUBSET Main!Services]
      /\ todo \in [Launchers -> SUBSET Main!Services]
      /\ lost \in [Launchers -> SUBSET Main!Services]
  BY DEF LauncherTypes
<1>1. CASE \/ Main!Start(l) \/ Main!TooOld(l) \/ Main!InstallFails(l) \/ Main!Supervise(l)
           \/ Main!Quit(l) \/ Main!Restart(l) \/ Main!AtExit(l)
  <2>1. Fewer(l)
    BY <1>1 DEF Main!Start, Main!TooOld, Main!InstallFails, Main!Supervise, Main!Quit, Main!Restart,
                Main!AtExit, Fewer, Main!Alive
  <2>2. Moves(l)
    BY <1>0, <1>1, <2>1
       DEF Main!Start, Main!TooOld, Main!InstallFails, Main!Supervise, Main!Quit, Main!Restart,
           Main!AtExit, Main!Go, Moves, Main!Stop, Main!Leave, Main!Gone, Main!Off, Main!Clear,
           Main!Manage, Main!Begin
  <2> QED BY <2>2, MovesKeeps
<1>2. CASE \E s \in Main!Services : Main!Skip(l, s) \/ Main!Waited(l, s)
  <2>1. PICK s \in Main!Services : Main!Skip(l, s) \/ Main!Waited(l, s)
    BY <1>2
  <2>2. Fewer(l)
    BY <2>1 DEF Main!Skip, Main!Waited, Fewer, Main!Alive
  <2>3. Main!After(l, s) # Main!Gone
    BY DEF Main!After, Main!Gone, Main!Begin, Main!Manage, Main!Services
  <2>4. pc'[l] = Main!After(l, s) /\ pc[l] \notin {Main!Stop, Main!Leave, Main!Gone}
    BY <1>0, <2>1 DEF Main!Skip, Main!Waited, Main!Go, Main!Begin, Main!Wait, Main!Stop, Main!Leave, Main!Gone
  <2>5. Moves(l)
    BY <1>0, <2>1, <2>2, <2>3, <2>4 DEF Main!Skip, Main!Waited, Moves
  <2> QED BY <2>5, MovesKeeps
<1>3. CASE Main!ClearPorts(l)
  <2>1. Fewer(l)
    BY <1>3, FreedFewer DEF Main!ClearPorts
  <2>2. Moves(l)
    BY <1>0, <1>3, <2>1 DEF Main!ClearPorts, Main!Go, Moves, Main!Stop, Main!Leave, Main!Gone,
                            Main!Clear, Main!ClearAgain, Main!Begin
  <2> QED BY <2>2, MovesKeeps
\* The service runs before it is recorded: until then it counts as lost.
<1>4. CASE \E s \in Main!Services : Main!Spawn(l, s)
  <2>1. PICK s \in Main!Services : Main!Spawn(l, s)
    BY <1>4
  <2>2. /\ UNCHANGED <<flag, tracked, cut>> /\ pc'[l] = Main!Record(s) /\ pc[l] = Main!Begin(s)
        /\ lost'[l] = lost[l] \cup {s}
    BY <1>0, <2>1 DEF Main!Spawn, Main!Go
  <2>3. \A t \in Children : t # s /\ Main!Alive(l, t)' => Main!Alive(l, t)
    BY <2>1 DEF Main!Spawn, Main!Alive, LauncherTypes, Children
  <2>4. Within(l, tracked[l])'
    BY <2>2, <2>3 DEF Within, Accounted
  <2>5. pc'[l] \notin {Main!Stop, Main!Gone} /\ ~flag[l]
    BY <2>2 DEF Main!Record, Main!Begin, Main!Stop, Main!Gone, Main!Leave, FlagUp
  <2> QED BY <2>2, <2>4, <2>5 DEF Accounted, FlagUp
<1>5. CASE \E s \in Main!Services : Main!Recorded(l, s)
  <2>1. PICK s \in Main!Services : Main!Recorded(l, s)
    BY <1>5
  <2>2. /\ UNCHANGED <<flag, proc, cut>> /\ pc'[l] = Main!Wait(s) /\ pc[l] = Main!Record(s)
        /\ lost'[l] = lost[l] \ {s} /\ tracked'[l] = tracked[l] \cup {s}
    BY <1>0, <2>1 DEF Main!Recorded, Main!Go
  <2>3. Within(l, tracked[l])'
    BY <2>2 DEF Within, Accounted, Main!Alive
  <2>4. pc'[l] \notin {Main!Stop, Main!Gone} /\ ~flag[l]
    BY <2>2 DEF Main!Record, Main!Wait, Main!Stop, Main!Gone, Main!Leave, FlagUp
  <2> QED BY <2>2, <2>3, <2>4 DEF Accounted, FlagUp
\* shutdown() takes down every name it knows, ...
<1>6. CASE Main!Shutdown(l)
  <2>1. /\ UNCHANGED <<pc, tracked, lost, proc, cut>> /\ pc[l] = Main!Stop
        /\ todo'[l] = tracked[l] \ {"ollama"}
    BY <1>0, <1>6 DEF Main!Shutdown, Main!Enter
  <2>2. Within(l, tracked[l])' /\ Within(l, todo[l])'
    BY <2>1 DEF Within, Accounted, Main!Alive, Children
  <2> QED BY <2>1, <2>2 DEF Accounted, FlagUp, Main!Stop, Main!Gone
\* ... ends one child after the other, ...
<1>7. CASE Main!EndChild(l)
  <2>1. PICK s \in todo[l] : /\ proc' = [proc EXCEPT ![l][s] = "dead"]
                             /\ todo' = [todo EXCEPT ![l] = @ \ {s}]
    BY <1>7 DEF Main!EndChild
  <2>2. UNCHANGED <<pc, flag, tracked, lost, cut>> /\ pc[l] = Main!Stop /\ flag[l]
    BY <1>7 DEF Main!EndChild
  <2>3. s \in Main!Services /\ todo'[l] = todo[l] \ {s}
    BY <1>0, <2>1
  <2>4. Fewer(l) /\ ~Main!Alive(l, s)'
    BY <2>1, <2>3, OneFewer DEF Main!Alive, LauncherTypes
  <2>5. Within(l, tracked[l])' /\ Within(l, todo[l])'
    BY <2>2, <2>3, <2>4 DEF Within, Accounted, Fewer
  <2> QED BY <2>2, <2>5 DEF Accounted, FlagUp, Main!Stop, Main!Gone
\* ... and forgets them when none of them is left.
<1>8. CASE Main!Finish(l)
  <2>1. /\ UNCHANGED <<lost, cut>> /\ pc[l] = Main!Stop /\ flag[l] /\ todo[l] = {}
        /\ proc' = Main!Freed(l) /\ tracked'[l] = {} /\ ~flag'[l]
    BY <1>0, <1>8 DEF Main!Finish, Main!FlagAfter
  <2>2. Fewer(l)
    BY <2>1, FreedFewer
  <2>3. Within(l, {})'
    BY <2>1, <2>2 DEF Within, Accounted, Fewer
  <2>4. Within(l, tracked[l])'
    BY <2>1, <2>3 DEF Within
  <2> QED BY <2>1, <2>3, <2>4 DEF Accounted, FlagUp
\* A signal leaves the shutdown() that it interrupts, and starts one otherwise.
<1>9. CASE Main!Signal(l)
  <2>1. UNCHANGED <<flag, todo, tracked, lost, proc>>
    BY <1>9 DEF Main!Signal
  <2>2. Within(l, tracked[l])'
    BY <2>1 DEF Within, Accounted, Main!Alive
  <2>3. \/ flag[l] /\ pc'[l] = Main!Leave /\ l \in cut'
        \/ ~flag[l] /\ pc'[l] = Main!Stop
    BY <1>0, <1>9 DEF Main!Signal, Main!Go
  <2> QED BY <2>1, <2>2, <2>3 DEF Accounted, FlagUp, Main!Stop, Main!Leave, Main!Gone
<1> QED
  BY <1>1, <1>2, <1>3, <1>4, <1>5, <1>6, <1>7, <1>8, <1>9 DEF Main!LauncherStep

\* Every service that runs is accounted for, whatever the launchers do.
LauncherAccounts == LauncherTypes /\ \A l \in Launchers : Accounted(l) /\ FlagUp(l)

LEMMA LauncherStart == Main!Init => LauncherAccounts
<1> SUFFICES ASSUME Main!Init PROVE LauncherAccounts
  OBVIOUS
<1>1. LauncherTypes
  BY LauncherTypesInit
<1>2. ASSUME NEW l \in Launchers PROVE Accounted(l) /\ FlagUp(l)
  <2>1. \A s \in Children : ~Main!Alive(l, s)
    BY DEF Main!Init, Main!Alive, Children
  <2>2. ~flag[l] /\ pc[l] = Main!Off
    BY DEF Main!Init
  <2> QED BY <2>1, <2>2 DEF Accounted, Within, FlagUp, Main!Off, Main!Gone, Main!Stop
<1> QED BY <1>1, <1>2 DEF LauncherAccounts

LEMMA LauncherStepAccounts == LauncherAccounts /\ [Main!Next]_(Main!vars) => LauncherAccounts'
<1> SUFFICES ASSUME LauncherAccounts, [Main!Next]_(Main!vars) PROVE LauncherAccounts'
  OBVIOUS
<1>1. LauncherTypes /\ LauncherTypes'
  BY LauncherTypesStep DEF LauncherAccounts
<1>2. ASSUME NEW m \in Launchers PROVE Accounted(m)' /\ FlagUp(m)'
  <2>0. Accounted(m) /\ FlagUp(m)
    BY DEF LauncherAccounts
  <2>1. CASE UNCHANGED Main!vars
    <3>1. Rests(m)
      BY <2>1 DEF Main!vars, Main!control, Rests, Fewer, Main!Alive
    <3> QED BY <2>0, <3>1, RestsKeeps
  <2>2. ASSUME NEW l \in Launchers,
               \/ Main!Start(l) \/ Main!LauncherStep(l) \/ Main!Quit(l) \/ Main!Restart(l)
               \/ Main!Signal(l)
        PROVE  Accounted(m)' /\ FlagUp(m)'
    <3>1. CASE m = l
      BY <1>1, <2>0, <2>2, <3>1, OwnStep
    <3>2. CASE m # l
      <4>1. Rests(m)
        BY <1>1, <2>2, <3>2, OthersRest
      <4> QED BY <2>0, <4>1, RestsKeeps
    <3> QED BY <3>1, <3>2
  <2>3. ASSUME NEW l \in Launchers, NEW s \in Main!Services, Main!Listen(l, s) \/ Main!Dies(l, s)
        PROVE  Accounted(m)' /\ FlagUp(m)'
    <3>1. /\ UNCHANGED <<pc, flag, todo, tracked, lost, cut>> /\ Main!Alive(l, s)
          /\ \E p : proc' = [proc EXCEPT ![l][s] = p]
      BY <2>3 DEF Main!Listen, Main!Dies, Main!control, Main!Alive
    <3>2. Fewer(m)
      BY <1>1, <3>1, OneFewer
    <3>3. Rests(m)
      BY <3>1, <3>2 DEF Rests
    <3> QED BY <2>0, <3>3, RestsKeeps
  <2> QED BY <2>1, <2>2, <2>3 DEF Main!Next
<1> QED BY <1>1, <1>2 DEF LauncherAccounts

LEMMA AccountsWork == LauncherAccounts => ShutdownWorks
BY DEF LauncherAccounts, Accounted, Within, Children, FlagUp, ShutdownWorks, Main!ShutdownWorks,
       Main!RecordedAreStopped, Main!StopStillWorks

\* shutdown() does its work and can be called again, for any number of launchers on the
\* same ports, however they were called, and any number of signals, restarts and deaths,
\* at whatever step a signal comes (main.py:655-697).
THEOREM LauncherShutdownWorks == Main!Spec => []ShutdownWorks
BY AccountsWork, LauncherStart, LauncherStepAccounts, PTL DEF Main!Spec

\* How a launcher was called, what it was told and what follows its shutdown().
LauncherRest ==
  /\ options \in [Launchers -> Main!Options]
  /\ return \in [Launchers -> {"none", "restart", "exit", "end"}]
  /\ asked \in [Launchers -> {"start", "restart", "exit", "quit", "signal"}]
  /\ before \in [Launchers -> SUBSET Main!Services] /\ cut \subseteq Launchers
  /\ signals \in [Launchers -> 0 .. MaxSignals]
  /\ restarts \in 0 .. MaxRestarts /\ deaths \in 0 .. MaxDeaths

LEMMA LauncherRestStep ==
  ASSUME Main!LauncherAssumption, LauncherRest, [Main!Next]_(Main!vars)
  PROVE  LauncherRest'
<1> USE DEF LauncherRest
<1>0. MaxSignals \in Nat /\ MaxRestarts \in Nat /\ MaxDeaths \in Nat
  BY DEF Main!LauncherAssumption
<1>1. CASE UNCHANGED Main!vars
  BY <1>1 DEF Main!vars, Main!control, Main!bounds
<1>2. ASSUME NEW l \in Launchers,
             \/ Main!Start(l) \/ Main!ClearPorts(l) \/ Main!Shutdown(l) \/ Main!EndChild(l)
             \/ Main!Finish(l)
             \/ \E s \in Main!Services :
                  Main!Skip(l, s) \/ Main!Spawn(l, s) \/ Main!Recorded(l, s) \/ Main!Waited(l, s)
      PROVE  LauncherRest'
  BY <1>2 DEF Main!Start, Main!ClearPorts, Main!Shutdown, Main!EndChild, Main!Finish, Main!Skip,
              Main!Spawn, Main!Recorded, Main!Waited, Main!bounds
<1>3. ASSUME NEW l \in Launchers,
             Main!TooOld(l) \/ Main!InstallFails(l) \/ Main!AtExit(l) \/ Main!Supervise(l) \/ Main!Quit(l)
      PROVE  LauncherRest'
  BY <1>3 DEF Main!TooOld, Main!InstallFails, Main!AtExit, Main!Supervise, Main!Quit, Main!bounds
<1>4. ASSUME NEW l \in Launchers, Main!Restart(l) PROVE LauncherRest'
  BY <1>0, <1>4 DEF Main!Restart
<1>5. ASSUME NEW l \in Launchers, Main!Signal(l) PROVE LauncherRest'
  <2>1. /\ UNCHANGED <<options, before, restarts, deaths>>
        /\ asked' = [asked EXCEPT ![l] = "signal"]
        /\ signals[l] < MaxSignals /\ signals' = [signals EXCEPT ![l] = signals[l] + 1]
        /\ UNCHANGED return \/ return' = [return EXCEPT ![l] = "exit"]
        /\ cut' = cut \/ cut' = cut \cup {l}
    BY <1>5 DEF Main!Signal
  <2>2. signals[l] + 1 \in 0 .. MaxSignals
    BY <1>0, <2>1
  <2> QED BY <2>1, <2>2
<1>6. ASSUME NEW l \in Launchers, NEW s \in Main!Services, Main!Listen(l, s) \/ Main!Dies(l, s)
      PROVE  LauncherRest'
  BY <1>0, <1>6 DEF Main!Listen, Main!Dies, Main!control, Main!bounds
<1> QED BY <1>1, <1>2, <1>3, <1>4, <1>5, <1>6 DEF Main!Next, Main!LauncherStep

LEMMA LauncherIsTyped ==
  ASSUME LauncherTypes, LauncherRest
  PROVE  Main!TypeOK
BY DEF LauncherTypes, LauncherRest, Places, Main!TypeOK

-----------------------------------------------------------------------------
(* Who is told to stop is on the way out.                                   *)

ToldToStop(l) == asked[l] \in {"exit", "quit", "signal"}

\* Where a launcher that was told to stop can be, and what follows its shutdown().
OnItsWay(l) ==
  /\ todo[l] \subseteq Children
  /\ ToldToStop(l) => pc[l] \in {Main!Stop, Main!Leave, Main!Gone}
  /\ pc[l] = Main!Leave => ToldToStop(l)
  /\ pc[l] = Main!Stop => return[l] \in IF ToldToStop(l) THEN {"exit", "end"} ELSE {"restart"}

ToEnd(l, s) == IF s \in todo[l] THEN 1 ELSE 0
ChildrenLeft(l) == ToEnd(l, "backend") + ToEnd(l, "frontend") + ToEnd(l, "observatory")

\* The steps that the present shutdown() still has, at most.
ShutdownLeft(l) == IF flag[l] THEN ChildrenLeft(l) + 1 ELSE 5

\* The steps that a launcher which was told to stop has still to take, at most: another
\* shutdown() from atexit follows one that was not interrupted.
StopsLeft(l) ==
  CASE pc[l] = Main!Gone -> 0
    [] pc[l] = Main!Leave -> IF flag[l] THEN 1 ELSE 6
    [] OTHER -> IF return[l] = "end" THEN ShutdownLeft(l) ELSE ShutdownLeft(l) + 6

LEMMA LauncherPlaces ==
  /\ Main!Stop # Main!Leave /\ Main!Stop # Main!Gone /\ Main!Leave # Main!Gone
  /\ Main!Off \notin {Main!Stop, Main!Leave, Main!Gone}
  /\ Main!Manage \notin {Main!Stop, Main!Leave, Main!Gone}
  /\ Main!Clear \notin {Main!Stop, Main!Leave, Main!Gone}
  /\ Main!ClearAgain \notin {Main!Stop, Main!Leave, Main!Gone}
  /\ \A s : Main!Begin(s) \notin {Main!Stop, Main!Leave, Main!Gone}
  /\ \A s : Main!Record(s) \notin {Main!Stop, Main!Leave, Main!Gone}
  /\ \A s : Main!Wait(s) \notin {Main!Stop, Main!Leave, Main!Gone}
BY DEF Main!Stop, Main!Leave, Main!Gone, Main!Off, Main!Manage, Main!Clear, Main!ClearAgain,
       Main!Begin, Main!Record, Main!Wait

LEMMA AfterGoesOn ==
  ASSUME NEW l \in Launchers, NEW s \in Main!Services
  PROVE  Main!After(l, s) \notin {Main!Stop, Main!Leave, Main!Gone}
BY LauncherPlaces DEF Main!After, Main!Services

LEMMA ChildrenLeftFits == \A l \in Launchers : ChildrenLeft(l) \in 0..3
BY DEF ChildrenLeft, ToEnd

LEMMA StopsLeftFits ==
  ASSUME NEW l \in Launchers, OnItsWay(l), ToldToStop(l)
  PROVE  StopsLeft(l) \in 0..11 /\ (StopsLeft(l) = 0 <=> pc[l] = Main!Gone)
<1>1. ShutdownLeft(l) \in 1..5
  BY ChildrenLeftFits DEF ShutdownLeft
<1>2. CASE pc[l] = Main!Gone
  BY <1>2, LauncherPlaces DEF StopsLeft
<1>3. CASE pc[l] = Main!Leave
  BY <1>3, LauncherPlaces DEF StopsLeft
<1>4. CASE pc[l] = Main!Stop
  <2>1. StopsLeft(l) = IF return[l] = "end" THEN ShutdownLeft(l) ELSE ShutdownLeft(l) + 6
    BY <1>4, LauncherPlaces DEF StopsLeft
  <2>2. StopsLeft(l) \in 1..11
    BY <1>1, <2>1
  <2> QED BY <1>4, <2>2, LauncherPlaces
<1> QED BY <1>2, <1>3, <1>4 DEF OnItsWay

\* A step that is not the launcher's own leaves it where it is.
LEMMA StaysThere ==
  ASSUME NEW l \in Launchers, OnItsWay(l),
         pc'[l] = pc[l], flag'[l] = flag[l], todo'[l] = todo[l], return'[l] = return[l],
         asked'[l] = asked[l]
  PROVE  OnItsWay(l)' /\ (ToldToStop(l)' <=> ToldToStop(l)) /\ StopsLeft(l)' = StopsLeft(l)
<1>1. ToldToStop(l)' <=> ToldToStop(l)
  BY DEF ToldToStop
<1>2. ShutdownLeft(l)' = ShutdownLeft(l)
  BY DEF ShutdownLeft, ChildrenLeft, ToEnd
<1>3. StopsLeft(l)' = StopsLeft(l)
  BY <1>2 DEF StopsLeft
<1>4. OnItsWay(l)'
  BY <1>1 DEF OnItsWay
<1> QED BY <1>1, <1>3, <1>4

\* shutdown() begins with the children that are recorded, whose number is at most three.
LEMMA ShutdownBegins ==
  ASSUME LauncherTypes, LauncherRest, NEW l \in Launchers, OnItsWay(l), Main!Shutdown(l)
  PROVE  OnItsWay(l)' /\ (ToldToStop(l) => ToldToStop(l)' /\ StopsLeft(l)' < StopsLeft(l))
<1>1. /\ pc[l] = Main!Stop /\ ~flag[l] /\ pc' = pc /\ return' = return /\ asked' = asked
      /\ flag'[l] = TRUE /\ todo'[l] = tracked[l] \ {"ollama"}
  BY DEF LauncherTypes, Main!Shutdown, Main!Enter
<1>2. todo'[l] \subseteq Children
  BY <1>1 DEF LauncherTypes, Children
<1>3. ToldToStop(l)' <=> ToldToStop(l)
  BY <1>1 DEF ToldToStop
<1>4. OnItsWay(l)'
  BY <1>1, <1>2, <1>3 DEF OnItsWay
<1>5. ChildrenLeft(l)' \in 0..3
  BY DEF ChildrenLeft, ToEnd
<1>6. ShutdownLeft(l)' \in 1..4 /\ ShutdownLeft(l) = 5
  BY <1>1, <1>5 DEF ShutdownLeft
<1>7. StopsLeft(l)' < StopsLeft(l)
  BY <1>1, <1>6, LauncherPlaces DEF StopsLeft
<1> QED BY <1>3, <1>4, <1>7

LEMMA ChildEnds ==
  ASSUME LauncherTypes, LauncherRest, NEW l \in Launchers, OnItsWay(l), Main!EndChild(l)
  PROVE  OnItsWay(l)' /\ (ToldToStop(l) => ToldToStop(l)' /\ StopsLeft(l)' < StopsLeft(l))
<1>1. /\ pc[l] = Main!Stop /\ flag[l] /\ UNCHANGED <<pc, flag, return, asked>>
  BY DEF Main!EndChild
<1>2. PICK s \in todo[l] : todo'[l] = todo[l] \ {s}
  BY DEF LauncherTypes, Main!EndChild
<1>3. s \in {"backend", "frontend", "observatory"}
  BY DEF OnItsWay, Children, Main!Services
<1>4. ToldToStop(l)' <=> ToldToStop(l)
  BY <1>1 DEF ToldToStop
<1>5. OnItsWay(l)'
  BY <1>1, <1>2, <1>4 DEF OnItsWay
<1>6. ChildrenLeft(l)' = ChildrenLeft(l) - 1
  BY <1>2, <1>3 DEF ChildrenLeft, ToEnd
<1>7. ShutdownLeft(l)' = ShutdownLeft(l) - 1 /\ ShutdownLeft(l) \in Int
  BY <1>1, <1>6, ChildrenLeftFits DEF ShutdownLeft
<1>8. StopsLeft(l)' < StopsLeft(l)
  BY <1>1, <1>7, LauncherPlaces DEF StopsLeft
<1> QED BY <1>4, <1>5, <1>8

\* The shutdown() is over: the launcher leaves, is gone, or starts its services again.
LEMMA ShutdownEnds ==
  ASSUME LauncherTypes, LauncherRest, NEW l \in Launchers, OnItsWay(l), Main!Finish(l)
  PROVE  OnItsWay(l)' /\ (ToldToStop(l) => ToldToStop(l)' /\ StopsLeft(l)' < StopsLeft(l))
<1>1. /\ pc[l] = Main!Stop /\ flag[l] /\ UNCHANGED <<todo, return, asked>>
      /\ flag'[l] = FALSE
      /\ pc'[l] = CASE return[l] = "restart" -> Main!ClearAgain
                    [] return[l] = "exit" -> Main!Leave
                    [] OTHER -> Main!Gone
  BY DEF LauncherTypes, Main!Finish, Main!FlagAfter, Main!Go
<1>2. ToldToStop(l)' <=> ToldToStop(l)
  BY <1>1 DEF ToldToStop
<1>3. return[l] \in IF ToldToStop(l) THEN {"exit", "end"} ELSE {"restart"}
  BY <1>1 DEF OnItsWay
<1>4. ShutdownLeft(l) \in 1..4
  BY <1>1, ChildrenLeftFits DEF ShutdownLeft
<1>5. CASE ToldToStop(l) /\ return[l] = "exit"
  <2>1. pc'[l] = Main!Leave
    BY <1>1, <1>5
  <2>2. OnItsWay(l)'
    BY <1>1, <1>2, <1>5, <2>1, LauncherPlaces DEF OnItsWay
  <2>3. StopsLeft(l)' = 6
    BY <1>1, <2>1, LauncherPlaces DEF StopsLeft
  <2>4. StopsLeft(l) = ShutdownLeft(l) + 6
    BY <1>1, <1>5, LauncherPlaces DEF StopsLeft
  <2> QED BY <1>2, <1>4, <2>2, <2>3, <2>4
<1>6. CASE ToldToStop(l) /\ return[l] = "end"
  <2>1. pc'[l] = Main!Gone
    BY <1>1, <1>6
  <2>2. OnItsWay(l)'
    BY <1>1, <1>2, <1>6, <2>1, LauncherPlaces DEF OnItsWay
  <2>3. StopsLeft(l)' = 0
    BY <2>1, LauncherPlaces DEF StopsLeft
  <2>4. StopsLeft(l) = ShutdownLeft(l)
    BY <1>1, <1>6, LauncherPlaces DEF StopsLeft
  <2> QED BY <1>2, <1>4, <2>2, <2>3, <2>4
<1>7. CASE ~ToldToStop(l)
  <2>1. pc'[l] = Main!ClearAgain
    BY <1>1, <1>3, <1>7
  <2> QED BY <1>1, <1>2, <1>7, <2>1, LauncherPlaces DEF OnItsWay
<1> QED BY <1>3, <1>5, <1>6, <1>7

LEMMA LeavesByExit ==
  ASSUME LauncherTypes, LauncherRest, NEW l \in Launchers, OnItsWay(l), Main!AtExit(l)
  PROVE  OnItsWay(l)' /\ (ToldToStop(l) => ToldToStop(l)' /\ StopsLeft(l)' < StopsLeft(l))
<1>1. /\ pc[l] = Main!Leave /\ UNCHANGED <<flag, todo, asked>> /\ ToldToStop(l)
      /\ IF flag[l] THEN pc'[l] = Main!Gone
         ELSE pc'[l] = Main!Stop /\ return'[l] = "end"
  BY DEF LauncherTypes, LauncherRest, OnItsWay, Main!AtExit, Main!Go
<1>2. ToldToStop(l)'
  BY <1>1 DEF ToldToStop
<1>3. OnItsWay(l)'
  BY <1>1, <1>2, LauncherPlaces DEF OnItsWay
<1>4. CASE flag[l]
  <2>1. StopsLeft(l)' = 0 /\ StopsLeft(l) = 1
    BY <1>1, <1>4, LauncherPlaces DEF StopsLeft
  <2> QED BY <1>2, <1>3, <2>1
<1>5. CASE ~flag[l]
  <2>1. ShutdownLeft(l)' = 5
    BY <1>1, <1>5 DEF ShutdownLeft
  <2>2. StopsLeft(l)' = 5 /\ StopsLeft(l) = 6
    BY <1>1, <1>5, <2>1, LauncherPlaces DEF StopsLeft
  <2> QED BY <1>2, <1>3, <2>2
<1> QED BY <1>4, <1>5

\* What start() and the manager do, a launcher that was told to stop does no more.
LEMMA StartIsOver ==
  ASSUME LauncherTypes, LauncherRest, NEW l \in Launchers, OnItsWay(l),
         \/ Main!Start(l) \/ Main!ClearPorts(l) \/ Main!TooOld(l) \/ Main!InstallFails(l)
         \/ Main!Supervise(l) \/ Main!Quit(l) \/ Main!Restart(l)
         \/ \E s \in Main!Services : \/ Main!Skip(l, s) \/ Main!Spawn(l, s)
                                     \/ Main!Recorded(l, s) \/ Main!Waited(l, s)
  PROVE  ~ToldToStop(l) /\ OnItsWay(l)'
<1>0. pc[l] \notin {Main!Stop, Main!Leave, Main!Gone} /\ todo' = todo
  BY LauncherPlaces
     DEF Main!Start, Main!ClearPorts, Main!TooOld, Main!InstallFails, Main!Supervise, Main!Quit,
         Main!Restart, Main!Skip, Main!Spawn, Main!Recorded, Main!Waited
<1>1. ~ToldToStop(l)
  BY <1>0 DEF OnItsWay
<1>2. CASE Main!TooOld(l)
  <2>1. pc'[l] = Main!Leave /\ asked'[l] = "exit"
    BY <1>2 DEF LauncherTypes, LauncherRest, Main!TooOld, Main!Go
  <2> QED BY <1>0, <1>1, <2>1, LauncherPlaces DEF OnItsWay, ToldToStop
<1>3. CASE Main!InstallFails(l) \/ Main!Supervise(l) \/ Main!Quit(l)
  <2>1. pc'[l] = Main!Stop /\ asked'[l] \in {"exit", "quit"} /\ return'[l] = "exit"
    BY <1>3 DEF LauncherTypes, LauncherRest, Main!InstallFails, Main!Supervise, Main!Quit, Main!Go
  <2> QED BY <1>0, <1>1, <2>1, LauncherPlaces DEF OnItsWay, ToldToStop
<1>4. CASE Main!Restart(l)
  <2>1. pc'[l] = Main!Stop /\ asked'[l] = "restart" /\ return'[l] = "restart"
    BY <1>4 DEF LauncherTypes, LauncherRest, Main!Restart, Main!Go
  <2> QED BY <1>0, <1>1, <2>1, LauncherPlaces DEF OnItsWay, ToldToStop
<1>5. CASE \/ Main!Start(l) \/ Main!ClearPorts(l)
           \/ \E s \in Main!Services : \/ Main!Skip(l, s) \/ Main!Spawn(l, s)
                                       \/ Main!Recorded(l, s) \/ Main!Waited(l, s)
  <2>1. asked' = asked /\ pc'[l] \notin {Main!Stop, Main!Leave, Main!Gone}
    BY <1>5, LauncherPlaces, AfterGoesOn
       DEF LauncherTypes, Main!Start, Main!ClearPorts, Main!Skip, Main!Spawn, Main!Recorded,
           Main!Waited, Main!Go
  <2>2. ~ToldToStop(l)'
    BY <1>1, <2>1 DEF ToldToStop
  <2> QED BY <1>0, <2>1, <2>2 DEF OnItsWay
<1> QED BY <1>1, <1>2, <1>3, <1>4, <1>5

LEMMA SignalTells ==
  ASSUME LauncherTypes, LauncherRest, NEW l \in Launchers, OnItsWay(l), Main!Signal(l)
  PROVE  OnItsWay(l)' /\ ToldToStop(l)'
<1>1. /\ todo' = todo /\ asked'[l] = "signal"
      /\ \/ pc'[l] = Main!Leave
         \/ pc'[l] = Main!Stop /\ return'[l] = "exit"
  BY DEF LauncherTypes, LauncherRest, Main!Signal, Main!Go
<1> QED BY <1>1, LauncherPlaces DEF OnItsWay, ToldToStop

LEMMA OwnStepOut ==
  ASSUME LauncherTypes, LauncherRest, NEW l \in Launchers, OnItsWay(l), Main!LauncherStep(l)
  PROVE  OnItsWay(l)' /\ (ToldToStop(l) => ToldToStop(l)' /\ StopsLeft(l)' < StopsLeft(l))
<1>1. CASE Main!Shutdown(l) \/ Main!EndChild(l) \/ Main!Finish(l) \/ Main!AtExit(l)
  BY <1>1, ShutdownBegins, ChildEnds, ShutdownEnds, LeavesByExit
<1>2. CASE ~(Main!Shutdown(l) \/ Main!EndChild(l) \/ Main!Finish(l) \/ Main!AtExit(l))
  BY <1>2, StartIsOver DEF Main!LauncherStep
<1> QED BY <1>1, <1>2

\* A step of l, when l is told to stop: it stays told, and comes closer by its own steps;
\* only a signal can put it back.
ComesCloser(l) ==
  ToldToStop(l) =>
    /\ ToldToStop(l)'
    /\ Main!Signal(l) \/ StopsLeft(l)' <= StopsLeft(l)
    /\ Main!LauncherStep(l) => StopsLeft(l)' < StopsLeft(l)

LEMMA OnItsWayStep ==
  ASSUME LauncherTypes, LauncherRest, NEW m \in Launchers, OnItsWay(m), [Main!Next]_(Main!vars)
  PROVE  OnItsWay(m)' /\ ComesCloser(m)
<1>0. ToldToStop(m) => StopsLeft(m) \in Int
  BY StopsLeftFits
<1>1. CASE Main!LauncherStep(m)
  <2>1. OnItsWay(m)' /\ (ToldToStop(m) => ToldToStop(m)' /\ StopsLeft(m)' < StopsLeft(m))
    BY <1>1, OwnStepOut
  <2>2. OnItsWay(m)' /\ (ToldToStop(m)' => StopsLeft(m)' \in Int)
    <3>1. ToldToStop(m)' /\ OnItsWay(m)' => StopsLeft(m)' \in Int
      <4>1. ChildrenLeft(m)' \in Int
        BY DEF ChildrenLeft, ToEnd
      <4>2. ShutdownLeft(m)' \in Int
        BY <4>1 DEF ShutdownLeft
      <4> QED BY <4>2 DEF StopsLeft
    <3> QED BY <2>1, <3>1
  <2> QED BY <1>0, <2>1, <2>2 DEF ComesCloser
<1>2. CASE ~Main!LauncherStep(m)
  <2>1. CASE Main!Signal(m)
    BY <1>2, <2>1, SignalTells DEF ComesCloser
  <2>2. CASE Main!Start(m) \/ Main!Quit(m) \/ Main!Restart(m)
    BY <1>2, <2>2, StartIsOver DEF ComesCloser
  <2>3. CASE /\ pc'[m] = pc[m] /\ flag'[m] = flag[m] /\ todo'[m] = todo[m]
             /\ return'[m] = return[m] /\ asked'[m] = asked[m]
    BY <1>0, <1>2, <2>3, StaysThere DEF ComesCloser
  <2>4. ASSUME NEW l \in Launchers, l # m,
               \/ Main!Start(l) \/ Main!LauncherStep(l) \/ Main!Quit(l) \/ Main!Restart(l)
               \/ Main!Signal(l)
        PROVE  /\ pc'[m] = pc[m] /\ flag'[m] = flag[m] /\ todo'[m] = todo[m]
               /\ return'[m] = return[m] /\ asked'[m] = asked[m]
    BY <2>4
       DEF LauncherTypes, LauncherRest, Main!LauncherStep, Main!Start, Main!Quit, Main!Restart,
           Main!Signal, Main!ClearPorts, Main!TooOld, Main!Skip, Main!Spawn, Main!Recorded, Main!Waited,
           Main!InstallFails, Main!Shutdown, Main!Enter, Main!EndChild, Main!Finish,
           Main!FlagAfter, Main!AtExit, Main!Supervise, Main!Go
  <2>5. CASE \/ UNCHANGED Main!vars
             \/ \E l \in Launchers, s \in Main!Services : Main!Listen(l, s) \/ Main!Dies(l, s)
    BY <2>3, <2>5 DEF Main!vars, Main!control, Main!Listen, Main!Dies
  <2> QED BY <1>2, <2>1, <2>2, <2>3, <2>4, <2>5 DEF Main!Next
<1> QED BY <1>1, <1>2

\* A launcher that was told to stop never goes back to work, and has at most eleven steps to
\* take until it is gone, however often shutdown() is called or was interrupted before; a
\* signal that interrupts it is the only thing that can give it more (main.py:655-697).
\* StopsInTheEnd adds the fairness of the launcher's steps.
THEOREM LauncherStopsByItself ==
  Main!Spec =>
    /\ [](\A l \in Launchers : ToldToStop(l) =>
            StopsLeft(l) \in 0..11 /\ (StopsLeft(l) = 0 <=> pc[l] = Main!Gone))
    /\ [][\A l \in Launchers : ComesCloser(l)]_(Main!vars)
<1> DEFINE Good == /\ LauncherTypes /\ LauncherRest
                   /\ \A l \in Launchers : OnItsWay(l)
<1>1. Main!Init => Good
  <2> SUFFICES ASSUME Main!Init PROVE Good
    OBVIOUS
  <2>1. LauncherTypes
    BY LauncherTypesInit
  <2>2. LauncherRest
    BY ProgressAssumption DEF Main!Init, LauncherRest, Main!LauncherAssumption
  <2>3. \A l \in Launchers : OnItsWay(l)
    BY LauncherPlaces DEF Main!Init, OnItsWay, ToldToStop
  <2> QED BY <2>1, <2>2, <2>3
<1>2. Good /\ [Main!Next]_(Main!vars) => Good' /\ \A l \in Launchers : ComesCloser(l)
  <2> SUFFICES ASSUME Good, [Main!Next]_(Main!vars)
               PROVE  Good' /\ \A l \in Launchers : ComesCloser(l)
    OBVIOUS
  <2>1. LauncherTypes' /\ LauncherRest'
    BY ProgressAssumption, LauncherTypesStep, LauncherRestStep
  <2>2. \A l \in Launchers : OnItsWay(l)' /\ ComesCloser(l)
    BY OnItsWayStep
  <2> QED BY <2>1, <2>2
<1>3. Good => \A l \in Launchers : ToldToStop(l) =>
        StopsLeft(l) \in 0..11 /\ (StopsLeft(l) = 0 <=> pc[l] = Main!Gone)
  BY StopsLeftFits
<1> HIDE DEF Good
<1> QED BY <1>1, <1>2, <1>3, PTL DEF Main!Spec

-----------------------------------------------------------------------------
(* The stream of a task.                                                     *)

FeedTypes ==
  /\ events \in Seq({"step", "quiet", "final"}) /\ status \in {"running", "ended"}
  /\ closer \in Seq({"row", "step", "quiet", "final"})
  /\ last \in Nat /\ batch \in Seq(Nat) /\ wire \in Seq(Nat) /\ shown \in Seq(Nat)

\* What is on the connection and what the generator has read are the events around
\* last_id, without a gap.
InTransit ==
  /\ last + Len(batch) <= Len(events) /\ Len(wire) <= last
  /\ \A k \in 1 .. Len(batch) : batch[k] = last + k
  /\ \A k \in 1 .. Len(wire) : wire[k] = last - Len(wire) + k
  /\ conn = "off" => last = 0 /\ wire = <<>> /\ batch = <<>>
  /\ conn \in {"read", "check"} => batch = <<>>
  /\ conn = "send" => batch # <<>>

\* The window has all listed events up to the newest one it shows, and also those that
\* the present connection has delivered.
Prefix(n) == {i \in 1 .. n : Feed!Listed(i)}

Delivered ==
  /\ \E n \in 0 .. Len(events) : Feed!ToSet(shown) = Prefix(n)
  /\ \A i, j \in DOMAIN shown : i < j => shown[i] < shown[j]
  /\ Prefix(last - Len(wire)) \subseteq Feed!ToSet(shown)

\* A final event is written only by what ends the task, and so is what comes before it.
Final == \E i \in DOMAIN events : events[i] = "final"

Over ==
  /\ ~open => Final
  /\ Final \/ closer # <<>> => status = "ended" \/ Feed!Contains(closer, "row")

LEMMA TailOf ==
  ASSUME NEW S, NEW s \in Seq(S), s # <<>>
  PROVE  /\ Tail(s) \in Seq(S) /\ Len(Tail(s)) = Len(s) - 1 /\ Len(s) \in Nat /\ Len(s) >= 1
         /\ Head(s) = s[1] /\ s[1] \in S
         /\ \A k \in 1 .. Len(s) - 1 : Tail(s)[k] = s[k + 1]
OBVIOUS

LEMMA AppendOf ==
  ASSUME NEW S, NEW s \in Seq(S), NEW e \in S
  PROVE  /\ Append(s, e) \in Seq(S) /\ Len(Append(s, e)) = Len(s) + 1 /\ Len(s) \in Nat
         /\ DOMAIN s = 1 .. Len(s) /\ DOMAIN Append(s, e) = 1 .. Len(s) + 1
         /\ Append(s, e)[Len(s) + 1] = e /\ \A k \in 1 .. Len(s) : Append(s, e)[k] = s[k]
OBVIOUS

\* A sequence whose elements are in S is a sequence over S.
LEMMA Elements ==
  ASSUME NEW T, NEW s \in Seq(T), NEW S, \A k \in 1 .. Len(s) : s[k] \in S
  PROVE  s \in Seq(S)
OBVIOUS

LEMMA NoneOf == ASSUME NEW S PROVE <<>> \in Seq(S) /\ Len(<<>>) = 0 /\ DOMAIN <<>> = {}
OBVIOUS

\* A connection that has ended leaves nothing.
LEMMA HangupEffect ==
  ASSUME Feed!Hangup
  PROVE  /\ conn' = "off" /\ last' = 0 /\ batch' = <<>> /\ wire' = <<>>
         /\ last' \in Nat /\ batch' \in Seq(Nat) /\ wire' \in Seq(Nat)
         /\ last' - Len(wire') = 0
<1>1. conn' = "off" /\ last' = 0 /\ batch' = <<>> /\ wire' = <<>>
  BY DEF Feed!Hangup
<1>2. <<>> \in Seq(Nat) /\ 0 \in Nat
  BY NoneOf
<1>3. Len(wire') = 0
  BY <1>1, NoneOf
<1>4. last' - Len(wire') = 0
  <2>1. last' = 0
    BY <1>1
  <2> QED BY <1>3, <2>1
<1> QED BY <1>1, <1>2, <1>4

\* Every ending writes the row.
LEMMA EndingsTypes ==
  ASSUME NEW e \in Feed!RunEndings \cup Feed!CancelEndings \cup {Feed!RejectEnding}
  PROVE  e \in Seq({"row", "step", "quiet", "final"}) /\ Feed!Contains(e, "row")
<1> DEFINE W == {"row", "step", "quiet", "final"}
<1>1. CASE e = <<"row", "step", "final", "quiet">>
  <2>1. e \in Seq(W) /\ Len(e) = 4 /\ e[1] = "row"
    BY <1>1
  <2> QED BY <2>1 DEF Feed!Contains
<1>2. CASE e = <<"row", "step", "row", "final">>
  <2>1. e \in Seq(W) /\ Len(e) = 4 /\ e[1] = "row"
    BY <1>2
  <2> QED BY <2>1 DEF Feed!Contains
<1>3. CASE e = <<"row", "quiet", "final", "quiet">>
  <2>1. e \in Seq(W) /\ Len(e) = 4 /\ e[1] = "row"
    BY <1>3
  <2> QED BY <2>1 DEF Feed!Contains
<1>4. CASE e = <<"row", "final">>
  <2>1. e \in Seq(W) /\ Len(e) = 2 /\ e[1] = "row"
    BY <1>4
  <2> QED BY <2>1 DEF Feed!Contains
<1>5. CASE e = <<"row", "final", "final">>
  <2>1. e \in Seq(W) /\ Len(e) = 3 /\ e[1] = "row"
    BY <1>5
  <2> QED BY <2>1 DEF Feed!Contains
<1>6. CASE e = <<"final", "row", "final">>
  <2>1. e \in Seq(W) /\ Len(e) = 3 /\ e[2] = "row"
    BY <1>6
  <2> QED BY <2>1 DEF Feed!Contains
<1>7. CASE e = <<"step", "row">>
  <2>1. e \in Seq(W) /\ Len(e) = 2 /\ e[2] = "row"
    BY <1>7
  <2> QED BY <2>1 DEF Feed!Contains
<1> HIDE DEF W
<1>8. \/ e = <<"row", "step", "final", "quiet">> \/ e = <<"row", "step", "row", "final">>
      \/ e = <<"row", "quiet", "final", "quiet">> \/ e = <<"row", "final">>
      \/ e = <<"row", "final", "final">> \/ e = <<"final", "row", "final">> \/ e = <<"step", "row">>
  BY Zenon DEF Feed!RunEndings, Feed!CancelEndings, Feed!RejectEnding
<1> QED BY <1>1, <1>2, <1>3, <1>4, <1>5, <1>6, <1>7, <1>8, Zenon DEF W

LEMMA FeedTypesStep == FeedTypes /\ InTransit /\ [Feed!Next]_(Feed!vars) => FeedTypes'
<1> SUFFICES ASSUME FeedTypes, InTransit, [Feed!Next]_(Feed!vars) PROVE FeedTypes'
  OBVIOUS
<1> USE DEF FeedTypes
<1>1. CASE Feed!Progress
  BY <1>1 DEF Feed!Progress, Feed!AddEvent, Feed!server, Feed!client
<1>2. CASE Feed!Ends
  <2>1. closer' \in Feed!RunEndings \cup Feed!CancelEndings \cup {Feed!RejectEnding}
    BY <1>2 DEF Feed!Ends
  <2>2. closer' \in Seq({"row", "step", "quiet", "final"})
    BY <2>1, EndingsTypes
  <2> QED BY <1>2, <2>2 DEF Feed!Ends, Feed!server, Feed!client
<1>3. CASE Feed!Write
  <2>1. /\ closer # <<>> /\ closer' = Tail(closer) /\ UNCHANGED <<last, batch, wire, shown>>
    BY <1>3 DEF Feed!Write, Feed!server, Feed!client
  <2>2. Tail(closer) \in Seq({"row", "step", "quiet", "final"}) /\ Head(closer) \in {"row", "step", "quiet", "final"}
    BY <2>1
  <2>3. \/ status' = "ended" /\ UNCHANGED events
        \/ Head(closer) # "row" /\ events' = Append(events, Head(closer)) /\ UNCHANGED status
    BY <1>3 DEF Feed!Write, Feed!AddEvent
  <2>4. CASE status' = "ended" /\ UNCHANGED events
    BY <2>1, <2>2, <2>4
  <2>5. CASE Head(closer) # "row" /\ events' = Append(events, Head(closer)) /\ UNCHANGED status
    <3>1. Head(closer) \in {"step", "quiet", "final"}
      BY <2>2, <2>5
    <3>2. events' \in Seq({"step", "quiet", "final"})
      BY <2>5, <3>1, AppendOf
    <3> QED BY <2>1, <2>2, <2>5, <3>2
  <2> QED BY <2>3, <2>4, <2>5
<1>4. CASE Feed!Connect
  <2>1. last' = 0 /\ batch' = <<>> /\ UNCHANGED <<events, status, closer, wire, shown>>
    BY <1>4 DEF Feed!Connect, Feed!FirstAfter, Feed!task, Feed!client
  <2> QED BY <2>1, NoneOf
<1>5. CASE Feed!Read
  <2>1. Feed!After(last) \in Seq(Nat)
    <3>1. Len(events) - last \in Nat
      BY DEF InTransit
    <3>2. \A k \in 1 .. Len(events) - last : last + k \in Nat
      BY <3>1
    <3> QED BY <3>1, <3>2 DEF Feed!After
  <2> QED BY <1>5, <2>1 DEF Feed!Read, Feed!task, Feed!client
<1>6. CASE Feed!Send
  <2>1. batch # <<>>
    BY <1>6 DEF Feed!Send, InTransit
  <2>2. Head(batch) \in Nat /\ Tail(batch) \in Seq(Nat) /\ Append(wire, Head(batch)) \in Seq(Nat)
    BY <2>1
  <2> QED BY <1>6, <2>2 DEF Feed!Send, Feed!task, Feed!client
<1>7. CASE Feed!Check \/ Feed!EndOfStream \/ Feed!Drop
  <2>1. Feed!Hangup \/ UNCHANGED <<last, batch, wire>>
    BY <1>7 DEF Feed!Check, Feed!EndOfStream, Feed!Drop
  <2>2. UNCHANGED <<events, status, closer, shown>>
    BY <1>7 DEF Feed!Check, Feed!EndOfStream, Feed!Drop, Feed!task, Feed!client
  <2> QED BY <2>1, <2>2, HangupEffect
<1>8. CASE Feed!Deliver
  <2>1. wire # <<>> /\ UNCHANGED <<events, status, closer>>
    BY <1>8 DEF Feed!Deliver, Feed!task
  <2>2. Head(wire) \in Nat /\ Tail(wire) \in Seq(Nat)
    BY <2>1
  <2>3. shown' \in Seq(Nat)
    BY <1>8, <2>2 DEF Feed!Deliver, Feed!AppendEvent
  <2>4. last' \in Nat /\ batch' \in Seq(Nat) /\ wire' \in Seq(Nat)
    <3>1. Feed!Hangup \/ (wire' = Tail(wire) /\ UNCHANGED <<last, batch>>)
      BY <1>8 DEF Feed!Deliver, Feed!server
    <3> QED BY <2>2, <3>1, HangupEffect
  <2> QED BY <2>1, <2>3, <2>4
<1>9. CASE Feed!Select
  <2>1. Feed!Hangup /\ shown' = <<>> /\ UNCHANGED <<events, status, closer>>
    BY <1>9 DEF Feed!Select, Feed!task
  <2> QED BY <2>1, HangupEffect, NoneOf
<1>10. CASE UNCHANGED Feed!vars
  BY <1>10 DEF Feed!vars
<1> QED
  BY <1>1, <1>2, <1>3, <1>4, <1>5, <1>6, <1>7, <1>8, <1>9, <1>10 DEF Feed!Next, Feed!ServerStep

\* The events that were there stay as they are.
LEMMA Added ==
  ASSUME FeedTypes, NEW type \in {"step", "quiet", "final"}, events' = Append(events, type)
  PROVE  /\ Len(events') = Len(events) + 1
         /\ \A i \in 1 .. Len(events) : events'[i] = events[i]
         /\ events'[Len(events) + 1] = type
         /\ \A n \in 0 .. Len(events) : Prefix(n)' = Prefix(n)
<1>1. /\ Len(events') = Len(events) + 1 /\ Len(events) \in Nat
      /\ \A i \in 1 .. Len(events) : events'[i] = events[i]
      /\ events'[Len(events) + 1] = type
  BY AppendOf DEF FeedTypes
<1>2. ASSUME NEW n \in 0 .. Len(events) PROVE Prefix(n)' = Prefix(n)
  <2>1. \A i \in 1 .. n : Feed!Listed(i)' = Feed!Listed(i)
    BY <1>1 DEF Feed!Listed
  <2> QED BY <2>1 DEF Prefix
<1> QED BY <1>1, <1>2

\* Steps of the task add at most one event.
LEMMA TaskStep ==
  ASSUME FeedTypes, Feed!Progress \/ Feed!Ends \/ Feed!Write
  PROVE  /\ UNCHANGED <<conn, last, batch, wire, open, shown>>
         /\ \/ UNCHANGED events
            \/ \E type \in {"step", "quiet", "final"} : events' = Append(events, type)
         /\ Len(events) \in Nat /\ Len(events') \in Nat /\ Len(events') >= Len(events)
<1>1. UNCHANGED <<conn, last, batch, wire, open, shown>>
  BY DEF Feed!Progress, Feed!Ends, Feed!Write, Feed!server, Feed!client
<1>2. \/ UNCHANGED events
      \/ \E type \in {"step", "quiet", "final"} : events' = Append(events, type)
  <2>1. CASE Feed!Progress
    BY <2>1 DEF Feed!Progress, Feed!AddEvent
  <2>2. CASE Feed!Ends
    BY <2>2 DEF Feed!Ends
  <2>3. CASE Feed!Write
    <3>1. closer # <<>> => Head(closer) \in {"row", "step", "quiet", "final"}
      BY DEF FeedTypes
    <3> QED BY <2>3, <3>1 DEF Feed!Write, Feed!AddEvent
  <2> QED BY <2>1, <2>2, <2>3
<1>3. Len(events) \in Nat /\ Len(events') \in Nat /\ Len(events') >= Len(events)
  <2>1. Len(events) \in Nat
    BY DEF FeedTypes
  <2>2. ASSUME NEW type \in {"step", "quiet", "final"}, events' = Append(events, type)
        PROVE  Len(events') = Len(events) + 1
    BY <2>2, AppendOf DEF FeedTypes
  <2> QED BY <1>2, <2>1, <2>2
<1> QED BY <1>1, <1>2, <1>3

LEMMA InTransitStep == FeedTypes /\ InTransit /\ [Feed!Next]_(Feed!vars) => InTransit'
<1> SUFFICES ASSUME FeedTypes, InTransit, [Feed!Next]_(Feed!vars) PROVE InTransit'
  OBVIOUS
<1>t. /\ last \in Nat /\ batch \in Seq(Nat) /\ wire \in Seq(Nat)
      /\ Len(events) \in Nat /\ Len(batch) \in Nat /\ Len(wire) \in Nat
  BY DEF FeedTypes
<1>h. Feed!Hangup /\ UNCHANGED events => InTransit'
  <2> SUFFICES ASSUME Feed!Hangup, UNCHANGED events PROVE InTransit'
    OBVIOUS
  <2>1. last' = 0 /\ batch' = <<>> /\ wire' = <<>> /\ conn' = "off"
    BY HangupEffect
  <2>2. Len(batch') = 0 /\ Len(wire') = 0
    BY <2>1, NoneOf
  <2> QED BY <1>t, <2>1, <2>2 DEF InTransit
<1>1. CASE Feed!Progress \/ Feed!Ends \/ Feed!Write
  BY <1>1, <1>t, TaskStep DEF InTransit
<1>2. CASE Feed!Connect
  <2>1. /\ conn = "off" /\ conn' = "read" /\ last' = 0 /\ batch' = <<>>
        /\ UNCHANGED <<events, wire>>
    BY <1>2 DEF Feed!Connect, Feed!FirstAfter, Feed!task
  <2>2. wire = <<>> /\ Len(wire) = 0 /\ Len(batch') = 0
    BY <2>1, NoneOf DEF InTransit
  <2> QED BY <1>t, <2>1, <2>2 DEF InTransit
<1>3. CASE Feed!Read
  <2>1. /\ conn = "read" /\ batch' = Feed!After(last) /\ UNCHANGED <<events, last, wire>>
        /\ conn' = IF batch' = <<>> THEN "check" ELSE "send"
    BY <1>3 DEF Feed!Read, Feed!task
  <2>2. Len(events) - last \in Nat
    BY <1>t DEF InTransit
  <2>3. Len(batch') = Len(events) - last /\ \A k \in 1 .. Len(batch') : batch'[k] = last + k
    BY <2>1, <2>2 DEF Feed!After
  <2>4. conn' \in {"check", "send"} /\ (conn' = IF batch' = <<>> THEN "check" ELSE "send")
    BY <2>1
  <2>5. last + (Len(events) - last) <= Len(events)
    BY <1>t
  <2> QED BY <1>t, <2>1, <2>3, <2>4, <2>5 DEF InTransit
<1>4. CASE Feed!Send
  <2>1. /\ conn = "send" /\ last' = Head(batch) /\ batch' = Tail(batch)
        /\ wire' = Append(wire, Head(batch)) /\ UNCHANGED events
        /\ conn' = IF batch' = <<>> THEN "check" ELSE "send"
    BY <1>4 DEF Feed!Send, Feed!task
  <2>2. batch # <<>>
    BY <2>1 DEF InTransit
  <2>3. /\ Len(batch') = Len(batch) - 1 /\ Len(batch) >= 1 /\ Head(batch) = batch[1]
        /\ \A k \in 1 .. Len(batch) - 1 : batch'[k] = batch[k + 1]
    BY <1>t, <2>1, <2>2, TailOf
  <2>4. last' = last + 1 /\ \A k \in 1 .. Len(batch') : batch'[k] = last' + k
    BY <1>t, <2>1, <2>3 DEF InTransit
  <2>5. /\ Len(wire') = Len(wire) + 1 /\ wire'[Len(wire) + 1] = last'
        /\ \A k \in 1 .. Len(wire) : wire'[k] = wire[k]
    BY <1>t, <2>1, <2>4, AppendOf
  <2>6. \A k \in 1 .. Len(wire') : wire'[k] = last' - Len(wire') + k
    <3>1. \A k \in 1 .. Len(wire) : wire'[k] = last - Len(wire) + k
      BY <2>5 DEF InTransit
    <3>2. last' - Len(wire') = last - Len(wire)
      BY <1>t, <2>4, <2>5
    <3>3. last' = last - Len(wire) + (Len(wire) + 1)
      BY <1>t, <2>4
    <3> SUFFICES ASSUME NEW k \in 1 .. Len(wire) + 1
                 PROVE  wire'[k] = last - Len(wire) + k
      BY <2>5, <3>2
    <3>4. CASE k = Len(wire) + 1
      BY <2>5, <3>3, <3>4
    <3>5. CASE k # Len(wire) + 1
      <4>1. k \in 1 .. Len(wire)
        BY <1>t, <3>5
      <4> QED BY <3>1, <4>1
    <3> QED BY <3>4, <3>5
  <2>7. last' + Len(batch') <= Len(events') /\ Len(wire') <= last'
    BY <1>t, <2>1, <2>3, <2>4, <2>5 DEF InTransit
  <2>8. conn' \in {"check", "send"} /\ (conn' = IF batch' = <<>> THEN "check" ELSE "send")
    BY <2>1
  <2> QED BY <2>4, <2>6, <2>7, <2>8 DEF InTransit
<1>5. CASE Feed!Check
  <2>1. /\ conn = "check" /\ conn' \in {"ended", "read"} /\ UNCHANGED <<events, last, batch, wire>>
    BY <1>5 DEF Feed!Check, Feed!task
  <2>2. conn' # "off" /\ conn' # "send"
    BY <2>1
  <2>3. batch = <<>>
    BY <2>1 DEF InTransit
  <2> QED BY <2>1, <2>2, <2>3 DEF InTransit
<1>6. CASE Feed!Deliver
  <2>1. UNCHANGED events /\ wire # <<>>
    BY <1>6 DEF Feed!Deliver, Feed!task
  <2>2. CASE wire' = Tail(wire) /\ UNCHANGED <<conn, last, batch>>
    <3>1. /\ Len(wire') = Len(wire) - 1 /\ Len(wire) >= 1
          /\ \A k \in 1 .. Len(wire) - 1 : wire'[k] = wire[k + 1]
      BY <1>t, <2>1, <2>2, TailOf
    <3>2. \A k \in 1 .. Len(wire') : wire'[k] = last - Len(wire') + k
      BY <1>t, <3>1 DEF InTransit
    <3>3. Len(wire') <= last /\ (conn = "off" => FALSE)
      BY <1>t, <2>1, <3>1 DEF InTransit
    <3> QED BY <2>1, <2>2, <3>2, <3>3 DEF InTransit
  <2> QED BY <1>6, <1>h, <2>1, <2>2 DEF Feed!Deliver, Feed!server
<1>7. CASE Feed!EndOfStream \/ Feed!Drop \/ Feed!Select
  BY <1>7, <1>h DEF Feed!EndOfStream, Feed!Drop, Feed!Select, Feed!task
<1>8. CASE UNCHANGED Feed!vars
  BY <1>8 DEF Feed!vars, InTransit
<1> QED
  BY <1>1, <1>2, <1>3, <1>4, <1>5, <1>6, <1>7, <1>8 DEF Feed!Next, Feed!ServerStep

LEMMA InWindow ==
  ASSUME NEW s \in Seq(Nat), NEW i
  PROVE  Feed!Contains(s, i) <=> i \in Feed!ToSet(s)
<1>1. DOMAIN s = 1 .. Len(s)
  OBVIOUS
<1> QED BY <1>1 DEF Feed!Contains, Feed!ToSet

\* What delivering event i does to the window.
LEMMA Shown ==
  ASSUME FeedTypes, Delivered, NEW i \in 1 .. Len(events), NEW d \in Nat, i = d + 1,
         Prefix(d) \subseteq Feed!ToSet(shown),
         UNCHANGED events, shown' = Feed!AppendEvent(i)
  PROVE  /\ (\E n \in 0 .. Len(events) : Feed!ToSet(shown') = Prefix(n))
         /\ \A j, k \in DOMAIN shown' : j < k => shown'[j] < shown'[k]
         /\ Prefix(i) \subseteq Feed!ToSet(shown')
<1>t. shown \in Seq(Nat) /\ Len(events) \in Nat /\ i \in Nat
  BY DEF FeedTypes
<1>1. Prefix(i) \subseteq Prefix(d) \cup {i} /\ Prefix(d) \subseteq Prefix(i)
  BY <1>t DEF Prefix
<1>2. PICK n \in 0 .. Len(events) : Feed!ToSet(shown) = Prefix(n)
  BY DEF Delivered
<1>3. i \in Prefix(i) <=> Feed!Listed(i)
  BY <1>t DEF Prefix
<1>4. CASE ~Feed!Listed(i) \/ Feed!Contains(shown, i)
  <2>1. shown' = shown
    BY <1>4 DEF Feed!AppendEvent
  <2>2. Prefix(i) \subseteq Feed!ToSet(shown)
    BY <1>t, <1>1, <1>3, <1>4, InWindow
  <2> QED BY <2>1, <2>2, <1>2 DEF Delivered
<1>5. CASE Feed!Listed(i) /\ ~Feed!Contains(shown, i)
  <2>1. shown' = Append(shown, i)
    BY <1>5 DEF Feed!AppendEvent
  <2>2. /\ Len(shown') = Len(shown) + 1 /\ Len(shown) \in Nat
        /\ DOMAIN shown = 1 .. Len(shown) /\ DOMAIN shown' = 1 .. Len(shown) + 1
        /\ shown'[Len(shown) + 1] = i /\ \A k \in 1 .. Len(shown) : shown'[k] = shown[k]
    BY <1>t, <2>1, AppendOf
  <2>3. n < i /\ n <= d
    <3>1. i \notin Prefix(n)
      BY <1>2, <1>5, <1>t, InWindow
    <3> QED BY <1>t, <1>5, <3>1 DEF Prefix
  <2>4. Prefix(n) = Prefix(d)
    BY <1>2, <2>3, <1>t DEF Prefix
  <2>5. Feed!ToSet(shown') = Feed!ToSet(shown) \cup {i}
    BY <2>2 DEF Feed!ToSet
  <2>6. Feed!ToSet(shown') = Prefix(i)
    BY <1>1, <1>2, <1>3, <1>5, <2>4, <2>5
  <2>7. \A k \in 1 .. Len(shown) : shown[k] \in Nat /\ shown[k] < i
    <3>1. \A k \in 1 .. Len(shown) : shown[k] \in Prefix(n)
      BY <1>2, <2>2 DEF Feed!ToSet
    <3> QED BY <2>3, <3>1, <1>t DEF Prefix
  <2>8. ASSUME NEW j \in DOMAIN shown', NEW k \in DOMAIN shown', j < k
        PROVE  shown'[j] < shown'[k]
    <3>1. j \in 1 .. Len(shown)
      BY <2>2, <2>8
    <3>2. CASE k = Len(shown) + 1
      BY <2>2, <2>7, <3>1, <3>2
    <3>3. CASE k # Len(shown) + 1
      <4>1. k \in 1 .. Len(shown)
        BY <2>2, <3>3
      <4>2. shown[j] < shown[k]
        BY <2>2, <2>8, <3>1, <4>1 DEF Delivered
      <4> QED BY <2>2, <3>1, <4>1, <4>2
    <3> QED BY <3>2, <3>3
  <2>9. i \in 0 .. Len(events)
    BY <1>t
  <2> QED BY <2>6, <2>8, <2>9
<1> QED BY <1>4, <1>5

LEMMA DeliveredStep ==
  FeedTypes /\ InTransit /\ Delivered /\ [Feed!Next]_(Feed!vars) => Delivered'
<1> SUFFICES ASSUME FeedTypes, InTransit, Delivered, [Feed!Next]_(Feed!vars) PROVE Delivered'
  OBVIOUS
<1>t. /\ last \in Nat /\ batch \in Seq(Nat) /\ wire \in Seq(Nat) /\ shown \in Seq(Nat)
      /\ Len(events) \in Nat /\ Len(batch) \in Nat /\ Len(wire) \in Nat
      /\ last - Len(wire) \in 0 .. Len(events)
  BY DEF FeedTypes, InTransit
<1>e. UNCHANGED events => \A n \in Nat : Prefix(n)' = Prefix(n)
  BY DEF Prefix, Feed!Listed
<1>z. Prefix(0) = {} /\ Prefix(0)' = {}
  BY DEF Prefix
<1>u. UNCHANGED <<events, shown>> /\ (last' - Len(wire') = last - Len(wire)) => Delivered'
  BY <1>t, <1>e DEF Delivered
<1>h. Feed!Hangup /\ UNCHANGED <<events, shown>> => Delivered'
  <2> SUFFICES ASSUME Feed!Hangup, UNCHANGED <<events, shown>> PROVE Delivered'
    OBVIOUS
  <2>1. last' - Len(wire') = 0
    BY HangupEffect
  <2> QED BY <1>t, <1>e, <1>z, <2>1 DEF Delivered
<1>1. CASE Feed!Progress \/ Feed!Ends \/ Feed!Write
  <2>1. UNCHANGED <<last, wire, shown>>
    BY <1>1, TaskStep
  <2>2. CASE UNCHANGED events
    BY <1>u, <2>1, <2>2
  <2>3. ASSUME NEW type \in {"step", "quiet", "final"}, events' = Append(events, type)
        PROVE  Delivered'
    <3>1. Len(events') = Len(events) + 1 /\ \A n \in 0 .. Len(events) : Prefix(n)' = Prefix(n)
      BY <2>3, Added
    <3>2. PICK n \in 0 .. Len(events) : Feed!ToSet(shown) = Prefix(n)
      BY DEF Delivered
    <3>3. n \in 0 .. Len(events') /\ Prefix(n)' = Prefix(n)
      BY <1>t, <3>1
    <3>4. Prefix(last - Len(wire))' = Prefix(last - Len(wire))
      BY <1>t, <2>1, <3>1
    <3>5. \E m \in 0 .. Len(events') : Feed!ToSet(shown') = Prefix(m)'
      BY <2>1, <3>2, <3>3
    <3> QED BY <2>1, <3>4, <3>5 DEF Delivered
  <2> QED BY <1>1, <2>2, <2>3, TaskStep
<1>2. CASE Feed!Connect
  <2>1. conn = "off" /\ last' = 0 /\ UNCHANGED <<events, wire, shown>>
    BY <1>2 DEF Feed!Connect, Feed!FirstAfter, Feed!task, Feed!client
  <2>2. last = 0
    BY <2>1 DEF InTransit
  <2> QED BY <1>u, <2>1, <2>2
<1>3. CASE Feed!Read \/ Feed!Check
  <2>1. UNCHANGED <<events, last, wire, shown>>
    BY <1>3 DEF Feed!Read, Feed!Check, Feed!task, Feed!client
  <2> QED BY <1>u, <2>1
<1>4. CASE Feed!Send
  <2>1. conn = "send" /\ last' = Head(batch) /\ wire' = Append(wire, Head(batch)) /\ UNCHANGED <<events, shown>>
    BY <1>4 DEF Feed!Send, Feed!task, Feed!client
  <2>2. Head(batch) = last + 1
    BY <1>t, <2>1, TailOf DEF InTransit
  <2>3. Len(wire') = Len(wire) + 1
    BY <1>t, <2>1, <2>2, AppendOf
  <2>4. last' - Len(wire') = last - Len(wire)
    BY <1>t, <2>1, <2>2, <2>3
  <2> QED BY <1>u, <2>1, <2>4
<1>5. CASE Feed!Deliver
  <2>a. PICK i : i = Head(wire)
    OBVIOUS
  <2>b. PICK d \in Nat : d = last - Len(wire)
    <3>1. last - Len(wire) \in Nat
      BY <1>t
    <3> QED BY <3>1
  <2>1. UNCHANGED events /\ wire # <<>> /\ shown' = Feed!AppendEvent(i)
    BY <1>5, <2>a DEF Feed!Deliver, Feed!task
  <2>2. /\ Len(Tail(wire)) = Len(wire) - 1 /\ Len(wire) >= 1 /\ i = wire[1]
    BY <1>t, <2>1, <2>a, TailOf
  <2>3. d \in Nat /\ i = d + 1 /\ i \in 1 .. Len(events)
    <3>1. wire[1] = last - Len(wire) + 1 /\ Len(wire) <= last /\ last <= Len(events)
      BY <1>t, <2>2 DEF InTransit
    <3> QED BY <1>t, <2>2, <2>b, <3>1
  <2>4. Prefix(d) \subseteq Feed!ToSet(shown)
    BY <2>b DEF Delivered
  <2>5. /\ (\E n \in 0 .. Len(events) : Feed!ToSet(shown') = Prefix(n))
        /\ \A j, k \in DOMAIN shown' : j < k => shown'[j] < shown'[k]
        /\ Prefix(i) \subseteq Feed!ToSet(shown')
    BY <2>1, <2>3, <2>4, Shown
  <2>6. last' - Len(wire') \in {0, i}
    <3>1. CASE Feed!Hangup
      BY <3>1, HangupEffect
    <3>2. CASE wire' = Tail(wire) /\ UNCHANGED last
      BY <1>t, <2>2, <2>3, <2>b, <3>2
    <3> QED BY <1>5, <3>1, <3>2 DEF Feed!Deliver, Feed!server
  <2>7. Prefix(last - Len(wire))' \subseteq Feed!ToSet(shown')
    <3>1. i \in Nat /\ Prefix(i)' = Prefix(i)
      BY <1>e, <2>1, <2>3
    <3>2. (last - Len(wire))' = 0 \/ (last - Len(wire))' = i
      BY <2>6
    <3>3. CASE (last - Len(wire))' = 0
      BY <3>3, <1>z DEF Prefix
    <3>4. CASE (last - Len(wire))' = i
      BY <3>4, <3>1, <2>5 DEF Prefix
    <3> QED BY <3>2, <3>3, <3>4
  <2>8. \E n \in 0 .. Len(events') : Feed!ToSet(shown') = Prefix(n)'
    BY <1>t, <1>e, <2>1, <2>5
  <2> QED BY <2>5, <2>7, <2>8 DEF Delivered
<1>6. CASE Feed!EndOfStream \/ Feed!Drop
  BY <1>6, <1>h DEF Feed!EndOfStream, Feed!Drop, Feed!task, Feed!client
<1>7. CASE Feed!Select
  <2>1. Feed!Hangup /\ shown' = <<>> /\ UNCHANGED events
    BY <1>7 DEF Feed!Select, Feed!task
  <2>2. last' - Len(wire') = 0
    BY <2>1, HangupEffect
  <2>3. Feed!ToSet(shown') = {} /\ DOMAIN shown' = {}
    BY <2>1, NoneOf DEF Feed!ToSet
  <2>4. 0 \in 0 .. Len(events')
    BY <1>t, <2>1
  <2> QED BY <1>z, <2>2, <2>3, <2>4 DEF Delivered
<1>8. CASE UNCHANGED Feed!vars
  BY <1>u, <1>8 DEF Feed!vars
<1> QED
  BY <1>1, <1>2, <1>3, <1>4, <1>5, <1>6, <1>7, <1>8 DEF Feed!Next, Feed!ServerStep

\* A task that is being ended will be, or is, over.
LEMMA OverStep ==
  FeedTypes /\ InTransit /\ Over /\ open \in BOOLEAN /\ [Feed!Next]_(Feed!vars) => Over' /\ open' \in BOOLEAN
<1> SUFFICES ASSUME FeedTypes, InTransit, Over, open \in BOOLEAN, [Feed!Next]_(Feed!vars)
             PROVE  Over' /\ open' \in BOOLEAN
  OBVIOUS
<1>t. events \in Seq({"step", "quiet", "final"}) /\ Len(events) \in Nat /\ DOMAIN events = 1 .. Len(events)
  BY DEF FeedTypes
<1>a. ASSUME NEW type \in {"step", "quiet", "final"}, events' = Append(events, type)
      PROVE  (Final => Final') /\ (Final' => Final \/ type = "final")
  <2>1. /\ DOMAIN events' = 1 .. Len(events) + 1 /\ events'[Len(events) + 1] = type
        /\ \A i \in 1 .. Len(events) : events'[i] = events[i]
    BY <1>t, <1>a, AppendOf
  <2>2. \A i \in 1 .. Len(events) + 1 : i \in 1 .. Len(events) \/ i = Len(events) + 1
    BY <1>t
  <2>3. \A i \in 1 .. Len(events) : i \in 1 .. Len(events) + 1
    BY <1>t
  <2> QED BY <1>t, <2>1, <2>2, <2>3 DEF Final
<1>1. CASE Feed!Progress
  <2>1. status = "running" /\ closer = <<>> /\ UNCHANGED <<status, closer, open>>
    BY <1>1 DEF Feed!Progress, Feed!client
  <2>2. PICK type \in {"step", "quiet"} : events' = Append(events, type)
    BY <1>1 DEF Feed!Progress, Feed!AddEvent
  <2>3. (Final => Final') /\ (Final' => Final)
    BY <1>a, <2>2
  <2> QED BY <2>1, <2>3, Zenon DEF Over
<1>2. CASE Feed!Ends
  <2>1. /\ closer' \in Feed!RunEndings \cup Feed!CancelEndings \cup {Feed!RejectEnding}
        /\ UNCHANGED <<events, open>>
    BY <1>2 DEF Feed!Ends, Feed!client
  <2>2. Feed!Contains(closer', "row")
    BY <2>1, EndingsTypes
  <2>3. Feed!Contains(closer, "row")'
    BY <2>2 DEF Feed!Contains
  <2>4. Final' <=> Final
    BY <2>1 DEF Final
  <2> QED BY <2>1, <2>3, <2>4, Zenon DEF Over
<1>3. CASE Feed!Write
  <2>1. closer # <<>> /\ closer' = Tail(closer) /\ UNCHANGED open
    BY <1>3 DEF Feed!Write, Feed!client
  <2>2. /\ Len(Tail(closer)) = Len(closer) - 1 /\ Len(closer) \in Nat /\ Len(closer) >= 1
        /\ Head(closer) = closer[1] /\ closer[1] \in {"row", "step", "quiet", "final"}
        /\ \A k \in 1 .. Len(closer) - 1 : Tail(closer)[k] = closer[k + 1]
    BY <2>1, TailOf DEF FeedTypes
  <2>3. status = "ended" \/ Feed!Contains(closer, "row")
    BY <2>1 DEF Over
  <2>4. CASE status' = "ended" /\ UNCHANGED events
    <3>1. Final' <=> Final
      BY <2>4 DEF Final
    <3> QED BY <2>1, <2>4, <3>1, Zenon DEF Over
  <2>5. CASE Head(closer) # "row" /\ events' = Append(events, Head(closer)) /\ UNCHANGED status
    <3>1. Head(closer) \in {"step", "quiet", "final"}
      BY <2>2, <2>5
    <3>2. Final => Final'
      BY <1>a, <2>5, <3>1
    <3>3. Feed!Contains(closer, "row") => Feed!Contains(closer, "row")'
      <4>1. SUFFICES ASSUME NEW k \in 1 .. Len(closer), closer[k] = "row"
                     PROVE  \E m \in 1 .. Len(closer') : closer'[m] = "row"
        BY DEF Feed!Contains
      <4>2. k # 1 /\ k - 1 \in 1 .. Len(closer')
        BY <2>1, <2>2, <2>5, <4>1
      <4>3. closer'[k - 1] = closer[k - 1 + 1] /\ k - 1 + 1 = k
        BY <2>1, <2>2, <4>2
      <4> QED BY <4>1, <4>2, <4>3
    <3>4. status' = "ended" \/ Feed!Contains(closer, "row")'
      BY <2>3, <2>5, <3>3, Zenon
    <3> QED BY <2>1, <3>2, <3>4, Zenon DEF Over
  <2> QED BY <1>3, <2>4, <2>5, Zenon DEF Feed!Write, Feed!AddEvent
<1>4. CASE Feed!Connect \/ Feed!Read \/ Feed!Send \/ Feed!Check \/ Feed!EndOfStream \/ Feed!Drop
  <2>1. UNCHANGED <<events, status, closer, open>>
    BY <1>4 DEF Feed!Connect, Feed!Read, Feed!Send, Feed!Check, Feed!EndOfStream, Feed!Drop,
                Feed!task, Feed!client
  <2> QED BY <2>1, Zenon DEF Over, Final, Feed!Contains
<1>5. CASE Feed!Deliver
  <2>1. wire # <<>> /\ UNCHANGED <<events, status, closer>>
    BY <1>5 DEF Feed!Deliver, Feed!task
  <2>2. events[Head(wire)] = "final" => Final
    <3>1. Head(wire) \in 1 .. Len(events)
      <4>1. /\ Len(wire) \in Nat /\ Len(wire) >= 1 /\ Head(wire) = wire[1] /\ last \in Nat /\ Len(batch) \in Nat
        BY <2>1, TailOf DEF FeedTypes
      <4>2. wire[1] = last - Len(wire) + 1 /\ Len(wire) <= last /\ last + Len(batch) <= Len(events)
        BY <4>1 DEF InTransit
      <4> QED BY <1>t, <4>1, <4>2
    <3> QED BY <1>t, <3>1 DEF Final
  <2>3. \/ events[Head(wire)] = "final" /\ open' = FALSE
        \/ UNCHANGED open
    BY <1>5, Zenon DEF Feed!Deliver, Feed!Closes
  <2>4. Final' <=> Final
    BY <2>1 DEF Final
  <2>5. Feed!Contains(closer, "row")' <=> Feed!Contains(closer, "row")
    BY <2>1 DEF Feed!Contains
  <2> QED BY <2>1, <2>2, <2>3, <2>4, <2>5, Zenon DEF Over
<1>6. CASE Feed!Select
  <2>1. open' = TRUE /\ UNCHANGED <<events, status, closer>>
    BY <1>6, Zenon DEF Feed!Select, Feed!task
  <2> QED BY <2>1, Zenon DEF Over, Final, Feed!Contains
<1>7. CASE UNCHANGED Feed!vars
  <2>1. UNCHANGED <<events, status, closer, open>>
    BY <1>7 DEF Feed!vars
  <2> QED BY <2>1, Zenon DEF Over, Final, Feed!Contains
<1> QED
  BY <1>1, <1>2, <1>3, <1>4, <1>5, <1>6, <1>7 DEF Feed!Next, Feed!ServerStep

FeedInv == FeedTypes /\ InTransit /\ Delivered /\ Over /\ open \in BOOLEAN

LEMMA FeedStart == Feed!Init => FeedInv
<1> SUFFICES ASSUME Feed!Init PROVE FeedInv
  OBVIOUS
<1>1. /\ events = <<"step">> /\ status = "running" /\ closer = <<>> /\ conn = "off" /\ last = 0
      /\ batch = <<>> /\ wire = <<>> /\ open = TRUE /\ shown = <<>>
  BY DEF Feed!Init
<1>2. /\ Len(events) = 1 /\ DOMAIN events = 1 .. 1 /\ events[1] = "step"
      /\ events \in Seq({"step", "quiet", "final"})
  BY <1>1
<1>3. FeedTypes
  BY <1>1, <1>2, NoneOf DEF FeedTypes
<1>4. InTransit
  BY <1>1, <1>2, NoneOf DEF InTransit
<1>5. Delivered
  <2>1. Prefix(0) = {} /\ Feed!ToSet(shown) = {} /\ last - Len(wire) = 0 /\ 0 \in 0 .. Len(events)
    <3>1. DOMAIN shown = {} /\ Len(wire) = 0
      BY <1>1, NoneOf
    <3>2. last = 0 /\ Len(events) = 1
      BY <1>1, <1>2
    <3>3. Prefix(0) = {}
      BY DEF Prefix
    <3>4. Feed!ToSet(shown) = {}
      BY <3>1 DEF Feed!ToSet
    <3> QED BY <3>1, <3>2, <3>3, <3>4
  <2> QED BY <1>1, <2>1, NoneOf DEF Delivered
<1>6. ~Final
  BY <1>2 DEF Final
<1>7. open \in BOOLEAN /\ Over
  BY <1>1, <1>6, Zenon DEF Over
<1> QED BY <1>3, <1>4, <1>5, <1>7, Zenon DEF FeedInv

LEMMA FeedStep == FeedInv /\ [Feed!Next]_(Feed!vars) => FeedInv'
BY FeedTypesStep, InTransitStep, DeliveredStep, OverStep, Zenon DEF FeedInv

\* A batch is there exactly while it is being sent; the bounds keep their limits.
FeedRest ==
  /\ conn \in {"off", "read", "send", "check", "ended"}
  /\ batch # <<>> => conn = "send"
  /\ drops \in 0 .. MaxDrops /\ selects \in 0 .. MaxSelects

LEMMA FeedRestStep ==
  ASSUME Feed!StreamAssumption, FeedRest, [Feed!Next]_(Feed!vars)
  PROVE  FeedRest'
<1> USE DEF FeedRest
<1>0. MaxDrops \in Nat /\ MaxSelects \in Nat
  BY DEF Feed!StreamAssumption
<1>1. CASE Feed!Progress \/ Feed!Ends \/ Feed!Write
  BY <1>1 DEF Feed!Progress, Feed!Ends, Feed!Write, Feed!server
<1>2. CASE Feed!Connect
  BY <1>2 DEF Feed!Connect
<1>3. CASE Feed!Read \/ Feed!Send
  <2>1. (conn' = IF batch' = <<>> THEN "check" ELSE "send") /\ UNCHANGED <<drops, selects>>
    BY <1>3 DEF Feed!Read, Feed!Send
  <2> QED BY <2>1
<1>4. CASE Feed!Check
  <2>1. conn = "check" /\ conn' \in {"ended", "read"} /\ UNCHANGED <<batch, drops, selects>>
    BY <1>4 DEF Feed!Check
  <2> QED BY <2>1
<1>5. CASE Feed!Deliver
  BY <1>5 DEF Feed!Deliver, Feed!Hangup, Feed!server
<1>6. CASE Feed!EndOfStream
  BY <1>6 DEF Feed!EndOfStream, Feed!Hangup
<1>7. CASE Feed!Drop
  BY <1>0, <1>7 DEF Feed!Drop, Feed!Hangup
<1>8. CASE Feed!Select
  BY <1>0, <1>8 DEF Feed!Select, Feed!Hangup
<1>9. CASE UNCHANGED Feed!vars
  BY <1>9 DEF Feed!vars
<1> QED
  BY <1>1, <1>2, <1>3, <1>4, <1>5, <1>6, <1>7, <1>8, <1>9 DEF Feed!Next, Feed!ServerStep

LEMMA Lengths ==
  ASSUME FeedTypes
  PROVE  /\ Len(events) \in Nat /\ DOMAIN events = 1 .. Len(events)
         /\ Len(batch) \in Nat /\ Len(wire) \in Nat /\ last \in Nat
BY DEF FeedTypes

LEMMA FeedIsTyped ==
  ASSUME FeedInv, FeedRest
  PROVE  Feed!TypeOK
<1>t. /\ FeedTypes /\ InTransit /\ open \in BOOLEAN
      /\ Len(events) \in Nat /\ DOMAIN events = 1 .. Len(events)
      /\ Len(batch) \in Nat /\ Len(wire) \in Nat /\ last \in Nat
  BY Zenon, Lengths DEF FeedInv
<1>1. last \in 0 .. Len(events)
  BY <1>t DEF InTransit
<1>2. batch \in Seq(Feed!Ids)
  <2>1. \A k \in 1 .. Len(batch) : batch[k] \in 1 .. Len(events)
    BY <1>t DEF InTransit
  <2> QED BY <1>t, <2>1, Elements DEF FeedTypes, Feed!Ids
<1>3. wire \in Seq(Feed!Ids)
  <2>1. \A k \in 1 .. Len(wire) : wire[k] \in 1 .. Len(events)
    BY <1>t DEF InTransit
  <2> QED BY <1>t, <2>1, Elements DEF FeedTypes, Feed!Ids
<1>4. shown \in Seq(Feed!Ids)
  <2>1. PICK n \in 0 .. Len(events) : Feed!ToSet(shown) = Prefix(n)
    BY DEF FeedInv, Delivered
  <2>2. Prefix(n) \subseteq 1 .. Len(events)
    BY <1>t DEF Prefix
  <2>3. shown \in Seq(Nat) /\ DOMAIN shown = 1 .. Len(shown)
    BY <1>t DEF FeedTypes
  <2>4. \A k \in 1 .. Len(shown) : shown[k] \in 1 .. Len(events)
    BY <2>1, <2>2, <2>3 DEF Feed!ToSet
  <2> QED BY <1>t, <2>3, <2>4, Elements DEF Feed!Ids
<1>5. (conn = "send") = (batch # <<>>)
  BY <1>t, Zenon DEF InTransit, FeedRest
<1> QED BY <1>t, <1>1, <1>2, <1>3, <1>4, <1>5, Zenon DEF FeedTypes, FeedRest, Feed!TypeOK

LEMMA WindowTold == FeedInv => WindowIsTrue
<1> SUFFICES ASSUME FeedInv PROVE WindowIsTrue
  OBVIOUS
<1>1. Feed!ShownIsPrefix
  BY DEF FeedInv, Delivered, Prefix, Feed!ShownIsPrefix
<1>2. Feed!ClosedMeansEnded
  BY Zenon DEF FeedInv, Over, Feed!ClosedMeansEnded
<1> QED BY <1>1, <1>2 DEF WindowIsTrue, Feed!WindowIsTrue

\* The window of a task shows what the task has written, in order and without a gap, and
\* has stopped listening only when the task is over or being ended (useTaskStream.ts
\* appendEvent, closeAfterAppend): for every number of events, lost connections and visits.
THEOREM FeedWindowIsTrue == Feed!Spec => []WindowIsTrue
BY WindowTold, FeedStart, FeedStep, PTL DEF Feed!Spec

\* Every listed event is shown, or the connection that is open will still bring it: it is on
\* the wire, read, or newer than what was read.
NothingSkipped ==
  \A i \in Feed!Ids : Feed!Listed(i) =>
    \/ i \in Feed!ToSet(shown)
    \/ \E k \in DOMAIN wire : wire[k] = i
    \/ \E k \in DOMAIN batch : batch[k] = i
    \/ i > last + Len(batch)

LEMMA InvSkipsNothing == FeedInv => NothingSkipped
<1> SUFFICES ASSUME FeedInv, NEW i \in Feed!Ids, Feed!Listed(i), i <= last + Len(batch)
             PROVE  \/ i \in Feed!ToSet(shown)
                    \/ \E k \in DOMAIN wire : wire[k] = i
                    \/ \E k \in DOMAIN batch : batch[k] = i
  <2>1. ASSUME FeedInv PROVE last \in Nat /\ Len(batch) \in Nat /\ Feed!Ids = 1 .. Len(events) /\ Len(events) \in Nat
    BY <2>1, Lengths DEF FeedInv, FeedTypes, Feed!Ids
  <2> QED BY <2>1 DEF NothingSkipped
<1>f. FeedTypes /\ InTransit
  BY Zenon DEF FeedInv
<1>t. /\ FeedTypes /\ InTransit /\ Len(events) \in Nat /\ DOMAIN events = 1 .. Len(events)
      /\ Len(batch) \in Nat /\ Len(wire) \in Nat /\ last \in Nat
      /\ DOMAIN wire = 1 .. Len(wire) /\ DOMAIN batch = 1 .. Len(batch)
  BY <1>f, Lengths DEF FeedTypes
<1>0. i \in 1 .. Len(events)
  BY <1>t DEF Feed!Ids
<1>1. CASE i <= last - Len(wire)
  <2>1. i \in Prefix(last - Len(wire))
    BY <1>t, <1>0, <1>1 DEF Prefix
  <2> QED BY <2>1 DEF FeedInv, Delivered
<1>2. CASE i > last - Len(wire) /\ i <= last
  <2> DEFINE k == i - (last - Len(wire))
  <2>1. k \in 1 .. Len(wire) /\ last - Len(wire) + k = i
    BY <1>t, <1>0, <1>2
  <2> HIDE DEF k
  <2>2. wire[k] = i
    BY <2>1 DEF FeedInv, InTransit
  <2> QED BY <1>t, <2>1, <2>2
<1>3. CASE i > last
  <2> DEFINE k == i - last
  <2>1. k \in 1 .. Len(batch) /\ last + k = i
    BY <1>t, <1>0, <1>3
  <2> HIDE DEF k
  <2>2. batch[k] = i
    BY <2>1 DEF FeedInv, InTransit
  <2> QED BY <1>t, <2>1, <2>2
<1> QED BY <1>t, <1>0, <1>1, <1>2, <1>3

\* No connection leaves out a listed event, although each one begins with the whole history
\* and the events go on being written while it sends (stream_task, list_events).  It is what
\* ListedIsShown adds fairness to.
THEOREM FeedSkipsNothing == Feed!Spec => []NothingSkipped
BY InvSkipsNothing, FeedStart, FeedStep, PTL DEF Feed!Spec

\* The steps that the generator has still to take before it reads the row and, when the
\* task is over, ends.
ServesLeft ==
  CASE conn \in {"off", "ended"} -> 0
    [] conn = "check" -> 1
    [] conn = "send" -> Len(batch) + 1
    [] OTHER -> Len(events) - last + 2

\* A step of the generator brings the end of the connection closer once the task is over;
\* only an event that is written late and a new connection put it off.
EndComesCloser ==
  /\ Feed!ServerStep /\ status = "ended" => ServesLeft' < ServesLeft
  /\ Feed!ServerStep \/ Feed!Connect \/ Feed!Write \/ Feed!Progress \/ ServesLeft' <= ServesLeft

LEMMA ServesLeftFits ==
  ASSUME FeedInv, FeedRest
  PROVE  ServesLeft \in Nat /\ (ServesLeft = 0 <=> conn \in {"off", "ended"})
<1>1. /\ Len(events) \in Nat /\ last \in Nat /\ Len(batch) \in Nat /\ last + Len(batch) <= Len(events)
  BY Lengths DEF FeedInv, FeedTypes, InTransit
<1>2. Len(events) - last + 2 \in Nat /\ Len(events) - last + 2 # 0 /\ Len(batch) + 1 # 0
  BY <1>1
<1>3. conn \in {"off", "read", "send", "check", "ended"}
  BY DEF FeedRest
<1> QED BY <1>1, <1>2, <1>3 DEF ServesLeft

LEMMA EndComes ==
  ASSUME FeedInv, FeedRest, [Feed!Next]_(Feed!vars)
  PROVE  EndComesCloser
<1>0. /\ Len(events) \in Nat /\ last \in Nat /\ Len(batch) \in Nat /\ last + Len(batch) <= Len(events)
      /\ batch \in Seq(Nat)
  BY Lengths DEF FeedInv, FeedTypes, InTransit
<1>f. ServesLeft \in Nat
  BY ServesLeftFits
<1>1. CASE Feed!Read
  <2> DEFINE n == Len(events) - last
  <2>1. n \in Nat /\ Feed!After(last) = [k \in 1 .. n |-> last + k]
    BY <1>0 DEF Feed!After
  <2>2. Len(batch') = n /\ (n = 0 => batch' = <<>>)
    BY <1>1, <2>1 DEF Feed!Read
  <2>3. ServesLeft = n + 2
    BY <1>1 DEF Feed!Read, ServesLeft
  <2>4. ServesLeft' \in {1, n + 1}
    BY <1>1, <2>2 DEF Feed!Read, ServesLeft
  <2> HIDE DEF n
  <2> QED BY <1>1, <2>1, <2>3, <2>4 DEF EndComesCloser, Feed!ServerStep
<1>2. CASE Feed!Send
  <2>1. batch # <<>>
    BY <1>2 DEF Feed!Send, FeedInv, InTransit
  <2>2. Len(batch') = Len(batch) - 1 /\ Len(batch) >= 1
    BY <1>0, <1>2, <2>1 DEF Feed!Send
  <2>3. ServesLeft = Len(batch) + 1
    BY <1>2 DEF Feed!Send, ServesLeft
  <2>4. ServesLeft' \in {1, Len(batch') + 1}
    BY <1>2 DEF Feed!Send, ServesLeft
  <2> QED BY <1>0, <1>2, <2>2, <2>3, <2>4 DEF EndComesCloser, Feed!ServerStep
<1>3. CASE Feed!Check
  <2>1. ServesLeft = 1 /\ (status = "ended" => ServesLeft' = 0)
    BY <1>3 DEF Feed!Check, Feed!Terminal, ServesLeft
  <2> QED BY <1>3, <2>1 DEF EndComesCloser, Feed!ServerStep
<1>4. CASE ~Feed!ServerStep /\ (Feed!Connect \/ Feed!Write \/ Feed!Progress)
  BY <1>4, Zenon DEF EndComesCloser
<1>5. CASE ~Feed!ServerStep /\ (Feed!Ends \/ Feed!Deliver \/ Feed!EndOfStream \/ Feed!Drop
                                \/ Feed!Select \/ UNCHANGED Feed!vars)
  <2>1. \/ conn' = "off"
        \/ UNCHANGED <<events, conn, last, batch>>
    BY <1>5, Zenon DEF Feed!Ends, Feed!Deliver, Feed!EndOfStream, Feed!Drop, Feed!Select, Feed!Hangup,
                Feed!task, Feed!server, Feed!vars
  <2>2. ServesLeft' = 0 \/ ServesLeft' = ServesLeft
    <3>1. CASE conn' = "off"
      BY <3>1 DEF ServesLeft
    <3>2. CASE UNCHANGED <<events, conn, last, batch>>
      BY <3>2 DEF ServesLeft
    <3> QED BY <2>1, <3>1, <3>2
  <2>3. ServesLeft' <= ServesLeft
    BY <1>f, <2>2
  <2> QED BY <1>5, <2>3, Zenon DEF EndComesCloser
<1> QED BY <1>1, <1>2, <1>3, <1>4, <1>5, Zenon DEF Feed!Next, Feed!ServerStep

\* No connection is served for ever once the task is over: every step of the generator uses
\* up one of a number of steps that only an event written late or a new connection raises.
\* StreamsEnd adds the fairness of the generator.
THEOREM FeedConnectionsEnd ==
  Feed!Spec => /\ [](ServesLeft \in Nat /\ (ServesLeft = 0 <=> conn \in {"off", "ended"}))
               /\ [][EndComesCloser]_(Feed!vars)
<1>1. Feed!Init => FeedInv /\ FeedRest
  BY ProgressAssumption, FeedStart DEF Feed!Init, FeedRest, Feed!StreamAssumption
<1>2. FeedInv /\ FeedRest /\ [Feed!Next]_(Feed!vars) => FeedInv' /\ FeedRest' /\ EndComesCloser
  BY ProgressAssumption, FeedStep, FeedRestStep, EndComes
<1>3. FeedInv /\ FeedRest => ServesLeft \in Nat /\ (ServesLeft = 0 <=> conn \in {"off", "ended"})
  BY ServesLeftFits
<1> QED BY <1>1, <1>2, <1>3, PTL DEF Feed!Spec

-----------------------------------------------------------------------------
(* All parts together: the types, for every choice of the parts.            *)

\* The proofs about the knowledge base, for the base of this module.
Store == INSTANCE Knowledge_proofs WITH
  Files <- {"f1"}, Contents <- {"c1", "c2"}, Queries <- {"q1", "q2"},
  Matches <- [q1 |-> {"c1"}, q2 |-> {"c1", "c2"}], Workers <- {"w1"}, Clients <- {"k1", "k2"},
  CacheSize <- 1, Ttl <- 2, Faults <- TRUE, MaxEdits <- 0, MaxDeletes <- 2, MaxRestarts <- 0,
  restarts <- reloads

LEMMA SameAssumption == Retrieve!KnowledgeAssumption = Store!KnowledgeAssumption
BY DEF Retrieve!KnowledgeAssumption, Store!KnowledgeAssumption, Retrieve!None, Store!None

LEMMA SameInit == Retrieve!Init <=> Store!Init
BY DEF Retrieve!Init, Store!Init, Retrieve!Idle, Store!Idle, Retrieve!None, Store!None

LEMMA SameTypes == Retrieve!TypeOK <=> Store!TypeOK
BY DEF Retrieve!TypeOK, Store!TypeOK, Retrieve!Operation, Store!Operation,
       Retrieve!Retrieval, Store!Retrieval, Retrieve!Entry, Store!Entry,
       Retrieve!None, Store!None, Retrieve!Idle, Store!Idle

LEMMA SameNext == Retrieve!Next <=> Store!Next
BY Zenon
   DEF Retrieve!Next, Store!Next, Retrieve!WorkerStep, Store!WorkerStep,
       Retrieve!ClientStep, Store!ClientStep, Retrieve!Edit, Store!Edit,
       Retrieve!GetIds, Store!GetIds, Retrieve!RemoveIds, Store!RemoveIds, Retrieve!Add, Store!Add,
       Retrieve!Recreate, Store!Recreate, Retrieve!Clear, Store!Clear,
       Retrieve!Ingest, Store!Ingest, Retrieve!Delete, Store!Delete,
       Retrieve!Search, Store!Search, Retrieve!Save, Store!Save, Retrieve!Ask, Store!Ask,
       Retrieve!Tick, Store!Tick, Retrieve!Restart, Store!Restart,
       Retrieve!Becomes, Store!Becomes, Retrieve!base, Store!base,
       Retrieve!counters, Store!counters, Retrieve!AfterDelete, Store!AfterDelete,
       Retrieve!Idle, Store!Idle, Retrieve!None, Store!None,
       Retrieve!FirstStep, Store!FirstStep, Retrieve!Without, Store!Without, Retrieve!At, Store!At,
       Retrieve!Touched, Store!Touched, Retrieve!Room, Store!Room, Retrieve!RemoveAt, Store!RemoveAt

\* A step of the whole is a step of one part, and the others rest.
LEMMA PartSteps ==
  ASSUME [ProgressNext]_<<part, vars, retrieve, launcher, feed>>
  PROVE  /\ [Next]_vars /\ [Retrieve!Next]_(Retrieve!vars)
         /\ [Main!Next]_(Main!vars) /\ [Feed!Next]_(Feed!vars)
<1>1. UNCHANGED retrieve => UNCHANGED Retrieve!vars
  BY DEF retrieve, Retrieve!vars, Retrieve!base, Retrieve!counters
<1>2. UNCHANGED launcher => UNCHANGED Main!vars
  BY DEF launcher, Main!vars, Main!control, Main!bounds
<1>3. UNCHANGED feed => UNCHANGED Feed!vars
  BY DEF feed, Feed!vars
<1>4. \/ Next /\ UNCHANGED <<retrieve, launcher, feed>>
      \/ Retrieve!Next /\ UNCHANGED <<vars, launcher, feed>>
      \/ Main!Next /\ UNCHANGED <<vars, retrieve, feed>>
      \/ Feed!Next /\ UNCHANGED <<vars, retrieve, launcher>>
      \/ UNCHANGED <<vars, retrieve, launcher, feed>>
  BY DEF ProgressNext
<1> QED BY <1>1, <1>2, <1>3, <1>4

PartsInv ==
  /\ Inv /\ Retrieve!TypeOK /\ FeedInv /\ FeedRest /\ LauncherAccounts /\ LauncherRest

LEMMA PartsStart == ProgressInit => PartsInv
<1> SUFFICES ASSUME ProgressInit PROVE PartsInv
  OBVIOUS
<1>0. Init /\ Retrieve!Init /\ Main!Init /\ Feed!Init
  BY DEF ProgressInit
<1>1. Inv
  BY <1>0, InitInv
<1>2. Retrieve!TypeOK
  BY <1>0, ProgressAssumption, SameAssumption, SameInit, SameTypes, Store!InitTypes
<1>3. FeedInv
  BY <1>0, FeedStart
<1>4. FeedRest
  BY <1>0, ProgressAssumption DEF Feed!Init, FeedRest, Feed!StreamAssumption
<1>5. LauncherAccounts
  BY <1>0, LauncherStart
<1>6. LauncherRest
  BY <1>0, ProgressAssumption DEF Main!Init, LauncherRest, Main!LauncherAssumption
<1> QED BY <1>1, <1>2, <1>3, <1>4, <1>5, <1>6 DEF PartsInv

LEMMA PartsStep ==
  PartsInv /\ [ProgressNext]_<<part, vars, retrieve, launcher, feed>> => PartsInv'
<1> SUFFICES ASSUME PartsInv, [ProgressNext]_<<part, vars, retrieve, launcher, feed>>
             PROVE  PartsInv'
  OBVIOUS
<1>0. /\ [Next]_vars /\ [Retrieve!Next]_(Retrieve!vars)
      /\ [Main!Next]_(Main!vars) /\ [Feed!Next]_(Feed!vars)
  BY PartSteps
<1>p. Inv /\ Retrieve!TypeOK /\ FeedInv /\ FeedRest /\ LauncherAccounts /\ LauncherRest
  BY DEF PartsInv
<1>a. Main!LauncherAssumption /\ Feed!StreamAssumption /\ Store!KnowledgeAssumption
  BY ProgressAssumption, SameAssumption
<1>1. Inv'
  BY <1>0, <1>p, NextInv
<1>2. Retrieve!TypeOK'
  <2>0. UNCHANGED Retrieve!vars => UNCHANGED Store!vars
    BY DEF Retrieve!vars, Store!vars, Retrieve!base, Store!base, Retrieve!counters, Store!counters
  <2>1. Store!TypeOK /\ [Store!Next]_(Store!vars)
    BY <1>0, <1>p, <2>0, SameNext, SameTypes
  <2>2. Store!TypeOK'
    BY <1>a, <2>1, Store!NextTypes
  <2>3. Retrieve!TypeOK' <=> Store!TypeOK'
    BY DEF Retrieve!TypeOK, Store!TypeOK, Retrieve!Operation, Store!Operation,
           Retrieve!Retrieval, Store!Retrieval, Retrieve!Entry, Store!Entry,
           Retrieve!None, Store!None, Retrieve!Idle, Store!Idle
  <2> QED BY <2>2, <2>3
<1>3. FeedInv'
  BY <1>0, <1>p, FeedStep
<1>4. FeedRest'
  BY <1>0, <1>a, <1>p, FeedRestStep
<1>5. LauncherAccounts'
  BY <1>0, <1>p, LauncherStepAccounts
<1>6. LauncherRest'
  BY <1>0, <1>a, <1>p, LauncherRestStep
<1> QED BY <1>1, <1>2, <1>3, <1>4, <1>5, <1>6 DEF PartsInv

\* Every part keeps its types, whichever parts a behaviour runs: the request to a model, the
\* cache of answers, any launchers, and the stream of a task.  Among them that the cache
\* has one entry for a query and is not too large, and that what is read, sent and shown
\* of a task exists.
THEOREM ProgressPartsTyped == ProgressSpec => []PartsTypeOK
<1>1. PartsInv => PartsTypeOK
  BY FeedIsTyped, LauncherIsTyped DEF PartsInv, Inv, LauncherAccounts, PartsTypeOK
<1> QED BY <1>1, PartsStart, PartsStep, PTL DEF ProgressSpec

\* What the theorems above say of each part alone holds of the parts side by side, in the
\* specification that the run progress checks.
THEOREM ProgressPartsWork ==
  ProgressSpec =>
    /\ [](CallsAreBounded /\ FallbackAsked /\ ShutdownWorks /\ WindowIsTrue)
    /\ RefusedKeyIsFinal
<1>1. PartsInv => CallsAreBounded /\ FallbackAsked /\ ShutdownWorks /\ WindowIsTrue
  BY CallsFit, AccountsWork, WindowTold DEF PartsInv, Inv, Ending
<1>2. PartsInv /\ [ProgressNext]_<<part, vars, retrieve, launcher, feed>> =>
        [refused /\ refused' => calls'["gemini"] = calls["gemini"]]_vars
  BY PartSteps, RefusedIsFinalStep DEF PartsInv
<1> QED BY <1>1, <1>2, PartsStart, PartsStep, PTL DEF ProgressSpec, RefusedKeyIsFinal
=============================================================================
