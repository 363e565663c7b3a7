------------------------------- MODULE LlmCalls -------------------------------
(***************************************************************************)
(* One request to a language model and all the calls it leads to           *)
(* (backend/llm/gateway.py, gemini.py, hybrid.py).                         *)
(*                                                                         *)
(* complete_structured() repeats complete() while the answer cannot be     *)
(* parsed (`outer'); complete() repeats the call of the service while it   *)
(* fails (`inner'); the hybrid provider asks Ollama after Gemini has       *)
(* failed.  What a service answers is a choice.                            *)
(***************************************************************************)
EXTENDS Integers

CONSTANTS
  Provider,  \* llm_provider: "gemini", "ollama" or "hybrid"
  MaxRetry,  \* max_retry_count
  MaxRequests \* bound: requests

ASSUME LlmAssumption ==
  /\ Provider \in {"gemini", "ollama", "hybrid"}
  /\ MaxRetry \in Nat /\ MaxRequests \in Nat

VARIABLES
  keySet,    \* GEMINI_API_KEY is set
  stage,     \* the service that is being asked, "idle" before and "done" after
  req,       \* the request: structured, with an image, model_override
  outer,     \* attempt of complete_structured
  inner,     \* attempt of complete
  model,     \* model_name of the present complete
  result,    \* what the caller got: "none", "answer", "failure"
  calls,     \* history: calls of each service for this request
  refused,   \* history: Gemini has refused the key
  exhausted, \* history: the model whose quota ended the last complete
  requests   \* counter of the bound

vars == <<keySet, stage, req, outer, inner, model, result, calls, refused, exhausted, requests>>

Services == {"gemini", "ollama"}

\* A Gemini model, a local one for text or one for images.  Under Gemini and
\* hybrid an image is sent with the name of the Gemini model (vision/fallback.py).
Overrides == {"none", "text", "vision", "gemini"}
Requests ==
  {r \in [structured : BOOLEAN, image : BOOLEAN, override : Overrides] :
     IF r.image
     THEN r.structured /\ r.override = (IF Provider = "ollama" THEN "vision" ELSE "gemini")
     ELSE r.override \in {"none", "text"}}

\* GeminiGateway._resolve_model: local names give way to the configured model.
ResolveGemini == "gemini"

\* OllamaGateway.complete.
ResolveOllama(override, image) ==
  IF override # "none" THEN override ELSE IF image THEN "vision" ELSE "text"

\* HybridLLMProvider: what Ollama is asked for after Gemini has failed.
FallbackOverride == IF req.override # "none" THEN req.override ELSE "text"

\* get_llm_provider.
First == IF Provider = "ollama" THEN "ollama" ELSE "gemini"

LocalModel ==
  ResolveOllama(IF Provider = "hybrid" THEN FallbackOverride ELSE req.override, req.image)

Init ==
  /\ keySet \in BOOLEAN /\ stage = "idle"
  /\ req = [structured |-> FALSE, image |-> FALSE, override |-> "none"]
  /\ outer = 0 /\ inner = 0 /\ model = "none" /\ result = "none"
  /\ calls = [s \in Services |-> 0] /\ refused = FALSE /\ exhausted = "none"
  /\ requests = 0

\* The caller asks for something.
Request ==
  /\ stage \in {"idle", "done"} /\ requests < MaxRequests /\ requests' = requests + 1
  /\ req' \in Requests
  /\ stage' = First /\ outer' = 0 /\ inner' = 0
  /\ model' = IF First = "gemini" THEN ResolveGemini
              ELSE ResolveOllama(req'.override, req'.image)
  /\ result' = "none" /\ calls' = [s \in Services |-> 0] /\ refused' = FALSE
  /\ exhausted' = "none" /\ UNCHANGED keySet

-----------------------------------------------------------------------------
(* The ends of complete() and complete_structured().                       *)

\* Mutant: nobody is asked after the first provider.
RaiseFinal == stage' = "done" /\ result' = "failure" /\ UNCHANGED <<outer, inner, model>>

\* The exception leaves the provider: the hybrid provider turns to Ollama.
Raise ==
  IF stage = "gemini" /\ Provider = "hybrid"
  THEN /\ stage' = "ollama" /\ outer' = 0 /\ inner' = 0
       /\ model' = LocalModel /\ UNCHANGED result
  ELSE stage' = "done" /\ result' = "failure" /\ UNCHANGED <<outer, inner, model>>

Return ==
  stage' = "done" /\ result' = "answer" /\ UNCHANGED <<outer, inner, model>>

\* Mutant: an attempt more than range(max_retry_count + 1) has.
NextAttemptMore(next) ==
  IF inner <= MaxRetry
  THEN /\ inner' = inner + 1 /\ model' = next /\ UNCHANGED <<stage, outer, result>>
  ELSE Raise

\* One more attempt of complete(), or the end of it.
NextAttempt(next) ==
  IF inner < MaxRetry
  THEN /\ inner' = inner + 1 /\ model' = next /\ UNCHANGED <<stage, outer, result>>
  ELSE Raise

\* The text does not fit the schema: complete() is asked again from its beginning.
Reparse ==
  IF outer < MaxRetry
  THEN /\ outer' = outer + 1 /\ inner' = 0
       /\ model' = IF stage = "gemini" THEN ResolveGemini ELSE LocalModel
       /\ UNCHANGED <<stage, result>>
  ELSE Raise

\* The service is called; what it answers follows.
Call(service) ==
  /\ stage = service
  /\ calls' = [calls EXCEPT ![service] = @ + 1]
  /\ UNCHANGED <<keySet, req, requests>>

-----------------------------------------------------------------------------
(* Gemini.                                                                 *)

\* Mutant: nothing happens without a key.
NoKeyWaits == stage = "gemini" /\ ~keySet /\ UNCHANGED vars

\* _client_instance raises before the first call.
NoKey ==
  /\ stage = "gemini" /\ ~keySet /\ Raise
  /\ UNCHANGED <<keySet, req, calls, refused, exhausted, requests>>

GeminiCall == keySet /\ Call("gemini")

GeminiText ==
  /\ GeminiCall /\ UNCHANGED <<refused, exhausted>>
  /\ \/ Return
     \/ req.structured /\ Reparse

GeminiTimeout == GeminiCall /\ UNCHANGED <<refused, exhausted>> /\ NextAttempt(model)

GeminiError == GeminiCall /\ UNCHANGED <<refused, exhausted>> /\ NextAttempt(model)

\* The quota is exhausted: the lite model takes the next attempt.
GeminiQuota ==
  /\ GeminiCall /\ UNCHANGED refused /\ NextAttempt("lite")
  /\ exhausted' = IF inner = MaxRetry THEN model ELSE exhausted

\* Mutant: an invalid key is an error like any other.
GeminiAuthRetried ==
  GeminiCall /\ refused' = TRUE /\ UNCHANGED exhausted /\ NextAttempt(model)

\* An invalid key ends the request at once.
GeminiAuth == GeminiCall /\ refused' = TRUE /\ UNCHANGED exhausted /\ Raise

-----------------------------------------------------------------------------
(* Ollama.                                                                 *)

OllamaText ==
  /\ Call("ollama") /\ UNCHANGED <<refused, exhausted>>
  /\ \/ Return
     \/ req.structured /\ Reparse

OllamaUnreachable == Call("ollama") /\ UNCHANGED <<refused, exhausted>> /\ NextAttempt(model)

\* Any other error is not repeated (an unknown model, for instance).
OllamaRefuses == Call("ollama") /\ UNCHANGED <<refused, exhausted>> /\ Raise

Step ==
  \/ NoKey \/ GeminiText \/ GeminiTimeout \/ GeminiError \/ GeminiQuota \/ GeminiAuth
  \/ OllamaText \/ OllamaUnreachable \/ OllamaRefuses

Next == Request \/ Step

Spec == Init /\ [][Next]_vars
FairSpec == Spec /\ WF_vars(Step)

-----------------------------------------------------------------------------
(* Properties.                                                             *)

TypeOK ==
  /\ keySet \in BOOLEAN /\ refused \in BOOLEAN
  /\ stage \in Services \cup {"idle", "done"}
  /\ req \in [structured : BOOLEAN, image : BOOLEAN, override : Overrides]
  /\ outer \in 0..MaxRetry /\ inner \in 0..MaxRetry
  /\ model \in Overrides \cup {"lite"} /\ exhausted \in Overrides \cup {"lite"}
  /\ result \in {"none", "answer", "failure"}
  /\ calls \in [Services -> Nat] /\ requests \in 0..MaxRequests

\* However the two loops of retries, the change of the model and the fallback
\* interact, one request calls a service at most (R+1)^2 times, and R+1 times
\* when no schema is asked for (gateway.py:85, 180; gemini.py:109, 288).
Budget == (MaxRetry + 1) * (IF req.structured THEN MaxRetry + 1 ELSE 1)
CallBudget == \A s \in Services : calls[s] <= Budget

\* A service that never answers is called R+1 times: only a text that cannot be
\* parsed starts the inner loop again (the outer loop catches ValueError only).
OutageBudget == stage \in Services => calls[stage] <= (outer + 1) * (MaxRetry + 1)

\* The two bounds together: neither outages nor unreadable answers multiply the calls.
CallsAreBounded == CallBudget /\ OutageBudget

\* The caller of the hybrid provider hears of a failure only after Ollama was
\* asked as well, also when no key is set (hybrid.py:51, 95).
FallbackAsked == Provider = "hybrid" /\ result = "failure" => calls["ollama"] > 0

\* A key that was refused is not tried again for the same request (gemini.py:221).
RefusedKeyIsFinal ==
  [][refused /\ refused' => calls'["gemini"] = calls["gemini"]]_vars

\* Every request comes to an end.
RequestEnds == stage \in Services ~> stage = "done"

\* An exhausted quota falls back to the lite model: Gemini is given up because
\* of a quota only when that of the lite model is exhausted too.
QuotaAsksLite == exhausted # "gemini"

\* Ollama is asked for a model that it can have, and for one that sees when
\* there is an image.
LocalModelFits ==
  stage = "ollama" => model # "gemini" /\ (req.image => model = "vision")
=============================================================================
