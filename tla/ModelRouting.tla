----------------------------- MODULE ModelRouting -----------------------------
(***************************************************************************)
(* Which model answers a node of the agent (backend/llm/registry.py,       *)
(* analyzer.py, router.py).                                                *)
(*                                                                         *)
(* The registry knows which models Ollama had when it was last asked; the  *)
(* analyzer turns a node's request into a role and capabilities; the       *)
(* router chooses.  One registry and one router serve all tasks.           *)
(***************************************************************************)
EXTENDS Integers, Sequences, SequencesExt

CONSTANTS
  Tasks,
  Ranked,      \* the registered models, by priority; models of the same one as registered
  Caps,        \* ModelMetadata.capabilities of each
  Unregistered, \* names of models that Ollama may have and the registry does not know
  RoleModels,  \* model_candidates_by_role
  Strategy,    \* model_routing_strategy: "dynamic", "static" or "single"
  StaticModel, \* model_vision, model_coding, ... : [roles -> models]
  Fallback, OllamaModel,  \* model_fallback, ollama_model
  Cooldown,    \* model_switch_cooldown_steps
  MaxChanges,  \* bound: models that are pulled or removed later
  MaxRoutes    \* bound: requests

None == "none"
Models == {Ranked[i] : i \in DOMAIN Ranked}
Names == Models \cup Unregistered
Roles == {"recovery", "vision", "coder", "lightweight", "planner", "general"}

RoutingAssumption ==
  /\ Strategy \in {"dynamic", "static", "single"}
  /\ {Fallback, OllamaModel} \subseteq Models
  /\ DOMAIN Caps = Models /\ DOMAIN RoleModels = Roles
  /\ None \notin Models /\ Ranked \in Seq(Models) /\ Unregistered \cap Models = {}
  /\ \A r \in Roles : RoleModels[r] \in Seq(Models)
  /\ {Cooldown, MaxChanges, MaxRoutes} \subseteq Nat

VARIABLES
  daemon,    \* the models that Ollama has
  installed, \* ModelRegistry._installed_cache
  probe,     \* for each caller of list_model_names: whether it has asked, what it was told
  last,      \* ModelRouter._last_selected_model
  active,    \* selected_model of each task's state
  decision,  \* the last RoutingDecision, with what it was made from
  previous,  \* history: the model of the decision before
  held,      \* history: decisions since the model changed
  changes, routes                     \* counters of the bounds

registry == <<installed, probe>>
vars == <<daemon, registry, last, active, decision, previous, held, changes, routes>>

Callers == Tasks \cup {"startup"}
NoProbe == [phase |-> "idle", names |-> {}]

-----------------------------------------------------------------------------
(* CapabilityAnalyzer.                                                     *)

\* The node that asks, and what it finds in the words of the task.
Requests == [node : {"intent", "planning", "action", "recovery"},
             words : SUBSET {"visual", "coding", "complex", "browse"}]

Needs(role, caps) == [role |-> role, caps |-> caps]

Analyze(r) ==
  LET complex == r.node = "planning" \/ "complex" \in r.words
      routine == r.node = "intent" \/ (r.node = "action" /\ "browse" \in r.words /\ ~complex)
  IN CASE r.node = "recovery"   -> Needs("recovery", <<"recovery", "reasoning">>)
       [] "visual" \in r.words  -> Needs("vision", <<"vision", "gui_understanding">>)
       [] "coding" \in r.words  -> Needs("coder", <<"coding", "debugging">>)
       [] routine               -> Needs("lightweight", <<"lightweight", "fast">>)
       [] complex               -> Needs("planner", <<"planning", "reasoning">>)
       [] OTHER                 -> Needs("general", <<"general">>)

\* What the nodes can ask for.
Asked == {Analyze(r) : r \in Requests}

-----------------------------------------------------------------------------
(* ModelRegistry.                                                          *)

Has(m, caps) == ToSet(caps) \subseteq Caps[m]

\* list_installed_models: meta.installed is set with the cache, for the registered models.
Marked == installed \cap Models

\* Until Ollama was heard, every model passes; a list of unregistered models lets none pass.
Available(m) == installed # {} => m \in Marked

\* The first of a list that is in a set, or None: nothing else is asked of the candidates.
First(list, S) ==
  LET at == {i \in DOMAIN list : list[i] \in S}
  IN  IF at = {} THEN None ELSE list[CHOOSE i \in at : \A j \in at : i <= j]

\* Mutant: what is installed is not looked at.
FindAny(caps) == First(Ranked, {m \in Models : Has(m, caps)})

FindByCapabilities(caps) == First(Ranked, {m \in Models : Available(m) /\ Has(m, caps)})

RoleCaps(role) ==
  CASE role = "planner"  -> <<"planning", "reasoning">>
    [] role = "recovery" -> <<"recovery", "reasoning">>
    [] role = "coder"    -> <<"coding">>
    [] OTHER             -> <<role>>

\* get_candidates_for_role: a configured model that is there, or another that
\* can do the same.
CandidateForRole(role) ==
  LET configured == First(RoleModels[role], {m \in Models : Available(m)})
  IN  IF configured # None THEN configured ELSE FindByCapabilities(RoleCaps(role))

-----------------------------------------------------------------------------
(* ModelRouter.route.                                                      *)

Candidate(needs) ==
  LET byRole == CandidateForRole(needs.role)
      byCaps == FindByCapabilities(needs.caps)
  IN  IF byRole # None THEN byRole
      ELSE IF byCaps # None \/ Len(needs.caps) = 1 THEN byCaps
      ELSE FindByCapabilities(<<Head(needs.caps)>>)

\* Only the fallback is asked for; ollama_model is used whether it is there or not.
FallbackModel == IF Available(Fallback) THEN Fallback ELSE OllamaModel

\* The model that is kept: the task's own, else the one that was chosen last.
Current(t) == IF active[t] # None THEN active[t] ELSE last

\* Only the recovery node asks for the role of recovery.
Sticks(t, needs) ==
  /\ Current(t) # None /\ needs.role # "recovery"
  /\ Available(Current(t)) /\ Has(Current(t), needs.caps)

Chosen(needs) ==
  IF Strategy = "static" /\ needs.role \in DOMAIN StaticModel
  THEN StaticModel[needs.role]
  ELSE IF Candidate(needs) = None THEN FallbackModel ELSE Candidate(needs)

\* The modes that decide before any analysis and leave no trace in the router.
Bypass(model) ==
  \/ Strategy = "single" /\ model = OllamaModel
  \/ Strategy # "single" /\ Marked = {model}

\* What route() answers, and whether it says that the model is switched.
Route(t, needs) ==
  LET Decide(model, switch, remembered) ==
        /\ decision' = [model |-> model, switch |-> switch, needs |-> needs,
                        known |-> installed, bypass |-> ~remembered]
        /\ previous' = decision.model
        /\ held' = IF decision.model \in {None, model} THEN held + 1 ELSE 1
        /\ last' = IF remembered THEN model ELSE last
        /\ \/ active' = [active EXCEPT ![t] = model]
           \/ UNCHANGED active   \* the node fails before it returns the model
  IN
  /\ routes < MaxRoutes /\ routes' = routes + 1
  /\ \/ \E m \in Models : Bypass(m) /\ Decide(m, last \notin {None, m}, FALSE)
     \/ /\ ~ \E m \in Models : Bypass(m)
        /\ IF Sticks(t, needs) THEN Decide(Current(t), FALSE, TRUE)
           ELSE Decide(Chosen(needs), last \notin {None, Chosen(needs)}, TRUE)
  /\ UNCHANGED <<daemon, registry, changes>>

-----------------------------------------------------------------------------
(* Ollama is asked for its models: at the start as long as nothing is known, *)
(* and by every look for a vision model (vision/fallback.py).              *)

Probe(c) ==
  /\ probe[c].phase = "idle" /\ (c = "startup" => installed = {})
  /\ probe' = [probe EXCEPT ![c].phase = "asked"]
  /\ UNCHANGED <<daemon, installed, last, active, decision, previous, held, changes, routes>>

\* Ollama answers, or cannot be reached: then the list is empty.
Answer(c) ==
  /\ probe[c].phase = "asked"
  /\ \E names \in {daemon, {}} : probe' = [probe EXCEPT ![c] = [phase |-> "told", names |-> names]]
  /\ UNCHANGED <<daemon, installed, last, active, decision, previous, held, changes, routes>>

\* Mutant: an empty list is believed.
NewlyInstalledAny(names) == names

\* An empty list changes nothing.
NewlyInstalled(names) == IF names # {} THEN names ELSE installed

MarkInstalled(c) ==
  /\ probe[c].phase = "told"
  /\ installed' = NewlyInstalled(probe[c].names)
  /\ probe' = [probe EXCEPT ![c] = NoProbe]
  /\ UNCHANGED <<daemon, last, active, decision, previous, held, changes, routes>>

\* The user pulls or removes a model, registered or not.
DaemonChanges ==
  /\ changes < MaxChanges /\ changes' = changes + 1
  /\ \E m \in Names : daemon' = IF m \in daemon THEN daemon \ {m} ELSE daemon \cup {m}
  /\ UNCHANGED <<registry, last, active, decision, previous, held, routes>>

Init ==
  /\ daemon \in SUBSET Names /\ installed = {} /\ probe = [c \in Callers |-> NoProbe]
  /\ last = None /\ active = [t \in Tasks |-> None]
  /\ decision = [model |-> None, switch |-> FALSE, needs |-> Needs("general", <<>>),
                 known |-> {}, bypass |-> FALSE]
  /\ previous = None /\ held = 0 /\ changes = 0 /\ routes = 0

Next ==
  \/ DaemonChanges
  \/ \E c \in Callers : Probe(c) \/ Answer(c) \/ MarkInstalled(c)
  \/ \E t \in Tasks, needs \in Asked : Route(t, needs)

Spec == Init /\ [][Next]_vars

-----------------------------------------------------------------------------
(* Properties.                                                             *)

ModelOrNone == Models \cup {None}

TypeOK ==
  /\ daemon \subseteq Names /\ installed \subseteq Names
  /\ \A c \in Callers : /\ probe[c].phase \in {"idle", "asked", "told"}
                        /\ probe[c].names \subseteq Names
  /\ last \in ModelOrNone /\ active \in [Tasks -> ModelOrNone]
  /\ decision.model \in ModelOrNone /\ decision.needs.role \in Roles
  /\ routes > 0 => decision.model \in Models

\* The role lists of config.py, the capabilities of registry.py and the order
\* of the router's stages fit together: whatever is installed and whatever was
\* used before, a node never gets a model that cannot do what it needs while
\* one that can is known to be installed (router.py:105-182).
CapableIsChosen ==
  LET able == {m \in decision.known \cap Models : Has(m, decision.needs.caps)}
  IN  able # {} /\ ~decision.bypass => decision.model \in able

\* What the configuration must be like, and is (config.py:96-105, registry.py:71-172): every
\* model that can do what the analyzer asks of a role comes before any model of the role's
\* list that cannot, and what is found for a role in general can do what is asked of it.
RolesFit ==
  \A needs \in Asked :
    LET list == RoleModels[needs.role]
        able == {m \in Models : Has(m, needs.caps)}
    IN able # {} =>
         /\ \A i \in DOMAIN list : list[i] \in able \/ \A m \in able : \E j \in 1 .. i - 1 : list[j] = m
         /\ \A m \in Models : Has(m, RoleCaps(needs.role)) => m \in able

\* What was once known of Ollama is never forgotten for nothing: a list that
\* could not be read leaves the last one in force (registry.py:259-268).
KnowledgeSurvives == [][installed # {} => installed' # {}]_vars

\* What is known of Ollama is kept, and it is used: every node gets a model that can do its
\* work while one is known (router.py, registry.py).
KnownModelsServe == []CapableIsChosen /\ KnowledgeSurvives

\* Stage 2 of the router: a model that is known to be missing is not chosen.
OnlyInstalled == decision.known # {} => decision.model \in decision.known

\* A model is changed after at least Cooldown decisions with the same one.
CooldownHolds == [][decision'.model # decision.model /\ decision.model # None => held >= Cooldown]_vars

\* The decision says so when another model has to be loaded than the last one used.
SwitchIsReported == previous \notin {None, decision.model} => decision.switch
=============================================================================
