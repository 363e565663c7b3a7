------------------------------- MODULE MCSteps -------------------------------
(***************************************************************************)
(* What a single request, action, click, check or file goes through, side  *)
(* by side: actions in a page (BrowserActions), the choice of a model, the *)
(* ingestion of files, chunks and contexts, the verdict on a task, clicks  *)
(* and goals on the desktop.  They share no state, so a behaviour follows  *)
(* one part; the others rest.                                              *)
(***************************************************************************)
EXTENDS BrowserActions, Sequences, SequencesExt

CONSTANTS
  Parts,    \* the parts of this run
  Nothing,  \* None, on the desktop
  RoutedTasks, RankedNames, Caps, Unregistered, RoleModels, StaticModel, Fallback, OllamaModel,
  Cooldown, MaxPulls, MaxRoutes,  \* of ModelRouting
  FirstPulls,           \* bound: the sets of models that Ollama has at first
  Files, Contents, Queries, QueryMatches, Workers, Clients, CacheSize, Ttl, MaxEdits, MaxRestarts,
            \* of Knowledge
  TargetSize, Overlap, Minimum, Budget, FormatLimit, Header, Frame, Brief, Lengths, MaxParagraphs,
  ItemKeys, ItemSizes, MaxItems,  \* of Context
  MaxSteps, \* of Completion
  MaxElements, MaxRounds,                                \* of the desktop
  Editors, EditorLayouts, EditorTitles, MaxEditorMoves,  \* of DesktopClick
  Settings, SettingsLayouts, SettingsTitles, Processes, MaxSettingsMoves, SettingsGoals
            \* of DesktopGoals

VARIABLES
  part,
  daemon, installed, probe, last, active, decision, previous, held, pulls, routes, \* ModelRouting
  file, store, collection, known, worker, client, cache, edits, deletes, restarts, \* Knowledge
  document, chunks, knowledge, memories, role, context,                            \* Context
  task, tab, stage, expected, observed, verified, at, fields,                      \* Completion
  opened, layout, foreground, moves, fresh, obs, window, found, round,
            \* DesktopClick, DesktopGoals
  click, front, observedIn, action, ops, outcome,                                  \* DesktopClick
  conds, check, running, results, retries, shown, heldOnce, missed, together       \* DesktopGoals

-----------------------------------------------------------------------------
(* The models of the code (registry.py:71-172), its configuration (config.py:88-106) and   *)
(* one model that is not registered.  Ollama has one of a few sets of models at first;      *)
(* its list changes once, while it is being asked.                                          *)

CapsOfModels ==
  [qwen7b    |-> {"reasoning", "planning", "general", "tool_calling", "recovery"},
   qwen35    |-> {"reasoning", "planning", "general", "lightweight", "fast", "tool_calling"},
   qwen15    |-> {"general", "reasoning", "lightweight", "fast", "fallback"},
   deepseek  |-> {"reasoning", "lightweight", "fast", "planning"},
   moondream |-> {"vision", "gui_understanding", "fast"},
   qwenVl    |-> {"vision", "gui_understanding", "reasoning", "tool_calling"},
   coder3    |-> {"coding", "debugging", "reasoning", "tool_calling"},
   coder15   |-> {"coding", "debugging", "lightweight", "fast"}]

RankedModels ==
  <<"qwen7b", "qwenVl", "coder3", "qwen35", "deepseek", "moondream", "coder15", "qwen15">>

ModelsOfRoles ==
  [planner     |-> <<"qwen35", "qwen7b", "deepseek">>,
   vision      |-> <<"qwenVl", "moondream">>,
   coder       |-> <<"coder3", "coder15">>,
   lightweight |-> <<"deepseek", "qwen35", "qwen15">>,
   recovery    |-> <<"qwen7b", "qwen35">>,
   general     |-> <<"qwen15", "qwen7b">>]

ModelsOfStatic ==
  [vision |-> "moondream", coder |-> "coder3", lightweight |-> "deepseek",
   planner |-> "qwen7b", recovery |-> "qwen7b"]

PullsOfUsers == {{"llama"}, {"qwen35", "qwen7b", "moondream"}, {"coder15", "qwen15"}}

Routing == INSTANCE ModelRouting WITH
  Tasks <- RoutedTasks, Ranked <- RankedNames,
  Strategy <- "dynamic", MaxChanges <- MaxPulls, changes <- pulls

(* Overlapping ingestions, edits and restarts; every call succeeds.                        *)
MatchingContents == [q1 |-> {"c1"}, q2 |-> {"c1", "c2"}]

Ingest == INSTANCE Knowledge WITH
  Matches <- QueryMatches, Faults <- FALSE, MaxDeletes <- 0

(* Every document and every list of items within the bounds.                               *)
Prompt == INSTANCE Context WITH
  Target <- TargetSize, Keys <- ItemKeys, Sizes <- ItemSizes

(* Every task.                                                                             *)
Verdict == INSTANCE Completion WITH page <- tab, pc <- stage

-----------------------------------------------------------------------------
(* Two buttons, the name of one in that of the other; a toggle; a button with only an id,   *)
(* one with neither, both without InvokePattern; the first one again, disabled and renamed; *)
(* and a window whose title holds the name of a button.                                     *)

save   == [rid |-> 1, name |-> "save", aid |-> "s", kind |-> "button", state |-> "none",
           value |-> "", invoke |-> TRUE, ready |-> TRUE]
saveAs == [save EXCEPT !.rid = 2, !.name = "saveAs", !.aid = "sa"]
tick   == [save EXCEPT !.rid = 3, !.aid = "", !.kind = "splitButton", !.state = "Off"]
icon   == [save EXCEPT !.rid = 4, !.name = "", !.invoke = FALSE]
blank  == [icon EXCEPT !.rid = 5, !.aid = ""]
saving == [save EXCEPT !.name = "saving", !.ready = FALSE]

LayoutsOfEditors == {<<saveAs, save>>, <<save, tick, saveAs>>, <<icon, blank, saving>>}
TitlesOfEditors ==
  {<<"save", "saveAs">>, <<"s", "sa">>, <<"save", "saveDialog">>, <<"button", "splitButton">>}

Click == INSTANCE DesktopClick WITH
  Windows <- Editors, Layouts <- EditorLayouts, Within <- EditorTitles,
  MaxChanges <- MaxEditorMoves,
  changes <- moves, pc <- click, active <- front, seen <- observedIn, result <- outcome

(* A toggle that is on or off, a field with a text, a window whose title is contained in    *)
(* that of another, and a program.                                                          *)

on    == [rid |-> 1, name |-> "wifi", aid |-> "w", kind |-> "toggle", state |-> "On",
          value |-> "", invoke |-> FALSE, ready |-> TRUE]
off   == [on EXCEPT !.state = "Off"]
edit  == [rid |-> 2, name |-> "wifiName", aid |-> "f", kind |-> "edit", state |-> "none",
          value |-> "home", invoke |-> FALSE, ready |-> TRUE]
empty == [edit EXCEPT !.value = "", !.ready = FALSE]

Is(pred, name, expect) ==
  [pred |-> pred, name |-> name, window |-> "settings", expect |-> expect, text |-> "home"]

LayoutsOfSettings == {<<edit, on>>, <<off, empty>>}
TitlesOfSettings == {<<"settings", "settingsHelp">>, <<"wifi", "wifiName">>}
GoalsOfSettings ==
  {<<>>,
   <<Is("toggle", "wifi", TRUE), Is("exists", "settings", TRUE)>>,
   <<Is("ready", "wifiName", TRUE), Is("toggle", "wifi", FALSE)>>,
   <<Is("text", "wifiName", TRUE), Is("running", "settings", TRUE)>>,
   <<Is("active", "settings", TRUE), Is("contains", "wifiName", TRUE)>>,
   <<Is("element", "edit", FALSE), Is("focused", "settingsHelp", FALSE)>>}

Goals == INSTANCE DesktopGoals WITH
  Windows <- Settings, Layouts <- SettingsLayouts, Within <- SettingsTitles,
  MaxChanges <- MaxSettingsMoves, Goals <- SettingsGoals,
  changes <- moves, pc <- check, held <- heldOnce

ASSUME StepsAssumption ==
  /\ Routing!RoutingAssumption /\ Routing!RolesFit
  /\ Ingest!KnowledgeAssumption /\ Prompt!ContextAssumption
  /\ Verdict!CompletionAssumption /\ Click!ScreenAssumption /\ Click!ClickAssumption
  /\ Goals!ScreenAssumption /\ Goals!GoalsAssumption

-----------------------------------------------------------------------------
routing  == <<daemon, installed, probe, last, active, decision, previous, held, pulls, routes>>
ingest   == <<file, store, collection, known, worker, client, cache, edits, deletes, restarts>>
prompt   == <<document, chunks, knowledge, memories, role, context>>
verdict  == <<task, tab, stage, expected, observed, verified, at, fields>>
screen   == <<opened, layout, foreground, moves, fresh, obs, window, found, round>>
clicking == <<click, front, observedIn, action, ops, outcome>>
goals    == <<conds, check, running, results, retries, shown, heldOnce, missed, together>>

\* The parts that rest have one initial state; clicks and goals share the screen.
StepsInit ==
  /\ part \in Parts
  /\ part # "action" => act = [kind |-> "scroll", press |-> FALSE, located |-> FALSE,
                               box |-> FALSE, rich |-> FALSE]
  /\ IF part = "routing" THEN daemon \in FirstPulls ELSE daemon = {}
  /\ part # "ingest" => file = [f \in Files |-> CHOOSE c \in Contents : TRUE]
  /\ part # "prompt" => document = Prompt!NoDocument /\ knowledge = <<>> /\ memories = <<>>
                        /\ role = "general"
  /\ part # "verdict" => /\ tab = [at |-> "home", text |-> FALSE]
                         /\ task = [search |-> FALSE, extract |-> FALSE, plan |-> FALSE, left |-> 0,
                                    text |-> FALSE, data |-> FALSE, answer |-> "none"]
  /\ part # "goals" => conds = CHOOSE goal \in SettingsGoals : TRUE
  /\ Init /\ Routing!Init /\ Ingest!Init /\ Prompt!Init /\ Verdict!Init
  /\ IF part = "click" THEN Click!Init ELSE
       /\ click = "observe" /\ front = Nothing /\ observedIn = Nothing
       /\ action = Click!None /\ ops = <<>> /\ outcome = "none"
  /\ IF part = "goals" THEN Goals!Init ELSE
       /\ check = "idle" /\ running = {} /\ results = <<>> /\ retries = 0
       /\ shown = {} /\ heldOnce = {} /\ missed = FALSE /\ together = FALSE
  /\ part \notin {"click", "goals"} =>
       /\ opened = {} /\ layout = <<>> /\ foreground = Nothing /\ moves = 0
       /\ fresh = Nothing /\ obs = <<>> /\ window = Nothing /\ found = Nothing /\ round = 0

StepsNext ==
  /\ UNCHANGED part
  /\ \/ /\ part = "action" /\ Next
        /\ UNCHANGED <<routing, ingest, prompt, verdict, screen, clicking, goals>>
     \/ /\ part = "routing" /\ Routing!Next
        /\ UNCHANGED <<vars, ingest, prompt, verdict, screen, clicking, goals>>
     \/ /\ part = "ingest" /\ Ingest!Next
        /\ UNCHANGED <<vars, routing, prompt, verdict, screen, clicking, goals>>
     \/ /\ part = "prompt" /\ Prompt!Next
        /\ UNCHANGED <<vars, routing, ingest, verdict, screen, clicking, goals>>
     \/ /\ part = "verdict" /\ Verdict!Next
        /\ UNCHANGED <<vars, routing, ingest, prompt, screen, clicking, goals>>
     \/ /\ part = "click" /\ Click!Next
        /\ UNCHANGED <<vars, routing, ingest, prompt, verdict, goals>>
     \/ /\ part = "goals" /\ Goals!Next
        /\ UNCHANGED <<vars, routing, ingest, prompt, verdict, clicking>>

StepsVars == <<part, vars, routing, ingest, prompt, verdict, screen, clicking, goals>>

StepsSpec == StepsInit /\ [][StepsNext]_StepsVars

-----------------------------------------------------------------------------
\* All parts keep their types.
PartsTypeOK ==
  /\ TypeOK /\ Routing!TypeOK /\ Ingest!TypeOK /\ Verdict!TypeOK
  /\ part = "click" => Click!TypeOK
  /\ part = "goals" => Goals!TypeOK

\* A node gets a model that can do its work while one is known to be installed, and a list
\* that could not be read replaces none that could (router.py:105-182, registry.py:259-268).
KnownModelsServe == Routing!KnownModelsServe

\* What the pipeline skips as ingested is stored or about to be (pipeline.py:45-56).
KnownIsStored == Ingest!KnownIsStored

\* Nothing but what is too small, said before or too much is lost on its way from a document
\* or a memory to a prompt, and nothing is larger than it may be (chunker.py:51-147,
\* context_builder.py:103-135).
PromptIsSound == Prompt!PromptIsSound

\* A task counts as done only with evidence: in the browser with an answer, data or the text
\* in its field (manager.py verify_task_completion); on the desktop with what the desktop
\* showed, during the last check, of each condition that could be parsed, or, without
\* conditions, of anything at all, but after three retries in any case (verifier.py,
\* desktop_nodes.py:799-849).  What evidence a condition has to have is PassedWereTrue's
\* Evident: a focused window only existed, something absent may only have been overlooked.
DoneHasEvidence ==
  Verdict!VerifiedHasEvidence /\ (part = "goals" => Goals!PassedWereTrue)

\* A click operates what the plan named as far as UI Automation can tell, and an element that
\* nobody observed is not operated at all (grounding.py, uia.py, desktop_nodes.py:583-666).
ClicksHitTarget == part = "click" => Click!ClicksHitTarget
=============================================================================
