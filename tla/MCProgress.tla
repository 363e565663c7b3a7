------------------------------ MODULE MCProgress ------------------------------
(***************************************************************************)
(* What waits, retries or loops, side by side: a request to a model        *)
(* (LlmCalls), the cache of retrieved documents, one launcher with a menu  *)
(* or a pair without, the stream of a task.  They share no state, so a     *)
(* behaviour follows one part; the others rest.                            *)
(***************************************************************************)
EXTENDS LlmCalls

CONSTANTS
  Parts,       \* the parts of this run
  Launchers, MaxSignals, MaxRestarts, MaxDeaths,  \* of Launcher
  Single,      \* the launcher that is started alone, with a menu
  PairSignals, \* bound: signals a launcher without a menu receives
  MaxProgress, MaxDrops, MaxSelects  \* of TaskStream

VARIABLES
  part,
  file, store, collection, known, worker, client, cache, edits, deletes, reloads, \* Knowledge
  options, pc, tracked, flag, todo, return, asked, proc, before, lost, cut,
  signals, restarts, deaths,                                                      \* Launcher
  events, status, closer, conn, last, batch, wire, open, shown, drops, selects   \* TaskStream

\* Deletions, a cleared collection and failures while two clients ask: the first query
\* finds one document, the second one all.
Retrieve == INSTANCE Knowledge WITH
  Files <- {"f1"}, Contents <- {"c1", "c2"}, Queries <- {"q1", "q2"},
  Matches <- [q1 |-> {"c1"}, q2 |-> {"c1", "c2"}], Workers <- {"w1"}, Clients <- {"k1", "k2"},
  CacheSize <- 1, Ttl <- 2, Faults <- TRUE, MaxEdits <- 0, MaxDeletes <- 2, MaxRestarts <- 0,
  restarts <- reloads

\* One launcher with a terminal and all services (the other ones are never started), or
\* all of them without, on the same ports.
Main == INSTANCE Launcher
OneKind(b) == [l \in Launchers |-> [observatory |-> b, local |-> b, terminal |-> b]]

\* Every ending of a task; the network loses connections, the task is opened again.
Feed == INSTANCE TaskStream WITH row <- status, todo <- closer

ASSUME ProgressAssumption ==
  /\ Retrieve!KnowledgeAssumption
  /\ Main!LauncherAssumption /\ Single \in Launchers /\ PairSignals \in Nat
  /\ Feed!StreamAssumption

retrieve == <<file, store, collection, known, worker, client, cache, edits, deletes, reloads>>
launcher ==
  <<options, pc, tracked, flag, todo, return, asked, proc, before, lost, cut, signals, restarts, deaths>>
feed == <<events, status, closer, conn, last, batch, wire, open, shown, drops, selects>>

\* The parts that rest have one initial state.
ProgressInit ==
  /\ part \in Parts
  /\ Init /\ (part # "llm" => keySet)
  /\ Retrieve!Init /\ (part # "retrieve" => file["f1"] = "c1")
  /\ Main!Init /\ options = OneKind(part # "pair")
  /\ Feed!Init

ProgressNext ==
  /\ UNCHANGED part
  /\ \/ part = "llm" /\ Next /\ UNCHANGED <<retrieve, launcher, feed>>
     \/ part = "retrieve" /\ Retrieve!Next /\ UNCHANGED <<vars, launcher, feed>>
     \/ /\ part = "menu" /\ Main!Next /\ \A l \in Launchers \ {Single} : pc'[l] = Main!Off
        /\ UNCHANGED <<vars, retrieve, feed>>
     \/ /\ part = "pair" /\ Main!Next /\ \A l \in Launchers : signals'[l] <= PairSignals
        /\ UNCHANGED <<vars, retrieve, feed>>
     \/ part = "feed" /\ Feed!Next /\ UNCHANGED <<vars, retrieve, launcher>>

\* Each part under its own fairness.
ProgressSpec ==
  /\ ProgressInit /\ [][ProgressNext]_<<part, vars, retrieve, launcher, feed>>
  /\ WF_vars(part = "llm" /\ Step)
  /\ WF_retrieve(part = "retrieve" /\ Retrieve!Tick)
  /\ WF_retrieve(part = "retrieve" /\ Retrieve!WorkerStep("w1"))
  /\ \A k \in {"k1", "k2"} : WF_retrieve(part = "retrieve" /\ Retrieve!ClientStep(k))
  /\ WF_launcher(part = "menu" /\ Main!LauncherStep(Single))
  /\ \A l \in Launchers : WF_launcher(part = "pair" /\ Main!LauncherStep(l))
  /\ WF_feed(part = "feed" /\ Feed!Write) /\ WF_feed(part = "feed" /\ Feed!ServerStep)
  /\ WF_feed(part = "feed" /\ Feed!Connect) /\ WF_feed(part = "feed" /\ Feed!Deliver)
  /\ WF_feed(part = "feed" /\ Feed!EndOfStream)

-----------------------------------------------------------------------------
\* All parts keep their types.
PartsTypeOK == TypeOK /\ Retrieve!TypeOK /\ Feed!TypeOK /\ Main!TypeOK

\* shutdown() does its work, however its callers interrupt and repeat each other, and can
\* be called again (main.py:655-697); two launchers end each other's services, and still
\* leave none of their own.
ShutdownWorks == Main!ShutdownWorks

\* What the window of a task shows, and whether it is listening, are true of the task
\* (useTaskStream.ts).
WindowIsTrue == Feed!WindowIsTrue

\* A document that is gone for good leaves the cached answers some day (retriever.py:41-62).
StaleDiesOut == Retrieve!StaleDiesOut

\* An event of a listed type is shown in the end (api/tasks.py stream_task).
ListedIsShown == part = "feed" => Feed!ListedIsShown

\* Whatever retries, loops or waits comes to an end: a request to a model that is not available
\* or not understood, a launcher that has to stop, the stream of a task that is over.
EverythingEnds == RequestEnds /\ Main!StopsInTheEnd /\ Feed!StreamsEnd
=============================================================================
