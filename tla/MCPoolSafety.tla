---------------------------- MODULE MCPoolSafety ----------------------------
(***************************************************************************)
(* Two uses of the pool, one behaviour follows one of them: three runs for *)
(* different tasks and a session, without faults (Apart), or two runs that *)
(* share a task or the session, with every fault the pool can meet.        *)
(***************************************************************************)
EXTENDS BrowserPool, TLC

CONSTANT t2  \* a task of Tasks

VARIABLE shared  \* runs may have the same key

\* Runs and contexts are only ever compared for equality.
RunSymmetry == Permutations(Runs) \cup Permutations(Contexts)

\* Runs that are working work for different keys.
KeysApart ==
  \A p, q \in Runs : p # q /\ pc[p] # "idle" /\ pc[q] # "idle" => key[p] # key[q]

\* The first run starts the browser before another one calls.
StartedAlone ==
  \A p \in Runs : pc[p] # "lookup" /\ pc'[p] = "lookup" =>
    browser = "up" \/ \A q \in Runs \ {p} : pc[q] = "idle"

\* No two runs under one key, no two that start the browser, no cancellation, no failing call,
\* no crash.
Apart == KeysApart' /\ StartedAlone /\ UNCHANGED <<cancels, failures, crashes>>

\* Bound: two of the three runs share what t1 and the session stand for, with three calls and
\* two faults of the three kinds.
OneTaskTwoRuns ==
  /\ \A p \in Procs : key'[p] # t2
  /\ Cardinality({p \in Runs : gets'[p] > 0}) <= 2
  /\ \A p, q \in Runs : p # q => gets'[p] + gets'[q] <= 3
  /\ cancels' + failures' + crashes' <= 2

SafetyInit == Init /\ shared \in BOOLEAN

SafetyNext ==
  /\ UNCHANGED shared
  /\ Next
  /\ IF shared THEN OneTaskTwoRuns ELSE Apart

SafetySpec == SafetyInit /\ [][SafetyNext]_<<vars, shared>>

\* Runs apart, each of which goes on.
LiveInit == SafetyInit /\ ~shared

LiveSpec == LiveInit /\ [][SafetyNext]_<<vars, shared>> /\ Fairness

-----------------------------------------------------------------------------
(* What runs that work for different keys can rely on, without a fault.    *)

(* No two of them hold the same context ("isolated Playwright contexts",    *)
(* pool.py:30).                                                             *)
IsolationApart == ~shared => Isolation

(* _active is true of the contexts that exist, and none of them is lost     *)
(* (pool.py acquire, release).                                              *)
PlacesAddUp == ~shared => Accounting /\ NothingLost

(* A task that has ended owns no context but a retained one (nodes.py:1681). *)
EndedOwnsNothing == ~shared => EndedTaskOwnsNothing

(* What the pool hands out and what it keeps stays usable: an open context  *)
(* for a run, the same one for a session (pool.py:66, 191).                 *)
ContextsStayUsable == [][~shared => HandsOutOpen /\ SessionKeepsContext]_vars
=============================================================================
