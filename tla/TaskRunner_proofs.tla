-------------------------- MODULE TaskRunner_proofs --------------------------
(***************************************************************************)
(* Proofs about the task runner, for any number of tasks, runs, requests,  *)
(* faults and restarts.  Who writes a row and when holds whatever the      *)
(* clients do and with or without the watchdog.  What relates several runs *)
(* of one task holds for clients that wait for an answer before they ask   *)
(* again (ClientWaits), what a cancelled run may not do without the        *)
(* watchdog, and the lifecycle for a memory that answers; the theorems     *)
(* name these hypotheses.                                                  *)
(***************************************************************************)
EXTENDS TaskRunner, TLAPS

-----------------------------------------------------------------------------
(* Inductive invariants. *)

\* A run between two nodes knows which node is next.
HasNext == \A r \in Runs : rpc[r] \in {"gate", "paused", "woken", "orphaned"} => rnext[r] # "free"

\* The task needs no approval, or a human has given it, or has resumed it.
Cleared(t) == t \in Risky => t \in consented \cup resumed

\* Whatever leads to work is cleared: approved runs and working runs (a new run
\* inherits nothing from the run whose identity it has), ...
RunsCleared ==
  /\ \A r \in Runs : rpc[r] = "free" => rnext[r] = "free"
  /\ \A r \in Runs : rapproved[r] \/ "work" \in {rpc[r], rnext[r]} => Cleared(rtask[r])
\* ... and requests that will schedule an approved run.
RequestsCleared ==
  \A h \in Procs : hpc[h] \in {"approved", "requeued", "resume", "fallback", "unblocked"}
                    => Cleared(htask[h])
GateInv == RunsCleared /\ RequestsCleared
-----------------------------------------------------------------------------
(* Types. *)

LEMMA Constants ==
  /\ NULL \notin Runs /\ NULL \notin Tasks /\ NULL \notin Risky /\ NULL # "blocked"
  /\ Handlers \subseteq Procs /\ Watchdog \in Procs
  /\ MaxNodes \in Nat /\ MaxNodes >= 1
BY RunnerAssumption DEF Procs, Statuses

\* What the type invariant says of the runs.
RunInv == RunType /\ HasNext

LEMMA RowTypeStep == RowType /\ RunType /\ [Next]_vars => RowType'
<1> SUFFICES ASSUME RowType, RunType, [Next]_vars PROVE RowType'
  OBVIOUS
<1> USE DEF RowType
<1>0. \A r \in Runs : rstatus[r] \in Statuses
  BY DEF RunType
<1>1. ASSUME NEW r \in Runs, RunStep(r) PROVE RowType'
  <2>1. CASE StartRun(r)
    BY <2>1 DEF StartRun, Statuses
  <2>2. CASE LoadCheckpoint(r) \/ ParseFails(r) \/ Work(r) \/ WaitAtGate(r) \/ SummarizeFails(r) \/ NodeRaises(r)
               \/ HandleCancel(r) \/ NeverRuns(r) \/ Finally(r)
    BY <2>2 DEF LoadCheckpoint, ParseFails, Work, WaitAtGate, SummarizeFails, NodeRaises, HandleCancel,
         NeverRuns, Finally, db
  <2>3. CASE RiskCheck(r)
    BY <2>3 DEF RiskCheck
  <2>4. CASE PassGate(r)
    BY <2>4 DEF PassGate, db
  <2>5. CASE Complete(r)
    BY <1>0, <2>5 DEF Complete
  <2>6. CASE Summarize(r)
    BY <2>6 DEF Summarize, db
  <2>7. CASE HandleException(r) \/ CompleteRaises(r)
    BY <1>0, <2>7 DEF HandleException, CompleteRaises, Statuses, Terminal
  <2> QED BY <1>1, <2>1, <2>2, <2>3, <2>4, <2>5, <2>6, <2>7 DEF RunStep
<1>2. ASSUME NEW h \in Procs, HandlerStep(h) PROVE RowType'
  <2>1. CASE ScheduleSubmitted(h) \/ ScheduleApproved(h) \/ ScheduleUnblocked(h) \/ CheckCaptcha(h)
    BY <2>1 DEF ScheduleSubmitted, ScheduleApproved, ScheduleUnblocked, CheckCaptcha, db
  <2>2. CASE ApplyDecision(h)
    BY <2>2 DEF ApplyDecision, Statuses, Terminal
  <2>3. CASE Requeue(h)
    BY <2>3 DEF Requeue, Statuses
  <2>4. CASE MarkCancelled(h)
    BY <2>4 DEF MarkCancelled, Statuses, Terminal
  <2> QED BY <1>2, <2>1, <2>2, <2>3, <2>4 DEF HandlerStep
<1>3. ASSUME NEW h \in Handlers, NEW t \in Tasks, Request(h, t) PROVE RowType'
  <2>1. CASE Submit(h, t)
    BY <2>1 DEF Submit, Statuses
  <2>2. CASE Cancel(h, t)
    BY <2>2 DEF Cancel, CancelRun, db
  <2>3. CASE \E d \in {"approved", "rejected"} : Respond(h, t, d)
    BY <2>3 DEF Respond
  <2>4. CASE \E how \in {"resume", "fallback"} : ResumeBlocked(h, t, how)
    BY <2>4 DEF ResumeBlocked, db
  <2> QED BY <1>3, <2>1, <2>2, <2>3, <2>4 DEF Request
<1>4. CASE \E t \in Tasks : Pause(t) \/ Resume(t) \/ Elapse(t)
  BY <1>4 DEF Pause, Resume, Elapse, db
<1>5. CASE Watch
  BY <1>5 DEF Watch, CancelRun, db
<1>6. CASE Restart
  BY <1>6 DEF Restart, db
<1>7. CASE UNCHANGED vars
  BY <1>7 DEF vars, db
<1> QED BY <1>1, <1>2, <1>3, <1>4, <1>5, <1>6, <1>7 DEF Next

\* Runs that leave the gate of a task stay busy.
LEMMA MoveType ==
  ASSUME RunInv, NEW t \in Tasks, NEW label \in {"woken", "orphaned"}
  PROVE  /\ Move(t, label) \in [Runs -> RunLabels]
         /\ \A r \in Runs : Move(t, label)[r] = "free" <=> rpc[r] = "free"
         /\ \A r \in Runs : Move(t, label)[r] # rpc[r] => rpc[r] = "paused" /\ Move(t, label)[r] = label
BY DEF RunInv, RunType, RunLabels, Move

LEMMA ScheduleType ==
  ASSUME RunInv, NEW t \in Tasks, NEW approved \in BOOLEAN, NEW pcs \in [Runs -> RunLabels],
         \A r \in Runs : pcs[r] = "free" <=> rpc[r] = "free",
         \A r \in Runs : pcs[r] # rpc[r] => rpc[r] = "paused",
         Schedule(t, approved, pcs)
  PROVE  RunInv'
<1> PICK r \in Runs :
      /\ rpc[r] = "free" /\ rpc' = [pcs EXCEPT ![r] = "created"]
      /\ rtask' = [rtask EXCEPT ![r] = t] /\ rapproved' = [rapproved EXCEPT ![r] = approved]
      /\ rcancel' = [rcancel EXCEPT ![r] = FALSE] /\ UNCHANGED <<rnext, rstatus, rnode>>
  BY DEF Schedule
<1>1. RunType'
  BY Constants DEF RunInv, RunType, RunLabels
<1>2. HasNext'
  BY DEF RunInv, RunType, HasNext
<1> QED BY <1>1, <1>2 DEF RunInv

LEMMA RunTypeStep == RunInv /\ RequestType /\ [Next]_vars => RunInv'
<1> SUFFICES ASSUME RunInv, RequestType, [Next]_vars PROVE RunInv'
  OBVIOUS
<1> USE DEF RunInv, RunType, HasNext
<1>1. ASSUME NEW r \in Runs, RunStep(r) PROVE RunInv'
  <2>1. CASE StartRun(r)
    BY <2>1 DEF StartRun, At, RunLabels
  <2>2. CASE LoadCheckpoint(r)
    BY <2>2 DEF LoadCheckpoint, At, RunLabels
  <2>3. CASE RiskCheck(r) \/ ParseFails(r)
    BY <2>3 DEF RiskCheck, ParseFails, Returned, At, RunLabels, Statuses, Terminal
  <2>4. CASE Work(r)
    <3>1. rnode' \in [Runs -> 1..MaxNodes]
      BY <2>4, Constants DEF Work
    <3> QED BY <2>4, <3>1 DEF Work, Returned, At, RunLabels, Statuses, Terminal
  <2>5. CASE WaitAtGate(r)
    BY <2>5 DEF WaitAtGate, At, RunLabels
  <2>6. CASE PassGate(r)
    BY <2>6 DEF PassGate, At, RunLabels
  <2>7. CASE Complete(r)
    BY <2>7 DEF Complete, Returned, At, RunLabels
  <2>8. CASE Summarize(r)
    BY <2>8 DEF Summarize, At, RunLabels
  <2>9. CASE SummarizeFails(r) \/ NodeRaises(r)
    BY <2>9 DEF SummarizeFails, NodeRaises, At, RunLabels
  <2>10. CASE HandleException(r) \/ CompleteRaises(r) \/ HandleCancel(r)
    BY <2>10 DEF HandleException, CompleteRaises, HandleCancel, At, RunLabels
  <2>11. CASE NeverRuns(r) \/ Finally(r)
    <3>1. End(r)
      BY <2>11 DEF NeverRuns, Finally
    <3>2. /\ rpc' = [rpc EXCEPT ![r] = "free"] /\ rnext' = [rnext EXCEPT ![r] = "free"]
          /\ rtask' = [rtask EXCEPT ![r] = NULL]
          /\ rapproved' \in [Runs -> BOOLEAN] /\ rcancel' \in [Runs -> BOOLEAN]
      BY <3>1 DEF End
    <3>3. rstatus' \in [Runs -> Statuses]
      BY <3>1 DEF End, Statuses
    <3>4. rnode' \in [Runs -> 1..MaxNodes]
      BY <3>1, Constants DEF End
    <3> QED BY <3>2, <3>3, <3>4, Constants DEF RunLabels
  <2> QED BY <1>1, <2>1, <2>2, <2>3, <2>4, <2>5, <2>6, <2>7, <2>8, <2>9, <2>10, <2>11 DEF RunStep
<1>2. ASSUME NEW h \in Procs, HandlerStep(h) PROVE RunInv'
  <2>0. hpc[h] # "idle" => htask[h] \in Tasks
    BY <1>2 DEF RequestType
  <2>1. CASE ScheduleSubmitted(h) \/ ScheduleApproved(h)
    <3>1. /\ htask[h] \in Tasks
          /\ \E approved \in BOOLEAN : Schedule(htask[h], approved, rpc)
      BY <2>0, <2>1 DEF ScheduleSubmitted, ScheduleApproved
    <3> QED BY <3>1, ScheduleType
  <2>2. CASE ScheduleUnblocked(h)
    <3>1. htask[h] \in Tasks /\ Schedule(htask[h], TRUE, Move(htask[h], "orphaned"))
      BY <2>0, <2>2 DEF ScheduleUnblocked
    <3>2. /\ Move(htask[h], "orphaned") \in [Runs -> RunLabels]
          /\ \A r \in Runs : Move(htask[h], "orphaned")[r] = "free" <=> rpc[r] = "free"
          /\ \A r \in Runs : Move(htask[h], "orphaned")[r] # rpc[r] => rpc[r] = "paused"
      BY <3>1, MoveType
    <3> QED BY <3>1, <3>2, ScheduleType
  <2>3. CASE ApplyDecision(h) \/ CheckCaptcha(h) \/ Requeue(h) \/ MarkCancelled(h)
    BY <2>3 DEF ApplyDecision, CheckCaptcha, Requeue, MarkCancelled, runVars
  <2> QED BY <1>2, <2>1, <2>2, <2>3 DEF HandlerStep
<1>3. ASSUME NEW h \in Procs, NEW t \in Tasks, CancelRun(h, t) PROVE RunInv'
  <2>1. /\ Move(t, "woken") \in [Runs -> RunLabels]
        /\ \A r \in Runs : Move(t, "woken")[r] = "free" <=> rpc[r] = "free"
        /\ \A r \in Runs : Move(t, "woken")[r] # rpc[r] => rpc[r] = "paused"
    BY MoveType
  <2> QED BY <1>3, <2>1 DEF CancelRun
<1>4. ASSUME NEW h \in Handlers, NEW t \in Tasks, Request(h, t) PROVE RunInv'
  <2>1. CASE Cancel(h, t)
    BY <1>3, <2>1, Constants DEF Cancel
  <2>2. CASE Submit(h, t) \/ (\E d \in {"approved", "rejected"} : Respond(h, t, d))
               \/ (\E how \in {"resume", "fallback"} : ResumeBlocked(h, t, how))
    BY <2>2 DEF Submit, Respond, ResumeBlocked, runVars
  <2> QED BY <1>4, <2>1, <2>2 DEF Request
<1>5. ASSUME NEW t \in Tasks, Resume(t) PROVE RunInv'
  <2>1. /\ Move(t, "woken") \in [Runs -> RunLabels]
        /\ \A r \in Runs : Move(t, "woken")[r] = "free" <=> rpc[r] = "free"
        /\ \A r \in Runs : Move(t, "woken")[r] # rpc[r] => rpc[r] = "paused"
    BY MoveType
  <2> QED BY <1>5, <2>1 DEF Resume
<1>6. CASE \E t \in Tasks : Pause(t) \/ Elapse(t)
  BY <1>6 DEF Pause, Elapse, runVars
<1>7. CASE Watch
  <2>1. \E t \in Tasks : CancelRun(Watchdog, t)
    BY <1>7 DEF Watch, RequestType
  <2> QED BY <1>3, <2>1, Constants
<1>8. CASE Restart
  BY <1>8, Constants DEF Restart, RunLabels, Statuses
<1>9. CASE UNCHANGED vars
  BY <1>9 DEF vars, runVars
<1> QED BY <1>1, <1>2, <1>4, <1>5, <1>6, <1>7, <1>8, <1>9 DEF Next

LEMMA TableTypeStep == TableType /\ RunType /\ RequestType /\ [Next]_vars => TableType'
<1> SUFFICES ASSUME TableType, RunType, RequestType, [Next]_vars PROVE TableType'
  OBVIOUS
<1> USE DEF TableType
<1>0. ASSUME NEW t \in Tasks, NEW approved, NEW pcs, Schedule(t, approved, pcs)
      PROVE  /\ active' \in [Tasks -> Runs \cup {NULL}]
             /\ started' \in [Tasks -> {"none", "fresh", "overdue"}]
  BY <1>0 DEF Schedule
<1>1. ASSUME NEW r \in Runs, RunStep(r) PROVE TableType'
  <2>1. CASE Finally(r)
    BY <2>1 DEF Finally
  <2>2. CASE ~Finally(r)
    BY <1>1, <2>2 DEF RunStep, StartRun, LoadCheckpoint, RiskCheck, ParseFails, Work, WaitAtGate, PassGate,
         Complete, Summarize, SummarizeFails, NodeRaises, HandleException, CompleteRaises, HandleCancel,
         NeverRuns, runner
  <2> QED BY <2>1, <2>2
<1>2. ASSUME NEW h \in Procs, HandlerStep(h) PROVE TableType'
  <2>0. hpc[h] # "idle" => htask[h] \in Tasks
    BY <1>2 DEF RequestType
  <2>1. CASE ScheduleSubmitted(h) \/ ScheduleApproved(h) \/ ScheduleUnblocked(h)
    <3>1. /\ htask[h] \in Tasks
          /\ event' = event \/ event' = [event EXCEPT ![htask[h]] = "set"]
          /\ \E approved, pcs : Schedule(htask[h], approved, pcs)
      BY <2>0, <2>1 DEF ScheduleSubmitted, ScheduleApproved, ScheduleUnblocked
    <3> QED BY <1>0, <3>1
  <2>2. CASE ApplyDecision(h) \/ CheckCaptcha(h) \/ Requeue(h) \/ MarkCancelled(h)
    BY <2>2 DEF ApplyDecision, CheckCaptcha, Requeue, MarkCancelled, runner
  <2> QED BY <1>2, <2>1, <2>2 DEF HandlerStep
<1>3. ASSUME NEW h \in Procs, NEW t \in Tasks, CancelRun(h, t) PROVE TableType'
  BY <1>3 DEF CancelRun
<1>4. ASSUME NEW h \in Handlers, NEW t \in Tasks, Request(h, t) PROVE TableType'
  <2>1. CASE Cancel(h, t)
    BY <1>3, <2>1, Constants DEF Cancel
  <2>2. CASE Submit(h, t)
    BY <2>2 DEF Submit
  <2>3. CASE \/ \E d \in {"approved", "rejected"} : Respond(h, t, d)
             \/ \E how \in {"resume", "fallback"} : ResumeBlocked(h, t, how)
    BY <2>3 DEF Respond, ResumeBlocked, runner
  <2> QED BY <1>4, <2>1, <2>2, <2>3 DEF Request
<1>5. CASE \E t \in Tasks : Pause(t) \/ Resume(t) \/ Elapse(t)
  BY <1>5 DEF Pause, Resume, Elapse
<1>6. CASE Watch
  <2>1. \E t \in Tasks : CancelRun(Watchdog, t)
    BY <1>6 DEF Watch, RequestType
  <2> QED BY <1>3, <2>1, Constants
<1>7. CASE Restart
  BY <1>7 DEF Restart
<1>8. CASE UNCHANGED vars
  BY <1>8 DEF vars, runner
<1> QED BY <1>1, <1>2, <1>4, <1>5, <1>6, <1>7, <1>8 DEF Next

LEMMA RequestTypeStep == RequestType /\ [Next]_vars => RequestType'
<1> SUFFICES ASSUME RequestType, [Next]_vars PROVE RequestType'
  OBVIOUS
<1> DEFINE Labels == {"idle", "submitted", "approved", "rejected", "requeued",
                      "resume", "fallback", "unblocked", "cancelling"}
           Places == /\ hpc' \in [Procs -> Labels] /\ htask' \in [Procs -> Tasks \cup {NULL}]
                     /\ \A h \in Procs : hpc'[h] = "idle" <=> htask'[h] = NULL
<1>0. /\ hpc \in [Procs -> Labels] /\ htask \in [Procs -> Tasks \cup {NULL}]
      /\ \A h \in Procs : hpc[h] = "idle" <=> htask[h] = NULL
      /\ overdue \subseteq Tasks /\ consented \subseteq Tasks /\ resumed \subseteq Tasks
  BY DEF RequestType
<1>a. Places /\ overdue' \subseteq Tasks /\ consented' \subseteq Tasks
        /\ resumed' \subseteq Tasks => RequestType'
  BY DEF RequestType
<1>b. ASSUME UNCHANGED hpc, UNCHANGED htask PROVE Places
  BY <1>0, <1>b
<1>c. ASSUME NEW h \in Procs, NEW t \in Tasks, NEW label \in Labels \ {"idle"}, Begin(h, t, label)
      PROVE  Places
  BY <1>0, <1>c, Constants DEF Begin
<1>d. ASSUME NEW h \in Procs, Answer(h) PROVE Places
  BY <1>0, <1>d DEF Answer
<1>e. ASSUME NEW h \in Procs, hpc[h] # "idle", NEW label \in Labels \ {"idle"}, Goto(h, label)
      PROVE  Places
  BY <1>0, <1>e DEF Goto
<1>1. ASSUME NEW r \in Runs, RunStep(r) PROVE RequestType'
  <2>1. UNCHANGED <<hpc, htask, overdue, consented, resumed>>
    BY <1>1 DEF RunStep, StartRun, LoadCheckpoint, RiskCheck, ParseFails, Work, WaitAtGate, PassGate,
         Complete, Summarize, SummarizeFails, NodeRaises, HandleException, CompleteRaises, HandleCancel,
         NeverRuns, Finally, reqVars, history
  <2> QED BY <1>0, <1>a, <1>b, <2>1
<1>2. ASSUME NEW h \in Procs, HandlerStep(h) PROVE RequestType'
  <2>1. UNCHANGED <<overdue, consented, resumed>>
    BY <1>2 DEF HandlerStep, ScheduleSubmitted, ScheduleApproved, ScheduleUnblocked,
         ApplyDecision, CheckCaptcha, Requeue, MarkCancelled, history
  <2>2. \/ Answer(h)
        \/ hpc[h] # "idle" /\ \E label \in {"requeued", "fallback", "unblocked"} : Goto(h, label)
    BY <1>2 DEF HandlerStep, ScheduleSubmitted, ScheduleApproved, ScheduleUnblocked,
         ApplyDecision, CheckCaptcha, Requeue, MarkCancelled
  <2>3. Places
    BY <1>d, <1>e, <2>2
  <2> QED BY <1>0, <1>a, <2>1, <2>3
<1>3. ASSUME NEW h \in Handlers, NEW t \in Tasks, Request(h, t) PROVE RequestType'
  <2>1. /\ \E label \in Labels \ {"idle"} : Begin(h, t, label)
        /\ UNCHANGED overdue
        /\ consented' \subseteq Tasks /\ resumed' \subseteq Tasks
    BY <1>0, <1>3 DEF Request, Submit, Cancel, CancelRun, Respond, ResumeBlocked, history
  <2>2. Places
    BY <1>c, <2>1, Constants
  <2> QED BY <1>0, <1>a, <2>1, <2>2
<1>4. CASE \E t \in Tasks : Pause(t) \/ Resume(t) \/ Elapse(t)
  BY <1>0, <1>a, <1>b, <1>4 DEF Pause, Resume, Elapse, reqVars, history
<1>5. CASE Watch
  <2>1. /\ \E t \in Tasks : Begin(Watchdog, t, "cancelling")
        /\ UNCHANGED <<consented, resumed>> /\ overdue' \subseteq Tasks
    BY <1>0, <1>5 DEF Watch, CancelRun, history
  <2>2. Places
    BY <1>c, <2>1, Constants
  <2> QED BY <1>0, <1>a, <2>1, <2>2
<1>6. CASE Restart
  <2>1. Places
    BY <1>6 DEF Restart
  <2> QED BY <1>0, <1>6, <1>a, <2>1 DEF Restart, history
<1>7. CASE UNCHANGED vars
  BY <1>0, <1>a, <1>b, <1>7 DEF vars, reqVars, history
<1> QED BY <1>1, <1>2, <1>3, <1>4, <1>5, <1>6, <1>7 DEF Next

LEMMA TypeInit == Init => TypeOK /\ HasNext
<1> SUFFICES ASSUME Init PROVE TypeOK /\ HasNext
  OBVIOUS
<1>1. RowType /\ TableType
  BY DEF Init, RowType, TableType
<1>2. RunType /\ HasNext
  BY Constants DEF Init, RunType, HasNext, RunLabels, Statuses
<1>3. RequestType
  BY DEF Init, RequestType
<1> QED BY <1>1, <1>2, <1>3 DEF TypeOK

LEMMA TypeStep == TypeOK /\ HasNext /\ [Next]_vars => TypeOK' /\ HasNext'
BY RowTypeStep, TableTypeStep, RunTypeStep, RequestTypeStep DEF TypeOK, RunInv

\* The rows, the tables of TaskRunner, its runs and the requests keep their
\* types whatever clients and faults do.
THEOREM RunnerTypeCorrect == Spec => []TypeOK
BY TypeInit, TypeStep, PTL DEF Spec
-----------------------------------------------------------------------------
(* No work without approval. *)

LEMMA ScheduleGate ==
  ASSUME TypeOK, RunsCleared, NEW t \in Tasks, NEW approved \in BOOLEAN, NEW pcs \in [Runs -> RunLabels],
         \A r \in Runs : pcs[r] = "work" => rpc[r] = "work",
         \A r \in Runs : pcs[r] = "free" => rpc[r] = "free",
         approved => Cleared(t),
         Schedule(t, approved, pcs), UNCHANGED history
  PROVE  RunsCleared'
<1> PICK q \in Runs :
      /\ rpc[q] = "free" /\ rpc' = [pcs EXCEPT ![q] = "created"]
      /\ rtask' = [rtask EXCEPT ![q] = t] /\ rapproved' = [rapproved EXCEPT ![q] = approved]
      /\ UNCHANGED <<rnext, rstatus>>
  BY DEF Schedule
<1> QED BY DEF RunsCleared, TypeOK, RunType, Cleared, history

\* What a human has approved or resumed stays so.
LEMMA ConsentGrows ==
  TypeOK /\ [Next]_vars => consented \subseteq consented' /\ resumed \subseteq resumed'
BY DEF history, Next, RunStep, StartRun, LoadCheckpoint, RiskCheck, ParseFails, Work, WaitAtGate,
   PassGate, Complete, Summarize, SummarizeFails, NodeRaises, HandleException, CompleteRaises, HandleCancel, NeverRuns, Finally,
   HandlerStep, ScheduleSubmitted, ScheduleApproved, ScheduleUnblocked, ApplyDecision,
   CheckCaptcha, Requeue, MarkCancelled, Request, Submit, Cancel, CancelRun, Respond,
   ResumeBlocked, Pause, Resume, Elapse, Watch, Restart, vars

LEMMA RunsClearedStep == TypeOK /\ HasNext /\ GateInv /\ [Next]_vars => RunsCleared'
<1> SUFFICES ASSUME TypeOK, HasNext, GateInv, [Next]_vars PROVE RunsCleared'
  OBVIOUS
<1>0. /\ RunsCleared /\ RequestsCleared /\ RunInv /\ RequestType
      /\ consented \subseteq consented' /\ resumed \subseteq resumed'
  BY ConsentGrows DEF GateInv, RunInv, TypeOK
<1>1. ASSUME NEW r \in Runs, RunStep(r) PROVE RunsCleared'
  <2> USE DEF RunsCleared, Cleared, RunInv, RunType, At, Returned
  <2>1. CASE StartRun(r) \/ LoadCheckpoint(r) \/ WaitAtGate(r) \/ PassGate(r)
    BY <1>0, <2>1 DEF StartRun, LoadCheckpoint, WaitAtGate, PassGate, HasNext
  <2>2. CASE RiskCheck(r) \/ ParseFails(r)
    BY <1>0, <2>2 DEF RiskCheck, ParseFails
  <2>3. CASE Work(r)
    BY <1>0, <2>3 DEF Work
  <2>4. CASE Complete(r)
    BY <1>0, <2>4 DEF Complete
  <2>5. CASE Summarize(r) \/ SummarizeFails(r) \/ NodeRaises(r) \/ HandleException(r) \/ CompleteRaises(r) \/ HandleCancel(r)
    BY <1>0, <2>5 DEF Summarize, SummarizeFails, NodeRaises, HandleException, CompleteRaises, HandleCancel
  <2>6. CASE NeverRuns(r) \/ Finally(r)
    <3>1. End(r)
      BY <2>6 DEF NeverRuns, Finally
    <3> QED BY <1>0, <3>1, Constants DEF End
  <2> QED BY <1>1, <2>1, <2>2, <2>3, <2>4, <2>5, <2>6 DEF RunStep
<1>2. ASSUME NEW h \in Procs, HandlerStep(h) PROVE RunsCleared'
  <2>0. hpc[h] # "idle" => htask[h] \in Tasks
    BY <1>0 DEF RequestType
  <2>1. CASE ScheduleSubmitted(h) \/ ScheduleApproved(h)
    <3>1. /\ htask[h] \in Tasks /\ UNCHANGED history
          /\ \E approved \in BOOLEAN :
                /\ approved => hpc[h] = "requeued"
                /\ Schedule(htask[h], approved, rpc)
      BY <2>0, <2>1 DEF ScheduleSubmitted, ScheduleApproved
    <3>2. hpc[h] = "requeued" => Cleared(htask[h])
      BY <1>0 DEF RequestsCleared
    <3>3. rpc \in [Runs -> RunLabels]
      BY <1>0 DEF RunInv, RunType
    <3> QED BY <1>0, <3>1, <3>2, <3>3, ScheduleGate
  <2>2. CASE ScheduleUnblocked(h)
    <3> DEFINE pcs == Move(htask[h], "orphaned")
    <3>1. /\ htask[h] \in Tasks /\ UNCHANGED history /\ Schedule(htask[h], TRUE, pcs)
          /\ hpc[h] = "unblocked"
      BY <2>0, <2>2 DEF ScheduleUnblocked
    <3>2. Cleared(htask[h])
      BY <1>0, <3>1 DEF RequestsCleared
    <3>3. /\ pcs \in [Runs -> RunLabels]
          /\ \A r \in Runs : pcs[r] = "work" => rpc[r] = "work"
          /\ \A r \in Runs : pcs[r] = "free" => rpc[r] = "free"
      BY <1>0, <3>1, MoveType
    <3> HIDE DEF pcs
    <3> QED BY <3>1, <3>2, <3>3, <1>0, ScheduleGate
  <2>3. CASE ApplyDecision(h) \/ CheckCaptcha(h) \/ Requeue(h) \/ MarkCancelled(h)
    BY <1>0, <2>3 DEF ApplyDecision, CheckCaptcha, Requeue, MarkCancelled, runVars, RunsCleared,
         Cleared
  <2> QED BY <1>2, <2>1, <2>2, <2>3 DEF HandlerStep
<1>3. ASSUME NEW t \in Tasks, rpc' = Move(t, "woken"), UNCHANGED <<rnext, rtask, rapproved, rstatus>>
      PROVE  RunsCleared'
  <2>1. \A r \in Runs : rpc'[r] = rpc[r] \/ rpc'[r] = "woken"
    BY <1>0, <1>3, MoveType
  <2> QED BY <1>0, <1>3, <2>1 DEF RunsCleared, Cleared
<1>4. ASSUME NEW h \in Handlers, NEW t \in Tasks, Request(h, t) PROVE RunsCleared'
  <2>1. CASE Cancel(h, t)
    BY <1>3, <2>1 DEF Cancel, CancelRun
  <2>2. CASE Submit(h, t) \/ (\E d \in {"approved", "rejected"} : Respond(h, t, d))
               \/ (\E how \in {"resume", "fallback"} : ResumeBlocked(h, t, how))
    BY <1>0, <2>2 DEF Submit, Respond, ResumeBlocked, runVars, RunsCleared, Cleared
  <2> QED BY <1>4, <2>1, <2>2 DEF Request
<1>5. CASE \E t \in Tasks : Resume(t)
  BY <1>3, <1>5 DEF Resume
<1>6. CASE \E t \in Tasks : Pause(t) \/ Elapse(t)
  BY <1>0, <1>6 DEF Pause, Elapse, runVars, RunsCleared, Cleared
<1>7. CASE Watch
  <2>1. \E t \in Tasks : CancelRun(Watchdog, t)
    BY <1>0, <1>7 DEF Watch, RequestType
  <2> QED BY <1>3, <2>1 DEF CancelRun
<1>8. CASE Restart
  BY <1>8, Constants DEF Restart, RunsCleared, Cleared
<1>9. CASE UNCHANGED vars
  BY <1>0, <1>9 DEF vars, runVars, RunsCleared, Cleared
<1> QED BY <1>1, <1>2, <1>4, <1>5, <1>6, <1>7, <1>8, <1>9 DEF Next

LEMMA RequestsClearedStep == TypeOK /\ GateInv /\ [Next]_vars => RequestsCleared'
<1> SUFFICES ASSUME TypeOK, GateInv, [Next]_vars PROVE RequestsCleared'
  OBVIOUS
<1>0. /\ RequestsCleared /\ RequestType
      /\ consented \subseteq consented' /\ resumed \subseteq resumed'
      /\ Handlers \subseteq Procs /\ Watchdog \in Procs
  BY ConsentGrows, Constants DEF GateInv, TypeOK
<1> USE DEF RequestsCleared, Cleared, RequestType
<1>1. ASSUME UNCHANGED <<hpc, htask>> PROVE RequestsCleared'
  BY <1>0, <1>1
<1>2. ASSUME NEW h \in Procs, Answer(h) PROVE RequestsCleared'
  BY <1>0, <1>2 DEF Answer
<1>3. ASSUME NEW h \in Procs, NEW label, Goto(h, label),
             hpc[h] \in {"approved", "resume", "fallback"}
      PROVE  RequestsCleared'
  BY <1>0, <1>3 DEF Goto
<1>4. ASSUME NEW h \in Procs, NEW t, NEW label, Begin(h, t, label),
             label \in {"approved", "requeued", "resume", "fallback", "unblocked"}
               => (t \in Risky => t \in consented' \cup resumed')
      PROVE  RequestsCleared'
  BY <1>0, <1>4 DEF Begin
<1>5. ASSUME NEW r \in Runs, RunStep(r) PROVE RequestsCleared'
  BY <1>1, <1>5 DEF RunStep, StartRun, LoadCheckpoint, RiskCheck, ParseFails, Work, WaitAtGate, PassGate,
       Complete, Summarize, SummarizeFails, NodeRaises, HandleException, CompleteRaises, HandleCancel,
       NeverRuns, Finally, reqVars
<1>6. ASSUME NEW h \in Procs, HandlerStep(h) PROVE RequestsCleared'
  BY <1>2, <1>3, <1>6 DEF HandlerStep, ScheduleSubmitted, ScheduleApproved, ScheduleUnblocked,
       ApplyDecision, CheckCaptcha, Requeue, MarkCancelled
<1>7. ASSUME NEW h \in Handlers, NEW t \in Tasks, Request(h, t) PROVE RequestsCleared'
  <2>1. CASE Submit(h, t) \/ Cancel(h, t)
    BY <1>0, <1>4, <2>1 DEF Submit, Cancel, CancelRun
  <2>2. CASE \E d \in {"approved", "rejected"} : Respond(h, t, d)
    <3>1. PICK d \in {"approved", "rejected"} : Respond(h, t, d)
      BY <2>2
    <3>2. d = "approved" => t \in consented'
      BY <3>1 DEF Respond
    <3> QED BY <1>0, <1>4, <3>1, <3>2 DEF Respond
  <2>3. CASE \E how \in {"resume", "fallback"} : ResumeBlocked(h, t, how)
    BY <1>0, <1>4, <2>3 DEF ResumeBlocked
  <2> QED BY <1>7, <2>1, <2>2, <2>3 DEF Request
<1>8. CASE \E t \in Tasks : Pause(t) \/ Resume(t) \/ Elapse(t)
  BY <1>1, <1>8 DEF Pause, Resume, Elapse, reqVars
<1>9. CASE Watch
  BY <1>0, <1>4, <1>9 DEF Watch, CancelRun
<1>10. CASE Restart
  BY <1>10 DEF Restart
<1>11. CASE UNCHANGED vars
  BY <1>1, <1>11 DEF vars, reqVars
<1> QED BY <1>5, <1>6, <1>7, <1>8, <1>9, <1>10, <1>11 DEF Next

LEMMA GateInit == Init => GateInv
<1> SUFFICES ASSUME Init PROVE GateInv
  OBVIOUS
<1>1. RunsCleared
  <2>1. \A r \in Runs : rpc[r] = "free" /\ rnext[r] = "free" /\ rapproved[r] = FALSE
    BY DEF Init
  <2> QED BY <2>1 DEF RunsCleared
<1>2. RequestsCleared
  BY DEF Init, RequestsCleared
<1> QED BY <1>1, <1>2 DEF GateInv

LEMMA GateStep == TypeOK /\ HasNext /\ GateInv /\ [Next]_vars => GateInv'
BY RunsClearedStep, RequestsClearedStep DEF GateInv

\* No step of a task that requires approval is executed before a human has
\* approved it or resumed it from blocked, in any interleaving of decisions,
\* resumptions, fallbacks, cancellations, faults and restarts.
THEOREM RunnerNoUnaskedWork == Spec => []NoUnaskedWork
<1>1. TypeOK /\ GateInv => NoUnaskedWork
  BY DEF GateInv, RunsCleared, Cleared, NoUnaskedWork
<1> QED BY <1>1, TypeInit, TypeStep, GateInit, GateStep, PTL DEF Spec

-----------------------------------------------------------------------------
(* One thing at a time: what holds when clients act on a task only when      *)
(* nothing is in progress for it, with the watchdog, faults and restarts.    *)

\* A task has at most one request and at most one run, and both only while the
\* request cancels the run; a task that has no row has neither.  The watchdog
\* only cancels.
OneAtATime ==
  /\ hpc[Watchdog] \in {"idle", "cancelling"}
  /\ \A h, k \in Handlers : htask[h] # NULL /\ htask[h] = htask[k] => h = k
  /\ \A h \in Handlers, r \in Runs : htask[h] # NULL /\ htask[h] = rtask[r] => hpc[h] = "cancelling"
  /\ \A r, q \in Runs : rtask[r] # NULL /\ rtask[r] = rtask[q] => r = q
  /\ \A t \in Tasks : status[t] = NULL => (\A r \in Runs : rtask[r] # t) /\ \A h \in Handlers : htask[h] # t

\* A run that has not been cancelled is the one in _active.
Reachable == \A r \in Runs : rtask[r] # NULL /\ ~rcancel[r] => active[rtask[r]] = r

\* What a run or a request works on is a task.
LEMMA Places ==
  ASSUME TypeOK
  PROVE  /\ rtask \in [Runs -> Tasks \cup {NULL}] /\ rpc \in [Runs -> RunLabels]
         /\ \A r \in Runs : rpc[r] # "free" <=> rtask[r] \in Tasks
         /\ htask \in [Procs -> Tasks \cup {NULL}]
         /\ \A h \in Procs : hpc[h] # "idle" <=> htask[h] \in Tasks
         /\ rcancel \in [Runs -> BOOLEAN] /\ active \in [Tasks -> Runs \cup {NULL}]
         /\ status \in [Tasks -> Statuses \cup {NULL}]
         /\ \A r \in Runs : rstatus[r] \in Statuses
         /\ Handlers \subseteq Procs /\ Watchdog \in Procs /\ Watchdog \notin Handlers
         /\ NULL \notin Tasks /\ NULL \notin Statuses /\ NULL \notin Runs
BY Constants, RunnerAssumption DEF TypeOK, RowType, TableType, RunType, RequestType

\* What a run changes: it may end, and it may write the row of its task.
LEMMA RunEffect ==
  ASSUME TypeOK, NEW r \in Runs, RunStep(r)
  PROVE  /\ UNCHANGED <<hpc, htask>>
         /\ rpc[r] # "free"
         /\ \/ rtask' = rtask /\ rcancel' = rcancel /\ active' = active
            \/ /\ rtask' = [rtask EXCEPT ![r] = NULL] /\ rcancel' = [rcancel EXCEPT ![r] = FALSE]
               /\ active' = active \/ active' = [active EXCEPT ![rtask[r]] = NULL]
         /\ \/ status' = status
            \/ \E st \in Statuses : status' = [status EXCEPT ![rtask[r]] = st]
<1> \A q \in Runs : rstatus[q] \in Statuses
  BY Places
<1>1. CASE StartRun(r)
  BY <1>1 DEF StartRun, At, runner, reqVars, Statuses
<1>2. CASE RiskCheck(r) \/ ParseFails(r) \/ Work(r)
  BY <1>2 DEF RiskCheck, ParseFails, Work, At, runner, reqVars, db
<1>3. CASE LoadCheckpoint(r) \/ WaitAtGate(r) \/ PassGate(r) \/ Summarize(r) \/ SummarizeFails(r)
             \/ NodeRaises(r) \/ HandleCancel(r)
  BY <1>3 DEF LoadCheckpoint, WaitAtGate, PassGate, Summarize, SummarizeFails, NodeRaises, HandleCancel,
     At, runner, reqVars, db
<1>4. CASE Complete(r)
  BY <1>4 DEF Complete, At, runner, reqVars
<1>5. CASE HandleException(r) \/ CompleteRaises(r)
  BY <1>5 DEF HandleException, CompleteRaises, At, runner, reqVars, Statuses, Terminal
<1>6. CASE NeverRuns(r)
  BY <1>6 DEF NeverRuns, End, runner, reqVars, db
<1>7. CASE Finally(r)
  BY <1>7 DEF Finally, End, reqVars, db
<1> QED BY <1>1, <1>2, <1>3, <1>4, <1>5, <1>6, <1>7 DEF RunStep

\* What a request that is in progress changes: it schedules a run and is
\* answered, or it goes on, or is answered, having perhaps written the row.
LEMMA HandlerEffect ==
  ASSUME TypeOK, NEW h \in Procs, HandlerStep(h)
  PROVE  /\ htask[h] \in Tasks
         /\ \/ /\ hpc[h] \in {"submitted", "requeued", "unblocked"}
               /\ Answer(h) /\ UNCHANGED status
               /\ \E r \in Runs :
                    /\ rtask[r] = NULL /\ rtask' = [rtask EXCEPT ![r] = htask[h]]
                    /\ rcancel' = [rcancel EXCEPT ![r] = FALSE]
                    /\ active' = [active EXCEPT ![htask[h]] = r]
            \/ /\ UNCHANGED <<rtask, rcancel, active>>
               /\ hpc[h] \in {"approved", "rejected", "resume", "fallback", "cancelling"}
               /\ \/ Answer(h)
                  \/ \E label \in {"requeued", "fallback", "unblocked"} :
                        hpc[h] # "cancelling" /\ Goto(h, label)
               /\ \/ status' = status
                  \/ \E st \in Statuses : status' = [status EXCEPT ![htask[h]] = st]
<1>0. htask[h] \in Tasks \/ hpc[h] = "idle"
  BY Places
<1>1. CASE ScheduleSubmitted(h) \/ ScheduleApproved(h) \/ ScheduleUnblocked(h)
  <2>1. /\ hpc[h] \in {"submitted", "requeued", "unblocked"} /\ Answer(h) /\ UNCHANGED status
        /\ \E approved, pcs : Schedule(htask[h], approved, pcs)
    BY <1>1 DEF ScheduleSubmitted, ScheduleApproved, ScheduleUnblocked, db
  <2>2. /\ htask[h] \in Tasks
        /\ \A r \in Runs : rpc[r] = "free" => rtask[r] = NULL
    BY <1>0, <2>1, Places
  <2>3. \E r \in Runs :
          /\ rpc[r] = "free" /\ rtask' = [rtask EXCEPT ![r] = htask[h]]
          /\ rcancel' = [rcancel EXCEPT ![r] = FALSE]
          /\ active' = [active EXCEPT ![htask[h]] = r]
    BY <2>1 DEF Schedule
  <2> QED BY <2>1, <2>2, <2>3
<1>2. CASE ApplyDecision(h) \/ CheckCaptcha(h) \/ Requeue(h) \/ MarkCancelled(h)
  BY <1>0, <1>2 DEF ApplyDecision, CheckCaptcha, Requeue, MarkCancelled, runVars, runner, db, Statuses, Terminal
<1> QED BY <1>1, <1>2 DEF HandlerStep

\* The first stretch of a request other than DELETE.
NewRequest(h, t) ==
  /\ UNCHANGED <<rcancel, active>>
  /\ status[t] # NULL => \A r \in Runs : rtask[r] # t
  /\ \E label \in {"submitted", "approved", "rejected", "resume", "fallback"} : Begin(h, t, label)
  /\ \/ status' = status /\ status[t] # NULL
     \/ status[t] = NULL /\ status' = [status EXCEPT ![t] = "queued"]

\* What a new request finds and changes, if clients wait.
LEMMA RequestEffect ==
  ASSUME ClientWaits, TypeOK, NEW h \in Handlers, NEW t \in Tasks, Request(h, t)
  PROVE  /\ \A k \in Handlers : status[t] # NULL => htask[k] # t
         /\ UNCHANGED <<rtask>>
         /\ \/ CancelRun(h, t) /\ status[t] # NULL /\ UNCHANGED status
            \/ NewRequest(h, t)
<1>0. Handlers \subseteq Procs /\ "waiting_approval" # NULL /\ "blocked" # NULL
  BY Places, RunnerAssumption DEF Statuses
<1>1. CASE Submit(h, t)
  BY <1>1 DEF NewRequest, Submit, runVars
<1>2. CASE Cancel(h, t)
  BY <1>0, <1>2 DEF Cancel, CancelRun, db
<1>3. CASE \E d \in {"approved", "rejected"} : Respond(h, t, d)
  BY <1>0, <1>3 DEF NewRequest, Respond, AtRest, RunsOf, runVars, runner
<1>4. CASE \E how \in {"resume", "fallback"} : ResumeBlocked(h, t, how)
  BY <1>0, <1>4 DEF NewRequest, ResumeBlocked, AtRest, RunsOf, runVars, runner, db
<1> QED BY <1>1, <1>2, <1>3, <1>4 DEF Request

\* Pausing, resuming and the passing of time leave all this alone.
LEMMA OtherEffect ==
  ASSUME NEW t \in Tasks, Pause(t) \/ Resume(t) \/ Elapse(t)
  PROVE  UNCHANGED <<hpc, htask, rtask, rcancel, active, status, approval, ckpt, rstatus, rnext>>
BY DEF Pause, Resume, Elapse, runVars, reqVars, db

LEMMA WatchEffect ==
  ASSUME TypeOK, Watch
  PROVE  WatchdogStarted /\ \E t \in Tasks : CancelRun(Watchdog, t)
BY DEF Watch, TypeOK, RequestType

LEMMA OneAtATimeStep ==
  ASSUME ClientWaits, TypeOK, OneAtATime, [Next]_vars
  PROVE  OneAtATime'
<1> USE DEF OneAtATime
<1> DEFINE Labels == {"idle", "submitted", "approved", "rejected", "requeued",
                      "resume", "fallback", "unblocked", "cancelling"}
<1>0. /\ rtask \in [Runs -> Tasks \cup {NULL}] /\ hpc \in [Procs -> Labels]
      /\ htask \in [Procs -> Tasks \cup {NULL}] /\ status \in [Tasks -> Statuses \cup {NULL}]
      /\ Handlers \subseteq Procs /\ Watchdog \in Procs /\ Watchdog \notin Handlers
      /\ NULL \notin Tasks /\ NULL \notin Statuses
      /\ \A h \in Procs : h \in Handlers \/ h = Watchdog
  BY Places DEF TypeOK, RequestType, Procs
<1>1. ASSUME NEW r \in Runs, RunStep(r) PROVE OneAtATime'
  <2>1. /\ UNCHANGED <<hpc, htask>>
        /\ rtask' = rtask \/ rtask' = [rtask EXCEPT ![r] = NULL]
        /\ \A t \in Tasks : status'[t] = NULL => status[t] = NULL
    BY <1>0, <1>1, RunEffect
  <2> QED BY <1>0, <2>1
<1>2. ASSUME NEW h \in Procs, HandlerStep(h) PROVE OneAtATime'
  <2>1. CASE \E r \in Runs : rtask[r] = NULL /\ rtask' = [rtask EXCEPT ![r] = htask[h]]
             /\ Answer(h) /\ UNCHANGED status /\ hpc[h] \in {"submitted", "requeued", "unblocked"}
    <3>1. PICK r \in Runs : rtask[r] = NULL /\ rtask' = [rtask EXCEPT ![r] = htask[h]]
      BY <2>1
    <3>2. hpc' = [hpc EXCEPT ![h] = "idle"] /\ htask' = [htask EXCEPT ![h] = NULL] /\ status' = status
      BY <2>1 DEF Answer
    <3>3. h \in Handlers /\ htask[h] \in Tasks /\ hpc[h] # "cancelling"
      BY <1>0, <2>1, <1>2, HandlerEffect
    <3> QED BY <1>0, <3>1, <3>2, <3>3
  <2>2. CASE /\ rtask' = rtask
             /\ \A t \in Tasks : status'[t] = NULL => status[t] = NULL
             /\ Answer(h) \/ \E label \in {"requeued", "fallback", "unblocked"} :
                               hpc[h] # "cancelling" /\ Goto(h, label)
    <3>1. CASE Answer(h)
      BY <1>0, <2>2, <3>1 DEF Answer
    <3>2. CASE \E label \in {"requeued", "fallback", "unblocked"} : hpc[h] # "cancelling" /\ Goto(h, label)
      <4>1. hpc[h] # "idle"
        BY <1>2, HandlerEffect
      <4> QED BY <1>0, <2>2, <3>2, <4>1 DEF Goto
    <3> QED BY <2>2, <3>1, <3>2
  <2> QED BY <1>0, <1>2, <2>1, <2>2, HandlerEffect
<1>3. ASSUME NEW h \in Procs, NEW t \in Tasks, CancelRun(h, t), UNCHANGED status,
             h \in Handlers => (status[t] # NULL /\ \A k \in Handlers : htask[k] # t)
      PROVE  OneAtATime'
  <2>1. hpc' = [hpc EXCEPT ![h] = "cancelling"] /\ htask' = [htask EXCEPT ![h] = t] /\ rtask' = rtask
    BY <1>3 DEF CancelRun, Begin
  <2>2. hpc'[Watchdog] \in {"idle", "cancelling"}
    BY <1>0, <2>1
  <2>3. \A k, l \in Handlers : htask'[k] # NULL /\ htask'[k] = htask'[l] => k = l
    BY <1>0, <1>3, <2>1
  <2>4. \A k \in Handlers, r \in Runs : htask'[k] # NULL /\ htask'[k] = rtask'[r] => hpc'[k] = "cancelling"
    BY <1>0, <1>3, <2>1
  <2> QED BY <1>0, <1>3, <2>1, <2>2, <2>3, <2>4
<1>4. ASSUME NEW h \in Handlers, NEW t \in Tasks, Request(h, t) PROVE OneAtATime'
  <2>1. CASE CancelRun(h, t) /\ status[t] # NULL /\ UNCHANGED status
    BY <1>0, <1>3, <1>4, <2>1, RequestEffect
  <2>2. CASE NewRequest(h, t)
    <3>1. PICK label \in {"submitted", "approved", "rejected", "resume", "fallback"} :
             hpc' = [hpc EXCEPT ![h] = label] /\ htask' = [htask EXCEPT ![h] = t]
      BY <2>2 DEF NewRequest, Begin
    <3>2. /\ \A k \in Handlers : htask[k] # t
          /\ \A r \in Runs : rtask[r] # t
          /\ rtask' = rtask
          /\ status'[t] # NULL /\ \A u \in Tasks \ {t} : status'[u] = status[u]
      <4>1. /\ status[t] # NULL => \A k \in Handlers : htask[k] # t
            /\ status[t] # NULL => \A r \in Runs : rtask[r] # t
            /\ UNCHANGED rtask
            /\ \/ status' = status /\ status[t] # NULL
               \/ status[t] = NULL /\ status' = [status EXCEPT ![t] = "queued"]
        BY <1>4, <2>2, RequestEffect DEF NewRequest
      <4>2. "queued" # NULL
        BY <1>0 DEF Statuses
      <4>3. CASE status' = status /\ status[t] # NULL
        BY <4>1, <4>3
      <4>4. CASE status[t] = NULL /\ status' = [status EXCEPT ![t] = "queued"]
        <5>1. (\A r \in Runs : rtask[r] # t) /\ \A k \in Handlers : htask[k] # t
          BY <4>4
        <5> QED BY <1>0, <4>1, <4>2, <4>4, <5>1
      <4> QED BY <4>1, <4>3, <4>4
    <3>3. \A k \in Handlers, l \in Handlers : htask'[k] # NULL /\ htask'[k] = htask'[l] => k = l
      BY <1>0, <3>1, <3>2
    <3>4. \A k \in Handlers, r \in Runs : htask'[k] # NULL /\ htask'[k] = rtask'[r] => hpc'[k] = "cancelling"
      BY <1>0, <3>1, <3>2
    <3>5. hpc'[Watchdog] = hpc[Watchdog]
      BY <1>0, <3>1
    <3>6. \A u \in Tasks : status'[u] = NULL => (\A r \in Runs : rtask'[r] # u) /\ \A k \in Handlers : htask'[k] # u
      BY <1>0, <3>1, <3>2
    <3> QED BY <3>2, <3>3, <3>4, <3>5, <3>6
  <2> QED BY <1>4, <2>1, <2>2, RequestEffect
<1>5. ASSUME UNCHANGED <<hpc, htask, rtask, status>> PROVE OneAtATime'
  BY <1>5
<1>6. CASE \E t \in Tasks : Pause(t) \/ Resume(t) \/ Elapse(t)
  BY <1>5, <1>6, OtherEffect
<1>7. CASE Watch
  <2>1. PICK t \in Tasks : CancelRun(Watchdog, t)
    BY <1>7, WatchEffect
  <2>2. UNCHANGED status
    BY <2>1 DEF CancelRun, db
  <2> QED BY <1>0, <1>3, <2>1, <2>2
<1>8. CASE Restart
  BY <1>0, <1>8 DEF Restart, db
<1>9. CASE UNCHANGED vars
  BY <1>5, <1>9 DEF vars, reqVars, runVars, db
<1> QED BY <1>1, <1>2, <1>4, <1>6, <1>7, <1>8, <1>9 DEF Next

LEMMA ReachableStep ==
  ASSUME ClientWaits, TypeOK, OneAtATime, Reachable, [Next]_vars
  PROVE  Reachable'
<1> USE DEF Reachable
<1>0. /\ rtask \in [Runs -> Tasks \cup {NULL}] /\ rcancel \in [Runs -> BOOLEAN]
      /\ active \in [Tasks -> Runs \cup {NULL}] /\ NULL \notin Tasks
      /\ Handlers \subseteq Procs /\ Watchdog \in Procs
      /\ \A h \in Procs : h \in Handlers \/ h = Watchdog
      /\ \A r, q \in Runs : rtask[r] # NULL /\ rtask[r] = rtask[q] => r = q
  BY Places DEF OneAtATime, Procs
<1>1. ASSUME NEW r \in Runs, RunStep(r) PROVE Reachable'
  <2>1. CASE UNCHANGED <<rtask, rcancel, active>>
    BY <2>1
  <2>2. CASE /\ rtask' = [rtask EXCEPT ![r] = NULL] /\ rcancel' = [rcancel EXCEPT ![r] = FALSE]
             /\ active' = active \/ active' = [active EXCEPT ![rtask[r]] = NULL]
    <3>1. rtask[r] \in Tasks
      BY <1>1, Places, RunEffect
    <3> QED BY <1>0, <2>2, <3>1
  <2> QED BY <1>1, <2>1, <2>2, RunEffect
<1>2. ASSUME NEW h \in Procs, HandlerStep(h) PROVE Reachable'
  <2>1. CASE UNCHANGED <<rtask, rcancel, active>>
    BY <2>1
  <2>2. CASE /\ hpc[h] \in {"submitted", "requeued", "unblocked"}
             /\ \E r \in Runs :
                  /\ rtask[r] = NULL /\ rtask' = [rtask EXCEPT ![r] = htask[h]]
                  /\ rcancel' = [rcancel EXCEPT ![r] = FALSE]
                  /\ active' = [active EXCEPT ![htask[h]] = r]
    <3>1. PICK r \in Runs :
            /\ rtask[r] = NULL /\ rtask' = [rtask EXCEPT ![r] = htask[h]]
            /\ rcancel' = [rcancel EXCEPT ![r] = FALSE]
            /\ active' = [active EXCEPT ![htask[h]] = r]
      BY <2>2
    <3>2. /\ htask[h] \in Tasks /\ h \in Handlers
          /\ \A q \in Runs : rtask[q] # htask[h]
      BY <1>0, <1>2, <2>2, HandlerEffect DEF OneAtATime
    <3> QED BY <1>0, <3>1, <3>2
  <2> QED BY <1>2, <2>1, <2>2, HandlerEffect
<1>3. ASSUME NEW h \in Procs, NEW t \in Tasks, CancelRun(h, t) PROVE Reachable'
  <2>1. /\ active' = [active EXCEPT ![t] = NULL] /\ rtask' = rtask
        /\ rcancel' = [r \in Runs |-> rcancel[r] \/ r = active[t]]
    BY <1>3 DEF CancelRun
  <2> QED BY <1>0, <2>1
<1>4. ASSUME NEW h \in Handlers, NEW t \in Tasks, Request(h, t) PROVE Reachable'
  <2>1. CASE CancelRun(h, t)
    BY <1>0, <1>3, <2>1
  <2>2. CASE NewRequest(h, t)
    BY <1>4, <2>2, RequestEffect DEF NewRequest
  <2> QED BY <1>4, <2>1, <2>2, RequestEffect
<1>5. CASE \E t \in Tasks : Pause(t) \/ Resume(t) \/ Elapse(t)
  BY <1>5, OtherEffect
<1>6. CASE Watch
  BY <1>0, <1>3, <1>6, WatchEffect
<1>7. CASE Restart
  BY <1>7 DEF Restart
<1>8. CASE UNCHANGED vars
  BY <1>8 DEF vars, runner, runVars
<1> QED BY <1>1, <1>2, <1>4, <1>5, <1>6, <1>7, <1>8 DEF Next

\* The client's discipline, the types and the two facts above: what every later
\* invariant of this part is relative to.
OrderlyInv == TypeOK /\ HasNext /\ OneAtATime /\ Reachable

LEMMA OrderlyInit == Init => OrderlyInv
<1> SUFFICES ASSUME Init PROVE OrderlyInv
  OBVIOUS
<1>1. TypeOK /\ HasNext
  BY TypeInit
<1>2. OneAtATime /\ Reachable
  BY Constants DEF Init, OneAtATime, Reachable
<1> QED BY <1>1, <1>2 DEF OrderlyInv

LEMMA OrderlyStep == ClientWaits /\ OrderlyInv /\ [Next]_vars => OrderlyInv'
BY TypeStep, OneAtATimeStep, ReachableStep DEF OrderlyInv

\* If clients act on a task only when nothing is in progress for it, a run that
\* has neither been cancelled nor come to its end is the one that _active holds
\* for its task, so that DELETE, the watchdog and shutdown reach it, and it is
\* the only run of the task, whatever the watchdog, faults and restarts do.
THEOREM RunnerRegistered == ClientWaits /\ Spec => []Registered
<1>1. OrderlyInv => Registered
  <2> SUFFICES ASSUME OrderlyInv, NEW r \in Runs, rpc[r] \notin {"free", "finally"}, ~rcancel[r]
               PROVE  active[rtask[r]] = r
    BY DEF Registered
  <2>1. rtask[r] \in Tasks /\ NULL \notin Tasks
    BY Places DEF OrderlyInv
  <2> QED BY <2>1 DEF OrderlyInv, Reachable
<1>2. ClientWaits => ClientWaits'
  OBVIOUS
<1> QED BY <1>1, <1>2, OrderlyInit, OrderlyStep, PTL DEF Spec

-----------------------------------------------------------------------------
(* What a step of anything else does to a run and to the row of its task.    *)

\* q stays where it is, but for the gate, and so does the row of its task,
\* unless a request in progress cancels the task.
Stays(q) ==
  /\ rtask'[q] = rtask[q] /\ rnext'[q] = rnext[q] /\ rstatus'[q] = rstatus[q]
  /\ rpc'[q] = rpc[q] \/ (rpc[q] = "paused" /\ rpc'[q] = "woken")
  /\ rcancel[q] => rcancel'[q]
  /\ approval'[rtask[q]] = approval[rtask[q]]
  /\ \/ status'[rtask[q]] = status[rtask[q]]
     \/ /\ status'[rtask[q]] = "cancelled"
        /\ \E h \in Procs : hpc[h] = "cancelling" /\ htask[h] = rtask[q]

\* A request schedules q.
Scheduled(q) ==
  \E h \in Handlers :
    /\ hpc[h] \in {"submitted", "requeued", "unblocked"} /\ htask[h] \in Tasks
    /\ rtask'[q] = htask[h] /\ rpc'[q] = "created" /\ rcancel'[q] = FALSE
    /\ rstatus'[q] = rstatus[q] /\ UNCHANGED db

\* Nobody is q.
StaysFree(q) == rtask'[q] = NULL /\ rpc'[q] = "free" /\ rstatus'[q] = rstatus[q]

LEMMA MovedRuns ==
  ASSUME TypeOK, NEW t \in Tasks, NEW q \in Runs, rpc' = Move(t, "woken"),
         UNCHANGED <<rnext, rtask, rstatus>>
  PROVE  /\ rtask'[q] = rtask[q] /\ rnext'[q] = rnext[q] /\ rstatus'[q] = rstatus[q]
         /\ rpc'[q] = rpc[q] \/ (rpc[q] = "paused" /\ rpc'[q] = "woken")
BY DEF Move

LEMMA OtherRunStays ==
  ASSUME OrderlyInv, NEW q \in Runs, rtask[q] # NULL, NEW r \in Runs \ {q}, RunStep(r)
  PROVE  Stays(q)
<1>0. /\ rtask[q] \in Tasks /\ rtask[r] \in Tasks /\ rtask[r] # rtask[q] /\ r # q
      /\ rpc \in [Runs -> RunLabels] /\ rtask \in [Runs -> Tasks \cup {NULL}]
      /\ rnext \in [Runs -> {"free", "work", "complete", "summarize"}]
      /\ rstatus \in [Runs -> Statuses] /\ rcancel \in [Runs -> BOOLEAN]
      /\ status \in [Tasks -> Statuses \cup {NULL}]
      /\ approval \in [Tasks -> {NULL, "pending", "approved", "rejected"}]
  BY Places, RunEffect DEF OrderlyInv, OneAtATime, TypeOK, RunType, RowType
<1> USE DEF Stays
<1>1. CASE StartRun(r) \/ Complete(r) \/ HandleException(r) \/ CompleteRaises(r)
  BY <1>0, <1>1 DEF StartRun, Complete, Returned, HandleException, CompleteRaises
<1>2. CASE RiskCheck(r)
  BY <1>0, <1>2 DEF RiskCheck, Returned
<1>3. CASE ParseFails(r) \/ Work(r)
  BY <1>0, <1>3 DEF ParseFails, Work, Returned, db
<1>4. CASE LoadCheckpoint(r) \/ WaitAtGate(r) \/ PassGate(r) \/ Summarize(r) \/ SummarizeFails(r)
             \/ NodeRaises(r) \/ HandleCancel(r)
  BY <1>0, <1>4 DEF LoadCheckpoint, WaitAtGate, PassGate, Summarize, SummarizeFails, NodeRaises, HandleCancel, db
<1>5. CASE NeverRuns(r) \/ Finally(r)
  BY <1>0, <1>5 DEF NeverRuns, Finally, End, db
<1> QED BY <1>1, <1>2, <1>3, <1>4, <1>5 DEF RunStep

LEMMA BusyRunStep ==
  ASSUME ClientWaits, OrderlyInv, [Next]_vars, NEW q \in Runs, rtask[q] # NULL
  PROVE  RunStep(q) \/ Restart \/ Stays(q)
<1>0. /\ rtask[q] \in Tasks
      /\ rpc \in [Runs -> RunLabels] /\ rtask \in [Runs -> Tasks \cup {NULL}]
      /\ status \in [Tasks -> Statuses \cup {NULL}] /\ Handlers \subseteq Procs
      /\ approval \in [Tasks -> {NULL, "pending", "approved", "rejected"}]
      /\ rcancel \in [Runs -> BOOLEAN]
  BY Places DEF OrderlyInv, TypeOK, RowType
<1>1. ASSUME NEW r \in Runs, RunStep(r) PROVE RunStep(q) \/ Stays(q)
  BY <1>1, OtherRunStays
<1>2. ASSUME NEW h \in Procs, HandlerStep(h) PROVE Stays(q)
  <2>0. htask[h] \in Tasks /\ (htask[h] = rtask[q] => hpc[h] = "cancelling")
    BY <1>0, <1>2, HandlerEffect DEF OrderlyInv, OneAtATime, Procs
  <2>1. CASE ScheduleSubmitted(h) \/ ScheduleApproved(h) \/ ScheduleUnblocked(h)
    <3>1. /\ UNCHANGED db /\ htask[h] # rtask[q]
          /\ \E approved \in BOOLEAN : \E pcs \in {rpc, Move(htask[h], "orphaned")} :
               Schedule(htask[h], approved, pcs)
      BY <2>0, <2>1 DEF ScheduleSubmitted, ScheduleApproved, ScheduleUnblocked
    <3>2. PICK approved \in BOOLEAN, pcs \in {rpc, Move(htask[h], "orphaned")} :
            Schedule(htask[h], approved, pcs)
      BY <3>1
    <3>3. pcs[q] = rpc[q] /\ pcs \in [Runs -> RunLabels]
      <4>1. Move(htask[h], "orphaned")[q] = rpc[q]
        BY <3>1 DEF Move
      <4>2. Move(htask[h], "orphaned") \in [Runs -> RunLabels]
        BY <2>0, MoveType DEF RunInv, OrderlyInv, TypeOK
      <4> QED BY <1>0, <3>2, <4>1, <4>2
    <3>4. PICK r \in Runs :
            /\ rpc[r] = "free" /\ rpc' = [pcs EXCEPT ![r] = "created"]
            /\ rtask' = [rtask EXCEPT ![r] = htask[h]]
            /\ rcancel' = [rcancel EXCEPT ![r] = FALSE] /\ UNCHANGED <<rnext, rstatus>>
      BY <3>2 DEF Schedule
    <3>5. r # q
      BY <1>0, <3>4, Places DEF OrderlyInv
    <3> QED BY <1>0, <3>1, <3>3, <3>4, <3>5 DEF Stays, db
  <2>2. CASE ApplyDecision(h) \/ CheckCaptcha(h) \/ Requeue(h) \/ MarkCancelled(h)
    <3>1. UNCHANGED <<rpc, rnext, rtask, rstatus, rcancel, approval>>
      BY <2>2 DEF ApplyDecision, CheckCaptcha, Requeue, MarkCancelled, runVars, db
    <3>2. \/ status'[rtask[q]] = status[rtask[q]]
          \/ /\ htask[h] = rtask[q] /\ hpc[h] = "cancelling" /\ status'[rtask[q]] = "cancelled"
      BY <1>0, <2>0, <2>2 DEF ApplyDecision, CheckCaptcha, Requeue, MarkCancelled, db
    <3> QED BY <3>1, <3>2 DEF Stays
  <2> QED BY <1>2, <2>1, <2>2 DEF HandlerStep
<1>3. ASSUME NEW h, NEW t \in Tasks, CancelRun(h, t) PROVE Stays(q)
  <2>1. /\ rpc' = Move(t, "woken") /\ UNCHANGED <<rnext, rtask, rstatus>>
        /\ UNCHANGED db /\ rcancel' = [r \in Runs |-> rcancel[r] \/ r = active[t]]
    BY <1>3 DEF CancelRun
  <2> QED BY <1>0, <2>1, MovedRuns DEF Stays, db, OrderlyInv
<1>4. ASSUME NEW h \in Handlers, NEW t \in Tasks, Request(h, t) PROVE Stays(q)
  <2>1. CASE Submit(h, t)
    <3>1. rtask[q] # t
      BY <2>1 DEF Submit, OrderlyInv, OneAtATime
    <3> QED BY <1>0, <2>1, <3>1 DEF Submit, runVars, Stays
  <2>2. CASE Cancel(h, t)
    BY <1>3, <2>2 DEF Cancel
  <2>3. CASE \E d \in {"approved", "rejected"} : Respond(h, t, d)
    <3>1. rtask[q] # t
      BY <2>3 DEF Respond, AtRest, RunsOf
    <3> QED BY <1>0, <2>3, <3>1 DEF Respond, runVars, Stays
  <2>4. CASE \E how \in {"resume", "fallback"} : ResumeBlocked(h, t, how)
    BY <2>4 DEF ResumeBlocked, runVars, db, Stays
  <2> QED BY <1>4, <2>1, <2>2, <2>3, <2>4 DEF Request
<1>5. CASE \E t \in Tasks : Pause(t) \/ Elapse(t)
  BY <1>5 DEF Pause, Elapse, runVars, db, Stays
<1>6. CASE \E t \in Tasks : Resume(t)
  <2>1. PICK t \in Tasks : Resume(t)
    BY <1>6
  <2>2. /\ rpc' = Move(t, "woken") /\ UNCHANGED <<rnext, rtask, rstatus, rcancel>> /\ UNCHANGED db
    BY <2>1 DEF Resume
  <2> QED BY <2>2, MovedRuns DEF Stays, db, OrderlyInv
<1>7. CASE Watch
  BY <1>3, <1>7, WatchEffect DEF OrderlyInv
<1>8. CASE UNCHANGED vars
  BY <1>8 DEF vars, runVars, db, Stays
<1> QED BY <1>1, <1>2, <1>4, <1>5, <1>6, <1>7, <1>8 DEF Next

LEMMA FreeRunStep ==
  ASSUME ClientWaits, OrderlyInv, [Next]_vars, NEW q \in Runs, rtask[q] = NULL
  PROVE  Restart \/ Scheduled(q) \/ StaysFree(q)
<1>0. /\ rpc[q] = "free" /\ rtask[q] = NULL /\ NULL \notin Tasks
      /\ rpc \in [Runs -> RunLabels] /\ rtask \in [Runs -> Tasks \cup {NULL}]
      /\ rstatus \in [Runs -> Statuses] /\ rcancel \in [Runs -> BOOLEAN]
      /\ Handlers \subseteq Procs /\ Watchdog \in Procs
  BY Places DEF OrderlyInv, TypeOK, RunType
<1> USE DEF StaysFree
<1>1. ASSUME NEW r \in Runs, RunStep(r) PROVE StaysFree(q)
  <2>0. r # q
    BY <1>0, <1>1, RunEffect DEF OrderlyInv
  <2>1. CASE StartRun(r) \/ LoadCheckpoint(r) \/ WaitAtGate(r) \/ PassGate(r) \/ Summarize(r)
               \/ SummarizeFails(r) \/ NodeRaises(r) \/ HandleCancel(r) \/ HandleException(r) \/ CompleteRaises(r)
    BY <1>0, <2>0, <2>1 DEF StartRun, LoadCheckpoint, WaitAtGate, PassGate, Summarize, SummarizeFails, NodeRaises,
       HandleCancel, HandleException, CompleteRaises
  <2>2. CASE RiskCheck(r) \/ ParseFails(r) \/ Work(r) \/ Complete(r)
    BY <1>0, <2>0, <2>2 DEF RiskCheck, ParseFails, Work, Complete, Returned
  <2>3. CASE NeverRuns(r) \/ Finally(r)
    BY <1>0, <2>0, <2>3 DEF NeverRuns, Finally, End
  <2> QED BY <1>1, <2>1, <2>2, <2>3 DEF RunStep
<1>2. ASSUME NEW h \in Procs, HandlerStep(h) PROVE Scheduled(q) \/ StaysFree(q)
  <2>1. CASE ScheduleSubmitted(h) \/ ScheduleApproved(h) \/ ScheduleUnblocked(h)
    <3>1. /\ UNCHANGED db /\ h \in Handlers /\ htask[h] \in Tasks
          /\ hpc[h] \in {"submitted", "requeued", "unblocked"}
          /\ \E approved \in BOOLEAN : \E pcs \in {rpc, Move(htask[h], "orphaned")} :
               Schedule(htask[h], approved, pcs)
      BY <1>0, <1>2, <2>1, HandlerEffect DEF ScheduleSubmitted, ScheduleApproved, ScheduleUnblocked,
         OrderlyInv, OneAtATime, Procs
    <3>2. PICK approved \in BOOLEAN, pcs \in {rpc, Move(htask[h], "orphaned")} :
            Schedule(htask[h], approved, pcs)
      BY <3>1
    <3>3. pcs[q] = rpc[q] /\ pcs \in [Runs -> RunLabels]
      <4>1. Move(htask[h], "orphaned")[q] = rpc[q]
        BY <1>0 DEF Move
      <4>2. Move(htask[h], "orphaned") \in [Runs -> RunLabels]
        BY <3>1, MoveType DEF RunInv, OrderlyInv, TypeOK
      <4> QED BY <1>0, <3>2, <4>1, <4>2
    <3>4. PICK r \in Runs :
            /\ rpc' = [pcs EXCEPT ![r] = "created"]
            /\ rtask' = [rtask EXCEPT ![r] = htask[h]]
            /\ rcancel' = [rcancel EXCEPT ![r] = FALSE] /\ UNCHANGED <<rnext, rstatus>>
      BY <3>2 DEF Schedule
    <3>5. CASE r = q
      BY <1>0, <3>1, <3>3, <3>4, <3>5 DEF Scheduled
    <3>6. CASE r # q
      BY <1>0, <3>3, <3>4, <3>6
    <3> QED BY <3>5, <3>6
  <2>2. CASE ApplyDecision(h) \/ CheckCaptcha(h) \/ Requeue(h) \/ MarkCancelled(h)
    BY <1>0, <2>2 DEF ApplyDecision, CheckCaptcha, Requeue, MarkCancelled, runVars
  <2> QED BY <1>2, <2>1, <2>2 DEF HandlerStep
<1>3. ASSUME NEW t \in Tasks, rpc' = Move(t, "woken"), UNCHANGED <<rnext, rtask, rstatus>> PROVE StaysFree(q)
  BY <1>0, <1>3, MovedRuns DEF OrderlyInv
<1>4. ASSUME NEW h \in Handlers, NEW t \in Tasks, Request(h, t) PROVE StaysFree(q)
  <2>1. CASE Cancel(h, t)
    BY <1>3, <2>1 DEF Cancel, CancelRun
  <2>2. CASE Submit(h, t) \/ (\E d \in {"approved", "rejected"} : Respond(h, t, d))
               \/ (\E how \in {"resume", "fallback"} : ResumeBlocked(h, t, how))
    BY <1>0, <2>2 DEF Submit, Respond, ResumeBlocked, runVars
  <2> QED BY <1>4, <2>1, <2>2 DEF Request
<1>5. CASE \E t \in Tasks : Pause(t) \/ Elapse(t)
  BY <1>0, <1>5 DEF Pause, Elapse, runVars
<1>6. CASE \E t \in Tasks : Resume(t)
  BY <1>3, <1>6 DEF Resume
<1>7. CASE Watch
  BY <1>3, <1>7, WatchEffect DEF CancelRun, OrderlyInv
<1>8. CASE UNCHANGED vars
  BY <1>0, <1>8 DEF vars, runVars
<1> QED BY <1>1, <1>2, <1>4, <1>5, <1>6, <1>7, <1>8 DEF Next

-----------------------------------------------------------------------------
(* The checkpoint of a task that may go on is kept.                          *)

Between == {"gate", "paused", "woken", "orphaned"}

\* complete_node of r has written the final status of the run.
Written(r) == rpc[r] = "summarize" \/ (rpc[r] \in Between /\ rnext[r] = "summarize")

\* When it has written completed, the row says so until somebody cancels.
Saved ==
  \A r \in Runs : Written(r) /\ rstatus[r] = "completed" => status[rtask[r]] \in {"completed", "cancelled"}

LEMMA SavedStep ==
  ASSUME ClientWaits, OrderlyInv, Saved, [Next]_vars
  PROVE  Saved'
<1> SUFFICES ASSUME NEW q \in Runs, Written(q)', rstatus'[q] = "completed"
             PROVE  status'[rtask'[q]] \in {"completed", "cancelled"}
  BY DEF Saved
<1> USE DEF Written, Between
<1>0. /\ rpc \in [Runs -> RunLabels] /\ rtask \in [Runs -> Tasks \cup {NULL}]
      /\ rnext \in [Runs -> {"free", "work", "complete", "summarize"}]
      /\ rstatus \in [Runs -> Statuses] /\ status \in [Tasks -> Statuses \cup {NULL}]
      /\ rpc[q] # "free" => rtask[q] \in Tasks
      /\ Written(q) /\ rstatus[q] = "completed" => status[rtask[q]] \in {"completed", "cancelled"}
  BY Places DEF OrderlyInv, TypeOK, RunType, Saved
<1>1. CASE RunStep(q)
  <2>0. rtask[q] \in Tasks
    BY <1>0, <1>1, RunEffect DEF OrderlyInv
  <2>1. CASE Complete(q)
    BY <1>0, <2>0, <2>1 DEF Complete, Returned
  <2>2. CASE StartRun(q) \/ LoadCheckpoint(q) \/ Summarize(q) \/ SummarizeFails(q) \/ NodeRaises(q)
               \/ HandleException(q) \/ CompleteRaises(q) \/ HandleCancel(q)
    BY <1>0, <2>2 DEF StartRun, LoadCheckpoint, Summarize, SummarizeFails, NodeRaises, HandleException, CompleteRaises, HandleCancel
  <2>3. CASE RiskCheck(q) \/ ParseFails(q) \/ Work(q)
    BY <1>0, <2>3 DEF RiskCheck, ParseFails, Work, Returned
  <2>4. CASE WaitAtGate(q) \/ PassGate(q)
    BY <1>0, <2>4 DEF WaitAtGate, PassGate, At, db
  <2>5. CASE NeverRuns(q) \/ Finally(q)
    BY <1>0, <2>5 DEF NeverRuns, Finally, End
  <2> QED BY <1>1, <2>1, <2>2, <2>3, <2>4, <2>5 DEF RunStep
<1>2. CASE Restart
  BY <1>2 DEF Restart
<1>3. CASE rtask[q] # NULL /\ Stays(q)
  BY <1>0, <1>3 DEF Stays
<1>4. CASE Scheduled(q) \/ StaysFree(q)
  BY <1>4 DEF Scheduled, StaysFree
<1> QED BY <1>1, <1>2, <1>3, <1>4, BusyRunStep, FreeRunStep

SavedInv == OrderlyInv /\ Saved

\* Only a run that has completed removes a checkpoint.
LEMMA CheckpointStep ==
  ASSUME SavedInv, [Next]_vars, NEW t \in Tasks, ckpt[t], ~ckpt'[t]
  PROVE  status[t] \in {"completed", "cancelled"}
<1>1. ckpt \in [Tasks -> BOOLEAN]
  BY DEF SavedInv, OrderlyInv, TypeOK, RowType
<1>2. ASSUME NEW r \in Runs, RunStep(r) PROVE status[t] \in {"completed", "cancelled"}
  <2>0. rtask[r] \in Tasks
    BY <1>2, RunEffect, Places DEF SavedInv, OrderlyInv
  <2>1. CASE Summarize(r)
    <3>1. rpc[r] = "summarize" /\ rstatus[r] = "completed" /\ ckpt' = [ckpt EXCEPT ![rtask[r]] = FALSE]
      BY <2>1 DEF Summarize, At
    <3>2. rtask[r] = t
      BY <1>1, <2>0, <3>1
    <3> QED BY <3>1, <3>2 DEF SavedInv, Saved, Written
  <2>2. CASE PassGate(r)
    BY <1>1, <2>0, <2>2 DEF PassGate
  <2>3. CASE ~Summarize(r) /\ ~PassGate(r)
    BY <1>2, <2>3 DEF RunStep, StartRun, LoadCheckpoint, RiskCheck, ParseFails, Work, WaitAtGate, Complete,
       SummarizeFails, NodeRaises, HandleException, CompleteRaises, HandleCancel, NeverRuns, Finally
  <2> QED BY <2>1, <2>2, <2>3
<1>3. CASE ckpt' = ckpt
  BY <1>3
<1>4. CASE \E h \in Procs : HandlerStep(h)
  BY <1>3, <1>4 DEF HandlerStep, ScheduleSubmitted, ApplyDecision, ScheduleApproved, ScheduleUnblocked, CheckCaptcha,
     Requeue, MarkCancelled
<1>5. CASE \E h \in Handlers, u \in Tasks : Request(h, u)
  BY <1>3, <1>5 DEF Request, Submit, Cancel, CancelRun, Respond, ResumeBlocked
<1>6. CASE \E u \in Tasks : Pause(u) \/ Resume(u) \/ Elapse(u)
  BY <1>3, <1>6 DEF Pause, Resume, Elapse
<1>7. CASE Watch \/ Restart \/ UNCHANGED vars
  BY <1>3, <1>7 DEF Watch, CancelRun, Restart, vars
<1> QED BY <1>2, <1>4, <1>5, <1>6, <1>7 DEF Next

\* If clients wait, the checkpoint of a task that may still go on is never
\* removed: after an approval, a block, a failure, a pause or a restart the next
\* run finds the plan it had, whatever the watchdog and faults do.
THEOREM RunnerCheckpointKept == ClientWaits /\ Spec => CheckpointKept
<1>1. Init => SavedInv
  BY OrderlyInit DEF SavedInv, Saved, Written, Between, Init
<1>2. ClientWaits /\ SavedInv /\ [Next]_vars => SavedInv'
  BY OrderlyStep, SavedStep DEF SavedInv
<1>3. SavedInv /\ [Next]_vars =>
        [\A t \in Tasks : ckpt[t] /\ ~ckpt'[t] => status[t] \in {"completed", "cancelled"}]_<<ckpt, status>>
  BY CheckpointStep
<1>4. ClientWaits => ClientWaits'
  OBVIOUS
<1> QED BY <1>1, <1>2, <1>3, <1>4, PTL DEF Spec, CheckpointKept

-----------------------------------------------------------------------------
(* A task that waits can be decided.                                         *)

\* A run whose task waits for a decision has created the approval, and the
\* decision about a task that waits is still to come or being applied.
Decidable ==
  /\ \A r \in Runs : rpc[r] = "free" => rstatus[r] = "running"
  /\ \A r \in Runs : rstatus[r] = "waiting_approval" => approval[rtask[r]] = "pending"
  /\ \A t \in Tasks : status[t] = "waiting_approval" =>
       approval[t] = "pending" \/ \E h \in Handlers : htask[h] = t /\ hpc[h] \in {"approved", "rejected"}

LEMMA DecidableRuns ==
  ASSUME ClientWaits, ~Restarts, OrderlyInv, Decidable, [Next]_vars, NEW q \in Runs
  PROVE  /\ rpc'[q] = "free" => rstatus'[q] = "running"
         /\ rstatus'[q] = "waiting_approval" => approval'[rtask'[q]] = "pending"
<1>0. /\ rpc \in [Runs -> RunLabels] /\ rtask \in [Runs -> Tasks \cup {NULL}]
      /\ rnext \in [Runs -> {"free", "work", "complete", "summarize"}]
      /\ rstatus \in [Runs -> Statuses]
      /\ approval \in [Tasks -> {NULL, "pending", "approved", "rejected"}]
      /\ rpc[q] # "free" <=> rtask[q] \in Tasks
      /\ rtask[q] = NULL <=> rpc[q] = "free"
      /\ rpc[q] \in Between => rnext[q] # "free"
      /\ rpc[q] = "free" => rstatus[q] = "running"
      /\ rstatus[q] = "waiting_approval" => approval[rtask[q]] = "pending"
  BY Places DEF OrderlyInv, TypeOK, RunType, RowType, Decidable, HasNext, Between
<1>1. CASE RunStep(q)
  <2>0. rtask[q] \in Tasks
    BY <1>0, <1>1, RunEffect DEF OrderlyInv
  <2>1. CASE RiskCheck(q)
    BY <1>0, <2>0, <2>1 DEF RiskCheck, Returned
  <2>2. CASE ParseFails(q) \/ Work(q)
    BY <1>0, <2>2 DEF ParseFails, Work, Returned
  <2>3. CASE Complete(q)
    BY <1>0, <2>3 DEF Complete, Returned
  <2>4. CASE PassGate(q)
    BY <1>0, <2>4 DEF PassGate, At, Between, db
  <2>5. CASE StartRun(q) \/ LoadCheckpoint(q) \/ WaitAtGate(q) \/ Summarize(q) \/ SummarizeFails(q)
               \/ NodeRaises(q) \/ HandleException(q) \/ CompleteRaises(q) \/ HandleCancel(q)
    BY <1>0, <2>0, <2>5 DEF StartRun, LoadCheckpoint, WaitAtGate, Summarize, SummarizeFails, NodeRaises, HandleException, CompleteRaises,
       HandleCancel, db
  <2>6. CASE NeverRuns(q) \/ Finally(q)
    BY <1>0, <2>6 DEF NeverRuns, Finally, End
  <2> QED BY <1>1, <2>1, <2>2, <2>3, <2>4, <2>5, <2>6 DEF RunStep
<1>2. CASE rtask[q] # NULL /\ Stays(q)
  BY <1>0, <1>2 DEF Stays
<1>3. CASE rtask[q] = NULL /\ (Scheduled(q) \/ StaysFree(q))
  BY <1>0, <1>3 DEF Scheduled, StaysFree
<1> QED BY <1>1, <1>2, <1>3, BusyRunStep, FreeRunStep DEF Restart

LEMMA DecidableTasks ==
  ASSUME ClientWaits, ~Restarts, OrderlyInv, Decidable, [Next]_vars, NEW t \in Tasks,
         status'[t] = "waiting_approval"
  PROVE  approval'[t] = "pending" \/ \E h \in Handlers : htask'[h] = t /\ hpc'[h] \in {"approved", "rejected"}
<1>0. /\ status \in [Tasks -> Statuses \cup {NULL}]
      /\ approval \in [Tasks -> {NULL, "pending", "approved", "rejected"}]
      /\ htask \in [Procs -> Tasks \cup {NULL}]
      /\ hpc \in [Procs -> {"idle", "submitted", "approved", "rejected", "requeued",
                            "resume", "fallback", "unblocked", "cancelling"}]
      /\ Handlers \subseteq Procs
      /\ status[t] = "waiting_approval" =>
           approval[t] = "pending" \/ \E h \in Handlers : htask[h] = t /\ hpc[h] \in {"approved", "rejected"}
  BY Places DEF OrderlyInv, TypeOK, RowType, RequestType, Decidable
<1>1. CASE status[t] = "waiting_approval" /\ UNCHANGED <<approval, hpc, htask>>
  BY <1>0, <1>1
<1>2. ASSUME NEW r \in Runs, RunStep(r)
      PROVE  approval'[t] = "pending" \/ \E h \in Handlers : htask'[h] = t /\ hpc'[h] \in {"approved", "rejected"}
  <2>0. rtask[r] \in Tasks /\ UNCHANGED <<hpc, htask>>
    BY <1>2, RunEffect, Places DEF OrderlyInv
  <2>1. CASE Complete(r) \/ CompleteRaises(r)
    <3>1. CASE rtask[r] = t
      BY <1>0, <2>0, <2>1, <3>1 DEF Complete, CompleteRaises, Decidable
    <3>2. CASE rtask[r] # t
      BY <1>0, <1>1, <2>0, <2>1, <3>2 DEF Complete, CompleteRaises
    <3> QED BY <3>1, <3>2
  <2>2. CASE StartRun(r) \/ HandleException(r)
    BY <1>0, <1>1, <2>0, <2>2 DEF StartRun, HandleException
  <2>3. CASE RiskCheck(r)
    BY <1>0, <2>0, <2>3 DEF RiskCheck
  <2>4. CASE ~Complete(r) /\ ~StartRun(r) /\ ~HandleException(r) /\ ~CompleteRaises(r) /\ ~RiskCheck(r)
    BY <1>1, <1>2, <2>0, <2>4 DEF RunStep, LoadCheckpoint, ParseFails, Work, WaitAtGate, PassGate,
       Summarize, SummarizeFails, NodeRaises, HandleCancel, NeverRuns, Finally, db
  <2> QED BY <2>1, <2>2, <2>3, <2>4
<1>3. ASSUME NEW h \in Procs, HandlerStep(h)
      PROVE  approval'[t] = "pending" \/ \E k \in Handlers : htask'[k] = t /\ hpc'[k] \in {"approved", "rejected"}
  <2>0. htask[h] \in Tasks /\ UNCHANGED approval
    BY <1>3, HandlerEffect DEF OrderlyInv, HandlerStep, ScheduleSubmitted, ApplyDecision, ScheduleApproved,
       ScheduleUnblocked, CheckCaptcha, Requeue, MarkCancelled, db
  <2>1. CASE ApplyDecision(h)
    <3>1. /\ htask[h] # t /\ status[t] = "waiting_approval"
          /\ \A k \in Procs \ {h} : htask'[k] = htask[k] /\ hpc'[k] = hpc[k]
      BY <1>0, <2>0, <2>1 DEF ApplyDecision, Goto, Answer
    <3> QED BY <1>0, <2>0, <3>1
  <2>2. CASE ~ApplyDecision(h)
    <3>1. /\ hpc[h] \notin {"approved", "rejected"} /\ status[t] = "waiting_approval"
          /\ \A k \in Procs \ {h} : htask'[k] = htask[k] /\ hpc'[k] = hpc[k]
      BY <1>0, <1>3, <2>0, <2>2 DEF HandlerStep, ScheduleSubmitted, ScheduleApproved,
         ScheduleUnblocked, CheckCaptcha, Requeue, MarkCancelled, db, Goto, Answer
    <3> QED BY <1>0, <2>0, <3>1
  <2> QED BY <2>1, <2>2
<1>4. ASSUME NEW h \in Procs, NEW u \in Tasks, CancelRun(h, u)
      PROVE  approval'[t] = "pending" \/ \E k \in Handlers : htask'[k] = t /\ hpc'[k] \in {"approved", "rejected"}
  <2>1. /\ UNCHANGED db /\ hpc[h] = "idle"
        /\ \A k \in Procs \ {h} : htask'[k] = htask[k] /\ hpc'[k] = hpc[k]
    BY <1>0, <1>4 DEF CancelRun, Begin
  <2> QED BY <1>0, <2>1 DEF db
<1>5. ASSUME NEW h \in Handlers, NEW u \in Tasks, Request(h, u)
      PROVE  approval'[t] = "pending" \/ \E k \in Handlers : htask'[k] = t /\ hpc'[k] \in {"approved", "rejected"}
  <2>1. CASE Cancel(h, u)
    BY <1>0, <1>4, <2>1 DEF Cancel
  <2>2. CASE Submit(h, u) \/ \E how \in {"resume", "fallback"} : ResumeBlocked(h, u, how)
    <3>1. /\ status[t] = "waiting_approval" /\ UNCHANGED approval /\ hpc[h] = "idle"
          /\ \A k \in Procs \ {h} : htask'[k] = htask[k] /\ hpc'[k] = hpc[k]
      BY <1>0, <2>2 DEF Submit, ResumeBlocked, Begin, db
    <3> QED BY <1>0, <3>1
  <2>3. CASE \E d \in {"approved", "rejected"} : Respond(h, u, d)
    <3>1. PICK d \in {"approved", "rejected"} : Respond(h, u, d)
      BY <2>3
    <3>2. /\ status' = status /\ hpc[h] = "idle" /\ approval' = [approval EXCEPT ![u] = d]
          /\ hpc' = [hpc EXCEPT ![h] = d] /\ htask' = [htask EXCEPT ![h] = u]
      BY <3>1 DEF Respond, Begin
    <3>3. CASE u = t
      BY <1>0, <3>2, <3>3
    <3>4. CASE u # t
      BY <1>0, <3>2, <3>4
    <3> QED BY <3>3, <3>4
  <2> QED BY <1>5, <2>1, <2>2, <2>3 DEF Request
<1>6. CASE \E u \in Tasks : Pause(u) \/ Resume(u) \/ Elapse(u)
  BY <1>0, <1>1, <1>6, OtherEffect
<1>7. CASE Watch
  BY <1>0, <1>4, <1>7, WatchEffect, Places DEF OrderlyInv
<1>8. CASE UNCHANGED vars
  BY <1>0, <1>1, <1>8 DEF vars, db, reqVars
<1> QED BY <1>2, <1>3, <1>5, <1>6, <1>7, <1>8 DEF Next, Restart

DecidableInv == OrderlyInv /\ Decidable

LEMMA DecidableStep == ClientWaits /\ ~Restarts /\ DecidableInv /\ [Next]_vars => DecidableInv'
<1> SUFFICES ASSUME ClientWaits, ~Restarts, DecidableInv, [Next]_vars PROVE DecidableInv'
  OBVIOUS
<1>1. OrderlyInv /\ Decidable
  BY DEF DecidableInv
<1>2. Decidable'
  BY <1>1, DecidableRuns, DecidableTasks DEF Decidable
<1> QED BY <1>1, <1>2, OrderlyStep DEF DecidableInv

\* If clients wait and the process does not stop, a task at rest that waits for
\* a decision has a decision to wait for: its approval is pending, in spite of
\* pauses, cancellations, the watchdog and faults.
THEOREM RunnerWaitingCanBeDecided == ClientWaits /\ ~Restarts /\ Spec => []WaitingCanBeDecided
<1>1. Init => DecidableInv
  BY OrderlyInit, RunnerAssumption DEF DecidableInv, Decidable, Init, Statuses
<1>2. DecidableInv => WaitingCanBeDecided
  <2> SUFFICES ASSUME DecidableInv, NEW t \in Tasks, AtRest(t), status[t] = "waiting_approval"
               PROVE  approval[t] = "pending"
    BY DEF WaitingCanBeDecided
  <2>1. \A h \in Handlers : htask[h] # t
    BY Places DEF AtRest, DecidableInv, OrderlyInv
  <2> QED BY <2>1 DEF DecidableInv, Decidable
<1>3. (ClientWaits => ClientWaits') /\ (~Restarts => ~Restarts')
  OBVIOUS
<1> QED BY <1>1, <1>2, <1>3, DecidableStep, PTL DEF Spec

-----------------------------------------------------------------------------
(* Cancellation, without the watchdog (only scripts and benchmarks call      *)
(* TaskRunner.start, the application does not).                              *)

\* Once a run of the task has been told to stop, every run has been, and nobody
\* is going to start another one.
Stopped ==
  /\ hpc[Watchdog] = "idle"
  /\ \A h \in Handlers, r \in Runs : hpc[h] = "cancelling" /\ rtask[r] = htask[h] => rcancel[r]
  /\ \A t \in Tasks : status[t] = "cancelled" =>
       /\ \A h \in Handlers : htask[h] = t => hpc[h] = "cancelling"
       /\ \A r \in Runs : rtask[r] = t => rcancel[r]
  /\ \A r \in Runs : rstatus[r] # "cancelled"

LEMMA HandlerStays ==
  ASSUME OrderlyInv, [Next]_vars, NEW h \in Handlers
  PROVE  \/ HandlerStep(h) \/ Restart \/ \E t \in Tasks : Request(h, t)
         \/ hpc'[h] = hpc[h] /\ htask'[h] = htask[h]
<1>0. /\ hpc \in [Procs -> {"idle", "submitted", "approved", "rejected", "requeued",
                            "resume", "fallback", "unblocked", "cancelling"}]
      /\ htask \in [Procs -> Tasks \cup {NULL}] /\ h \in Procs /\ h # Watchdog /\ Handlers \subseteq Procs
  BY Places DEF OrderlyInv, TypeOK, RequestType
<1>1. ASSUME NEW r \in Runs, RunStep(r) PROVE hpc'[h] = hpc[h] /\ htask'[h] = htask[h]
  BY <1>1, RunEffect DEF OrderlyInv
<1>2. ASSUME NEW k \in Procs, k # h, HandlerStep(k) PROVE hpc'[h] = hpc[h] /\ htask'[h] = htask[h]
  <2>1. Answer(k) \/ \E label : Goto(k, label)
    BY <1>2, HandlerEffect DEF OrderlyInv
  <2> QED BY <1>0, <1>2, <2>1 DEF Answer, Goto
<1>3. ASSUME NEW k \in Procs, k # h, NEW t, NEW label, Begin(k, t, label)
      PROVE  hpc'[h] = hpc[h] /\ htask'[h] = htask[h]
  BY <1>0, <1>3 DEF Begin
<1>4. ASSUME NEW k \in Handlers, k # h, NEW t \in Tasks, Request(k, t)
      PROVE  hpc'[h] = hpc[h] /\ htask'[h] = htask[h]
  BY <1>0, <1>3, <1>4 DEF Request, Submit, Cancel, CancelRun, Respond, ResumeBlocked
<1>5. CASE \E t \in Tasks : Pause(t) \/ Resume(t) \/ Elapse(t)
  BY <1>5, OtherEffect
<1>6. CASE Watch
  BY <1>0, <1>3, <1>6, Places DEF Watch, CancelRun, OrderlyInv
<1>7. CASE UNCHANGED vars
  BY <1>7 DEF vars, reqVars
<1> QED BY <1>1, <1>2, <1>4, <1>5, <1>6, <1>7 DEF Next

\* The row of a task gets to be cancelled in the second stretch of DELETE only.
LEMMA BecomesCancelled ==
  ASSUME ~WatchdogStarted, OrderlyInv, Stopped, [Next]_vars, NEW t \in Tasks, status'[t] = "cancelled"
  PROVE  status[t] = "cancelled" \/ \E h \in Handlers : MarkCancelled(h) /\ htask[h] = t
<1>0. /\ status \in [Tasks -> Statuses \cup {NULL}]
  BY Places DEF OrderlyInv
<1>1. ASSUME NEW r \in Runs, RunStep(r) PROVE status[t] = "cancelled"
  <2>0. rtask[r] \in Tasks /\ rstatus[r] # "cancelled"
    BY <1>1, RunEffect, Places DEF OrderlyInv, Stopped
  <2>1. CASE StartRun(r) \/ Complete(r) \/ HandleException(r) \/ CompleteRaises(r)
    BY <1>0, <2>0, <2>1 DEF StartRun, Complete, HandleException, CompleteRaises
  <2>2. CASE ~StartRun(r) /\ ~Complete(r) /\ ~HandleException(r) /\ ~CompleteRaises(r)
    BY <1>1, <2>2 DEF RunStep, LoadCheckpoint, RiskCheck, ParseFails, Work, WaitAtGate, PassGate,
       Summarize, SummarizeFails, NodeRaises, HandleCancel, NeverRuns, Finally, db
  <2> QED BY <2>1, <2>2
<1>2. ASSUME NEW h \in Procs, HandlerStep(h)
      PROVE  status[t] = "cancelled" \/ (h \in Handlers /\ MarkCancelled(h) /\ htask[h] = t)
  <2>0. htask[h] \in Tasks /\ h \in Handlers
    BY <1>2, HandlerEffect DEF OrderlyInv, Stopped, Procs
  <2>1. CASE ApplyDecision(h) \/ Requeue(h) \/ MarkCancelled(h)
    BY <1>0, <2>0, <2>1 DEF ApplyDecision, Requeue, MarkCancelled
  <2>2. CASE ScheduleSubmitted(h) \/ ScheduleApproved(h) \/ ScheduleUnblocked(h) \/ CheckCaptcha(h)
    BY <2>2 DEF ScheduleSubmitted, ScheduleApproved, ScheduleUnblocked, CheckCaptcha, db
  <2> QED BY <1>2, <2>1, <2>2 DEF HandlerStep
<1>3. ASSUME NEW h \in Handlers, NEW u \in Tasks, Request(h, u) PROVE status[t] = "cancelled"
  BY <1>0, <1>3 DEF Request, Submit, Cancel, CancelRun, Respond, ResumeBlocked, db
<1>4. CASE \E u \in Tasks : Pause(u) \/ Resume(u) \/ Elapse(u)
  BY <1>4, OtherEffect
<1>5. CASE Watch \/ Restart \/ UNCHANGED vars
  BY <1>5 DEF Watch, CancelRun, Restart, vars, db
<1> QED BY <1>1, <1>2, <1>3, <1>4, <1>5 DEF Next

LEMMA WatchdogIdle ==
  ASSUME ~WatchdogStarted, OrderlyInv, Stopped, [Next]_vars
  PROVE  hpc'[Watchdog] = "idle"
<1>0. /\ hpc[Watchdog] = "idle" /\ Watchdog \in Procs /\ Watchdog \notin Handlers /\ Handlers \subseteq Procs
      /\ hpc \in [Procs -> {"idle", "submitted", "approved", "rejected", "requeued",
                            "resume", "fallback", "unblocked", "cancelling"}]
  BY Places DEF OrderlyInv, Stopped, TypeOK, RequestType
<1>1. ASSUME NEW r \in Runs, RunStep(r) PROVE hpc'[Watchdog] = "idle"
  BY <1>0, <1>1, RunEffect DEF OrderlyInv
<1>2. ASSUME NEW h \in Procs, HandlerStep(h) PROVE hpc'[Watchdog] = "idle"
  <2>1. (Answer(h) \/ \E label : Goto(h, label)) /\ hpc[h] # "idle"
    BY <1>2, HandlerEffect DEF OrderlyInv
  <2> QED BY <1>0, <2>1 DEF Answer, Goto
<1>3. ASSUME NEW h \in Handlers, NEW t \in Tasks, Request(h, t) PROVE hpc'[Watchdog] = "idle"
  BY <1>0, <1>3 DEF Request, Submit, Cancel, CancelRun, Respond, ResumeBlocked, Begin
<1>4. CASE \E t \in Tasks : Pause(t) \/ Resume(t) \/ Elapse(t)
  BY <1>0, <1>4, OtherEffect
<1>5. CASE Restart \/ UNCHANGED vars
  BY <1>0, <1>5 DEF Restart, vars, reqVars
<1> QED BY <1>1, <1>2, <1>3, <1>4, <1>5 DEF Next, Watch

LEMMA CancelReaches ==
  ASSUME ClientWaits, ~WatchdogStarted, OrderlyInv, Stopped, [Next]_vars,
         NEW h \in Handlers, NEW q \in Runs, hpc'[h] = "cancelling", rtask'[q] = htask'[h]
  PROVE  rcancel'[q]
<1>0. /\ rtask \in [Runs -> Tasks \cup {NULL}] /\ rcancel \in [Runs -> BOOLEAN] /\ NULL \notin Tasks
      /\ active \in [Tasks -> Runs \cup {NULL}]
      /\ htask \in [Procs -> Tasks \cup {NULL}] /\ h \in Procs
      /\ hpc \in [Procs -> {"idle", "submitted", "approved", "rejected", "requeued",
                            "resume", "fallback", "unblocked", "cancelling"}]
      /\ hpc[h] # "idle" <=> htask[h] \in Tasks
      /\ hpc[h] = "cancelling" /\ rtask[q] = htask[h] => rcancel[q]
  BY Places DEF OrderlyInv, TypeOK, RequestType, Stopped
<1>1. ~HandlerStep(h)
  <2> SUFFICES ASSUME HandlerStep(h) PROVE FALSE
    OBVIOUS
  <2>1. Answer(h) \/ \E label \in {"requeued", "fallback", "unblocked"} : Goto(h, label)
    BY <1>0, HandlerEffect DEF OrderlyInv
  <2> QED BY <1>0, <2>1 DEF Answer, Goto
<1>2. ASSUME NEW t \in Tasks, Request(h, t) PROVE rcancel'[q]
  <2>1. ~NewRequest(h, t)
    BY <1>0 DEF NewRequest, Begin
  <2>2. CancelRun(h, t) /\ rtask' = rtask
    BY <1>2, <2>1, RequestEffect DEF OrderlyInv
  <2>3. htask'[h] = t /\ rcancel' = [r \in Runs |-> rcancel[r] \/ r = active[t]]
    BY <1>0, <2>2 DEF CancelRun, Begin
  <2>4. rtask[q] = t /\ (~rcancel[q] => active[t] = q)
    BY <1>0, <2>2, <2>3 DEF OrderlyInv, Reachable
  <2> QED BY <1>0, <2>3, <2>4
<1>3. ~Restart
  BY <1>0 DEF Restart
<1>4. CASE hpc'[h] = hpc[h] /\ htask'[h] = htask[h]
  <2>1. CASE rtask[q] # NULL /\ RunStep(q)
    BY <1>0, <1>4, <2>1, RunEffect DEF OrderlyInv
  <2>2. CASE rtask[q] # NULL /\ Stays(q)
    BY <1>0, <1>4, <2>2 DEF Stays
  <2>3. CASE rtask[q] = NULL /\ Scheduled(q)
    BY <1>0, <1>4, <2>3 DEF Scheduled, OrderlyInv, OneAtATime
  <2>4. CASE rtask[q] = NULL /\ StaysFree(q)
    BY <1>0, <1>4, <2>4 DEF StaysFree
  <2> QED BY <1>3, <2>1, <2>2, <2>3, <2>4, BusyRunStep, FreeRunStep
<1> QED BY <1>1, <1>2, <1>3, <1>4, HandlerStays

LEMMA CancelledRequests ==
  ASSUME ClientWaits, ~WatchdogStarted, OrderlyInv, Stopped, [Next]_vars, NEW t \in Tasks, status'[t] = "cancelled",
         NEW h \in Handlers, htask'[h] = t
  PROVE  hpc'[h] = "cancelling"
<1>0. /\ NULL \notin Tasks /\ status \in [Tasks -> Statuses \cup {NULL}]
      /\ htask \in [Procs -> Tasks \cup {NULL}] /\ h \in Procs
      /\ hpc \in [Procs -> {"idle", "submitted", "approved", "rejected", "requeued",
                            "resume", "fallback", "unblocked", "cancelling"}]
      /\ status[t] = "cancelled" /\ htask[h] = t => hpc[h] = "cancelling"
  BY Places DEF OrderlyInv, TypeOK, RequestType, Stopped
<1>1. CASE HandlerStep(h)
  <2>1. ~Answer(h)
    BY <1>0 DEF Answer
  <2>2. htask[h] = t /\ hpc[h] # "cancelling" /\ status[t] # "cancelled"
    <3>1. hpc[h] # "cancelling" /\ \E label : Goto(h, label)
      BY <1>0, <1>1, <2>1, HandlerEffect DEF OrderlyInv
    <3> QED BY <1>0, <3>1 DEF Goto
  <2>3. PICK k \in Handlers : MarkCancelled(k) /\ htask[k] = t
    BY <2>2, BecomesCancelled
  <2>4. k = h
    BY <1>0, <2>2, <2>3 DEF OrderlyInv, OneAtATime
  <2> QED BY <2>1, <2>3, <2>4 DEF MarkCancelled
<1>2. ASSUME NEW u \in Tasks, Request(h, u) PROVE hpc'[h] = "cancelling"
  <2>1. CASE Cancel(h, u)
    BY <1>0, <2>1 DEF Cancel, CancelRun, Begin
  <2>2. CASE Submit(h, u)
    BY <1>0, <2>2 DEF Submit, Begin
  <2>3. CASE \E d \in {"approved", "rejected"} : Respond(h, u, d)
    BY <1>0, <2>3 DEF Respond, Begin
  <2>4. CASE \E how \in {"resume", "fallback"} : ResumeBlocked(h, u, how)
    BY <1>0, <2>4 DEF ResumeBlocked, Begin, db
  <2> QED BY <1>2, <2>1, <2>2, <2>3, <2>4 DEF Request
<1>3. CASE Restart
  BY <1>0, <1>3 DEF Restart
<1>4. CASE hpc'[h] = hpc[h] /\ htask'[h] = htask[h]
  <2>1. CASE status[t] = "cancelled"
    BY <1>0, <1>4, <2>1
  <2>2. CASE \E k \in Handlers : MarkCancelled(k) /\ htask[k] = t
    <3>1. PICK k \in Handlers : MarkCancelled(k) /\ htask[k] = t
      BY <2>2
    <3>2. k = h
      BY <1>0, <1>4, <3>1 DEF OrderlyInv, OneAtATime
    <3> QED BY <1>0, <1>4, <3>1, <3>2 DEF MarkCancelled, Answer
  <2> QED BY <2>1, <2>2, BecomesCancelled
<1> QED BY <1>1, <1>2, <1>3, <1>4, HandlerStays

LEMMA CancelledRuns ==
  ASSUME ClientWaits, ~WatchdogStarted, OrderlyInv, Stopped, [Next]_vars, NEW t \in Tasks, status'[t] = "cancelled",
         NEW q \in Runs, rtask'[q] = t
  PROVE  rcancel'[q]
<1>0. /\ rtask \in [Runs -> Tasks \cup {NULL}] /\ rcancel \in [Runs -> BOOLEAN] /\ NULL \notin Tasks
      /\ rtask[q] = t /\ status[t] = "cancelled" => rcancel[q]
  BY Places DEF OrderlyInv, Stopped
<1>1. CASE status[t] = "cancelled"
  <2>1. CASE rtask[q] # NULL /\ RunStep(q)
    BY <1>0, <1>1, <2>1, RunEffect DEF OrderlyInv
  <2>2. CASE rtask[q] # NULL /\ Stays(q)
    BY <1>0, <1>1, <2>2 DEF Stays
  <2>3. CASE rtask[q] = NULL /\ Scheduled(q)
    BY <1>0, <1>1, <2>3 DEF Scheduled, Stopped
  <2>4. CASE rtask[q] = NULL /\ StaysFree(q)
    BY <1>0, <2>4 DEF StaysFree
  <2>5. CASE Restart
    BY <1>0, <2>5 DEF Restart
  <2> QED BY <2>1, <2>2, <2>3, <2>4, <2>5, BusyRunStep, FreeRunStep
<1>2. CASE \E h \in Handlers : MarkCancelled(h) /\ htask[h] = t
  BY <1>2 DEF MarkCancelled, runVars, Stopped
<1> QED BY <1>1, <1>2, BecomesCancelled

LEMMA NeverCancelledByGraph ==
  ASSUME ClientWaits, OrderlyInv, Stopped, [Next]_vars, NEW q \in Runs
  PROVE  rstatus'[q] # "cancelled"
<1>0. rstatus \in [Runs -> Statuses] /\ rstatus[q] # "cancelled"
  BY DEF OrderlyInv, TypeOK, RunType, Stopped
<1>1. CASE RunStep(q)
  <2>1. CASE RiskCheck(q) \/ ParseFails(q) \/ Work(q) \/ Complete(q)
    BY <1>0, <2>1 DEF RiskCheck, ParseFails, Work, Complete, Returned
  <2>2. CASE NeverRuns(q) \/ Finally(q)
    BY <1>0, <2>2 DEF NeverRuns, Finally, End
  <2>3. CASE ~RiskCheck(q) /\ ~ParseFails(q) /\ ~Work(q) /\ ~Complete(q) /\ ~NeverRuns(q) /\ ~Finally(q)
    BY <1>0, <1>1, <2>3 DEF RunStep, StartRun, LoadCheckpoint, WaitAtGate, PassGate, Summarize, SummarizeFails,
       NodeRaises, HandleException, CompleteRaises, HandleCancel
  <2> QED BY <2>1, <2>2, <2>3
<1>2. CASE Restart
  BY <1>2 DEF Restart
<1>3. CASE Stays(q) \/ Scheduled(q) \/ StaysFree(q)
  BY <1>0, <1>3 DEF Stays, Scheduled, StaysFree
<1> QED BY <1>1, <1>2, <1>3, BusyRunStep, FreeRunStep

StoppedInv == OrderlyInv /\ Stopped

LEMMA StoppedInit == Init => StoppedInv
<1> SUFFICES ASSUME Init PROVE Stopped
  BY OrderlyInit DEF StoppedInv
<1> QED BY Constants, RunnerAssumption DEF Init, Stopped, Statuses, Terminal

LEMMA StoppedStep == ClientWaits /\ ~WatchdogStarted /\ StoppedInv /\ [Next]_vars => StoppedInv'
<1> SUFFICES ASSUME ClientWaits, ~WatchdogStarted, StoppedInv, [Next]_vars PROVE StoppedInv'
  OBVIOUS
<1>1. OrderlyInv /\ Stopped
  BY DEF StoppedInv
<1>2. Stopped'
  BY <1>1, WatchdogIdle, CancelReaches, CancelledRequests, CancelledRuns, NeverCancelledByGraph DEF Stopped
<1> QED BY <1>1, <1>2, OrderlyStep DEF StoppedInv

\* If clients wait and the watchdog has not been started, a task whose row says
\* cancelled is not being run: every run it still has has been told to stop, and
\* none is started later, whatever raises and whenever the process restarts.
THEOREM RunnerCancelStops == ClientWaits /\ ~WatchdogStarted /\ Spec => []CancelStops
<1>1. StoppedInv => CancelStops
  BY DEF StoppedInv, Stopped, CancelStops, RunsOf
<1>2. (ClientWaits => ClientWaits') /\ (~WatchdogStarted => ~WatchdogStarted')
  OBVIOUS
<1> QED BY <1>1, <1>2, StoppedInit, StoppedStep, PTL DEF Spec

-----------------------------------------------------------------------------
(* The life cycle that clients see, without the watchdog and without failing *)
(* summaries (a task whose summary fails goes from completed to failed).     *)

\* Where a run that has not been cancelled is, the row of its task says so.
RunAgrees(r) == ~rcancel[r] =>
  /\ rpc[r] = "created" => status[rtask[r]] = "queued"
  /\ rpc[r] \in {"load", "risk", "work", "complete", "except"} => status[rtask[r]] = "running"
  /\ rpc[r] \in Between /\ rnext[r] # "summarize" => status[rtask[r]] = "running"
  /\ rpc[r] = "complete" \/ (rpc[r] \in Between /\ rnext[r] = "complete")
       => rstatus[r] \in {"waiting_approval", "blocked", "completed", "failed"}

\* What a request in progress does next, the row of its task allows.
RequestAgrees(h) ==
  /\ hpc[h] \in {"submitted", "requeued", "unblocked"} => status[htask[h]] = "queued"
  /\ hpc[h] \in {"approved", "rejected"} => status[htask[h]] = "waiting_approval"
  /\ hpc[h] \in {"resume", "fallback"} => status[htask[h]] = "blocked"
  /\ hpc[h] = "cancelling" => status[htask[h]] \notin Terminal \cup {NULL}

Agrees == (\A r \in Runs : RunAgrees(r)) /\ \A h \in Handlers : RequestAgrees(h)

LEMMA RunAgreesStep ==
  ASSUME ClientWaits, ~WatchdogStarted, ~LateFaults, OrderlyInv, Stopped, Agrees, [Next]_vars, NEW q \in Runs
  PROVE  RunAgrees(q)'
<1> USE DEF RunAgrees, Between
<1>0. /\ rpc \in [Runs -> RunLabels] /\ rtask \in [Runs -> Tasks \cup {NULL}]
      /\ rnext \in [Runs -> {"free", "work", "complete", "summarize"}]
      /\ rstatus \in [Runs -> Statuses] /\ rcancel \in [Runs -> BOOLEAN]
      /\ status \in [Tasks -> Statuses \cup {NULL}]
      /\ rpc[q] \in {"gate", "paused", "woken", "orphaned"} => rnext[q] # "free"
      /\ RunAgrees(q)
  BY Places DEF OrderlyInv, TypeOK, RunType, HasNext, Agrees
<1>1. CASE RunStep(q)
  <2>0. rtask[q] \in Tasks /\ rpc[q] # "free"
    BY <1>0, <1>1, RunEffect, Places DEF OrderlyInv
  <2>1. CASE StartRun(q) \/ HandleException(q)
    BY <1>0, <2>0, <2>1 DEF StartRun, HandleException, At
  <2>2. CASE RiskCheck(q) \/ ParseFails(q)
    BY <1>0, <2>0, <2>2 DEF RiskCheck, ParseFails, Returned, At, db
  <2>3. CASE Work(q)
    BY <1>0, <2>0, <2>3 DEF Work, Returned, At, db
  <2>4. CASE Complete(q)
    BY <1>0, <2>0, <2>4 DEF Complete, Returned, At
  <2>5. CASE LoadCheckpoint(q) \/ NodeRaises(q) \/ Summarize(q) \/ HandleCancel(q)
    BY <1>0, <2>0, <2>5 DEF LoadCheckpoint, NodeRaises, Summarize, HandleCancel, At, db
  <2>6. CASE WaitAtGate(q) \/ PassGate(q)
    BY <1>0, <2>0, <2>6 DEF WaitAtGate, PassGate, At, db
  <2>7. CASE NeverRuns(q) \/ Finally(q)
    BY <1>0, <2>0, <2>7 DEF NeverRuns, Finally, End
  <2> QED BY <1>1, <2>1, <2>2, <2>3, <2>4, <2>5, <2>6, <2>7 DEF RunStep, SummarizeFails, CompleteRaises
<1>2. CASE Restart
  BY <1>2 DEF Restart
<1>3. CASE rtask[q] # NULL /\ Stays(q)
  <2>1. CASE status'[rtask[q]] = status[rtask[q]]
    BY <1>0, <1>3, <2>1 DEF Stays
  <2>2. CASE \E h \in Procs : hpc[h] = "cancelling" /\ htask[h] = rtask[q]
    <3>1. rcancel[q]
      BY <2>2 DEF Stopped, Procs
    <3> QED BY <1>3, <3>1 DEF Stays
  <2> QED BY <1>3, <2>1, <2>2 DEF Stays
<1>4. CASE Scheduled(q)
  BY <1>4 DEF Scheduled, Agrees, RequestAgrees, db
<1>5. CASE StaysFree(q)
  BY <1>5 DEF StaysFree
<1> QED BY <1>1, <1>2, <1>3, <1>4, <1>5, BusyRunStep, FreeRunStep

\* A request in progress is alone with the row of its task.
LEMMA RowStays ==
  ASSUME ~WatchdogStarted, ClientWaits, OrderlyInv, Stopped, [Next]_vars,
         NEW h \in Handlers, htask[h] # NULL, ~HandlerStep(h)
  PROVE  status'[htask[h]] = status[htask[h]]
<1>0. /\ htask[h] \in Tasks /\ status \in [Tasks -> Statuses \cup {NULL}] /\ h \in Procs
      /\ htask \in [Procs -> Tasks \cup {NULL}] /\ NULL \notin Tasks
      /\ status[htask[h]] # NULL
      /\ \A k \in Handlers : htask[k] = htask[h] => k = h
      /\ \A r \in Runs : rtask[r] = htask[h] => rcancel[r]
  BY Places DEF OrderlyInv, OneAtATime, Stopped
<1>1. ASSUME NEW r \in Runs, RunStep(r) PROVE status'[htask[h]] = status[htask[h]]
  <2>0. rtask[r] \in Tasks
    BY <1>1, RunEffect, Places DEF OrderlyInv
  <2>1. CASE StartRun(r) \/ Complete(r) \/ HandleException(r) \/ CompleteRaises(r)
    BY <1>0, <2>0, <2>1 DEF StartRun, Complete, HandleException, CompleteRaises, At
  <2>2. CASE ~StartRun(r) /\ ~Complete(r) /\ ~HandleException(r) /\ ~CompleteRaises(r)
    BY <1>1, <2>2 DEF RunStep, LoadCheckpoint, RiskCheck, ParseFails, Work, WaitAtGate, PassGate,
       Summarize, SummarizeFails, NodeRaises, HandleCancel, NeverRuns, Finally, db
  <2> QED BY <2>1, <2>2
<1>2. ASSUME NEW k \in Procs, HandlerStep(k) PROVE status'[htask[h]] = status[htask[h]]
  <2>1. k \in Handlers /\ htask[k] # htask[h]
    BY <1>0, <1>2, HandlerEffect DEF OrderlyInv, Stopped, Procs
  <2> QED BY <1>0, <1>2, <2>1, HandlerEffect DEF OrderlyInv
<1>3. ASSUME NEW k \in Handlers, NEW t \in Tasks, Request(k, t) PROVE status'[htask[h]] = status[htask[h]]
  <2>1. CASE CancelRun(k, t) /\ UNCHANGED status
    BY <2>1
  <2>2. CASE NewRequest(k, t)
    BY <1>0, <2>2 DEF NewRequest
  <2> QED BY <1>3, <2>1, <2>2, RequestEffect DEF OrderlyInv
<1>4. CASE \E t \in Tasks : Pause(t) \/ Resume(t) \/ Elapse(t)
  BY <1>4, OtherEffect
<1>5. CASE Watch \/ Restart \/ UNCHANGED vars
  BY <1>5 DEF Watch, CancelRun, Restart, vars, db
<1> QED BY <1>1, <1>2, <1>3, <1>4, <1>5 DEF Next

LEMMA RequestAgreesStep ==
  ASSUME ClientWaits, ~WatchdogStarted, OrderlyInv, Stopped, Agrees, [Next]_vars, NEW h \in Handlers
  PROVE  RequestAgrees(h)'
<1> USE DEF RequestAgrees
<1>0. /\ NULL \notin Tasks /\ status \in [Tasks -> Statuses \cup {NULL}]
      /\ htask \in [Procs -> Tasks \cup {NULL}] /\ h \in Procs
      /\ hpc \in [Procs -> {"idle", "submitted", "approved", "rejected", "requeued",
                            "resume", "fallback", "unblocked", "cancelling"}]
      /\ hpc[h] # "idle" <=> htask[h] \in Tasks
      /\ RequestAgrees(h)
  BY Places DEF OrderlyInv, TypeOK, RequestType, Agrees
<1>1. CASE HandlerStep(h)
  <2>0. htask[h] \in Tasks
    BY <1>0, <1>1, HandlerEffect DEF OrderlyInv
  <2>1. CASE Answer(h)
    BY <1>0, <2>1 DEF Answer
  <2>2. CASE ApplyDecision(h) \/ Requeue(h)
    BY <1>0, <2>0, <2>1, <2>2 DEF ApplyDecision, Requeue, Goto
  <2>3. CASE CheckCaptcha(h)
    BY <1>0, <2>0, <2>1, <2>3 DEF CheckCaptcha, Goto, db
  <2> QED BY <1>1, <2>1, <2>2, <2>3 DEF HandlerStep, ScheduleSubmitted, ScheduleApproved, ScheduleUnblocked,
        MarkCancelled
<1>2. ASSUME NEW t \in Tasks, Request(h, t) PROVE RequestAgrees(h)'
  <2>1. CASE Cancel(h, t)
    BY <1>0, <2>1 DEF Cancel, CancelRun, Begin, db
  <2>2. CASE Submit(h, t)
    BY <1>0, <2>2 DEF Submit, Begin
  <2>3. CASE \E d \in {"approved", "rejected"} : Respond(h, t, d)
    BY <1>0, <2>3 DEF Respond, Begin
  <2>4. CASE \E how \in {"resume", "fallback"} : ResumeBlocked(h, t, how)
    BY <1>0, <2>4 DEF ResumeBlocked, Begin, db
  <2> QED BY <1>2, <2>1, <2>2, <2>3, <2>4 DEF Request
<1>3. CASE Restart
  BY <1>0, <1>3 DEF Restart
<1>4. CASE hpc'[h] = hpc[h] /\ htask'[h] = htask[h] /\ ~HandlerStep(h)
  <2>1. CASE hpc[h] = "idle"
    BY <1>4, <2>1
  <2>2. CASE hpc[h] # "idle"
    <3>1. status'[htask[h]] = status[htask[h]]
      BY <1>0, <1>4, <2>2, RowStays
    <3> QED BY <1>0, <1>4, <3>1
  <2> QED BY <2>1, <2>2
<1> QED BY <1>1, <1>2, <1>3, <1>4, HandlerStays

AgreesInv == StoppedInv /\ Agrees

LEMMA AgreesStep == ClientWaits /\ ~WatchdogStarted /\ ~LateFaults /\ AgreesInv /\ [Next]_vars => AgreesInv'
<1> SUFFICES ASSUME ClientWaits, ~WatchdogStarted, ~LateFaults, AgreesInv, [Next]_vars PROVE AgreesInv'
  OBVIOUS
<1>1. StoppedInv /\ OrderlyInv /\ Stopped /\ Agrees
  BY DEF AgreesInv, StoppedInv
<1>2. Agrees'
  BY <1>1, RunAgreesStep, RequestAgreesStep DEF Agrees
<1> QED BY <1>1, <1>2, StoppedStep DEF AgreesInv

\* What a row is changed to, from where.
LEMMA Moves ==
  ASSUME status \in [Tasks -> Statuses \cup {NULL}], NEW t \in Tasks, NEW to, status' = [status EXCEPT ![t] = to],
         \/ status[t] = NULL /\ to = "queued"
         \/ status[t] = "queued" /\ to = "running"
         \/ status[t] = "running" /\ to \in {"waiting_approval", "blocked", "completed", "failed"}
         \/ status[t] = "waiting_approval" /\ to \in {"queued", "failed"}
         \/ status[t] = "blocked" /\ to = "queued"
         \/ status[t] \in {"waiting_approval", "blocked", "queued", "running"} /\ to = "cancelled"
  PROVE  Lifecycle!Next
BY DEF Lifecycle!Next, Lifecycle!Submit, Lifecycle!Start, Lifecycle!Stop, Lifecycle!Approve, Lifecycle!Reject,
   Lifecycle!Unblock, Lifecycle!Cancel, Lifecycle!Move, Lifecycle!Resting

LEMMA LifecycleStep ==
  ASSUME ClientWaits, ~WatchdogStarted, ~LateFaults, AgreesInv, [Next]_vars
  PROVE  Lifecycle!Next \/ status' = status
<1>0. /\ status \in [Tasks -> Statuses \cup {NULL}] /\ OrderlyInv /\ TypeOK /\ Stopped
      /\ \A r \in Runs : RunAgrees(r)
      /\ \A h \in Handlers : RequestAgrees(h)
  BY Places DEF AgreesInv, StoppedInv, OrderlyInv, Agrees
<1>1. ASSUME NEW r \in Runs, RunStep(r) PROVE Lifecycle!Next \/ status' = status
  <2>0. rtask[r] \in Tasks /\ RunAgrees(r)
    BY <1>0, <1>1, RunEffect, Places
  <2>1. CASE StartRun(r)
    <3>1. status[rtask[r]] = "queued" /\ status' = [status EXCEPT ![rtask[r]] = "running"]
      BY <2>0, <2>1 DEF StartRun, At, RunAgrees
    <3> QED BY <1>0, <2>0, <3>1, Moves
  <2>2. CASE Complete(r)
    <3>1. /\ status[rtask[r]] = "running" /\ status' = [status EXCEPT ![rtask[r]] = rstatus[r]]
          /\ rstatus[r] \in {"waiting_approval", "blocked", "completed", "failed"}
      BY <2>0, <2>2 DEF Complete, At, RunAgrees
    <3> QED BY <1>0, <2>0, <3>1, Moves
  <2>3. CASE HandleException(r)
    <3>1. status[rtask[r]] = "running" /\ status' = [status EXCEPT ![rtask[r]] = "failed"]
      BY <2>0, <2>3 DEF HandleException, At, RunAgrees
    <3> QED BY <1>0, <2>0, <3>1, Moves
  <2>4. CASE ~StartRun(r) /\ ~Complete(r) /\ ~HandleException(r)
    BY <1>1, <2>4 DEF RunStep, CompleteRaises, LoadCheckpoint, RiskCheck, ParseFails, Work, WaitAtGate, PassGate,
       Summarize, SummarizeFails, NodeRaises, HandleCancel, NeverRuns, Finally, db
  <2> QED BY <2>1, <2>2, <2>3, <2>4
<1>2. ASSUME NEW h \in Procs, HandlerStep(h) PROVE Lifecycle!Next \/ status' = status
  <2>0. htask[h] \in Tasks /\ h \in Handlers /\ RequestAgrees(h)
    BY <1>0, <1>2, HandlerEffect DEF Stopped, Procs
  <2>1. CASE ApplyDecision(h)
    <3>1. /\ status[htask[h]] = "waiting_approval"
          /\ \E to \in {"queued", "failed"} : status' = [status EXCEPT ![htask[h]] = to]
      BY <2>0, <2>1 DEF ApplyDecision, RequestAgrees
    <3> QED BY <1>0, <2>0, <3>1, Moves
  <2>2. CASE Requeue(h)
    <3>1. status[htask[h]] = "blocked" /\ status' = [status EXCEPT ![htask[h]] = "queued"]
      BY <2>0, <2>2 DEF Requeue, RequestAgrees
    <3> QED BY <1>0, <2>0, <3>1, Moves
  <2>3. CASE MarkCancelled(h)
    <3>1. status[htask[h]] \notin Terminal \cup {NULL} /\ status' = [status EXCEPT ![htask[h]] = "cancelled"]
      BY <2>0, <2>3 DEF MarkCancelled, RequestAgrees
    <3>2. status[htask[h]] \in {"waiting_approval", "blocked", "queued", "running"}
      BY <1>0, <2>0, <3>1 DEF Statuses
    <3> QED BY <1>0, <2>0, <3>1, <3>2, Moves
  <2>4. CASE ScheduleSubmitted(h) \/ ScheduleApproved(h) \/ ScheduleUnblocked(h) \/ CheckCaptcha(h)
    BY <2>4 DEF ScheduleSubmitted, ScheduleApproved, ScheduleUnblocked, CheckCaptcha, db
  <2> QED BY <1>2, <2>1, <2>2, <2>3, <2>4 DEF HandlerStep
<1>3. ASSUME NEW h \in Handlers, NEW t \in Tasks, Request(h, t) PROVE Lifecycle!Next \/ status' = status
  <2>1. CASE Submit(h, t)
    <3>1. status[t] = NULL /\ status' = [status EXCEPT ![t] = "queued"]
      BY <2>1 DEF Submit
    <3> QED BY <1>0, <3>1, Moves
  <2>2. CASE ~Submit(h, t)
    BY <1>3, <2>2 DEF Request, Cancel, CancelRun, Respond, ResumeBlocked, db
  <2> QED BY <2>1, <2>2
<1>4. CASE \E t \in Tasks : Pause(t) \/ Resume(t) \/ Elapse(t)
  BY <1>4, OtherEffect
<1>5. CASE Watch \/ Restart \/ UNCHANGED vars
  BY <1>5 DEF Watch, CancelRun, Restart, vars, db
<1> QED BY <1>1, <1>2, <1>3, <1>4, <1>5 DEF Next

\* If clients wait, without the watchdog and faults after the final row, the status of a
\* task moves as TaskLifecycle says, whatever nodes raise and whenever the
\* process restarts: what is over stays over, a run starts from queued only, and
\* only what a client has decided, resumed or fallen back from is queued again.
THEOREM RunnerImplementsLifecycle ==
  ClientWaits /\ ~WatchdogStarted /\ ~LateFaults /\ Spec => Lifecycle!Spec
<1>1. Init => AgreesInv /\ Lifecycle!Init
  <2> SUFFICES ASSUME Init PROVE Agrees /\ Lifecycle!Init
    BY StoppedInit DEF AgreesInv
  <2>1. /\ \A r \in Runs : rpc[r] = "free"
        /\ \A h \in Handlers : hpc[h] = "idle"
    BY Constants DEF Init
  <2> QED BY <2>1 DEF Init, Agrees, RunAgrees, RequestAgrees, Between, Lifecycle!Init
<1>2. ClientWaits /\ ~WatchdogStarted /\ ~LateFaults /\ AgreesInv /\ [Next]_vars => [Lifecycle!Next]_status
  BY LifecycleStep
<1>3. /\ ClientWaits => ClientWaits'
      /\ ~WatchdogStarted => ~WatchdogStarted'
      /\ ~LateFaults => ~LateFaults'
  OBVIOUS
<1> QED BY <1>1, <1>2, <1>3, AgreesStep, PTL DEF Spec, Lifecycle!Spec
=============================================================================
