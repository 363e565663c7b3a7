----------------------------- MODULE TaskLifecycle -----------------------------
(***************************************************************************)
(* What a client may rely on when it watches the status of its tasks: the  *)
(* abstract specification that TaskRunner implements.                      *)
(***************************************************************************)
CONSTANTS Tasks, NULL

VARIABLE status

Terminal == {"completed", "failed", "cancelled"}
Resting  == {"waiting_approval", "blocked"}

Init == status = [t \in Tasks |-> NULL]

Move(t, from, to) ==
  /\ status[t] \in from
  /\ status' \in {[status EXCEPT ![t] = st] : st \in to}

Submit(t)  == Move(t, {NULL}, {"queued"})
Start(t)   == Move(t, {"queued"}, {"running"})
Stop(t)    == Move(t, {"running"}, Resting \cup {"completed", "failed"})
Approve(t) == Move(t, {"waiting_approval"}, {"queued"})
Reject(t)  == Move(t, {"waiting_approval"}, {"failed"})
Unblock(t) == Move(t, {"blocked"}, {"queued"})
Cancel(t)  == Move(t, Resting \cup {"queued", "running"}, {"cancelled"})

Next == \E t \in Tasks :
  \/ Submit(t) \/ Start(t) \/ Stop(t)
  \/ Approve(t) \/ Reject(t) \/ Unblock(t) \/ Cancel(t)

Spec == Init /\ [][Next]_status

FairSpec == Spec /\ \A t \in Tasks : WF_status(Start(t)) /\ WF_status(Stop(t))
=============================================================================
