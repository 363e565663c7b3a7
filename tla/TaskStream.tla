------------------------------ MODULE TaskStream ------------------------------
(***************************************************************************)
(* The events of one task on their way to the window of the user: the rows *)
(* of task_events (backend/db/database.py), the generator that polls them  *)
(* for one connection (api/tasks.py), the connection, and the EventSource  *)
(* of the browser, which opens a new connection whenever one ends, until   *)
(* the hook closes it (frontend/src/hooks/useTaskStream.ts).               *)
(*                                                                         *)
(* An event is "step" when the hook listens to its type, "quiet" when it   *)
(* does not, and "final" when it closes the source.                        *)
(***************************************************************************)
EXTENDS Naturals, Sequences, SequencesExt

CONSTANTS
  MaxProgress,  \* bound: events before the task ends
  MaxDrops,     \* bound: connections the network loses
  MaxSelects    \* bound: times the user opens the task again

StreamAssumption == {MaxProgress, MaxDrops, MaxSelects} \subseteq Nat

VARIABLES
  events,  \* types of the rows, by id
  row,     \* the task's status: "running" or "ended"
  todo,    \* what the code that ends the task has yet to write
  conn,    \* the generator: "off", "read", "send", "check" or "ended"
  last,    \* its last_id
  batch,   \* ids it read and has yet to send
  wire,    \* ids on the connection
  open,    \* whether the source is open
  shown,   \* ids in the window, in their order
  drops, selects

vars == <<events, row, todo, conn, last, batch, wire, open, shown, drops, selects>>
task == <<events, row, todo>>
server == <<conn, last, batch>>
client == <<open, shown>>

Listed(i) == events[i] # "quiet"

-----------------------------------------------------------------------------
(* The task.                                                               *)

\* What a run writes from its last node on: the row comes before the events.
RunEndings == {<<"row", "step", "final", "quiet">>,           \* completed
               <<"row", "step", "row", "final">>,             \* summarising it raises
               <<"row", "quiet", "final", "quiet">>,          \* completed on the desktop
               <<"row", "final">>, <<"row", "final", "final">>}  \* failed
\* cancel and the coroutine it cancels each write an event.
CancelEndings == {<<"row", "final", "final">>, <<"final", "row", "final">>, <<"row", "final">>}
RejectEnding == <<"step", "row">>

Init ==
  /\ events = <<"step">> /\ row = "running" /\ todo = <<>>
  /\ conn = "off" /\ last = 0 /\ batch = <<>> /\ wire = <<>>
  /\ open = TRUE /\ shown = <<>> /\ drops = 0 /\ selects = 0

AddEvent(type) == events' = Append(events, type)

Progress ==
  /\ row = "running" /\ todo = <<>> /\ Len(events) <= MaxProgress
  /\ \E type \in {"step", "quiet"} : AddEvent(type)
  /\ UNCHANGED <<row, todo, server, wire, client, drops, selects>>

Ends ==
  /\ row = "running" /\ todo = <<>>
  /\ todo' \in RunEndings \cup CancelEndings \cup {RejectEnding}
  /\ UNCHANGED <<events, row, server, wire, client, drops, selects>>

Write ==
  /\ todo # <<>> /\ todo' = Tail(todo)
  /\ \/ Head(todo) = "row" /\ row' = "ended" /\ UNCHANGED events
     \/ Head(todo) # "row" /\ AddEvent(Head(todo)) /\ UNCHANGED row
  /\ UNCHANGED <<server, wire, client, drops, selects>>

-----------------------------------------------------------------------------
(* The generator.                                                          *)

\* Mutant: a new connection goes on after the newest event.
FromNewest == Len(events)

\* last_id = 0: the Last-Event-ID of the browser is not read.
FirstAfter == 0

\* list_events, ORDER BY id ASC.
After(n) == [k \in 1 .. Len(events) - n |-> n + k]

Connect ==
  /\ open /\ conn = "off" /\ conn' = "read" /\ last' = FirstAfter /\ batch' = <<>>
  /\ UNCHANGED <<task, wire, client, drops, selects>>

Read ==
  /\ conn = "read" /\ batch' = After(last)
  /\ conn' = IF batch' = <<>> THEN "check" ELSE "send"
  /\ UNCHANGED <<task, last, wire, client, drops, selects>>

Send ==
  /\ conn = "send" /\ last' = Head(batch) /\ batch' = Tail(batch)
  /\ wire' = Append(wire, Head(batch))
  /\ conn' = IF batch' = <<>> THEN "check" ELSE "send"
  /\ UNCHANGED <<task, client, drops, selects>>

\* Mutant: the stream of an ended task stays open.
NeverEnds == FALSE

Terminal == row = "ended"

\* The row is read after the events; the sleep before the next poll is left out.
Check ==
  /\ conn = "check" /\ conn' = IF Terminal THEN "ended" ELSE "read"
  /\ UNCHANGED <<task, last, batch, wire, client, drops, selects>>

-----------------------------------------------------------------------------
(* The connection and the window.                                          *)

Hangup == conn' = "off" /\ last' = 0 /\ batch' = <<>> /\ wire' = <<>>

\* Mutant: an event is shown each time it arrives.
AppendAlways(i) == IF Listed(i) THEN Append(shown, i) ELSE shown

\* Listeners for the listed types; one that is there already is left out.
AppendEvent(i) == IF Listed(i) /\ ~Contains(shown, i) THEN Append(shown, i) ELSE shown

\* Mutant: any listed event closes the source.
AnyCloses(i) == Listed(i)

Closes(i) == events[i] = "final"

Deliver ==
  /\ open /\ wire # <<>> /\ shown' = AppendEvent(Head(wire))
  /\ \/ Closes(Head(wire)) /\ open' = FALSE /\ Hangup
     \/ ~Closes(Head(wire)) /\ wire' = Tail(wire) /\ UNCHANGED <<open, server>>
  /\ UNCHANGED <<task, drops, selects>>

\* The source has read the end of the stream and will connect again.
EndOfStream ==
  /\ conn = "ended" /\ wire = <<>> /\ Hangup
  /\ UNCHANGED <<task, client, drops, selects>>

Drop ==
  /\ conn # "off" /\ drops < MaxDrops /\ drops' = drops + 1 /\ Hangup
  /\ UNCHANGED <<task, client, selects>>

\* The effect of the hook runs for another task, then for this one again.
Select ==
  /\ selects < MaxSelects /\ selects' = selects + 1
  /\ open' = TRUE /\ shown' = <<>> /\ Hangup
  /\ UNCHANGED <<task, drops>>

-----------------------------------------------------------------------------
ServerStep == Read \/ Send \/ Check

Next == \/ Progress \/ Ends \/ Write
        \/ Connect \/ ServerStep
        \/ Deliver \/ EndOfStream \/ Drop \/ Select

Spec == Init /\ [][Next]_vars

\* The event loop runs the generator and what ends the task; a browser reads its
\* connection and opens the next one.
FairSpec == /\ Spec
            /\ WF_vars(Write) /\ WF_vars(ServerStep)
            /\ WF_vars(Connect) /\ WF_vars(Deliver) /\ WF_vars(EndOfStream)

-----------------------------------------------------------------------------
Ids == DOMAIN events

\* Every variable has its type; what is read, sent and shown exists.
TypeOK ==
  /\ events \in Seq({"step", "quiet", "final"}) /\ row \in {"running", "ended"}
  /\ todo \in Seq({"row", "step", "quiet", "final"})
  /\ conn \in {"off", "read", "send", "check", "ended"} /\ last \in 0 .. Len(events)
  /\ batch \in Seq(Ids) /\ wire \in Seq(Ids) /\ shown \in Seq(Ids) /\ open \in BOOLEAN
  /\ (conn = "send") = (batch # <<>>)
  /\ drops \in 0 .. MaxDrops /\ selects \in 0 .. MaxSelects

\* The window shows a beginning of the task's listed events: in the order in which they
\* were stored, each one once, none skipped, whatever connections were lost and however
\* often the history was sent again (useTaskStream.ts appendEvent, list_events).
ShownIsPrefix ==
  /\ \E n \in 0 .. Len(events) : ToSet(shown) = {i \in 1 .. n : Listed(i)}
  /\ \A i, j \in DOMAIN shown : i < j => shown[i] < shown[j]

\* The hook gives a task up only when that task is over or is being ended, never because
\* of an event a running task wrote (useTaskStream.ts closeAfterAppend).
ClosedMeansEnded == ~open => row = "ended" \/ Contains(todo, "row")

\* What a window shows, and that it is still listening, are true of the task at any time,
\* whatever connections are lost (useTaskStream.ts).
WindowIsTrue == ShownIsPrefix /\ ClosedMeansEnded

\* An event of a listed type is shown in the end, also one that was stored after the row
\* said that the task was over and one whose connection was lost; only events after one
\* that closes the source are not (stream_task, the reconnects of EventSource).
ListedIsShown ==
  \A i \in 1 .. MaxProgress + 4 :
    (i \in Ids /\ Listed(i) /\ \A j \in 1 .. i - 1 : ~Closes(j)) ~> Contains(shown, i)

\* No connection is served for ever once the task is over: the generator of stream_task
\* reads the row after every batch.
StreamsEnd == (row = "ended") ~> (conn \in {"off", "ended"})

\* api/tasks.py:166 "Stream task events with Server-Sent Events.": a stream that has ended
\* has sent every event that was there when it ended.
EndedStreamIsWhole == [][conn' = "ended" => last' = Len(events')]_vars
=============================================================================
