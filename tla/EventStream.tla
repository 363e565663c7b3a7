----------------------------- MODULE EventStream -----------------------------
(***************************************************************************)
(* The way of an event from the program to a dashboard.                    *)
(*                                                                         *)
(* Pilot Core publishes events (backend/telemetry/broadcaster.py) to the   *)
(* queues of its subscribers (backend/api/observability.py).  The          *)
(* Observatory, another process, is one subscriber: it reads over a        *)
(* WebSocket, or over SSE when that fails, keeps a buffer and passes the   *)
(* events on to its dashboards (observatory/backend/event_stream.py,       *)
(* api.py), which collect them in a feed (observatory/frontend/App.tsx).   *)
(*                                                                         *)
(* An event is its number, the row id that Database.add_event gives it.  A *)
(* message that is on the wire when a connection is lost is modelled as    *)
(* one that was not sent yet: neither is ever received.                    *)
(***************************************************************************)
EXTENDS Integers, Sequences, SequencesExt

CONSTANTS
  Dashboards,   \* browser windows with the Observatory
  HistorySize,  \* _max_history and _max_buffer (500)
  ReplaySize,   \* events that a new connection gets first (50)
  QueueSize,    \* maxsize of a subscriber's queue (1000 and 500)
  WsFails,      \* TRUE: a WebSocket may be refused although Core is up
  MaxEvents,    \* bound: events
  MaxLosses,    \* bound: connections that are lost
  MaxRestarts,  \* bound: restarts of Core
  MaxSelects    \* bound: runs that a user opens from the list of runs

ASSUME StreamAssumption ==
  /\ {HistorySize, ReplaySize, QueueSize} \subseteq Nat \ {0}
  /\ {MaxEvents, MaxLosses, MaxRestarts, MaxSelects} \subseteq Nat
  /\ WsFails \in BOOLEAN

VARIABLES
  rows,       \* rows of task_events: events that are stored
  emitted,    \* the last row whose broadcast was made, or was lost with its process
  coreUp,     \* Core answers
  history,    \* ObservabilityBroadcaster._history
  link,       \* Core's side of the connection: "none", "ws" or "sse"
  synced,     \* the handler has read the history
  replay,     \* what it read and has still to send
  queue,      \* the subscriber's queue
  consumer,   \* where _consume_loop is
  backendConnected, streamConnected,   \* the flags of the status
  buffer,     \* EventStreamManager._buffer
  window,     \* for each dashboard its connection
  shown,      \* for each dashboard the events of the App
  request,    \* for each dashboard a GET /api/runs/{id} in progress
  received,   \* history: what came over the present connection
  overflow,   \* history: its queue has been full
  losses, restarts, selects            \* counters of the bounds

core == <<rows, emitted, coreUp, history>>
conn == <<link, synced, replay, queue, received, overflow>>
observatory == <<consumer, backendConnected, streamConnected, buffer>>
browser  == <<window, shown, request>>
counters == <<losses, restarts, selects>>
vars == <<core, conn, observatory, browser, counters>>

\* events[-n:] of a list.
Latest(s, n) == IF Len(s) > n THEN SubSeq(s, Len(s) - n + 1, Len(s)) ELSE s

\* Mutant: a full queue refuses the new event instead of losing the oldest.
OfferRefuses(q, e) == IF Len(q) < QueueSize THEN Append(q, e) ELSE q

\* Mutant: a new event overtakes those that wait.
OfferFirst(q, e) == IF Len(q) < QueueSize THEN <<e>> \o q ELSE Append(Tail(q), e)

\* put_nowait; a queue that is full first loses its oldest event.
Offer(q, e) == IF Len(q) < QueueSize THEN Append(q, e) ELSE Append(Tail(q), e)

\* Mutant: whatever arrives is added.
AddAlways(s, e) == Append(s, e)

\* An event whose event_id is there already is not added again.
AddOnce(s, e) == IF e \in ToSet(s) THEN s ELSE Append(s, e)

Closed == [open |-> FALSE, replay |-> <<>>, queue |-> <<>>]
NoRequest == [phase |-> "none", upTo |-> 0, events |-> <<>>]

Init ==
  /\ rows = 0 /\ emitted = 0 /\ coreUp = FALSE /\ history = <<>>
  /\ link = "none" /\ synced = FALSE /\ replay = <<>> /\ queue = <<>>
  /\ consumer = "check" /\ backendConnected = FALSE /\ streamConnected = FALSE
  /\ buffer = <<>>
  /\ window = [d \in Dashboards |-> Closed]
  /\ shown = [d \in Dashboards |-> <<>>]
  /\ request = [d \in Dashboards |-> NoRequest]
  /\ received = <<>> /\ overflow = FALSE
  /\ losses = 0 /\ restarts = 0 /\ selects = 0

-----------------------------------------------------------------------------
(* Pilot Core.                                                             *)

\* add_event inserts a row and commits it.
AddEvent ==
  /\ coreUp /\ rows < MaxEvents /\ rows' = rows + 1
  /\ UNCHANGED <<emitted, coreUp, history, conn, observatory, browser, counters>>

\* Then it reads the row again, and broadcasts it; broadcast() itself never awaits.  Several
\* add_events are served by the one thread of the database in the order of their rows.
Broadcast ==
  /\ coreUp /\ emitted < rows
  /\ emitted' = emitted + 1
  /\ history' = Latest(Append(history, emitted + 1), HistorySize)
  /\ queue' = IF link = "none" THEN queue ELSE Offer(queue, emitted + 1)
  /\ overflow' = (overflow \/ (link # "none" /\ Len(queue) >= QueueSize))
  /\ UNCHANGED <<rows, coreUp, link, synced, replay, received, observatory, browser, counters>>

\* Mutant: the history is read before the queue is there, with an await between.
SubscribeLate(kind) ==
  /\ link' = kind /\ queue' = <<>> /\ received' = <<>> /\ overflow' = FALSE
  /\ synced' = TRUE
  /\ replay' = IF Len(history) > 1 THEN Front(history) ELSE <<>>

\* A new connection: the WebSocket handler subscribes and reads the history in
\* one stretch; the SSE handler subscribes, and the generator that reads the
\* history starts only when the response is being sent.
Subscribe(kind) ==
  /\ link' = kind /\ queue' = <<>> /\ received' = <<>> /\ overflow' = FALSE
  /\ synced' = (kind = "ws")
  /\ replay' = IF kind = "ws" THEN Latest(history, ReplaySize) ELSE <<>>

\* event_generator begins.
StartSse ==
  /\ link = "sse" /\ ~synced
  /\ synced' = TRUE /\ replay' = Latest(history, ReplaySize)
  /\ UNCHANGED <<core, link, queue, received, overflow, observatory, browser, counters>>

\* The connection ends and its queue is unsubscribed.
Unsubscribe ==
  /\ link' = "none" /\ synced' = FALSE /\ replay' = <<>> /\ queue' = <<>>
  /\ UNCHANGED <<received, overflow>>

Disconnect ==
  /\ link # "none" /\ losses < MaxLosses /\ losses' = losses + 1
  /\ Unsubscribe
  /\ UNCHANGED <<core, observatory, browser, restarts, selects>>

\* What was stored and not yet broadcast never is.
CoreStops ==
  /\ coreUp /\ restarts < MaxRestarts /\ restarts' = restarts + 1
  /\ coreUp' = FALSE /\ history' = <<>> /\ emitted' = rows /\ Unsubscribe
  /\ UNCHANGED <<rows, observatory, browser, losses, selects>>

CoreStarts ==
  /\ ~coreUp /\ coreUp' = TRUE
  /\ UNCHANGED <<rows, emitted, history, conn, observatory, browser, counters>>

-----------------------------------------------------------------------------
(* The Observatory's consumer.                                             *)

\* GET /api/health.
CheckHealth ==
  /\ consumer = "check" /\ consumer' = "ws" /\ backendConnected' = coreUp
  /\ UNCHANGED <<core, conn, streamConnected, buffer, browser, counters>>

Connect(kind) ==
  /\ consumer = kind /\ coreUp /\ Subscribe(kind)
  /\ consumer' = IF kind = "ws" THEN "readWs" ELSE "readSse"
  /\ backendConnected' = TRUE /\ streamConnected' = TRUE
  /\ UNCHANGED <<core, buffer, browser, counters>>

\* A refused WebSocket leads to SSE, a refused SSE to a pause.
ConnectFails(kind) ==
  /\ consumer = kind /\ (coreUp => kind = "ws" /\ WsFails)
  /\ streamConnected' = FALSE
  /\ consumer' = IF kind = "ws" THEN "sse" ELSE "sleep"
  /\ UNCHANGED <<core, conn, backendConnected, buffer, browser, counters>>

\* _handle_incoming_event: flags, buffer, and the queues of the dashboards.
HandleIncoming(e) ==
  /\ backendConnected' = TRUE /\ streamConnected' = TRUE
  /\ buffer' = Latest(Append(buffer, e), HistorySize)
  /\ window' = [d \in Dashboards |->
       IF window[d].open THEN [window[d] EXCEPT !.queue = Offer(@, e)] ELSE window[d]]

\* The next message of the connection: first what is replayed, then the queue.
Receive ==
  /\ consumer \in {"readWs", "readSse"} /\ link # "none" /\ synced
  /\ \/ /\ replay # <<>> /\ HandleIncoming(Head(replay))
        /\ received' = Append(received, Head(replay))
        /\ replay' = Tail(replay) /\ UNCHANGED queue
     \/ /\ replay = <<>> /\ queue # <<>> /\ HandleIncoming(Head(queue))
        /\ received' = Append(received, Head(queue))
        /\ queue' = Tail(queue) /\ UNCHANGED replay
  /\ UNCHANGED <<core, link, synced, overflow, consumer, shown, request, counters>>

\* The stream is over: the loop ends normally and leaves the flags, or raises,
\* and then a WebSocket is followed by SSE.
EndOfStream ==
  /\ consumer \in {"readWs", "readSse"} /\ link = "none"
  /\ \/ consumer' = "sleep" /\ UNCHANGED streamConnected
     \/ /\ consumer' = IF consumer = "readWs" THEN "sse" ELSE "sleep"
        /\ streamConnected' = FALSE
  /\ UNCHANGED <<core, conn, backendConnected, buffer, browser, counters>>

\* Mutant: the loop is left with the connection.
WakeNever == FALSE /\ UNCHANGED vars

Wake ==
  /\ consumer = "sleep" /\ consumer' = "check"
  /\ UNCHANGED <<core, conn, backendConnected, streamConnected, buffer, browser, counters>>

\* The Observatory is stopped and started: stop() cancels the consumer, the
\* buffer and all connections go with the process; the windows stay.
ObservatoryRestarts ==
  /\ losses < MaxLosses /\ losses' = losses + 1
  /\ Unsubscribe
  /\ consumer' = "check" /\ backendConnected' = FALSE /\ streamConnected' = FALSE
  /\ buffer' = <<>> /\ window' = [d \in Dashboards |-> Closed]
  /\ request' = [d \in Dashboards |-> NoRequest]
  /\ UNCHANGED <<core, shown, restarts, selects>>

-----------------------------------------------------------------------------
(* The dashboards.                                                         *)

\* handle_dashboard_websocket: subscribe and read the buffer in one stretch.
OpenWindow(d) ==
  /\ ~window[d].open
  /\ window' = [window EXCEPT ![d] =
       [open |-> TRUE, replay |-> Latest(buffer, ReplaySize), queue |-> <<>>]]
  /\ UNCHANGED <<core, conn, observatory, shown, request, counters>>

\* The next message is sent and the App adds it to its events.
Show(d) ==
  LET w == window[d]
      Add(e) == shown' = [shown EXCEPT ![d] = AddOnce(@, e)]
  IN
  /\ w.open
  /\ \/ /\ w.replay # <<>> /\ Add(Head(w.replay))
        /\ window' = [window EXCEPT ![d].replay = Tail(@)]
     \/ /\ w.replay = <<>> /\ w.queue # <<>> /\ Add(Head(w.queue))
        /\ window' = [window EXCEPT ![d].queue = Tail(@)]
  /\ UNCHANGED <<core, conn, observatory, request, counters>>

LoseWindow(d) ==
  /\ window[d].open /\ losses < MaxLosses /\ losses' = losses + 1
  /\ window' = [window EXCEPT ![d] = Closed]
  /\ UNCHANGED <<core, conn, observatory, shown, request, restarts, selects>>

\* get_run_details reads the rows of the run, or none when that fails, ...
SelectRun(d) ==
  /\ request[d].phase = "none" /\ selects < MaxSelects /\ selects' = selects + 1
  /\ \E upTo \in {0, rows} :
       request' = [request EXCEPT ![d] = [phase |-> "rows", upTo |-> upTo, events |-> <<>>]]
  /\ UNCHANGED <<core, conn, observatory, window, shown, losses, restarts>>

\* Mutant: the buffer alone is the answer.
RunDetailsBuffered(upTo) == buffer

\* ... then adds, one after the other, what the buffer has (its last 100 events,
\* twice what a window gets) and the rows had not, ...
RunDetails(upTo) ==
  LET late == Latest(buffer, 2 * ReplaySize)
      add[n \in 0..Len(late)] ==
        IF n = 0 THEN [i \in 1..upTo |-> i] ELSE AddOnce(add[n - 1], late[n])
  IN  add[Len(late)]

MergeBuffered(d) ==
  /\ request[d].phase = "rows"
  /\ request' = [request EXCEPT ![d].phase = "answer", ![d].events = RunDetails(request[d].upTo)]
  /\ UNCHANGED <<core, conn, observatory, window, shown, counters>>

\* ... and the App replaces its events by the answer.
ShowRun(d) ==
  /\ request[d].phase = "answer"
  /\ shown' = [shown EXCEPT ![d] = request[d].events]
  /\ request' = [request EXCEPT ![d] = NoRequest]
  /\ UNCHANGED <<core, conn, observatory, window, counters>>

-----------------------------------------------------------------------------
ConsumerStep ==
  \/ CheckHealth \/ EndOfStream \/ Wake
  \/ \E kind \in {"ws", "sse"} : Connect(kind) \/ ConnectFails(kind)

WindowStep(d) ==
  OpenWindow(d) \/ Show(d) \/ MergeBuffered(d) \/ ShowRun(d)

Next ==
  \/ AddEvent \/ Broadcast \/ StartSse \/ Disconnect \/ CoreStops \/ CoreStarts
  \/ ConsumerStep \/ Receive \/ ObservatoryRestarts
  \/ \E d \in Dashboards : WindowStep(d) \/ LoseWindow(d) \/ SelectRun(d)

Spec == Init /\ [][Next]_vars

\* add_event, handlers, the consumer and the App always go on; nobody has to add an
\* event, and what fails need not.
FairSpec ==
  /\ Spec
  /\ WF_vars(CoreStarts) /\ WF_vars(Broadcast) /\ WF_vars(StartSse)
  /\ WF_vars(ConsumerStep) /\ WF_vars(Receive)
  /\ \A d \in Dashboards : WF_vars(WindowStep(d))

-----------------------------------------------------------------------------
(* Properties.                                                             *)

Events == 1..MaxEvents

TypeOK ==
  /\ rows \in Nat /\ emitted \in 0..rows /\ coreUp \in BOOLEAN /\ history \in Seq(Nat)
  /\ link \in {"none", "ws", "sse"} /\ synced \in BOOLEAN /\ overflow \in BOOLEAN
  /\ replay \in Seq(Nat) /\ queue \in Seq(Nat) /\ received \in Seq(Nat)
  /\ Len(history) <= HistorySize /\ Len(replay) <= ReplaySize /\ Len(queue) <= QueueSize
  /\ consumer \in {"check", "ws", "sse", "sleep", "readWs", "readSse"}
  /\ backendConnected \in BOOLEAN /\ streamConnected \in BOOLEAN
  /\ buffer \in Seq(Nat) /\ Len(buffer) <= HistorySize
  /\ window \in [Dashboards -> [open : BOOLEAN, replay : Seq(Nat), queue : Seq(Nat)]]
  /\ \A d \in Dashboards : /\ Len(window[d].replay) <= ReplaySize
                           /\ Len(window[d].queue) <= QueueSize
  /\ shown \in [Dashboards -> Seq(Nat)]
  /\ request \in [Dashboards -> [phase : {"none", "rows", "answer"}, upTo : Nat, events : Seq(Nat)]]
  /\ {losses, restarts, selects} \subseteq Nat

Ascending(s) == \A i, j \in DOMAIN s : i < j => s[i] < s[j]

\* What comes over one WebSocket comes in the order in which it was published
\* and only once, although it is partly replayed and partly live, and although
\* a slow reader loses events (broadcaster.py:102, observability.py:70-75).
WebSocketInOrder == link = "ws" => Ascending(received)

\* The same of every connection; SSE reads the history later than it subscribes.
EveryConnectionInOrder == link # "none" => Ascending(received)

\* A connection that has kept up has every event from the first one that was
\* replayed to it up to the newest: replay and live events fit together.
NoGap ==
  LET all == received \o replay \o queue
  IN  link = "ws" /\ ~overflow => \A i \in DOMAIN all : all[i] = emitted - Len(all) + i

\* No event is twice in the feed of a dashboard, whatever is replayed.
ShownOnce == \A d \in Dashboards : IsInjective(shown[d])

\* The feed of a dashboard is chronological.
ShownChronologically == \A d \in Dashboards : Ascending(shown[d])

\* The answer about a run has all events that the database had when it was
\* asked, if it could be read, and every event once (api.py:34-46).
RunDetailsComplete ==
  \A d \in Dashboards : request[d].phase = "answer" =>
    /\ 1..request[d].upTo \subseteq ToSet(request[d].events)
    /\ IsInjective(request[d].events)

\* Neither what is replayed nor what is asked for is doubled or incomplete: rows, buffer and
\* live events overlap, and each event counts once.
EachEventOnce == ShownOnce /\ RunDetailsComplete

\* Whatever connections are lost, every dashboard gets to see the newest stored event, unless
\* Core ends, and with it its history, or the user opens a run: the answer replaces the
\* feed (App.tsx) and may be older than it.
NewestIsShown ==
  \A n \in Events :
    rows = n ~> \/ rows > n \/ restarts + selects > 0
                \/ \A d \in Dashboards : n \in ToSet(shown[d])

\* A status that says "connected" although nothing is connected does not last: the
\* consumer comes back and connects, or says that it could not (event_stream.py:152).
StatusSettles == (streamConnected /\ link = "none") ~> (link # "none" \/ ~streamConnected)

\* After losses and restarts the dashboards catch up, and so does the status.
CatchesUp == NewestIsShown /\ StatusSettles

\* event_stream_connected says whether the consumer is reading a stream.
StatusIsTrue == streamConnected => consumer \in {"readWs", "readSse"}

Feed == INSTANCE EventFeed WITH
  emitted <- rows,
  up      <- link = "ws",
  seen    <- IF link = "ws" THEN received ELSE <<>>

\* A WebSocket of Core is such a feed.
ImplementsFeed == Feed!Spec
=============================================================================
