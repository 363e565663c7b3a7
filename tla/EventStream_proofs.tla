-------------------------- MODULE EventStream_proofs --------------------------
(***************************************************************************)
(* What Core publishes, a WebSocket delivers in order, without a gap and   *)
(* as EventFeed says, and a dashboard shows each event once and the newest *)
(* when nothing is left to bring it: for every size of the history, the    *)
(* replay, the queues and the buffer, and any number of events, losses,    *)
(* restarts and dashboards.                                                *)
(***************************************************************************)
EXTENDS EventStream, SequenceTheorems, WellFoundedInduction, NaturalsInduction, TLAPS

Below(s, t) == \A a \in ToSet(s), b \in ToSet(t) : a < b
Published(s) == ToSet(s) \subseteq 1..emitted

Types ==
  /\ rows \in Nat /\ emitted \in Nat /\ emitted <= rows
  /\ history \in Seq(Nat) /\ replay \in Seq(Nat) /\ queue \in Seq(Nat) /\ received \in Seq(Nat)

\* The history, the replay and the queue are in order, whatever the connection is.
SourcesInOrder ==
  /\ Ascending(history) /\ Published(history)
  /\ Ascending(replay) /\ Published(replay)
  /\ Ascending(queue) /\ Published(queue)

\* The consumer reads while there is a connection: it never opens a second one.
OneConnection == link # "none" => consumer \in {"readWs", "readSse"}

\* What was received, what is still to be replayed and what waits in the queue follow on
\* one another, each in order, and end with the newest event at most.
InOrder ==
  link = "ws" =>
    /\ Ascending(received) /\ Published(received)
    /\ Below(received, replay) /\ Below(received, queue) /\ Below(replay, queue)

Inv == Types /\ SourcesInOrder /\ OneConnection /\ InOrder

-----------------------------------------------------------------------------
(* Lemmas about sequences. *)

LEMMA Appended ==
  ASSUME NEW s \in Seq(Nat), NEW e \in Nat, Ascending(s), \A a \in ToSet(s) : a < e
  PROVE  /\ Append(s, e) \in Seq(Nat) /\ Ascending(Append(s, e))
         /\ ToSet(Append(s, e)) = ToSet(s) \cup {e}
<1>1. Append(s, e) \in Seq(Nat) /\ Len(Append(s, e)) = Len(s) + 1
      /\ DOMAIN s = 1..Len(s) /\ DOMAIN Append(s, e) = 1..Len(s) + 1 /\ Len(s) \in Nat OBVIOUS
<1>2. \A i \in 1..Len(s) : Append(s, e)[i] = s[i] OBVIOUS
<1>3. Append(s, e)[Len(s) + 1] = e OBVIOUS
<1>4. ToSet(Append(s, e)) = ToSet(s) \cup {e}
  <2>1. ASSUME NEW a \in ToSet(Append(s, e)) PROVE a \in ToSet(s) \cup {e}
    <3>1. PICK i \in 1..Len(s) + 1 : a = Append(s, e)[i] BY <1>1 DEF ToSet
    <3>2. CASE i = Len(s) + 1 BY <1>3, <3>1, <3>2
    <3>3. CASE i \in 1..Len(s) BY <1>1, <1>2, <3>1, <3>3 DEF ToSet
    <3> QED BY <1>1, <3>1, <3>2, <3>3
  <2>2. ASSUME NEW a \in ToSet(s) PROVE a \in ToSet(Append(s, e))
    <3>1. PICK i \in 1..Len(s) : a = s[i] BY <1>1 DEF ToSet
    <3>2. i \in 1..Len(s) + 1 BY <1>1
    <3> QED BY <1>1, <1>2, <3>1, <3>2 DEF ToSet
  <2>3. e \in ToSet(Append(s, e))
    <3>1. Len(s) + 1 \in 1..Len(s) + 1 BY <1>1
    <3> QED BY <1>1, <1>3, <3>1 DEF ToSet
  <2> QED BY <2>1, <2>2, <2>3
<1>5. Ascending(Append(s, e))
  <2> SUFFICES ASSUME NEW i \in 1..Len(s) + 1, NEW j \in 1..Len(s) + 1, i < j
               PROVE  Append(s, e)[i] < Append(s, e)[j]
    BY <1>1 DEF Ascending
  <2>1. i \in 1..Len(s) BY <1>1
  <2>2. CASE j = Len(s) + 1 BY <1>1, <1>2, <1>3, <2>1, <2>2 DEF ToSet
  <2>3. CASE j \in 1..Len(s) BY <1>1, <1>2, <2>1, <2>3 DEF Ascending
  <2> QED BY <1>1, <2>2, <2>3
<1> QED BY <1>1, <1>4, <1>5

LEMMA HeadAndTail ==
  ASSUME NEW s \in Seq(Nat), s # <<>>, Ascending(s)
  PROVE  /\ Tail(s) \in Seq(Nat) /\ Ascending(Tail(s)) /\ ToSet(Tail(s)) \subseteq ToSet(s)
         /\ Head(s) \in Nat /\ Head(s) \in ToSet(s) /\ \A b \in ToSet(Tail(s)) : Head(s) < b
<1>1. Len(s) \in Nat /\ Len(s) >= 1 /\ DOMAIN s = 1..Len(s) /\ Head(s) = s[1] /\ s[1] \in Nat
      /\ Tail(s) \in Seq(Nat) /\ Len(Tail(s)) = Len(s) - 1 /\ DOMAIN Tail(s) = 1..Len(s) - 1
  OBVIOUS
<1>2. \A i \in 1..Len(s) - 1 : Tail(s)[i] = s[i + 1] /\ i + 1 \in 1..Len(s) BY <1>1
<1>3. Ascending(Tail(s)) BY <1>1, <1>2 DEF Ascending
<1>4. ToSet(Tail(s)) \subseteq ToSet(s) BY <1>1, <1>2 DEF ToSet
<1>5. \A b \in ToSet(Tail(s)) : Head(s) < b
  <2> SUFFICES ASSUME NEW i \in 1..Len(s) - 1 PROVE s[1] < Tail(s)[i] BY <1>1 DEF ToSet
  <2>1. 1 \in DOMAIN s /\ i + 1 \in DOMAIN s /\ 1 < i + 1 BY <1>1, <1>2
  <2> QED BY <1>2, <2>1 DEF Ascending
<1>6. 1 \in 1..Len(s) BY <1>1
<1> QED BY <1>1, <1>3, <1>4, <1>5, <1>6 DEF ToSet

LEMMA LatestInOrder ==
  ASSUME NEW s \in Seq(Nat), NEW n \in Nat, Ascending(s)
  PROVE  Latest(s, n) \in Seq(Nat) /\ Ascending(Latest(s, n)) /\ ToSet(Latest(s, n)) \subseteq ToSet(s)
<1>1. CASE ~(Len(s) > n) BY <1>1 DEF Latest
<1>2. CASE Len(s) > n
  <2> DEFINE m == Len(s) - n + 1
             r == SubSeq(s, m, Len(s))
  <2>1. Len(s) \in Nat /\ DOMAIN s = 1..Len(s) /\ m \in 1..Len(s) + 1 /\ r = Latest(s, n)
    BY <1>2 DEF Latest
  <2>2. r \in Seq(Nat) /\ DOMAIN r = 1..n /\ \A i \in 1..n : r[i] = s[m + i - 1] /\ m + i - 1 \in 1..Len(s)
    BY <1>2
  <2> HIDE DEF r
  <2>3. Ascending(r)
    <3> SUFFICES ASSUME NEW i \in 1..n, NEW j \in 1..n, i < j PROVE r[i] < r[j]
      BY <2>2 DEF Ascending
    <3>1. m + i - 1 < m + j - 1 BY <2>1
    <3> QED BY <2>1, <2>2, <3>1 DEF Ascending
  <2>4. ToSet(r) \subseteq ToSet(s) BY <2>1, <2>2 DEF ToSet
  <2> QED BY <2>1, <2>2, <2>3, <2>4
<1> QED BY <1>1, <1>2

LEMMA Offered ==
  ASSUME NEW q \in Seq(Nat), NEW e \in Nat, Ascending(q), \A a \in ToSet(q) : a < e
  PROVE  /\ Offer(q, e) \in Seq(Nat) /\ Ascending(Offer(q, e))
         /\ ToSet(Offer(q, e)) \subseteq ToSet(q) \cup {e}
<1>1. CASE Len(q) < QueueSize BY <1>1, Appended DEF Offer
<1>2. CASE ~(Len(q) < QueueSize)
  <2>1. q # <<>> BY <1>2, StreamAssumption
  <2>2. /\ Tail(q) \in Seq(Nat) /\ Ascending(Tail(q)) /\ ToSet(Tail(q)) \subseteq ToSet(q)
    BY <2>1, HeadAndTail
  <2>3. \A a \in ToSet(Tail(q)) : a < e BY <2>2
  <2>4. /\ Append(Tail(q), e) \in Seq(Nat) /\ Ascending(Append(Tail(q), e))
        /\ ToSet(Append(Tail(q), e)) = ToSet(Tail(q)) \cup {e}
    BY <2>2, <2>3, Appended
  <2> QED BY <1>2, <2>2, <2>4 DEF Offer
<1> QED BY <1>1, <1>2

LEMMA EmptyInOrder ==
  /\ <<>> \in Seq(Nat) /\ Ascending(<<>>) /\ ToSet(<<>>) = {}
BY DEF Ascending, ToSet

-----------------------------------------------------------------------------
(* The invariant. *)

LEMMA InitInv == Init => Inv
<1> SUFFICES ASSUME Init PROVE Inv OBVIOUS
<1> QED BY EmptyInOrder DEF Init, Inv, Types, SourcesInOrder, OneConnection, InOrder, Published

LEMMA BroadcastInv == ASSUME Inv, Broadcast PROVE Inv'
<1> DEFINE e == emitted + 1
<1>0. emitted \in Nat /\ e \in Nat /\ emitted' = e /\ rows' = rows /\ e <= rows /\ 1..emitted \subseteq 1..e /\ e \in 1..e
      /\ \A a \in 1..emitted : a < e
  BY DEF Inv, Types, Broadcast
<1>1. history' = Latest(Append(history, e), HistorySize)
      /\ queue' \in {queue, Offer(queue, e)}
      /\ UNCHANGED <<link, replay, received, consumer>>
  BY DEF Broadcast, observatory
<1>2. /\ history \in Seq(Nat) /\ queue \in Seq(Nat)
      /\ Ascending(history) /\ ToSet(history) \subseteq 1..emitted
      /\ Ascending(queue) /\ ToSet(queue) \subseteq 1..emitted
  BY DEF Inv, Types, SourcesInOrder, Published
<1> HIDE DEF e
<1>3. history' \in Seq(Nat) /\ Ascending(history') /\ ToSet(history') \subseteq 1..e
  <2>1. \A a \in ToSet(history) : a < e BY <1>0, <1>2
  <2>2. Append(history, e) \in Seq(Nat) /\ Ascending(Append(history, e))
        /\ ToSet(Append(history, e)) = ToSet(history) \cup {e}
    BY <1>0, <1>2, <2>1, Appended
  <2>3. HistorySize \in Nat BY StreamAssumption
  <2>4. Latest(Append(history, e), HistorySize) \in Seq(Nat)
        /\ Ascending(Latest(Append(history, e), HistorySize))
        /\ ToSet(Latest(Append(history, e), HistorySize)) \subseteq ToSet(history) \cup {e}
    BY <2>2, <2>3, LatestInOrder
  <2> QED BY <1>0, <1>1, <1>2, <2>4
<1>4. /\ queue' \in Seq(Nat) /\ Ascending(queue')
      /\ ToSet(queue') \subseteq ToSet(queue) \cup {e} /\ ToSet(queue') \subseteq 1..e
  <2>1. \A a \in ToSet(queue) : a < e BY <1>0, <1>2
  <2>2. Offer(queue, e) \in Seq(Nat) /\ Ascending(Offer(queue, e))
        /\ ToSet(Offer(queue, e)) \subseteq ToSet(queue) \cup {e}
    BY <1>0, <1>2, <2>1, Offered
  <2> QED BY <1>0, <1>1, <1>2, <2>2
<1>5. Types' BY <1>0, <1>1, <1>3, <1>4 DEF Inv, Types
<1>6. SourcesInOrder'
  BY <1>0, <1>1, <1>3, <1>4 DEF Inv, SourcesInOrder, Published, Ascending, ToSet
<1>7. OneConnection' BY <1>1 DEF Inv, OneConnection
<1>8. InOrder'
  <2> SUFFICES ASSUME link = "ws"
               PROVE  /\ Ascending(received) /\ ToSet(received) \subseteq 1..e
                      /\ Below(received, replay) /\ Below(received, queue') /\ Below(replay, queue')
    BY <1>0, <1>1 DEF InOrder, Below, Published, Ascending, ToSet
  <2>1. /\ Ascending(received)
        /\ Below(received, replay) /\ Below(received, queue) /\ Below(replay, queue)
        /\ ToSet(received) \subseteq 1..emitted /\ ToSet(replay) \subseteq 1..emitted
    BY DEF Inv, InOrder, SourcesInOrder, Published
  <2>2. Below(received, queue') /\ Below(replay, queue') BY <1>0, <1>4, <2>1 DEF Below
  <2> QED BY <1>0, <2>1, <2>2
<1> QED BY <1>5, <1>6, <1>7, <1>8 DEF Inv

\* A new connection begins with nothing received, an empty queue and a part of the history.
LEMMA ConnectInv == ASSUME Inv, NEW kind \in {"ws", "sse"}, Connect(kind) PROVE Inv'
<1>1. /\ link' = kind /\ queue' = <<>> /\ received' = <<>>
      /\ replay' = (IF kind = "ws" THEN Latest(history, ReplaySize) ELSE <<>>)
      /\ UNCHANGED <<rows, emitted, history>> /\ consumer' \in {"readWs", "readSse"}
  BY DEF Connect, Subscribe, core
<1>2. Latest(history, ReplaySize) \in Seq(Nat) /\ Ascending(Latest(history, ReplaySize))
      /\ ToSet(Latest(history, ReplaySize)) \subseteq ToSet(history)
  BY LatestInOrder, StreamAssumption DEF Inv, Types, SourcesInOrder
<1>3. Types' BY <1>1, <1>2, EmptyInOrder DEF Inv, Types
<1>4. SourcesInOrder'
  <2>1. Ascending(replay') /\ ToSet(replay') \subseteq ToSet(history)
    BY <1>1, <1>2, EmptyInOrder
  <2>2. ToSet(history) \subseteq 1..emitted BY DEF Inv, SourcesInOrder, Published
  <2> QED BY <1>1, <2>1, <2>2, EmptyInOrder DEF Inv, SourcesInOrder, Published, Ascending, ToSet
<1>5. OneConnection' BY <1>1 DEF OneConnection
<1>6. InOrder'
  <2> SUFFICES ASSUME kind = "ws" PROVE InOrder' BY <1>1 DEF InOrder
  <2>1. replay' = Latest(history, ReplaySize) BY <1>1
  <2>2. ToSet(history) \subseteq 1..emitted BY DEF Inv, SourcesInOrder, Published
  <2> QED BY <1>1, <1>2, <2>1, <2>2, EmptyInOrder DEF InOrder, Below, Published
<1> QED BY <1>3, <1>4, <1>5, <1>6 DEF Inv

\* The next message moves from the head of the replay or of the queue to what was received.
LEMMA ReceiveInv == ASSUME Inv, Receive PROVE Inv'
<1>1. UNCHANGED <<rows, emitted, history, link, consumer>> BY DEF Receive, core
<1>2. replay \in Seq(Nat) /\ queue \in Seq(Nat) /\ received \in Seq(Nat)
      /\ Ascending(replay) /\ ToSet(replay) \subseteq 1..emitted
      /\ Ascending(queue) /\ ToSet(queue) \subseteq 1..emitted
  BY DEF Inv, Types, SourcesInOrder, Published
\* e comes before everything that is left, and is one of the published events.
<1>3. \E e \in Nat :
        /\ received' = Append(received, e) /\ e \in 1..emitted
        /\ e \in ToSet(replay) \/ (replay = <<>> /\ e \in ToSet(queue))
        /\ replay' \in Seq(Nat) /\ Ascending(replay') /\ ToSet(replay') \subseteq ToSet(replay)
        /\ queue' \in Seq(Nat) /\ Ascending(queue') /\ ToSet(queue') \subseteq ToSet(queue)
        /\ \A b \in ToSet(replay') : e < b
        /\ e \notin ToSet(replay) => \A b \in ToSet(queue') : e < b
  <2>1. CASE replay # <<>> /\ received' = Append(received, Head(replay))
             /\ replay' = Tail(replay) /\ queue' = queue
    <3>1. /\ Tail(replay) \in Seq(Nat) /\ Ascending(Tail(replay))
          /\ ToSet(Tail(replay)) \subseteq ToSet(replay)
          /\ Head(replay) \in Nat /\ Head(replay) \in ToSet(replay)
          /\ \A b \in ToSet(Tail(replay)) : Head(replay) < b
      BY <1>2, <2>1, HeadAndTail
    <3> WITNESS Head(replay) \in Nat
    <3> QED BY <1>2, <2>1, <3>1
  <2>2. CASE replay = <<>> /\ queue # <<>> /\ received' = Append(received, Head(queue))
             /\ replay' = replay /\ queue' = Tail(queue)
    <3>1. /\ Tail(queue) \in Seq(Nat) /\ Ascending(Tail(queue))
          /\ ToSet(Tail(queue)) \subseteq ToSet(queue)
          /\ Head(queue) \in Nat /\ Head(queue) \in ToSet(queue)
          /\ \A b \in ToSet(Tail(queue)) : Head(queue) < b
      BY <1>2, <2>2, HeadAndTail
    <3> WITNESS Head(queue) \in Nat
    <3> QED BY <1>2, <2>2, <3>1, EmptyInOrder
  <2> QED BY <2>1, <2>2 DEF Receive
<1>4. PICK e \in Nat :
        /\ received' = Append(received, e) /\ e \in 1..emitted
        /\ e \in ToSet(replay) \/ (replay = <<>> /\ e \in ToSet(queue))
        /\ replay' \in Seq(Nat) /\ Ascending(replay') /\ ToSet(replay') \subseteq ToSet(replay)
        /\ queue' \in Seq(Nat) /\ Ascending(queue') /\ ToSet(queue') \subseteq ToSet(queue)
        /\ \A b \in ToSet(replay') : e < b
        /\ e \notin ToSet(replay) => \A b \in ToSet(queue') : e < b
  BY <1>3
<1>5. Types' BY <1>1, <1>2, <1>4 DEF Inv, Types
<1>6. SourcesInOrder'
  BY <1>1, <1>2, <1>4 DEF Inv, SourcesInOrder, Published, Ascending, ToSet
<1>7. OneConnection' BY <1>1 DEF Inv, OneConnection
<1>8. InOrder'
  <2> SUFFICES ASSUME link = "ws"
               PROVE  /\ Ascending(received') /\ ToSet(received') \subseteq 1..emitted
                      /\ Below(received', replay') /\ Below(received', queue')
                      /\ Below(replay', queue')
    BY <1>1 DEF InOrder, Below, Published, Ascending, ToSet
  <2>1. /\ Ascending(received) /\ ToSet(received) \subseteq 1..emitted
        /\ Below(received, replay) /\ Below(received, queue) /\ Below(replay, queue)
    BY DEF Inv, InOrder, Published
  <2>2. \A a \in ToSet(received) : a < e BY <1>4, <2>1 DEF Below
  <2>3. Ascending(received') /\ ToSet(received') = ToSet(received) \cup {e}
    BY <1>2, <1>4, <2>1, <2>2, Appended
  <2>4. Below(received', replay') BY <1>4, <2>1, <2>3 DEF Below
  <2>5. Below(received', queue') BY <1>4, <2>1, <2>3 DEF Below
  <2>6. Below(replay', queue') BY <1>4, <2>1 DEF Below
  <2> QED BY <1>4, <2>1, <2>3, <2>4, <2>5, <2>6
<1> QED BY <1>5, <1>6, <1>7, <1>8 DEF Inv

\* SSE reads the history later than it subscribes.
LEMMA StartSseInv == ASSUME Inv, StartSse PROVE Inv'
<1>1. /\ replay' = Latest(history, ReplaySize) /\ link = "sse"
      /\ UNCHANGED <<rows, emitted, history, link, queue, received, consumer>>
  BY DEF StartSse, core, observatory
<1>2. Latest(history, ReplaySize) \in Seq(Nat) /\ Ascending(Latest(history, ReplaySize))
      /\ ToSet(Latest(history, ReplaySize)) \subseteq ToSet(history)
  BY LatestInOrder, StreamAssumption DEF Inv, Types, SourcesInOrder
<1>3. Types' BY <1>1, <1>2 DEF Inv, Types
<1>4. SourcesInOrder'
  BY <1>1, <1>2 DEF Inv, SourcesInOrder, Published, Ascending, ToSet
<1>5. OneConnection' /\ InOrder' BY <1>1 DEF Inv, OneConnection, InOrder
<1> QED BY <1>3, <1>4, <1>5 DEF Inv

\* Core ends and forgets its history: what was stored and not broadcast never is.
Forgets == emitted' = rows /\ history' = <<>>

\* The connection is lost, with Core or without it.
LEMMA LossInv ==
  ASSUME Inv, Unsubscribe, rows' = rows, UNCHANGED <<emitted, history>> \/ Forgets PROVE Inv'
<1>1. /\ link' = "none" /\ replay' = <<>> /\ queue' = <<>> /\ received' = received
  BY DEF Unsubscribe
<1>2. Types'
  <2>1. rows \in Nat /\ emitted \in Nat /\ emitted <= rows /\ history \in Seq(Nat) /\ received \in Seq(Nat)
    BY DEF Inv, Types
  <2>2. emitted' \in Nat /\ emitted' <= rows /\ history' \in Seq(Nat)
    <3>1. CASE UNCHANGED <<emitted, history>> BY <2>1, <3>1
    <3>2. CASE Forgets BY <2>1, <3>2, EmptyInOrder DEF Forgets
    <3> QED BY <3>1, <3>2
  <2> QED BY <1>1, <2>1, <2>2, EmptyInOrder DEF Types
<1>3. SourcesInOrder'
  BY <1>1, EmptyInOrder DEF Forgets, Inv, SourcesInOrder, Published, Ascending, ToSet
<1>4. OneConnection' /\ InOrder' BY <1>1 DEF OneConnection, InOrder
<1> QED BY <1>2, <1>3, <1>4 DEF Inv

\* The consumer and the dashboards leave Core alone.
LEMMA ElsewhereInv ==
  ASSUME Inv, UNCHANGED <<emitted, history, conn>>, rows' \in {rows, rows + 1},
         link = "none" \/ consumer' = consumer
  PROVE  Inv'
<1>1. Types' BY DEF Inv, Types, conn
<1>2. SourcesInOrder' BY DEF Inv, SourcesInOrder, Published, Ascending, ToSet, conn
<1>3. OneConnection' BY DEF Inv, OneConnection, conn
<1>4. InOrder' BY DEF Inv, InOrder, Published, Ascending, Below, ToSet, conn
<1> QED BY <1>1, <1>2, <1>3, <1>4 DEF Inv

\* What a step does to Core's side of the connection.
LEMMA Cases ==
  ASSUME Inv, [Next]_vars
  PROVE  \/ Broadcast \/ StartSse \/ Receive
         \/ \E kind \in {"ws", "sse"} : Connect(kind)
         \/ Unsubscribe /\ rows' = rows /\ (UNCHANGED <<emitted, history>> \/ Forgets)
         \/ /\ UNCHANGED <<emitted, history, conn>> /\ rows' \in {rows, rows + 1}
            /\ link = "none" \/ consumer' = consumer
<1>1. CASE Disconnect \/ CoreStops \/ ObservatoryRestarts
  BY <1>1 DEF Disconnect, CoreStops, ObservatoryRestarts, core, Forgets
<1>2. CASE CoreStarts \/ AddEvent BY <1>2 DEF CoreStarts, AddEvent, observatory
<1>3. CASE CheckHealth \/ EndOfStream \/ Wake \/ \E kind \in {"ws", "sse"} : ConnectFails(kind)
  <2>1. link = "none"
    BY <1>3 DEF Inv, OneConnection, CheckHealth, EndOfStream, Wake, ConnectFails
  <2> QED BY <1>3, <2>1 DEF CheckHealth, EndOfStream, Wake, ConnectFails, core
<1>4. CASE \E d \in Dashboards : WindowStep(d) \/ LoseWindow(d) \/ SelectRun(d)
  <2>1. PICK d \in Dashboards : WindowStep(d) \/ LoseWindow(d) \/ SelectRun(d) BY <1>4
  <2>2. UNCHANGED <<core, conn, observatory>>
    BY <2>1 DEF WindowStep, LoseWindow, SelectRun, OpenWindow, Show, MergeBuffered, ShowRun
  <2> QED BY <2>2 DEF core, observatory
<1>5. CASE UNCHANGED vars BY <1>5 DEF vars, core, observatory
<1> QED BY <1>1, <1>2, <1>3, <1>4, <1>5 DEF Next, ConsumerStep

LEMMA NextInv == Inv /\ [Next]_vars => Inv'
BY Cases, BroadcastInv, StartSseInv, ReceiveInv, ConnectInv, LossInv, ElsewhereInv

LEMMA Invariance == Spec => []Inv
<1> QED BY InitInv, NextInv, PTL DEF Spec

-----------------------------------------------------------------------------
(* The theorems. *)

\* What a WebSocket of Core delivers comes in the order of publication and only once,
\* whatever is replayed, dropped from a full queue or lost with a connection.
THEOREM StreamWebSocketInOrder == Spec => []WebSocketInOrder
<1>1. Inv => WebSocketInOrder BY DEF Inv, InOrder, WebSocketInOrder
<1> QED BY <1>1, Invariance, PTL

\* A step of Core, of the Observatory or of a dashboard is a step of the abstract feed or
\* leaves it alone.
LEMMA FeedStep == Inv /\ [Next]_vars => [Feed!Next]_(Feed!feed)
<1> SUFFICES ASSUME Inv, [Next]_vars PROVE Feed!Next \/ UNCHANGED Feed!feed BY DEF Feed!feed
<1>1. CASE Broadcast
  <2>1. UNCHANGED <<rows, link, received>> BY <1>1 DEF Broadcast
  <2> QED BY <2>1 DEF Feed!feed
<1>2. CASE StartSse
  <2>1. UNCHANGED <<rows, link, received>> BY <1>2 DEF StartSse, core
  <2> QED BY <2>1 DEF Feed!feed
<1>3. CASE Receive
  <2>1. UNCHANGED <<rows, link>> BY <1>3 DEF Receive, core
  <2>2. CASE link # "ws" BY <2>1, <2>2 DEF Feed!feed
  <2>3. CASE link = "ws"
    <3>1. \/ replay # <<>> /\ received' = Append(received, Head(replay))
          \/ queue # <<>> /\ received' = Append(received, Head(queue))
      BY <1>3 DEF Receive
    <3>2. /\ Below(received, replay) /\ Below(received, queue)
          /\ ToSet(replay) \subseteq 1..emitted /\ ToSet(queue) \subseteq 1..emitted
          /\ Ascending(replay) /\ Ascending(queue)
          /\ replay \in Seq(Nat) /\ queue \in Seq(Nat) /\ received \in Seq(Nat)
          /\ emitted \in Nat /\ rows \in Nat /\ emitted <= rows
      BY <2>3 DEF Inv, InOrder, SourcesInOrder, Types, Published
    <3>3. PICK e \in 1..emitted : received' = Append(received, e) /\ \A a \in ToSet(received) : a < e
      <4>1. CASE replay # <<>> /\ received' = Append(received, Head(replay))
        <5>1. Head(replay) \in ToSet(replay) BY <3>2, <4>1, HeadAndTail
        <5> QED BY <3>2, <4>1, <5>1 DEF Below
      <4>2. CASE queue # <<>> /\ received' = Append(received, Head(queue))
        <5>1. Head(queue) \in ToSet(queue) BY <3>2, <4>2, HeadAndTail
        <5> QED BY <3>2, <4>2, <5>1 DEF Below
      <4> QED BY <3>1, <4>1, <4>2
    <3>4. e \in (IF received = <<>> THEN 0 ELSE received[Len(received)]) + 1 .. rows
      <4>1. CASE received = <<>> BY <3>2, <4>1
      <4>2. CASE received # <<>>
        <5>1. Len(received) \in DOMAIN received /\ received[Len(received)] \in Nat
          BY <3>2, <4>2
        <5>2. received[Len(received)] \in ToSet(received) BY <5>1 DEF ToSet
        <5> QED BY <3>2, <3>3, <4>2, <5>1, <5>2
      <4> QED BY <4>1, <4>2
    <3> QED BY <2>1, <2>3, <3>3, <3>4 DEF Feed!Next, Feed!Deliver, Feed!Newest
  <2> QED BY <2>2, <2>3
<1>4. CASE \E kind \in {"ws", "sse"} : Connect(kind)
  <2>1. PICK kind \in {"ws", "sse"} : Connect(kind) BY <1>4
  <2>2. link = "none" BY <2>1 DEF Connect, Inv, OneConnection
  <2>3. link' = kind /\ received' = <<>> /\ rows' = rows
    BY <2>1 DEF Connect, Subscribe, core
  <2> QED BY <2>2, <2>3 DEF Feed!Next, Feed!Open, Feed!feed
<1>5. CASE Unsubscribe /\ rows' = rows
  <2>1. link' = "none" /\ rows' = rows BY <1>5 DEF Unsubscribe
  <2> QED BY <2>1 DEF Feed!Next, Feed!Close, Feed!feed
<1>6. CASE UNCHANGED conn /\ rows' \in {rows, rows + 1}
  <2>1. UNCHANGED <<link, received>> BY <1>6 DEF conn
  <2> QED BY <1>6, <2>1 DEF Feed!Next, Feed!Publish, Feed!feed
<1> QED BY <1>1, <1>2, <1>3, <1>4, <1>5, <1>6, Cases

\* The stream implements the abstract feed: a WebSocket never repeats an event, goes
\* back, or sends what was not published (broadcaster.py:102, observability.py:70-75).
THEOREM StreamImplementsFeed == Spec => ImplementsFeed
<1>1. Init => Feed!Init BY DEF Init, Feed!Init
<1> QED BY <1>1, FeedStep, Invariance, PTL DEF Spec, ImplementsFeed, Feed!Spec

-----------------------------------------------------------------------------
(* What was received, what is replayed and what waits fit together.          *)

\* s is a stretch of the events 1, 2, ... without a gap, and ends with n.
EndsWith(s, n) == \A i \in DOMAIN s : s[i] = n - Len(s) + i

\* The history has no gap, and neither has what a WebSocket that has kept up
\* has received and will receive.
Complete ==
  /\ EndsWith(history, emitted)
  /\ link = "ws" /\ ~overflow => EndsWith(received \o replay \o queue, emitted)

LEMMA Extended ==
  ASSUME NEW s \in Seq(Nat), NEW n \in Nat, EndsWith(s, n)
  PROVE  EndsWith(Append(s, n + 1), n + 1)
<1> DEFINE a == Append(s, n + 1)
<1>1. /\ Len(s) \in Nat /\ DOMAIN s = 1..Len(s) /\ Len(a) = Len(s) + 1 /\ DOMAIN a = 1..Len(s) + 1
      /\ a[Len(s) + 1] = n + 1 /\ \A i \in 1..Len(s) : a[i] = s[i]
  OBVIOUS
<1> HIDE DEF a
<1>2. \A i \in 1..Len(s) : s[i] = n - Len(s) + i
  BY <1>1 DEF EndsWith
<1> SUFFICES ASSUME NEW i \in 1..Len(s) + 1 PROVE a[i] = n + 1 - Len(a) + i
  BY <1>1 DEF EndsWith, a
<1> QED BY <1>1, <1>2

LEMMA LatestEnds ==
  ASSUME NEW s \in Seq(Nat), NEW n \in Nat, NEW k \in Nat, EndsWith(s, n)
  PROVE  EndsWith(Latest(s, k), n)
<1>1. CASE ~(Len(s) > k)
  BY <1>1 DEF Latest
<1>2. CASE Len(s) > k
  <2> DEFINE m == Len(s) - k + 1
             r == SubSeq(s, m, Len(s))
  <2>1. Len(s) \in Nat /\ DOMAIN s = 1..Len(s) /\ r = Latest(s, k)
    BY <1>2 DEF Latest
  <2>2. DOMAIN r = 1..k /\ Len(r) = k /\ \A i \in 1..k : r[i] = s[m + i - 1] /\ m + i - 1 \in 1..Len(s)
    BY <1>2
  <2> HIDE DEF r
  <2> SUFFICES ASSUME NEW i \in 1..k PROVE r[i] = n - Len(r) + i
    BY <2>1, <2>2 DEF EndsWith
  <2>3. s[m + i - 1] = n - Len(s) + (m + i - 1)
    BY <2>1, <2>2 DEF EndsWith
  <2> QED BY <2>1, <2>2, <2>3
<1> QED BY <1>1, <1>2

\* What is received moves from the head of one part to the end of the other.
LEMMA HeadMoves ==
  ASSUME NEW s \in Seq(Nat), NEW t \in Seq(Nat), t # <<>>
  PROVE  Append(s, Head(t)) \o Tail(t) = s \o t
<1> DEFINE x == Append(s, Head(t))
           y == Tail(t)
<1>0. Len(s) \in Nat /\ Len(t) \in Nat
  OBVIOUS
<1>1. /\ Len(s) \in Nat /\ Len(t) \in Nat /\ Len(t) >= 1
      /\ x \in Seq(Nat) /\ Len(x) = Len(s) + 1 /\ x[Len(s) + 1] = t[1]
      /\ \A i \in 1..Len(s) : x[i] = s[i]
      /\ y \in Seq(Nat) /\ Len(y) = Len(t) - 1 /\ \A i \in 1..Len(t) - 1 : y[i] = t[i + 1]
  OBVIOUS
<1> HIDE DEF x, y
<1>2. /\ x \o y \in Seq(Nat) /\ Len(x \o y) = Len(s) + Len(t)
      /\ \A i \in 1..Len(s) + Len(t) : (x \o y)[i] = IF i <= Len(s) + 1 THEN x[i] ELSE y[i - (Len(s) + 1)]
  <2>1. /\ x \o y \in Seq(Nat) /\ Len(x \o y) = Len(x) + Len(y)
        /\ \A i \in 1..Len(x) + Len(y) : (x \o y)[i] = IF i <= Len(x) THEN x[i] ELSE y[i - Len(x)]
    BY <1>1, ConcatProperties
  <2>2. Len(x) + Len(y) = Len(s) + Len(t)
    BY <1>1
  <2> QED BY <1>1, <2>1, <2>2
<1>3. /\ s \o t \in Seq(Nat) /\ Len(s \o t) = Len(s) + Len(t)
      /\ \A i \in 1..Len(s) + Len(t) : (s \o t)[i] = IF i <= Len(s) THEN s[i] ELSE t[i - Len(s)]
  BY <1>1, ConcatProperties
<1>4. ASSUME NEW i \in 1..Len(s) + Len(t) PROVE (x \o y)[i] = (s \o t)[i]
  <2>1. CASE i <= Len(s) BY <1>1, <1>2, <1>3, <2>1
  <2>2. CASE i = Len(s) + 1 BY <1>1, <1>2, <1>3, <2>2
  <2>3. CASE i > Len(s) + 1
    <3> DEFINE j == i - (Len(s) + 1)
    <3>1. /\ j \in 1..Len(t) - 1 /\ i - Len(s) = j + 1
          /\ ~(i <= Len(s) + 1) /\ ~(i <= Len(s))
      BY <1>0, <2>3
    <3>2. (x \o y)[i] = y[j] /\ (s \o t)[i] = t[j + 1]
      BY <1>2, <1>3, <3>1
    <3>3. y[j] = t[j + 1]
      BY <1>1, <3>1
    <3> QED BY <3>2, <3>3
  <2>4. i <= Len(s) \/ i = Len(s) + 1 \/ i > Len(s) + 1
    BY <1>0
  <2> QED BY <2>1, <2>2, <2>3, <2>4
<1>5. x \o y = s \o t
  BY <1>2, <1>3, <1>4, SeqEqual
<1> QED BY <1>5 DEF x, y

LEMMA CompleteStep == Inv /\ Complete /\ [Next]_vars => Complete'
<1> SUFFICES ASSUME Inv, Complete, [Next]_vars PROVE Complete'
  OBVIOUS
<1>0. /\ emitted \in Nat /\ history \in Seq(Nat) /\ replay \in Seq(Nat) /\ queue \in Seq(Nat)
      /\ received \in Seq(Nat) /\ HistorySize \in Nat /\ ReplaySize \in Nat
      /\ EndsWith(history, emitted)
      /\ link = "ws" /\ ~overflow => EndsWith(received \o replay \o queue, emitted)
  BY StreamAssumption DEF Inv, Types, Complete
<1>1. CASE Broadcast
  <2>1. /\ emitted' = emitted + 1
        /\ history' = Latest(Append(history, emitted + 1), HistorySize)
        /\ UNCHANGED <<link, replay, received>>
        /\ link # "none" => queue' = Offer(queue, emitted + 1)
        /\ emitted + 1 \in Nat
    BY <1>0, <1>1 DEF Broadcast
  <2>2. EndsWith(history', emitted')
    <3>1. EndsWith(Append(history, emitted + 1), emitted + 1) /\ Append(history, emitted + 1) \in Seq(Nat)
      BY <1>0, Extended
    <3> QED BY <1>0, <2>1, <3>1, LatestEnds
  <2>3. ASSUME link = "ws", ~overflow' PROVE EndsWith(received' \o replay' \o queue', emitted')
    <3>a. overflow' = (overflow \/ (link # "none" /\ Len(queue) >= QueueSize))
      BY <1>1 DEF Broadcast
    <3>b. link # "none"
      BY <2>3
    <3>c. ~overflow /\ ~(Len(queue) >= QueueSize)
      BY <2>3, <3>a, <3>b, Zenon
    <3>d. queue' = Append(queue, emitted + 1)
      BY <1>0, <2>1, <3>b, <3>c, StreamAssumption DEF Offer
    <3>1. /\ received \o replay \in Seq(Nat) /\ received \o replay \o queue \in Seq(Nat)
          /\ ~overflow /\ queue' = queue \o <<emitted + 1>>
      BY <1>0, <2>1, <3>c, <3>d, AppendIsConcat, ConcatProperties
    <3>2. (received \o replay) \o queue' = ((received \o replay) \o queue) \o <<emitted + 1>>
      <4>1. emitted + 1 \in Nat /\ <<emitted + 1>> \in Seq(Nat)
        BY <1>0
      <4> QED BY <1>0, <3>1, <4>1, ConcatAssociative
    <3>3. (received \o replay) \o queue' = Append(received \o replay \o queue, emitted + 1)
      BY <1>0, <3>1, <3>2, AppendIsConcat
    <3> QED BY <1>0, <2>1, <2>3, <3>1, <3>3, Extended
  <2> QED BY <2>1, <2>2, <2>3 DEF Complete
<1>2. CASE Receive
  <2>1. UNCHANGED <<emitted, history, link, overflow>>
    BY <1>2 DEF Receive, core
  <2>2. received' \o replay' \o queue' = received \o replay \o queue
    <3>1. CASE replay # <<>> /\ received' = Append(received, Head(replay)) /\ replay' = Tail(replay) /\ queue' = queue
      BY <1>0, <3>1, HeadMoves
    <3>2. CASE replay = <<>> /\ queue # <<>> /\ received' = Append(received, Head(queue))
               /\ replay' = replay /\ queue' = Tail(queue)
      <4>1. received \o <<>> = received /\ Append(received, Head(queue)) \o <<>> = Append(received, Head(queue))
        BY <1>0, <3>2, ConcatEmptySeq
      <4> QED BY <1>0, <3>2, <4>1, HeadMoves
    <3> QED BY <1>2, <3>1, <3>2 DEF Receive
  <2> QED BY <1>0, <2>1, <2>2 DEF Complete
<1>3. CASE \E kind \in {"ws", "sse"} : Connect(kind)
  <2>1. PICK kind \in {"ws", "sse"} : Connect(kind)
    BY <1>3
  <2>2. /\ UNCHANGED <<emitted, history>> /\ link' = kind /\ received' = <<>> /\ queue' = <<>>
        /\ kind = "ws" => replay' = Latest(history, ReplaySize)
    BY <2>1 DEF Connect, Subscribe, core
  <2>3. Latest(history, ReplaySize) \in Seq(Nat) /\ EndsWith(Latest(history, ReplaySize), emitted)
    BY <1>0, LatestInOrder, LatestEnds DEF Inv, SourcesInOrder
  <2>4. <<>> \o Latest(history, ReplaySize) \o <<>> = Latest(history, ReplaySize)
    BY <2>3, ConcatEmptySeq
  <2> QED BY <1>0, <2>2, <2>3, <2>4 DEF Complete
<1>4. CASE StartSse
  BY <1>0, <1>4 DEF StartSse, core, Complete
<1>5. CASE Unsubscribe /\ (UNCHANGED <<emitted, history>> \/ Forgets)
  <2>1. EndsWith(history', emitted')
    BY <1>0, <1>5 DEF EndsWith, Forgets
  <2>2. link' = "none"
    BY <1>5 DEF Unsubscribe
  <2> QED BY <1>0, <1>5, <2>1, <2>2 DEF Complete
<1>6. CASE UNCHANGED <<emitted, history, conn>>
  BY <1>0, <1>6 DEF conn, Complete
<1> QED BY <1>1, <1>2, <1>3, <1>4, <1>5, <1>6, Cases

\* A WebSocket that has kept up gets every event from the first one that is
\* replayed to it up to the newest: whenever it connects, whatever was trimmed
\* from the history, the replay and the live events meet without a gap.
THEOREM StreamNoGap == Spec => []NoGap
<1>1. Init => Complete
  BY EmptyInOrder DEF Init, Complete, EndsWith
<1>2. Complete => NoGap
  BY DEF Complete, EndsWith, NoGap
<1> QED BY <1>1, <1>2, InitInv, NextInv, CompleteStep, PTL DEF Spec

-----------------------------------------------------------------------------
(* What an App and an answer hold.                                           *)

\* A list of events with no event twice.
Once == {s \in Seq(Nat) : IsInjective(s)}

LEMMA AddOnceKeepsOnce ==
  ASSUME NEW s \in Once, NEW e \in Nat
  PROVE  AddOnce(s, e) \in Once /\ ToSet(s) \subseteq ToSet(AddOnce(s, e))
<1>1. CASE e \in ToSet(s)
  BY <1>1 DEF AddOnce
<1>2. CASE e \notin ToSet(s)
  <2> DEFINE a == Append(s, e)
  <2>1. s \in Seq(Nat) /\ IsInjective(s)
    BY DEF Once
  <2>2. /\ a \in Seq(Nat) /\ Len(s) \in Nat /\ DOMAIN s = 1..Len(s) /\ DOMAIN a = 1..Len(s) + 1
        /\ a[Len(s) + 1] = e /\ \A i \in 1..Len(s) : a[i] = s[i]
    BY <2>1
  <2> HIDE DEF a
  <2>3. \A i \in 1..Len(s) : s[i] # e
    BY <1>2, <2>2 DEF ToSet
  <2>4. ASSUME NEW i \in 1..Len(s) + 1, NEW j \in 1..Len(s) + 1, a[i] = a[j] PROVE i = j
    <3>1. CASE i \in 1..Len(s) /\ j \in 1..Len(s)
      BY <2>1, <2>2, <2>4, <3>1 DEF IsInjective
    <3>2. CASE i = Len(s) + 1 /\ j = Len(s) + 1
      BY <3>2
    <3>3. CASE i \in 1..Len(s) /\ j = Len(s) + 1
      BY <2>2, <2>3, <2>4, <3>3
    <3>4. CASE i = Len(s) + 1 /\ j \in 1..Len(s)
      BY <2>2, <2>3, <2>4, <3>4
    <3> QED BY <2>2, <3>1, <3>2, <3>3, <3>4
  <2>5. IsInjective(a)
    BY <2>2, <2>4 DEF IsInjective
  <2>6. ToSet(s) \subseteq ToSet(a)
    <3> SUFFICES ASSUME NEW i \in 1..Len(s) PROVE s[i] \in ToSet(a)
      BY <2>2 DEF ToSet
    <3>1. i \in DOMAIN a /\ a[i] = s[i]
      BY <2>2
    <3> QED BY <3>1 DEF ToSet
  <2>7. AddOnce(s, e) = a
    BY <1>2 DEF AddOnce, a
  <2> QED BY <2>2, <2>5, <2>6, <2>7 DEF Once
<1> QED BY <1>1, <1>2

LEMMA LatestTyped ==
  ASSUME NEW s \in Seq(Nat), NEW n \in Nat
  PROVE  Latest(s, n) \in Seq(Nat)
<1>1. CASE Len(s) > n
  <2>1. Len(s) - n + 1 \in 1..Len(s) + 1 /\ Len(s) \in Nat
    BY <1>1
  <2> QED BY <1>1, <2>1 DEF Latest
<1>2. CASE ~(Len(s) > n)
  BY <1>2 DEF Latest
<1> QED BY <1>1, <1>2

\* Induction over the naturals for a set: a least number outside it would follow one inside.
LEMMA SetInduction ==
  ASSUME NEW S, 0 \in S, \A n \in Nat : n \in S => n + 1 \in S
  PROVE  Nat \subseteq S
<1> DEFINE R == OpToRel(<, Nat)
           T == Nat \ S
<1> SUFFICES ASSUME T # {} PROVE FALSE
  OBVIOUS
<1>1. IsWellFoundedOn(R, Nat) /\ T \in SUBSET Nat
  BY NatLessThanWellFounded, Zenon
<1>2. \A a, b \in Nat : a < b => <<a, b>> \in R
  BY DEF OpToRel
<1> HIDE DEF R
<1>3. PICK x \in T : \A y \in T : ~(<<y, x>> \in R)
  BY <1>1, WFMin
<1>4. x \in Nat /\ x # 0
  OBVIOUS
<1>5. x - 1 \in Nat /\ x - 1 < x /\ (x - 1) + 1 = x
  BY <1>4
<1>6. x - 1 \notin T
  BY <1>2, <1>3, <1>4, <1>5
<1> QED BY <1>4, <1>5, <1>6

\* The answer about a run: the rows, and what the buffer adds to them.
LEMMA RunDetailsOnce ==
  ASSUME buffer \in Seq(Nat), NEW upTo \in Nat
  PROVE  RunDetails(upTo) \in Once /\ 1..upTo \subseteq ToSet(RunDetails(upTo))
<1> DEFINE stored == [i \in 1..upTo |-> i]
           late == Latest(buffer, 2 * ReplaySize)
           N == Len(late)
           G == {s \in Once : 1..upTo \subseteq ToSet(s)}
           Def(f, k) == f = [n \in 0..k |-> IF n = 0 THEN stored ELSE AddOnce(f[n - 1], late[n])]
<1>1. late \in Seq(Nat) /\ N \in Nat /\ \A n \in 1..N : late[n] \in Nat
  <2>1. 2 * ReplaySize \in Nat
    BY StreamAssumption
  <2>2. late \in Seq(Nat)
    BY <2>1, LatestTyped
  <2> HIDE DEF late
  <2> QED BY <2>2
<1>2. stored \in G
  <2>1. stored \in Seq(Nat) /\ DOMAIN stored = 1..upTo
    OBVIOUS
  <2>2. IsInjective(stored) /\ 1..upTo \subseteq ToSet(stored)
    BY DEF IsInjective, ToSet
  <2> QED BY <2>1, <2>2 DEF Once
<1>3. \A s \in G, n \in 1..N : AddOnce(s, late[n]) \in G
  <2> SUFFICES ASSUME NEW s \in G, NEW n \in 1..N PROVE AddOnce(s, late[n]) \in G
    OBVIOUS
  <2>1. s \in Once /\ late[n] \in Nat /\ 1..upTo \subseteq ToSet(s)
    BY <1>1
  <2>2. AddOnce(s, late[n]) \in Once /\ ToSet(s) \subseteq ToSet(AddOnce(s, late[n]))
    BY <2>1, AddOnceKeepsOnce
  <2> QED BY <2>1, <2>2
<1>4. RunDetails(upTo) = (CHOOSE f : Def(f, N))[N]
  BY DEF RunDetails
<1> HIDE DEF stored, late, N, G
\* There is such a list of partial answers, up to every element of the buffer ...
<1>5. \E f : Def(f, N)
  <2> HIDE DEF Def
  <2> DEFINE P == {k \in Nat : k <= N => \E f : Def(f, k)}
  <2>1. 0 \in P
    <3> DEFINE f == [n \in 0..0 |-> stored]
    <3>1. f = [n \in 0..0 |-> IF n = 0 THEN stored ELSE AddOnce(f[n - 1], late[n])]
      <4>1. \A n \in 0..0 : n = 0
        OBVIOUS
      <4> QED BY <4>1, Zenon
    <3>2. Def(f, 0)
      BY <3>1 DEF Def
    <3> HIDE DEF f
    <3> QED BY <3>2
  <2>2. ASSUME NEW k \in Nat, k \in P PROVE k + 1 \in P
    <3> SUFFICES ASSUME k + 1 <= N PROVE \E g : Def(g, k + 1)
      OBVIOUS
    <3>1. PICK f : Def(f, k)
      <4>1. k <= N
        BY <1>1
      <4> QED BY <2>2, <4>1
    <3> DEFINE e == AddOnce(f[k], late[k + 1])
    <3> HIDE DEF e
    <3> DEFINE g == [n \in 0..k + 1 |-> IF n <= k THEN f[n] ELSE e]
    <3>2. g[k + 1] = e /\ (\A n \in 0..k : g[n] = f[n]) /\ g = [n \in 0..k + 1 |-> g[n]]
      OBVIOUS
    <3> HIDE DEF g
    <3>3. ASSUME NEW n \in 0..k + 1
          PROVE  g[n] = IF n = 0 THEN stored ELSE AddOnce(g[n - 1], late[n])
      <4>1. CASE n = k + 1
        <5>1. n - 1 = k /\ n # 0 /\ k \in 0..k
          BY <4>1
        <5> QED BY <3>2, <4>1, <5>1 DEF e
      <4>2. CASE n # k + 1
        <5>1. n \in 0..k
          BY <4>2
        <5>2. f[n] = IF n = 0 THEN stored ELSE AddOnce(f[n - 1], late[n])
          BY <3>1, <5>1 DEF Def
        <5>3. n # 0 => n - 1 \in 0..k
          BY <5>1
        <5>4. CASE n = 0
          BY <3>2, <5>1, <5>2, <5>4
        <5>5. CASE n # 0
          <6>1. g[n] = f[n] /\ g[n - 1] = f[n - 1]
            BY <3>2, <5>1, <5>3, <5>5
          <6> QED BY <5>2, <5>5, <6>1, Zenon
        <5> QED BY <5>4, <5>5
      <4> QED BY <4>1, <4>2
    <3>4. Def(g, k + 1)
      <4>1. g = [n \in 0..k + 1 |-> IF n = 0 THEN stored ELSE AddOnce(g[n - 1], late[n])]
        BY <3>2, <3>3
      <4> QED BY <4>1 DEF Def
    <3> QED BY <3>4
  <2> HIDE DEF P
  <2>3. Nat \subseteq P
    BY <2>1, <2>2, SetInduction
  <2>4. N \in P /\ N <= N
    BY <1>1, <2>3
  <2> QED BY <2>4 DEF P
<1> DEFINE add == CHOOSE f : Def(f, N)
<1>6. Def(add, N)
  BY <1>5, Zenon
<1> HIDE DEF add
\* ... and every partial answer has the rows and no event twice.
<1>7. \A n \in Nat : n <= N => add[n] \in G
  <2> DEFINE P == {n \in Nat : n <= N => add[n] \in G}
  <2>1. 0 \in P
    <3>1. 0 \in 0..N
      BY <1>1
    <3> QED BY <1>2, <1>6, <3>1
  <2>2. ASSUME NEW n \in Nat, n \in P PROVE n + 1 \in P
    <3> SUFFICES ASSUME n + 1 <= N PROVE add[n + 1] \in G
      OBVIOUS
    <3>1. n + 1 \in 1..N /\ n + 1 \in 0..N /\ n + 1 # 0 /\ (n + 1) - 1 = n /\ n <= N
      BY <1>1
    <3>2. add[n + 1] = AddOnce(add[n], late[n + 1])
      BY <1>6, <3>1
    <3> QED BY <1>3, <2>2, <3>1, <3>2
  <2> HIDE DEF P
  <2>3. Nat \subseteq P
    BY <2>1, <2>2, SetInduction
  <2> QED BY <2>3 DEF P
<1>8. add[N] \in G
  BY <1>1, <1>7
<1> QED BY <1>4, <1>8 DEF add, G

\* A GET /api/runs/{id}: an answer has every row once.
Requests ==
  {r \in [phase : {"none", "rows", "answer"}, upTo : Nat, events : Once] :
     r.phase = "answer" => 1..r.upTo \subseteq ToSet(r.events)}

Windows == [open : BOOLEAN, replay : Seq(Nat), queue : Seq(Nat)]

\* What the Observatory and its dashboards keep.
Kept ==
  /\ buffer \in Seq(Nat)
  /\ window \in [Dashboards -> Windows]
  /\ shown \in [Dashboards -> Once]
  /\ request \in [Dashboards -> Requests]

LEMMA EmptyOnce == <<>> \in Once
BY DEF Once, IsInjective

LEMMA OfferTyped ==
  ASSUME NEW q \in Seq(Nat), NEW e \in Nat
  PROVE  Offer(q, e) \in Seq(Nat)
<1>1. CASE Len(q) < QueueSize
  BY <1>1 DEF Offer
<1>2. CASE ~(Len(q) < QueueSize)
  <2>1. q # <<>>
    BY <1>2, StreamAssumption
  <2>2. Tail(q) \in Seq(Nat)
    BY <2>1
  <2> QED BY <1>2, <2>2 DEF Offer
<1> QED BY <1>1, <1>2

LEMMA KeptInit == Init => Kept
<1> SUFFICES ASSUME Init PROVE Kept
  OBVIOUS
<1>1. Closed \in Windows
  BY DEF Closed, Windows
<1>2. NoRequest \in Requests
  BY EmptyOnce DEF NoRequest, Requests
<1> QED BY <1>1, <1>2, EmptyOnce DEF Init, Kept

\* An event that arrives goes to the buffer and to the queue of every window.
LEMMA KeptReceive == Inv /\ Kept /\ Receive => Kept'
<1> SUFFICES ASSUME Inv, Kept, Receive PROVE Kept'
  OBVIOUS
<1>1. PICK e \in Nat : HandleIncoming(e)
  <2>1. replay # <<>> => Head(replay) \in Nat
    BY DEF Inv, Types
  <2>2. queue # <<>> => Head(queue) \in Nat
    BY DEF Inv, Types
  <2> QED BY <2>1, <2>2 DEF Receive
<1>2. /\ buffer' = Latest(Append(buffer, e), HistorySize)
      /\ window' = [d \in Dashboards |->
           IF window[d].open THEN [window[d] EXCEPT !.queue = Offer(@, e)] ELSE window[d]]
  BY <1>1 DEF HandleIncoming
<1>3. buffer' \in Seq(Nat)
  <2>1. Append(buffer, e) \in Seq(Nat) /\ HistorySize \in Nat
    BY StreamAssumption DEF Kept
  <2> QED BY <1>2, <2>1, LatestTyped
<1>4. window' \in [Dashboards -> Windows]
  <2>1. ASSUME NEW d \in Dashboards PROVE [window[d] EXCEPT !.queue = Offer(@, e)] \in Windows
    <3>1. window[d] \in Windows
      BY DEF Kept
    <3>2. Offer(window[d].queue, e) \in Seq(Nat)
      BY <3>1, OfferTyped DEF Windows
    <3> QED BY <3>1, <3>2 DEF Windows
  <2> QED BY <1>2, <2>1 DEF Kept
<1>5. UNCHANGED <<shown, request>>
  BY DEF Receive
<1> QED BY <1>3, <1>4, <1>5 DEF Kept

\* What a window sends on, the App adds once.
LEMMA KeptShow == ASSUME Kept, NEW d \in Dashboards, Show(d) PROVE Kept'
<1>1. /\ window[d] \in Windows /\ window[d].replay \in Seq(Nat) /\ window[d].queue \in Seq(Nat)
      /\ shown[d] \in Once
  BY DEF Kept, Windows
<1>2. PICK e \in Nat :
        /\ shown' = [shown EXCEPT ![d] = AddOnce(@, e)]
        /\ window' \in [Dashboards -> Windows]
  <2>1. CASE /\ window[d].replay # <<>>
             /\ shown' = [shown EXCEPT ![d] = AddOnce(@, Head(window[d].replay))]
             /\ window' = [window EXCEPT ![d].replay = Tail(@)]
    <3>1. Head(window[d].replay) \in Nat /\ Tail(window[d].replay) \in Seq(Nat)
      BY <1>1, <2>1
    <3>2. [window[d] EXCEPT !.replay = Tail(@)] \in Windows
      BY <1>1, <3>1 DEF Windows
    <3>3. window' = [window EXCEPT ![d] = [window[d] EXCEPT !.replay = Tail(@)]]
      BY <2>1
    <3> QED BY <2>1, <3>1, <3>2, <3>3 DEF Kept
  <2>2. CASE /\ window[d].queue # <<>>
             /\ shown' = [shown EXCEPT ![d] = AddOnce(@, Head(window[d].queue))]
             /\ window' = [window EXCEPT ![d].queue = Tail(@)]
    <3>1. Head(window[d].queue) \in Nat /\ Tail(window[d].queue) \in Seq(Nat)
      BY <1>1, <2>2
    <3>2. [window[d] EXCEPT !.queue = Tail(@)] \in Windows
      BY <1>1, <3>1 DEF Windows
    <3>3. window' = [window EXCEPT ![d] = [window[d] EXCEPT !.queue = Tail(@)]]
      BY <2>2
    <3> QED BY <2>2, <3>1, <3>2, <3>3 DEF Kept
  <2> QED BY <2>1, <2>2 DEF Show
<1>3. AddOnce(shown[d], e) \in Once
  BY <1>1, AddOnceKeepsOnce
<1>4. shown' \in [Dashboards -> Once]
  BY <1>2, <1>3 DEF Kept
<1>5. UNCHANGED <<buffer, request>>
  BY DEF Show, observatory
<1> QED BY <1>2, <1>4, <1>5 DEF Kept

\* A request collects its rows and events; its answer replaces what is shown.
LEMMA KeptRequest ==
  ASSUME Kept, rows \in Nat, NEW d \in Dashboards, SelectRun(d) \/ MergeBuffered(d) \/ ShowRun(d)
  PROVE  Kept'
<1>1. UNCHANGED <<buffer, window>> /\ request[d] \in Requests
  BY DEF Kept, SelectRun, MergeBuffered, ShowRun, observatory
<1>2. \E r \in Requests : request' = [request EXCEPT ![d] = r]
  <2>1. CASE SelectRun(d)
    <3>1. \A n \in {0, rows} : [phase |-> "rows", upTo |-> n, events |-> <<>>] \in Requests
      BY EmptyOnce DEF Requests
    <3> QED BY <2>1, <3>1 DEF SelectRun
  <2>2. CASE MergeBuffered(d)
    <3> DEFINE a == RunDetails(request[d].upTo)
               r == [request[d] EXCEPT !.phase = "answer", !.events = a]
    <3>1. request[d] \in [phase : {"none", "rows", "answer"}, upTo : Nat, events : Once]
      BY <1>1 DEF Requests
    <3>2. a \in Once /\ 1..request[d].upTo \subseteq ToSet(a)
      BY <3>1, RunDetailsOnce DEF Kept
    <3>3. request' = [request EXCEPT ![d] = r]
      BY <2>2 DEF MergeBuffered
    <3> HIDE DEF a
    <3>4. r \in [phase : {"none", "rows", "answer"}, upTo : Nat, events : Once]
      BY <3>1, <3>2
    <3>5. r.upTo = request[d].upTo /\ r.events = a
      BY <3>1
    <3>6. r \in Requests
      BY <3>2, <3>4, <3>5 DEF Requests
    <3> QED BY <3>3, <3>6
  <2>3. CASE ShowRun(d)
    <3>1. NoRequest \in Requests
      BY EmptyOnce DEF NoRequest, Requests
    <3> QED BY <2>3, <3>1 DEF ShowRun
  <2> QED BY <2>1, <2>2, <2>3
<1>3. request' \in [Dashboards -> Requests]
  BY <1>2 DEF Kept
<1>4. shown' \in [Dashboards -> Once]
  <2>1. request[d].events \in Once
    BY <1>1 DEF Requests
  <2>2. shown' = shown \/ shown' = [shown EXCEPT ![d] = request[d].events]
    BY DEF SelectRun, MergeBuffered, ShowRun
  <2> QED BY <2>1, <2>2 DEF Kept
<1> QED BY <1>1, <1>3, <1>4 DEF Kept

\* A window opens with a part of the buffer, and is lost with what it had.
LEMMA KeptWindow ==
  ASSUME Kept, NEW d \in Dashboards, OpenWindow(d) \/ LoseWindow(d)
  PROVE  Kept'
<1>1. UNCHANGED <<buffer, shown, request>>
  BY DEF OpenWindow, LoseWindow, observatory
<1>2. \E w \in Windows : window' = [window EXCEPT ![d] = w]
  <2>1. CASE OpenWindow(d)
    <3>1. Latest(buffer, ReplaySize) \in Seq(Nat)
      BY LatestTyped, StreamAssumption DEF Kept
    <3>2. [open |-> TRUE, replay |-> Latest(buffer, ReplaySize), queue |-> <<>>] \in Windows
      BY <3>1 DEF Windows
    <3> QED BY <2>1, <3>2 DEF OpenWindow
  <2>2. CASE LoseWindow(d)
    <3>1. Closed \in Windows
      BY DEF Closed, Windows
    <3> QED BY <2>2, <3>1 DEF LoseWindow
  <2> QED BY <2>1, <2>2
<1> QED BY <1>1, <1>2 DEF Kept

LEMMA KeptStep == Inv /\ Kept /\ [Next]_vars => Kept'
<1> SUFFICES ASSUME Inv, Kept, [Next]_vars PROVE Kept'
  OBVIOUS
<1>1. CASE \/ AddEvent \/ Broadcast \/ StartSse \/ Disconnect \/ CoreStops \/ CoreStarts
           \/ ConsumerStep \/ UNCHANGED vars
  <2>1. UNCHANGED <<buffer, window, shown, request>>
    BY <1>1 DEF AddEvent, Broadcast, StartSse, Disconnect, CoreStops, CoreStarts, ConsumerStep, CheckHealth,
                EndOfStream, Wake, Connect, ConnectFails, observatory, browser, vars
  <2> QED BY <2>1 DEF Kept
<1>2. CASE Receive
  BY <1>2, KeptReceive
<1>3. CASE ObservatoryRestarts
  <2>1. Closed \in Windows /\ NoRequest \in Requests
    BY EmptyOnce DEF Closed, Windows, NoRequest, Requests
  <2>2. /\ buffer' = <<>> /\ shown' = shown
        /\ window' = [d \in Dashboards |-> Closed] /\ request' = [d \in Dashboards |-> NoRequest]
    BY <1>3 DEF ObservatoryRestarts
  <2> QED BY <2>1, <2>2 DEF Kept
<1>4. ASSUME NEW d \in Dashboards, WindowStep(d) \/ LoseWindow(d) \/ SelectRun(d) PROVE Kept'
  <2>1. rows \in Nat
    BY DEF Inv, Types
  <2> QED BY <1>4, <2>1, KeptShow, KeptRequest, KeptWindow DEF WindowStep
<1> QED BY <1>1, <1>2, <1>3, <1>4 DEF Next

\* No event is twice in the feed of a dashboard, and the answer about a run has
\* every row of the run and no event twice: although what is replayed, what is
\* live, what is buffered and what the database has overlap in every way
\* (api.py:37-46, App.tsx).
THEOREM StreamEachEventOnce == Spec => []EachEventOnce
<1>1. Kept => EachEventOnce
  BY DEF Kept, Requests, Once, EachEventOnce, ShownOnce, RunDetailsComplete
<1> QED BY <1>1, InitInv, NextInv, KeptInit, KeptStep, PTL DEF Spec

-----------------------------------------------------------------------------
(* Types and sizes of everything.                                          *)

Flags ==
  /\ coreUp \in BOOLEAN /\ synced \in BOOLEAN /\ overflow \in BOOLEAN
  /\ backendConnected \in BOOLEAN /\ streamConnected \in BOOLEAN
  /\ link \in {"none", "ws", "sse"}
  /\ consumer \in {"check", "ws", "sse", "sleep", "readWs", "readSse"}

Counts == losses \in Nat /\ restarts \in Nat /\ selects \in Nat

\* What Core and the Observatory hold for others.
CoreFits == Len(history) <= HistorySize /\ Len(replay) <= ReplaySize /\ Len(queue) <= QueueSize
BufferFits == Len(buffer) <= HistorySize
WindowsFit ==
  \A d \in Dashboards : Len(window[d].replay) <= ReplaySize /\ Len(window[d].queue) <= QueueSize

LEMMA EmptyFits ==
  /\ Len(<<>>) <= HistorySize /\ Len(<<>>) <= ReplaySize /\ Len(<<>>) <= QueueSize
BY StreamAssumption

LEMMA LatestFits ==
  ASSUME NEW s \in Seq(Nat), NEW n \in Nat
  PROVE  Len(Latest(s, n)) <= n
<1>1. CASE Len(s) > n
  <2> DEFINE m == Len(s) - n + 1
  <2>1. Len(s) \in Nat /\ m \in 1..Len(s) + 1
    BY <1>1
  <2>2. Len(SubSeq(s, m, Len(s))) = Len(s) - m + 1
    BY <2>1
  <2> QED BY <1>1, <2>1, <2>2 DEF Latest
<1>2. CASE ~(Len(s) > n)
  BY <1>2 DEF Latest
<1> QED BY <1>1, <1>2

LEMMA OfferFits ==
  ASSUME NEW q \in Seq(Nat), NEW e \in Nat, Len(q) <= QueueSize
  PROVE  Len(Offer(q, e)) <= QueueSize
<1>0. Len(q) \in Nat /\ QueueSize \in Nat \ {0}
  BY StreamAssumption
<1>1. CASE Len(q) < QueueSize
  BY <1>0, <1>1 DEF Offer
<1>2. CASE ~(Len(q) < QueueSize)
  <2>1. q # <<>>
    BY <1>0, <1>2
  <2>2. Tail(q) \in Seq(Nat) /\ Len(Tail(q)) = Len(q) - 1
    BY <2>1
  <2>3. Len(Append(Tail(q), e)) = Len(q)
    BY <1>0, <2>2
  <2> QED BY <1>2, <2>3 DEF Offer
<1> QED BY <1>1, <1>2

LEMMA TailFits ==
  ASSUME NEW s \in Seq(Nat), NEW n \in Nat, s # <<>>, Len(s) <= n
  PROVE  Len(Tail(s)) <= n
<1>1. Len(s) \in Nat /\ Len(Tail(s)) = Len(s) - 1
  OBVIOUS
<1> QED BY <1>1

LEMMA FlagsStep == Flags /\ [Next]_vars => Flags'
<1> SUFFICES ASSUME Flags, [Next]_vars PROVE Flags'
  OBVIOUS
<1>1. CASE Broadcast
  <2>1. overflow' \in BOOLEAN
    BY <1>1, Zenon DEF Broadcast
  <2> QED BY <1>1, <2>1 DEF Flags, Broadcast, observatory
<1>2. CASE StartSse \/ AddEvent \/ CoreStarts \/ CheckHealth \/ EndOfStream \/ Wake
  BY <1>2 DEF Flags, StartSse, AddEvent, CoreStarts, CheckHealth, EndOfStream, Wake, conn, core, observatory
<1>3. CASE Disconnect \/ CoreStops \/ ObservatoryRestarts
  BY <1>3 DEF Flags, Disconnect, CoreStops, ObservatoryRestarts, Unsubscribe, core, observatory
<1>4. ASSUME NEW kind \in {"ws", "sse"}, Connect(kind) PROVE Flags'
  <2>1. synced' \in BOOLEAN
    BY <1>4, Zenon DEF Connect, Subscribe
  <2> QED BY <1>4, <2>1 DEF Flags, Connect, Subscribe, core
<1>5. ASSUME NEW kind \in {"ws", "sse"}, ConnectFails(kind) PROVE Flags'
  BY <1>5 DEF Flags, ConnectFails, core, conn
<1>6. CASE Receive
  BY <1>6 DEF Flags, Receive, HandleIncoming, core
<1>7. CASE \E d \in Dashboards : WindowStep(d) \/ LoseWindow(d) \/ SelectRun(d)
  <2>1. UNCHANGED <<core, conn, observatory>>
    BY <1>7 DEF WindowStep, OpenWindow, Show, MergeBuffered, ShowRun, LoseWindow, SelectRun
  <2> QED BY <2>1 DEF Flags, core, conn, observatory
<1>8. CASE UNCHANGED vars
  BY <1>8 DEF Flags, vars, core, conn, observatory
<1> QED BY <1>1, <1>2, <1>3, <1>4, <1>5, <1>6, <1>7, <1>8 DEF Next, ConsumerStep

LEMMA CountsStep == Counts /\ [Next]_vars => Counts'
<1> SUFFICES ASSUME Counts, [Next]_vars PROVE Counts'
  OBVIOUS
<1>1. CASE Disconnect \/ CoreStops \/ ObservatoryRestarts
  BY <1>1 DEF Counts, Disconnect, CoreStops, ObservatoryRestarts
<1>2. ASSUME NEW d \in Dashboards, LoseWindow(d) \/ SelectRun(d) PROVE Counts'
  BY <1>2 DEF Counts, LoseWindow, SelectRun
<1>3. CASE \E d \in Dashboards : WindowStep(d)
  BY <1>3 DEF Counts, counters, WindowStep, OpenWindow, Show, MergeBuffered, ShowRun
<1>4. CASE \/ AddEvent \/ Broadcast \/ StartSse \/ CoreStarts \/ Receive \/ ConsumerStep \/ UNCHANGED vars
  BY <1>4 DEF Counts, counters, AddEvent, Broadcast, StartSse, CoreStarts, Receive, ConsumerStep, CheckHealth,
              EndOfStream, Wake, Connect, ConnectFails, vars
<1> QED BY <1>1, <1>2, <1>3, <1>4 DEF Next

LEMMA CoreFitsStep == Inv /\ CoreFits /\ [Next]_vars => CoreFits'
<1> SUFFICES ASSUME Inv, CoreFits, [Next]_vars PROVE CoreFits'
  OBVIOUS
<1>0. /\ emitted \in Nat /\ history \in Seq(Nat) /\ replay \in Seq(Nat) /\ queue \in Seq(Nat)
      /\ HistorySize \in Nat /\ ReplaySize \in Nat /\ QueueSize \in Nat
  BY StreamAssumption DEF Inv, Types
<1>1. CASE Broadcast
  <2>1. emitted + 1 \in Nat /\ Append(history, emitted + 1) \in Seq(Nat)
    BY <1>0
  <2>2. Len(history') <= HistorySize
    BY <1>0, <1>1, <2>1, LatestFits DEF Broadcast
  <2>3. Len(queue') <= QueueSize
    BY <1>0, <1>1, <2>1, OfferFits DEF Broadcast, CoreFits
  <2> QED BY <1>1, <2>2, <2>3 DEF Broadcast, CoreFits
<1>2. CASE StartSse
  BY <1>0, <1>2, LatestFits DEF CoreFits, StartSse, core
<1>3. CASE Receive
  <2>1. \/ replay # <<>> /\ replay' = Tail(replay) /\ queue' = queue
        \/ queue # <<>> /\ queue' = Tail(queue) /\ replay' = replay
    BY <1>3 DEF Receive
  <2>2. history' = history
    BY <1>3 DEF Receive, core
  <2> QED BY <1>0, <2>1, <2>2, TailFits DEF CoreFits
<1>4. ASSUME NEW kind \in {"ws", "sse"}, Connect(kind) PROVE CoreFits'
  <2>1. /\ history' = history /\ queue' = <<>>
        /\ replay' = Latest(history, ReplaySize) \/ replay' = <<>>
    BY <1>4 DEF Connect, Subscribe, core
  <2> QED BY <1>0, <2>1, LatestFits, EmptyFits DEF CoreFits
<1>5. CASE Unsubscribe /\ (UNCHANGED <<emitted, history>> \/ Forgets)
  BY <1>5, EmptyFits DEF CoreFits, Unsubscribe, Forgets
<1>6. CASE UNCHANGED <<history, conn>>
  BY <1>6 DEF CoreFits, conn
<1> QED BY <1>1, <1>2, <1>3, <1>4, <1>5, <1>6, Cases

\* What arrives goes to a buffer and to queues that lose their oldest event first.
LEMMA ReceiveFits == Inv /\ Kept /\ BufferFits /\ WindowsFit /\ Receive => BufferFits' /\ WindowsFit'
<1> SUFFICES ASSUME Inv, Kept, BufferFits, WindowsFit, Receive PROVE BufferFits' /\ WindowsFit'
  OBVIOUS
<1>1. PICK e \in Nat : HandleIncoming(e)
  <2>1. /\ replay # <<>> => Head(replay) \in Nat
        /\ queue # <<>> => Head(queue) \in Nat
    BY DEF Inv, Types
  <2> QED BY <2>1 DEF Receive
<1>2. BufferFits'
  <2>1. Append(buffer, e) \in Seq(Nat) /\ HistorySize \in Nat
    BY StreamAssumption DEF Kept
  <2> QED BY <1>1, <2>1, LatestFits DEF HandleIncoming, BufferFits
<1>3. ASSUME NEW d \in Dashboards
      PROVE  Len(window'[d].replay) <= ReplaySize /\ Len(window'[d].queue) <= QueueSize
  <2>1. window[d] \in Windows /\ window[d].queue \in Seq(Nat)
    BY DEF Kept, Windows
  <2>2. Len(Offer(window[d].queue, e)) <= QueueSize
    BY <2>1, OfferFits DEF WindowsFit
  <2>3. window'[d] = IF window[d].open THEN [window[d] EXCEPT !.queue = Offer(@, e)] ELSE window[d]
    BY <1>1 DEF HandleIncoming
  <2>4. /\ window'[d].replay = window[d].replay
        /\ window'[d].queue = Offer(window[d].queue, e) \/ window'[d].queue = window[d].queue
    BY <2>1, <2>3 DEF Windows
  <2> QED BY <2>2, <2>4 DEF WindowsFit
<1> QED BY <1>2, <1>3 DEF WindowsFit

LEMMA OneWindowFits ==
  ASSUME Kept, WindowsFit, NEW d \in Dashboards, NEW w \in Windows,
         window' = [window EXCEPT ![d] = w],
         Len(w.replay) <= ReplaySize, Len(w.queue) <= QueueSize
  PROVE  WindowsFit'
<1> SUFFICES ASSUME NEW a \in Dashboards
             PROVE  Len(window'[a].replay) <= ReplaySize /\ Len(window'[a].queue) <= QueueSize
  BY DEF WindowsFit
<1>1. window'[a] = w \/ window'[a] = window[a]
  BY DEF Kept
<1> QED BY <1>1 DEF WindowsFit

LEMMA WindowFits ==
  ASSUME Kept, WindowsFit, NEW d \in Dashboards, OpenWindow(d) \/ LoseWindow(d) \/ Show(d)
  PROVE  WindowsFit'
<1>0. /\ window[d] \in Windows /\ window[d].replay \in Seq(Nat) /\ window[d].queue \in Seq(Nat)
      /\ Len(window[d].replay) <= ReplaySize /\ Len(window[d].queue) <= QueueSize
      /\ ReplaySize \in Nat /\ QueueSize \in Nat /\ buffer \in Seq(Nat)
  BY StreamAssumption DEF Kept, Windows, WindowsFit
<1>1. CASE OpenWindow(d)
  <2> DEFINE w == [open |-> TRUE, replay |-> Latest(buffer, ReplaySize), queue |-> <<>>]
  <2>1. Latest(buffer, ReplaySize) \in Seq(Nat) /\ Len(Latest(buffer, ReplaySize)) <= ReplaySize
    BY <1>0, LatestTyped, LatestFits
  <2>2. w \in Windows /\ Len(w.replay) <= ReplaySize /\ Len(w.queue) <= QueueSize
    BY <2>1, EmptyFits DEF Windows
  <2>3. window' = [window EXCEPT ![d] = w]
    BY <1>1 DEF OpenWindow
  <2> QED BY <2>2, <2>3, OneWindowFits
<1>2. CASE LoseWindow(d)
  <2>1. Closed \in Windows /\ Len(Closed.replay) <= ReplaySize /\ Len(Closed.queue) <= QueueSize
    BY EmptyFits DEF Closed, Windows
  <2> QED BY <1>2, <2>1, OneWindowFits DEF LoseWindow
<1>3. CASE Show(d)
  <2>1. CASE window[d].replay # <<>> /\ window' = [window EXCEPT ![d].replay = Tail(@)]
    <3> DEFINE w == [window[d] EXCEPT !.replay = Tail(@)]
    <3>1. Tail(window[d].replay) \in Seq(Nat) /\ Len(Tail(window[d].replay)) <= ReplaySize
      BY <1>0, <2>1, TailFits
    <3>2. w \in Windows /\ w.replay = Tail(window[d].replay) /\ w.queue = window[d].queue
      BY <1>0, <3>1 DEF Windows
    <3>3. window' = [window EXCEPT ![d] = w]
      BY <2>1
    <3> HIDE DEF w
    <3> QED BY <1>0, <3>1, <3>2, <3>3, OneWindowFits
  <2>2. CASE window[d].queue # <<>> /\ window' = [window EXCEPT ![d].queue = Tail(@)]
    <3> DEFINE w == [window[d] EXCEPT !.queue = Tail(@)]
    <3>1. Tail(window[d].queue) \in Seq(Nat) /\ Len(Tail(window[d].queue)) <= QueueSize
      BY <1>0, <2>2, TailFits
    <3>2. w \in Windows /\ w.queue = Tail(window[d].queue) /\ w.replay = window[d].replay
      BY <1>0, <3>1 DEF Windows
    <3>3. window' = [window EXCEPT ![d] = w]
      BY <2>2
    <3> HIDE DEF w
    <3> QED BY <1>0, <3>1, <3>2, <3>3, OneWindowFits
  <2> QED BY <1>3, <2>1, <2>2 DEF Show
<1> QED BY <1>1, <1>2, <1>3

LEMMA OthersFitStep ==
  Inv /\ Kept /\ BufferFits /\ WindowsFit /\ [Next]_vars => BufferFits' /\ WindowsFit'
<1> SUFFICES ASSUME Inv, Kept, BufferFits, WindowsFit, [Next]_vars PROVE BufferFits' /\ WindowsFit'
  OBVIOUS
<1>1. CASE \/ AddEvent \/ Broadcast \/ StartSse \/ Disconnect \/ CoreStops \/ CoreStarts
           \/ ConsumerStep \/ UNCHANGED vars
  <2>1. UNCHANGED <<buffer, window>>
    BY <1>1 DEF AddEvent, Broadcast, StartSse, Disconnect, CoreStops, CoreStarts, ConsumerStep, CheckHealth,
                EndOfStream, Wake, Connect, ConnectFails, observatory, browser, vars
  <2> QED BY <2>1 DEF BufferFits, WindowsFit
<1>2. CASE Receive
  BY <1>2, ReceiveFits
<1>3. CASE ObservatoryRestarts
  <2>1. buffer' = <<>> /\ window' = [d \in Dashboards |-> Closed]
    BY <1>3 DEF ObservatoryRestarts
  <2> QED BY <2>1, EmptyFits DEF BufferFits, WindowsFit, Closed
<1>4. ASSUME NEW d \in Dashboards, WindowStep(d) \/ LoseWindow(d) \/ SelectRun(d)
      PROVE  BufferFits' /\ WindowsFit'
  <2>1. buffer' = buffer
    BY <1>4 DEF WindowStep, OpenWindow, Show, MergeBuffered, ShowRun, LoseWindow, SelectRun,
                observatory
  <2>2. CASE MergeBuffered(d) \/ ShowRun(d) \/ SelectRun(d)
    BY <2>1, <2>2 DEF MergeBuffered, ShowRun, SelectRun, BufferFits, WindowsFit
  <2>3. CASE OpenWindow(d) \/ LoseWindow(d) \/ Show(d)
    BY <2>1, <2>3, WindowFits DEF BufferFits
  <2> QED BY <1>4, <2>2, <2>3 DEF WindowStep
<1> QED BY <1>1, <1>2, <1>3, <1>4 DEF Next

\* Every variable keeps its type, and nothing that is kept for a slow or absent reader grows
\* beyond its size: the history, what is replayed, the queue of every subscriber and window,
\* and the Observatory's buffer (broadcaster.py, event_stream.py).
THEOREM StreamTypeCorrect == Spec => []TypeOK
<1> DEFINE Everything == /\ Inv /\ Kept /\ Flags /\ Counts
                         /\ CoreFits /\ BufferFits /\ WindowsFit
<1>1. Init => Everything
  <2> SUFFICES ASSUME Init PROVE Everything
    OBVIOUS
  <2>1. Inv /\ Kept
    BY InitInv, KeptInit
  <2>2. Flags /\ Counts
    BY DEF Init, Flags, Counts
  <2>3. CoreFits /\ BufferFits /\ WindowsFit
    BY EmptyFits DEF Init, CoreFits, BufferFits, WindowsFit, Closed
  <2> QED BY <2>1, <2>2, <2>3
<1>2. Everything /\ [Next]_vars => Everything'
  BY NextInv, KeptStep, FlagsStep, CountsStep, CoreFitsStep, OthersFitStep
<1>3. Everything => TypeOK
  <2> SUFFICES ASSUME Everything PROVE TypeOK
    OBVIOUS
  <2>1. /\ window \in [Dashboards -> [open : BOOLEAN, replay : Seq(Nat), queue : Seq(Nat)]]
        /\ buffer \in Seq(Nat)
    BY DEF Kept, Windows
  <2>2. Once \subseteq Seq(Nat)
    BY DEF Once
  <2>3. shown \in [Dashboards -> Seq(Nat)]
    BY <2>2 DEF Kept
  <2>4. request \in [Dashboards -> [phase : {"none", "rows", "answer"}, upTo : Nat, events : Seq(Nat)]]
    <3>1. Requests \subseteq [phase : {"none", "rows", "answer"}, upTo : Nat, events : Seq(Nat)]
      BY <2>2 DEF Requests
    <3> QED BY <3>1 DEF Kept
  <2>5. {losses, restarts, selects} \subseteq Nat
    BY DEF Counts
  <2> QED BY <2>1, <2>3, <2>4, <2>5
          DEF Inv, Types, Flags, CoreFits, BufferFits, WindowsFit, TypeOK
<1> QED BY <1>1, <1>2, <1>3, PTL DEF Spec

-----------------------------------------------------------------------------
(* Whoever has nothing left to read has seen the newest event.             *)

EndsIn(s, n) == s # <<>> /\ s[Len(s)] = n

\* The history ends with the newest event.
HistoryEnds == EndsIn(history, emitted)

\* So does what a connection has still to bring.
Brings ==
  link # "none" =>
    /\ queue = <<>> \/ EndsIn(queue, emitted)
    /\ synced => replay = <<>> \/ queue # <<>> \/ EndsIn(replay, emitted)

\* So does what a window has still to get.
WindowBrings(d) ==
  LET w == window[d]
  IN  EndsIn(w.queue, emitted) \/ (w.queue = <<>> /\ EndsIn(w.replay, emitted))

\* The newest event has come to the Observatory, and every open window shows it or will get it.
Arrived ==
  /\ EndsIn(buffer, emitted)
  /\ \A d \in Dashboards :
       emitted \in ToSet(shown[d]) \/ ~window[d].open \/ WindowBrings(d)

\* Everything that a connection had to bring has come.
Drained == link # "none" /\ synced /\ replay = <<>> /\ queue = <<>>

NoAnswers == \A d \in Dashboards : request[d].phase = "none"

Travelling == NoAnswers /\ (emitted > 0 => HistoryEnds /\ Brings /\ (Drained => Arrived))

\* Where the newest event is while Core has not been stopped and no run been opened.
Travels == restarts = 0 /\ selects = 0 => Travelling

LEMMA AppendedEnds ==
  ASSUME NEW s \in Seq(Nat), NEW e \in Nat
  PROVE  EndsIn(Append(s, e), e)
BY DEF EndsIn

LEMMA LatestEndsIn ==
  ASSUME NEW s \in Seq(Nat), NEW n \in Nat \ {0}, NEW x, EndsIn(s, x)
  PROVE  EndsIn(Latest(s, n), x)
<1>1. CASE ~(Len(s) > n)
  BY <1>1 DEF Latest
<1>2. CASE Len(s) > n
  <2> DEFINE m == Len(s) - n + 1
             r == SubSeq(s, m, Len(s))
  <2>1. Len(s) \in Nat /\ r = Latest(s, n)
    BY <1>2 DEF Latest
  <2>2. r \in Seq(Nat) /\ Len(r) = n /\ r[n] = s[m + n - 1] /\ m + n - 1 = Len(s)
    BY <1>2
  <2>3. r # <<>>
    BY <2>2
  <2> QED BY <2>1, <2>2, <2>3 DEF EndsIn
<1> QED BY <1>1, <1>2

LEMMA OfferedEnds ==
  ASSUME NEW q \in Seq(Nat), NEW e \in Nat
  PROVE  EndsIn(Offer(q, e), e)
<1>1. CASE Len(q) < QueueSize
  BY <1>1, AppendedEnds DEF Offer
<1>2. CASE ~(Len(q) < QueueSize)
  <2>1. q # <<>>
    BY <1>2, StreamAssumption
  <2>2. Tail(q) \in Seq(Nat)
    BY <2>1
  <2> QED BY <1>2, <2>2, AppendedEnds DEF Offer
<1> QED BY <1>1, <1>2

\* The last element stays the last one until it is the head.
LEMMA HeadLeaves ==
  ASSUME NEW s \in Seq(Nat), NEW x, EndsIn(s, x)
  PROVE  (Tail(s) = <<>> /\ Head(s) = x) \/ EndsIn(Tail(s), x)
<1>1. /\ Len(s) \in Nat /\ Len(s) >= 1 /\ s[Len(s)] = x /\ Head(s) = s[1]
      /\ Tail(s) \in Seq(Nat) /\ Len(Tail(s)) = Len(s) - 1
      /\ \A i \in 1..Len(s) - 1 : Tail(s)[i] = s[i + 1]
  BY DEF EndsIn
<1>2. CASE Len(s) = 1
  <2>1. \A t \in Seq(Nat) : Len(t) = 0 => t = <<>>
    OBVIOUS
  <2>2. Len(Tail(s)) = 0 /\ Head(s) = x
    BY <1>1, <1>2
  <2> QED BY <1>1, <2>1, <2>2
<1>3. CASE Len(s) > 1
  <2>1. Len(s) - 1 \in 1..Len(s) - 1 /\ Len(s) - 1 + 1 = Len(s)
    BY <1>1, <1>3
  <2>2. Tail(s)[Len(Tail(s))] = x
    BY <1>1, <2>1
  <2>3. Tail(s) # <<>>
    BY <1>1, <1>3
  <2> QED BY <2>2, <2>3 DEF EndsIn
<1> QED BY <1>1, <1>2, <1>3

LEMMA AddedOnceIsThere ==
  ASSUME NEW s \in Seq(Nat), NEW e \in Nat
  PROVE  e \in ToSet(AddOnce(s, e)) /\ ToSet(s) \subseteq ToSet(AddOnce(s, e))
<1>1. CASE e \in ToSet(s)
  BY <1>1 DEF AddOnce
<1>2. CASE e \notin ToSet(s)
  <2> DEFINE a == Append(s, e)
  <2>1. /\ Len(s) \in Nat /\ DOMAIN s = 1..Len(s) /\ DOMAIN a = 1..Len(s) + 1
        /\ a[Len(s) + 1] = e /\ \A i \in 1..Len(s) : a[i] = s[i]
    OBVIOUS
  <2> HIDE DEF a
  <2>2. 1..Len(s) \subseteq DOMAIN a /\ Len(s) + 1 \in DOMAIN a
    BY <2>1
  <2>3. e \in ToSet(a) /\ ToSet(s) \subseteq ToSet(a)
    BY <2>1, <2>2 DEF ToSet
  <2> QED BY <1>2, <2>3 DEF AddOnce, a
<1> QED BY <1>1, <1>2

LEMMA TravelsInit == Init => Travels
<1> SUFFICES ASSUME Init PROVE Travelling
  BY DEF Travels
<1>1. NoAnswers
  BY DEF Init, NoAnswers, NoRequest
<1> QED BY <1>1 DEF Init, Travelling, HistoryEnds, Brings, Drained

LEMMA BroadcastTravels == ASSUME TypeOK, Travelling, Broadcast PROVE Travelling'
<1> DEFINE e == emitted + 1
<1>1. e \in Nat /\ emitted' = e /\ UNCHANGED <<link, synced, replay, request>>
  BY DEF TypeOK, Broadcast, browser
<1>2. EndsIn(history', e)
  <2>1. history \in Seq(Nat) /\ HistorySize \in Nat \ {0}
    BY StreamAssumption DEF TypeOK
  <2>2. Append(history, e) \in Seq(Nat) /\ EndsIn(Append(history, e), e)
    BY <1>1, <2>1, AppendedEnds
  <2>3. history' = Latest(Append(history, e), HistorySize)
    BY DEF Broadcast
  <2> HIDE DEF e
  <2> QED BY <2>1, <2>2, <2>3, LatestEndsIn
<1>3. link # "none" => EndsIn(queue', e)
  <2>1. queue \in Seq(Nat)
    BY DEF TypeOK
  <2>2. EndsIn(Offer(queue, e), e)
    BY <1>1, <2>1, OfferedEnds
  <2> QED BY <2>2 DEF Broadcast
<1> HIDE DEF e
<1>4. NoAnswers'
  BY <1>1 DEF Travelling, NoAnswers
<1>5. HistoryEnds'
  BY <1>1, <1>2 DEF HistoryEnds, EndsIn
<1>6. Brings' /\ ~Drained'
  BY <1>1, <1>3 DEF Brings, Drained, EndsIn
<1> QED BY <1>4, <1>5, <1>6 DEF Travelling

\* What a new connection replays ends with the newest event.
LEMMA ReplayTravels ==
  ASSUME TypeOK, Travelling, StartSse \/ \E kind \in {"ws", "sse"} : Connect(kind)
  PROVE  Travelling'
<1>1. UNCHANGED <<emitted, history, buffer, browser>>
  BY DEF StartSse, Connect, core, observatory
<1>2. NoAnswers' /\ (emitted > 0 => HistoryEnds')
  BY <1>1 DEF Travelling, NoAnswers, HistoryEnds, EndsIn, browser
<1> DEFINE r == Latest(history, ReplaySize)
<1>3. emitted > 0 => EndsIn(r, emitted)
  <2>1. history \in Seq(Nat) /\ ReplaySize \in Nat \ {0}
    BY StreamAssumption DEF TypeOK
  <2> QED BY <2>1, LatestEndsIn DEF Travelling, HistoryEnds
<1>4. \/ synced' /\ replay' = r
      \/ ~synced'
  BY DEF StartSse, Connect, Subscribe
<1>5. queue' = <<>> \/ (queue' = queue /\ link # "none")
  BY DEF StartSse, Connect, Subscribe
<1> HIDE DEF r
<1>6. emitted > 0 => Brings' /\ ~Drained'
  BY <1>1, <1>3, <1>4, <1>5 DEF Travelling, Brings, Drained, EndsIn
<1> QED BY <1>1, <1>2, <1>6 DEF Travelling

\* A message of the connection: the newest event is still to come, or arrives everywhere.
LEMMA ReceiveTravels == ASSUME TypeOK, Travelling, Receive PROVE Travelling'
<1>1. UNCHANGED <<emitted, history, link, synced, request, shown>> /\ link # "none" /\ synced
  BY DEF Receive, core
<1>2. NoAnswers' /\ (emitted > 0 => HistoryEnds')
  BY <1>1 DEF Travelling, NoAnswers, HistoryEnds, EndsIn
<1> SUFFICES ASSUME emitted > 0 PROVE Brings' /\ (Drained' => Arrived')
  BY <1>1, <1>2 DEF Travelling
<1>3. /\ replay \in Seq(Nat) /\ queue \in Seq(Nat) /\ buffer \in Seq(Nat) /\ emitted \in Nat
      /\ window \in [Dashboards -> [open : BOOLEAN, replay : Seq(Nat), queue : Seq(Nat)]]
  BY DEF TypeOK
<1>4. /\ queue = <<>> \/ EndsIn(queue, emitted)
      /\ replay = <<>> \/ queue # <<>> \/ EndsIn(replay, emitted)
  BY <1>1 DEF Travelling, Brings
<1>5. ASSUME HandleIncoming(emitted) PROVE Arrived'
  <2>1. Append(buffer, emitted) \in Seq(Nat) /\ EndsIn(Append(buffer, emitted), emitted)
    BY <1>3, AppendedEnds
  <2>2. EndsIn(buffer', emitted)
    <3>1. HistorySize \in Nat \ {0}
      BY StreamAssumption
    <3> QED BY <1>5, <2>1, <3>1, LatestEndsIn DEF HandleIncoming
  <2>3. ASSUME NEW d \in Dashboards, window'[d].open PROVE EndsIn(window'[d].queue, emitted)
    <3>1. window'[d] = IF window[d].open THEN [window[d] EXCEPT !.queue = Offer(@, emitted)]
                                         ELSE window[d]
      BY <1>5 DEF HandleIncoming
    <3>2. window[d].open /\ window[d] \in [open : BOOLEAN, replay : Seq(Nat), queue : Seq(Nat)]
      BY <1>3, <2>3, <3>1
    <3>3. window'[d].queue = Offer(window[d].queue, emitted)
      BY <3>1, <3>2
    <3> QED BY <1>3, <3>2, <3>3, OfferedEnds
  <2> QED BY <1>1, <2>2, <2>3 DEF Arrived, WindowBrings, EndsIn
<1>6. CASE replay # <<>> /\ HandleIncoming(Head(replay)) /\ replay' = Tail(replay) /\ UNCHANGED queue
  <2>1. CASE queue # <<>>
    BY <1>1, <1>4, <1>6, <2>1 DEF Brings, Drained, EndsIn
  <2>2. CASE queue = <<>>
    <3>1. EndsIn(replay, emitted)
      BY <1>4, <1>6, <2>2
    <3>2. (replay' = <<>> /\ Head(replay) = emitted) \/ EndsIn(replay', emitted)
      BY <1>3, <1>6, <3>1, HeadLeaves
    <3> QED BY <1>1, <1>5, <1>6, <2>2, <3>2 DEF Brings, Drained, EndsIn
  <2> QED BY <2>1, <2>2
<1>7. CASE /\ replay = <<>> /\ queue # <<>> /\ HandleIncoming(Head(queue))
           /\ queue' = Tail(queue) /\ UNCHANGED replay
  <2>1. EndsIn(queue, emitted)
    BY <1>4, <1>7
  <2>2. (queue' = <<>> /\ Head(queue) = emitted) \/ EndsIn(queue', emitted)
    BY <1>3, <1>7, <2>1, HeadLeaves
  <2> QED BY <1>1, <1>5, <1>7, <2>2 DEF Brings, Drained, EndsIn
<1> QED BY <1>6, <1>7 DEF Receive

\* A window shows what it gets, and a new one gets the end of the buffer.
LEMMA WindowTravels ==
  ASSUME TypeOK, Travelling, NEW d \in Dashboards, OpenWindow(d) \/ Show(d) \/ LoseWindow(d)
  PROVE  Travelling'
<1>1. UNCHANGED <<emitted, history, link, synced, replay, queue, request, buffer>>
  BY DEF OpenWindow, Show, LoseWindow, core, conn, observatory
<1>2. NoAnswers' /\ (emitted > 0 => HistoryEnds' /\ Brings') /\ (Drained' <=> Drained)
  BY <1>1 DEF Travelling, NoAnswers, HistoryEnds, Brings, Drained, EndsIn
<1> SUFFICES ASSUME emitted > 0, Arrived PROVE Arrived'
  BY <1>1, <1>2 DEF Travelling
<1>3. /\ emitted \in Nat /\ buffer \in Seq(Nat) /\ shown \in [Dashboards -> Seq(Nat)]
      /\ window \in [Dashboards -> [open : BOOLEAN, replay : Seq(Nat), queue : Seq(Nat)]]
  BY DEF TypeOK
<1>4. EndsIn(buffer', emitted)
  BY <1>1 DEF Arrived, EndsIn
<1>5. \A x \in Dashboards : x # d => window'[x] = window[x] /\ shown'[x] = shown[x]
  BY <1>3 DEF OpenWindow, Show, LoseWindow
<1>6. /\ window[d].replay \in Seq(Nat) /\ window[d].queue \in Seq(Nat) /\ shown[d] \in Seq(Nat)
      /\ emitted \in ToSet(shown[d]) \/ ~window[d].open \/ WindowBrings(d)
  BY <1>3 DEF Arrived
<1>7. \/ emitted \in ToSet(shown'[d]) \/ ~window'[d].open
      \/ EndsIn(window'[d].queue, emitted)
      \/ (window'[d].queue = <<>> /\ EndsIn(window'[d].replay, emitted))
  <2>1. CASE OpenWindow(d)
    <3>1. ReplaySize \in Nat \ {0}
      BY StreamAssumption
    <3>2. EndsIn(Latest(buffer, ReplaySize), emitted)
      BY <1>3, <3>1, LatestEndsIn DEF Arrived
    <3>3. window'[d] = [open |-> TRUE, replay |-> Latest(buffer, ReplaySize), queue |-> <<>>]
      BY <1>3, <2>1 DEF OpenWindow
    <3> QED BY <3>2, <3>3
  <2>2. CASE LoseWindow(d)
    BY <1>3, <2>2 DEF LoseWindow, Closed
  <2>3. CASE Show(d) /\ window[d].replay # <<>>
    <3> DEFINE e == Head(window[d].replay)
    <3>1. /\ window'[d].replay = Tail(window[d].replay) /\ window'[d].queue = window[d].queue
          /\ shown'[d] = AddOnce(shown[d], e) /\ e \in Nat /\ window[d].open
      <4>1. /\ window[d].open /\ window[d].replay # <<>> /\ shown' = [shown EXCEPT ![d] = AddOnce(@, e)]
            /\ window' = [window EXCEPT ![d].replay = Tail(@)]
        BY <2>3 DEF Show
      <4>2. window'[d] = [window[d] EXCEPT !.replay = Tail(@)]
        BY <1>3, <4>1
      <4>3. window[d] \in [open : BOOLEAN, replay : Seq(Nat), queue : Seq(Nat)]
        BY <1>3
      <4>4. window'[d].replay = Tail(window[d].replay) /\ window'[d].queue = window[d].queue
        BY <4>2, <4>3
      <4>5. e \in Nat
        BY <1>6, <4>1
      <4> QED BY <1>3, <4>1, <4>4, <4>5
    <3> HIDE DEF e
    <3>2. e \in ToSet(shown'[d]) /\ ToSet(shown[d]) \subseteq ToSet(shown'[d])
      BY <1>6, <3>1, AddedOnceIsThere
    <3>3. CASE EndsIn(window[d].replay, emitted) /\ window[d].queue = <<>>
      <4>1. e = emitted \/ EndsIn(Tail(window[d].replay), emitted)
        BY <1>6, <3>3, HeadLeaves DEF e
      <4> QED BY <3>1, <3>2, <3>3, <4>1
    <3> QED BY <1>6, <3>1, <3>2, <3>3 DEF WindowBrings
  <2>4. CASE Show(d) /\ window[d].replay = <<>>
    <3> DEFINE e == Head(window[d].queue)
    <3>1. /\ window'[d].replay = window[d].replay /\ window'[d].queue = Tail(window[d].queue)
          /\ shown'[d] = AddOnce(shown[d], e) /\ e \in Nat /\ window[d].open /\ window[d].queue # <<>>
      <4>1. /\ window[d].open /\ window[d].queue # <<>> /\ shown' = [shown EXCEPT ![d] = AddOnce(@, e)]
            /\ window' = [window EXCEPT ![d].queue = Tail(@)]
        BY <2>4 DEF Show
      <4>2. window'[d] = [window[d] EXCEPT !.queue = Tail(@)]
        BY <1>3, <4>1
      <4>3. window[d] \in [open : BOOLEAN, replay : Seq(Nat), queue : Seq(Nat)]
        BY <1>3
      <4>4. window'[d].queue = Tail(window[d].queue) /\ window'[d].replay = window[d].replay
        BY <4>2, <4>3
      <4>5. e \in Nat
        BY <1>6, <4>1
      <4> QED BY <1>3, <4>1, <4>4, <4>5
    <3> HIDE DEF e
    <3>2. e \in ToSet(shown'[d]) /\ ToSet(shown[d]) \subseteq ToSet(shown'[d])
      BY <1>6, <3>1, AddedOnceIsThere
    <3>3. CASE EndsIn(window[d].queue, emitted)
      <4>1. e = emitted \/ EndsIn(Tail(window[d].queue), emitted)
        BY <1>6, <3>3, HeadLeaves DEF e
      <4> QED BY <3>1, <3>2, <3>3, <4>1
    <3> QED BY <1>6, <2>4, <3>1, <3>2, <3>3 DEF WindowBrings, EndsIn
  <2> QED BY <2>1, <2>2, <2>3, <2>4
<1>8. \A x \in Dashboards : emitted \in ToSet(shown'[x]) \/ ~window'[x].open
                            \/ EndsIn(window'[x].queue, emitted)
                            \/ (window'[x].queue = <<>> /\ EndsIn(window'[x].replay, emitted))
  BY <1>5, <1>7 DEF Arrived, WindowBrings
<1> QED BY <1>1, <1>4, <1>8 DEF Arrived, WindowBrings, EndsIn

\* Without a connection nothing has to come, or everything is as it was.
LEMMA OthersTravel ==
  ASSUME Travelling,
         \/ AddEvent \/ Disconnect \/ CoreStarts \/ CheckHealth \/ EndOfStream \/ Wake \/ ObservatoryRestarts
         \/ (\E kind \in {"ws", "sse"} : ConnectFails(kind)) \/ UNCHANGED vars
  PROVE  Travelling'
<1>1. UNCHANGED <<emitted, history>> /\ NoAnswers'
  BY DEF Travelling, NoAnswers, AddEvent, Disconnect, CoreStarts, CheckHealth, EndOfStream, Wake,
         ObservatoryRestarts, ConnectFails, vars, core, browser, NoRequest
<1>2. link' = "none" \/ UNCHANGED <<conn, buffer, window, shown>>
  BY DEF AddEvent, Disconnect, CoreStarts, CheckHealth, EndOfStream, Wake, ObservatoryRestarts,
         ConnectFails, Unsubscribe, vars, observatory, browser
<1>3. emitted > 0 => HistoryEnds'
  BY <1>1 DEF Travelling, HistoryEnds, EndsIn
<1>4. CASE link' = "none"
  BY <1>1, <1>3, <1>4 DEF Travelling, Brings, Drained
<1>5. CASE UNCHANGED <<conn, buffer, window, shown>>
  <2>1. (emitted > 0 => Brings') /\ (Drained' <=> Drained) /\ (Arrived' <=> Arrived)
    BY <1>1, <1>5 DEF Travelling, Brings, Drained, Arrived, WindowBrings, EndsIn, conn
  <2> QED BY <1>1, <1>3, <2>1 DEF Travelling
<1> QED BY <1>2, <1>4, <1>5

LEMMA TravelsStep == TypeOK /\ Travels /\ [Next]_vars => Travels'
<1> SUFFICES ASSUME TypeOK, Travels, [Next]_vars, restarts' = 0, selects' = 0 PROVE Travelling'
  BY DEF Travels
<1>1. CASE restarts = 0 /\ selects = 0
  <2>1. Travelling /\ restarts \in Nat /\ selects \in Nat
    BY <1>1 DEF Travels, TypeOK
  <2>2. ~CoreStops /\ \A d \in Dashboards : ~SelectRun(d)
    BY <2>1 DEF CoreStops, SelectRun
  <2>3. \A d \in Dashboards : ~MergeBuffered(d) /\ ~ShowRun(d)
    BY <2>1 DEF Travelling, NoAnswers, MergeBuffered, ShowRun
  <2> QED BY <2>1, <2>2, <2>3, BroadcastTravels, ReplayTravels, ReceiveTravels, WindowTravels,
             OthersTravel DEF Next, ConsumerStep, WindowStep
<1>2. CASE ~(restarts = 0 /\ selects = 0)
  <2>1. restarts \in Nat /\ selects \in Nat
    BY DEF TypeOK
  <2>2. (restarts' = restarts \/ restarts' = restarts + 1) /\ (selects' = selects \/ selects' = selects + 1)
    BY DEF Next, vars, counters, AddEvent, Broadcast, StartSse, Disconnect, CoreStops, CoreStarts, ConsumerStep,
           CheckHealth, EndOfStream, Wake, Connect, ConnectFails, Receive, ObservatoryRestarts,
           WindowStep, OpenWindow, Show, MergeBuffered, ShowRun, LoseWindow, SelectRun
  <2> QED BY <1>2, <2>1, <2>2
<1> QED BY <1>1, <1>2

\* Nothing is left that would bring a dashboard anything: the connection and the window are open,
\* and their queues are empty.
NothingLeft(d) ==
  Drained /\ window[d].open /\ window[d].replay = <<>> /\ window[d].queue = <<>>

\* A dashboard for which nothing is left has seen the newest event that was broadcast.
NewestWasShown ==
  restarts = 0 /\ selects = 0 /\ emitted > 0 =>
    \A d \in Dashboards : NothingLeft(d) => emitted \in ToSet(shown[d])

\* However many connections and windows were lost, however often the Observatory was restarted,
\* and whatever the queues dropped: as long as Core was not stopped and no run was opened, the
\* newest event is shown, or the connection, the replay or a queue has still to bring it. The
\* fairness of the consumer and of the windows, which makes NewestIsShown of this, is TLC's.
THEOREM StreamNewestWasShown == Spec => []NewestWasShown
<1>1. Travels => NewestWasShown
  BY DEF Travels, Travelling, NewestWasShown, NothingLeft, Arrived, WindowBrings, EndsIn
<1>2. TypeOK /\ Travels /\ [Next]_vars => Travels'
  BY TravelsStep
<1> QED BY <1>1, <1>2, TravelsInit, StreamTypeCorrect, PTL DEF Spec
=============================================================================
