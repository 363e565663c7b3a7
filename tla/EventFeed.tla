------------------------------ MODULE EventFeed ------------------------------
(***************************************************************************)
(* What one connection to the stream of events promises: the abstract      *)
(* specification that a WebSocket of EventStream implements.  Events are   *)
(* numbered in the order in which they are published.  A connection may    *)
(* skip events, but it never repeats one or goes back.                     *)
(***************************************************************************)
EXTENDS Integers, Sequences

VARIABLES
  emitted,  \* the number of events published so far
  up,       \* whether the connection is open
  seen      \* what has come over it since it was opened

feed == <<emitted, up, seen>>

Newest == IF seen = <<>> THEN 0 ELSE seen[Len(seen)]

Init == emitted = 0 /\ up = FALSE /\ seen = <<>>

Publish == emitted' = emitted + 1 /\ UNCHANGED <<up, seen>>
Open    == ~up /\ up' = TRUE /\ seen' = <<>> /\ UNCHANGED emitted
Deliver == /\ up /\ \E n \in Newest + 1 .. emitted : seen' = Append(seen, n)
           /\ UNCHANGED <<emitted, up>>
Close   == up /\ up' = FALSE /\ seen' = <<>> /\ UNCHANGED emitted

Next == Publish \/ Open \/ Deliver \/ Close

Spec == Init /\ [][Next]_feed
=============================================================================
