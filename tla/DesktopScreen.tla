----------------------------- MODULE DesktopScreen -----------------------------
(***************************************************************************)
(* The desktop as UI Automation shows it (backend/desktop/uia.py): windows *)
(* with a title, the controls of each in the order of its tree, and the    *)
(* window in the foreground.  The user and the programs change it at any   *)
(* time; every search is a call of its own in another thread.              *)
(*                                                                         *)
(* A control keeps its identity (rid, the RuntimeId) while its name, state *)
(* or place change.                                                        *)
(***************************************************************************)
EXTENDS Naturals, Sequences

CONSTANTS
  Windows,     \* titles of the windows
  Layouts,     \* the sequences of controls a window may show
  Within,      \* pairs <<n, m>>: n is a part of m, case ignored
  Nothing,     \* None
  MaxElements, \* DesktopObserver: 60
  MaxChanges   \* bound: what the user and the programs do

Controls == UNION {{l[i] : i \in DOMAIN l} : l \in Layouts}

ScreenAssumption ==
  /\ Nothing \notin Windows /\ {MaxElements, MaxChanges} \subseteq Nat
  /\ Layouts \subseteq Seq(Controls)
  /\ \A c \in Controls : c.rid \in Nat \ {0}
  /\ \A pair \in Within : Len(pair) = 2 /\ pair[2] # ""

VARIABLES
  opened,      \* the windows there are
  layout,      \* what each one shows
  foreground,  \* the window in front, or Nothing
  changes      \* counter of the bound

screen == <<opened, layout, foreground, changes>>

Contains(whole, part) == part \in {"", whole} \/ <<part, whole>> \in Within

ScreenInit ==
  /\ opened \in SUBSET Windows /\ foreground \in opened \cup {Nothing}
  /\ layout \in [Windows -> Layouts] /\ changes = 0

UserActs ==
  /\ changes < MaxChanges /\ changes' = changes + 1
  /\ \/ /\ \E w \in opened, l \in Layouts : layout' = [layout EXCEPT ![w] = l]
        /\ UNCHANGED <<opened, foreground>>
     \/ /\ \E w \in Windows : opened' = opened \cup {w} /\ foreground' = w
        /\ UNCHANGED layout
     \/ /\ \E w \in opened : /\ opened' = opened \ {w}
                             /\ foreground' = IF foreground = w THEN Nothing ELSE foreground
        /\ UNCHANGED layout

-----------------------------------------------------------------------------
\* find_window: a window whose title contains this one; Nothing also when a call of UI
\* Automation raises.
FindWindow(title) == {w \in opened : Contains(w, title)} \cup {Nothing}

\* get_active_window.
Active == {foreground, Nothing}

\* The window a search walks: without one, what is in front by then.
Root(w) == IF w = Nothing THEN foreground ELSE w

AsControl(w) ==
  [rid |-> 0, name |-> w, aid |-> "", kind |-> "window", state |-> "none", value |-> "",
   invoke |-> FALSE, ready |-> TRUE]

Same(c, d) == c.rid = d.rid

\* Mutant: a search for a name looks at the type alone when it has one.
MatchesType(c, name, aid, kind) ==
  IF kind # "" THEN Contains(c.kind, kind) ELSE Contains(c.name, name) \/ Contains(c.aid, aid)

\* An empty criterion is not looked at, but one must be given.
Matches(c, name, aid, kind) ==
  /\ name # "" => Contains(c.name, name)
  /\ aid # "" => Contains(c.aid, aid)
  /\ kind # "" => Contains(c.kind, kind)
  /\ <<name, aid, kind>> # <<"", "", "">>

\* The tree of a window begins with the window itself.
Tree(w) == IF w \in opened THEN <<AsControl(w)>> \o layout[w] ELSE <<>>

\* find_element walks the tree to the first control that matches.  A control that cannot be
\* read is skipped with what is below it, so a later one may be found, or Nothing.
FindElement(w, name, aid, kind) ==
  {[window |-> w, control |-> Tree(w)[i]] :
     i \in {j \in DOMAIN Tree(w) : Matches(Tree(w)[j], name, aid, kind)}} \cup {Nothing}

\* A control that was found can still be used, whatever it is called by now.
Live(ref) == \E i \in DOMAIN Tree(ref.window) : Same(Tree(ref.window)[i], ref.control)

-----------------------------------------------------------------------------
(* get_elements and observe.                                               *)

\* The elements of a list at some places, in their order.
Those(all, places) ==
  LET pick[n \in 0 .. Len(all)] ==
        IF n = 0 THEN <<>>
        ELSE IF n \in places THEN Append(pick[n - 1], all[n]) ELSE pick[n - 1]
  IN  pick[Len(all)]

\* The walk skips what cannot be read.
Walks(w) == IF w \in opened THEN SUBSET DOMAIN layout[w] ELSE {{}}

\* Of what was walked, the visible and enabled controls; toggles rank first.  An element
\* keeps its place (the bounding box).
Ranked(w, walked) ==
  LET all == IF w \in opened
             THEN [i \in DOMAIN layout[w] |-> [control |-> layout[w][i], place |-> i]] ELSE <<>>
      Picked(toggles) ==
        {i \in walked : all[i].control.ready /\ (all[i].control.state # "none") = toggles}
  IN  Those(all, Picked(TRUE)) \o Those(all, Picked(FALSE))

Elements(w, walked) ==
  LET r == Ranked(w, walked) IN SubSeq(r, 1, IF Len(r) < MaxElements THEN Len(r) ELSE MaxElements)

ElementType == [control : Controls, place : Nat \ {0}]

ScreenTypeOK ==
  /\ opened \subseteq Windows /\ foreground \in opened \cup {Nothing}
  /\ layout \in [Windows -> Layouts] /\ changes \in 0 .. MaxChanges
=============================================================================
