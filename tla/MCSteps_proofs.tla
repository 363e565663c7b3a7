--------------------------- MODULE MCSteps_proofs ---------------------------
(***************************************************************************)
(* The parts of MCSteps, for every value of its constants: the types of    *)
(* all of them, what an action of the browser executor reports and how     *)
(* often it sends Enter (BrowserActions), that what counts as ingested is  *)
(* stored (Knowledge), what reaches a prompt (Context), that a task is     *)
(* done only with evidence (Completion, DesktopGoals), what a click on the *)
(* desktop operates (DesktopClick), and that a model that can do what is   *)
(* asked is chosen (ModelRouting).                                         *)
(***************************************************************************)
EXTENDS MCSteps, WellFoundedInduction, NaturalsInduction, TLAPS

-----------------------------------------------------------------------------
(* Loops over a sequence are written as recursive functions                  *)
(*                                                                           *)
(*    f[n \in 0..N] == IF n = 0 THEN start ELSE next of f[n - 1] and n       *)
(*                                                                           *)
(* whose value after the last element is the result.  A step given as a      *)
(* function, from a set of partial results G into itself, has such an f,     *)
(* and the result is in G: what every step keeps is true of the whole.       *)

LEMMA LeastNatural ==
  ASSUME NEW T \in SUBSET Nat, T # {}
  PROVE  \E x \in T : \A y \in T : x <= y
<1> DEFINE R == OpToRel(<, Nat)
<1>1. IsWellFoundedOn(R, Nat)
  BY NatLessThanWellFounded, Zenon
<1>2. \A a, b \in Nat : a < b => <<a, b>> \in R
  BY DEF OpToRel
<1> HIDE DEF R
<1>3. PICK x \in T : \A y \in T : ~(<<y, x>> \in R)
  BY <1>1, WFMin
<1>4. \A y \in T : ~(y < x)
  BY <1>2, <1>3
<1>5. ASSUME NEW y \in T PROVE x <= y
  <2>1. x \in Nat /\ y \in Nat /\ ~(y < x)
    BY <1>4
  <2> QED BY <2>1
<1> QED BY <1>5

\* Induction over the naturals for a set.
LEMMA SetInduction ==
  ASSUME NEW S, 0 \in S, \A n \in Nat : n \in S => n + 1 \in S
  PROVE  Nat \subseteq S
<1> DEFINE T == Nat \ S
<1> SUFFICES ASSUME T # {} PROVE FALSE
  OBVIOUS
<1>1. PICK x \in T : \A y \in T : x <= y
  BY LeastNatural
<1>2. x \in Nat /\ x # 0
  OBVIOUS
<1>3. x - 1 \in Nat /\ x - 1 \in S
  BY <1>1, <1>2
<1> QED BY <1>3

\* The functions that compute the loop up to element n.
Runs(G, start, next, n) ==
  {f \in [0..n -> G] : f[0] = start /\ \A m \in 1..n : f[m] = next[<<f[m - 1], m>>]}

LEMMA RunsExist ==
  ASSUME NEW N \in Nat, NEW G, NEW start \in G, NEW next \in [G \X (1..N) -> G]
  PROVE  \E f : f \in Runs(G, start, next, N)
<1> DEFINE P == {n \in Nat : n <= N => \E f : f \in Runs(G, start, next, n)}
<1>1. 0 \in P
  <2> DEFINE f == [m \in 0..0 |-> start]
  <2>1. f \in [0..0 -> G] /\ f[0] = start /\ 1..0 = {}
    OBVIOUS
  <2> QED BY <2>1 DEF Runs
<1>2. ASSUME NEW n \in Nat, n \in P PROVE n + 1 \in P
  <2> SUFFICES ASSUME n + 1 <= N PROVE \E g : g \in Runs(G, start, next, n + 1)
    OBVIOUS
  <2>1. PICK f : f \in Runs(G, start, next, n)
    BY <1>2
  <2>2. f \in [0..n -> G] /\ f[0] = start /\ \A m \in 1..n : f[m] = next[<<f[m - 1], m>>]
    BY <2>1 DEF Runs
  <2> DEFINE e == next[<<f[n], n + 1>>]
  <2>3. e \in G
    <3>1. f[n] \in G /\ n + 1 \in 1..N
      BY <2>2
    <3> QED BY <3>1
  <2> DEFINE g == [m \in 0..n + 1 |-> IF m <= n THEN f[m] ELSE e]
  <2> HIDE DEF e
  <2>4. g \in [0..n + 1 -> G]
    BY <2>2, <2>3
  <2>5. g[0] = start /\ g[n + 1] = e /\ \A m \in 0..n : g[m] = f[m]
    BY <2>2
  <2> HIDE DEF g
  <2>6. ASSUME NEW m \in 1..n + 1 PROVE g[m] = next[<<g[m - 1], m>>]
    <3>1. CASE m = n + 1
      <4>1. m - 1 = n /\ n \in 0..n
        BY <3>1
      <4> QED BY <2>5, <3>1, <4>1 DEF e
    <3>2. CASE m # n + 1
      <4>1. m \in 1..n /\ m \in 0..n /\ m - 1 \in 0..n
        BY <3>2
      <4> QED BY <2>2, <2>5, <4>1
    <3> QED BY <3>1, <3>2
  <2>7. g \in Runs(G, start, next, n + 1)
    BY <2>4, <2>5, <2>6 DEF Runs
  <2> QED BY <2>7
<1> HIDE DEF P
<1>3. Nat \subseteq P
  BY <1>1, <1>2, SetInduction
<1> QED BY <1>3 DEF P

\* Whatever computes the loop stays in G.
LEMMA RunsOnly ==
  ASSUME NEW N \in Nat, NEW G, NEW start \in G, NEW next \in [G \X (1..N) -> G],
         NEW h, h = [n \in 0..N |-> h[n]], h[0] = start,
         \A m \in 1..N : h[m - 1] \in G => h[m] = next[<<h[m - 1], m>>]
  PROVE  h \in Runs(G, start, next, N)
<1> DEFINE P == {n \in Nat : n <= N => h[n] \in G}
<1>1. 0 \in P
  OBVIOUS
<1>2. ASSUME NEW n \in Nat, n \in P PROVE n + 1 \in P
  <2>1. CASE n + 1 <= N
    <3>1. h[n] \in G /\ n + 1 \in 1..N /\ (n + 1) - 1 = n
      BY <1>2, <2>1
    <3>2. h[n + 1] = next[<<h[n], n + 1>>]
      BY <3>1
    <3> QED BY <3>1, <3>2
  <2> QED BY <2>1
<1> HIDE DEF P
<1>3. Nat \subseteq P
  BY <1>1, <1>2, SetInduction
<1>4. \A n \in 0..N : h[n] \in G
  BY <1>3 DEF P
<1>5. h \in [0..N -> G]
  BY <1>4
<1>6. \A m \in 1..N : h[m - 1] \in G
  BY <1>4
<1> QED BY <1>5, <1>6 DEF Runs

\* What holds before the loop and is kept by each of its steps holds after every step.
LEMMA RunsKeep ==
  ASSUME NEW N \in Nat, NEW G, NEW start \in G, NEW next \in [G \X (1..N) -> G],
         NEW I \in [0..N -> SUBSET G], start \in I[0],
         \A m \in 1..N : \A a \in I[m - 1] : next[<<a, m>>] \in I[m],
         NEW h \in Runs(G, start, next, N)
  PROVE  \A n \in 0..N : h[n] \in I[n]
<1>h. h[0] = start /\ \A m \in 1..N : h[m] = next[<<h[m - 1], m>>]
  BY DEF Runs
<1> DEFINE P == {n \in Nat : n <= N => h[n] \in I[n]}
<1>1. 0 \in P
  BY <1>h
<1>2. ASSUME NEW n \in Nat, n \in P PROVE n + 1 \in P
  <2>1. CASE n + 1 <= N
    <3>1. h[n] \in I[n] /\ n + 1 \in 1..N /\ (n + 1) - 1 = n
      BY <1>2, <2>1
    <3>2. h[n + 1] = next[<<h[n], n + 1>>]
      BY <1>h, <3>1
    <3> QED BY <3>1, <3>2
  <2> QED BY <2>1
<1> HIDE DEF P
<1>3. Nat \subseteq P
  BY <1>1, <1>2, SetInduction
<1> QED BY <1>3 DEF P
-----------------------------------------------------------------------------
(* Actions in a page.                                                        *)

\* How often Enter was sent.
Sent == entered["form"] + entered["next"] + entered["failed"]

TypePcs == {"fill", "readBack", "enter", "clickBox", "keys", "keyEnter", "keyDetect"}

\* The await that comes next belongs to the action.
Places ==
  /\ act.press => act.kind = "type"
  /\ pc \in TypePcs => act.kind = "type"
  /\ pc \in {"goto", "checkUrl"} => act.kind = "navigate"
  /\ pc \in {"before", "operate", "compare"} => act.kind \notin {"type", "navigate"}
  /\ pc \in {"enter", "keyEnter"} => act.press
  /\ pc # "done" => result = "none"

\* Every load has its attempt.
LoadsCounted == loads <= attempt + (IF pc \in {"goto", "idle"} THEN 0 ELSE 1)

\* Before the keyboard takes over nothing was typed, and Enter is sent once at the end of
\* each of the two ways to type.
Sendings ==
  act.kind = "type" =>
    /\ pc \in {"idle", "fill", "readBack", "enter"} => typed = {} /\ Sent = 0
    /\ ~act.press => Sent = 0
    /\ pc \in {"clickBox", "keys", "keyEnter", "detect"} => Sent <= 1
    /\ Sent <= 2

\* What was read back decides; a check of the URL is about the page that is still there.
Truths ==
  /\ readBack = "other" => act.kind = "type" /\ pc = "done" /\ result = "failure"
                           /\ typed = {} /\ Sent = 0
  /\ act.kind = "navigate" /\ pc = "checkUrl" => page \in {"next", "failed"}
  /\ act.kind = "navigate" /\ pc = "detect" => page = "next" /\ loaded = "next"
  /\ NavigateTellsTruth

Inv == TypeOK /\ Places /\ LoadsCounted /\ Sendings /\ Truths

LEMMA EnterCounts == ASSUME entered \in [Documents -> Nat], page \in Documents, Enter
                     PROVE  entered' \in [Documents -> Nat] /\ Sent' = Sent + 1
<1>1. entered' \in [Documents -> Nat] BY DEF Enter, Documents
<1>2. CASE page = "form" BY <1>2 DEF Enter, Sent, Documents
<1>3. CASE page = "next" BY <1>3 DEF Enter, Sent, Documents
<1>4. CASE page = "failed" BY <1>4 DEF Enter, Sent, Documents
<1> QED BY <1>1, <1>2, <1>3, <1>4 DEF Documents

LEMMA SentNat == ASSUME entered \in [Documents -> Nat] PROVE Sent \in Nat
BY DEF Sent, Documents

LEMMA SentNone == ASSUME entered \in [Documents -> Nat]
                  PROVE  Sent = 0 <=> \A d \in Documents : entered[d] = 0
BY DEF Sent, Documents

LEMMA InitInv == Init => Inv
<1> SUFFICES ASSUME Init PROVE Inv OBVIOUS
<1>1. Sent = 0 BY DEF Init, Sent, Documents
<1>2. TypeOK
  <2>1. attempt \in 0..Attempts - 1 /\ loads \in 0..Attempts /\ changes \in 0..MaxChanges
    BY ActionsAssumption DEF Init
  <2>2. entered \in [Documents -> Nat] BY DEF Init
  <2>3. act \in Actions /\ changed \in BOOLEAN BY DEF Init
  <2> QED BY <2>1, <2>2, <2>3 DEF Init, TypeOK, Documents
<1>3. LoadsCounted BY DEF Init, LoadsCounted
<1> QED BY <1>1, <1>2, <1>3
       DEF Inv, Init, Places, Sendings, Truths, NavigateTellsTruth, TypePcs

-----------------------------------------------------------------------------
\* Steps that neither load nor send Enter: typing and the counters are what is left to show.
LEMMA QuietInv ==
  ASSUME Inv, TypeOK', UNCHANGED <<act, loads, entered, attempt>>, pc \notin {"idle", "goto"},
         pc' \notin {"idle", "goto"}
  PROVE  LoadsCounted' /\ Sent' = Sent
BY DEF Inv, LoadsCounted, Sent

LEMMA TypeTextInv ==
  ASSUME Inv, Fill \/ ReadBack \/ ClickBox \/ Keys
  PROVE  Inv'
<1>1. TypeOK'
  <2>1. CASE Fill BY <2>1 DEF Inv, Fill, TypeOK, seen
  <2>2. CASE ReadBack BY <2>2 DEF Inv, ReadBack, TypeOK, NotVerified, Return
  <2>3. CASE ClickBox BY <2>3 DEF Inv, ClickBox, TypeOK, seen, Return
  <2>4. CASE Keys BY <2>4 DEF Inv, Keys, TypeOK, Return, Documents
  <2> QED BY <2>1, <2>2, <2>3, <2>4
<1>2. LoadsCounted' /\ Sent' = Sent
  <2>1. UNCHANGED <<act, loads, entered, attempt>> BY DEF Fill, ReadBack, ClickBox, Keys, seen
  <2>2. pc \notin {"idle", "goto"} /\ pc' \notin {"idle", "goto"}
    BY DEF Fill, ReadBack, ClickBox, Keys, NotVerified, Return
  <2> QED BY <1>1, <2>1, <2>2, QuietInv
<1>3. Places'
  BY DEF Inv, TypeOK, Places, Fill, ReadBack, ClickBox, Keys, NotVerified, Return, TypePcs
<1>4. Sent \in Nat BY SentNat DEF Inv, TypeOK
<1>5. Sendings'
  BY <1>2, <1>4 DEF Inv, Sendings, Places, Fill, ReadBack, ClickBox, Keys, NotVerified, Return,
                    TypePcs, seen
<1>6. Truths'
  BY <1>2 DEF Inv, Sendings, Places, Truths, NavigateTellsTruth, Fill, ReadBack, ClickBox, Keys,
                    NotVerified, Return, TypePcs, seen
<1> QED BY <1>1, <1>2, <1>3, <1>5, <1>6 DEF Inv

LEMMA EnterInv == ASSUME Inv, PressEnter \/ KeyEnter PROVE Inv'
<1>0. entered \in [Documents -> Nat] /\ page \in Documents BY DEF Inv, TypeOK
<1>1. /\ entered' \in [Documents -> Nat]
      /\ Sent' = Sent + 1 \/ Sent' = Sent
  <2>1. Enter \/ entered' = entered BY DEF PressEnter, KeyEnter
  <2> QED BY <1>0, <2>1, EnterCounts DEF Sent
<1>2. TypeOK' BY <1>1 DEF Inv, TypeOK, PressEnter, KeyEnter, Return
<1>3. LoadsCounted' BY DEF Inv, TypeOK, LoadsCounted, PressEnter, KeyEnter, Return
<1>4. Places' BY DEF Inv, Places, PressEnter, KeyEnter, Return, TypePcs
<1>5. Sent \in Nat BY <1>0, SentNat
<1>6. Sendings'
  BY <1>1, <1>5 DEF Inv, Sendings, Places, PressEnter, KeyEnter, Return, TypePcs
<1>7. Truths'
  BY DEF Inv, Places, Truths, NavigateTellsTruth, PressEnter, KeyEnter, Return, TypePcs
<1> QED BY <1>2, <1>3, <1>4, <1>6, <1>7 DEF Inv

LEMMA OperateInv == ASSUME Inv, Before \/ Operate \/ Compare PROVE Inv'
<1>0. entered \in [Documents -> Nat] /\ page \in Documents BY DEF Inv, TypeOK
<1>1. entered' \in [Documents -> Nat]
  <2>1. Enter \/ entered' = entered BY DEF Before, Operate, Compare, seen
  <2> QED BY <1>0, <2>1, EnterCounts
<1>2. TypeOK' BY <1>1 DEF Inv, TypeOK, Before, Operate, Compare, seen, Return
<1>3. LoadsCounted' BY DEF Inv, TypeOK, LoadsCounted, Before, Operate, Compare, seen, Return
<1>4. Places' BY DEF Inv, Places, Before, Operate, Compare, seen, Return, TypePcs
<1>5. Sendings' BY DEF Inv, Places, Sendings, Before, Operate, Compare, seen
<1>6. Truths'
  BY DEF Inv, Places, Truths, NavigateTellsTruth, Before, Operate, Compare, seen, Return
<1> QED BY <1>2, <1>3, <1>4, <1>5, <1>6 DEF Inv

\* Whether the error is worth an attempt or not, no attempt is counted that was not left.
LEMMA RaisedCounts ==
  ASSUME NEW transient \in BOOLEAN, attempt \in 0..Attempts - 1, Raised(transient)
  PROVE  /\ attempt' \in 0..Attempts - 1
         /\ \/ pc' = "goto" /\ attempt' = attempt + 1 /\ result' = result
            \/ pc' = "done" /\ attempt' = attempt /\ result' = "failure"
BY ActionsAssumption DEF Raised, LastAttempt, Return

LEMMA NavigateInv == ASSUME Inv, Goto \/ CheckUrl PROVE Inv'
<1>0. attempt \in 0..Attempts - 1 /\ loads \in 0..Attempts /\ attempt \in Nat /\ loads \in Nat
      /\ act.kind = "navigate" /\ ~act.press /\ result = "none" /\ pc \notin {"idle", "done"}
  <2>1. pc \in {"goto", "checkUrl"} BY DEF Goto, CheckUrl
  <2>2. act.kind = "navigate" /\ ~act.press /\ result = "none" BY <2>1 DEF Inv, Places
  <2>3. attempt \in 0..Attempts - 1 /\ loads \in 0..Attempts BY DEF Inv, TypeOK
  <2> QED BY <2>1, <2>2, <2>3, ActionsAssumption
<1>1. /\ attempt' \in 0..Attempts - 1
      /\ \/ pc' \in {"checkUrl", "detect"} /\ attempt' = attempt /\ result' = result
         \/ pc' = "goto" /\ attempt' = attempt + 1 /\ result' = result
         \/ pc' = "done" /\ attempt' = attempt /\ result' = "failure"
  <2>1. \/ \E transient \in BOOLEAN : Raised(transient)
        \/ pc' \in {"checkUrl", "detect"} /\ UNCHANGED <<attempt, result>>
    BY DEF Goto, CheckUrl
  <2>2. CASE \E transient \in BOOLEAN : Raised(transient)
    <3>1. PICK transient \in BOOLEAN : Raised(transient) BY <2>2
    <3> QED BY <1>0, <3>1, RaisedCounts
  <2> QED BY <1>0, <2>1, <2>2
<1>2. UNCHANGED <<act, field, readBack, changed, entered, typed, changes>>
      /\ loaded' \in {loaded, page} /\ page' \in {page, "next", "failed"}
      /\ loads' = (IF pc = "goto" THEN loads + 1 ELSE loads) /\ pc \in {"goto", "checkUrl"}
  BY DEF Goto, CheckUrl
<1>3. loads' \in 0..Attempts /\ LoadsCounted'
  <2>1. Attempts \in Nat /\ attempt <= Attempts - 1 BY <1>0, ActionsAssumption
  <2>2. loads <= attempt + (IF pc = "goto" THEN 0 ELSE 1) BY <1>0 DEF Inv, LoadsCounted
  <2>3. loads' <= attempt + 1 /\ loads' \in Nat BY <1>0, <1>2, <2>2
  <2>4. pc' = "goto" => attempt' = attempt + 1 BY <1>1
  <2>5. attempt' \in {attempt, attempt + 1} BY <1>1
  <2>6. loads' <= attempt' + (IF pc' \in {"goto", "idle"} THEN 0 ELSE 1)
    <3>1. CASE attempt' = attempt + 1 BY <1>0, <2>3, <3>1
    <3>2. CASE attempt' = attempt /\ pc' \notin {"goto", "idle"} BY <1>0, <2>3, <3>2
    <3> QED BY <1>1, <3>1, <3>2
  <2> QED BY <1>0, <2>1, <2>3, <2>6 DEF LoadsCounted
<1>4. TypeOK' BY <1>1, <1>2, <1>3, <1>0 DEF Inv, TypeOK, Documents
<1>5. Places' BY <1>0, <1>1, <1>2 DEF Places, TypePcs
<1>6. Sendings' BY <1>0, <1>2 DEF Sendings
<1>7. Truths'
  <2>1. readBack # "other" BY <1>0 DEF Inv, Truths
  <2>2. pc' = "checkUrl" => page' \in {"next", "failed"}
    BY <1>1, <1>2 DEF Goto, CheckUrl, Raised, Return
  <2>3. pc' = "detect" => page' = "next" /\ loaded' = "next"
    BY <1>0 DEF Inv, Truths, Goto, CheckUrl, Raised, Return, Acceptable
  <2> QED BY <1>0, <1>1, <1>2, <2>1, <2>2, <2>3 DEF Truths, NavigateTellsTruth
<1> QED BY <1>3, <1>4, <1>5, <1>6, <1>7 DEF Inv

LEMMA DetectInv == ASSUME Inv, Detect PROVE Inv'
<1>0. attempt \in 0..Attempts - 1 /\ attempt \in Nat /\ loads \in Nat
      /\ result = "none" /\ pc \in {"detect", "keyDetect"}
  BY ActionsAssumption DEF Inv, TypeOK, Places, Detect
<1>1. /\ attempt' \in 0..Attempts - 1
      /\ \/ pc' = "done" /\ attempt' = attempt /\ result' \in {"success", "failure"}
         \/ act.kind = "navigate" /\ pc' = "goto" /\ attempt' = attempt + 1 /\ result' = result
         \/ act.kind = "type" /\ pc = "detect" /\ pc' = "clickBox" /\ attempt' = attempt
            /\ result' = result
  <2>1. CASE \E transient \in BOOLEAN : Raised(transient) /\ act.kind = "navigate"
    <3>1. PICK transient \in BOOLEAN : Raised(transient) /\ act.kind = "navigate" BY <2>1
    <3> QED BY <1>0, <3>1, RaisedCounts
  <2> QED BY <1>0, <2>1 DEF Detect, Return
<1>2. UNCHANGED <<act, page, field, seen, changes>> BY DEF Detect
<1>3. TypeOK' BY <1>0, <1>1, <1>2 DEF Inv, TypeOK, seen
<1>4. LoadsCounted'
  <2>1. loads' = loads BY <1>2 DEF seen
  <2>2. loads <= attempt + 1 BY <1>0 DEF Inv, LoadsCounted
  <2>3. CASE pc' = "goto" BY <1>0, <1>1, <2>1, <2>2, <2>3 DEF LoadsCounted
  <2>4. CASE pc' # "goto" BY <1>0, <1>1, <2>1, <2>2, <2>4 DEF LoadsCounted
  <2> QED BY <2>3, <2>4
<1>5. Places' BY <1>0, <1>1, <1>2 DEF Inv, Places, TypePcs
<1>6. Sendings'
  <2>1. Sent' = Sent BY <1>2 DEF Sent, seen
  <2> QED BY <1>0, <1>1, <1>2, <2>1 DEF Inv, Sendings
<1>7. Truths'
  <2>1. readBack # "other" BY <1>0 DEF Inv, Truths
  <2>2. act.kind = "navigate" => pc = "detect" BY <1>0 DEF Inv, Places, TypePcs
  <2> QED BY <1>0, <1>1, <1>2, <2>1, <2>2 DEF Inv, Truths, NavigateTellsTruth, seen
<1> QED BY <1>3, <1>4, <1>5, <1>6, <1>7 DEF Inv

LEMMA NextInv == Inv /\ [Next]_vars => Inv'
<1> SUFFICES ASSUME Inv, [Next]_vars PROVE Inv' OBVIOUS
<1>1. CASE Call
  <2>1. act \in Actions /\ act.kind \in Kinds BY DEF Inv, TypeOK, Actions
  <2>2. TypeOK' BY <1>1, <2>1 DEF Inv, TypeOK, Call, First, Kinds, seen
  <2>3. Places' BY <1>1, <2>1 DEF Inv, Places, Call, First, Kinds, TypePcs, seen
  <2>4. LoadsCounted' BY <1>1 DEF Inv, TypeOK, LoadsCounted, Call, seen
  <2>5. Sendings' BY <1>1, <2>1 DEF Inv, Sendings, Call, First, Sent, seen
  <2>6. Truths' BY <1>1, <2>1 DEF Inv, Truths, NavigateTellsTruth, Places, Call, First, Kinds, seen
  <2> QED BY <2>2, <2>3, <2>4, <2>5, <2>6 DEF Inv
<1>2. CASE Fill \/ ReadBack \/ ClickBox \/ Keys BY <1>2, TypeTextInv
<1>3. CASE PressEnter \/ KeyEnter BY <1>3, EnterInv
<1>4. CASE Before \/ Operate \/ Compare BY <1>4, OperateInv
<1>5. CASE Goto \/ CheckUrl BY <1>5, NavigateInv
<1>6. CASE Detect BY <1>6, DetectInv
<1>7. CASE PageLives
  <2>1. TypeOK'
    <3>1. changes' \in 0..MaxChanges BY <1>7, ActionsAssumption DEF Inv, TypeOK, PageLives
    <3>2. page' \in Documents /\ field' \in {"empty", "text", "more", "other"}
      BY <1>7 DEF Inv, TypeOK, PageLives, Documents
    <3> QED BY <1>7, <3>1, <3>2 DEF Inv, TypeOK, PageLives, seen
  <2>2. Places' BY <1>7 DEF Inv, Places, PageLives
  <2>3. LoadsCounted' BY <1>7 DEF Inv, LoadsCounted, PageLives, seen
  <2>4. Sendings' BY <1>7 DEF Inv, Sendings, PageLives, Sent, seen
  <2>5. Truths' BY <1>7 DEF Inv, Truths, NavigateTellsTruth, Places, PageLives, seen
  <2> QED BY <2>1, <2>2, <2>3, <2>4, <2>5 DEF Inv
<1>8. CASE UNCHANGED vars
  <2>1. TypeOK' BY <1>8 DEF Inv, TypeOK, vars
  <2>2. Places' /\ LoadsCounted' BY <1>8 DEF Inv, Places, LoadsCounted, vars
  <2>3. Sendings' BY <1>8 DEF Inv, Sendings, Sent, vars
  <2>4. Truths' BY <1>8 DEF Inv, Truths, NavigateTellsTruth, Sent, vars
  <2> QED BY <2>1, <2>2, <2>3, <2>4 DEF Inv
<1> QED BY <1>1, <1>2, <1>3, <1>4, <1>5, <1>6, <1>7, <1>8 DEF Next, ExecutorStep

LEMMA Invariance == Spec => []Inv
<1> QED BY InitInv, NextInv, PTL DEF Spec

-----------------------------------------------------------------------------
(* The theorems. *)

\* Every variable keeps its type, and navigate stays within its attempts.
THEOREM ActionsTypeCorrect == Spec => []TypeOK
<1>1. Inv => TypeOK BY DEF Inv
<1> QED BY <1>1, Invariance, PTL

\* What every reachable state of an action says of it: a field read back with another content
\* is neither submitted nor typed into again, a navigation reported as done did not end on an
\* error page, and Enter is sent at most twice and never unasked, wherever an await fails.
LEMMA InvIsHonest == Inv => ActionIsHonest
<1> SUFFICES ASSUME Inv PROVE ActionIsHonest
  OBVIOUS
<1>1. WrongContentEnds
  BY SentNone DEF Inv, TypeOK, Truths, WrongContentEnds
<1>2. NavigateTellsTruth
  BY DEF Inv, Truths
<1>3. EnterIsBounded
  BY DEF Inv, Sendings, EnterIsBounded, Sent
<1> QED BY <1>1, <1>2, <1>3 DEF ActionIsHonest

\* Whatever fails and whatever the page does, an action reports what it read and loaded, and
\* sends Enter at most twice: for every number of attempts of navigate.
THEOREM ActionsAreHonest == Spec => []ActionIsHonest
BY InvIsHonest, Invariance, PTL

-----------------------------------------------------------------------------
(* The parts of MCSteps.  A part that is not this run's rests.               *)

LEMMA StepOfPart ==
  ASSUME [StepsNext]_StepsVars
  PROVE  /\ UNCHANGED part
         /\ [Next]_vars
         /\ [Routing!Next]_routing /\ [Ingest!Next]_ingest /\ [Verdict!Next]_verdict
         /\ [Prompt!Next]_prompt
         /\ part = "click" => [Click!Next]_<<screen, clicking>>
         /\ part = "goals" => [Goals!Next]_<<screen, goals>>
<1>1. CASE UNCHANGED StepsVars
  BY <1>1 DEF StepsVars
<1>2. CASE StepsNext
  <2>1. UNCHANGED part
    BY <1>2 DEF StepsNext
  <2>a. [Next]_vars
    BY <1>2 DEF StepsNext
  <2>2. [Routing!Next]_routing /\ [Ingest!Next]_ingest /\ [Verdict!Next]_verdict
    BY <1>2 DEF StepsNext
  <2>p. [Prompt!Next]_prompt
    BY <1>2 DEF StepsNext
  <2>3. part = "click" => Click!Next
    BY <1>2 DEF StepsNext
  <2>4. part = "goals" => Goals!Next
    BY <1>2 DEF StepsNext
  <2> QED BY <2>1, <2>2, <2>3, <2>4, <2>a, <2>p
<1> QED BY <1>1, <1>2

-----------------------------------------------------------------------------
(* Ingestion.                                                                *)

Job == [pc : {"lookup", "remove", "add"}, doc : Contents, from : Files]

\* Nothing is deleted or cleared: every job of a worker ends with writing its document.
IngestTypes ==
  /\ file \in [Files -> Contents] /\ store \in [Contents -> Files \cup {Ingest!None}]
  /\ worker \in [Workers -> Job \cup {Ingest!Idle}] /\ known \subseteq Contents
  /\ collection = TRUE /\ deletes = 0

\* This worker will have written the document, unless it is about to remove it.
Writes(w, c) == worker[w] \in Job /\ worker[w].pc \in {"lookup", "add"} /\ worker[w].doc = c

Stored == \A c \in known : store[c] # Ingest!None \/ \E w \in Workers : Writes(w, c)

IngestInv == IngestTypes /\ Stored

LEMMA IdleIsNoJob == \A j \in Job : j # Ingest!Idle /\ j.pc # "idle" /\ Ingest!Idle.pc = "idle"
BY DEF Job, Ingest!Idle

LEMMA IngestInitInv == StepsInit => IngestInv
<1> SUFFICES ASSUME StepsInit PROVE IngestInv
  OBVIOUS
<1>1. Ingest!Init
  BY DEF StepsInit
<1>2. /\ file \in [Files -> Contents] /\ store = [c \in Contents |-> Ingest!None]
      /\ collection = TRUE /\ known = {} /\ worker = [w \in Workers |-> Ingest!Idle] /\ deletes = 0
  BY <1>1 DEF Ingest!Init
<1> QED BY <1>2 DEF IngestInv, IngestTypes, Stored

\* A worker takes one step, the store changes at most for its document.
LEMMA WorkerKeeps ==
  ASSUME IngestInv, NEW w \in Workers, NEW j \in Job \cup {Ingest!Idle},
         worker' = [worker EXCEPT ![w] = j], UNCHANGED <<file, deletes>>, collection' = TRUE,
         store' \in [Contents -> Files \cup {Ingest!None}], known' \subseteq Contents,
         \A c \in known' : \/ store'[c] # Ingest!None
                           \/ j \in Job /\ j.pc \in {"lookup", "add"} /\ j.doc = c
                           \/ c \in known /\ (store[c] # Ingest!None => store'[c] # Ingest!None)
                              /\ ~Writes(w, c)
  PROVE  IngestInv'
<1>1. IngestTypes'
  BY DEF IngestInv, IngestTypes
<1>2. worker'[w] = j /\ \A v \in Workers : v # w => worker'[v] = worker[v]
  BY DEF IngestInv, IngestTypes
<1>3. ASSUME NEW c \in known'
      PROVE  store'[c] # Ingest!None \/ \E v \in Workers : Writes(v, c)'
  <2>1. CASE j \in Job /\ j.pc \in {"lookup", "add"} /\ j.doc = c
    BY <1>2, <2>1 DEF Writes
  <2>2. CASE c \in known /\ (store[c] # Ingest!None => store'[c] # Ingest!None) /\ ~Writes(w, c)
    <3>1. CASE store[c] # Ingest!None
      BY <2>2, <3>1
    <3>2. CASE store[c] = Ingest!None
      <4>1. PICK v \in Workers : Writes(v, c)
        BY <2>2, <3>2 DEF IngestInv, Stored
      <4>2. v # w
        BY <2>2, <4>1
      <4> QED BY <1>2, <4>1, <4>2 DEF Writes
    <3> QED BY <3>1, <3>2
  <2> QED BY <2>1, <2>2
<1> QED BY <1>1, <1>3 DEF IngestInv, Stored

LEMMA IngestNextInv == IngestInv /\ [Ingest!Next]_ingest => IngestInv'
<1> SUFFICES ASSUME IngestInv, [Ingest!Next]_ingest PROVE IngestInv'
  OBVIOUS
<1>t. /\ file \in [Files -> Contents] /\ store \in [Contents -> Files \cup {Ingest!None}]
      /\ worker \in [Workers -> Job \cup {Ingest!Idle}] /\ known \subseteq Contents
      /\ collection = TRUE /\ deletes = 0 /\ Ingest!None \notin Files
  BY StepsAssumption DEF IngestInv, IngestTypes, Ingest!KnowledgeAssumption
<1>w. ASSUME NEW w \in Workers
      PROVE  (worker[w].pc # "idle" => worker[w] \in Job) /\ worker[w].pc # "recreate"
  <2>1. worker[w] \in Job \/ worker[w] = Ingest!Idle
    BY DEF IngestInv, IngestTypes
  <2>2. CASE worker[w] \in Job
    BY <2>2 DEF Job
  <2>3. CASE worker[w] = Ingest!Idle
    <3>1. worker[w].pc = "idle"
      BY <2>3 DEF Ingest!Idle
    <3> QED BY <3>1
  <2> QED BY <2>1, <2>2, <2>3
<1>1. ASSUME NEW f \in Files, NEW c \in Contents, Ingest!Edit(f, c) PROVE IngestInv'
  <2>1. /\ file' = [file EXCEPT ![f] = c] /\ UNCHANGED <<store, collection, known, worker, deletes>>
    BY <1>1 DEF Ingest!Edit
  <2>2. file' \in [Files -> Contents]
    BY <1>t, <2>1
  <2> QED BY <1>t, <2>1, <2>2 DEF IngestInv, IngestTypes, Stored, Writes
<1>2. ASSUME NEW w \in Workers, NEW f \in Files, NEW force \in BOOLEAN, Ingest!Ingest(w, f, force)
      PROVE  IngestInv'
  <2> DEFINE j == [pc |-> Ingest!FirstStep(force), doc |-> file[f], from |-> f]
  <2>1. /\ worker[w] = Ingest!Idle /\ worker' = [worker EXCEPT ![w] = j]
        /\ UNCHANGED <<file, store, collection, known, deletes>>
    BY <1>2 DEF Ingest!Ingest, Ingest!Becomes, Ingest!counters
  <2>2. j \in Job
    BY <1>t DEF Job, Ingest!FirstStep
  <2>3. \A c \in known : ~Writes(w, c)
    BY <2>1, IdleIsNoJob DEF Writes
  <2> HIDE DEF j
  <2> QED BY <1>t, <2>1, <2>2, <2>3, WorkerKeeps
<1>3. ASSUME NEW w \in Workers, Ingest!GetIds(w) PROVE IngestInv'
  <2>1. worker[w].pc = "lookup" /\ UNCHANGED <<file, store, collection, known, deletes>>
    BY <1>3 DEF Ingest!GetIds, Ingest!Becomes, Ingest!counters
  <2>2. worker[w] \in Job
    BY <1>w, <2>1
  <2>3. CASE /\ store[worker[w].doc] # Ingest!None
             /\ worker' = [worker EXCEPT ![w] = [worker[w] EXCEPT !.pc = "remove"]]
    <3> DEFINE j == [worker[w] EXCEPT !.pc = "remove"]
    <3>1. j \in Job
      BY <2>2 DEF Job
    <3>2. \A c \in known : store[c] # Ingest!None \/ ~Writes(w, c)
      BY <2>3 DEF Writes
    <3> HIDE DEF j
    <3> QED BY <1>t, <2>1, <2>3, <3>1, <3>2, WorkerKeeps DEF j
  <2>4. CASE worker' = [worker EXCEPT ![w] = Ingest!AfterDelete(w)]
    <3> DEFINE j == [worker[w] EXCEPT !.pc = "add"]
    <3>1. j \in Job /\ j.pc = "add" /\ j.doc = worker[w].doc
      BY <2>2 DEF Job
    <3>2. worker[w].from # Ingest!None
      BY <1>t, <2>2 DEF Job
    <3>3. worker' = [worker EXCEPT ![w] = j]
      BY <2>4, <3>2 DEF Ingest!AfterDelete
    <3>4. \A c \in known : j.doc = c \/ ~Writes(w, c)
      BY <3>1 DEF Writes
    <3> HIDE DEF j
    <3> QED BY <1>t, <2>1, <3>1, <3>3, <3>4, WorkerKeeps
  <2> QED BY <1>3, <2>3, <2>4 DEF Ingest!GetIds, Ingest!Becomes
<1>4. ASSUME NEW w \in Workers, Ingest!RemoveIds(w) PROVE IngestInv'
  <2>1. /\ worker[w].pc = "remove" /\ UNCHANGED <<file, collection, known, deletes>>
        /\ store' = [store EXCEPT ![worker[w].doc] = Ingest!None] \/ UNCHANGED store
        /\ worker' = [worker EXCEPT ![w] = Ingest!AfterDelete(w)]
    BY <1>4, <1>t DEF Ingest!RemoveIds, Ingest!Becomes, Ingest!counters
  <2>2. worker[w] \in Job
    BY <1>w, <2>1
  <2> DEFINE j == [worker[w] EXCEPT !.pc = "add"]
  <2>3. j \in Job /\ j.pc = "add" /\ j.doc = worker[w].doc /\ worker[w].doc \in Contents
    BY <2>2 DEF Job
  <2>4. worker[w].from # Ingest!None
    BY <1>t, <2>2 DEF Job
  <2>5. worker' = [worker EXCEPT ![w] = j]
    BY <2>1, <2>4 DEF Ingest!AfterDelete
  <2>6. \A c \in known : ~Writes(w, c)
    BY <2>1 DEF Writes
  <2>7. /\ store' \in [Contents -> Files \cup {Ingest!None}]
        /\ \A c \in known : c # worker[w].doc => store'[c] = store[c]
    BY <1>t, <2>1, <2>3
  <2> HIDE DEF j
  <2> QED BY <1>t, <2>1, <2>3, <2>5, <2>6, <2>7, WorkerKeeps
<1>5. ASSUME NEW w \in Workers, Ingest!Add(w) PROVE IngestInv'
  <2>1. /\ worker[w].pc = "add" /\ UNCHANGED <<file, collection, deletes>>
        /\ store' = [store EXCEPT ![worker[w].doc] = worker[w].from]
        /\ known' = known \cup {worker[w].doc}
        /\ worker' = [worker EXCEPT ![w] = Ingest!Idle]
    BY <1>5, <1>t DEF Ingest!Add, Ingest!Becomes, Ingest!counters
  <2>2. worker[w] \in Job
    BY <1>w, <2>1
  <2>3. worker[w].doc \in Contents /\ worker[w].from \in Files
    BY <2>2 DEF Job
  <2>4. /\ store' \in [Contents -> Files \cup {Ingest!None}] /\ store'[worker[w].doc] # Ingest!None
        /\ \A c \in known : c # worker[w].doc => store'[c] = store[c]
    BY <1>t, <2>1, <2>3
  <2>5. \A c \in known : c # worker[w].doc => ~Writes(w, c)
    BY DEF Writes
  <2>6. known' \subseteq Contents
    BY <1>t, <2>1, <2>3
  <2> QED BY <1>t, <2>1, <2>4, <2>5, <2>6, WorkerKeeps
<1>6. ASSUME NEW w \in Workers,
             Ingest!Recreate(w) \/ Ingest!Clear(w) \/ \E c \in Contents : Ingest!Delete(w, c)
      PROVE  IngestInv'
  <2>1. worker[w].pc # "recreate"
    BY <1>w
  <2> QED BY <1>6, <1>t, <2>1 DEF Ingest!Recreate, Ingest!Clear, Ingest!Delete
<1>7. CASE \/ \E k \in Clients : Ingest!ClientStep(k) \/ \E q \in Queries : Ingest!Ask(k, q)
           \/ Ingest!Tick
  <2>1. UNCHANGED <<file, store, collection, known, worker, deletes>>
    BY <1>7 DEF Ingest!ClientStep, Ingest!Search, Ingest!Save, Ingest!Ask, Ingest!Tick,
                Ingest!base, Ingest!counters
  <2> QED BY <1>t, <2>1 DEF IngestInv, IngestTypes, Stored, Writes
<1>8. CASE Ingest!Restart
  <2>1. /\ known' = {} /\ collection' = TRUE /\ worker' = [w \in Workers |-> Ingest!Idle]
        /\ UNCHANGED <<file, store, deletes>>
    BY <1>8 DEF Ingest!Restart
  <2> QED BY <1>t, <2>1 DEF IngestInv, IngestTypes, Stored
<1>9. CASE UNCHANGED ingest
  <2>1. UNCHANGED <<file, store, collection, known, worker, deletes>>
    BY <1>9 DEF ingest
  <2> QED BY <1>t, <2>1 DEF IngestInv, IngestTypes, Stored, Writes
<1> QED
  BY <1>1, <1>2, <1>3, <1>4, <1>5, <1>6, <1>7, <1>8, <1>9 DEF Ingest!Next, Ingest!WorkerStep

\* What the pipeline skips as ingested is stored or about to be, however ingestions overlap
\* and files change (pipeline.py:45-56): for all files, workers, edits and restarts.
THEOREM IngestKnownIsStored == StepsSpec => []KnownIsStored
<1>1. IngestInv => KnownIsStored
  <2> SUFFICES ASSUME IngestInv, NEW c \in known, store[c] = Ingest!None
               PROVE  \E w \in Workers : worker[w].pc \in {"lookup", "add"} /\ worker[w].doc = c
    BY DEF KnownIsStored, Ingest!KnownIsStored
  <2> QED BY DEF IngestInv, Stored, Writes
<1>2. IngestInv /\ [StepsNext]_StepsVars => IngestInv'
  BY StepOfPart, IngestNextInv
<1> QED BY <1>1, <1>2, IngestInitInv, PTL DEF StepsSpec

-----------------------------------------------------------------------------
(* The verdict on a browser task.                                            *)

\* It is expected that the task is completed, as long as nothing is returned, and the
\* fields have been read before the rest is looked at.
Undecided ==
  stage # "done" =>
    /\ ~verified /\ "task_completed" \in DOMAIN expected /\ expected["task_completed"] = TRUE

VerdictInv ==
  /\ Undecided
  /\ stage = "rest" /\ task.text => fields
  /\ stage # "done" \/ Verdict!VerifiedHasEvidence

\* What else is expected does not change what was.
LEMMA ExpectationKept ==
  ASSUME NEW f, NEW key, NEW value, key # "task_completed",
         "task_completed" \in DOMAIN f, f["task_completed"] = TRUE
  PROVE  /\ "task_completed" \in DOMAIN Verdict!With(f, key, value)
         /\ Verdict!With(f, key, value)["task_completed"] = TRUE
<1>1. "task_completed" \in DOMAIN f \cup {key}
  OBVIOUS
<1> QED BY <1>1, Zenon DEF Verdict!With

\* An early return is no completion.
LEMMA PrematureFails ==
  ASSUME NEW e, NEW o, "task_completed" \in DOMAIN e, e["task_completed"] = TRUE,
         Verdict!Premature(e, o)
  PROVE  stage' = "done" /\ ~verified'
<1>w. PICK w : w = Verdict!With(o, "task_completed", FALSE)
  OBVIOUS
<1>1. stage' = "done" /\ verified' = (Verdict!Mismatches(e, w) = {})
  BY <1>w, Zenon DEF Verdict!Premature, Verdict!Return
<1>2. w["task_completed"] = FALSE
  <2>1. "task_completed" \in DOMAIN o \cup {"task_completed"}
    OBVIOUS
  <2> QED BY <1>w, <2>1, Zenon DEF Verdict!With
<1>3. "task_completed" # "remaining_steps"
  OBVIOUS
<1>4. e["task_completed"] # w["task_completed"]
  BY <1>2, Zenon
<1>5. "task_completed" \in Verdict!Mismatches(e, w)
  BY <1>3, <1>4, Zenon DEF Verdict!Mismatches
<1>6. Verdict!Mismatches(e, w) # {}
  BY <1>5
<1> QED BY <1>1, <1>6, Zenon

LEMMA VerdictInitInv == StepsInit => VerdictInv
<1> SUFFICES ASSUME StepsInit PROVE VerdictInv
  OBVIOUS
<1>1. Verdict!Init
  BY DEF StepsInit
<1>2. stage = "state" /\ verified = FALSE /\ expected = [task_completed |-> TRUE]
  BY <1>1, Zenon DEF Verdict!Init
<1>3. "state" # "done" /\ "state" # "rest"
  OBVIOUS
<1>4. "task_completed" \in DOMAIN expected
  BY <1>2
<1>5. expected["task_completed"] = TRUE
  BY <1>2
<1> QED BY <1>2, <1>3, <1>4, <1>5, Zenon DEF VerdictInv, Undecided

LEMMA VerdictNextInv == VerdictInv /\ [Verdict!Next]_verdict => VerdictInv'
<1> SUFFICES ASSUME VerdictInv, [Verdict!Next]_verdict PROVE VerdictInv'
  OBVIOUS
<1>p. "state" # "done" /\ "fields" # "done" /\ "rest" # "done" /\ "fields" # "rest"
  OBVIOUS
<1>f. stage' = "done" /\ ~verified' => VerdictInv'
  BY <1>p, Zenon DEF VerdictInv, Undecided, Verdict!VerifiedHasEvidence
<1>1. CASE Verdict!ReadState
  <2> DEFINE e == Verdict!With(expected, "has_error_state", FALSE)
  <2>1. stage # "done"
    BY <1>1, <1>p, Zenon DEF Verdict!ReadState
  <2>2. "task_completed" \in DOMAIN e /\ e["task_completed"] = TRUE
    <3>1. "has_error_state" # "task_completed"
      OBVIOUS
    <3> QED BY <2>1, <3>1, ExpectationKept, Zenon DEF VerdictInv, Undecided
  <2> DEFINE e2 == Verdict!With(e, "premature_completion_prevented", FALSE)
  <2>3. "task_completed" \in DOMAIN e2 /\ e2["task_completed"] = TRUE
    <3>1. "premature_completion_prevented" # "task_completed"
      OBVIOUS
    <3> HIDE DEF e
    <3> QED BY <2>2, <3>1, ExpectationKept, Zenon
  <2>4. \/ \E o : Verdict!Premature(e, o)
        \/ \E o : Verdict!Premature(e2, o)
        \/ /\ stage' = IF task.text THEN "fields" ELSE "rest"
           /\ expected' = e /\ UNCHANGED <<verified, task>>
    BY <1>1, Zenon DEF Verdict!ReadState
  <2> HIDE DEF e, e2
  <2>5. ASSUME \E o : Verdict!Premature(e, o) PROVE VerdictInv'
    BY <1>f, <2>2, <2>5, PrematureFails, Zenon
  <2>6. ASSUME \E o : Verdict!Premature(e2, o) PROVE VerdictInv'
    BY <1>f, <2>3, <2>6, PrematureFails, Zenon
  <2>7. CASE /\ stage' = IF task.text THEN "fields" ELSE "rest"
             /\ expected' = e /\ UNCHANGED <<verified, task>>
    <3>1. stage' # "done" /\ (stage' = "rest" => ~task'.text)
      BY <2>7, <1>p, Zenon
    <3> QED BY <2>1, <2>2, <2>7, <3>1, Zenon DEF VerdictInv, Undecided
  <2> QED BY <2>4, <2>5, <2>6, <2>7, Zenon
<1>2. CASE Verdict!ReadFields
  <2> DEFINE e == Verdict!With(expected, "text_verified", TRUE)
  <2>1. stage # "done" /\ fields' = tab.text /\ UNCHANGED task
    BY <1>2, <1>p, Zenon DEF Verdict!ReadFields
  <2>2. "task_completed" \in DOMAIN e /\ e["task_completed"] = TRUE
    <3>1. "text_verified" # "task_completed"
      OBVIOUS
    <3> QED BY <2>1, <3>1, ExpectationKept, Zenon DEF VerdictInv, Undecided
  <2>3. \/ \E o : Verdict!Premature(e, o)
        \/ tab.text /\ stage' = "rest" /\ expected' = e /\ UNCHANGED verified
    <3>1. PICK read \in {tab.text, FALSE} :
            IF read THEN stage' = "rest" /\ expected' = e /\ UNCHANGED verified
            ELSE \E o : Verdict!Premature(e, o)
      BY <1>2, Zenon DEF Verdict!ReadFields
    <3>2. read => tab.text
      BY <3>1, Zenon
    <3> QED BY <3>1, <3>2, Zenon
  <2> HIDE DEF e
  <2>4. ASSUME \E o : Verdict!Premature(e, o) PROVE VerdictInv'
    BY <1>f, <2>2, <2>4, PrematureFails, Zenon
  <2>5. CASE tab.text /\ stage' = "rest" /\ expected' = e /\ UNCHANGED verified
    BY <1>p, <2>1, <2>2, <2>5, Zenon DEF VerdictInv, Undecided
  <2> QED BY <2>3, <2>4, <2>5, Zenon
<1>3. CASE Verdict!Rest
  <2> DEFINE e == IF task.extract THEN Verdict!With(expected, "information_extracted", TRUE) ELSE expected
  <2>1. stage = "rest" /\ UNCHANGED <<task, fields>>
    BY <1>3, Zenon DEF Verdict!Rest
  <2>2. "task_completed" \in DOMAIN e /\ e["task_completed"] = TRUE
    <3>1. "information_extracted" # "task_completed"
      OBVIOUS
    <3> QED BY <1>p, <2>1, <3>1, ExpectationKept, Zenon DEF VerdictInv, Undecided
  <2> DEFINE e2 == Verdict!With(e, "remaining_steps", 0)
  <2>3. "task_completed" \in DOMAIN e2 /\ e2["task_completed"] = TRUE
    <3>1. "remaining_steps" # "task_completed"
      OBVIOUS
    <3> HIDE DEF e
    <3> QED BY <2>2, <3>1, ExpectationKept, Zenon
  <2>4. \/ \E o : Verdict!Premature(e, o)
        \/ \E o : Verdict!Premature(e2, o)
        \/ /\ ~(task.extract /\ ~Verdict!HasData) /\ ~Verdict!Unfinished
           /\ stage' = "done"
    BY <1>3, Zenon DEF Verdict!Rest, Verdict!Return
  <2> HIDE DEF e, e2
  <2>5. ASSUME \E o : Verdict!Premature(e, o) PROVE VerdictInv'
    BY <1>f, <2>2, <2>5, PrematureFails, Zenon
  <2>6. ASSUME \E o : Verdict!Premature(e2, o) PROVE VerdictInv'
    BY <1>f, <2>3, <2>6, PrematureFails, Zenon
  <2>7. CASE ~(task.extract /\ ~Verdict!HasData) /\ ~Verdict!Unfinished /\ stage' = "done"
    <3>1. Verdict!VerifiedHasEvidence'
      BY <2>1, <2>7, Zenon
         DEF VerdictInv, Verdict!VerifiedHasEvidence, Verdict!HasData, Verdict!Substantive,
             Verdict!Unfinished
    <3> QED BY <1>p, <2>7, <3>1, Zenon DEF VerdictInv, Undecided
  <2> QED BY <2>4, <2>5, <2>6, <2>7, Zenon
<1>4. CASE Verdict!PageLives \/ UNCHANGED verdict
  <2>1. UNCHANGED <<task, stage, expected, verified, fields>>
    BY <1>4 DEF Verdict!PageLives, verdict
  <2> QED BY <2>1, Zenon DEF VerdictInv, Undecided, Verdict!VerifiedHasEvidence
<1> QED BY <1>1, <1>2, <1>3, <1>4 DEF Verdict!Next, Verdict!Verify

-----------------------------------------------------------------------------
(* What is observed of a window, and the conditions of a desktop task.       *)

LEMMA ThoseTyped ==
  ASSUME NEW S, NEW all, Len(all) \in Nat, NEW places,
         \A n \in 1..Len(all) : n \in places => all[n] \in S
  PROVE  Goals!Those(all, places) \in Seq(S)
<1> DEFINE N == Len(all)
           G == Seq(S)
           Asked(n) == n \in places
           Def(f) == f = [n \in 0..N |-> IF n = 0 THEN <<>>
                                          ELSE IF Asked(n) THEN Append(f[n - 1], all[n]) ELSE f[n - 1]]
           next == [x \in G \X (1..N) |-> IF Asked(x[2]) THEN Append(x[1], all[x[2]]) ELSE x[1]]
<1>1. N \in Nat /\ <<>> \in G /\ \A n \in 1..N : Asked(n) => all[n] \in S
  OBVIOUS
<1>2. Goals!Those(all, places) = (CHOOSE f : Def(f))[N]
  BY DEF Goals!Those
<1> HIDE DEF N, Asked
<1>3. \A s \in G, n \in 1..N : Asked(n) => Append(s, all[n]) \in G
  BY <1>1
<1> HIDE DEF G
<1>4. /\ next \in [G \X (1..N) -> G]
      /\ \A s \in G, n \in 1..N : next[<<s, n>>] = IF Asked(n) THEN Append(s, all[n]) ELSE s
  BY <1>3
<1> HIDE DEF next
<1>5. \E f : Def(f)
  <2>1. PICK f : f \in Runs(G, <<>>, next, N)
    BY <1>1, <1>4, RunsExist, Zenon
  <2>2. f \in [0..N -> G] /\ f[0] = <<>> /\ \A m \in 1..N : f[m] = next[<<f[m - 1], m>>]
    BY <2>1 DEF Runs
  <2>3. \A m \in 1..N : f[m - 1] \in G
    BY <1>1, <2>2
  <2>4. ASSUME NEW n \in 0..N
        PROVE  f[n] = IF n = 0 THEN <<>> ELSE IF Asked(n) THEN Append(f[n - 1], all[n]) ELSE f[n - 1]
    <3>1. n = 0 \/ n \in 1..N
      BY <1>1
    <3> QED BY <1>4, <2>2, <2>3, <3>1, Zenon
  <2>5. f = [n \in 0..N |-> f[n]]
    BY <2>2
  <2>6. f = [n \in 0..N |-> IF n = 0 THEN <<>>
                             ELSE IF Asked(n) THEN Append(f[n - 1], all[n]) ELSE f[n - 1]]
    BY <2>4, <2>5
  <2> QED BY <2>6
<1> DEFINE pick == CHOOSE f : Def(f)
<1>6. Def(pick)
  BY <1>5, Zenon
<1> HIDE DEF pick
<1>7. pick \in Runs(G, <<>>, next, N)
  <2>1. \A n \in 0..N : pick[n] = IF n = 0 THEN <<>>
                                  ELSE IF Asked(n) THEN Append(pick[n - 1], all[n]) ELSE pick[n - 1]
    BY <1>6
  <2>2. pick = [n \in 0..N |-> pick[n]]
    BY <1>6
  <2> HIDE DEF Def
  <2>3. 0 \in 0..N /\ \A m \in 1..N : m \in 0..N /\ m # 0
    BY <1>1
  <2>4. pick[0] = <<>> /\ \A m \in 1..N : pick[m] = IF Asked(m) THEN Append(pick[m - 1], all[m]) ELSE pick[m - 1]
    BY <2>1, <2>3, Zenon
  <2>5. \A m \in 1..N : pick[m - 1] \in G => pick[m] = next[<<pick[m - 1], m>>]
    BY <1>4, <2>4, Zenon
  <2> QED BY <1>1, <1>4, <2>2, <2>4, <2>5, RunsOnly, Zenon
<1>8. pick[N] \in G
  BY <1>1, <1>7 DEF Runs
<1> QED BY <1>2, <1>8 DEF pick, G

\* What is observed is shown by an open window, and ready.
LEMMA ElementsAreShown ==
  ASSUME layout \in [Settings -> SettingsLayouts], opened \subseteq Settings, NEW w,
         NEW walked \in Goals!Walks(w)
  PROVE  /\ DOMAIN Goals!Elements(w, walked) \subseteq Nat
         /\ walked # {} => w \in opened
         /\ \A i \in DOMAIN Goals!Elements(w, walked) :
              /\ w \in opened /\ Goals!Elements(w, walked)[i].control.ready
              /\ \E p \in DOMAIN layout[w] : Goals!Elements(w, walked)[i].control = layout[w][p]
<1> DEFINE S == {e \in {[control |-> layout[w][p], place |-> p] : p \in DOMAIN layout[w]} :
                   w \in opened /\ e.control.ready}
           all == IF w \in opened THEN [i \in DOMAIN layout[w] |-> [control |-> layout[w][i], place |-> i]]
                  ELSE <<>>
           Picked(toggles) ==
             {i \in walked : all[i].control.ready /\ (all[i].control.state # "none") = toggles}
           r == Goals!Ranked(w, walked)
<1>1. SettingsLayouts \subseteq Seq(Goals!Controls) /\ MaxElements \in Nat
  BY StepsAssumption DEF Goals!ScreenAssumption
<1>0. walked # {} => w \in opened
  BY DEF Goals!Walks
<1>2. Len(all) \in Nat /\ \A t \in BOOLEAN : \A n \in 1..Len(all) : n \in Picked(t) => all[n] \in S
  <2>1. CASE w \in opened
    <3>1. layout[w] \in Seq(Goals!Controls)
      BY <1>1, <2>1
    <3>2. DOMAIN layout[w] = 1..Len(layout[w]) /\ Len(layout[w]) \in Nat
      BY <3>1
    <3>3. all = [i \in 1..Len(layout[w]) |-> [control |-> layout[w][i], place |-> i]]
      BY <2>1, <3>2
    <3>4. Len(all) = Len(layout[w])
      BY <3>2, <3>3
    <3>5. ASSUME NEW t \in BOOLEAN, NEW n \in 1..Len(all), n \in Picked(t) PROVE all[n] \in S
      <4>1. all[n] = [control |-> layout[w][n], place |-> n] /\ n \in DOMAIN layout[w]
        BY <3>2, <3>3, <3>4, <3>5
      <4>2. all[n].control.ready
        BY <3>5
      <4> QED BY <2>1, <4>1, <4>2
    <3> QED BY <3>2, <3>4, <3>5
  <2>2. CASE w \notin opened
    <3>1. all = <<>>
      BY <2>2
    <3> QED BY <3>1
  <2> QED BY <2>1, <2>2
<1>3. r \in Seq(S)
  <2>1. r = Goals!Those(all, Picked(TRUE)) \o Goals!Those(all, Picked(FALSE))
    BY DEF Goals!Ranked
  <2> HIDE DEF S, all, r, Picked
  <2>2. Goals!Those(all, Picked(TRUE)) \in Seq(S) /\ Goals!Those(all, Picked(FALSE)) \in Seq(S)
    BY <1>2, ThoseTyped
  <2>3. \A a, b \in Seq(S) : a \o b \in Seq(S)
    OBVIOUS
  <2> QED BY <2>1, <2>2, <2>3, Zenon
<1>4. Goals!Elements(w, walked) = SubSeq(r, 1, IF Len(r) < MaxElements THEN Len(r) ELSE MaxElements)
  BY DEF Goals!Elements
<1> HIDE DEF S, all, r, Picked
<1>5. /\ DOMAIN Goals!Elements(w, walked) \subseteq Nat
      /\ \A i \in DOMAIN Goals!Elements(w, walked) : Goals!Elements(w, walked)[i] \in S
  <2>1. Goals!Elements(w, walked) \in Seq(S)
    BY <1>1, <1>3, <1>4
  <2> QED BY <2>1
<1> QED BY <1>0, <1>5 DEF S

-----------------------------------------------------------------------------
(* The goals of a desktop task.                                              *)

Checking == {"check", "focus", "find", "state"}

GoalsTypes ==
  /\ layout \in [Settings -> SettingsLayouts] /\ opened \subseteq Settings
  /\ foreground \in opened \cup {Nothing} /\ missed \in BOOLEAN
  /\ conds \in SettingsGoals /\ results \in Seq(BOOLEAN)
  /\ check \in {"idle", "observe", "window", "walk", "completed"} \cup Checking
  /\ Len(results) <= Len(conds) /\ (check \in Checking => Len(results) < Len(conds))
  /\ check \in {"observe", "window", "walk"} => results = <<>>

\* What was observed is shown; a condition on elements that nothing fits holds, or something
\* was missed.
Seen ==
  check \in Checking =>
    /\ \A i \in DOMAIN obs : obs[i] \in shown /\ obs[i].control.ready
    /\ \A j \in DOMAIN conds :
         /\ conds[j].pred \in {"element", "ready"} /\ ~conds[j].expect
         /\ \A i \in DOMAIN obs : ~Goals!Fits(obs[i], conds[j])
         => j \in heldOnce \/ missed

\* A control that was found has the name of the condition in its own.
Found ==
  /\ check \in {"find", "state"} => conds[Len(results) + 1].pred = "toggle"
  /\ check = "focus" => conds[Len(results) + 1].pred = "focused"
  /\ check = "state" /\ found # Nothing =>
       found \in shown /\ Goals!Contains(found.control.name, conds[Len(results) + 1].name)

Indexed == check \in Checking => DOMAIN obs \subseteq Nat

\* A window that was read as the one in front was there.
Fronted == check \in {"window", "walk"} /\ fresh # Nothing => shown # {}

\* Evident, with the histories as parameters.
Shows(c, i, S, H, M) ==
  CASE c.pred = "toggle" ->
         \E s, d \in S : /\ s.window = d.window /\ Goals!Same(s.control, d.control)
                         /\ Goals!Contains(s.control.name, c.name)
                         /\ d.control.state = Goals!State(c.expect)
    [] c.pred \in {"text", "contains"} ->
         (c.pred = "text" /\ c.text = "") \/ \E s \in S : Goals!HasText(s, c)
    [] c.pred = "active" -> i \in H
    [] c.pred \notin {"toggle", "text", "contains", "active"} /\ ~c.expect -> i \in H \/ M
    [] c.pred \in {"exists", "focused"} /\ c.expect -> \E s \in S : Goals!Titled(s.window, c.name)
    [] c.pred = "running" /\ c.expect -> i \in H
    [] c.pred \in {"element", "ready"} /\ c.expect -> \E s \in S : Goals!Fits(s, c)

\* For what has passed there was evidence.
Passed ==
  check \in Checking \cup {"completed"} =>
    \A i \in DOMAIN results : results[i] => Shows(conds[i], i, shown, heldOnce, missed)

AllPassed ==
  check = "completed" =>
    /\ DOMAIN results = DOMAIN conds /\ \A i \in DOMAIN results : results[i]
    /\ conds = <<>> => shown # {} \/ retries = 3

GoalsInv == GoalsTypes /\ Seen /\ Found /\ Indexed /\ Fronted /\ Passed /\ AllPassed

\* The conditions of a task are a sequence, and what they ask for is true or false.
LEMMA CondsAre ==
  ASSUME GoalsTypes
  PROVE  /\ Len(conds) \in Nat /\ DOMAIN conds = 1..Len(conds) /\ (conds = <<>> <=> Len(conds) = 0)
         /\ \A i \in DOMAIN conds : conds[i].expect \in BOOLEAN /\ conds[i].pred \in Goals!Predicates
<1>1. /\ conds \in Seq({conds[i] : i \in DOMAIN conds})
      /\ \A i \in DOMAIN conds : conds[i].expect \in BOOLEAN /\ conds[i].pred \in Goals!Predicates
  BY StepsAssumption DEF GoalsTypes, Goals!GoalsAssumption
<1> QED BY <1>1

\* What is evidence for a condition.
LEMMA ShowsToggle ==
  ASSUME NEW c, NEW i, NEW S, NEW H, NEW M, c.pred = "toggle",
         \E s, d \in S : /\ s.window = d.window /\ Goals!Same(s.control, d.control)
                         /\ Goals!Contains(s.control.name, c.name)
                         /\ d.control.state = Goals!State(c.expect)
  PROVE  Shows(c, i, S, H, M)
BY DEF Shows

LEMMA ShowsNoText ==
  ASSUME NEW c, NEW i, NEW S, NEW H, NEW M, c.pred = "text", c.text = ""
  PROVE  Shows(c, i, S, H, M)
BY DEF Shows

LEMMA ShowsText ==
  ASSUME NEW c, NEW i, NEW S, NEW H, NEW M, c.pred \in {"text", "contains"},
         \E s \in S : Goals!HasText(s, c)
  PROVE  Shows(c, i, S, H, M)
<1>1. c.pred # "toggle"
  OBVIOUS
<1> QED BY <1>1 DEF Shows

LEMMA ShowsHeld ==
  ASSUME NEW c, NEW i, NEW S, NEW H, NEW M, i \in H,
         \/ c.pred \in {"active", "running"}
         \/ c.pred \in {"exists", "focused", "running", "element", "ready"} /\ ~c.expect
  PROVE  Shows(c, i, S, H, M)
BY DEF Shows

LEMMA ShowsMissed ==
  ASSUME NEW c, NEW i, NEW S, NEW H, NEW M, M,
         c.pred \in {"exists", "focused", "running", "element", "ready"}, ~c.expect
  PROVE  Shows(c, i, S, H, M)
BY DEF Shows

LEMMA ShowsWindow ==
  ASSUME NEW c, NEW i, NEW S, NEW H, NEW M, c.pred \in {"exists", "focused"}, c.expect,
         \E s \in S : Goals!Titled(s.window, c.name)
  PROVE  Shows(c, i, S, H, M)
BY DEF Shows

LEMMA ShowsElement ==
  ASSUME NEW c, NEW i, NEW S, NEW H, NEW M, c.pred \in {"element", "ready"}, c.expect,
         \E s \in S : Goals!Fits(s, c)
  PROVE  Shows(c, i, S, H, M)
BY DEF Shows

\* Evidence is not lost.
LEMMA ShowsMore ==
  ASSUME NEW c, c.expect \in BOOLEAN, c.pred \in Goals!Predicates, NEW i,
         NEW S, NEW H, NEW M \in BOOLEAN, NEW S2, NEW H2, NEW M2 \in BOOLEAN,
         S \subseteq S2, H \subseteq H2, M => M2, Shows(c, i, S, H, M)
  PROVE  Shows(c, i, S2, H2, M2)
<1>1. CASE c.pred = "toggle"
  <2>1. \E s, d \in S : /\ s.window = d.window /\ Goals!Same(s.control, d.control)
                        /\ Goals!Contains(s.control.name, c.name)
                        /\ d.control.state = Goals!State(c.expect)
    BY <1>1 DEF Shows
  <2>2. \E s, d \in S2 : /\ s.window = d.window /\ Goals!Same(s.control, d.control)
                         /\ Goals!Contains(s.control.name, c.name)
                         /\ d.control.state = Goals!State(c.expect)
    BY <2>1, Zenon
  <2> QED BY <1>1, <2>2, ShowsToggle
<1>2. CASE c.pred \in {"text", "contains"}
  <2>1. (c.pred = "text" /\ c.text = "") \/ \E s \in S : Goals!HasText(s, c)
    BY <1>2 DEF Shows
  <2>2. CASE c.pred = "text" /\ c.text = ""
    BY <2>2, ShowsNoText
  <2>3. CASE \E s \in S : Goals!HasText(s, c)
    <3>1. \E s \in S2 : Goals!HasText(s, c)
      BY <2>3, Zenon
    <3> QED BY <1>2, <3>1, ShowsText
  <2> QED BY <2>1, <2>2, <2>3
<1>3. CASE c.pred = "active"
  BY <1>3 DEF Shows
<1>4. CASE c.pred \in {"exists", "focused", "running", "element", "ready"} /\ ~c.expect
  BY <1>4 DEF Shows
<1>5. CASE c.pred \in {"exists", "focused", "running", "element", "ready"} /\ c.expect
  BY <1>5 DEF Shows
<1> QED BY <1>1, <1>2, <1>3, <1>4, <1>5 DEF Goals!Predicates

\* An open window and its controls are shown.
LEMMA ShowingHas ==
  ASSUME layout \in [Settings -> SettingsLayouts], opened \subseteq Settings, NEW w \in opened
  PROVE  /\ Goals!In(w, Goals!AsControl(w)) \in Goals!Showing
         /\ \A p \in DOMAIN layout[w] : Goals!In(w, layout[w][p]) \in Goals!Showing
<1> DEFINE l == layout[w]
           T == Goals!Controls \cup {Goals!AsControl(w)}
           first == <<Goals!AsControl(w)>>
<1>1. l \in Seq(Goals!Controls)
  BY StepsAssumption DEF Goals!ScreenAssumption
<1>2. Goals!Tree(w) = first \o l
  BY DEF Goals!Tree
<1>3. l \in Seq(T) /\ first \in Seq(T) /\ Len(first) = 1 /\ first[1] = Goals!AsControl(w)
  BY <1>1
<1> HIDE DEF l, T, first
<1>4. /\ 1 \in DOMAIN (first \o l) /\ (first \o l)[1] = first[1]
      /\ \A p \in DOMAIN l : p + 1 \in DOMAIN (first \o l) /\ (first \o l)[p + 1] = l[p]
  <2> DEFINE m == Len(l)
             both == first \o l
  <2>1. \A a, b \in Seq(T) :
          /\ a \o b \in Seq(T) /\ Len(a) \in Nat /\ Len(b) \in Nat /\ Len(a \o b) = Len(a) + Len(b)
          /\ \A j \in 1..Len(a) + Len(b) : (a \o b)[j] = IF j <= Len(a) THEN a[j] ELSE b[j - Len(a)]
    OBVIOUS
  <2>2. \A a \in Seq(T) : DOMAIN a = 1..Len(a)
    OBVIOUS
  <2>3. /\ both \in Seq(T) /\ Len(both) = Len(first) + m /\ m \in Nat /\ DOMAIN l = 1..m
        /\ \A j \in 1..Len(first) + m : both[j] = IF j <= Len(first) THEN first[j] ELSE l[j - Len(first)]
    BY <1>3, <2>1, <2>2, Zenon
  <2>4. DOMAIN both = 1..Len(both)
    BY <2>2, <2>3, Zenon
  <2> HIDE DEF m, both
  <2>5. /\ DOMAIN both = 1..1 + m /\ m \in Nat /\ DOMAIN l = 1..m
        /\ \A j \in 1..1 + m : both[j] = IF j <= 1 THEN first[j] ELSE l[j - 1]
    BY <1>3, <2>3, <2>4, Zenon
  <2>6. 1 \in DOMAIN both /\ both[1] = first[1]
    BY <2>5
  <2>7. ASSUME NEW p \in DOMAIN l PROVE p + 1 \in DOMAIN both /\ both[p + 1] = l[p]
    <3>1. p \in Nat /\ p + 1 \in 1..1 + m /\ ~(p + 1 <= 1) /\ (p + 1) - 1 = p
      BY <2>5
    <3> QED BY <2>5, <3>1, Zenon
  <2> QED BY <2>6, <2>7 DEF both
<1>5. \A i \in DOMAIN Goals!Tree(w) : Goals!In(w, Goals!Tree(w)[i]) \in Goals!Showing
  BY DEF Goals!Showing
<1>6. Goals!In(w, Goals!Tree(w)[1]) \in Goals!Showing /\ Goals!Tree(w)[1] = Goals!AsControl(w)
  BY <1>2, <1>3, <1>4, <1>5
<1>7. ASSUME NEW p \in DOMAIN l PROVE Goals!In(w, l[p]) \in Goals!Showing
  <2>1. p + 1 \in DOMAIN Goals!Tree(w) /\ Goals!Tree(w)[p + 1] = l[p]
    BY <1>2, <1>4
  <2> QED BY <1>5, <2>1
<1> QED BY <1>6, <1>7 DEF l

\* What is remembered at a step.
\* A tree has controls only while its window is open: they are shown.
LEMMA TreeShown ==
  ASSUME NEW w, NEW i \in DOMAIN Goals!Tree(w)
  PROVE  w \in opened /\ Goals!In(w, Goals!Tree(w)[i]) \in Goals!Showing
<1>1. CASE w \notin opened
  <2>1. Goals!Tree(w) = <<>>
    BY <1>1 DEF Goals!Tree
  <2> QED BY <2>1
<1>2. CASE w \in opened
  <2>1. Goals!In(w, Goals!Tree(w)[i]) \in {Goals!In(w, Goals!Tree(w)[j]) : j \in DOMAIN Goals!Tree(w)}
    OBVIOUS
  <2> QED BY <1>2, <2>1 DEF Goals!Showing
<1> QED BY <1>1, <1>2

LEMMA Remembered ==
  ASSUME NEW miss, Goals!Remember(miss), UNCHANGED conds
  PROVE  /\ check # "idle" => heldOnce \subseteq heldOnce' /\ shown \subseteq shown' /\ (missed => missed')
         /\ miss => missed'
         /\ Goals!Showing' \subseteq shown' /\ Goals!Holding' \subseteq heldOnce'
BY DEF Goals!Remember

\* A step that changes nothing on the desktop shows what was there before.
LEMMA NothingChanges ==
  ASSUME UNCHANGED <<opened, layout, foreground, running, conds>>
  PROVE  /\ Goals!Showing' = Goals!Showing /\ Goals!Holding' = Goals!Holding
         /\ Goals!Listed' = Goals!Listed
<1>1. \A w : Goals!Tree(w)' = Goals!Tree(w)
  BY DEF Goals!Tree
<1>2. Goals!Showing' = Goals!Showing
  BY <1>1 DEF Goals!Showing
<1>3. Goals!Listed' = Goals!Listed
  BY DEF Goals!Listed
<1>4. ASSUME NEW c PROVE Goals!Holds(c)' = Goals!Holds(c)
  BY <1>3 DEF Goals!Holds, Goals!InFront, Goals!Runs
<1>5. Goals!Holding' = Goals!Holding
  BY <1>4 DEF Goals!Holding
<1> QED BY <1>2, <1>3, <1>5

\* Both together: a step of a check.
LEMMA StepRemembers ==
  ASSUME NEW miss, Goals!Remember(miss), check # "idle",
         UNCHANGED <<opened, layout, foreground, running, conds>>
  PROVE  /\ heldOnce \subseteq heldOnce' /\ shown \subseteq shown' /\ (missed => missed') /\ (miss => missed')
         /\ Goals!Showing \subseteq shown' /\ Goals!Holding \subseteq heldOnce'
BY Remembered, NothingChanges

\* The verdict on one condition.
LEMMA VerdictKeeps ==
  ASSUME GoalsInv, check \in {"check", "focus", "state"}, NEW ok \in BOOLEAN, Goals!Verdict(ok),
         UNCHANGED <<layout, opened, foreground, conds, obs>>,
         heldOnce \subseteq heldOnce', shown \subseteq shown', missed => missed', missed' \in BOOLEAN,
         ok => Shows(conds[Len(results) + 1], Len(results) + 1, shown', heldOnce', missed')
  PROVE  GoalsInv'
<1> DEFINE n == Len(results)
<1>1. /\ check \in Checking /\ results \in Seq(BOOLEAN) /\ n \in Nat /\ n < Len(conds)
      /\ Len(conds) \in Nat /\ DOMAIN conds = 1..Len(conds) /\ DOMAIN results = 1..n
      /\ conds # <<>>
      /\ \A i \in DOMAIN conds : conds[i].expect \in BOOLEAN /\ conds[i].pred \in Goals!Predicates
  BY CondsAre DEF GoalsInv, GoalsTypes, Checking
<1>2. /\ results' = Append(results, ok)
      /\ check' = IF Len(results') < Len(conds) THEN "check"
                  ELSE IF \A i \in DOMAIN results' : results'[i] THEN "completed" ELSE "idle"
  BY DEF Goals!Verdict
<1>3. /\ results' \in Seq(BOOLEAN) /\ Len(results') = n + 1 /\ DOMAIN results' = 1..n + 1
      /\ results'[n + 1] = ok /\ \A i \in 1..n : results'[i] = results[i]
  BY <1>1, <1>2
<1>n. n \in Nat /\ DOMAIN results = 1..n
  BY <1>1
<1>m. DOMAIN results' = 1..n + 1
  BY <1>3
<1> HIDE DEF n
<1>4. /\ check' \in {"check", "completed", "idle"}
      /\ check' = "check" => Len(results') < Len(conds)
      /\ check' = "completed" => ~(Len(results') < Len(conds)) /\ \A i \in DOMAIN results' : results'[i]
  BY <1>2, Zenon
<1>5. GoalsTypes'
  <2>1. Len(results') <= Len(conds)
    BY <1>1, <1>3
  <2> QED BY <1>3, <1>4, <2>1 DEF GoalsInv, GoalsTypes, Checking
<1>6. Seen'
  <2>1. Seen /\ check \in Checking
    BY <1>1 DEF GoalsInv
  <2>2. \A i \in DOMAIN obs : obs[i] \in shown' /\ obs[i].control.ready
    BY <2>1 DEF Seen
  <2>3. \A j \in DOMAIN conds :
          /\ conds[j].pred \in {"element", "ready"} /\ ~conds[j].expect
          /\ \A i \in DOMAIN obs : ~Goals!Fits(obs[i], conds[j])
          => j \in heldOnce' \/ missed'
    BY <2>1 DEF Seen
  <2> QED BY <2>2, <2>3 DEF Seen
<1>7. Found' /\ Indexed' /\ Fronted'
  BY <1>1, <1>4 DEF GoalsInv, Found, Indexed, Fronted
<1>8. Passed'
  <2> SUFFICES ASSUME NEW i \in DOMAIN results', results'[i]
               PROVE  Shows(conds[i], i, shown', heldOnce', missed')
    BY DEF Passed
  <2>1. CASE i = n + 1
    <3>1. ok
      BY <1>3, <2>1, Zenon
    <3> QED BY <2>1, <3>1 DEF n
  <2>2. CASE i # n + 1
    <3>0. i \in 1..n
      BY <1>n, <1>m, <2>2
    <3>1. i \in DOMAIN results /\ results'[i] = results[i] /\ i \in DOMAIN conds
      <4>1. i \in DOMAIN results
        BY <1>n, <3>0, Zenon
      <4>2. results'[i] = results[i]
        BY <1>3, <3>0, Zenon
      <4>3. i \in DOMAIN conds
        BY <1>1, <3>0
      <4> QED BY <4>1, <4>2, <4>3
    <3>2. results[i]
      BY <3>1, Zenon
    <3>3. Shows(conds[i], i, shown, heldOnce, missed)
      BY <1>1, <3>1, <3>2 DEF GoalsInv, Passed
    <3>4. missed \in BOOLEAN /\ conds[i].expect \in BOOLEAN /\ conds[i].pred \in Goals!Predicates
      BY <1>1, <3>1 DEF GoalsInv, GoalsTypes
    <3> QED BY <3>3, <3>4, ShowsMore
  <2> QED BY <2>1, <2>2
<1>9. AllPassed'
  <2> SUFFICES ASSUME check' = "completed"
               PROVE  DOMAIN results' = DOMAIN conds' /\ \A i \in DOMAIN results' : results'[i]
    BY <1>1 DEF AllPassed
  <2>1. ~(Len(results') < Len(conds)) /\ \A i \in DOMAIN results' : results'[i]
    BY <1>4
  <2>2. n \in Nat /\ Len(conds) \in Nat /\ n < Len(conds) /\ ~(n + 1 < Len(conds))
    BY <1>1, <1>3, <2>1
  <2>3. n + 1 = Len(conds)
    BY <2>2
  <2>4. DOMAIN results' = DOMAIN conds
    BY <1>1, <1>m, <2>3, Zenon
  <2> QED BY <2>1, <2>4
<1> QED BY <1>5, <1>6, <1>7, <1>8, <1>9 DEF GoalsInv

LEMMA GoalsInitInv == StepsInit /\ part = "goals" => GoalsInv
<1> SUFFICES ASSUME StepsInit, part = "goals" PROVE GoalsInv
  OBVIOUS
<1>1. Goals!Init
  BY DEF StepsInit
<1>2. /\ layout \in [Settings -> SettingsLayouts] /\ opened \subseteq Settings
      /\ foreground \in opened \cup {Nothing} /\ missed \in BOOLEAN
      /\ conds \in SettingsGoals /\ results = <<>> /\ check = "idle"
  BY <1>1 DEF Goals!Init, Goals!ScreenInit
<1>3. results \in Seq(BOOLEAN) /\ Len(results) = 0
  BY <1>2
<1>4. conds \in Seq({conds[i] : i \in DOMAIN conds})
  BY <1>2, StepsAssumption DEF Goals!GoalsAssumption
<1>5. GoalsTypes
  <2>1. Len(conds) \in Nat
    BY <1>4
  <2> QED BY <1>2, <1>3, <2>1 DEF GoalsTypes, Checking
<1> QED BY <1>2, <1>5 DEF GoalsInv, Seen, Found, Indexed, Fronted, Passed, AllPassed, Checking

\* A step that leaves the conditions, the results and the observation.
LEMMA QuietKeeps ==
  ASSUME GoalsInv, UNCHANGED <<conds, results, obs>>, check' = check \/ (check \in Checking /\ check' \in Checking),
         layout' \in [Settings -> SettingsLayouts], opened' \subseteq Settings,
         foreground' \in opened' \cup {Nothing}, missed' \in BOOLEAN,
         check = "idle" \/ (heldOnce \subseteq heldOnce' /\ shown \subseteq shown' /\ (missed => missed')),
         Found', check # "completed" \/ UNCHANGED retries, UNCHANGED fresh
  PROVE  GoalsInv'
<1>1. GoalsTypes'
  BY DEF GoalsInv, GoalsTypes, Checking
<1>2. (check' \in Checking <=> check \in Checking) /\ (check' = "completed" <=> check = "completed")
      /\ (check' \in {"window", "walk"} <=> check \in {"window", "walk"})
      /\ (check' \in Checking \cup {"completed"} => check # "idle")
  BY DEF Checking
<1>3. Seen' /\ Indexed'
  <2> SUFFICES ASSUME check' \in Checking PROVE Seen' /\ Indexed'
    BY DEF Seen, Indexed
  <2>1. Seen /\ Indexed /\ check \in Checking /\ check # "idle"
    BY <1>2 DEF GoalsInv
  <2>2. \A i \in DOMAIN obs : obs[i] \in shown' /\ obs[i].control.ready
    BY <2>1 DEF Seen
  <2>3. \A j \in DOMAIN conds :
          /\ conds[j].pred \in {"element", "ready"} /\ ~conds[j].expect
          /\ \A i \in DOMAIN obs : ~Goals!Fits(obs[i], conds[j])
          => j \in heldOnce' \/ missed'
    BY <2>1 DEF Seen
  <2> QED BY <2>1, <2>2, <2>3 DEF Seen, Indexed
<1>4. Passed'
  <2> SUFFICES ASSUME check' \in Checking \cup {"completed"}, NEW i \in DOMAIN results, results[i]
               PROVE  Shows(conds[i], i, shown', heldOnce', missed')
    BY DEF Passed
  <2>1. check \in Checking \cup {"completed"} /\ check # "idle"
    BY <1>2
  <2>2. i \in DOMAIN conds
    <3>1. results \in Seq(BOOLEAN) /\ Len(results) <= Len(conds) /\ Len(conds) \in Nat /\ DOMAIN conds = 1..Len(conds)
      BY CondsAre DEF GoalsInv, GoalsTypes
    <3> QED BY <3>1
  <2>3. conds[i].expect \in BOOLEAN /\ conds[i].pred \in Goals!Predicates /\ missed \in BOOLEAN
    BY <2>2, CondsAre DEF GoalsInv, GoalsTypes
  <2>4. Shows(conds[i], i, shown, heldOnce, missed)
    BY <2>1 DEF GoalsInv, Passed
  <2> QED BY <2>1, <2>3, <2>4, ShowsMore
<1>5. AllPassed' /\ Fronted'
  <2>1. shown # {} /\ check # "idle" => shown' # {}
    OBVIOUS
  <2>2. AllPassed'
    BY <1>2, <2>1 DEF GoalsInv, AllPassed
  <2>3. Fronted'
    BY <1>2, <2>1 DEF GoalsInv, Fronted
  <2> QED BY <2>2, <2>3
<1> QED BY <1>1, <1>3, <1>4, <1>5 DEF GoalsInv

\* The observation is made.
LEMMA WalkKeeps == ASSUME GoalsInv, Goals!Walk PROVE GoalsInv'
<1>t. /\ layout \in [Settings -> SettingsLayouts] /\ opened \subseteq Settings /\ results = <<>>
      /\ Len(conds) \in Nat /\ (conds = <<>> <=> Len(conds) = 0) /\ DOMAIN conds = 1..Len(conds)
      /\ \A i \in DOMAIN conds : conds[i].expect \in BOOLEAN
      /\ check = "walk" /\ check # "idle"
  BY CondsAre DEF GoalsInv, GoalsTypes, Goals!Walk
<1>u. UNCHANGED <<opened, layout, foreground, running, conds, fresh, results>>
  BY DEF Goals!Walk, Goals!screen
<1> DEFINE r == Goals!Root(window)
           blind == \E s \in Goals!Listed : \A i \in DOMAIN obs' : obs'[i] # s
<1>w. PICK walked \in Goals!Walks(r) :
        /\ obs' = [i \in DOMAIN Goals!Elements(r, walked) |-> Goals!In(r, Goals!Elements(r, walked)[i].control)]
        /\ IF conds # <<>> THEN check' = "check" /\ UNCHANGED retries
           ELSE Goals!Conclude(fresh # Nothing \/ walked # {})
  BY DEF Goals!Walk, Goals!FreshObservation
<1>r. Goals!Remember(blind)
  BY DEF Goals!Walk
<1>m. missed' \in BOOLEAN /\ (blind => missed')
  <2>1. missed' = ((check # "idle" /\ missed) \/ blind)
    BY <1>r DEF Goals!Remember
  <2> QED BY <2>1
<1>s. shown \subseteq shown' /\ Goals!Showing \subseteq shown' /\ Goals!Holding \subseteq heldOnce'
  BY <1>t, <1>u, <1>r, StepRemembers
<1> HIDE DEF r
<1>e. ASSUME NEW i \in DOMAIN obs'
      PROVE  /\ r \in opened /\ obs'[i].control.ready /\ i \in Nat
             /\ \E p \in DOMAIN layout[r] : obs'[i] = Goals!In(r, layout[r][p])
  <2>1. i \in DOMAIN Goals!Elements(r, walked) /\ obs'[i] = Goals!In(r, Goals!Elements(r, walked)[i].control)
    BY <1>w
  <2>2. obs'[i].control = Goals!Elements(r, walked)[i].control
    BY <2>1 DEF Goals!In
  <2> QED BY <1>t, <2>1, <2>2, ElementsAreShown
<1>x. walked # {} => r \in opened
  BY <1>t, ElementsAreShown
<1>o. opened # {} => shown' # {}
  BY <1>t, <1>s, ShowingHas
<1>1. CASE conds # <<>>
  <2>1. check' = "check"
    BY <1>1, <1>w
  <2>2. GoalsTypes'
    <3>1. Len(results) < Len(conds)
      BY <1>1, <1>t
    <3> QED BY <1>u, <1>m, <2>1, <3>1 DEF GoalsInv, GoalsTypes, Checking
  <2>3. \A i \in DOMAIN obs' : obs'[i] \in shown' /\ obs'[i].control.ready
    BY <1>t, <1>e, <1>s, ShowingHas
  <2>4. ASSUME NEW j \in DOMAIN conds, conds[j].pred \in {"element", "ready"}, ~conds[j].expect,
               \A i \in DOMAIN obs' : ~Goals!Fits(obs'[i], conds[j])
        PROVE  j \in heldOnce' \/ missed'
    <3>1. CASE blind
      BY <1>m, <3>1
    <3>2. CASE ~blind
      <4>1. \A s \in Goals!Listed : \E i \in DOMAIN obs' : obs'[i] = s
        BY <3>2
      <4>2. ~\E s \in Goals!Listed : Goals!Fits(s, conds[j])
        BY <2>4, <4>1
      <4> HIDE DEF blind
      <4>3. conds[j].expect = FALSE
        BY <1>t, <2>4, Zenon
      <4>4. Goals!Holds(conds[j])
        BY <2>4, <4>2, <4>3 DEF Goals!Holds
      <4> QED BY <1>s, <4>4 DEF Goals!Holding
    <3> QED BY <3>1, <3>2
  <2>5. Seen'
    BY <1>u, <2>3, <2>4 DEF Seen
  <2>6. Indexed'
    BY <1>e DEF Indexed
  <2> QED BY <1>u, <1>t, <2>1, <2>2, <2>5, <2>6 DEF GoalsInv, Found, Fronted, Passed, AllPassed
<1>2. CASE conds = <<>>
  <2>1. \/ check' = "completed" /\ UNCHANGED retries /\ (fresh # Nothing \/ walked # {} \/ retries = 3)
        \/ check' = "idle"
    BY <1>2, <1>w DEF Goals!Conclude
  <2>2. GoalsTypes'
    <3>1. Len(results) <= Len(conds)
      BY <1>2, <1>t
    <3> QED BY <1>u, <1>m, <2>1, <3>1 DEF GoalsInv, GoalsTypes, Checking
  <2>3. AllPassed'
    <3> SUFFICES ASSUME check' = "completed" PROVE AllPassed'
      BY DEF AllPassed
    <3>1. shown' # {} \/ retries' = 3
      <4>1. CASE fresh # Nothing
        BY <1>t, <1>s, <4>1 DEF GoalsInv, Fronted
      <4>2. CASE walked # {}
        BY <1>x, <1>o, <4>2
      <4> QED BY <2>1, <4>1, <4>2
    <3>2. DOMAIN results = DOMAIN conds /\ \A i \in DOMAIN results : results[i]
      BY <1>2, <1>t
    <3> QED BY <1>u, <3>1, <3>2 DEF AllPassed
  <2>4. Passed'
    BY <1>u, <1>t DEF Passed
  <2> QED BY <2>1, <2>2, <2>3, <2>4 DEF GoalsInv, Seen, Found, Indexed, Fronted, Checking
<1> QED BY <1>1, <1>2

\* What a step knows of the condition that it checks.
LEMMA CondIs ==
  ASSUME GoalsInv, check \in Checking
  PROVE  /\ Len(results) + 1 \in DOMAIN conds /\ Goals!Cond = conds[Len(results) + 1]
         /\ Goals!Cond.expect \in BOOLEAN /\ Goals!Cond.pred \in Goals!Predicates
<1>1. Len(results) < Len(conds) /\ Len(results) \in Nat
  BY DEF GoalsInv, GoalsTypes
<1>2. Len(conds) \in Nat /\ DOMAIN conds = 1..Len(conds)
      /\ \A i \in DOMAIN conds : conds[i].expect \in BOOLEAN /\ conds[i].pred \in Goals!Predicates
  BY CondsAre DEF GoalsInv
<1>3. Len(results) + 1 \in DOMAIN conds
  BY <1>1, <1>2
<1> QED BY <1>2, <1>3 DEF Goals!Cond

\* A check that reaches a verdict keeps the invariant if there is evidence.
LEMMA CheckKeeps ==
  ASSUME GoalsInv, check \in {"check", "focus", "state"}, NEW ok \in BOOLEAN, Goals!Verdict(ok),
         UNCHANGED Goals!CheckVars, NEW miss, Goals!Remember(miss),
         ASSUME ok, heldOnce \subseteq heldOnce', shown \subseteq shown', missed => missed', miss => missed',
                Goals!Showing \subseteq shown', Goals!Holding \subseteq heldOnce'
         PROVE  Shows(Goals!Cond, Len(results) + 1, shown', heldOnce', missed')
  PROVE  GoalsInv'
<1>1. UNCHANGED <<opened, layout, foreground, running, conds, obs>> /\ check \in Checking /\ check # "idle"
  BY DEF Goals!CheckVars, Goals!screen, Checking
<1>2. /\ heldOnce \subseteq heldOnce' /\ shown \subseteq shown' /\ (missed => missed') /\ (miss => missed')
      /\ Goals!Showing \subseteq shown' /\ Goals!Holding \subseteq heldOnce'
  BY <1>1, StepRemembers
<1>3. missed' \in BOOLEAN
  <2>1. missed' = ((check # "idle" /\ missed) \/ miss)
    BY DEF Goals!Remember
  <2> QED BY <2>1
<1>4. ok => Shows(conds[Len(results) + 1], Len(results) + 1, shown', heldOnce', missed')
  BY <1>1, <1>2, CondIs
<1> QED BY <1>1, <1>2, <1>3, <1>4, VerdictKeeps

\* A window that was found is shown.
LEMMA FoundWindow ==
  ASSUME GoalsInv, NEW name, NEW w \in Goals!Find(name), w # Nothing
  PROVE  /\ w \in opened /\ Goals!Titled(w, name)
         /\ \E s \in Goals!Showing : Goals!Titled(s.window, name)
<1>1. w \in opened /\ Goals!Titled(w, name)
  BY DEF Goals!Find, Goals!FindWindow, Goals!Titled
<1>2. Goals!In(w, Goals!AsControl(w)) \in Goals!Showing
  BY <1>1, ShowingHas DEF GoalsInv, GoalsTypes
<1>3. Goals!In(w, Goals!AsControl(w)).window = w
  BY DEF Goals!In
<1> QED BY <1>1, <1>2, <1>3

LEMMA FoundInFront ==
  ASSUME GoalsInv, NEW name, NEW a \in Goals!Active, a # Nothing, Goals!Titled(a, name)
  PROVE  /\ Goals!InFront(name) /\ foreground \in opened
         /\ \E s \in Goals!Showing : Goals!Titled(s.window, name)
<1>1. a = foreground /\ a \in opened
  BY DEF Goals!Active, GoalsInv, GoalsTypes
<1>2. Goals!In(a, Goals!AsControl(a)) \in Goals!Showing
  BY <1>1, ShowingHas DEF GoalsInv, GoalsTypes
<1>3. Goals!In(a, Goals!AsControl(a)).window = a
  BY DEF Goals!In
<1> QED BY <1>1, <1>2, <1>3 DEF Goals!InFront

\* The conditions on windows and programs.
LEMMA WindowCheckKeeps ==
  ASSUME GoalsInv,
         Goals!CheckExists \/ Goals!CheckFocused \/ Goals!FindFocused \/ Goals!CheckActive \/ Goals!CheckRunning
  PROVE  GoalsInv'
<1>t. /\ check = "check" \/ check = "focus" => check \in Checking
      /\ layout \in [Settings -> SettingsLayouts] /\ opened \subseteq Settings
      /\ foreground \in opened \cup {Nothing}
  BY DEF Checking, GoalsInv, GoalsTypes
<1> DEFINE c == Goals!Cond
           n == Len(results) + 1
<1>h. ASSUME check \in Checking, Goals!Holds(c) PROVE n \in Goals!Holding
  BY <1>h, CondIs DEF Goals!Holding
<1> HIDE DEF c, n
<1>1. CASE Goals!CheckExists
  <2>1. /\ check = "check" /\ c.pred = "exists" /\ UNCHANGED Goals!CheckVars
    BY <1>1 DEF Goals!CheckExists, c
  <2>2. PICK w \in Goals!Find(c.name) : /\ Goals!Verdict((w # Nothing) = c.expect)
                                        /\ Goals!Remember(Goals!Overlooked(w, c.name))
    BY <1>1 DEF Goals!CheckExists, c
  <2>3. c.expect \in BOOLEAN
    BY <1>t, <2>1, CondIs DEF c
  <2>4. ASSUME (w # Nothing) = c.expect, missed => missed', Goals!Overlooked(w, c.name) => missed',
               Goals!Showing \subseteq shown', Goals!Holding \subseteq heldOnce', missed' \in BOOLEAN
        PROVE  Shows(c, n, shown', heldOnce', missed')
    <3>1. CASE w # Nothing
      <4>1. \E s \in Goals!Showing : Goals!Titled(s.window, c.name)
        BY <2>2, <3>1, FoundWindow
      <4>2. c.expect /\ \E s \in shown' : Goals!Titled(s.window, c.name)
        BY <2>3, <2>4, <3>1, <4>1
      <4> QED BY <2>1, <4>2, ShowsWindow
    <3>2. CASE w = Nothing /\ \E v \in opened : Goals!Titled(v, c.name)
      <4>1. ~c.expect /\ missed'
        BY <2>3, <2>4, <3>2 DEF Goals!Overlooked
      <4> QED BY <2>1, <4>1, ShowsMissed
    <3>3. CASE w = Nothing /\ ~\E v \in opened : Goals!Titled(v, c.name)
      <4>1. c.expect = FALSE
        BY <2>3, <2>4, <3>3
      <4>2. Goals!Holds(c)
        BY <2>1, <3>3, <4>1 DEF Goals!Holds
      <4>3. n \in heldOnce'
        BY <1>h, <1>t, <2>1, <2>4, <4>2
      <4> QED BY <2>1, <4>1, <4>3, ShowsHeld
    <3> QED BY <3>1, <3>2, <3>3
  <2>m. missed' \in BOOLEAN
    BY <2>2 DEF Goals!Remember
  <2>5. (((w # Nothing) = c.expect) \in BOOLEAN)
    OBVIOUS
  <2> QED BY <2>1, <2>2, <2>4, <2>m, <2>5, CheckKeeps DEF c, n
<1>2. CASE Goals!CheckFocused
  <2>1. /\ check = "check" /\ c.pred = "focused" /\ UNCHANGED Goals!CheckVars /\ Goals!Remember(FALSE)
        /\ UNCHANGED found
    BY <1>2 DEF Goals!CheckFocused, c
  <2>2. PICK a \in Goals!Active :
          IF a # Nothing /\ Goals!Titled(a, c.name) THEN Goals!Verdict(c.expect)
          ELSE check' = "focus" /\ UNCHANGED results
    BY <1>2 DEF Goals!CheckFocused, c
  <2>3. c.expect \in BOOLEAN
    BY <1>t, <2>1, CondIs DEF c
  <2>m. missed' \in BOOLEAN
    BY <2>1 DEF Goals!Remember
  <2>4. CASE a # Nothing /\ Goals!Titled(a, c.name)
    <3>1. ASSUME c.expect, Goals!Showing \subseteq shown' PROVE Shows(c, n, shown', heldOnce', missed')
      <4>1. \E s \in Goals!Showing : Goals!Titled(s.window, c.name)
        BY <2>2, <2>4, FoundInFront
      <4>2. \E s \in shown' : Goals!Titled(s.window, c.name)
        BY <3>1, <4>1
      <4> QED BY <2>1, <3>1, <4>2, ShowsWindow
    <3> QED BY <2>1, <2>2, <2>3, <2>4, <3>1, CheckKeeps DEF c, n
  <2>5. CASE ~(a # Nothing /\ Goals!Titled(a, c.name))
    <3>1. check' = "focus" /\ UNCHANGED results
      BY <2>2, <2>5
    <3>2. UNCHANGED <<opened, layout, foreground, running, conds, obs, fresh>> /\ check # "idle"
      BY <2>1 DEF Goals!CheckVars, Goals!screen
    <3>3. heldOnce \subseteq heldOnce' /\ shown \subseteq shown' /\ (missed => missed')
      BY <2>1, <3>2, StepRemembers
    <3>4. Found'
      BY <1>t, <2>1, <3>1, <3>2, CondIs DEF Found, c
    <3>5. check \in Checking /\ check' \in Checking /\ check # "completed"
      BY <2>1, <3>1 DEF Checking
    <3> QED BY <1>t, <2>m, <3>1, <3>2, <3>3, <3>4, <3>5, QuietKeeps
  <2> QED BY <2>4, <2>5
<1>3. CASE Goals!FindFocused
  <2>1. check = "focus" /\ UNCHANGED Goals!CheckVars
    BY <1>3 DEF Goals!FindFocused
  <2>2. PICK w \in Goals!Find(c.name), a \in Goals!Active :
          /\ Goals!Verdict((w # Nothing \/ (a # Nothing /\ Goals!Titled(a, c.name))) = c.expect)
          /\ Goals!Remember(Goals!Overlooked(w, c.name))
    BY <1>3 DEF Goals!FindFocused, c
  <2>3. c.expect \in BOOLEAN /\ c.pred = "focused"
    BY <1>t, <2>1, CondIs DEF c, GoalsInv, Found
  <2>m. missed' \in BOOLEAN
    BY <2>2 DEF Goals!Remember
  <2> DEFINE ok == (w # Nothing \/ (a # Nothing /\ Goals!Titled(a, c.name))) = c.expect
  <2>4. ASSUME ok, Goals!Overlooked(w, c.name) => missed',
               Goals!Showing \subseteq shown', Goals!Holding \subseteq heldOnce'
        PROVE  Shows(c, n, shown', heldOnce', missed')
    <3>1. CASE w # Nothing \/ (a # Nothing /\ Goals!Titled(a, c.name))
      <4>1. \E s \in Goals!Showing : Goals!Titled(s.window, c.name)
        BY <2>2, <3>1, FoundWindow, FoundInFront
      <4>2. c.expect
        BY <2>4, <3>1, Zenon
      <4>3. \E s \in shown' : Goals!Titled(s.window, c.name)
        BY <2>4, <4>1
      <4> QED BY <2>3, <4>2, <4>3, ShowsWindow
    <3>2. CASE w = Nothing /\ \E v \in opened : Goals!Titled(v, c.name)
      <4>1. missed'
        BY <2>4, <3>2 DEF Goals!Overlooked
      <4>2. CASE c.expect
        <5>1. a # Nothing /\ Goals!Titled(a, c.name)
          BY <2>4, <3>2, <4>2, Zenon
        <5> QED BY <3>1, <5>1
      <4>3. CASE ~c.expect
        BY <2>3, <4>1, <4>3, ShowsMissed
      <4> QED BY <4>2, <4>3
    <3>3. CASE w = Nothing /\ ~(a # Nothing /\ Goals!Titled(a, c.name)) /\ ~\E v \in opened : Goals!Titled(v, c.name)
      <4>1. ~c.expect
        BY <2>4, <3>3, Zenon
      <4>2. ~Goals!InFront(c.name) /\ c.expect = FALSE
        BY <1>t, <2>3, <3>3, <4>1 DEF Goals!InFront
      <4>3. Goals!Holds(c)
        <5>1. Goals!InFront(c.name) = c.expect
          BY <4>2 DEF Goals!InFront
        <5> HIDE DEF c
        <5> QED BY <2>3, <5>1, Zenon DEF Goals!Holds
      <4>4. n \in heldOnce'
        BY <1>h, <1>t, <2>1, <2>4, <4>3
      <4> QED BY <2>3, <4>1, <4>4, ShowsHeld
    <3> QED BY <3>1, <3>2, <3>3
  <2>5. ok \in BOOLEAN /\ Goals!Verdict(ok)
    BY <2>2
  <2> HIDE DEF ok
  <2> QED BY <2>1, <2>2, <2>4, <2>5, CheckKeeps DEF c, n
<1>4. CASE Goals!CheckActive
  <2>1. /\ check = "check" /\ c.pred = "active" /\ UNCHANGED Goals!CheckVars /\ Goals!Remember(FALSE)
    BY <1>4 DEF Goals!CheckActive, c
  <2>2. PICK a \in Goals!Active : Goals!Verdict(a # Nothing /\ Goals!Titled(a, c.name))
    BY <1>4 DEF Goals!CheckActive, c
  <2>3. c.expect \in BOOLEAN
    BY <1>t, <2>1, CondIs DEF c
  <2>m. missed' \in BOOLEAN
    BY <2>1 DEF Goals!Remember
  <2> DEFINE ok == a # Nothing /\ Goals!Titled(a, c.name)
  <2>4. ASSUME ok, Goals!Holding \subseteq heldOnce' PROVE Shows(c, n, shown', heldOnce', missed')
    <3>1. Goals!InFront(c.name)
      BY <2>2, <2>4, FoundInFront
    <3>2. Goals!Holds(c)
      BY <2>1, <3>1 DEF Goals!Holds
    <3>3. n \in heldOnce'
      BY <1>h, <1>t, <2>1, <2>4, <3>2
    <3> QED BY <2>1, <3>3, ShowsHeld
  <2>5. ok \in BOOLEAN /\ Goals!Verdict(ok)
    BY <2>2
  <2> HIDE DEF ok
  <2> QED BY <2>1, <2>4, <2>5, CheckKeeps DEF c, n
<1>5. CASE Goals!CheckRunning
  <2>1. /\ check = "check" /\ c.pred = "running" /\ UNCHANGED Goals!CheckVars
    BY <1>5 DEF Goals!CheckRunning, c
  <2>2. PICK runs \in {Goals!Runs(c.name), FALSE} :
          Goals!Verdict(runs = c.expect) /\ Goals!Remember(runs # Goals!Runs(c.name))
    BY <1>5 DEF Goals!CheckRunning, c
  <2>3. c.expect \in BOOLEAN
    BY <1>t, <2>1, CondIs DEF c
  <2>m. missed' \in BOOLEAN
    BY <2>2 DEF Goals!Remember
  <2>4. ASSUME runs = c.expect, runs # Goals!Runs(c.name) => missed', Goals!Holding \subseteq heldOnce'
        PROVE  Shows(c, n, shown', heldOnce', missed')
    <3>1. CASE runs = Goals!Runs(c.name)
      <4>1. Goals!Holds(c)
        BY <2>1, <2>4, <3>1 DEF Goals!Holds
      <4>2. n \in heldOnce'
        BY <1>h, <1>t, <2>1, <2>4, <4>1
      <4> QED BY <2>1, <4>2, ShowsHeld
    <3>2. CASE runs # Goals!Runs(c.name)
      <4>1. ~c.expect /\ missed'
        BY <2>2, <2>3, <2>4, <3>2
      <4> QED BY <2>1, <4>1, ShowsMissed
    <3> QED BY <3>1, <3>2
  <2>5. (runs = c.expect) \in BOOLEAN
    OBVIOUS
  <2> QED BY <2>1, <2>2, <2>4, <2>5, CheckKeeps DEF c, n
<1> QED BY <1>1, <1>2, <1>3, <1>4, <1>5

\* The conditions on elements.
LEMMA ElementCheckKeeps ==
  ASSUME GoalsInv, Goals!CheckElement \/ Goals!CheckText
  PROVE  GoalsInv'
<1> DEFINE c == Goals!Cond
           n == Len(results) + 1
<1>0. /\ check = "check" /\ check \in Checking /\ UNCHANGED Goals!CheckVars /\ Goals!Remember(FALSE)
  BY DEF Goals!CheckElement, Goals!CheckText, Checking
<1>1. c.expect \in BOOLEAN /\ n \in DOMAIN conds /\ conds[n] = c
  BY <1>0, CondIs
<1>s. /\ \A i \in DOMAIN obs : obs[i] \in shown
      /\ /\ c.pred \in {"element", "ready"} /\ ~c.expect
         /\ \A i \in DOMAIN obs : ~Goals!Fits(obs[i], c)
         => n \in heldOnce \/ missed
  BY <1>0, <1>1 DEF GoalsInv, Seen
<1>m. missed' \in BOOLEAN
  BY <1>0 DEF Goals!Remember
<1> HIDE DEF c, n
<1>2. CASE Goals!CheckElement
  <2>1. c.pred \in {"element", "ready"}
    BY <1>2 DEF Goals!CheckElement, c
  <2> DEFINE some == \E i \in DOMAIN obs : Goals!Fits(obs[i], c)
  <2>2. Goals!Verdict(some = c.expect)
    BY <1>2 DEF Goals!CheckElement, c
  <2>3. ASSUME some = c.expect, heldOnce \subseteq heldOnce', shown \subseteq shown', missed => missed'
        PROVE  Shows(c, n, shown', heldOnce', missed')
    <3>1. CASE c.expect
      <4>1. PICK i \in DOMAIN obs : Goals!Fits(obs[i], c)
        BY <2>3, <3>1, Zenon
      <4>2. obs[i] \in shown'
        BY <1>s, <2>3
      <4> QED BY <2>1, <3>1, <4>1, <4>2, ShowsElement
    <3>2. CASE ~c.expect
      <4>1. \A i \in DOMAIN obs : ~Goals!Fits(obs[i], c)
        BY <2>3, <3>2, Zenon
      <4>2. n \in heldOnce' \/ missed'
        BY <1>s, <2>1, <2>3, <3>2, <4>1
      <4> QED BY <2>1, <3>2, <4>2, ShowsHeld, ShowsMissed
    <3> QED BY <3>1, <3>2
  <2>4. (some = c.expect) \in BOOLEAN
    OBVIOUS
  <2> HIDE DEF some
  <2> QED BY <1>0, <2>2, <2>3, <2>4, CheckKeeps DEF c, n
<1>3. CASE Goals!CheckText
  <2>1. c.pred \in {"text", "contains"}
    BY <1>3 DEF Goals!CheckText, c
  <2> DEFINE named == {i \in DOMAIN obs : Goals!Bears(obs[i].control.name, c.name)}
             ok == \/ c.pred = "text" /\ c.text = ""
                   \/ \E i \in named : Goals!HasText(obs[i], c) /\ \A j \in named : i <= j
  <2>2. Goals!Verdict(ok)
    BY <1>3 DEF Goals!CheckText, c
  <2>3. ASSUME ok, shown \subseteq shown' PROVE Shows(c, n, shown', heldOnce', missed')
    <3>1. CASE c.pred = "text" /\ c.text = ""
      BY <3>1, ShowsNoText
    <3>2. CASE \E s \in shown' : Goals!HasText(s, c)
      BY <2>1, <3>2, ShowsText
    <3>3. (c.pred = "text" /\ c.text = "") \/ \E s \in shown' : Goals!HasText(s, c)
      BY <1>s, <2>3
    <3> QED BY <3>1, <3>2, <3>3
  <2>4. ok \in BOOLEAN
    OBVIOUS
  <2> HIDE DEF ok
  <2> QED BY <1>0, <2>2, <2>3, <2>4, CheckKeeps DEF c, n
<1> QED BY <1>2, <1>3

\* The conditions on toggles.
LEMMA ToggleCheckKeeps ==
  ASSUME GoalsInv, Goals!CheckToggle \/ Goals!FindToggle \/ Goals!ReadToggle
  PROVE  GoalsInv'
<1> DEFINE c == Goals!Cond
           n == Len(results) + 1
<1>0. check \in {"check", "find", "state"} /\ UNCHANGED Goals!CheckVars /\ Goals!Remember(FALSE)
  BY DEF Goals!CheckToggle, Goals!FindToggle, Goals!ReadToggle
<1>t. /\ check \in Checking /\ check # "idle" /\ check # "completed"
      /\ layout \in [Settings -> SettingsLayouts] /\ opened \subseteq Settings
      /\ foreground \in opened \cup {Nothing}
  BY <1>0 DEF Checking, GoalsInv, GoalsTypes
<1>u. UNCHANGED <<opened, layout, foreground, running, conds, obs, fresh>>
  BY <1>0 DEF Goals!CheckVars, Goals!screen
<1>c. c = conds[n] /\ c.expect \in BOOLEAN
  BY <1>t, CondIs
<1>r. /\ heldOnce \subseteq heldOnce' /\ shown \subseteq shown' /\ (missed => missed')
      /\ Goals!Showing \subseteq shown'
  BY <1>0, <1>t, <1>u, StepRemembers
<1>m. missed' \in BOOLEAN
  BY <1>0 DEF Goals!Remember
<1>1. CASE Goals!CheckToggle
  <2>1. c.pred = "toggle" /\ check' = "find" /\ UNCHANGED results
    BY <1>1 DEF Goals!CheckToggle
  <2>2. Found'
    BY <1>u, <1>c, <2>1 DEF Found
  <2> QED BY <1>t, <1>u, <1>r, <1>m, <2>1, <2>2, QuietKeeps DEF Checking
<1>2. CASE Goals!FindToggle
  <2>1. /\ check = "find" /\ check' = "state" /\ UNCHANGED results
        /\ found' \in IF Goals!Root(window) = Nothing THEN {Nothing}
                      ELSE Goals!FindElement(Goals!Root(window), c.name, "", "")
    BY <1>2 DEF Goals!FindToggle
  <2>2. ASSUME found' # Nothing
        PROVE  found' \in shown' /\ Goals!Contains(found'.control.name, c.name)
    <3> DEFINE w == Goals!Root(window)
    <3>1. found' \in Goals!FindElement(w, c.name, "", "")
      BY <2>1, <2>2, Zenon
    <3> HIDE DEF w
    <3>2. PICK i \in DOMAIN Goals!Tree(w) :
            /\ Goals!Matches(Goals!Tree(w)[i], c.name, "", "")
            /\ found' = [window |-> w, control |-> Goals!Tree(w)[i]]
      BY <2>2, <3>1 DEF Goals!FindElement
    <3>3. c.name # "" /\ Goals!Contains(Goals!Tree(w)[i].name, c.name)
      BY <3>2 DEF Goals!Matches
    <3>4. found'.control = Goals!Tree(w)[i] /\ found' = Goals!In(w, Goals!Tree(w)[i])
      BY <3>2 DEF Goals!In
    <3>5. found' \in Goals!Showing
      BY <3>2, <3>4, TreeShown
    <3> QED BY <1>r, <3>3, <3>4, <3>5
  <2>3. conds[n].pred = "toggle"
    BY <2>1 DEF GoalsInv, Found
  <2>4. Found'
    BY <1>u, <1>c, <2>1, <2>2, <2>3 DEF Found
  <2> QED BY <1>t, <1>u, <1>r, <1>m, <2>1, <2>4, QuietKeeps DEF Checking
<1>3. CASE Goals!ReadToggle
  <2>1. check = "state"
    BY <1>3 DEF Goals!ReadToggle
  <2>2. PICK state \in Goals!Now \cup {Goals!Observed} : Goals!Verdict(state = Goals!State(c.expect))
    BY <1>3 DEF Goals!ReadToggle
  <2>c. c.pred = "toggle"
    BY <1>c, <2>1 DEF GoalsInv, Found
  <2>f. found # Nothing => found \in shown /\ Goals!Contains(found.control.name, c.name)
    BY <1>c, <2>1 DEF GoalsInv, Found
  <2>s. Goals!State(c.expect) \in {"On", "Off"}
    BY DEF Goals!State
  <2>o. DOMAIN obs \subseteq Nat /\ \A i \in DOMAIN obs : obs[i] \in shown
    BY <1>t DEF GoalsInv, Indexed, Seen
  <2> HIDE DEF c, n
  <2>4. ASSUME state = Goals!State(c.expect) PROVE Shows(c, n, shown', heldOnce', missed')
    <3>1. CASE state \in Goals!Now
      <4>1. PICK i \in DOMAIN Goals!Tree(found.window) :
              /\ found # Nothing /\ state # "none"
              /\ Goals!Same(Goals!Tree(found.window)[i], found.control)
              /\ state = Goals!Tree(found.window)[i].state
        BY <3>1 DEF Goals!Now
      <4> DEFINE v == found.window
                 d == Goals!In(v, Goals!Tree(v)[i])
      <4>2. v \in opened
        <5>1. CASE v \notin opened
          BY <4>1, <5>1 DEF Goals!Tree
        <5> QED BY <5>1
      <4>3. d \in Goals!Showing
        BY <4>1, <4>2 DEF Goals!Showing
      <4>4. d.window = v /\ d.control = Goals!Tree(v)[i]
        BY DEF Goals!In
      <4>5. Goals!Same(found.control, d.control)
        BY <4>1, <4>4 DEF Goals!Same
      <4>6. d.control.state = Goals!State(c.expect)
        BY <2>4, <4>1, <4>4
      <4>7. found \in shown' /\ Goals!Contains(found.control.name, c.name) /\ d \in shown'
        BY <1>r, <2>f, <4>1, <4>3
      <4> HIDE DEF d
      <4>8. found.window = d.window
        BY <4>4
      <4> QED BY <2>c, <4>5, <4>6, <4>7, <4>8, ShowsToggle
    <3>2. CASE state = Goals!Observed
      <4> DEFINE fit == {i \in DOMAIN obs : /\ Goals!Contains(obs[i].control.name, c.name)
                                            /\ obs[i].control.state # "none"}
                 k == CHOOSE i \in fit : \A j \in fit : i <= j
      <4>1. Goals!Observed = IF fit = {} THEN "Unknown" ELSE obs[k].control.state
        BY DEF Goals!Observed, c
      <4>2. fit # {} /\ state = obs[k].control.state
        BY <2>4, <2>s, <3>2, <4>1
      <4>3. k \in fit
        <5>1. fit \subseteq Nat
          BY <2>o
        <5> HIDE DEF fit
        <5>2. \E i \in fit : \A j \in fit : i <= j
          BY <4>2, <5>1, LeastNatural
        <5> QED BY <5>2, Zenon
      <4> HIDE DEF k
      <4>4. k \in DOMAIN obs /\ Goals!Contains(obs[k].control.name, c.name)
        BY <4>3
      <4>5. obs[k] \in shown' /\ Goals!Same(obs[k].control, obs[k].control)
        BY <1>r, <2>o, <4>4 DEF Goals!Same
      <4>6. obs[k].window = obs[k].window /\ obs[k].control.state = Goals!State(c.expect)
        BY <2>4, <4>2
      <4> QED BY <2>c, <4>4, <4>5, <4>6, ShowsToggle
    <3> QED BY <2>2, <3>1, <3>2
  <2>5. (state = Goals!State(c.expect)) \in BOOLEAN
    OBVIOUS
  <2> QED BY <1>0, <2>1, <2>2, <2>4, <2>5, CheckKeeps DEF c, n
<1> QED BY <1>1, <1>2, <1>3

LEMMA GoalsNextInv == GoalsInv /\ [Goals!Next]_<<screen, goals>> => GoalsInv'
<1> SUFFICES ASSUME GoalsInv, [Goals!Next]_<<screen, goals>> PROVE GoalsInv'
  OBVIOUS
<1>t. /\ layout \in [Settings -> SettingsLayouts] /\ opened \subseteq Settings
      /\ foreground \in opened \cup {Nothing}
      /\ Len(conds) \in Nat
  BY CondsAre DEF GoalsInv, GoalsTypes
<1>m. ASSUME NEW miss, Goals!Remember(miss) PROVE missed' \in BOOLEAN
  BY <1>m DEF Goals!Remember
<1>1. CASE Goals!Begin
  <2>1. /\ check' = "observe" /\ results' = <<>> /\ UNCHANGED <<opened, layout, foreground, conds>>
        /\ Goals!Remember(FALSE)
    BY <1>1 DEF Goals!Begin, Goals!screen
  <2>2. results' \in Seq(BOOLEAN) /\ Len(results') = 0
    BY <2>1
  <2>3. GoalsTypes'
    <3>1. /\ layout \in [Settings -> SettingsLayouts] /\ opened \subseteq Settings
          /\ foreground \in opened \cup {Nothing} /\ conds \in SettingsGoals /\ Len(conds) \in Nat
      BY CondsAre DEF GoalsInv, GoalsTypes
    <3>2. Len(results') <= Len(conds')
      BY <2>1, <2>2, <3>1
    <3> QED BY <1>m, <2>1, <2>2, <3>1, <3>2 DEF GoalsTypes, Checking
  <2>4. check' \notin Checking \cup {"completed", "window", "walk", "find", "state", "focus"}
    BY <2>1 DEF Checking
  <2>5. Seen' /\ Indexed' /\ Fronted' /\ AllPassed'
    BY <2>4 DEF Seen, Indexed, Fronted, AllPassed
  <2>6. Found' /\ Passed'
    BY <2>4 DEF Found, Passed
  <2> QED BY <2>3, <2>5, <2>6 DEF GoalsInv
<1>2. CASE Goals!Observe
  <2>1. /\ check = "observe" /\ check' = "window" /\ fresh' \in Goals!Active /\ Goals!Remember(FALSE)
        /\ UNCHANGED <<opened, layout, foreground, running, conds, results>>
    BY <1>2 DEF Goals!Observe, Goals!screen
  <2>2. Goals!Showing \subseteq shown'
    BY <2>1, StepRemembers
  <2>3. Fronted'
    <3> SUFFICES ASSUME fresh' # Nothing PROVE shown' # {}
      BY DEF Fronted
    <3>1. foreground \in opened
      BY <1>t, <2>1 DEF Goals!Active
    <3> QED BY <1>t, <2>2, <3>1, ShowingHas
  <2>4. GoalsTypes'
    BY <1>m, <2>1 DEF GoalsInv, GoalsTypes, Checking
  <2> QED BY <2>1, <2>3, <2>4 DEF GoalsInv, Seen, Found, Indexed, Passed, AllPassed, Checking
<1>3. CASE Goals!Look
  <2>1. /\ check = "window" /\ check' = "walk" /\ UNCHANGED fresh /\ Goals!Remember(FALSE)
        /\ UNCHANGED <<opened, layout, foreground, running, conds, results>>
    BY <1>3 DEF Goals!Look, Goals!screen
  <2>2. shown \subseteq shown'
    BY <2>1, StepRemembers
  <2>3. Fronted'
    BY <2>1, <2>2 DEF GoalsInv, Fronted
  <2>4. GoalsTypes'
    BY <1>m, <2>1 DEF GoalsInv, GoalsTypes, Checking
  <2> QED BY <2>1, <2>3, <2>4 DEF GoalsInv, Seen, Found, Indexed, Passed, AllPassed, Checking
<1>4. CASE Goals!DesktopLives
  <2>1. /\ check # "completed" /\ Goals!Remember(FALSE)
        /\ UNCHANGED <<conds, check, obs, results, found, fresh>>
    BY <1>4 DEF Goals!DesktopLives, Goals!calls
  <2>2. check = "idle" \/ (heldOnce \subseteq heldOnce' /\ shown \subseteq shown' /\ (missed => missed'))
    BY <2>1, Remembered
  <2>3. /\ layout' \in [Settings -> SettingsLayouts] /\ opened' \subseteq Settings
        /\ foreground' \in opened' \cup {Nothing}
    BY <1>t, <1>4 DEF Goals!DesktopLives, Goals!UserActs
  <2>4. Found'
    BY <2>1, <2>2 DEF GoalsInv, Found
  <2>5. missed' \in BOOLEAN
    BY <1>m, <2>1
  <2> QED BY <2>1, <2>2, <2>3, <2>4, <2>5, QuietKeeps
<1>5. CASE UNCHANGED <<screen, goals>>
  <2>1. UNCHANGED <<opened, layout, foreground, conds, check, results, shown, heldOnce, missed, obs, found,
                    fresh, retries>>
    BY <1>5 DEF screen, goals
  <2> QED BY <2>1 DEF GoalsInv, GoalsTypes, Seen, Found, Indexed, Fronted, Passed, AllPassed
<1> QED BY <1>1, <1>2, <1>3, <1>4, <1>5, WalkKeeps, WindowCheckKeeps, ElementCheckKeeps, ToggleCheckKeeps
        DEF Goals!Next, Goals!CheckStep

\* What of the desktop no part but two uses.
LEMMA GoalsHolds == StepsSpec => [](part = "goals" => GoalsInv)
<1> DEFINE Kept == part = "goals" => GoalsInv
<1>1. StepsInit => Kept
  BY GoalsInitInv
<1>2. Kept /\ [StepsNext]_StepsVars => Kept'
  BY StepOfPart, GoalsNextInv
<1> QED BY <1>1, <1>2, PTL DEF StepsSpec

\* A task counts as done only with the evidence that DoneHasEvidence names, however the page
\* and the desktop behave while it is checked (manager.py verify_task_completion,
\* desktop/verifier.py, desktop_nodes.py:690-855): for every set of windows, layouts, goals,
\* the empty one among them, and moves, and any number of rounds.
THEOREM StepsDoneHasEvidence == StepsSpec => []DoneHasEvidence
<1>1. VerdictInv => Verdict!VerifiedHasEvidence
  BY DEF VerdictInv, Undecided, Verdict!VerifiedHasEvidence
<1>2. GoalsInv => Goals!PassedWereTrue
  <2>1. \A i : Goals!Evident(i) <=> Shows(conds[i], i, shown, heldOnce, missed)
    BY DEF Goals!Evident, Shows
  <2> QED BY <2>1 DEF GoalsInv, AllPassed, Passed, Goals!PassedWereTrue
<1>3. VerdictInv /\ [StepsNext]_StepsVars => VerdictInv'
  BY StepOfPart, VerdictNextInv
<1> QED BY <1>1, <1>2, <1>3, VerdictInitInv, GoalsHolds, PTL DEF StepsSpec, DoneHasEvidence

-----------------------------------------------------------------------------
(* Clicks.  What was found fits what is wanted, and nothing is operated      *)
(* before; an action ends once.                                              *)

IsSequence(s) == s \in Seq({s[i] : i \in DOMAIN s})

LEMMA OneMore ==
  ASSUME NEW s, IsSequence(s), NEW e
  PROVE  /\ IsSequence(Append(s, e)) /\ Append(s, e) # <<>>
         /\ Append(s, e)[Len(Append(s, e))] = e
         /\ \A i \in DOMAIN Append(s, e) : Append(s, e)[i] = e \/ (i \in DOMAIN s /\ Append(s, e)[i] = s[i])
<1> DEFINE S == {s[i] : i \in DOMAIN s} \cup {e}
           more == Append(s, e)
<1>1. s \in Seq(S) /\ e \in S /\ Len(s) \in Nat
  BY DEF IsSequence
<1> HIDE DEF S
<1>2. /\ more \in Seq(S) /\ Len(more) = Len(s) + 1 /\ more[Len(s) + 1] = e
      /\ \A i \in DOMAIN more : i = Len(s) + 1 \/ (i \in DOMAIN s /\ more[i] = s[i])
  BY <1>1
<1> HIDE DEF more
<1>3. IsSequence(more)
  BY <1>2 DEF IsSequence
<1>4. more # <<>> /\ more[Len(more)] = e
  BY <1>1, <1>2
<1> QED BY <1>2, <1>3, <1>4 DEF more

\* The control has the name or the id of c, or the type of one with neither.
Fits(x, c) ==
  \/ c.name # "" /\ Click!Contains(x.name, c.name)
  \/ c.aid # "" /\ Click!Contains(x.aid, c.aid)
  \/ c.name = "" /\ c.aid = "" /\ Click!Contains(x.kind, c.kind)

Wanted == Click!Target.control

Operated == \A i \in DOMAIN ops : ops[i].how = "uia" => Fits(ops[i].control, Wanted)

Grounded ==
  /\ click \in {"semantic", "window2", "byName", "byId", "toggle", "invoke", "centre"} =>
       Click!Wanted # {}
  /\ click \in {"toggle", "invoke", "centre"} => found # Nothing /\ Fits(found.control, Wanted)
  /\ click = "coordinate" => Click!Coordinates # {}
  /\ click = "focus" => action.kind = "focus"

Untouched ==
  /\ click \in {"look", "walk", "plan", "focus", "window", "semantic", "window2", "byName", "byId",
                "coordinate"} => ops = <<>>
  /\ click # "observe" => outcome = "none"

Invented ==
  action.kind = "click" /\ action.coordinate = 0 /\ Click!Wanted = {} =>
    ops = <<>> /\ outcome \in {"none", "failure"}

ClickInv ==
  /\ IsSequence(ops) /\ Operated /\ Grounded /\ Untouched /\ Invented
  /\ Click!SemanticOperated

\* A control that a search finds fits the criteria.
LEMMA SearchFits ==
  ASSUME NEW w, NEW c, NEW name, NEW aid, NEW kind,
         \/ name = c.name /\ aid = c.aid /\ kind = c.kind
         \/ name = c.name /\ aid = "" /\ kind = ""
         \/ name = "" /\ aid = c.aid /\ kind = "",
         NEW x \in Click!FindElement(w, name, aid, kind), x # Nothing
  PROVE  Fits(x.control, c)
<1>1. PICK i : /\ Click!Matches(Click!Tree(w)[i], name, aid, kind)
               /\ x = [window |-> w, control |-> Click!Tree(w)[i]]
  BY DEF Click!FindElement
<1> DEFINE d == Click!Tree(w)[i]
<1>2. x.control = d
  BY <1>1
<1> HIDE DEF d
<1>3. /\ name # "" => Click!Contains(d.name, name)
      /\ aid # "" => Click!Contains(d.aid, aid)
      /\ kind # "" => Click!Contains(d.kind, kind)
      /\ name # "" \/ aid # "" \/ kind # ""
  BY <1>1 DEF Click!Matches, d
<1> QED BY <1>2, <1>3 DEF Fits

LEMMA ClickInitInv == StepsInit /\ part = "click" => ClickInv
<1> SUFFICES ASSUME StepsInit, part = "click" PROVE ClickInv
  OBVIOUS
<1>1. Click!Init
  BY DEF StepsInit
<1>2. click = "observe" /\ ops = <<>> /\ outcome = "none"
  BY <1>1 DEF Click!Init
<1>3. IsSequence(ops)
  BY <1>2 DEF IsSequence
<1> QED
  BY <1>2, <1>3 DEF ClickInv, Operated, Grounded, Untouched, Invented, Click!SemanticOperated

\* An action that touches at most one more control, which fits if UI Automation does it.
LEMMA TouchKeeps ==
  ASSUME ClickInv, UNCHANGED <<obs, action>>, NEW e,
         ops' = ops \/ (ops' = Append(ops, e) /\ (e.how = "uia" => Fits(e.control, Wanted)))
  PROVE  /\ IsSequence(ops') /\ Operated'
         /\ ops' # ops => ops' # <<>> /\ ops'[Len(ops')] = e
<1>1. Wanted' = Wanted
  BY DEF Wanted, Click!Target, Click!Wanted
<1>2. CASE ops' = ops
  BY <1>1, <1>2 DEF ClickInv, Operated
<1>3. CASE ops' = Append(ops, e) /\ (e.how = "uia" => Fits(e.control, Wanted))
  <2>1. IsSequence(ops') /\ ops' # <<>> /\ ops'[Len(ops')] = e
    BY <1>3, OneMore DEF ClickInv
  <2>2. ASSUME NEW i \in DOMAIN ops', ops'[i].how = "uia" PROVE Fits(ops'[i].control, Wanted)
    <3>1. ops'[i] = e \/ (i \in DOMAIN ops /\ ops'[i] = ops[i])
      BY <1>3, OneMore DEF ClickInv
    <3>2. CASE ops'[i] = e
      BY <1>3, <2>2, <3>2
    <3>3. CASE i \in DOMAIN ops /\ ops'[i] = ops[i]
      BY <2>2, <3>3 DEF ClickInv, Operated
    <3> QED BY <3>1, <3>2, <3>3
  <2> QED BY <1>1, <2>1, <2>2 DEF Operated
<1> QED BY <1>2, <1>3

\* The mouse presses what lies at a place, UI Automation operates what was found.
LEMMA PressKeeps ==
  ASSUME ClickInv, UNCHANGED <<obs, action>>, 
         UNCHANGED ops \/ \E place : Click!Press(place)
  PROVE  IsSequence(ops') /\ Operated'
<1>0. PICK place : UNCHANGED ops \/ Click!Press(place)
  OBVIOUS
<1> DEFINE e == [window |-> foreground, control |-> layout[foreground][place], how |-> "mouse"]
<1>1. ops' = ops \/ ops' = Append(ops, e)
  BY <1>0 DEF Click!Press, Click!Touch
<1>2. e.how # "uia"
  OBVIOUS
<1> HIDE DEF e
<1> QED BY <1>1, <1>2, TouchKeeps

LEMMA ThroughKeeps ==
  ASSUME ClickInv, UNCHANGED <<obs, action>>, Fits(found.control, Wanted), Click!Through
  PROVE  IsSequence(ops') /\ Operated' /\ ops' # <<>> /\ ops'[Len(ops')].how = "uia"
<1> DEFINE e == [window |-> found.window, control |-> found.control, how |-> "uia"]
<1>1. ops' = Append(ops, e)
  BY DEF Click!Through, Click!Touch
<1>2. e.how = "uia" /\ e.control = found.control
  OBVIOUS
<1> HIDE DEF e
<1>3. Append(ops, e) # <<>> /\ Append(ops, e)[Len(Append(ops, e))] = e
  BY OneMore DEF ClickInv
<1>4. IsSequence(ops') /\ Operated'
  BY <1>1, <1>2, TouchKeeps
<1> QED BY <1>1, <1>2, <1>3, <1>4

\* A search for what is wanted.
LEMMA SearchKeeps ==
  ASSUME ClickInv, NEW name, NEW aid, NEW kind,
         NEW from \in {"semantic", "byName", "byId"}, NEW to \in {"window2", "byId", "coordinate"},
         \/ name = Wanted.name /\ aid = Wanted.aid /\ kind = Wanted.kind
         \/ name = Wanted.name /\ aid = "" /\ kind = ""
         \/ name = "" /\ aid = Wanted.aid /\ kind = "",
         Click!SearchStep(from, name, aid, kind, to)
  PROVE  ClickInv'
<1>1. click = from /\ UNCHANGED <<obs, action, ops>> /\ ops = <<>> /\ outcome = "none" /\ Click!Wanted # {}
  BY DEF Click!SearchStep, Click!memory, ClickInv, Untouched, Grounded
<1>2. /\ Wanted' = Wanted /\ Click!Wanted' = Click!Wanted /\ Click!Coordinates' = Click!Coordinates
  BY <1>1 DEF Wanted, Click!Target, Click!Wanted, Click!Coordinates
<1>3. Operated' /\ IsSequence(ops')
  BY <1>1, <1>2 DEF ClickInv, Operated
<1>4. CASE found' = Nothing
  <2>1. click' = to /\ UNCHANGED outcome
    BY <1>4 DEF Click!SearchStep
  <2>2. Click!Coordinates # {}
    BY <1>1 DEF Click!Coordinates
  <2> QED BY <1>1, <1>2, <1>3, <2>1, <2>2
          DEF ClickInv, Grounded, Untouched, Invented, Click!SemanticOperated, Click!Ended
<1>5. CASE found' # Nothing
  <2>1. Click!Operate
    BY <1>5 DEF Click!SearchStep
  <2>2. found' # Nothing /\ Fits(found'.control, Wanted)
    <3>1. PICK w : found' \in Click!FindElement(w, name, aid, kind)
      BY <1>5 DEF Click!SearchStep
    <3> QED BY <1>5, <3>1, SearchFits
  <2>3. CASE click' = "observe" /\ outcome' = "failure"
    BY <1>1, <1>2, <1>3, <2>3
       DEF ClickInv, Grounded, Untouched, Invented, Click!SemanticOperated, Click!Ended
  <2>4. CASE click' \in {"toggle", "invoke"} /\ UNCHANGED outcome
    BY <1>1, <1>2, <1>3, <2>2, <2>4
       DEF ClickInv, Grounded, Untouched, Invented, Click!SemanticOperated, Click!Ended
  <2> QED BY <2>1, <2>3, <2>4 DEF Click!Operate, Click!Done
<1> QED BY <1>4, <1>5

LEMMA ClickNextInv == ClickInv /\ [Click!Next]_<<screen, clicking>> => ClickInv'
<1> SUFFICES ASSUME ClickInv, [Click!Next]_<<screen, clicking>> PROVE ClickInv'
  OBVIOUS
<1>k. ASSUME UNCHANGED <<obs, action>>
      PROVE  /\ Wanted' = Wanted /\ Click!Wanted' = Click!Wanted
             /\ Click!Coordinates' = Click!Coordinates
  BY <1>k DEF Wanted, Click!Target, Click!Wanted, Click!Coordinates
<1>1. CASE Click!Observe \/ Click!Look \/ Click!Walk
  <2>1. click' \in {"look", "walk", "plan"} /\ ops' = <<>> /\ outcome' = "none"
    BY <1>1 DEF Click!Observe, Click!Look, Click!Walk, ClickInv, Untouched
  <2>2. IsSequence(ops')
    BY <2>1 DEF IsSequence
  <2> QED BY <2>1, <2>2
          DEF ClickInv, Operated, Grounded, Untouched, Invented, Click!SemanticOperated, Click!Ended
<1>2. CASE Click!Plan
  <2>1. ops = <<>> /\ outcome = "none" /\ UNCHANGED <<ops, outcome>>
    BY <1>2 DEF Click!Plan, ClickInv, Untouched
  <2>2. click' = "window" \/ (click' = "focus" /\ action'.kind = "focus")
    BY <1>2 DEF Click!Plan, Click!None
  <2>3. IsSequence(ops') /\ Operated'
    BY <2>1 DEF ClickInv, Operated
  <2> QED BY <2>1, <2>2, <2>3
          DEF ClickInv, Grounded, Untouched, Invented, Click!SemanticOperated, Click!Ended
<1>3. CASE Click!Focus
  <2>1. /\ click' = "observe" /\ action.kind = "focus" /\ UNCHANGED <<obs, action, ops>>
    BY <1>3 DEF Click!Focus, Click!Done, Click!memory, ClickInv, Grounded
  <2> QED BY <1>k, <2>1
          DEF ClickInv, Operated, Grounded, Untouched, Invented, Click!SemanticOperated, Click!Ended
<1>4. ASSUME NEW from \in {"window", "window2"}, NEW to \in {"semantic", "byName"},
             Click!WindowStep(from, to)
      PROVE  ClickInv'
  <2>1. click = from /\ click' = to /\ Click!Wanted # {} /\ UNCHANGED <<obs, action, ops, outcome, found>>
    BY <1>4 DEF Click!WindowStep, Click!memory
  <2> QED BY <1>4, <1>k, <2>1
          DEF ClickInv, Operated, Grounded, Untouched, Invented, Click!SemanticOperated, Click!Ended
<1>5. CASE Click!Unknown
  <2>1. click = "window" /\ ops = <<>> /\ UNCHANGED <<obs, action, ops, found>>
    BY <1>5 DEF Click!Unknown, Click!memory, ClickInv, Untouched
  <2>2. \/ click' = "observe" /\ outcome' = "failure"
        \/ click' = "coordinate" /\ UNCHANGED outcome /\ Click!Coordinates # {}
    BY <1>5 DEF Click!Unknown, Click!Done
  <2> QED BY <1>k, <2>1, <2>2
          DEF ClickInv, Operated, Grounded, Untouched, Invented, Click!SemanticOperated, Click!Ended
<1>6. CASE Click!Semantic
  <2>1. ASSUME Click!SearchStep("semantic", Wanted.name, Wanted.aid, Wanted.kind, "window2")
        PROVE  ClickInv'
    BY <2>1, SearchKeeps
  <2> QED BY <1>4, <1>6, <2>1 DEF Click!Semantic, Wanted
<1>7. CASE Click!Alternate
  <2>1. ASSUME Click!SearchStep("byName", Wanted.name, "", "", "byId") PROVE ClickInv'
    BY <2>1, SearchKeeps
  <2>2. ASSUME Click!SearchStep("byId", "", Wanted.aid, "", "coordinate") PROVE ClickInv'
    BY <2>2, SearchKeeps
  <2> QED BY <1>4, <1>7, <2>1, <2>2 DEF Click!Alternate, Wanted
<1>8. CASE Click!Toggle \/ Click!Invoke \/ Click!Centre
  <2>1. /\ click \in {"toggle", "invoke", "centre"} /\ UNCHANGED <<obs, action, found>>
        /\ Click!Wanted # {} /\ found # Nothing /\ Fits(found.control, Wanted) /\ outcome = "none"
    BY <1>8 DEF Click!Toggle, Click!Invoke, Click!Centre, Click!memory, ClickInv, Grounded, Untouched
  <2>2. \/ click' \in {"invoke", "centre"} /\ UNCHANGED outcome
        \/ /\ click' = "observe"
           /\ \/ outcome' \in {"pattern", "failure"}
              \/ outcome' = "semantic" /\ (Click!Through \/ ~found.control.invoke)
    BY <1>8 DEF Click!Toggle, Click!Invoke, Click!Centre, Click!Done, Click!NotToggled, Click!NotInvoked
  <2>3. \/ UNCHANGED ops \/ Click!Through
        \/ \E i : Click!Press(i)
    <3>1. Click!AtCentre => UNCHANGED ops \/ \E i : Click!Press(i)
      BY DEF Click!AtCentre
    <3> QED BY <1>8, <3>1 DEF Click!Toggle, Click!Invoke, Click!Centre
  <2>4. IsSequence(ops') /\ Operated'
    BY <2>1, <2>3, PressKeeps, ThroughKeeps
  <2>5. Grounded' /\ Untouched' /\ Invented'
    BY <1>k, <2>1, <2>2 DEF Grounded, Untouched, Invented
  <2>6. Click!SemanticOperated'
    BY <2>1, <2>2, ThroughKeeps DEF Click!SemanticOperated, Click!Ended
  <2> QED BY <2>4, <2>5, <2>6 DEF ClickInv
<1>9. CASE Click!Coordinate
  <2>1. /\ click = "coordinate" /\ Click!Coordinates # {} /\ UNCHANGED <<obs, action, found>>
        /\ click' = "observe" /\ outcome' \in {"coordinate", "failure"}
        /\ UNCHANGED ops \/ \E i : Click!Press(i)
    BY <1>9 DEF Click!Coordinate, Click!Done, Click!memory, ClickInv, Grounded
  <2>2. IsSequence(ops') /\ Operated'
    BY <2>1, PressKeeps
  <2>3. Invented'
    BY <1>k, <2>1 DEF Invented, Click!Coordinates
  <2> QED BY <2>1, <2>2, <2>3
          DEF ClickInv, Grounded, Untouched, Click!SemanticOperated, Click!Ended
<1>10. CASE UNCHANGED <<click, obs, action, found, ops, outcome>>
  BY <1>k, <1>10
     DEF ClickInv, Operated, Grounded, Untouched, Invented, Click!SemanticOperated, Click!Ended
<1> QED
  <2>1. ASSUME UNCHANGED <<click, Click!memory, action, window, found, ops, outcome, round>>
        PROVE  ClickInv'
    BY <1>10, <2>1 DEF Click!memory
  <2>2. ASSUME UNCHANGED <<screen, clicking>> PROVE ClickInv'
    BY <1>10, <2>2 DEF screen, clicking
  <2> QED BY <1>1, <1>2, <1>3, <1>5, <1>6, <1>7, <1>8, <1>9, <2>1, <2>2 DEF Click!Next, Click!AgentStep

\* What UI Automation operates is what the plan named as far as it can tell, a click that
\* counts as semantic has operated something through it unless what was found cannot be
\* invoked, and an element that nobody observed is not touched at all, although the tree is
\* searched again and changes (grounding.py, uia.py, desktop_nodes.py:583-666): for all
\* windows, layouts and titles, and any number of rounds.  What the mouse hits, whether it is
\* the control or not, is left open.
THEOREM StepsClicksHitTarget == StepsSpec => []ClicksHitTarget
<1> DEFINE Kept == part = "click" => ClickInv
<1>1. StepsInit => Kept
  BY ClickInitInv
<1>2. Kept /\ [StepsNext]_StepsVars => Kept'
  BY StepOfPart, ClickNextInv
<1>3. Kept => ClicksHitTarget
  <2> SUFFICES ASSUME ClickInv PROVE Click!ClicksHitTarget
    BY DEF ClicksHitTarget
  <2>1. Click!UiaHitsTarget
    BY DEF ClickInv, Operated, Fits, Wanted, Click!UiaHitsTarget
  <2>2. Click!InventedTouchesNothing
    BY DEF ClickInv, Invented, Click!Wanted, Click!InventedTouchesNothing
  <2> QED BY <2>1, <2>2 DEF ClickInv, Click!ClicksHitTarget
<1> QED BY <1>1, <1>2, <1>3, PTL DEF StepsSpec

-----------------------------------------------------------------------------
(* Routing.                                                                  *)

Told == [phase : {"idle", "asked", "told"}, names : SUBSET Routing!Names]

RoutingTypes ==
  /\ daemon \subseteq Routing!Names /\ installed \subseteq Routing!Names
  /\ probe \in [Routing!Callers -> Told]
  /\ last \in Routing!ModelOrNone /\ active \in [RoutedTasks -> Routing!ModelOrNone]

RoutingInv == RoutingTypes /\ Routing!CapableIsChosen

\* The first of the list that is in the set, if there is one.
LEMMA FirstFinds ==
  ASSUME NEW list \in Seq(Routing!Models), NEW S \in SUBSET Routing!Models
  PROVE  /\ \/ Routing!First(list, S) = Routing!None
            \/ /\ Routing!First(list, S) \in S
               /\ \E i \in DOMAIN list : /\ list[i] = Routing!First(list, S)
                                        /\ \A j \in 1 .. i - 1 : list[j] \notin S
         /\ (\E i \in DOMAIN list : list[i] \in S) => Routing!First(list, S) # Routing!None
<1> DEFINE here == {i \in DOMAIN list : list[i] \in S}
<1>1. CASE here = {}
  BY <1>1 DEF Routing!First
<1>2. CASE here # {}
  <2>1. here \in SUBSET Nat
    OBVIOUS
  <2>2. \E i \in here : \A j \in here : i <= j
    BY <1>2, <2>1, LeastNatural
  <2>3. PICK i : i = CHOOSE k \in here : \A j \in here : k <= j
    OBVIOUS
  <2>4. i \in here
    BY <2>2, <2>3
  <2>5. Routing!First(list, S) = list[i]
    BY <1>2, <2>3 DEF Routing!First
  <2>6. Routing!None \notin Routing!Models
    BY StepsAssumption DEF Routing!RoutingAssumption
  <2>7. \A j \in 1 .. i - 1 : list[j] \notin S
    <3> SUFFICES ASSUME NEW j \in 1 .. i - 1, list[j] \in S PROVE FALSE
      OBVIOUS
    <3>1. j \in here /\ j < i
      BY <2>4
    <3>2. \A k \in here : i <= k
      BY <2>2, <2>3
    <3> QED BY <2>1, <2>4, <3>1, <3>2
  <2> QED BY <2>4, <2>5, <2>6, <2>7
<1> QED BY <1>1, <1>2

\* What the registry finds for capabilities is known to be installed, as long as anything is
\* known, and it finds a model when there is one.
LEMMA FoundIsCapable ==
  ASSUME installed \subseteq Routing!Names, NEW caps
  PROVE  LET m == Routing!FindByCapabilities(caps) IN
         /\ m = Routing!None \/ (m \in Routing!Models /\ Routing!Available(m) /\ Routing!Has(m, caps))
         /\ (\E a \in Routing!Marked : Routing!Has(a, caps)) => m # Routing!None
<1> DEFINE S == {m \in Routing!Models : Routing!Available(m) /\ Routing!Has(m, caps)}
<1>1. RankedNames \in Seq(Routing!Models) /\ S \in SUBSET Routing!Models
  BY StepsAssumption DEF Routing!RoutingAssumption
<1>2. Routing!FindByCapabilities(caps) = Routing!First(RankedNames, S)
  BY DEF Routing!FindByCapabilities
<1>3. ASSUME NEW a \in Routing!Marked, Routing!Has(a, caps)
      PROVE  \E i \in DOMAIN RankedNames : RankedNames[i] \in S
  <2>1. a \in S
    BY <1>3 DEF Routing!Available, Routing!Marked
  <2>2. PICK i \in DOMAIN RankedNames : RankedNames[i] = a
    BY <1>3 DEF Routing!Models, Routing!Marked
  <2> QED BY <2>1, <2>2
<1>4. \A m \in S : m \in Routing!Models /\ Routing!Available(m) /\ Routing!Has(m, caps)
  OBVIOUS
<1> HIDE DEF S
<1> QED BY <1>1, <1>2, <1>3, <1>4, FirstFinds

\* A model for a role is the first of its list that is there, or can do what the role needs.
LEMMA CandidateFits ==
  ASSUME installed \subseteq Routing!Names, NEW kind \in Routing!Roles
  PROVE  LET m == Routing!CandidateForRole(kind) IN
         m = Routing!None \/
         /\ m \in Routing!Models /\ Routing!Available(m)
         /\ \/ \E i \in DOMAIN RoleModels[kind] :
                  /\ RoleModels[kind][i] = m
                  /\ \A j \in 1 .. i - 1 : ~Routing!Available(RoleModels[kind][j])
            \/ Routing!Has(m, Routing!RoleCaps(kind))
<1> DEFINE list == RoleModels[kind]
           S == {m \in Routing!Models : Routing!Available(m)}
           c == Routing!First(list, S)
<1>1. list \in Seq(Routing!Models) /\ S \in SUBSET Routing!Models
  BY StepsAssumption DEF Routing!RoutingAssumption
<1>2. \/ c = Routing!None
      \/ c \in S /\ \E i \in DOMAIN list : list[i] = c /\ \A j \in 1 .. i - 1 : list[j] \notin S
  BY <1>1, FirstFinds
<1>3. Routing!CandidateForRole(kind) =
        IF c # Routing!None THEN c ELSE Routing!FindByCapabilities(Routing!RoleCaps(kind))
  BY DEF Routing!CandidateForRole
<1>4. \A m \in S : m \in Routing!Models /\ Routing!Available(m)
  OBVIOUS
<1>5. \A i \in DOMAIN list : \A j \in 1 .. i - 1 : list[j] \notin S => ~Routing!Available(list[j])
  <2> SUFFICES ASSUME NEW i \in DOMAIN list, NEW j \in 1 .. i - 1, list[j] \notin S
               PROVE  ~Routing!Available(list[j])
    OBVIOUS
  <2>1. j \in DOMAIN list
    BY <1>1
  <2> QED BY <1>1, <2>1
<1> HIDE DEF S, c
<1>6. CASE c = Routing!None
  BY <1>3, <1>6, FoundIsCapable
<1>7. CASE c # Routing!None
  BY <1>2, <1>3, <1>4, <1>5, <1>7
<1> QED BY <1>6, <1>7

LEMMA RoleKnown == ASSUME NEW needs \in Routing!Asked PROVE needs.role \in Routing!Roles
BY DEF Routing!Asked, Routing!Analyze, Routing!Needs, Routing!Roles

\* The configuration suits the roles, so what is chosen for a role can do what is asked.
LEMMA ChosenIsCapable ==
  ASSUME installed \subseteq Routing!Names, NEW needs \in Routing!Asked,
         NEW a \in Routing!Marked, Routing!Has(a, needs.caps)
  PROVE  /\ Routing!Chosen(needs) \in Routing!Marked
         /\ Routing!Has(Routing!Chosen(needs), needs.caps)
<1> DEFINE byRole == Routing!CandidateForRole(needs.role)
           byCaps == Routing!FindByCapabilities(needs.caps)
           list == RoleModels[needs.role]
           able == {m \in Routing!Models : Routing!Has(m, needs.caps)}
<1>1. needs.role \in Routing!Roles
  BY RoleKnown
<1>a. a \in able /\ Routing!Available(a)
  BY DEF Routing!Available, Routing!Marked
<1>2. byRole # Routing!None => byRole \in Routing!Marked /\ Routing!Has(byRole, needs.caps)
  <2> SUFFICES ASSUME byRole # Routing!None
               PROVE  byRole \in Routing!Marked /\ Routing!Has(byRole, needs.caps)
    OBVIOUS
  <2>1. /\ byRole \in Routing!Models /\ Routing!Available(byRole)
        /\ \/ \E i \in DOMAIN list : /\ list[i] = byRole
                                     /\ \A j \in 1 .. i - 1 : ~Routing!Available(list[j])
           \/ Routing!Has(byRole, Routing!RoleCaps(needs.role))
    BY <1>1, CandidateFits
  <2>2. /\ \A i \in DOMAIN list : list[i] \in able \/ \A m \in able : \E j \in 1 .. i - 1 : list[j] = m
        /\ \A m \in Routing!Models : Routing!Has(m, Routing!RoleCaps(needs.role)) => m \in able
    BY <1>a, StepsAssumption DEF Routing!RolesFit
  <2>3. Routing!Available(byRole) => byRole \in Routing!Marked
    BY DEF Routing!Available, Routing!Marked
  <2>5. \A m \in able : Routing!Has(m, needs.caps)
    OBVIOUS
  <2> HIDE DEF byRole, list, able
  <2>4. byRole \in able
    BY <1>a, <2>1, <2>2
  <2> QED BY <2>1, <2>3, <2>4, <2>5
<1>3. byCaps # Routing!None /\ byCaps \in Routing!Marked /\ Routing!Has(byCaps, needs.caps)
  <2>1. byCaps # Routing!None /\ Routing!Available(byCaps) /\ Routing!Has(byCaps, needs.caps)
    BY FoundIsCapable
  <2> QED BY <2>1 DEF Routing!Available, Routing!Marked
<1>4. Routing!Candidate(needs) = IF byRole # Routing!None THEN byRole ELSE byCaps
  BY <1>3 DEF Routing!Candidate
<1>5. Routing!Candidate(needs) # Routing!None
  BY <1>3, <1>4
<1>6. Routing!Chosen(needs) = Routing!Candidate(needs)
  BY <1>5 DEF Routing!Chosen
<1> HIDE DEF byRole, byCaps, list, able
<1> QED BY <1>2, <1>3, <1>4, <1>6

LEMMA ChosenIsModel ==
  ASSUME installed \subseteq Routing!Names, NEW needs \in Routing!Asked
  PROVE  Routing!Chosen(needs) \in Routing!Models
<1>1. \A caps : LET m == Routing!FindByCapabilities(caps) IN m = Routing!None \/ m \in Routing!Models
  BY FoundIsCapable
<1>2. LET m == Routing!CandidateForRole(needs.role) IN m = Routing!None \/ m \in Routing!Models
  BY RoleKnown, CandidateFits
<1>3. Routing!Candidate(needs) = Routing!None \/ Routing!Candidate(needs) \in Routing!Models
  BY <1>1, <1>2 DEF Routing!Candidate
<1>4. Routing!FallbackModel \in Routing!Models
  BY StepsAssumption DEF Routing!RoutingAssumption, Routing!FallbackModel
<1>5. Routing!Chosen(needs) =
        IF Routing!Candidate(needs) = Routing!None THEN Routing!FallbackModel ELSE Routing!Candidate(needs)
  BY DEF Routing!Chosen
<1> QED BY <1>3, <1>4, <1>5

\* A decision that was made from what is installed now: the model is one that can do what is
\* asked, unless none that is known can, or the router was not asked.
LEMMA DecisionIsCapable ==
  ASSUME RoutingTypes, NEW needs \in Routing!Asked, NEW model, NEW switch, NEW bypass,
         decision' = [model |-> model, switch |-> switch, needs |-> needs,
                      known |-> installed, bypass |-> bypass],
         bypass \/ (\A a \in Routing!Marked : Routing!Has(a, needs.caps) =>
                      model \in Routing!Marked /\ Routing!Has(model, needs.caps))
  PROVE  Routing!CapableIsChosen'
<1>1. /\ decision'.known = installed /\ decision'.needs = needs
      /\ decision'.model = model /\ decision'.bypass = bypass
  OBVIOUS
<1> DEFINE able == {m \in Routing!Marked : Routing!Has(m, needs.caps)}
<1>2. able # {} /\ ~bypass => model \in able
  OBVIOUS
<1>3. {m \in decision'.known \cap Routing!Models : Routing!Has(m, decision'.needs.caps)} = able
  BY <1>1 DEF Routing!Marked
<1> HIDE DEF able
<1> QED BY <1>1, <1>2, <1>3 DEF Routing!CapableIsChosen, Routing!Has

LEMMA RouteInv ==
  ASSUME RoutingInv, NEW t \in RoutedTasks, NEW needs \in Routing!Asked, Routing!Route(t, needs)
  PROVE  RoutingInv'
<1>0. RoutingTypes /\ UNCHANGED <<daemon, installed, probe>>
  BY DEF RoutingInv, Routing!Route, Routing!registry
<1>1. PICK model \in Routing!Models, switch \in BOOLEAN, remembered \in BOOLEAN :
        /\ decision' = [model |-> model, switch |-> switch, needs |-> needs,
                        known |-> installed, bypass |-> ~remembered]
        /\ last' = (IF remembered THEN model ELSE last)
        /\ active' \in {active, [active EXCEPT ![t] = model]}
        /\ remembered => \/ model = Routing!Current(t) /\ Routing!Sticks(t, needs)
                         \/ model = Routing!Chosen(needs)
  <2>1. Routing!Chosen(needs) \in Routing!Models
    BY <1>0, ChosenIsModel DEF RoutingTypes
  <2>2. Routing!Sticks(t, needs) => Routing!Current(t) \in Routing!Models
    BY <1>0 DEF RoutingTypes, Routing!Sticks, Routing!Current, Routing!ModelOrNone
  <2> QED BY <2>1, <2>2 DEF Routing!Route
<1>2. RoutingTypes'
  BY <1>0, <1>1 DEF RoutingTypes, Routing!ModelOrNone
<1>3. ASSUME remembered, NEW a \in Routing!Marked, Routing!Has(a, needs.caps)
      PROVE  model \in Routing!Marked /\ Routing!Has(model, needs.caps)
  <2>1. CASE model = Routing!Current(t) /\ Routing!Sticks(t, needs)
    BY <1>3, <2>1 DEF Routing!Sticks, Routing!Available, Routing!Marked
  <2>2. CASE model = Routing!Chosen(needs)
    BY <1>0, <1>3, <2>2, ChosenIsCapable DEF RoutingTypes
  <2> QED BY <1>1, <1>3, <2>1, <2>2
<1>4. Routing!CapableIsChosen'
  BY <1>0, <1>1, <1>3, DecisionIsCapable
<1> QED BY <1>2, <1>4 DEF RoutingInv

LEMMA RoutingNextInv == RoutingInv /\ [Routing!Next]_routing => RoutingInv'
<1> SUFFICES ASSUME RoutingInv, [Routing!Next]_routing PROVE RoutingInv'
  OBVIOUS
<1>0. RoutingTypes
  BY DEF RoutingInv
<1>k. decision' = decision => Routing!CapableIsChosen'
  BY DEF RoutingInv, Routing!CapableIsChosen, Routing!Has
<1>1. CASE Routing!DaemonChanges
  <2>1. daemon' \subseteq Routing!Names /\ UNCHANGED <<installed, probe, last, active, decision>>
    BY <1>0, <1>1 DEF Routing!DaemonChanges, Routing!registry, RoutingTypes
  <2> QED BY <1>0, <1>k, <2>1 DEF RoutingInv, RoutingTypes
<1>2. ASSUME NEW c \in Routing!Callers, Routing!Probe(c) \/ Routing!Answer(c) \/ Routing!MarkInstalled(c)
      PROVE  RoutingInv'
  <2>1. UNCHANGED <<daemon, last, active, decision>>
    BY <1>2 DEF Routing!Probe, Routing!Answer, Routing!MarkInstalled
  <2>2. probe[c] \in Told /\ daemon \subseteq Routing!Names
    BY <1>0 DEF RoutingTypes
  <2>3. /\ \E p \in Told : probe' = [probe EXCEPT ![c] = p]
        /\ installed' \subseteq Routing!Names
    <3>1. CASE Routing!Probe(c)
      <4>1. [probe[c] EXCEPT !.phase = "asked"] \in Told
        BY <2>2 DEF Told
      <4>2. probe' = [probe EXCEPT ![c] = [probe[c] EXCEPT !.phase = "asked"]] /\ installed' = installed
        BY <3>1 DEF Routing!Probe
      <4> QED BY <1>0, <4>1, <4>2 DEF RoutingTypes
    <3>2. CASE Routing!Answer(c)
      <4>1. PICK names \in {daemon, {}} :
              probe' = [probe EXCEPT ![c] = [phase |-> "told", names |-> names]]
        BY <3>2 DEF Routing!Answer
      <4>2. [phase |-> "told", names |-> names] \in Told
        BY <2>2 DEF Told
      <4> QED BY <1>0, <3>2, <4>1, <4>2 DEF RoutingTypes, Routing!Answer
    <3>3. CASE Routing!MarkInstalled(c)
      <4>1. Routing!NoProbe \in Told
        BY DEF Told, Routing!NoProbe
      <4> QED BY <1>0, <2>2, <3>3, <4>1
              DEF RoutingTypes, Told, Routing!MarkInstalled, Routing!NewlyInstalled
    <3> QED BY <1>2, <3>1, <3>2, <3>3
  <2> QED BY <1>0, <1>k, <2>1, <2>3 DEF RoutingInv, RoutingTypes
<1>3. CASE UNCHANGED routing
  <2>1. UNCHANGED <<daemon, installed, probe, last, active, decision>>
    BY <1>3 DEF routing
  <2> QED BY <1>0, <1>k, <2>1 DEF RoutingInv, RoutingTypes
<1> QED BY <1>1, <1>2, <1>3, RouteInv DEF Routing!Next

LEMMA RoutingInitInv == StepsInit => RoutingInv
<1> SUFFICES ASSUME StepsInit PROVE RoutingInv
  OBVIOUS
<1>1. Routing!Init
  BY DEF StepsInit
<1>2. Routing!NoProbe \in Told
  BY DEF Told, Routing!NoProbe
<1>3. RoutingTypes
  BY <1>1, <1>2 DEF RoutingTypes, Routing!Init, Routing!ModelOrNone
<1>4. decision.known = {}
  BY <1>1 DEF Routing!Init
<1> QED BY <1>3, <1>4 DEF RoutingInv, Routing!CapableIsChosen

\* What is known of Ollama's models only grows old: a list that could not be read is none.
LEMMA KnowledgeStays == [Routing!Next]_routing => (installed # {} => installed' # {})
<1> SUFFICES ASSUME [Routing!Next]_routing, installed # {} PROVE installed' # {}
  OBVIOUS
<1>1. CASE Routing!DaemonChanges
  BY <1>1 DEF Routing!DaemonChanges, Routing!registry
<1>2. ASSUME NEW c \in Routing!Callers, Routing!Probe(c) \/ Routing!Answer(c) \/ Routing!MarkInstalled(c)
      PROVE  installed' # {}
  BY <1>2 DEF Routing!Probe, Routing!Answer, Routing!MarkInstalled, Routing!NewlyInstalled
<1>3. ASSUME NEW t \in RoutedTasks, NEW needs \in Routing!Asked, Routing!Route(t, needs)
      PROVE  installed' # {}
  BY <1>3 DEF Routing!Route, Routing!registry
<1>4. CASE UNCHANGED routing
  BY <1>4 DEF routing
<1> QED BY <1>1, <1>2, <1>3, <1>4 DEF Routing!Next

\* A node gets a model that can do its work while one is known to be installed, and what is
\* known of Ollama survives a list that could not be read (router.py:105-182,
\* registry.py:259-268): for all registered models and what they can do, all roles that the
\* configuration fits, and any number of tasks, requests and changes of Ollama's list.
THEOREM StepsKnownModelsServe == StepsSpec => KnownModelsServe
<1>1. RoutingInv /\ [StepsNext]_StepsVars => RoutingInv'
  BY StepOfPart, RoutingNextInv
<1>2. RoutingInv => Routing!CapableIsChosen
  BY DEF RoutingInv
<1>3. [StepsNext]_StepsVars => [installed # {} => installed' # {}]_Routing!vars
  BY StepOfPart, KnowledgeStays
<1> QED BY <1>1, <1>2, <1>3, RoutingInitInv, PTL
        DEF StepsSpec, KnownModelsServe, Routing!KnownModelsServe, Routing!KnowledgeSurvives

-----------------------------------------------------------------------------
(* Sums and selections, as Context computes them.                            *)

\* The sums of the first numbers of s, as far as they are asked for.
Sums(s) ==
  {f \in [0..Len(s) -> Int] : f[0] = 0 /\ \A m \in 1..Len(s) : f[m] = f[m - 1] + s[m]}

LEMMA TotalIsLast == ASSUME NEW s \in Seq(Nat) PROVE \E f \in Sums(s) : Prompt!Total(s) = f[Len(s)]
<1> DEFINE N == Len(s)
           Def(f) == f = [n \in 0..N |-> IF n = 0 THEN 0 ELSE f[n - 1] + s[n]]
           next == [x \in Int \X (1..N) |-> x[1] + s[x[2]]]
<1>1. N \in Nat /\ 0 \in Int /\ \A n \in 1..N : s[n] \in Int
  OBVIOUS
<1>2. Prompt!Total(s) = (CHOOSE f : Def(f))[N]
  BY DEF Prompt!Total
<1> HIDE DEF N
<1>3. /\ next \in [Int \X (1..N) -> Int]
      /\ \A a \in Int, n \in 1..N : next[<<a, n>>] = a + s[n]
  BY <1>1
<1> HIDE DEF next
<1>4. PICK f : f \in Runs(Int, 0, next, N)
  BY <1>1, <1>3, RunsExist, Zenon
<1>5. f \in [0..N -> Int] /\ f[0] = 0 /\ \A m \in 1..N : f[m] = f[m - 1] + s[m]
  <2>1. f \in [0..N -> Int] /\ f[0] = 0 /\ \A m \in 1..N : f[m] = next[<<f[m - 1], m>>]
    BY <1>4 DEF Runs
  <2>2. \A m \in 1..N : f[m - 1] \in Int
    BY <1>1, <2>1
  <2> QED BY <1>3, <2>1, <2>2, Zenon
<1>6. Def(f)
  BY <1>1, <1>5
<1> DEFINE sum == CHOOSE g : Def(g)
<1>7. Def(sum)
  BY <1>6, Zenon
<1> HIDE DEF sum
<1>8. sum[0] = 0 /\ \A m \in 1..N : sum[m] = sum[m - 1] + s[m]
  BY <1>1, <1>7
<1>9. sum = [n \in 0..N |-> sum[n]]
  BY <1>7
<1>10. \A m \in 1..N : sum[m - 1] \in Int => sum[m] = next[<<sum[m - 1], m>>]
  BY <1>3, <1>8, Zenon
<1>11. sum \in Runs(Int, 0, next, N)
  BY <1>1, <1>3, <1>8, <1>9, <1>10, RunsOnly, Zenon
<1>12. sum \in [0..N -> Int]
  BY <1>11 DEF Runs
<1>13. Prompt!Total(s) = sum[N]
  BY <1>2 DEF sum
<1> QED BY <1>8, <1>12, <1>13 DEF Sums, N

\* There is one such function.
LEMMA SumsAgree ==
  ASSUME NEW s \in Seq(Nat), NEW f \in Sums(s), NEW g \in Sums(s)
  PROVE  f[Len(s)] = g[Len(s)]
<1> DEFINE N == Len(s)
           P == {n \in Nat : n <= N => f[n] = g[n]}
<1>1. N \in Nat /\ f[0] = g[0] /\ \A m \in 1..N : f[m] = f[m - 1] + s[m] /\ g[m] = g[m - 1] + s[m]
  BY DEF Sums
<1> HIDE DEF N
<1>2. 0 \in P
  BY <1>1
<1>3. ASSUME NEW n \in Nat, n \in P PROVE n + 1 \in P
  <2>1. CASE n + 1 <= N
    <3>1. n + 1 \in 1..N /\ (n + 1) - 1 = n /\ f[n] = g[n]
      BY <1>1, <1>3, <2>1
    <3> QED BY <1>1, <3>1
  <2> QED BY <2>1
<1> HIDE DEF P
<1>4. Nat \subseteq P
  BY <1>2, <1>3, SetInduction
<1> QED BY <1>1, <1>4 DEF P, N

LEMMA TotalIs ==
  ASSUME NEW s \in Seq(Nat), NEW f \in Sums(s) PROVE Prompt!Total(s) = f[Len(s)]
BY TotalIsLast, SumsAgree

\* The sums only grow, so no element is larger than the sum.
LEMMA SumsGrow ==
  ASSUME NEW s \in Seq(Nat), NEW f \in Sums(s), NEW i \in 0..Len(s)
  PROVE  f[i] <= f[Len(s)]
<1> DEFINE N == Len(s)
           P == {n \in Nat : i + n <= N => f[i] <= f[i + n]}
<1>1. N \in Nat /\ f \in [0..N -> Int] /\ \A m \in 1..N : f[m] = f[m - 1] + s[m] /\ s[m] \in Nat
  BY DEF Sums
<1> USE DEF N
<1>2. i \in Nat /\ i <= N
  BY <1>1
<1> HIDE DEF N
<1>3. 0 \in P
  BY <1>1, <1>2
<1>4. ASSUME NEW n \in Nat, n \in P PROVE n + 1 \in P
  <2>1. CASE i + (n + 1) <= N
    <3>1. i + (n + 1) \in 1..N /\ (i + (n + 1)) - 1 = i + n /\ f[i] <= f[i + n] /\ i + n \in 0..N /\ i \in 0..N
      BY <1>1, <1>2, <1>4, <2>1
    <3>2. f[i + (n + 1)] = f[i + n] + s[i + (n + 1)] /\ s[i + (n + 1)] \in Nat
      BY <1>1, <3>1
    <3>3. f[i + n] \in Int /\ f[i] \in Int
      BY <1>1, <3>1
    <3> QED BY <3>1, <3>2, <3>3
  <2> QED BY <2>1
<1> HIDE DEF P
<1>5. N - i \in P /\ i + (N - i) = N
  <2>1. Nat \subseteq P
    BY <1>3, <1>4, SetInduction
  <2> QED BY <1>1, <1>2, <2>1
<1>6. f[i] <= f[N]
  BY <1>5 DEF P
<1> QED BY <1>6 DEF N

LEMMA TotalNat ==
  ASSUME NEW s \in Seq(Nat)
  PROVE  Prompt!Total(s) \in Nat /\ \A i \in DOMAIN s : s[i] <= Prompt!Total(s)
<1>1. PICK f \in Sums(s) : Prompt!Total(s) = f[Len(s)]
  BY TotalIsLast
<1>2. /\ Len(s) \in Nat /\ f \in [0..Len(s) -> Int] /\ f[0] = 0
      /\ \A m \in 1..Len(s) : f[m] = f[m - 1] + s[m]
  BY DEF Sums
<1>3. f[0] <= f[Len(s)] /\ f[Len(s)] \in Int
  BY <1>2, SumsGrow
<1>4. ASSUME NEW i \in DOMAIN s PROVE s[i] <= f[Len(s)]
  <2>1. i \in 1..Len(s) /\ i \in 0..Len(s) /\ i - 1 \in 0..Len(s) /\ s[i] \in Nat
    BY <1>2
  <2>2. DOMAIN s = 1..Len(s)
    OBVIOUS
  <2>3. f[i] <= f[Len(s)] /\ f[i] = f[i - 1] + s[i]
    BY <1>2, <2>1, SumsGrow
  <2>4. f[0] <= f[i - 1]
    <3> DEFINE P == {n \in Nat : n <= Len(s) => 0 <= f[n]}
    <3>1. 0 \in P
      BY <1>2
    <3>2. ASSUME NEW n \in Nat, n \in P PROVE n + 1 \in P
      <4>1. CASE n + 1 <= Len(s)
        <5>1. n + 1 \in 1..Len(s) /\ (n + 1) - 1 = n /\ n \in 0..Len(s) /\ 0 <= f[n]
          BY <1>2, <3>2, <4>1
        <5>2. f[n + 1] = f[n] + s[n + 1] /\ f[n] \in Int
          BY <1>2, <5>1
        <5>3. s[n + 1] \in Nat
          BY <5>1
        <5> QED BY <5>1, <5>2, <5>3
      <4> QED BY <4>1
    <3> HIDE DEF P
    <3>3. Nat \subseteq P
      BY <3>1, <3>2, SetInduction
    <3> QED BY <1>2, <2>1, <3>3 DEF P
  <2>5. f[i - 1] \in Int /\ f[i] \in Int
    BY <1>2, <2>1
  <2> QED BY <1>2, <1>3, <2>1, <2>3, <2>4, <2>5
<1> QED BY <1>1, <1>2, <1>3, <1>4

LEMMA TotalEmpty == Prompt!Total(<<>>) = 0
<1>1. <<>> \in Seq(Nat) /\ Len(<<>>) = 0
  OBVIOUS
<1>2. PICK f \in Sums(<<>>) : Prompt!Total(<<>>) = f[Len(<<>>)]
  BY <1>1, TotalIsLast, Zenon
<1> QED BY <1>1, <1>2 DEF Sums

LEMMA TotalAppend ==
  ASSUME NEW s \in Seq(Nat), NEW x \in Nat
  PROVE  Prompt!Total(Append(s, x)) = Prompt!Total(s) + x
<1> DEFINE t == Append(s, x)
           N == Len(s)
<1>1. t \in Seq(Nat) /\ Len(t) = N + 1 /\ t[N + 1] = x /\ N \in Nat /\ \A i \in 1..N : t[i] = s[i]
  OBVIOUS
<1> HIDE DEF t
<1>2. PICK f \in Sums(t) : Prompt!Total(t) = f[Len(t)]
  BY <1>1, TotalIsLast
<1>3. f \in [0..N + 1 -> Int] /\ f[0] = 0 /\ \A m \in 1..N + 1 : f[m] = f[m - 1] + t[m]
  BY <1>1, <1>2 DEF Sums
<1> DEFINE g == [m \in 0..N |-> f[m]]
<1>4. g \in Sums(s) /\ g[N] = f[N]
  <2>1. g \in [0..N -> Int] /\ g[0] = 0 /\ g[N] = f[N]
    BY <1>1, <1>3
  <2>2. ASSUME NEW m \in 1..N PROVE g[m] = g[m - 1] + s[m]
    <3>1. m \in 0..N /\ m - 1 \in 0..N /\ m \in 1..N + 1
      BY <1>1
    <3> QED BY <1>1, <1>3, <3>1
  <2> HIDE DEF g
  <2> QED BY <2>1, <2>2 DEF Sums
<1> HIDE DEF g
<1>5. Prompt!Total(s) = f[N]
  BY <1>4, TotalIs
<1>6. N + 1 \in 1..N + 1 /\ (N + 1) - 1 = N
  BY <1>1
<1>7. f[N + 1] = f[N] + x
  BY <1>1, <1>3, <1>6
<1> QED BY <1>1, <1>2, <1>5, <1>7 DEF t

LEMMA TotalTail ==
  ASSUME NEW s \in Seq(Nat), s # <<>>
  PROVE  Prompt!Total(Tail(s)) <= Prompt!Total(s)
<1> DEFINE t == Tail(s)
           N == Len(t)
<1>1. /\ t \in Seq(Nat) /\ Len(s) = N + 1 /\ N \in Nat /\ s[1] \in Nat
      /\ \A i \in 1..N : t[i] = s[i + 1]
  OBVIOUS
<1> HIDE DEF t, N
<1>2. PICK f \in Sums(s) : Prompt!Total(s) = f[Len(s)]
  BY TotalIsLast
<1>3. f \in [0..N + 1 -> Int] /\ f[0] = 0 /\ \A m \in 1..N + 1 : f[m] = f[m - 1] + s[m]
  BY <1>1, <1>2 DEF Sums
<1> DEFINE g == [m \in 0..N |-> f[m + 1] - s[1]]
<1>4. g \in Sums(t)
  <2>0. \A m \in 0..N : m + 1 \in 0..N + 1
    BY <1>1
  <2>1. g \in [0..N -> Int]
    BY <1>1, <1>3, <2>0
  <2>2. g[0] = 0
    <3>1. 1 \in 1..N + 1 /\ 0 \in 0..N
      BY <1>1
    <3>2. f[1] = f[0] + s[1]
      BY <1>3, <3>1
    <3> QED BY <1>1, <1>3, <3>1, <3>2
  <2>3. ASSUME NEW m \in 1..N PROVE g[m] = g[m - 1] + t[m]
    <3>1. m \in 0..N /\ m - 1 \in 0..N /\ m + 1 \in 1..N + 1 /\ (m + 1) - 1 = m /\ (m - 1) + 1 = m
          /\ m \in 0..N + 1
      BY <1>1
    <3>2. f[m + 1] = f[m] + s[m + 1] /\ t[m] = s[m + 1]
      BY <1>1, <1>3, <3>1
    <3>3. f[m] \in Int /\ s[m + 1] \in Int
      <4>1. m + 1 \in 1..Len(s)
        BY <1>1, <3>1
      <4> QED BY <1>3, <3>1, <4>1
    <3>4. g[m] = f[m + 1] - s[1] /\ g[m - 1] = f[m] - s[1]
      BY <3>1
    <3> HIDE DEF g
    <3> QED BY <1>1, <3>2, <3>3, <3>4
  <2> HIDE DEF g
  <2> QED BY <2>1, <2>2, <2>3 DEF Sums, N
<1>5. Prompt!Total(t) = g[N]
  BY <1>1, <1>4, TotalIs DEF N
<1>6. g[N] = f[N + 1] - s[1] /\ f[N + 1] \in Int
  BY <1>1, <1>3
<1> QED BY <1>1, <1>2, <1>5, <1>6 DEF t

\* That r has the elements of s at these places, in their order: g tells where each comes from.
Picks(s, places, r, g) ==
  /\ g \in [1..Len(r) -> places]
  /\ \A i, j \in 1..Len(r) : i < j => g[i] < g[j]
  /\ \A k \in places : \E i \in 1..Len(r) : g[i] = k
  /\ \A i \in 1..Len(r) : r[i] = s[g[i]]

\* What the next element makes of the selection.
Taken(s, places, r, n) == IF n \in places THEN Append(r, s[n]) ELSE r

LEMMA PickOne ==
  ASSUME NEW T, NEW s \in Seq(T), NEW places \in SUBSET (1..Len(s)), NEW n \in 1..Len(s),
         NEW r \in Seq(T), NEW g, Picks(s, places \cap 1..n - 1, r, g)
  PROVE  \E h : Picks(s, places \cap 1..n, Taken(s, places, r, n), h)
<1>0. n \in Nat /\ 1..n = (1..n - 1) \cup {n} /\ n \notin 1..n - 1
  OBVIOUS
<1>1. CASE n \notin places
  <2>1. places \cap 1..n = places \cap 1..n - 1
    BY <1>0, <1>1
  <2>2. Taken(s, places, r, n) = r
    BY <1>1 DEF Taken
  <2> QED BY <2>1, <2>2
<1>2. CASE n \in places
  <2> DEFINE L == Len(r)
             q == Append(r, s[n])
             h == [i \in 1..L + 1 |-> IF i = L + 1 THEN n ELSE g[i]]
  <2>1. /\ L \in Nat /\ Len(q) = L + 1 /\ q[L + 1] = s[n]
        /\ \A i \in 1..L : q[i] = r[i] /\ i \in 1..L + 1 /\ i # L + 1
        /\ L + 1 \in 1..L + 1
    OBVIOUS
  <2>2. /\ g \in [1..L -> places \cap 1..n - 1]
        /\ \A i, j \in 1..L : i < j => g[i] < g[j]
        /\ \A k \in places \cap 1..n - 1 : \E i \in 1..L : g[i] = k
        /\ \A i \in 1..L : r[i] = s[g[i]]
    BY DEF Picks
  <2> HIDE DEF L, q
  <2>3. h[L + 1] = n /\ \A i \in 1..L : h[i] = g[i]
    BY <2>1
  <2>4. h \in [1..L + 1 -> places \cap 1..n]
    <3>1. n \in places \cap 1..n /\ places \cap 1..n - 1 \subseteq places \cap 1..n
      BY <1>0, <1>2
    <3> QED BY <2>1, <2>2, <3>1
  <2> HIDE DEF h
  <2>5. \A i \in 1..L + 1 : i = L + 1 \/ i \in 1..L
    BY <2>1
  <2>6. ASSUME NEW i \in 1..L + 1, NEW j \in 1..L + 1, i < j PROVE h[i] < h[j]
    <3>1. i \in 1..L /\ g[i] \in 1..n - 1
      BY <2>1, <2>2, <2>5, <2>6
    <3>2. CASE j = L + 1
      BY <1>0, <2>3, <3>1, <3>2
    <3>3. CASE j \in 1..L
      BY <2>2, <2>3, <2>6, <3>1, <3>3
    <3> QED BY <2>5, <3>2, <3>3
  <2>7. ASSUME NEW k \in places \cap 1..n PROVE \E i \in 1..L + 1 : h[i] = k
    <3>1. CASE k = n
      BY <2>1, <2>3, <3>1
    <3>2. CASE k \in places \cap 1..n - 1
      <4>1. PICK i \in 1..L : g[i] = k
        BY <2>2, <3>2
      <4> QED BY <2>1, <2>3, <4>1
    <3> QED BY <1>0, <3>1, <3>2
  <2>8. ASSUME NEW i \in 1..L + 1 PROVE q[i] = s[h[i]]
    BY <2>1, <2>2, <2>3, <2>5
  <2>9. Picks(s, places \cap 1..n, q, h)
    BY <2>1, <2>4, <2>6, <2>7, <2>8 DEF Picks
  <2>10. Taken(s, places, r, n) = q
    BY <1>2 DEF Taken, q
  <2> QED BY <2>9, <2>10
<1> QED BY <1>1, <1>2

LEMMA SelectedPicks ==
  ASSUME NEW T, NEW s \in Seq(T), NEW places \in SUBSET (DOMAIN s)
  PROVE  /\ Prompt!Selected(s, places) \in Seq(T)
         /\ \E g : Picks(s, places, Prompt!Selected(s, places), g)
<1> DEFINE N == Len(s)
           G == Seq(T)
           Def(f) == f = [n \in 0..N |-> IF n = 0 THEN <<>> ELSE IF n \in places THEN Append(f[n - 1], s[n]) ELSE f[n - 1]]
           next == [x \in G \X (1..N) |-> Taken(s, places, x[1], x[2])]
           I == [n \in 0..N |-> {r \in G : \E g : Picks(s, places \cap 1..n, r, g)}]
<1>1. N \in Nat /\ <<>> \in G /\ \A n \in 1..N : s[n] \in T
  OBVIOUS
<1>2. Prompt!Selected(s, places) = (CHOOSE f : Def(f))[N]
  BY DEF Prompt!Selected
<1>p. places \in SUBSET (1..Len(s)) /\ N = Len(s) /\ places \cap 1..N = places
  BY <1>1
<1>I. \A n \in 0..N : I[n] = {r \in G : \E g : Picks(s, places \cap 1..n, r, g)}
  OBVIOUS
<1>d. I = [n \in 0..N |-> I[n]]
  OBVIOUS
<1> HIDE DEF I
<1>i. ASSUME NEW n \in 1..N, NEW a \in I[n - 1] PROVE a \in G /\ Taken(s, places, a, n) \in I[n]
  <2>1. n - 1 \in 0..N /\ n \in 0..N /\ n \in 1..Len(s)
    BY <1>1
  <2>2. a \in G /\ \E g : Picks(s, places \cap 1..n - 1, a, g)
    BY <1>I, <2>1
  <2>3. Taken(s, places, a, n) \in G
    BY <1>1, <2>2 DEF Taken
  <2>4. \E h : Picks(s, places \cap 1..n, Taken(s, places, a, n), h)
    <3>1. PICK g : Picks(s, places \cap 1..n - 1, a, g)
      BY <2>2
    <3> QED BY <1>p, <2>1, <2>2, <3>1, PickOne, Zenon
  <2> HIDE DEF G
  <2> QED BY <1>I, <2>1, <2>2, <2>3, <2>4
<1>0. <<>> \in I[0]
  <2>1. Picks(s, places \cap 1..0, <<>>, <<>>)
    <3>1. 1..0 = {} /\ Len(<<>>) = 0 /\ <<>> \in [1..0 -> {}]
      OBVIOUS
    <3> QED BY <3>1 DEF Picks
  <2>2. 0 \in 0..N
    BY <1>1
  <2> HIDE DEF G, N
  <2> QED BY <1>1, <1>I, <2>1, <2>2
<1>g. I \in [0..N -> SUBSET G] /\ I[N] = {r \in G : \E g : Picks(s, places, r, g)}
  <2>1. N \in 0..N
    BY <1>1
  <2> HIDE DEF N, G
  <2>2. \A n \in 0..N : I[n] \in SUBSET G
    BY <1>I
  <2>3. I \in [0..N -> SUBSET G]
    BY <1>d, <2>2
  <2> QED BY <1>I, <1>p, <2>1, <2>3, Zenon
<1>3. \A a \in G, n \in 1..N : Taken(s, places, a, n) \in G
  BY <1>1 DEF Taken
<1> HIDE DEF N, G
<1>4. /\ next \in [G \X (1..N) -> G]
      /\ \A a \in G, n \in 1..N : next[<<a, n>>] = Taken(s, places, a, n)
  <2> QED BY <1>3
<1> HIDE DEF next
<1>5. PICK f : f \in Runs(G, <<>>, next, N)
  BY <1>1, <1>4, RunsExist, Zenon
<1>6. f \in [0..N -> G] /\ f[0] = <<>> /\ \A m \in 1..N : f[m] = Taken(s, places, f[m - 1], m)
  <2>1. f \in [0..N -> G] /\ f[0] = <<>> /\ \A m \in 1..N : f[m] = next[<<f[m - 1], m>>]
    BY <1>5 DEF Runs
  <2>2. \A m \in 1..N : f[m - 1] \in G
    BY <1>1, <2>1
  <2> QED BY <1>4, <2>1, <2>2, Zenon
<1>7. Def(f)
  <2>1. ASSUME NEW n \in 0..N
        PROVE  f[n] = IF n = 0 THEN <<>>
                      ELSE IF n \in places THEN Append(f[n - 1], s[n]) ELSE f[n - 1]
    <3>1. n = 0 \/ n \in 1..N
      BY <1>1
    <3> QED BY <1>6, <3>1, Zenon DEF Taken
  <2>2. f = [n \in 0..N |-> f[n]]
    BY <1>6
  <2> QED BY <2>1, <2>2
<1> DEFINE pick == CHOOSE h : Def(h)
<1>8. Def(pick)
  BY <1>7, Zenon
<1> HIDE DEF pick
<1>9. pick[0] = <<>> /\ (\A m \in 1..N : pick[m] = Taken(s, places, pick[m - 1], m)) /\ pick = [n \in 0..N |-> pick[n]]
  <2>0. \A n \in 0..N : pick[n] = IF n = 0 THEN <<>>
                                   ELSE IF n \in places THEN Append(pick[n - 1], s[n]) ELSE pick[n - 1]
    BY <1>8
  <2>e. 0 \in 0..N /\ \A m \in 1..N : m \in 0..N /\ m # 0
    BY <1>1
  <2>1. pick[0] = <<>> /\ \A m \in 1..N : pick[m] = Taken(s, places, pick[m - 1], m)
    BY <2>0, <2>e, Zenon DEF Taken
  <2>2. pick = [n \in 0..N |-> pick[n]]
    BY <1>8
  <2> QED BY <2>1, <2>2
<1>10. \A m \in 1..N : pick[m - 1] \in G => pick[m] = next[<<pick[m - 1], m>>]
  BY <1>4, <1>9, Zenon
<1>11. pick \in Runs(G, <<>>, next, N)
  BY <1>1, <1>4, <1>9, <1>10, RunsOnly, Zenon
<1>12. \A m \in 1..N : \A a \in I[m - 1] : next[<<a, m>>] \in I[m]
  BY <1>i, <1>4, Zenon
<1>13. \A n \in 0..N : pick[n] \in I[n]
  BY <1>0, <1>1, <1>4, <1>11, <1>12, <1>g, RunsKeep, Zenon
<1>14. pick[N] \in I[N]
  BY <1>1, <1>13
<1> QED BY <1>2, <1>14, <1>g DEF pick, G

-----------------------------------------------------------------------------
(* Chunks.                                                                   *)

LEMMA AppendFacts ==
  ASSUME NEW T, NEW s \in Seq(T), NEW x \in T
  PROVE  LET u == Append(s, x) IN
         /\ u \in Seq(T) /\ u # <<>> /\ Len(u) = Len(s) + 1 /\ DOMAIN u = 1..Len(s) + 1
         /\ u = [i \in 1..Len(s) + 1 |-> u[i]]
         /\ u[Len(s) + 1] = x /\ \A i \in 1..Len(s) : u[i] = s[i]
         /\ Len(s) \in Nat /\ DOMAIN s = 1..Len(s)
<1>1. Len(s) \in Nat /\ DOMAIN s = 1..Len(s)
  OBVIOUS
<1>2. Append(s, x) \in Seq(T) /\ Len(Append(s, x)) = Len(s) + 1 /\ Append(s, x)[Len(s) + 1] = x
  OBVIOUS
<1>3. \A i \in 1..Len(s) : Append(s, x)[i] = s[i]
  OBVIOUS
<1> DEFINE u == Append(s, x)
<1> HIDE DEF u
<1>4. u \in Seq(T) /\ Len(u) = Len(s) + 1
  BY <1>2 DEF u
<1>5. u = [i \in 1..Len(s) + 1 |-> u[i]] /\ DOMAIN u = 1..Len(s) + 1 /\ u # <<>>
  BY <1>1, <1>4
<1> QED BY <1>1, <1>2, <1>3, <1>5 DEF u

LEMMA TailFacts ==
  ASSUME NEW T, NEW s \in Seq(T), s # <<>>
  PROVE  LET u == Tail(s) IN
         /\ u \in Seq(T) /\ Len(u) = Len(s) - 1 /\ DOMAIN u = 1..Len(s) - 1
         /\ u = [i \in 1..Len(s) - 1 |-> u[i]] /\ \A i \in 1..Len(s) - 1 : u[i] = s[i + 1]
         /\ Len(s) \in Nat /\ Len(s) # 0 /\ DOMAIN s = 1..Len(s) /\ Head(s) = s[1]
<1>1. Len(s) \in Nat /\ Len(s) # 0 /\ DOMAIN s = 1..Len(s) /\ Head(s) = s[1]
  OBVIOUS
<1>2. Tail(s) \in Seq(T) /\ Len(Tail(s)) = Len(s) - 1
  OBVIOUS
<1>3. \A i \in 1..Len(s) - 1 : Tail(s)[i] = s[i + 1]
  OBVIOUS
<1> DEFINE u == Tail(s)
<1> HIDE DEF u
<1>4. u \in Seq(T) /\ Len(u) = Len(s) - 1
  BY <1>2 DEF u
<1>5. u = [i \in 1..Len(s) - 1 |-> u[i]] /\ DOMAIN u = 1..Len(s) - 1
  BY <1>1, <1>4
<1> QED BY <1>1, <1>3, <1>4, <1>5 DEF u

LEMMA PairFacts ==
  ASSUME NEW T, NEW x \in T, NEW y \in T
  PROVE  LET c == Append(<<x>>, y) IN
         /\ <<x>> \in Seq(T) /\ c \in Seq(T) /\ c # <<>> /\ c[Len(c)] = y
         /\ Head(c) = x /\ Len(Tail(c)) = 1
<1> DEFINE s == <<x>>
<1>1. s \in Seq(T) /\ Len(s) = 1 /\ s[1] = x
  OBVIOUS
<1> HIDE DEF s
<1> DEFINE c == Append(s, y)
<1>2. c \in Seq(T) /\ c # <<>> /\ Len(c) = Len(s) + 1 /\ c[Len(s) + 1] = y /\ \A i \in 1..Len(s) : c[i] = s[i]
  <2>1. s \in Seq(T) /\ y \in T
    BY <1>1
  <2>2. \A q \in Seq(T) : \A z \in T : LET u == Append(q, z) IN
          u \in Seq(T) /\ u # <<>> /\ Len(u) = Len(q) + 1 /\ u[Len(q) + 1] = z /\ \A i \in 1..Len(q) : u[i] = q[i]
    BY AppendFacts
  <2> QED BY <2>1, <2>2, Zenon
<1> HIDE DEF c
<1>3. Len(Tail(c)) = Len(c) - 1 /\ Head(c) = c[1]
  BY <1>2, TailFacts
<1>4. Len(c) = 2 /\ c[2] = y /\ c[1] = x
  BY <1>1, <1>2
<1> QED BY <1>1, <1>2, <1>3, <1>4 DEF c, s

Document(d) ==
  /\ d.size \in Seq(Nat) /\ d.starts \subseteq DOMAIN d.size /\ 1 \in d.starts

ParaSeqs(d) == Seq(DOMAIN d.size)

LEMMA WeightNat ==
  ASSUME NEW d, Document(d), NEW c \in ParaSeqs(d)
  PROVE  /\ Prompt!Weight(d, c) \in Nat
         /\ \A i \in DOMAIN c : Prompt!Size(d, c[i]) \in Nat /\ Prompt!Size(d, c[i]) <= Prompt!Weight(d, c)
<1> DEFINE s == [i \in DOMAIN c |-> Prompt!Size(d, c[i])]
<1>1. s \in Seq(Nat) /\ DOMAIN s = DOMAIN c /\ \A i \in DOMAIN c : s[i] = Prompt!Size(d, c[i])
  <2>1. \A i \in DOMAIN c : Prompt!Size(d, c[i]) \in Nat
    BY DEF Document, ParaSeqs, Prompt!Size
  <2>2. DOMAIN c = 1..Len(c) /\ Len(c) \in Nat
    BY DEF ParaSeqs
  <2> QED BY <2>1, <2>2
<1>2. Prompt!Weight(d, c) = Prompt!Total(s)
  BY DEF Prompt!Weight
<1> HIDE DEF s
<1>3. \A i \in DOMAIN s : s[i] \in Nat
  BY <1>1
<1> QED BY <1>1, <1>2, <1>3, TotalNat

LEMMA WeightAppend ==
  ASSUME NEW d, Document(d), NEW c \in ParaSeqs(d), NEW p \in DOMAIN d.size
  PROVE  Prompt!Weight(d, Append(c, p)) = Prompt!Weight(d, c) + Prompt!Size(d, p)
<1> DEFINE s == [i \in DOMAIN c |-> Prompt!Size(d, c[i])]
           t == [i \in DOMAIN Append(c, p) |-> Prompt!Size(d, Append(c, p)[i])]
<1>1. /\ Len(c) \in Nat /\ DOMAIN c = 1..Len(c) /\ DOMAIN Append(c, p) = 1..Len(c) + 1
      /\ Append(c, p)[Len(c) + 1] = p /\ \A i \in 1..Len(c) : Append(c, p)[i] = c[i]
  BY DEF ParaSeqs
<1>2. s \in Seq(Nat) /\ Len(s) = Len(c) /\ Prompt!Size(d, p) \in Nat
  <2>1. \A i \in DOMAIN c : Prompt!Size(d, c[i]) \in Nat
    BY WeightNat
  <2>2. Prompt!Size(d, p) \in Nat
    BY DEF Document, Prompt!Size
  <2> QED BY <1>1, <2>1, <2>2
<1>3. t = Append(s, Prompt!Size(d, p))
  <2>1. DOMAIN t = 1..Len(c) + 1 /\ t[Len(c) + 1] = Prompt!Size(d, p)
        /\ \A i \in 1..Len(c) : t[i] = s[i]
    BY <1>1
  <2>2. t = [i \in 1..Len(c) + 1 |-> t[i]]
    BY <1>1
  <2> HIDE DEF t, s
  <2> DEFINE u == Append(s, Prompt!Size(d, p))
  <2>3. /\ u = [i \in 1..Len(c) + 1 |-> u[i]] /\ u[Len(c) + 1] = Prompt!Size(d, p)
        /\ \A i \in 1..Len(c) : u[i] = s[i]
    BY <1>2, AppendFacts
  <2>4. \A i \in 1..Len(c) + 1 : i = Len(c) + 1 \/ i \in 1..Len(c)
    BY <1>1
  <2> HIDE DEF u
  <2>5. \A i \in 1..Len(c) + 1 : t[i] = u[i]
    BY <2>1, <2>3, <2>4
  <2> QED BY <2>2, <2>3, <2>5 DEF u
<1>4. Prompt!Weight(d, c) = Prompt!Total(s) /\ Prompt!Weight(d, Append(c, p)) = Prompt!Total(t)
  BY DEF Prompt!Weight
<1> HIDE DEF s, t
<1> QED BY <1>2, <1>3, <1>4, TotalAppend

LEMMA WeightTail ==
  ASSUME NEW d, Document(d), NEW c \in ParaSeqs(d), c # <<>>
  PROVE  Tail(c) \in ParaSeqs(d) /\ Prompt!Weight(d, Tail(c)) <= Prompt!Weight(d, c)
<1> DEFINE s == [i \in DOMAIN c |-> Prompt!Size(d, c[i])]
           t == [i \in DOMAIN Tail(c) |-> Prompt!Size(d, Tail(c)[i])]
<1>1. /\ Len(c) \in Nat /\ Len(c) # 0 /\ DOMAIN c = 1..Len(c) /\ DOMAIN Tail(c) = 1..Len(c) - 1
      /\ \A i \in 1..Len(c) - 1 : Tail(c)[i] = c[i + 1]
      /\ Tail(c) \in ParaSeqs(d)
  BY DEF ParaSeqs
<1>2. s \in Seq(Nat) /\ Len(s) = Len(c) /\ s # <<>>
  <2>1. \A i \in DOMAIN c : Prompt!Size(d, c[i]) \in Nat
    BY WeightNat
  <2> QED BY <1>1, <2>1
<1>3. t = Tail(s)
  <2>1. DOMAIN t = 1..Len(c) - 1 /\ \A i \in 1..Len(c) - 1 : t[i] = s[i + 1]
    BY <1>1
  <2>2. t = [i \in 1..Len(c) - 1 |-> t[i]]
    BY <1>1
  <2> HIDE DEF t, s
  <2> DEFINE u == Tail(s)
  <2>3. u = [i \in 1..Len(c) - 1 |-> u[i]] /\ \A i \in 1..Len(c) - 1 : u[i] = s[i + 1]
    BY <1>2, TailFacts
  <2> HIDE DEF u
  <2>4. \A i \in 1..Len(c) - 1 : t[i] = u[i]
    BY <2>1, <2>3
  <2> QED BY <2>2, <2>3, <2>4 DEF u
<1>4. Prompt!Weight(d, c) = Prompt!Total(s) /\ Prompt!Weight(d, Tail(c)) = Prompt!Total(t)
  BY DEF Prompt!Weight
<1> HIDE DEF s, t
<1> QED BY <1>1, <1>2, <1>3, <1>4, TotalTail

LEMMA WeightEmpty == ASSUME NEW d PROVE Prompt!Weight(d, <<>>) = 0
<1>1. [i \in DOMAIN <<>> |-> Prompt!Size(d, <<>>[i])] = <<>>
  OBVIOUS
<1> QED BY <1>1, TotalEmpty, Zenon DEF Prompt!Weight

\* Apart from what was carried over, the chunk keeps to the target, or cannot be divided.
OwnFits(d, c) == Prompt!Weight(d, Prompt!Own(d, c)) <= TargetSize \/ Len(Prompt!Own(d, c)) = 1

LEMMA PromptNumbers ==
  /\ TargetSize \in Nat /\ Overlap \in Nat /\ Minimum \in Nat /\ Budget \in Nat
  /\ Lengths \subseteq Nat /\ ItemSizes \subseteq Nat
  /\ MaxParagraphs \in Nat /\ MaxItems \in Nat
BY StepsAssumption DEF Prompt!ContextAssumption

LEMMA BufferFits ==
  ASSUME NEW d, Document(d), NEW buf \in ParaSeqs(d), NEW p \in DOMAIN d.size,
         buf = <<>> \/ ~(Prompt!Weight(d, buf) + Prompt!Size(d, p) > TargetSize)
  PROVE  OwnFits(d, Append(buf, p))
<1> DEFINE c == Append(buf, p)
<1>1. c \in ParaSeqs(d) /\ c # <<>>
  BY DEF ParaSeqs
<1>2. Prompt!Own(d, c) \in {c, Tail(c)}
  BY DEF Prompt!Own
<1>3. CASE buf = <<>>
  <2>1. Len(c) = 1 /\ Tail(c) = <<>>
    BY <1>3
  <2>2. Prompt!Weight(d, <<>>) <= TargetSize
    BY PromptNumbers, WeightEmpty
  <2> HIDE DEF c
  <2> QED BY <1>2, <2>1, <2>2 DEF OwnFits, c
<1>4. CASE ~(Prompt!Weight(d, buf) + Prompt!Size(d, p) > TargetSize)
  <2>1. Prompt!Weight(d, c) = Prompt!Weight(d, buf) + Prompt!Size(d, p)
    BY WeightAppend
  <2>2. Prompt!Weight(d, buf) \in Nat /\ Prompt!Size(d, p) \in Nat
    BY WeightNat DEF Document, Prompt!Size
  <2> HIDE DEF c
  <2>3. Prompt!Weight(d, c) <= TargetSize
    BY <1>4, <2>1, <2>2, PromptNumbers
  <2>4. Tail(c) \in ParaSeqs(d) /\ Prompt!Weight(d, Tail(c)) <= Prompt!Weight(d, c)
    BY <1>1, WeightTail
  <2>5. Prompt!Weight(d, Tail(c)) \in Nat /\ Prompt!Weight(d, c) \in Nat
    BY <1>1, <2>4, WeightNat
  <2>6. Prompt!Weight(d, Tail(c)) <= TargetSize
    BY <2>3, <2>4, <2>5, PromptNumbers
  <2> QED BY <1>2, <2>3, <2>6 DEF OwnFits, c
<1> QED BY <1>3, <1>4

LEMMA CarriedFits ==
  ASSUME NEW d, Document(d), NEW buf \in ParaSeqs(d), buf # <<>>, NEW p \in DOMAIN d.size,
         NEW overlap \in {0, Overlap}
  PROVE  LET c == Append(Prompt!CarriedOver(d, buf, overlap), p) IN
         /\ c \in ParaSeqs(d) /\ c # <<>> /\ c[Len(c)] = p /\ OwnFits(d, c)
         /\ Prompt!CarriedOver(d, buf, overlap) \in ParaSeqs(d)
<1> DEFINE l == Last(buf)
<1>1. l \in DOMAIN d.size
  BY DEF ParaSeqs, Last
<1> HIDE DEF l
<1>2. CASE Prompt!CarriedOver(d, buf, overlap) = <<>>
  <2>1. <<>> \in ParaSeqs(d)
    BY DEF ParaSeqs
  <2>2. OwnFits(d, Append(<<>>, p))
    BY <2>1, BufferFits
  <2>3. Append(<<>>, p) \in ParaSeqs(d) /\ Append(<<>>, p) # <<>> /\ Append(<<>>, p)[Len(Append(<<>>, p))] = p
    BY DEF ParaSeqs
  <2> QED BY <1>2, <2>1, <2>2, <2>3
<1>3. CASE Prompt!CarriedOver(d, buf, overlap) = <<l>> /\ Prompt!Size(d, l) <= Overlap
  <2> DEFINE c == Append(<<l>>, p)
  <2>1. c \in ParaSeqs(d) /\ c # <<>> /\ c[Len(c)] = p /\ Head(c) = l /\ Len(Tail(c)) = 1 /\ <<l>> \in ParaSeqs(d)
    BY <1>1, PairFacts, Zenon DEF ParaSeqs
  <2> HIDE DEF c
  <2>2. Prompt!Own(d, c) = Tail(c)
    BY <1>3, <2>1 DEF Prompt!Own
  <2>3. OwnFits(d, c)
    BY <2>1, <2>2 DEF OwnFits
  <2> QED BY <1>3, <2>1, <2>3 DEF c
<1>4. \/ Prompt!CarriedOver(d, buf, overlap) = <<>>
      \/ Prompt!CarriedOver(d, buf, overlap) = <<l>> /\ Prompt!Size(d, l) <= Overlap
  <2>1. overlap > 0 /\ Prompt!Size(d, l) <= overlap => overlap = Overlap
    BY PromptNumbers
  <2>2. Prompt!CarriedOver(d, buf, overlap) =
          IF overlap > 0 /\ Prompt!Size(d, l) <= overlap THEN <<l>> ELSE <<>>
    BY DEF Prompt!CarriedOver, Prompt!Last, Last, l
  <2> QED BY <2>1, <2>2
<1> QED BY <1>2, <1>3, <1>4

ChunkFits(d, c) ==
  OwnFits(d, c) \/ (Prompt!WholeSection(d, c) /\ 2 * Prompt!Weight(d, c) <= 3 * TargetSize)

EndOf(c) == c[Len(c)]

\* Chunks that together have the paragraphs from lo to hi, in their order.
Cut(d, cs, lo, hi) ==
  /\ cs \in Seq(ParaSeqs(d))
  /\ \A i \in 1..Len(cs) : cs[i] # <<>> /\ ChunkFits(d, cs[i]) /\ EndOf(cs[i]) \in lo..hi
  /\ \A i, j \in 1..Len(cs) : i < j => EndOf(cs[i]) < EndOf(cs[j])
  /\ \A p \in lo..hi : \E i \in 1..Len(cs) : \E k \in 1..Len(cs[i]) : cs[i][k] = p

LEMMA CutNone == ASSUME NEW d, NEW lo \in Nat PROVE Cut(d, <<>>, lo, lo - 1)
<1>1. <<>> \in Seq(ParaSeqs(d)) /\ 1..Len(<<>>) = {} /\ lo..lo - 1 = {}
  OBVIOUS
<1> QED BY <1>1, Zenon DEF Cut

LEMMA CutOne ==
  ASSUME NEW d, NEW lo \in Nat, NEW hi \in Nat, lo <= hi,
         NEW c \in ParaSeqs(d), c # <<>>, ChunkFits(d, c), EndOf(c) = hi,
         \A p \in lo..hi : \E k \in 1..Len(c) : c[k] = p
  PROVE  Cut(d, <<c>>, lo, hi)
<1> DEFINE cs == <<c>>
<1>1. cs \in Seq(ParaSeqs(d)) /\ Len(cs) = 1 /\ cs[1] = c
  OBVIOUS
<1> HIDE DEF cs
<1>2. 1 \in 1..Len(cs) /\ \A i \in 1..Len(cs) : i = 1
  BY <1>1
<1>3. hi \in lo..hi
  OBVIOUS
<1>4. \A i, j \in 1..Len(cs) : ~(i < j)
  BY <1>2
<1>5. \A i \in 1..Len(cs) : cs[i] # <<>> /\ ChunkFits(d, cs[i]) /\ EndOf(cs[i]) \in lo..hi
  BY <1>1, <1>2, <1>3
<1>6. \A p \in lo..hi : \E i \in 1..Len(cs) : \E k \in 1..Len(cs[i]) : cs[i][k] = p
  BY <1>1, <1>2
<1>7. Cut(d, cs, lo, hi)
  BY <1>1, <1>4, <1>5, <1>6 DEF Cut
<1> QED BY <1>7 DEF cs

LEMMA JoinFacts ==
  ASSUME NEW T, NEW s \in Seq(T), NEW t \in Seq(T)
  PROVE  /\ s \o t \in Seq(T) /\ Len(s \o t) = Len(s) + Len(t) /\ Len(s) \in Nat /\ Len(t) \in Nat
         /\ \A i \in 1..Len(s) : (s \o t)[i] = s[i]
         /\ \A i \in 1..Len(t) : (s \o t)[Len(s) + i] = t[i]
<1>1. s \o t \in Seq(T) /\ Len(s \o t) = Len(s) + Len(t) /\ Len(s) \in Nat /\ Len(t) \in Nat
  OBVIOUS
<1>2. \A i \in 1..Len(s) : (s \o t)[i] = s[i]
  OBVIOUS
<1>3. \A i \in 1..Len(t) : (s \o t)[Len(s) + i] = t[i]
  <2> TAKE i \in 1..Len(t)
  <2>1. Len(s) + i \in 1..Len(s) + Len(t) /\ ~(Len(s) + i <= Len(s)) /\ (Len(s) + i) - Len(s) = i
    BY <1>1
  <2> QED BY <2>1
<1> QED BY <1>1, <1>2, <1>3

LEMMA CutJoin ==
  ASSUME NEW d, NEW lo \in Nat, NEW mid \in Int, NEW hi \in Nat, lo - 1 <= mid, mid <= hi,
         NEW cs, NEW ds, Cut(d, cs, lo, mid), Cut(d, ds, mid + 1, hi)
  PROVE  Cut(d, cs \o ds, lo, hi)
<1> DEFINE es == cs \o ds
           m == Len(cs)
           n == Len(ds)
<1>0. cs \in Seq(ParaSeqs(d)) /\ ds \in Seq(ParaSeqs(d))
  BY DEF Cut
<1>1. /\ es \in Seq(ParaSeqs(d)) /\ Len(es) = m + n /\ m \in Nat /\ n \in Nat
      /\ \A i \in 1..m : es[i] = cs[i]
      /\ \A i \in 1..n : es[m + i] = ds[i]
  BY <1>0, JoinFacts
<1>2. \A i \in 1..m : cs[i] # <<>> /\ ChunkFits(d, cs[i]) /\ EndOf(cs[i]) \in lo..mid
  BY DEF Cut
<1>3. \A i \in 1..n : ds[i] # <<>> /\ ChunkFits(d, ds[i]) /\ EndOf(ds[i]) \in mid + 1..hi
  BY DEF Cut
<1>4. \A i, j \in 1..m : i < j => EndOf(cs[i]) < EndOf(cs[j])
  BY DEF Cut
<1>5. \A i, j \in 1..n : i < j => EndOf(ds[i]) < EndOf(ds[j])
  BY DEF Cut
<1>6. /\ \A p \in lo..mid : \E i \in 1..m : \E k \in 1..Len(cs[i]) : cs[i][k] = p
      /\ \A p \in mid + 1..hi : \E i \in 1..n : \E k \in 1..Len(ds[i]) : ds[i][k] = p
  BY DEF Cut
<1> HIDE DEF es, m, n
<1>7. \A i \in 1..m + n : i \in 1..m \/ \E k \in 1..n : i = m + k
  <2> TAKE i \in 1..m + n
  <2>1. CASE i <= m
    BY <1>1, <2>1
  <2>2. CASE ~(i <= m)
    <3>1. i - m \in 1..n /\ i = m + (i - m)
      BY <1>1, <2>2
    <3> QED BY <3>1
  <2> QED BY <2>1, <2>2
<1>8. lo..mid \subseteq lo..hi /\ mid + 1..hi \subseteq lo..hi
  OBVIOUS
<1>9. \A i \in 1..m + n : es[i] # <<>> /\ ChunkFits(d, es[i]) /\ EndOf(es[i]) \in lo..hi
  BY <1>1, <1>2, <1>3, <1>7, <1>8
<1>10. ASSUME NEW i \in 1..m + n, NEW j \in 1..m + n, i < j PROVE EndOf(es[i]) < EndOf(es[j])
  <2>1. CASE i \in 1..m /\ j \in 1..m
    BY <1>1, <1>4, <1>10, <2>1
  <2>2. CASE i \in 1..m /\ j \notin 1..m
    <3>1. PICK k \in 1..n : j = m + k
      BY <1>7, <2>2
    <3>2. EndOf(es[i]) \in lo..mid /\ EndOf(es[j]) \in mid + 1..hi
      BY <1>1, <1>2, <1>3, <2>2, <3>1
    <3> QED BY <3>2
  <2>3. CASE i \notin 1..m
    <3>1. PICK k \in 1..n : i = m + k
      BY <1>7, <2>3
    <3>2. j \notin 1..m
      BY <1>1, <1>10, <3>1
    <3>3. PICK l \in 1..n : j = m + l
      BY <1>7, <3>2
    <3>4. k < l
      BY <1>1, <1>10, <3>1, <3>3
    <3> QED BY <1>1, <1>5, <3>1, <3>3, <3>4
  <2> QED BY <2>1, <2>2, <2>3
<1>11. \A i \in 1..n : m + i \in 1..m + n
  BY <1>1
<1>12. \A i \in 1..m : i \in 1..m + n
  BY <1>1
<1>13. ASSUME NEW p \in lo..hi PROVE \E i \in 1..m + n : \E k \in 1..Len(es[i]) : es[i][k] = p
  <2>1. CASE p \in lo..mid
    <3>1. PICK i \in 1..m : \E k \in 1..Len(cs[i]) : cs[i][k] = p
      BY <1>6, <2>1
    <3> QED BY <1>1, <1>12, <3>1
  <2>2. CASE p \in mid + 1..hi
    <3>1. PICK i \in 1..n : \E k \in 1..Len(ds[i]) : ds[i][k] = p
      BY <1>6, <2>2
    <3> QED BY <1>1, <1>11, <3>1
  <2> QED BY <2>1, <2>2
<1>14. Cut(d, es, lo, hi)
  BY <1>1, <1>9, <1>10, <1>13 DEF Cut
<1> QED BY <1>14 DEF es

\* A chunk more.
LEMMA CutAppend ==
  ASSUME NEW d, NEW lo \in Nat, NEW mid \in Int, NEW hi \in Nat, lo - 1 <= mid, mid < hi,
         NEW cs, Cut(d, cs, lo, mid),
         NEW c \in ParaSeqs(d), c # <<>>, ChunkFits(d, c), EndOf(c) = hi,
         \A p \in mid + 1..hi : \E k \in 1..Len(c) : c[k] = p
  PROVE  Cut(d, Append(cs, c), lo, hi)
<1>1. Cut(d, <<c>>, mid + 1, hi)
  <2>1. mid + 1 \in Nat /\ mid + 1 <= hi
    OBVIOUS
  <2> QED BY <2>1, CutOne
<1>2. Append(cs, c) = cs \o <<c>>
  <2>1. cs \in Seq(ParaSeqs(d))
    BY DEF Cut
  <2> QED BY <2>1
<1>3. mid <= hi
  OBVIOUS
<1> QED BY <1>1, <1>2, <1>3, CutJoin

-----------------------------------------------------------------------------
(* Packing paragraphs.                                                       *)

Accs(d) == [done : Seq(ParaSeqs(d)), buf : ParaSeqs(d)]

\* The paragraphs from lo to hi are in chunks that are done, or in the buffer.
PackedTo(d, acc, lo, hi) ==
  /\ acc \in Accs(d) /\ acc.buf # <<>> /\ EndOf(acc.buf) = hi /\ OwnFits(d, acc.buf)
  /\ \E k \in lo - 1..hi - 1 :
       Cut(d, acc.done, lo, k) /\ \A p \in k + 1..hi : \E i \in 1..Len(acc.buf) : acc.buf[i] = p

LEMMA AccFacts ==
  ASSUME NEW d, NEW done \in Seq(ParaSeqs(d)), NEW buf \in ParaSeqs(d)
  PROVE  LET a == [done |-> done, buf |-> buf] IN a \in Accs(d) /\ a.done = done /\ a.buf = buf
BY DEF Accs

LEMMA StartFacts ==
  ASSUME NEW d PROVE Prompt!NothingDone \in Accs(d) /\ Prompt!NothingDone.buf = <<>> /\ Prompt!NothingDone.done = <<>>
BY DEF Accs, ParaSeqs, Prompt!NothingDone

\* The paragraph joins the buffer, or the buffer is a chunk and the paragraph in the next one.
Packed(d, acc, p, overlap, a) ==
  \/ /\ a.done = acc.done /\ a.buf = Append(acc.buf, p)
     /\ acc.buf = <<>> \/ ~(Prompt!Weight(d, acc.buf) + Prompt!Size(d, p) > TargetSize)
  \/ /\ a.done = Append(acc.done, acc.buf) /\ acc.buf # <<>>
     /\ a.buf = Append(Prompt!CarriedOver(d, acc.buf, overlap), p)

LEMMA PackKinds ==
  ASSUME NEW d, Document(d), NEW acc \in Accs(d), NEW p \in DOMAIN d.size, NEW overlap \in {0, Overlap}
  PROVE  /\ Prompt!PackNext(d, acc, p, overlap) \in Accs(d)
         /\ Packed(d, acc, p, overlap, Prompt!PackNext(d, acc, p, overlap))
<1> DEFINE a == Prompt!PackNext(d, acc, p, overlap)
           c == Append(Prompt!CarriedOver(d, acc.buf, overlap), p)
<1>0. acc.done \in Seq(ParaSeqs(d)) /\ acc.buf \in ParaSeqs(d)
  BY DEF Accs
<1>1. CASE acc.buf # <<>> /\ Prompt!Weight(d, acc.buf) + Prompt!Size(d, p) > TargetSize
  <2>1. a = [done |-> Append(acc.done, acc.buf), buf |-> c]
    BY <1>1 DEF Prompt!PackNext, Prompt!Closed
  <2>2. c \in ParaSeqs(d)
    BY <1>0, <1>1, CarriedFits
  <2>3. Append(acc.done, acc.buf) \in Seq(ParaSeqs(d))
    BY <1>0
  <2> HIDE DEF c
  <2>4. a \in Accs(d) /\ a.done = Append(acc.done, acc.buf) /\ a.buf = c
    BY <2>1, <2>2, <2>3 DEF Accs
  <2> QED BY <1>1, <2>4 DEF c, Packed
<1>2. CASE acc.buf = <<>> \/ ~(Prompt!Weight(d, acc.buf) + Prompt!Size(d, p) > TargetSize)
  <2>1. a = [done |-> acc.done, buf |-> Append(acc.buf, p)]
    BY <1>2 DEF Prompt!PackNext, Prompt!Buffered
  <2> DEFINE b == Append(acc.buf, p)
  <2>2. b \in ParaSeqs(d)
    <3>1. acc.buf \in ParaSeqs(d)
      BY <1>0
    <3> QED BY <3>1, AppendFacts DEF ParaSeqs
  <2> HIDE DEF b
  <2>4. a \in Accs(d) /\ a.done = acc.done /\ a.buf = b
    <3>1. a = [done |-> acc.done, buf |-> b]
      BY <2>1 DEF b
    <3> QED BY <1>0, <2>2, <3>1 DEF Accs
  <2> QED BY <1>2, <2>4 DEF b, Packed
<1> QED BY <1>1, <1>2

LEMMA PackStarts ==
  ASSUME NEW d, Document(d), NEW p \in DOMAIN d.size, NEW overlap \in {0, Overlap}
  PROVE  PackedTo(d, Prompt!PackNext(d, Prompt!NothingDone, p, overlap), p, p)
<1> DEFINE a == Prompt!PackNext(d, Prompt!NothingDone, p, overlap)
<1>1. a \in Accs(d) /\ a.done = <<>> /\ a.buf = Append(<<>>, p)
  <2>1. Prompt!NothingDone \in Accs(d) /\ Prompt!NothingDone.buf = <<>> /\ Prompt!NothingDone.done = <<>>
    BY StartFacts
  <2>2. a \in Accs(d) /\ Packed(d, Prompt!NothingDone, p, overlap, a)
    BY <2>1, PackKinds, Zenon
  <2> HIDE DEF a
  <2> QED BY <2>1, <2>2 DEF Packed
<1> HIDE DEF a
<1>2. p \in Nat
  BY DEF Document
<1>3. <<>> \in ParaSeqs(d)
  BY DEF ParaSeqs
<1>4. OwnFits(d, Append(<<>>, p))
  BY <1>3, BufferFits
<1> DEFINE c == Append(<<>>, p)
<1>5. c # <<>> /\ Len(c) = 1 /\ c[1] = p
  OBVIOUS
<1> HIDE DEF c
<1>6. EndOf(c) = p /\ 1 \in 1..Len(c)
  BY <1>5 DEF EndOf
<1>7. Cut(d, <<>>, p, p - 1)
  BY <1>2, CutNone
<1>8. p - 1 \in p - 1..p - 1 /\ \A q \in p - 1 + 1..p : q = p
  BY <1>2
<1>9. a.buf = c /\ OwnFits(d, c)
  BY <1>1, <1>4 DEF c
<1> QED BY <1>1, <1>5, <1>6, <1>7, <1>8, <1>9 DEF PackedTo, a

LEMMA PackSteps ==
  ASSUME NEW d, Document(d), NEW lo \in Nat, NEW hi \in Nat, hi + 1 \in DOMAIN d.size,
         NEW overlap \in {0, Overlap}, NEW acc, PackedTo(d, acc, lo, hi)
  PROVE  PackedTo(d, Prompt!PackNext(d, acc, hi + 1, overlap), lo, hi + 1)
<1> DEFINE p == hi + 1
           a == Prompt!PackNext(d, acc, p, overlap)
           c == Append(Prompt!CarriedOver(d, acc.buf, overlap), p)
           b == Append(acc.buf, p)
<1>0. /\ acc \in Accs(d) /\ acc.buf # <<>> /\ EndOf(acc.buf) = hi /\ OwnFits(d, acc.buf)
      /\ p \in DOMAIN d.size /\ acc.buf \in ParaSeqs(d) /\ acc.done \in Seq(ParaSeqs(d))
  BY DEF PackedTo, Accs
<1>1. PICK k \in lo - 1..hi - 1 :
        Cut(d, acc.done, lo, k) /\ \A q \in k + 1..hi : \E i \in 1..Len(acc.buf) : acc.buf[i] = q
  BY DEF PackedTo
<1>p. p \in Nat /\ p = hi + 1
  OBVIOUS
<1> HIDE DEF p
<1>2. /\ a \in Accs(d)
      /\ \/ a.done = acc.done /\ a.buf = b
            /\ ~(Prompt!Weight(d, acc.buf) + Prompt!Size(d, p) > TargetSize)
         \/ a.done = Append(acc.done, acc.buf) /\ a.buf = c
  <2>1. a \in Accs(d) /\ Packed(d, acc, p, overlap, a)
    BY <1>0, PackKinds, Zenon
  <2> HIDE DEF a
  <2> QED BY <1>0, <2>1 DEF Packed
<1>3. CASE a.done = acc.done /\ a.buf = b
           /\ ~(Prompt!Weight(d, acc.buf) + Prompt!Size(d, p) > TargetSize)
  <2>1. OwnFits(d, b)
    BY <1>0, <1>3, BufferFits
  <2>2. /\ b # <<>> /\ Len(b) = Len(acc.buf) + 1 /\ b[Len(acc.buf) + 1] = p
        /\ \A i \in 1..Len(acc.buf) : b[i] = acc.buf[i]
        /\ Len(acc.buf) \in Nat
    BY <1>0, AppendFacts DEF ParaSeqs
  <2> HIDE DEF b, a
  <2>3. EndOf(b) = p
    BY <2>2 DEF EndOf
  <2>4. k \in lo - 1..p - 1 /\ \A q \in k + 1..p : q \in k + 1..hi \/ q = p
    BY <1>1, <1>p
  <2>5. Len(b) \in 1..Len(b) /\ \A i \in 1..Len(acc.buf) : i \in 1..Len(b)
    BY <2>2
  <2>6. ASSUME NEW q \in k + 1..p PROVE \E i \in 1..Len(b) : b[i] = q
    <3>1. CASE q = p
      BY <2>3, <2>5, <3>1 DEF EndOf
    <3>2. CASE q \in k + 1..hi
      <4>1. PICK i \in 1..Len(acc.buf) : acc.buf[i] = q
        BY <1>1, <3>2
      <4> QED BY <2>2, <2>5, <4>1
    <3> QED BY <2>4, <3>1, <3>2
  <2>7. PackedTo(d, a, lo, p)
    <3>1. Cut(d, a.done, lo, k) /\ \A q \in k + 1..p : \E i \in 1..Len(a.buf) : a.buf[i] = q
      BY <1>1, <1>3, <2>6
    <3>2. a.buf # <<>> /\ EndOf(a.buf) = p /\ OwnFits(d, a.buf)
      BY <1>3, <2>1, <2>2, <2>3
    <3> QED BY <1>2, <2>4, <3>1, <3>2 DEF PackedTo
  <2> QED BY <2>7, <1>p DEF a, p
<1>4. CASE a.done = Append(acc.done, acc.buf) /\ a.buf = c
  <2>1. c \in ParaSeqs(d) /\ c # <<>> /\ c[Len(c)] = p /\ OwnFits(d, c)
    BY <1>0, CarriedFits
  <2>2. Cut(d, Append(acc.done, acc.buf), lo, hi)
    <3>1. lo - 1 <= k /\ k < hi /\ k \in Int
      BY <1>1
    <3>2. ChunkFits(d, acc.buf)
      BY <1>0 DEF ChunkFits
    <3> QED BY <1>0, <1>1, <3>1, <3>2, CutAppend
  <2> HIDE DEF c, a
  <2>3. hi \in lo - 1..p - 1 /\ \A q \in hi + 1..p : q = p
    BY <1>1, <1>p
  <2>4. Len(c) \in 1..Len(c)
    BY <2>1 DEF ParaSeqs
  <2>5. \A q \in hi + 1..p : \E i \in 1..Len(c) : c[i] = q
    BY <2>1, <2>3, <2>4
  <2>6. PackedTo(d, a, lo, p)
    <3>1. Cut(d, a.done, lo, hi) /\ \A q \in hi + 1..p : \E i \in 1..Len(a.buf) : a.buf[i] = q
      BY <1>4, <2>2, <2>5
    <3>2. a.buf # <<>> /\ EndOf(a.buf) = p /\ OwnFits(d, a.buf)
      BY <1>4, <2>1 DEF EndOf
    <3> QED BY <1>2, <2>3, <3>1, <3>2 DEF PackedTo
  <2> QED BY <2>6, <1>p DEF a, p
<1> QED BY <1>2, <1>3, <1>4

LEMMA PackEnds ==
  ASSUME NEW d, Document(d), NEW lo \in Nat, NEW hi \in Nat, NEW acc, PackedTo(d, acc, lo, hi)
  PROVE  acc.buf # <<>> /\ Cut(d, Append(acc.done, acc.buf), lo, hi)
<1>0. acc.buf # <<>> /\ EndOf(acc.buf) = hi /\ ChunkFits(d, acc.buf) /\ acc.buf \in ParaSeqs(d)
  BY DEF PackedTo, Accs, ChunkFits
<1>1. PICK k \in lo - 1..hi - 1 :
        Cut(d, acc.done, lo, k) /\ \A q \in k + 1..hi : \E i \in 1..Len(acc.buf) : acc.buf[i] = q
  BY DEF PackedTo
<1>2. lo - 1 <= k /\ k < hi /\ k \in Int
  BY <1>1
<1> QED BY <1>0, <1>1, <1>2, CutAppend

LEMMA PackLoop ==
  ASSUME NEW d, Document(d), NEW ps \in ParaSeqs(d), NEW lo \in Nat, NEW overlap \in {0, Overlap},
         ps # <<>>, \A i \in 1..Len(ps) : ps[i] = lo + i - 1
  PROVE  \E a : /\ PackedTo(d, a, lo, lo + Len(ps) - 1)
                /\ Prompt!Pack(d, ps, overlap) = IF a.buf = <<>> THEN a.done ELSE Append(a.done, a.buf)
<1> DEFINE N == Len(ps)
           G == Accs(d)
           start == Prompt!NothingDone
           Step(a, n) == Prompt!PackNext(d, a, ps[n], overlap)
           Def(f) == f = [n \in 0..N |-> IF n = 0 THEN start ELSE Prompt!PackNext(d, f[n - 1], ps[n], overlap)]
           next == [x \in G \X (1..N) |-> Step(x[1], x[2])]
           I == [n \in 0..N |-> IF n = 0 THEN {start} ELSE {a \in G : PackedTo(d, a, lo, lo + n - 1)}]
           acc == CHOOSE f : Def(f)
<1>1. N \in Nat /\ N # 0 /\ start \in G /\ \A n \in 1..N : ps[n] \in DOMAIN d.size
  BY StartFacts DEF ParaSeqs
<1>2. Prompt!Pack(d, ps, overlap) = IF acc[N].buf = <<>> THEN acc[N].done ELSE Append(acc[N].done, acc[N].buf)
  BY DEF Prompt!Pack
<1>3. \A a \in G, n \in 1..N : Step(a, n) \in G
  BY <1>1, PackKinds
<1>p. \A n \in 1..N : ps[n] = lo + n - 1
  OBVIOUS
<1>I. I[0] = {start} /\ \A n \in 1..N : I[n] = {a \in G : PackedTo(d, a, lo, lo + n - 1)}
  BY <1>1
<1>d. I = [n \in 0..N |-> I[n]]
  OBVIOUS
<1> HIDE DEF I, N
<1>g. I \in [0..N -> SUBSET G] /\ start \in I[0]
  <2>1. \A n \in 0..N : n = 0 \/ n \in 1..N
    BY <1>1
  <2> HIDE DEF G, start
  <2>2. \A n \in 0..N : I[n] \in SUBSET G
    BY <1>1, <1>I, <2>1
  <2> QED BY <1>d, <1>I, <2>2
<1>i. ASSUME NEW n \in 1..N, NEW a \in I[n - 1] PROVE Step(a, n) \in I[n]
  <2>1. CASE n = 1
    <3>1. a = start /\ ps[n] = lo /\ lo + n - 1 = lo
      BY <1>I, <1>p, <2>1
    <3>2. PackedTo(d, Step(a, n), lo, lo)
      BY <1>1, <3>1, PackStarts, Zenon
    <3>3. Step(a, n) \in G
      BY <1>1, <1>3, <3>1
    <3> HIDE DEF G, Step
    <3> QED BY <1>I, <3>1, <3>2, <3>3
  <2>2. CASE n # 1
    <3> DEFINE hi == lo + (n - 1) - 1
    <3>1. n - 1 \in 1..N /\ hi \in Nat /\ lo + n - 1 = hi + 1 /\ ps[n] = hi + 1
      BY <1>p, <1>1, <2>2
    <3>2. a \in G /\ PackedTo(d, a, lo, hi)
      BY <1>I, <3>1
    <3> HIDE DEF hi
    <3>3. PackedTo(d, Step(a, n), lo, hi + 1)
      BY <1>1, <3>1, <3>2, PackSteps, Zenon
    <3>4. Step(a, n) \in G
      BY <1>3, <3>2
    <3> HIDE DEF G, Step
    <3> QED BY <1>I, <3>1, <3>3, <3>4
  <2> QED BY <2>1, <2>2
<1> HIDE DEF G, start
<1>4. /\ next \in [G \X (1..N) -> G]
      /\ \A a \in G, n \in 1..N : next[<<a, n>>] = Step(a, n)
  <2> HIDE DEF Step
  <2> QED BY <1>3
<1> HIDE DEF next
<1>5. PICK f : f \in Runs(G, start, next, N)
  BY <1>1, <1>4, RunsExist, Zenon
<1>6. f \in [0..N -> G] /\ f[0] = start /\ \A m \in 1..N : f[m] = Step(f[m - 1], m)
  <2>1. f \in [0..N -> G] /\ f[0] = start /\ \A m \in 1..N : f[m] = next[<<f[m - 1], m>>]
    BY <1>5 DEF Runs
  <2>2. \A m \in 1..N : f[m - 1] \in G
    BY <1>1, <2>1
  <2> HIDE DEF Step
  <2> QED BY <1>4, <2>1, <2>2, Zenon
<1>7. Def(f)
  <2>1. ASSUME NEW n \in 0..N
        PROVE  f[n] = IF n = 0 THEN start ELSE Prompt!PackNext(d, f[n - 1], ps[n], overlap)
    <3>1. n = 0 \/ n \in 1..N
      BY <1>1
    <3> QED BY <1>6, <3>1, Zenon
  <2>2. f = [n \in 0..N |-> f[n]]
    BY <1>6
  <2> QED BY <2>1, <2>2
<1>8. Def(acc)
  BY <1>7, Zenon
<1> HIDE DEF acc
<1>9. acc[0] = start /\ (\A m \in 1..N : acc[m] = Step(acc[m - 1], m)) /\ acc = [n \in 0..N |-> acc[n]]
  <2>0. \A n \in 0..N : acc[n] = IF n = 0 THEN start ELSE Prompt!PackNext(d, acc[n - 1], ps[n], overlap)
    BY <1>8
  <2>e. 0 \in 0..N /\ \A m \in 1..N : m \in 0..N /\ m # 0
    BY <1>1
  <2>1. acc[0] = start /\ \A m \in 1..N : acc[m] = Step(acc[m - 1], m)
    BY <2>0, <2>e, Zenon
  <2>2. acc = [n \in 0..N |-> acc[n]]
    BY <1>8
  <2> QED BY <2>1, <2>2
<1> HIDE DEF Step
<1>10. \A m \in 1..N : acc[m - 1] \in G => acc[m] = next[<<acc[m - 1], m>>]
  BY <1>4, <1>9, Zenon
<1>11. acc \in Runs(G, start, next, N)
  BY <1>1, <1>4, <1>9, <1>10, RunsOnly, Zenon
<1>12. \A m \in 1..N : \A a \in I[m - 1] : next[<<a, m>>] \in I[m]
  <2>1. \A m \in 1..N : \A a \in I[m - 1] : a \in G
    <3>1. \A m \in 1..N : m - 1 \in 0..N
      BY <1>1
    <3> QED BY <1>g, <3>1
  <2> QED BY <1>i, <1>4, <2>1, Zenon
<1>13. \A n \in 0..N : acc[n] \in I[n]
  BY <1>1, <1>4, <1>11, <1>12, <1>g, RunsKeep, Zenon
<1>14. acc[N] \in I[N] /\ N \in 1..N
  BY <1>1, <1>13
<1>15. PackedTo(d, acc[N], lo, lo + N - 1)
  BY <1>I, <1>14
<1> QED BY <1>2, <1>15 DEF N

LEMMA PackCuts ==
  ASSUME NEW d, Document(d), NEW ps \in ParaSeqs(d), NEW lo \in Nat, NEW hi \in Nat,
         NEW overlap \in {0, Overlap}, ps # <<>>, Len(ps) = hi - lo + 1,
         \A i \in 1..Len(ps) : ps[i] = lo + i - 1
  PROVE  Cut(d, Prompt!Pack(d, ps, overlap), lo, hi)
<1>1. PICK a : /\ PackedTo(d, a, lo, lo + Len(ps) - 1)
               /\ Prompt!Pack(d, ps, overlap) = IF a.buf = <<>> THEN a.done ELSE Append(a.done, a.buf)
  BY PackLoop
<1>2. lo + Len(ps) - 1 = hi
  OBVIOUS
<1>3. a.buf # <<>> /\ Cut(d, Append(a.done, a.buf), lo, hi)
  BY <1>1, <1>2, PackEnds
<1> QED BY <1>1, <1>3

-----------------------------------------------------------------------------
(* Prose and Markdown.                                                       *)

LEMMA DocumentFacts ==
  ASSUME NEW d, Document(d)
  PROVE  /\ Len(d.size) \in Nat /\ Len(d.size) # 0 /\ DOMAIN d.size = 1..Len(d.size)
         /\ 1 \in 1..Len(d.size) /\ 1 \in d.starts
BY DEF Document

LEMMA ProseCuts ==
  ASSUME NEW d, Document(d) PROVE Cut(d, Prompt!Prose(d), 1, Len(d.size))
<1> DEFINE N == Len(d.size)
           ps == Prompt!Paragraphs(d)
<1>1. N \in Nat /\ N # 0 /\ DOMAIN d.size = 1..N
  BY DocumentFacts
<1>2. ps = [p \in 1..N |-> p]
  BY <1>1 DEF Prompt!Paragraphs
<1> HIDE DEF N
<1>3. ps \in Seq(1..N) /\ Len(ps) = N /\ ps # <<>> /\ \A i \in 1..N : ps[i] = i
  BY <1>1, <1>2
<1> HIDE DEF ps
<1>4. ps \in ParaSeqs(d)
  BY <1>1, <1>3 DEF ParaSeqs
<1>5. Len(ps) = N - 1 + 1 /\ \A i \in 1..Len(ps) : ps[i] = 1 + i - 1
  BY <1>1, <1>3
<1>6. 1 \in Nat /\ Overlap \in {0, Overlap}
  OBVIOUS
<1>7. Cut(d, Prompt!Pack(d, ps, Overlap), 1, N)
  BY <1>1, <1>3, <1>4, <1>5, <1>6, PackCuts
<1> QED BY <1>7 DEF Prompt!Prose, ps, N

\* The paragraphs from a heading on, up to the next one at most.
Section(d, ps, lo, hi) ==
  /\ ps \in ParaSeqs(d) /\ ps # <<>> /\ Len(ps) = hi - lo + 1 /\ lo \in d.starts
  /\ \A i \in 1..Len(ps) : ps[i] = lo + i - 1 /\ (i > 1 => ps[i] \notin d.starts)

LEMMA SectionFacts ==
  ASSUME NEW d, NEW lo \in Nat, NEW hi \in Nat, NEW ps, Section(d, ps, lo, hi)
  PROVE  /\ Head(ps) = lo /\ Prompt!Last(ps) = hi /\ EndOf(ps) = hi /\ lo <= hi
         /\ \A p \in lo..hi : \E k \in 1..Len(ps) : ps[k] = p
<1>1. /\ ps \in Seq(DOMAIN d.size) /\ ps # <<>> /\ Len(ps) = hi - lo + 1
      /\ \A i \in 1..Len(ps) : ps[i] = lo + i - 1
  BY DEF Section, ParaSeqs
<1>2. Len(ps) \in Nat /\ Len(ps) # 0
  BY <1>1
<1>3. ps[1] = lo /\ ps[Len(ps)] = hi /\ lo <= hi
  BY <1>1, <1>2
<1>4. Head(ps) = ps[1] /\ Prompt!Last(ps) = ps[Len(ps)] /\ EndOf(ps) = ps[Len(ps)]
  BY <1>1, <1>2 DEF Prompt!Last, EndOf
<1>5. ASSUME NEW p \in lo..hi PROVE \E k \in 1..Len(ps) : ps[k] = p
  <2>1. p - lo + 1 \in 1..Len(ps) /\ lo + (p - lo + 1) - 1 = p
    BY <1>1
  <2> QED BY <1>1, <2>1
<1> QED BY <1>3, <1>4, <1>5

LEMMA SplitCuts ==
  ASSUME NEW d, Document(d), NEW lo \in Nat, NEW hi \in Nat, NEW ps, Section(d, ps, lo, hi),
         hi + 1 \in d.starts \cup {Len(d.size) + 1}
  PROVE  Cut(d, Prompt!Split(d, ps), lo, hi)
<1>1. /\ ps \in ParaSeqs(d) /\ ps # <<>> /\ Len(ps) = hi - lo + 1 /\ lo \in d.starts
      /\ \A i \in 1..Len(ps) : ps[i] = lo + i - 1 /\ (i > 1 => ps[i] \notin d.starts)
  BY DEF Section
<1>2. /\ Head(ps) = lo /\ Prompt!Last(ps) = hi /\ EndOf(ps) = hi /\ lo <= hi
      /\ \A p \in lo..hi : \E k \in 1..Len(ps) : ps[k] = p
  BY SectionFacts
<1>3. CASE 2 * Prompt!Weight(d, ps) > 3 * TargetSize
  <2>1. Prompt!Split(d, ps) = Prompt!Pack(d, ps, 0)
    BY <1>3 DEF Prompt!Split
  <2>2. 0 \in {0, Overlap}
    OBVIOUS
  <2>3. Cut(d, Prompt!Pack(d, ps, 0), lo, hi)
    BY <1>1, <2>2, PackCuts
  <2> QED BY <2>1, <2>3
<1>4. CASE ~(2 * Prompt!Weight(d, ps) > 3 * TargetSize)
  <2>1. Prompt!Split(d, ps) = <<ps>>
    BY <1>4 DEF Prompt!Split
  <2>2. 2 * Prompt!Weight(d, ps) <= 3 * TargetSize
    BY <1>1, <1>4, WeightNat, PromptNumbers
  <2>3. DOMAIN ps = 1..Len(ps)
    BY <1>1 DEF ParaSeqs
  <2>4. Prompt!WholeSection(d, ps)
    BY <1>1, <1>2, <2>3 DEF Prompt!WholeSection
  <2>5. ChunkFits(d, ps)
    BY <2>2, <2>4 DEF ChunkFits
  <2>6. Cut(d, <<ps>>, lo, hi)
    BY <1>1, <1>2, <2>5, CutOne
  <2> QED BY <2>1, <2>6
<1> QED BY <1>3, <1>4

\* The paragraphs up to n are in chunks that are done, or in the section that is read.
ReadTo(d, acc, n) ==
  /\ acc \in Accs(d) /\ acc.buf # <<>>
  /\ \E k \in 0..n - 1 : Cut(d, acc.done, 1, k) /\ Section(d, acc.buf, k + 1, n)

\* A heading closes the section, any other paragraph joins it.
Read(d, acc, p, a) ==
  /\ a = [done |-> a.done, buf |-> a.buf]
  /\ \/ /\ a.done = acc.done /\ a.buf = Append(acc.buf, p)
        /\ p \notin d.starts \/ acc.buf = <<>>
     \/ /\ p \in d.starts /\ acc.buf # <<>>
        /\ a.done = acc.done \o Prompt!Split(d, acc.buf) /\ a.buf = <<p>>

LEMMA ReadKinds == ASSUME NEW d, NEW acc, NEW p PROVE Read(d, acc, p, Prompt!SectionNext(d, acc, p))
<1> DEFINE a == Prompt!SectionNext(d, acc, p)
<1>1. CASE p \in d.starts /\ acc.buf # <<>>
  <2>1. a = [done |-> acc.done \o Prompt!Split(d, acc.buf), buf |-> <<p>>]
    BY <1>1 DEF Prompt!SectionNext
  <2> HIDE DEF a
  <2>2. /\ a.done = acc.done \o Prompt!Split(d, acc.buf) /\ a.buf = <<p>>
        /\ a = [done |-> a.done, buf |-> a.buf]
    BY <2>1
  <2> QED BY <1>1, <2>2 DEF Read, a
<1>2. CASE ~(p \in d.starts /\ acc.buf # <<>>)
  <2>1. a = [done |-> acc.done, buf |-> Append(acc.buf, p)]
    BY <1>2 DEF Prompt!SectionNext, Prompt!Buffered
  <2> HIDE DEF a
  <2>2. /\ a.done = acc.done /\ a.buf = Append(acc.buf, p)
        /\ a = [done |-> a.done, buf |-> a.buf]
    BY <2>1
  <2> QED BY <1>2, <2>2 DEF Read, a
<1> QED BY <1>1, <1>2

LEMMA SectionOfOne ==
  ASSUME NEW d, NEW p \in Nat, p \in DOMAIN d.size, p \in d.starts PROVE Section(d, <<p>>, p, p)
<1> DEFINE ps == <<p>>
<1>1. ps \in Seq(DOMAIN d.size) /\ ps # <<>> /\ Len(ps) = 1 /\ ps[1] = p
  <2> DEFINE T == DOMAIN d.size
  <2>1. p \in T
    OBVIOUS
  <2> HIDE DEF T
  <2>2. ps \in Seq(T) /\ ps # <<>> /\ Len(ps) = 1 /\ ps[1] = p
    BY <2>1
  <2> QED BY <2>2 DEF T
<1> HIDE DEF ps
<1>2. \A i \in 1..Len(ps) : i = 1
  BY <1>1
<1>3. Len(ps) = p - p + 1 /\ p = p + 1 - 1
  BY <1>1
<1>4. Section(d, ps, p, p)
  BY <1>1, <1>2, <1>3 DEF Section, ParaSeqs
<1> QED BY <1>4 DEF ps

LEMMA SectionGrows ==
  ASSUME NEW d, NEW lo \in Nat, NEW hi \in Nat, NEW ps, Section(d, ps, lo, hi),
         hi + 1 \in DOMAIN d.size, hi + 1 \notin d.starts
  PROVE  Section(d, Append(ps, hi + 1), lo, hi + 1)
<1> DEFINE p == hi + 1
           b == Append(ps, p)
<1>1. /\ ps \in Seq(DOMAIN d.size) /\ ps # <<>> /\ Len(ps) = hi - lo + 1 /\ lo \in d.starts
      /\ \A i \in 1..Len(ps) : ps[i] = lo + i - 1 /\ (i > 1 => ps[i] \notin d.starts)
  BY DEF Section, ParaSeqs
<1> HIDE DEF p
<1>2. /\ b \in Seq(DOMAIN d.size) /\ b # <<>> /\ Len(b) = Len(ps) + 1 /\ b[Len(ps) + 1] = p
      /\ Len(ps) \in Nat /\ \A i \in 1..Len(ps) : b[i] = ps[i]
  <2> DEFINE T == DOMAIN d.size
  <2>1. p \in T /\ ps \in Seq(T)
    BY <1>1 DEF p
  <2> HIDE DEF T
  <2>2. /\ b \in Seq(T) /\ b # <<>> /\ Len(b) = Len(ps) + 1 /\ b[Len(ps) + 1] = p
        /\ Len(ps) \in Nat /\ \A i \in 1..Len(ps) : b[i] = ps[i]
    BY <2>1, AppendFacts
  <2> QED BY <2>2 DEF T
<1> HIDE DEF b
<1>3. p = hi + 1 /\ p \notin d.starts
  BY DEF p
<1>4. ASSUME NEW i \in 1..Len(b) PROVE b[i] = lo + i - 1 /\ (i > 1 => b[i] \notin d.starts)
  <2>1. CASE i = Len(ps) + 1
    <3>1. lo + (Len(ps) + 1) - 1 = p
      BY <1>1, <1>3
    <3> QED BY <1>2, <1>3, <2>1, <3>1
  <2>2. CASE i # Len(ps) + 1
    <3>1. i \in 1..Len(ps)
      BY <1>2, <2>2
    <3> QED BY <1>1, <1>2, <3>1
  <2> QED BY <2>1, <2>2
<1>5. Len(b) = p - lo + 1
  BY <1>1, <1>2, <1>3
<1>6. Section(d, b, lo, p)
  BY <1>1, <1>2, <1>4, <1>5 DEF Section, ParaSeqs
<1> QED BY <1>6 DEF b, p

LEMMA ReadStarts ==
  ASSUME NEW d, Document(d) PROVE ReadTo(d, Prompt!SectionNext(d, Prompt!NothingDone, 1), 1)
<1> DEFINE a == Prompt!SectionNext(d, Prompt!NothingDone, 1)
<1>1. a.done = <<>> /\ a.buf = Append(<<>>, 1) /\ a = [done |-> a.done, buf |-> a.buf]
  BY DEF Prompt!SectionNext, Prompt!Buffered, Prompt!NothingDone
<1> HIDE DEF a
<1>2. Append(<<>>, 1) = <<1>>
  OBVIOUS
<1>3. Section(d, <<1>>, 1, 1)
  BY DocumentFacts, SectionOfOne
<1>4. Cut(d, <<>>, 1, 0)
  <2>1. Cut(d, <<>>, 1, 1 - 1)
    BY CutNone
  <2> QED BY <2>1
<1>5. a.buf \in ParaSeqs(d) /\ a.buf # <<>> /\ a.done \in Seq(ParaSeqs(d))
  BY <1>1, <1>2, <1>3 DEF Section
<1>6. a \in Accs(d)
  BY <1>1, <1>5 DEF Accs
<1>7. 0 \in 0..1 - 1 /\ 0 + 1 = 1
  OBVIOUS
<1> QED BY <1>1, <1>2, <1>3, <1>4, <1>5, <1>6, <1>7 DEF ReadTo, a

LEMMA ReadSteps ==
  ASSUME NEW d, Document(d), NEW n \in Nat, n + 1 \in DOMAIN d.size, NEW acc, ReadTo(d, acc, n)
  PROVE  ReadTo(d, Prompt!SectionNext(d, acc, n + 1), n + 1)
<1> DEFINE p == n + 1
           a == Prompt!SectionNext(d, acc, p)
<1>0. acc \in Accs(d) /\ acc.buf # <<>> /\ Read(d, acc, p, a) /\ p \in DOMAIN d.size
  BY ReadKinds DEF ReadTo
<1>1. PICK k \in 0..n - 1 : Cut(d, acc.done, 1, k) /\ Section(d, acc.buf, k + 1, n)
  BY DEF ReadTo
<1>p. p \in Nat /\ p = n + 1 /\ k \in Nat /\ k + 1 \in Nat
  BY <1>1
<1> HIDE DEF p
<1> HIDE DEF a
<1>a. a = [done |-> a.done, buf |-> a.buf]
  BY <1>0 DEF Read
<1>d. acc.done \in Seq(ParaSeqs(d))
  BY <1>0 DEF Accs
<1>2. CASE a.done = acc.done /\ a.buf = Append(acc.buf, p) /\ p \notin d.starts
  <2>1. Section(d, a.buf, k + 1, p)
    BY <1>0, <1>1, <1>2, <1>p, SectionGrows
  <2>2. a.buf \in ParaSeqs(d) /\ a.buf # <<>>
    BY <2>1 DEF Section
  <2>3. a \in Accs(d)
    BY <1>2, <1>a, <1>d, <2>2 DEF Accs
  <2>4. k \in 0..p - 1
    BY <1>p
  <2> QED BY <1>1, <1>2, <2>1, <2>2, <2>3, <2>4, <1>p DEF ReadTo, a, p
<1>3. CASE p \in d.starts /\ a.done = acc.done \o Prompt!Split(d, acc.buf) /\ a.buf = <<p>>
  <2>1. n + 1 \in d.starts
    BY <1>3, <1>p
  <2>2. Cut(d, Prompt!Split(d, acc.buf), k + 1, n)
    BY <1>1, <1>p, <2>1, SplitCuts
  <2>3. Cut(d, a.done, 1, n)
    <3>1. 1 - 1 <= k /\ k <= n /\ k \in Int
      BY <1>1
    <3> QED BY <1>1, <1>3, <2>2, <3>1, CutJoin
  <2>4. Section(d, a.buf, p, p)
    BY <1>0, <1>3, <1>p, SectionOfOne
  <2>5. a.buf \in ParaSeqs(d) /\ a.buf # <<>> /\ a.done \in Seq(ParaSeqs(d))
    BY <2>3, <2>4 DEF Section, Cut
  <2>6. a \in Accs(d)
    BY <1>a, <2>5 DEF Accs
  <2>7. n \in 0..p - 1
    BY <1>p
  <2>8. Section(d, a.buf, n + 1, p)
    BY <2>4, <1>p
  <2> QED BY <2>3, <2>5, <2>6, <2>7, <2>8, <1>p DEF ReadTo, a, p
<1> QED BY <1>0, <1>2, <1>3 DEF Read

LEMMA ReadEnds ==
  ASSUME NEW d, Document(d), NEW acc, ReadTo(d, acc, Len(d.size))
  PROVE  acc.buf # <<>> /\ Cut(d, acc.done \o Prompt!Split(d, acc.buf), 1, Len(d.size))
<1> DEFINE N == Len(d.size)
<1>1. N \in Nat
  BY DocumentFacts
<1>2. N + 1 \in d.starts \cup {N + 1}
  OBVIOUS
<1>3. PICK k \in 0..N - 1 : Cut(d, acc.done, 1, k) /\ Section(d, acc.buf, k + 1, N)
  BY DEF ReadTo
<1> HIDE DEF N
<1>4. k + 1 \in Nat /\ 1 - 1 <= k /\ k <= N /\ k \in Int
  BY <1>1, <1>3
<1>5. Cut(d, Prompt!Split(d, acc.buf), k + 1, N)
  BY <1>1, <1>2, <1>3, <1>4, SplitCuts DEF N
<1>6. Cut(d, acc.done \o Prompt!Split(d, acc.buf), 1, N)
  BY <1>1, <1>3, <1>4, <1>5, CutJoin
<1> QED BY <1>6 DEF ReadTo, N

LEMMA MarkdownCuts ==
  ASSUME NEW d, Document(d) PROVE Cut(d, Prompt!Markdown(d), 1, Len(d.size))
<1> DEFINE N == Len(d.size)
           G == Accs(d)
           start == Prompt!NothingDone
           Step(a, n) == Prompt!SectionNext(d, a, n)
           Def(f) == f = [n \in 0..N |-> IF n = 0 THEN start ELSE Prompt!SectionNext(d, f[n - 1], n)]
           next == [x \in G \X (1..N) |-> IF Step(x[1], x[2]) \in G THEN Step(x[1], x[2]) ELSE start]
           I == [n \in 0..N |-> IF n = 0 THEN {start} ELSE {a \in G : ReadTo(d, a, n)}]
           acc == CHOOSE f : Def(f)
<1>1. N \in Nat /\ N # 0 /\ start \in G /\ DOMAIN d.size = 1..N
  BY StartFacts, DocumentFacts
<1>2. Prompt!Markdown(d) = IF acc[N].buf = <<>> THEN acc[N].done ELSE acc[N].done \o Prompt!Split(d, acc[N].buf)
  BY DEF Prompt!Markdown
<1>I. I[0] = {start} /\ \A n \in 1..N : I[n] = {a \in G : ReadTo(d, a, n)}
  BY <1>1
<1>d. I = [n \in 0..N |-> I[n]]
  OBVIOUS
<1> HIDE DEF I, N
<1>g. I \in [0..N -> SUBSET G] /\ start \in I[0]
  <2>1. \A n \in 0..N : n = 0 \/ n \in 1..N
    BY <1>1
  <2> HIDE DEF G, start
  <2>2. \A n \in 0..N : I[n] \in SUBSET G
    BY <1>1, <1>I, <2>1
  <2> QED BY <1>d, <1>I, <2>2
<1>i. ASSUME NEW n \in 1..N, NEW a \in I[n - 1] PROVE Step(a, n) \in I[n]
  <2>1. CASE n = 1
    <3>1. a = start
      BY <1>I, <2>1
    <3>2. ReadTo(d, Step(a, n), n)
      BY <2>1, <3>1, ReadStarts, Zenon
    <3>3. Step(a, n) \in G
      BY <3>2 DEF ReadTo
    <3> HIDE DEF G, Step
    <3> QED BY <1>I, <3>2, <3>3
  <2>2. CASE n # 1
    <3> DEFINE m == n - 1
    <3>1. m \in 1..N /\ m \in Nat /\ m + 1 \in 1..N /\ m + 1 = n
      BY <1>1, <2>2
    <3>2. ReadTo(d, a, m)
      BY <1>I, <3>1
    <3> HIDE DEF m
    <3>3. ReadTo(d, Step(a, n), n)
      BY <1>1, <3>1, <3>2, ReadSteps
    <3>4. Step(a, n) \in G
      BY <3>3 DEF ReadTo
    <3> HIDE DEF G, Step
    <3> QED BY <1>I, <3>3, <3>4
  <2> QED BY <2>1, <2>2
<1>G. \A n \in 0..N : I[n] \subseteq G
  BY <1>g
<1> HIDE DEF G, start
<1>4. /\ next \in [G \X (1..N) -> G]
      /\ \A m \in 1..N : \A a \in I[m - 1] : next[<<a, m>>] = Step(a, m)
  <2> HIDE DEF Step
  <2>1. next \in [G \X (1..N) -> G]
    BY <1>1
  <2>2. \A a \in G, m \in 1..N : Step(a, m) \in G => next[<<a, m>>] = Step(a, m)
    OBVIOUS
  <2>3. \A m \in 1..N : m \in 0..N /\ m - 1 \in 0..N
    BY <1>1
  <2> HIDE DEF next
  <2>4. ASSUME NEW m \in 1..N, NEW a \in I[m - 1] PROVE a \in G /\ Step(a, m) \in G
    BY <1>i, <1>G, <2>3, <2>4
  <2> QED BY <2>1, <2>2, <2>4
<1> HIDE DEF next
<1>5. PICK f : f \in Runs(G, start, next, N)
  BY <1>1, <1>4, RunsExist, Zenon
<1>12. \A m \in 1..N : \A a \in I[m - 1] : next[<<a, m>>] \in I[m]
  BY <1>i, <1>4, Zenon
<1>13. \A n \in 0..N : f[n] \in I[n]
  BY <1>1, <1>4, <1>5, <1>12, <1>g, RunsKeep, Zenon
<1>6. f \in [0..N -> G] /\ f[0] = start /\ \A m \in 1..N : f[m] = Step(f[m - 1], m)
  <2>1. f \in [0..N -> G] /\ f[0] = start /\ \A m \in 1..N : f[m] = next[<<f[m - 1], m>>]
    BY <1>5 DEF Runs
  <2>2. \A m \in 1..N : f[m - 1] \in I[m - 1]
    <3>1. \A m \in 1..N : m - 1 \in 0..N
      BY <1>1
    <3> QED BY <1>13, <3>1
  <2> HIDE DEF Step
  <2> QED BY <1>4, <2>1, <2>2, Zenon
<1>7. Def(f)
  <2>1. ASSUME NEW n \in 0..N
        PROVE  f[n] = IF n = 0 THEN start ELSE Prompt!SectionNext(d, f[n - 1], n)
    <3>1. n = 0 \/ n \in 1..N
      BY <1>1
    <3> QED BY <1>6, <3>1, Zenon
  <2>2. f = [n \in 0..N |-> f[n]]
    BY <1>6
  <2> QED BY <2>1, <2>2
<1>8. Def(acc)
  BY <1>7, Zenon
<1> HIDE DEF acc
<1>9. acc[0] = start /\ \A m \in 1..N : acc[m] = Step(acc[m - 1], m)
  <2>0. \A n \in 0..N : acc[n] = IF n = 0 THEN start ELSE Prompt!SectionNext(d, acc[n - 1], n)
    BY <1>8
  <2>e. 0 \in 0..N /\ \A m \in 1..N : m \in 0..N /\ m # 0
    BY <1>1
  <2> QED BY <2>0, <2>e, Zenon
<1> HIDE DEF Step
<1> DEFINE P == {n \in Nat : n <= N => acc[n] \in I[n]}
<1>14. 0 \in P
  BY <1>9, <1>g
<1>15. ASSUME NEW n \in Nat, n \in P PROVE n + 1 \in P
  <2>1. CASE n + 1 <= N
    <3>1. n + 1 \in 1..N /\ (n + 1) - 1 = n /\ acc[n] \in I[n]
      BY <1>1, <1>15, <2>1
    <3>2. acc[n + 1] = Step(acc[n], n + 1)
      BY <1>9, <3>1
    <3>3. Step(acc[n], n + 1) \in I[n + 1]
      BY <1>i, <3>1
    <3> QED BY <3>2, <3>3
  <2> QED BY <2>1
<1> HIDE DEF P
<1>16. Nat \subseteq P
  BY <1>14, <1>15, SetInduction
<1>17. acc[N] \in I[N] /\ N \in 1..N
  BY <1>1, <1>16 DEF P
<1>18. ReadTo(d, acc[N], N)
  BY <1>I, <1>17
<1>19. acc[N].buf # <<>> /\ Cut(d, acc[N].done \o Prompt!Split(d, acc[N].buf), 1, N)
  BY <1>18, ReadEnds DEF N
<1> QED BY <1>2, <1>19 DEF N

\* What the chunks of a document owe it.
Sound(d, cs) ==
  /\ \A i \in DOMAIN cs : cs[i] # <<>> /\ ChunkFits(d, cs[i])
  /\ \A p \in DOMAIN d.size :
       Prompt!Size(d, p) >= Minimum => \E i \in DOMAIN cs : p \in Prompt!ToSet(cs[i])
  /\ \A i \in DOMAIN cs \ {1} : Prompt!Last(cs[i - 1]) < Prompt!Last(cs[i])

\* Only chunks that are too small for all of their paragraphs are left out.
LEMMA LargeEnoughIsSound ==
  ASSUME NEW d, Document(d), NEW raw, Cut(d, raw, 1, Len(d.size))
  PROVE  Sound(d, Prompt!LargeEnough(d, raw))
<1> DEFINE T == ParaSeqs(d)
           places == {i \in DOMAIN raw : Prompt!Weight(d, raw[i]) >= Minimum \/ Len(raw) = 1}
           cs == Prompt!LargeEnough(d, raw)
           N == Len(d.size)
           M == Len(raw)
           L == Len(cs)
<1>1. /\ raw \in Seq(T) /\ \A i \in 1..M : raw[i] # <<>> /\ ChunkFits(d, raw[i])
      /\ \A i, j \in 1..M : i < j => EndOf(raw[i]) < EndOf(raw[j])
      /\ \A p \in 1..N : \E i \in 1..M : \E k \in 1..Len(raw[i]) : raw[i][k] = p
  BY DEF Cut
<1>2. cs = Prompt!Selected(raw, places)
  BY DEF Prompt!LargeEnough
<1>3. places \in SUBSET (DOMAIN raw) /\ M \in Nat /\ DOMAIN raw = 1..M
  BY <1>1
<1>p. \A i \in 1..M : Prompt!Weight(d, raw[i]) >= Minimum => i \in places
  BY <1>3
<1>t. \A i \in 1..M : raw[i] \in T
  BY <1>1
<1> HIDE DEF places, cs, T, M
<1>4. cs \in Seq(T) /\ \E g : Picks(raw, places, cs, g)
  BY <1>1, <1>2, <1>3, SelectedPicks, Zenon
<1>5. PICK g : Picks(raw, places, cs, g)
  BY <1>4
<1>l. L \in Nat /\ DOMAIN cs = 1..L
  BY <1>4
<1> HIDE DEF L
<1>6. /\ g \in [1..L -> places] /\ \A i \in 1..L : cs[i] = raw[g[i]] /\ g[i] \in 1..M
      /\ \A i, j \in 1..L : i < j => g[i] < g[j]
      /\ \A k \in places : \E i \in 1..L : g[i] = k
  <2>1. /\ g \in [1..L -> places] /\ \A i \in 1..L : cs[i] = raw[g[i]]
        /\ \A i, j \in 1..L : i < j => g[i] < g[j]
        /\ \A k \in places : \E i \in 1..L : g[i] = k
    BY <1>5 DEF Picks, L
  <2>2. \A i \in 1..L : g[i] \in 1..M
    BY <1>3, <2>1
  <2> QED BY <2>1, <2>2
<1>7. \A i \in DOMAIN cs : cs[i] # <<>> /\ ChunkFits(d, cs[i])
  BY <1>1, <1>6, <1>l
<1>8. ASSUME NEW p \in DOMAIN d.size, Prompt!Size(d, p) >= Minimum
      PROVE  \E i \in DOMAIN cs : p \in Prompt!ToSet(cs[i])
  <2>1. PICK i \in 1..M : \E k \in 1..Len(raw[i]) : raw[i][k] = p
    BY <1>1, DocumentFacts
  <2>2. PICK k \in 1..Len(raw[i]) : raw[i][k] = p
    BY <2>1
  <2> DEFINE c == raw[i]
  <2>3. c \in ParaSeqs(d) /\ k \in DOMAIN c
    <3>1. c \in ParaSeqs(d)
      BY <1>t DEF T
    <3> QED BY <3>1, <2>2 DEF ParaSeqs
  <2>4. Prompt!Weight(d, c) \in Nat /\ Prompt!Size(d, c[k]) \in Nat
        /\ Prompt!Size(d, c[k]) <= Prompt!Weight(d, c)
    BY <2>3, WeightNat
  <2>5. Prompt!Weight(d, c) >= Minimum
    BY <1>8, <2>2, <2>4, PromptNumbers
  <2>6. PICK j \in 1..L : g[j] = i
    BY <1>6, <1>p, <2>5
  <2>7. p \in Prompt!ToSet(cs[j])
    BY <1>6, <2>2, <2>3, <2>6 DEF Prompt!ToSet
  <2> QED BY <1>l, <2>6, <2>7
<1>9. ASSUME NEW i \in DOMAIN cs \ {1} PROVE Prompt!Last(cs[i - 1]) < Prompt!Last(cs[i])
  <2>1. i \in 1..L /\ i - 1 \in 1..L /\ i - 1 < i
    BY <1>l
  <2>2. EndOf(cs[i - 1]) < EndOf(cs[i])
    BY <1>1, <1>6, <2>1
  <2> QED BY <2>2 DEF Prompt!Last, EndOf
<1> QED BY <1>7, <1>8, <1>9 DEF Sound, cs

-----------------------------------------------------------------------------
(* Items.                                                                    *)

Item == [key : ItemKeys, size : ItemSizes]

LEMMA SumAppend ==
  ASSUME NEW s \in Seq(Item), NEW x \in Item
  PROVE  /\ Prompt!Sum(s) \in Nat /\ Prompt!Sum(Append(s, x)) = Prompt!Sum(s) + x.size
<1> DEFINE f == [i \in DOMAIN s |-> s[i].size]
           u == Append(s, x)
           h == [i \in DOMAIN u |-> u[i].size]
           N == Len(s)
<1>0. ItemSizes \subseteq Nat
  BY PromptNumbers
<1>1. /\ u \in Seq(Item) /\ DOMAIN u = 1..N + 1 /\ u[N + 1] = x /\ \A i \in 1..N : u[i] = s[i]
      /\ N \in Nat /\ DOMAIN s = 1..N
  BY AppendFacts
<1>2. x.size \in Nat /\ \A i \in 1..N : s[i].size \in Nat
  <2>1. \A y \in Item : y.size \in Nat
    BY <1>0 DEF Item
  <2>2. \A i \in 1..N : s[i] \in Item
    BY <1>1
  <2> QED BY <2>1, <2>2
<1>s. Prompt!Sum(s) = Prompt!Total(f) /\ Prompt!Sum(u) = Prompt!Total(h)
  BY DEF Prompt!Sum
<1> HIDE DEF u, N
<1>3. f \in Seq(Nat) /\ Len(f) = N /\ DOMAIN f = 1..N /\ f = [i \in 1..N |-> f[i]]
      /\ \A i \in 1..N : f[i] = s[i].size
  BY <1>1, <1>2
<1>4. h = [i \in 1..N + 1 |-> h[i]] /\ h[N + 1] = x.size /\ \A i \in 1..N : h[i] = f[i]
  BY <1>1
<1> HIDE DEF f, h
<1> DEFINE t == Append(f, x.size)
<1>5. /\ t = [i \in 1..N + 1 |-> t[i]] /\ t[N + 1] = x.size /\ \A i \in 1..N : t[i] = f[i]
  <2> DEFINE y == x.size
  <2>1. f \in Seq(Nat) /\ y \in Nat /\ Len(f) = N
    BY <1>2, <1>3
  <2> HIDE DEF y
  <2> DEFINE w == Append(f, y)
  <2>2. /\ w = [i \in 1..N + 1 |-> w[i]] /\ w[N + 1] = y /\ \A i \in 1..N : w[i] = f[i]
    BY <2>1, AppendFacts
  <2> QED BY <2>2 DEF y
<1>6. h = t
  <2> HIDE DEF t
  <2>1. \A i \in 1..N + 1 : i = N + 1 \/ i \in 1..N
    BY <1>1
  <2>2. \A i \in 1..N + 1 : h[i] = t[i]
    BY <1>4, <1>5, <2>1
  <2> QED BY <1>4, <1>5, <2>2
<1>7. Prompt!Total(t) = Prompt!Total(f) + x.size /\ Prompt!Total(f) \in Nat
  BY <1>2, <1>3, TotalAppend, TotalNat
<1> QED BY <1>6, <1>7, <1>s DEF u

LEMMA SumEmpty == Prompt!Sum(<<>>) = 0
<1>1. [i \in DOMAIN <<>> |-> <<>>[i].size] = <<>>
  OBVIOUS
<1> QED BY <1>1, TotalEmpty, Zenon DEF Prompt!Sum

\* The items up to the first that does not fit.
LEMMA PrefixFacts ==
  ASSUME NEW s \in Seq(Item), NEW limit \in Nat
  PROVE  \E n \in 0..Len(s) :
           /\ Prompt!Prefix(s, limit) = SubSeq(s, 1, n)
           /\ Prompt!Sum(SubSeq(s, 1, n)) <= limit
           /\ n < Len(s) => Prompt!Sum(SubSeq(s, 1, n + 1)) > limit
<1> DEFINE stops == {n \in 0..Len(s) : n < Len(s) => Prompt!Sum(SubSeq(s, 1, n + 1)) > limit}
           n == CHOOSE m \in stops : \A k \in stops : m <= k
<1>0. Prompt!Prefix(s, limit) = SubSeq(s, 1, n)
  BY DEF Prompt!Prefix
<1>1. Len(s) \in Nat /\ Len(s) \in stops /\ stops \in SUBSET Nat
  OBVIOUS
<1>s. /\ \A k \in stops : k \in 0..Len(s) /\ (k < Len(s) => Prompt!Sum(SubSeq(s, 1, k + 1)) > limit)
      /\ \A k \in 0..Len(s) : k \notin stops => k < Len(s) /\ ~(Prompt!Sum(SubSeq(s, 1, k + 1)) > limit)
  OBVIOUS
<1> HIDE DEF stops
<1>2. \E m \in stops : \A k \in stops : m <= k
  BY <1>1, LeastNatural
<1>3. n \in stops /\ \A k \in stops : n <= k
  BY <1>2, Zenon
<1> HIDE DEF n
<1>4. n \in 0..Len(s) /\ (n < Len(s) => Prompt!Sum(SubSeq(s, 1, n + 1)) > limit)
  BY <1>3, <1>s
<1>5. Prompt!Sum(SubSeq(s, 1, n)) <= limit
  <2>1. CASE n = 0
    <3>1. SubSeq(s, 1, n) = <<>>
      BY <2>1
    <3>2. Prompt!Sum(SubSeq(s, 1, n)) = 0
      BY <3>1, SumEmpty, Zenon
    <3> QED BY <3>2
  <2>2. CASE n # 0
    <3> DEFINE k == n - 1
    <3>1. k \in 0..Len(s) /\ k < n /\ k + 1 = n /\ k \in Nat /\ n \in Nat
      BY <1>1, <1>4, <2>2
    <3> HIDE DEF k
    <3>2. k \notin stops
      BY <1>3, <3>1
    <3>3. ~(Prompt!Sum(SubSeq(s, 1, n)) > limit)
      BY <1>s, <3>1, <3>2
    <3>4. Prompt!Sum(SubSeq(s, 1, n)) \in Nat
      <4> DEFINE q == SubSeq(s, 1, n)
      <4>1. q \in Seq(Item)
        BY <1>4
      <4>2. s[n] \in Item
        BY <1>4, <2>2
      <4> HIDE DEF q
      <4>3. Prompt!Sum(q) \in Nat
        BY <4>1, <4>2, SumAppend
      <4> QED BY <4>3 DEF q
    <3> QED BY <3>3, <3>4
  <2> QED BY <2>1, <2>2
<1> QED BY <1>0, <1>4, <1>5

\* An item more.
LEMMA PrefixGrows ==
  ASSUME NEW s \in Seq(Item), NEW n \in 0..Len(s), n < Len(s)
  PROVE  Prompt!Sum(SubSeq(s, 1, n + 1)) = Prompt!Sum(SubSeq(s, 1, n)) + s[n + 1].size
<1> DEFINE q == SubSeq(s, 1, n)
           x == s[n + 1]
<1>1. q \in Seq(Item) /\ x \in Item
  OBVIOUS
<1>2. SubSeq(s, 1, n + 1) = Append(q, x)
  <2> DEFINE w == SubSeq(s, 1, n + 1)
             u == Append(q, x)
  <2>1. w \in Seq(Item) /\ Len(w) = n + 1 /\ \A i \in 1..n + 1 : w[i] = s[i]
    OBVIOUS
  <2>2. q \in Seq(Item) /\ Len(q) = n /\ \A i \in 1..n : q[i] = s[i]
    OBVIOUS
  <2> HIDE DEF q, x, w
  <2>3. u \in Seq(Item) /\ Len(u) = n + 1 /\ u[n + 1] = x /\ \A i \in 1..n : u[i] = q[i]
    BY <1>1, <2>2, AppendFacts
  <2> HIDE DEF u
  <2>4. \A i \in 1..n + 1 : w[i] = u[i]
    <3>1. \A i \in 1..n + 1 : i = n + 1 \/ i \in 1..n
      OBVIOUS
    <3>2. w[n + 1] = u[n + 1]
      <4>1. n + 1 \in 1..n + 1
        OBVIOUS
      <4> QED BY <2>1, <2>3, <4>1 DEF x
    <3>3. \A i \in 1..n : w[i] = u[i]
      <4>1. \A i \in 1..n : i \in 1..n + 1
        OBVIOUS
      <4> QED BY <2>1, <2>2, <2>3, <4>1
    <3> QED BY <3>1, <3>2, <3>3
  <2>5. w = [i \in 1..n + 1 |-> w[i]] /\ u = [i \in 1..n + 1 |-> u[i]]
    BY <2>1, <2>3
  <2>6. w = u
    BY <2>4, <2>5
  <2> QED BY <2>6 DEF w, u
<1> HIDE DEF q, x
<1>3. Prompt!Sum(Append(q, x)) = Prompt!Sum(q) + x.size
  BY <1>1, SumAppend
<1> QED BY <1>2, <1>3 DEF q, x

\* No key is kept twice, and none is lost.
LEMMA UniqueFacts ==
  ASSUME NEW items \in Seq(Item)
  PROVE  LET u == Prompt!Unique(items) IN
         /\ u \in Seq(Item)
         /\ \A i, j \in 1..Len(u) : u[i].key = u[j].key => i = j
         /\ \A i \in 1..Len(items) : \E j \in 1..Len(u) : u[j].key = items[i].key
<1> DEFINE places == {n \in DOMAIN items : \A m \in 1..n - 1 : items[m].key # items[n].key}
           u == Prompt!Unique(items)
           L == Len(u)
           M == Len(items)
<1>1. M \in Nat /\ DOMAIN items = 1..M /\ places \in SUBSET (DOMAIN items)
  OBVIOUS
<1>2. u = Prompt!Selected(items, places)
  BY DEF Prompt!Unique
<1>3. \A n \in places : n \in 1..M /\ \A m \in 1..n - 1 : items[m].key # items[n].key
  OBVIOUS
<1>4. \A n \in 1..M : n \in places \/ \E m \in 1..n - 1 : items[m].key = items[n].key
  OBVIOUS
<1> HIDE DEF places, u, M
<1>5. u \in Seq(Item) /\ \E g : Picks(items, places, u, g)
  BY <1>1, <1>2, SelectedPicks, Zenon
<1>6. PICK g : Picks(items, places, u, g)
  BY <1>5
<1>l. L \in Nat
  BY <1>5
<1>7. /\ g \in [1..L -> places] /\ \A i, j \in 1..L : i < j => g[i] < g[j]
      /\ \A k \in places : \E i \in 1..L : g[i] = k
      /\ \A i \in 1..L : u[i] = items[g[i]]
  BY <1>6 DEF Picks
<1> HIDE DEF L
<1>8. ASSUME NEW i \in 1..L, NEW j \in 1..L, i < j PROVE u[i].key # u[j].key
  <2>1. g[i] < g[j] /\ g[i] \in places /\ g[j] \in places
    BY <1>7, <1>8
  <2>2. g[i] \in 1..g[j] - 1
    <3>1. g[i] \in 1..M /\ g[j] \in 1..M
      BY <1>3, <2>1
    <3> QED BY <1>1, <2>1, <3>1
  <2>3. items[g[i]].key # items[g[j]].key
    BY <1>3, <2>1, <2>2
  <2> QED BY <1>7, <2>3
<1>9. \A i, j \in 1..L : u[i].key = u[j].key => i = j
  <2>1. \A i, j \in 1..L : i < j \/ j < i \/ i = j
    BY <1>l
  <2> QED BY <1>8, <2>1
<1>10. ASSUME NEW i \in 1..M PROVE \E j \in 1..L : u[j].key = items[i].key
  <2> DEFINE alike == {m \in 1..M : items[m].key = items[i].key}
  <2>1. alike \in SUBSET Nat /\ i \in alike
    BY <1>1
  <2>s. /\ \A m \in alike : m \in 1..M /\ items[m].key = items[i].key
        /\ \A m \in 1..M : items[m].key = items[i].key => m \in alike
    OBVIOUS
  <2> HIDE DEF alike
  <2>2. PICK n \in alike : \A m \in alike : n <= m
    BY <2>1, LeastNatural
  <2>3. n \in places
    <3> SUFFICES ASSUME NEW m \in 1..n - 1, items[m].key = items[n].key PROVE FALSE
      BY <1>4, <2>s
    <3>1. n \in 1..M /\ m \in 1..M /\ ~(n <= m)
      <4>1. n \in 1..M
        BY <2>s
      <4> QED BY <1>1, <4>1
    <3>2. m \in alike
      BY <2>s, <3>1
    <3> QED BY <2>2, <3>1, <3>2
  <2>4. PICK j \in 1..L : g[j] = n
    BY <1>7, <2>3
  <2> QED BY <1>7, <2>s, <2>4
<1> QED BY <1>5, <1>9, <1>10 DEF u, L, M

\* What SharesKept asks of one of the two parts of a context.
Fair(items, picked, share) ==
  LET u == Prompt!Unique(items) IN
  /\ Prompt!Sum(picked) <= share
  /\ \A i, j \in DOMAIN picked : picked[i].key = picked[j].key => i = j
  /\ Prompt!IsPrefix(picked, u)
  /\ picked # u => Prompt!Sum(picked) + u[Len(picked) + 1].size > share
  /\ \A i \in DOMAIN items : \E j \in DOMAIN u : u[j].key = items[i].key

LEMMA FittingIsFair ==
  ASSUME NEW items \in Seq(Item), NEW share \in Nat
  PROVE  Fair(items, Prompt!Fitting(Prompt!Unique(items), share), share)
<1> DEFINE u == Prompt!Unique(items)
           picked == Prompt!Fitting(u, share)
<1>1. /\ u \in Seq(Item) /\ \A i, j \in 1..Len(u) : u[i].key = u[j].key => i = j
      /\ \A i \in 1..Len(items) : \E j \in 1..Len(u) : u[j].key = items[i].key
  BY UniqueFacts
<1>f. picked = Prompt!Prefix(u, share)
  BY DEF Prompt!Fitting
<1> HIDE DEF u, picked
<1>2. PICK n \in 0..Len(u) :
        /\ picked = SubSeq(u, 1, n) /\ Prompt!Sum(SubSeq(u, 1, n)) <= share
        /\ n < Len(u) => Prompt!Sum(SubSeq(u, 1, n + 1)) > share
  BY <1>1, <1>f, PrefixFacts
<1>3. /\ picked \in Seq(Item) /\ Len(picked) = n /\ DOMAIN picked = 1..n /\ \A i \in 1..n : picked[i] = u[i]
      /\ DOMAIN u = 1..Len(u) /\ DOMAIN items = 1..Len(items) /\ Len(u) \in Nat
      /\ SubSeq(u, 1, Len(u)) = u
  BY <1>1, <1>2
<1>4. Prompt!IsPrefix(picked, u)
  <2>1. SubSeq(picked, 1, n) = picked
    <3>1. \A q \in Seq(Item) : SubSeq(q, 1, Len(q)) = q
      OBVIOUS
    <3> QED BY <1>3, <3>1, Zenon
  <2>2. n <= Len(u)
    BY <1>3
  <2> QED BY <1>2, <1>3, <2>1, <2>2 DEF Prompt!IsPrefix
<1>5. ASSUME picked # u PROVE Prompt!Sum(picked) + u[Len(picked) + 1].size > share
  <2>0. n # Len(u)
    BY <1>2, <1>3, <1>5, Zenon
  <2>1. n < Len(u)
    <3>1. n \in 0..Len(u) /\ Len(u) \in Nat
      BY <1>3
    <3> QED BY <2>0, <3>1
  <2>2. Prompt!Sum(SubSeq(u, 1, n + 1)) = Prompt!Sum(SubSeq(u, 1, n)) + u[n + 1].size
    BY <1>1, <2>1, PrefixGrows
  <2> QED BY <1>2, <1>3, <2>1, <2>2
<1>6. \A i, j \in DOMAIN picked : picked[i].key = picked[j].key => i = j
  <2>1. \A i \in 1..n : i \in 1..Len(u)
    BY <1>3
  <2> QED BY <1>1, <1>3, <2>1
<1> QED BY <1>1, <1>2, <1>3, <1>4, <1>5, <1>6 DEF Fair, u, picked

-----------------------------------------------------------------------------
(* Documents and contexts.                                                   *)

\* Whatever was cut from the document owes it nothing, and each part of the context is fair.
PromptInv ==
  /\ document = Prompt!NoDocument \/ Document(document)
  /\ knowledge \in Seq(Item) /\ memories \in Seq(Item)
  /\ chunks # <<>> => Sound(document, chunks)
  /\ context # Prompt!NoContext => /\ Fair(knowledge, context.chosen, Prompt!KnowledgeShare)
                                   /\ Fair(memories, context.recalled, Prompt!MemoryShare)

LEMMA Shares == Prompt!KnowledgeShare \in Nat /\ Prompt!MemoryShare \in Nat
<1>1. Budget \in Nat
  BY PromptNumbers
<1>2. (Budget * 65) \div 100 \in Nat /\ (Budget * 65) \div 100 <= Budget
  BY <1>1
<1> QED BY <1>1, <1>2 DEF Prompt!KnowledgeShare, Prompt!MemoryShare

LEMMA ItemsAre == ASSUME NEW s \in Prompt!Items PROVE s \in Seq(Item)
<1>1. PICK k \in 0..MaxItems : s \in [1..k -> Item]
  BY DEF Prompt!Items, Prompt!UpTo, Item
<1>2. k \in Nat
  BY <1>1, PromptNumbers
<1> QED BY <1>1, <1>2

LEMMA PromptInitInv == StepsInit => PromptInv
<1> SUFFICES ASSUME StepsInit PROVE PromptInv
  OBVIOUS
<1>1. Prompt!Init
  BY DEF StepsInit
<1>2. chunks = <<>> /\ context = Prompt!NoContext
  BY <1>1 DEF Prompt!Init
<1>3. CASE /\ knowledge = <<>> /\ memories = <<>>
           /\ \E n \in 1..MaxParagraphs :
                document \in [size : [1..n -> Lengths], starts : {{1} \cup s : s \in SUBSET (2..n)}]
  <2>1. PICK n \in 1..MaxParagraphs :
          document \in [size : [1..n -> Lengths], starts : {{1} \cup s : s \in SUBSET (2..n)}]
    BY <1>3
  <2>2. n \in Nat /\ n # 0 /\ Lengths \subseteq Nat
    BY PromptNumbers
  <2>3. document.size \in [1..n -> Lengths] /\ document.starts \in {{1} \cup s : s \in SUBSET (2..n)}
    BY <2>1
  <2>4. document.size \in Seq(Nat) /\ DOMAIN document.size = 1..n
    <3> DEFINE f == document.size
    <3>1. f \in [1..n -> Nat]
      BY <2>2, <2>3
    <3> HIDE DEF f
    <3>2. f \in Seq(Nat) /\ DOMAIN f = 1..n
      BY <2>2, <3>1
    <3> QED BY <3>2 DEF f
  <2>5. 1 \in document.starts /\ document.starts \subseteq 1..n
    <3>1. PICK s \in SUBSET (2..n) : document.starts = {1} \cup s
      BY <2>3
    <3>2. 1 \in 1..n /\ \A i \in 2..n : i \in 1..n
      BY <2>2
    <3> QED BY <3>1, <3>2
  <2>6. Document(document)
    BY <2>4, <2>5 DEF Document
  <2> QED BY <1>2, <1>3, <2>6 DEF PromptInv
<1>4. CASE document = Prompt!NoDocument /\ knowledge \in Prompt!Items /\ memories \in Prompt!Items
  <2>1. knowledge \in Seq(Item) /\ memories \in Seq(Item)
    BY <1>4, ItemsAre
  <2> QED BY <1>2, <1>4, <2>1 DEF PromptInv
<1> QED BY <1>1, <1>3, <1>4 DEF Prompt!Init

LEMMA PromptNextInv == PromptInv /\ [Prompt!Next]_prompt => PromptInv'
<1> SUFFICES ASSUME PromptInv, [Prompt!Next]_prompt PROVE PromptInv'
  OBVIOUS
<1>1. CASE document # Prompt!NoDocument /\ Prompt!Chunk
  <2>1. Document(document) /\ UNCHANGED <<document, knowledge, memories, role, context>>
    BY <1>1 DEF PromptInv, Prompt!Chunk
  <2>2. \/ chunks' = Prompt!LargeEnough(document, Prompt!Prose(document))
        \/ chunks' = Prompt!LargeEnough(document, Prompt!Markdown(document))
    BY <1>1 DEF Prompt!Chunk
  <2>3. Sound(document, chunks')
    BY <2>1, <2>2, ProseCuts, MarkdownCuts, LargeEnoughIsSound
  <2>4. Sound(document', chunks')
    BY <2>1, <2>3
  <2> QED BY <2>1, <2>4 DEF PromptInv
<1>2. CASE Prompt!Build
  <2> DEFINE chosen == Prompt!Fitting(Prompt!Unique(knowledge), Prompt!KnowledgeShare)
             recalled == Prompt!Fitting(Prompt!Unique(memories), Prompt!MemoryShare)
  <2>1. /\ context'.chosen = chosen /\ context'.recalled = recalled
        /\ UNCHANGED <<document, chunks, knowledge, memories, role>>
    BY <1>2 DEF Prompt!Build
  <2>2. Fair(knowledge, chosen, Prompt!KnowledgeShare) /\ Fair(memories, recalled, Prompt!MemoryShare)
    BY Shares, FittingIsFair DEF PromptInv
  <2> HIDE DEF chosen, recalled
  <2>3. /\ Fair(knowledge', context'.chosen, Prompt!KnowledgeShare)
        /\ Fair(memories', context'.recalled, Prompt!MemoryShare)
    BY <2>1, <2>2
  <2> QED BY <2>1, <2>3 DEF PromptInv
<1>3. CASE UNCHANGED prompt
  <2>1. UNCHANGED <<document, chunks, knowledge, memories, role, context>>
    BY <1>3 DEF prompt
  <2> QED BY <2>1 DEF PromptInv
<1> QED BY <1>1, <1>2, <1>3 DEF Prompt!Next

\* Nothing but what is too small, said before or too much is lost on its way from a document
\* or a memory to a prompt, and nothing is larger than it may be (chunker.py:51-147,
\* context_builder.py:103-135): for all documents, items and parameters of the chunker and
\* the builder.
THEOREM StepsPromptIsSound == StepsSpec => []PromptIsSound
<1>1. PromptInv => PromptIsSound
  <2> SUFFICES ASSUME PromptInv PROVE PromptIsSound
    OBVIOUS
  <2>1. Prompt!ChunksFit
    <3>1. CASE chunks = <<>>
      BY <3>1 DEF Prompt!ChunksFit
    <3>2. CASE chunks # <<>>
      BY <3>2 DEF PromptInv, Sound, ChunkFits, OwnFits, Prompt!ChunksFit
    <3> QED BY <3>1, <3>2
  <2>2. Prompt!NothingLeftOut
    BY DEF PromptInv, Sound, Prompt!NothingLeftOut
  <2>3. Prompt!SharesKept
    BY DEF PromptInv, Fair, Prompt!SharesKept
  <2> QED BY <2>1, <2>2, <2>3 DEF PromptIsSound, Prompt!PromptIsSound
<1>2. PromptInv /\ [StepsNext]_StepsVars => PromptInv'
  BY StepOfPart, PromptNextInv
<1> QED BY <1>1, <1>2, PromptInitInv, PTL DEF StepsSpec

-----------------------------------------------------------------------------
(* The types of all parts.                                                   *)

\* Routing: a decision, once there is one, names a model.
DecisionTypes ==
  /\ decision.model \in Routing!ModelOrNone /\ decision.needs.role \in Routing!Roles
  /\ routes > 0 => decision.model \in Routing!Models

LEMMA DecisionInit == StepsInit => DecisionTypes
<1> SUFFICES ASSUME StepsInit PROVE DecisionTypes
  OBVIOUS
<1>1. /\ decision = [model |-> Routing!None, switch |-> FALSE, needs |-> Routing!Needs("general", <<>>),
                     known |-> {}, bypass |-> FALSE]
      /\ routes = 0
  BY DEF StepsInit, Routing!Init
<1> QED BY <1>1 DEF DecisionTypes, Routing!ModelOrNone, Routing!Needs, Routing!Roles

LEMMA DecisionStep ==
  ASSUME RoutingTypes, DecisionTypes, [Routing!Next]_routing
  PROVE  DecisionTypes'
<1>1. CASE UNCHANGED <<decision, routes>>
  BY <1>1 DEF DecisionTypes
<1>2. ASSUME NEW t \in RoutedTasks, NEW needs \in Routing!Asked, Routing!Route(t, needs)
      PROVE  DecisionTypes'
  <2>1. PICK model \in Routing!Models, switch \in BOOLEAN, bypass \in BOOLEAN :
          decision' = [model |-> model, switch |-> switch, needs |-> needs,
                       known |-> installed, bypass |-> bypass]
    <3>1. Routing!Chosen(needs) \in Routing!Models
      BY ChosenIsModel DEF RoutingTypes
    <3>2. Routing!Sticks(t, needs) => Routing!Current(t) \in Routing!Models
      BY DEF RoutingTypes, Routing!Sticks, Routing!Current, Routing!ModelOrNone
    <3> QED BY <1>2, <3>1, <3>2 DEF Routing!Route
  <2>2. decision'.model = model /\ decision'.needs = needs
    BY <2>1
  <2> QED BY <2>2, RoleKnown DEF DecisionTypes, Routing!ModelOrNone
<1>3. ASSUME Routing!DaemonChanges \/
             \E c \in Routing!Callers : Routing!Probe(c) \/ Routing!Answer(c) \/ Routing!MarkInstalled(c)
      PROVE  UNCHANGED <<decision, routes>>
  BY <1>3 DEF Routing!DaemonChanges, Routing!Probe, Routing!Answer, Routing!MarkInstalled
<1>4. UNCHANGED routing => UNCHANGED <<decision, routes>>
  BY DEF routing
<1> QED BY <1>1, <1>2, <1>3, <1>4 DEF Routing!Next

LEMMA RoutingIsTyped ==
  ASSUME RoutingTypes, DecisionTypes
  PROVE  Routing!TypeOK
BY DEF RoutingTypes, DecisionTypes, Told, Routing!TypeOK

\* Ingestion: the proofs about the knowledge base, for the base of this module.
Store == INSTANCE Knowledge_proofs WITH
  Matches <- QueryMatches, Faults <- FALSE, MaxDeletes <- 0

LEMMA SameAssumption == Ingest!KnowledgeAssumption = Store!KnowledgeAssumption
BY DEF Ingest!KnowledgeAssumption, Store!KnowledgeAssumption, Ingest!None, Store!None

LEMMA SameInit == Ingest!Init <=> Store!Init
BY DEF Ingest!Init, Store!Init, Ingest!Idle, Store!Idle, Ingest!None, Store!None

LEMMA SameTypes == Ingest!TypeOK <=> Store!TypeOK
BY DEF Ingest!TypeOK, Store!TypeOK, Ingest!Operation, Store!Operation,
       Ingest!Retrieval, Store!Retrieval, Ingest!Entry, Store!Entry,
       Ingest!None, Store!None, Ingest!Idle, Store!Idle

LEMMA SameNext == Ingest!Next <=> Store!Next
BY Zenon
   DEF Ingest!Next, Store!Next, Ingest!WorkerStep, Store!WorkerStep,
       Ingest!ClientStep, Store!ClientStep, Ingest!Edit, Store!Edit,
       Ingest!GetIds, Store!GetIds, Ingest!RemoveIds, Store!RemoveIds, Ingest!Add, Store!Add,
       Ingest!Recreate, Store!Recreate, Ingest!Clear, Store!Clear,
       Ingest!Ingest, Store!Ingest, Ingest!Delete, Store!Delete,
       Ingest!Search, Store!Search, Ingest!Save, Store!Save, Ingest!Ask, Store!Ask,
       Ingest!Tick, Store!Tick, Ingest!Restart, Store!Restart,
       Ingest!Becomes, Store!Becomes, Ingest!base, Store!base,
       Ingest!counters, Store!counters, Ingest!AfterDelete, Store!AfterDelete,
       Ingest!Idle, Store!Idle, Ingest!None, Store!None,
       Ingest!FirstStep, Store!FirstStep, Ingest!Without, Store!Without, Ingest!At, Store!At,
       Ingest!Touched, Store!Touched, Ingest!Room, Store!Room, Ingest!RemoveAt, Store!RemoveAt

LEMMA IngestTypesInit == StepsInit => Ingest!TypeOK
<1>1. StepsInit => Store!Init
  BY SameInit DEF StepsInit
<1> QED BY <1>1, StepsAssumption, SameAssumption, SameTypes, Store!InitTypes

LEMMA IngestTypesStep ==
  ASSUME Ingest!TypeOK, [Ingest!Next]_ingest
  PROVE  Ingest!TypeOK'
<1>1. UNCHANGED ingest => UNCHANGED Store!vars
  BY DEF ingest, Store!vars, Store!base, Store!counters
<1>2. Store!TypeOK /\ [Store!Next]_(Store!vars) /\ Store!KnowledgeAssumption
  BY <1>1, StepsAssumption, SameAssumption, SameNext, SameTypes
<1>3. Store!TypeOK'
  BY <1>2, Store!NextTypes
<1>4. Ingest!TypeOK' <=> Store!TypeOK'
  BY DEF Ingest!TypeOK, Store!TypeOK, Ingest!Operation, Store!Operation,
         Ingest!Retrieval, Store!Retrieval, Ingest!Entry, Store!Entry,
         Ingest!None, Store!None, Ingest!Idle, Store!Idle
<1> QED BY <1>3, <1>4

\* The verdict: what is expected and what is observed are known keys.
VerdictTypes ==
  /\ task \in Verdict!Tasks /\ tab \in Verdict!Pages
  /\ stage \in {"state", "fields", "rest", "done"}
  /\ DOMAIN expected \subseteq Verdict!Keys /\ DOMAIN observed \subseteq Verdict!Keys
  /\ verified \in BOOLEAN /\ fields \in BOOLEAN

LEMMA WithKey ==
  ASSUME NEW f, NEW key \in Verdict!Keys, NEW value, DOMAIN f \subseteq Verdict!Keys
  PROVE  DOMAIN Verdict!With(f, key, value) \subseteq Verdict!Keys
<1>1. DOMAIN Verdict!With(f, key, value) = DOMAIN f \cup {key}
  BY Zenon DEF Verdict!With
<1> QED BY <1>1

LEMMA ReturnTyped ==
  ASSUME NEW e, NEW o, DOMAIN e \subseteq Verdict!Keys, DOMAIN o \subseteq Verdict!Keys,
         Verdict!Return(e, o) \/ Verdict!Premature(e, o)
  PROVE  /\ stage' = "done" /\ verified' \in BOOLEAN
         /\ DOMAIN expected' \subseteq Verdict!Keys /\ DOMAIN observed' \subseteq Verdict!Keys
<1>1. "task_completed" \in Verdict!Keys
  BY DEF Verdict!Keys
<1>2. DOMAIN Verdict!With(o, "task_completed", FALSE) \subseteq Verdict!Keys
  BY <1>1, WithKey
<1>3. \E w : /\ stage' = "done" /\ expected' = e /\ observed' = w
             /\ verified' = (Verdict!Mismatches(e, w) = {})
             /\ DOMAIN w \subseteq Verdict!Keys
  BY <1>2, Zenon DEF Verdict!Return, Verdict!Premature
<1> QED BY <1>3, Zenon

LEMMA VerdictTypesInit == StepsInit => VerdictTypes
<1> SUFFICES ASSUME StepsInit PROVE VerdictTypes
  OBVIOUS
<1>1. /\ task \in Verdict!Tasks /\ tab \in Verdict!Pages /\ stage = "state" /\ verified = FALSE
      /\ fields = FALSE /\ expected = [task_completed |-> TRUE] /\ observed = <<>>
  BY Zenon DEF StepsInit, Verdict!Init
<1>2. DOMAIN expected \subseteq Verdict!Keys /\ DOMAIN observed \subseteq Verdict!Keys
  BY <1>1 DEF Verdict!Keys
<1>3. verified \in BOOLEAN /\ fields \in BOOLEAN
  BY <1>1, Zenon
<1>4. stage \in {"state", "fields", "rest", "done"}
  BY <1>1, Zenon
<1> QED BY <1>1, <1>2, <1>3, <1>4, Zenon DEF VerdictTypes

LEMMA VerdictTypesStep ==
  ASSUME VerdictTypes, [Verdict!Next]_verdict
  PROVE  VerdictTypes'
<1>k. /\ "has_error_state" \in Verdict!Keys /\ "premature_completion_prevented" \in Verdict!Keys
      /\ "text_verified" \in Verdict!Keys /\ "information_extracted" \in Verdict!Keys
      /\ "remaining_steps" \in Verdict!Keys /\ "task_completed" \in Verdict!Keys
  BY DEF Verdict!Keys
<1>d. DOMAIN expected \subseteq Verdict!Keys /\ DOMAIN observed \subseteq Verdict!Keys
  BY DEF VerdictTypes
<1> DEFINE Keyed(e, o) == DOMAIN e \subseteq Verdict!Keys /\ DOMAIN o \subseteq Verdict!Keys
<1>w. ASSUME NEW e, NEW o, Keyed(e, o), NEW key \in Verdict!Keys, NEW v, NEW x
      PROVE  Keyed(Verdict!With(e, key, v), Verdict!With(o, key, x))
  BY <1>w, WithKey, Zenon
<1>s. /\ "state" \in {"state", "fields", "rest", "done"} /\ "fields" \in {"state", "fields", "rest", "done"}
      /\ "rest" \in {"state", "fields", "rest", "done"} /\ "done" \in {"state", "fields", "rest", "done"}
  BY Zenon
<1>r. ASSUME NEW e, NEW o, Keyed(e, o), Verdict!Return(e, o) \/ Verdict!Premature(e, o),
             UNCHANGED <<task, tab>>, fields' \in BOOLEAN
      PROVE  VerdictTypes'
  BY <1>r, <1>s, ReturnTyped, Zenon DEF VerdictTypes
<1>n. ASSUME NEW e, NEW o, Keyed(e, o), expected' = e, observed' = o,
             UNCHANGED <<task, tab, verified>>, fields' \in BOOLEAN, stage' \in {"fields", "rest"}
      PROVE  VerdictTypes'
  <2>1. stage' \in {"state", "fields", "rest", "done"}
    BY <1>n, Zenon
  <2> QED BY <1>n, <2>1, Zenon DEF VerdictTypes
<1>t. Keyed(expected, observed) /\ fields \in BOOLEAN /\ tab \in Verdict!Pages
  BY <1>d, Zenon DEF VerdictTypes
<1> HIDE DEF Keyed
<1>1. CASE Verdict!ReadState
  <2> DEFINE e == Verdict!With(expected, "has_error_state", FALSE)
             o == Verdict!With(observed, "has_error_state", Verdict!HasError)
             e2 == Verdict!With(e, "premature_completion_prevented", FALSE)
             o2 == Verdict!With(o, "premature_completion_prevented", TRUE)
  <2>1. Keyed(e, o)
    BY <1>k, <1>t, <1>w, Zenon
  <2>4. /\ UNCHANGED <<task, tab, fields>>
        /\ \/ Verdict!Premature(e, o) \/ Verdict!Premature(e2, o2)
           \/ stage' \in {"fields", "rest"} /\ expected' = e /\ observed' = o /\ UNCHANGED verified
    BY <1>1, Zenon DEF Verdict!ReadState
  <2> HIDE DEF e, o
  <2>2. Keyed(e2, o2)
    BY <1>k, <2>1, <1>w, Zenon
  <2> HIDE DEF e2, o2
  <2> QED BY <1>t, <1>r, <1>n, <2>1, <2>2, <2>4, Zenon
<1>2. CASE Verdict!ReadFields
  <2>0. tab.text \in BOOLEAN
    BY <1>t, Zenon DEF Verdict!Pages
  <2>1. PICK read : LET e == Verdict!With(expected, "text_verified", TRUE)
                        o == Verdict!With(observed, "text_verified", read)
                    IN  /\ UNCHANGED <<task, tab>> /\ fields' = tab.text
                        /\ \/ Verdict!Premature(e, o)
                           \/ stage' = "rest" /\ expected' = e /\ observed' = o /\ UNCHANGED verified
    BY <1>2, Zenon DEF Verdict!ReadFields
  <2> DEFINE e == Verdict!With(expected, "text_verified", TRUE)
             o == Verdict!With(observed, "text_verified", read)
  <2>2. Keyed(e, o)
    BY <1>k, <1>t, <1>w, Zenon
  <2>3. /\ UNCHANGED <<task, tab>> /\ fields' \in BOOLEAN
        /\ \/ Verdict!Premature(e, o)
           \/ stage' \in {"fields", "rest"} /\ expected' = e /\ observed' = o /\ UNCHANGED verified
    BY <2>0, <2>1, Zenon
  <2> HIDE DEF e, o
  <2> QED BY <1>r, <1>n, <2>2, <2>3, Zenon
<1>3. CASE Verdict!Rest
  <2> DEFINE e == IF task.extract THEN Verdict!With(expected, "information_extracted", TRUE) ELSE expected
             o == IF task.extract THEN Verdict!With(observed, "information_extracted", Verdict!HasData)
                  ELSE observed
             e2 == Verdict!With(e, "remaining_steps", 0)
             o2 == Verdict!With(o, "remaining_steps", task.left)
             o3 == Verdict!With(o, "task_completed", TRUE)
  <2>1. Keyed(e, o)
    BY <1>k, <1>t, <1>w, Zenon
  <2>4. /\ UNCHANGED <<task, tab, fields>>
        /\ Verdict!Premature(e, o) \/ Verdict!Premature(e2, o2) \/ Verdict!Return(e, o3)
    BY <1>3, Zenon DEF Verdict!Rest
  <2> HIDE DEF e, o
  <2>2. Keyed(e2, o2)
    BY <1>k, <2>1, <1>w, Zenon
  <2>3. Keyed(e, o3)
    BY <1>k, <2>1, WithKey, Zenon DEF Keyed
  <2> HIDE DEF e2, o2, o3
  <2> QED BY <1>t, <1>r, <2>1, <2>2, <2>3, <2>4, Zenon
<1>4. CASE Verdict!PageLives
  BY <1>4, Zenon DEF Verdict!PageLives, VerdictTypes
<1>5. CASE UNCHANGED verdict
  <2>1. UNCHANGED <<task, tab, stage, expected, observed, verified, fields>>
    BY <1>5 DEF verdict
  <2> QED BY <2>1, Zenon DEF VerdictTypes
<1> QED BY <1>1, <1>2, <1>3, <1>4, <1>5, Zenon DEF Verdict!Next, Verdict!Verify

LEMMA VerdictIsTyped ==
  ASSUME VerdictTypes, VerdictInv
  PROVE  Verdict!TypeOK
<1>1. verified => stage = "done"
  BY Zenon DEF VerdictInv, Undecided
<1>2. {verified, fields} \subseteq BOOLEAN
  BY Zenon DEF VerdictTypes
<1> QED BY <1>1, <1>2, Zenon DEF VerdictTypes, Verdict!TypeOK

\* The desktop as clicks see it.
LEMMA DesktopNumbers ==
  /\ MaxElements \in Nat /\ MaxEditorMoves \in Nat /\ MaxSettingsMoves \in Nat /\ MaxRounds \in Nat
<1>1. {MaxElements, MaxEditorMoves} \subseteq Nat /\ MaxRounds \in Nat
  BY StepsAssumption, Zenon DEF Click!ScreenAssumption, Click!ClickAssumption
<1>2. {MaxElements, MaxSettingsMoves} \subseteq Nat
  BY StepsAssumption, Zenon DEF Goals!ScreenAssumption
<1> QED BY <1>1, <1>2

LEMMA ClickScreenStep ==
  ASSUME Click!ScreenTypeOK, Click!UserActs
  PROVE  Click!ScreenTypeOK'
<1>1. moves' \in 0..MaxEditorMoves
  BY DesktopNumbers DEF Click!ScreenTypeOK, Click!UserActs
<1>2. CASE \E w \in opened, l \in EditorLayouts :
             layout' = [layout EXCEPT ![w] = l] /\ UNCHANGED <<opened, foreground>>
  <2>1. layout' \in [Editors -> EditorLayouts]
    BY <1>2 DEF Click!ScreenTypeOK
  <2> QED BY <1>1, <1>2, <2>1 DEF Click!ScreenTypeOK
<1>3. CASE \E w \in Editors : opened' = opened \cup {w} /\ foreground' = w /\ UNCHANGED layout
  <2>1. opened' \subseteq Editors /\ foreground' \in opened' \cup {Nothing}
    BY <1>3 DEF Click!ScreenTypeOK
  <2> QED BY <1>1, <1>3, <2>1 DEF Click!ScreenTypeOK
<1>4. CASE \E w \in opened : /\ opened' = opened \ {w}
                             /\ foreground' = IF foreground = w THEN Nothing ELSE foreground
                             /\ UNCHANGED layout
  <2>1. opened' \subseteq Editors /\ foreground' \in opened' \cup {Nothing}
    BY <1>4 DEF Click!ScreenTypeOK
  <2> QED BY <1>1, <1>4, <2>1 DEF Click!ScreenTypeOK
<1> QED BY <1>2, <1>3, <1>4 DEF Click!UserActs

LEMMA ClickElementsTyped ==
  ASSUME Click!ScreenTypeOK, NEW w, NEW walked \in Click!Walks(w)
  PROVE  /\ Click!Elements(w, walked) \in Seq(Click!ElementType)
         /\ Len(Click!Elements(w, walked)) <= MaxElements
<1> DEFINE S == Click!ElementType
           all == IF w \in opened THEN [i \in DOMAIN layout[w] |-> [control |-> layout[w][i], place |-> i]]
                  ELSE <<>>
           Picked(toggles) ==
             {i \in walked : all[i].control.ready /\ (all[i].control.state # "none") = toggles}
           r == Click!Ranked(w, walked)
<1>1. EditorLayouts \subseteq Seq(Click!Controls) /\ MaxElements \in Nat
  BY StepsAssumption DEF Click!ScreenAssumption
<1>2. Len(all) \in Nat /\ \A n \in 1..Len(all) : all[n] \in S
  <2>1. CASE w \in opened
    <3> DEFINE l == layout[w]
    <3>1. l \in Seq(Click!Controls)
      BY <1>1, <2>1 DEF Click!ScreenTypeOK
    <3> HIDE DEF l
    <3>2. DOMAIN l = 1..Len(l) /\ Len(l) \in Nat /\ \A i \in 1..Len(l) : l[i] \in Click!Controls
      BY <3>1
    <3>3. \A i \in DOMAIN l : [control |-> l[i], place |-> i] \in S
      BY <3>2 DEF Click!ElementType
    <3> HIDE DEF S
    <3>4. all = [i \in 1..Len(l) |-> [control |-> l[i], place |-> i]]
      BY <2>1, <3>2 DEF l
    <3> QED BY <3>2, <3>3, <3>4
  <2>2. CASE w \notin opened
    <3> HIDE DEF S
    <3> QED BY <2>2
  <2> QED BY <2>1, <2>2
<1>3. r \in Seq(S)
  <2>1. r = Click!Those(all, Picked(TRUE)) \o Click!Those(all, Picked(FALSE))
    BY DEF Click!Ranked
  <2> HIDE DEF S, all, r, Picked
  <2>2. \A b : Click!Those(all, b) = Goals!Those(all, b)
    BY DEF Click!Those, Goals!Those
  <2>3. Click!Those(all, Picked(TRUE)) \in Seq(S) /\ Click!Those(all, Picked(FALSE)) \in Seq(S)
    BY <1>2, <2>2, ThoseTyped
  <2>4. \A a, b \in Seq(S) : a \o b \in Seq(S)
    OBVIOUS
  <2> QED BY <2>1, <2>3, <2>4, Zenon
<1>4. Click!Elements(w, walked) = SubSeq(r, 1, IF Len(r) < MaxElements THEN Len(r) ELSE MaxElements)
  BY DEF Click!Elements
<1> HIDE DEF S, all, r, Picked
<1>5. Click!Elements(w, walked) \in Seq(S) /\ Len(Click!Elements(w, walked)) <= MaxElements
  BY <1>1, <1>3, <1>4
<1> QED BY <1>5 DEF S

ClickPlaces ==
  {"observe", "look", "walk", "plan", "focus", "window", "semantic", "window2", "byName", "byId",
   "toggle", "invoke", "centre", "coordinate"}

Outcomes == {"none", "failure", "semantic", "pattern", "coordinate"}

\* A step that neither observes nor plans.
LEMMA ClickQuiet ==
  ASSUME Click!TypeOK, UNCHANGED <<Click!screen, Click!memory, action, round>>,
         window' = window \/ window' \in opened \cup {Nothing},
         click' \in ClickPlaces, outcome' \in Outcomes
  PROVE  Click!TypeOK'
<1>1. /\ UNCHANGED <<opened, layout, foreground, moves, front, observedIn, obs, fresh, action, round>>
  BY DEF Click!screen, Click!memory
<1>2. Click!ScreenTypeOK' /\ window' \in Editors \cup {Nothing}
  BY <1>1 DEF Click!TypeOK, Click!ScreenTypeOK
<1>3. {front, observedIn, fresh, window}' \subseteq Editors \cup {Nothing}
  BY <1>1, <1>2 DEF Click!TypeOK
<1>4. obs' \in Seq(Click!ElementType)' /\ Len(obs') <= MaxElements
  BY <1>1 DEF Click!TypeOK
<1> QED BY <1>1, <1>2, <1>3, <1>4 DEF Click!TypeOK, ClickPlaces, Outcomes

LEMMA ClickTypesInit == StepsInit /\ part = "click" => Click!TypeOK
<1> SUFFICES ASSUME StepsInit, part = "click" PROVE Click!TypeOK
  OBVIOUS
<1>1. Click!Init
  BY DEF StepsInit
<1>2. Click!ScreenTypeOK
  BY <1>1, DesktopNumbers DEF Click!Init, Click!ScreenInit, Click!ScreenTypeOK
<1>3. obs \in Seq(Click!ElementType) /\ Len(obs) <= MaxElements /\ round \in 0..MaxRounds
  BY <1>1, DesktopNumbers DEF Click!Init
<1>4. action.clicks = 1 /\ action.id = 0
  BY <1>1 DEF Click!Init, Click!None
<1> QED BY <1>1, <1>2, <1>3, <1>4 DEF Click!Init, Click!TypeOK

LEMMA ClickObserveTypes ==
  ASSUME Click!TypeOK, Click!Observe \/ Click!Look \/ Click!Walk
  PROVE  Click!TypeOK'
<1>0. Click!ScreenTypeOK /\ UNCHANGED <<opened, layout, foreground, moves, action>>
  BY DEF Click!TypeOK, Click!Observe, Click!Look, Click!Walk, Click!screen
<1>1. Click!ScreenTypeOK'
  BY <1>0 DEF Click!ScreenTypeOK
<1>2. foreground \in Editors \cup {Nothing} /\ opened \subseteq Editors
  BY <1>0 DEF Click!ScreenTypeOK
<1>3. Click!ElementType' = Click!ElementType
  BY DEF Click!ElementType, Click!Controls
<1>4. CASE Click!Observe
  <2>1. UNCHANGED <<front, observedIn, obs, window>> /\ fresh' \in {foreground, Nothing}
    BY <1>4 DEF Click!Observe, Click!Active
  <2>2. round' \in 0..MaxRounds /\ click' = "look" /\ outcome' = "none"
    BY <1>4, StepsAssumption DEF Click!Observe, Click!TypeOK, Click!ClickAssumption
  <2>3. {front, observedIn, fresh, window}' \subseteq Editors \cup {Nothing}
    BY <1>2, <2>1 DEF Click!TypeOK
  <2> QED BY <1>0, <1>1, <1>3, <2>1, <2>2, <2>3 DEF Click!TypeOK
<1>5. CASE Click!Look
  <2>1. UNCHANGED <<front, observedIn, fresh, obs, outcome, round>> /\ click' = "walk"
        /\ window' \in opened \cup {Nothing}
    BY <1>5 DEF Click!Look, Click!memory, Click!FindWindow
  <2>2. {front, observedIn, fresh, window}' \subseteq Editors \cup {Nothing}
    BY <1>2, <2>1 DEF Click!TypeOK
  <2> QED BY <1>0, <1>1, <1>3, <2>1, <2>2 DEF Click!TypeOK
<1>6. CASE Click!Walk
  <2>1. PICK walked \in Click!Walks(Click!Root(window)) :
          obs' = Click!Elements(Click!Root(window), walked)
    BY <1>6 DEF Click!Walk
  <2>2. obs' \in Seq(Click!ElementType) /\ Len(obs') <= MaxElements
    BY <1>0, <2>1, ClickElementsTyped
  <2>3. UNCHANGED <<fresh, window, outcome, round>> /\ click' = "plan" /\ front' = fresh
        /\ observedIn' \in {window, foreground}
    BY <1>6 DEF Click!Walk, Click!Root
  <2>4. {front, observedIn, fresh, window}' \subseteq Editors \cup {Nothing}
    BY <1>2, <2>3 DEF Click!TypeOK
  <2> QED BY <1>0, <1>1, <1>3, <2>2, <2>3, <2>4 DEF Click!TypeOK
<1> QED BY <1>4, <1>5, <1>6

LEMMA ClickPlanTypes ==
  ASSUME Click!TypeOK, Click!Plan
  PROVE  Click!TypeOK'
<1>1. \A i \in DOMAIN obs : obs[i].place \in Nat
  <2> DEFINE S == Click!ElementType
  <2>1. \A e \in S : e.place \in Nat
    BY DEF Click!ElementType
  <2>2. obs \in Seq(S)
    BY DEF Click!TypeOK
  <2> HIDE DEF S
  <2>3. \A i \in DOMAIN obs : obs[i] \in S
    BY <2>2
  <2> QED BY <2>1, <2>3
<1>2. action'.clicks \in {1, 2} /\ action'.id \in Nat /\ click' \in {"window", "focus"}
  BY <1>1 DEF Click!Plan, Click!None
<1>3. UNCHANGED <<opened, layout, foreground, moves, front, observedIn, obs, fresh, outcome, round>>
      /\ window' = Nothing
  BY DEF Click!Plan, Click!screen, Click!memory
<1>4. Click!ScreenTypeOK' /\ {front, observedIn, fresh, window}' \subseteq Editors \cup {Nothing}
  BY <1>3 DEF Click!TypeOK, Click!ScreenTypeOK
<1>5. obs' \in Seq(Click!ElementType)' /\ Len(obs') <= MaxElements
  BY <1>3 DEF Click!TypeOK
<1> QED BY <1>2, <1>3, <1>4, <1>5 DEF Click!TypeOK

LEMMA ClickFocusTypes ==
  ASSUME Click!TypeOK, Click!Focus
  PROVE  Click!TypeOK'
<1>1. /\ UNCHANGED <<opened, layout, moves, front, observedIn, obs, fresh, action, window, round>>
      /\ foreground' \in opened \cup {foreground}
      /\ click' = "observe" /\ outcome' \in {"semantic", "failure"}
  BY DEF Click!Focus, Click!Done, Click!memory
<1>2. Click!ScreenTypeOK' /\ {front, observedIn, fresh, window}' \subseteq Editors \cup {Nothing}
  BY <1>1 DEF Click!TypeOK, Click!ScreenTypeOK
<1>3. obs' \in Seq(Click!ElementType)' /\ Len(obs') <= MaxElements
  BY <1>1 DEF Click!TypeOK
<1> QED BY <1>1, <1>2, <1>3 DEF Click!TypeOK

LEMMA ClickTypesStep ==
  ASSUME Click!TypeOK, [Click!Next]_<<screen, clicking>>
  PROVE  Click!TypeOK'
<1>o. outcome \in Outcomes /\ click \in ClickPlaces
  BY DEF Click!TypeOK, Outcomes, ClickPlaces
<1>1. CASE Click!Observe \/ Click!Look \/ Click!Walk \/ Click!Plan \/ Click!Focus
  BY <1>1, ClickObserveTypes, ClickPlanTypes, ClickFocusTypes
<1>2. ASSUME NEW from, NEW to \in ClickPlaces, Click!WindowStep(from, to)
      PROVE  Click!TypeOK'
  <2>1. UNCHANGED <<Click!screen, Click!memory, action, outcome, round>> /\ click' = to
    BY <1>2 DEF Click!WindowStep
  <2>2. window' \in opened \cup {Nothing}
    BY <1>2 DEF Click!WindowStep, Click!FindWindow
  <2> QED BY <1>o, <1>2, <2>1, <2>2, ClickQuiet
<1>3. ASSUME NEW from, NEW name, NEW aid, NEW kind, NEW to \in ClickPlaces,
             Click!SearchStep(from, name, aid, kind, to)
      PROVE  Click!TypeOK'
  <2>1. UNCHANGED <<Click!screen, Click!memory, action, window, round>>
    BY <1>3 DEF Click!SearchStep
  <2>2. click' \in {to, "observe", "toggle", "invoke"} /\ outcome' \in {outcome, "failure"}
    BY <1>3 DEF Click!SearchStep, Click!Operate, Click!Done
  <2>3. click' \in ClickPlaces /\ outcome' \in Outcomes
    BY <1>o, <2>2 DEF ClickPlaces, Outcomes
  <2> QED BY <2>1, <2>3, ClickQuiet
<1>4. CASE Click!Semantic \/ Click!Alternate
  <2>1. {"semantic", "window2", "byName", "byId", "coordinate"} \subseteq ClickPlaces
    BY DEF ClickPlaces
  <2> QED BY <1>2, <1>3, <1>4, <2>1 DEF Click!Semantic, Click!Alternate
<1>5. CASE Click!Unknown \/ Click!Toggle \/ Click!Invoke \/ Click!Centre \/ Click!Coordinate
  <2>1. UNCHANGED <<Click!screen, Click!memory, action, window, round>>
    BY <1>5 DEF Click!Unknown, Click!Toggle, Click!Invoke, Click!Centre, Click!Coordinate
  <2>2. /\ click' \in {"observe", "coordinate", "invoke", "centre"}
        /\ outcome' \in {outcome, "failure", "semantic", "pattern", "coordinate"}
    BY <1>5 DEF Click!Unknown, Click!Toggle, Click!Invoke, Click!Centre, Click!Coordinate,
                Click!Done, Click!NotToggled, Click!NotInvoked
  <2>3. click' \in ClickPlaces /\ outcome' \in Outcomes
    BY <1>o, <2>2 DEF ClickPlaces, Outcomes
  <2> QED BY <2>1, <2>3, ClickQuiet
<1>6. CASE /\ Click!UserActs
           /\ UNCHANGED <<click, Click!memory, action, window, found, ops, outcome, round>>
  <2>1. Click!ScreenTypeOK'
    BY ClickScreenStep, <1>6 DEF Click!TypeOK
  <2>2. UNCHANGED <<click, front, observedIn, obs, fresh, action, window, outcome, round>>
    BY <1>6 DEF Click!memory
  <2>3. obs' \in Seq(Click!ElementType)' /\ Len(obs') <= MaxElements
    BY <2>2 DEF Click!TypeOK
  <2>4. {front, observedIn, fresh, window}' \subseteq Editors \cup {Nothing}
    BY <2>2 DEF Click!TypeOK
  <2> QED BY <2>1, <2>2, <2>3, <2>4 DEF Click!TypeOK
<1>7. CASE UNCHANGED <<screen, clicking>>
  <2>1. UNCHANGED <<Click!screen, Click!memory, action, window, round, click, outcome>>
    BY <1>7 DEF screen, clicking, Click!screen, Click!memory
  <2> QED BY <1>o, <2>1, ClickQuiet
<1> QED BY <1>1, <1>4, <1>5, <1>6, <1>7 DEF Click!Next, Click!AgentStep
\* The goals: what GoalsInv does not say of the variables.
GoalsRest ==
  /\ moves \in 0..MaxSettingsMoves /\ running \subseteq Processes
  /\ Len(obs) <= MaxElements /\ {fresh, window} \subseteq Settings \cup {Nothing}
  /\ round \in 0..MaxRounds /\ retries \in 0..3
  /\ heldOnce \subseteq DOMAIN conds /\ together \in BOOLEAN

LEMMA GoalsElementsFit ==
  ASSUME GoalsTypes, NEW w, NEW walked \in Goals!Walks(w)
  PROVE  /\ DOMAIN Goals!Elements(w, walked) = 1..Len(Goals!Elements(w, walked))
         /\ Len(Goals!Elements(w, walked)) \in Nat
         /\ Len(Goals!Elements(w, walked)) <= MaxElements
<1> DEFINE S == Goals!ElementType
           all == IF w \in opened THEN [i \in DOMAIN layout[w] |-> [control |-> layout[w][i], place |-> i]]
                  ELSE <<>>
           Picked(toggles) ==
             {i \in walked : all[i].control.ready /\ (all[i].control.state # "none") = toggles}
           r == Goals!Ranked(w, walked)
<1>1. SettingsLayouts \subseteq Seq(Goals!Controls) /\ MaxElements \in Nat
  BY StepsAssumption DEF Goals!ScreenAssumption
<1>2. Len(all) \in Nat /\ \A n \in 1..Len(all) : all[n] \in S
  <2>1. CASE w \in opened
    <3> DEFINE l == layout[w]
    <3>1. l \in Seq(Goals!Controls)
      BY <1>1, <2>1 DEF GoalsTypes
    <3> HIDE DEF l
    <3>2. DOMAIN l = 1..Len(l) /\ Len(l) \in Nat /\ \A i \in 1..Len(l) : l[i] \in Goals!Controls
      BY <3>1
    <3>3. \A i \in DOMAIN l : [control |-> l[i], place |-> i] \in S
      BY <3>2 DEF Goals!ElementType
    <3> HIDE DEF S
    <3>4. all = [i \in 1..Len(l) |-> [control |-> l[i], place |-> i]]
      BY <2>1, <3>2 DEF l
    <3> QED BY <3>2, <3>3, <3>4
  <2>2. CASE w \notin opened
    <3> HIDE DEF S
    <3> QED BY <2>2
  <2> QED BY <2>1, <2>2
<1>3. r \in Seq(S)
  <2>1. r = Goals!Those(all, Picked(TRUE)) \o Goals!Those(all, Picked(FALSE))
    BY DEF Goals!Ranked
  <2> HIDE DEF S, all, r, Picked
  <2>2. Goals!Those(all, Picked(TRUE)) \in Seq(S) /\ Goals!Those(all, Picked(FALSE)) \in Seq(S)
    BY <1>2, ThoseTyped
  <2>3. \A a, b \in Seq(S) : a \o b \in Seq(S)
    OBVIOUS
  <2> QED BY <2>1, <2>2, <2>3, Zenon
<1>4. Goals!Elements(w, walked) = SubSeq(r, 1, IF Len(r) < MaxElements THEN Len(r) ELSE MaxElements)
  BY DEF Goals!Elements
<1> HIDE DEF S, all, r, Picked
<1>5. Goals!Elements(w, walked) \in Seq(S) /\ Len(Goals!Elements(w, walked)) <= MaxElements
  BY <1>1, <1>3, <1>4
<1>6. DOMAIN Goals!Elements(w, walked) = 1..Len(Goals!Elements(w, walked))
      /\ Len(Goals!Elements(w, walked)) \in Nat
  BY <1>5
<1> QED BY <1>5, <1>6

LEMMA GoalsRestInit == StepsInit /\ part = "goals" => GoalsRest
<1> SUFFICES ASSUME StepsInit, part = "goals" PROVE GoalsRest
  OBVIOUS
<1>1. Goals!Init
  BY DEF StepsInit
<1>2. moves \in 0..MaxSettingsMoves /\ running \subseteq Processes
  BY <1>1, DesktopNumbers DEF Goals!Init, Goals!ScreenInit
<1>3. Len(obs) <= MaxElements /\ round \in 0..MaxRounds /\ retries \in 0..3
  BY <1>1, DesktopNumbers DEF Goals!Init
<1>4. fresh = Nothing /\ window = Nothing /\ together = (heldOnce = DOMAIN conds)
  BY <1>1 DEF Goals!Init
<1>5. heldOnce \subseteq DOMAIN conds
  BY <1>1 DEF Goals!Init, Goals!Holding
<1>6. together \in BOOLEAN
  BY <1>4, Zenon
<1> QED BY <1>2, <1>3, <1>4, <1>5, <1>6 DEF GoalsRest

\* What is remembered are conditions of the task.
LEMMA RememberedTypes ==
  ASSUME GoalsRest, NEW miss, Goals!Remember(miss), UNCHANGED conds
  PROVE  heldOnce' \subseteq DOMAIN conds' /\ together' \in BOOLEAN
<1> DEFINE now == Goals!Holding
<1>1. heldOnce' \subseteq heldOnce \cup now'
  BY DEF Goals!Remember
<1>2. now' \subseteq DOMAIN conds'
  BY DEF Goals!Holding
<1>3. together' = ((check # "idle" /\ together) \/ now' = DOMAIN conds)
  BY DEF Goals!Remember
<1> HIDE DEF now
<1>4. together' \in BOOLEAN
  BY <1>3, Zenon
<1> QED BY <1>1, <1>2, <1>4 DEF GoalsRest

\* A step of the program leaves the screen and the programs alone.
LEMMA GoalsRestQuiet ==
  ASSUME GoalsTypes, GoalsRest, UNCHANGED <<moves, running, conds>>,
         heldOnce' \subseteq DOMAIN conds' /\ together' \in BOOLEAN,
         fresh' \in opened \cup {fresh, Nothing}, window' \in opened \cup {window, Nothing},
         Len(obs') <= MaxElements, round' \in 0..MaxRounds, retries' \in 0..3
  PROVE  GoalsRest'
<1>1. {fresh, window}' \subseteq Settings \cup {Nothing}
  BY DEF GoalsTypes, GoalsRest
<1> QED BY <1>1 DEF GoalsRest

LEMMA GoalsRestChecks ==
  ASSUME GoalsTypes, GoalsRest, heldOnce' \subseteq DOMAIN conds' /\ together' \in BOOLEAN,
         \/ Goals!CheckExists \/ Goals!CheckFocused \/ Goals!FindFocused
         \/ Goals!CheckActive \/ Goals!CheckRunning \/ Goals!CheckElement
         \/ Goals!CheckText \/ Goals!CheckToggle \/ Goals!FindToggle \/ Goals!ReadToggle
  PROVE  GoalsRest'
<1>1. UNCHANGED Goals!CheckVars
  BY DEF Goals!CheckExists, Goals!CheckFocused, Goals!FindFocused, Goals!CheckActive,
         Goals!CheckRunning, Goals!CheckElement, Goals!CheckText, Goals!CheckToggle,
         Goals!FindToggle, Goals!ReadToggle
<1>2. UNCHANGED <<moves, running, conds, fresh, obs, round, retries>>
  BY <1>1 DEF Goals!CheckVars, Goals!screen
<1>3. window' \in opened \cup {window, Nothing}
  BY DEF Goals!CheckExists, Goals!CheckFocused, Goals!FindFocused, Goals!CheckActive,
         Goals!CheckRunning, Goals!CheckElement, Goals!CheckText, Goals!CheckToggle,
         Goals!FindToggle, Goals!ReadToggle, Goals!Find, Goals!FindWindow
<1>4. Len(obs') <= MaxElements /\ round' \in 0..MaxRounds /\ retries' \in 0..3
  BY <1>2 DEF GoalsRest
<1> QED BY <1>2, <1>3, <1>4, GoalsRestQuiet

LEMMA GoalsRestWalk ==
  ASSUME GoalsTypes, GoalsRest, Goals!Walk, heldOnce' \subseteq DOMAIN conds' /\ together' \in BOOLEAN
  PROVE  GoalsRest'
<1>1. UNCHANGED <<moves, running, conds, fresh, window, round>>
  BY DEF Goals!Walk, Goals!screen
<1> DEFINE r == Goals!Root(window)
<1>2. PICK walked \in Goals!Walks(r) :
        /\ obs' = [i \in DOMAIN Goals!Elements(r, walked) |-> Goals!In(r, Goals!Elements(r, walked)[i].control)]
        /\ retries' = retries \/ (retries # 3 /\ retries' = retries + 1)
  BY DEF Goals!Walk, Goals!FreshObservation, Goals!Conclude
<1> HIDE DEF r
<1> DEFINE n == Len(Goals!Elements(r, walked))
           E(i) == Goals!In(r, Goals!Elements(r, walked)[i].control)
<1>3. n \in Nat /\ n <= MaxElements /\ obs' = [i \in 1..n |-> E(i)]
  BY <1>2, GoalsElementsFit
<1> HIDE DEF n, E
<1>4. Len(obs') = n
  BY <1>3
<1>5. Len(obs') <= MaxElements
  BY <1>3, <1>4, Zenon
<1>6. retries' \in 0..3
  BY <1>2 DEF GoalsRest
<1>7. round' \in 0..MaxRounds
  BY <1>1 DEF GoalsRest
<1> QED BY <1>1, <1>5, <1>6, <1>7, GoalsRestQuiet

LEMMA StepKeepsConds ==
  ASSUME Goals!Next
  PROVE  UNCHANGED conds /\ \E miss : Goals!Remember(miss)
<1>1. CASE Goals!Begin \/ Goals!Observe \/ Goals!Look \/ Goals!Walk
  BY <1>1 DEF Goals!Begin, Goals!Observe, Goals!Look, Goals!Walk
<1>2. CASE Goals!CheckExists \/ Goals!CheckFocused \/ Goals!FindFocused \/ Goals!CheckActive \/ Goals!CheckRunning
  BY <1>2 DEF Goals!CheckExists, Goals!CheckFocused, Goals!FindFocused, Goals!CheckActive,
              Goals!CheckRunning, Goals!CheckVars
<1>3. CASE Goals!CheckElement \/ Goals!CheckText \/ Goals!CheckToggle \/ Goals!FindToggle \/ Goals!ReadToggle
  BY <1>3 DEF Goals!CheckElement, Goals!CheckText, Goals!CheckToggle, Goals!FindToggle,
              Goals!ReadToggle, Goals!CheckVars
<1>4. CASE Goals!DesktopLives
  BY <1>4 DEF Goals!DesktopLives, Goals!calls
<1> QED BY <1>1, <1>2, <1>3, <1>4 DEF Goals!Next, Goals!CheckStep

LEMMA GoalsRestStep ==
  ASSUME GoalsTypes, GoalsRest, [Goals!Next]_<<screen, goals>>
  PROVE  GoalsRest'
<1>1. CASE UNCHANGED <<screen, goals>>
  <2>1. UNCHANGED <<moves, running, obs, fresh, window, round, retries, conds, heldOnce, together>>
    BY <1>1 DEF screen, goals
  <2> QED BY <2>1 DEF GoalsRest
<1>2. CASE Goals!Next
  <2>1. UNCHANGED conds /\ \E miss : Goals!Remember(miss)
    BY <1>2, StepKeepsConds
  <2>2. heldOnce' \subseteq DOMAIN conds' /\ together' \in BOOLEAN
    BY <2>1, RememberedTypes
  <2>3. CASE Goals!Begin
    <3>1. UNCHANGED <<moves, running, conds, fresh, obs, window>> /\ round < MaxRounds /\ round' = round + 1
      BY <2>3 DEF Goals!Begin, Goals!screen
    <3>2. round' \in 0..MaxRounds
      BY <3>1, StepsAssumption DEF GoalsRest, Goals!GoalsAssumption
    <3>3. retries' \in 0..3
      BY <2>3 DEF Goals!Begin, GoalsRest
    <3>4. Len(obs') <= MaxElements
      BY <3>1 DEF GoalsRest
    <3> QED BY <2>2, <3>1, <3>2, <3>3, <3>4, GoalsRestQuiet
  <2>4. CASE Goals!Observe \/ Goals!Look
    <3>1. UNCHANGED <<moves, running, conds, obs, round, retries>>
      BY <2>4 DEF Goals!Observe, Goals!Look, Goals!screen
    <3>2. fresh' \in {fresh, foreground, Nothing} /\ window' \in opened \cup {window, Nothing}
      BY <2>4 DEF Goals!Observe, Goals!Look, Goals!Active, Goals!FindWindow
    <3>3. fresh' \in opened \cup {fresh, Nothing}
      BY <3>2 DEF GoalsTypes
    <3>4. Len(obs') <= MaxElements /\ round' \in 0..MaxRounds /\ retries' \in 0..3
      BY <3>1 DEF GoalsRest
    <3> QED BY <2>2, <3>1, <3>2, <3>3, <3>4, GoalsRestQuiet
  <2>5. CASE Goals!DesktopLives
    <3>1. UNCHANGED <<obs, fresh, window, round, retries>>
      BY <2>5 DEF Goals!DesktopLives, Goals!calls
    <3>2. moves < MaxSettingsMoves /\ moves' = moves + 1
      BY <2>5 DEF Goals!DesktopLives, Goals!UserActs
    <3>3. moves' \in 0..MaxSettingsMoves
      BY <3>2, DesktopNumbers DEF GoalsRest
    <3>4. running' = running \/ running' \subseteq Processes
      BY <2>5 DEF Goals!DesktopLives
    <3> QED BY <2>2, <3>1, <3>3, <3>4 DEF GoalsRest
  <2> QED BY <1>2, <2>2, <2>3, <2>4, <2>5, GoalsRestChecks, GoalsRestWalk DEF Goals!Next, Goals!CheckStep
<1> QED BY <1>1, <1>2

LEMMA GoalsIsTyped ==
  ASSUME GoalsInv, GoalsRest
  PROVE  Goals!TypeOK
<1>1. Goals!ScreenTypeOK
  BY DEF GoalsInv, GoalsTypes, GoalsRest, Goals!ScreenTypeOK
<1>2. /\ check \in {"idle", "observe", "window", "walk", "check", "focus", "find", "state", "completed"}
      /\ check \in {"check", "focus", "find", "state"} => Len(results) < Len(conds)
  BY DEF GoalsInv, GoalsTypes, Checking
<1> QED BY <1>1, <1>2 DEF GoalsInv, GoalsTypes, GoalsRest, Goals!TypeOK

\* Every part keeps its types, whatever models, files, tasks, windows and goals there are and
\* however often the callers ask: for every value of the constants that fits the code.
THEOREM StepsPartsTyped == StepsSpec => []PartsTypeOK
<1> DEFINE Kept == /\ Inv /\ RoutingInv /\ DecisionTypes /\ Ingest!TypeOK
                   /\ VerdictInv /\ VerdictTypes
                   /\ part = "click" => Click!TypeOK
                   /\ part = "goals" => GoalsInv /\ GoalsRest
<1>1. StepsInit => Kept
  <2>1. StepsInit => Inv
    BY InitInv DEF StepsInit
  <2> QED BY <2>1, RoutingInitInv, DecisionInit, IngestTypesInit, VerdictInitInv, VerdictTypesInit,
             ClickTypesInit, GoalsInitInv, GoalsRestInit
<1>2. Kept /\ [StepsNext]_StepsVars => Kept'
  <2> SUFFICES ASSUME Kept, [StepsNext]_StepsVars PROVE Kept'
    OBVIOUS
  <2>1. Inv' /\ RoutingInv' /\ Ingest!TypeOK' /\ VerdictInv'
    BY StepOfPart, NextInv, RoutingNextInv, IngestTypesStep, VerdictNextInv
  <2>2. DecisionTypes'
    BY StepOfPart, DecisionStep DEF RoutingInv
  <2>3. VerdictTypes'
    BY StepOfPart, VerdictTypesStep
  <2>4. part' = "click" => Click!TypeOK'
    BY StepOfPart, ClickTypesStep
  <2>5. part' = "goals" => GoalsInv' /\ GoalsRest'
    BY StepOfPart, GoalsNextInv, GoalsRestStep DEF GoalsInv
  <2> QED BY <2>1, <2>2, <2>3, <2>4, <2>5
<1>3. Kept => PartsTypeOK
  <2> SUFFICES ASSUME Kept PROVE PartsTypeOK
    OBVIOUS
  <2>1. TypeOK /\ Routing!TypeOK
    BY RoutingIsTyped DEF Inv, RoutingInv
  <2>2. Verdict!TypeOK
    BY VerdictIsTyped
  <2>3. part = "goals" => Goals!TypeOK
    BY GoalsIsTyped
  <2> QED BY <2>1, <2>2, <2>3 DEF PartsTypeOK
<1> QED BY <1>1, <1>2, <1>3, PTL DEF StepsSpec

\* The same of an action that is one part of MCSteps, as the run steps has it.
THEOREM StepsActionsAreHonest == StepsSpec => []ActionIsHonest
<1>1. StepsInit => Inv
  BY InitInv DEF StepsInit
<1>2. Inv /\ [StepsNext]_StepsVars => Inv'
  BY StepOfPart, NextInv
<1> QED BY <1>1, <1>2, InvIsHonest, PTL DEF StepsSpec
=============================================================================
