-------------------------- MODULE TaskContexts_proofs --------------------------
(***************************************************************************)
(* Theorems of TaskContexts, for any number of tasks, sessions and         *)
(* contexts and whatever users and faults do.                              *)
(***************************************************************************)
EXTENDS TaskContexts, TLAPS

\* A run has the key of its own task or of a session, so that no task closes what another
\* one works with.
KeyOK == \A t \in Tasks : key[t] \in {t} \cup Sessions

\* A task whose context is in use has none that is retained: Retain overwrites nothing.
NotBoth == \A t \in Tasks : tabled[t] = NULL \/ retained[t] = NULL

\* What can be acquired shows nothing.
IdleBlank == \A c \in idle : page[c] = NoPage

\* A task is blocked, or asked for, only between two of its runs.
AtRest ==
  \A t \in Tasks :
    /\ status[t] = "blocked" => run[t] = "off"
    /\ req[t] # "none" => run[t] = "off" /\ status[t] \in {"blocked", "cancelled", "failed"}

\* What a request has looked up stays where it is; if it goes on, the page is the task's.
Looked ==
  \A t \in Tasks :
    /\ req[t] \in {"check", "grant", "switch"} => tabled[t] # NULL /\ leave[t] = "no"
    /\ req[t] \in {"check", "grant"} => page[tabled[t]].of = t

\* A run that leaves takes nothing from a later one, or from a task that was resumed.
LeavesOwn ==
  \A t \in Tasks : leave[t] # "no" =>
    t \notin resumed /\ (run[t] \in {"work", "loaded"} => key[t] # t)

RequestInv == AtRest /\ Looked /\ LeavesOwn

Inv ==
  /\ TypeOK /\ KeyOK /\ NotBoth /\ InOnePlace /\ IdleBlank /\ OwnPage /\ ResumedFindsItsPage
  /\ RequestInv

\* The parts about the pool's tables and pages, and those about runs.
PoolInv == NotBoth /\ InOnePlace /\ IdleBlank /\ OwnPage

PoolType ==
  /\ tabled \in [Keys -> Contexts \cup {NULL}] /\ retained \in [Tasks -> Contexts \cup {NULL}]
  /\ idle \subseteq Contexts /\ page \in [Contexts -> Pages]

RunType ==
  /\ status \in [Tasks -> {"none", "queued", "running", "waiting_approval", "blocked",
                           "completed", "failed", "cancelled"}]
  /\ session \in [Tasks -> Sessions \cup {NULL}]
  /\ run \in [Tasks -> {"off", "ready", "wait", "work", "loaded"}]
  /\ key \in [Tasks -> Keys] /\ approved \in [Tasks -> BOOLEAN]
  /\ leave \in [Tasks -> {"no", "retain", "release"}]
  /\ req \in [Tasks -> {"none", "resume", "fallback", "check", "grant", "switch"}]
  /\ resumed \subseteq Tasks /\ misjudged \subseteq Tasks

Working == \A t \in Tasks : run[t] \in {"work", "loaded"} => tabled[key[t]] # NULL

LEMMA TypeParts == TypeOK <=> PoolType /\ RunType /\ Working
BY DEF TypeOK, PoolType, RunType, Working

\* What is not blank is the page of a task.
LEMMA PageFacts == ASSUME PoolType, NEW c \in Contexts
                   PROVE  page[c] # NoPage => page[c].of \in Tasks /\ page[c].captcha \in BOOLEAN
BY DEF PoolType, Pages

LEMMA InitInv == Init => Inv
<1> SUFFICES ASSUME Init PROVE Inv OBVIOUS
<1>1. NULL \notin Tasks /\ NULL \notin Sessions /\ NULL \notin Contexts BY ContextsAssumption
<1>2. \A k \in Keys : tabled[k] = NULL BY DEF Init
<1>3. \A t \in Tasks : retained[t] = NULL /\ t \in Keys BY DEF Init, Keys
<1>4. TypeOK BY <1>1 DEF Init, TypeOK, Keys, Pages
<1>5. KeyOK /\ NotBoth /\ IdleBlank BY <1>2, <1>3 DEF Init, KeyOK, NotBoth, IdleBlank
<1>6. InOnePlace BY <1>2, <1>3 DEF Init, InOnePlace
<1>7. OwnPage BY <1>1, <1>2, <1>3 DEF Init, OwnPage
<1>8. ResumedFindsItsPage BY DEF Init, ResumedFindsItsPage
<1>9. RequestInv BY DEF Init, RequestInv, AtRest, Looked, LeavesOwn
<1> QED BY <1>4, <1>5, <1>6, <1>7, <1>8, <1>9 DEF Inv

-----------------------------------------------------------------------------
(* The operations of the pool.                                             *)

\* The operations keep the entry of every other key, and whose page it shows.
Keeps(k) ==
  /\ tabled'[k] = tabled[k]
  /\ tabled[k] # NULL => page'[tabled[k]].of = page[tabled[k]].of

\* get_task_context.
LEMMA GetInv ==
  ASSUME PoolType, PoolInv, NEW k \in Keys, NEW c \in Contexts, GetTaskContext(k, c), page' = page
  PROVE  /\ PoolType' /\ PoolInv' /\ tabled'[k] = c /\ tabled'[k] # NULL
         /\ \A j \in Keys \ {k} : Keeps(j)
         /\ tabled[k] # NULL => Keeps(k)
         /\ k \in Tasks => page[c].of \in {k, NULL}
<1> USE ContextsAssumption
<1>1. CASE tabled[k] = c /\ UNCHANGED <<tabled, retained, idle>>
  <2>1. c \notin idle BY <1>1 DEF PoolInv, InOnePlace
  <2>2. IdleBlank' BY <1>1, <2>1 DEF PoolInv, IdleBlank, PoolType
  <2>3. InOnePlace' /\ NotBoth' BY <1>1 DEF PoolInv, InOnePlace, NotBoth, Values
  <2>4. OwnPage' BY <1>1 DEF PoolInv, OwnPage
  <2>5. PoolType' BY <1>1 DEF PoolType
  <2> QED BY <1>1, <2>2, <2>3, <2>4, <2>5 DEF PoolInv, OwnPage, Keeps, PoolType
<1>2. CASE /\ tabled[k] = NULL /\ k \in Tasks /\ retained[k] = c
           /\ retained' = [retained EXCEPT ![k] = NULL] /\ tabled' = [tabled EXCEPT ![k] = c]
           /\ UNCHANGED idle
  <2>1. PoolType' BY <1>2 DEF PoolType, Keys
  <2>2. \A j \in Keys : tabled'[j] = IF j = k THEN c ELSE tabled[j] BY <1>2 DEF PoolType
  <2>3. \A t \in Tasks : retained'[t] = IF t = k THEN NULL ELSE retained[t] BY <1>2 DEF PoolType
  <2>4. NotBoth' BY <2>2, <2>3 DEF PoolInv, NotBoth, Keys
  <2>5. InOnePlace'
    <3>1. \A j \in Keys : tabled'[j] # NULL =>
            /\ tabled'[j] \notin idle' /\ \A i \in Keys \ {j} : tabled'[i] # tabled'[j]
            /\ \A t \in Tasks : retained'[t] # tabled'[j]
      BY <1>2, <2>2, <2>3 DEF PoolInv, InOnePlace
    <3>2. \A t \in Tasks : retained'[t] # NULL =>
            retained'[t] \notin idle' /\ \A u \in Tasks \ {t} : retained'[u] # retained'[t]
      BY <1>2, <2>3 DEF PoolInv, InOnePlace
    <3>3. Contexts \subseteq idle' \cup Values(tabled') \cup Values(retained')
      <4> SUFFICES ASSUME NEW d \in Contexts PROVE d \in idle' \cup Values(tabled') \cup Values(retained')
        OBVIOUS
      <4>1. d \in idle \/ (\E j \in Keys : tabled[j] = d) \/ (\E t \in Tasks : retained[t] = d)
        BY DEF PoolInv, InOnePlace, Values, PoolType
      <4>2. DOMAIN tabled' = Keys /\ DOMAIN retained' = Tasks BY <2>1 DEF PoolType
      <4> QED BY <1>2, <2>2, <2>3, <4>1, <4>2 DEF Values
    <3> QED BY <3>1, <3>2, <3>3 DEF InOnePlace
  <2>8. c \notin idle BY <1>2 DEF PoolInv, InOnePlace
  <2>6. IdleBlank' /\ OwnPage'
    BY <1>2, <2>2, <2>3, <2>8 DEF PoolInv, IdleBlank, OwnPage, Keys, PoolType
  <2>7. page[c].of \in {k, NULL} BY <1>2 DEF PoolInv, OwnPage
  <2> QED BY <1>2, <2>1, <2>2, <2>4, <2>5, <2>6, <2>7 DEF PoolInv, Keeps, PoolType
<1>3. CASE /\ tabled[k] = NULL /\ (k \in Tasks => retained[k] = NULL)
           /\ c \in idle /\ idle' = idle \ {c} /\ UNCHANGED retained
           /\ tabled' = [tabled EXCEPT ![k] = c]
  <2>1. PoolType' BY <1>3 DEF PoolType
  <2>2. \A j \in Keys : tabled'[j] = IF j = k THEN c ELSE tabled[j] BY <1>3 DEF PoolType
  <2>4. NotBoth' BY <1>3, <2>2 DEF PoolInv, NotBoth, Keys
  <2>5. InOnePlace'
    <3>1. \A j \in Keys : tabled'[j] # NULL =>
            /\ tabled'[j] \notin idle' /\ \A i \in Keys \ {j} : tabled'[i] # tabled'[j]
            /\ \A t \in Tasks : retained'[t] # tabled'[j]
      BY <1>3, <2>2 DEF PoolInv, InOnePlace
    <3>2. \A t \in Tasks : retained'[t] # NULL =>
            retained'[t] \notin idle' /\ \A u \in Tasks \ {t} : retained'[u] # retained'[t]
      BY <1>3 DEF PoolInv, InOnePlace
    <3>3. Contexts \subseteq idle' \cup Values(tabled') \cup Values(retained')
      <4> SUFFICES ASSUME NEW d \in Contexts PROVE d \in idle' \cup Values(tabled') \cup Values(retained')
        OBVIOUS
      <4>1. d \in idle \/ (\E j \in Keys : tabled[j] = d) \/ (\E t \in Tasks : retained[t] = d)
        BY DEF PoolInv, InOnePlace, Values, PoolType
      <4>2. DOMAIN tabled' = Keys /\ DOMAIN retained' = Tasks BY <2>1 DEF PoolType
      <4> QED BY <1>3, <2>2, <4>1, <4>2 DEF Values
    <3> QED BY <3>1, <3>2, <3>3 DEF InOnePlace
  <2>6. IdleBlank' BY <1>3 DEF PoolInv, IdleBlank, PoolType
  <2>3. page[c] = NoPage BY <1>3 DEF PoolInv, IdleBlank
  <2>7. page[c].of = NULL BY <2>3 DEF NoPage
  <2>8. OwnPage' BY <1>3, <2>2, <2>7 DEF PoolInv, OwnPage, Keys
  <2> QED BY <1>3, <2>1, <2>2, <2>4, <2>5, <2>6, <2>7, <2>8 DEF PoolInv, Keeps, PoolType
<1> QED BY <1>1, <1>2, <1>3 DEF GetTaskContext

\* Entries are cleared, and what was in them is given back.
LEMMA GiveBackInv ==
  ASSUME PoolType, PoolInv, NEW cs, GiveBack(cs),
         tabled' \in [Keys -> Contexts \cup {NULL}], retained' \in [Tasks -> Contexts \cup {NULL}],
         \A k \in Keys : tabled'[k] = tabled[k] \/ (tabled'[k] = NULL /\ tabled[k] \in cs),
         \A t \in Tasks : retained'[t] = retained[t] \/ (retained'[t] = NULL /\ retained[t] \in cs),
         \A c \in cs : \/ \E k \in Keys : tabled[k] = c /\ tabled'[k] = NULL
                      \/ \E t \in Tasks : retained[t] = c /\ retained'[t] = NULL,
         NULL \notin cs
  PROVE  PoolType' /\ PoolInv' /\ \A k \in Keys : tabled'[k] # NULL => Keeps(k)
<1> USE ContextsAssumption
<1>1. cs \subseteq Contexts BY DEF PoolType
<1>2. PoolType'
  <2>1. idle' \subseteq Contexts BY <1>1 DEF PoolType, GiveBack
  <2>2. page' = [c \in Contexts |-> IF c \in cs THEN NoPage ELSE page[c]] BY DEF GiveBack
  <2>3. NoPage \in Pages BY DEF Pages
  <2>4. page' \in [Contexts -> Pages]
    BY <2>2, <2>3 DEF PoolType
  <2> QED BY <2>1, <2>4 DEF PoolType
<1>3. \A c \in Contexts : page'[c] = IF c \in cs THEN NoPage ELSE page[c] BY DEF GiveBack
<1>4. idle' = idle \cup cs BY DEF GiveBack
<1>5. \A k \in Keys : tabled'[k] # NULL => tabled'[k] = tabled[k] /\ tabled[k] \notin cs
  BY DEF PoolInv, InOnePlace
<1>6. \A t \in Tasks : retained'[t] # NULL => retained'[t] = retained[t] /\ retained[t] \notin cs
  BY DEF PoolInv, InOnePlace
<1>7. NotBoth' BY <1>5, <1>6 DEF PoolInv, NotBoth, Keys
<1>8. InOnePlace'
  <2>1. \A j \in Keys : tabled'[j] # NULL =>
          /\ tabled'[j] \notin idle' /\ \A i \in Keys \ {j} : tabled'[i] # tabled'[j]
          /\ \A t \in Tasks : retained'[t] # tabled'[j]
    BY <1>4, <1>5, <1>6 DEF PoolInv, InOnePlace
  <2>2. \A t \in Tasks : retained'[t] # NULL =>
          retained'[t] \notin idle' /\ \A u \in Tasks \ {t} : retained'[u] # retained'[t]
    BY <1>4, <1>6 DEF PoolInv, InOnePlace
  <2>3. Contexts \subseteq idle' \cup Values(tabled') \cup Values(retained')
    <3> SUFFICES ASSUME NEW d \in Contexts PROVE d \in idle' \cup Values(tabled') \cup Values(retained')
      OBVIOUS
    <3>1. d \in idle \/ (\E j \in Keys : tabled[j] = d) \/ (\E t \in Tasks : retained[t] = d)
      BY DEF PoolInv, InOnePlace, Values, PoolType
    <3>2. DOMAIN tabled' = Keys /\ DOMAIN retained' = Tasks BY <1>2 DEF PoolType
    <3>3. d \in idle' \/ (\E j \in Keys : tabled'[j] = d) \/ (\E t \in Tasks : retained'[t] = d)
      BY <1>4, <3>1
    <3> QED BY <3>2, <3>3 DEF Values
  <2> QED BY <2>1, <2>2, <2>3 DEF InOnePlace
<1>9. IdleBlank' BY <1>1, <1>3, <1>4 DEF PoolInv, IdleBlank, PoolType
<1>10. OwnPage' BY <1>3, <1>5, <1>6 DEF PoolInv, OwnPage, Keys
<1>11. \A k \in Keys : tabled'[k] # NULL => Keeps(k) BY <1>3, <1>5 DEF Keeps, PoolType
<1> QED BY <1>2, <1>7, <1>8, <1>9, <1>10, <1>11 DEF PoolInv

\* release_task_context: the entry of the task is cleared.
LEMMA ReleaseInv ==
  ASSUME PoolType, PoolInv, NEW t \in Tasks, Release(t)
  PROVE  PoolType' /\ PoolInv' /\ \A k \in Keys \ {t} : Keeps(k)
<1> USE ContextsAssumption
<1>1. t \in Keys BY DEF Keys
<1>2. \A k \in Keys : tabled'[k] = IF k = t THEN NULL ELSE tabled[k] BY DEF Release, PoolType
<1>3. tabled' \in [Keys -> Contexts \cup {NULL}] BY DEF Release, PoolType
<1>4. retained' = retained /\ GiveBack({tabled[t]} \ {NULL}) BY DEF Release
<1>5. PoolType' /\ PoolInv' /\ \A k \in Keys : tabled'[k] # NULL => Keeps(k)
  BY <1>1, <1>2, <1>3, <1>4, GiveBackInv DEF PoolType
<1> QED BY <1>2, <1>5 DEF Keeps

\* retain_task_context: the entry moves to the other table.
LEMMA RetainInv ==
  ASSUME PoolType, PoolInv, NEW t \in Tasks, Retain(t)
  PROVE  PoolType' /\ PoolInv' /\ \A k \in Keys \ {t} : Keeps(k)
<1> USE ContextsAssumption
<1>1. t \in Keys BY DEF Keys
<1>2. CASE tabled[t] = NULL
  BY <1>2 DEF Retain, pool, PoolType, PoolInv, NotBoth, InOnePlace, IdleBlank, OwnPage, Keeps, Values
<1>3. CASE tabled[t] # NULL
  <2>1. \A k \in Keys : tabled'[k] = IF k = t THEN NULL ELSE tabled[k]
    BY <1>3 DEF Retain, PoolType
  <2>2. \A u \in Tasks : retained'[u] = IF u = t THEN tabled[t] ELSE retained[u]
    BY <1>3 DEF Retain, PoolType
  <2>3. UNCHANGED <<idle, page>> BY <1>3 DEF Retain
  <2>4. retained[t] = NULL BY <1>3 DEF PoolInv, NotBoth
  <2>5. PoolType' BY <1>1, <1>3 DEF Retain, PoolType
  <2>6. NotBoth' BY <2>1, <2>2 DEF PoolInv, NotBoth, Keys
  <2>7. InOnePlace'
    <3>1. \A j \in Keys : tabled'[j] # NULL =>
            /\ tabled'[j] \notin idle' /\ \A i \in Keys \ {j} : tabled'[i] # tabled'[j]
            /\ \A u \in Tasks : retained'[u] # tabled'[j]
      BY <1>1, <2>1, <2>2, <2>3 DEF PoolInv, InOnePlace
    <3>2. \A u \in Tasks : retained'[u] # NULL =>
            retained'[u] \notin idle' /\ \A v \in Tasks \ {u} : retained'[v] # retained'[u]
      BY <1>1, <1>3, <2>2, <2>3 DEF PoolInv, InOnePlace
    <3>3. Contexts \subseteq idle' \cup Values(tabled') \cup Values(retained')
      <4> SUFFICES ASSUME NEW d \in Contexts PROVE d \in idle' \cup Values(tabled') \cup Values(retained')
        OBVIOUS
      <4>1. d \in idle \/ (\E j \in Keys : tabled[j] = d) \/ (\E u \in Tasks : retained[u] = d)
        BY DEF PoolInv, InOnePlace, Values, PoolType
      <4>2. DOMAIN tabled' = Keys /\ DOMAIN retained' = Tasks BY <2>5 DEF PoolType
      <4>3. d \in idle' \/ (\E j \in Keys : tabled'[j] = d) \/ (\E u \in Tasks : retained'[u] = d)
        BY <2>1, <2>2, <2>3, <2>4, <4>1
      <4> QED BY <4>2, <4>3 DEF Values
    <3> QED BY <3>1, <3>2, <3>3 DEF InOnePlace
  <2>8. IdleBlank' BY <2>3 DEF PoolInv, IdleBlank
  <2>9. OwnPage' BY <2>1, <2>2, <2>3 DEF PoolInv, OwnPage, Keys
  <2> QED BY <2>1, <2>3, <2>5, <2>6, <2>7, <2>8, <2>9 DEF PoolInv, Keeps
<1> QED BY <1>2, <1>3

\* close_all_retained and close_task_browser: entries of the other table are cleared.
LEMMA CloseInv ==
  ASSUME PoolType, PoolInv,
         CloseAllRetained \/ \E t \in Tasks : CloseTaskBrowser(t)
  PROVE  PoolType' /\ PoolInv' /\ \A k \in Keys : Keeps(k)
<1> USE ContextsAssumption
<1>1. CASE CloseAllRetained
  <2>1. \A t \in Tasks : retained'[t] = NULL BY <1>1 DEF CloseAllRetained
  <2>2. retained' \in [Tasks -> Contexts \cup {NULL}] BY <1>1 DEF CloseAllRetained
  <2>3. tabled' = tabled /\ GiveBack(Values(retained)) BY <1>1 DEF CloseAllRetained
  <2>4. \A t \in Tasks : retained[t] # NULL => retained[t] \in Values(retained)
    BY DEF Values, PoolType
  <2>5. \A c \in Values(retained) : \E t \in Tasks : retained[t] = c /\ retained'[t] = NULL
    BY <2>1 DEF Values, PoolType
  <2>6. NULL \notin Values(retained) BY DEF Values
  <2>7. PoolType' /\ PoolInv' /\ \A k \in Keys : tabled'[k] # NULL => Keeps(k)
    BY <2>1, <2>2, <2>3, <2>4, <2>5, <2>6, GiveBackInv DEF PoolType
  <2> QED BY <2>3, <2>7 DEF Keeps
<1>2. CASE \E t \in Tasks : CloseTaskBrowser(t)
  <2> PICK t \in Tasks : CloseTaskBrowser(t) BY <1>2
  <2>1. \A u \in Tasks : retained'[u] = IF u = t THEN NULL ELSE retained[u]
    BY DEF CloseTaskBrowser, PoolType
  <2>2. retained' \in [Tasks -> Contexts \cup {NULL}] BY DEF CloseTaskBrowser, PoolType
  <2>3. tabled' = tabled /\ GiveBack({retained[t]}) /\ retained[t] # NULL
    BY DEF CloseTaskBrowser
  <2>4. PoolType' /\ PoolInv' /\ \A k \in Keys : tabled'[k] # NULL => Keeps(k)
    BY <2>1, <2>2, <2>3, GiveBackInv DEF PoolType
  <2> QED BY <2>3, <2>4 DEF Keeps
<1> QED BY <1>1, <1>2

-----------------------------------------------------------------------------
(* Requests and runs.                                                      *)

\* A run that goes on, and a resumed task, keep what they had if the tables keep it.
LEMMA StillThere ==
  ASSUME RunType, Working, ResumedFindsItsPage, PoolType,
         \A u \in Tasks : run'[u] \in {"work", "loaded"} =>
            run[u] \in {"work", "loaded"} /\ key'[u] = key[u] /\ Keeps(key[u]),
         \A u \in resumed' : u \in resumed /\ Keeps(u)
  PROVE  Working' /\ ResumedFindsItsPage'
<1>1. Working' BY DEF Working, Keeps, RunType
<1>2. ResumedFindsItsPage' BY DEF ResumedFindsItsPage, Keeps
<1> QED BY <1>1, <1>2

\* So does a request that has looked the context up.
LEMMA StillLooked ==
  ASSUME Looked,
         \A u \in Tasks : req'[u] \in {"check", "grant", "switch"} =>
            req'[u] = req[u] /\ Keeps(u) /\ leave'[u] = leave[u]
  PROVE  Looked'
BY DEF Looked, Keeps

\* What every step may rely on.
LEMMA InvParts == Inv <=> /\ PoolType /\ RunType /\ Working /\ PoolInv /\ KeyOK
                          /\ ResumedFindsItsPage /\ AtRest /\ Looked /\ LeavesOwn
BY TypeParts DEF Inv, PoolInv, RequestInv

LEMMA InvPartsNext ==
  ASSUME PoolType', RunType', Working', PoolInv', KeyOK', ResumedFindsItsPage',
         AtRest', Looked', LeavesOwn'
  PROVE  Inv'
BY DEF Inv, PoolInv, RequestInv, TypeOK, PoolType, RunType, Working

LEMMA SubmitInv == ASSUME Inv, NEW t \in Tasks, NEW s \in Sessions \cup {NULL}, Submit(t, s)
                   PROVE  Inv'
<1>1. PoolType' /\ PoolInv' /\ \A k \in Keys : Keeps(k) BY CloseInv, InvParts DEF Submit
<1>2. RunType'
  BY InvParts DEF Submit, Schedule, RunType, Keys, history
<1>3. KeyOK' BY InvParts DEF Submit, Schedule, KeyOK, RunType
<1>4. \A u \in Tasks : run'[u] \in {"work", "loaded"} =>
        run[u] \in {"work", "loaded"} /\ key'[u] = key[u] /\ Keeps(key[u])
  BY <1>1, InvParts DEF Submit, Schedule, RunType
<1>5. \A u \in resumed' : u \in resumed /\ Keeps(u)
  BY <1>1, InvParts DEF Submit, history, RunType, Keys
<1>6. Working' /\ ResumedFindsItsPage' BY <1>4, <1>5, StillThere, InvParts
<1>7. \A u \in Tasks : req'[u] = req[u] /\ leave'[u] = leave[u] /\ Keeps(u)
  BY <1>1 DEF Submit, Keys
<1>8. Looked' BY <1>7, StillLooked, InvParts
<1>9. AtRest' BY InvParts DEF Submit, Schedule, AtRest, RunType
<1>10. LeavesOwn' BY InvParts DEF Submit, Schedule, LeavesOwn, RunType, history
<1> QED BY <1>1, <1>2, <1>3, <1>6, <1>8, <1>9, <1>10, InvPartsNext

LEMMA CloseTaskInv == ASSUME Inv, NEW t \in Tasks, CloseTaskBrowser(t) PROVE Inv'
<1>1. PoolType' /\ PoolInv' /\ \A k \in Keys : Keeps(k) BY CloseInv, InvParts
<1>2. UNCHANGED <<status, session, run, key, approved, leave, req, resumed, misjudged>>
  BY DEF CloseTaskBrowser, history
<1>3. RunType' /\ KeyOK' /\ AtRest' /\ LeavesOwn'
  BY <1>2, InvParts DEF RunType, KeyOK, AtRest, LeavesOwn
<1>4. \A u \in Tasks : key'[u] = key[u] /\ run'[u] = run[u] /\ Keeps(key[u]) /\ Keeps(u)
  BY <1>1, <1>2, InvParts DEF RunType, Keys
<1>5. \A u \in resumed' : u \in resumed /\ Keeps(u) BY <1>2, <1>4, InvParts DEF RunType
<1>6. Working' /\ ResumedFindsItsPage' BY <1>4, <1>5, StillThere, InvParts
<1>7. Looked' BY <1>2, <1>4, StillLooked, InvParts
<1> QED BY <1>1, <1>3, <1>6, <1>7, InvPartsNext

\* Steps that leave the pool alone and take no run to its page.
LEMMA QuietInv ==
  ASSUME Inv, UNCHANGED pool, resumed' \subseteq resumed,
         \A u \in Tasks : run'[u] \in {"work", "loaded"} => run[u] = run'[u] /\ key'[u] = key[u],
         RunType', KeyOK', AtRest', Looked', LeavesOwn'
  PROVE  Inv'
<1>1. PoolType' /\ PoolInv'
  BY InvParts DEF pool, PoolType, PoolInv, NotBoth, InOnePlace, IdleBlank, OwnPage, Values
<1>2. \A k \in Keys : Keeps(k) BY DEF pool, Keeps
<1>3. \A u \in Tasks : u \in Keys /\ key[u] \in Keys BY InvParts DEF RunType, Keys
<1>4. \A u \in resumed' : u \in resumed /\ Keeps(u) BY <1>2, <1>3, InvParts DEF RunType
<1>5. Working' /\ ResumedFindsItsPage' BY <1>2, <1>3, <1>4, StillThere, InvParts
<1> QED BY <1>1, <1>5, InvPartsNext

LEMMA DecisionInv ==
  ASSUME Inv, NEW t \in Tasks, Approve(t) \/ Reject(t) \/ Cancel(t) \/ Raise(t)
  PROVE  Inv'
<1> USE InvParts
<1>1. CASE Approve(t)
  <2>1. RunType' /\ KeyOK' BY <1>1 DEF Approve, Schedule, RunType, KeyOK, history, Keys
  <2>2. AtRest' BY <1>1 DEF Approve, Schedule, AtRest, RunType
  <2>3. Looked' BY <1>1 DEF Approve, pool, Looked
  <2>4. LeavesOwn' BY <1>1 DEF Approve, Schedule, LeavesOwn, RunType, history
  <2> QED BY <1>1, <2>1, <2>2, <2>3, <2>4, QuietInv DEF Approve, Schedule, history, RunType
<1>2. CASE Reject(t)
  <2>1. RunType' /\ KeyOK' BY <1>2 DEF Reject, RunType, KeyOK, history
  <2>2. AtRest' BY <1>2 DEF Reject, AtRest, RunType
  <2>3. Looked' BY <1>2 DEF Reject, pool, Looked
  <2>4. LeavesOwn' BY <1>2 DEF Reject, LeavesOwn, history
  <2> QED BY <1>2, <2>1, <2>2, <2>3, <2>4, QuietInv DEF Reject, history
<1>3. CASE Cancel(t)
  <2>1. /\ \A u \in Tasks : /\ run'[u] \in {run[u], "off"} /\ leave'[u] \in {leave[u], "no"}
                            /\ run[u] = "off" => run'[u] = "off"
        /\ run' \in [Tasks -> {"off", "ready", "wait", "work", "loaded"}]
        /\ leave' \in [Tasks -> {"no", "retain", "release"}]
    BY <1>3 DEF Cancel, RunType
  <2>2. RunType' /\ KeyOK' BY <1>3, <2>1 DEF Cancel, RunType, KeyOK
  <2>3. AtRest' BY <1>3, <2>1 DEF Cancel, AtRest, RunType
  <2>4. Looked' BY <1>3, <2>1 DEF Cancel, pool, Looked
  <2>5. LeavesOwn' BY <1>3, <2>1 DEF Cancel, LeavesOwn
  <2>6. \A u \in Tasks : run'[u] \in {"work", "loaded"} => run[u] = run'[u] /\ key'[u] = key[u]
    BY <1>3, <2>1 DEF Cancel
  <2> QED BY <1>3, <2>2, <2>3, <2>4, <2>5, <2>6, QuietInv DEF Cancel
<1>4. CASE Raise(t)
  <2>1. RunType' /\ KeyOK' BY <1>4 DEF Raise, RunType, KeyOK
  <2>2. AtRest' BY <1>4 DEF Raise, AtRest, RunType
  <2>3. Looked' BY <1>4 DEF Raise, pool, Looked
  <2>4. LeavesOwn' BY <1>4 DEF Raise, LeavesOwn, RunType
  <2> QED BY <1>4, <2>1, <2>2, <2>3, <2>4, QuietInv DEF Raise, RunType
<1> QED BY <1>1, <1>2, <1>3, <1>4

LEMMA AskInv ==
  ASSUME Inv, NEW t \in Tasks, NEW what \in {"resume", "fallback"}, Ask(t, what) PROVE Inv'
<1> USE InvParts
<1>1. RunType' /\ KeyOK' BY DEF Ask, Request, RunType, KeyOK, history
<1>2. AtRest' BY DEF Ask, Request, AtRest, RunType
<1>3. Looked' BY DEF Ask, Request, pool, Looked, RunType
<1>4. LeavesOwn' BY DEF Ask, LeavesOwn, history
<1> QED BY <1>1, <1>2, <1>3, <1>4, QuietInv DEF Ask, history

\* Whoever looks for the context of t leaves to every run, resumed task and request what it
\* has.
LEMMA AnswerKeeps ==
  ASSUME Inv, NEW t \in Tasks, NEW c \in Contexts, Look(t, c)
  PROVE  /\ PoolType' /\ PoolInv' /\ tabled'[t] = c /\ tabled'[t] # NULL /\ leave[t] = "no"
         /\ page' = page /\ page[c].of \in {t, NULL}
         /\ \A u \in Tasks : run[u] \in {"work", "loaded"} => Keeps(key[u])
         /\ \A u \in resumed : Keeps(u)
         /\ \A u \in Tasks \ {t} : Keeps(u)
<1> USE InvParts
<1>1. t \in Keys BY DEF Keys
<1>2. GetTaskContext(t, c) /\ page' = page /\ leave[t] = "no" BY DEF Look
<1>3. /\ PoolType' /\ PoolInv' /\ tabled'[t] = c /\ tabled'[t] # NULL /\ page[c].of \in {t, NULL}
      /\ \A j \in Keys \ {t} : Keeps(j)
      /\ tabled[t] # NULL => Keeps(t)
  BY <1>1, <1>2, GetInv
<1>4. \A u \in Tasks : u \in Keys /\ key[u] \in Keys BY DEF RunType, Keys
<1>5. \A u \in Tasks : run[u] \in {"work", "loaded"} => Keeps(key[u])
  BY <1>3, <1>4 DEF Working
<1>6. \A u \in resumed : Keeps(u) BY <1>3, <1>4 DEF ResumedFindsItsPage, RunType
<1> QED BY <1>2, <1>3, <1>4, <1>5, <1>6

LEMMA LookInv ==
  ASSUME Inv, NEW t \in Tasks, LookAtPage(t) \/ NoPageToResume(t) \/ AskFallback(t) PROVE Inv'
<1> USE InvParts, ContextsAssumption
<1>1. PICK c \in Contexts : Look(t, c) /\ (LookAtPage(t) => page[c] # NoPage)
  BY DEF LookAtPage, NoPageToResume, AskFallback
<1>2. /\ PoolType' /\ PoolInv' /\ tabled'[t] = c /\ tabled'[t] # NULL /\ leave[t] = "no"
      /\ page' = page /\ page[c].of \in {t, NULL}
      /\ \A u \in Tasks : run[u] \in {"work", "loaded"} => Keeps(key[u])
      /\ \A u \in resumed : Keeps(u)
      /\ \A u \in Tasks \ {t} : Keeps(u)
  BY <1>1, AnswerKeeps
<1>3. /\ UNCHANGED <<status, session, run, key, approved, leave, resumed>>
      /\ req[t] # "none" /\ misjudged' \in {misjudged, misjudged \cup {t}}
      /\ \/ LookAtPage(t) /\ req' = [req EXCEPT ![t] = "check"]
         \/ req' = [req EXCEPT ![t] = "none"]
         \/ req' = [req EXCEPT ![t] = "switch"]
  BY DEF LookAtPage, NoPageToResume, AskFallback, Request, history
<1>4. RunType' BY <1>3 DEF RunType
<1>5. KeyOK' /\ LeavesOwn' BY <1>3 DEF KeyOK, LeavesOwn
<1>6. AtRest' BY <1>3 DEF AtRest, RunType
<1>7. Working' /\ ResumedFindsItsPage' BY <1>2, <1>3, StillThere
<1>8. Looked'
  <2> SUFFICES ASSUME NEW u \in Tasks, req'[u] \in {"check", "grant", "switch"}
               PROVE  /\ tabled'[u] # NULL /\ leave'[u] = "no"
                      /\ req'[u] \in {"check", "grant"} => page'[tabled'[u]].of = u
    BY DEF Looked
  <2>1. CASE u # t
    <3>1. req'[u] = req[u] BY <1>3, <2>1 DEF RunType
    <3> QED BY <1>2, <1>3, <2>1, <3>1 DEF Looked, Keeps
  <2>2. CASE u = t
    <3>1. tabled'[t] # NULL /\ leave'[t] = "no" BY <1>2, <1>3
    <3>2. req'[t] \in {"check", "grant"} => LookAtPage(t) BY <1>3 DEF RunType
    <3>3. LookAtPage(t) => page[c].of = t BY <1>1, <1>2, PageFacts
    <3> QED BY <1>2, <2>2, <3>1, <3>2, <3>3
  <2> QED BY <2>1, <2>2
<1> QED BY <1>2, <1>4, <1>5, <1>6, <1>7, <1>8, InvPartsNext

LEMMA CheckInv == ASSUME Inv, NEW t \in Tasks, CheckPage(t) PROVE Inv'
<1> USE InvParts
<1>1. /\ req[t] = "check"
      /\ req' = [req EXCEPT ![t] = "none"] \/ req' = [req EXCEPT ![t] = "grant"]
  BY DEF CheckPage, Request
<1>2. RunType' /\ KeyOK' BY <1>1 DEF CheckPage, RunType, KeyOK, history
<1>3. AtRest' BY <1>1 DEF CheckPage, AtRest, RunType
<1>4. Looked' BY <1>1 DEF CheckPage, pool, Looked, RunType
<1>5. LeavesOwn' BY DEF CheckPage, LeavesOwn, history
<1> QED BY <1>2, <1>3, <1>4, <1>5, QuietInv DEF CheckPage, history

LEMMA GrantInv == ASSUME Inv, NEW t \in Tasks, GrantResume(t) PROVE Inv'
<1> USE InvParts
<1>1. tabled[t] # NULL /\ leave[t] = "no" /\ page[tabled[t]].of = t /\ run[t] = "off"
  BY DEF GrantResume, Request, Looked, AtRest
<1>2. PoolType' /\ PoolInv'
  BY DEF GrantResume, pool, PoolType, PoolInv, NotBoth, InOnePlace, IdleBlank, OwnPage, Values
<1>3. RunType' BY DEF GrantResume, Request, Schedule, RunType, Keys
<1>4. KeyOK' BY DEF GrantResume, Schedule, KeyOK, RunType
<1>5. Working' BY DEF GrantResume, Schedule, pool, Working, RunType
<1>6. ResumedFindsItsPage' BY <1>1 DEF GrantResume, pool, ResumedFindsItsPage
<1>7. AtRest' BY DEF GrantResume, Request, Schedule, AtRest, RunType
<1>8. Looked' BY DEF GrantResume, Request, pool, Looked, RunType
<1>9. LeavesOwn' BY <1>1 DEF GrantResume, Schedule, LeavesOwn, RunType
<1> QED BY <1>2, <1>3, <1>4, <1>5, <1>6, <1>7, <1>8, <1>9, InvPartsNext

LEMMA Marks ==
  ASSUME NEW r \in [of : Tasks, captcha : BOOLEAN], NEW b \in BOOLEAN
  PROVE  [r EXCEPT !.captcha = b] = [of |-> r.of, captcha |-> b]
OBVIOUS

\* A CAPTCHA that goes away changes nothing else.
LEMMA CaptchaInv ==
  ASSUME PoolType, PoolInv, NEW c \in Contexts, c \notin idle, page[c] # NoPage,
         UNCHANGED <<tabled, retained, idle>>, page' = [page EXCEPT ![c].captcha = FALSE]
  PROVE  PoolType' /\ PoolInv' /\ \A k \in Keys : Keeps(k)
<1>1. page[c].of \in Tasks BY PageFacts
<1>2. [page[c] EXCEPT !.captcha = FALSE] = [of |-> page[c].of, captcha |-> FALSE]
  <2>1. page[c] \in [of : Tasks, captcha : BOOLEAN] BY DEF PoolType, Pages
  <2>2. FALSE \in BOOLEAN OBVIOUS
  <2> QED BY <2>1, <2>2, Marks
<1>3. \A d \in Contexts : page'[d] = IF d = c THEN [of |-> page[c].of, captcha |-> FALSE] ELSE page[d]
  BY <1>2 DEF PoolType
<1>4. page' \in [Contexts -> Pages]
  <2>1. [of |-> page[c].of, captcha |-> FALSE] \in Pages BY <1>1 DEF Pages
  <2>2. page' = [page EXCEPT ![c] = [of |-> page[c].of, captcha |-> FALSE]] BY <1>2 DEF PoolType
  <2> QED BY <2>1, <2>2 DEF PoolType
<1>5. IdleBlank' BY <1>3 DEF PoolInv, IdleBlank, PoolType
<1>6. NotBoth' /\ InOnePlace' BY DEF PoolInv, NotBoth, InOnePlace, Values
<1>7. \A d \in Contexts : page'[d].of = page[d].of BY <1>3
<1>8. OwnPage' BY <1>7 DEF PoolInv, OwnPage
<1>9. \A k \in Keys : Keeps(k) BY <1>7 DEF Keeps, PoolType
<1> QED BY <1>4, <1>5, <1>6, <1>8, <1>9 DEF PoolInv, PoolType

\* A pool that nothing happens to.
LEMMA SamePool ==
  ASSUME PoolType, PoolInv, UNCHANGED pool PROVE PoolType' /\ PoolInv' /\ \A k \in Keys : Keeps(k)
BY DEF pool, PoolType, PoolInv, NotBoth, InOnePlace, IdleBlank, OwnPage, Values, Keeps

LEMMA FallbackInv == ASSUME Inv, NEW t \in Tasks, SwitchFallback(t) PROVE Inv'
<1> USE InvParts
<1>1. t \in Keys /\ tabled[t] # NULL /\ tabled[t] \in Contexts
  BY DEF SwitchFallback, Request, Looked, PoolType, Keys
<1>2. tabled[t] \notin idle BY <1>1 DEF PoolInv, InOnePlace
<1>3. PoolType' /\ PoolInv' /\ \A k \in Keys : Keeps(k)
  <2>1. CASE page' = page BY <2>1, SamePool DEF SwitchFallback, pool
  <2>2. CASE page[tabled[t]] # NoPage /\ page' = [page EXCEPT ![tabled[t]].captcha = FALSE]
    BY <1>1, <1>2, <2>2, CaptchaInv DEF SwitchFallback
  <2> QED BY <2>1, <2>2 DEF SwitchFallback
<1>4. RunType' BY DEF SwitchFallback, Request, Schedule, RunType, Keys, history
<1>5. KeyOK' BY DEF SwitchFallback, Schedule, KeyOK, RunType
<1>6. \A u \in Tasks : u \in Keys /\ key[u] \in Keys BY DEF RunType, Keys
<1>7. Working' /\ ResumedFindsItsPage'
  BY <1>3, <1>6, StillThere DEF SwitchFallback, Schedule, history, RunType
<1>8. AtRest' BY DEF SwitchFallback, Request, Schedule, AtRest, RunType
<1>9. Looked' BY <1>3, <1>6, StillLooked DEF SwitchFallback, Request, RunType
<1>10. LeavesOwn' BY DEF SwitchFallback, Schedule, LeavesOwn, RunType, history
<1> QED BY <1>3, <1>4, <1>5, <1>7, <1>8, <1>9, <1>10, InvPartsNext

LEMMA EndInv ==
  ASSUME Inv, NEW t \in Tasks, run[t] # "off",
         NEW st \in {"waiting_approval", "failed", "blocked", "completed"}, End(t, st)
  PROVE  Inv'
<1> USE InvParts
<1>1. leave' \in [Tasks -> {"no", "retain", "release"}] /\ \A u \in Tasks \ {t} : leave'[u] = leave[u]
  BY DEF End, RunType
<1>2. RunType' /\ KeyOK' BY <1>1 DEF End, RunType, KeyOK
<1>3. AtRest' BY DEF End, AtRest, RunType
<1>4. req[t] = "none" BY DEF AtRest
<1>5. Looked' BY <1>1, <1>4 DEF End, pool, Looked
<1>6. LeavesOwn' BY <1>1 DEF End, LeavesOwn, RunType
<1> QED BY <1>2, <1>3, <1>5, <1>6, QuietInv DEF End, RunType

LEMMA LeaveInv == ASSUME Inv, NEW t \in Tasks, Leave(t) PROVE Inv'
<1> USE InvParts
<1>1. PoolType' /\ PoolInv' /\ \A k \in Keys \ {t} : Keeps(k)
  BY RetainInv, ReleaseInv DEF Leave
<1>2. /\ UNCHANGED <<session, run, key, approved, req, resumed, misjudged>>
      /\ leave[t] # "no" /\ leave' = [leave EXCEPT ![t] = "no"]
      /\ status' = status \/ status' = [status EXCEPT ![t] = "failed"]
  BY DEF Leave, history
<1>3. RunType' /\ KeyOK' BY <1>2 DEF RunType, KeyOK
<1>4. AtRest' BY <1>2 DEF AtRest, RunType
<1>5. LeavesOwn' BY <1>2 DEF LeavesOwn, RunType
<1>6. \A u \in Tasks \ {t} : u \in Keys \ {t} /\ key[u] \in Keys \ {t}
  BY ContextsAssumption DEF KeyOK, RunType, Keys
<1>7. t \notin resumed /\ (run[t] \in {"work", "loaded"} => key[t] \in Keys \ {t})
  BY <1>2 DEF LeavesOwn, RunType
<1>8. \A u \in Tasks : run[u] \in {"work", "loaded"} => Keeps(key[u]) BY <1>1, <1>6, <1>7
<1>9. \A u \in resumed : Keeps(u) BY <1>1, <1>6, <1>7 DEF RunType
<1>10. Working' /\ ResumedFindsItsPage' BY <1>2, <1>8, <1>9, StillThere
<1>11. \A u \in Tasks : req'[u] \in {"check", "grant", "switch"} => u # t /\ leave'[u] = leave[u]
  BY <1>2 DEF Looked, RunType
<1>12. Looked' BY <1>1, <1>2, <1>6, <1>11, StillLooked
<1> QED BY <1>1, <1>3, <1>4, <1>5, <1>10, <1>12, InvPartsNext

LEMMA EnterInv == ASSUME Inv, NEW t \in Tasks, Enter(t) PROVE Inv'
<1>1. CASE /\ run' = [run EXCEPT ![t] = "wait"] /\ status' = [status EXCEPT ![t] = "running"]
           /\ UNCHANGED <<session, key, approved, leave, req, pool, history>>
  <2> USE InvParts
  <2>1. RunType' /\ KeyOK' BY <1>1 DEF RunType, KeyOK, history
  <2>2. AtRest' BY <1>1 DEF Enter, AtRest, RunType
  <2>3. Looked' BY <1>1 DEF pool, Looked
  <2>4. LeavesOwn' BY <1>1 DEF LeavesOwn, history, RunType
  <2> QED BY <1>1, <2>1, <2>2, <2>3, <2>4, QuietInv DEF history, RunType
<1>2. CASE End(t, "waiting_approval") BY <1>2, EndInv DEF Enter
<1>3. CASE End(t, "failed") BY <1>3, EndInv DEF Enter
<1> QED BY <1>1, <1>2, <1>3 DEF Enter

LEMMA GetPageInv == ASSUME Inv, NEW t \in Tasks, GetPage(t) PROVE Inv'
<1> USE InvParts
<1> PICK c \in Contexts : GetTaskContext(key[t], c) BY DEF GetPage
<1>1. page' = page /\ key[t] \in Keys BY DEF GetPage, RunType
<1>2. /\ PoolType' /\ PoolInv' /\ tabled'[key[t]] # NULL
      /\ \A j \in Keys \ {key[t]} : Keeps(j)
      /\ tabled[key[t]] # NULL => Keeps(key[t])
  BY <1>1, GetInv
<1>3. RunType' /\ KeyOK' BY DEF GetPage, RunType, KeyOK, history
<1>4. \A u \in Tasks : u \in Keys /\ key[u] \in Keys BY DEF RunType, Keys
<1>5. \A k \in Keys : tabled[k] # NULL => Keeps(k) BY <1>2
<1>6. Working' BY <1>2, <1>4, <1>5 DEF Working, GetPage, RunType, Keeps
<1>7. \A u \in resumed : Keeps(u) BY <1>4, <1>5 DEF ResumedFindsItsPage, RunType
<1>8. ResumedFindsItsPage' BY <1>7 DEF ResumedFindsItsPage, GetPage, history, Keeps
<1>9. AtRest' BY DEF GetPage, AtRest, RunType
<1>10. \A u \in Tasks : req[u] \in {"check", "grant", "switch"} => Keeps(u)
  BY <1>4, <1>5 DEF Looked
<1>11. Looked' BY <1>10, StillLooked DEF GetPage
<1>12. LeavesOwn' BY DEF GetPage, LeavesOwn, RunType, history
<1> QED BY <1>2, <1>3, <1>6, <1>8, <1>9, <1>11, <1>12, InvPartsNext

LEMMA NavigateInv == ASSUME Inv, NEW t \in Tasks, Navigate(t) PROVE Inv'
<1> USE InvParts, ContextsAssumption
<1> DEFINE c == tabled[key[t]]
<1>1. key[t] \in Keys /\ c # NULL /\ c \in Contexts BY DEF Navigate, Working, RunType, PoolType
<1>2. PICK b \in BOOLEAN : page' = [page EXCEPT ![c] = [of |-> t, captcha |-> b]] BY DEF Navigate
<1>3. \A d \in Contexts : page'[d] = IF d = c THEN [of |-> t, captcha |-> b] ELSE page[d]
  BY <1>2 DEF PoolType
<1>4. PoolType'
  <2>1. [of |-> t, captcha |-> b] \in Pages BY DEF Pages
  <2> QED BY <1>1, <1>2, <2>1 DEF PoolType, Navigate
<1>5. NotBoth' /\ InOnePlace' BY DEF Navigate, PoolInv, NotBoth, InOnePlace, Values
<1>6. c \notin idle BY <1>1 DEF PoolInv, InOnePlace
<1>7. IdleBlank' BY <1>3, <1>6 DEF Navigate, PoolInv, IdleBlank, PoolType
<1>8. \A k \in Keys : tabled[k] = c => k = key[t] BY <1>1 DEF PoolInv, InOnePlace
<1>9. \A u \in Tasks : (tabled[u] = c => u = t) /\ retained[u] # c
  <2>1. key[t] \in Tasks => key[t] = t BY DEF KeyOK
  <2> QED BY <1>1, <1>8, <2>1 DEF PoolInv, InOnePlace, Keys
<1>10. OwnPage' BY <1>3, <1>9 DEF Navigate, PoolInv, OwnPage
<1>11. RunType' /\ KeyOK' BY DEF Navigate, RunType, KeyOK
<1>12. Working' BY DEF Navigate, Working, RunType
<1>13. \A u \in Tasks \ {t} : tabled[u] # NULL => Keeps(u)
  <2> SUFFICES ASSUME NEW u \in Tasks \ {t}, tabled[u] # NULL PROVE Keeps(u) OBVIOUS
  <2>1. tabled[u] \in Contexts /\ tabled[u] # c BY <1>9 DEF PoolType, Keys
  <2> QED BY <1>3, <2>1 DEF Keeps, Navigate
<1>14. ResumedFindsItsPage' BY <1>13 DEF ResumedFindsItsPage, Navigate, RunType, Keeps
<1>15. AtRest' BY DEF Navigate, AtRest, RunType
<1>16. \A u \in Tasks : req[u] \in {"check", "grant", "switch"} => u # t /\ tabled[u] # NULL
  BY DEF Navigate, AtRest, Looked
<1>17. Looked' BY <1>13, <1>16, StillLooked DEF Navigate
<1>18. LeavesOwn' BY DEF Navigate, LeavesOwn, RunType
<1> QED BY <1>4, <1>5, <1>7, <1>10, <1>11, <1>12, <1>14, <1>15, <1>17, <1>18, InvPartsNext DEF PoolInv

LEMMA FinishInv == ASSUME Inv, NEW t \in Tasks, Finish(t) PROVE Inv'
BY EndInv DEF Finish

LEMMA SolveInv == ASSUME Inv, NEW c \in Contexts, Solve(c) PROVE Inv'
<1> USE InvParts
<1>1. NoPage.captcha = FALSE BY DEF NoPage
<1>2. c \notin idle BY <1>1 DEF Solve, PoolInv, IdleBlank
<1>3. PoolType' /\ PoolInv' /\ \A k \in Keys : Keeps(k) BY <1>1, <1>2, CaptchaInv DEF Solve
<1>4. UNCHANGED <<status, session, run, key, approved, leave, req, resumed, misjudged>>
  BY DEF Solve, history
<1>5. RunType' /\ KeyOK' /\ AtRest' /\ LeavesOwn'
  BY <1>4 DEF RunType, KeyOK, AtRest, LeavesOwn
<1>6. \A u \in Tasks : u \in Keys /\ key[u] \in Keys BY DEF RunType, Keys
<1>7. Working' /\ ResumedFindsItsPage' BY <1>3, <1>4, <1>6, StillThere DEF RunType
<1>8. Looked' BY <1>3, <1>4, <1>6, StillLooked
<1> QED BY <1>3, <1>5, <1>7, <1>8, InvPartsNext

-----------------------------------------------------------------------------
LEMMA NextInv == Inv /\ [Next]_vars => Inv'
<1> SUFFICES ASSUME Inv, [Next]_vars PROVE Inv' OBVIOUS
<1>1. CASE UNCHANGED vars
  BY <1>1 DEF vars, Inv, TypeOK, KeyOK, NotBoth, InOnePlace, IdleBlank, OwnPage,
              ResumedFindsItsPage, RequestInv, AtRest, Looked, LeavesOwn, Values
<1>2. ASSUME NEW t \in Tasks, NEW s \in Sessions \cup {NULL}, Submit(t, s) PROVE Inv'
  BY <1>2, SubmitInv
<1>3. ASSUME NEW t \in Tasks, NEW what \in {"resume", "fallback"}, Ask(t, what) PROVE Inv'
  BY <1>3, AskInv
<1>4. ASSUME NEW t \in Tasks, Approve(t) \/ Reject(t) \/ Cancel(t) \/ Raise(t) PROVE Inv'
  BY <1>4, DecisionInv
<1>5. ASSUME NEW t \in Tasks, CloseTaskBrowser(t) PROVE Inv' BY <1>5, CloseTaskInv
<1>6. ASSUME NEW t \in Tasks, RunStep(t) PROVE Inv'
  BY <1>6, EnterInv, GetPageInv, NavigateInv, FinishInv, LeaveInv DEF RunStep
<1>7. ASSUME NEW t \in Tasks, Reply(t) PROVE Inv'
  BY <1>7, LookInv, CheckInv, GrantInv, FallbackInv DEF Reply
<1>8. ASSUME NEW c \in Contexts, Solve(c) PROVE Inv' BY <1>8, SolveInv
<1> QED BY <1>1, <1>2, <1>3, <1>4, <1>5, <1>6, <1>7, <1>8 DEF Next

LEMMA Invariance == Spec => []Inv
<1> QED BY InitInv, NextInv, PTL DEF Spec

\* Every variable keeps its type, and a run that works has a context, for any number of
\* tasks, sessions and contexts.
THEOREM ContextsTypeCorrect == Spec => []TypeOK
<1>1. Inv => TypeOK BY DEF Inv
<1> QED BY <1>1, Invariance, PTL

\* Every context is in one place, and what is in it belongs to who has it there.
THEOREM ContextsStayApart == Spec => []ContextsApart
<1>1. Inv => ContextsApart BY DEF Inv, ContextsApart
<1> QED BY <1>1, Invariance, PTL

\* A task that was told that it goes on after its CAPTCHA still has the page that was
\* looked at, whatever is submitted, closed, cancelled or fails until its run gets there.
THEOREM ContextsResumedPage == Spec => []ResumedFindsItsPage
<1>1. Inv => ResumedFindsItsPage BY DEF Inv
<1> QED BY <1>1, Invariance, PTL
=============================================================================
