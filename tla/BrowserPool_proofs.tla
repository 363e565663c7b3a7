-------------------------- MODULE BrowserPool_proofs --------------------------
(***************************************************************************)
(* Whatever is cancelled, fails or crashes, for every set of coroutines,   *)
(* keys and contexts and for every bound: the types, one owner for each    *)
(* context, and a lock that is held only by who creates a context. What    *)
(* MCPoolSafety promises to runs that work for different keys, of which    *)
(* the first starts the browser alone, for every number of runs, closers,  *)
(* keys and contexts: isolation, a true account, no context lost, none     *)
(* owned by a task that has ended, only usable ones handed out, and a run  *)
(* that waits has something to wait for.                                   *)
(***************************************************************************)
EXTENDS MCPoolSafety, SequenceTheorems, FiniteSetTheorems, TLAPS

USE DEF chromium, Launched, AfterShutdown, ContextsGo, BrowserIsValid

\* A coroutine that works for a key has one; closers only ever close.
RolesOK ==
  /\ \A p \in Runs : pc[p] # "idle" => key[p] \in Keys
  /\ \A p \in Closers :
       /\ pc[p] \in {"idle", "snapshot", "closePop", "put", "drain", "clear", "quit", "stop"}
       /\ cont[p] \in {"idle", "stop"}

\* The inductive invariant.
IInv == TypeOK /\ RolesOK /\ OneOwner

LEMMA RemoveAtType ==
  ASSUME NEW S, NEW q \in Seq(S), NEW i \in 1..Len(q)
  PROVE  RemoveAt(q, i) \in Seq(S)
BY SubSeqProperties, ConcatProperties, LenProperties DEF RemoveAt

\* What is behind the element that is removed moves up.
LEMMA RemovedFrom ==
  ASSUME NEW S, NEW q \in Seq(S), NEW n \in 1..Len(q)
  PROVE  /\ Len(RemoveAt(q, n)) = Len(q) - 1 /\ Len(q) \in Nat
         /\ \A i \in 1..Len(q) - 1 : RemoveAt(q, n)[i] = IF i < n THEN q[i] ELSE q[i + 1]
<1> DEFINE a == SubSeq(q, 1, n - 1)
           b == SubSeq(q, n + 1, Len(q))
<1>1. Len(q) \in Nat /\ n \in Int /\ n - 1 \in Int /\ n + 1 \in Int /\ Len(q) \in Int
  OBVIOUS
<1>2. \A i \in 1..Len(q) : q[i] \in S
  OBVIOUS
<1>3. a \in Seq(S) /\ Len(a) = n - 1 /\ \A i \in 1..n - 1 : a[i] = q[i]
  <2>1. \A i \in 1..n - 1 : q[i] \in S
    BY <1>2
  <2>2. a \in Seq(S) /\ Len(a) = (IF 1 <= n - 1 THEN n - 1 - 1 + 1 ELSE 0)
        /\ \A i \in 1..(n - 1) - 1 + 1 : a[i] = q[1 + i - 1]
    BY <1>1, <2>1, SubSeqProperties
  <2> QED BY <1>1, <2>2
<1>4. b \in Seq(S) /\ Len(b) = Len(q) - n /\ \A i \in 1..Len(q) - n : b[i] = q[n + i]
  <2>1. \A i \in n + 1..Len(q) : q[i] \in S
    BY <1>2
  <2>2. b \in Seq(S) /\ Len(b) = (IF n + 1 <= Len(q) THEN Len(q) - (n + 1) + 1 ELSE 0)
        /\ \A i \in 1..Len(q) - (n + 1) + 1 : b[i] = q[(n + 1) + i - 1]
    BY <1>1, <2>1, SubSeqProperties
  <2>3. \A i \in Nat : (n + 1) + i - 1 = n + i
    BY <1>1
  <2>4. /\ (IF n + 1 <= Len(q) THEN Len(q) - (n + 1) + 1 ELSE 0) = Len(q) - n
        /\ Len(q) - (n + 1) + 1 = Len(q) - n /\ 1..Len(q) - n \subseteq Nat
    BY <1>1
  <2> HIDE DEF b
  <2> QED BY <2>2, <2>3, <2>4
<1>5. RemoveAt(q, n) = a \o b
  BY DEF RemoveAt
<1> HIDE DEF a, b
<1>6. /\ Len(a \o b) = Len(a) + Len(b)
      /\ \A i \in 1..Len(a) + Len(b) : (a \o b)[i] = IF i <= Len(a) THEN a[i] ELSE b[i - Len(a)]
  BY <1>3, <1>4, ConcatProperties
<1>7. Len(a) + Len(b) = Len(q) - 1
  BY <1>1, <1>3, <1>4
<1>8. ASSUME NEW i \in 1..Len(q) - 1
      PROVE  (a \o b)[i] = IF i < n THEN q[i] ELSE q[i + 1]
  <2>1. CASE i < n
    BY <1>1, <1>3, <1>6, <1>7, <2>1
  <2>2. CASE ~(i < n)
    <3>1. i - (n - 1) \in 1..Len(q) - n /\ n + (i - (n - 1)) = i + 1 /\ ~(i <= n - 1)
      BY <1>1, <2>2
    <3> QED BY <1>3, <1>4, <1>6, <1>7, <2>2, <3>1
  <2> QED BY <2>1, <2>2
<1> QED BY <1>5, <1>6, <1>7, <1>8

LEMMA LockedType ==
  ASSUME NEW p \in Procs, NEW label, LoopType, Locked(p, label)
  PROVE  lockQ' \in Seq(Procs) /\ pc[p] = label
BY HeadTailProperties DEF Locked, At, LoopType

\* A coroutine that works for a key is a run, and the key is one of Keys.
LEMMA WorkingKey ==
  ASSUME NEW p \in Procs, RolesOK, pc[p] \in {"lookup", "assign", "pop", "retain"}
  PROVE  key[p] \in Keys
BY DEF RolesOK, Procs

\* Every step of a coroutine preserves the types: one step per action.
LEMMA StepType ==
  ASSUME NEW p \in Procs, IInv, Step(p)
  PROVE  TypeOK'
<1> USE DEF TypeOK, IInv
<1>1. CASE QueueForLock(p)
  <2>1. PoolType'
    BY <1>1 DEF QueueForLock, At, Continue, Await, PoolType, LocalType, LoopType, pool
  <2>2. LoopType'
    BY <1>1, PoolAssumption DEF QueueForLock, Continue, Await, LoopType, Labels, LockLabels, lockVars
  <2>3. LocalType'
    BY <1>1, PoolAssumption DEF QueueForLock, At, Continue, Await, PoolType, LocalType, LoopType, pool, closing
  <2>4. CounterType'
    BY <1>1 DEF QueueForLock, CounterType, counters
  <2> QED  BY <2>1, <2>2, <2>3, <2>4
<1>2. CASE Lookup(p)
  <2>1. PoolType'
    BY <1>2, LockedType, WorkingKey DEF Lookup, Continue, Await, PoolType, LocalType, LoopType, pool
  <2>2. LoopType'
    BY <1>2, LockedType, PoolAssumption DEF Lookup, Continue, Await, LoopType, Labels, LockLabels, lockVars
  <2>3. LocalType'
    BY <1>2, LockedType, WorkingKey, PoolAssumption DEF Lookup, Continue, Await, PoolType, LocalType, LoopType, pool, closing
  <2>4. CounterType'
    BY <1>2 DEF Lookup, CounterType, counters
  <2> QED  BY <2>1, <2>2, <2>3, <2>4
<1>3. CASE Start(p)
  <2>1. PoolType'
    BY <1>3 DEF Start, At, Continue, Await, PoolType, LocalType, LoopType, pool
  <2>2. LoopType'
    BY <1>3, PoolAssumption DEF Start, Continue, Await, LoopType, Labels, LockLabels, lockVars
  <2>3. LocalType'
    BY <1>3, PoolAssumption DEF Start, At, Continue, Await, PoolType, LocalType, LoopType, pool, closing
  <2>4. CounterType'
    BY <1>3 DEF Start, CounterType, counters
  <2> QED  BY <2>1, <2>2, <2>3, <2>4
<1>4. CASE Launch(p)
  <2>1. PoolType'
    BY <1>4 DEF Launch, At, Continue, Await, PoolType, LocalType, LoopType, pool
  <2>2. LoopType'
    BY <1>4, PoolAssumption DEF Launch, Continue, Await, LoopType, Labels, LockLabels, lockVars
  <2>3. LocalType'
    BY <1>4, PoolAssumption DEF Launch, At, Continue, Await, PoolType, LocalType, LoopType, pool, closing
  <2>4. CounterType'
    BY <1>4 DEF Launch, CounterType, counters
  <2> QED  BY <2>1, <2>2, <2>3, <2>4
<1>5. CASE Acquire(p)
  <2>1. PoolType'
    BY <1>5, LockedType DEF Acquire, Continue, Await, PoolType, LocalType, LoopType, pool
  <2>2. LoopType'
    BY <1>5, LockedType, PoolAssumption DEF Acquire, Continue, Await, LoopType, Labels, LockLabels, lockVars
  <2>3. LocalType'
    BY <1>5, LockedType, PoolAssumption DEF Acquire, Continue, Await, PoolType, LocalType, LoopType, pool, closing
  <2>4. CounterType'
    BY <1>5 DEF Acquire, CounterType, counters
  <2> QED  BY <2>1, <2>2, <2>3, <2>4
<1>6. CASE CreateOk(p)
  <2>1. PoolType'
    BY <1>6 DEF CreateOk, At, Continue, Await, PoolType, LocalType, LoopType, pool
  <2>2. LoopType'
    BY <1>6, PoolAssumption DEF CreateOk, Continue, Await, LoopType, Labels, LockLabels, lockVars
  <2>3. LocalType'
    BY <1>6, PoolAssumption DEF CreateOk, At, Continue, Await, PoolType, LocalType, LoopType, pool, closing
  <2>4. CounterType'
    BY <1>6 DEF CreateOk, CounterType, counters
  <2> QED  BY <2>1, <2>2, <2>3, <2>4
<1>7. CASE CreateFail(p)
  <2>1. PoolType'
    BY <1>7 DEF CreateFail, At, Continue, Await, PoolType, LocalType, LoopType, pool
  <2>2. LoopType'
    BY <1>7, PoolAssumption DEF CreateFail, Continue, Await, LoopType, Labels, LockLabels, lockVars
  <2>3. LocalType'
    BY <1>7, PoolAssumption DEF CreateFail, At, Continue, Await, PoolType, LocalType, LoopType, pool, closing
  <2>4. CounterType'
    BY <1>7 DEF CreateFail, CounterType, counters
  <2> QED  BY <2>1, <2>2, <2>3, <2>4
<1>8. CASE TakeAvailable(p)
  <2>1. PoolType'
    BY <1>8 DEF TakeAvailable, At, Continue, Await, PoolType, LocalType, LoopType, pool
  <2>2. LoopType'
    BY <1>8, PoolAssumption DEF TakeAvailable, Continue, Await, LoopType, Labels, LockLabels, lockVars
  <2>3. LocalType'
    BY <1>8, PoolAssumption DEF TakeAvailable, At, Continue, Await, PoolType, LocalType, LoopType, pool, closing
  <2>4. CounterType'
    BY <1>8 DEF TakeAvailable, CounterType, counters
  <2> QED  BY <2>1, <2>2, <2>3, <2>4
<1>9. CASE Count(p)
  <2>1. PoolType'
    BY <1>9, LockedType DEF Count, Continue, Await, PoolType, LocalType, LoopType, pool
  <2>2. LoopType'
    BY <1>9, LockedType, PoolAssumption DEF Count, Continue, Await, LoopType, Labels, LockLabels, lockVars
  <2>3. LocalType'
    BY <1>9, LockedType, PoolAssumption DEF Count, Continue, Await, PoolType, LocalType, LoopType, pool, closing
  <2>4. CounterType'
    BY <1>9 DEF Count, CounterType, counters
  <2> QED  BY <2>1, <2>2, <2>3, <2>4
<1>10. CASE Assign(p)
  <2>1. PoolType'
    BY <1>10, LockedType, WorkingKey DEF Assign, Continue, Await, PoolType, LocalType, LoopType, pool
  <2>2. LoopType'
    BY <1>10, LockedType, PoolAssumption DEF Assign, Continue, Await, LoopType, Labels, LockLabels, lockVars
  <2>3. LocalType'
    BY <1>10, LockedType, WorkingKey, PoolAssumption DEF Assign, Continue, Await, PoolType, LocalType, LoopType, pool, closing
  <2>4. CounterType'
    BY <1>10 DEF Assign, CounterType, counters
  <2> QED  BY <2>1, <2>2, <2>3, <2>4
<1>11. CASE Pop(p)
  <2>1. PoolType'
    BY <1>11, LockedType, WorkingKey DEF Pop, Continue, Await, PoolType, LocalType, LoopType, pool
  <2>2. LoopType'
    BY <1>11, LockedType, PoolAssumption DEF Pop, Continue, Await, LoopType, Labels, LockLabels, lockVars
  <2>3. LocalType'
    BY <1>11, LockedType, WorkingKey, PoolAssumption, SMTT(30) DEF Pop, Continue, Await, PoolType, LocalType, LoopType, pool, closing
  <2>4. CounterType'
    BY <1>11 DEF Pop, CounterType, counters
  <2> QED  BY <2>1, <2>2, <2>3, <2>4
<1>12. CASE Retain(p)
  <2>1. PoolType'
    BY <1>12, LockedType, WorkingKey DEF Retain, Continue, Await, PoolType, LocalType, LoopType, pool
  <2>2. LoopType'
    BY <1>12, LockedType, PoolAssumption DEF Retain, Continue, Await, LoopType, Labels, LockLabels, lockVars
  <2>3. LocalType'
    BY <1>12, LockedType, WorkingKey, PoolAssumption DEF Retain, Continue, Await, PoolType, LocalType, LoopType, pool, closing
  <2>4. CounterType'
    BY <1>12 DEF Retain, CounterType, counters
  <2> QED  BY <2>1, <2>2, <2>3, <2>4
<1>13. CASE Snapshot(p)
  <2>1. PoolType'
    BY <1>13, LockedType DEF Snapshot, AfterClosing, Continue, Await, PoolType, LocalType, LoopType, pool
  <2>2. LoopType'
    BY <1>13, LockedType, PoolAssumption DEF Snapshot, AfterClosing, Continue, Await, LoopType, Labels, LockLabels, lockVars
  <2>3. LocalType'
    BY <1>13, LockedType, PoolAssumption DEF Snapshot, AfterClosing, Continue, Await, PoolType, LocalType, LoopType, pool, closing
  <2>4. CounterType'
    BY <1>13 DEF Snapshot, CounterType, counters
  <2> QED  BY <2>1, <2>2, <2>3, <2>4
<1>14. CASE ClosePop(p)
  <2>1. PoolType'
    BY <1>14, LockedType DEF ClosePop, AfterClosing, Continue, Await, PoolType, LocalType, LoopType, pool
  <2>2. LoopType'
    BY <1>14, LockedType, PoolAssumption DEF ClosePop, AfterClosing, Continue, Await, LoopType, Labels, LockLabels, lockVars
  <2>3. LocalType'
    BY <1>14, LockedType, PoolAssumption DEF ClosePop, AfterClosing, Continue, Await, PoolType, LocalType, LoopType, pool, closing
  <2>4. CounterType'
    BY <1>14 DEF ClosePop, CounterType, counters
  <2> QED  BY <2>1, <2>2, <2>3, <2>4
<1>15. CASE Put(p)
  <2>1. PoolType'
    BY <1>15, LockedType DEF Put, AfterClosing, Continue, Await, PoolType, LocalType, LoopType, pool, OneOwner, CarriedAlone, Carrying
  <2>2. LoopType'
    BY <1>15, LockedType, PoolAssumption DEF Put, AfterClosing, Continue, Await, LoopType, Labels, LockLabels, lockVars
  <2>3. LocalType'
    BY <1>15, LockedType, PoolAssumption DEF Put, AfterClosing, Continue, Await, PoolType, LocalType, LoopType, pool, closing
  <2>4. CounterType'
    BY <1>15 DEF Put, CounterType, counters
  <2> QED  BY <2>1, <2>2, <2>3, <2>4
<1>16. CASE ClosePagesFail(p)
  <2>1. PoolType'
    BY <1>16 DEF ClosePagesFail, At, Continue, Await, PoolType, LocalType, LoopType, pool
  <2>2. LoopType'
    BY <1>16, PoolAssumption DEF ClosePagesFail, Continue, Await, LoopType, Labels, LockLabels, lockVars
  <2>3. LocalType'
    BY <1>16, PoolAssumption DEF ClosePagesFail, At, Continue, Await, PoolType, LocalType, LoopType, pool, closing
  <2>4. CounterType'
    BY <1>16 DEF ClosePagesFail, CounterType, counters
  <2> QED  BY <2>1, <2>2, <2>3, <2>4
<1>17. CASE Drain(p)
  <2>1. PoolType'
    BY <1>17 DEF Drain, At, Continue, Await, PoolType, LocalType, LoopType, pool
  <2>2. LoopType'
    BY <1>17, PoolAssumption DEF Drain, Continue, Await, LoopType, Labels, LockLabels, lockVars
  <2>3. LocalType'
    BY <1>17, PoolAssumption DEF Drain, At, Continue, Await, PoolType, LocalType, LoopType, pool, closing
  <2>4. CounterType'
    BY <1>17 DEF Drain, CounterType, counters
  <2> QED  BY <2>1, <2>2, <2>3, <2>4
<1>18. CASE Clear(p)
  <2>1. PoolType'
    BY <1>18 DEF Clear, At, Continue, Await, PoolType, LocalType, LoopType, pool
  <2>2. LoopType'
    BY <1>18, PoolAssumption DEF Clear, Continue, Await, LoopType, Labels, LockLabels, lockVars
  <2>3. LocalType'
    BY <1>18, PoolAssumption DEF Clear, At, Continue, Await, PoolType, LocalType, LoopType, pool, closing
  <2>4. CounterType'
    BY <1>18 DEF Clear, CounterType, counters
  <2> QED  BY <2>1, <2>2, <2>3, <2>4
<1>19. CASE Quit(p)
  <2>1. PoolType'
    BY <1>19 DEF Quit, At, Continue, Await, PoolType, LocalType, LoopType, pool
  <2>2. LoopType'
    BY <1>19, PoolAssumption DEF Quit, Continue, Await, LoopType, Labels, LockLabels, lockVars
  <2>3. LocalType'
    BY <1>19, PoolAssumption DEF Quit, At, Continue, Await, PoolType, LocalType, LoopType, pool, closing
  <2>4. CounterType'
    BY <1>19 DEF Quit, CounterType, counters
  <2> QED  BY <2>1, <2>2, <2>3, <2>4
<1>20. CASE Chromium(p)
  <2>1. PoolType'
    BY <1>20 DEF Chromium, At, Continue, Await, PoolType, LocalType, LoopType, pool
  <2>2. LoopType'
    BY <1>20, PoolAssumption DEF Chromium, Continue, Await, LoopType, Labels, LockLabels, lockVars
  <2>3. LocalType'
    BY <1>20, PoolAssumption DEF Chromium, At, Continue, Await, PoolType, LocalType, LoopType, pool, closing
  <2>4. CounterType'
    BY <1>20 DEF Chromium, CounterType, counters
  <2> QED  BY <2>1, <2>2, <2>3, <2>4
<1>21. CASE Stop(p)
  <2>1. PoolType'
    BY <1>21 DEF Stop, At, Continue, Await, PoolType, LocalType, LoopType, pool
  <2>2. LoopType'
    BY <1>21, PoolAssumption DEF Stop, Continue, Await, LoopType, Labels, LockLabels, lockVars
  <2>3. LocalType'
    BY <1>21, PoolAssumption DEF Stop, At, Continue, Await, PoolType, LocalType, LoopType, pool, closing
  <2>4. CounterType'
    BY <1>21 DEF Stop, CounterType, counters
  <2> QED  BY <2>1, <2>2, <2>3, <2>4
<1> QED
  BY <1>1, <1>2, <1>3, <1>4, <1>5, <1>6, <1>7, <1>8, <1>9, <1>10, <1>11, <1>12, <1>13, <1>14, <1>15, <1>16, <1>17, <1>18, <1>19, <1>20, <1>21 DEF Step

\* A step keeps runs working for a key and closers closing.
LEMMA StepRoles ==
  ASSUME NEW p \in Procs, IInv, Step(p)
  PROVE  RolesOK'
<1> USE PoolAssumption DEF RolesOK, IInv, TypeOK, LoopType, LocalType, Procs, Continue, Await
<1>1. CASE QueueForLock(p)
  BY <1>1 DEF QueueForLock, closing
<1>2. CASE Lookup(p)
  BY <1>2 DEF Lookup, Locked, At, closing
<1>3. CASE Start(p)
  BY <1>3 DEF Start, At, closing
<1>4. CASE Launch(p)
  BY <1>4 DEF Launch, At, closing
<1>5. CASE Acquire(p)
  BY <1>5 DEF Acquire, Locked, At, closing
<1>6. CASE CreateOk(p)
  BY <1>6 DEF CreateOk, At, closing
<1>7. CASE CreateFail(p)
  BY <1>7 DEF CreateFail, At, closing
<1>8. CASE TakeAvailable(p)
  BY <1>8 DEF TakeAvailable, At, closing
<1>9. CASE Count(p)
  BY <1>9 DEF Count, Locked, At, closing
<1>10. CASE Assign(p)
  BY <1>10 DEF Assign, Locked, At, closing
<1>11. CASE Pop(p)
  BY <1>11 DEF Pop, Locked, At, closing
<1>12. CASE Retain(p)
  BY <1>12 DEF Retain, Locked, At, closing
<1>13. CASE Snapshot(p)
  BY <1>13 DEF Snapshot, AfterClosing, Locked, At, closing
<1>14. CASE ClosePop(p)
  BY <1>14 DEF ClosePop, AfterClosing, Locked, At, closing
<1>15. CASE Put(p)
  BY <1>15 DEF Put, AfterClosing, Locked, At, closing
<1>16. CASE ClosePagesFail(p)
  BY <1>16 DEF ClosePagesFail, At, closing
<1>17. CASE Drain(p)
  BY <1>17 DEF Drain, At, closing
<1>18. CASE Clear(p)
  BY <1>18 DEF Clear, At, closing
<1>19. CASE Quit(p)
  BY <1>19 DEF Quit, At, closing
<1>20. CASE Chromium(p)
  BY <1>20 DEF Chromium, At, closing
<1>21. CASE Stop(p)
  BY <1>21 DEF Stop, At, closing
<1> QED
  BY <1>1, <1>2, <1>3, <1>4, <1>5, <1>6, <1>7, <1>8, <1>9, <1>10, <1>11, <1>12, <1>13, <1>14, <1>15, <1>16, <1>17, <1>18, <1>19, <1>20, <1>21 DEF Step

\* Entries that go away, and coroutines that no longer carry, harm no one.
Shrinks ==
  /\ available' = available
  /\ \A k \in Keys : taskCtx'[k] \in {taskCtx[k], NULL} /\ retained'[k] \in {retained[k], NULL}

LEMMA ShrinkDisjoint ==
  ASSUME PoolType, TablesDisjoint, Shrinks
  PROVE  TablesDisjoint'
BY PoolAssumption DEF PoolType, TablesDisjoint, Shrinks

LEMMA ShrinkCarried ==
  ASSUME CarriedAlone, Shrinks,
         \A q \in Procs : Carrying(q)' => Carrying(q) /\ ctx'[q] = ctx[q]
  PROVE  CarriedAlone'
BY DEF CarriedAlone, Shrinks

\* A coroutine that takes c out of the table that has it carries it alone.
LEMMA TakenAlone ==
  ASSUME NEW p \in Procs, NEW c, CarriedAlone, Shrinks,
         c # NULL, c \notin available,
         \A k \in Keys : c # taskCtx'[k] /\ c # retained'[k],
         \A q \in Procs \ {p} : Carrying(q) => ctx[q] # c,
         \A q \in Procs \ {p} : Carrying(q)' => Carrying(q) /\ ctx'[q] = ctx[q],
         ctx'[p] = c
  PROVE  CarriedAlone'
<1>1. \A q \in Procs \ {p} : Carrying(q) =>
        /\ ctx[q] # NULL /\ ctx[q] \notin available
        /\ \A k \in Keys : ctx[q] # taskCtx'[k] /\ ctx[q] # retained'[k]
        /\ \A r \in Procs \ {p, q} : Carrying(r) => ctx[q] # ctx[r]
  BY DEF CarriedAlone, Shrinks
<1>2. ASSUME NEW q \in Procs \ {p}, Carrying(q)'
      PROVE  /\ ctx'[q] # NULL /\ ctx'[q] \notin available'
             /\ \A k \in Keys : ctx'[q] # taskCtx'[k] /\ ctx'[q] # retained'[k]
             /\ \A r \in Procs \ {q} : Carrying(r)' => ctx'[q] # ctx'[r]
  BY <1>1, <1>2 DEF Shrinks
<1>3. /\ ctx'[p] # NULL /\ ctx'[p] \notin available'
      /\ \A k \in Keys : ctx'[p] # taskCtx'[k] /\ ctx'[p] # retained'[k]
      /\ \A r \in Procs \ {p} : Carrying(r)' => ctx'[p] # ctx'[r]
  BY DEF Shrinks
<1> QED BY <1>2, <1>3 DEF CarriedAlone

\* A step never gives a context a second owner.
LEMMA StepOneOwner ==
  ASSUME NEW p \in Procs, IInv, Step(p)
  PROVE  OneOwner'
<1> USE PoolAssumption DEF IInv, TypeOK, OneOwner, Carrying, Continue, Await
<1>1. CASE QueueForLock(p)
  <2>1. TablesDisjoint'
    BY <1>1 DEF QueueForLock, PoolType, LoopType, LocalType, pool, TablesDisjoint, CarriedAlone
  <2>2. CarriedAlone'
    BY <1>1 DEF QueueForLock, PoolType, LoopType, LocalType, pool, TablesDisjoint, CarriedAlone
  <2> QED  BY <2>1, <2>2
<1>2. CASE Lookup(p)
  <2>1. TablesDisjoint'
    <3> DEFINE k == key[p]
    <3>0. k \in Keys /\ available' = available /\ available \subseteq Contexts
      BY <1>2, LockedType, WorkingKey DEF Lookup, PoolType
    <3>1. CASE taskCtx[k] # NULL
      BY <3>0, <3>1, <1>2 DEF Lookup, TablesDisjoint
    <3>2. CASE taskCtx[k] = NULL /\ retained[k] # NULL
      <4>1. /\ taskCtx' = [taskCtx EXCEPT ![k] = retained[k]]
            /\ retained' = [retained EXCEPT ![k] = NULL]
        BY <3>2, <1>2 DEF Lookup
      <4>2. /\ DOMAIN taskCtx = Keys /\ DOMAIN retained = Keys
            /\ NULL \notin Contexts
        BY DEF PoolType
      <4> QED  BY <3>0, <3>2, <4>1, <4>2 DEF TablesDisjoint
    <3>3. CASE taskCtx[k] = NULL /\ retained[k] = NULL
      BY <3>0, <3>3, <1>2 DEF Lookup, TablesDisjoint
    <3> QED  BY <3>1, <3>2, <3>3
  <2>2. CarriedAlone'
    BY <1>2, LockedType, WorkingKey DEF Lookup, PoolType, LoopType, LocalType, pool, TablesDisjoint, CarriedAlone
  <2> QED  BY <2>1, <2>2
<1>3. CASE Start(p)
  <2>1. TablesDisjoint'
    BY <1>3 DEF Start, At, PoolType, LoopType, LocalType, pool, TablesDisjoint, CarriedAlone
  <2>2. CarriedAlone'
    BY <1>3 DEF Start, At, PoolType, LoopType, LocalType, pool, TablesDisjoint, CarriedAlone
  <2> QED  BY <2>1, <2>2
<1>4. CASE Launch(p)
  <2>1. TablesDisjoint'
    BY <1>4 DEF Launch, At, PoolType, LoopType, LocalType, pool, TablesDisjoint, CarriedAlone
  <2>2. CarriedAlone'
    BY <1>4 DEF Launch, At, PoolType, LoopType, LocalType, pool, TablesDisjoint, CarriedAlone
  <2> QED  BY <2>1, <2>2
<1>5. CASE Acquire(p)
  <2>1. TablesDisjoint'
    BY <1>5, LockedType, SMTT(30) DEF Acquire, PoolType, LoopType, LocalType, pool, TablesDisjoint, CarriedAlone
  <2>2. CarriedAlone'
    BY <1>5, LockedType, SMTT(30) DEF Acquire, PoolType, LoopType, LocalType, pool, TablesDisjoint, CarriedAlone
  <2> QED  BY <2>1, <2>2
<1>6. CASE CreateOk(p)
  <2>1. TablesDisjoint'
    BY <1>6 DEF CreateOk, At, Referenced, PoolType, LoopType, LocalType, pool, TablesDisjoint, CarriedAlone
  <2>2. CarriedAlone'
    BY <1>6 DEF CreateOk, At, Referenced, PoolType, LoopType, LocalType, pool, TablesDisjoint, CarriedAlone
  <2> QED  BY <2>1, <2>2
<1>7. CASE CreateFail(p)
  <2>1. TablesDisjoint'
    BY <1>7 DEF CreateFail, At, PoolType, LoopType, LocalType, pool, TablesDisjoint, CarriedAlone
  <2>2. CarriedAlone'
    BY <1>7 DEF CreateFail, At, PoolType, LoopType, LocalType, pool, TablesDisjoint, CarriedAlone
  <2> QED  BY <2>1, <2>2
<1>8. CASE TakeAvailable(p)
  <2>1. TablesDisjoint'
    BY <1>8 DEF TakeAvailable, At, PoolType, LoopType, LocalType, pool, TablesDisjoint, CarriedAlone
  <2>2. CarriedAlone'
    BY <1>8 DEF TakeAvailable, At, PoolType, LoopType, LocalType, pool, TablesDisjoint, CarriedAlone
  <2> QED  BY <2>1, <2>2
<1>9. CASE Count(p)
  <2>1. TablesDisjoint'
    BY <1>9, LockedType DEF Count, PoolType, LoopType, LocalType, pool, TablesDisjoint, CarriedAlone
  <2>2. CarriedAlone'
    BY <1>9, LockedType DEF Count, PoolType, LoopType, LocalType, pool, TablesDisjoint, CarriedAlone
  <2> QED  BY <2>1, <2>2
<1>10. CASE Assign(p)
  <2>1. TablesDisjoint'
    BY <1>10, LockedType, WorkingKey DEF Assign, PoolType, LoopType, LocalType, pool, TablesDisjoint, CarriedAlone
  <2>2. CarriedAlone'
    BY <1>10, LockedType, WorkingKey DEF Assign, PoolType, LoopType, LocalType, pool, TablesDisjoint, CarriedAlone
  <2> QED  BY <2>1, <2>2
<1>11. CASE Pop(p)
  <2> DEFINE k == key[p]
  <2>1. /\ pc[p] = "pop" /\ k \in Keys /\ UNCHANGED <<available, retained>>
        /\ taskCtx' = [taskCtx EXCEPT ![k] = NULL]
        /\ \/ pc' = [pc EXCEPT ![p] = "idle"] /\ ctx' = ctx
           \/ /\ taskCtx[k] # NULL
              /\ pc' = [pc EXCEPT ![p] = "put"] /\ ctx' = [ctx EXCEPT ![p] = taskCtx[k]]
    BY <1>11, LockedType, WorkingKey DEF Pop
  <2>2. Shrinks
    BY <2>1 DEF Shrinks, PoolType
  <2>3. CASE ctx' = ctx /\ pc' = [pc EXCEPT ![p] = "idle"]
    <3>1. \A q \in Procs : Carrying(q)' => Carrying(q) /\ ctx'[q] = ctx[q]
      BY <2>3 DEF LoopType
    <3> QED BY <2>2, <3>1, ShrinkDisjoint, ShrinkCarried
  <2>4. CASE /\ taskCtx[k] # NULL
             /\ pc' = [pc EXCEPT ![p] = "put"] /\ ctx' = [ctx EXCEPT ![p] = taskCtx[k]]
    <3>1. /\ ctx'[p] = taskCtx[k] /\ taskCtx[k] \notin available
          /\ \A l \in Keys : taskCtx[k] # taskCtx'[l] /\ taskCtx[k] # retained'[l]
      BY <2>1, <2>4 DEF PoolType, LocalType, TablesDisjoint
    <3>2. \A q \in Procs \ {p} : Carrying(q) => ctx[q] # taskCtx[k]
      BY <2>1 DEF CarriedAlone
    <3>3. \A q \in Procs \ {p} : Carrying(q)' => Carrying(q) /\ ctx'[q] = ctx[q]
      BY <2>4 DEF LoopType, LocalType
    <3>4. CarriedAlone'
      BY <2>2, <2>4, <3>1, <3>2, <3>3, TakenAlone
    <3> QED BY <2>2, <3>4, ShrinkDisjoint
  <2> QED BY <2>1, <2>3, <2>4
<1>12. CASE Retain(p)
  <2>1. TablesDisjoint'
    BY <1>12, LockedType, WorkingKey, SMTT(30) DEF Retain, PoolType, LoopType, LocalType, pool, TablesDisjoint, CarriedAlone
  <2>2. CarriedAlone'
    BY <1>12, LockedType, WorkingKey DEF Retain, PoolType, LoopType, LocalType, pool, TablesDisjoint, CarriedAlone
  <2> QED  BY <2>1, <2>2
<1>13. CASE Snapshot(p)
  <2>1. TablesDisjoint'
    BY <1>13, LockedType DEF Snapshot, AfterClosing, PoolType, LoopType, LocalType, pool, TablesDisjoint, CarriedAlone
  <2>2. CarriedAlone'
    BY <1>13, LockedType DEF Snapshot, AfterClosing, PoolType, LoopType, LocalType, pool, TablesDisjoint, CarriedAlone
  <2> QED  BY <2>1, <2>2
<1>14. CASE ClosePop(p)
  <2>1. PICK k \in todo[p] :
          \/ \E label \in {"closePop", "idle", "drain"} :
               pc' = [pc EXCEPT ![p] = label] /\ ctx' = ctx /\ retained' = retained
          \/ /\ retained[k] # NULL /\ retained' = [retained EXCEPT ![k] = NULL]
             /\ pc' = [pc EXCEPT ![p] = "put"] /\ ctx' = [ctx EXCEPT ![p] = retained[k]]
    BY <1>14 DEF ClosePop, AfterClosing
  <2>2. k \in Keys /\ UNCHANGED <<available, taskCtx>>
    BY <1>14 DEF ClosePop, LocalType
  <2>3. Shrinks
    BY <2>1, <2>2 DEF Shrinks, PoolType
  <2>4. CASE \E label \in {"closePop", "idle", "drain"} :
               pc' = [pc EXCEPT ![p] = label] /\ ctx' = ctx /\ retained' = retained
    <3>1. \A q \in Procs : Carrying(q)' => Carrying(q) /\ ctx'[q] = ctx[q]
      BY <2>4 DEF LoopType
    <3> QED BY <2>3, <3>1, ShrinkDisjoint, ShrinkCarried
  <2>5. CASE /\ retained[k] # NULL /\ retained' = [retained EXCEPT ![k] = NULL]
             /\ pc' = [pc EXCEPT ![p] = "put"] /\ ctx' = [ctx EXCEPT ![p] = retained[k]]
    <3>1. /\ ctx'[p] = retained[k] /\ retained[k] \notin available
          /\ \A l \in Keys : retained[k] # taskCtx'[l] /\ retained[k] # retained'[l]
      BY <2>2, <2>5 DEF PoolType, LocalType, TablesDisjoint
    <3>2. \A q \in Procs \ {p} : Carrying(q) => ctx[q] # retained[k]
      BY <2>2 DEF CarriedAlone
    <3>3. \A q \in Procs \ {p} : Carrying(q)' => Carrying(q) /\ ctx'[q] = ctx[q]
      BY <2>5 DEF LoopType, LocalType
    <3>4. CarriedAlone'
      BY <2>3, <2>5, <3>1, <3>2, <3>3, TakenAlone
    <3> QED BY <2>3, <3>4, ShrinkDisjoint
  <2> QED BY <2>1, <2>4, <2>5
<1>15. CASE Put(p)
  <2>1. TablesDisjoint'
    BY <1>15, LockedType DEF Put, AfterClosing, PoolType, LoopType, LocalType, pool, TablesDisjoint, CarriedAlone
  <2>2. CarriedAlone'
    BY <1>15, LockedType DEF Put, AfterClosing, PoolType, LoopType, LocalType, pool, TablesDisjoint, CarriedAlone
  <2> QED  BY <2>1, <2>2
<1>16. CASE ClosePagesFail(p)
  <2>1. TablesDisjoint'
    BY <1>16 DEF ClosePagesFail, At, PoolType, LoopType, LocalType, pool, TablesDisjoint, CarriedAlone
  <2>2. CarriedAlone'
    BY <1>16 DEF ClosePagesFail, At, PoolType, LoopType, LocalType, pool, TablesDisjoint, CarriedAlone
  <2> QED  BY <2>1, <2>2
<1>17. CASE Drain(p)
  <2>1. TablesDisjoint'
    BY <1>17, SMTT(30) DEF Drain, At, PoolType, LoopType, LocalType, pool, TablesDisjoint, CarriedAlone
  <2>2. CarriedAlone'
    BY <1>17, ZenonT(30) DEF Drain, At, PoolType, LoopType, LocalType, pool, TablesDisjoint, CarriedAlone
  <2> QED  BY <2>1, <2>2
<1>18. CASE Clear(p)
  <2>1. TablesDisjoint'
    BY <1>18 DEF Clear, At, PoolType, LoopType, LocalType, pool, TablesDisjoint, CarriedAlone
  <2>2. CarriedAlone'
    BY <1>18 DEF Clear, At, PoolType, LoopType, LocalType, pool, TablesDisjoint, CarriedAlone
  <2> QED  BY <2>1, <2>2
<1>19. CASE Quit(p)
  <2>1. TablesDisjoint'
    BY <1>19 DEF Quit, At, PoolType, LoopType, LocalType, pool, TablesDisjoint, CarriedAlone
  <2>2. CarriedAlone'
    BY <1>19 DEF Quit, At, PoolType, LoopType, LocalType, pool, TablesDisjoint, CarriedAlone
  <2> QED  BY <2>1, <2>2
<1>20. CASE Chromium(p)
  <2>1. TablesDisjoint'
    BY <1>20 DEF Chromium, At, PoolType, LoopType, LocalType, pool, TablesDisjoint, CarriedAlone
  <2>2. CarriedAlone'
    BY <1>20 DEF Chromium, At, PoolType, LoopType, LocalType, pool, TablesDisjoint, CarriedAlone
  <2> QED  BY <2>1, <2>2
<1>21. CASE Stop(p)
  <2>1. TablesDisjoint'
    BY <1>21 DEF Stop, At, PoolType, LoopType, LocalType, pool, TablesDisjoint, CarriedAlone
  <2>2. CarriedAlone'
    BY <1>21 DEF Stop, At, PoolType, LoopType, LocalType, pool, TablesDisjoint, CarriedAlone
  <2> QED  BY <2>1, <2>2
<1> QED
  BY <1>1, <1>2, <1>3, <1>4, <1>5, <1>6, <1>7, <1>8, <1>9, <1>10, <1>11, <1>12, <1>13, <1>14, <1>15, <1>16, <1>17, <1>18, <1>19, <1>20, <1>21 DEF Step

\* A call of the pool, a cancellation or the death of the browser.
LEMMA CallInductive ==
  ASSUME IInv,
         \/ \E p \in Runs : RunCall(p)
         \/ \E p \in Closers : CloserCall(p)
         \/ BrowserDies
  PROVE  IInv'
<1> USE PoolAssumption DEF IInv, TypeOK, Procs, Continue, Await
<1>1. ASSUME NEW p \in Runs, NEW k \in Keys, GetTaskContext(p, k)
      PROVE  IInv'
  <2>1. TypeOK'
    BY <1>1 DEF GetTaskContext, PoolType, LoopType, LocalType, CounterType, Labels, LockLabels, RolesOK, pool, lockVars, closing, counters
  <2>2. RolesOK'
    BY <1>1 DEF GetTaskContext, LoopType, LocalType, RolesOK, closing
  <2>3. OneOwner'
    BY <1>1 DEF GetTaskContext, PoolType, LoopType, LocalType, OneOwner, TablesDisjoint, CarriedAlone, Carrying, pool
  <2> QED  BY <2>1, <2>2, <2>3
<1>2. ASSUME NEW p \in Runs, GiveBack(p)
      PROVE  IInv'
  <2>1. TypeOK'
    BY <1>2, SMTT(30) DEF GiveBack, PoolType, LoopType, LocalType, CounterType, Labels, LockLabels, RolesOK, pool, lockVars, closing, counters
  <2>2. RolesOK'
    BY <1>2 DEF GiveBack, LoopType, LocalType, RolesOK, closing
  <2>3. OneOwner'
    BY <1>2, SMTT(30) DEF GiveBack, PoolType, LoopType, LocalType, OneOwner, TablesDisjoint, CarriedAlone, Carrying, pool
  <2> QED  BY <2>1, <2>2, <2>3
<1>3. ASSUME NEW p \in Runs, Cancel(p)
      PROVE  IInv'
  <2>1. TypeOK'
    <3> DEFINE i == CHOOSE j \in 1..Len(lockQ) : lockQ[j] = p
    <3>1. lockQ' \in Seq(Procs)
      <4>1. CASE Contains(lockQ, p)
        <5>1. i \in 1..Len(lockQ)
          BY <4>1 DEF Contains
        <5>2. lockQ \in Seq(Procs)
          BY DEF LoopType
        <5>3. lockQ' = RemoveAt(lockQ, i)
          BY <1>3, <4>1 DEF Cancel
        <5> HIDE DEF i
        <5> QED  BY <5>1, <5>2, <5>3, RemoveAtType
      <4>2. CASE ~Contains(lockQ, p)
        BY <1>3, <4>2 DEF Cancel, LoopType
      <4> QED  BY <4>1, <4>2
    <3>2. PoolType' /\ CounterType' /\ LocalType'
      BY <1>3 DEF Cancel, PoolType, LocalType, CounterType, pool
    <3>3. LoopType'
      BY <1>3, <3>1 DEF Cancel, LoopType, Labels, LockLabels
    <3> QED  BY <3>2, <3>3
  <2>2. RolesOK'
    BY <1>3 DEF Cancel, LoopType, LocalType, RolesOK, closing
  <2>3. OneOwner'
    BY <1>3 DEF Cancel, PoolType, LoopType, LocalType, OneOwner, TablesDisjoint, CarriedAlone, Carrying, pool
  <2> QED  BY <2>1, <2>2, <2>3
<1>4. ASSUME NEW p \in Closers, NEW k \in Keys, CloseTaskBrowser(p, k)
      PROVE  IInv'
  <2>1. TypeOK'
    BY <1>4 DEF CloseTaskBrowser, PoolType, LoopType, LocalType, CounterType, Labels, LockLabels, RolesOK, pool, lockVars, closing, counters
  <2>2. RolesOK'
    BY <1>4 DEF CloseTaskBrowser, LoopType, LocalType, RolesOK, closing
  <2>3. OneOwner'
    BY <1>4 DEF CloseTaskBrowser, PoolType, LoopType, LocalType, OneOwner, TablesDisjoint, CarriedAlone, Carrying, pool
  <2> QED  BY <2>1, <2>2, <2>3
<1>5. ASSUME NEW p \in Closers, CloseAllRetained(p)
      PROVE  IInv'
  <2>1. TypeOK'
    BY <1>5 DEF CloseAllRetained, PoolType, LoopType, LocalType, CounterType, Labels, LockLabels, RolesOK, pool, lockVars, closing, counters
  <2>2. RolesOK'
    BY <1>5 DEF CloseAllRetained, LoopType, LocalType, RolesOK, closing
  <2>3. OneOwner'
    BY <1>5 DEF CloseAllRetained, PoolType, LoopType, LocalType, OneOwner, TablesDisjoint, CarriedAlone, Carrying, pool
  <2> QED  BY <2>1, <2>2, <2>3
<1>6. ASSUME NEW p \in Closers, Shutdown(p)
      PROVE  IInv'
  <2>1. TypeOK'
    BY <1>6 DEF Shutdown, PoolType, LoopType, LocalType, CounterType, Labels, LockLabels, RolesOK, pool, lockVars, closing, counters
  <2>2. RolesOK'
    BY <1>6 DEF Shutdown, LoopType, LocalType, RolesOK, closing
  <2>3. OneOwner'
    BY <1>6 DEF Shutdown, PoolType, LoopType, LocalType, OneOwner, TablesDisjoint, CarriedAlone, Carrying, pool
  <2> QED  BY <2>1, <2>2, <2>3
<1>7. CASE BrowserDies
  <2>1. TypeOK'
    BY <1>7 DEF BrowserDies, PoolType, LoopType, LocalType, CounterType, Labels, LockLabels, RolesOK, pool, lockVars, closing, counters
  <2>2. RolesOK'
    BY <1>7 DEF BrowserDies, LoopType, LocalType, RolesOK, closing
  <2>3. OneOwner'
    BY <1>7 DEF BrowserDies, PoolType, LoopType, LocalType, OneOwner, TablesDisjoint, CarriedAlone, Carrying, pool
  <2> QED  BY <2>1, <2>2, <2>3
<1> QED
  BY <1>1, <1>2, <1>3, <1>4, <1>5, <1>6, <1>7 DEF RunCall, CloserCall

LEMMA InitIInv == Init => IInv
<1> SUFFICES ASSUME Init PROVE IInv
  OBVIOUS
<1> USE PoolAssumption DEF Init
<1>1. PoolType
  BY DEF PoolType
<1>2. LoopType /\ LocalType /\ CounterType
  BY DEF LoopType, LocalType, CounterType, Labels, LockLabels
<1>3. RolesOK
  BY DEF RolesOK, Procs
<1>4. OneOwner
  BY DEF OneOwner, TablesDisjoint, CarriedAlone, Carrying
<1> QED BY <1>1, <1>2, <1>3, <1>4 DEF IInv, TypeOK

LEMMA NextIInv == IInv /\ [Next]_vars => IInv'
<1> SUFFICES ASSUME IInv, [Next]_vars PROVE IInv'
  OBVIOUS
<1>1. ASSUME NEW p \in Procs, Step(p) PROVE IInv'
  BY <1>1, StepType, StepRoles, StepOneOwner DEF IInv
<1>2. CASE (\E p \in Runs : RunCall(p)) \/ (\E p \in Closers : CloserCall(p)) \/ BrowserDies
  BY <1>2, CallInductive
<1>3. CASE UNCHANGED vars
  BY <1>3 DEF vars, pool, lockVars, closing, counters, IInv, TypeOK, PoolType, LoopType, LocalType,
     CounterType, RolesOK, OneOwner, TablesDisjoint, CarriedAlone, Carrying
<1> QED  BY <1>1, <1>2, <1>3 DEF Next

\* Every reachable state of the pool is well formed.
THEOREM PoolTypeCorrect == Spec => []TypeOK
<1>1. IInv => TypeOK
  BY DEF IInv
<1> QED  BY <1>1, InitIInv, NextIInv, PTL DEF Spec

\* No context ever has two owners, whatever is cancelled, fails or crashes,
\* and also when several runs work under one key.
THEOREM PoolOneOwner == Spec => []OneOwner
<1>1. IInv => OneOwner
  BY DEF IInv
<1> QED  BY <1>1, InitIInv, NextIInv, PTL DEF Spec

-----------------------------------------------------------------------------
(* The lock, with every fault.                                             *)

\* Who waits for the lock is at a statement that takes it, and queues once.
QueueIs ==
  /\ \A i \in 1..Len(lockQ) : pc[lockQ[i]] \in LockLabels
  /\ \A i, j \in 1..Len(lockQ) : i # j => lockQ[i] # lockQ[j]

\* A coroutine whose new context failed shuts the pool down, and waits for the lock it has.
Recreating(p) == pc[p] = "snapshot" /\ cont[p] = "recreate"

\* The lock is held across an await to create a context, and after that failed; by nobody
\* who has been cancelled, has failed otherwise or has gone on.
LockInUse ==
  /\ \A p \in Procs : lock = p <=> pc[p] = "create" \/ Recreating(p)
  /\ \A p \in Procs : cont[p] = "recreate" => Recreating(p)
  /\ QueueIs

\* A critical section takes its coroutine off the queue and nobody else.
LEMMA LockedQueue ==
  ASSUME NEW p \in Procs, NEW label, TypeOK, QueueIs, Locked(p, label)
  PROVE  /\ pc[p] = label /\ loop \in {NULL, p} /\ lock = NULL
         /\ (lockQ = <<>> => lockQ' = <<>>)
         /\ \A i \in 1..Len(lockQ') : lockQ'[i] # p /\ \E j \in 1..Len(lockQ) : lockQ'[i] = lockQ[j]
         /\ \A i, j \in 1..Len(lockQ') : i # j => lockQ'[i] # lockQ'[j]
         /\ \A i \in 1..Len(lockQ') : pc[lockQ'[i]] \in LockLabels
<1>0. lockQ \in Seq(Procs) /\ pc[p] = label /\ loop \in {NULL, p} /\ lock = NULL
  BY DEF TypeOK, LoopType, Locked, LockIsFreeFor, At
<1>1. CASE lockQ = <<>>
  BY <1>0, <1>1 DEF Locked
<1>2. CASE lockQ # <<>>
  <2>1. lockQ' = Tail(lockQ) /\ Head(lockQ) = p
    BY <1>2 DEF Locked, LockIsFreeFor
  <2>2. /\ Len(lockQ') = Len(lockQ) - 1 /\ lockQ[1] = p
        /\ \A i \in 1..Len(lockQ') : i + 1 \in 1..Len(lockQ) /\ lockQ'[i] = lockQ[i + 1]
    BY <1>0, <1>2, <2>1, HeadTailProperties
  <2> QED BY <1>0, <1>2, <2>2 DEF QueueIs
<1> QED BY <1>1, <1>2

\* One coroutine moves: the others keep the lock, or do without it, as before.
LEMMA LockMoves ==
  ASSUME NEW p \in Procs, NEW label, TypeOK, LockInUse, lockQ' \in Seq(Procs),
         pc' = [pc EXCEPT ![p] = label], \A q \in Procs \ {p} : cont'[q] = cont[q],
         lock' = p <=> label = "create" \/ (label = "snapshot" /\ cont'[p] = "recreate"),
         cont'[p] = "recreate" => label = "snapshot",
         \A q \in Procs \ {p} : lock' = q <=> lock = q,
         \A i \in 1..Len(lockQ') : lockQ'[i] # p /\ pc[lockQ'[i]] \in LockLabels,
         \A i, j \in 1..Len(lockQ') : i # j => lockQ'[i] # lockQ'[j]
  PROVE  LockInUse'
<1>1. \A q \in Procs : pc'[q] = IF q = p THEN label ELSE pc[q]
  BY DEF TypeOK, LoopType
<1>2. \A q \in Procs : lock' = q <=> pc'[q] = "create" \/ (pc'[q] = "snapshot" /\ cont'[q] = "recreate")
  BY <1>1 DEF LockInUse, Recreating
<1>3. \A q \in Procs : cont'[q] = "recreate" => pc'[q] = "snapshot"
  BY <1>1 DEF LockInUse, Recreating
<1>4. \A i \in 1..Len(lockQ') : lockQ'[i] \in Procs /\ pc'[lockQ'[i]] \in LockLabels
  BY <1>1
<1> QED BY <1>2, <1>3, <1>4 DEF LockInUse, Recreating, QueueIs

\* A coroutine that is in no critical section, and not waiting for one, is not in the queue.
LEMMA NotQueued ==
  ASSUME NEW p \in Procs, TypeOK, QueueIs, pc[p] \notin LockLabels \/ ~Contains(lockQ, p)
  PROVE  \A i \in 1..Len(lockQ) : lockQ[i] # p /\ pc[lockQ[i]] \in LockLabels
<1>1. ASSUME NEW i \in 1..Len(lockQ), lockQ[i] = p PROVE Contains(lockQ, p)
  BY <1>1 DEF Contains
<1> QED BY <1>1 DEF QueueIs

LEMMA StepLock ==
  ASSUME NEW p \in Procs, IInv, LockInUse, IInv', Step(p)
  PROVE  LockInUse'
<1> USE PoolAssumption DEF Continue, Await
<1>0. /\ TypeOK /\ QueueIs /\ lockQ' \in Seq(Procs) /\ lockQ \in Seq(Procs) /\ NULL \notin Procs
      /\ cont \in [Procs -> {"idle", "stop", "launch", "recreate"}]
  BY DEF IInv, TypeOK, LoopType, LocalType, LockInUse
<1>1. CASE QueueForLock(p)
  <2>1. /\ Len(lockQ') = Len(lockQ) + 1 /\ lockQ'[Len(lockQ) + 1] = p
        /\ \A i \in 1..Len(lockQ) : lockQ'[i] = lockQ[i] /\ lockQ[i] # p
    BY <1>0, <1>1, AppendProperties DEF QueueForLock, Contains
  <2>2. pc' = pc /\ lock' = lock /\ cont' = cont /\ pc[p] \in LockLabels
    BY <1>1 DEF QueueForLock, lockVars, closing
  <2>3. QueueIs'
    BY <1>0, <2>1, <2>2 DEF QueueIs
  <2> QED BY <2>2, <2>3 DEF LockInUse, Recreating
<1>2. CASE Lookup(p) \/ Acquire(p) \/ Count(p) \/ Assign(p) \/ Pop(p) \/ Retain(p) \/ Snapshot(p) \/ ClosePop(p) \/ Put(p)
  <2>1. \E label : Locked(p, label)
    BY <1>2 DEF Lookup, Acquire, Count, Assign, Pop, Retain, Snapshot, ClosePop, Put
  <2>2. Locked(p, pc[p]) /\ lock = NULL
    BY <2>1 DEF Locked, At, LockIsFreeFor
  <2>3. PICK label : /\ pc' = [pc EXCEPT ![p] = label]
                     /\ lock' = IF label = "create" THEN p ELSE NULL
    <3>1. CASE Acquire(p)
      BY <2>2, <3>1 DEF Acquire
    <3>2. CASE Lookup(p)
      BY <2>2, <3>2 DEF Lookup
    <3>3. CASE Snapshot(p) \/ ClosePop(p) \/ Put(p)
      <4>1. \E label \in {"closePop", "idle", "drain", "put"} : pc' = [pc EXCEPT ![p] = label]
        BY <3>3 DEF Snapshot, ClosePop, Put, AfterClosing
      <4>2. lock' = lock
        BY <3>3 DEF Snapshot, ClosePop, Put
      <4> QED BY <2>2, <4>1, <4>2
    <3>4. CASE Count(p) \/ Assign(p) \/ Retain(p)
      BY <2>2, <3>4 DEF Count, Assign, Retain
    <3>5. CASE Pop(p)
      BY <2>2, <3>5 DEF Pop
    <3> QED BY <1>2, <3>1, <3>2, <3>3, <3>4, <3>5
  <2>4. cont' = cont /\ cont[p] # "recreate"
    <3>1. cont' = cont
      BY <1>2 DEF Lookup, Acquire, Count, Assign, Pop, Retain, Snapshot, ClosePop, Put, closing
    <3> QED BY <1>0, <2>2, <3>1 DEF LockInUse
  <2>5. /\ \A i \in 1..Len(lockQ') : lockQ'[i] # p /\ pc[lockQ'[i]] \in LockLabels
        /\ \A i, j \in 1..Len(lockQ') : i # j => lockQ'[i] # lockQ'[j]
    BY <1>0, <2>2, LockedQueue
  <2> QED BY <1>0, <2>2, <2>3, <2>4, <2>5, LockMoves
<1>3. CASE \/ Start(p) \/ Launch(p) \/ Chromium(p) \/ TakeAvailable(p) \/ Drain(p) \/ Clear(p) \/ Quit(p)
           \/ Stop(p) \/ ClosePagesFail(p)
  <2>1. /\ lock' = lock /\ lockQ' = lockQ /\ pc[p] \notin {"create", "snapshot"}
        /\ pc[p] \notin LockLabels \/ ~Contains(lockQ, p)
    BY <1>3 DEF Start, Launch, Chromium, TakeAvailable, Drain, Clear, Quit, Stop, ClosePagesFail, At,
       LockLabels, lockVars
  <2>2. lock # p /\ cont[p] # "recreate"
    BY <2>1 DEF LockInUse, Recreating
  <2>3. PICK label : /\ pc' = [pc EXCEPT ![p] = label] /\ label # "create"
                     /\ \A q \in Procs \ {p} : cont'[q] = cont[q]
                     /\ cont'[p] # "recreate"
    <3>1. CASE Start(p)
      BY <1>0, <2>2, <3>1 DEF Start
    <3>2. CASE Launch(p) \/ Chromium(p)
      BY <1>0, <2>2, <3>2 DEF Launch, Chromium
    <3>3. CASE TakeAvailable(p) \/ Drain(p) \/ Clear(p)
      BY <1>0, <2>2, <3>3 DEF TakeAvailable, Drain, Clear, closing
    <3>4. CASE Quit(p) \/ Stop(p) \/ ClosePagesFail(p)
      BY <1>0, <2>2, <3>4 DEF Quit, Stop, ClosePagesFail
    <3> QED BY <1>3, <3>1, <3>2, <3>3, <3>4
  <2>4. \A i \in 1..Len(lockQ) : lockQ[i] # p /\ pc[lockQ[i]] \in LockLabels
    BY <1>0, <2>1, NotQueued
  <2>5. \A i, j \in 1..Len(lockQ) : i # j => lockQ[i] # lockQ[j]
    BY <1>0 DEF QueueIs
  <2> QED BY <1>0, <2>1, <2>2, <2>3, <2>4, <2>5, LockMoves
<1>4. CASE CreateOk(p) \/ CreateFail(p)
  <2>1. lockQ' = lockQ /\ pc[p] = "create" /\ lock = p /\ cont[p] # "recreate"
    BY <1>4 DEF CreateOk, CreateFail, At, LockInUse, Recreating, lockVars
  <2>2. \/ /\ pc' = [pc EXCEPT ![p] = "assign"] /\ lock' = NULL /\ cont' = cont
        \/ /\ pc' = [pc EXCEPT ![p] = "snapshot"] /\ lock' = lock
           /\ cont' = [cont EXCEPT ![p] = "recreate"]
    BY <1>4 DEF CreateOk, CreateFail, lockVars, closing
  <2>3. \A i \in 1..Len(lockQ) : lockQ[i] # p /\ pc[lockQ[i]] \in LockLabels
    BY <1>0, <2>1, NotQueued DEF LockLabels
  <2>4. \A i, j \in 1..Len(lockQ) : i # j => lockQ[i] # lockQ[j]
    BY <1>0 DEF QueueIs
  <2>5. CASE pc' = [pc EXCEPT ![p] = "assign"] /\ lock' = NULL /\ cont' = cont
    BY <1>0, <2>1, <2>3, <2>4, <2>5, LockMoves
  <2>6. CASE /\ pc' = [pc EXCEPT ![p] = "snapshot"] /\ lock' = lock
             /\ cont' = [cont EXCEPT ![p] = "recreate"]
    <3>1. cont'[p] = "recreate" /\ \A q \in Procs \ {p} : cont'[q] = cont[q]
      BY <1>0, <2>6
    <3> QED BY <1>0, <2>1, <2>3, <2>4, <2>6, <3>1, LockMoves
  <2> QED BY <2>2, <2>5, <2>6
<1> QED BY <1>1, <1>2, <1>3, <1>4 DEF Step

\* A coroutine that is cancelled leaves the queue, and lets go of the lock.
LEMMA CancelLock ==
  ASSUME NEW p \in Runs, IInv, LockInUse, IInv', Cancel(p)
  PROVE  LockInUse'
<1>0. /\ TypeOK /\ QueueIs /\ lockQ' \in Seq(Procs) /\ lockQ \in Seq(Procs) /\ NULL \notin Procs
      /\ cont \in [Procs -> {"idle", "stop", "launch", "recreate"}] /\ p \in Procs
  BY PoolAssumption DEF IInv, TypeOK, LoopType, LocalType, LockInUse, Procs
<1>1. pc' = [pc EXCEPT ![p] = "idle"] /\ cont' = [cont EXCEPT ![p] = "idle"]
      /\ lock' = (IF lock = p THEN NULL ELSE lock)
  BY DEF Cancel
<1>2. \A i, j \in 1..Len(lockQ) : i # j => lockQ[i] # lockQ[j]
  BY <1>0 DEF QueueIs
<1>3. /\ \A i \in 1..Len(lockQ') : lockQ'[i] # p /\ pc[lockQ'[i]] \in LockLabels
      /\ \A i, j \in 1..Len(lockQ') : i # j => lockQ'[i] # lockQ'[j]
  <2>1. CASE ~Contains(lockQ, p)
    <3>1. lockQ' = lockQ
      BY <2>1 DEF Cancel
    <3> QED BY <1>0, <1>2, <2>1, <3>1, NotQueued
  <2>2. CASE Contains(lockQ, p)
    <3> DEFINE n == CHOOSE i \in 1..Len(lockQ) : lockQ[i] = p
    <3>1. n \in 1..Len(lockQ) /\ lockQ[n] = p
      BY <2>2 DEF Contains
    <3>2. lockQ' = RemoveAt(lockQ, n)
      BY <2>2 DEF Cancel
    <3> HIDE DEF n
    <3>3. /\ Len(lockQ') = Len(lockQ) - 1 /\ Len(lockQ) \in Nat
          /\ \A i \in 1..Len(lockQ) - 1 : lockQ'[i] = IF i < n THEN lockQ[i] ELSE lockQ[i + 1]
      BY <1>0, <3>1, <3>2, RemovedFrom
    <3>4. ASSUME NEW i \in 1..Len(lockQ')
          PROVE  \E k \in 1..Len(lockQ) :
                   k # n /\ k = (IF i < n THEN i ELSE i + 1) /\ lockQ'[i] = lockQ[k]
      <4>1. CASE i < n
        BY <3>1, <3>3, <4>1
      <4>2. CASE ~(i < n)
        BY <3>1, <3>3, <4>2
      <4> QED BY <4>1, <4>2
    <3>5. \A i \in 1..Len(lockQ') : lockQ'[i] # p /\ pc[lockQ'[i]] \in LockLabels
      BY <1>0, <1>2, <3>1, <3>4 DEF QueueIs
    <3>6. ASSUME NEW i \in 1..Len(lockQ'), NEW j \in 1..Len(lockQ'), lockQ'[i] = lockQ'[j]
          PROVE  i = j
      <4>1. (IF i < n THEN i ELSE i + 1) = (IF j < n THEN j ELSE j + 1)
        BY <1>2, <3>4, <3>6
      <4> QED BY <3>1, <3>3, <4>1
    <3> QED BY <3>5, <3>6
  <2> QED BY <2>1, <2>2
<1> QED BY <1>0, <1>1, <1>3, LockMoves

\* A coroutine that calls the pool, or gives back, has no lock and waits for none.
LEMMA CallMoves ==
  ASSUME IInv, LockInUse, IInv', NEW p \in Procs, NEW label \in {"lookup", "idle", "pop", "retain", "closePop", "snapshot"},
         pc[p] \in {"idle", "hold"}, lock' = lock, lockQ' = lockQ, pc' = [pc EXCEPT ![p] = label],
         \A q \in Procs \ {p} : cont'[q] = cont[q], cont'[p] # "recreate"
  PROVE  LockInUse'
<1>1. TypeOK /\ QueueIs /\ lockQ' \in Seq(Procs)
  BY DEF IInv, TypeOK, LoopType, LockInUse
<1>2. lock # p
  BY DEF LockInUse, Recreating
<1>3. \A i \in 1..Len(lockQ) : lockQ[i] # p /\ pc[lockQ[i]] \in LockLabels
  BY <1>1, NotQueued DEF LockLabels
<1>4. \A i, j \in 1..Len(lockQ) : i # j => lockQ[i] # lockQ[j]
  BY <1>1 DEF QueueIs
<1> QED BY <1>1, <1>2, <1>3, <1>4, LockMoves

LEMMA CallLock ==
  ASSUME IInv, LockInUse, IInv',
         \/ \E p \in Runs : RunCall(p)
         \/ \E p \in Closers : CloserCall(p)
         \/ BrowserDies
  PROVE  LockInUse'
<1>0. cont \in [Procs -> {"idle", "stop", "launch", "recreate"}]
  BY DEF IInv, TypeOK, LocalType
<1>2. \A p \in Procs : pc[p] \in {"idle", "hold"} => cont[p] # "recreate"
  BY DEF LockInUse, Recreating
<1>3. ASSUME NEW p \in Runs, NEW k \in Keys, GetTaskContext(p, k) PROVE LockInUse'
  <2>1. /\ p \in Procs /\ pc[p] \in {"idle", "hold"} /\ pc' = [pc EXCEPT ![p] = "lookup"]
        /\ UNCHANGED <<lock, lockQ, cont>>
    BY <1>3 DEF GetTaskContext, Continue, lockVars, closing, Procs
  <2> QED BY <1>2, <2>1, CallMoves
<1>4. ASSUME NEW p \in Runs, GiveBack(p) PROVE LockInUse'
  <2>1. \E label \in {"idle", "pop", "retain"} : pc' = [pc EXCEPT ![p] = label]
    BY <1>4 DEF GiveBack, Continue, Await
  <2>2. p \in Procs /\ pc[p] = "hold" /\ UNCHANGED <<lock, lockQ, cont>>
    BY <1>4 DEF GiveBack, lockVars, closing, Procs
  <2> QED BY <1>2, <2>1, <2>2, CallMoves
<1>5. ASSUME NEW p \in Closers, NEW k \in Keys, CloseTaskBrowser(p, k) PROVE LockInUse'
  <2>1. /\ p \in Procs /\ pc[p] = "idle" /\ pc' = [pc EXCEPT ![p] = "closePop"]
        /\ UNCHANGED <<lock, lockQ, cont>>
    BY <1>5 DEF CloseTaskBrowser, Continue, lockVars, Procs
  <2> QED BY <1>2, <2>1, CallMoves
<1>6. ASSUME NEW p \in Closers, CloseAllRetained(p) PROVE LockInUse'
  <2>1. /\ p \in Procs /\ pc[p] = "idle" /\ pc' = [pc EXCEPT ![p] = "snapshot"]
        /\ UNCHANGED <<lock, lockQ, cont>>
    BY <1>6 DEF CloseAllRetained, Continue, lockVars, closing, Procs
  <2> QED BY <1>2, <2>1, CallMoves
<1>7. ASSUME NEW p \in Closers, Shutdown(p) PROVE LockInUse'
  <2>1. p \in Procs /\ pc[p] = "idle" /\ cont' = [cont EXCEPT ![p] = "stop"]
    BY <1>7 DEF Shutdown, Procs
  <2>2. cont'[p] = "stop" /\ \A q \in Procs \ {p} : cont'[q] = cont[q]
    BY <1>0, <2>1
  <2>3. UNCHANGED <<lock, lockQ>> /\ pc' = [pc EXCEPT ![p] = "snapshot"]
    BY <1>7 DEF Shutdown, Continue, lockVars
  <2> QED BY <2>1, <2>2, <2>3, CallMoves
<1>8. CASE BrowserDies
  BY <1>8 DEF BrowserDies, lockVars, closing, LockInUse, Recreating, QueueIs
<1> QED BY <1>3, <1>4, <1>5, <1>6, <1>7, <1>8, CancelLock DEF RunCall, CloserCall

\* However runs are cancelled, calls fail and the browser dies, and also when several runs
\* work under one key: the lock is held across an await by the coroutine that creates a
\* context, or by one that waits for it itself after this failed (pool.py:132, 259) and by
\* nobody else; nobody waits for it twice. Only a failed creation can stop the pool.
THEOREM PoolLockInUse == Spec => []LockInUse
<1>1. Init => LockInUse
  BY PoolAssumption DEF Init, LockInUse, Recreating, QueueIs
<1>2. IInv /\ IInv' /\ LockInUse /\ [Next]_vars => LockInUse'
  <2> SUFFICES ASSUME IInv, IInv', LockInUse, [Next]_vars PROVE LockInUse'
    OBVIOUS
  <2>1. CASE UNCHANGED vars
    BY <2>1 DEF vars, lockVars, closing, LockInUse, Recreating, QueueIs
  <2> QED BY <2>1, StepLock, CallLock DEF Next
<1> QED BY <1>1, <1>2, InitIInv, NextIInv, PTL DEF Spec

-----------------------------------------------------------------------------
(* Runs apart: the invariant, part by part.                                *)

\* The pool as it is before the browser is launched and after it is stopped.
Bare == /\ available = {} /\ active = 0 /\ open = {}
        /\ \A k \in Keys : taskCtx[k] = NULL /\ retained[k] = NULL

\* The lock is held to create a context only; the queue holds nobody twice.
QueueOK ==
  /\ \A p \in Procs : pc[p] = "create" <=> lock = p
  /\ QueueIs

\* Where a coroutine may be while there is no browser.
BareLabels == {"idle", "lookup", "start", "snapshot", "closePop", "drain", "clear", "quit", "stop",
               "launch", "chromium"}

AtBareLabels    == \A p \in Procs : pc[p] \in BareLabels
AtMostOneRun    == \A p, q \in Runs : p # q => pc[p] = "idle" \/ pc[q] = "idle"
PlaywrightInUse == \E p \in Procs : pc[p] \in {"chromium", "stop"}

\* Without a browser there is nothing in the pool, nobody waits, and one run at most is at work:
\* nobody stops a Playwright that another one uses.
BrowserOK ==
  /\ browser # "dead" /\ ~orphans /\ doomed = {}
  /\ browser = "up" => playwright = "up"
  /\ launcher # NULL => pc[launcher] = "chromium"
  /\ browser = "none" =>
       /\ Bare /\ lock = NULL /\ lockQ = <<>>
       /\ AtBareLabels /\ AtMostOneRun
       /\ playwright = "up" => PlaywrightInUse

\* A run shuts down only before the first launch, in one stretch of the loop.
LaunchOK == \A p \in Runs :
  /\ pc[p] \notin {"closePop", "stop"} /\ todo[p] = {}
  /\ cont[p] = IF pc[p] \in {"snapshot", "drain", "clear", "quit", "launch", "chromium"} THEN "launch" ELSE "idle"
  /\ pc[p] \in {"snapshot", "drain", "clear", "quit"} => loop = p
  /\ pc[p] \in {"snapshot", "drain", "clear", "quit", "launch"} => browser = "none" /\ playwright = "none"
  /\ pc[p] = "chromium" => browser = "none" /\ playwright = "up"

\* A closer that stops the pool is the only coroutine at work.
StopOK == \A p \in Closers :
  /\ pc[p] \in {"drain", "clear", "quit", "stop"} => cont[p] = "stop"
  /\ cont[p] = "stop" =>
       /\ pc[p] # "idle" /\ \A q \in Procs \ {p} : pc[q] = "idle"
       /\ lock = NULL /\ lockQ = <<>>
       /\ pc[p] # "snapshot" => \A k \in Keys : retained[k] # NULL => k \in todo[p]
       /\ pc[p] \in {"drain", "clear", "quit", "stop"} => todo[p] = {}
       /\ pc[p] \in {"clear", "quit", "stop"} => available = {} /\ open = {}
       /\ pc[p] \in {"quit", "stop"} => Bare
       /\ pc[p] = "stop" => browser = "none"

\* What the pool refers to is open, until the contexts in use are closed.
PlacesOpen == (\A p \in Closers : pc[p] \notin {"clear", "quit"}) =>
  /\ available \subseteq open
  /\ \A k \in Keys : {taskCtx[k], retained[k]} \subseteq open \cup {NULL}
  /\ \A p \in Procs : Carrying(p) => ctx[p] \in open

\* The entries of the key a run works for are what the run takes them to be.
KeysOK ==
  /\ KeysApart
  /\ \A k \in Keys : taskCtx[k] = NULL \/ retained[k] = NULL
  /\ \A p \in Runs :
       /\ pc[p] \in {"start", "snapshot", "drain", "clear", "quit", "launch", "chromium",
                     "acquire", "create", "wait", "count", "assign"} =>
            taskCtx[key[p]] = NULL /\ retained[key[p]] = NULL
       /\ pc[p] = "put" => taskCtx[key[p]] = NULL
       /\ pc[p] = "hold" => ctx[p] # NULL /\ ctx[p] = taskCtx[key[p]]
       /\ pc[p] \in {"pop", "retain"} => key[p] \in Tasks

\* The invariant of runs apart.
Quiet ==
  /\ QueueOK /\ BrowserOK /\ LaunchOK /\ StopOK /\ PlacesOpen /\ KeysOK
  /\ Accounting /\ NothingLost /\ EndedTaskOwnsNothing /\ IsFiniteSet(open)

\* A coroutine that leaves a critical section, or was in none, keeps the queue.
LEMMA QueueKept ==
  ASSUME NEW p \in Procs, NEW label, TypeOK, QueueOK, lockQ' \in Seq(Procs),
         pc' = [pc EXCEPT ![p] = label], label = "create" <=> lock' = p,
         \A q \in Procs \ {p} : lock' = q <=> lock = q,
         \/ lockQ' = lockQ /\ pc[p] \notin LockLabels
         \/ Locked(p, pc[p])
  PROVE  QueueOK'
<1>1. /\ \A i \in 1..Len(lockQ') : lockQ'[i] \in Procs \ {p} /\ pc[lockQ'[i]] \in LockLabels
      /\ \A i, j \in 1..Len(lockQ') : i # j => lockQ'[i] # lockQ'[j]
  <2>1. CASE lockQ' = lockQ /\ pc[p] \notin LockLabels
    BY <2>1 DEF QueueOK, QueueIs, TypeOK, LoopType
  <2>2. CASE Locked(p, pc[p])
    BY <2>2, LockedQueue DEF QueueOK, QueueIs
  <2> QED BY <2>1, <2>2
<1>2. \A q \in Procs : pc'[q] = IF q = p THEN label ELSE pc[q]
  BY DEF TypeOK, LoopType
<1>3. \A q \in Procs : pc'[q] = "create" <=> lock' = q
  BY <1>2 DEF QueueOK, QueueIs
<1>4. \A i \in 1..Len(lockQ') : pc'[lockQ'[i]] \in LockLabels
  BY <1>1, <1>2
<1> QED BY <1>1, <1>3, <1>4 DEF QueueOK, QueueIs

LEMMA StepQueue ==
  ASSUME NEW p \in Procs, IInv, QueueOK, IInv', Step(p), ~CreateFail(p), ~ClosePagesFail(p)
  PROVE  QueueOK'
<1> USE PoolAssumption DEF Continue, Await
<1>0. TypeOK /\ lockQ' \in Seq(Procs) /\ lockQ \in Seq(Procs) /\ NULL \notin Procs
  BY DEF IInv, TypeOK, LoopType
<1>1. CASE QueueForLock(p)
  <2>1. /\ Len(lockQ') = Len(lockQ) + 1 /\ lockQ'[Len(lockQ) + 1] = p
        /\ \A i \in 1..Len(lockQ) : lockQ'[i] = lockQ[i] /\ lockQ[i] # p
    BY <1>0, <1>1, AppendProperties DEF QueueForLock, Contains
  <2>2. pc' = pc /\ lock' = lock /\ pc[p] \in LockLabels
    BY <1>1 DEF QueueForLock, lockVars
  <2> QED BY <1>0, <2>1, <2>2 DEF QueueOK, QueueIs
<1>2. CASE Lookup(p) \/ Acquire(p) \/ Count(p) \/ Assign(p) \/ Pop(p) \/ Retain(p) \/ Snapshot(p) \/ ClosePop(p) \/ Put(p)
  <2>1. \E label : Locked(p, label)
    BY <1>2 DEF Lookup, Acquire, Count, Assign, Pop, Retain, Snapshot, ClosePop, Put
  <2>2. Locked(p, pc[p]) /\ lock = NULL
    BY <2>1 DEF Locked, At, LockIsFreeFor
  <2>3. PICK label : /\ pc' = [pc EXCEPT ![p] = label]
                     /\ lock' = IF label = "create" THEN p ELSE NULL
    <3>1. CASE Acquire(p)
      BY <2>2, <3>1 DEF Acquire
    <3>2. CASE Lookup(p)
      BY <2>2, <3>2 DEF Lookup
    <3>3. CASE Snapshot(p) \/ ClosePop(p) \/ Put(p)
      BY <2>2, <3>3 DEF Snapshot, ClosePop, Put, AfterClosing
    <3>4. CASE Count(p) \/ Assign(p) \/ Retain(p)
      BY <2>2, <3>4 DEF Count, Assign, Retain
    <3>5. CASE Pop(p)
      BY <2>2, <3>5 DEF Pop
    <3> QED BY <1>2, <3>1, <3>2, <3>3, <3>4, <3>5
  <2> QED BY <1>0, <2>2, <2>3, QueueKept
<1>3. CASE \/ Start(p) \/ Launch(p) \/ Chromium(p) \/ TakeAvailable(p) \/ Drain(p) \/ Clear(p)
           \/ Quit(p) \/ Stop(p)
  <2>1. PICK label : pc' = [pc EXCEPT ![p] = label] /\ label # "create"
    <3>1. CASE Start(p) \/ Launch(p) \/ Chromium(p) \/ TakeAvailable(p)
      BY <3>1 DEF Start, Launch, Chromium, TakeAvailable
    <3>2. CASE Drain(p) \/ Clear(p) \/ Quit(p) \/ Stop(p)
      BY <3>2 DEF Drain, Clear, Quit, Stop
    <3> QED BY <1>3, <3>1, <3>2
  <2>2. lock' = lock /\ lockQ' = lockQ /\ pc[p] \notin LockLabels /\ pc[p] # "create"
    BY <1>3 DEF Start, Launch, Chromium, TakeAvailable, Drain, Clear, Quit, Stop, At,
       LockLabels, lockVars
  <2>3. lock # p
    BY <2>2 DEF QueueOK, QueueIs
  <2> QED BY <1>0, <2>1, <2>2, <2>3, QueueKept
<1>4. CASE CreateOk(p)
  <2>1. /\ lockQ' = lockQ /\ pc[p] = "create" /\ lock = p /\ lock' = NULL
        /\ pc' = [pc EXCEPT ![p] = "assign"]
    BY <1>4 DEF CreateOk, At, QueueOK, QueueIs
  <2>2. pc[p] \notin LockLabels
    BY <2>1 DEF LockLabels
  <2> QED BY <1>0, <2>1, <2>2, QueueKept
<1> QED BY <1>1, <1>2, <1>3, <1>4 DEF Step

\* Without faults no call of Playwright fails, and a launch comes to its end.
LEMMA NothingFails ==
  ASSUME NEW p \in Procs, IInv, BrowserOK, Apart
  PROVE  /\ ~CreateFail(p) /\ ~ClosePagesFail(p)
         /\ Launch(p) => Await(p, "chromium") /\ cont' = cont /\ playwright' = "up" /\ launcher' = p
         /\ Chromium(p) => Continue(p, "acquire") /\ browser' = "up" /\ orphans' = (browser = "up")
<1>1. failures' = failures /\ failures \in Nat /\ failures' # failures + 1
  BY DEF Apart, IInv, TypeOK, CounterType
<1>2. browser \in {"none", "up"} /\ doomed = {} /\ ~orphans
  BY DEF BrowserOK, IInv, TypeOK, PoolType
<1>6. pc[p] \in {"create", "put"} => browser = "up"
  BY <1>2 DEF BrowserOK, AtBareLabels, BareLabels
<1>3. ~CreateFail(p) /\ ~ClosePagesFail(p)
  BY <1>1, <1>6 DEF CreateFail, ClosePagesFail, At
<1>4. Launch(p) => Await(p, "chromium") /\ cont' = cont /\ playwright' = "up" /\ launcher' = p
  BY <1>1 DEF Launch
<1>5. ASSUME Chromium(p) PROVE Continue(p, "acquire") /\ browser' = "up" /\ orphans' = (browser = "up")
  <2>1. /\ browser' = "up" /\ orphans' = (orphans \/ browser = "up")
        /\ Continue(p, "acquire")
    <3>1. p \notin doomed
      BY <1>2
    <3> QED BY <1>1, <1>5, <3>1 DEF Chromium
  <2> QED BY <1>2, <2>1
<1> QED BY <1>3, <1>4, <1>5

\* Only a coroutine that is at work takes a step.
LEMMA StepWorks ==
  ASSUME NEW p \in Procs, Step(p)
  PROVE  pc[p] # "idle"
BY DEF Step, QueueForLock, Lookup, Start, Launch, Chromium, Acquire, CreateOk, CreateFail, TakeAvailable, Count, Assign,
   Pop, Retain, Snapshot, ClosePop, Put, ClosePagesFail, Drain, Clear, Quit, Stop, Locked, At, LockLabels

\* The browser and Playwright are left alone, except where they are launched and closed.
LEMMA ChromiumKept ==
  ASSUME NEW p \in Procs, Step(p), ~ClosePagesFail(p), pc[p] \notin {"launch", "chromium", "quit", "stop"}
  PROVE  UNCHANGED <<browser, playwright, launcher, doomed, orphans>>
BY DEF Step, QueueForLock, Lookup, Start, Launch, Chromium, Acquire, CreateOk, CreateFail, TakeAvailable, Count, Assign,
   Pop, Retain, Snapshot, ClosePop, Put, Drain, Clear, Quit, Stop, At

\* Without a browser nobody carries a context or works with one.
LEMMA NobodyAtWork ==
  ASSUME BrowserOK, browser = "none"
  PROVE  Bare /\ \A q \in Procs : pc[q] \notin {"count", "assign", "put", "hold", "pop", "wait"}
BY DEF BrowserOK, AtBareLabels, BareLabels

\* Before the first launch a coroutine is never made to queue for the lock.
LEMMA NobodyQueues ==
  ASSUME NEW p \in Procs, lock = NULL, lockQ = <<>>
  PROVE  ~QueueForLock(p)
BY DEF QueueForLock, LockIsFreeFor

\* What a coroutine does while there is no browser: the pool stays bare.
LEMMA StepBare ==
  ASSUME NEW p \in Procs, IInv, QueueOK, BrowserOK, LaunchOK, Apart, Step(p), browser = "none"
  PROVE  \/ Chromium(p) /\ browser' = "up"
         \/ /\ browser' = "none" /\ Bare' /\ lock' = NULL /\ lockQ' = <<>>
            /\ \E label \in BareLabels : pc' = [pc EXCEPT ![p] = label]
<1> USE DEF Continue, Await, BareLabels
<1>1. /\ Bare /\ lock = NULL /\ lockQ = <<>> /\ ~orphans
      /\ pc[p] \in BareLabels
  BY DEF BrowserOK, AtBareLabels
<1>2. CASE Chromium(p)
  BY <1>2, NothingFails
<1>10. CASE Launch(p)
  <2>1. pc' = [pc EXCEPT ![p] = "chromium"]
    BY <1>10, NothingFails
  <2>2. UNCHANGED <<pool, browser, open, lockVars>>
    BY <1>10 DEF Launch
  <2> QED BY <1>1, <2>1, <2>2 DEF Bare, pool, lockVars
<1>11. CASE Stop(p)
  BY <1>1, <1>11 DEF Stop, Bare, pool, lockVars
<1>3. CASE Lookup(p)
  <2>1. key[p] \in Keys
    BY <1>3, LockedType, WorkingKey DEF IInv, TypeOK, Lookup
  <2>2. taskCtx[key[p]] = NULL /\ retained[key[p]] = NULL
    BY <1>1, <2>1 DEF Bare
  <2>3. Locked(p, "lookup") /\ pc' = [pc EXCEPT ![p] = "start"] /\ UNCHANGED <<pool, browser, open, lock>>
    BY <1>3, <2>2 DEF Lookup, pool
  <2> QED BY <1>1, <2>3 DEF Bare, Locked, pool
<1>4. CASE Start(p)
  BY <1>1, <1>4 DEF Start, Bare, pool, lockVars
<1>5. CASE Snapshot(p)
  BY <1>1, <1>5 DEF Snapshot, AfterClosing, Bare, pool, Locked
<1>6. CASE ClosePop(p)
  <2>1. PICK k \in todo[p] :
          IF retained[k] = NULL
          THEN AfterClosing(p, todo[p] \ {k}) /\ UNCHANGED <<retained, ctx>>
          ELSE FALSE
    BY <1>1, <1>6 DEF ClosePop, Bare, IInv, TypeOK, LocalType
  <2>2. \E label \in {"idle", "closePop", "drain"} : pc' = [pc EXCEPT ![p] = label]
    BY <2>1 DEF AfterClosing
  <2>3. /\ Locked(p, "closePop") /\ retained' = retained
        /\ UNCHANGED <<available, active, taskCtx, browser, open, lock>>
    BY <1>6, <2>1 DEF ClosePop
  <2> QED BY <1>1, <2>2, <2>3 DEF Bare, Locked
<1>7. CASE Drain(p)
  <2>1. pc' = [pc EXCEPT ![p] = "clear"] /\ available' = available /\ open' = {}
    BY <1>1, <1>7 DEF Drain, Bare
  <2>2. UNCHANGED <<active, taskCtx, retained, browser, lockVars>>
    BY <1>7 DEF Drain
  <2> QED BY <1>1, <2>1, <2>2 DEF Bare, lockVars
<1>8. CASE Clear(p)
  BY <1>1, <1>8 DEF Clear, Bare, lockVars
<1>9. CASE Quit(p)
  BY <1>1, <1>9 DEF Quit, Bare, lockVars, pool
<1> QED
  BY <1>1, <1>2, <1>3, <1>4, <1>5, <1>6, <1>7, <1>8, <1>9, <1>10, <1>11, NothingFails, NobodyQueues DEF Step,
     Acquire, CreateOk, TakeAvailable, Count, Assign, Pop, Retain, Put, Locked, At

\* A step of one coroutine leaves the others where they are.
LEMMA OthersKept ==
  ASSUME NEW p \in Procs, IInv, Step(p)
  PROVE  /\ loop \in {NULL, p} /\ key' = key
         /\ \A q \in Procs \ {p} : /\ pc'[q] = pc[q] /\ ctx'[q] = ctx[q]
                                   /\ todo'[q] = todo[q] /\ cont'[q] = cont[q]
<1> USE DEF IInv, TypeOK, LoopType, LocalType, Continue, Await
<1>1. CASE QueueForLock(p) \/ Start(p) \/ Launch(p) \/ Chromium(p) \/ CreateOk(p) \/ CreateFail(p) \/ TakeAvailable(p)
  BY <1>1 DEF QueueForLock, Start, Launch, Chromium, CreateOk, CreateFail, TakeAvailable, At, closing
<1>2. CASE Lookup(p) \/ Acquire(p) \/ Count(p) \/ Assign(p)
  BY <1>2 DEF Lookup, Acquire, Count, Assign, Locked, At, closing
<1>3. CASE Pop(p) \/ Retain(p)
  BY <1>3 DEF Pop, Retain, Locked, At, closing
<1>4. CASE Snapshot(p) \/ ClosePop(p) \/ Put(p)
  BY <1>4 DEF Snapshot, ClosePop, Put, Locked, At, closing, AfterClosing
<1>5. CASE ClosePagesFail(p) \/ Drain(p) \/ Clear(p) \/ Quit(p) \/ Stop(p)
  BY <1>5 DEF ClosePagesFail, Drain, Clear, Quit, Stop, At, closing
<1> QED BY <1>1, <1>2, <1>3, <1>4, <1>5 DEF Step

\* No Playwright is stopped while somebody launches a browser with it, and none is forgotten.
LEMMA StepChromium ==
  ASSUME NEW p \in Procs, IInv, BrowserOK, LaunchOK, StopOK, Apart, Step(p)
  PROVE  /\ browser' # "dead" /\ ~orphans' /\ doomed' = {}
         /\ browser' = "up" => playwright' = "up"
         /\ launcher' # NULL => pc'[launcher'] = "chromium"
<1>0. /\ browser # "dead" /\ ~orphans /\ doomed = {} /\ (browser = "up" => playwright = "up")
      /\ launcher # NULL => pc[launcher] = "chromium"
      /\ launcher \in Procs \cup {NULL}
  BY DEF BrowserOK, IInv, TypeOK, PoolType
<1>1. ASSUME launcher # NULL, launcher # p PROVE pc'[launcher] = "chromium"
  BY <1>0, <1>1, OthersKept
<1>2. p \in Closers => cont[p] \in {"idle", "stop"} /\ pc[p] \notin {"launch", "chromium"}
  BY DEF IInv, RolesOK
<1>3. CASE pc[p] \notin {"launch", "chromium", "quit", "stop"}
  BY <1>0, <1>1, <1>3, NothingFails, ChromiumKept
<1>4. CASE Launch(p)
  <2>1. p \in Runs /\ pc[p] = "launch"
    BY <1>2, <1>4 DEF Launch, At, Procs
  <2>2. browser = "none" /\ launcher' = p
    BY <1>4, <2>1, NothingFails DEF LaunchOK
  <2>3. pc'[p] = "chromium"
    BY <1>4, NothingFails DEF Await, IInv, TypeOK, LoopType
  <2> QED BY <1>0, <1>4, <2>2, <2>3 DEF Launch
<1>5. CASE Chromium(p)
  <2>1. p \in Runs /\ pc[p] = "chromium"
    BY <1>2, <1>5 DEF Chromium, At, Procs
  <2>2. browser = "none" /\ playwright = "up" /\ playwright' = playwright
    BY <1>5, <2>1 DEF LaunchOK, Chromium
  <2>3. browser' = "up" /\ ~orphans' /\ doomed' = {}
    <3>1. doomed' = doomed \ {p}
      BY <1>5 DEF Chromium
    <3> QED BY <1>0, <1>5, <2>2, <3>1, NothingFails
  <2>4. launcher' = IF launcher = p THEN NULL ELSE launcher
    BY <1>5 DEF Chromium
  <2> QED BY <1>1, <2>2, <2>3, <2>4
<1>6. CASE Quit(p)
  <2>1. CASE p \in Runs
    <3>1. playwright = "none"
      BY <1>6, <2>1 DEF Quit, At, LaunchOK
    <3>2. browser' = "none" /\ UNCHANGED <<launcher, doomed, orphans>> /\ pc[p] = "quit"
      BY <1>6, <3>1 DEF Quit, At
    <3> QED BY <1>0, <1>1, <3>2
  <2>2. CASE p \in Closers
    <3>1. pc[p] = "quit" /\ \A q \in Procs \ {p} : pc[q] = "idle"
      BY <1>6, <2>2 DEF Quit, At, StopOK
    <3>2. launcher = NULL
      BY <1>0, <3>1
    <3>3. browser' = "none" /\ orphans' = orphans /\ launcher' = NULL /\ doomed' = {}
      BY <1>0, <1>6, <3>2 DEF Quit
    <3> QED BY <1>0, <3>3
  <2> QED BY <2>1, <2>2 DEF Procs
<1>7. CASE Stop(p)
  <2>1. p \in Closers /\ pc[p] = "stop"
    BY <1>7 DEF Stop, At, LaunchOK, Procs
  <2>2. browser = "none"
    BY <2>1 DEF StopOK
  <2> QED BY <1>0, <1>7, <2>2 DEF Stop
<1>8. CASE pc[p] \in {"launch", "chromium", "quit", "stop"}
  <2>1. Launch(p) \/ Chromium(p) \/ Quit(p) \/ Stop(p)
    BY <1>8, NothingFails DEF Step, QueueForLock, Lookup, Start, Acquire, CreateOk, TakeAvailable, Count, Assign,
       Pop, Retain, Snapshot, ClosePop, Put, Drain, Clear, Locked, At, LockLabels
  <2> QED BY <1>4, <1>5, <1>6, <1>7, <2>1
<1> QED BY <1>3, <1>8

\* A Playwright that is up without a browser is about to launch one, or to stop.
LEMMA StepPlaywright ==
  ASSUME NEW p \in Procs, IInv, BrowserOK, Apart, Step(p), browser = "none", browser' = "none", playwright' = "up"
  PROVE  \E q \in Procs : pc'[q] \in {"chromium", "stop"}
<1>1. CASE Launch(p)
  BY <1>1, NothingFails DEF Await, IInv, TypeOK, LoopType
<1>2. CASE ~Launch(p)
  <2>1. ~Chromium(p) /\ ~Stop(p)
    BY NothingFails DEF Stop
  <2>2. playwright = "up"
    BY <1>2, <2>1, NothingFails DEF Step, QueueForLock, Lookup, Start, Acquire, CreateOk, TakeAvailable, Count, Assign,
       Pop, Retain, Snapshot, ClosePop, Put, Drain, Clear, Quit
  <2>3. PICK q \in Procs : pc[q] \in {"chromium", "stop"}
    BY <2>2 DEF BrowserOK, PlaywrightInUse
  <2>4. q # p
    BY <1>2, <2>1, <2>3, NothingFails DEF Step, QueueForLock, Lookup, Start, Acquire, CreateOk, TakeAvailable, Count,
       Assign, Pop, Retain, Snapshot, ClosePop, Put, Drain, Clear, Quit, Locked, At, LockLabels
  <2> QED BY <2>3, <2>4, OthersKept
<1> QED BY <1>1, <1>2

LEMMA StepBrowser ==
  ASSUME NEW p \in Procs, IInv, QueueOK, BrowserOK, LaunchOK, StopOK, Apart, Step(p)
  PROVE  BrowserOK'
<1>0. pc[p] # "idle" /\ pc \in [Procs -> Labels] /\ \A q \in Procs \ {p} : pc'[q] = pc[q]
  BY StepWorks, OthersKept DEF IInv, TypeOK, LoopType
<1>1. ASSUME browser = "none", browser' = "none"
      PROVE  Bare' /\ lock' = NULL /\ lockQ' = <<>> /\ AtBareLabels' /\ AtMostOneRun'
  <2>1. AtBareLabels /\ AtMostOneRun
    BY <1>1 DEF BrowserOK
  <2>2. PICK label \in BareLabels : pc' = [pc EXCEPT ![p] = label]
    BY <1>1, StepBare
  <2>3. AtBareLabels'
    BY <1>0, <2>1, <2>2 DEF AtBareLabels
  <2>4. AtMostOneRun'
    BY <1>0, <2>1 DEF AtMostOneRun, Procs
  <2> QED BY <1>1, <2>3, <2>4, StepBare
<1>2. ASSUME browser # "none", browser' = "none"
      PROVE  /\ Bare' /\ lock' = NULL /\ lockQ' = <<>> /\ AtBareLabels' /\ AtMostOneRun'
             /\ playwright' = "up" => pc'[p] = "stop"
  <2>1. Quit(p)
    BY <1>2, NothingFails DEF Step, QueueForLock, Lookup, Start, Launch, Acquire, CreateOk, TakeAvailable, Count,
       Assign, Pop, Retain, Snapshot, ClosePop, Put, Drain, Clear, Stop
  <2>2. pc[p] = "quit" /\ p \in Closers
    BY <1>2, <2>1 DEF Quit, At, LaunchOK, Procs
  <2>3. Bare /\ lock = NULL /\ lockQ = <<>> /\ (\A q \in Procs \ {p} : pc[q] = "idle") /\ cont[p] = "stop" /\ ~orphans
    BY <2>2 DEF StopOK, BrowserOK
  <2>4. /\ open' = {} /\ UNCHANGED <<pool, lockVars, playwright>>
        /\ \/ pc' = [pc EXCEPT ![p] = "idle"] /\ playwright = "none"
           \/ pc' = [pc EXCEPT ![p] = "stop"]
    BY <2>1, <2>3 DEF Quit, Await
  <2>5. pc'[p] \in {"idle", "stop"} /\ (playwright' = "up" => pc'[p] = "stop")
    BY <1>0, <2>4
  <2>6. AtBareLabels' /\ AtMostOneRun'
    BY <1>0, <2>2, <2>3, <2>5, PoolAssumption DEF BareLabels, AtBareLabels, AtMostOneRun, Procs
  <2> QED BY <2>3, <2>4, <2>5, <2>6 DEF Bare, pool, lockVars
<1>3. browser' = "none" /\ playwright' = "up" => PlaywrightInUse'
  BY <1>2, StepPlaywright DEF PlaywrightInUse
<1>4. /\ browser' # "dead" /\ ~orphans' /\ doomed' = {} /\ (browser' = "up" => playwright' = "up")
      /\ launcher' # NULL => pc'[launcher'] = "chromium"
  BY StepChromium
<1> QED BY <1>1, <1>2, <1>3, <1>4 DEF BrowserOK

LEMMA StepLaunch ==
  ASSUME NEW p \in Procs, IInv, QueueOK, BrowserOK, LaunchOK, StopOK, Apart, Step(p)
  PROVE  LaunchOK'
<1> DEFINE Goal(q) ==
      /\ pc[q] \notin {"closePop", "stop"} /\ todo[q] = {}
      /\ cont[q] = IF pc[q] \in {"snapshot", "drain", "clear", "quit", "launch", "chromium"} THEN "launch" ELSE "idle"
      /\ pc[q] \in {"snapshot", "drain", "clear", "quit"} => loop = q
      /\ pc[q] \in {"snapshot", "drain", "clear", "quit", "launch"} => browser = "none" /\ playwright = "none"
      /\ pc[q] = "chromium" => browser = "none" /\ playwright = "up"
<1>1. ASSUME NEW q \in Runs, q # p PROVE Goal(q)'
  <2>1. q \in Procs \ {p} /\ q # NULL
    BY <1>1, PoolAssumption DEF Procs
  <2>2. pc[q] \notin {"snapshot", "drain", "clear", "quit"} /\ Goal(q)
    BY <1>1, <2>1, OthersKept DEF LaunchOK
  <2>3. ASSUME pc[q] \in {"launch", "chromium"} PROVE UNCHANGED <<browser, playwright>>
    <3>1. browser = "none"
      BY <2>2, <2>3
    <3>2. AtMostOneRun
      BY <3>1 DEF BrowserOK
    <3>3. p \in Closers
      BY <1>1, <2>3, <3>2, StepWorks DEF AtMostOneRun, Procs
    <3>4. cont[p] # "stop" /\ pc[p] \notin {"launch", "chromium"}
      BY <1>1, <2>1, <2>3, <3>3 DEF StopOK, IInv, RolesOK
    <3>5. pc[p] \notin {"quit", "stop"}
      BY <3>3, <3>4 DEF StopOK
    <3> QED BY <3>4, <3>5, NothingFails, ChromiumKept
  <2>4. pc'[q] = pc[q] /\ cont'[q] = cont[q] /\ todo'[q] = todo[q]
    BY <2>1, OthersKept
  <2> QED BY <2>2, <2>3, <2>4
<1>2. ASSUME p \in Runs PROVE Goal(p)'
  <2> USE DEF IInv, TypeOK, LoopType, LocalType, Continue, Await
  <2>0. Goal(p) /\ p # NULL
    BY <1>2, PoolAssumption DEF LaunchOK
  <2>1. CASE QueueForLock(p)
    <3>1. pc[p] # "snapshot"
      BY <2>0, <2>1, NobodyQueues DEF BrowserOK
    <3> QED BY <2>0, <2>1, <3>1 DEF QueueForLock, LockLabels, closing
  <2>2. CASE Lookup(p) \/ Acquire(p) \/ Count(p) \/ Assign(p)
    BY <2>0, <2>2 DEF Lookup, Acquire, Count, Assign, Locked, At, closing
  <2>3. CASE Pop(p) \/ Retain(p)
    BY <2>0, <2>3 DEF Pop, Retain, Locked, At, closing
  <2>4. CASE Start(p)
    <3>1. pc[p] = "start" /\ UNCHANGED <<browser, playwright, todo>>
      BY <2>4 DEF Start, At
    <3>2. CASE browser = "up"
      <4>1. playwright = "up"
        BY <3>2 DEF BrowserOK
      <4> QED BY <2>0, <2>4, <3>1, <3>2, <4>1 DEF Start
    <3>3. CASE browser = "none"
      <4>1. playwright = "none"
        <5> SUFFICES ASSUME playwright = "up" PROVE FALSE
          BY DEF PoolType
        <5>1. PICK q \in Procs : pc[q] \in {"chromium", "stop"}
          BY <3>3 DEF BrowserOK, PlaywrightInUse
        <5>2. CASE q \in Runs
          <6>1. AtMostOneRun
            BY <3>3 DEF BrowserOK
          <6> QED BY <1>2, <3>1, <5>1, <5>2, <6>1 DEF AtMostOneRun
        <5>3. CASE q \in Closers
          <6>1. pc[q] = "stop" /\ p # q
            BY <3>1, <5>1, <5>3 DEF RolesOK
          <6> QED BY <3>1, <5>3, <6>1 DEF StopOK
        <5> QED BY <5>2, <5>3 DEF Procs
      <4> QED BY <2>0, <2>4, <3>1, <3>3, <4>1 DEF Start
    <3> QED BY <3>2, <3>3 DEF BrowserOK, PoolType
  <2>5. CASE CreateOk(p) \/ TakeAvailable(p)
    BY <2>0, <2>5 DEF CreateOk, TakeAvailable, At, closing
  <2>12. CASE Launch(p)
    <3>1. /\ pc[p] = "launch" /\ browser' = browser /\ todo' = todo /\ cont' = cont
          /\ pc' = [pc EXCEPT ![p] = "chromium"] /\ playwright' = "up"
      BY <2>12, NothingFails DEF Launch, At
    <3> QED BY <2>0, <3>1
  <2>13. CASE Chromium(p)
    <3>1. /\ pc' = [pc EXCEPT ![p] = "acquire"] /\ todo' = todo
          /\ cont' = [cont EXCEPT ![p] = "idle"]
      BY <2>13, NothingFails DEF Chromium
    <3> QED BY <2>0, <3>1
  <2>6. CASE Snapshot(p)
    <3>1. {k \in Keys : retained[k] # NULL} = {} /\ pc[p] = "snapshot"
      BY <2>0, <2>6 DEF Snapshot, Locked, At, BrowserOK, Bare
    <3> QED BY <2>0, <2>6, <3>1 DEF Snapshot, AfterClosing
  <2>7. CASE ClosePop(p)
    BY <2>0, <2>7 DEF ClosePop, Locked, At
  <2>8. CASE Put(p)
    BY <2>0, <2>8 DEF Put, Locked, At, AfterClosing, closing
  <2>9. CASE Drain(p)
    BY <2>0, <2>9 DEF Drain, At, BrowserOK, Bare, closing
  <2>10. CASE Clear(p)
    BY <2>0, <2>10 DEF Clear, At, closing
  <2>11. CASE Quit(p)
    <3>1. pc[p] = "quit" /\ playwright = "none" /\ cont[p] = "launch"
      BY <2>0, <2>11 DEF Quit, At
    <3> QED BY <2>0, <2>11, <3>1 DEF Quit
  <2>14. ~Stop(p)
    BY <2>0 DEF Stop, At
  <2> QED BY <2>1, <2>2, <2>3, <2>4, <2>5, <2>6, <2>7, <2>8, <2>9, <2>10, <2>11,
       <2>12, <2>13, <2>14, NothingFails DEF Step
<1> QED BY <1>1, <1>2 DEF LaunchOK

\* A closer that stops the pool is alone, closes what is retained, and
\* leaves a bare pool.
LEMMA StepStop ==
  ASSUME NEW p \in Procs, IInv, QueueOK, BrowserOK, LaunchOK, StopOK, NothingLost, Apart, Step(p)
  PROVE  StopOK'
<1> DEFINE Stops(q) ==
      /\ pc[q] # "idle" /\ \A r \in Procs \ {q} : pc[r] = "idle"
      /\ lock = NULL /\ lockQ = <<>>
      /\ pc[q] # "snapshot" => \A k \in Keys : retained[k] # NULL => k \in todo[q]
      /\ pc[q] \in {"drain", "clear", "quit", "stop"} => todo[q] = {}
      /\ pc[q] \in {"clear", "quit", "stop"} => available = {} /\ open = {}
      /\ pc[q] \in {"quit", "stop"} => Bare
      /\ pc[q] = "stop" => browser = "none"
<1>1. ASSUME NEW q \in Closers, q # p PROVE (pc[q] \in {"drain", "clear", "quit", "stop"} => cont[q] = "stop")' /\ cont'[q] # "stop"
  <2>1. q \in Procs \ {p}
    BY <1>1 DEF Procs
  <2>2. pc[p] # "idle"
    BY StepWorks
  <2>3. cont[q] # "stop"
    BY <1>1, <2>1, <2>2 DEF StopOK
  <2> QED BY <1>1, <2>1, <2>3, OthersKept DEF StopOK
<1>2. ASSUME p \in Closers, cont[p] # "stop"
      PROVE  (pc[p] \in {"drain", "clear", "quit", "stop"} => cont[p] = "stop")' /\ cont'[p] # "stop"
  <2>1. /\ pc[p] \in {"idle", "snapshot", "closePop", "put"}
        /\ cont[p] = "idle"
    BY <1>2 DEF IInv, RolesOK, StopOK
  <2>2. QueueForLock(p) \/ Snapshot(p) \/ ClosePop(p) \/ Put(p)
    BY <2>1, NothingFails DEF Step, Lookup, Start, Launch, Chromium, Acquire, CreateOk, TakeAvailable, Count, Assign,
       Pop, Retain, Drain, Clear, Quit, Stop, Locked, At
  <2>3. cont' = cont
    BY <2>2 DEF QueueForLock, Snapshot, ClosePop, Put, closing
  <2>4. pc'[p] \notin {"drain", "clear", "quit", "stop"}
    BY <2>1, <2>2 DEF QueueForLock, Snapshot, ClosePop, Put, AfterClosing, Continue, Await, IInv, TypeOK, LoopType
  <2> QED BY <2>1, <2>3, <2>4
<1>3. ASSUME p \in Closers, cont[p] = "stop"
      PROVE  (pc[p] \in {"drain", "clear", "quit", "stop"} => cont[p] = "stop")' /\ (cont'[p] = "stop" => Stops(p)')
  <2> USE DEF IInv, TypeOK, LoopType, LocalType, Continue, Await
  <2>1. /\ Stops(p) /\ pc[p] \in {"snapshot", "closePop", "put", "drain", "clear", "quit", "stop"}
    BY <1>3 DEF StopOK, RolesOK
  <2>2. \A r \in Procs \ {p} : pc'[r] = "idle"
    BY <2>1, OthersKept
  <2>3. CASE Snapshot(p)
    <3>1. /\ lockQ' = <<>> /\ lock' = NULL /\ cont' = cont /\ retained' = retained /\ pc[p] = "snapshot"
          /\ todo'[p] = {k \in Keys : retained[k] # NULL}
      BY <2>1, <2>3 DEF Snapshot, Locked, At, pool
    <3>2. pc'[p] = IF todo'[p] # {} THEN "closePop" ELSE "drain"
      BY <1>3, <2>3, <3>1 DEF Snapshot, AfterClosing
    <3> QED BY <1>3, <2>2, <3>1, <3>2
  <2>4. CASE ClosePop(p)
    <3>1. PICK k \in todo[p] :
           /\ todo' = [todo EXCEPT ![p] = @ \ {k}]
           /\ IF retained[k] = NULL
              THEN AfterClosing(p, todo[p] \ {k}) /\ UNCHANGED <<retained, ctx>>
              ELSE /\ retained' = [retained EXCEPT ![k] = NULL]
                   /\ ctx' = [ctx EXCEPT ![p] = retained[k]]
                   /\ Await(p, "put")
      BY <2>4 DEF ClosePop
    <3>2. /\ lockQ' = <<>> /\ lock' = NULL /\ cont' = cont /\ pc[p] = "closePop"
      BY <2>1, <2>4 DEF ClosePop, Locked, At
    <3>3. k \in Keys /\ todo'[p] = todo[p] \ {k} /\ \A l \in Keys : retained'[l] # NULL => l \in todo'[p]
      BY <2>1, <3>1, <3>2 DEF PoolType
    <3>4. pc'[p] \in {"closePop", "put", "drain"} /\ (pc'[p] = "drain" => todo'[p] = {})
      BY <1>3, <3>1, <3>3 DEF AfterClosing
    <3> QED BY <1>3, <2>2, <3>2, <3>3, <3>4
  <2>5. CASE Put(p)
    <3>1. /\ lockQ' = <<>> /\ lock' = NULL /\ cont' = cont /\ todo' = todo /\ retained' = retained /\ pc[p] = "put"
      BY <2>1, <2>5 DEF Put, Locked, At, closing
    <3>2. pc'[p] = IF todo[p] # {} THEN "closePop" ELSE "drain"
      BY <1>3, <2>5 DEF Put, AfterClosing
    <3> QED BY <1>3, <2>1, <2>2, <3>1, <3>2
  <2>6. CASE Drain(p)
    <3>1. /\ lockQ' = <<>> /\ lock' = NULL /\ cont' = cont /\ todo' = todo /\ retained' = retained /\ pc[p] = "drain"
          /\ pc'[p] \in {"drain", "clear"}
      BY <2>1, <2>6 DEF Drain, At, closing, lockVars
    <3>2. ASSUME pc'[p] = "clear" PROVE available' = {} /\ open' = {}
      <4>1. available = {} /\ available' = {} /\ open' = open \ ({taskCtx[k] : k \in Keys} \ {NULL})
        BY <2>6, <3>2 DEF Drain
      <4>2. \A k \in Keys : retained[k] = NULL
        BY <2>1, <3>1
      <4>3. \A q \in Procs : ~Carrying(q)
        BY <2>1, <3>1 DEF Carrying
      <4>4. \A c \in open : c # NULL /\ \E k \in Keys : c = taskCtx[k]
        BY <4>1, <4>2, <4>3, PoolAssumption DEF NothingLost, PoolType
      <4> QED BY <4>1, <4>4
    <3> QED BY <1>3, <2>1, <2>2, <3>1, <3>2
  <2>7. CASE Clear(p)
    <3>1. /\ lockQ' = <<>> /\ lock' = NULL /\ cont' = cont /\ todo' = todo /\ pc[p] = "clear" /\ pc'[p] = "quit"
          /\ available' = {} /\ open' = {} /\ active' = 0
          /\ \A k \in Keys : retained'[k] = NULL /\ taskCtx'[k] = NULL
      BY <2>1, <2>7 DEF Clear, At, closing, lockVars
    <3> QED BY <1>3, <2>1, <2>2, <3>1 DEF Bare
  <2>8. CASE Quit(p)
    <3>1. pc[p] = "quit" /\ Bare /\ ~orphans
      BY <2>1, <2>8 DEF Quit, At, BrowserOK
    <3>2. /\ UNCHANGED <<pool, lockVars, todo>> /\ browser' = "none" /\ open' = {}
          /\ \/ pc' = [pc EXCEPT ![p] = "stop"] /\ cont' = cont
             \/ pc' = [pc EXCEPT ![p] = "idle"] /\ cont' = [cont EXCEPT ![p] = "idle"]
      BY <1>3, <2>8, <3>1 DEF Quit
    <3> QED BY <1>3, <2>1, <2>2, <3>1, <3>2 DEF Bare, pool, lockVars
  <2>10. CASE Stop(p)
    BY <1>3, <2>10 DEF Stop
  <2>9. ~QueueForLock(p)
    BY <2>1, NobodyQueues
  <2> QED
    BY <2>1, <2>3, <2>4, <2>5, <2>6, <2>7, <2>8, <2>9, <2>10, NothingFails DEF Step, Lookup, Start, Launch, Chromium, Acquire,
       CreateOk, TakeAvailable, Count, Assign, Pop, Retain, Locked, At
<1> QED BY <1>1, <1>2, <1>3 DEF StopOK

\* Until a closer closes the contexts in use, whatever the pool refers to is open.
LEMMA StepOpen ==
  ASSUME NEW p \in Procs, IInv, BrowserOK, LaunchOK, StopOK, PlacesOpen, Apart, Step(p),
         \A q \in Closers : pc'[q] \notin {"clear", "quit"}
  PROVE  /\ available' \subseteq open'
         /\ \A k \in Keys : {taskCtx'[k], retained'[k]} \subseteq open' \cup {NULL}
         /\ \A q \in Procs : Carrying(q)' => ctx'[q] \in open'
<1> USE DEF IInv, TypeOK, PoolType, LoopType, LocalType, Continue, Await, Carrying
<1>0. \A q \in Procs \ {p} : Carrying(q)' <=> Carrying(q)
  BY OthersKept
<1>1. CASE \E q \in Closers : pc[q] \in {"clear", "quit"}
  <2>1. PICK q \in Closers : pc[q] \in {"clear", "quit"}
    BY <1>1
  <2>2. cont[q] = "stop" /\ \A r \in Procs \ {q} : pc[r] = "idle"
    BY <2>1 DEF StopOK
  <2>3. q = p /\ pc[p] = "quit" /\ Bare /\ Quit(p)
    <3>1. pc[p] # "idle"
      BY StepWorks
    <3>2. q = p
      BY <2>2, <3>1
    <3>3. Clear(p) \/ Quit(p)
      BY <2>1, <3>2 DEF Step, QueueForLock, Lookup, Start, Launch, Chromium, Acquire, CreateOk, CreateFail, TakeAvailable,
         Count, Assign, Pop, Retain, Snapshot, ClosePop, Put, ClosePagesFail, Drain, Clear, Quit, Stop, Locked, At, LockLabels
    <3>4. ~Clear(p)
      BY <3>2 DEF Clear
    <3> QED BY <2>2, <3>2, <3>3, <3>4 DEF Quit, At, StopOK
  <2>4. available' = available /\ taskCtx' = taskCtx /\ retained' = retained /\ pc'[p] \in {"idle", "stop"}
    BY <2>2, <2>3 DEF Quit, pool
  <2> QED BY <1>0, <2>2, <2>3, <2>4 DEF Bare
<1>2. CASE \A q \in Closers : pc[q] \notin {"clear", "quit"}
  <2>0. /\ available \subseteq open
        /\ \A k \in Keys : {taskCtx[k], retained[k]} \subseteq open \cup {NULL}
        /\ \A q \in Procs : Carrying(q) => ctx[q] \in open
    BY <1>2 DEF PlacesOpen
  <2>1. CASE QueueForLock(p) \/ Start(p) \/ Launch(p)
    BY <2>0, <2>1 DEF QueueForLock, Start, Launch, pool, At
  <2>14. CASE Chromium(p) \/ Stop(p)
    <3>1. UNCHANGED <<available, taskCtx, retained, open>> /\ ~Carrying(p)'
      BY <2>14, NothingFails DEF Chromium, Stop, pool
    <3> QED BY <1>0, <2>0, <3>1, OthersKept
  <2>2. CASE Lookup(p)
    <3>1. key[p] \in Keys /\ pc[p] = "lookup"
      BY <2>2, LockedType, WorkingKey DEF Lookup
    <3>2. available' = available /\ open' = open /\ ~Carrying(p)'
      BY <2>2, <3>1 DEF Lookup
    <3>3. \A k \in Keys : {taskCtx'[k], retained'[k]} \subseteq open \cup {NULL}
      BY <2>0, <2>2, <3>1 DEF Lookup
    <3> QED BY <1>0, <2>0, <3>2, <3>3, OthersKept
  <2>3. CASE Acquire(p)
    BY <1>0, <2>0, <2>3, OthersKept DEF Acquire
  <2>4. CASE CreateOk(p)
    BY <1>0, <2>0, <2>4, OthersKept DEF CreateOk, pool
  <2>5. CASE TakeAvailable(p)
    BY <1>0, <2>0, <2>5, OthersKept DEF TakeAvailable
  <2>6. CASE Count(p) \/ Assign(p)
    <3>1. pc[p] \in {"count", "assign"} /\ Carrying(p) /\ (pc[p] = "assign" => key[p] \in Keys)
      BY <2>6, WorkingKey DEF Count, Assign, Locked, At
    <3> QED BY <1>0, <2>0, <2>6, <3>1, OthersKept DEF Count, Assign
  <2>7. CASE Pop(p) \/ Retain(p)
    <3>1. key[p] \in Keys
      BY <2>7, WorkingKey DEF Pop, Retain, Locked, At
    <3>2. CASE Pop(p)
      BY <1>0, <2>0, <3>1, <3>2, OthersKept DEF Pop
    <3>3. CASE Retain(p)
      BY <1>0, <2>0, <3>1, <3>3, OthersKept DEF Retain
    <3> QED BY <2>7, <3>2, <3>3
  <2>8. CASE Snapshot(p)
    BY <1>0, <2>0, <2>8, OthersKept DEF Snapshot, AfterClosing, pool
  <2>9. CASE ClosePop(p)
    <3>1. PICK k \in todo[p] :
            \/ retained' = retained /\ pc'[p] \in {"closePop", "idle", "drain"}
            \/ /\ retained[k] # NULL
               /\ retained' = [retained EXCEPT ![k] = NULL]
               /\ ctx'[p] = retained[k]
      BY <2>9 DEF ClosePop, AfterClosing
    <3>2. k \in Keys /\ available' = available /\ taskCtx' = taskCtx /\ open' = open
      BY <2>9 DEF ClosePop
    <3> QED BY <1>0, <2>0, <3>1, <3>2, OthersKept
  <2>10. CASE Put(p)
    <3>1. Carrying(p) /\ ~Carrying(p)'
      BY <2>10 DEF Put, Locked, At, AfterClosing
    <3>2. available' = available \cup {ctx[p]} /\ taskCtx' = taskCtx /\ retained' = retained /\ open' = open
      BY <2>10 DEF Put
    <3> QED BY <1>0, <2>0, <3>1, <3>2, OthersKept
  <2>11. CASE Drain(p)
    <3>1. CASE browser = "none"
      <4>1. Bare /\ \A q \in Procs : pc[q] \notin {"count", "assign", "put"}
        BY <3>1, NobodyAtWork
      <4>2. available' = {} /\ taskCtx' = taskCtx /\ retained' = retained
        BY <2>11, <4>1 DEF Drain, Bare
      <4>3. ~Carrying(p)'
        BY <2>11 DEF Drain
      <4> QED BY <1>0, <4>1, <4>2, <4>3 DEF Bare
    <3>2. CASE browser # "none"
      <4>1. p \in Closers /\ pc[p] = "drain"
        BY <2>11, <3>2 DEF LaunchOK, Drain, At, Procs
      <4>2. pc'[p] # "clear" /\ \A q \in Procs : ~Carrying(q)
        BY <4>1 DEF StopOK
      <4>3. PICK c \in available : available' = available \ {c} /\ open' = open \ {c} /\ pc'[p] = "drain"
        BY <2>11, <4>2 DEF Drain
      <4>4. \A k \in Keys : taskCtx[k] # c /\ retained[k] # c
        BY <4>3 DEF OneOwner, TablesDisjoint
      <4>5. taskCtx' = taskCtx /\ retained' = retained
        BY <2>11 DEF Drain
      <4> QED BY <1>0, <2>0, <4>2, <4>3, <4>4, <4>5
    <3> QED BY <3>1, <3>2
  <2>12. CASE Clear(p)
    <3>1. p \in Runs
      BY <1>2, <2>12 DEF Clear, At, Procs
    <3>2. browser = "none" /\ available' = {} /\ \A q \in Procs : pc[q] \notin {"count", "assign", "put"}
      <4>1. browser = "none" /\ available' = available
        BY <2>12, <3>1 DEF Clear, At, LaunchOK
      <4> QED BY <4>1, NobodyAtWork DEF Bare
    <3> QED BY <1>0, <2>12, <3>2 DEF Clear
  <2>13. CASE Quit(p)
    <3>1. p \in Runs
      BY <1>2, <2>13 DEF Quit, At, Procs
    <3>2. browser = "none" /\ Bare /\ \A q \in Procs : pc[q] \notin {"count", "assign", "put"}
      <4>1. browser = "none"
        BY <2>13, <3>1 DEF Quit, At, LaunchOK
      <4> QED BY <4>1, NobodyAtWork
    <3> QED BY <1>0, <2>13, <3>2 DEF Quit, Bare, pool
  <2> QED
    BY <2>1, <2>2, <2>3, <2>4, <2>5, <2>6, <2>7, <2>8, <2>9, <2>10, <2>11, <2>12, <2>13, <2>14, NothingFails DEF Step
<1> QED BY <1>1, <1>2

\* Runs that work for different keys do not disturb each other's entries.
LEMMA StepKeys ==
  ASSUME NEW p \in Procs, IInv, BrowserOK, LaunchOK, StopOK, KeysOK, Apart, Step(p)
  PROVE  KeysOK'
<1> DEFINE Entry(q) ==
      /\ pc[q] \in {"start", "snapshot", "drain", "clear", "quit", "launch", "chromium", "acquire", "create", "wait", "count", "assign"} =>
           taskCtx[key[q]] = NULL /\ retained[key[q]] = NULL
      /\ pc[q] = "put" => taskCtx[key[q]] = NULL
      /\ pc[q] = "hold" => ctx[q] # NULL /\ ctx[q] = taskCtx[key[q]]
      /\ pc[q] \in {"pop", "retain"} => key[q] \in Tasks
<1> DEFINE OneTable == \A k \in Keys : taskCtx[k] = NULL \/ retained[k] = NULL
<1>0. /\ OneTable /\ \A q \in Runs : Entry(q)
      /\ KeysApart'
  BY DEF KeysOK, Apart
<1>1. \A q \in Runs : pc[q] # "idle" => key[q] \in Keys
  BY DEF IInv, RolesOK
<1> USE DEF IInv, TypeOK, PoolType, LoopType, LocalType, Continue, Await
<1>2. ASSUME NEW q \in Runs, q # p, UNCHANGED <<taskCtx, retained>> PROVE Entry(q)'
  <2>1. q \in Procs \ {p}
    BY <1>2 DEF Procs
  <2> QED BY <1>0, <1>2, <2>1, OthersKept
<1>3. ASSUME NEW q \in Runs, q # p, p \in Runs, pc[p] # "idle",
             \A k \in Keys \ {key[p]} : taskCtx'[k] = taskCtx[k] /\ retained'[k] = retained[k]
      PROVE  Entry(q)'
  <2>1. q \in Procs \ {p}
    BY <1>3 DEF Procs
  <2>2. pc[q] # "idle" => key[q] # key[p]
    BY <1>3 DEF KeysOK, KeysApart
  <2> HIDE DEF Continue, Await
  <2> QED BY <1>0, <1>1, <1>3, <2>1, <2>2, OthersKept
<1>4. CASE QueueForLock(p) \/ Launch(p) \/ Chromium(p) \/ Acquire(p) \/ CreateOk(p) \/ TakeAvailable(p) \/ Count(p)
  <2>1. UNCHANGED <<taskCtx, retained, key>>
    BY <1>4 DEF QueueForLock, Launch, Chromium, Acquire, CreateOk, TakeAvailable, Count, pool
  <2>2. p \in Runs => Entry(p)'
    <3>1. CASE QueueForLock(p)
      BY <1>0, <2>1, <3>1 DEF QueueForLock, pool
    <3>3. CASE Launch(p) \/ Chromium(p)
      <4>1. pc[p] \in {"launch", "chromium"} /\ pc'[p] \in {"chromium", "acquire"}
        BY <3>3, NothingFails DEF Launch, Chromium, At
      <4> QED BY <1>0, <2>1, <4>1
    <3>2. CASE Acquire(p) \/ CreateOk(p) \/ TakeAvailable(p) \/ Count(p)
      <4>1. pc[p] \in {"acquire", "create", "wait", "count"} /\ pc'[p] \in {"assign", "create", "wait", "count"}
        BY <3>2 DEF Acquire, CreateOk, TakeAvailable, Count, Locked, At
      <4> QED BY <1>0, <2>1, <4>1
    <3> QED BY <1>4, <3>1, <3>2, <3>3
  <2> QED BY <1>0, <1>2, <2>1, <2>2 DEF KeysOK
<1>5. CASE Start(p) \/ Snapshot(p) \/ Put(p)
  <2>1. UNCHANGED <<taskCtx, retained, key>>
    BY <1>5 DEF Start, Snapshot, Put, pool
  <2>2. p \in Runs => Entry(p)'
    <3>1. CASE Start(p)
      BY <1>0, <2>1, <3>1 DEF Start, At
    <3>2. CASE Snapshot(p)
      <4>1. ASSUME p \in Runs PROVE pc'[p] = "drain" /\ pc[p] = "snapshot"
        <5>1. browser = "none" /\ pc[p] = "snapshot" /\ cont[p] = "launch"
          BY <3>2, <4>1 DEF Snapshot, Locked, At, LaunchOK
        <5>2. {k \in Keys : retained[k] # NULL} = {}
          BY <5>1 DEF BrowserOK, Bare
        <5> QED BY <3>2, <5>1, <5>2 DEF Snapshot, AfterClosing
      <4> QED BY <1>0, <2>1, <4>1
    <3>3. CASE Put(p)
      <4>1. ASSUME p \in Runs PROVE pc'[p] = "idle"
        BY <3>3, <4>1 DEF Put, Locked, At, LaunchOK, AfterClosing
      <4> QED BY <1>0, <2>1, <4>1
    <3> QED BY <1>5, <3>1, <3>2, <3>3
  <2> QED BY <1>0, <1>2, <2>1, <2>2 DEF KeysOK
<1>6. CASE Lookup(p)
  <2>1. p \in Runs /\ key[p] \in Keys /\ pc[p] = "lookup" /\ key' = key
    BY <1>6, LockedType, WorkingKey DEF RolesOK, Procs, Lookup
  <2>2. /\ \A k \in Keys \ {key[p]} : taskCtx'[k] = taskCtx[k] /\ retained'[k] = retained[k]
        /\ Entry(p)' /\ (taskCtx'[key[p]] = NULL \/ retained'[key[p]] = NULL)
    BY <1>0, <1>6, <2>1 DEF Lookup
  <2> QED BY <1>0, <1>3, <2>1, <2>2 DEF KeysOK
<1>7. CASE Assign(p)
  <2>1. p \in Runs /\ key[p] \in Keys /\ pc[p] = "assign" /\ key' = key
    BY <1>7, LockedType, WorkingKey, SMTT(30) DEF RolesOK, Procs, Assign
  <2>2. ctx[p] # NULL /\ ctx' = ctx /\ retained[key[p]] = NULL
    BY <1>0, <1>7, <2>1 DEF OneOwner, CarriedAlone, Carrying, Assign
  <2>3. /\ \A k \in Keys \ {key[p]} : taskCtx'[k] = taskCtx[k] /\ retained'[k] = retained[k]
        /\ Entry(p)' /\ (taskCtx'[key[p]] = NULL \/ retained'[key[p]] = NULL)
    BY <1>0, <1>7, <2>1, <2>2 DEF Assign
  <2> QED BY <1>0, <1>3, <2>1, <2>3 DEF KeysOK
<1>8. CASE Pop(p)
  <2>1. p \in Runs /\ key[p] \in Keys /\ pc[p] = "pop" /\ key' = key
    BY <1>8, LockedType, WorkingKey DEF RolesOK, Procs, Pop
  <2>2. /\ \A k \in Keys \ {key[p]} : taskCtx'[k] = taskCtx[k] /\ retained'[k] = retained[k]
        /\ taskCtx'[key[p]] = NULL /\ pc'[p] \in {"idle", "put"}
    BY <1>8, <2>1 DEF Pop
  <2> QED BY <1>0, <1>3, <2>1, <2>2 DEF KeysOK
<1>9. CASE Retain(p)
  <2>1. p \in Runs /\ key[p] \in Keys /\ pc[p] = "retain" /\ key' = key
    BY <1>9, LockedType, WorkingKey DEF RolesOK, Procs, Retain
  <2>2. /\ \A k \in Keys \ {key[p]} : taskCtx'[k] = taskCtx[k] /\ retained'[k] = retained[k]
        /\ taskCtx'[key[p]] = NULL /\ pc'[p] = "idle"
    BY <1>9, <2>1 DEF Retain
  <2> QED BY <1>0, <1>3, <2>1, <2>2 DEF KeysOK
<1>10. CASE ClosePop(p)
  <2>1. p \notin Runs
    BY <1>10 DEF ClosePop, Locked, At, LaunchOK
  <2>2. /\ taskCtx' = taskCtx /\ \A k \in Keys : retained'[k] \in {retained[k], NULL}
    BY <1>10 DEF ClosePop
  <2>3. ASSUME NEW q \in Runs PROVE Entry(q)'
    <3>1. q \in Procs \ {p}
      BY <2>1, <2>3 DEF Procs
    <3> HIDE DEF Continue, Await
    <3> QED BY <1>0, <1>1, <2>2, <3>1, OthersKept
  <2>4. OneTable'
    BY <1>0, <2>2
  <2> QED BY <1>0, <2>3, <2>4 DEF KeysOK
<1>11. CASE Drain(p) \/ Clear(p) \/ Quit(p) \/ Stop(p)
  <2>1. \A k \in Keys : taskCtx'[k] \in {taskCtx[k], NULL} /\ retained'[k] \in {retained[k], NULL}
    BY <1>11 DEF Drain, Clear, Quit, Stop, pool
  <2>2. p \in Runs => pc[p] \in {"drain", "clear", "quit"} /\ pc'[p] \in {"drain", "clear", "quit", "launch"}
    <3>1. p \in Runs => pc[p] \in {"drain", "clear", "quit"} /\ cont[p] = "launch" /\ ~Stop(p)
      BY <1>11 DEF Drain, Clear, Quit, Stop, At, LaunchOK
    <3>2. p \in Runs /\ Quit(p) => playwright = "none"
      BY DEF Quit, At, LaunchOK
    <3> QED BY <1>11, <3>1, <3>2 DEF Drain, Clear, Quit
  <2>3. p \in Closers => pc'[p] # "hold" /\ \A q \in Runs : pc[q] = "idle"
    <3>1. ASSUME p \in Closers PROVE cont[p] = "stop"
      BY <1>11, <3>1 DEF Drain, Clear, Quit, Stop, At, StopOK
    <3>2. ASSUME p \in Closers PROVE \A q \in Runs : pc[q] = "idle"
      BY <3>1, <3>2, PoolAssumption DEF StopOK, Procs
    <3> QED BY <1>11, <3>2 DEF Drain, Clear, Quit, Stop
  <2>4. \A q \in Runs : q # p => pc[q] # "hold"
    <3>1. CASE p \in Runs
      <4>1. browser = "none"
        BY <2>2, <3>1 DEF LaunchOK
      <4> QED BY <4>1 DEF BrowserOK, AtBareLabels, BareLabels, Procs
    <3> QED BY <2>3, <3>1 DEF Procs
  <2>5. ASSUME NEW q \in Runs PROVE Entry(q)'
    <3>1. CASE q = p
      BY <1>0, <1>1, <2>1, <2>2, <3>1, OthersKept
    <3>2. CASE q # p
      <4>1. q \in Procs \ {p}
        BY <3>2 DEF Procs
      <4>2. pc'[q] = pc[q] /\ key'[q] = key[q] /\ pc[q] # "hold"
        BY <2>4, <3>2, <4>1, OthersKept
      <4>3. CASE pc[q] = "idle"
        BY <4>2, <4>3
      <4>4. CASE pc[q] # "idle"
        <5>1. /\ taskCtx'[key[q]] \in {taskCtx[key[q]], NULL}
              /\ retained'[key[q]] \in {retained[key[q]], NULL}
          BY <1>1, <2>1, <4>4
        <5> HIDE DEF IInv, TypeOK, PoolType, LoopType, LocalType, Continue, Await
        <5> QED BY <1>0, <4>2, <5>1
      <4> QED BY <4>3, <4>4
    <3> QED BY <3>1, <3>2
  <2>6. OneTable'
    BY <1>0, <2>1
  <2> QED BY <1>0, <2>5, <2>6 DEF KeysOK
<1> QED BY <1>4, <1>5, <1>6, <1>7, <1>8, <1>9, <1>10, <1>11, NothingFails DEF Step

\* A step takes no context from every place it is in.
LEMMA StepLost ==
  ASSUME NEW p \in Procs, IInv, BrowserOK, LaunchOK, StopOK, KeysOK, NothingLost, Apart, Step(p)
  PROVE  NothingLost'
<1> DEFINE Placed(c) == \/ c \in available
                        \/ \E k \in Keys : c \in {taskCtx[k], retained[k]}
                        \/ \E q \in Procs : Carrying(q) /\ ctx[q] = c
<1> USE DEF IInv, TypeOK, PoolType, LoopType, LocalType, Continue, Await, Carrying
<1>0. \A c \in open : Placed(c)
  BY DEF NothingLost
<1>1. \A q \in Procs \ {p} : (Carrying(q)' <=> Carrying(q)) /\ ctx'[q] = ctx[q]
  BY OthersKept
<1>2. CASE QueueForLock(p) \/ Start(p) \/ Launch(p) \/ Chromium(p) \/ Stop(p)
  <2>1. /\ UNCHANGED <<available, taskCtx, retained, open, ctx>>
        /\ Carrying(p)' <=> Carrying(p)
    BY <1>2, NothingFails DEF QueueForLock, Start, Launch, Chromium, Stop, pool, At
  <2> QED BY <1>0, <1>1, <2>1 DEF NothingLost
<1>3. CASE Snapshot(p)
  <2>1. /\ UNCHANGED <<available, taskCtx, retained, open, ctx>>
        /\ Carrying(p)' <=> Carrying(p)
    BY <1>3 DEF Snapshot, AfterClosing, pool, Locked, At
  <2> QED BY <1>0, <1>1, <2>1 DEF NothingLost
<1>4. CASE Lookup(p)
  <2>1. key[p] \in Keys /\ ~Carrying(p) /\ ~Carrying(p)' /\ available' = available /\ open' = open
    BY <1>4, LockedType, WorkingKey DEF Lookup
  <2>2. \A k \in Keys : \A c \in {taskCtx[k], retained[k]} :
           c # NULL => \E l \in Keys : c \in {taskCtx'[l], retained'[l]}
    <3>1. \A k \in Keys \ {key[p]} : taskCtx'[k] = taskCtx[k] /\ retained'[k] = retained[k]
      BY <1>4, <2>1 DEF Lookup
    <3>2. {taskCtx[key[p]], retained[key[p]]} \ {NULL} \subseteq {taskCtx'[key[p]], retained'[key[p]]}
      BY <1>4, <2>1 DEF Lookup
    <3> QED BY <2>1, <3>1, <3>2
  <2>3. NULL \notin open
    BY PoolAssumption
  <2> HIDE DEF IInv, TypeOK, PoolType, LoopType, LocalType, Continue, Await, Carrying
  <2>4. ASSUME NEW c \in open PROVE Placed(c)'
    <3>1. CASE \E q \in Procs : Carrying(q) /\ ctx[q] = c
      BY <1>1, <2>1, <3>1
    <3>2. CASE c \in available
      BY <2>1, <3>2
    <3>3. CASE \E k \in Keys : c \in {taskCtx[k], retained[k]}
      BY <2>2, <2>3, <3>3
    <3> QED BY <1>0, <3>1, <3>2, <3>3
  <2> QED BY <2>1, <2>4 DEF NothingLost
<1>5. CASE Acquire(p)
  <2>1. UNCHANGED <<taskCtx, retained, open>> /\ ~Carrying(p)
    BY <1>5 DEF Acquire, Locked, At
  <2>2. available' = available \/ (Carrying(p)' /\ available' = available \ {ctx'[p]})
    BY <1>5 DEF Acquire
  <2> QED BY <1>0, <1>1, <2>1, <2>2 DEF NothingLost
<1>6. CASE CreateOk(p)
  <2>1. UNCHANGED <<taskCtx, retained, available>> /\ ~Carrying(p)
    BY <1>6 DEF CreateOk, At, pool
  <2>0. PICK d \in Contexts : open' = open \cup {d} /\ Carrying(p)' /\ ctx'[p] = d
    BY <1>6 DEF CreateOk
  <2> HIDE DEF IInv, TypeOK, PoolType, LoopType, LocalType, Continue, Await, Carrying
  <2>2. Placed(d)'
    BY <2>0
  <2>3. ASSUME NEW c \in open PROVE Placed(c)'
    <3>1. CASE \E q \in Procs : Carrying(q) /\ ctx[q] = c
      BY <1>1, <2>1, <3>1
    <3>2. CASE c \in available \/ \E k \in Keys : c \in {taskCtx[k], retained[k]}
      BY <2>1, <3>2
    <3> QED BY <1>0, <3>1, <3>2
  <2> QED BY <2>0, <2>2, <2>3 DEF NothingLost
<1>7. CASE TakeAvailable(p)
  <2>1. /\ UNCHANGED <<taskCtx, retained, open>> /\ ~Carrying(p) /\ Carrying(p)'
        /\ available' = available \ {ctx'[p]}
    BY <1>7 DEF TakeAvailable, At
  <2> QED BY <1>0, <1>1, <2>1 DEF NothingLost
<1>8. CASE Count(p)
  <2>1. UNCHANGED <<taskCtx, retained, open, available, ctx>> /\ Carrying(p) /\ Carrying(p)'
    BY <1>8 DEF Count, Locked, At
  <2> QED BY <1>0, <1>1, <2>1 DEF NothingLost
<1>9. CASE Assign(p)
  <2>1. p \in Runs /\ key[p] \in Keys /\ pc[p] = "assign"
    BY <1>9, LockedType, WorkingKey DEF RolesOK, Procs, Assign
  <2>2. taskCtx[key[p]] = NULL
    BY <2>1 DEF KeysOK
  <2>3. UNCHANGED <<retained, open, available>> /\ taskCtx'[key[p]] = ctx[p]
    BY <1>9, <2>1 DEF Assign
  <2>4. \A k \in Keys : taskCtx[k] # NULL => taskCtx'[k] = taskCtx[k]
    BY <1>9, <2>1, <2>2 DEF Assign
  <2>5. NULL \notin open
    BY PoolAssumption
  <2> HIDE DEF IInv, TypeOK, PoolType, LoopType, LocalType, Continue, Await, Carrying
  <2>6. ASSUME NEW c \in open PROVE Placed(c)'
    <3>1. CASE \E q \in Procs : Carrying(q) /\ ctx[q] = c
      BY <1>1, <2>1, <2>3, <3>1
    <3>2. CASE c \in available \/ \E k \in Keys : c \in {taskCtx[k], retained[k]}
      BY <2>3, <2>4, <2>5, <3>2
    <3> QED BY <1>0, <3>1, <3>2
  <2> QED BY <2>3, <2>6 DEF NothingLost
<1>10. CASE Pop(p)
  <2>1. p \in Runs /\ key[p] \in Keys /\ pc[p] = "pop" /\ ~Carrying(p)
    BY <1>10, LockedType, WorkingKey, SMTT(30) DEF RolesOK, Procs, Pop
  <2>2. browser # "none"
    BY <2>1 DEF BrowserOK, AtBareLabels, BareLabels, Procs
  <2>3. /\ UNCHANGED <<retained, open, available>>
        /\ \A k \in Keys \ {key[p]} : taskCtx'[k] = taskCtx[k]
        /\ taskCtx[key[p]] # NULL => Carrying(p)' /\ ctx'[p] = taskCtx[key[p]]
    BY <1>10, <2>1, <2>2 DEF Pop
  <2>4. NULL \notin open
    BY PoolAssumption
  <2> QED BY <1>0, <1>1, <2>1, <2>3, <2>4 DEF NothingLost
<1>11. CASE Retain(p)
  <2>1. p \in Runs /\ key[p] \in Keys /\ pc[p] = "retain" /\ ~Carrying(p)
    BY <1>11, LockedType, WorkingKey DEF RolesOK, Procs, Retain
  <2>2. taskCtx[key[p]] = NULL \/ retained[key[p]] = NULL
    BY <2>1 DEF KeysOK
  <2>3. /\ UNCHANGED <<open, available>>
        /\ \A k \in Keys \ {key[p]} : taskCtx'[k] = taskCtx[k] /\ retained'[k] = retained[k]
        /\ {taskCtx[key[p]], retained[key[p]]} \ {NULL} \subseteq {retained'[key[p]]}
    BY <1>11, <2>1, <2>2 DEF Retain
  <2>4. NULL \notin open
    BY PoolAssumption
  <2> HIDE DEF IInv, TypeOK, PoolType, LoopType, LocalType, Continue, Await, Carrying
  <2>5. ASSUME NEW c \in open PROVE Placed(c)'
    <3>1. CASE \E q \in Procs : Carrying(q) /\ ctx[q] = c
      BY <1>1, <2>1, <3>1
    <3>2. CASE c \in available
      BY <2>3, <3>2
    <3>3. CASE \E k \in Keys : c \in {taskCtx[k], retained[k]}
      <4>1. PICK k \in Keys : c \in {taskCtx[k], retained[k]}
        BY <3>3
      <4>2. c \in {taskCtx'[k], retained'[k]}
        BY <2>3, <2>4, <4>1
      <4> QED BY <4>2
    <3> QED BY <1>0, <3>1, <3>2, <3>3
  <2> QED BY <2>3, <2>5 DEF NothingLost
<1>12. CASE ClosePop(p)
  <2>1. PICK k \in todo[p] :
          \/ retained' = retained
          \/ /\ retained' = [retained EXCEPT ![k] = NULL]
             /\ Carrying(p)' /\ ctx'[p] = retained[k]
    BY <1>12 DEF ClosePop
  <2>2. k \in Keys /\ ~Carrying(p) /\ UNCHANGED <<available, taskCtx, open>>
    BY <1>12 DEF ClosePop, Locked, At
  <2> QED BY <1>0, <1>1, <2>1, <2>2 DEF NothingLost
<1>13. CASE Put(p)
  <2>1. UNCHANGED <<taskCtx, retained, open>> /\ available' = available \cup {ctx[p]}
    BY <1>13 DEF Put
  <2> QED BY <1>0, <1>1, <2>1 DEF NothingLost
<1>14. CASE Drain(p)
  <2>1. UNCHANGED <<taskCtx, retained>> /\ ~Carrying(p)
    BY <1>14 DEF Drain, At
  <2>2. open' \subseteq open /\ \A c \in open' : c \in available => c \in available'
    BY <1>14 DEF Drain
  <2> QED BY <1>0, <1>1, <2>1, <2>2 DEF NothingLost
<1>15. CASE Clear(p) \/ Quit(p)
  <2>1. open' = {}
    <3>1. CASE Quit(p)
      BY <3>1 DEF Quit, BrowserOK
    <3>2. CASE Clear(p) /\ p \in Runs
      BY <3>2 DEF Clear, At, LaunchOK, BrowserOK, Bare
    <3>3. CASE Clear(p) /\ p \in Closers
      BY <3>3 DEF Clear, At, StopOK
    <3> QED BY <1>15, <3>1, <3>2, <3>3 DEF Procs
  <2> QED BY <2>1 DEF NothingLost
<1> QED
  BY <1>2, <1>3, <1>4, <1>5, <1>6, <1>7, <1>8, <1>9, <1>10, <1>11, <1>12, <1>13, <1>14, <1>15, NothingFails DEF Step

\* A run that ends leaves no entry for its task.
LEMMA StepEnded ==
  ASSUME NEW p \in Procs, IInv, BrowserOK, LaunchOK, StopOK, KeysOK, EndedTaskOwnsNothing, Apart, Step(p)
  PROVE  EndedTaskOwnsNothing'
<1> DEFINE Unused(k) == \A q \in Runs : pc[q] = "idle" \/ key[q] # k
<1> SUFFICES ASSUME NEW k \in Tasks, Unused(k)' PROVE taskCtx'[k] = NULL
  BY DEF EndedTaskOwnsNothing
<1> USE DEF IInv, TypeOK, PoolType, LoopType, LocalType, Continue, Await
<1>0. k \in Keys
  BY DEF Keys
<1>1. key' = key /\ \A q \in Procs \ {p} : pc'[q] = pc[q]
  BY OthersKept
<1>2. CASE Unused(k)
  <2>1. taskCtx[k] = NULL
    BY <1>2 DEF EndedTaskOwnsNothing
  <2>2. CASE Lookup(p) \/ Assign(p)
    <3>1. p \in Runs /\ pc[p] # "idle" /\ key[p] \in Keys
      BY <2>2, LockedType, WorkingKey DEF RolesOK, Procs, Lookup, Assign
    <3>2. key[p] # k
      BY <1>2, <3>1
    <3> QED BY <1>0, <2>1, <2>2, <3>1, <3>2 DEF Lookup, Assign
  <2>3. CASE Pop(p) \/ Retain(p)
    BY <1>0, <2>1, <2>3, LockedType, WorkingKey DEF Pop, Retain
  <2>4. CASE ~(Lookup(p) \/ Assign(p) \/ Pop(p) \/ Retain(p))
    BY <1>0, <2>1, <2>4, NothingFails DEF Step, QueueForLock, Start, Launch, Chromium, Acquire, CreateOk,
       TakeAvailable, Count, Snapshot, ClosePop, Put, Drain, Clear, Quit, Stop, pool
  <2> QED BY <2>2, <2>3, <2>4
<1>3. CASE ~Unused(k)
  <2>1. PICK q \in Runs : pc[q] # "idle" /\ key[q] = k
    BY <1>3
  <2>2. q = p /\ p \in Runs /\ key[p] = k /\ pc[p] # "idle" /\ pc'[p] = "idle"
    BY <1>1, <2>1 DEF Procs
  <2>3. Pop(p) \/ Retain(p) \/ Snapshot(p) \/ ClosePop(p) \/ Put(p) \/ Quit(p)
    <3>3. ~Chromium(p) /\ ~Stop(p)
      BY <2>2, NothingFails DEF Stop, At, LaunchOK
    <3>1. ~Lookup(p) /\ ~Start(p) /\ ~Launch(p) /\ ~Acquire(p) /\ ~CreateOk(p)
      BY <2>2, NothingFails DEF Lookup, Start, Acquire, CreateOk
    <3>2. ~QueueForLock(p) /\ ~TakeAvailable(p) /\ ~Count(p) /\ ~Assign(p) /\ ~Drain(p) /\ ~Clear(p)
      BY <2>2 DEF QueueForLock, TakeAvailable, Count, Assign, Drain, Clear
    <3> QED BY <3>1, <3>2, <3>3, NothingFails DEF Step
  <2>5. CASE Pop(p)
    BY <1>0, <2>2, <2>5 DEF Pop
  <2>6. CASE Retain(p)
    BY <1>0, <2>2, <2>6 DEF Retain
  <2>7. CASE Snapshot(p) \/ ClosePop(p) \/ Quit(p)
    <3>1. pc[p] \in {"snapshot", "closePop", "quit"} /\ cont[p] = "launch"
      BY <2>2, <2>7 DEF Snapshot, ClosePop, Quit, Locked, At, LaunchOK
    <3> QED BY <2>2, <2>7, <3>1 DEF Snapshot, ClosePop, Quit, AfterClosing, LaunchOK
  <2>8. CASE Put(p)
    BY <2>2, <2>8 DEF Put, Locked, At, KeysOK
  <2> QED BY <2>3, <2>5, <2>6, <2>7, <2>8
<1> QED BY <1>2, <1>3

\* The sets that _active is compared with.
Uncounted == {ctx[p] : p \in {q \in Procs : pc[q] = "count"}}
Creating  == {p \in Procs : pc[p] = "create"}
Busy      == open \ (available \cup Uncounted)

\* Adding or taking one context changes the number by one.
LEMMA OneMore ==
  ASSUME NEW S, NEW T, IsFiniteSet(S), NEW c, c \notin S, T = S \cup {c}
  PROVE  IsFiniteSet(T) /\ Cardinality(T) = Cardinality(S) + 1 /\ Cardinality(S) \in Nat
BY FS_AddElement, FS_CardinalityType

\* Only the coroutine that holds the lock creates a context.
LEMMA CreatingCount ==
  ASSUME TypeOK, QueueOK
  PROVE  /\ Creating = IF lock = NULL THEN {} ELSE {lock}
         /\ Cardinality(Creating) = IF lock = NULL THEN 0 ELSE 1
<1>1. Creating = IF lock = NULL THEN {} ELSE {lock}
  BY PoolAssumption DEF Creating, QueueOK, QueueIs, TypeOK, LoopType
<1> QED BY <1>1, FS_EmptySet, FS_Singleton

LEMMA CreatingCountNext ==
  ASSUME TypeOK', QueueOK'
  PROVE  Cardinality(Creating)' = IF lock' = NULL THEN 0 ELSE 1
<1>1. Creating' = IF lock' = NULL THEN {} ELSE {lock'}
  BY PoolAssumption DEF Creating, QueueOK, QueueIs, TypeOK, LoopType
<1> QED BY <1>1, FS_EmptySet, FS_Singleton

\* A coroutine that does not come to count a context leaves Uncounted alone.
LEMMA UncountedKept ==
  ASSUME NEW p \in Procs, pc[p] # "count", pc'[p] # "count",
         \A q \in Procs \ {p} : pc'[q] = pc[q] /\ ctx'[q] = ctx[q]
  PROVE  Uncounted' = Uncounted
BY DEF Uncounted

LEMMA StepAccounting ==
  ASSUME NEW p \in Procs, IInv, QueueOK, BrowserOK, LaunchOK, StopOK, PlacesOpen, KeysOK, Accounting,
         IsFiniteSet(open), Apart, Step(p), QueueOK', IInv'
  PROVE  Accounting' /\ IsFiniteSet(open')
<1> DEFINE n == Cardinality(Busy)
<1> DEFINE m == Cardinality(Creating)
<1>1. \A q \in Procs \ {p} : pc'[q] = pc[q] /\ ctx'[q] = ctx[q] /\ cont'[q] = cont[q]
  BY OthersKept
<1>2. /\ IsFiniteSet(Busy) /\ n \in Nat /\ m \in Nat /\ active \in Nat
  <2>1. Busy \subseteq open
    BY DEF Busy
  <2> QED BY <2>1, FS_Subset, FS_CardinalityType, CreatingCount DEF IInv, TypeOK, PoolType
<1>3. ~Stopping => active = n + m
  BY DEF Accounting, Busy, Uncounted, Creating
<1>4. CASE Stopping
  <2>1. p \in Closers /\ cont[p] = "stop" /\ \A q \in Procs \ {p} : pc[q] = "idle"
    <3>1. PICK q \in Closers : cont[q] = "stop"
      BY <1>4 DEF Stopping
    <3>2. \A r \in Procs \ {q} : pc[r] = "idle"
      BY <3>1 DEF StopOK
    <3>3. pc[p] # "idle"
      BY StepWorks
    <3> QED BY <3>1, <3>2, <3>3
  <2>2. Snapshot(p) \/ ClosePop(p) \/ Put(p) \/ Drain(p) \/ Clear(p) \/ Quit(p) \/ Stop(p)
    <3>1. pc[p] \in {"snapshot", "closePop", "put", "drain", "clear", "quit", "stop"} /\ lock = NULL /\ lockQ = <<>>
      BY <2>1 DEF StopOK, IInv, RolesOK
    <3> QED BY <3>1, NothingFails, NobodyQueues DEF Step, Lookup, Start, Launch, Chromium, Acquire, CreateOk, TakeAvailable, Count, Assign,
         Pop, Retain, Locked, At
  <2>3. CASE Quit(p) \/ Stop(p)
    <3>1. Bare /\ active' = 0 /\ open' = {} /\ lock' = NULL
      BY <2>1, <2>3 DEF Quit, Stop, At, StopOK, BrowserOK, Bare, pool, lockVars
    <3>2. Busy' = {} /\ Creating' = {}
      BY <3>1, PoolAssumption DEF Busy, Creating, QueueOK, QueueIs
    <3> QED BY <3>1, <3>2, FS_EmptySet DEF Accounting, Busy, Uncounted, Creating
  <2>4. CASE ~(Quit(p) \/ Stop(p))
    <3>1. cont' = cont /\ open' \subseteq open
      BY <2>2, <2>4 DEF Snapshot, ClosePop, Put, Drain, Clear, closing
    <3> QED BY <1>4, <3>1, FS_Subset DEF Accounting, Stopping
  <2> QED BY <2>3, <2>4
<1>5. CASE ~Stopping
  <2> USE DEF IInv, TypeOK, PoolType, LoopType, LocalType, Continue, Await
  <2> SUFFICES IsFiniteSet(open') /\ active' = Cardinality(Busy') + Cardinality(Creating)'
    BY DEF Accounting, Busy, Uncounted, Creating
  <2>1. active = n + m /\ m = (IF lock = NULL THEN 0 ELSE 1)
    BY <1>3, <1>5, CreatingCount
  <2>2. Cardinality(Creating)' = IF lock' = NULL THEN 0 ELSE 1
    BY CreatingCountNext
  <2>3. ASSUME pc[p] # "count", pc'[p] # "count" PROVE Uncounted' = Uncounted
    BY <1>1, <2>3, UncountedKept
  <2>4. Busy \subseteq Contexts /\ \A c \in Busy : c # NULL
    BY PoolAssumption DEF Busy
  <2>5. CASE QueueForLock(p) \/ Start(p) \/ Launch(p) \/ Chromium(p) \/ Lookup(p) \/ Snapshot(p) \/ ClosePop(p)
    <3>1. UNCHANGED <<active, open, available, lock>>
      BY <2>5 DEF QueueForLock, Start, Launch, Chromium, Lookup, Snapshot, ClosePop, pool, lockVars
    <3>2. Uncounted' = Uncounted
      <4>1. CASE QueueForLock(p)
        BY <1>1, <4>1 DEF QueueForLock, Uncounted
      <4>2. CASE Start(p) \/ Launch(p) \/ Chromium(p)
        BY <2>3, <4>2, NothingFails DEF Start, Launch, Chromium, At
      <4>3. CASE Lookup(p)
        BY <2>3, <4>3 DEF Lookup, Locked, At
      <4>4. CASE Snapshot(p) \/ ClosePop(p)
        BY <2>3, <4>4 DEF Snapshot, ClosePop, AfterClosing, Locked, At
      <4> QED BY <2>5, <4>1, <4>2, <4>3, <4>4
    <3> QED BY <2>1, <2>2, <3>1, <3>2 DEF Busy
  <2>6. CASE Assign(p) \/ Pop(p) \/ Retain(p)
    <3>1. UNCHANGED <<active, open, available, lock>>
      BY <2>6 DEF Assign, Pop, Retain
    <3>2. Uncounted' = Uncounted
      BY <2>3, <2>6 DEF Assign, Pop, Retain, Locked, At
    <3> QED BY <2>1, <2>2, <3>1, <3>2 DEF Busy
  <2>7. CASE Acquire(p)
    <3>1. open' = open /\ pc[p] = "acquire" /\ lock = NULL
      BY <2>7 DEF Acquire, Locked, At, LockIsFreeFor
    <3>2. Uncounted' = Uncounted
      BY <2>3, <2>7 DEF Acquire, Locked, At
    <3>3. CASE active' = active
      <4>1. available' = available /\ lock' = lock
        BY <2>7, <3>3 DEF Acquire
      <4> QED BY <2>1, <2>2, <3>1, <3>2, <3>3, <4>1 DEF Busy
    <3>4. CASE lock' = p
      <4>1. available' = available /\ active' = active + 1 /\ p # NULL
        BY <2>7, <3>1, <3>4, PoolAssumption DEF Acquire
      <4> QED BY <1>2, <2>1, <2>2, <3>1, <3>2, <3>4, <4>1 DEF Busy
    <3>5. CASE active' # active /\ lock' # p
      <4>1. PICK c \in available : available' = available \ {c} /\ active' = active + 1 /\ lock' = lock
        BY <2>7, <3>5 DEF Acquire
      <4>2. c \notin Uncounted
        BY <4>1 DEF OneOwner, CarriedAlone, Carrying, Uncounted
      <4>3. c \in open
        <5>1. \A q \in Closers : pc[q] \notin {"clear", "quit"}
          BY <1>5 DEF StopOK, Stopping
        <5> QED BY <4>1, <5>1 DEF PlacesOpen
      <4>4. Busy' = Busy \cup {c} /\ c \notin Busy
        BY <3>1, <3>2, <4>1, <4>2, <4>3 DEF Busy
      <4>5. Cardinality(Busy') = n + 1
        BY <1>2, <4>4, OneMore
      <4> QED BY <1>2, <2>1, <2>2, <3>1, <4>1, <4>5
    <3> QED BY <3>3, <3>4, <3>5
  <2>8. CASE CreateOk(p)
    <3>1. PICK c \in Contexts \ Referenced : open' = open \cup {c} /\ ctx' = [ctx EXCEPT ![p] = c]
      BY <2>8 DEF CreateOk
    <3>2. lock = p /\ lock' = NULL /\ active' = active /\ available' = available /\ p # NULL
      BY <2>8, PoolAssumption DEF CreateOk, At, QueueOK, QueueIs, pool
    <3>3. Uncounted' = Uncounted
      BY <2>3, <2>8 DEF CreateOk, At
    <3>4. c \notin open /\ c \notin available /\ c \notin Uncounted
      BY <3>1 DEF Referenced, Uncounted
    <3>5. Busy' = Busy \cup {c} /\ c \notin Busy
      BY <3>1, <3>2, <3>3, <3>4 DEF Busy
    <3>6. Cardinality(Busy') = n + 1 /\ IsFiniteSet(open')
      BY <1>2, <3>1, <3>4, <3>5, OneMore
    <3> QED BY <1>2, <2>1, <2>2, <3>2, <3>6
  <2>9. CASE TakeAvailable(p)
    <3>1. PICK c \in available : available' = available \ {c} /\ ctx' = [ctx EXCEPT ![p] = c]
      BY <2>9 DEF TakeAvailable
    <3>2. UNCHANGED <<active, open, lock>> /\ pc[p] = "wait" /\ pc'[p] = "count"
      BY <2>9 DEF TakeAvailable, At, lockVars
    <3>3. Uncounted' = Uncounted \cup {c}
      BY <1>1, <3>1, <3>2 DEF Uncounted
    <3>4. Busy' = Busy
      BY <3>1, <3>2, <3>3 DEF Busy
    <3> QED BY <2>1, <2>2, <3>2, <3>4
  <2>10. CASE Count(p)
    <3>1. UNCHANGED <<available, open, lock, ctx>> /\ active' = active + 1 /\ pc[p] = "count" /\ pc'[p] = "assign"
      BY <2>10 DEF Count, Locked, At
    <3>2. ctx[p] \in open /\ ctx[p] \notin available /\ \A q \in Procs \ {p} : pc[q] = "count" => ctx[q] # ctx[p]
      <4>1. \A q \in Closers : pc[q] \notin {"clear", "quit"}
        BY <1>5 DEF StopOK, Stopping
      <4> QED BY <3>1, <4>1 DEF PlacesOpen, OneOwner, CarriedAlone, Carrying
    <3>3. Uncounted = Uncounted' \cup {ctx[p]} /\ ctx[p] \notin Uncounted'
      BY <1>1, <3>1, <3>2 DEF Uncounted
    <3>4. Busy' = Busy \cup {ctx[p]} /\ ctx[p] \notin Busy
      BY <3>1, <3>2, <3>3 DEF Busy
    <3>5. Cardinality(Busy') = n + 1
      BY <1>2, <3>4, OneMore
    <3> QED BY <1>2, <2>1, <2>2, <3>1, <3>5
  <2>11. CASE Put(p)
    <3>1. /\ UNCHANGED <<open, lock>> /\ pc[p] = "put" /\ available' = available \cup {ctx[p]}
          /\ active' = IF active = 0 THEN 0 ELSE active - 1
      BY <2>11 DEF Put, Locked, At
    <3>2. Uncounted' = Uncounted
      BY <2>3, <2>11 DEF Put, AfterClosing, Locked, At
    <3>3. ctx[p] \in open /\ ctx[p] \notin available /\ ctx[p] \notin Uncounted
      <4>1. \A q \in Closers : pc[q] \notin {"clear", "quit"}
        BY <1>5 DEF StopOK, Stopping
      <4> QED BY <3>1, <4>1 DEF PlacesOpen, OneOwner, CarriedAlone, Carrying, Uncounted
    <3>4. Busy = Busy' \cup {ctx[p]} /\ ctx[p] \notin Busy' /\ Busy' \subseteq open
      BY <3>1, <3>2, <3>3 DEF Busy
    <3>5. n = Cardinality(Busy') + 1 /\ Cardinality(Busy') \in Nat
      BY <3>4, FS_Subset, OneMore
    <3> QED BY <1>2, <2>1, <2>2, <3>1, <3>5
  <2>13. ~Stop(p)
    BY <1>5 DEF Stop, At, StopOK, LaunchOK, Stopping, Procs
  <2>12. CASE Drain(p) \/ Clear(p) \/ Quit(p)
    <3>1. p \in Runs
      BY <1>5, <2>12 DEF Drain, Clear, Quit, At, StopOK, Stopping, Procs
    <3>2. browser = "none"
      BY <2>12, <3>1 DEF Drain, Clear, Quit, At, LaunchOK
    <3>3. Bare /\ lock = NULL /\ ~orphans
      BY <3>2 DEF BrowserOK
    <3>4. active' = 0 /\ open' = {} /\ lock' = NULL
      BY <2>12, <3>3 DEF Drain, Clear, Quit, Bare, pool, lockVars
    <3>5. Busy' = {}
      BY <3>4 DEF Busy
    <3> QED BY <2>2, <3>4, <3>5, FS_EmptySet
  <2> QED
    BY <2>5, <2>6, <2>7, <2>8, <2>9, <2>10, <2>11, <2>12, <2>13, NothingFails DEF Step
<1> QED BY <1>4, <1>5

\* What a call changes before the coroutine goes on: p leaves "idle" or "hold".
Calls(p) ==
  /\ pc[p] \in {"idle", "hold"} /\ loop = NULL
  /\ pc'[p] \in {"lookup", "idle", "pop", "retain", "closePop", "snapshot"}
  /\ UNCHANGED <<available, active, taskCtx, retained, chromium, open, lock, lockQ>>
  /\ \A q \in Procs \ {p} : /\ pc'[q] = pc[q] /\ ctx'[q] = ctx[q] /\ key'[q] = key[q]
                            /\ todo'[q] = todo[q] /\ cont'[q] = cont[q]

LEMMA CallsAre ==
  ASSUME NEW p \in Procs, IInv,
         \/ GiveBack(p) \/ CloseAllRetained(p) \/ Shutdown(p)
         \/ \E k \in Keys : GetTaskContext(p, k) \/ CloseTaskBrowser(p, k)
  PROVE  Calls(p)
<1> USE DEF IInv, TypeOK, LoopType, LocalType, Calls, Continue, Await, pool, lockVars, closing
<1>1. CASE GiveBack(p)
  BY <1>1 DEF GiveBack
<1>2. CASE CloseAllRetained(p) \/ Shutdown(p)
  BY <1>2 DEF CloseAllRetained, Shutdown
<1>3. CASE \E k \in Keys : GetTaskContext(p, k)
  BY <1>3 DEF GetTaskContext
<1>4. CASE \E k \in Keys : CloseTaskBrowser(p, k)
  BY <1>4 DEF CloseTaskBrowser
<1> QED BY <1>1, <1>2, <1>3, <1>4

\* The parts that depend on little of the call.
LEMMA CallKeeps ==
  ASSUME NEW p \in Procs, IInv, Quiet, Calls(p), Apart
  PROVE  /\ QueueOK' /\ PlacesOpen' /\ NothingLost' /\ IsFiniteSet(open)'
         /\ /\ pc[p] = "hold" \/ pc'[p] \notin {"pop", "retain"}
            /\ p \in Runs => pc'[p] \notin {"closePop", "snapshot"}
            => BrowserOK'
         /\ (Stopping' <=> Stopping) => Accounting'
<1> USE DEF IInv, TypeOK, PoolType, LoopType, LocalType
<1>1. \A q \in Procs : pc'[q] = pc[q] \/ (q = p /\ pc[q] \in {"idle", "hold"} /\ pc'[q] \in {"lookup", "idle", "pop", "retain", "closePop", "snapshot"})
  BY DEF Calls
<1>2. \A q \in Procs : (Carrying(q)' <=> Carrying(q)) /\ (Carrying(q) => ctx'[q] = ctx[q])
  BY DEF Calls, Carrying
<1>3. QueueOK'
  <2>1. QueueOK /\ lock' = lock /\ lockQ' = lockQ
    BY DEF Quiet, Calls
  <2>2. \A q \in Procs : pc'[q] = "create" <=> lock' = q
    BY <1>1, <2>1 DEF QueueOK, QueueIs
  <2>3. \A i \in 1..Len(lockQ) : lockQ[i] \in Procs /\ lockQ[i] # p
    BY <2>1 DEF QueueOK, QueueIs, LockLabels, Calls
  <2>4. \A i \in 1..Len(lockQ') : pc'[lockQ'[i]] \in LockLabels
    BY <1>1, <2>1, <2>3 DEF QueueOK, QueueIs
  <2> QED BY <2>1, <2>2, <2>4 DEF QueueOK, QueueIs
<1>4. PlacesOpen'
  <2>1. (\A q \in Closers : pc'[q] \notin {"clear", "quit"}) => \A q \in Closers : pc[q] \notin {"clear", "quit"}
    BY <1>1 DEF Procs
  <2> QED BY <1>2, <2>1 DEF PlacesOpen, Quiet, Calls
<1>5. NothingLost' /\ IsFiniteSet(open)'
  BY <1>2 DEF NothingLost, Quiet, Calls
<1>6. ASSUME pc[p] = "hold" \/ pc'[p] \notin {"pop", "retain"}, p \in Runs => pc'[p] \notin {"closePop", "snapshot"}
      PROVE  BrowserOK'
  <2>1. /\ BrowserOK /\ UNCHANGED <<browser, playwright, launcher, doomed, orphans>>
        /\ \A q \in Procs \ {p} : pc'[q] = pc[q]
    BY DEF Quiet, Calls
  <2>2. launcher # NULL => pc'[launcher] = "chromium"
    <3>1. pc[p] # "chromium"
      BY DEF Calls
    <3> QED BY <2>1, <3>1 DEF BrowserOK
  <2>3. CASE browser = "none"
    <3>1. Bare /\ lock = NULL /\ lockQ = <<>> /\ AtBareLabels /\ AtMostOneRun /\ pc[p] = "idle"
      BY <2>1, <2>3, NobodyAtWork DEF BrowserOK, Calls
    <3>2. Bare' /\ lock' = NULL /\ lockQ' = <<>>
      BY <3>1 DEF Bare, Calls
    <3>3. AtBareLabels'
      BY <1>1, <1>6, <3>1 DEF AtBareLabels, BareLabels
    <3>4. AtMostOneRun'
      <4>1. CASE p \notin Runs
        BY <2>1, <3>1, <4>1 DEF AtMostOneRun, Procs
      <4>2. CASE p \in Runs /\ pc'[p] = "idle"
        BY <2>1, <3>1, <4>2 DEF AtMostOneRun, Procs
      <4>3. CASE p \in Runs /\ pc'[p] # "idle"
        <5>1. pc'[p] = "lookup"
          BY <1>1, <1>6, <3>1, <4>3
        <5>2. \A q \in Runs \ {p} : pc[q] = "idle"
          BY <2>3, <3>1, <4>3, <5>1 DEF Apart, StartedAlone
        <5> QED BY <2>1, <5>2 DEF AtMostOneRun, Procs
      <4> QED BY <4>1, <4>2, <4>3
    <3>5. playwright = "up" => PlaywrightInUse'
      <4>1. ASSUME playwright = "up" PROVE PlaywrightInUse'
        <5>1. PICK q \in Procs : pc[q] \in {"chromium", "stop"}
          BY <2>1, <2>3, <4>1 DEF BrowserOK, PlaywrightInUse
        <5> QED BY <2>1, <3>1, <5>1 DEF PlaywrightInUse
      <4> QED BY <4>1
    <3> QED BY <2>1, <2>2, <3>2, <3>3, <3>4, <3>5 DEF BrowserOK
  <2>4. CASE browser # "none"
    BY <2>1, <2>2, <2>4 DEF BrowserOK
  <2> QED BY <2>3, <2>4
<1>7. ASSUME Stopping' <=> Stopping PROVE Accounting'
  <2>1. Uncounted' = Uncounted
    BY UncountedKept DEF Calls
  <2>2. Creating' = Creating
    BY <1>1 DEF Creating
  <2>3. Busy' = Busy /\ active' = active
    BY <2>1 DEF Busy, Calls
  <2>4. ~Stopping => active = Cardinality(Busy) + Cardinality(Creating)
    BY DEF Quiet, Accounting, Busy, Uncounted, Creating
  <2>5. ~Stopping' => active' = Cardinality(Busy') + Cardinality(Creating')
    BY <1>7, <2>2, <2>3, <2>4
  <2> QED BY <2>5 DEF Accounting, Busy, Uncounted, Creating
<1> QED BY <1>3, <1>4, <1>5, <1>6, <1>7

\* A call of the pool by runs that stay apart.
LEMMA QuietCall ==
  ASSUME IInv, Quiet, Apart,
         \/ \E p \in Runs : RunCall(p)
         \/ \E p \in Closers : CloserCall(p)
         \/ BrowserDies
  PROVE  Quiet'
<1> USE PoolAssumption DEF IInv, TypeOK, PoolType, LoopType, LocalType, CounterType, Continue, Await
<1>1. ~BrowserDies /\ \A p \in Runs : ~Cancel(p)
  BY DEF Apart, BrowserDies, Cancel
<1>2. KeysApart'
  BY DEF Apart
<1>3. ASSUME NEW p \in Runs, GiveBack(p) \/ \E k \in Keys : GetTaskContext(p, k)
      PROVE  Quiet'
  <2>1. p \in Procs /\ Calls(p) /\ p \notin Closers
    BY <1>3, CallsAre DEF Procs
  <2>2. /\ pc'[p] \in {"lookup", "idle", "pop", "retain"} /\ cont' = cont /\ todo' = todo
        /\ pc'[p] # "lookup" => pc[p] = "hold" /\ key' = key
        /\ pc'[p] = "idle" => key[p] \in Sessions
        /\ pc'[p] \in {"pop", "retain"} => key[p] \in Tasks
    BY <1>3, <2>1 DEF GiveBack, GetTaskContext, closing, RolesOK, Keys
  <2>3. Stopping' <=> Stopping
    BY <2>2 DEF Stopping
  <2>4. LaunchOK'
    BY <2>1, <2>2 DEF Quiet, LaunchOK, Calls, Procs
  <2>5. StopOK'
    <3>1. \A q \in Closers : cont[q] # "stop"
      <4>1. CASE pc[p] = "hold"
        BY <2>1, <4>1 DEF Quiet, StopOK
      <4>2. CASE \E k \in Keys : GetTaskContext(p, k)
        BY <4>2 DEF GetTaskContext, Stopping
      <4> QED BY <1>3, <4>1, <4>2 DEF GiveBack
    <3> QED BY <2>1, <2>2, <3>1 DEF Quiet, StopOK, Calls, Procs
  <2>6. KeysOK'
    BY <1>2, <2>1, <2>2 DEF Quiet, KeysOK, Calls, Procs
  <2>7. EndedTaskOwnsNothing'
    <3> SUFFICES ASSUME NEW k \in Tasks, \A q \in Runs : pc'[q] = "idle" \/ key'[q] # k PROVE taskCtx'[k] = NULL
      BY DEF EndedTaskOwnsNothing
    <3>1. \A q \in Runs \ {p} : pc[q] = "idle" \/ key[q] # k
      BY <2>1 DEF Calls, Procs
    <3>2. pc[p] = "idle" \/ key[p] # k
      <4>1. CASE \E l \in Keys : GetTaskContext(p, l)
        BY <4>1 DEF GetTaskContext
      <4>2. CASE GiveBack(p)
        BY <2>2, <4>2 DEF GiveBack
      <4> QED BY <1>3, <4>1, <4>2
    <3> QED BY <2>1, <3>1, <3>2 DEF Quiet, EndedTaskOwnsNothing, Calls
  <2> QED BY <2>1, <2>2, <2>3, <2>4, <2>5, <2>6, <2>7, CallKeeps DEF Quiet
<1>4. ASSUME NEW p \in Closers, CloseAllRetained(p) \/ Shutdown(p) \/ \E k \in Keys : CloseTaskBrowser(p, k)
      PROVE  Quiet'
  <2>1. p \in Procs /\ Calls(p) /\ p \notin Runs
    BY <1>4, CallsAre DEF Procs
  <2>2. pc[p] = "idle" /\ pc'[p] \in {"closePop", "snapshot"} /\ key' = key
    BY <1>4, <2>1 DEF CloseAllRetained, Shutdown, CloseTaskBrowser
  <2>3. Accounting'
    <3>1. CASE Shutdown(p)
      BY <2>1, <3>1 DEF Shutdown, Stopping, Accounting
    <3>2. CASE ~Shutdown(p)
      <4>1. Stopping' <=> Stopping
        BY <1>4, <3>2 DEF CloseAllRetained, CloseTaskBrowser, closing, Stopping
      <4> QED BY <2>1, <4>1, CallKeeps
    <3> QED BY <3>1, <3>2
  <2>4. LaunchOK'
    BY <2>1 DEF Quiet, LaunchOK, Calls, Procs
  <2>5. StopOK'
    <3>1. \A q \in Closers : cont[q] # "stop"
      <4>1. CASE Shutdown(p)
        BY <4>1 DEF Shutdown, Quiet, StopOK, Procs
      <4>2. CASE ~Shutdown(p)
        BY <1>4, <4>2 DEF CloseAllRetained, CloseTaskBrowser, Stopping
      <4> QED BY <4>1, <4>2
    <3>2. \A q \in Closers \ {p} : cont'[q] # "stop" /\ pc'[q] = pc[q]
      BY <2>1, <3>1 DEF Calls, Procs
    <3>3. ASSUME cont'[p] = "stop" PROVE pc'[p] = "snapshot" /\ lock' = NULL /\ lockQ' = <<>> /\ \A q \in Procs \ {p} : pc'[q] = "idle"
      <4>1. Shutdown(p)
        BY <1>4, <3>1, <3>3 DEF CloseAllRetained, CloseTaskBrowser, closing
      <4>2. \A q \in Procs : pc[q] = "idle"
        BY <4>1 DEF Shutdown
      <4>3. lock = NULL
        BY <4>2 DEF Quiet, QueueOK, QueueIs
      <4>4. lockQ = <<>>
        <5>1. ASSUME lockQ # <<>> PROVE FALSE
          <6>1. 1 \in 1..Len(lockQ) /\ lockQ[1] \in Procs
            BY <5>1
          <6> QED BY <4>2, <6>1 DEF Quiet, QueueOK, QueueIs, LockLabels
        <5> QED BY <5>1
      <4> QED BY <2>1, <4>1, <4>2, <4>3, <4>4 DEF Calls, Shutdown
    <3> QED BY <2>1, <2>2, <3>1, <3>2, <3>3 DEF Quiet, StopOK
  <2>6. KeysOK'
    BY <1>2, <2>1, <2>2 DEF Quiet, KeysOK, Calls, Procs
  <2>7. EndedTaskOwnsNothing'
    BY <2>1, <2>2 DEF Quiet, EndedTaskOwnsNothing, Calls, Procs
  <2> QED BY <2>1, <2>2, <2>3, <2>4, <2>5, <2>6, <2>7, CallKeeps DEF Quiet
<1> QED BY <1>1, <1>3, <1>4 DEF RunCall, CloserCall

\* The inductive invariant of the two uses of the pool.
SharedInv == IInv /\ (~shared => Quiet)

LEMMA QuietStep ==
  ASSUME NEW p \in Procs, IInv, Quiet, Apart, Step(p), IInv'
  PROVE  Quiet'
<1>1. QueueOK'
  BY NothingFails, StepQueue DEF Quiet
<1>2. BrowserOK' /\ LaunchOK' /\ StopOK'
  BY StepBrowser, StepLaunch, StepStop DEF Quiet
<1>3. PlacesOpen' /\ KeysOK'
  BY StepOpen, StepKeys DEF Quiet, PlacesOpen
<1>4. Accounting' /\ IsFiniteSet(open)'
  BY <1>1, StepAccounting DEF Quiet
<1>5. NothingLost' /\ EndedTaskOwnsNothing'
  BY StepLost, StepEnded DEF Quiet
<1> QED BY <1>1, <1>2, <1>3, <1>4, <1>5 DEF Quiet

LEMMA InitQuiet == Init => Quiet
<1> SUFFICES ASSUME Init PROVE Quiet
  OBVIOUS
<1> USE DEF Init
<1>1. Busy = {} /\ Creating = {}
  BY DEF Busy, Creating
<1>2. Accounting /\ IsFiniteSet(open)
  <2>1. Cardinality(Busy) = 0 /\ Cardinality(Creating) = 0 /\ IsFiniteSet(open) /\ active = 0
    BY <1>1, FS_EmptySet
  <2> HIDE DEF Init
  <2> QED BY <2>1 DEF Accounting, Busy, Uncounted, Creating
<1>3. QueueOK /\ BrowserOK
  BY PoolAssumption DEF QueueOK, QueueIs, BrowserOK, Bare, AtBareLabels, BareLabels, AtMostOneRun, Procs
<1>7. NothingLost /\ EndedTaskOwnsNothing
  BY DEF NothingLost, EndedTaskOwnsNothing, Keys
<1>4. LaunchOK /\ StopOK
  BY PoolAssumption DEF LaunchOK, StopOK, Procs
<1>5. PlacesOpen
  BY DEF PlacesOpen, Carrying
<1>6. KeysOK
  BY DEF KeysOK, KeysApart, Procs
<1> QED BY <1>2, <1>3, <1>4, <1>5, <1>6, <1>7 DEF Quiet

LEMMA InitSharedInv == SafetyInit => SharedInv
BY InitIInv, InitQuiet DEF SafetyInit, SharedInv

LEMMA NextSharedInv == SharedInv /\ [SafetyNext]_<<vars, shared>> => SharedInv'
<1> SUFFICES ASSUME SharedInv, [SafetyNext]_<<vars, shared>> PROVE SharedInv'
  OBVIOUS
<1>1. IInv /\ IInv' /\ shared' = shared
  BY NextIInv DEF SharedInv, SafetyNext
<1>2. CASE SafetyNext /\ ~shared
  <2>1. Quiet /\ Apart /\ Next
    BY <1>2 DEF SharedInv, SafetyNext
  <2>2. Quiet'
    <3>1. ASSUME NEW p \in Procs, Step(p) PROVE Quiet'
      BY <1>1, <2>1, <3>1, QuietStep
    <3>2. CASE (\E p \in Runs : RunCall(p)) \/ (\E p \in Closers : CloserCall(p)) \/ BrowserDies
      BY <1>1, <2>1, <3>2, QuietCall
    <3> QED BY <2>1, <3>1, <3>2 DEF Next
  <2> QED BY <1>1, <2>2 DEF SharedInv
<1>3. CASE UNCHANGED <<vars, shared>> /\ ~shared
  <2>1. Quiet
    BY <1>3 DEF SharedInv
  <2>2. Quiet'
    BY <1>3, <2>1 DEF vars, pool, lockVars, closing, counters, Quiet, QueueOK, QueueIs, BrowserOK, Bare, AtBareLabels, AtMostOneRun,
       PlaywrightInUse, LaunchOK, StopOK, PlacesOpen, KeysOK, KeysApart, Accounting, Stopping, NothingLost, EndedTaskOwnsNothing, Carrying
  <2> QED BY <1>1, <2>2 DEF SharedInv
<1> QED BY <1>1, <1>2, <1>3 DEF SharedInv

LEMMA SharedInvHolds == SafetySpec => []SharedInv
BY InitSharedInv, NextSharedInv, PTL DEF SafetySpec

\* Two runs for different keys never hold the same context, for every number of runs, closers,
\* keys and contexts, when no two runs share a key or start the browser, and nothing fails.
THEOREM PoolIsolation == SafetySpec => []IsolationApart
<1>1. SharedInv => IsolationApart
  <2> SUFFICES ASSUME IInv, Quiet, NEW p \in Runs, NEW q \in Runs, pc[p] = "hold", pc[q] = "hold", key[p] # key[q]
               PROVE  ctx[p] # ctx[q]
    BY DEF SharedInv, IsolationApart, Isolation
  <2>1. /\ ctx[p] # NULL /\ ctx[p] = taskCtx[key[p]] /\ ctx[q] = taskCtx[key[q]]
        /\ key[p] \in Keys /\ key[q] \in Keys
    BY DEF Quiet, KeysOK, IInv, RolesOK
  <2> QED BY <2>1 DEF IInv, OneOwner, TablesDisjoint
<1> QED BY <1>1, SharedInvHolds, PTL

\* The counter of contexts in use is true, and no context is lost.
THEOREM PoolAccounting == SafetySpec => []PlacesAddUp
<1>1. SharedInv => PlacesAddUp
  BY DEF SharedInv, Quiet, PlacesAddUp
<1> QED BY <1>1, SharedInvHolds, PTL

\* A task that has ended owns no context.
THEOREM PoolEndedOwnsNothing == SafetySpec => []EndedOwnsNothing
<1>1. SharedInv => EndedOwnsNothing
  BY DEF SharedInv, Quiet, EndedOwnsNothing
<1> QED BY <1>1, SharedInvHolds, PTL

\* What a run is handed is open, and a session keeps its context.
THEOREM PoolContextsUsable == SafetySpec => ContextsStayUsable
<1>1. SharedInv /\ SharedInv' /\ [SafetyNext]_<<vars, shared>> => [~shared => HandsOutOpen /\ SessionKeepsContext]_vars
  <2> SUFFICES ASSUME SharedInv, SharedInv', SafetyNext, ~shared
               PROVE  HandsOutOpen /\ SessionKeepsContext
    BY DEF vars
  <2>1. IInv /\ IInv' /\ Quiet /\ Quiet' /\ Apart /\ Next
    BY DEF SharedInv, SafetyNext
  <2>2. HandsOutOpen
    <3> SUFFICES ASSUME NEW p \in Runs, pc[p] # "hold", pc'[p] = "hold", browser = "up"
                 PROVE  ctx'[p] \in open'
      BY DEF HandsOutOpen
    <3>1. ctx'[p] # NULL /\ ctx'[p] = taskCtx'[key'[p]] /\ key'[p] \in Keys
      BY <2>1 DEF Quiet, KeysOK, IInv, RolesOK
    <3>2. \A q \in Closers : pc'[q] \notin {"clear", "quit"}
      BY <2>1, PoolAssumption DEF Quiet, StopOK, Procs
    <3> QED BY <2>1, <3>1, <3>2 DEF Quiet, PlacesOpen
  <2>3. SessionKeepsContext
    <3> SUFFICES ASSUME NEW k \in Sessions, ~Stopping, taskCtx[k] # NULL PROVE taskCtx'[k] = taskCtx[k]
      BY DEF SessionKeepsContext
    <3>0. k \in Keys /\ k \notin Tasks /\ TypeOK
      BY <2>1, PoolAssumption DEF Keys, IInv
    <3>1. ASSUME NEW p \in Procs, Step(p) PROVE taskCtx'[k] = taskCtx[k]
      <4>1. CASE Lookup(p)
        BY <3>0, <4>1 DEF Lookup, TypeOK, PoolType
      <4>2. CASE Assign(p)
        <5>1. p \in Runs /\ pc[p] = "assign" /\ key[p] \in Keys
          BY <2>1, <4>2, WorkingKey DEF Assign, Locked, At, IInv, RolesOK, Procs
        <5>2. key[p] # k
          BY <2>1, <5>1 DEF Quiet, KeysOK
        <5> QED BY <3>0, <4>2, <5>2 DEF Assign, TypeOK, PoolType
      <4>3. CASE Pop(p) \/ Retain(p)
        <5>1. p \in Runs /\ pc[p] \in {"pop", "retain"}
          BY <2>1, <4>3 DEF Pop, Retain, Locked, At, IInv, RolesOK, Procs
        <5>2. key[p] # k
          BY <2>1, <3>0, <5>1 DEF Quiet, KeysOK
        <5> QED BY <3>0, <4>3, <5>2 DEF Pop, Retain, TypeOK, PoolType
      <4>4. CASE Clear(p)
        <5>1. pc[p] = "clear"
          BY <4>4 DEF Clear, At
        <5>2. p \in Runs
          BY <2>1, <5>1 DEF Quiet, StopOK, Stopping, Procs
        <5>3. Bare
          BY <2>1, <5>1, <5>2 DEF Quiet, LaunchOK, BrowserOK
        <5> QED BY <3>0, <5>3 DEF Bare
      <4>5. CASE ~(Lookup(p) \/ Assign(p) \/ Pop(p) \/ Retain(p) \/ Clear(p))
        BY <3>1, <4>5 DEF Step, QueueForLock, Start, Launch, Chromium, Acquire, CreateOk, CreateFail, TakeAvailable,
           Count, Snapshot, ClosePop, Put, ClosePagesFail, Drain, Quit, Stop, pool
      <4> QED BY <4>1, <4>2, <4>3, <4>4, <4>5
    <3>2. CASE (\E p \in Runs : RunCall(p)) \/ (\E p \in Closers : CloserCall(p)) \/ BrowserDies
      BY <3>2 DEF RunCall, CloserCall, BrowserDies, GetTaskContext, GiveBack, Cancel, CloseTaskBrowser,
         CloseAllRetained, Shutdown, pool
    <3> QED BY <2>1, <3>1, <3>2 DEF Next
  <2> QED BY <2>2, <2>3
<1> QED BY <1>1, SharedInvHolds, PTL DEF SafetySpec, ContextsStayUsable

-----------------------------------------------------------------------------
(* Whoever waits, waits for somebody.                                      *)

\* A run that waits has met a full pool, and what was open then is not closed under it.
WaitersMetContexts == \A p \in Runs : pc[p] = "wait" => open # {}

\* A run at this place does not need another context and may give back the one of its task.
GivesBack(q) == pc[q] \in {"hold", "lookup", "pop", "retain"} /\ key[q] \in Tasks /\ taskCtx[key[q]] # NULL

\* What a waiting run can be served with: an idle context, one that a closer may close, one
\* that is on its way, one of a session, or one that another run has, which does not wait.
WaitsForSomebody ==
  \A p \in Runs : pc[p] = "wait" =>
    \/ available # {}
    \/ \E k \in Keys : retained[k] # NULL
    \/ \E q \in Procs : Carrying(q)
    \/ \E k \in Sessions : taskCtx[k] # NULL
    \/ \E q \in Runs \ {p} : GivesBack(q)

\* While a run waits nobody stops the browser.
LEMMA NobodyStops ==
  ASSUME NEW p \in Runs, NEW q \in Procs, IInv, Quiet, pc[p] = "wait"
  PROVE  pc[q] \notin {"drain", "quit"} /\ ~Stopping
<1>1. browser # "none"
  BY NobodyAtWork DEF Quiet, Procs
<1>2. ~Stopping
  <2> SUFFICES ASSUME NEW c \in Closers, cont[c] = "stop" PROVE FALSE
    BY DEF Stopping
  <2>1. p \in Procs \ {c}
    BY PoolAssumption DEF Procs
  <2> QED BY <2>1 DEF Quiet, StopOK
<1>3. q \in Runs => pc[q] \notin {"drain", "quit"}
  BY <1>1 DEF Quiet, LaunchOK
<1>4. q \in Closers => pc[q] \notin {"drain", "quit"}
  BY <1>2 DEF Quiet, StopOK, Stopping
<1> QED BY <1>2, <1>3, <1>4 DEF Procs

\* Without a context in the browser the pool is not full: a run need not wait.
LEMMA FullHasContexts ==
  ASSUME IInv, Quiet, ~Stopping, lock = NULL, active >= MaxContexts
  PROVE  open # {}
<1> SUFFICES ASSUME open = {} PROVE FALSE
  OBVIOUS
<1>1. Cardinality(Creating) = 0
  BY CreatingCount DEF IInv, Quiet
<1>2. Cardinality(Busy) = 0
  BY FS_EmptySet DEF Busy
<1>3. active = Cardinality(Busy) + Cardinality(Creating)
  BY DEF Quiet, Accounting, Busy, Uncounted, Creating
<1> QED BY <1>1, <1>2, <1>3, PoolAssumption

LEMMA StepWaiters ==
  ASSUME NEW q \in Procs, IInv, Quiet, WaitersMetContexts, Step(q), Apart
  PROVE  WaitersMetContexts'
<1> SUFFICES ASSUME NEW p \in Runs, pc'[p] = "wait" PROVE open' # {}
  BY DEF WaitersMetContexts
<1>0. p \in Procs /\ pc \in [Procs -> Labels]
  BY DEF Procs, IInv, TypeOK, LoopType
<1>1. CASE pc[p] = "wait"
  <2>1. open # {}
    BY <1>1 DEF WaitersMetContexts
  <2>2. ~Drain(q) /\ ~Quit(q)
    BY <1>1, NobodyStops DEF Drain, Quit, At
  <2>3. open \subseteq open'
    BY <2>2 DEF Step, QueueForLock, Lookup, Start, Launch, Chromium, Acquire, CreateOk, CreateFail, TakeAvailable,
       Count, Assign, Pop, Retain, Snapshot, ClosePop, Put, ClosePagesFail, Clear, Stop
  <2> QED BY <2>1, <2>3
<1>2. CASE pc[p] # "wait"
  <2>1. p = q
    BY <1>0, <1>2, OthersKept
  <2>2. Acquire(p) /\ active >= MaxContexts /\ open' = open
    BY <1>0, <1>2, <2>1 DEF Step, QueueForLock, Lookup, Start, Launch, Chromium, Acquire, CreateOk, CreateFail,
       TakeAvailable, Count, Assign, Pop, Retain, Snapshot, ClosePop, Put, ClosePagesFail, Drain, Clear, Quit, Stop,
       Continue, Await, AfterClosing
  <2>3. lock = NULL /\ pc[p] = "acquire"
    BY <2>2 DEF Acquire, Locked, LockIsFreeFor, At
  <2>4. ~Stopping
    <3> SUFFICES ASSUME NEW c \in Closers, cont[c] = "stop" PROVE FALSE
      BY DEF Stopping
    <3>1. p \in Procs \ {c}
      BY <1>0, PoolAssumption
    <3> QED BY <2>3, <3>1 DEF Quiet, StopOK
  <2> QED BY <2>2, <2>3, <2>4, FullHasContexts
<1> QED BY <1>1, <1>2

LEMMA CallWaiters ==
  ASSUME IInv, Quiet, WaitersMetContexts, Apart,
         \/ \E p \in Runs : RunCall(p)
         \/ \E p \in Closers : CloserCall(p)
         \/ BrowserDies
  PROVE  WaitersMetContexts'
<1>1. ~BrowserDies /\ \A p \in Runs : ~Cancel(p)
  BY PoolAssumption DEF Apart, BrowserDies, Cancel, IInv, TypeOK, CounterType
<1>2. PICK q \in Procs : Calls(q)
  BY <1>1, CallsAre DEF RunCall, CloserCall, Procs
<1>3. open' = open /\ \A p \in Procs : pc'[p] = "wait" => pc[p] = "wait"
  BY <1>2 DEF Calls
<1> QED BY <1>3 DEF WaitersMetContexts, Procs

LEMMA NothingIsLostToWaiters ==
  ASSUME IInv, Quiet, WaitersMetContexts
  PROVE  WaitsForSomebody
<1> SUFFICES ASSUME NEW p \in Runs, pc[p] = "wait",
                    available = {}, \A k \in Keys : retained[k] = NULL, \A q \in Procs : ~Carrying(q),
                    \A k \in Sessions : taskCtx[k] = NULL
             PROVE  \E q \in Runs \ {p} : GivesBack(q)
  BY DEF WaitsForSomebody
<1>1. PICK c \in open : TRUE
  BY DEF WaitersMetContexts
<1>2. c # NULL
  BY PoolAssumption DEF IInv, TypeOK, PoolType
<1>3. PICK k \in Keys : taskCtx[k] = c
  BY <1>2 DEF Quiet, NothingLost
<1>4. k \in Tasks
  BY <1>2, <1>3 DEF Keys
<1>5. PICK q \in Runs : pc[q] # "idle" /\ key[q] = k
  BY <1>2, <1>3, <1>4 DEF Quiet, EndedTaskOwnsNothing
<1>6. pc[q] \in Labels /\ q \in Procs
  BY <1>5 DEF Procs, IInv, TypeOK, LoopType
<1>7. pc[q] \notin {"put", "closePop", "stop", "idle"}
  BY <1>5, <1>6 DEF Quiet, LaunchOK, Carrying
<1>8. pc[q] \notin {"start", "snapshot", "drain", "clear", "quit", "launch", "chromium", "acquire", "create", "wait",
                    "count", "assign"}
  BY <1>2, <1>3, <1>5 DEF Quiet, KeysOK
<1>9. pc[q] \in {"hold", "lookup", "pop", "retain"}
  BY <1>6, <1>7, <1>8 DEF Labels, LockLabels
<1> QED BY <1>2, <1>3, <1>4, <1>5, <1>8, <1>9 DEF GivesBack

\* Runs that work for different keys, without a fault, never wait for nothing or for one
\* another in a circle: as long as a run waits, there is a context to be had or to be given
\* back, and a run that has it is not waiting itself (pool.py acquire, release).  It is what
\* WaiterIsServed adds fairness to.
THEOREM PoolWaitersHaveAChance == SafetySpec => [](~shared => WaitsForSomebody)
<1> DEFINE W == SharedInv /\ (~shared => WaitersMetContexts)
<1>1. SafetyInit => W
  BY InitSharedInv DEF SafetyInit, Init, WaitersMetContexts, Procs
<1>2. W /\ [SafetyNext]_<<vars, shared>> => W'
  <2> SUFFICES ASSUME W, [SafetyNext]_<<vars, shared>>, ~shared' PROVE WaitersMetContexts'
    BY NextSharedInv
  <2>1. CASE SafetyNext
    <3>1. ~shared /\ IInv /\ Quiet /\ WaitersMetContexts /\ Apart /\ Next
      BY <2>1 DEF SafetyNext, SharedInv
    <3> QED BY <3>1, StepWaiters, CallWaiters DEF Next
  <2>2. CASE UNCHANGED <<vars, shared>>
    BY <2>2 DEF WaitersMetContexts, vars
  <2> QED BY <2>1, <2>2
<1>3. W => (~shared => WaitsForSomebody)
  BY NothingIsLostToWaiters DEF SharedInv
<1> QED BY <1>1, <1>2, <1>3, PTL DEF SafetySpec
=============================================================================
