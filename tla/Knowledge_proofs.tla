--------------------------- MODULE Knowledge_proofs ---------------------------
(***************************************************************************)
(* The knowledge base, for every set of files, documents, queries, workers *)
(* and clients, every size of the cache, and any faults, deletions and     *)
(* restarts: its types, and that the cache only forgets a document that is *)
(* gone. The difficult part is the cache: it is moved from one state to    *)
(* the next entry by entry, and stays within its size with one entry for   *)
(* each query.                                                             *)
(***************************************************************************)
EXTENDS Knowledge, SequenceTheorems, TLAPS

OneEach(s) == \A i, j \in DOMAIN s : s[i].query = s[j].query => i = j

\* What QueryCache._cache may be, its size aside.
CacheOK(s) == s \in Seq(Entry) /\ OneEach(s)

\* The entries of r are entries of s.
Within(r, s) == \A j \in DOMAIN r : \E i \in DOMAIN s : r[j] = s[i]

\* An element of a sequence is removed: the ones after it move up.
LEMMA RemovedAt ==
  ASSUME NEW T, NEW s \in Seq(T), NEW n \in 1..Len(s)
  PROVE  /\ RemoveAt(s, n) \in Seq(T) /\ Len(RemoveAt(s, n)) = Len(s) - 1
         /\ \A i \in 1..Len(s) - 1 : RemoveAt(s, n)[i] = IF i < n THEN s[i] ELSE s[i + 1]
<1> DEFINE a == SubSeq(s, 1, n - 1)
           b == SubSeq(s, n + 1, Len(s))
<1>1. Len(s) \in Nat /\ n \in Int /\ n - 1 \in Int /\ n + 1 \in Int /\ Len(s) \in Int
  OBVIOUS
<1>2. \A i \in 1..Len(s) : s[i] \in T
  OBVIOUS
<1>3. a \in Seq(T) /\ Len(a) = n - 1 /\ \A i \in 1..n - 1 : a[i] = s[i]
  <2>1. \A i \in 1..n - 1 : s[i] \in T
    BY <1>2
  <2>2. a \in Seq(T) /\ Len(a) = (IF 1 <= n - 1 THEN n - 1 - 1 + 1 ELSE 0)
        /\ \A i \in 1..(n - 1) - 1 + 1 : a[i] = s[1 + i - 1]
    BY <1>1, <2>1, SubSeqProperties
  <2> QED BY <1>1, <2>2
<1>4. b \in Seq(T) /\ Len(b) = Len(s) - n /\ \A i \in 1..Len(s) - n : b[i] = s[n + i]
  <2>1. \A i \in n + 1..Len(s) : s[i] \in T
    BY <1>2
  <2>2. b \in Seq(T) /\ Len(b) = (IF n + 1 <= Len(s) THEN Len(s) - (n + 1) + 1 ELSE 0)
        /\ \A i \in 1..Len(s) - (n + 1) + 1 : b[i] = s[(n + 1) + i - 1]
    BY <1>1, <2>1, SubSeqProperties
  <2>3. \A i \in Nat : (n + 1) + i - 1 = n + i
    BY <1>1
  <2> QED BY <1>1, <2>2, <2>3
<1>5. RemoveAt(s, n) = a \o b
  BY DEF RemoveAt
<1> HIDE DEF a, b
<1>6. /\ a \o b \in Seq(T) /\ Len(a \o b) = Len(a) + Len(b)
      /\ \A i \in 1..Len(a) + Len(b) : (a \o b)[i] = IF i <= Len(a) THEN a[i] ELSE b[i - Len(a)]
  BY <1>3, <1>4, ConcatProperties
<1>7. Len(a) + Len(b) = Len(s) - 1
  BY <1>1, <1>3, <1>4
<1>8. ASSUME NEW i \in 1..Len(s) - 1
      PROVE  (a \o b)[i] = IF i < n THEN s[i] ELSE s[i + 1]
  <2>1. CASE i < n
    BY <1>1, <1>3, <1>6, <1>7, <2>1
  <2>2. CASE ~(i < n)
    <3>1. i - (n - 1) \in 1..Len(s) - n /\ n + (i - (n - 1)) = i + 1 /\ ~(i <= n - 1)
      BY <1>1, <2>2
    <3> QED BY <1>3, <1>4, <1>6, <1>7, <2>2, <3>1
  <2> QED BY <2>1, <2>2
<1> QED BY <1>5, <1>6, <1>7, <1>8

\* The entry of a query is taken out: the others stay, in their order.
LEMMA WithoutIsOK ==
  ASSUME NEW s, CacheOK(s), NEW q
  PROVE  /\ CacheOK(Without(s, q)) /\ At(Without(s, q), q) = {} /\ Within(Without(s, q), s)
         /\ Len(Without(s, q)) = IF At(s, q) = {} THEN Len(s) ELSE Len(s) - 1
<1> DEFINE T == Entry
<1>1. s \in Seq(T) /\ \A i, j \in DOMAIN s : s[i].query = s[j].query => i = j
  BY DEF CacheOK, OneEach
<1> HIDE DEF T
<1>2. CASE At(s, q) = {}
  BY <1>2 DEF Without, Within
<1>3. CASE At(s, q) # {}
  <2> DEFINE n == CHOOSE i \in At(s, q) : TRUE
             r == RemoveAt(s, n)
  <2>1. n \in 1..Len(s) /\ s[n].query = q
    BY <1>1, <1>3 DEF At
  <2>2. Without(s, q) = r
    BY <1>3 DEF Without
  <2> HIDE DEF n
  <2>3. /\ r \in Seq(T) /\ Len(r) = Len(s) - 1
        /\ \A i \in 1..Len(s) - 1 : r[i] = IF i < n THEN s[i] ELSE s[i + 1]
    BY <1>1, <2>1, RemovedAt
  <2> HIDE DEF r
  <2>4. DOMAIN r = 1..Len(s) - 1 /\ DOMAIN s = 1..Len(s) /\ Len(s) \in Nat
    BY <1>1, <2>3
  <2>5. ASSUME NEW i \in DOMAIN r
        PROVE  \E k \in DOMAIN s : k # n /\ k = (IF i < n THEN i ELSE i + 1) /\ r[i] = s[k]
    <3>1. CASE i < n
      BY <2>1, <2>3, <2>4, <3>1
    <3>2. CASE ~(i < n)
      BY <2>1, <2>3, <2>4, <3>2
    <3> QED BY <3>1, <3>2
  <2>6. ASSUME NEW i \in DOMAIN r, NEW j \in DOMAIN r, r[i].query = r[j].query PROVE i = j
    <3>1. (IF i < n THEN i ELSE i + 1) = (IF j < n THEN j ELSE j + 1)
      BY <1>1, <2>5, <2>6
    <3> QED BY <2>1, <2>4, <3>1
  <2>7. \A i \in DOMAIN r : r[i].query # q
    BY <1>1, <2>1, <2>4, <2>5
  <2>8. Within(r, s)
    BY <2>5 DEF Within
  <2> QED BY <1>3, <2>2, <2>3, <2>6, <2>7, <2>8 DEF CacheOK, OneEach, At, T
<1> QED BY <1>2, <1>3

\* An entry for a query that has none is added.
LEMMA AppendIsOK ==
  ASSUME NEW s, CacheOK(s), NEW e \in Entry, At(s, e.query) = {}
  PROVE  CacheOK(Append(s, e)) /\ Len(Append(s, e)) = Len(s) + 1
<1> DEFINE T == Entry
           r == Append(s, e)
<1>1. s \in Seq(T) /\ e \in T /\ \A i, j \in DOMAIN s : s[i].query = s[j].query => i = j
  BY DEF CacheOK, OneEach
<1>2. \A i \in DOMAIN s : s[i].query # e.query
  BY DEF At
<1> HIDE DEF T
<1>3. /\ r \in Seq(T) /\ Len(r) = Len(s) + 1 /\ Len(s) \in Nat
      /\ \A i \in 1..Len(s) : r[i] = s[i]
      /\ r[Len(s) + 1] = e
  BY <1>1
<1> HIDE DEF r
<1>4. DOMAIN s = 1..Len(s) /\ DOMAIN r = 1..Len(s) + 1
  BY <1>1, <1>3
<1>5. ASSUME NEW i \in DOMAIN r, NEW j \in DOMAIN r, r[i].query = r[j].query PROVE i = j
  <2>1. CASE i \in DOMAIN s /\ j \in DOMAIN s
    BY <1>1, <1>3, <1>4, <1>5, <2>1
  <2>2. CASE i \notin DOMAIN s \/ j \notin DOMAIN s
    <3>1. i = Len(s) + 1 \/ i \in DOMAIN s
      BY <1>3, <1>4
    <3>2. j = Len(s) + 1 \/ j \in DOMAIN s
      BY <1>3, <1>4
    <3> QED BY <1>2, <1>3, <1>4, <1>5, <2>2, <3>1, <3>2
  <2> QED BY <2>1, <2>2
<1> QED BY <1>3, <1>5 DEF CacheOK, OneEach, T, r

\* The entry that was used least recently is dropped from a full cache.
LEMMA RoomIsOK ==
  ASSUME KnowledgeAssumption, NEW s, CacheOK(s), Len(s) <= CacheSize
  PROVE  /\ CacheOK(Room(s)) /\ Len(Room(s)) < CacheSize /\ Within(Room(s), s)
         /\ \A q : At(s, q) = {} => At(Room(s), q) = {}
<1> DEFINE T == Entry
<1>1. s \in Seq(T) /\ \A i, j \in DOMAIN s : s[i].query = s[j].query => i = j
  BY DEF CacheOK, OneEach
<1>2. CacheSize \in Nat \ {0}
  BY DEF KnowledgeAssumption
<1> HIDE DEF T
<1>3. CASE Len(s) >= CacheSize
  <2> DEFINE r == Tail(s)
  <2>1. s # <<>>
    BY <1>1, <1>2, <1>3
  <2>2. r \in Seq(T) /\ Len(r) = Len(s) - 1 /\ \A i \in 1..Len(s) - 1 : r[i] = s[i + 1]
    BY <1>1, <2>1, HeadTailProperties
  <2>3. Room(s) = r
    BY <1>3 DEF Room
  <2> HIDE DEF r
  <2>4. DOMAIN r = 1..Len(s) - 1 /\ DOMAIN s = 1..Len(s) /\ Len(s) \in Nat
    BY <1>1, <2>2
  <2>5. \A i \in DOMAIN r : i + 1 \in DOMAIN s /\ r[i] = s[i + 1]
    BY <2>2, <2>4
  <2>6. ASSUME NEW i \in DOMAIN r, NEW j \in DOMAIN r, r[i].query = r[j].query PROVE i = j
    <3>1. i + 1 = j + 1
      BY <1>1, <2>5, <2>6
    <3> QED BY <2>4, <3>1
  <2>7. \A q : At(s, q) = {} => At(r, q) = {}
    BY <2>5 DEF At
  <2>8. Len(r) < CacheSize
    BY <1>2, <2>2, <2>4
  <2>9. Within(r, s)
    BY <2>5 DEF Within
  <2> QED BY <2>2, <2>3, <2>6, <2>7, <2>8, <2>9 DEF CacheOK, OneEach, T
<1>4. CASE ~(Len(s) >= CacheSize)
  <2>1. Room(s) = s /\ Len(s) < CacheSize
    BY <1>1, <1>2, <1>4 DEF Room
  <2> QED BY <2>1 DEF Within
<1> QED BY <1>3, <1>4

-----------------------------------------------------------------------------
\* The files, the store and the workers have their types.
BaseOK ==
  /\ file \in [Files -> Contents] /\ store \in [Contents -> Files \cup {None}]
  /\ collection \in BOOLEAN /\ known \subseteq Contents
  /\ worker \in [Workers -> Operation \cup {Idle, [pc |-> "recreate"]}]

\* So do the clients and the cache.
AnswersOK ==
  /\ client \in [Clients -> Retrieval \cup {Idle}]
  /\ CacheOK(cache) /\ Len(cache) <= CacheSize

LEMMA TypeIs == TypeOK <=> BaseOK /\ AnswersOK
BY DEF TypeOK, BaseOK, AnswersOK, CacheOK, OneEach

LEMMA InitTypes == KnowledgeAssumption /\ Init => TypeOK
<1> SUFFICES ASSUME KnowledgeAssumption, Init PROVE BaseOK /\ AnswersOK
  BY TypeIs
<1>1. BaseOK
  BY DEF Init, BaseOK
<1>2. client \in [Clients -> Retrieval \cup {Idle}]
  BY DEF Init
<1>3. cache = <<>> /\ CacheSize \in Nat \ {0}
  BY DEF Init, KnowledgeAssumption
<1>4. cache \in Seq(Entry) /\ DOMAIN cache = {} /\ Len(cache) <= CacheSize
  BY <1>3
<1> QED BY <1>1, <1>2, <1>4 DEF AnswersOK, CacheOK, OneEach

\* An operation that has begun and not ended is one on a document.
LEMMA OperationIs ==
  ASSUME BaseOK, NEW w \in Workers, worker[w].pc \in {"lookup", "remove", "add"}
  PROVE  /\ worker[w] \in Operation
         /\ \A label \in {"lookup", "remove", "add"} : [worker[w] EXCEPT !.pc = label] \in Operation
         /\ AfterDelete(w) \in Operation \cup {Idle}
<1>1. worker[w] \in Operation \/ worker[w] = Idle \/ worker[w] = [pc |-> "recreate"]
  BY DEF BaseOK
<1>2. Idle.pc = "idle" /\ [pc |-> "recreate"].pc = "recreate"
  BY DEF Idle
<1>3. worker[w] \in Operation
  BY <1>1, <1>2
<1>4. \A label \in {"lookup", "remove", "add"} : [worker[w] EXCEPT !.pc = label] \in Operation
  BY <1>3 DEF Operation
<1> QED BY <1>3, <1>4 DEF AfterDelete

\* The operations of the workers.
LEMMA BaseNext ==
  ASSUME KnowledgeAssumption, BaseOK, [Next]_vars
  PROVE  BaseOK'
<1> USE DEF BaseOK
<1>1. ASSUME NEW f \in Files, NEW c \in Contents, Edit(f, c) PROVE BaseOK'
  BY <1>1 DEF Edit
<1>2. ASSUME NEW w \in Workers, GetIds(w) PROVE BaseOK'
  BY <1>2, OperationIs DEF GetIds, Becomes
<1>3. ASSUME NEW w \in Workers, RemoveIds(w) PROVE BaseOK'
  <2>1. worker[w] \in Operation /\ AfterDelete(w) \in Operation \cup {Idle}
    BY <1>3, OperationIs DEF RemoveIds
  <2>2. worker[w].doc \in Contents
    BY <2>1 DEF Operation
  <2> QED BY <1>3, <2>1, <2>2 DEF RemoveIds, Becomes
<1>4. ASSUME NEW w \in Workers, Add(w) PROVE BaseOK'
  <2>1. worker[w] \in Operation
    BY <1>4, OperationIs DEF Add
  <2>2. worker[w].doc \in Contents /\ worker[w].from \in Files \cup {None}
    BY <2>1 DEF Operation
  <2> QED BY <1>4, <2>2 DEF Add, Becomes
<1>5. ASSUME NEW w \in Workers, Recreate(w) \/ Clear(w) PROVE BaseOK'
  BY <1>5 DEF Recreate, Clear, Becomes
<1>6. ASSUME NEW w \in Workers, NEW f \in Files, NEW force \in BOOLEAN, Ingest(w, f, force)
      PROVE  BaseOK'
  <2>1. [pc |-> FirstStep(force), doc |-> file[f], from |-> f] \in Operation
    BY DEF Operation, FirstStep
  <2> QED BY <1>6, <2>1 DEF Ingest, Becomes
<1>7. ASSUME NEW w \in Workers, NEW c \in Contents, Delete(w, c) PROVE BaseOK'
  <2>1. [pc |-> "lookup", doc |-> c, from |-> None] \in Operation
    BY DEF Operation
  <2> QED BY <1>7, <2>1 DEF Delete
<1>8. CASE \/ \E k \in Clients : ClientStep(k) \/ \E q \in Queries : Ask(k, q)
           \/ Tick \/ UNCHANGED vars
  BY <1>8 DEF ClientStep, Search, Save, Ask, Tick, base, vars
<1>9. CASE Restart
  BY <1>9 DEF Restart
<1> QED BY <1>1, <1>2, <1>3, <1>4, <1>5, <1>6, <1>7, <1>8, <1>9 DEF Next, WorkerStep

\* A question that was asked of the cache.
LEMMA AskKeeps ==
  ASSUME KnowledgeAssumption, AnswersOK, NEW k \in Clients, NEW q \in Queries, Ask(k, q)
  PROVE  AnswersOK'
<1>1. CacheOK(cache) /\ Len(cache) <= CacheSize /\ client \in [Clients -> Retrieval \cup {Idle}]
  BY DEF AnswersOK
<1> DEFINE r == Without(cache, q)
<1>2. /\ CacheOK(r) /\ At(r, q) = {}
      /\ Len(r) = IF At(cache, q) = {} THEN Len(cache) ELSE Len(cache) - 1
  BY <1>1, WithoutIsOK
<1>n. Len(cache) \in Nat /\ CacheSize \in Nat /\ cache \in Seq(Entry)
  BY <1>1 DEF CacheOK, KnowledgeAssumption
<1> HIDE DEF r
<1>3. ASSUME NEW i \in DOMAIN cache, cache[i].query = q, cache' = Append(r, cache[i]), UNCHANGED client
      PROVE  AnswersOK'
  <2>1. cache[i] \in Entry /\ At(cache, q) # {}
    BY <1>3, <1>n DEF At
  <2>2. CacheOK(Append(r, cache[i])) /\ Len(Append(r, cache[i])) = Len(r) + 1
    BY <1>2, <1>3, <2>1, AppendIsOK
  <2>3. Len(r) + 1 = Len(cache)
    BY <1>2, <1>n, <2>1
  <2> QED BY <1>1, <1>3, <2>2, <2>3 DEF AnswersOK
<1>4. ASSUME cache' = r, client' = [client EXCEPT ![k] = [pc |-> "search", query |-> q]]
      PROVE  AnswersOK'
  <2>1. [pc |-> "search", query |-> q] \in Retrieval
    BY DEF Retrieval
  <2>2. client' \in [Clients -> Retrieval \cup {Idle}]
    BY <1>1, <1>4, <2>1
  <2>3. Len(r) <= CacheSize
    BY <1>1, <1>2, <1>n
  <2> QED BY <1>2, <1>4, <2>2, <2>3 DEF AnswersOK
<1> QED BY <1>3, <1>4 DEF Ask, Touched, r

\* What was found is saved.
LEMMA SaveKeeps ==
  ASSUME KnowledgeAssumption, AnswersOK, NEW k \in Clients, Save(k)
  PROVE  AnswersOK'
<1>1. CacheOK(cache) /\ Len(cache) <= CacheSize /\ client \in [Clients -> Retrieval \cup {Idle}]
  BY DEF AnswersOK
<1> DEFINE q == client[k].query
           docs == client[k].docs
           r == Without(cache, q)
           e == [query |-> q, docs |-> docs, left |-> Ttl]
           s == IF At(cache, q) = {} THEN Room(r) ELSE r
<1>2. q \in Queries /\ docs \subseteq Matches[q] /\ docs \subseteq Contents
  <2>1. client[k].pc = "save" /\ (client[k] \in Retrieval \/ client[k] = Idle)
    BY <1>1 DEF Save
  <2>2. Idle.pc = "idle"
    BY DEF Idle
  <2>3. client[k] \in Retrieval
    BY <2>1, <2>2
  <2> QED BY <2>1, <2>3 DEF Retrieval
<1>3. /\ CacheOK(r) /\ At(r, q) = {}
      /\ Len(r) = IF At(cache, q) = {} THEN Len(cache) ELSE Len(cache) - 1
  BY <1>1, WithoutIsOK
<1>4. e \in Entry /\ e.query = q
  <2>1. Ttl \in 0..Ttl
    BY DEF KnowledgeAssumption
  <2> QED BY <1>2, <2>1 DEF Entry
<1>n. Len(cache) \in Nat /\ CacheSize \in Nat
  BY <1>1 DEF CacheOK, KnowledgeAssumption
<1>5. client' \in [Clients -> Retrieval \cup {Idle}]
  BY <1>1 DEF Save
<1>6. cache' = IF docs = {} THEN cache ELSE Append(s, e)
  BY DEF Save
<1> HIDE DEF q, docs, r, e, s
<1>7. CacheOK(s) /\ At(s, q) = {} /\ Len(s) < CacheSize
  <2>1. CASE At(cache, q) = {}
    <3>1. Len(r) <= CacheSize /\ s = Room(r)
      BY <1>1, <1>3, <2>1 DEF s
    <3> QED BY <1>3, <3>1, RoomIsOK
  <2>2. CASE At(cache, q) # {}
    <3>1. s = r
      BY <2>2 DEF s
    <3> QED BY <1>1, <1>3, <1>n, <2>2, <3>1
  <2> QED BY <2>1, <2>2
<1>8. CacheOK(Append(s, e)) /\ Len(Append(s, e)) = Len(s) + 1
  BY <1>4, <1>7, AppendIsOK
<1>9. Len(s) + 1 <= CacheSize
  <2>1. Len(s) \in Nat
    BY <1>7 DEF CacheOK
  <2> QED BY <1>7, <1>n, <2>1
<1> QED BY <1>1, <1>5, <1>6, <1>8, <1>9 DEF AnswersOK

\* Time passes for the cached answers.
LEMMA TickKeeps == ASSUME KnowledgeAssumption, AnswersOK, Tick PROVE AnswersOK'
<1> DEFINE T == Entry
           Older(e) == [e EXCEPT !.left = IF @ > 0 THEN @ - 1 ELSE 0]
<1>1. cache \in Seq(T) /\ Len(cache) <= CacheSize /\ client \in [Clients -> Retrieval \cup {Idle}]
      /\ \A i, j \in DOMAIN cache : cache[i].query = cache[j].query => i = j
  BY DEF AnswersOK, CacheOK, OneEach
<1>2. cache' = [i \in DOMAIN cache |-> Older(cache[i])] /\ UNCHANGED client
  BY DEF Tick
<1>3. ASSUME NEW e \in T PROVE Older(e) \in T /\ Older(e).query = e.query
  <2>1. e \in [query : Queries, docs : SUBSET Contents, left : 0..Ttl] /\ Ttl \in Nat
        /\ e.docs \subseteq Matches[e.query]
    BY DEF Entry, KnowledgeAssumption
  <2>2. (IF e.left > 0 THEN e.left - 1 ELSE 0) \in 0..Ttl
    BY <2>1
  <2> QED BY <2>1, <2>2 DEF Entry
<1> HIDE DEF T, Older
<1>4. Len(cache) \in Nat /\ DOMAIN cache = 1..Len(cache) /\ \A i \in DOMAIN cache : cache[i] \in T
  BY <1>1
<1>5. /\ DOMAIN cache' = 1..Len(cache)
      /\ \A i \in DOMAIN cache : cache'[i] \in T /\ cache'[i].query = cache[i].query
  BY <1>2, <1>3, <1>4
<1>6. cache' \in Seq(T) /\ Len(cache') = Len(cache)
  <2>1. cache' \in [1..Len(cache) -> T]
    BY <1>2, <1>3, <1>4
  <2> QED BY <1>4, <2>1
<1>7. \A i, j \in DOMAIN cache' : cache'[i].query = cache'[j].query => i = j
  BY <1>1, <1>4, <1>5
<1> QED BY <1>1, <1>2, <1>6, <1>7 DEF AnswersOK, CacheOK, OneEach, T

LEMMA AnswersNext ==
  ASSUME KnowledgeAssumption, AnswersOK, [Next]_vars
  PROVE  AnswersOK'
<1>1. CASE UNCHANGED <<client, cache>>
  BY <1>1 DEF AnswersOK
<1>2. ASSUME NEW k \in Clients, Search(k) PROVE AnswersOK'
  <2>1. PICK found \in SUBSET Matches[client[k].query] :
          client' = [client EXCEPT ![k] = [pc |-> "save", query |-> @.query, docs |-> found]]
    BY <1>2 DEF Search
  <2>2. client[k].pc = "search" /\ UNCHANGED cache /\ client \in [Clients -> Retrieval \cup {Idle}]
    BY <1>2 DEF Search, AnswersOK
  <2>3. Idle.pc = "idle"
    BY DEF Idle
  <2>4. client[k] \in Retrieval
    BY <2>2, <2>3
  <2>5. client[k].query \in Queries
    BY <2>4 DEF Retrieval
  <2>6. Matches[client[k].query] \subseteq Contents
    BY <2>5 DEF KnowledgeAssumption
  <2>7. [pc |-> "save", query |-> client[k].query, docs |-> found] \in Retrieval
    BY <2>5, <2>6 DEF Retrieval
  <2>8. client' \in [Clients -> Retrieval \cup {Idle}]
    BY <2>1, <2>2, <2>7
  <2> QED BY <2>2, <2>8 DEF AnswersOK
<1>3. CASE Restart
  <2>1. client' \in [Clients -> Retrieval \cup {Idle}] /\ cache' = <<>> /\ CacheSize \in Nat \ {0}
    BY <1>3 DEF Restart, KnowledgeAssumption
  <2>2. <<>> \in Seq(Entry) /\ DOMAIN <<>> = {} /\ Len(<<>>) = 0
    OBVIOUS
  <2>3. CacheOK(<<>>) /\ Len(<<>>) <= CacheSize
    BY <2>1, <2>2 DEF CacheOK, OneEach
  <2> QED BY <2>1, <2>3 DEF AnswersOK
<1>4. CASE \/ \E f \in Files, c \in Contents : Edit(f, c)
           \/ \E w \in Workers : \/ WorkerStep(w) \/ Clear(w)
                                 \/ \E f \in Files, force \in BOOLEAN : Ingest(w, f, force)
                                 \/ \E c \in Contents : Delete(w, c)
           \/ UNCHANGED vars
  BY <1>1, <1>4 DEF Edit, WorkerStep, GetIds, RemoveIds, Add, Recreate, Clear, Ingest, Delete,
                    Becomes, vars
<1> QED BY <1>2, <1>3, <1>4, AskKeeps, SaveKeeps, TickKeeps DEF Next, ClientStep

LEMMA NextTypes == KnowledgeAssumption /\ TypeOK /\ [Next]_vars => TypeOK'
<1>1. TypeOK' <=> BaseOK' /\ AnswersOK'
  BY DEF TypeOK, BaseOK, AnswersOK, CacheOK, OneEach
<1> QED BY <1>1, TypeIs, BaseNext, AnswersNext

\* The knowledge base keeps its types, and the cache stays within max_size with one entry for
\* a query, whatever fails, is deleted and is asked meanwhile (retriever.py:37-62).
THEOREM KnowledgeTypeCorrect == KnowledgeAssumption /\ Spec => []TypeOK
<1> SUFFICES ASSUME KnowledgeAssumption PROVE Spec => []TypeOK
  OBVIOUS
<1>1. Init => TypeOK
  BY InitTypes
<1>2. TypeOK /\ [Next]_vars => TypeOK'
  BY NextTypes
<1> QED BY <1>1, <1>2, PTL DEF Spec

-----------------------------------------------------------------------------
(* A document that is gone.                                                *)

\* The step caches an answer that a client has found and not saved before.
IsSaved(e) ==
  \E k \in Clients : /\ client[k].pc = "save" /\ client'[k] = Idle
                     /\ e.query = client[k].query /\ e.docs = client[k].docs

\* An answer that is cached after the step was so before, and has not become younger.
IsKept(e) ==
  \E i \in DOMAIN cache :
    e.query = cache[i].query /\ e.docs = cache[i].docs /\ e.left <= cache[i].left

\* An entry of the cache after the step has been there or is saved by the step.
AnswersComeFrom == \A j \in DOMAIN cache' : IsKept(cache'[j]) \/ IsSaved(cache'[j])

\* A search does not find what is not stored.
FindsStored ==
  \A k \in Clients, c \in Contents :
    store[c] = None /\ client'[k].pc = "save" /\ c \in client'[k].docs => client'[k] = client[k]

LEMMA AskComesFrom ==
  ASSUME AnswersOK, NEW k \in Clients, NEW q \in Queries, Ask(k, q)
  PROVE  AnswersComeFrom
<1> DEFINE r == Without(cache, q)
<1>1. CacheOK(r) /\ Within(r, cache) /\ cache \in Seq(Entry)
  BY WithoutIsOK DEF AnswersOK, CacheOK
<1>2. r \in Seq(Entry) /\ Len(r) \in Nat /\ DOMAIN r = 1..Len(r)
  BY <1>1 DEF CacheOK
<1>3. \A i \in DOMAIN cache : cache[i].left <= cache[i].left
  BY <1>1 DEF Entry
<1> HIDE DEF r
<1>4. ASSUME NEW i \in DOMAIN cache, cache' = Append(r, cache[i])
      PROVE  AnswersComeFrom
  <2>1. \A j \in DOMAIN cache' : (j \in DOMAIN r /\ cache'[j] = r[j]) \/ cache'[j] = cache[i]
    BY <1>2, <1>4
  <2>2. \A j \in DOMAIN cache' : \E n \in DOMAIN cache : cache'[j] = cache[n]
    BY <1>1, <1>4, <2>1 DEF Within
  <2> QED BY <1>3, <2>2 DEF AnswersComeFrom, IsKept
<1>5. ASSUME cache' = r PROVE AnswersComeFrom
  BY <1>1, <1>3, <1>5 DEF AnswersComeFrom, IsKept, Within
<1> QED BY <1>4, <1>5 DEF Ask, Touched, r

LEMMA SaveComesFrom ==
  ASSUME KnowledgeAssumption, AnswersOK, NEW k \in Clients, Save(k)
  PROVE  AnswersComeFrom
<1> DEFINE q == client[k].query
           r == Without(cache, q)
           e == [query |-> q, docs |-> client[k].docs, left |-> Ttl]
           s == IF At(cache, q) = {} THEN Room(r) ELSE r
<1>1. /\ CacheOK(r) /\ Within(r, cache) /\ cache \in Seq(Entry) /\ Len(cache) \in Nat
      /\ Len(r) = IF At(cache, q) = {} THEN Len(cache) ELSE Len(cache) - 1
      /\ Len(cache) <= CacheSize
  BY WithoutIsOK DEF AnswersOK, CacheOK
<1>2. \A i \in DOMAIN cache : cache[i].left <= cache[i].left
  BY <1>1 DEF Entry
<1>3. client[k].pc = "save" /\ client'[k] = Idle
  BY DEF Save, AnswersOK
<1>4. e.query = client[k].query /\ e.docs = client[k].docs
  OBVIOUS
<1>5. cache' = IF client[k].docs = {} THEN cache ELSE Append(s, e)
  BY DEF Save
<1> HIDE DEF q, r, e
<1>6. CacheOK(s) /\ Within(s, r)
  <2>1. CASE At(cache, q) = {}
    BY <1>1, <2>1, RoomIsOK
  <2>2. CASE At(cache, q) # {}
    BY <1>1, <2>2 DEF Within
  <2> QED BY <2>1, <2>2
<1>7. s \in Seq(Entry) /\ Len(s) \in Nat /\ DOMAIN s = 1..Len(s)
  BY <1>6 DEF CacheOK
<1>8. Within(s, cache)
  BY <1>1, <1>6 DEF Within
<1> HIDE DEF s
<1>9. CASE cache' = cache
  BY <1>2, <1>9 DEF AnswersComeFrom, IsKept
<1>10. CASE cache' = Append(s, e)
  <2>1. \A j \in DOMAIN cache' : (j \in DOMAIN s /\ cache'[j] = s[j]) \/ cache'[j] = e
    BY <1>7, <1>10
  <2>2. IsSaved(e)
    BY <1>3, <1>4 DEF IsSaved
  <2>3. \A j \in DOMAIN cache' : cache'[j] = e \/ \E n \in DOMAIN cache : cache'[j] = cache[n]
    BY <1>8, <2>1 DEF Within
  <2> QED BY <1>2, <2>2, <2>3 DEF AnswersComeFrom, IsKept
<1> QED BY <1>5, <1>9, <1>10

LEMMA TickComesFrom == ASSUME KnowledgeAssumption, AnswersOK, Tick PROVE AnswersComeFrom
<1>1. cache \in Seq(Entry)
  BY DEF AnswersOK, CacheOK
<1>2. \A i \in DOMAIN cache :
        cache[i] \in [query : Queries, docs : SUBSET Contents, left : 0..Ttl]
  BY <1>1 DEF Entry
<1>3. DOMAIN cache' = DOMAIN cache
      /\ \A i \in DOMAIN cache :
           cache'[i] = [cache[i] EXCEPT !.left = IF @ > 0 THEN @ - 1 ELSE 0]
  BY DEF Tick
<1>4. Ttl \in Nat
  BY DEF KnowledgeAssumption
<1>5. \A i \in DOMAIN cache : /\ cache'[i].query = cache[i].query
                              /\ cache'[i].docs = cache[i].docs
                              /\ cache'[i].left <= cache[i].left
  BY <1>2, <1>3, <1>4
<1> QED BY <1>3, <1>5 DEF AnswersComeFrom, IsKept

LEMMA SearchFindsStored ==
  ASSUME AnswersOK, NEW k \in Clients, Search(k)
  PROVE  FindsStored
<1>1. PICK found \in {IF collection
                      THEN {c \in Matches[client[k].query] : store[c] # None} ELSE {}}
                     \cup (IF Faults THEN {{}} ELSE {}) :
        client' = [client EXCEPT ![k] = [pc |-> "save", query |-> @.query, docs |-> found]]
  BY DEF Search
<1>2. \A c \in found : store[c] # None
  BY <1>1
<1>3. client'[k].docs = found /\ \A j \in Clients : j # k => client'[j] = client[j]
  BY <1>1 DEF AnswersOK
<1> QED BY <1>2, <1>3 DEF FindsStored

LEMMA AnswersStep ==
  ASSUME KnowledgeAssumption, AnswersOK, [Next]_vars
  PROVE  AnswersComeFrom /\ FindsStored
<1>1. cache \in Seq(Entry) /\ client \in [Clients -> Retrieval \cup {Idle}]
  BY DEF AnswersOK, CacheOK
<1>2. \A i \in DOMAIN cache : cache[i].left <= cache[i].left
  BY <1>1 DEF Entry
<1>3. ASSUME UNCHANGED cache PROVE AnswersComeFrom
  BY <1>2, <1>3 DEF AnswersComeFrom, IsKept
<1>4. ASSUME UNCHANGED client PROVE FindsStored
  BY <1>4 DEF FindsStored
<1>5. Idle.pc # "save" /\ \A q : [pc |-> "search", query |-> q].pc # "save"
  BY DEF Idle
<1>6. ASSUME NEW k \in Clients, Search(k) PROVE AnswersComeFrom /\ FindsStored
  BY <1>3, <1>6, SearchFindsStored DEF Search
<1>7. ASSUME NEW k \in Clients, Save(k) PROVE AnswersComeFrom /\ FindsStored
  <2>1. client' = [client EXCEPT ![k] = Idle]
    BY <1>7 DEF Save
  <2>2. FindsStored
    BY <1>1, <1>5, <2>1 DEF FindsStored
  <2> QED BY <1>7, <2>2, SaveComesFrom
<1>8. ASSUME NEW k \in Clients, NEW q \in Queries, Ask(k, q) PROVE AnswersComeFrom /\ FindsStored
  <2>1. UNCHANGED client \/ client' = [client EXCEPT ![k] = [pc |-> "search", query |-> q]]
    BY <1>8 DEF Ask
  <2>2. FindsStored
    BY <1>1, <1>5, <2>1 DEF FindsStored
  <2> QED BY <1>8, <2>2, AskComesFrom
<1>9. CASE Tick
  BY <1>4, <1>9, TickComesFrom DEF Tick
<1>10. CASE Restart
  <2>1. cache' = <<>> /\ client' = [k \in Clients |-> Idle]
    BY <1>10 DEF Restart
  <2> QED BY <1>5, <2>1 DEF AnswersComeFrom, FindsStored
<1>11. CASE \/ \E f \in Files, c \in Contents : Edit(f, c)
            \/ \E w \in Workers : \/ WorkerStep(w) \/ Clear(w)
                                  \/ \E f \in Files, force \in BOOLEAN : Ingest(w, f, force)
                                  \/ \E c \in Contents : Delete(w, c)
            \/ UNCHANGED vars
  BY <1>3, <1>4, <1>11 DEF Edit, WorkerStep, GetIds, RemoveIds, Add, Recreate, Clear, Ingest,
                           Delete, Becomes, vars
<1> QED BY <1>6, <1>7, <1>8, <1>9, <1>10, <1>11 DEF Next, ClientStep

\* What a step may not do with a document that is not stored: every cached answer that names it
\* was cached before and has not become younger, or one of the clients that had found it before
\* saves it and holds it no longer; and nobody finds it.
StaleAges ==
  \A c \in Contents : store[c] = None =>
    /\ \A j \in DOMAIN cache' : c \in cache'[j].docs =>
         \/ IsKept(cache'[j])
         \/ \E k \in Clients : /\ client[k].pc = "save" /\ c \in client[k].docs
                               /\ client'[k] = Idle
    /\ \A k \in Clients :
         client'[k].pc = "save" /\ c \in client'[k].docs => client'[k] = client[k]

\* A document that is gone is only forgotten by the cache: a hit does not renew its answers, no
\* search finds it again, and the answers that were found before and are cached late are as
\* many as there are clients holding one (retriever.py:41-62, 148). With time, which only the
\* fairness of Tick gives, StaleDiesOut follows.
THEOREM StaleOnlyAges == KnowledgeAssumption /\ Spec => [][StaleAges]_vars
<1> SUFFICES ASSUME KnowledgeAssumption PROVE Spec => [][StaleAges]_vars
  OBVIOUS
<1>1. TypeOK /\ [Next]_vars => [StaleAges]_vars
  <2> SUFFICES ASSUME TypeOK, [Next]_vars PROVE StaleAges
    OBVIOUS
  <2>1. AnswersComeFrom /\ FindsStored
    BY TypeIs, AnswersStep
  <2> QED BY <2>1, Zenon DEF AnswersComeFrom, FindsStored, IsSaved, StaleAges
<1>2. Spec => []TypeOK
  BY KnowledgeTypeCorrect
<1> QED BY <1>1, <1>2, PTL DEF Spec
=============================================================================
