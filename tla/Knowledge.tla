------------------------------ MODULE Knowledge ------------------------------
(***************************************************************************)
(* The knowledge base: ingestion of files (backend/rag/ingestion/          *)
(* pipeline.py), the vector store (backend/rag/store.py) and the retriever *)
(* with its cache of answers (backend/rag/retriever.py).                   *)
(*                                                                         *)
(* A document is known by its content: its id is the hash of the content,  *)
(* and all its chunks are written and removed by one call, so the model    *)
(* speaks of documents.  Every call of the store runs in a thread, and     *)
(* the other tasks go on meanwhile.                                        *)
(***************************************************************************)
EXTENDS Integers, FiniteSets, Sequences, SequencesExt

CONSTANTS
  Files, Contents,
  Queries, Matches, \* for each query the documents that it finds
  Workers,    \* tasks that ingest and delete
  Clients,    \* tasks that retrieve
  CacheSize,  \* QueryCache.max_size
  Ttl,        \* ttl_seconds, in ticks
  Faults,     \* TRUE: calls of the store may fail
  MaxEdits, MaxDeletes, MaxRestarts   \* bounds: edited files, deletions, restarts

None == "none"

KnowledgeAssumption ==
  /\ None \notin Files /\ Matches \in [Queries -> SUBSET Contents]
  /\ {CacheSize, Ttl} \subseteq Nat \ {0} /\ Faults \in BOOLEAN
  /\ {MaxEdits, MaxDeletes, MaxRestarts} \subseteq Nat

VARIABLES
  file,       \* what each file contains
  store,      \* for each stored document the file it was read from
  collection, \* FALSE while clear() has dropped the collection
  known,      \* IngestionPipeline._ingested_hashes
  worker,     \* the operation of each worker
  client,     \* the retrieval of each client
  cache,      \* QueryCache._cache, least recently used first
  edits, deletes, restarts            \* counters of the bounds

base == <<file, store, collection, known, worker>>
counters == <<edits, deletes, restarts>>
vars == <<base, client, cache, counters>>

Idle == [pc |-> "idle"]

Init ==
  /\ file \in [Files -> Contents] /\ store = [c \in Contents |-> None]
  /\ collection = TRUE /\ known = {}
  /\ worker = [w \in Workers |-> Idle] /\ client = [k \in Clients |-> Idle]
  /\ cache = <<>> /\ edits = 0 /\ deletes = 0 /\ restarts = 0

Edit(f, c) ==
  /\ edits < MaxEdits /\ edits' = edits + 1 /\ c # file[f]
  /\ file' = [file EXCEPT ![f] = c]
  /\ UNCHANGED <<store, collection, known, worker, client, cache, deletes, restarts>>

-----------------------------------------------------------------------------
(* Ingestion and deletion.                                                 *)

\* A worker goes on; the store and the hashes are given by the caller.
Becomes(w, state) ==
  worker' = [worker EXCEPT ![w] = state] /\ UNCHANGED <<file, client, cache, counters>>

FirstStep(force) == IF force THEN "lookup" ELSE "add"

\* ingest_file reads the file; what is known is skipped unless it is forced.
Ingest(w, f, force) ==
  /\ worker[w] = Idle /\ (force \/ file[f] \notin known)
  /\ Becomes(w, [pc |-> FirstStep(force), doc |-> file[f], from |-> f])
  /\ UNCHANGED <<store, collection, known>>

\* delete_document; None stands for the file, as nothing is written after it.
Delete(w, c) ==
  /\ worker[w] = Idle /\ deletes < MaxDeletes /\ deletes' = deletes + 1
  /\ worker' = [worker EXCEPT ![w] = [pc |-> "lookup", doc |-> c, from |-> None]]
  /\ UNCHANGED <<file, store, collection, known, client, cache, edits, restarts>>

\* Mutant: a forced ingestion ends with the deletion.
AfterDeleteIdle(w) == Idle

AfterDelete(w) ==
  IF worker[w].from = None THEN Idle ELSE [worker[w] EXCEPT !.pc = "add"]

\* The ids of the document's chunks are asked for; without any, or when the
\* call fails, nothing is deleted.
GetIds(w) ==
  /\ worker[w].pc = "lookup"
  /\ \/ /\ collection /\ store[worker[w].doc] # None
        /\ Becomes(w, [worker[w] EXCEPT !.pc = "remove"])
     \/ /\ Faults \/ ~collection \/ store[worker[w].doc] = None
        /\ Becomes(w, AfterDelete(w))
  /\ UNCHANGED <<store, collection, known>>

RemoveIds(w) ==
  /\ worker[w].pc = "remove" /\ Becomes(w, AfterDelete(w))
  /\ \/ collection /\ store' = [store EXCEPT ![worker[w].doc] = None]
     \/ (Faults \/ ~collection) /\ UNCHANGED store
  /\ UNCHANGED <<collection, known>>

\* The chunks are written; a call that fails is logged, returns 0, and the
\* hash is remembered all the same.
Add(w) ==
  /\ worker[w].pc = "add" /\ Becomes(w, Idle)
  /\ \/ collection /\ store' = [store EXCEPT ![worker[w].doc] = worker[w].from]
     \/ (Faults \/ ~collection) /\ UNCHANGED store
  /\ known' = known \cup {worker[w].doc}
  /\ UNCHANGED collection

\* clear(): the collection is dropped in a thread and made anew after it.
Clear(w) ==
  /\ worker[w] = Idle /\ deletes < MaxDeletes /\ deletes' = deletes + 1
  /\ \E c \in Contents : store[c] # None
  /\ store' = [c \in Contents |-> None] /\ collection' = FALSE
  /\ worker' = [worker EXCEPT ![w] = [pc |-> "recreate"]]
  /\ UNCHANGED <<file, known, client, cache, edits, restarts>>

Recreate(w) ==
  /\ worker[w].pc = "recreate" /\ Becomes(w, Idle)
  /\ collection' = TRUE /\ UNCHANGED <<store, known>>

-----------------------------------------------------------------------------
(* Retrieval.                                                              *)

\* The cache is an OrderedDict: a query has one entry, or none.
At(s, q) == {i \in DOMAIN s : s[i].query = q}
Without(s, q) == IF At(s, q) = {} THEN s ELSE RemoveAt(s, CHOOSE i \in At(s, q) : TRUE)

\* Mutant: a hit renews the entry.
TouchedRenewed(e) == [e EXCEPT !.left = Ttl]

\* A hit counts as the last access, and does not prolong the entry's life.
Touched(e) == e

\* QueryCache.get and the rest of retrieve() up to the search.
Ask(k, q) ==
  /\ client[k] = Idle
  /\ \/ \E i \in DOMAIN cache :
          /\ cache[i].query = q /\ cache[i].left > 0
          /\ cache' = Append(Without(cache, q), Touched(cache[i]))
          /\ UNCHANGED client
     \/ /\ \A i \in DOMAIN cache : cache[i].query = q => cache[i].left = 0
        /\ cache' = Without(cache, q)
        /\ client' = [client EXCEPT ![k] = [pc |-> "search", query |-> q]]
  /\ UNCHANGED <<base, counters>>

\* The documents that match; a search that fails finds none.
Search(k) ==
  /\ client[k].pc = "search"
  /\ \E found \in {IF collection
                   THEN {c \in Matches[client[k].query] : store[c] # None} ELSE {}}
                  \cup (IF Faults THEN {{}} ELSE {}) :
       client' = [client EXCEPT ![k] = [pc |-> "save", query |-> @.query, docs |-> found]]
  /\ UNCHANGED <<base, cache, counters>>

\* Mutant: room is made too late.
RoomLate(s) == IF Len(s) > CacheSize THEN Tail(s) ELSE s

\* A full cache loses the entry that was used least recently.
Room(s) == IF Len(s) >= CacheSize THEN Tail(s) ELSE s

\* What was found is cached unless it is empty.
Save(k) ==
  LET q == client[k].query
      others == Without(cache, q)
  IN
  /\ client[k].pc = "save" /\ client' = [client EXCEPT ![k] = Idle]
  /\ cache' = IF client[k].docs = {} THEN cache
              ELSE Append(IF At(cache, q) = {} THEN Room(others) ELSE others,
                          [query |-> q, docs |-> client[k].docs, left |-> Ttl])
  /\ UNCHANGED <<base, counters>>

Tick ==
  /\ \E i \in DOMAIN cache : cache[i].left > 0
  /\ cache' = [i \in DOMAIN cache |-> [cache[i] EXCEPT !.left = IF @ > 0 THEN @ - 1 ELSE 0]]
  /\ UNCHANGED <<base, client, counters>>

\* The process ends and starts: the store stays, hashes and cache are gone.
Restart ==
  /\ restarts < MaxRestarts /\ restarts' = restarts + 1
  /\ known' = {} /\ cache' = <<>> /\ collection' = TRUE
  /\ worker' = [w \in Workers |-> Idle] /\ client' = [k \in Clients |-> Idle]
  /\ UNCHANGED <<file, store, edits, deletes>>

WorkerStep(w) == GetIds(w) \/ RemoveIds(w) \/ Add(w) \/ Recreate(w)
ClientStep(k) == Search(k) \/ Save(k)

Next ==
  \/ \E f \in Files, c \in Contents : Edit(f, c)
  \/ \E w \in Workers :
       \/ WorkerStep(w) \/ Clear(w)
       \/ \E f \in Files, force \in BOOLEAN : Ingest(w, f, force)
       \/ \E c \in Contents : Delete(w, c)
  \/ \E k \in Clients : ClientStep(k) \/ \E q \in Queries : Ask(k, q)
  \/ Tick \/ Restart

Spec == Init /\ [][Next]_vars

\* Calls of the store return, and time passes.
FairSpec ==
  /\ Spec /\ WF_vars(Tick)
  /\ \A w \in Workers : WF_vars(WorkerStep(w))
  /\ \A k \in Clients : WF_vars(ClientStep(k))

-----------------------------------------------------------------------------
(* Properties.                                                             *)

Operation == [pc : {"lookup", "remove", "add"}, doc : Contents, from : Files \cup {None}]
Retrieval ==
  [pc : {"search"}, query : Queries]
  \cup {r \in [pc : {"save"}, query : Queries, docs : SUBSET Contents] : r.docs \subseteq Matches[r.query]}
Entry ==
  {e \in [query : Queries, docs : SUBSET Contents, left : 0..Ttl] : e.docs \subseteq Matches[e.query]}

\* Every variable has its type; the cache is not too large, and a query has one entry in it.
TypeOK ==
  /\ file \in [Files -> Contents] /\ store \in [Contents -> Files \cup {None}]
  /\ collection \in BOOLEAN /\ known \subseteq Contents
  /\ worker \in [Workers -> Operation \cup {Idle, [pc |-> "recreate"]}]
  /\ client \in [Clients -> Retrieval \cup {Idle}]
  /\ cache \in Seq(Entry) /\ Len(cache) <= CacheSize
  /\ \A i, j \in DOMAIN cache : cache[i].query = cache[j].query => i = j

\* What the pipeline takes for ingested, and skips from then on, is in the
\* store, or somebody is about to write it, however forced and ordinary
\* ingestions of the same document overlap (pipeline.py:45-56).
KnownIsStored ==
  \A c \in known : \/ store[c] # None
                   \/ \E w \in Workers : worker[w].pc \in {"lookup", "add"} /\ worker[w].doc = c

\* A file that changes replaces what was stored of it.
OneVersionStored ==
  (\A w \in Workers : worker[w] = Idle) =>
    \A f \in Files : Cardinality({c \in Contents : store[c] = f}) <= 1

\* The cache is never told of a change, but a document that is gone for good
\* is gone from all cached answers some day, although answers that were
\* searched before are stored after it (retriever.py:41-62, 148).
StaleDiesOut ==
  \A c \in Contents :
    <>[](store[c] = None) =>
      <>[](\A i \in DOMAIN cache : c \in cache[i].docs => cache[i].left = 0)
=============================================================================
