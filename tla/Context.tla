------------------------------- MODULE Context -------------------------------
(***************************************************************************)
(* How a document is cut into chunks (backend/rag/ingestion/chunker.py)    *)
(* and how a prompt's context is put together from chunks and memories     *)
(* (backend/rag/context_builder.py, security.py): pure functions, checked  *)
(* on every small input.                                                   *)
(*                                                                         *)
(* A paragraph is its length.  The separators between paragraphs are not   *)
(* counted.                                                                *)
(***************************************************************************)
EXTENDS Integers, Sequences, SequencesExt

CONSTANTS
  Target, Overlap, Minimum,  \* target_chunk_size, overlap, min_chunk_size
  Budget,      \* token_budget
  FormatLimit, \* max_tokens of format_untrusted_knowledge_context
  Header,      \* tokens of the lines around each chunk
  Frame,       \* tokens of the lines around the whole of them
  Brief,       \* tokens that the lightweight role shows of a chunk
  Lengths, MaxParagraphs,  \* bounds: lengths of paragraphs, and their number
  Keys, Sizes, MaxItems    \* bounds: contents and sizes of items, and their number

ContextAssumption ==
  /\ {Target, Overlap, Minimum, Budget, FormatLimit, Header, Frame, Brief} \subseteq Nat
  /\ {MaxParagraphs, MaxItems} \subseteq Nat
  /\ Lengths \subseteq Nat \ {0} /\ Sizes \subseteq Nat \ {0}

VARIABLES
  document,  \* the lengths of its paragraphs, and those at which a section starts
  chunks,    \* the chunks: sequences of paragraphs
  knowledge, memories,  \* what was retrieved: sequences of [key, size]
  role,      \* model_role
  context    \* BuiltContext

vars == <<document, chunks, knowledge, memories, role, context>>

\* current_len += len(para), and the like.
Total(s) ==
  LET sum[n \in 0..Len(s)] == IF n = 0 THEN 0 ELSE sum[n - 1] + s[n]
  IN  sum[Len(s)]

\* The elements at some places, in their order.
Selected(s, places) ==
  LET pick[n \in 0..Len(s)] ==
        IF n = 0 THEN <<>>
        ELSE IF n \in places THEN Append(pick[n - 1], s[n]) ELSE pick[n - 1]
  IN  pick[Len(s)]

-----------------------------------------------------------------------------
(* StructureAwareChunker.  A paragraph is known by its number.             *)

Size(d, p) == d.size[p]
Weight(d, ps) == Total([i \in DOMAIN ps |-> Size(d, ps[i])])
Paragraphs(d) == [p \in DOMAIN d.size |-> p]

\* What is done, and the buffer that is being filled.
NothingDone == [done |-> <<>>, buf |-> <<>>]
Buffered(acc, p) == [done |-> acc.done, buf |-> Append(acc.buf, p)]

\* What the next chunk takes over from the one before.
CarriedOver(d, buf, overlap) ==
  IF overlap > 0 /\ Size(d, Last(buf)) <= overlap THEN <<Last(buf)>> ELSE <<>>

Closed(d, acc, p, overlap) ==
  [done |-> Append(acc.done, acc.buf), buf |-> Append(CarriedOver(d, acc.buf, overlap), p)]

\* Mutant: the chunk is closed after the paragraph that is too much.
PackLate(d, acc, p, overlap) ==
  IF acc.buf # <<>> /\ Weight(d, acc.buf) > Target
  THEN Closed(d, acc, p, overlap) ELSE Buffered(acc, p)

\* A paragraph joins the buffer unless the target would be exceeded.
PackNext(d, acc, p, overlap) ==
  IF acc.buf # <<>> /\ Weight(d, acc.buf) + Size(d, p) > Target
  THEN Closed(d, acc, p, overlap) ELSE Buffered(acc, p)

Pack(d, ps, overlap) ==
  LET acc[n \in 0..Len(ps)] ==
        IF n = 0 THEN NothingDone ELSE PackNext(d, acc[n - 1], ps[n], overlap)
      end == acc[Len(ps)]
  IN  IF end.buf = <<>> THEN end.done ELSE Append(end.done, end.buf)

\* Headings do not matter in prose.
Prose(d) == Pack(d, Paragraphs(d), Overlap)

\* A section is one chunk, or is packed when it is half as large again as the target.
Split(d, section) == IF 2 * Weight(d, section) > 3 * Target THEN Pack(d, section, 0) ELSE <<section>>

\* A heading ends the section before it.
SectionNext(d, acc, p) ==
  IF p \in d.starts /\ acc.buf # <<>>
  THEN [done |-> acc.done \o Split(d, acc.buf), buf |-> <<p>>] ELSE Buffered(acc, p)

Markdown(d) ==
  LET acc[n \in 0..Len(d.size)] ==
        IF n = 0 THEN NothingDone ELSE SectionNext(d, acc[n - 1], n)
      end == acc[Len(d.size)]
  IN  IF end.buf = <<>> THEN end.done ELSE end.done \o Split(d, end.buf)

\* Mutant: a chunk of the least length is left out, too.
LargeEnoughLast(d, raw) ==
  Selected(raw, {i \in DOMAIN raw : Weight(d, raw[i]) > Minimum \/ Len(raw) = 1})

\* Small chunks are left out, unless there is only one.
LargeEnough(d, raw) ==
  Selected(raw, {i \in DOMAIN raw : Weight(d, raw[i]) >= Minimum \/ Len(raw) = 1})

Chunk ==
  /\ chunks = <<>>
  /\ chunks' \in {LargeEnough(document, Prose(document)), LargeEnough(document, Markdown(document))}
  /\ UNCHANGED <<document, knowledge, memories, role, context>>

-----------------------------------------------------------------------------
(* ContextBuilder.                                                         *)

\* Mutant: only neighbours are compared.
UniqueNeighbours(items) ==
  Selected(items, {n \in DOMAIN items : n = 1 \/ items[n - 1].key # items[n].key})

\* The first of those that begin alike.
Unique(items) ==
  Selected(items, {n \in DOMAIN items : \A m \in 1..n - 1 : items[m].key # items[n].key})

Sum(items) == Total([i \in DOMAIN items |-> items[i].size])

\* The items up to the first that does not fit.
Prefix(items, limit) ==
  LET stops == {n \in 0..Len(items) : n < Len(items) => Sum(SubSeq(items, 1, n + 1)) > limit}
  IN  SubSeq(items, 1, CHOOSE n \in stops : \A k \in stops : n <= k)

KnowledgeShare == (Budget * 65) \div 100
MemoryShare == Budget - KnowledgeShare

Fitting(items, limit) == Prefix(items, limit)

\* What is shown of the chosen chunks: with headers, up to a limit of its own,
\* or two of them in short for the lightweight role.
Shown(items) ==
  IF items = <<>> THEN 0
  ELSE IF role = "lightweight"
       THEN Len(SubSeq(items, 1, IF Len(items) < 2 THEN Len(items) ELSE 2)) * Brief
       ELSE LET withHeaders == [i \in DOMAIN items |-> [items[i] EXCEPT !.size = @ + Header]]
            IN  Frame + Sum(Prefix(withHeaders, FormatLimit - Frame))

Build ==
  /\ context.tokens = 0
  /\ LET chosen == Fitting(Unique(knowledge), KnowledgeShare)
         recalled == Fitting(Unique(memories), MemoryShare)
     IN  context' = [chosen |-> chosen, recalled |-> recalled,
                     truncated |-> Len(chosen) < Len(Unique(knowledge)),
                     tokens |-> Shown(chosen) + Sum(recalled) +
                                (IF recalled = <<>> THEN 0 ELSE Frame)]
  /\ UNCHANGED <<document, chunks, knowledge, memories, role>>

NoContext == [chosen |-> <<>>, recalled |-> <<>>, truncated |-> FALSE, tokens |-> 0]

NoDocument == [size |-> <<>>, starts |-> {}]
UpTo(S, n) == UNION {[1..k -> S] : k \in 0..n}
Items == UpTo([key : Keys, size : Sizes], MaxItems)

\* Either a document is cut up, or a context is built.
Init ==
  /\ chunks = <<>> /\ context = NoContext
  /\ \/ /\ \E n \in 1..MaxParagraphs :
              document \in [size : [1..n -> Lengths], starts : {{1} \cup s : s \in SUBSET (2..n)}]
        /\ knowledge = <<>> /\ memories = <<>> /\ role = "general"
     \/ /\ document = NoDocument /\ knowledge \in Items /\ memories \in Items
        /\ role \in {"general", "lightweight"}

Next == (document # NoDocument /\ Chunk) \/ (document = NoDocument /\ Build)

Spec == Init /\ [][Next]_vars

-----------------------------------------------------------------------------
(* Properties.                                                             *)

\* What a chunk does not share with the one before.
Own(d, c) == IF Size(d, Head(c)) <= Overlap THEN Tail(c) ELSE c

\* All paragraphs from a heading to the next one.
WholeSection(d, c) ==
  /\ Head(c) \in d.starts /\ Last(c) + 1 \in d.starts \cup {Len(d.size) + 1}
  /\ \A i \in DOMAIN c : c[i] = Head(c) + i - 1 /\ (i > 1 => c[i] \notin d.starts)

\* No chunk is empty; apart from a short paragraph that it took over it is
\* larger than the target only when a paragraph, or a section that is not much
\* larger, is not divided (chunker.py:104, 136-147).
ChunksFit ==
  \A i \in DOMAIN chunks :
    LET c == chunks[i] IN
    /\ c # <<>>
    /\ \/ Weight(document, Own(document, c)) <= Target \/ Len(Own(document, c)) = 1
       \/ WholeSection(document, c) /\ 2 * Weight(document, c) <= 3 * Target

\* Every paragraph that is large enough to be kept for itself is in a chunk,
\* and chunks come in the order of the document.
NothingLeftOut ==
  chunks # <<>> =>
    /\ \A p \in DOMAIN document.size :
         Size(document, p) >= Minimum => \E i \in DOMAIN chunks : p \in ToSet(chunks[i])
    /\ \A i \in DOMAIN chunks \ {1} : Last(chunks[i - 1]) < Last(chunks[i])

\* Both parts keep to their shares and never say a thing twice, and an item is
\* left out only when it was said before or did not fit behind those before it.
SharesKept ==
  LET Good(items, picked, share) ==
        /\ Sum(picked) <= share
        /\ \A i, j \in DOMAIN picked : picked[i].key = picked[j].key => i = j
        /\ IsPrefix(picked, Unique(items))
        /\ picked # Unique(items) => Sum(picked) + Unique(items)[Len(picked) + 1].size > share
        /\ \A i \in DOMAIN items : \E j \in DOMAIN Unique(items) : Unique(items)[j].key = items[i].key
  IN context # NoContext => /\ Good(knowledge, context.chosen, KnowledgeShare)
                            /\ Good(memories, context.recalled, MemoryShare)

\* What reaches a prompt: nothing is lost on the way but what is too small, said before or
\* too much, and nothing is larger than it may be (chunker.py, context_builder.py).
PromptIsSound == ChunksFit /\ NothingLeftOut /\ SharesKept

\* The context stays within the budget.
WithinBudget == context.tokens <= Budget
=============================================================================
