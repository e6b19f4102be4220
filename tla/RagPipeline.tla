----------------------------- MODULE RagPipeline -----------------------------
(***************************************************************************)
(* One question to RAGService.answer_question: the greeting fast path, the *)
(* Retriever with its filters and its database fallback, the loop of       *)
(* ContextBuilder.build_context, the call of the model and the citations.  *)
(*                                                                         *)
(* A chunk is a model value; the constants say what the code reads of it.  *)
(* What is indexed and what is stored are independent, because documents   *)
(* are ingested and deleted in both stores at different times, so every    *)
(* snapshot a question can meet is covered. The chunker drops blank texts, *)
(* so build_context never meets one. DummyReranker changes nothing.        *)
(***************************************************************************)
EXTENDS Integers, Sequences, FiniteSets, SequencesExt

CONSTANTS
    Chunks,
    WorkspaceOf,   \* WorkspaceOf[c]
    KeyOf,         \* the first twenty words of a chunk, in lower case
    Length,        \* length of its entry without the digits of its number
    PageOf,        \* its page
    TagOf,         \* the payload value a filter of the question asks for
    IndexOf,       \* chunk_index in its document
    Score,         \* keyword overlap with the question and length bonus
    Informative,   \* the chunks that are neither too short nor only numbers
    Questions,     \* records [workspace, topK, page, filter, greeting]
    NoPage, NoFilter,
    OverFetch,     \* rows fetched per wanted chunk (10 in the code)
    MaxContext,    \* max_context_chars
    Production     \* settings.is_production

Number == [Chunks -> Nat]

ASSUME PipelineAssumption ==
    /\ IsFiniteSet(Chunks)
    /\ Length \in Number /\ IndexOf \in Number /\ Score \in Number
    /\ Informative \subseteq Chunks
    /\ OverFetch \in Nat \ {0} /\ MaxContext \in Nat
    /\ Production \in BOOLEAN
    /\ \A q \in Questions : q.topK \in 1..20 /\ q.greeting \in BOOLEAN

VARIABLES
    stored,          \* the rows of document_chunks
    question,
    stage,
    results,         \* retrieved (and reranked) chunks
    position,        \* the loop of build_context is at this result
    parts,           \* context_parts: part n is Document [n]
    seen,            \* seen_texts
    current_length,
    citations        \* citation n has the id [n]

vars == <<stored, question, stage, results, position, parts, seen, current_length, citations>>

Stages == {"asked", "searched", "building", "prompting", "grounded", "greeted", "nothing", "failed"}

TypeOK ==
    /\ stored \subseteq Chunks
    /\ question \in Questions
    /\ stage \in Stages
    /\ results \in Seq(Chunks) /\ Len(results) <= question.topK
    /\ position \in 1..Len(results) + 1
    /\ parts \in Seq(Chunks)
    /\ seen \subseteq {KeyOf[c] : c \in Chunks}
    /\ current_length \in Nat
    /\ citations \in Seq(Chunks)

Init ==
    /\ stored \in SUBSET Chunks
    /\ question \in Questions
    /\ stage = "asked"
    /\ results = <<>> /\ parts = <<>> /\ citations = <<>>
    /\ position = 1 /\ seen = {} /\ current_length = 0

Least(n, m) == IF n < m THEN n ELSE m
First(s, n) == SubSeq(s, 1, Least(n, Len(s)))
Own == {c \in Chunks : WorkspaceOf[c] = question.workspace}

Untouched == UNCHANGED <<stored, question, position, parts, seen, current_length, citations>>

-----------------------------------------------------------------------------
(***************************************************************************)
(* Retrieval                                                               *)
(***************************************************************************)
Greet ==
    /\ stage = "asked" /\ question.greeting
    /\ stage' \in {"greeted", "failed"}
    /\ UNCHANGED results /\ Untouched

Matches(c) == question.filter = NoFilter \/ TagOf[c] = question.filter

\* Mutant of Hits: the condition on the workspace is left out.
HitsAnywhere ==
    {s \in SetToAllKPermutations({c \in Chunks : Matches(c)}) : Len(s) <= question.topK}

\* What a search may leave: at most topK chunks of the workspace, less those
\* the filters drop. Their order is the similarity, which is not modelled.
Hits == {s \in SetToAllKPermutations({c \in Own : Matches(c)}) : Len(s) <= question.topK}

\* Nothing found, or nothing left of it, leads to the fallback.
Search ==
    /\ stage = "asked" /\ ~question.greeting
    /\ results' \in Hits
    /\ stage' = IF results' = <<>> THEN "searched" ELSE "building"
    /\ Untouched

\* The embedding or the search fails. Outside production a failed search counts
\* as one without hits.
SearchFails ==
    /\ stage = "asked" /\ ~question.greeting
    /\ \/ stage' = "failed"
       \/ ~Production /\ stage' = "searched"
    /\ UNCHANGED results /\ Untouched

\* The first n of a set; what is equal under Before may come in any order.
Leading(S, n, Before(_, _)) ==
    {s \in SetToAllKPermutations(S) :
        /\ Len(s) = Least(n, Cardinality(S))
        /\ \A i, j \in DOMAIN s : i < j => ~Before(s[j], s[i])
        /\ \A i \in DOMAIN s, c \in S \ ToSet(s) : ~Before(c, s[i])}

\* Answers of a query with ORDER BY chunk_index and LIMIT n.
Rows(S, n) == Leading(S, n, LAMBDA c, d : IndexOf[c] < IndexOf[d])

\* The n best of the rows. The sort is stable: equal scores keep their order.
Best(rows, n) ==
    Leading(ToSet(rows) \cap Informative, n, LAMBDA c, d :
        \/ Score[c] > Score[d]
        \/ /\ Score[c] = Score[d]
           /\ \E i, j \in DOMAIN rows : i < j /\ rows[i] = c /\ rows[j] = d)

\* A question that names a page gets the rows of that page, any other question
\* the best of the first rows. If the database fails, the result stays empty.
Fallback ==
    /\ stage = "searched"
    /\ \/ /\ question.page # NoPage
          /\ results' \in Rows({c \in stored \cap Own : PageOf[c] = question.page}, question.topK)
       \/ /\ question.page = NoPage
          /\ \E rows \in Rows(stored \cap Own, question.topK * OverFetch) :
                results' \in Best(rows, question.topK)
       \/ results' = <<>>
    /\ stage' = IF results' = <<>> THEN "nothing" ELSE "building"
    /\ Untouched

-----------------------------------------------------------------------------
(***************************************************************************)
(* build_context                                                           *)
(***************************************************************************)
Digits(n) == IF n < 10 THEN 1 ELSE 2
EntryLength(c, n) == Length[c] + Digits(n)

Current == results[position]
AtResult == stage = "building" /\ position <= Len(results)
Kept == UNCHANGED <<stored, question, results, citations>>

Duplicate ==
    /\ AtResult /\ KeyOf[Current] \in seen
    /\ position' = position + 1
    /\ UNCHANGED <<stage, parts, seen, current_length>> /\ Kept

DocIdx == Len(parts) + 1

TooLong == current_length + EntryLength(Current, DocIdx) > MaxContext /\ parts # <<>>

\* Mutant of Include: the key of the chunk is not remembered.
IncludeUnseen ==
    /\ AtResult /\ KeyOf[Current] \notin seen /\ ~TooLong
    /\ parts' = Append(parts, Current)
    /\ current_length' = current_length + EntryLength(Current, DocIdx)
    /\ position' = position + 1
    /\ UNCHANGED <<stage, seen>> /\ Kept

Include ==
    /\ AtResult /\ KeyOf[Current] \notin seen /\ ~TooLong
    /\ seen' = seen \cup {KeyOf[Current]}
    /\ parts' = Append(parts, Current)
    /\ current_length' = current_length + EntryLength(Current, DocIdx)
    /\ position' = position + 1
    /\ UNCHANGED stage /\ Kept

\* The budget is used up: the rest is not looked at.
Stop ==
    /\ AtResult /\ KeyOf[Current] \notin seen /\ TooLong
    /\ seen' = seen \cup {KeyOf[Current]}
    /\ stage' = "prompting"
    /\ UNCHANGED <<position, parts, current_length>> /\ Kept

EndOfResults ==
    /\ stage = "building" /\ position > Len(results)
    /\ stage' = "prompting"
    /\ UNCHANGED <<position, parts, seen, current_length>> /\ Kept

-----------------------------------------------------------------------------
(***************************************************************************)
(* The answer                                                              *)
(***************************************************************************)

\* Mutant of Cited: the last result is not cited.
CitedButLast == SubSeq(results, 1, Len(results) - 1)

\* build_citations numbers all results.
Cited == results

ModelAnswers ==
    /\ stage = "prompting"
    /\ \/ stage' = "grounded" /\ citations' = Cited
       \/ stage' = "failed" /\ UNCHANGED citations
    /\ UNCHANGED <<stored, question, results, position, parts, seen, current_length>>

Next ==
    \/ Greet \/ Search \/ SearchFails \/ Fallback
    \/ Duplicate \/ Include \/ Stop \/ EndOfResults
    \/ ModelAnswers

Spec == Init /\ [][Next]_vars

-----------------------------------------------------------------------------
(***************************************************************************)
(* Properties                                                              *)
(***************************************************************************)

\* Whichever way it was retrieved, a chunk of another workspace reaches neither
\* the context nor the citations.
WorkspaceIsolation == ToSet(results) \cup ToSet(parts) \cup ToSet(citations) \subseteq Own

\* Of the first m results, those that begin like none before them.
Fresh(m) == {i \in 1..m : \A j \in 1..i - 1 : KeyOf[results[j]] # KeyOf[results[i]]}
Rank(i)  == Cardinality(Fresh(i))

\* The length of a context of these parts, each with its number.
Total(s) ==
    LET sum[n \in 0..Len(s)] == IF n = 0 THEN 0 ELSE sum[n - 1] + EntryLength(s[n], n)
    IN  sum[Len(s)]

\* What the loop computes: of the chunks without repetition, in the order of
\* retrieval, the longest beginning that fits the budget, and at least one.
ContextIsLongestFit ==
    stage \in {"prompting", "grounded"} =>
        /\ Len(parts) <= Rank(Len(results))
        /\ \A i \in Fresh(Len(results)) : Rank(i) <= Len(parts) => parts[Rank(i)] = results[i]
        /\ Len(parts) = 1 \/ Total(parts) <= MaxContext
        /\ \A i \in Fresh(Len(results)) : Rank(i) = Len(parts) + 1 =>
             parts # <<>> /\ Total(Append(parts, results[i])) > MaxContext

\* The model is never asked to answer from an empty context: what was found
\* survives the removal of duplicates and the budget.
GroundedHasContext == stage \in {"prompting", "grounded"} => parts # <<>>

\* Every Document [n] the model can refer to has a citation [n], every chunk of
\* the context is quoted by some citation, and the numbers agree up to the
\* first chunk that was left out as a duplicate.
CitationsReachContext ==
    stage = "grounded" =>
        /\ DOMAIN parts \subseteq DOMAIN citations
        /\ ToSet(parts) \subseteq ToSet(citations)
        /\ \A n \in DOMAIN parts : Fresh(n) = 1..n => citations[n] = parts[n]

=============================================================================
