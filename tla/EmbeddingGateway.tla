--------------------------- MODULE EmbeddingGateway ---------------------------
(***************************************************************************)
(* EmbeddingService.embed_batch with the EmbeddingCache all its callers    *)
(* in a worker process share; every worker has its own, so the requests    *)
(* here are those of one worker. A batch looks its texts up, calls the provider for the missing   *)
(* ones with retries, stores what came back and merges it with the hits.   *)
(* Each part under the lock of the cache is one step; between them, while  *)
(* a call or a back-off is awaited, other batches use the cache.           *)
(*                                                                         *)
(* A vector is named by the text it was computed from. The key of a text   *)
(* is made from the stripped text, while the provider gets the text as it  *)
(* is, so texts that differ in white space share the vector of whichever   *)
(* was embedded first. Provider and model are those of the settings.       *)
(***************************************************************************)
EXTENDS Naturals, Sequences, FiniteSets, SequencesExt

CONSTANTS
    Requests,
    Texts,
    KeyOf,        \* KeyOf[x]: the cache key of text x
    BatchOf,      \* BatchOf[r]: the texts of request r
    Capacity,     \* max_size of the cache
    RetryLimit,   \* settings.llm_max_retries
    NoVector      \* the [] of a text the provider gave no vector for

Keys == {KeyOf[x] : x \in Texts}

ASSUME GatewayAssumption ==
    /\ BatchOf \in [Requests -> Seq(Texts) \ {<<>>}]
    /\ Capacity \in Nat \ {0}
    /\ RetryLimit \in Nat
    /\ NoVector \notin Texts

VARIABLES
    cache,     \* entries [key, vector], least recently used first
    stage,     \* stage[r]: where embed_batch stands
    hits,      \* hits[r]: index -> vector found by get_batch
    attempts,  \* attempts[r]: failed calls counted by the retry loop
    answer,    \* answer[r]: what embed_batch returned
    recency    \* history: every key ever used, least recently first

vars == <<cache, stage, hits, attempts, answer, recency>>

Entry == [key : Keys, vector : Texts]

TypeOK ==
    /\ cache \in Seq(Entry)
    /\ stage \in [Requests -> {"new", "calling", "backoff", "answered", "error"}]
    /\ hits = [r \in Requests |-> hits[r]]
    /\ \A r \in Requests :
        /\ DOMAIN hits[r] \subseteq DOMAIN BatchOf[r]
        /\ hits[r] \in [DOMAIN hits[r] -> Texts]
    /\ answer \in [Requests -> Seq(Texts \cup {NoVector})]
    /\ attempts \in [Requests -> 0..RetryLimit + 1]
    /\ recency \in Seq(Keys)

Init ==
    /\ cache = <<>> /\ recency = <<>>
    /\ stage = [r \in Requests |-> "new"]
    /\ hits = [r \in Requests |-> <<>>]
    /\ attempts = [r \in Requests |-> 0]
    /\ answer = [r \in Requests |-> <<>>]

-----------------------------------------------------------------------------
(***************************************************************************)
(* The cache                                                               *)
(***************************************************************************)
Cached(c, k)   == \E i \in DOMAIN c : c[i].key = k
Position(c, k) == CHOOSE i \in DOMAIN c : c[i].key = k

\* OrderedDict.move_to_end, with the value the entry has from then on.
MoveToEnd(s, i, e) == Append(RemoveAt(s, i), e)

\* Mutant of Touch: a hit does not make an entry recent.
TouchNot(c, k) == c

\* A hit moves the entry to the end.
Touch(c, k) == MoveToEnd(c, Position(c, k), c[Position(c, k)])

\* An entry is replaced, or added and the oldest evicted if there is one more
\* than the capacity.
Put(c, e) ==
    IF Cached(c, e.key) THEN MoveToEnd(c, Position(c, e.key), e)
    ELSE IF Len(c) < Capacity THEN Append(c, e) ELSE Append(Tail(c), e)

\* History: k is the key that was used last.
Used(order, k) ==
    IF \E i \in DOMAIN order : order[i] = k
    THEN MoveToEnd(order, CHOOSE i \in DOMAIN order : order[i] = k, k)
    ELSE Append(order, k)

\* The cache with its history, and what one lookup and one insertion make of it.
Shelf == [entries |-> cache, order |-> recency]

LookUp(shelf, k) ==
    IF Cached(shelf.entries, k)
    THEN [entries |-> Touch(shelf.entries, k), order |-> Used(shelf.order, k)]
    ELSE shelf

Store(shelf, e) == [entries |-> Put(shelf.entries, e), order |-> Used(shelf.order, e.key)]

\* The loop of get_batch over the texts xs.
AfterLookUps(xs) ==
    LET f[i \in 0..Len(xs)] == IF i = 0 THEN Shelf ELSE LookUp(f[i - 1], KeyOf[xs[i]])
    IN  f[Len(xs)]

\* The loop of put_batch, where new[i] is what is stored for place i of a batch
\* of n texts, if anything is.
AfterStores(n, new) ==
    LET f[i \in 0..n] == IF i = 0 THEN Shelf
                         ELSE IF i \in DOMAIN new THEN Store(f[i - 1], new[i])
                         ELSE f[i - 1]
    IN  f[n]

-----------------------------------------------------------------------------
(***************************************************************************)
(* embed_batch                                                             *)
(***************************************************************************)
Found(r)   == {i \in DOMAIN BatchOf[r] : Cached(cache, KeyOf[BatchOf[r][i]])}
Missing(r) == DOMAIN BatchOf[r] \ DOMAIN hits[r]

\* What get_batch finds; a lookup does not change which keys are cached.
VectorsFound(r) ==
    [i \in Found(r) |-> cache[Position(cache, KeyOf[BatchOf[r][i]])].vector]

\* get_batch: what is in the cache is kept with the request, whatever happens
\* to the entries later. A batch that is all there is answered at once.
GetBatch(r) ==
    /\ stage[r] = "new"
    /\ hits' = [hits EXCEPT ![r] = VectorsFound(r)]
    /\ cache' = AfterLookUps(BatchOf[r]).entries
    /\ recency' = AfterLookUps(BatchOf[r]).order
    /\ IF Found(r) = DOMAIN BatchOf[r]
       THEN /\ stage' = [stage EXCEPT ![r] = "answered"]
            /\ answer' = [answer EXCEPT ![r] = VectorsFound(r)]
       ELSE /\ stage' = [stage EXCEPT ![r] = "calling"]
            /\ UNCHANGED answer
    /\ UNCHANGED attempts

\* The provider answers with vectors in the order of the missing texts. If there
\* are fewer vectors than texts, zip leaves the places behind the last one out.
Answered(r, last) == {i \in Missing(r) : i <= last}

\* Mutant of Fresh: the vectors are zipped with the texts of the whole batch.
FreshZippedWithBatch(r, last) ==
    [i \in Answered(r, last) |->
        [key |-> KeyOf[BatchOf[r][Cardinality(Answered(r, i))]], vector |-> BatchOf[r][i]]]

Fresh(r, last) ==
    [i \in Answered(r, last) |-> [key |-> KeyOf[BatchOf[r][i]], vector |-> BatchOf[r][i]]]

\* Mutant of Merge: the fresh vectors go to the front of the batch.
MergeInFront(r, last) ==
    [i \in DOMAIN BatchOf[r] |->
        IF i <= Cardinality(Answered(r, last)) THEN BatchOf[r][CHOOSE j \in Missing(r) : Cardinality(Answered(r, j)) = i]
        ELSE IF i \in DOMAIN hits[r] THEN hits[r][i] ELSE NoVector]

\* Hits and fresh vectors in the order of the batch.
Merge(r, last) ==
    [i \in DOMAIN BatchOf[r] |->
        IF i \in DOMAIN hits[r] THEN hits[r][i]
        ELSE IF i \in Answered(r, last) THEN BatchOf[r][i]
        ELSE NoVector]

\* The provider answers, with a vector for each missing text or for fewer.
ProviderAnswers(r) ==
    /\ stage[r] = "calling"
    /\ \E last \in Missing(r) \cup {0} :
         LET after == AfterStores(Len(BatchOf[r]), Fresh(r, last))
         IN  /\ cache' = after.entries
             /\ recency' = after.order
             /\ answer' = [answer EXCEPT ![r] = Merge(r, last)]
    /\ stage' = [stage EXCEPT ![r] = "answered"]
    /\ UNCHANGED <<hits, attempts>>

Kept == UNCHANGED <<cache, hits, answer, recency>>

\* Mutant of TransientFails: an upstream error is not counted.
TransientFailsUncounted(r) ==
    /\ stage[r] = "calling"
    /\ \/ attempts' = [attempts EXCEPT ![r] = @ + 1]
       \/ UNCHANGED attempts
    /\ stage' = [stage EXCEPT ![r] = IF attempts'[r] > RetryLimit THEN "error" ELSE "backoff"]
    /\ Kept

\* A rate limit, a time-out or an upstream error: the loop counts it, and
\* waits or gives up.
TransientFails(r) ==
    /\ stage[r] = "calling"
    /\ attempts' = [attempts EXCEPT ![r] = @ + 1]
    /\ stage' = [stage EXCEPT ![r] = IF attempts[r] + 1 > RetryLimit THEN "error" ELSE "backoff"]
    /\ Kept

\* Any other error is raised at once.
PermanentlyFails(r) ==
    /\ stage[r] = "calling"
    /\ stage' = [stage EXCEPT ![r] = "error"]
    /\ UNCHANGED attempts /\ Kept

\* The back-off is over and the provider is called again.
CallAgain(r) ==
    /\ stage[r] = "backoff"
    /\ stage' = [stage EXCEPT ![r] = "calling"]
    /\ UNCHANGED attempts /\ Kept

Serve(r) ==
    GetBatch(r) \/ ProviderAnswers(r) \/ TransientFails(r) \/ PermanentlyFails(r) \/ CallAgain(r)

Next == \E r \in Requests : Serve(r)

\* The calls of the provider have a time-out, and sleeps end.
Spec == Init /\ [][Next]_vars /\ \A r \in Requests : WF_vars(Serve(r))

-----------------------------------------------------------------------------
(***************************************************************************)
(* Safety and refinement                                                   *)
(***************************************************************************)

\* The cache is the recency order cut to its capacity: whatever batches are
\* looked up and stored in between, an entry is lost exactly when Capacity
\* other keys were used after it. No key is cached twice, also not by a batch
\* with repeated texts or with more texts than the cache holds.
KeepsMostRecent ==
    LET evicted == Len(recency) - Len(cache) IN
    /\ Len(cache) = IF Len(recency) < Capacity THEN Len(recency) ELSE Capacity
    /\ \A i \in DOMAIN cache : cache[i].key = recency[evicted + i]
    /\ \A i, j \in DOMAIN cache : cache[i].key = cache[j].key => i = j

\* An entry is only ever answered for texts of its key.
EntriesFitTheirKeys == \A i \in DOMAIN cache : KeyOf[cache[i].vector] = cache[i].key

\* The abstract service: a batch is pending while it looks up, calls or waits.
Abstract == INSTANCE EmbeddingSpec WITH
    state   <- [r \in Requests |-> IF stage[r] \in {"answered", "error"} THEN stage[r]
                                   ELSE "pending"],
    vectors <- answer

\* embed_batch implements the abstract service: one answer or error for a
\* batch, for good, each vector in the place of its text, although hits, fresh
\* vectors and evictions of overlapping batches are interleaved.
ImplementsEmbedding == Abstract!SafeSpec

-----------------------------------------------------------------------------
(***************************************************************************)
(* Liveness                                                                *)
(***************************************************************************)
\* A provider that keeps failing is given up after a bounded number of calls:
\* every batch ends (the loop of _execute_with_retry).
EveryBatchEnds == \A r \in Requests : <>(stage[r] \in {"answered", "error"})
=============================================================================
