---------------------------- MODULE AnswerProofs ----------------------------
(***************************************************************************)
(* Theorems about the two ways to an answer: RagPipeline, for any stored   *)
(* chunks, lengths and budget, and AgentGraph, for any recursion limit and *)
(* any limit of iterations.                                                *)
(***************************************************************************)
EXTENDS RagPipeline, AgentGraph, FiniteSetTheorems, SequenceTheorems,
        WellFoundedInduction, TLAPS

-----------------------------------------------------------------------------
(***************************************************************************)
(* Induction and recursion up to a number                                  *)
(***************************************************************************)

\* A non-empty set of naturals has a least element.
LEMMA LeastElement ==
  ASSUME NEW S \in SUBSET Nat, S # {}
  PROVE  \E i \in S : \A j \in S : i <= j
<1>1. \E i \in S : \A j \in S : ~(<<j, i>> \in OpToRel(<, Nat))
  BY NatLessThanWellFounded, WFMin, Zenon
<1>2. \A i, j \in Nat : <<j, i>> \notin OpToRel(<, Nat) => i <= j
  BY DEF OpToRel
<1>3. QED
  BY <1>1, <1>2

\* Induction over the numbers up to n, for a set instead of a predicate.
LEMMA UpTo ==
  ASSUME NEW n \in Nat, NEW P, 0 \in P, \A i \in 1..n : i - 1 \in P => i \in P
  PROVE  0..n \subseteq P
<1> DEFINE missed == {i \in 0..n : i \notin P}
<1>1. missed = {}
  <2>1. SUFFICES ASSUME missed # {} PROVE FALSE
    OBVIOUS
  <2>2. missed \in SUBSET Nat
    OBVIOUS
  <2> HIDE DEF missed
  <2>3. PICK i \in missed : \A j \in missed : i <= j
    BY <2>1, <2>2, LeastElement
  <2>4. i \in 1..n /\ i - 1 \in 0..n /\ ~(i <= i - 1) /\ i \notin P
    BY <2>3 DEF missed
  <2>5. i - 1 \in P
    BY <2>3, <2>4 DEF missed
  <2>6. QED
    BY <2>4, <2>5
<1>2. QED
  BY <1>1

\* f[0], ..., f[n] are what the steps make of the first value one after the other.
IsRun(f, n, S, first, steps) ==
    /\ f \in [0..n -> S]
    /\ f[0] = first
    /\ \A i \in 1..n : f[i] = steps[i][f[i - 1]]

\* A function can be defined step by step: steps[i] leads from f[i - 1] to f[i].
LEMMA Stepwise ==
  ASSUME NEW n \in Nat, NEW S, NEW first \in S, NEW steps \in [1..n -> [S -> S]]
  PROVE  \E f : IsRun(f, n, S, first, steps)
<1> DEFINE P == {m \in 0..n : \E f \in [0..m -> S] :
                    f[0] = first /\ \A i \in 1..m : f[i] = steps[i][f[i - 1]]}
<1>1. 0 \in P
  <2>1. [i \in 0..0 |-> first] \in [0..0 -> S] /\ [i \in 0..0 |-> first][0] = first
    OBVIOUS
  <2>2. 1..0 = {} /\ 0 \in 0..n
    OBVIOUS
  <2>3. QED
    BY <2>1, <2>2
<1>2. ASSUME NEW m \in 1..n, m - 1 \in P PROVE m \in P
  <2>1. PICK f \in [0..(m - 1) -> S] :
          f[0] = first /\ \A i \in 1..(m - 1) : f[i] = steps[i][f[i - 1]]
    BY <1>2
  <2> DEFINE g == [i \in 0..m |-> IF i = m THEN steps[m][f[m - 1]] ELSE f[i]]
  <2>2. m - 1 \in 0..(m - 1) /\ f[m - 1] \in S /\ steps[m] \in [S -> S]
    BY <2>1
  <2>3. g \in [0..m -> S]
    BY <2>2
  <2>4. g[0] = first
    BY <2>1
  <2>5. \A i \in 1..m : g[i] = steps[i][g[i - 1]]
    <3> TAKE i \in 1..m
    <3>1. g[i - 1] = f[i - 1]
      OBVIOUS
    <3>2. CASE i = m
      BY <3>1, <3>2
    <3>3. CASE i # m
      <4>1. i \in 1..(m - 1) /\ g[i] = f[i]
        BY <3>3
      <4>2. QED
        BY <2>1, <3>1, <4>1
    <3>4. QED
      BY <3>2, <3>3
  <2> HIDE DEF g
  <2>6. \E h \in [0..m -> S] : h[0] = first /\ \A i \in 1..m : h[i] = steps[i][h[i - 1]]
    BY <2>3, <2>4, <2>5
  <2>7. m \in 0..n
    OBVIOUS
  <2>8. QED
    BY <2>6, <2>7, Zenon
<1>3. n \in P
  <2>1. 0..n \subseteq P
    BY <1>1, <1>2, UpTo
  <2>2. QED
    BY <2>1
<1>4. QED
  BY <1>3 DEF IsRun

-----------------------------------------------------------------------------
(***************************************************************************)
(* What is retrieved                                                       *)
(***************************************************************************)

\* A permutation of some elements of S is a sequence over S.
LEMMA PermutationType ==
    ASSUME NEW S \in SUBSET Chunks, NEW s \in SetToAllKPermutations(S)
    PROVE  s \in Seq(Chunks) /\ ToSet(s) \subseteq S
<1>1. PICK T \in SUBSET S : s \in SetToSeqs(T)
  BY DEF SetToAllKPermutations
<1>2. Cardinality(T) \in Nat
  BY FS_Subset, FS_CardinalityType, PipelineAssumption
<1>3. s \in [1..Cardinality(T) -> T]
  BY <1>1 DEF SetToSeqs
<1>4. s \in Seq(T)
  BY <1>2, <1>3
<1>5. QED
  BY <1>3, <1>4 DEF ToSet

\* Each way of retrieving gives at most topK chunks of the workspace.
LEMMA LeadingType ==
    ASSUME NEW S \in SUBSET Own, NEW s \in SetToAllKPermutations(S),
           TypeOK, NEW n \in Nat, Len(s) = Least(n, Cardinality(S))
    PROVE  s \in Seq(Chunks) /\ ToSet(s) \subseteq Own /\ Len(s) <= n
<1>1. s \in Seq(Chunks) /\ ToSet(s) \subseteq Own
  BY PermutationType DEF Own
<1>2. Cardinality(S) \in Nat
  BY FS_Subset, FS_CardinalityType, PipelineAssumption DEF Own
<1>3. QED
  BY <1>1, <1>2 DEF Least

LEMMA Retrieved ==
    ASSUME TypeOK, Search \/ Fallback
    PROVE  results' \in Seq(Chunks) /\ ToSet(results') \subseteq Own /\ Len(results') <= question.topK
<1>1. question.topK \in Nat
  <2>1. question \in Questions
    BY DEF TypeOK
  <2>2. question.topK \in 1..20
    BY <2>1, PipelineAssumption
  <2>3. QED
    BY <2>2
<1>2. CASE Search
  <2>1. results' \in SetToAllKPermutations({c \in Own : Matches(c)}) /\ Len(results') <= question.topK
    BY <1>2 DEF Search, Hits
  <2>2. {c \in Own : Matches(c)} \subseteq Own /\ Own \subseteq Chunks
    BY DEF Own
  <2>3. QED
    BY <2>1, <2>2, PermutationType
<1>3. CASE results' \in Rows({c \in stored \cap Own : PageOf[c] = question.page}, question.topK)
  <2> DEFINE S == {c \in stored \cap Own : PageOf[c] = question.page}
  <2>1. S \in SUBSET Own
    OBVIOUS
  <2>2. results' \in SetToAllKPermutations(S) /\ Len(results') = Least(question.topK, Cardinality(S))
    BY <1>3 DEF Rows, Leading
  <2>3. QED
    BY <1>1, <2>1, <2>2, LeadingType
<1>4. ASSUME NEW rows \in Rows(stored \cap Own, question.topK * OverFetch),
             results' \in Best(rows, question.topK)
      PROVE  results' \in Seq(Chunks) /\ ToSet(results') \subseteq Own /\ Len(results') <= question.topK
  <2> DEFINE S == ToSet(rows) \cap Informative
  <2>1. stored \cap Own \in SUBSET Chunks
    BY DEF Own
  <2>2. rows \in SetToAllKPermutations(stored \cap Own)
    BY <1>4 DEF Rows, Leading
  <2>3. S \in SUBSET Own
    BY <2>1, <2>2, PermutationType
  <2>4. results' \in SetToAllKPermutations(S) /\ Len(results') = Least(question.topK, Cardinality(S))
    BY <1>4 DEF Best, Leading
  <2>5. QED
    BY <1>1, <2>3, <2>4, LeadingType
<1>5. CASE results' = <<>>
  BY <1>1, <1>5 DEF ToSet
<1>6. QED
  BY <1>2, <1>3, <1>4, <1>5 DEF Fallback

-----------------------------------------------------------------------------
(***************************************************************************)
(* The inductive invariant                                                 *)
(***************************************************************************)

\* The loop starts from nothing on a result that is not empty, and only a chunk
\* that was included is ever remembered or passed.
LoopInv ==
    /\ stage \in {"asked", "searched"} => results = <<>> /\ parts = <<>> /\ position = 1 /\ seen = {}
    /\ stage = "building" => results # <<>> /\ (parts = <<>> => position = 1 /\ seen = {})

IInv == TypeOK /\ LoopInv /\ GroundedHasContext /\ WorkspaceIsolation

LEMMA IInvInit == Init => IInv
  BY PipelineAssumption DEF Init, IInv, TypeOK, LoopInv, GroundedHasContext, WorkspaceIsolation, Stages, ToSet

\* A step of the loop that adds the current chunk.
LEMMA IncludeStep == IInv /\ Include => IInv'
<1> SUFFICES ASSUME IInv, Include PROVE IInv'
  OBVIOUS
<1> USE DEF IInv, Include, Kept
<1>1. results \in Seq(Chunks) /\ position \in 1..Len(results) /\ Current \in Chunks /\ Current \in ToSet(results)
  BY DEF TypeOK, AtResult, Current, ToSet
<1>2. Len(parts) \in Nat /\ EntryLength(Current, DocIdx) \in Nat
  <2>1. Length[Current] \in Nat
    BY <1>1, PipelineAssumption DEF Number
  <2>2. Len(parts) \in Nat
    BY DEF TypeOK
  <2>3. Digits(DocIdx) \in Nat
    BY <2>2 DEF Digits, DocIdx
  <2>4. QED
    BY <2>1, <2>2, <2>3 DEF EntryLength
<1>3. TypeOK'
  BY <1>1, <1>2 DEF TypeOK
<1>4. parts' # <<>>
  BY <1>1 DEF TypeOK
<1>5. LoopInv' /\ GroundedHasContext'
  BY <1>4 DEF LoopInv, GroundedHasContext, AtResult
<1>6. ToSet(parts') \subseteq ToSet(parts) \cup {Current}
  <2>1. parts \in Seq(Chunks) /\ parts' = Append(parts, Current)
    BY DEF TypeOK
  <2>2. /\ DOMAIN parts' = 1..Len(parts) + 1
        /\ \A i \in 1..Len(parts) + 1 :
              parts'[i] = IF i <= Len(parts) THEN parts[i] ELSE Current
    BY <1>1, <2>1
  <2>3. \A i \in DOMAIN parts' : parts'[i] = Current \/ (i \in DOMAIN parts /\ parts'[i] = parts[i])
    BY <2>1, <2>2
  <2>4. QED
    BY <2>3 DEF ToSet
<1>7. WorkspaceIsolation'
  <2>1. Current \in Own
    BY <1>1 DEF WorkspaceIsolation
  <2>2. QED
    BY <1>6, <2>1 DEF WorkspaceIsolation, Own
<1>8. QED
  BY <1>3, <1>5, <1>7

\* The steps of the loop that pass a duplicate or end the loop.
LEMMA LeaveOutStep == IInv /\ (Duplicate \/ Stop \/ EndOfResults) => IInv'
<1> SUFFICES ASSUME IInv, Duplicate \/ Stop \/ EndOfResults PROVE IInv'
  OBVIOUS
<1> USE DEF IInv, Kept
<1>1. WorkspaceIsolation'
  BY DEF Duplicate, Stop, EndOfResults, WorkspaceIsolation, Own
<1>2. CASE Duplicate
  <2>1. position \in 1..Len(results) /\ position' = position + 1 /\ stage = "building" /\ stage' = stage
    BY <1>2 DEF Duplicate, AtResult, TypeOK
  <2>2. TypeOK'
    BY <1>2, <2>1 DEF Duplicate, TypeOK
  <2>3. parts # <<>>
    BY <1>2, <2>1 DEF Duplicate, LoopInv
  <2>4. QED
    BY <1>1, <1>2, <2>1, <2>2, <2>3 DEF Duplicate, LoopInv, GroundedHasContext
<1>3. CASE Stop
  <2>1. Current \in Chunks
    BY <1>3 DEF Stop, AtResult, TypeOK, Current
  <2>2. parts # <<>>
    BY <1>3 DEF Stop, TooLong
  <2>3. QED
    BY <1>1, <1>3, <2>1, <2>2 DEF Stop, TypeOK, Stages, LoopInv, GroundedHasContext
<1>4. CASE EndOfResults
  <2>1. Len(results) \in Nat \ {0} /\ stage = "building"
    BY <1>4 DEF EndOfResults, LoopInv, TypeOK
  <2>2. parts # <<>>
    BY <1>4, <2>1 DEF EndOfResults, LoopInv, TypeOK
  <2>3. QED
    BY <1>1, <1>4, <2>2 DEF EndOfResults, TypeOK, Stages, LoopInv, GroundedHasContext
<1>5. QED
  BY <1>2, <1>3, <1>4

LEMMA IInvStep == IInv /\ [Next]_vars => IInv'
<1> SUFFICES ASSUME IInv, [Next]_vars PROVE IInv'
  OBVIOUS
<1>1. CASE Search \/ Fallback
  <2>1. results' \in Seq(Chunks) /\ ToSet(results') \subseteq Own /\ Len(results') <= question.topK
    BY <1>1, Retrieved DEF IInv
  <2>2. /\ UNCHANGED <<stored, question, position, parts, seen, current_length, citations>>
        /\ stage \in {"asked", "searched"}
        /\ stage' \in {"searched", "building", "nothing"}
        /\ stage' \in {"building"} => results' # <<>>
        /\ stage' = "searched" => results' = <<>>
    BY <1>1 DEF Search, Fallback, Untouched
  <2>3. position = 1 /\ parts = <<>> /\ seen = {}
    BY <2>2 DEF IInv, LoopInv
  <2>4. TypeOK'
    BY <2>1, <2>2, <2>3 DEF IInv, TypeOK, Stages
  <2>5. WorkspaceIsolation'
    BY <2>1, <2>2 DEF IInv, WorkspaceIsolation, Own
  <2>6. LoopInv' /\ GroundedHasContext'
    BY <2>2, <2>3 DEF LoopInv, GroundedHasContext
  <2>7. QED
    BY <2>4, <2>5, <2>6 DEF IInv
<1>2. CASE Greet \/ SearchFails
  <2>1. /\ UNCHANGED <<results, stored, question, position, parts, seen, current_length, citations>>
        /\ stage = "asked"
        /\ stage' \in {"greeted", "failed", "searched"}
    BY <1>2 DEF Greet, SearchFails, Untouched
  <2>2. QED
    BY <2>1 DEF IInv, TypeOK, Stages, LoopInv, GroundedHasContext, WorkspaceIsolation, Own
<1>3. CASE Include
  BY <1>3, IncludeStep
<1>4. CASE Duplicate \/ Stop \/ EndOfResults
  BY <1>4, LeaveOutStep
<1>5. CASE ModelAnswers
  BY <1>5 DEF ModelAnswers, Cited, IInv, TypeOK, Stages, LoopInv, GroundedHasContext, WorkspaceIsolation, Own
<1>6. CASE UNCHANGED vars
  BY <1>6 DEF vars, IInv, TypeOK, LoopInv, GroundedHasContext, WorkspaceIsolation, Own
<1>7. QED
  BY <1>1, <1>2, <1>3, <1>4, <1>5, <1>6 DEF Next

-----------------------------------------------------------------------------
(***************************************************************************)
(* Results that repeat none before them, and the length of a context       *)
(***************************************************************************)
LEMMA FreshFinite ==
  ASSUME NEW m \in Nat
  PROVE  /\ Fresh(m) \subseteq 1..m /\ IsFiniteSet(Fresh(m))
         /\ Rank(m) \in Nat /\ Rank(m) <= m
<1>1. Fresh(m) \subseteq 1..m
  BY DEF Fresh
<1>2. IsFiniteSet(1..m) /\ Cardinality(1..m) = m
  BY FS_Interval
<1>3. QED
  BY <1>1, <1>2, FS_Subset, FS_CardinalityType DEF Rank

\* Whether a result repeats one before it does not depend on those after it.
LEMMA FreshGrows ==
  ASSUME NEW m \in Nat, NEW l \in 0..m
  PROVE  Fresh(l) \subseteq Fresh(m) /\ Rank(l) <= Rank(m) /\ (Fresh(m) \cap 1..l) \subseteq Fresh(l)
<1>1. Fresh(l) \subseteq Fresh(m) /\ (Fresh(m) \cap 1..l) \subseteq Fresh(l)
  BY DEF Fresh
<1>2. QED
  BY <1>1, FreshFinite, FS_Subset DEF Rank

\* A result that repeats none before it is counted once.
LEMMA RankIncreases ==
  ASSUME NEW m \in Nat, NEW i \in Fresh(m), NEW l \in Nat, l < i
  PROVE  Rank(l) < Rank(i)
<1>1. i \in 1..m /\ i \in Fresh(i) /\ l \in 0..i /\ i \in Nat
  BY DEF Fresh
<1>2. Fresh(l) \subseteq Fresh(i) /\ i \notin Fresh(l)
  BY <1>1, FreshGrows, FreshFinite
<1>3. IsFiniteSet(Fresh(l)) /\ IsFiniteSet(Fresh(i)) /\ Rank(l) \in Nat /\ Rank(i) \in Nat
  BY <1>1, FreshFinite
<1>4. Cardinality(Fresh(l) \cup {i}) = Rank(l) + 1
  BY <1>2, <1>3, FS_AddElement DEF Rank
<1>5. (Fresh(l) \cup {i}) \subseteq Fresh(i)
  BY <1>1, <1>2
<1>6. Rank(l) + 1 <= Rank(i)
  BY <1>3, <1>4, <1>5, FS_Subset DEF Rank
<1>7. QED
  BY <1>3, <1>6

LEMMA FreshNext ==
  ASSUME NEW m \in Nat \ {0}
  PROVE  /\ m \in Fresh(m) => Fresh(m) = Fresh(m - 1) \cup {m} /\ Rank(m) = Rank(m - 1) + 1
         /\ m \notin Fresh(m) => Fresh(m) = Fresh(m - 1) /\ Rank(m) = Rank(m - 1)
<1>1. m - 1 \in Nat /\ m - 1 \in 0..m /\ 1..m = 1..(m - 1) \cup {m} /\ m \notin 1..(m - 1)
  OBVIOUS
<1>2. Fresh(m - 1) \subseteq Fresh(m) /\ (Fresh(m) \cap 1..(m - 1)) \subseteq Fresh(m - 1)
  BY <1>1, FreshGrows
<1>3. Fresh(m) \subseteq 1..m /\ Fresh(m - 1) \subseteq 1..(m - 1) /\ IsFiniteSet(Fresh(m - 1))
  BY <1>1, FreshFinite
<1>4. m \in Fresh(m) => Fresh(m) = Fresh(m - 1) \cup {m}
  BY <1>1, <1>2, <1>3
<1>5. m \notin Fresh(m) => Fresh(m) = Fresh(m - 1)
  BY <1>1, <1>2, <1>3
<1>6. m \notin Fresh(m - 1)
  BY <1>1, <1>3
<1>7. QED
  BY <1>3, <1>4, <1>5, <1>6, FS_AddElement DEF Rank

LEMMA FreshFirst ==
  ASSUME NEW m \in Nat \ {0}
  PROVE  Rank(m) >= 1
<1>1. 1 \in Fresh(m) /\ 0 \in Nat /\ 0 < 1 /\ m \in Nat /\ 1 \in 0..m
  BY DEF Fresh
<1>2. Rank(0) < Rank(1) /\ Rank(0) \in Nat /\ Rank(1) \in Nat
  BY <1>1, RankIncreases, FreshFinite
<1>3. Rank(1) <= Rank(m) /\ Rank(m) \in Nat
  BY <1>1, FreshGrows, FreshFinite
<1>4. QED
  BY <1>2, <1>3

LEMMA EntryLengthType ==
  ASSUME NEW c \in Chunks, NEW n \in Nat
  PROVE  EntryLength(c, n) \in Nat
<1>1. Length[c] \in Nat
  BY PipelineAssumption DEF Number
<1>2. Digits(n) \in Nat
  BY DEF Digits
<1>3. QED
  BY <1>1, <1>2 DEF EntryLength

\* f[0], ..., f[Len(s)] are the lengths of the beginnings of a context.
IsSum(f, s) ==
    /\ f \in [0..Len(s) -> Nat]
    /\ f[0] = 0
    /\ \A i \in 1..Len(s) : f[i] = f[i - 1] + EntryLength(s[i], i)

LEMMA SumExists ==
  ASSUME NEW s \in Seq(Chunks)
  PROVE  \E f : IsSum(f, s)
<1> DEFINE n == Len(s)
           Steps == [i \in 1..n |-> [x \in Nat |-> x + EntryLength(s[i], i)]]
<1>1. n \in Nat /\ \A i \in 1..n : i \in Nat /\ s[i] \in Chunks
  OBVIOUS
<1>2. \A i \in 1..n : EntryLength(s[i], i) \in Nat
  BY <1>1, EntryLengthType
<1> HIDE DEF n
<1>3. Steps \in [1..n -> [Nat -> Nat]]
  BY <1>2
<1>4. PICK g : IsRun(g, n, Nat, 0, Steps)
  <2> HIDE DEF Steps
  <2>1. QED
    BY <1>1, <1>3, Stepwise
<1>5. \A i \in 1..n : g[i] = g[i - 1] + EntryLength(s[i], i)
  <2> TAKE i \in 1..n
  <2>1. i - 1 \in 0..n
    BY <1>1
  <2>2. g[i - 1] \in Nat
    BY <1>4, <2>1 DEF IsRun
  <2>3. QED
    BY <1>4, <2>2 DEF IsRun
<1>6. IsSum(g, s)
  BY <1>4, <1>5 DEF IsSum, IsRun, n
<1>7. QED
  BY <1>6

LEMMA SumIsTotal ==
  ASSUME NEW s \in Seq(Chunks), NEW g, IsSum(g, s)
  PROVE  Total(s) = g[Len(s)] /\ Total(s) \in Nat
<1> DEFINE n == Len(s)
           Loop(f) == [i \in 0..n |-> IF i = 0 THEN 0 ELSE f[i - 1] + EntryLength(s[i], i)]
           sum == CHOOSE f : f = Loop(f)
<1>1. n \in Nat /\ n \in 0..n /\ 0 \in 0..n
  OBVIOUS
<1>2. Total(s) = sum[n]
  BY DEF Total
<1>3. /\ g \in [0..n -> Nat] /\ g[0] = 0
      /\ \A i \in 1..n : g[i] = g[i - 1] + EntryLength(s[i], i)
  BY DEF IsSum
<1> HIDE DEF n
<1>4. g = Loop(g)
  <2>1. \A i \in 0..n : i # 0 => i \in 1..n
    BY <1>1
  <2>2. \A i \in 0..n : g[i] = IF i = 0 THEN 0 ELSE g[i - 1] + EntryLength(s[i], i)
    BY <1>3, <2>1
  <2>3. QED
    BY <1>3, <2>2
<1>5. sum = Loop(sum)
  <2> HIDE DEF Loop
  <2>1. QED
    BY <1>4
<1> HIDE DEF sum
<1> DEFINE P == {i \in 0..n : sum[i] = g[i]}
<1>6. 0 \in P
  <2>1. sum[0] = 0
    BY <1>1, <1>5
  <2>2. QED
    BY <1>1, <1>3, <2>1
<1>7. ASSUME NEW i \in 1..n, i - 1 \in P PROVE i \in P
  <2>1. i \in 0..n /\ i # 0
    BY <1>1
  <2>2. sum[i] = sum[i - 1] + EntryLength(s[i], i)
    BY <1>5, <2>1
  <2>3. sum[i] = g[i]
    BY <1>3, <1>7, <2>2
  <2>4. QED
    BY <2>1, <2>3
<1>8. n \in P
  <2> HIDE DEF P
  <2>1. 0..n \subseteq P
    BY <1>1, <1>6, <1>7, UpTo
  <2>2. QED
    BY <1>1, <2>1
<1>9. QED
  BY <1>1, <1>2, <1>3, <1>8 DEF n

\* A part that is appended adds its entry.
LEMMA TotalOfAppend ==
  ASSUME NEW s \in Seq(Chunks), NEW c \in Chunks
  PROVE  /\ Total(s) \in Nat
         /\ Total(Append(s, c)) = Total(s) + EntryLength(c, Len(s) + 1)
<1> DEFINE n == Len(s)
           t == Append(s, c)
<1>1. /\ n \in Nat /\ t \in Seq(Chunks) /\ Len(t) = n + 1
      /\ \A i \in 1..n : t[i] = s[i]
      /\ t[n + 1] = c
  BY AppendProperties
<1> HIDE DEF t, n
<1>2. PICK g : IsSum(g, t)
  BY <1>1, SumExists
<1>3. /\ g \in [0..(n + 1) -> Nat] /\ g[0] = 0
      /\ \A i \in 1..(n + 1) : g[i] = g[i - 1] + EntryLength(t[i], i)
  BY <1>1, <1>2 DEF IsSum
<1> DEFINE h == [i \in 0..n |-> g[i]]
<1>4. 0..n \subseteq 0..(n + 1) /\ 1..n \subseteq 1..(n + 1) /\ n \in 0..n /\ 0 \in 0..n
      /\ n + 1 \in 1..(n + 1) /\ (n + 1) - 1 = n /\ \A i \in 1..n : i \in 0..n /\ i - 1 \in 0..n
  BY <1>1
<1>5. h \in [0..n -> Nat] /\ h[0] = 0
  BY <1>3, <1>4
<1>6. \A i \in 1..n : h[i] = h[i - 1] + EntryLength(s[i], i)
  BY <1>1, <1>3, <1>4
<1>7. h[n] = g[n]
  BY <1>4
<1> HIDE DEF h
<1>8. IsSum(h, s)
  BY <1>5, <1>6 DEF IsSum, n
<1>9. Total(s) = g[n] /\ Total(s) \in Nat
  BY <1>7, <1>8, SumIsTotal DEF n
<1>10. Total(t) = g[n + 1]
  BY <1>1, <1>2, SumIsTotal
<1>11. g[n + 1] = g[n] + EntryLength(c, n + 1)
  <2>1. g[n + 1] = g[(n + 1) - 1] + EntryLength(t[n + 1], n + 1)
    BY <1>3, <1>4
  <2>2. QED
    BY <1>1, <1>4, <2>1
<1>12. QED
  BY <1>9, <1>10, <1>11 DEF t, n

LEMMA TotalOfNothing == Total(<<>>) = 0
<1>1. <<>> \in Seq(Chunks) /\ Len(<<>>) = 0
  BY EmptySeq
<1>2. PICK g : IsSum(g, <<>>)
  BY <1>1, SumExists
<1>3. QED
  BY <1>1, <1>2, SumIsTotal DEF IsSum

-----------------------------------------------------------------------------
(***************************************************************************)
(* What the loop has built                                                 *)
(***************************************************************************)

\* The parts are the results before the position that repeat none before them.
Built ==
    /\ seen = {KeyOf[results[j]] : j \in 1..(position - 1)}
    /\ Len(parts) = Rank(position - 1)
    /\ \A i \in Fresh(position - 1) : parts[Rank(i)] = results[i]
    /\ current_length = Total(parts)
    /\ Len(parts) <= 1 \/ Total(parts) <= MaxContext

BuildInv ==
    /\ stage \in {"asked", "searched"} => current_length = 0
    /\ stage = "building" => Built
    /\ stage \in {"building", "prompting", "grounded"} => ToSet(parts) \subseteq ToSet(results)
    /\ stage = "grounded" => citations = results
    /\ ContextIsLongestFit

LEMMA BuildInvInit == Init => BuildInv
  BY DEF Init, BuildInv, ContextIsLongestFit

\* The loop starts with nothing built.
LEMMA RetrieveBuilds == IInv /\ BuildInv /\ (Greet \/ Search \/ SearchFails \/ Fallback) => BuildInv'
<1> SUFFICES ASSUME IInv, BuildInv, Greet \/ Search \/ SearchFails \/ Fallback PROVE BuildInv'
  OBVIOUS
<1>1. /\ UNCHANGED <<position, parts, seen, current_length>>
      /\ stage \in {"asked", "searched"}
      /\ stage' \in {"searched", "building", "nothing", "greeted", "failed"}
  BY DEF Greet, Search, SearchFails, Fallback, Untouched
<1>2. position' = 1 /\ parts' = <<>> /\ seen' = {} /\ current_length' = 0
  BY <1>1 DEF IInv, LoopInv, BuildInv
<1>3. Fresh(0)' = {}
  BY DEF Fresh
<1>4. Rank(0)' = 0
  BY <1>3, FS_EmptySet DEF Rank
<1>5. Built'
  <2>1. position' - 1 = 0 /\ 1..(position' - 1) = {}
    BY <1>2
  <2>2. Fresh(position - 1)' = {} /\ Rank(position - 1)' = 0
    BY <1>3, <1>4, <2>1 DEF Rank, Fresh
  <2>3. Total(parts)' = 0
    BY <1>2, TotalOfNothing
  <2>4. Len(parts') = 0
    BY <1>2
  <2>5. seen' = {KeyOf[results'[j]] : j \in 1..(position' - 1)}
    BY <1>2, <2>1
  <2>6. QED
    BY <1>2, <2>2, <2>3, <2>4, <2>5 DEF Built
<1>6. ToSet(parts') \subseteq ToSet(results')
  BY <1>2 DEF ToSet
<1>7. QED
  BY <1>1, <1>2, <1>5, <1>6 DEF BuildInv, ContextIsLongestFit

\* The facts about the loop that its steps share.
LEMMA AtPosition ==
  ASSUME IInv, BuildInv, stage = "building"
  PROVE  /\ Built /\ Len(results) \in Nat \ {0} /\ results \in Seq(Chunks)
         /\ DOMAIN results = 1..Len(results)
         /\ position \in 1..(Len(results) + 1)
         /\ parts \in Seq(Chunks) /\ Len(parts) \in Nat /\ DOMAIN parts = 1..Len(parts)
         /\ AtResult => position \in 1..Len(results)
         /\ AtResult => (position \in Fresh(position) <=> KeyOf[Current] \notin seen)
<1>1. /\ Built /\ results \in Seq(Chunks) /\ results # <<>> /\ parts \in Seq(Chunks)
      /\ position \in 1..(Len(results) + 1)
  BY DEF IInv, BuildInv, LoopInv, TypeOK
<1>2. Len(results) \in Nat \ {0} /\ DOMAIN results = 1..Len(results)
  BY <1>1, EmptySeq
<1>3. AtResult => position \in 1..Len(results)
  BY <1>1, <1>2 DEF AtResult
<1>4. AtResult => (position \in Fresh(position) <=> KeyOf[Current] \notin seen)
  <2> SUFFICES ASSUME AtResult
               PROVE  position \in Fresh(position) <=> KeyOf[Current] \notin seen
    OBVIOUS
  <2>1. seen = {KeyOf[results[j]] : j \in 1..(position - 1)}
    BY <1>1 DEF Built
  <2>2. position \in 1..position
    BY <1>2, <1>3
  <2>3. QED
    BY <2>1, <2>2 DEF Fresh, Current
<1>5. QED
  BY <1>1, <1>2, <1>3, <1>4

LEMMA DuplicateBuilds == IInv /\ BuildInv /\ Duplicate => BuildInv'
<1> SUFFICES ASSUME IInv, BuildInv, Duplicate PROVE BuildInv'
  OBVIOUS
<1>1. /\ stage = "building" /\ AtResult /\ KeyOf[Current] \in seen /\ position' = position + 1
      /\ UNCHANGED <<stage, parts, seen, current_length, results>>
  BY DEF Duplicate, AtResult, Kept
<1>2. Built /\ position \in 1..Len(results) /\ position \notin Fresh(position) /\ Len(results) \in Nat
  BY <1>1, AtPosition
<1>3. position \in Nat \ {0} /\ position' - 1 = position
  BY <1>1, <1>2
<1>4. Fresh(position) = Fresh(position - 1) /\ Rank(position) = Rank(position - 1)
  BY <1>2, <1>3, FreshNext
<1>5. \A m : Fresh(m)' = Fresh(m) /\ Rank(m)' = Rank(m)
  BY <1>1 DEF Fresh, Rank
<1>6. Fresh(position - 1)' = Fresh(position - 1) /\ Rank(position - 1)' = Rank(position - 1)
  BY <1>1, <1>3, <1>4 DEF Fresh, Rank
<1>7. seen' = {KeyOf[results'[j]] : j \in 1..(position' - 1)}
  <2>1. seen = {KeyOf[results[j]] : j \in 1..(position - 1)}
    BY <1>2 DEF Built
  <2>2. 1..position = 1..(position - 1) \cup {position}
    BY <1>3
  <2>3. QED
    BY <1>1, <1>3, <2>1, <2>2 DEF Current
<1>8. \A i \in Fresh(position - 1)' : (parts[Rank(i)] = results[i])'
  BY <1>1, <1>2, <1>5, <1>6 DEF Built
<1>9. Built'
  BY <1>1, <1>2, <1>6, <1>7, <1>8 DEF Built
<1>10. QED
  BY <1>1, <1>9 DEF BuildInv, ContextIsLongestFit

LEMMA IncludeBuilds == IInv /\ BuildInv /\ Include => BuildInv'
<1> SUFFICES ASSUME IInv, BuildInv, Include PROVE BuildInv'
  OBVIOUS
<1>1. /\ stage = "building" /\ AtResult /\ KeyOf[Current] \notin seen /\ ~TooLong
      /\ position' = position + 1 /\ seen' = seen \cup {KeyOf[Current]}
      /\ parts' = Append(parts, Current)
      /\ current_length' = current_length + EntryLength(Current, DocIdx)
      /\ UNCHANGED <<stage, results, citations>>
  BY DEF Include, AtResult, Kept
<1>2. /\ Built /\ position \in 1..Len(results) /\ position \in Fresh(position)
      /\ Len(results) \in Nat /\ DOMAIN results = 1..Len(results)
      /\ parts \in Seq(Chunks) /\ Len(parts) \in Nat /\ DOMAIN parts = 1..Len(parts)
      /\ Current \in Chunks
  <2>1. Current \in Chunks
    BY <1>1, AtPosition DEF Current
  <2>2. QED
    BY <1>1, <2>1, AtPosition
<1>3. position \in Nat \ {0} /\ position' - 1 = position /\ position - 1 \in Nat
  BY <1>1, <1>2
<1>4. Fresh(position) = Fresh(position - 1) \cup {position} /\ Rank(position) = Rank(position - 1) + 1
  BY <1>2, <1>3, FreshNext
<1>5. \A m : Fresh(m)' = Fresh(m) /\ Rank(m)' = Rank(m)
  BY <1>1 DEF Fresh, Rank
<1>6. Fresh(position - 1)' = Fresh(position) /\ Rank(position - 1)' = Rank(position)
  BY <1>1, <1>3 DEF Fresh, Rank
<1>7. /\ parts' \in Seq(Chunks) /\ Len(parts') = Len(parts) + 1
      /\ \A n \in 1..Len(parts) : parts'[n] = parts[n]
      /\ parts'[Len(parts) + 1] = Current
  BY <1>1, <1>2, AppendProperties
<1>8. seen' = {KeyOf[results'[j]] : j \in 1..(position' - 1)}
  <2>1. seen = {KeyOf[results[j]] : j \in 1..(position - 1)}
    BY <1>2 DEF Built
  <2>2. 1..position = 1..(position - 1) \cup {position}
    BY <1>3
  <2>3. QED
    BY <1>1, <1>3, <2>1, <2>2 DEF Current
<1>9. Len(parts) = Rank(position - 1)
  BY <1>2 DEF Built
<1>10. \A i \in Fresh(position) : parts'[Rank(i)] = results[i]
  <2> SUFFICES ASSUME NEW i \in Fresh(position) PROVE parts'[Rank(i)] = results[i]
    OBVIOUS
  <2>1. CASE i = position
    BY <1>4, <1>7, <1>9, <2>1 DEF Current
  <2>2. CASE i # position
    <3>1. i \in Fresh(position - 1)
      BY <1>4, <2>2
    <3>2. i \in 1..(position - 1)
      BY <1>3, <3>1, FreshFinite
    <3>3. i \in 0..(position - 1) /\ i \in Nat \ {0}
      BY <1>3, <3>2
    <3>4. Rank(i) \in 1..Len(parts)
      <4>1. Rank(i) <= Rank(position - 1) /\ Rank(i) \in Nat /\ Rank(i) >= 1
        BY <1>3, <3>3, FreshGrows, FreshFinite, FreshFirst
      <4>2. QED
        BY <1>2, <1>9, <4>1
    <3>5. parts[Rank(i)] = results[i]
      BY <1>2, <3>1 DEF Built
    <3>6. QED
      BY <1>7, <3>4, <3>5
  <2>3. QED
    BY <2>1, <2>2
<1>11. \A i \in Fresh(position - 1)' : (parts[Rank(i)] = results[i])'
  BY <1>1, <1>5, <1>6, <1>10
<1>12. /\ Total(parts) \in Nat /\ current_length = Total(parts)
       /\ Total(parts') = Total(parts) + EntryLength(Current, DocIdx)
  BY <1>1, <1>2, TotalOfAppend DEF Built, DocIdx
<1>13. Len(parts') <= 1 \/ Total(parts') <= MaxContext
  <2>1. CASE parts = <<>>
    BY <1>7, <2>1
  <2>2. CASE ~(current_length + EntryLength(Current, DocIdx) > MaxContext)
    <3>1. Current \in Chunks /\ DocIdx \in Nat
      BY <1>2 DEF DocIdx
    <3>2. EntryLength(Current, DocIdx) \in Nat
      BY <3>1, EntryLengthType
    <3>3. MaxContext \in Nat
      BY PipelineAssumption
    <3>4. QED
      BY <1>12, <2>2, <3>2, <3>3
  <2>3. QED
    BY <1>1, <2>1, <2>2 DEF TooLong
<1>14. Built'
  <2>1. Len(parts') = Rank(position - 1)'
    BY <1>4, <1>6, <1>7, <1>9
  <2>2. current_length' = Total(parts')
    BY <1>1, <1>12
  <2>3. QED
    BY <1>8, <1>11, <1>13, <2>1, <2>2 DEF Built
<1>15. ToSet(parts') \subseteq ToSet(results')
  <2>1. ToSet(parts) \subseteq ToSet(results) /\ Current \in ToSet(results)
    BY <1>1, <1>2 DEF BuildInv, ToSet, Current
  <2>2. \A n \in DOMAIN parts' : parts'[n] = Current \/ (n \in DOMAIN parts /\ parts'[n] = parts[n])
    <3>1. DOMAIN parts' = 1..(Len(parts) + 1)
      BY <1>7
    <3>2. QED
      BY <1>2, <1>7, <3>1
  <2>3. QED
    BY <1>1, <2>1, <2>2 DEF ToSet
<1>16. QED
  BY <1>1, <1>14, <1>15 DEF BuildInv, ContextIsLongestFit

\* The loop ends at the first new result that does not fit, or after the last result.
LEMMA EndBuilds == IInv /\ BuildInv /\ (Stop \/ EndOfResults) => BuildInv'
<1> SUFFICES ASSUME IInv, BuildInv, Stop \/ EndOfResults PROVE BuildInv'
  OBVIOUS
<1> DEFINE n == Len(results)
<1>1. /\ stage = "building" /\ stage' = "prompting"
      /\ UNCHANGED <<results, parts, current_length, position>>
  BY DEF Stop, EndOfResults, AtResult, Kept
<1>2. /\ Built /\ n \in Nat \ {0}
      /\ position \in 1..(n + 1) /\ position - 1 \in 0..n
      /\ parts \in Seq(Chunks) /\ Len(parts) \in Nat
  BY <1>1, AtPosition
<1>3. /\ Len(parts) = Rank(position - 1) /\ current_length = Total(parts)
      /\ \A i \in Fresh(position - 1) : parts[Rank(i)] = results[i]
      /\ Len(parts) <= 1 \/ Total(parts) <= MaxContext
  BY <1>2 DEF Built
<1>4. \A m : Fresh(m)' = Fresh(m) /\ Rank(m)' = Rank(m)
  BY <1>1 DEF Fresh, Rank
<1>5. Rank(position - 1) <= Rank(n)
  BY <1>2, FreshGrows
<1>6. parts # <<>>
  <2>1. CASE Stop
    BY <2>1 DEF Stop, TooLong
  <2>2. CASE EndOfResults
    <3>1. position - 1 = n
      BY <1>2, <2>2 DEF EndOfResults
    <3>2. Rank(n) >= 1
      BY <1>2, FreshFirst
    <3>3. QED
      BY <1>3, <3>1, <3>2
  <2>3. QED
    BY <2>1, <2>2
<1>7. Len(parts) = 1 \/ Total(parts) <= MaxContext
  BY <1>2, <1>3, <1>6, EmptySeq
<1>8. \A i \in Fresh(n) : i <= position - 1 => Rank(i) <= Len(parts) /\ parts[Rank(i)] = results[i]
  <2> SUFFICES ASSUME NEW i \in Fresh(n), i <= position - 1
               PROVE  Rank(i) <= Len(parts) /\ parts[Rank(i)] = results[i]
    OBVIOUS
  <2>1. i \in 1..n
    BY <1>2, FreshFinite
  <2>2. position - 1 \in Nat /\ i \in 0..(position - 1) /\ i \in 1..(position - 1)
    BY <1>2, <2>1
  <2>3. i \in Fresh(position - 1)
    BY <1>2, <2>2, FreshGrows
  <2>4. Rank(i) <= Rank(position - 1)
    BY <2>2, FreshGrows
  <2>5. QED
    BY <1>3, <2>3, <2>4
<1>9. CASE EndOfResults
  <2>1. position - 1 = n
    BY <1>2, <1>9 DEF EndOfResults
  <2>2. \A i \in Fresh(n) : i <= position - 1 /\ Rank(i) <= Len(parts) /\ parts[Rank(i)] = results[i]
    <3>1. \A i \in Fresh(n) : i <= n
      BY <1>2, FreshFinite
    <3>2. QED
      BY <1>8, <2>1, <3>1
  <2>3. \A i \in Fresh(n) : Rank(i) \in Nat
    BY <1>2, FreshFinite
  <2>4. \A i \in Fresh(n) : Rank(i) # Len(parts) + 1
    BY <1>2, <2>2, <2>3
  <2>5. ContextIsLongestFit'
    <3>1. \A i \in Fresh(n)' : (Rank(i) <= Len(parts) => parts[Rank(i)] = results[i])'
      BY <1>1, <1>4, <2>2
    <3>2. \A i \in Fresh(n)' : Rank(i)' # Len(parts') + 1
      BY <1>1, <1>4, <2>4
    <3>3. Len(parts') <= Rank(n)'
      BY <1>1, <1>3, <1>4, <1>5
    <3>4. QED
      BY <1>1, <1>7, <3>1, <3>2, <3>3 DEF ContextIsLongestFit
  <2>6. QED
    BY <1>1, <2>5 DEF BuildInv
<1>10. CASE Stop
  <2>1. AtResult /\ KeyOf[Current] \notin seen /\ TooLong
    BY <1>10 DEF Stop
  <2>2. position \in 1..n /\ position \in Fresh(position)
    BY <1>1, <2>1, AtPosition
  <2>3. position \in Nat \ {0} /\ position \in 0..n
    BY <1>2, <2>2
  <2>4. Rank(position) = Len(parts) + 1
    BY <1>3, <2>2, <2>3, FreshNext
  <2>5. \A i \in Fresh(n) : i <= position - 1 \/ i = position \/ Rank(i) > Len(parts) + 1
    <3> SUFFICES ASSUME NEW i \in Fresh(n), i > position PROVE Rank(i) > Len(parts) + 1
      <4>1. \A i \in Fresh(n) : i \in Nat
        BY <1>2, FreshFinite
      <4>2. QED
        BY <2>3, <4>1
    <3>1. Rank(position) < Rank(i)
      BY <1>2, <2>3, RankIncreases
    <3>2. Rank(i) \in Nat
      BY <1>2, FreshFinite
    <3>3. QED
      BY <1>2, <2>4, <3>1, <3>2
  <2>6. \A i \in Fresh(n) : Rank(i) <= Len(parts) => parts[Rank(i)] = results[i]
    <3> SUFFICES ASSUME NEW i \in Fresh(n), Rank(i) <= Len(parts) PROVE parts[Rank(i)] = results[i]
      OBVIOUS
    <3>1. Rank(i) \in Nat
      BY <1>2, FreshFinite
    <3>2. i # position /\ ~(Rank(i) > Len(parts) + 1)
      BY <1>2, <2>4, <3>1
    <3>3. i <= position - 1
      BY <2>5, <3>2
    <3>4. QED
      BY <1>8, <3>3
  <2>7. \A i \in Fresh(n) : Rank(i) = Len(parts) + 1 => i = position
    <3> SUFFICES ASSUME NEW i \in Fresh(n), Rank(i) = Len(parts) + 1 PROVE i = position
      OBVIOUS
    <3>1. ~(Rank(i) <= Len(parts)) /\ ~(Rank(i) > Len(parts) + 1)
      BY <1>2
    <3>2. QED
      BY <1>8, <2>5, <3>1
  <2>8. Total(Append(parts, results[position])) > MaxContext
    <3>1. Current \in Chunks /\ Current = results[position]
      BY <1>1, <2>2, AtPosition DEF Current
    <3>2. Total(Append(parts, Current)) = Total(parts) + EntryLength(Current, DocIdx)
      BY <1>2, <3>1, TotalOfAppend DEF DocIdx
    <3>3. QED
      BY <1>3, <2>1, <3>1, <3>2 DEF TooLong
  <2>9. ContextIsLongestFit'
    <3>1. \A i \in Fresh(n)' : (Rank(i) <= Len(parts) => parts[Rank(i)] = results[i])'
      BY <1>1, <1>4, <2>6
    <3>2. \A i \in Fresh(n)' : (Rank(i) = Len(parts) + 1 =>
                                  parts # <<>> /\ Total(Append(parts, results[i])) > MaxContext)'
      BY <1>1, <1>4, <1>6, <2>7, <2>8
    <3>3. Len(parts') <= Rank(n)'
      BY <1>1, <1>3, <1>4, <1>5
    <3>4. QED
      BY <1>1, <1>7, <3>1, <3>2, <3>3 DEF ContextIsLongestFit
  <2>10. QED
    BY <1>1, <2>9 DEF BuildInv
<1>11. QED
  BY <1>9, <1>10

LEMMA BuildInvStep == IInv /\ BuildInv /\ [Next]_vars => BuildInv'
<1> SUFFICES ASSUME IInv, BuildInv, [Next]_vars PROVE BuildInv'
  OBVIOUS
<1>1. CASE Greet \/ Search \/ SearchFails \/ Fallback
  BY <1>1, RetrieveBuilds
<1>2. CASE Duplicate
  BY <1>2, DuplicateBuilds
<1>3. CASE Include
  BY <1>3, IncludeBuilds
<1>4. CASE Stop \/ EndOfResults
  BY <1>4, EndBuilds
<1>5. CASE ModelAnswers
  <2>1. /\ stage = "prompting" /\ stage' \in {"grounded", "failed"}
        /\ stage' = "grounded" => citations' = results
        /\ UNCHANGED <<results, parts>>
    BY <1>5 DEF ModelAnswers, Cited
  <2>2. ContextIsLongestFit'
    BY <2>1 DEF BuildInv, ContextIsLongestFit, Fresh, Rank
  <2>3. QED
    BY <2>1, <2>2 DEF BuildInv
<1>6. CASE UNCHANGED vars
  BY <1>6 DEF vars, BuildInv, Built, ContextIsLongestFit, Fresh, Rank
<1>7. QED
  BY <1>1, <1>2, <1>3, <1>4, <1>5, <1>6 DEF Next

LEMMA PipelineInv == Spec => [](IInv /\ BuildInv)
  BY IInvInit, IInvStep, BuildInvInit, BuildInvStep, PTL DEF Spec

\* A result in its first place is counted before the results after it.
LEMMA CitationsReach == IInv /\ BuildInv => CitationsReachContext
<1> SUFFICES ASSUME IInv, BuildInv, stage = "grounded" PROVE CitationsReachContext
  BY DEF CitationsReachContext
<1> DEFINE m == Len(results)
<1>1. /\ citations = results /\ ToSet(parts) \subseteq ToSet(results)
      /\ results \in Seq(Chunks) /\ parts \in Seq(Chunks)
      /\ Len(parts) <= Rank(m)
      /\ \A i \in Fresh(m) : Rank(i) <= Len(parts) => parts[Rank(i)] = results[i]
  BY DEF IInv, TypeOK, BuildInv, ContextIsLongestFit
<1>2. m \in Nat /\ DOMAIN results = 1..m /\ Len(parts) \in Nat /\ DOMAIN parts = 1..Len(parts)
  BY <1>1
<1>3. Rank(m) \in Nat /\ Rank(m) <= m
  BY <1>2, FreshFinite
<1>4. \A n \in 1..Len(parts) : Fresh(n) = 1..n => results[n] = parts[n]
  <2> SUFFICES ASSUME NEW n \in 1..Len(parts), Fresh(n) = 1..n PROVE results[n] = parts[n]
    OBVIOUS
  <2>1. n \in Nat /\ n \in 0..m /\ n \in Fresh(n)
    BY <1>1, <1>2, <1>3
  <2>2. n \in Fresh(m)
    BY <1>2, <2>1, FreshGrows
  <2>3. Rank(n) = n
    BY <2>1, FS_Interval DEF Rank
  <2>4. QED
    BY <1>1, <2>2, <2>3
<1>5. DOMAIN parts \subseteq DOMAIN results
  BY <1>1, <1>2, <1>3
<1>6. QED
  BY <1>1, <1>2, <1>4, <1>5 DEF CitationsReachContext

-----------------------------------------------------------------------------
\* Type correctness of the pipeline; retrieval keeps to topK on every path.
THEOREM TypeCorrect == Spec => []TypeOK
<1>1. IInv => TypeOK
  BY DEF IInv
<1>2. QED
  BY <1>1, IInvInit, IInvStep, PTL DEF Spec

\* Neither the search nor the fallback leads out of the workspace of the question.
THEOREM WorkspaceIsolationHolds == Spec => []WorkspaceIsolation
<1>1. IInv => WorkspaceIsolation
  BY DEF IInv
<1>2. QED
  BY <1>1, IInvInit, IInvStep, PTL DEF Spec

\* Removing duplicates and cutting to the budget always leave something to
\* answer from, for every budget and every length.
THEOREM GroundedHasContextHolds == Spec => []GroundedHasContext
<1>1. IInv => GroundedHasContext
  BY DEF IInv
<1>2. QED
  BY <1>1, IInvInit, IInvStep, PTL DEF Spec

\* For results, lengths and budgets of any size: the context is the longest
\* beginning of the results without repetition that fits, and never less than one.
THEOREM ContextIsLongestFitHolds == Spec => []ContextIsLongestFit
<1>1. BuildInv => ContextIsLongestFit
  BY DEF BuildInv
<1>2. QED
  BY <1>1, PipelineInv, PTL

\* For results of any number: every part of the context is cited, and the numbers
\* agree up to the first result that was left out as a duplicate.
THEOREM CitationsReachContextHolds == Spec => []CitationsReachContext
  BY PipelineInv, CitationsReach, PTL

-----------------------------------------------------------------------------
(***************************************************************************)
(* The workflow of the agents                                              *)
(***************************************************************************)

\* The analysis was written with all the evidence there is now.
EvidenceShown == analysis.documents = documents /\ analysis.results = toolResults

\* What holds on the way to the answer: a tool call is pending only between
\* research_node and tool_node, an analysis is out of date only before
\* research_node or while a call is pending, and the final node is reached
\* only from a critic that approved what it looked at.
GraphInv ==
    /\ GraphTypeOK
    /\ asked = IF toolCall THEN toolResults + 1 ELSE toolResults
    /\ toolCall => node \in {"critic", "tool", "END"}
    /\ node = "tool" => toolCall
    /\ node = "critic" /\ ~toolCall => EvidenceShown
    /\ node = "final" \/ outcome = "answer" =>
         EvidenceShown /\ judged = analysis /\ approved /\ ~toolCall
    /\ outcome = "answer" => node = "END"

-----------------------------------------------------------------------------
\* A run starts with an empty state.
LEMMA GraphTypeInit == GraphInit => GraphTypeOK
<1> SUFFICES ASSUME GraphInit PROVE GraphTypeOK
  OBVIOUS
<1>1. toolCall \in BOOLEAN /\ approved \in BOOLEAN
  BY Zenon DEF GraphInit
<1>2. NoAnalysis \in Analyses
  BY DEF Analyses, NoAnalysis
<1>3. QED
  BY <1>1, <1>2, GraphAssumption DEF GraphInit, GraphTypeOK, Nodes

\* Every node keeps the types of the state.
LEMMA GraphTypeStep == GraphTypeOK /\ [GraphNext]_graphVars => GraphTypeOK'
<1> SUFFICES ASSUME GraphTypeOK, [GraphNext]_graphVars PROVE GraphTypeOK'
  OBVIOUS
<1> USE GraphAssumption DEF GraphTypeOK, Nodes, Runs
<1>1. CASE Planner
  BY <1>1 DEF Planner
<1>2. CASE Retriever \/ RetrieverRaises
  BY <1>2 DEF Retriever, RetrieverRaises
<1>3. CASE Analyse
  <2>1. PICK text \in {"findings", "nothing", "error"} :
          analysis' = [text |-> text, documents |-> documents, results |-> toolResults]
    BY <1>3 DEF Analyse
  <2>2. analysis' \in Analyses
    BY <2>1 DEF Analyses
  <2>3. toolCall' \in BOOLEAN
    BY <1>3, Zenon DEF Analyse
  <2>4. QED
    BY <1>3, <2>2, <2>3 DEF Analyse
<1>4. CASE AskForTool
  BY <1>4 DEF AskForTool
<1>5. CASE Tool
  <2>1. toolCall' \in BOOLEAN
    BY <1>5, Zenon DEF Tool
  <2>2. QED
    BY <1>5, <2>1 DEF Tool
<1>6. CASE Critic
  <2>1. node' \in Nodes
    BY <1>6 DEF Critic, ShouldContinue
  <2>2. approved' \in BOOLEAN
    BY <1>6, Zenon DEF Critic
  <2>3. QED
    BY <1>6, <2>1, <2>2 DEF Critic
<1>7. CASE FinalAnswer \/ RecursionLimit
  BY <1>7 DEF FinalAnswer, RecursionLimit
<1>8. CASE UNCHANGED graphVars
  BY <1>8 DEF graphVars
<1>9. QED
  BY <1>1, <1>2, <1>3, <1>4, <1>5, <1>6, <1>7, <1>8 DEF GraphNext

\* Type correctness of the workflow state.
THEOREM GraphTypeCorrect == GraphSpec => []GraphTypeOK
  BY GraphTypeInit, GraphTypeStep, PTL DEF GraphSpec

-----------------------------------------------------------------------------
\* The invariant holds at the start and through every node.
LEMMA GraphInvInductive ==
  /\ GraphInit => GraphInv
  /\ GraphInv /\ [GraphNext]_graphVars => GraphInv'
<1>1. GraphInit => GraphInv
  BY GraphTypeInit DEF GraphInit, GraphInv, EvidenceShown, NoAnalysis
<1>2. ASSUME GraphInv, [GraphNext]_graphVars PROVE GraphInv'
  <2> GraphTypeOK /\ GraphTypeOK'
    BY <1>2, GraphTypeStep DEF GraphInv
  <2> USE <1>2 DEF GraphInv, EvidenceShown, Runs
  <2>1. CASE Planner \/ Retriever \/ RetrieverRaises
    BY <2>1 DEF Planner, Retriever, RetrieverRaises
  <2>2. CASE Analyse
    <3>1. analysis'.documents = documents /\ analysis'.results = toolResults
      BY <2>2 DEF Analyse
    <3>2. ~toolCall /\ asked = toolResults /\ outcome # "answer"
      BY <2>2 DEF Analyse
    <3>3. QED
      BY <2>2, <3>1, <3>2 DEF Analyse
  <2>3. CASE AskForTool
    BY <2>3 DEF AskForTool, GraphTypeOK
  <2>4. CASE Tool
    BY <2>4 DEF Tool, GraphTypeOK
  <2>5. CASE Critic
    <3>1. outcome' # "answer"
      BY <2>5 DEF Critic
    <3>2. CASE toolCall
      BY <2>5, <3>1, <3>2 DEF Critic, ShouldContinue
    <3>3. CASE ~toolCall
      <4>1. EvidenceShown' /\ judged' = analysis' /\ ~toolCall'
        BY <2>5, <3>3 DEF Critic
      <4>2. node' = "final" => approved'
        BY <2>5, <3>3 DEF Critic, ShouldContinue, AutoApproves
      <4>3. node' \in {"final", "retriever"}
        BY <2>5, <3>3 DEF Critic, ShouldContinue
      <4>4. asked' = toolResults'
        BY <2>5, <3>3 DEF Critic
      <4>5. QED
        BY <3>1, <4>1, <4>2, <4>3, <4>4
    <3>4. QED
      BY <3>2, <3>3
  <2>6. CASE FinalAnswer
    BY <2>6 DEF FinalAnswer
  <2>7. CASE RecursionLimit
    BY <2>7 DEF RecursionLimit
  <2>8. CASE UNCHANGED graphVars
    BY <2>8 DEF graphVars
  <2>9. QED
    BY <2>1, <2>2, <2>3, <2>4, <2>5, <2>6, <2>7, <2>8 DEF GraphNext
<1>3. QED
  BY <1>1, <1>2

\* No evidence arrives between the last analysis and the answer.
THEOREM AnswerUsesAllEvidenceHolds == GraphSpec => []AnswerUsesAllEvidence
<1>1. GraphInv => AnswerUsesAllEvidence
  BY DEF GraphInv, EvidenceShown, AnswerUsesAllEvidence
<1>2. QED
  BY <1>1, GraphInvInductive, PTL DEF GraphSpec

\* The answer is the analysis that the critic approved.
THEOREM AnswerWasJudgedHolds == GraphSpec => []AnswerWasJudged
<1>1. GraphInv => AnswerWasJudged
  BY DEF GraphInv, AnswerWasJudged
<1>2. QED
  BY <1>1, GraphInvInductive, PTL DEF GraphSpec

\* Every requested tool call was executed once before the answer.
THEOREM NoToolCallDroppedHolds == GraphSpec => []NoToolCallDropped
<1>1. GraphInv => NoToolCallDropped
  BY DEF GraphInv, NoToolCallDropped
<1>2. QED
  BY <1>1, GraphInvInductive, PTL DEF GraphSpec
=============================================================================
