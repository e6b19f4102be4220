---------------------------- MODULE GatewayProofs ----------------------------
(***************************************************************************)
(* Theorems about the calls of outside services: EmbeddingGateway, for any *)
(* batches, any capacity of the cache and any number of retries, and       *)
(* LlmGateway, for conversations and streams of any length.                *)
(***************************************************************************)
EXTENDS EmbeddingGateway, LlmGateway, FiniteSetTheorems, SequenceTheorems,
        WellFoundedInduction, TLAPS

-----------------------------------------------------------------------------
(***************************************************************************)
(* Induction and recursion up to a number                                  *)
(***************************************************************************)

\* A non-empty set of naturals has a least element.
LEMMA LeastElement ==
  ASSUME NEW S \in SUBSET Nat, S # {}
  PROVE  \E i \in S : \A j \in S : i <= j
<1>1. \E i \in S : \A j \in S : ~(<<j, i>> \in OpToRel(<, Nat))
  BY NatLessThanWellFounded, WFMin, Zenon
<1>2. \A i, j \in Nat : <<j, i>> \notin OpToRel(<, Nat) => i <= j
  BY DEF OpToRel
<1>3. QED
  BY <1>1, <1>2

\* Induction over the numbers up to n, for a set instead of a predicate.
LEMMA UpTo ==
  ASSUME NEW n \in Nat, NEW P, 0 \in P, \A i \in 1..n : i - 1 \in P => i \in P
  PROVE  0..n \subseteq P
<1> DEFINE missed == {i \in 0..n : i \notin P}
<1>1. missed = {}
  <2>1. SUFFICES ASSUME missed # {} PROVE FALSE
    OBVIOUS
  <2>2. missed \in SUBSET Nat
    OBVIOUS
  <2> HIDE DEF missed
  <2>3. PICK i \in missed : \A j \in missed : i <= j
    BY <2>1, <2>2, LeastElement
  <2>4. i \in 1..n /\ i - 1 \in 0..n /\ ~(i <= i - 1) /\ i \notin P
    BY <2>3 DEF missed
  <2>5. i - 1 \in P
    BY <2>3, <2>4 DEF missed
  <2>6. QED
    BY <2>4, <2>5
<1>2. QED
  BY <1>1

\* f[0], ..., f[n] are what the steps make of the first value one after the other.
IsRun(f, n, S, first, steps) ==
    /\ f \in [0..n -> S]
    /\ f[0] = first
    /\ \A i \in 1..n : f[i] = steps[i][f[i - 1]]

\* A function can be defined step by step: steps[i] leads from f[i - 1] to f[i].
LEMMA Stepwise ==
  ASSUME NEW n \in Nat, NEW S, NEW first \in S, NEW steps \in [1..n -> [S -> S]]
  PROVE  \E f : IsRun(f, n, S, first, steps)
<1> DEFINE P == {m \in 0..n : \E f \in [0..m -> S] :
                    f[0] = first /\ \A i \in 1..m : f[i] = steps[i][f[i - 1]]}
<1>1. 0 \in P
  <2>1. [i \in 0..0 |-> first] \in [0..0 -> S] /\ [i \in 0..0 |-> first][0] = first
    OBVIOUS
  <2>2. 1..0 = {} /\ 0 \in 0..n
    OBVIOUS
  <2>3. QED
    BY <2>1, <2>2
<1>2. ASSUME NEW m \in 1..n, m - 1 \in P PROVE m \in P
  <2>1. PICK f \in [0..(m - 1) -> S] :
          f[0] = first /\ \A i \in 1..(m - 1) : f[i] = steps[i][f[i - 1]]
    BY <1>2
  <2> DEFINE g == [i \in 0..m |-> IF i = m THEN steps[m][f[m - 1]] ELSE f[i]]
  <2>2. m - 1 \in 0..(m - 1) /\ f[m - 1] \in S /\ steps[m] \in [S -> S]
    BY <2>1
  <2>3. g \in [0..m -> S]
    BY <2>2
  <2>4. g[0] = first
    BY <2>1
  <2>5. \A i \in 1..m : g[i] = steps[i][g[i - 1]]
    <3> TAKE i \in 1..m
    <3>1. g[i - 1] = f[i - 1]
      OBVIOUS
    <3>2. CASE i = m
      BY <3>1, <3>2
    <3>3. CASE i # m
      <4>1. i \in 1..(m - 1) /\ g[i] = f[i]
        BY <3>3
      <4>2. QED
        BY <2>1, <3>1, <4>1
    <3>4. QED
      BY <3>2, <3>3
  <2> HIDE DEF g
  <2>6. \E h \in [0..m -> S] : h[0] = first /\ \A i \in 1..m : h[i] = steps[i][h[i - 1]]
    BY <2>3, <2>4, <2>5
  <2>7. m \in 0..n
    OBVIOUS
  <2>8. QED
    BY <2>6, <2>7, Zenon
<1>3. n \in P
  <2>1. 0..n \subseteq P
    BY <1>1, <1>2, UpTo
  <2>2. QED
    BY <2>1
<1>4. QED
  BY <1>3 DEF IsRun

-----------------------------------------------------------------------------
(***************************************************************************)
(* Joining sequences: FlattenSeq, one piece after the other                *)
(***************************************************************************)
IsJoin(f, T, ss) ==
    /\ f \in [0..Len(ss) -> Seq(T)]
    /\ f[0] = <<>>
    /\ \A i \in 1..Len(ss) : f[i] = f[i - 1] \o ss[i]

LEMMA JoinExists ==
  ASSUME NEW T, NEW ss \in Seq(Seq(T))
  PROVE  \E f : IsJoin(f, T, ss)
<1> DEFINE n == Len(ss)
           Steps == [i \in 1..n |-> [s \in Seq(T) |-> s \o ss[i]]]
<1>1. n \in Nat /\ <<>> \in Seq(T)
  OBVIOUS
<1>2. \A i \in 1..n : ss[i] \in Seq(T)
  OBVIOUS
<1>3. Steps \in [1..n -> [Seq(T) -> Seq(T)]]
  BY <1>2, ConcatProperties
<1>4. PICK g : IsRun(g, n, Seq(T), <<>>, Steps)
  <2> HIDE DEF Steps, n
  <2>1. QED
    BY <1>1, <1>3, Stepwise
<1>5. \A i \in 1..n : g[i] = g[i - 1] \o ss[i]
  <2> TAKE i \in 1..n
  <2>1. i - 1 \in 0..n
    BY <1>1
  <2>2. g[i - 1] \in Seq(T)
    BY <1>4, <2>1 DEF IsRun
  <2>3. QED
    BY <1>4, <2>2 DEF IsRun
<1>6. IsJoin(g, T, ss)
  BY <1>4, <1>5 DEF IsJoin, IsRun
<1>7. QED
  BY <1>6

\* FlattenSeq is the last of the joins.
LEMMA JoinIsFlatten ==
  ASSUME NEW T, NEW ss \in Seq(Seq(T)), NEW g, IsJoin(g, T, ss)
  PROVE  FlattenSeq(ss) = g[Len(ss)] /\ g[Len(ss)] \in Seq(T)
<1> DEFINE n == Len(ss)
           Loop(f) == [i \in 1..n |-> IF i = 1 THEN ss[i] ELSE f[i - 1] \o ss[i]]
           flat == CHOOSE f : f = Loop(f)
           h == [i \in 1..n |-> g[i]]
<1>1. n \in Nat /\ \A i \in 1..n : ss[i] \in Seq(T)
  OBVIOUS
<1>2. g[n] \in Seq(T)
  BY <1>1 DEF IsJoin
<1>3. CASE n = 0
  <2>1. ss = <<>>
    BY <1>3
  <2>2. FlattenSeq(ss) = <<>>
    BY <1>3, <2>1 DEF FlattenSeq
  <2>3. QED
    BY <1>2, <1>3, <2>2 DEF IsJoin
<1>4. CASE n # 0
  <2>1. FlattenSeq(ss) = flat[n]
    BY <1>4 DEF FlattenSeq
  <2> HIDE DEF n
  <2>2. \A i \in 1..n : i # 1 => i - 1 \in 1..n
    BY <1>1
  <2>3. \A i \in 1..n : i = 1 => g[i] = ss[i]
    <3> SUFFICES ASSUME 1 \in 1..n PROVE g[1] = ss[1]
      OBVIOUS
    <3>1. g[1] = g[0] \o ss[1] /\ g[0] = <<>> /\ ss[1] \in Seq(T)
      <4>1. 1 - 1 = 0
        OBVIOUS
      <4>2. QED
        BY <1>1, <4>1 DEF IsJoin, n
    <3>2. QED
      BY <3>1, ConcatEmptySeq
  <2>4. \A i \in 1..n : g[i] = IF i = 1 THEN ss[i] ELSE g[i - 1] \o ss[i]
    BY <2>3 DEF IsJoin, n
  <2>5. h = Loop(h)
    BY <2>2, <2>4
  <2>6. flat = Loop(flat)
    <3> HIDE DEF Loop
    <3>1. QED
      BY <2>5
  <2> HIDE DEF flat
  <2> DEFINE P == {i \in 0..n : i # 0 => flat[i] = g[i]}
  <2>7. 0 \in P
    BY <1>1
  <2>8. ASSUME NEW i \in 1..n, i - 1 \in P PROVE i \in P
    <3>1. flat[i] = IF i = 1 THEN ss[i] ELSE flat[i - 1] \o ss[i]
      BY <2>6
    <3>2. i # 1 => flat[i - 1] = g[i - 1]
      BY <1>1, <2>8
    <3>3. flat[i] = g[i]
      BY <2>4, <3>1, <3>2
    <3>4. QED
      BY <1>1, <3>3
  <2>9. n \in P
    <3> HIDE DEF P
    <3>1. 0..n \subseteq P
      BY <1>1, <2>7, <2>8, UpTo
    <3>2. n \in 0..n
      BY <1>1
    <3>3. QED
      BY <3>1, <3>2
  <2>10. QED
    BY <1>2, <1>4, <2>1, <2>9 DEF n
<1>5. QED
  BY <1>3, <1>4

LEMMA FlattenType ==
  ASSUME NEW T, NEW ss \in Seq(Seq(T))
  PROVE  FlattenSeq(ss) \in Seq(T)
<1>1. PICK f : IsJoin(f, T, ss)
  BY JoinExists
<1>2. QED
  BY <1>1, JoinIsFlatten

\* One piece for each element gives the elements back.
LEMMA FlattenSingletons ==
  ASSUME NEW T, NEW s \in Seq(T)
  PROVE  FlattenSeq([i \in DOMAIN s |-> <<s[i]>>]) = s
<1> DEFINE n == Len(s)
           pieces == [i \in DOMAIN s |-> <<s[i]>>]
           g == [i \in 0..n |-> SubSeq(s, 1, i)]
<1>1. n \in Nat /\ DOMAIN s = 1..n /\ \A i \in 1..n : s[i] \in T
  OBVIOUS
<1>2. pieces \in Seq(Seq(T)) /\ Len(pieces) = n
  <2>1. pieces = [i \in 1..n |-> <<s[i]>>] /\ \A i \in 1..n : <<s[i]>> \in Seq(T)
    BY <1>1
  <2>2. pieces \in [1..n -> Seq(T)]
    BY <2>1
  <2> HIDE DEF pieces, n
  <2>3. QED
    BY <1>1, <2>2
<1>3. \A i \in 0..n : /\ SubSeq(s, 1, i) \in Seq(T) /\ Len(SubSeq(s, 1, i)) = i
                      /\ \A j \in 1..i : SubSeq(s, 1, i)[j] = s[j]
  <2> TAKE i \in 0..n
  <2>1. i \in Int /\ \A j \in 1..i : s[j] \in T
    BY <1>1
  <2>2. QED
    BY <1>1, <2>1, SubSeqProperties
<1>4. \A i \in 1..n : g[i] = g[i - 1] \o pieces[i]
  <2> TAKE i \in 1..n
  <2> DEFINE t == SubSeq(s, 1, i - 1)
             u == <<s[i]>>
  <2>1. /\ t \in Seq(T) /\ Len(t) = i - 1 /\ i - 1 \in 0..n /\ i \in 0..n
        /\ \A j \in 1..(i - 1) : t[j] = s[j]
    BY <1>1, <1>3
  <2>2. u \in Seq(T) /\ Len(u) = 1 /\ u[1] = s[i]
    BY <1>1
  <2>3. pieces[i] = u /\ g[i - 1] = t /\ g[i] = SubSeq(s, 1, i)
    BY <1>1, <2>1
  <2> HIDE DEF t, u, pieces, g
  <2>4. /\ t \o u \in Seq(T) /\ Len(t \o u) = i
        /\ \A j \in 1..i : (t \o u)[j] = IF j <= i - 1 THEN t[j] ELSE u[j - (i - 1)]
    <3>1. /\ t \o u \in Seq(T) /\ Len(t \o u) = Len(t) + Len(u)
          /\ \A j \in 1..(Len(t) + Len(u)) : (t \o u)[j] = IF j <= Len(t) THEN t[j] ELSE u[j - Len(t)]
      BY <2>1, <2>2, ConcatProperties
    <3>2. Len(t) + Len(u) = i
      BY <2>1, <2>2
    <3>3. QED
      BY <2>1, <3>1, <3>2
  <2>5. \A j \in 1..i : (t \o u)[j] = s[j]
    <3> TAKE j \in 1..i
    <3>1. CASE j <= i - 1
      BY <2>1, <2>4, <3>1
    <3>2. CASE ~(j <= i - 1)
      <4>1. j = i /\ j - (i - 1) = 1
        BY <1>1, <3>2
      <4>2. QED
        BY <2>2, <2>4, <3>2, <4>1
    <3>3. QED
      BY <3>1, <3>2
  <2> DEFINE v == SubSeq(s, 1, i)
  <2>6. v \in Seq(T) /\ Len(v) = i /\ \A j \in 1..i : v[j] = s[j]
    BY <1>3, <2>1
  <2> HIDE DEF v
  <2>7. \A j \in 1..Len(v) : v[j] = (t \o u)[j]
    BY <2>5, <2>6
  <2>8. v = t \o u
    BY <2>4, <2>6, <2>7, SeqEqual
  <2>9. QED
    BY <2>3, <2>8 DEF v
<1>5. g[0] = <<>>
  BY <1>1, <1>3
<1>6. IsJoin(g, T, pieces)
  <2>1. g \in [0..n -> Seq(T)]
    BY <1>3
  <2> HIDE DEF g, pieces
  <2>2. QED
    BY <1>2, <1>4, <1>5, <2>1 DEF IsJoin
<1>7. g[n] = s
  <2>1. n \in 0..n
    BY <1>1
  <2> DEFINE v == SubSeq(s, 1, n)
  <2>2. v \in Seq(T) /\ Len(v) = n /\ \A j \in 1..n : v[j] = s[j]
    BY <1>3, <2>1
  <2>3. g[n] = v
    BY <2>1
  <2> HIDE DEF v
  <2>4. v = s
    BY <2>2, SeqEqual
  <2>5. QED
    BY <2>3, <2>4
<1>8. QED
  <2> HIDE DEF g, pieces
  <2>1. FlattenSeq(pieces) = g[n]
    BY <1>2, <1>6, JoinIsFlatten
  <2>2. QED
    BY <1>7, <2>1 DEF pieces

\* Pieces without elements give none.
LEMMA FlattenNothing ==
  ASSUME NEW n \in Nat
  PROVE  FlattenSeq([i \in 1..n |-> <<>>]) = <<>>
<1> DEFINE ss == [i \in 1..n |-> <<>>]
<1>1. <<>> \in Seq({})
  BY EmptySeq
<1>2. ss \in [1..n -> Seq({})]
  BY <1>1
<1> HIDE DEF ss
<1>3. ss \in Seq(Seq({}))
  BY <1>2
<1> DEFINE all == FlattenSeq(ss)
<1>4. all \in Seq({})
  BY <1>3, FlattenType
<1> HIDE DEF all
<1>5. Len(all) \in Nat /\ \A i \in 1..Len(all) : all[i] \in {}
  BY <1>4, ElementOfSeq, LenProperties
<1>6. Len(all) = 0
  <2>1. Len(all) # 0 => 1 \in 1..Len(all)
    BY <1>5
  <2>2. QED
    BY <1>5, <2>1
<1>7. QED
  BY <1>4, <1>6 DEF all, ss

\* Joining the pieces of two sequences is joining the joins.
LEMMA FlattenConcat ==
  ASSUME NEW T, NEW ss \in Seq(Seq(T)), NEW tt \in Seq(Seq(T))
  PROVE  FlattenSeq(ss \o tt) = FlattenSeq(ss) \o FlattenSeq(tt)
<1>0. \A x, y, z \in Seq(T) : (x \o y) \o z = x \o (y \o z)
  BY ConcatAssociative
<1> DEFINE m == Len(ss)
           n == Len(tt)
           both == ss \o tt
<1>1. m \in Nat /\ n \in Nat /\ both \in Seq(Seq(T)) /\ Len(both) = m + n
  BY ConcatProperties
<1>2. \A i \in 1..m : both[i] = ss[i]
  OBVIOUS
<1>3. \A i \in 1..n : both[m + i] = tt[i] /\ tt[i] \in Seq(T)
  OBVIOUS
<1>4. PICK f : IsJoin(f, T, ss)
  BY JoinExists
<1>5. PICK g : IsJoin(g, T, tt)
  BY JoinExists
<1> DEFINE h == [i \in 0..(m + n) |-> IF i <= m THEN f[i] ELSE f[m] \o g[i - m]]
<1>6. /\ \A i \in 0..m : f[i] \in Seq(T)
      /\ \A i \in 0..n : g[i] \in Seq(T)
      /\ f[0] = <<>> /\ g[0] = <<>>
      /\ \A i \in 1..m : f[i] = f[i - 1] \o ss[i]
      /\ \A i \in 1..n : g[i] = g[i - 1] \o tt[i]
  BY <1>4, <1>5 DEF IsJoin
<1> HIDE DEF m, n, both
<1>7. f[m] \in Seq(T) /\ g[n] \in Seq(T)
  <2>1. m \in 0..m /\ n \in 0..n
    BY <1>1
  <2>2. QED
    BY <1>6, <2>1
<1>8. h \in [0..(m + n) -> Seq(T)]
  <2> SUFFICES ASSUME NEW i \in 0..(m + n)
               PROVE  (IF i <= m THEN f[i] ELSE f[m] \o g[i - m]) \in Seq(T)
    OBVIOUS
  <2>1. CASE i <= m
    BY <1>1, <1>6, <2>1
  <2>2. CASE ~(i <= m)
    <3>1. i - m \in 0..n
      BY <1>1, <2>2
    <3>2. QED
      BY <1>6, <1>7, <2>2, <3>1, ConcatProperties
  <2>3. QED
    BY <2>1, <2>2
<1>9. h[0] = <<>> /\ h[m + n] = f[m] \o g[n]
  <2>1. 0 \in 0..(m + n) /\ 0 <= m /\ m + n \in 0..(m + n) /\ (m + n) - m = n
    BY <1>1
  <2>2. h[0] = <<>>
    BY <1>6, <2>1
  <2>3. CASE n = 0
    <3>1. m + n = m /\ m + n <= m /\ g[n] = <<>>
      BY <1>1, <1>6, <2>3
    <3>2. h[m + n] = f[m]
      BY <2>1, <3>1
    <3>3. QED
      BY <1>7, <2>2, <3>1, <3>2, ConcatEmptySeq
  <2>4. CASE n # 0
    <3>1. ~(m + n <= m)
      BY <1>1, <2>4
    <3>2. QED
      BY <2>1, <2>2, <3>1
  <2>5. QED
    BY <2>3, <2>4
<1>10. \A i \in 1..(m + n) : h[i] = h[i - 1] \o both[i]
  <2> TAKE i \in 1..(m + n)
  <2>1. i \in 0..(m + n) /\ i - 1 \in 0..(m + n)
    BY <1>1
  <2>2. CASE i <= m
    <3>1. i \in 1..m /\ i - 1 <= m
      BY <1>1, <2>2
    <3>2. h[i] = f[i] /\ h[i - 1] = f[i - 1]
      BY <2>1, <2>2, <3>1
    <3>3. QED
      BY <1>2, <1>6, <3>1, <3>2
  <2>3. CASE ~(i <= m)
    <3> DEFINE j == i - m
    <3>1. j \in 1..n /\ j - 1 \in 0..n /\ m + j = i /\ j - 1 = (i - 1) - m
      BY <1>1, <2>3
    <3> HIDE DEF j
    <3>2. g[j] = g[j - 1] \o tt[j] /\ tt[j] = both[i] /\ tt[j] \in Seq(T) /\ g[j - 1] \in Seq(T)
      <4> HIDE DEF h
      <4>1. g[j] = g[j - 1] \o tt[j] /\ g[j - 1] \in Seq(T)
        BY <1>6, <3>1, Zenon
      <4>2. both[m + j] = tt[j] /\ tt[j] \in Seq(T)
        BY <1>3, <3>1, Zenon
      <4>3. QED
        BY <3>1, <4>1, <4>2
    <3>3. h[i] = f[m] \o g[j]
      BY <2>1, <2>3 DEF j
    <3>4. h[i - 1] = f[m] \o g[j - 1]
      <4>1. CASE i - 1 <= m
        <5>1. i - 1 = m /\ j - 1 = 0
          BY <1>1, <2>3, <4>1 DEF j
        <5>2. h[i - 1] = f[m] /\ g[j - 1] = <<>>
          BY <1>6, <2>1, <4>1, <5>1
        <5>3. QED
          BY <1>7, <5>2, ConcatEmptySeq
      <4>2. CASE ~(i - 1 <= m)
        BY <2>1, <3>1, <4>2
      <4>3. QED
        BY <4>1, <4>2
    <3> DEFINE a == f[m]
               b == g[j - 1]
               c == tt[j]
    <3>5. (a \o b) \o c = a \o (b \o c)
      <4>1. a \in Seq(T) /\ b \in Seq(T) /\ c \in Seq(T)
        BY <1>7, <3>2
      <4> HIDE DEF a, b, c, h
      <4>2. QED
        BY <1>0, <4>1
    <3> HIDE DEF h
    <3>6. QED
      BY <3>2, <3>3, <3>4, <3>5
  <2>4. QED
    BY <2>2, <2>3
<1> HIDE DEF h
<1>11. IsJoin(h, T, both)
  BY <1>1, <1>8, <1>9, <1>10 DEF IsJoin
<1>12. FlattenSeq(both) = h[m + n]
  BY <1>1, <1>11, JoinIsFlatten
<1>13. FlattenSeq(ss) = f[m] /\ FlattenSeq(tt) = g[n]
  BY <1>4, <1>5, JoinIsFlatten DEF m, n
<1>14. QED
  BY <1>9, <1>12, <1>13 DEF both

\* A piece in front of the others.
LEMMA FlattenInFront ==
  ASSUME NEW T, NEW e \in Seq(T), NEW r \in Seq(Seq(T)), NEW s \in Seq(Seq(T)),
         Len(s) = Len(r) + 1, s[1] = e, \A i \in 1..Len(r) : s[i + 1] = r[i]
  PROVE  FlattenSeq(s) = e \o FlattenSeq(r)
<1> DEFINE one == <<e>>
           n == Len(r)
<1>1. one \in Seq(Seq(T)) /\ Len(one) = 1 /\ one[1] = e /\ DOMAIN one = 1..1
  OBVIOUS
<1>2. FlattenSeq(one) = e
  <2>1. PICK f : IsJoin(f, T, one)
    BY <1>1, JoinExists
  <2>2. f[1] = f[0] \o one[1] /\ f[0] = <<>>
    <3> HIDE DEF one
    <3>1. 1 \in 1..1 /\ 1 - 1 = 0
      OBVIOUS
    <3>2. QED
      BY <1>1, <2>1, <3>1 DEF IsJoin
  <2>3. f[1] = e
    <3> HIDE DEF one
    <3>1. QED
      BY <1>1, <2>2, ConcatEmptySeq
  <2>4. QED
    <3> HIDE DEF one
    <3>1. QED
      BY <1>1, <2>1, <2>3, JoinIsFlatten
<1> HIDE DEF one
<1>3. s = one \o r
  <2>1. /\ one \o r \in Seq(Seq(T)) /\ Len(one \o r) = n + 1
        /\ \A i \in 1..(n + 1) : (one \o r)[i] = IF i <= 1 THEN one[i] ELSE r[i - 1]
    <3>1. /\ one \o r \in Seq(Seq(T)) /\ Len(one \o r) = Len(one) + Len(r)
          /\ \A i \in 1..(Len(one) + Len(r)) :
               (one \o r)[i] = IF i <= Len(one) THEN one[i] ELSE r[i - Len(one)]
      BY <1>1, ConcatProperties
    <3>2. Len(one) + Len(r) = n + 1
      BY <1>1
    <3>3. QED
      BY <1>1, <3>1, <3>2
  <2>2. \A i \in 1..(n + 1) : s[i] = (one \o r)[i]
    <3> TAKE i \in 1..(n + 1)
    <3>1. CASE i = 1
      BY <1>1, <2>1, <3>1
    <3>2. CASE i # 1
      <4>1. i - 1 \in 1..n /\ ~(i <= 1) /\ (i - 1) + 1 = i
        BY <3>2
      <4>2. s[i] = r[i - 1]
        BY <4>1
      <4>3. QED
        BY <2>1, <4>1, <4>2
    <3>3. QED
      BY <3>1, <3>2
  <2>3. QED
    BY <2>1, <2>2, SeqEqual
<1>4. FlattenSeq(one \o r) = FlattenSeq(one) \o FlattenSeq(r)
  BY <1>1, FlattenConcat
<1>5. QED
  BY <1>2, <1>3, <1>4

\* What occurs in a piece occurs in the whole.
LEMMA FlattenKeeps ==
  ASSUME NEW T, NEW ss \in Seq(Seq(T)), NEW k \in 1..Len(ss), NEW e, Contains(ss[k], e)
  PROVE  Contains(FlattenSeq(ss), e)
<1> DEFINE n == Len(ss)
<1>1. n \in Nat /\ k \in 1..n /\ \A i \in 1..n : ss[i] \in Seq(T)
  OBVIOUS
<1>2. PICK f : IsJoin(f, T, ss)
  BY JoinExists
<1>3. /\ \A i \in 0..n : f[i] \in Seq(T)
      /\ \A i \in 1..n : f[i] = f[i - 1] \o ss[i]
  BY <1>2 DEF IsJoin
<1> HIDE DEF n
<1> DEFINE P == {i \in 0..n : i >= k => Contains(f[i], e)}
<1>4. 0 \in P
  BY <1>1
<1>5. ASSUME NEW i \in 1..n, i - 1 \in P PROVE i \in P
  <2> DEFINE s == f[i - 1]
             t == ss[i]
  <2>1. i \in 0..n /\ i - 1 \in 0..n /\ f[i] = s \o t /\ s \in Seq(T) /\ t \in Seq(T)
    <3> HIDE DEF P
    <3>1. i \in 0..n /\ i - 1 \in 0..n
      BY <1>1
    <3>2. QED
      BY <1>1, <1>3, <3>1, Zenon
  <2>2. i = k => Contains(t, e)
    OBVIOUS
  <2>3. i >= k /\ i # k => Contains(s, e)
    <3>1. i >= k /\ i # k => i - 1 >= k
      BY <1>1
    <3>2. QED
      BY <1>5, <3>1
  <2> HIDE DEF s, t
  <2>4. ASSUME i >= k PROVE Contains(s \o t, e)
    <3>1. Len(s) \in Nat /\ Len(t) \in Nat
      BY <2>1
    <3>2. CASE Contains(s, e)
      <4>1. PICK j \in 1..Len(s) : s[j] = e
        BY <3>2 DEF Contains
      <4>2. j \in 1..Len(s \o t) /\ (s \o t)[j] = e
        BY <2>1, <3>1, <4>1, ConcatProperties
      <4>3. QED
        BY <4>2 DEF Contains
    <3>3. CASE Contains(t, e)
      <4>1. PICK j \in 1..Len(t) : t[j] = e
        BY <3>3 DEF Contains
      <4>2. Len(s) + j \in 1..(Len(s) + Len(t)) /\ ~(Len(s) + j <= Len(s)) /\ (Len(s) + j) - Len(s) = j
        BY <3>1
      <4>3. Len(s \o t) = Len(s) + Len(t) /\ (s \o t)[Len(s) + j] = t[j]
        BY <2>1, <4>2, ConcatProperties
      <4>4. QED
        BY <4>1, <4>2, <4>3 DEF Contains
    <3>4. QED
      BY <2>2, <2>3, <2>4, <3>2, <3>3
  <2>5. QED
    BY <2>1, <2>4
<1>6. n \in P
  <2> HIDE DEF P
  <2>1. 0..n \subseteq P
    BY <1>1, <1>4, <1>5, UpTo
  <2>2. QED
    BY <1>1, <2>1
<1>7. Contains(f[n], e)
  BY <1>1, <1>6
<1>8. QED
  BY <1>2, <1>7, JoinIsFlatten DEF n

-----------------------------------------------------------------------------
(***************************************************************************)
(* The cache and the order of use                                          *)
(***************************************************************************)

\* Moving an element to the end closes the gap it leaves.
LEMMA MoveToEndProperties ==
  ASSUME NEW S, NEW s \in Seq(S), NEW i \in 1..Len(s), NEW e \in S
  PROVE  /\ MoveToEnd(s, i, e) \in Seq(S)
         /\ Len(MoveToEnd(s, i, e)) = Len(s)
         /\ \A j \in 1..Len(s) : MoveToEnd(s, i, e)[j] =
              IF j < i THEN s[j] ELSE IF j < Len(s) THEN s[j + 1] ELSE e
<1> DEFINE front == SubSeq(s, 1, i - 1)
           back  == SubSeq(s, i + 1, Len(s))
<1>1. Len(s) \in Nat /\ i \in Nat /\ 1 <= i /\ i <= Len(s) /\ \A j \in 1..Len(s) : s[j] \in S
  OBVIOUS
<1>2. front \in Seq(S) /\ Len(front) = i - 1 /\ \A j \in 1..(i - 1) : front[j] = s[j]
  <2>1. \A j \in 1..(i - 1) : s[j] \in S
    BY <1>1
  <2>2. QED
    BY <1>1, <2>1, SubSeqProperties
<1>3. back \in Seq(S) /\ Len(back) = Len(s) - i /\ \A j \in 1..(Len(s) - i) : back[j] = s[i + j]
  <2>1. \A j \in (i + 1)..Len(s) : s[j] \in S
    BY <1>1
  <2>2. /\ back \in Seq(S)
        /\ Len(back) = IF i + 1 <= Len(s) THEN Len(s) - (i + 1) + 1 ELSE 0
        /\ \A j \in 1..(Len(s) - (i + 1) + 1) : back[j] = s[i + 1 + j - 1]
    BY <1>1, <2>1, SubSeqProperties
  <2>3. QED
    BY <1>1, <2>2
<1> HIDE DEF front, back
<1>4. /\ front \o back \in Seq(S)
      /\ Len(front \o back) = Len(s) - 1
      /\ \A j \in 1..(Len(s) - 1) : (front \o back)[j] = IF j < i THEN s[j] ELSE s[j + 1]
  <2>1. /\ front \o back \in Seq(S)
        /\ Len(front \o back) = Len(front) + Len(back)
        /\ \A j \in 1..(Len(front) + Len(back)) :
             (front \o back)[j] = IF j <= Len(front) THEN front[j] ELSE back[j - Len(front)]
    BY <1>2, <1>3, ConcatProperties
  <2>2. \A j \in 1..(Len(s) - 1) : (front \o back)[j] = IF j < i THEN s[j] ELSE s[j + 1]
    <3> TAKE j \in 1..(Len(s) - 1)
    <3>1. CASE j < i
      BY <1>1, <1>2, <1>3, <2>1, <3>1
    <3>2. CASE ~(j < i)
      <4>1. j - (i - 1) \in 1..(Len(s) - i) /\ i + (j - (i - 1)) = j + 1
        BY <1>1, <3>2
      <4>2. back[j - (i - 1)] = s[j + 1]
        BY <1>3, <4>1
      <4>3. QED
        BY <1>1, <1>2, <1>3, <2>1, <3>2, <4>2
    <3>3. QED
      BY <3>1, <3>2
  <2>3. QED
    BY <1>1, <1>2, <1>3, <2>1, <2>2
<1>5. MoveToEnd(s, i, e) = Append(front \o back, e)
  BY DEF MoveToEnd, RemoveAt, front, back
<1>6. /\ Append(front \o back, e) \in Seq(S)
      /\ Len(Append(front \o back, e)) = Len(s)
      /\ \A j \in 1..(Len(s) - 1) : Append(front \o back, e)[j] = (front \o back)[j]
      /\ Append(front \o back, e)[Len(s)] = e
  BY <1>1, <1>4, AppendProperties
<1>7. \A j \in 1..Len(s) : Append(front \o back, e)[j] =
         IF j < i THEN s[j] ELSE IF j < Len(s) THEN s[j + 1] ELSE e
  <2> TAKE j \in 1..Len(s)
  <2>1. CASE j = Len(s)
    BY <1>1, <1>6, <2>1
  <2>2. CASE j # Len(s)
    <3>1. j \in 1..(Len(s) - 1) /\ j < Len(s)
      BY <1>1, <2>2
    <3>2. QED
      BY <1>4, <1>6, <3>1
  <2>3. QED
    BY <2>1, <2>2
<1>8. QED
  BY <1>5, <1>6, <1>7

\* An order of use names every key once.
Distinct(order) == \A i, j \in 1..Len(order) : order[i] = order[j] => i = j

\* The entries are those of the keys used last, each with a vector of its key.
Sound(entries, order) ==
    /\ Distinct(order)
    /\ Len(entries) = IF Len(order) < Capacity THEN Len(order) ELSE Capacity
    /\ \A i \in 1..Len(entries) : entries[i].key = order[Len(order) - Len(entries) + i]
    /\ \A i \in 1..Len(entries) : KeyOf[entries[i].vector] = entries[i].key

Shelves == {s \in [entries : Seq(Entry), order : Seq(Keys)] : Sound(s.entries, s.order)}

\* Using a key moves it to the end of the order, or adds it there.
LEMMA UsedProperties ==
  ASSUME NEW order \in Seq(Keys), Distinct(order), NEW k \in Keys
  PROVE  /\ Used(order, k) \in Seq(Keys)
         /\ Distinct(Used(order, k))
         /\ \A q \in 1..Len(order) : order[q] = k =>
              /\ Len(Used(order, k)) = Len(order)
              /\ \A j \in 1..Len(order) : Used(order, k)[j] =
                   IF j < q THEN order[j] ELSE IF j < Len(order) THEN order[j + 1] ELSE k
         /\ (\A q \in 1..Len(order) : order[q] # k) =>
              /\ Len(Used(order, k)) = Len(order) + 1
              /\ \A j \in 1..Len(order) : Used(order, k)[j] = order[j]
              /\ Used(order, k)[Len(order) + 1] = k
<1>1. Len(order) \in Nat /\ DOMAIN order = 1..Len(order)
  OBVIOUS
<1>2. ASSUME NEW q \in 1..Len(order), order[q] = k
      PROVE  /\ Used(order, k) \in Seq(Keys)
             /\ Len(Used(order, k)) = Len(order)
             /\ \A j \in 1..Len(order) : Used(order, k)[j] =
                  IF j < q THEN order[j] ELSE IF j < Len(order) THEN order[j + 1] ELSE k
             /\ Distinct(Used(order, k))
  <2> DEFINE p == CHOOSE i \in DOMAIN order : order[i] = k
  <2>1. p \in 1..Len(order) /\ order[p] = k
    BY <1>1, <1>2
  <2>2. Used(order, k) = MoveToEnd(order, p, k)
    BY <1>1, <1>2 DEF Used
  <2> HIDE DEF p
  <2> DEFINE t == Used(order, k)
  <2>3. t = MoveToEnd(order, q, k)
    <3>1. p = q
      BY <1>2, <2>1 DEF Distinct
    <3>2. QED
      BY <2>2, <3>1
  <2> HIDE DEF t
  <2>4. /\ t \in Seq(Keys)
        /\ Len(t) = Len(order)
        /\ \A j \in 1..Len(order) : t[j] =
             IF j < q THEN order[j] ELSE IF j < Len(order) THEN order[j + 1] ELSE k
    <3>1. /\ MoveToEnd(order, q, k) \in Seq(Keys)
          /\ Len(MoveToEnd(order, q, k)) = Len(order)
          /\ \A j \in 1..Len(order) : MoveToEnd(order, q, k)[j] =
               IF j < q THEN order[j] ELSE IF j < Len(order) THEN order[j + 1] ELSE k
      BY MoveToEndProperties
    <3>2. QED
      BY <2>3, <3>1
  <2>5. Distinct(t)
    <3> SUFFICES ASSUME NEW i \in 1..Len(order), NEW j \in 1..Len(order), t[i] = t[j], i < j PROVE FALSE
      BY <1>1, <2>4 DEF Distinct
    <3>0. j <= Len(order) /\ i >= 1 /\ i \in Int /\ j \in Int /\ Len(order) \in Int
      BY <1>1
    <3>1. i < Len(order) /\ i # j /\ (j < Len(order) \/ j = Len(order))
      BY <3>0
    <3> DEFINE from(m) == IF m < q THEN m ELSE m + 1
    <3>2. \A m \in 1..Len(order) : m < Len(order) =>
             /\ from(m) \in 1..Len(order) /\ from(m) # q
             /\ t[m] = order[from(m)]
      <4> SUFFICES ASSUME NEW m \in 1..Len(order), m < Len(order)
                   PROVE  /\ from(m) \in 1..Len(order) /\ from(m) # q
                          /\ t[m] = order[from(m)]
        OBVIOUS
      <4>1. m \in Int /\ q \in Int /\ m >= 1 /\ Len(order) \in Int
        BY <1>1
      <4>2. CASE m < q
        BY <2>4, <4>1, <4>2
      <4>3. CASE ~(m < q)
        BY <2>4, <4>1, <4>3
      <4>4. QED
        BY <4>2, <4>3
    <3>3. CASE j < Len(order)
      <4>1. from(i) = from(j)
        BY <3>1, <3>2, <3>3 DEF Distinct
      <4>2. QED
        BY <3>0, <4>1
    <3>4. CASE j = Len(order)
      <4>1. t[j] = k
        BY <3>0, <2>4, <3>4
      <4>2. order[from(i)] = order[q]
        BY <1>2, <3>1, <3>2, <4>1
      <4>3. QED
        BY <3>1, <3>2, <4>2 DEF Distinct
    <3>5. QED
      BY <3>1, <3>3, <3>4, Zenon
  <2>6. QED
    BY <2>4, <2>5 DEF t
<1>3. ASSUME \A q \in 1..Len(order) : order[q] # k
      PROVE  /\ Used(order, k) \in Seq(Keys)
             /\ Len(Used(order, k)) = Len(order) + 1
             /\ \A j \in 1..Len(order) : Used(order, k)[j] = order[j]
             /\ Used(order, k)[Len(order) + 1] = k
             /\ Distinct(Used(order, k))
  <2>1. Used(order, k) = Append(order, k)
    BY <1>1, <1>3 DEF Used
  <2> DEFINE t == Used(order, k)
  <2>2. /\ t \in Seq(Keys)
        /\ Len(t) = Len(order) + 1
        /\ \A j \in 1..Len(order) : t[j] = order[j]
        /\ t[Len(order) + 1] = k
    BY <2>1, AppendProperties
  <2> HIDE DEF t
  <2>3. Distinct(t)
    <3> SUFFICES ASSUME NEW i \in 1..(Len(order) + 1), NEW j \in 1..(Len(order) + 1), t[i] = t[j], i < j
                 PROVE FALSE
      BY <1>1, <2>2 DEF Distinct
    <3>1. i \in 1..Len(order) /\ t[i] = order[i] /\ i # j
      BY <1>1, <2>2
    <3>2. CASE j = Len(order) + 1
      BY <1>3, <2>2, <3>1, <3>2
    <3>3. CASE j # Len(order) + 1
      <4>1. j \in 1..Len(order) /\ t[j] = order[j]
        BY <1>1, <2>2, <3>3
      <4>2. QED
        BY <3>1, <4>1 DEF Distinct
    <3>4. QED
      BY <3>2, <3>3
  <2>4. QED
    BY <2>2, <2>3 DEF t
<1>4. QED
  <2>1. CASE \E q \in 1..Len(order) : order[q] = k
    BY <1>2, <2>1
  <2>2. CASE \A q \in 1..Len(order) : order[q] # k
    BY <1>3, <2>2
  <2>3. QED
    BY <2>1, <2>2

\* The sizes of a cache and of its order of use.
LEMMA SoundSizes ==
  ASSUME NEW c \in Seq(Entry), NEW o \in Seq(Keys), Sound(c, o)
  PROVE  /\ Len(c) \in Nat /\ Len(o) \in Nat /\ Capacity \in Nat /\ Capacity >= 1
         /\ Len(c) <= Len(o) /\ Len(c) <= Capacity
         /\ Len(c) = Len(o) \/ Len(c) = Capacity
         /\ Len(o) - Len(c) \in Nat
  BY GatewayAssumption DEF Sound

\* A cached key becomes the last one, in the cache as in the order of use.
LEMMA MoveSound ==
  ASSUME NEW c \in Seq(Entry), NEW o \in Seq(Keys), Sound(c, o),
         NEW p \in 1..Len(c), NEW e \in Entry, e.key = c[p].key, KeyOf[e.vector] = e.key
  PROVE  /\ MoveToEnd(c, p, e) \in Seq(Entry)
         /\ Used(o, e.key) \in Seq(Keys)
         /\ Sound(MoveToEnd(c, p, e), Used(o, e.key))
<1> DEFINE c2 == MoveToEnd(c, p, e)
           o2 == Used(o, e.key)
           gap == Len(o) - Len(c)
<1>1. /\ Len(c) \in Nat /\ Len(o) \in Nat /\ Capacity \in Nat
      /\ gap \in Nat /\ p \in Int /\ gap + p \in 1..Len(o) /\ Len(o) = gap + Len(c)
  BY SoundSizes
<1>2. /\ c2 \in Seq(Entry)
      /\ Len(c2) = Len(c)
      /\ \A j \in 1..Len(c) : c2[j] = IF j < p THEN c[j] ELSE IF j < Len(c) THEN c[j + 1] ELSE e
  BY MoveToEndProperties
<1>3. \A i \in 1..Len(c) : c[i].key = o[gap + i] /\ KeyOf[c[i].vector] = c[i].key
  BY DEF Sound
<1>4. e.key \in Keys /\ o[gap + p] = e.key
  BY <1>3 DEF Entry
<1>5. /\ o2 \in Seq(Keys)
      /\ Distinct(o2)
      /\ Len(o2) = Len(o)
      /\ \A j \in 1..Len(o) : o2[j] =
           IF j < gap + p THEN o[j] ELSE IF j < Len(o) THEN o[j + 1] ELSE e.key
  <2>1. Distinct(o)
    BY DEF Sound
  <2>2. /\ o2 \in Seq(Keys)
        /\ Distinct(o2)
        /\ \A q \in 1..Len(o) : o[q] = e.key =>
              /\ Len(o2) = Len(o)
              /\ \A j \in 1..Len(o) : o2[j] =
                   IF j < q THEN o[j] ELSE IF j < Len(o) THEN o[j + 1] ELSE e.key
    BY <1>4, <2>1, UsedProperties
  <2> HIDE DEF o2, gap
  <2>3. QED
    BY <1>1, <1>4, <2>2
<1> HIDE DEF c2, o2, gap
<1>6. ASSUME NEW j \in 1..Len(c)
      PROVE  c2[j].key = o2[gap + j] /\ KeyOf[c2[j].vector] = c2[j].key
  <2>1. j \in Int /\ gap + j \in 1..Len(o)
    BY <1>1
  <2>2. CASE j < p
    BY <1>1, <1>2, <1>3, <1>5, <2>1, <2>2
  <2>3. CASE ~(j < p) /\ j < Len(c)
    <3>1. c2[j] = c[j + 1] /\ j + 1 \in 1..Len(c)
      BY <1>1, <1>2, <2>1, <2>3
    <3>2. o2[gap + j] = o[gap + j + 1]
      BY <1>1, <1>5, <2>1, <2>3
    <3>3. gap + (j + 1) = gap + j + 1
      BY <1>1, <2>1
    <3>4. QED
      BY <1>3, <3>1, <3>2, <3>3
  <2>4. CASE ~(j < p) /\ ~(j < Len(c))
    <3>1. c2[j] = e /\ j = Len(c)
      BY <1>1, <1>2, <2>1, <2>4
    <3>2. o2[gap + j] = e.key
      BY <1>1, <1>5, <2>1, <2>4, <3>1
    <3>3. QED
      BY <3>1, <3>2
  <2>5. QED
    BY <2>2, <2>3, <2>4
<1>7. Sound(c2, o2)
  <2>1. Len(o2) - Len(c2) = gap
    BY <1>2, <1>5 DEF gap
  <2>2. Len(c2) = IF Len(o2) < Capacity THEN Len(o2) ELSE Capacity
    BY <1>2, <1>5 DEF Sound
  <2>3. QED
    BY <1>2, <1>5, <1>6, <2>1, <2>2 DEF Sound
<1>8. QED
  BY <1>2, <1>5, <1>7 DEF c2, o2

\* A key that is not cached is added; the key evicted for it is the one that was
\* used longest ago of those in the cache.
LEMMA AddSound ==
  ASSUME NEW c \in Seq(Entry), NEW o \in Seq(Keys), Sound(c, o),
         NEW e \in Entry, \A i \in 1..Len(c) : c[i].key # e.key, KeyOf[e.vector] = e.key
  PROVE  LET c2 == IF Len(c) < Capacity THEN Append(c, e) ELSE Append(Tail(c), e)
         IN  /\ c2 \in Seq(Entry)
             /\ Used(o, e.key) \in Seq(Keys)
             /\ Sound(c2, Used(o, e.key))
<1> DEFINE c2 == IF Len(c) < Capacity THEN Append(c, e) ELSE Append(Tail(c), e)
           o2 == Used(o, e.key)
           gap == Len(o) - Len(c)
<1>1. /\ Len(c) \in Nat /\ Len(o) \in Nat /\ Capacity \in Nat /\ Capacity >= 1
      /\ gap \in Nat /\ Len(o) = gap + Len(c) /\ Len(c) <= Capacity
      /\ gap = 0 \/ Len(c) = Capacity
  BY SoundSizes
<1>2. \A i \in 1..Len(c) : c[i].key = o[gap + i] /\ KeyOf[c[i].vector] = c[i].key
  BY DEF Sound
<1>3. e.key \in Keys
  BY DEF Entry
<1>4. CASE Len(c) < Capacity
  <2>1. gap = 0
    BY <1>1, <1>4
  <2>2. /\ c2 \in Seq(Entry) /\ Len(c2) = Len(c) + 1
        /\ \A i \in 1..Len(c) : c2[i] = c[i]
        /\ c2[Len(c) + 1] = e
    BY <1>4, AppendProperties
  <2>3. \A q \in 1..Len(o) : o[q] # e.key
    <3> HIDE DEF gap
    <3> TAKE q \in 1..Len(o)
    <3>1. q \in 1..Len(c) /\ gap + q = q
      BY <1>1, <2>1
    <3>2. QED
      BY <1>2, <3>1
  <2>4. /\ o2 \in Seq(Keys) /\ Distinct(o2) /\ Len(o2) = Len(o) + 1
        /\ \A i \in 1..Len(o) : o2[i] = o[i]
        /\ o2[Len(o) + 1] = e.key
    BY <1>3, <2>3, UsedProperties DEF Sound
  <2> HIDE DEF c2, o2, gap
  <2>5. ASSUME NEW j \in 1..Len(c2)
        PROVE  c2[j].key = o2[Len(o2) - Len(c2) + j] /\ KeyOf[c2[j].vector] = c2[j].key
    <3>1. Len(o2) - Len(c2) + j = j /\ j \in Int /\ Len(c) = Len(o)
      BY <1>1, <2>1, <2>2, <2>4
    <3>2. CASE j <= Len(c)
      <4>1. j \in 1..Len(c) /\ gap + j = j
        BY <1>1, <2>1, <3>1, <3>2
      <4>2. c2[j] = c[j] /\ o2[j] = o[j]
        BY <2>2, <2>4, <3>1, <4>1
      <4>3. QED
        BY <1>2, <3>1, <4>1, <4>2
    <3>3. CASE ~(j <= Len(c))
      <4>1. j = Len(c) + 1
        BY <1>1, <2>2, <3>1, <3>3
      <4>2. QED
        BY <2>2, <2>4, <3>1, <4>1
    <3>4. QED
      BY <3>2, <3>3
  <2>6. Len(c2) = IF Len(o2) < Capacity THEN Len(o2) ELSE Capacity
    BY <1>1, <1>4, <2>1, <2>2, <2>4
  <2>7. Sound(c2, o2)
    BY <2>4, <2>5, <2>6 DEF Sound
  <2>8. QED
    BY <2>2, <2>4, <2>7 DEF c2, o2
<1>5. CASE ~(Len(c) < Capacity)
  <2>1. Len(c) = Capacity /\ c # <<>>
    BY <1>1, <1>5
  <2>2. /\ Tail(c) \in Seq(Entry) /\ Len(Tail(c)) = Len(c) - 1
        /\ \A i \in 1..(Len(c) - 1) : Tail(c)[i] = c[i + 1]
    BY <2>1, HeadTailProperties
  <2>3. /\ c2 \in Seq(Entry) /\ Len(c2) = Len(c)
        /\ \A i \in 1..(Len(c) - 1) : c2[i] = c[i + 1]
        /\ c2[Len(c)] = e
    <3>1. /\ Append(Tail(c), e) \in Seq(Entry)
          /\ Len(Append(Tail(c), e)) = Len(Tail(c)) + 1
          /\ \A i \in 1..Len(Tail(c)) : Append(Tail(c), e)[i] = Tail(c)[i]
          /\ Append(Tail(c), e)[Len(Tail(c)) + 1] = e
      BY <2>2, AppendProperties
    <3>2. c2 = Append(Tail(c), e)
      BY <1>5
    <3> HIDE DEF c2, o2, gap
    <3>3. \A n \in Nat : (n - 1) + 1 = n
      OBVIOUS
    <3>4. QED
      BY <1>1, <2>2, <3>1, <3>2, <3>3
  <2>4. /\ o2 \in Seq(Keys) /\ Distinct(o2)
        /\ Len(o2) \in {Len(o), Len(o) + 1}
        /\ \A j \in 1..(Len(c) - 1) : o2[Len(o2) - Len(c) + j] = o[gap + (j + 1)]
        /\ o2[Len(o2)] = e.key
    <3>1. CASE \E q \in 1..Len(o) : o[q] = e.key
      <4>1. PICK q \in 1..Len(o) : o[q] = e.key
        BY <3>1
      <4>2. q <= gap /\ q \in Int
        <5>1. SUFFICES ASSUME ~(q <= gap) PROVE FALSE
          BY <1>1
        <5>2. q - gap \in 1..Len(c) /\ gap + (q - gap) = q
          BY <1>1, <5>1
        <5>3. QED
          BY <1>2, <4>1, <5>2
      <4>3. /\ o2 \in Seq(Keys) /\ Distinct(o2) /\ Len(o2) = Len(o)
            /\ \A j \in 1..Len(o) : o2[j] =
                 IF j < q THEN o[j] ELSE IF j < Len(o) THEN o[j + 1] ELSE e.key
        <5> DEFINE k == e.key
        <5>1. Distinct(o) /\ k \in Keys /\ o[q] = k
          BY <1>3, <4>1 DEF Sound
        <5> HIDE DEF k, c2, gap
        <5>2. /\ Used(o, k) \in Seq(Keys) /\ Distinct(Used(o, k)) /\ Len(Used(o, k)) = Len(o)
              /\ \A j \in 1..Len(o) : Used(o, k)[j] =
                   IF j < q THEN o[j] ELSE IF j < Len(o) THEN o[j + 1] ELSE k
          BY <5>1, UsedProperties
        <5>3. QED
          BY <5>2 DEF k
      <4> HIDE DEF o2, gap
      <4>4. \A j \in 1..(Len(c) - 1) : o2[gap + j] = o[gap + (j + 1)]
        <5> TAKE j \in 1..(Len(c) - 1)
        <5>1. gap + j \in 1..Len(o) /\ ~(gap + j < q) /\ gap + j < Len(o) /\ gap + j + 1 = gap + (j + 1)
          BY <1>1, <4>2
        <5>2. QED
          BY <4>3, <5>1
      <4>5. o2[Len(o)] = e.key
        <5>1. Len(o) \in 1..Len(o) /\ ~(Len(o) < q) /\ ~(Len(o) < Len(o))
          BY <1>1, <4>2
        <5>2. QED
          BY <4>3, <5>1
      <4>6. Len(o2) - Len(c) = gap
        BY <1>1, <4>3
      <4>7. QED
        BY <4>3, <4>4, <4>5, <4>6
    <3>2. CASE \A q \in 1..Len(o) : o[q] # e.key
      <4>1. /\ o2 \in Seq(Keys) /\ Distinct(o2) /\ Len(o2) = Len(o) + 1
            /\ \A j \in 1..Len(o) : o2[j] = o[j]
            /\ o2[Len(o) + 1] = e.key
        BY <1>3, <3>2, UsedProperties DEF Sound
      <4> HIDE DEF o2, gap
      <4>2. \A j \in 1..(Len(c) - 1) : o2[Len(o2) - Len(c) + j] = o[gap + (j + 1)]
        <5> TAKE j \in 1..(Len(c) - 1)
        <5>1. Len(o2) - Len(c) + j = gap + (j + 1) /\ gap + (j + 1) \in 1..Len(o)
          BY <1>1, <4>1
        <5>2. QED
          BY <4>1, <5>1
      <4>3. QED
        BY <4>1, <4>2
    <3>3. QED
      BY <3>1, <3>2
  <2> HIDE DEF c2, o2, gap
  <2>5. ASSUME NEW j \in 1..Len(c2)
        PROVE  c2[j].key = o2[Len(o2) - Len(c2) + j] /\ KeyOf[c2[j].vector] = c2[j].key
    <3>1. CASE j <= Len(c) - 1
      <4>1. j \in 1..(Len(c) - 1) /\ j + 1 \in 1..Len(c)
        BY <1>1, <2>3, <3>1
      <4>2. c2[j] = c[j + 1] /\ o2[Len(o2) - Len(c2) + j] = o[gap + (j + 1)]
        BY <2>3, <2>4, <4>1
      <4>3. QED
        BY <1>2, <4>1, <4>2
    <3>2. CASE ~(j <= Len(c) - 1)
      <4>1. j = Len(c)
        BY <1>1, <2>3, <3>2
      <4>2. Len(o2) - Len(c2) + j = Len(o2)
        BY <1>1, <2>3, <2>4, <4>1
      <4>3. QED
        BY <2>3, <2>4, <4>1, <4>2
    <3>3. QED
      BY <3>1, <3>2
  <2>6. Len(c2) = IF Len(o2) < Capacity THEN Len(o2) ELSE Capacity
    BY <1>1, <2>1, <2>3, <2>4
  <2>7. Sound(c2, o2)
    BY <2>4, <2>5, <2>6 DEF Sound
  <2>8. QED
    BY <2>3, <2>4, <2>7 DEF c2, o2
<1>6. QED
  BY <1>4, <1>5

\* What a lookup or an insertion makes of a sound shelf is sound.
LEMMA ShelfParts ==
  ASSUME NEW s \in Shelves
  PROVE  s.entries \in Seq(Entry) /\ s.order \in Seq(Keys) /\ Sound(s.entries, s.order)
  BY DEF Shelves

LEMMA ShelfMade ==
  ASSUME NEW c \in Seq(Entry), NEW o \in Seq(Keys), Sound(c, o)
  PROVE  [entries |-> c, order |-> o] \in Shelves
  BY DEF Shelves

LEMMA PositionCached ==
  ASSUME NEW c \in Seq(Entry), NEW k, Cached(c, k)
  PROVE  Position(c, k) \in 1..Len(c) /\ c[Position(c, k)].key = k /\ c[Position(c, k)] \in Entry
<1>1. Position(c, k) \in DOMAIN c /\ c[Position(c, k)].key = k
  BY DEF Cached, Position
<1>2. QED
  BY <1>1

LEMMA LookUpSound ==
  ASSUME NEW s \in Shelves, NEW k \in Keys
  PROVE  LookUp(s, k) \in Shelves
<1>1. CASE ~Cached(s.entries, k)
  BY <1>1 DEF LookUp
<1>2. CASE Cached(s.entries, k)
  <2> DEFINE p == Position(s.entries, k)
             e == s.entries[p]
  <2>1. p \in 1..Len(s.entries) /\ e \in Entry /\ e.key = k
    BY <1>2, ShelfParts, PositionCached
  <2>2. KeyOf[e.vector] = e.key
    BY <2>1, ShelfParts DEF Sound
  <2>3. LookUp(s, k) = [entries |-> MoveToEnd(s.entries, p, e), order |-> Used(s.order, e.key)]
    BY <1>2, <2>1 DEF LookUp, Touch
  <2> HIDE DEF p
  <2>4. /\ MoveToEnd(s.entries, p, e) \in Seq(Entry)
        /\ Used(s.order, e.key) \in Seq(Keys)
        /\ Sound(MoveToEnd(s.entries, p, e), Used(s.order, e.key))
    BY <2>1, <2>2, ShelfParts, MoveSound
  <2>5. QED
    BY <2>3, <2>4, ShelfMade
<1>3. QED
  BY <1>1, <1>2

LEMMA StoreSound ==
  ASSUME NEW s \in Shelves, NEW e \in Entry, KeyOf[e.vector] = e.key
  PROVE  Store(s, e) \in Shelves
<1> DEFINE c == s.entries
           o == s.order
<1>1. c \in Seq(Entry) /\ o \in Seq(Keys) /\ Sound(c, o)
  BY ShelfParts
<1>2. Store(s, e) = [entries |-> Put(c, e), order |-> Used(o, e.key)]
  BY DEF Store
<1> HIDE DEF c, o
<1>3. /\ Put(c, e) \in Seq(Entry)
      /\ Used(o, e.key) \in Seq(Keys)
      /\ Sound(Put(c, e), Used(o, e.key))
  <2>1. CASE Cached(c, e.key)
    <3>1. /\ Position(c, e.key) \in 1..Len(c) /\ c[Position(c, e.key)].key = e.key
          /\ Put(c, e) = MoveToEnd(c, Position(c, e.key), e)
      BY <1>1, <2>1, PositionCached DEF Put
    <3>2. QED
      BY <1>1, <3>1, MoveSound
  <2>2. CASE ~Cached(c, e.key)
    <3>1. \A i \in 1..Len(c) : c[i].key # e.key
      BY <1>1, <2>2 DEF Cached
    <3>2. Put(c, e) = IF Len(c) < Capacity THEN Append(c, e) ELSE Append(Tail(c), e)
      BY <2>2 DEF Put
    <3>3. QED
      BY <1>1, <3>1, <3>2, AddSound
  <2>3. QED
    BY <2>1, <2>2
<1>4. QED
  BY <1>2, <1>3, ShelfMade

\* The loop of get_batch leaves a sound shelf.
LEMMA AfterLookUpsSound ==
  ASSUME Shelf \in Shelves, NEW xs \in Seq(Texts)
  PROVE  AfterLookUps(xs) \in Shelves
<1> DEFINE n == Len(xs)
           Steps == [i \in 1..n |-> [s \in Shelves |-> LookUp(s, KeyOf[xs[i]])]]
           Loop(f) == [i \in 0..n |-> IF i = 0 THEN Shelf ELSE LookUp(f[i - 1], KeyOf[xs[i]])]
           run == CHOOSE f : f = Loop(f)
<1>1. n \in Nat /\ Shelf \in Shelves
  OBVIOUS
<1>2. \A i \in 1..n : KeyOf[xs[i]] \in Keys
  BY DEF Keys
<1>3. AfterLookUps(xs) = run[n]
  BY DEF AfterLookUps
<1> HIDE DEF n
<1>4. Steps \in [1..n -> [Shelves -> Shelves]]
  BY <1>2, LookUpSound
<1>5. PICK g : IsRun(g, n, Shelves, Shelf, Steps)
  <2> HIDE DEF Steps, Loop, run
  <2>1. QED
    BY <1>1, <1>4, Stepwise
<1>6. \A i \in 1..n : g[i] = LookUp(g[i - 1], KeyOf[xs[i]])
  <2> TAKE i \in 1..n
  <2>1. i - 1 \in 0..n
    BY <1>1
  <2>2. g[i - 1] \in Shelves
    BY <1>5, <2>1 DEF IsRun
  <2>3. QED
    BY <1>5, <2>2 DEF IsRun
<1>7. g = Loop(g)
  <2>1. \A i \in 0..n : i # 0 => i \in 1..n
    BY <1>1
  <2>2. \A i \in 0..n : g[i] = IF i = 0 THEN Shelf ELSE LookUp(g[i - 1], KeyOf[xs[i]])
    BY <1>5, <1>6, <2>1 DEF IsRun
  <2>3. QED
    BY <1>5, <2>2 DEF IsRun
<1>8. run = Loop(run)
  <2> HIDE DEF Loop
  <2>1. QED
    BY <1>7
<1> HIDE DEF run
<1> DEFINE P == {i \in 0..n : run[i] \in Shelves}
<1>9. 0 \in P
  <2>1. 0 \in 0..n
    BY <1>1
  <2>2. run[0] = Shelf
    BY <1>8, <2>1
  <2>3. QED
    BY <2>1, <2>2
<1>10. ASSUME NEW i \in 1..n, i - 1 \in P PROVE i \in P
  <2>1. i \in 0..n /\ i # 0
    BY <1>1
  <2>2. run[i] = LookUp(run[i - 1], KeyOf[xs[i]])
    BY <1>8, <2>1
  <2>3. run[i] \in Shelves
    BY <1>2, <1>10, <2>2, LookUpSound
  <2>4. QED
    BY <2>1, <2>3
<1>11. n \in P
  <2>1. n \in 0..n
    BY <1>1
  <2> HIDE DEF P
  <2>2. QED
    BY <1>1, <1>9, <1>10, <2>1, UpTo
<1>12. QED
  BY <1>3, <1>11

\* The loop of put_batch leaves a sound shelf.
LEMMA AfterStoresSound ==
  ASSUME Shelf \in Shelves, NEW n \in Nat, NEW new,
         \A i \in DOMAIN new : new[i] \in Entry /\ KeyOf[new[i].vector] = new[i].key
  PROVE  AfterStores(n, new) \in Shelves
<1> DEFINE Turn(s, i) == IF i \in DOMAIN new THEN Store(s, new[i]) ELSE s
           Steps == [i \in 1..n |-> [s \in Shelves |-> Turn(s, i)]]
           Loop(f) == [i \in 0..n |-> IF i = 0 THEN Shelf
                                      ELSE IF i \in DOMAIN new THEN Store(f[i - 1], new[i])
                                      ELSE f[i - 1]]
           run == CHOOSE f : f = Loop(f)
<1>1. n \in Nat /\ Shelf \in Shelves
  OBVIOUS
<1>2. \A s \in Shelves, i \in 1..n : Turn(s, i) \in Shelves
  BY StoreSound
<1>3. AfterStores(n, new) = run[n]
  BY DEF AfterStores
<1>4. Steps \in [1..n -> [Shelves -> Shelves]]
  <2> HIDE DEF Turn
  <2>1. QED
    BY <1>2
<1>5. PICK g : IsRun(g, n, Shelves, Shelf, Steps)
  <2> HIDE DEF Steps, Loop, run
  <2>1. QED
    BY <1>1, <1>4, Stepwise
<1>6. \A i \in 1..n : g[i] = Turn(g[i - 1], i)
  <2> TAKE i \in 1..n
  <2>1. i - 1 \in 0..n
    BY <1>1
  <2>2. g[i - 1] \in Shelves
    BY <1>5, <2>1 DEF IsRun
  <2>3. QED
    BY <1>5, <2>2 DEF IsRun
<1>7. g = Loop(g)
  <2>1. \A i \in 0..n : i # 0 => i \in 1..n
    BY <1>1
  <2>2. \A i \in 0..n : g[i] = IF i = 0 THEN Shelf ELSE Turn(g[i - 1], i)
    BY <1>5, <1>6, <2>1 DEF IsRun
  <2>3. QED
    BY <1>5, <2>2 DEF IsRun
<1>8. run = Loop(run)
  <2> HIDE DEF Loop
  <2>1. QED
    BY <1>7
<1> HIDE DEF run
<1> DEFINE P == {i \in 0..n : run[i] \in Shelves}
<1>9. 0 \in P
  <2>1. 0 \in 0..n
    BY <1>1
  <2>2. run[0] = Shelf
    BY <1>8, <2>1
  <2>3. QED
    BY <2>1, <2>2
<1>10. ASSUME NEW i \in 1..n, i - 1 \in P PROVE i \in P
  <2>1. i \in 0..n /\ i # 0
    BY <1>1
  <2>2. run[i] = Turn(run[i - 1], i)
    BY <1>8, <2>1
  <2>3. run[i] \in Shelves
    BY <1>2, <1>10, <2>2
  <2>4. QED
    BY <2>1, <2>3
<1>11. n \in P
  <2>1. n \in 0..n
    BY <1>1
  <2> HIDE DEF P
  <2>2. QED
    BY <1>1, <1>9, <1>10, <2>1, UpTo
<1>12. QED
  BY <1>3, <1>11

-----------------------------------------------------------------------------
(***************************************************************************)
(* The invariant of embed_batch                                            *)
(***************************************************************************)

\* The cache is sound, the hits kept with a request fit its texts whatever has
\* become of their entries, and attempts beyond the limit end the request.
EmbeddingInv ==
    /\ TypeOK
    /\ Sound(cache, recency)
    /\ \A r \in Requests : \A i \in DOMAIN hits[r] : KeyOf[hits[r][i]] = KeyOf[BatchOf[r][i]]
    /\ \A r \in Requests : stage[r] # "error" => attempts[r] <= RetryLimit

\* The texts of a batch and their keys.
LEMMA BatchType ==
  ASSUME NEW r \in Requests
  PROVE  /\ BatchOf[r] \in Seq(Texts)
         /\ DOMAIN BatchOf[r] = 1..Len(BatchOf[r]) /\ Len(BatchOf[r]) \in Nat
         /\ \A i \in DOMAIN BatchOf[r] : BatchOf[r][i] \in Texts /\ KeyOf[BatchOf[r][i]] \in Keys
<1>1. BatchOf[r] \in Seq(Texts)
  BY GatewayAssumption
<1>2. QED
  BY <1>1 DEF Keys

LEMMA ShelfSound == EmbeddingInv => Shelf \in Shelves
  BY ShelfMade DEF EmbeddingInv, TypeOK, Shelf

\* The vectors that get_batch finds are those of the keys of the texts.
LEMMA VectorsFoundFit ==
  ASSUME EmbeddingInv, NEW r \in Requests
  PROVE  /\ Found(r) \subseteq DOMAIN BatchOf[r]
         /\ VectorsFound(r) \in [Found(r) -> Texts]
         /\ \A i \in Found(r) : KeyOf[VectorsFound(r)[i]] = KeyOf[BatchOf[r][i]]
<1>1. Found(r) \subseteq DOMAIN BatchOf[r]
  BY DEF Found
<1>2. ASSUME NEW i \in Found(r)
      PROVE  /\ cache[Position(cache, KeyOf[BatchOf[r][i]])].vector \in Texts
             /\ KeyOf[cache[Position(cache, KeyOf[BatchOf[r][i]])].vector] = KeyOf[BatchOf[r][i]]
  <2> DEFINE k == KeyOf[BatchOf[r][i]]
             p == Position(cache, k)
  <2>1. Cached(cache, k)
    BY DEF Found
  <2> HIDE DEF k
  <2>2. p \in 1..Len(cache) /\ cache[p].key = k /\ cache[p] \in Entry
    BY <2>1, PositionCached DEF EmbeddingInv, TypeOK
  <2>3. KeyOf[cache[p].vector] = k
    BY <2>2 DEF EmbeddingInv, Sound
  <2>4. cache[p].vector \in Texts
    BY <2>2 DEF Entry
  <2>5. QED
    BY <2>3, <2>4 DEF k
<1>3. QED
  BY <1>1, <1>2 DEF VectorsFound

\* Hits and fresh vectors are merged into an answer that fits the batch.
LEMMA MergeFits ==
  ASSUME EmbeddingInv, NEW r \in Requests, NEW last
  PROVE  /\ Merge(r, last) \in Seq(Texts \cup {NoVector})
         /\ Len(Merge(r, last)) = Len(BatchOf[r])
         /\ \A i \in 1..Len(BatchOf[r]) :
              \/ Merge(r, last)[i] = NoVector
              \/ Merge(r, last)[i] \in Texts /\ KeyOf[Merge(r, last)[i]] = KeyOf[BatchOf[r][i]]
<1>1. \A i \in DOMAIN hits[r] : hits[r][i] \in Texts /\ KeyOf[hits[r][i]] = KeyOf[BatchOf[r][i]]
  BY DEF EmbeddingInv, TypeOK
<1>2. ASSUME NEW i \in DOMAIN BatchOf[r]
      PROVE  /\ Merge(r, last)[i] \in Texts \cup {NoVector}
             /\ \/ Merge(r, last)[i] = NoVector
                \/ Merge(r, last)[i] \in Texts /\ KeyOf[Merge(r, last)[i]] = KeyOf[BatchOf[r][i]]
  <2>1. Merge(r, last)[i] = IF i \in DOMAIN hits[r] THEN hits[r][i]
                            ELSE IF i \in Answered(r, last) THEN BatchOf[r][i]
                            ELSE NoVector
    BY DEF Merge
  <2>2. BatchOf[r][i] \in Texts
    BY BatchType
  <2>3. QED
    BY <1>1, <2>1, <2>2
<1>3. DOMAIN Merge(r, last) = 1..Len(BatchOf[r])
  BY BatchType DEF Merge
<1>4. Merge(r, last) = [i \in 1..Len(BatchOf[r]) |-> Merge(r, last)[i]]
  BY BatchType DEF Merge
<1>5. Merge(r, last) \in [1..Len(BatchOf[r]) -> Texts \cup {NoVector}]
  BY <1>2, <1>4, BatchType
<1>6. QED
  BY <1>2, <1>5, BatchType

\* Nothing is cached and no batch has begun.
LEMMA EmbeddingInvInit == Init => EmbeddingInv
<1> SUFFICES ASSUME Init PROVE EmbeddingInv
  OBVIOUS
<1>1. TypeOK
  <2>1. \A r \in Requests : hits[r] = <<>> /\ DOMAIN hits[r] = {}
    BY DEF Init
  <2>2. \A r \in Requests : hits[r] \in [DOMAIN hits[r] -> Texts]
    <3>1. <<>> \in Seq(Texts)
      OBVIOUS
    <3>2. <<>> \in [DOMAIN <<>> -> Texts]
      BY <3>1, LenProperties
    <3>3. QED
      BY <2>1, <3>2
  <2>3. 0 \in 0..RetryLimit + 1
    BY GatewayAssumption
  <2>4. hits = [r \in Requests |-> hits[r]]
    BY DEF Init
  <2>5. QED
    BY <2>1, <2>2, <2>3, <2>4 DEF Init, TypeOK
<1>2. Sound(cache, recency)
  BY GatewayAssumption DEF Init, Sound, Distinct
<1>3. \A r \in Requests : DOMAIN hits[r] = {} /\ attempts[r] = 0
  BY DEF Init
<1>4. QED
  BY <1>1, <1>2, <1>3, GatewayAssumption DEF EmbeddingInv

\* get_batch keeps the invariant, whether or not it answers the batch.
LEMMA GetBatchStep ==
  ASSUME EmbeddingInv, NEW r \in Requests, GetBatch(r)
  PROVE  EmbeddingInv'
<1> DEFINE after == AfterLookUps(BatchOf[r])
           found == VectorsFound(r)
<1>1. after \in Shelves
  BY ShelfSound, AfterLookUpsSound, BatchType
<1>2. /\ Found(r) \subseteq DOMAIN BatchOf[r]
      /\ found \in [Found(r) -> Texts]
      /\ \A i \in Found(r) : KeyOf[found[i]] = KeyOf[BatchOf[r][i]]
  BY VectorsFoundFit
<1>3. /\ stage[r] = "new"
      /\ hits' = [hits EXCEPT ![r] = found]
      /\ cache' = after.entries /\ recency' = after.order
      /\ \/ /\ stage' = [stage EXCEPT ![r] = "answered"]
            /\ answer' = [answer EXCEPT ![r] = found]
            /\ Found(r) = DOMAIN BatchOf[r]
         \/ /\ stage' = [stage EXCEPT ![r] = "calling"]
            /\ UNCHANGED answer
      /\ UNCHANGED attempts
  BY DEF GetBatch
<1> HIDE DEF after, found
<1>4. cache' \in Seq(Entry) /\ recency' \in Seq(Keys) /\ Sound(cache', recency')
  BY <1>1, <1>3, ShelfParts
<1>5. /\ stage' \in [Requests -> {"new", "calling", "backoff", "answered", "error"}]
      /\ \A q \in Requests : stage'[q] # "error" => attempts'[q] <= RetryLimit
      /\ attempts' \in [Requests -> 0..RetryLimit + 1]
  <2>1. stage \in [Requests -> {"new", "calling", "backoff", "answered", "error"}]
    BY DEF EmbeddingInv, TypeOK
  <2>2. \A q \in Requests : stage'[q] = stage[q] \/ q = r
    BY <1>3, <2>1
  <2>3. QED
    BY <1>3, <2>1, <2>2 DEF EmbeddingInv, TypeOK
<1>6. answer' \in [Requests -> Seq(Texts \cup {NoVector})]
  <2>1. answer \in [Requests -> Seq(Texts \cup {NoVector})]
    BY DEF EmbeddingInv, TypeOK
  <2>2. CASE Found(r) = DOMAIN BatchOf[r]
    <3>1. found \in [1..Len(BatchOf[r]) -> Texts \cup {NoVector}] /\ Len(BatchOf[r]) \in Nat
      BY <1>2, <2>2, BatchType
    <3>2. found \in Seq(Texts \cup {NoVector})
      BY <3>1
    <3>3. QED
      BY <1>3, <2>1, <3>2
  <2>3. QED
    BY <1>3, <2>1, <2>2
<1>7. /\ hits' = [q \in Requests |-> hits'[q]]
      /\ \A q \in Requests :
           /\ DOMAIN hits'[q] \subseteq DOMAIN BatchOf[q]
           /\ hits'[q] \in [DOMAIN hits'[q] -> Texts]
           /\ \A i \in DOMAIN hits'[q] : KeyOf[hits'[q][i]] = KeyOf[BatchOf[q][i]]
  <2>1. hits = [q \in Requests |-> hits[q]]
    BY DEF EmbeddingInv, TypeOK
  <2>2. hits' = [q \in Requests |-> IF q = r THEN found ELSE hits[q]]
    BY <1>3, <2>1
  <2>3. DOMAIN found = Found(r)
    BY <1>2
  <2>4. QED
    BY <1>2, <2>2, <2>3 DEF EmbeddingInv, TypeOK
<1>8. QED
  BY <1>4, <1>5, <1>6, <1>7 DEF EmbeddingInv, TypeOK

\* The answer of the provider keeps the invariant, complete or not.
LEMMA ProviderAnswersStep ==
  ASSUME EmbeddingInv, NEW r \in Requests, ProviderAnswers(r)
  PROVE  EmbeddingInv'
<1>1. PICK last \in Missing(r) \cup {0} :
        /\ cache' = AfterStores(Len(BatchOf[r]), Fresh(r, last)).entries
        /\ recency' = AfterStores(Len(BatchOf[r]), Fresh(r, last)).order
        /\ answer' = [answer EXCEPT ![r] = Merge(r, last)]
  BY DEF ProviderAnswers
<1>2. AfterStores(Len(BatchOf[r]), Fresh(r, last)) \in Shelves
  <2>1. \A i \in DOMAIN Fresh(r, last) :
          Fresh(r, last)[i] \in Entry /\ KeyOf[Fresh(r, last)[i].vector] = Fresh(r, last)[i].key
    <3> TAKE i \in DOMAIN Fresh(r, last)
    <3>1. i \in DOMAIN BatchOf[r]
      BY DEF Fresh, Answered, Missing
    <3>2. Fresh(r, last)[i] = [key |-> KeyOf[BatchOf[r][i]], vector |-> BatchOf[r][i]]
      BY DEF Fresh
    <3>3. QED
      BY <3>1, <3>2, BatchType DEF Entry
  <2>2. QED
    BY <2>1, ShelfSound, AfterStoresSound, BatchType
<1>3. cache' \in Seq(Entry) /\ recency' \in Seq(Keys) /\ Sound(cache', recency')
  BY <1>1, <1>2, ShelfParts
<1>4. answer' \in [Requests -> Seq(Texts \cup {NoVector})]
  <2>1. answer \in [Requests -> Seq(Texts \cup {NoVector})] /\ Merge(r, last) \in Seq(Texts \cup {NoVector})
    BY MergeFits DEF EmbeddingInv, TypeOK
  <2>2. QED
    BY <1>1, <2>1
<1>5. /\ stage[r] = "calling"
      /\ stage' = [stage EXCEPT ![r] = "answered"]
      /\ UNCHANGED <<hits, attempts>>
  BY DEF ProviderAnswers
<1>6. /\ stage' \in [Requests -> {"new", "calling", "backoff", "answered", "error"}]
      /\ \A q \in Requests : stage'[q] # "error" => attempts'[q] <= RetryLimit
  <2>1. stage \in [Requests -> {"new", "calling", "backoff", "answered", "error"}]
    BY DEF EmbeddingInv, TypeOK
  <2>2. \A q \in Requests : stage'[q] = stage[q] \/ q = r
    BY <1>5, <2>1
  <2>3. QED
    BY <1>5, <2>1, <2>2 DEF EmbeddingInv
<1>7. QED
  BY <1>3, <1>4, <1>5, <1>6 DEF EmbeddingInv, TypeOK

\* A failed call and a new one leave the cache alone and count the attempt once.
LEMMA RetryStep ==
  ASSUME EmbeddingInv, NEW r \in Requests,
         TransientFails(r) \/ PermanentlyFails(r) \/ CallAgain(r)
  PROVE  EmbeddingInv'
<1>1. UNCHANGED <<cache, hits, answer, recency>> /\ stage[r] # "error"
  BY DEF TransientFails, PermanentlyFails, CallAgain, Kept
<1>2. /\ stage \in [Requests -> {"new", "calling", "backoff", "answered", "error"}]
      /\ attempts \in [Requests -> 0..RetryLimit + 1]
      /\ attempts[r] <= RetryLimit /\ attempts[r] \in Nat /\ RetryLimit \in Nat
      /\ \A q \in Requests : stage[q] # "error" => attempts[q] <= RetryLimit
  BY <1>1, GatewayAssumption DEF EmbeddingInv, TypeOK
<1>3. PICK st \in {"calling", "backoff", "error"}, n \in {attempts[r], attempts[r] + 1} :
        /\ stage' = [stage EXCEPT ![r] = st]
        /\ attempts' = [attempts EXCEPT ![r] = n]
        /\ st # "error" => n <= RetryLimit
  <2>1. CASE TransientFails(r)
    <3>1. /\ stage' = [stage EXCEPT ![r] = IF attempts[r] + 1 > RetryLimit THEN "error" ELSE "backoff"]
          /\ attempts' = [attempts EXCEPT ![r] = attempts[r] + 1]
      BY <2>1 DEF TransientFails
    <3>2. CASE attempts[r] + 1 > RetryLimit
      BY <3>1, <3>2
    <3>3. CASE ~(attempts[r] + 1 > RetryLimit)
      BY <1>2, <3>1, <3>3
    <3>4. QED
      BY <3>2, <3>3
  <2>2. CASE PermanentlyFails(r) \/ CallAgain(r)
    <3>1. attempts' = [attempts EXCEPT ![r] = attempts[r]]
      BY <1>2, <2>2 DEF PermanentlyFails, CallAgain
    <3>2. CASE PermanentlyFails(r)
      BY <3>1, <3>2 DEF PermanentlyFails
    <3>3. CASE CallAgain(r)
      BY <1>2, <3>1, <3>3 DEF CallAgain
    <3>4. QED
      BY <2>2, <3>2, <3>3
  <2>3. QED
    BY <2>1, <2>2
<1>4. n \in 0..RetryLimit + 1
  BY <1>2, <1>3
<1>5. /\ stage' \in [Requests -> {"new", "calling", "backoff", "answered", "error"}]
      /\ attempts' \in [Requests -> 0..RetryLimit + 1]
      /\ \A q \in Requests : stage'[q] # "error" => attempts'[q] <= RetryLimit
  <2>1. stage' \in [Requests -> {"new", "calling", "backoff", "answered", "error"}]
    BY <1>2, <1>3
  <2>2. attempts' \in [Requests -> 0..RetryLimit + 1]
    BY <1>2, <1>3, <1>4
  <2>3. ASSUME NEW q \in Requests, stage'[q] # "error" PROVE attempts'[q] <= RetryLimit
    <3>1. CASE q = r
      BY <1>2, <1>3, <2>3, <3>1
    <3>2. CASE q # r
      <4>1. stage'[q] = stage[q] /\ attempts'[q] = attempts[q]
        BY <1>2, <1>3, <3>2
      <4>2. QED
        BY <1>2, <2>3, <4>1
    <3>3. QED
      BY <3>1, <3>2
  <2>4. QED
    BY <2>1, <2>2, <2>3
<1>6. QED
  BY <1>1, <1>5 DEF EmbeddingInv, TypeOK

LEMMA EmbeddingInvStep == EmbeddingInv /\ [Next]_vars => EmbeddingInv'
<1> SUFFICES ASSUME EmbeddingInv, [Next]_vars PROVE EmbeddingInv'
  OBVIOUS
<1>1. ASSUME NEW r \in Requests, Serve(r) PROVE EmbeddingInv'
  BY <1>1, GetBatchStep, ProviderAnswersStep, RetryStep DEF Serve
<1>2. CASE UNCHANGED vars
  BY <1>2 DEF vars, EmbeddingInv, TypeOK
<1>3. QED
  BY <1>1, <1>2 DEF Next

\* Type correctness of the cache and of every batch.
THEOREM EmbeddingTypeCorrect == Spec => []TypeOK
<1>1. EmbeddingInv => TypeOK
  BY DEF EmbeddingInv
<1>2. QED
  BY <1>1, EmbeddingInvInit, EmbeddingInvStep, PTL DEF Spec

\* The cache holds the keys that were used last, for every capacity.
THEOREM KeepsMostRecentHolds == Spec => []KeepsMostRecent
<1>1. EmbeddingInv => KeepsMostRecent
  <2> SUFFICES ASSUME EmbeddingInv PROVE KeepsMostRecent
    OBVIOUS
  <2>1. cache \in Seq(Entry) /\ recency \in Seq(Keys) /\ Sound(cache, recency)
    BY DEF EmbeddingInv, TypeOK
  <2>2. /\ Len(cache) \in Nat /\ Len(recency) \in Nat /\ DOMAIN cache = 1..Len(cache)
        /\ Len(recency) - Len(cache) \in Nat /\ Len(cache) <= Len(recency)
    BY <2>1, SoundSizes
  <2>3. ASSUME NEW i \in DOMAIN cache, NEW j \in DOMAIN cache, cache[i].key = cache[j].key
        PROVE  i = j
    <3> DEFINE gap == Len(recency) - Len(cache)
    <3>1. recency[gap + i] = recency[gap + j]
      BY <2>1, <2>2, <2>3 DEF Sound
    <3> HIDE DEF gap
    <3>2. gap + i \in 1..Len(recency) /\ gap + j \in 1..Len(recency)
      BY <2>2 DEF gap
    <3>3. gap + i = gap + j
      BY <2>1, <3>1, <3>2 DEF Sound, Distinct
    <3>4. QED
      BY <2>2, <3>3 DEF gap
  <2>4. QED
    BY <2>1, <2>2, <2>3 DEF KeepsMostRecent, Sound
<1>2. QED
  BY <1>1, EmbeddingInvInit, EmbeddingInvStep, PTL DEF Spec

\* No entry ever holds a vector of another key.
THEOREM EntriesFitTheirKeysHolds == Spec => []EntriesFitTheirKeys
<1>1. EmbeddingInv => EntriesFitTheirKeys
  <2> SUFFICES ASSUME EmbeddingInv PROVE EntriesFitTheirKeys
    OBVIOUS
  <2>1. DOMAIN cache = 1..Len(cache)
    BY DEF EmbeddingInv, TypeOK
  <2>2. QED
    BY <2>1 DEF EmbeddingInv, Sound, EntriesFitTheirKeys
<1>2. QED
  BY <1>1, EmbeddingInvInit, EmbeddingInvStep, PTL DEF Spec

-----------------------------------------------------------------------------
(***************************************************************************)
(* embed_batch implements EmbeddingSpec                                    *)
(***************************************************************************)

\* What a caller sees of a request.
Seen(st) == IF st \in {"answered", "error"} THEN st ELSE "pending"

LEMMA RefineInit == Init => Abstract!Init
  BY DEF Init, Abstract!Init

\* A step that answers a pending request with vectors that fit is one of the
\* abstract service.
LEMMA AnswerRefines ==
  ASSUME EmbeddingInv, NEW r \in Requests, stage[r] \notin {"answered", "error"}, NEW vs,
         stage' = [stage EXCEPT ![r] = "answered"],
         answer' = [answer EXCEPT ![r] = vs],
         Len(vs) = Len(BatchOf[r]),
         \A i \in 1..Len(BatchOf[r]) :
            vs[i] = NoVector \/ (vs[i] \in Texts /\ KeyOf[vs[i]] = KeyOf[BatchOf[r][i]])
  PROVE  Abstract!Return(r)
<1>1. /\ stage \in [Requests -> {"new", "calling", "backoff", "answered", "error"}]
      /\ answer \in [Requests -> Seq(Texts \cup {NoVector})]
  BY DEF EmbeddingInv, TypeOK
<1>2. answer'[r] = vs /\ \A q \in Requests \ {r} : answer'[q] = answer[q]
  BY <1>1
<1>3. Abstract!Fits(answer'[r], BatchOf[r])
  BY <1>2 DEF Abstract!Fits, Abstract!FitsText
<1>4. [q \in Requests |-> IF stage'[q] \in {"answered", "error"} THEN stage'[q] ELSE "pending"]
        = [[q \in Requests |-> IF stage[q] \in {"answered", "error"} THEN stage[q] ELSE "pending"]
             EXCEPT ![r] = "answered"]
  BY <1>1
<1>5. QED
  BY <1>2, <1>3, <1>4 DEF Abstract!Return

\* Every step of a request is one of the abstract service, or none at all.
LEMMA RefineStep == EmbeddingInv /\ [Next]_vars => [Abstract!Next]_Abstract!vars
<1> SUFFICES ASSUME EmbeddingInv, [Next]_vars PROVE [Abstract!Next]_Abstract!vars
  OBVIOUS
<1>1. stage \in [Requests -> {"new", "calling", "backoff", "answered", "error"}]
  BY DEF EmbeddingInv, TypeOK
<1>2. ASSUME NEW r \in Requests, GetBatch(r) PROVE [Abstract!Next]_Abstract!vars
  <2>1. CASE Found(r) = DOMAIN BatchOf[r]
    <3>1. /\ stage[r] \notin {"answered", "error"}
          /\ stage' = [stage EXCEPT ![r] = "answered"]
          /\ answer' = [answer EXCEPT ![r] = VectorsFound(r)]
      BY <1>2, <2>1 DEF GetBatch
    <3>2. /\ VectorsFound(r) \in [1..Len(BatchOf[r]) -> Texts]
          /\ Len(VectorsFound(r)) = Len(BatchOf[r])
          /\ \A i \in 1..Len(BatchOf[r]) :
               VectorsFound(r)[i] \in Texts /\ KeyOf[VectorsFound(r)[i]] = KeyOf[BatchOf[r][i]]
      BY <2>1, VectorsFoundFit, BatchType
    <3>3. Abstract!Return(r)
      BY <3>1, <3>2, AnswerRefines
    <3>4. QED
      BY <3>3 DEF Abstract!Next
  <2>2. CASE Found(r) # DOMAIN BatchOf[r]
    <3>1. stage[r] = "new" /\ stage' = [stage EXCEPT ![r] = "calling"] /\ answer' = answer
      BY <1>2, <2>2 DEF GetBatch
    <3>2. \A q \in Requests : Seen(stage'[q]) = Seen(stage[q])
      BY <1>1, <3>1 DEF Seen
    <3>3. QED
      BY <3>1, <3>2 DEF Abstract!vars, Seen
  <2>3. QED
    BY <2>1, <2>2
<1>3. ASSUME NEW r \in Requests, ProviderAnswers(r) PROVE [Abstract!Next]_Abstract!vars
  <2>1. PICK last : answer' = [answer EXCEPT ![r] = Merge(r, last)]
    BY <1>3 DEF ProviderAnswers
  <2>2. stage[r] \notin {"answered", "error"} /\ stage' = [stage EXCEPT ![r] = "answered"]
    BY <1>3 DEF ProviderAnswers
  <2>3. Abstract!Return(r)
    BY <2>1, <2>2, MergeFits, AnswerRefines
  <2>4. QED
    BY <2>3 DEF Abstract!Next
<1>4. ASSUME NEW r \in Requests, TransientFails(r) \/ PermanentlyFails(r) \/ CallAgain(r)
      PROVE  [Abstract!Next]_Abstract!vars
  <2>1. /\ stage[r] \in {"calling", "backoff"} /\ UNCHANGED answer
        /\ \/ stage' = [stage EXCEPT ![r] = "error"]
           \/ stage' = [stage EXCEPT ![r] = "backoff"]
           \/ stage' = [stage EXCEPT ![r] = "calling"]
    <3>1. CASE TransientFails(r)
      BY <3>1 DEF TransientFails, Kept
    <3>2. CASE PermanentlyFails(r) \/ CallAgain(r)
      BY <3>2 DEF PermanentlyFails, CallAgain, Kept
    <3>3. QED
      BY <1>4, <3>1, <3>2
  <2>2. CASE stage' = [stage EXCEPT ![r] = "error"]
    <3>1. [q \in Requests |-> IF stage'[q] \in {"answered", "error"} THEN stage'[q] ELSE "pending"]
            = [[q \in Requests |-> IF stage[q] \in {"answered", "error"} THEN stage[q] ELSE "pending"]
                 EXCEPT ![r] = "error"]
      BY <1>1, <2>2
    <3>2. Abstract!Raise(r)
      BY <2>1, <3>1 DEF Abstract!Raise
    <3>3. QED
      BY <3>2 DEF Abstract!Next
  <2>3. CASE stage' # [stage EXCEPT ![r] = "error"]
    <3>1. \A q \in Requests : Seen(stage'[q]) = Seen(stage[q])
      BY <1>1, <2>1, <2>3 DEF Seen
    <3>2. QED
      BY <2>1, <3>1 DEF Abstract!vars, Seen
  <2>4. QED
    BY <2>2, <2>3
<1>5. CASE UNCHANGED vars
  BY <1>5 DEF vars, Abstract!vars
<1>6. QED
  BY <1>2, <1>3, <1>4, <1>5 DEF Next, Serve

\* embed_batch implements the abstract service, for any batches, any capacity of
\* the cache and any number of retries: whatever is interleaved, a batch is
\* answered once, with a vector of the right text in every place, or fails.
THEOREM ImplementsEmbeddingHolds == Spec => ImplementsEmbedding
  BY RefineInit, RefineStep, EmbeddingInvInit, EmbeddingInvStep, PTL
     DEF Spec, ImplementsEmbedding, Abstract!SafeSpec

-----------------------------------------------------------------------------
(***************************************************************************)
(* Requests to a language model: what is retried and what is forwarded     *)
(***************************************************************************)

\* Until a request is over its calls are failed attempts, counted one by one; a
\* stream has none.
RetryInv ==
    /\ phase # "over" =>
         /\ Len(calls) = attempt /\ attempt <= MaxRetries
         /\ \A i \in 1..Len(calls) : calls[i] \in Transient
         /\ job.mode = "stream" \/ phase \in {"begin", "ready"} => attempt = 0
    /\ OnlyTransientFailuresAreRetried

\* The pieces of a response as they were read, then its finish reason.
Reading ==
    IF read <= MaxParts
    THEN Len(out) = read /\ \A i \in 1..read : out[i] = Chunk(i)
    ELSE /\ Len(out) >= 1 /\ out[Len(out)] = Event("finish")
         /\ \A i \in 1..(Len(out) - 1) : out[i] = Chunk(i)

\* Nothing is handed on before a response is read, and then what was read of it.
ForwardInv ==
    /\ phase \in {"streaming", "sending", "orphaned"} => job.mode = "stream" /\ Reading
    /\ phase = "waiting" => job.mode # "stream"
    /\ phase \in {"begin", "ready", "calling", "waiting"} => out = <<>> /\ read = 0
    /\ StreamForwardsOnce

LlmInv == LlmTypeOK /\ RetryInv /\ ForwardInv

Outcomes == {"ok"} \cup Failures
Events == [kind : {"text", "finish", "answer", "done"} \cup Failures, n : 0..MaxParts]

\* The types that the steps below share.
LEMMA LlmTypes ==
  ASSUME LlmTypeOK
  PROVE  /\ calls \in Seq(Outcomes) /\ Len(calls) \in Nat /\ DOMAIN calls = 1..Len(calls)
         /\ out \in Seq(Events) /\ Len(out) \in Nat /\ DOMAIN out = 1..Len(out)
         /\ attempt \in 0..(MaxRetries + 1) /\ MaxRetries \in Nat
         /\ read \in 0..(MaxParts + 1) /\ MaxParts \in Nat \ {0}
<1>1. calls \in Seq(Outcomes) /\ out \in Seq(Events)
  BY DEF LlmTypeOK, Outcomes, Events
<1>2. QED
  BY <1>1, BoundsAssumption DEF LlmTypeOK

LEMMA EventType ==
  /\ \A k \in {"text", "finish", "answer", "done"} \cup Failures : Event(k) \in Events
  /\ \A m \in 1..MaxParts : Chunk(m) \in Events
  /\ \A k : Event(k).kind = k /\ Event(k).n = 0
  /\ \A m : Chunk(m).kind = "text" /\ Chunk(m).n = m
  BY BoundsAssumption DEF Event, Chunk, Events

\* A request ends with one more outcome and one more event, which agree.
LEMMA EndsAsReported ==
  ASSUME LlmTypeOK, RetryInv, phase # "over", NEW o \in Outcomes,
         NEW k \in {"answer", "done"} \cup Failures,
         calls' = Append(calls, o), out' = Append(out, Event(k)), job' = job,
         k \in Failures => k = o,
         k \in {"answer", "done"} => o = "ok",
         k \in Transient /\ job.mode # "stream" => attempt + 1 > MaxRetries
  PROVE  OnlyTransientFailuresAreRetried'
<1>1. /\ calls \in Seq(Outcomes) /\ Len(calls) \in Nat /\ out \in Seq(Events) /\ Len(out) \in Nat
      /\ attempt \in 0..(MaxRetries + 1) /\ MaxRetries \in Nat
  BY LlmTypes
<1>2. /\ Len(calls) = attempt /\ attempt <= MaxRetries
      /\ \A i \in 1..Len(calls) : calls[i] \in Transient
      /\ job.mode = "stream" => attempt = 0
  BY DEF RetryInv
<1>3. /\ calls' \in Seq(Outcomes) /\ Len(calls') = Len(calls) + 1
      /\ \A i \in 1..Len(calls) : calls'[i] = calls[i]
      /\ calls'[Len(calls) + 1] = o
  BY <1>1, AppendProperties
<1>4. /\ out' \in Seq(Events) /\ Len(out') = Len(out) + 1
      /\ out'[Len(out) + 1] = Event(k)
  BY <1>1, EventType, AppendProperties
<1>5. DOMAIN calls' = 1..Len(calls') /\ Last(calls') = o /\ Last(out').kind = k
  BY <1>3, <1>4, EventType DEF Last
<1>6. \A i \in DOMAIN calls' : i < Len(calls') => calls'[i] \in Transient
  <2> TAKE i \in DOMAIN calls'
  <2> HAVE i < Len(calls')
  <2>1. i \in 1..Len(calls)
    BY <1>1, <1>3, <1>5
  <2>2. QED
    BY <1>2, <1>3, <2>1
<1>7. Len(calls') = attempt + 1
  BY <1>2, <1>3
<1>8. /\ Len(calls') <= MaxRetries + 1
      /\ job.mode = "stream" => Len(calls') <= 1
      /\ k \in Transient /\ job.mode # "stream" => Len(calls') = MaxRetries + 1
  BY <1>1, <1>2, <1>7
<1>9. QED
  BY <1>5, <1>6, <1>8 DEF OnlyTransientFailuresAreRetried

\* All but the last event are pieces in order, and the last is one or the finish reason.
LEMMA ReadingShape ==
  ASSUME LlmTypeOK, Reading
  PROVE  /\ \A i \in 1..Len(out) : i < Len(out) => out[i] = Chunk(i)
         /\ \A i \in 1..Len(out) : out[i] = Chunk(i) \/ out[i] = Event("finish")
<1>1. Len(out) \in Nat
  BY LlmTypes
<1>2. CASE read <= MaxParts
  <2>1. Len(out) = read /\ \A i \in 1..read : out[i] = Chunk(i)
    BY <1>2 DEF Reading
  <2>2. \A i \in 1..Len(out) : out[i] = Chunk(i)
    BY <2>1
  <2>3. QED
    BY <2>2
<1>3. CASE ~(read <= MaxParts)
  <2>1. out[Len(out)] = Event("finish") /\ \A i \in 1..(Len(out) - 1) : out[i] = Chunk(i)
    BY <1>3 DEF Reading
  <2>2. \A i \in 1..Len(out) : i \in 1..(Len(out) - 1) \/ (i = Len(out) /\ ~(i < Len(out)))
    BY <1>1
  <2>3. QED
    BY <2>1, <2>2
<1>4. QED
  BY <1>2, <1>3

\* What was read is what a client may see, with the event that ends it or without.
LEMMA ReadingForwards ==
  LlmTypeOK /\ Reading => StreamForwardsOnce
<1> SUFFICES ASSUME LlmTypeOK, Reading PROVE StreamForwardsOnce
  OBVIOUS
<1>1. out \in Seq(Events) /\ Len(out) \in Nat /\ DOMAIN out = 1..Len(out) /\ read \in Nat /\ MaxParts \in Nat
  BY LlmTypes
<1>2. \A i \in 1..Len(out) : i < Len(out) => out[i] = Chunk(i)
  BY ReadingShape
<1>3. \A i \in 1..Len(out) : out[i] = Chunk(i) \/ out[i] = Event("finish")
  BY ReadingShape
<1>4. QED
  BY <1>1, <1>2, <1>3, EventType DEF StreamForwardsOnce

LEMMA EndForwards ==
  ASSUME LlmTypeOK, Reading, NEW k \in {"answer", "done"} \cup Failures, out' = Append(out, Event(k))
  PROVE  StreamForwardsOnce'
<1>1. out \in Seq(Events) /\ Len(out) \in Nat /\ DOMAIN out = 1..Len(out) /\ read \in Nat /\ MaxParts \in Nat
  BY LlmTypes
<1>2. \A i \in 1..Len(out) : i < Len(out) => out[i] = Chunk(i)
  BY ReadingShape
<1>3. \A i \in 1..Len(out) : out[i] = Chunk(i) \/ out[i] = Event("finish")
  BY ReadingShape
<1>4. /\ out' \in Seq(Events) /\ Len(out') = Len(out) + 1 /\ DOMAIN out' = 1..(Len(out) + 1)
      /\ \A i \in 1..Len(out) : out'[i] = out[i]
      /\ out'[Len(out) + 1] = Event(k)
  <2>1. Event(k) \in Events
    BY EventType
  <2>2. QED
    BY <1>1, <2>1, AppendProperties
<1>5. k \notin {"text", "finish"}
  BY DEF Failures, Transient, Permanent
<1>6. \A i \in 1..(Len(out) + 1) :
        /\ out'[i].kind = "text" => out'[i].n = i
        /\ i < Len(out) + 1 => out'[i].kind \in {"text", "finish"}
        /\ i < Len(out) => out'[i].kind = "text"
  <2> TAKE i \in 1..(Len(out) + 1)
  <2>1. CASE i \in 1..Len(out)
    BY <1>1, <1>2, <1>3, <1>4, <2>1, EventType
  <2>2. CASE i = Len(out) + 1
    BY <1>1, <1>4, <1>5, <2>2, EventType
  <2>3. QED
    BY <1>1, <2>1, <2>2
<1>7. \A i, j \in 1..(Len(out) + 1) :
        i < j /\ out'[i].kind = "finish" => out'[j].kind \notin {"text", "finish"}
  <2> SUFFICES ASSUME NEW i \in 1..(Len(out) + 1), NEW j \in 1..(Len(out) + 1),
                      i < j, out'[i].kind = "finish"
               PROVE  out'[j].kind \notin {"text", "finish"}
    OBVIOUS
  <2>1. ~(i < Len(out)) /\ i < Len(out) + 1
    BY <1>1, <1>6
  <2>2. j = Len(out) + 1
    BY <1>1, <2>1
  <2>3. QED
    BY <1>4, <1>5, <2>2, EventType
<1>8. QED
  BY <1>4, <1>6, <1>7 DEF StreamForwardsOnce

LEMMA LlmInvInit == LlmInit => LlmInv
<1> SUFFICES ASSUME LlmInit PROVE LlmInv
  OBVIOUS
<1>1. /\ calls = <<>> /\ out = <<>> /\ phase = "begin" /\ attempt = 0 /\ read = 0
      /\ provider = "none" /\ client = "closed" /\ job \in Jobs
  BY DEF LlmInit
<1>2. LlmTypeOK
  BY <1>1, BoundsAssumption DEF LlmTypeOK
<1>3. RetryInv
  BY <1>1, BoundsAssumption DEF RetryInv, OnlyTransientFailuresAreRetried
<1>4. ForwardInv
  BY <1>1 DEF ForwardInv, StreamForwardsOnce
<1>5. QED
  BY <1>2, <1>3, <1>4 DEF LlmInv

\* Choosing the provider and making a call hand nothing on, unless there is none.
LEMMA CallStep == LlmInv /\ (Resolve \/ Call) => LlmInv'
<1> SUFFICES ASSUME LlmInv, Resolve \/ Call PROVE LlmInv'
  OBVIOUS
<1> USE DEF LlmInv
<1>1. CASE Call
  <2>1. /\ phase \in {"ready", "waiting"} /\ phase' = "calling" /\ read' = 0
        /\ client' \in {"closed", "open"}
        /\ UNCHANGED <<job, provider, attempt, calls, out>>
    BY <1>1 DEF Call
  <2>2. LlmTypeOK'
    BY <2>1, BoundsAssumption DEF LlmTypeOK
  <2>3. RetryInv'
    BY <2>1 DEF RetryInv, OnlyTransientFailuresAreRetried
  <2>4. ForwardInv'
    BY <2>1 DEF ForwardInv, StreamForwardsOnce
  <2>5. QED
    BY <2>2, <2>3, <2>4
<1>2. CASE Resolve
  <2>1. /\ phase = "begin"
        /\ \/ phase' = "over" /\ out' = <<Event("unresolved")>> /\ UNCHANGED provider
           \/ provider' \in Vendors \cup {"mock"} /\ phase' = "ready" /\ UNCHANGED out
        /\ UNCHANGED <<job, body, attempt, calls, client, read>>
    BY <1>2 DEF Resolve
  <2>2. out = <<>> /\ Len(calls) = 0 /\ calls = <<>>
    BY <2>1, LlmTypes DEF ForwardInv, RetryInv
  <2>3. out' \in Seq(Events)
    <3>1. Event("unresolved") \in Events
      BY EventType DEF Failures
    <3>2. <<Event("unresolved")>> \in Seq(Events)
      BY <3>1
    <3>3. QED
      BY <2>1, <3>2, LlmTypes
  <2>4. LlmTypeOK'
    BY <2>1, <2>3 DEF LlmTypeOK, Events
  <2>5. RetryInv'
    BY <2>1, <2>2 DEF RetryInv, OnlyTransientFailuresAreRetried
  <2>6. ForwardInv'
    <3>1. CASE phase' = "ready"
      BY <2>1, <2>2, <3>1 DEF ForwardInv, StreamForwardsOnce
    <3>2. CASE phase' = "over"
      <4>1. out' = <<Event("unresolved")>>
        BY <2>1, <3>2
      <4>2. Len(out') = 1 /\ DOMAIN out' = 1..1 /\ out'[1].kind = "unresolved"
        BY <4>1, EventType
      <4>3. StreamForwardsOnce'
        BY <4>2 DEF StreamForwardsOnce
      <4>4. QED
        BY <3>2, <4>3 DEF ForwardInv
    <3>3. QED
      BY <2>1, <3>1, <3>2
  <2>7. QED
    BY <2>4, <2>5, <2>6
<1>3. QED
  BY <1>1, <1>2

\* The step that ends a request, whatever ends it.
LEMMA RequestOver ==
  ASSUME LlmInv, phase # "over", NEW o \in Outcomes, NEW k \in {"answer", "done"} \cup Failures,
         calls' = Append(calls, o), out' = Append(out, Event(k)), phase' = "over",
         client' = "closed", UNCHANGED <<job, provider, body, read>>,
         attempt' \in {attempt, attempt + 1},
         k \in Failures => k = o,
         k \in {"answer", "done"} => o = "ok",
         k \in Transient /\ job.mode # "stream" => attempt + 1 > MaxRetries,
         StreamForwardsOnce'
  PROVE  LlmInv'
<1> USE DEF LlmInv
<1>1. /\ calls \in Seq(Outcomes) /\ out \in Seq(Events)
      /\ attempt \in 0..(MaxRetries + 1) /\ MaxRetries \in Nat
  BY LlmTypes
<1>2. attempt <= MaxRetries
  BY DEF RetryInv
<1>3. attempt' \in 0..(MaxRetries + 1)
  BY <1>1, <1>2
<1>4. Event(k) \in Events
  BY EventType
<1>5. calls' \in Seq(Outcomes) /\ out' \in Seq(Events)
  BY <1>1, <1>4, AppendProperties
<1>6. LlmTypeOK'
  BY <1>3, <1>5 DEF LlmTypeOK, Outcomes, Events
<1>7. OnlyTransientFailuresAreRetried'
  BY EndsAsReported
<1>8. QED
  BY <1>6, <1>7 DEF RetryInv, ForwardInv

LEMMA SucceedStep == LlmInv /\ Succeed => LlmInv'
<1> SUFFICES ASSUME LlmInv, Succeed PROVE LlmInv'
  OBVIOUS
<1>1. /\ job.mode # "stream" /\ phase = "calling" /\ calls' = Append(calls, "ok")
      /\ client' = "closed" /\ UNCHANGED <<job, provider, body, read>>
      /\ phase' = "over" /\ out' = Append(out, Event("answer")) /\ attempt' = attempt
  BY DEF Succeed, CallEnds, HandOn
<1>2. "ok" \in Outcomes /\ "answer" \notin Failures /\ "answer" \notin Transient
  BY DEF Outcomes, Failures, Transient, Permanent
<1>3. StreamForwardsOnce'
  BY <1>1 DEF StreamForwardsOnce
<1>4. QED
  BY <1>1, <1>2, <1>3, RequestOver

LEMMA FailPermanentStep ==
  ASSUME NEW o \in Permanent, LlmInv, FailPermanent(o)
  PROVE  LlmInv'
<1>1. /\ job.mode # "stream" /\ phase = "calling" /\ calls' = Append(calls, o)
      /\ client' = "closed" /\ UNCHANGED <<job, provider, body, read>>
      /\ phase' = "over" /\ out' = Append(out, Event(o)) /\ attempt' = attempt
  BY DEF FailPermanent, CallEnds, HandOn
<1>2. o \in Outcomes /\ o \in Failures /\ o \notin {"answer", "done"} /\ o \notin Transient
  BY DEF Outcomes, Failures, Permanent, Transient
<1>3. StreamForwardsOnce'
  BY <1>1 DEF StreamForwardsOnce
<1>4. QED
  BY <1>1, <1>2, <1>3, RequestOver

\* A failure that may pass: the last attempt ends the request, another one is counted.
LEMMA FailTransientStep ==
  ASSUME NEW o \in Transient, LlmInv, FailTransient(o)
  PROVE  LlmInv'
<1>1. /\ job.mode # "stream" /\ phase = "calling" /\ calls' = Append(calls, o)
      /\ client' = "closed" /\ UNCHANGED <<job, provider, body, read>> /\ attempt' = attempt + 1
  BY DEF FailTransient, CallEnds
<1>2. o \in Outcomes /\ o \in Failures /\ o \notin {"answer", "done"}
  BY DEF Outcomes, Failures, Transient
<1>3. CASE attempt + 1 > MaxRetries /\ HandOn(o)
  <2>1. StreamForwardsOnce'
    BY <1>1 DEF StreamForwardsOnce
  <2>2. QED
    BY <1>1, <1>2, <1>3, <2>1, RequestOver DEF HandOn
<1>4. CASE attempt + 1 <= MaxRetries /\ phase' = "waiting" /\ UNCHANGED out
  <2> USE DEF LlmInv
  <2>1. /\ calls \in Seq(Outcomes) /\ Len(calls) \in Nat
        /\ attempt \in 0..(MaxRetries + 1) /\ MaxRetries \in Nat
    BY LlmTypes
  <2>2. /\ Len(calls) = attempt /\ \A i \in 1..Len(calls) : calls[i] \in Transient
    BY <1>1 DEF RetryInv
  <2>3. /\ calls' \in Seq(Outcomes) /\ Len(calls') = attempt + 1 /\ DOMAIN calls' = 1..(attempt + 1)
        /\ \A i \in 1..attempt : calls'[i] = calls[i]
        /\ calls'[attempt + 1] = o
    BY <1>1, <1>2, <2>1, <2>2, AppendProperties
  <2>4. \A i \in 1..(attempt + 1) : calls'[i] \in Transient
    BY <2>1, <2>2, <2>3
  <2>5. LlmTypeOK'
    BY <1>1, <1>4, <2>1, <2>3 DEF LlmTypeOK, Outcomes
  <2>6. RetryInv'
    BY <1>1, <1>4, <2>1, <2>3, <2>4 DEF RetryInv, OnlyTransientFailuresAreRetried
  <2>7. ForwardInv'
    BY <1>1, <1>4 DEF ForwardInv, StreamForwardsOnce
  <2>8. QED
    BY <2>5, <2>6, <2>7
<1>5. QED
  BY <1>3, <1>4 DEF FailTransient

\* Streams that have not been read have read nothing.
LEMMA NothingRead == LlmInv /\ phase = "calling" => Reading
<1> SUFFICES ASSUME LlmInv, phase = "calling" PROVE Reading
  OBVIOUS
<1>1. out = <<>> /\ read = 0 /\ 0 <= MaxParts
  BY BoundsAssumption DEF LlmInv, ForwardInv
<1>2. QED
  BY <1>1 DEF Reading

LEMMA StreamFailsStep ==
  ASSUME NEW o \in Transient \cup Permanent, LlmInv, StreamFails(o)
  PROVE  LlmInv'
<1>1. /\ job.mode = "stream" /\ phase \in {"calling", "streaming"} /\ calls' = Append(calls, o)
      /\ client' = "closed" /\ UNCHANGED <<job, provider, body, attempt, read>>
      /\ phase' = "over" /\ out' = Append(out, Event(o))
  BY DEF StreamFails, HandOn
<1>2. o \in Outcomes /\ o \in Failures /\ o \notin {"answer", "done"}
  BY DEF Outcomes, Failures, Permanent, Transient
<1>3. LlmTypeOK /\ Reading
  BY <1>1, NothingRead DEF LlmInv, ForwardInv
<1>4. StreamForwardsOnce'
  BY <1>1, <1>2, <1>3, EndForwards
<1>5. QED
  BY <1>1, <1>2, <1>4, RequestOver

LEMMA StreamEndsStep == LlmInv /\ StreamEnds => LlmInv'
<1> SUFFICES ASSUME LlmInv, StreamEnds PROVE LlmInv'
  OBVIOUS
<1>1. /\ phase = "streaming" /\ calls' = Append(calls, "ok")
      /\ client' = "closed" /\ UNCHANGED <<job, provider, body, attempt, read>>
      /\ phase' = "over" /\ out' = Append(out, Event("done"))
  BY DEF StreamEnds, HandOn
<1>2. "ok" \in Outcomes /\ "done" \notin Failures /\ "done" \notin Transient
  BY DEF Outcomes, Failures, Transient, Permanent
<1>3. LlmTypeOK /\ Reading
  BY <1>1 DEF LlmInv, ForwardInv
<1>4. StreamForwardsOnce'
  BY <1>1, <1>3, EndForwards
<1>5. QED
  BY <1>1, <1>2, <1>4, RequestOver

LEMMA OpenStreamStep == LlmInv /\ (OpenStream \/ ChunkSent) => LlmInv'
<1> SUFFICES ASSUME LlmInv, OpenStream \/ ChunkSent PROVE LlmInv'
  OBVIOUS
<1>1. /\ job.mode = "stream" /\ phase \in {"calling", "sending"} /\ phase' = "streaming"
      /\ UNCHANGED <<job, provider, body, attempt, calls, client, read, out>>
  BY DEF OpenStream, ChunkSent, LlmInv, ForwardInv
<1>2. Reading
  BY <1>1, NothingRead DEF LlmInv, ForwardInv
<1>3. LlmTypeOK'
  BY <1>1 DEF LlmInv, LlmTypeOK
<1>4. RetryInv'
  BY <1>1 DEF LlmInv, RetryInv, OnlyTransientFailuresAreRetried
<1>5. ForwardInv'
  BY <1>1, <1>2 DEF LlmInv, ForwardInv, StreamForwardsOnce, Reading
<1>6. QED
  BY <1>3, <1>4, <1>5 DEF LlmInv

\* Reading on: a piece, the finish reason, or both.
LEMMA ReadChunkStep == LlmInv /\ ReadChunk => LlmInv'
<1> SUFFICES ASSUME LlmInv, ReadChunk PROVE LlmInv'
  OBVIOUS
<1>1. /\ job.mode = "stream" /\ phase = "streaming" /\ phase' = "sending" /\ read <= MaxParts
      /\ UNCHANGED <<job, provider, body, attempt, calls, client>>
  BY DEF ReadChunk, LlmInv, ForwardInv
<1>2. LlmTypeOK /\ Reading
  BY <1>1 DEF LlmInv, ForwardInv
<1>3. /\ out \in Seq(Events) /\ read \in Nat /\ MaxParts \in Nat \ {0}
      /\ Len(out) = read /\ \A i \in 1..read : out[i] = Chunk(i)
  BY <1>1, <1>2, LlmTypes DEF Reading
<1>4. Event("finish") \in Events /\ (read + 1 \in 1..MaxParts => Chunk(read + 1) \in Events)
  BY EventType
<1>5. read' \in 0..(MaxParts + 1) /\ out' \in Seq(Events) /\ Reading'
  <2>1. CASE read + 1 <= MaxParts /\ read' = read + 1 /\ out' = Append(out, Chunk(read + 1))
    <3>1. /\ out' \in Seq(Events) /\ Len(out') = read + 1
          /\ \A i \in 1..read : out'[i] = out[i]
          /\ out'[read + 1] = Chunk(read + 1)
      BY <1>3, <1>4, <2>1, AppendProperties
    <3>2. \A i \in 1..(read + 1) : out'[i] = Chunk(i)
      BY <1>3, <3>1
    <3>3. QED
      BY <1>3, <2>1, <3>1, <3>2 DEF Reading
  <2>2. CASE read' = MaxParts + 1 /\ out' = Append(out, Event("finish"))
    <3>1. /\ out' \in Seq(Events) /\ Len(out') = read + 1
          /\ \A i \in 1..read : out'[i] = out[i]
          /\ out'[read + 1] = Event("finish")
      BY <1>3, <1>4, <2>2, AppendProperties
    <3>2. Len(out') >= 1 /\ out'[Len(out')] = Event("finish") /\ ~(read' <= MaxParts)
      BY <1>3, <2>2, <3>1
    <3>3. \A i \in 1..(Len(out') - 1) : out'[i] = Chunk(i)
      BY <1>3, <3>1
    <3>4. QED
      BY <1>3, <2>2, <3>1, <3>2, <3>3 DEF Reading
  <2>3. CASE /\ read < MaxParts /\ read' = MaxParts + 1
             /\ out' = out \o <<Chunk(read + 1), Event("finish")>>
    <3> DEFINE both == <<Chunk(read + 1), Event("finish")>>
    <3>1. both \in Seq(Events) /\ Len(both) = 2 /\ both[1] = Chunk(read + 1) /\ both[2] = Event("finish")
      BY <1>3, <1>4, <2>3
    <3>2. /\ out' \in Seq(Events) /\ Len(out') = read + 2
          /\ \A i \in 1..read : out'[i] = out[i]
          /\ out'[read + 1] = Chunk(read + 1) /\ out'[read + 2] = Event("finish")
      <4>1. out' = out \o both
        BY <2>3
      <4> HIDE DEF both
      <4>2. /\ out' \in Seq(Events) /\ Len(out') = read + 2
            /\ \A i \in 1..(read + 2) : out'[i] = IF i <= read THEN out[i] ELSE both[i - read]
        <5>1. /\ out \o both \in Seq(Events) /\ Len(out \o both) = Len(out) + Len(both)
              /\ \A i \in 1..(Len(out) + Len(both)) :
                   (out \o both)[i] = IF i <= Len(out) THEN out[i] ELSE both[i - Len(out)]
          BY <1>3, <3>1, ConcatProperties
        <5>2. QED
          BY <1>3, <3>1, <4>1, <5>1
      <4>3. (read + 1) - read = 1 /\ (read + 2) - read = 2
        BY <1>3
      <4>4. out'[read + 1] = both[1] /\ out'[read + 2] = both[2]
        BY <1>3, <4>2, <4>3
      <4>5. QED
        BY <1>3, <3>1, <4>2, <4>4
    <3>3. Len(out') >= 1 /\ out'[Len(out')] = Event("finish") /\ ~(read' <= MaxParts)
      BY <1>3, <2>3, <3>2
    <3>4. \A i \in 1..(Len(out') - 1) : out'[i] = Chunk(i)
      BY <1>3, <3>2
    <3>5. QED
      BY <1>3, <2>3, <3>2, <3>3, <3>4 DEF Reading
  <2>4. QED
    <3>1. \/ /\ read + (IF provider = "mock" THEN 1 ELSE 0) < MaxParts
             /\ read' = read + 1 /\ out' = Append(out, Chunk(read + 1))
          \/ read' = MaxParts + 1 /\ out' = Append(out, Event("finish"))
          \/ /\ read < MaxParts /\ read' = MaxParts + 1
             /\ out' = out \o <<Chunk(read + 1), Event("finish")>>
      BY DEF ReadChunk
    <3>2. read + (IF provider = "mock" THEN 1 ELSE 0) < MaxParts => read + 1 <= MaxParts
      BY <1>3
    <3>3. QED
      BY <2>1, <2>2, <2>3, <3>1, <3>2
<1>6. LlmTypeOK'
  BY <1>1, <1>2, <1>5 DEF LlmTypeOK, Events
<1>7. StreamForwardsOnce'
  <2>1. LlmTypeOK' /\ Reading' => StreamForwardsOnce'
    BY ReadingForwards, PTL
  <2>2. QED
    BY <1>5, <1>6, <2>1
<1>8. RetryInv'
  BY <1>1 DEF LlmInv, RetryInv, OnlyTransientFailuresAreRetried
<1>9. QED
  BY <1>1, <1>5, <1>6, <1>7, <1>8 DEF LlmInv, ForwardInv

\* A request that is abandoned: nothing more is handed on, and the last thing the
\* requester was told, if anything, was a piece or a finish reason.
LEMMA CancelStep == LlmInv /\ (Cancel \/ Finalise) => LlmInv'
<1> SUFFICES ASSUME LlmInv, Cancel \/ Finalise PROVE LlmInv'
  OBVIOUS
<1>1. /\ phase # "over" /\ phase' \in {"orphaned", "over"} /\ client' \in {"closed", client}
      /\ phase' = "orphaned" => phase = "sending"
      /\ UNCHANGED <<job, provider, body, attempt, calls, read, out>>
  BY DEF Cancel, Finalise
<1>2. LlmTypeOK'
  BY <1>1 DEF LlmInv, LlmTypeOK
<1>3. ForwardInv'
  BY <1>1 DEF LlmInv, ForwardInv, StreamForwardsOnce, Reading
<1>4. out # <<>> => calls = <<>>
  <2> SUFFICES ASSUME out # <<>> PROVE calls = <<>>
    OBVIOUS
  <2>1. job.mode = "stream"
    BY <1>1 DEF LlmInv, LlmTypeOK, ForwardInv
  <2>2. Len(calls) = 0
    BY <1>1, <2>1 DEF LlmInv, RetryInv
  <2>3. QED
    BY <2>2, LlmTypes DEF LlmInv
<1>5. RetryInv'
  BY <1>1, <1>4 DEF LlmInv, RetryInv, OnlyTransientFailuresAreRetried
<1>6. QED
  BY <1>2, <1>3, <1>5 DEF LlmInv

LEMMA LlmInvStep == LlmInv /\ [LlmNext]_llmVars => LlmInv'
<1> SUFFICES ASSUME LlmInv, [LlmNext]_llmVars PROVE LlmInv'
  OBVIOUS
<1>1. CASE Step
  BY <1>1, CallStep, SucceedStep, FailTransientStep, FailPermanentStep, StreamFailsStep,
     OpenStreamStep, ReadChunkStep, StreamEndsStep, CancelStep DEF Step
<1>2. CASE Cancel
  BY <1>2, CancelStep
<1>3. CASE UNCHANGED llmVars
  BY <1>3 DEF llmVars, LlmInv, LlmTypeOK, RetryInv, OnlyTransientFailuresAreRetried, ForwardInv,
     StreamForwardsOnce, Reading
<1>4. QED
  BY <1>1, <1>2, <1>3 DEF LlmNext

LEMMA LlmInvAlways == LlmSpec => []LlmInv
  BY LlmInvInit, LlmInvStep, PTL DEF LlmSpec

\* The variables of a request keep their types.
THEOREM LlmTypeCorrect == LlmSpec => []LlmTypeOK
<1>1. LlmInv => LlmTypeOK
  BY DEF LlmInv
<1>2. QED
  BY <1>1, LlmInvAlways, PTL

\* Whatever the number of attempts, a call follows another one only when that one
\* failed with something that may pass, never in a stream, and a passing failure is
\* reported only after the last attempt (_execute_with_retry).
THEOREM OnlyTransientFailuresAreRetriedHolds == LlmSpec => []OnlyTransientFailuresAreRetried
<1>1. LlmInv => OnlyTransientFailuresAreRetried
  BY DEF LlmInv, RetryInv
<1>2. QED
  BY <1>1, LlmInvAlways, PTL

\* However long the response, the client of a stream reads its pieces in order and
\* once, at most one finish reason after them and one last event (sse_generator).
THEOREM StreamForwardsOnceHolds == LlmSpec => []StreamForwardsOnce
<1>1. LlmInv => StreamForwardsOnce
  BY DEF LlmInv, ForwardInv
<1>2. QED
  BY <1>1, LlmInvAlways, PTL

-----------------------------------------------------------------------------
(***************************************************************************)
(* Requests to a language model: what the payloads keep                    *)
(***************************************************************************)
ConversationPieces(ts) == [i \in DOMAIN ts |-> IF ts[i] <= MaxMessages THEN <<ts[i]>> ELSE <<>>]

LEMMA ConversationPiecesType ==
  ASSUME NEW ts \in Seq(Nat)
  PROVE  /\ ConversationPieces(ts) \in Seq(Seq(Nat))
         /\ Len(ConversationPieces(ts)) = Len(ts)
         /\ OfTheConversation(ts) = FlattenSeq(ConversationPieces(ts))
         /\ OfTheConversation(ts) \in Seq(Nat)
<1> DEFINE n == Len(ts)
           pieces == ConversationPieces(ts)
<1>1. n \in Nat /\ DOMAIN ts = 1..n /\ \A i \in 1..n : ts[i] \in Nat
  OBVIOUS
<1>2. \A i \in 1..n : (IF ts[i] <= MaxMessages THEN <<ts[i]>> ELSE <<>>) \in Seq(Nat)
  BY <1>1
<1>3. pieces \in [1..n -> Seq(Nat)]
  BY <1>1, <1>2 DEF ConversationPieces
<1> HIDE DEF n, pieces
<1>4. pieces \in Seq(Seq(Nat)) /\ Len(pieces) = n
  BY <1>1, <1>3
<1>5. OfTheConversation(ts) = FlattenSeq(pieces)
  BY DEF OfTheConversation, ConversationPieces, pieces
<1>6. QED
  BY <1>4, <1>5, FlattenType DEF pieces, n

LEMMA ConversationConcat ==
  ASSUME NEW ts \in Seq(Nat), NEW us \in Seq(Nat)
  PROVE  OfTheConversation(ts \o us) = OfTheConversation(ts) \o OfTheConversation(us)
<1> DEFINE p == ConversationPieces(ts)
           q == ConversationPieces(us)
           r == ConversationPieces(ts \o us)
           m == Len(ts)
           n == Len(us)
<1>1. m \in Nat /\ n \in Nat /\ DOMAIN ts = 1..m /\ DOMAIN us = 1..n
  OBVIOUS
<1>2. /\ ts \o us \in Seq(Nat) /\ Len(ts \o us) = m + n /\ DOMAIN (ts \o us) = 1..(m + n)
      /\ \A i \in 1..(m + n) : (ts \o us)[i] = IF i <= m THEN ts[i] ELSE us[i - m]
  BY ConcatProperties
<1>3. /\ p \in Seq(Seq(Nat)) /\ q \in Seq(Seq(Nat)) /\ r \in Seq(Seq(Nat))
      /\ Len(p) = m /\ Len(q) = n /\ Len(r) = m + n
  BY <1>2, ConversationPiecesType
<1>4. /\ \A i \in 1..m : p[i] = IF ts[i] <= MaxMessages THEN <<ts[i]>> ELSE <<>>
      /\ \A i \in 1..n : q[i] = IF us[i] <= MaxMessages THEN <<us[i]>> ELSE <<>>
      /\ \A i \in 1..(m + n) :
           r[i] = IF (ts \o us)[i] <= MaxMessages THEN <<(ts \o us)[i]>> ELSE <<>>
  BY <1>1, <1>2 DEF ConversationPieces
<1> HIDE DEF p, q, r, m, n
<1>5. /\ p \o q \in Seq(Seq(Nat)) /\ Len(p \o q) = m + n
      /\ \A i \in 1..(m + n) : (p \o q)[i] = IF i <= m THEN p[i] ELSE q[i - m]
  <2>1. /\ p \o q \in Seq(Seq(Nat)) /\ Len(p \o q) = Len(p) + Len(q)
        /\ \A i \in 1..(Len(p) + Len(q)) : (p \o q)[i] = IF i <= Len(p) THEN p[i] ELSE q[i - Len(p)]
    BY <1>3, ConcatProperties
  <2>2. QED
    BY <1>3, <2>1
<1>6. \A i \in 1..(m + n) : r[i] = (p \o q)[i]
  <2> TAKE i \in 1..(m + n)
  <2>1. CASE i <= m
    <3>1. i \in 1..m
      BY <1>1, <2>1
    <3>2. QED
      BY <1>2, <1>4, <1>5, <2>1, <3>1
  <2>2. CASE ~(i <= m)
    <3>1. i - m \in 1..n
      BY <1>1, <2>2
    <3>2. QED
      BY <1>2, <1>4, <1>5, <2>2, <3>1
  <2>3. QED
    BY <2>1, <2>2
<1>7. r = p \o q
  BY <1>3, <1>5, <1>6, SeqEqual
<1>8. FlattenSeq(p \o q) = FlattenSeq(p) \o FlattenSeq(q)
  BY <1>3, FlattenConcat
<1>9. QED
  BY <1>2, <1>7, <1>8, ConversationPiecesType DEF p, q, r

\* The texts of the conversation in joined pieces are those of each piece, joined.
LEMMA ConversationFlatten ==
  ASSUME NEW ss \in Seq(Seq(Nat))
  PROVE  OfTheConversation(FlattenSeq(ss)) = FlattenSeq([i \in DOMAIN ss |-> OfTheConversation(ss[i])])
<1> DEFINE n == Len(ss)
           pieces == [i \in DOMAIN ss |-> OfTheConversation(ss[i])]
<1>1. n \in Nat /\ DOMAIN ss = 1..n /\ \A i \in 1..n : ss[i] \in Seq(Nat)
  OBVIOUS
<1>2. pieces \in Seq(Seq(Nat)) /\ Len(pieces) = n
  <2>1. pieces \in [1..n -> Seq(Nat)]
    BY <1>1, ConversationPiecesType
  <2> HIDE DEF pieces, n
  <2>2. QED
    BY <1>1, <2>1
<1>3. PICK f : IsJoin(f, Nat, ss)
  BY JoinExists
<1>4. /\ \A i \in 0..n : f[i] \in Seq(Nat)
      /\ f[0] = <<>>
      /\ \A i \in 1..n : f[i] = f[i - 1] \o ss[i]
  BY <1>3 DEF IsJoin
<1> DEFINE g == [i \in 0..n |-> OfTheConversation(f[i])]
<1>5. g \in [0..n -> Seq(Nat)]
  BY <1>4, ConversationPiecesType
<1>6. g[0] = <<>>
  <2>1. ConversationPieces(<<>>) = [i \in 1..0 |-> <<>>] /\ <<>> \in Seq(Nat)
    BY EmptySeq DEF ConversationPieces
  <2>2. FlattenSeq(ConversationPieces(<<>>)) = <<>>
    BY <2>1, FlattenNothing
  <2>3. OfTheConversation(<<>>) = <<>>
    BY <2>1, <2>2, ConversationPiecesType
  <2>4. QED
    BY <1>1, <1>4, <2>3
<1>7. \A i \in 1..n : g[i] = g[i - 1] \o pieces[i]
  <2> TAKE i \in 1..n
  <2>1. i \in 0..n /\ i - 1 \in 0..n
    BY <1>1
  <2>2. f[i] = f[i - 1] \o ss[i] /\ f[i - 1] \in Seq(Nat) /\ ss[i] \in Seq(Nat)
    BY <1>1, <1>4, <2>1
  <2>3. OfTheConversation(f[i]) = OfTheConversation(f[i - 1]) \o OfTheConversation(ss[i])
    BY <2>2, ConversationConcat
  <2>4. QED
    BY <1>1, <2>1, <2>3
<1> HIDE DEF g, pieces
<1>8. IsJoin(g, Nat, pieces)
  BY <1>2, <1>5, <1>6, <1>7 DEF IsJoin
<1>9. FlattenSeq(pieces) = g[n] /\ FlattenSeq(ss) = f[n]
  BY <1>2, <1>3, <1>8, JoinIsFlatten
<1>10. g[n] = OfTheConversation(f[n])
  BY <1>1 DEF g
<1>11. QED
  BY <1>9, <1>10 DEF pieces

LEMMA ConversationWithin ==
  ASSUME NEW ts \in Seq(Nat), \A i \in DOMAIN ts : ts[i] <= MaxMessages
  PROVE  OfTheConversation(ts) = ts
<1>1. ConversationPieces(ts) = [i \in DOMAIN ts |-> <<ts[i]>>]
  BY DEF ConversationPieces
<1>2. QED
  BY <1>1, FlattenSingletons, ConversationPiecesType

\* The texts that the gateway adds are none of the conversation.
LEMMA ConversationWithout == OfTheConversation(<<SchemaText>>) = <<>>
<1> DEFINE s == <<SchemaText>>
<1>1. SchemaText \in Nat /\ ~(SchemaText <= MaxMessages)
  BY BoundsAssumption DEF SchemaText
<1>2. s \in Seq(Nat) /\ Len(s) = 1 /\ DOMAIN s = 1..1 /\ s[1] = SchemaText
  BY <1>1
<1>3. ConversationPieces(s) = [i \in 1..1 |-> <<>>]
  BY <1>1, <1>2 DEF ConversationPieces
<1>4. FlattenSeq(ConversationPieces(s)) = <<>>
  <2>1. 1 \in Nat
    OBVIOUS
  <2> HIDE DEF s
  <2>2. QED
    BY <1>3, <2>1, FlattenNothing, Zenon
<1>5. QED
  BY <1>2, <1>4, ConversationPiecesType

\* Messages with their roles and texts, and what Spoken and SystemTexts join.
Message == [role : Roles, text : Seq(Nat)]
SpokenPieces(ms) == [i \in DOMAIN ms |-> IF System(ms[i]) THEN <<>> ELSE <<ms[i]>>]
SystemPieces(ms) == [i \in DOMAIN ms |-> IF System(ms[i]) THEN ms[i].text ELSE <<>>]

LEMMA MessagePieces ==
  ASSUME NEW ms \in Seq(Message)
  PROVE  /\ SpokenPieces(ms) \in Seq(Seq({m \in Message : ~System(m)}))
         /\ SpokenPieces(ms) \in Seq(Seq(Message))
         /\ SystemPieces(ms) \in Seq(Seq(Nat))
         /\ Len(SpokenPieces(ms)) = Len(ms) /\ Len(SystemPieces(ms)) = Len(ms)
         /\ Spoken(ms) = FlattenSeq(SpokenPieces(ms))
         /\ SystemTexts(ms) = FlattenSeq(SystemPieces(ms))
         /\ Spoken(ms) \in Seq({m \in Message : ~System(m)})
         /\ SystemTexts(ms) \in Seq(Nat)
<1> DEFINE n == Len(ms)
           U == {m \in Message : ~System(m)}
           p == SpokenPieces(ms)
           q == SystemPieces(ms)
<1>1. n \in Nat /\ DOMAIN ms = 1..n /\ \A i \in 1..n : ms[i] \in Message
  OBVIOUS
<1>2. \A i \in 1..n : /\ ~System(ms[i]) => <<ms[i]>> \in Seq(U) /\ <<ms[i]>> \in Seq(Message)
                      /\ ms[i].text \in Seq(Nat)
  BY <1>1 DEF Message
<1>3. p \in [1..n -> Seq(U)] /\ p \in [1..n -> Seq(Message)] /\ q \in [1..n -> Seq(Nat)]
  <2> HIDE DEF n, U
  <2>1. <<>> \in Seq(U) /\ <<>> \in Seq(Message) /\ <<>> \in Seq(Nat)
    BY EmptySeq
  <2>2. QED
    BY <1>1, <1>2, <2>1 DEF SpokenPieces, SystemPieces
<1> HIDE DEF n, U, p, q
<1>4. p \in Seq(Seq(U)) /\ p \in Seq(Seq(Message)) /\ q \in Seq(Seq(Nat)) /\ Len(p) = n /\ Len(q) = n
  BY <1>1, <1>3
<1>5. Spoken(ms) = FlattenSeq(p) /\ SystemTexts(ms) = FlattenSeq(q)
  BY DEF Spoken, SystemTexts, SpokenPieces, SystemPieces, p, q
<1>6. FlattenSeq(p) \in Seq(U) /\ FlattenSeq(q) \in Seq(Nat)
  BY <1>4, FlattenType
<1>7. QED
  BY <1>4, <1>5, <1>6 DEF n, U, p, q

\* Spoken messages are all spoken.
LEMMA SpokenAlone ==
  ASSUME NEW ms \in Seq({m \in Message : ~System(m)})
  PROVE  ms \in Seq(Message) /\ Spoken(ms) = ms /\ SystemTexts(ms) = <<>>
<1> DEFINE n == Len(ms)
<1>1. n \in Nat /\ DOMAIN ms = 1..n /\ \A i \in 1..n : ms[i] \in Message /\ ~System(ms[i])
  OBVIOUS
<1>2. ms \in Seq(Message)
  <2> HIDE DEF n
  <2>1. ms \in [1..n -> Message]
    BY <1>1 DEF n
  <2>2. QED
    BY <1>1, <2>1
<1>3. SpokenPieces(ms) = [i \in DOMAIN ms |-> <<ms[i]>>] /\ SystemPieces(ms) = [i \in 1..n |-> <<>>]
  BY <1>1 DEF SpokenPieces, SystemPieces
<1>4. Spoken(ms) = ms
  BY <1>2, <1>3, FlattenSingletons, MessagePieces
<1>5. SystemTexts(ms) = <<>>
  BY <1>1, <1>2, <1>3, FlattenNothing, MessagePieces
<1>6. QED
  BY <1>2, <1>4, <1>5

\* A system message before a conversation adds its text to the instructions.
LEMMA SystemBefore ==
  ASSUME NEW m \in Message, System(m), NEW ms \in Seq(Message)
  PROVE  /\ <<m>> \o ms \in Seq(Message)
         /\ Spoken(<<m>> \o ms) = Spoken(ms)
         /\ SystemTexts(<<m>> \o ms) = m.text \o SystemTexts(ms)
<1> DEFINE n == Len(ms)
           all == <<m>> \o ms
           t == m.text
<1>1. n \in Nat /\ <<m>> \in Seq(Message) /\ Len(<<m>>) = 1 /\ <<m>>[1] = m /\ t \in Seq(Nat)
  BY DEF Message
<1>2. /\ all \in Seq(Message) /\ Len(all) = n + 1 /\ DOMAIN all = 1..(n + 1) /\ DOMAIN ms = 1..n
      /\ all[1] = m /\ \A i \in 1..n : all[i + 1] = ms[i]
  OBVIOUS
<1> HIDE DEF n, all, t
<1>3. /\ SpokenPieces(all) \in Seq(Seq(Message)) /\ SystemPieces(all) \in Seq(Seq(Nat))
      /\ SpokenPieces(ms) \in Seq(Seq(Message)) /\ SystemPieces(ms) \in Seq(Seq(Nat))
      /\ Len(SpokenPieces(all)) = n + 1 /\ Len(SystemPieces(all)) = n + 1
      /\ Len(SpokenPieces(ms)) = n /\ Len(SystemPieces(ms)) = n
  BY <1>2, MessagePieces DEF n
<1>4. /\ SpokenPieces(all)[1] = <<>> /\ SystemPieces(all)[1] = t
      /\ \A i \in 1..n : /\ SpokenPieces(all)[i + 1] = SpokenPieces(ms)[i]
                         /\ SystemPieces(all)[i + 1] = SystemPieces(ms)[i]
  <2>1. 1 \in 1..(n + 1) /\ \A i \in 1..n : i + 1 \in 1..(n + 1)
    BY <1>1
  <2>2. QED
    BY <1>2, <2>1 DEF SpokenPieces, SystemPieces, t
<1> DEFINE p == SpokenPieces(all)
           r == SpokenPieces(ms)
<1>5. FlattenSeq(p) = <<>> \o FlattenSeq(r)
  <2>1. <<>> \in Seq(Message) /\ n \in Nat
    BY <1>1, EmptySeq
  <2>2. /\ p \in Seq(Seq(Message)) /\ r \in Seq(Seq(Message)) /\ Len(p) = n + 1 /\ Len(r) = n
        /\ p[1] = <<>> /\ \A i \in 1..n : p[i + 1] = r[i]
    BY <1>3, <1>4
  <2> HIDE DEF p, r
  <2>3. Len(p) = Len(r) + 1 /\ \A i \in 1..Len(r) : p[i + 1] = r[i]
    BY <2>2
  <2>4. QED
    BY <2>1, <2>2, <2>3, FlattenInFront
<1> DEFINE u == SystemPieces(all)
           v == SystemPieces(ms)
<1>6. FlattenSeq(u) = t \o FlattenSeq(v)
  <2>1. /\ u \in Seq(Seq(Nat)) /\ v \in Seq(Seq(Nat)) /\ Len(u) = n + 1 /\ Len(v) = n
        /\ u[1] = t /\ \A i \in 1..n : u[i + 1] = v[i]
    BY <1>3, <1>4
  <2> HIDE DEF u, v
  <2>2. n \in Nat /\ t \in Seq(Nat) /\ Len(u) = Len(v) + 1 /\ \A i \in 1..Len(v) : u[i + 1] = v[i]
    BY <1>1, <2>1
  <2>3. QED
    BY <2>1, <2>2, FlattenInFront
<1>7. Spoken(ms) \in Seq({w \in Message : ~System(w)})
  BY MessagePieces
<1>8. Spoken(all) = <<>> \o Spoken(ms) /\ SystemTexts(all) = t \o SystemTexts(ms)
  BY <1>2, <1>5, <1>6, MessagePieces
<1>9. <<>> \o Spoken(ms) = Spoken(ms)
  BY <1>7, ConcatEmptySeq
<1>10. QED
  BY <1>2, <1>8, <1>9 DEF all, t

\* The property, of any payload.
Keeps(b) ==
    /\ Spoken(Messages) # <<>> => Spoken(b.messages) = Spoken(Messages)
    /\ OfTheConversation(b.system \o SystemTexts(b.messages)) = SystemTexts(Messages)
    /\ job.mode = "structured" /\ provider # "mock" =>
         Contains(b.system \o SystemTexts(b.messages), SchemaText)

LEMMA MessagesType ==
  ASSUME LlmTypeOK
  PROVE  \E n \in 1..MaxMessages :
           /\ Messages \in Seq(Message) /\ Len(Messages) = n /\ DOMAIN Messages = 1..n
           /\ \A i \in 1..n : Messages[i].text = <<i>>
<1>1. PICK n \in 1..MaxMessages : job.roles \in [1..n -> Roles]
  BY DEF LlmTypeOK, Jobs, Conversations
<1>2. Messages = [i \in 1..n |-> [role |-> job.roles[i], text |-> <<i>>]]
  BY <1>1 DEF Messages
<1>3. \A i \in 1..n : [role |-> job.roles[i], text |-> <<i>>] \in Message
  BY <1>1 DEF Message
<1>4. Messages \in [1..n -> Message]
  BY <1>2, <1>3
<1>5. n \in Nat
  BY BoundsAssumption
<1>6. Messages \in Seq(Message) /\ Len(Messages) = n
  BY <1>4, <1>5
<1>7. QED
  BY <1>2, <1>6

\* The texts of the system messages are texts of the conversation.
LEMMA SystemTextsWithin ==
  ASSUME LlmTypeOK
  PROVE  /\ SystemTexts(Messages) \in Seq(Nat)
         /\ OfTheConversation(SystemTexts(Messages)) = SystemTexts(Messages)
<1>1. PICK n \in 1..MaxMessages :
        /\ Messages \in Seq(Message) /\ Len(Messages) = n /\ DOMAIN Messages = 1..n
        /\ \A i \in 1..n : Messages[i].text = <<i>>
  BY MessagesType
<1> DEFINE T == 1..MaxMessages
           pieces == SystemPieces(Messages)
<1>2. \A i \in 1..n : <<i>> \in Seq(T)
  BY BoundsAssumption
<1>3. pieces \in [1..n -> Seq(T)] /\ n \in Nat
  <2>1. <<>> \in Seq(T) /\ n \in Nat
    BY EmptySeq, BoundsAssumption
  <2> HIDE DEF T
  <2>2. QED
    BY <1>1, <1>2, <2>1 DEF SystemPieces
<1>4. FlattenSeq(pieces) \in Seq(T)
  <2> HIDE DEF pieces, T
  <2>1. pieces \in Seq(Seq(T))
    BY <1>3
  <2>2. QED
    BY <2>1, FlattenType
<1>5. SystemTexts(Messages) = FlattenSeq(pieces) /\ SystemTexts(Messages) \in Seq(Nat)
  BY <1>1, MessagePieces
<1>6. \A i \in DOMAIN SystemTexts(Messages) : SystemTexts(Messages)[i] <= MaxMessages
  <2> DEFINE s == FlattenSeq(pieces)
  <2> HIDE DEF s, pieces
  <2>1. \A i \in DOMAIN s : s[i] <= MaxMessages
    BY <1>4, BoundsAssumption DEF s
  <2>2. QED
    BY <1>5, <2>1 DEF s
<1>7. QED
  BY <1>5, <1>6, ConversationWithin

\* MockLLMProvider, and OpenAIProvider without a schema: the messages as they are.
LEMMA PlainKeeps ==
  ASSUME LlmTypeOK, job.mode # "structured" \/ provider = "mock",
         NEW b, b = [system |-> <<>>, messages |-> Messages]
  PROVE  Keeps(b)
<1>1. SystemTexts(Messages) \in Seq(Nat)
  BY SystemTextsWithin
<1>2. <<>> \o SystemTexts(Messages) = SystemTexts(Messages)
  BY <1>1, ConcatEmptySeq
<1>3. b.system = <<>> /\ b.messages = Messages
  OBVIOUS
<1>4. QED
  BY <1>2, <1>3, SystemTextsWithin DEF Keeps

\* AnthropicProvider: instructions apart from what is spoken.
LEMMA AnthropicKeeps ==
  ASSUME LlmTypeOK
  PROVE  Keeps(AnthropicPayload)
<1> DEFINE texts == SystemTexts(Messages)
           spoken == Spoken(Messages)
           schema == IF job.mode = "structured" THEN <<SchemaText>> ELSE <<>>
           greeting == <<[role |-> "user", text |-> <<GreetingText>>]>>
           said == IF spoken = <<>> THEN greeting ELSE spoken
<1>1. Messages \in Seq(Message)
  BY MessagesType
<1>2. texts \in Seq(Nat) /\ OfTheConversation(texts) = texts
  BY SystemTextsWithin
<1>3. spoken \in Seq({m \in Message : ~System(m)})
  BY <1>1, MessagePieces
<1>4. greeting \in Seq({m \in Message : ~System(m)})
  BY BoundsAssumption DEF Message, System, Roles, GreetingText
<1>5. SchemaText \in Nat
  BY BoundsAssumption DEF SchemaText
<1>6. AnthropicPayload.system = schema \o texts /\ AnthropicPayload.messages = said
  BY DEF AnthropicPayload
<1>7. schema \in Seq(Nat)
  BY <1>5
<1> HIDE DEF texts, spoken, greeting
<1>8. Spoken(said) = said /\ SystemTexts(said) = <<>>
  BY <1>3, <1>4, SpokenAlone
<1>9. schema \o texts \in Seq(Nat)
  BY <1>2, <1>7, ConcatProperties
<1>10. OfTheConversation(schema \o texts) = texts
  <2>1. OfTheConversation(schema \o texts) = OfTheConversation(schema) \o texts
    BY <1>2, <1>7, ConversationConcat
  <2>2. OfTheConversation(schema) = <<>>
    <3>1. <<>> \in Seq(Nat) /\ \A i \in DOMAIN <<>> : <<>>[i] <= MaxMessages
      BY EmptySeq
    <3>2. OfTheConversation(<<>>) = <<>>
      BY <3>1, ConversationWithin
    <3>3. QED
      BY <3>2, ConversationWithout
  <2>3. QED
    BY <1>2, <2>1, <2>2, ConcatEmptySeq
<1>11. job.mode = "structured" => Contains(schema \o texts, SchemaText)
  <2> SUFFICES ASSUME job.mode = "structured" PROVE Contains(<<SchemaText>> \o texts, SchemaText)
    OBVIOUS
  <2> DEFINE s == <<SchemaText>>
  <2>1. s \in Seq(Nat) /\ Len(s) = 1 /\ s[1] = SchemaText
    BY <1>5
  <2> HIDE DEF s
  <2>2. /\ Len(s \o texts) = Len(s) + Len(texts) /\ Len(texts) \in Nat
        /\ \A i \in 1..(Len(s) + Len(texts)) :
             (s \o texts)[i] = IF i <= Len(s) THEN s[i] ELSE texts[i - Len(s)]
    <3> HIDE DEF schema, said
    <3>1. Len(texts) \in Nat
      BY <1>2
    <3>2. QED
      BY <1>2, <2>1, <3>1, ConcatProperties
  <2>3. 1 \in 1..(Len(s) + Len(texts)) /\ 1 <= Len(s)
    BY <2>1, <2>2
  <2>4. (s \o texts)[1] = SchemaText /\ 1 \in 1..Len(s \o texts)
    BY <2>1, <2>2, <2>3
  <2>5. QED
    BY <2>4 DEF Contains, s
<1> HIDE DEF schema, said
<1>12. (schema \o texts) \o <<>> = schema \o texts
  BY <1>9, ConcatEmptySeq
<1>13. spoken # <<>> => said = spoken
  BY DEF said
<1>14. QED
  BY <1>6, <1>8, <1>10, <1>11, <1>12, <1>13 DEF Keeps, texts, spoken

\* OpenAIProvider with a schema: it follows the text of every system message, or
\* comes first in a system message of its own.
LEMMA OpenAIKeeps ==
  ASSUME LlmTypeOK, provider = "openai"
  PROVE  Keeps(OpenAIPayload)
<1> DEFINE texts == SystemTexts(Messages)
<1>1. PICK n \in 1..MaxMessages :
        /\ Messages \in Seq(Message) /\ Len(Messages) = n /\ DOMAIN Messages = 1..n
        /\ \A i \in 1..n : Messages[i].text = <<i>>
  BY MessagesType
<1>2. texts \in Seq(Nat) /\ OfTheConversation(texts) = texts
  BY SystemTextsWithin
<1>3. SchemaText \in Nat /\ n \in Nat /\ MaxMessages \in Nat
  BY <1>1, BoundsAssumption DEF SchemaText
<1>4. CASE job.mode # "structured"
  BY <1>4, PlainKeeps DEF OpenAIPayload
<1>5. CASE job.mode = "structured" /\ \E i \in DOMAIN Messages : System(Messages[i])
  <2> DEFINE I == [i \in DOMAIN Messages |->
                     IF System(Messages[i]) THEN [Messages[i] EXCEPT !.text = Append(@, SchemaText)]
                                            ELSE Messages[i]]
  <2>1. OpenAIPayload.system = <<>> /\ OpenAIPayload.messages = I
    BY <1>5 DEF OpenAIPayload
  <2>2. \A i \in 1..n :
          /\ Messages[i] \in Message
          /\ Messages[i].text = <<i>>
    BY <1>1
  <2>3. \A i \in 1..n : Append(<<i>>, SchemaText) = <<i, SchemaText>>
    <3> TAKE i \in 1..n
    <3> DEFINE s == <<i>>
               t == <<i, SchemaText>>
               u == Append(s, SchemaText)
    <3>1. /\ s \in Seq(Nat) /\ Len(s) = 1 /\ s[1] = i
          /\ t \in Seq(Nat) /\ Len(t) = 2 /\ t[1] = i /\ t[2] = SchemaText
      BY <1>3
    <3> HIDE DEF I, s, t
    <3>2. u \in Seq(Nat) /\ Len(u) = 2 /\ u[1] = i /\ u[2] = SchemaText
      <4>1. /\ u \in Seq(Nat) /\ Len(u) = Len(s) + 1 /\ u[Len(s) + 1] = SchemaText
            /\ \A j \in 1..Len(s) : u[j] = s[j]
        <5>1. s \in Seq(Nat) /\ SchemaText \in Nat
          BY <1>3, <3>1
        <5>2. QED
          BY <5>1, AppendProperties
      <4> HIDE DEF u
      <4>2. QED
        BY <3>1, <4>1
    <3> HIDE DEF u
    <3>3. \A j \in 1..2 : u[j] = t[j]
      BY <3>1, <3>2
    <3>4. u = t
      BY <3>1, <3>2, <3>3, SeqEqual
    <3>5. QED
      BY <3>4 DEF s, t, u
  <2>4. \A i \in 1..n :
          /\ I[i] \in Message
          /\ System(I[i]) <=> System(Messages[i])
          /\ ~System(I[i]) => I[i] = Messages[i]
          /\ System(I[i]) => I[i].text = <<i, SchemaText>>
    <3> TAKE i \in 1..n
    <3> DEFINE m == Messages[i]
               s == <<i, SchemaText>>
    <3>1. I[i] = IF System(m) THEN [m EXCEPT !.text = s] ELSE m
      BY <1>1, <2>2, <2>3
    <3>2. s \in Seq(Nat) /\ m \in Message
      BY <1>3, <2>2
    <3> HIDE DEF I, m, s
    <3>3. [m EXCEPT !.text = s] \in Message /\ [m EXCEPT !.text = s].role = m.role
          /\ [m EXCEPT !.text = s].text = s
      BY <3>2 DEF Message
    <3>4. QED
      BY <3>1, <3>2, <3>3 DEF System, m, s
  <2>5. I \in Seq(Message) /\ DOMAIN I = 1..n
    <3>1. I \in [1..n -> Message]
      BY <1>1, <2>4
    <3> HIDE DEF I
    <3>2. QED
      BY <1>3, <3>1
  <2> HIDE DEF I
  <2>6. SpokenPieces(I) = SpokenPieces(Messages)
    BY <1>1, <2>4, <2>5 DEF SpokenPieces
  <2>7. Spoken(I) = Spoken(Messages)
    BY <1>1, <2>5, <2>6, MessagePieces
  <2> DEFINE pieces == SystemPieces(I)
  <2>8. \A i \in 1..n : pieces[i] = IF System(Messages[i]) THEN <<i, SchemaText>> ELSE <<>>
    BY <2>4, <2>5 DEF SystemPieces
  <2>9. /\ pieces \in Seq(Seq(Nat)) /\ DOMAIN pieces = 1..n /\ Len(pieces) = n
        /\ SystemTexts(I) = FlattenSeq(pieces) /\ SystemTexts(I) \in Seq(Nat)
    <3>1. /\ pieces \in Seq(Seq(Nat)) /\ Len(pieces) = Len(I)
          /\ SystemTexts(I) = FlattenSeq(pieces) /\ SystemTexts(I) \in Seq(Nat)
      BY <2>5, MessagePieces
    <3> HIDE DEF pieces
    <3>2. DOMAIN pieces = 1..Len(pieces) /\ DOMAIN I = 1..Len(I) /\ Len(I) \in Nat
      BY <2>5, <3>1
    <3>3. Len(I) = n
      BY <1>3, <2>5, <3>2
    <3>4. QED
      BY <3>1, <3>2, <3>3
  <2>10. \A i \in 1..n : /\ OfTheConversation(<<i, SchemaText>>) = <<i>>
                         /\ OfTheConversation(<<>>) = <<>>
    <3> TAKE i \in 1..n
    <3> DEFINE s == <<i>>
               t == <<SchemaText>>
               u == <<>>
    <3>1. s \in Seq(Nat) /\ t \in Seq(Nat) /\ <<i, SchemaText>> = s \o t /\ u \in Seq(Nat)
      BY <1>3
    <3>2. (\A j \in DOMAIN s : s[j] <= MaxMessages) /\ (\A j \in DOMAIN u : u[j] <= MaxMessages)
      BY <1>1, <1>3
    <3>3. OfTheConversation(t) = u
      BY ConversationWithout
    <3> HIDE DEF s, t, u
    <3>4. OfTheConversation(s) = s /\ OfTheConversation(u) = u
      BY <3>1, <3>2, ConversationWithin
    <3>5. OfTheConversation(s \o t) = s \o u
      BY <3>1, <3>3, <3>4, ConversationConcat
    <3>6. s \o u = s
      BY <3>1, ConcatEmptySeq DEF u
    <3>7. QED
      BY <3>1, <3>4, <3>5, <3>6 DEF s, u
  <2>11. [i \in DOMAIN pieces |-> OfTheConversation(pieces[i])] = SystemPieces(Messages)
    <3>1. SystemPieces(Messages) = [i \in 1..n |-> IF System(Messages[i]) THEN <<i>> ELSE <<>>]
      BY <1>1 DEF SystemPieces
    <3>2. \A i \in 1..n : OfTheConversation(pieces[i]) = IF System(Messages[i]) THEN <<i>> ELSE <<>>
      BY <2>8, <2>10
    <3> HIDE DEF pieces
    <3>3. QED
      BY <2>9, <3>1, <3>2
  <2>12. OfTheConversation(SystemTexts(I)) = texts
    <3>1. OfTheConversation(FlattenSeq(pieces))
            = FlattenSeq([i \in DOMAIN pieces |-> OfTheConversation(pieces[i])])
      BY <2>9, ConversationFlatten
    <3>2. QED
      BY <1>1, <2>9, <2>11, <3>1, MessagePieces
  <2>13. Contains(SystemTexts(I), SchemaText)
    <3>1. PICK k \in 1..n : System(Messages[k])
      BY <1>1, <1>5
    <3>2. Contains(pieces[k], SchemaText)
      <4> DEFINE s == <<k, SchemaText>>
      <4>1. Len(s) = 2 /\ s[2] = SchemaText /\ 2 \in 1..2
        OBVIOUS
      <4>2. pieces[k] = s
        BY <2>8, <3>1
      <4>3. QED
        BY <4>1, <4>2 DEF Contains
    <3> HIDE DEF pieces
    <3>3. QED
      BY <2>9, <3>2, FlattenKeeps
  <2>14. <<>> \o SystemTexts(I) = SystemTexts(I)
    BY <2>9, ConcatEmptySeq
  <2> HIDE DEF pieces
  <2>15. QED
    BY <2>1, <2>7, <2>12, <2>13, <2>14 DEF Keeps
<1>6. CASE job.mode = "structured" /\ ~\E i \in DOMAIN Messages : System(Messages[i])
  <2> DEFINE m == [role |-> "system", text |-> <<SchemaText>>]
             own == <<m>>
             t == <<SchemaText>>
  <2>1. m \in Message /\ System(m) /\ m.text = t
    BY <1>3 DEF Message, System, Roles
  <2>2. OpenAIPayload.system = <<>> /\ OpenAIPayload.messages = own \o Messages
    BY <1>6 DEF OpenAIPayload
  <2>3. t \in Seq(Nat) /\ Len(t) = 1 /\ t[1] = SchemaText
    BY <1>3
  <2>4. OfTheConversation(t) = <<>>
    BY ConversationWithout
  <2> HIDE DEF m, t
  <2>5. /\ Spoken(own \o Messages) = Spoken(Messages)
        /\ SystemTexts(own \o Messages) = t \o texts
    BY <1>1, <2>1, SystemBefore
  <2> HIDE DEF texts, own
  <2>6. OfTheConversation(t \o texts) = texts
    <3>1. OfTheConversation(t \o texts) = <<>> \o texts
      BY <1>2, <2>3, <2>4, ConversationConcat
    <3>2. QED
      BY <1>2, <3>1, ConcatEmptySeq
  <2>7. t \o texts \in Seq(Nat) /\ Contains(t \o texts, SchemaText)
    <3>1. Len(texts) \in Nat
      BY <1>2
    <3>2. /\ t \o texts \in Seq(Nat) /\ Len(t \o texts) = Len(t) + Len(texts)
          /\ \A i \in 1..(Len(t) + Len(texts)) :
               (t \o texts)[i] = IF i <= Len(t) THEN t[i] ELSE texts[i - Len(t)]
      BY <1>2, <2>3, ConcatProperties
    <3>3. 1 \in 1..(Len(t) + Len(texts)) /\ 1 <= Len(t)
      BY <2>3, <3>1
    <3>4. (t \o texts)[1] = SchemaText /\ 1 \in 1..Len(t \o texts)
      BY <2>3, <3>2, <3>3
    <3>5. QED
      BY <3>2, <3>4 DEF Contains
  <2>8. <<>> \o (t \o texts) = t \o texts
    BY <2>7, ConcatEmptySeq
  <2>9. QED
    BY <2>2, <2>5, <2>6, <2>7, <2>8 DEF Keeps, texts
<1>7. QED
  BY <1>4, <1>5, <1>6

LEMMA PayloadKeeps ==
  ASSUME LlmTypeOK, provider \in Vendors \cup {"mock"}
  PROVE  Keeps(Payload)
<1>1. CASE provider = "openai"
  BY <1>1, OpenAIKeeps DEF Payload
<1>2. CASE provider = "anthropic"
  BY <1>2, AnthropicKeeps DEF Payload
<1>3. CASE provider = "mock"
  BY <1>3, PlainKeeps DEF Payload
<1>4. QED
  BY <1>1, <1>2, <1>3 DEF Vendors

\* The payload is that of the provider, which is known before the first call.
PayloadInv ==
    /\ phase = "begin" => body = NoBody
    /\ phase \notin {"begin", "over"} => provider \in Vendors \cup {"mock"}
    /\ body # NoBody => body = Payload /\ provider \in Vendors \cup {"mock"}

LEMMA PayloadFixed ==
  ASSUME UNCHANGED <<job, provider>>
  PROVE  Payload' = Payload
<1>1. Messages' = Messages
  BY DEF Messages
<1>2. OpenAIPayload' = OpenAIPayload /\ AnthropicPayload' = AnthropicPayload
  BY <1>1 DEF OpenAIPayload, AnthropicPayload
<1>3. QED
  BY <1>1, <1>2 DEF Payload

LEMMA PayloadInvStep == PayloadInv /\ LlmInv /\ [LlmNext]_llmVars => PayloadInv'
<1> SUFFICES ASSUME PayloadInv, LlmInv, [LlmNext]_llmVars PROVE PayloadInv'
  OBVIOUS
<1> USE DEF PayloadInv
<1>1. CASE Resolve
  <2>1. /\ phase = "begin" /\ body' = body /\ phase' \in {"over", "ready"}
        /\ phase' = "ready" => provider' \in Vendors \cup {"mock"}
    BY <1>1 DEF Resolve
  <2>2. QED
    BY <2>1
<1>2. CASE Call
  <2>1. phase \in {"ready", "waiting"} /\ phase' = "calling" /\ body' = Payload
        /\ UNCHANGED <<job, provider>>
    BY <1>2 DEF Call
  <2>2. QED
    BY <2>1, PayloadFixed
<1>3. ASSUME UNCHANGED <<job, provider, body>>, phase' = "begin" => phase = "begin",
             phase' \in {"begin", "over"} \/ phase \notin {"begin", "over"}
      PROVE  PayloadInv'
  BY <1>3, PayloadFixed
<1>4. CASE Succeed
  BY <1>3, <1>4 DEF Succeed, CallEnds, HandOn
<1>5. ASSUME NEW o \in Transient, FailTransient(o) PROVE PayloadInv'
  BY <1>3, <1>5 DEF FailTransient, CallEnds, HandOn
<1>6. ASSUME NEW o \in Permanent, FailPermanent(o) PROVE PayloadInv'
  BY <1>3, <1>6 DEF FailPermanent, CallEnds, HandOn
<1>7. ASSUME NEW o \in Transient \cup Permanent, StreamFails(o) PROVE PayloadInv'
  BY <1>3, <1>7 DEF StreamFails, HandOn
<1>8. CASE OpenStream
  BY <1>3, <1>8 DEF OpenStream
<1>9. CASE ReadChunk
  BY <1>3, <1>9 DEF ReadChunk
<1>10. CASE ChunkSent
  BY <1>3, <1>10 DEF ChunkSent
<1>11. CASE StreamEnds
  BY <1>3, <1>11 DEF StreamEnds, HandOn
<1>12. CASE Finalise
  BY <1>3, <1>12 DEF Finalise
<1>13. CASE Cancel
  BY <1>3, <1>13 DEF Cancel
<1>14. CASE UNCHANGED llmVars
  BY <1>14, PayloadFixed DEF llmVars
<1>15. QED
  BY <1>1, <1>2, <1>4, <1>5, <1>6, <1>7, <1>8, <1>9, <1>10, <1>11, <1>12, <1>13, <1>14 DEF LlmNext, Step

LEMMA PayloadInvAlways == LlmSpec => []PayloadInv
<1>1. LlmInit => PayloadInv
  BY DEF LlmInit, PayloadInv
<1>2. QED
  BY <1>1, LlmInvAlways, PayloadInvStep, PTL DEF LlmSpec

\* For conversations of any length and any mixture of roles: the payload of every
\* call holds each text of the conversation once and in its place, and a structured
\* request tells the schema (the _build_payload methods, complete_structured).
THEOREM PayloadKeepsTheConversationHolds == LlmSpec => []PayloadKeepsTheConversation
<1>1. LlmTypeOK /\ PayloadInv => PayloadKeepsTheConversation
  <2> SUFFICES ASSUME LlmTypeOK, PayloadInv, body # NoBody
               PROVE  PayloadKeepsTheConversation
    BY DEF PayloadKeepsTheConversation
  <2>1. Keeps(body)
    BY PayloadKeeps DEF PayloadInv
  <2>2. QED
    BY <2>1 DEF Keeps, PayloadKeepsTheConversation
<1>2. QED
  BY <1>1, LlmTypeCorrect, PayloadInvAlways, PTL
=============================================================================
