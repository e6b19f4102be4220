------------------------- MODULE RateLimiterProofs -------------------------
(***************************************************************************)
(* Theorems about RateLimiter, for any finite set of processes, any set of *)
(* clients and headers, any limit, any window and any resolution of the    *)
(* clock.                                                                  *)
(***************************************************************************)
EXTENDS RateLimiter, FiniteSetTheorems, WellFoundedInduction, TLAPS

-----------------------------------------------------------------------------
\* A non-empty set of naturals has a least element, so the head of a
\* non-empty timestamp list is well defined.
LEMMA LeastElement ==
  ASSUME NEW S \in SUBSET Nat, S # {}
  PROVE  \E i \in S : \A j \in S : i <= j
<1>1. \E i \in S : \A j \in S : ~(<<j, i>> \in OpToRel(<, Nat))
  BY NatLessThanWellFounded, WFMin, Zenon
<1>2. \A i, j \in Nat : <<j, i>> \notin OpToRel(<, Nat) => i <= j
  BY DEF OpToRel
<1>3. QED
  BY <1>1, <1>2

\* The window is a positive number of ticks.
LEMMA WindowType == Window \in Nat
  BY LimiterAssumption DEF Window

\* The positions in the window are a finite set of positions.
LEMMA FreshFinite ==
  ASSUME TypeOK, NEW b \in Buckets
  PROVE  /\ Fresh(b) \subseteq 1..Len(admissions[b])
         /\ Len(admissions[b]) \in Nat
         /\ IsFiniteSet(Fresh(b))
         /\ Cardinality(Fresh(b)) \in Nat
<1>1. Fresh(b) \subseteq 1..Len(admissions[b]) /\ Len(admissions[b]) \in Nat
  BY DEF TypeOK, Fresh
<1>2. IsFiniteSet(1..Len(admissions[b]))
  BY <1>1, FS_Interval
<1>3. QED
  BY <1>1, <1>2, FS_Subset, FS_CardinalityType

\* The times of the admissions are naturals.
LEMMA TimesAreNat ==
  ASSUME TypeOK, NEW b \in Buckets
  PROVE  /\ Len(admissions[b]) \in Nat
         /\ \A i \in 1..Len(admissions[b]) : admissions[b][i] \in Nat
<1>1. admissions[b] \in Seq(Nat)
  BY DEF TypeOK
<1>2. \A i \in 1..Len(admissions[b]) : admissions[b][i] \in Nat
  BY <1>1
<1>3. QED
  BY <1>1, <1>2

\* Retry-After is a natural number of seconds.
LEMMA RetryAfterType ==
  ASSUME TypeOK, NEW b \in Buckets, Cardinality(Fresh(b)) >= Limit
  PROVE  RetryAfter(b) \in Nat
<1>1. Fresh(b) # {}
  BY FS_EmptySet, FreshFinite, LimiterAssumption
<1>2. Fresh(b) \in SUBSET Nat
  BY FreshFinite
<1> DEFINE head == CHOOSE i \in Fresh(b) : \A j \in Fresh(b) : i <= j
<1>3. head \in Fresh(b)
  BY <1>1, <1>2, LeastElement
<1>4. Oldest(b) = admissions[b][head]
  BY DEF Oldest
<1> HIDE DEF head
<1>5. admissions[b][head] \in Nat
  BY <1>3, FreshFinite, TimesAreNat
<1>6. Oldest(b) + Window - now \in Int
  BY <1>4, <1>5, WindowType DEF TypeOK
<1>7. QED
  BY <1>6, LimiterAssumption DEF RetryAfter

-----------------------------------------------------------------------------
\* Nothing has been admitted at the start.
LEMMA TypeInit == Init => TypeOK
  BY DEF Init, TypeOK

\* A request and the passing of time keep the types.
LEMMA TypeStep == TypeOK /\ [Next]_vars => TypeOK'
<1> SUFFICES ASSUME TypeOK, [Next]_vars PROVE TypeOK'
  OBVIOUS
<1>1. CASE Tick
  BY <1>1 DEF Tick, TypeOK
<1>2. ASSUME NEW p \in Processes, NEW c \in Clients, Admit(p, c) PROVE TypeOK'
  <2> DEFINE b == Bucket(p, c)
  <2>1. b \in Buckets
    BY DEF Keys, Buckets, Bucket
  <2> HIDE DEF b
  <2>2. admissions' = [admissions EXCEPT ![b] = Append(@, now)]
        /\ kept' = [kept EXCEPT ![b] = Fresh(b) \cup {Len(admissions[b]) + 1}]
        /\ due' = [due EXCEPT ![b] = 0] /\ now' = now
    BY <1>2 DEF Admit, b
  <2>3. admissions' \in [Buckets -> Seq(Nat)]
    <3>1. now \in Nat
      BY DEF TypeOK
    <3>2. Append(admissions[b], now) \in Seq(Nat)
      BY <2>1, <3>1 DEF TypeOK
    <3>3. QED
      BY <2>1, <2>2, <3>2 DEF TypeOK
  <2>4. \A q \in Buckets : kept'[q] \subseteq 1..Len(admissions'[q])
    BY <2>1, <2>2, FreshFinite DEF TypeOK
  <2>5. kept' \in [Buckets -> SUBSET Nat]
    BY <2>1, <2>2, FreshFinite DEF TypeOK
  <2>6. answer' \in Answer
    BY <1>2, <2>1, FreshFinite, LimiterAssumption DEF Admit, b, Answer, TypeOK
  <2>7. QED
    BY <2>2, <2>3, <2>4, <2>5, <2>6 DEF TypeOK
<1>3. ASSUME NEW p \in Processes, NEW c \in Clients, Refuse(p, c) PROVE TypeOK'
  <2> DEFINE b == Bucket(p, c)
  <2>1. b \in Buckets
    BY DEF Keys, Buckets, Bucket
  <2>2. RetryAfter(b) \in Nat /\ RetryAfter(b) * Second \in Nat
    BY <1>3, <2>1, RetryAfterType, LimiterAssumption DEF Refuse
  <2> HIDE DEF b
  <2>3. kept' = [kept EXCEPT ![b] = Fresh(b)]
        /\ due' = [due EXCEPT ![b] = now + RetryAfter(b) * Second]
        /\ UNCHANGED <<now, admissions>>
    BY <1>3 DEF Refuse, b
  <2>4. answer' \in Answer
    BY <1>3, <2>1 DEF Refuse, b, Answer, TypeOK
  <2>5. Fresh(b) \subseteq 1..Len(admissions[b]) /\ Fresh(b) \in SUBSET Nat
    BY <2>1, FreshFinite
  <2>6. due' \in [Buckets -> Nat]
    BY <2>1, <2>2, <2>3 DEF TypeOK
  <2>7. kept' \in [Buckets -> SUBSET Nat] /\ \A q \in Buckets : kept'[q] \subseteq 1..Len(admissions'[q])
    BY <2>1, <2>3, <2>5 DEF TypeOK
  <2>8. QED
    BY <2>3, <2>4, <2>6, <2>7 DEF TypeOK
<1>4. CASE UNCHANGED vars
  BY <1>4 DEF vars, TypeOK
<1>5. QED
  BY <1>1, <1>2, <1>3, <1>4 DEF Next

\* Type correctness of the limiter.
THEOREM TypeCorrect == Spec => []TypeOK
  BY TypeInit, TypeStep, PTL DEF Spec

-----------------------------------------------------------------------------
(***************************************************************************)
(* The inductive invariant behind the limit: in a bucket, an admission and *)
(* the Limit-th one after it are at least a window apart.  Spaced alone is *)
(* not inductive: it also takes that the admissions are in the order of    *)
(* time and that what the list has lost has left the window.               *)
(***************************************************************************)
Spaced ==
    \A b \in Buckets : \A i \in 1..Len(admissions[b]) :
        i + Limit <= Len(admissions[b]) =>
            admissions[b][i] + Window <= admissions[b][i + Limit]

InOrder ==
    \A b \in Buckets : \A i \in 1..Len(admissions[b]) :
        /\ admissions[b][i] <= now
        /\ \A j \in 1..Len(admissions[b]) : i <= j => admissions[b][i] <= admissions[b][j]

ForgottenIsOld ==
    \A b \in Buckets : \A i \in 1..Len(admissions[b]) :
        i \notin kept[b] => admissions[b][i] + Window <= now

LimiterInv == TypeOK /\ InOrder /\ ForgottenIsOld /\ Spaced

\* If the list is shorter than the limit, the Limit-th admission counted
\* from the end has left the window: otherwise it and the later ones, Limit
\* in all, would still be in the list.
LEMMA RoomInWindow ==
  ASSUME LimiterInv, NEW b \in Buckets, Cardinality(Fresh(b)) < Limit,
         Len(admissions[b]) >= Limit
  PROVE  admissions[b][Len(admissions[b]) + 1 - Limit] + Window <= now
<1> DEFINE n == Len(admissions[b])
           tail == (n + 1 - Limit)..n
<1>1. n \in Nat /\ Limit \in Nat \ {0} /\ n >= Limit
  BY TimesAreNat, LimiterAssumption DEF LimiterInv
<1> HIDE DEF n
<1>2. IsFiniteSet(tail) /\ Cardinality(tail) = Limit
  BY <1>1, FS_Interval
<1>3. ~(tail \subseteq Fresh(b))
  <2> SUFFICES ASSUME tail \subseteq Fresh(b) PROVE FALSE
    OBVIOUS
  <2>1. Cardinality(tail) <= Cardinality(Fresh(b))
    BY FreshFinite, FS_Subset DEF LimiterInv
  <2>2. QED
    BY <1>1, <1>2, <2>1, FreshFinite DEF LimiterInv
<1>4. PICK i \in tail : i \notin Fresh(b)
  BY <1>3
<1>5. i \in 1..n /\ n + 1 - Limit \in 1..n /\ n + 1 - Limit <= i
  BY <1>1, <1>4
<1>6. admissions[b][i] + Window <= now
  BY <1>4, <1>5, TimesAreNat, WindowType DEF n, LimiterInv, ForgottenIsOld, Fresh, TypeOK
<1>7. admissions[b][n + 1 - Limit] <= admissions[b][i]
  BY <1>5 DEF n, LimiterInv, InOrder
<1>8. QED
  BY <1>5, <1>6, <1>7, TimesAreNat, WindowType DEF n, LimiterInv, TypeOK

\* The invariant holds at the start and every step keeps it.
LEMMA LimiterInvInductive == 
  /\ Init => LimiterInv
  /\ LimiterInv /\ [Next]_vars => LimiterInv'
<1>1. Init => LimiterInv
  BY TypeInit DEF Init, LimiterInv, InOrder, ForgottenIsOld, Spaced
<1>2. ASSUME LimiterInv, [Next]_vars PROVE LimiterInv'
  <2> TypeOK /\ TypeOK'
    BY <1>2, TypeStep DEF LimiterInv
  <2>1. CASE Tick
    <3>1. now' \in Nat /\ now <= now' /\ UNCHANGED <<admissions, kept>>
      BY <2>1 DEF Tick, TypeOK
    <3>2. InOrder'
      BY <1>2, <3>1, TimesAreNat DEF LimiterInv, InOrder, TypeOK
    <3>3. ForgottenIsOld'
      BY <1>2, <3>1, TimesAreNat, WindowType DEF LimiterInv, ForgottenIsOld, TypeOK
    <3>4. Spaced'
      BY <1>2, <3>1 DEF LimiterInv, Spaced
    <3>5. QED
      BY <3>2, <3>3, <3>4 DEF LimiterInv
  <2>2. ASSUME NEW p \in Processes, NEW c \in Clients, Admit(p, c) PROVE LimiterInv'
    <3> DEFINE b == Bucket(p, c)
               n == Len(admissions[b])
    <3>1. b \in Buckets
      BY DEF Keys, Buckets, Bucket
    <3>2. /\ Cardinality(Fresh(b)) < Limit
          /\ admissions' = [admissions EXCEPT ![b] = Append(@, now)]
          /\ kept' = [kept EXCEPT ![b] = Fresh(b) \cup {n + 1}]
          /\ now' = now
      BY <2>2 DEF Admit
    <3> HIDE DEF b
    <3>3. /\ n \in Nat
          /\ Len(admissions'[b]) = n + 1
          /\ admissions'[b][n + 1] = now
          /\ \A i \in 1..n : admissions'[b][i] = admissions[b][i]
          /\ \A q \in Buckets \ {b} : admissions'[q] = admissions[q] /\ kept'[q] = kept[q]
          /\ kept'[b] = Fresh(b) \cup {n + 1}
      BY <3>1, <3>2 DEF TypeOK
    <3>4. InOrder'
      <4> SUFFICES ASSUME NEW q \in Buckets, NEW i \in 1..Len(admissions'[q])
                   PROVE  /\ admissions'[q][i] <= now'
                          /\ \A j \in 1..Len(admissions'[q]) :
                               i <= j => admissions'[q][i] <= admissions'[q][j]
        BY DEF InOrder
      <4>1. CASE q # b
        BY <4>1, <1>2, <3>2, <3>3 DEF LimiterInv, InOrder
      <4>2. CASE q = b
        BY <4>2, <1>2, <3>1, <3>2, <3>3, TimesAreNat DEF LimiterInv, InOrder, TypeOK
      <4>3. QED
        BY <4>1, <4>2
    <3>5. ForgottenIsOld'
      <4> SUFFICES ASSUME NEW q \in Buckets, NEW i \in 1..Len(admissions'[q]), i \notin kept'[q]
                   PROVE  admissions'[q][i] + Window <= now'
        BY DEF ForgottenIsOld, Window
      <4>1. CASE q # b
        BY <4>1, <1>2, <3>2, <3>3 DEF LimiterInv, ForgottenIsOld
      <4>2. CASE q = b
        <5>1. i \in 1..n /\ i \notin Fresh(b) /\ admissions'[q][i] = admissions[b][i]
          BY <4>2, <3>3
        <5>2. admissions[b][i] \in Nat /\ Window \in Nat /\ now \in Nat
          BY <5>1, <1>2, <3>1, TimesAreNat, WindowType DEF LimiterInv, TypeOK
        <5>3. CASE i \in kept[b]
          BY <5>1, <5>2, <5>3, <3>2, <4>2 DEF Fresh
        <5>4. CASE i \notin kept[b]
          BY <5>1, <5>4, <1>2, <3>1, <3>2, <4>2 DEF LimiterInv, ForgottenIsOld
        <5>5. QED
          BY <5>3, <5>4
      <4>3. QED
        BY <4>1, <4>2
    <3>6. Spaced'
      <4> SUFFICES ASSUME NEW q \in Buckets, NEW i \in 1..Len(admissions'[q]),
                          i + Limit <= Len(admissions'[q])
                   PROVE  admissions'[q][i] + Window <= admissions'[q][i + Limit]
        BY DEF Spaced, Window
      <4>1. CASE q # b
        BY <4>1, <1>2, <3>3 DEF LimiterInv, Spaced
      <4>2. CASE q = b /\ i + Limit <= n
        <5>1. i \in 1..n /\ i + Limit \in 1..n
          BY <4>2, <3>3, LimiterAssumption
        <5>2. QED
          BY <5>1, <4>2, <1>2, <3>1, <3>3 DEF LimiterInv, Spaced
      <4>3. CASE q = b /\ i + Limit = n + 1
        <5> HIDE DEF n
        <5>0. i \in 1..(n + 1) /\ n \in Nat /\ Limit \in Nat \ {0}
          BY <4>3, <3>3, LimiterAssumption
        <5>1. i \in 1..n /\ i = n + 1 - Limit /\ n >= Limit
          BY <4>3, <5>0
        <5> USE DEF n
        <5>2. admissions[b][i] + Window <= now
          BY <5>1, <1>2, <3>1, <3>2, RoomInWindow
        <5>3. QED
          BY <5>1, <5>2, <4>3, <3>3
      <4>4. ASSUME q = b PROVE i + Limit <= n \/ i + Limit = n + 1
        <5> HIDE DEF n
        <5>1. i \in 1..(n + 1) /\ n \in Nat /\ Limit \in Nat \ {0} /\ i + Limit <= n + 1
          BY <4>4, <3>3, LimiterAssumption
        <5>2. QED
          BY <5>1
      <4>5. QED
        BY <4>1, <4>2, <4>3, <4>4
    <3>7. QED
      BY <3>4, <3>5, <3>6 DEF LimiterInv
  <2>3. ASSUME NEW p \in Processes, NEW c \in Clients, Refuse(p, c) PROVE LimiterInv'
    <3> DEFINE b == Bucket(p, c)
    <3>1. b \in Buckets
      BY DEF Keys, Buckets, Bucket
    <3>2. /\ kept' = [kept EXCEPT ![b] = Fresh(b)]
          /\ UNCHANGED <<now, admissions>>
      BY <2>3 DEF Refuse
    <3> HIDE DEF b
    <3>3. InOrder' /\ Spaced'
      BY <1>2, <3>2 DEF LimiterInv, InOrder, Spaced
    <3>4. ForgottenIsOld'
      <4> SUFFICES ASSUME NEW q \in Buckets, NEW i \in 1..Len(admissions[q]), i \notin kept'[q]
                   PROVE  admissions[q][i] + Window <= now
        BY <3>2 DEF ForgottenIsOld, Window
      <4>1. CASE i \notin kept[q]
        BY <4>1, <1>2 DEF LimiterInv, ForgottenIsOld
      <4>2. CASE i \in kept[q]
        <5>1. q = b /\ i \notin Fresh(b)
          BY <4>2, <3>1, <3>2 DEF TypeOK
        <5>2. QED
          BY <5>1, <4>2, TimesAreNat, WindowType DEF Fresh, TypeOK
      <4>3. QED
        BY <4>1, <4>2
    <3>5. QED
      BY <3>3, <3>4 DEF LimiterInv
  <2>4. CASE UNCHANGED vars
    BY <2>4, <1>2 DEF vars, LimiterInv, TypeOK, InOrder, ForgottenIsOld, Spaced
  <2>5. QED
    BY <1>2, <2>1, <2>2, <2>3, <2>4 DEF Next
<1>3. QED
  BY <1>1, <1>2

\* One process admits at most Limit requests under a key in any interval: the
\* first of them and the ones less than Limit places after it are all there is.
LEMMA ServedBounded ==
  ASSUME LimiterInv, NEW b \in Buckets, NEW t \in Nat, Served(b, t) # {}
  PROVE  \E m \in 1..Len(admissions[b]) : Served(b, t) \subseteq m..(m + Limit - 1)
<1> DEFINE S == Served(b, t)
           n == Len(admissions[b])
<1>1. n \in Nat /\ Limit \in Nat \ {0} /\ Window \in Nat /\ TypeOK
  BY TimesAreNat, WindowType, LimiterAssumption DEF LimiterInv
<1>2. S \subseteq 1..n /\ S # {} /\ S \in SUBSET Nat
  BY DEF Served
<1>3. PICK m \in S : \A j \in S : m <= j
  BY <1>2, LeastElement
<1>4. \A i \in 1..n : admissions[b][i] \in Nat
  BY <1>1, TimesAreNat
<1>5. ASSUME NEW j \in S PROVE j \in m..(m + Limit - 1)
  <2>1. j \in 1..n /\ m \in 1..n /\ m <= j
    BY <1>2, <1>3, <1>5
  <2>2. t <= admissions[b][m] /\ admissions[b][j] < t + Window
    BY <1>3, <1>5 DEF Served
  <2>3. CASE j >= m + Limit
    <3> HIDE DEF n, S
    <3>1. m + Limit \in 1..n /\ m + Limit <= n
      BY <2>1, <2>3, <1>1
    <3> USE DEF n
    <3>2. admissions[b][m] + Window <= admissions[b][m + Limit]
      BY <2>1, <3>1 DEF LimiterInv, Spaced
    <3>3. admissions[b][m + Limit] <= admissions[b][j]
      BY <2>1, <2>3, <3>1 DEF LimiterInv, InOrder
    <3>4. /\ admissions[b][m] \in Nat /\ admissions[b][j] \in Nat
          /\ admissions[b][m + Limit] \in Nat
      BY <2>1, <3>1, <1>4
    <3>5. \A first, last, past \in Nat :
             ~ (t <= first /\ last < t + Window /\ first + Window <= past /\ past <= last)
      BY <1>1
    <3>6. QED
      BY <2>2, <3>2, <3>3, <3>4, <3>5, Zenon
  <2>4. CASE ~(j >= m + Limit)
    <3> HIDE DEF n, S
    <3>1. QED
      BY <2>1, <2>4, <1>1
  <2>5. QED
    BY <2>3, <2>4
<1>6. QED
  BY <1>2, <1>3, <1>5

\* The part of one process: where its admissions of the interval start, at most
\* Limit of them.
First(k, t, p) ==
  CHOOSE m \in 1..Len(admissions[<<p, k>>]) : Served(<<p, k>>, t) \subseteq m..(m + Limit - 1)

\* The limit holds in every interval of time, for every limit and window: each
\* process keeps its own, and counting the places after the first admission of
\* each process tells the admissions of the service apart.
THEOREM WindowBoundHolds == Spec => []WindowBound
<1>1. LimiterInv => WindowBound
  <2> SUFFICES ASSUME LimiterInv, NEW k \in Keys, NEW t \in 0..now
               PROVE  /\ \A p \in Processes : Cardinality(Served(<<p, k>>, t)) <= Limit
                      /\ Cardinality(Admitted(k, t)) <= Limit * Cardinality(Serving(k, t))
    BY DEF WindowBound
  <2> DEFINE places == 0..(Limit - 1)
  <2>1. t \in Nat /\ Limit \in Nat \ {0} /\ TypeOK
    BY LimiterAssumption DEF LimiterInv, TypeOK
  <2>2. IsFiniteSet(places) /\ Cardinality(places) = Limit
    BY <2>1, FS_Interval
  <2>3. ASSUME NEW p \in Serving(k, t)
        PROVE  /\ First(k, t, p) \in Nat
               /\ Served(<<p, k>>, t) \subseteq First(k, t, p)..(First(k, t, p) + Limit - 1)
    <3>1. <<p, k>> \in Buckets /\ Served(<<p, k>>, t) # {}
      BY DEF Serving, Buckets
    <3>2. \E m \in 1..Len(admissions[<<p, k>>]) : Served(<<p, k>>, t) \subseteq m..(m + Limit - 1)
      BY <3>1, <2>1, ServedBounded
    <3>3. /\ First(k, t, p) \in 1..Len(admissions[<<p, k>>])
          /\ Served(<<p, k>>, t) \subseteq First(k, t, p)..(First(k, t, p) + Limit - 1)
      BY <3>2 DEF First
    <3>4. QED
      BY <3>3
  <2>4. ASSUME NEW p \in Processes PROVE Cardinality(Served(<<p, k>>, t)) <= Limit
    <3>1. CASE p \in Serving(k, t)
      <4> DEFINE m == First(k, t, p)
                 I == m..(m + Limit - 1)
      <4>1. m \in Nat /\ Served(<<p, k>>, t) \subseteq I
        BY <3>1, <2>3
      <4> HIDE DEF m
      <4>2. IsFiniteSet(I) /\ Cardinality(I) = Limit
        BY <4>1, <2>1, FS_Interval
      <4>3. Cardinality(Served(<<p, k>>, t)) <= Cardinality(I)
        BY <4>1, <4>2, FS_Subset
      <4>4. QED
        BY <4>2, <4>3
    <3>2. CASE p \notin Serving(k, t)
      BY <3>2, <2>1, FS_EmptySet DEF Serving
    <3>3. QED
      BY <3>1, <3>2
  <2>5. Cardinality(Admitted(k, t)) <= Limit * Cardinality(Serving(k, t))
    <3> DEFINE T == Admitted(k, t)
               R == Serving(k, t) \X places
               f == [x \in T |-> <<x[1], x[2] - First(k, t, x[1])>>]
    <3>1. ASSUME NEW x \in T
          PROVE  /\ x[1] \in Serving(k, t) /\ x[2] \in Served(<<x[1], k>>, t)
                 /\ x = <<x[1], x[2]>>
      <4>1. PICK p \in Processes : x \in {p} \X Served(<<p, k>>, t)
        BY <3>1 DEF Admitted
      <4>2. x[1] = p /\ x[2] \in Served(<<p, k>>, t) /\ x = <<x[1], x[2]>>
        BY <4>1
      <4>3. p \in Serving(k, t)
        BY <4>2 DEF Serving
      <4>4. QED
        BY <4>2, <4>3
    <3>2. ASSUME NEW x \in T
          PROVE  /\ x[2] \in Int /\ First(k, t, x[1]) \in Nat
                 /\ x[2] - First(k, t, x[1]) \in places
      <4> DEFINE m == First(k, t, x[1])
      <4>1. m \in Nat /\ x[2] \in m..(m + Limit - 1)
        BY <3>1, <3>2, <2>3
      <4> HIDE DEF m
      <4>2. x[2] \in Int /\ x[2] - m \in places
        BY <4>1, <2>1
      <4>3. QED
        BY <4>1, <4>2 DEF m
    <3>3. f \in [T -> R]
      BY <3>1, <3>2
    <3>4. ASSUME NEW x \in T, NEW y \in T, f[x] = f[y] PROVE x = y
      <4>1. x[1] = y[1] /\ x[2] - First(k, t, x[1]) = y[2] - First(k, t, y[1])
        BY <3>4
      <4>2. x[2] = y[2]
        BY <4>1, <3>2
      <4>3. QED
        BY <4>1, <4>2, <3>1
    <3>5. f \in Injection(T, R)
      BY <3>3, <3>4 DEF Injection, IsInjective
    <3>6. IsFiniteSet(Serving(k, t)) /\ Cardinality(Serving(k, t)) \in Nat
      BY LimiterAssumption, FS_Subset, FS_CardinalityType DEF Serving
    <3>7. IsFiniteSet(R) /\ Cardinality(R) = Cardinality(Serving(k, t)) * Limit
      BY <3>6, <2>2, FS_Product
    <3> HIDE DEF R, T, f
    <3>8. Cardinality(T) <= Cardinality(R)
      BY <3>5, <3>7, FS_Injection
    <3>9. Cardinality(T) <= Limit * Cardinality(Serving(k, t))
      BY <3>6, <3>7, <3>8, <2>1
    <3>10. QED
      BY <3>9 DEF T
  <2>6. QED
    BY <2>4, <2>5
<1>2. QED
  BY <1>1, LimiterInvInductive, PTL DEF Spec

-----------------------------------------------------------------------------
(***************************************************************************)
(* What the answers say.  The list never holds more than Limit timestamps, *)
(* and while a client is told to wait, the list holds fewer than Limit of  *)
(* those that last until a second after the time it was told.              *)
(***************************************************************************)
KeptBounded ==
    \A b \in Buckets : IsFiniteSet(kept[b]) /\ Cardinality(kept[b]) <= Limit

Lasting(b, t) == {i \in kept[b] : admissions[b][i] + Window >= t}

DueIsEnough ==
    \A b \in Buckets : due[b] # 0 => Cardinality(Lasting(b, due[b] + Second)) < Limit

AnswerInv == LimiterInv /\ KeptBounded /\ DueIsEnough /\ AnswerMatchesWindow /\ RetryWithinASecond

\* Cutting to whole seconds loses less than a second.
LEMMA WholeSeconds ==
  ASSUME NEW wait \in Nat
  PROVE  (wait \div Second) \in Nat /\ wait < (wait \div Second) * Second + Second
<1>1. wait = Second * (wait \div Second) + (wait % Second)
  BY LimiterAssumption
<1>2. wait % Second \in 0..(Second - 1) /\ wait \div Second \in Nat
  BY LimiterAssumption
<1>3. QED
  BY <1>1, <1>2, LimiterAssumption

\* The list holds the admissions of the window: what it forgot is old.
LEMMA FreshIsWindow ==
  ASSUME LimiterInv, NEW b \in Buckets
  PROVE  Fresh(b) = InWindow(b, now)
<1>1. \A i \in 1..Len(admissions[b]) : i \notin kept[b] => ~(admissions[b][i] + Window > now)
  BY TimesAreNat, WindowType DEF LimiterInv, ForgottenIsOld, TypeOK
<1>2. kept[b] \subseteq 1..Len(admissions[b])
  BY DEF LimiterInv, TypeOK
<1>3. QED
  BY <1>1, <1>2 DEF Fresh, InWindow

\* The window never holds more than the list.
LEMMA FreshBounded ==
  ASSUME TypeOK, KeptBounded, NEW b \in Buckets
  PROVE  Cardinality(Fresh(b)) <= Limit
<1>1. Fresh(b) \subseteq kept[b] /\ IsFiniteSet(kept[b]) /\ Cardinality(kept[b]) <= Limit
  BY DEF Fresh, KeptBounded
<1>2. Cardinality(Fresh(b)) <= Cardinality(kept[b])
  BY <1>1, FS_Subset
<1>3. Cardinality(Fresh(b)) \in Nat /\ Cardinality(kept[b]) \in Nat
  BY <1>1, FreshFinite, FS_CardinalityType
<1>4. QED
  BY <1>1, <1>2, <1>3, LimiterAssumption

\* A client that is refused again came back before a second had passed after the
\* time it was told.
LEMMA RefusedBeforeDue ==
  ASSUME TypeOK, KeptBounded, DueIsEnough, NEW b \in Buckets, due[b] # 0, Cardinality(Fresh(b)) >= Limit
  PROVE  now < due[b] + Second
<1> SUFFICES ASSUME now >= due[b] + Second PROVE FALSE
  BY LimiterAssumption DEF TypeOK
<1> DEFINE L == Lasting(b, due[b] + Second)
<1>1. due[b] \in Nat /\ now \in Nat /\ Second \in Nat
  BY LimiterAssumption DEF TypeOK
<1>2. Fresh(b) \subseteq L
  <2> SUFFICES ASSUME NEW i \in Fresh(b) PROVE i \in L
    OBVIOUS
  <2>1. i \in kept[b] /\ admissions[b][i] + Window > now /\ admissions[b][i] \in Nat
    BY FreshFinite, TimesAreNat DEF Fresh
  <2>2. QED
    BY <2>1, <1>1, WindowType DEF Lasting
<1>3. L \subseteq kept[b] /\ IsFiniteSet(kept[b])
  BY DEF Lasting, KeptBounded
<1>4. Cardinality(L) < Limit
  BY DEF DueIsEnough
<1> HIDE DEF L
<1>5. IsFiniteSet(L) /\ Cardinality(L) \in Nat
  BY <1>3, FS_Subset, FS_CardinalityType
<1>6. Cardinality(Fresh(b)) <= Cardinality(L)
  BY <1>2, <1>5, FS_Subset
<1>7. QED
  BY <1>4, <1>5, <1>6, FreshFinite, LimiterAssumption

\* A second after the time a refusal tells, the oldest timestamp has left the list.
LEMMA RetryIsEnough ==
  ASSUME TypeOK, KeptBounded, NEW b \in Buckets, Cardinality(Fresh(b)) >= Limit
  PROVE  Cardinality({i \in Fresh(b) :
              admissions[b][i] + Window >= now + RetryAfter(b) * Second + Second}) < Limit
<1> DEFINE late == {i \in Fresh(b) : admissions[b][i] + Window >= now + RetryAfter(b) * Second + Second}
           head == CHOOSE i \in Fresh(b) : \A j \in Fresh(b) : i <= j
<1>1. Fresh(b) # {} /\ Fresh(b) \in SUBSET Nat
  BY FS_EmptySet, FreshFinite, LimiterAssumption
<1>2. head \in Fresh(b)
  BY <1>1, LeastElement
<1>3. Oldest(b) = admissions[b][head]
  BY DEF Oldest
<1> HIDE DEF head
<1>4. Oldest(b) \in Nat /\ now \in Nat /\ Window \in Nat /\ Oldest(b) + Window > now
  BY <1>2, <1>3, FreshFinite, TimesAreNat, WindowType DEF Fresh, TypeOK
<1>5. Oldest(b) + Window < now + RetryAfter(b) * Second + Second
  <2> DEFINE wait == Oldest(b) + Window - now
  <2>1. wait \in Nat /\ Oldest(b) + Window = now + wait
    BY <1>4
  <2>2. RetryAfter(b) = IF wait < Second THEN 1 ELSE wait \div Second
    BY DEF RetryAfter
  <2> HIDE DEF wait
  <2>3. CASE wait < Second
    BY <2>1, <2>2, <2>3, <1>4, LimiterAssumption
  <2>4. CASE ~(wait < Second)
    BY <2>1, <2>2, <2>4, <1>4, WholeSeconds, LimiterAssumption
  <2>5. QED
    BY <2>3, <2>4
<1>6. RetryAfter(b) * Second \in Nat
  BY RetryAfterType, LimiterAssumption
<1>7. late \subseteq Fresh(b) \ {head}
  BY <1>3, <1>4, <1>5, <1>6, LimiterAssumption
<1> HIDE DEF late
<1>8. IsFiniteSet(Fresh(b) \ {head}) /\ Cardinality(Fresh(b) \ {head}) = Cardinality(Fresh(b)) - 1
  BY <1>2, FreshFinite, FS_RemoveElement
<1>9. IsFiniteSet(late) /\ Cardinality(late) <= Cardinality(Fresh(b)) - 1
  BY <1>7, <1>8, FS_Subset
<1>10. Cardinality(late) < Limit
  BY <1>9, FreshBounded, FreshFinite, FS_CardinalityType, LimiterAssumption
<1>11. QED
  BY <1>10 DEF late

\* An admission in bucket b leaves one place less in its window.
LEMMA AdmitAnswers ==
  ASSUME AnswerInv, TypeOK', NEW p \in Processes, NEW c \in Clients, Admit(p, c)
  PROVE  KeptBounded' /\ DueIsEnough' /\ AnswerMatchesWindow' /\ RetryWithinASecond'
<1> DEFINE b == Bucket(p, c)
           n == Len(admissions[b])
<1>1. b \in Buckets
  BY DEF Keys, Buckets, Bucket
<1>2. /\ Cardinality(Fresh(b)) < Limit
      /\ admissions' = [admissions EXCEPT ![b] = Append(@, now)]
      /\ kept' = [kept EXCEPT ![b] = Fresh(b) \cup {n + 1}]
      /\ due' = [due EXCEPT ![b] = 0]
      /\ answer' = [from |-> p, by |-> c, at |-> now, status |-> 200,
                    remaining |-> Limit - (Cardinality(Fresh(b)) + 1), due |-> due[b]]
      /\ now' = now
  BY DEF Admit
<1> TypeOK /\ LimiterInv /\ KeptBounded /\ DueIsEnough
  BY DEF AnswerInv, LimiterInv
<1>3. Cardinality(Fresh(b)) \in Nat /\ IsFiniteSet(Fresh(b)) /\ Fresh(b) \subseteq 1..n /\ n \in Nat
  BY <1>1, FreshFinite
<1>4. /\ IsFiniteSet(Fresh(b) \cup {n + 1})
      /\ Cardinality(Fresh(b) \cup {n + 1}) = Cardinality(Fresh(b)) + 1
  <2>1. n + 1 \notin Fresh(b)
    BY <1>3
  <2>2. QED
    BY <1>3, <2>1, FS_AddElement
<1> HIDE DEF b, n
<1>5. KeptBounded'
  <2> SUFFICES ASSUME NEW q \in Buckets PROVE IsFiniteSet(kept'[q]) /\ Cardinality(kept'[q]) <= Limit
    BY DEF KeptBounded
  <2>1. CASE q = b
    BY <2>1, <1>1, <1>2, <1>3, <1>4, LimiterAssumption DEF TypeOK
  <2>2. CASE q # b
    BY <2>2, <1>2 DEF TypeOK, KeptBounded
  <2>3. QED
    BY <2>1, <2>2
<1>6. DueIsEnough'
  <2> SUFFICES ASSUME NEW q \in Buckets, due'[q] # 0
               PROVE  Cardinality({i \in kept'[q] : admissions'[q][i] + Window >= due'[q] + Second}) < Limit
    BY DEF DueIsEnough, Lasting, Window
  <2>1. q # b
    BY <1>1, <1>2 DEF TypeOK
  <2>2. kept'[q] = kept[q] /\ admissions'[q] = admissions[q] /\ due'[q] = due[q]
    BY <2>1, <1>2 DEF TypeOK
  <2>3. QED
    BY <2>2 DEF DueIsEnough, Lasting
<1>7. AnswerMatchesWindow'
  <2>1. answer'.from = p /\ answer'.by = c /\ answer'.at = now /\ answer'.status = 200
        /\ answer'.remaining = Limit - (Cardinality(Fresh(b)) + 1)
    BY <1>2
  <2>2. {i \in 1..Len(admissions'[b]) : admissions'[b][i] + Window > now} = Fresh(b) \cup {n + 1}
    <3>1. Len(admissions'[b]) = n + 1 /\ admissions'[b][n + 1] = now
          /\ \A i \in 1..n : admissions'[b][i] = admissions[b][i]
      BY <1>1, <1>2, <1>3 DEF n, TypeOK
    <3>2. Fresh(b) = {i \in 1..n : admissions[b][i] + Window > now}
      BY <1>1, FreshIsWindow DEF InWindow, n
    <3>3. now + Window > now
      BY WindowType, LimiterAssumption DEF TypeOK, Window
    <3>4. QED
      BY <3>1, <3>2, <3>3, <1>3
  <2>3. InWindow(Bucket(answer.from, answer.by), answer.at)' = Fresh(b) \cup {n + 1}
    BY <2>1, <2>2 DEF InWindow, Window, b
  <2>4. Cardinality(InWindow(Bucket(answer.from, answer.by), answer.at))' = Cardinality(Fresh(b)) + 1
    BY <2>3, <1>4
  <2>5. QED
    BY <2>1, <2>4, <1>3, LimiterAssumption DEF AnswerMatchesWindow
<1>8. RetryWithinASecond'
  BY <1>2 DEF RetryWithinASecond
<1>9. QED
  BY <1>5, <1>6, <1>7, <1>8

\* A refusal is given for a full window only, and tells a time that is enough.
LEMMA RefuseAnswers ==
  ASSUME AnswerInv, TypeOK', NEW p \in Processes, NEW c \in Clients, Refuse(p, c)
  PROVE  KeptBounded' /\ DueIsEnough' /\ AnswerMatchesWindow' /\ RetryWithinASecond'
<1> DEFINE b == Bucket(p, c)
<1>1. b \in Buckets
  BY DEF Keys, Buckets, Bucket
<1>2. /\ Cardinality(Fresh(b)) >= Limit
      /\ kept' = [kept EXCEPT ![b] = Fresh(b)]
      /\ due' = [due EXCEPT ![b] = now + RetryAfter(b) * Second]
      /\ answer' = [from |-> p, by |-> c, at |-> now, status |-> 429, remaining |-> 0, due |-> due[b]]
      /\ now' = now /\ admissions' = admissions
  BY DEF Refuse
<1> TypeOK /\ LimiterInv /\ KeptBounded /\ DueIsEnough
  BY DEF AnswerInv, LimiterInv
<1>3. Cardinality(Fresh(b)) \in Nat /\ IsFiniteSet(Fresh(b)) /\ Cardinality(Fresh(b)) = Limit
  BY <1>1, <1>2, FreshFinite, FreshBounded, LimiterAssumption
<1>4. Fresh(b) = InWindow(b, now)
  BY <1>1, FreshIsWindow
<1>5. due[b] # 0 => now < due[b] + Second
  BY <1>1, <1>2, RefusedBeforeDue
<1>6. Cardinality({i \in Fresh(b) :
          admissions[b][i] + Window >= now + RetryAfter(b) * Second + Second}) < Limit
  BY <1>1, <1>2, RetryIsEnough
<1> HIDE DEF b
<1>7. KeptBounded'
  <2> SUFFICES ASSUME NEW q \in Buckets PROVE IsFiniteSet(kept'[q]) /\ Cardinality(kept'[q]) <= Limit
    BY DEF KeptBounded
  <2>1. CASE q = b
    BY <2>1, <1>1, <1>2, <1>3, LimiterAssumption DEF TypeOK
  <2>2. CASE q # b
    BY <2>2, <1>2 DEF TypeOK, KeptBounded
  <2>3. QED
    BY <2>1, <2>2
<1>8. DueIsEnough'
  <2> SUFFICES ASSUME NEW q \in Buckets, due'[q] # 0
               PROVE  Cardinality({i \in kept'[q] : admissions'[q][i] + Window >= due'[q] + Second}) < Limit
    BY DEF DueIsEnough, Lasting, Window
  <2>1. CASE q = b
    <3>1. kept'[q] = Fresh(b) /\ due'[q] = now + RetryAfter(b) * Second /\ admissions'[q] = admissions[b]
      BY <2>1, <1>1, <1>2 DEF TypeOK
    <3>2. QED
      BY <3>1, <1>6
  <2>2. CASE q # b
    <3>1. kept'[q] = kept[q] /\ admissions'[q] = admissions[q] /\ due'[q] = due[q]
      BY <2>2, <1>2 DEF TypeOK
    <3>2. QED
      BY <3>1 DEF DueIsEnough, Lasting
  <2>3. QED
    BY <2>1, <2>2
<1>9. AnswerMatchesWindow'
  <2>1. answer'.from = p /\ answer'.by = c /\ answer'.at = now /\ answer'.status = 429
    BY <1>2
  <2>2. Cardinality(InWindow(b, now)') = Limit
    BY <1>2, <1>3, <1>4 DEF InWindow, Window
  <2>3. QED
    BY <2>1, <2>2, <1>2 DEF AnswerMatchesWindow, InWindow, Window, b
<1>10. RetryWithinASecond'
  BY <1>2, <1>5 DEF RetryWithinASecond
<1>11. QED
  BY <1>7, <1>8, <1>9, <1>10

LEMMA AnswerInvInductive ==
  /\ Init => AnswerInv
  /\ AnswerInv /\ [Next]_vars => AnswerInv'
<1>1. Init => AnswerInv
  <2> SUFFICES ASSUME Init PROVE AnswerInv
    OBVIOUS
  <2>1. KeptBounded
    BY FS_EmptySet, LimiterAssumption DEF Init, KeptBounded
  <2>2. DueIsEnough /\ AnswerMatchesWindow /\ RetryWithinASecond
    BY DEF Init, DueIsEnough, AnswerMatchesWindow, RetryWithinASecond
  <2>3. QED
    BY <2>1, <2>2, LimiterInvInductive DEF AnswerInv
<1>2. ASSUME AnswerInv, [Next]_vars PROVE AnswerInv'
  <2>1. LimiterInv' /\ TypeOK'
    BY <1>2, LimiterInvInductive DEF AnswerInv, LimiterInv
  <2>2. ASSUME UNCHANGED <<admissions, kept, due, answer>>
        PROVE  KeptBounded' /\ DueIsEnough' /\ AnswerMatchesWindow' /\ RetryWithinASecond'
    BY <1>2, <2>2 DEF AnswerInv, KeptBounded, DueIsEnough, Lasting, AnswerMatchesWindow, InWindow,
                      RetryWithinASecond, Window
  <2>3. CASE Tick \/ UNCHANGED vars
    BY <2>1, <2>2, <2>3 DEF Tick, vars, AnswerInv
  <2>4. ASSUME NEW p \in Processes, NEW c \in Clients, Admit(p, c) \/ Refuse(p, c) PROVE AnswerInv'
    BY <1>2, <2>1, <2>4, AdmitAnswers, RefuseAnswers DEF AnswerInv
  <2>5. QED
    BY <1>2, <2>3, <2>4 DEF Next
<1>3. QED
  BY <1>1, <1>2

\* A refusal means a full window, and the remaining count is what is left of it.
THEOREM AnswerMatchesWindowHolds == Spec => []AnswerMatchesWindow
<1>1. AnswerInv => AnswerMatchesWindow
  BY DEF AnswerInv
<1>2. QED
  BY <1>1, AnswerInvInductive, PTL DEF Spec

\* Obeying Retry-After and waiting one second more is enough.
THEOREM RetryWithinASecondHolds == Spec => []RetryWithinASecond
<1>1. AnswerInv => RetryWithinASecond
  BY DEF AnswerInv
<1>2. QED
  BY <1>1, AnswerInvInductive, PTL DEF Spec
=============================================================================
