------------------------- MODULE LiveUpdates_proofs -------------------------
(***************************************************************************)
(* What holds of the dashboard's charts and of the pages of the log, for   *)
(* any log, any lengths and numbers of buckets, any size of a page and any *)
(* number of calls.  ChartInv says what the rows of a chart were counted   *)
(* from, WalkInv what a reader who turns pages has seen, EventInv what     *)
(* becomes of the events on the stream.                                    *)
(***************************************************************************)
EXTENDS LiveUpdates, FiniteSetTheorems, TLAPS

(* Naturals, and rows by their rank.                                         *)

\* Every set of naturals has a least element.
LEMMA LeastNatural ==
  ASSUME NEW T \in SUBSET Nat, T # {}
  PROVE  \E n \in T : \A m \in T : n <= m
<1> DEFINE X == {0..n : n \in T}
<1>1. X \subseteq FiniteSubsetsOf(Nat)
  <2>1. ASSUME NEW n \in T PROVE 0..n \in FiniteSubsetsOf(Nat)
    <3>1. IsFiniteSet(0..n)
      BY FS_Interval
    <3>2. 0..n \in SUBSET Nat
      OBVIOUS
    <3> QED BY <3>1, <3>2 DEF FiniteSubsetsOf
  <2> QED BY <2>1
<1>2. X # {}
  OBVIOUS
<1>3. PICK x \in X : \A y \in X : ~ (<<y, x>> \in StrictSubsetOrdering(Nat))
  <2> HIDE DEF X
  <2> QED BY <1>1, <1>2, FS_StrictSubsetOrderingWellFounded, WFMin
<1>4. PICK n \in T : x = 0..n
  OBVIOUS
<1>5. ASSUME NEW m \in T, m < n PROVE FALSE
  <2>1. 0..m \in X
    OBVIOUS
  <2>2. <<0..m, 0..n>> \in StrictSubsetOrdering(Nat)
    <3>1. /\ 0..m \subseteq 0..n /\ n \notin 0..m /\ n \in 0..n
          /\ 0..m \subseteq Nat /\ 0..n \subseteq Nat
      BY <1>5
    <3> QED BY <3>1 DEF StrictSubsetOrdering
  <2> QED BY <1>3, <1>4, <2>1, <2>2
<1> QED BY <1>5

\* What the first of a bounded set is: that of Free is a load.
LEMMA MinIsIn ==
  ASSUME NEW T \in SUBSET Nat, T # {}
  PROVE  Min(T) \in T
BY LeastNatural DEF Min

\* The sums of buckets, from the last.
LEMMA LastOfSums ==
  ASSUME NEW n \in Nat, NEW b
  PROVE  /\ LastOf(b, n)[0] = 0
         /\ \A j \in 1..n : LastOf(b, n)[j] = LastOf(b, n)[j - 1] + b[n - j + 1]
<1> DEFINE Sums(f, m) == f = [j \in 0..m |-> IF j = 0 THEN 0 ELSE f[j - 1] + b[n - j + 1]]
           T == {m \in 0..n : ~ \E f : Sums(f, m)}
<1>1. T = {}
  <2> SUFFICES ASSUME T # {} PROVE FALSE
    OBVIOUS
  <2>1. PICK m \in T : \A k \in T : m <= k
    <3>1. T \in SUBSET Nat
      OBVIOUS
    <3> HIDE DEF T
    <3> QED BY <3>1, LeastNatural
  <2>2. m # 0
    <3>1. Sums([j \in 0..0 |-> 0], 0)
      OBVIOUS
    <3> QED BY <3>1
  <2>3. m - 1 \in 0..n /\ m - 1 \notin T /\ m \in 1..n
    <3>1. m \in 0..n
      OBVIOUS
    <3>2. m - 1 \in 0..n /\ m \in 1..n /\ ~ (m <= m - 1)
      BY <2>2, <3>1
    <3> HIDE DEF T
    <3> QED BY <2>1, <3>2
  <2>4. PICK f : Sums(f, m - 1)
    BY <2>3
  <2> DEFINE g == [j \in 0..m |-> IF j = m THEN f[m - 1] + b[n - m + 1] ELSE f[j]]
  <2>5. Sums(g, m)
    <3>1. \A j \in 0..(m - 1) : f[j] = IF j = 0 THEN 0 ELSE f[j - 1] + b[n - j + 1]
      BY <2>4
    <3>2. \A j \in 0..m : g[j] = IF j = 0 THEN 0 ELSE g[j - 1] + b[n - j + 1]
      BY <2>3, <3>1
    <3> HIDE DEF g
    <3>3. g = [j \in 0..m |-> g[j]]
      BY DEF g
    <3> QED BY <3>2, <3>3
  <2> HIDE DEF g
  <2> QED BY <2>1, <2>5
<1>2. \E f : Sums(f, n)
  BY <1>1
<1>3. Sums(LastOf(b, n), n)
  BY <1>2 DEF LastOf
<1> HIDE DEF T
<1>4. \A j \in 0..n : LastOf(b, n)[j] = IF j = 0 THEN 0 ELSE LastOf(b, n)[j - 1] + b[n - j + 1]
  BY <1>3
<1> QED BY <1>4

\* Rows that are newer than k.
Rank(S, k) == Cardinality({j \in S : j > k})

\* The m newest rows.
Top(S, m) == {k \in S : Rank(S, k) < m}

\* A rank counts, and of two rows the older has the higher.
LEMMA Ranks ==
  ASSUME NEW S \in SUBSET Nat, IsFiniteSet(S)
  PROVE  /\ Cardinality(S) \in Nat
         /\ \A k \in S : Rank(S, k) \in Nat /\ Rank(S, k) < Cardinality(S)
         /\ \A k, x \in S : k < x => Rank(S, x) < Rank(S, k)
<1>1. Cardinality(S) \in Nat
  BY FS_CardinalityType
<1>2. ASSUME NEW k \in S PROVE Rank(S, k) \in Nat /\ Rank(S, k) < Cardinality(S)
  <2> DEFINE N == {j \in S : j > k}
  <2>1. N \in SUBSET S /\ k \notin N
    OBVIOUS
  <2> HIDE DEF N
  <2>2. /\ IsFiniteSet(N) /\ Cardinality(N) <= Cardinality(S)
        /\ Cardinality(S) = Cardinality(N) => S = N
    BY <2>1, FS_Subset
  <2>3. Cardinality(N) \in Nat
    BY <2>2, FS_CardinalityType
  <2>4. Cardinality(N) < Cardinality(S)
    BY <1>1, <2>1, <2>2, <2>3
  <2> QED BY <2>3, <2>4 DEF N, Rank
<1>3. ASSUME NEW k \in S, NEW x \in S, k < x PROVE Rank(S, x) < Rank(S, k)
  <2> DEFINE N == {j \in S : j > k}
             M == {j \in S : j > x}
  <2>1. N \in SUBSET S /\ M \in SUBSET N /\ x \in N /\ x \notin M
    <3>1. k \in Nat /\ x \in Nat /\ \A j \in S : j \in Nat
      OBVIOUS
    <3>2. \A j \in S : j > x => j > k
      BY <1>3, <3>1
    <3>3. x > k /\ ~ (x > x)
      BY <1>3, <3>1
    <3> QED BY <3>2, <3>3
  <2>2. Cardinality(N) = Rank(S, k) /\ Cardinality(M) = Rank(S, x)
    BY DEF Rank
  <2> HIDE DEF N, M
  <2>3. IsFiniteSet(N)
    BY <2>1, FS_Subset
  <2>4. Cardinality(M) <= Cardinality(N) /\ (Cardinality(N) = Cardinality(M) => N = M)
    BY <2>1, <2>3, FS_Subset
  <2> QED BY <1>2, <2>1, <2>2, <2>4
<1> QED BY <1>1, <1>2, <1>3

\* So many of the newest rows.
LEMMA TopCount ==
  ASSUME NEW S \in SUBSET Nat, IsFiniteSet(S), NEW m \in Nat, m <= Cardinality(S)
  PROVE  Cardinality(Top(S, m)) = m
<1> DEFINE c == Cardinality(S)
           T == {i \in 0..c : Cardinality(Top(S, i)) # i}
<1>1. c \in Nat /\ m \in 0..c
  BY Ranks
<1> HIDE DEF c
<1> SUFFICES ASSUME T # {} PROVE FALSE
  BY <1>1
<1>2. PICK i \in T : \A j \in T : i <= j
  <2>1. T \in SUBSET Nat
    BY <1>1
  <2> HIDE DEF T
  <2> QED BY <2>1, LeastNatural
<1>3. i # 0
  <2>1. Top(S, 0) = {}
    <3>1. \A k \in S : ~ (Rank(S, k) < 0)
      BY Ranks
    <3> QED BY <3>1 DEF Top
  <2>2. Cardinality(Top(S, 0)) = 0
    BY <2>1, FS_EmptySet
  <2> QED BY <1>1, <1>2, <2>2
<1>4. i - 1 \in 0..c /\ i - 1 \in Nat /\ i \in Nat /\ Cardinality(Top(S, i - 1)) = i - 1
  BY <1>1, <1>2, <1>3
<1> DEFINE A == Top(S, i - 1)
<1>5. A \in SUBSET S /\ IsFiniteSet(A) /\ A # S
  <2>1. A \in SUBSET S
    BY DEF Top
  <2>2. A # S
    BY <1>1, <1>2, <1>4 DEF c
  <2> QED BY <2>1, <2>2, FS_Subset
<1>6. PICK x \in S \ A : \A y \in S \ A : y <= x
  <2> DEFINE R == {Rank(S, y) : y \in S \ A}
  <2>1. R \in SUBSET Nat /\ R # {}
    BY <1>5, Ranks
  <2> HIDE DEF R
  <2>2. PICK l \in R : \A k \in R : l <= k
    BY <2>1, LeastNatural
  <2>3. PICK x \in S \ A : l = Rank(S, x)
    BY DEF R
  <2>4. ASSUME NEW y \in S \ A PROVE y <= x
    <3>1. Rank(S, x) <= Rank(S, y) /\ Rank(S, x) \in Nat /\ Rank(S, y) \in Nat
      BY <2>2, <2>3, Ranks DEF R
    <3>2. ~ (x < y)
      BY <3>1, Ranks
    <3>3. x \in Nat /\ y \in Nat
      OBVIOUS
    <3> QED BY <3>2, <3>3
  <2> QED BY <2>3, <2>4
<1> HIDE DEF T
<1>7. {j \in S : j > x} = A
  <2>1. ASSUME NEW j \in S, j > x PROVE j \in A
    <3>1. j \in Nat /\ x \in Nat
      OBVIOUS
    <3> QED BY <1>6, <2>1, <3>1
  <2>2. ASSUME NEW j \in A PROVE j > x
    <3>1. j \in S /\ Rank(S, j) < i - 1 /\ Rank(S, j) \in Nat /\ j # x
      BY <1>5, <1>6, Ranks DEF Top
    <3>2. ~ (Rank(S, x) < i - 1) /\ Rank(S, x) \in Nat
      BY <1>6, Ranks DEF Top
    <3>3. ~ (j < x)
      BY <1>4, <3>1, <3>2, Ranks
    <3> QED BY <3>1, <3>3
  <2> QED BY <1>5, <2>1, <2>2
<1>8. Rank(S, x) = i - 1
  BY <1>4, <1>7 DEF Rank
<1>9. Top(S, i) = A \cup {x}
  <2>1. ASSUME NEW k \in S, Rank(S, k) < i, k # x PROVE k \in A
    <3>1. Rank(S, k) \in Nat
      BY Ranks
    <3>2. ~ (k < x)
      BY <1>4, <1>8, <2>1, <3>1, Ranks
    <3>3. k > x
      BY <2>1, <3>2
    <3> QED BY <1>7, <3>3
  <2>2. \A k \in A : k \in S /\ Rank(S, k) < i
    BY <1>4, <1>5, Ranks DEF Top
  <2>3. Rank(S, x) < i
    BY <1>4, <1>8
  <2> QED BY <2>1, <2>2, <2>3 DEF Top
<1>10. Cardinality(Top(S, i)) = i
  <2> HIDE DEF A
  <2>1. Cardinality(A \cup {x}) = Cardinality(A) + 1
    BY <1>5, FS_AddElement
  <2> QED BY <1>4, <1>9, <2>1 DEF A
<1> QED BY <1>2, <1>10 DEF T
-----------------------------------------------------------------------------
(* Charts.                                                                   *)

\* A row of time t is in a bucket among the last j, or before them.
LEMMA SlotsCut ==
  ASSUME NEW L \in Nat \ {0}, NEW a \in Int, NEW t \in Int, NEW j \in Nat
  PROVE  /\ t <= a => t \div L <= a \div L
         /\ t >= a - j * L => t \div L >= a \div L - j
         /\ t \div L >= a \div L - j => a - t < (j + 1) * L
<1> DEFINE p == t \div L
           q == a \div L
<1>1. /\ p \in Int /\ p * L <= t /\ t < (p + 1) * L
      /\ q \in Int /\ q * L <= a /\ a < (q + 1) * L
  OBVIOUS
<1> HIDE DEF p, q
<1>2. \A x, y \in Int : x <= y => x * L <= y * L
  OBVIOUS
<1>3. t <= a => p <= q
  <2> SUFFICES ASSUME t <= a, q + 1 <= p PROVE FALSE
    BY <1>1
  <2>1. (q + 1) * L <= p * L
    BY <1>1, <1>2
  <2> QED BY <1>1, <2>1
<1>4. t >= a - j * L => p >= q - j
  <2> SUFFICES ASSUME t >= a - j * L, p + 1 <= q - j PROVE FALSE
    BY <1>1
  <2>1. (p + 1) * L <= (q - j) * L
    BY <1>1, <1>2
  <2>2. (q - j) * L = q * L - j * L
    BY <1>1
  <2> QED BY <1>1, <2>1, <2>2
<1>5. p >= q - j => a - t < (j + 1) * L
  <2> SUFFICES ASSUME q - j <= p PROVE a - t < (j + 1) * L
    BY <1>1
  <2>1. (q - j) * L <= p * L
    BY <1>1, <1>2
  <2>2. (q - j) * L = q * L - j * L /\ (q + 1) * L = q * L + L /\ (j + 1) * L = j * L + L
    BY <1>1
  <2> QED BY <1>1, <2>1, <2>2
<1> QED BY <1>3, <1>4, <1>5 DEF p, q

\* Rows of the first n that bucket i of a chart made at time t counts, and the last j.
InSlot(r, t, n, i) ==
  {k \in 1..n : /\ log[k].time >= RangeStart(r, t)
                /\ Slot(r, log[k].time) = Slot(r, t) - (SlotCount[r] - i)}

InLast(r, t, n, j) ==
  {k \in 1..n : /\ log[k].time >= RangeStart(r, t)
                /\ Slot(r, log[k].time) \in (Slot(r, t) - j + 1)..Slot(r, t)}

\* Times and slots are numbers.
LEMMA SlotTypes ==
  ASSUME log \in Seq(Row), NEW r \in Ranges, NEW t \in Int, NEW n \in Nat, n <= Len(log)
  PROVE  /\ SlotLength[r] \in Nat \ {0} /\ SlotCount[r] \in Nat \ {0}
         /\ RangeStart(r, t) \in Int /\ Slot(r, t) \in Int
         /\ \A k \in 1..n : log[k].time \in Int /\ Slot(r, log[k].time) \in Int
<1>1. SlotLength[r] \in Nat \ {0} /\ SlotCount[r] \in Nat \ {0}
  BY StatisticsAssumption
<1>2. \A x \in Int : Slot(r, x) \in Int
  BY <1>1 DEF Slot
<1>3. SlotLength[r] * SlotCount[r] \in Int
  BY <1>1
<1>4. RangeStart(r, t) \in Int
  BY <1>3 DEF RangeStart, Span
<1>5. \A k \in 1..n : log[k] \in Row
  OBVIOUS
<1>6. \A k \in 1..n : log[k].time \in Int
  BY <1>5 DEF Row
<1> QED BY <1>1, <1>2, <1>4, <1>6

\* The last j buckets add up to the rows of the last j slots: no row is in two buckets.
LEMMA LastOfCounts ==
  ASSUME log \in Seq(Row), NEW r \in Ranges, NEW t \in Int, NEW n \in Nat, n <= Len(log),
         NEW b, \A i \in 1..SlotCount[r] : b[i] = Cardinality(InSlot(r, t, n, i)),
         NEW j \in 0..SlotCount[r]
  PROVE  LastOf(b, SlotCount[r])[j] = Cardinality(InLast(r, t, n, j))
<1> DEFINE c == SlotCount[r]
           T == {i \in 0..c : LastOf(b, c)[i] # Cardinality(InLast(r, t, n, i))}
<1>1. c \in Nat /\ Slot(r, t) \in Int /\ \A k \in 1..n : Slot(r, log[k].time) \in Int
  BY SlotTypes
<1> SUFFICES ASSUME T # {} PROVE FALSE
  OBVIOUS
<1>2. PICK m \in T : \A i \in T : m <= i
  <2>1. T \in SUBSET Nat
    BY <1>1
  <2> HIDE DEF T
  <2> QED BY <2>1, LeastNatural
<1>3. m \in 0..c /\ LastOf(b, c)[m] # Cardinality(InLast(r, t, n, m))
  OBVIOUS
<1>4. m # 0
  <2>1. InLast(r, t, n, 0) = {}
    <3>1. \A x \in Int : ~ (x \in (Slot(r, t) - 0 + 1)..Slot(r, t))
      BY <1>1
    <3> QED BY <1>1, <3>1 DEF InLast
  <2>2. Cardinality(InLast(r, t, n, 0)) = 0
    BY <2>1, FS_EmptySet
  <2> HIDE DEF c
  <2> QED BY <1>1, <1>3, <2>2, LastOfSums
<1>5. m - 1 \in 0..c /\ m \in 1..c /\ c - m + 1 \in 1..c
  BY <1>1, <1>3, <1>4
<1>6. LastOf(b, c)[m - 1] = Cardinality(InLast(r, t, n, m - 1))
  <2>1. ~ (m <= m - 1)
    BY <1>5
  <2>2. m - 1 \notin T
    <3> HIDE DEF T
    <3> QED BY <1>2, <2>1
  <2> QED BY <1>5, <2>2
<1>7. LastOf(b, c)[m] = LastOf(b, c)[m - 1] + b[c - m + 1]
  <2> HIDE DEF c
  <2> QED BY <1>1, <1>5, LastOfSums
<1> DEFINE A == InLast(r, t, n, m - 1)
           B == InSlot(r, t, n, c - m + 1)
<1>8. InLast(r, t, n, m) = A \cup B /\ A \cap B = {}
  <2>1. c - (c - m + 1) = m - 1
    BY <1>1, <1>5
  <2>2. \A x \in Int : /\ x \in (Slot(r, t) - m + 1)..Slot(r, t)
                           <=> \/ x \in (Slot(r, t) - (m - 1) + 1)..Slot(r, t)
                               \/ x = Slot(r, t) - (m - 1)
                       /\ ~ (/\ x \in (Slot(r, t) - (m - 1) + 1)..Slot(r, t)
                             /\ x = Slot(r, t) - (m - 1))
    BY <1>1, <1>5
  <2>3. B = {k \in 1..n : /\ log[k].time >= RangeStart(r, t)
                          /\ Slot(r, log[k].time) = Slot(r, t) - (m - 1)}
    BY <2>1 DEF InSlot
  <2> HIDE DEF B, c
  <2> QED BY <1>1, <2>2, <2>3 DEF InLast
<1>9. IsFiniteSet(A) /\ IsFiniteSet(B)
  <2>1. A \in SUBSET (1..n) /\ B \in SUBSET (1..n)
    BY DEF InLast, InSlot
  <2>2. IsFiniteSet(1..n)
    BY FS_Interval
  <2> HIDE DEF A, B
  <2> QED BY <2>1, <2>2, FS_Subset
<1>10. Cardinality(A \cup B) = Cardinality(A) + Cardinality(B)
  <2> HIDE DEF A, B
  <2>1. Cardinality(A \cap B) = 0
    BY <1>8, FS_EmptySet
  <2>2. Cardinality(A) \in Nat /\ Cardinality(B) \in Nat
    BY <1>9, FS_CardinalityType
  <2>3. Cardinality(A \cup B) = Cardinality(A) + Cardinality(B) - Cardinality(A \cap B)
    BY <1>9, FS_Union
  <2> QED BY <2>1, <2>2, <2>3
<1>11. b[c - m + 1] = Cardinality(B)
  BY <1>5
<1> HIDE DEF A, B, T, c
<1> QED BY <1>3, <1>6, <1>7, <1>8, <1>10, <1>11 DEF A

\* What a chart that was answered holds of the log.
Charts(s) ==
  /\ s.range \in Ranges /\ s.at \in Int /\ s.seen \in Nat /\ s.seen <= Len(log)
  /\ \A i \in 1..SlotCount[s.range] :
       s.buckets[i] = Cardinality(InSlot(s.range, s.at, s.seen, i))

\* Then its last buckets hold the rows that are young enough.
LEMMA ChartsHold ==
  ASSUME log \in Seq(Row), NEW s, Charts(s)
  PROVE  ChartHolds(s)
<1> DEFINE r == s.range
           t == s.at
           n == s.seen
           L == SlotLength[r]
           c == SlotCount[r]
           old == {k \in 1..n : log[k].time <= t}
           new == (1..n) \ old
           lastOf == LastOf(s.buckets, c)
           age(k) == t - log[k].time
<1>1. r \in Ranges /\ t \in Int /\ n \in Nat /\ n <= Len(log)
  BY DEF Charts
<1>2. /\ L \in Nat \ {0} /\ c \in Nat \ {0}
      /\ \A k \in 1..n : log[k].time \in Int
  BY <1>1, SlotTypes
<1>3. SUFFICES ASSUME NEW j \in 1..c
               PROVE  /\ lastOf[j] >= Cardinality({k \in old : age(k) <= (j - 1) * L})
                      /\ lastOf[j] <= Cardinality(new \cup {k \in old : age(k) < j * L})
  BY DEF ChartHolds
<1> DEFINE A == {k \in old : age(k) <= (j - 1) * L}
           B == new \cup {k \in old : age(k) < j * L}
           M == InLast(r, t, n, j)
<1>4. lastOf[j] = Cardinality(M)
  <2>1. j \in 0..c
    BY <1>2
  <2> HIDE DEF r, t, n
  <2>2. \A i \in 1..SlotCount[r] : s.buckets[i] = Cardinality(InSlot(r, t, n, i))
    BY DEF Charts, r, t, n
  <2> QED BY <1>1, <2>1, <2>2, LastOfCounts
<1> HIDE DEF r, t, n
<1>5. ASSUME NEW k \in 1..n
      PROVE  /\ log[k].time <= t => Slot(r, log[k].time) <= Slot(r, t)
             /\ log[k].time >= t - (j - 1) * L => /\ Slot(r, log[k].time) >= Slot(r, t) - (j - 1)
                                                  /\ log[k].time >= RangeStart(r, t)
             /\ Slot(r, log[k].time) >= Slot(r, t) - (j - 1) => t - log[k].time < j * L
             /\ Slot(r, log[k].time) \in Int /\ Slot(r, t) \in Int
  <2> DEFINE x == log[k].time
             i == j - 1
  <2>1. x \in Int /\ i \in Nat /\ i + 1 = j /\ i <= c
    BY <1>2
  <2> HIDE DEF x, i
  <2>2. /\ x <= t => x \div L <= t \div L
        /\ x >= t - i * L => x \div L >= t \div L - i
        /\ x \div L >= t \div L - i => t - x < (i + 1) * L
    BY <1>1, <1>2, <2>1, SlotsCut
  <2>3. i * L <= L * c
    BY <1>2, <2>1
  <2>4. x >= t - i * L => x >= t - L * c
    BY <1>1, <1>2, <2>1, <2>3
  <2>5. x \div L \in Int /\ t \div L \in Int
    BY <1>1, <1>2, <2>1
  <2> QED BY <2>1, <2>2, <2>4, <2>5 DEF x, i, Slot, RangeStart, Span
<1>6. A \subseteq M
  <2> SUFFICES ASSUME NEW k \in 1..n, log[k].time <= t, t - log[k].time <= (j - 1) * L
               PROVE  k \in M
    OBVIOUS
  <2>1. (j - 1) * L \in Int /\ log[k].time \in Int
    BY <1>2
  <2>2. log[k].time >= t - (j - 1) * L
    BY <1>1, <2>1
  <2>3. Slot(r, log[k].time) \in (Slot(r, t) - j + 1)..Slot(r, t)
    BY <1>2, <1>5, <2>2
  <2> QED BY <1>5, <2>2, <2>3 DEF InLast
<1>7. M \subseteq B
  <2> SUFFICES ASSUME NEW k \in M, log[k].time <= t PROVE t - log[k].time < j * L
    BY <1>2 DEF InLast
  <2>1. k \in 1..n /\ Slot(r, log[k].time) \in (Slot(r, t) - j + 1)..Slot(r, t)
    BY DEF InLast
  <2> QED BY <1>2, <1>5, <2>1
<1>8. IsFiniteSet(M) /\ IsFiniteSet(B)
  <2>1. M \in SUBSET (1..n) /\ B \in SUBSET (1..n)
    BY DEF InLast
  <2>2. IsFiniteSet(1..n)
    BY <1>1, FS_Interval
  <2> HIDE DEF M, B
  <2> QED BY <2>1, <2>2, FS_Subset
<1>9. Cardinality(A) <= Cardinality(M) /\ Cardinality(M) <= Cardinality(B)
  <2> HIDE DEF A, M, B
  <2> QED BY <1>6, <1>7, <1>8, FS_Subset
<1>10. Cardinality(A) \in Nat /\ Cardinality(M) \in Nat /\ Cardinality(B) \in Nat
  <2>1. IsFiniteSet(A)
    <3> HIDE DEF A, M
    <3> QED BY <1>6, <1>8, FS_Subset
  <2> HIDE DEF A, M, B
  <2> QED BY <1>8, <2>1, FS_CardinalityType
<1> QED BY <1>4, <1>9, <1>10
-----------------------------------------------------------------------------
(* Types, and what each call has been answered.                              *)

\* Of the first n rows, those under filter f.
Found(n, f) == {k \in 1..n : f = None \/ log[k].name = f}

\* What the answer of a call for statistics holds.
StatsFits(l) ==
  /\ l.step \in {"chart", "answered"} => l.answer \in Stats /\ l.answer.range = l.range
  /\ l.step = "answered" => Charts(l.answer)

\* What the two queries of a call for a list found.
ListFits(l) ==
  /\ l.listed # None => /\ l.listed <= Len(log)
                        /\ l.data = PageOf(Found(l.listed, l.filter), l.number)
  /\ l.counted # None => /\ l.counted <= Len(log)
                         /\ l.total = Cardinality(Found(l.counted, l.filter))

\* A call is of one of the two kinds, or there is none.
LoadFits(l) ==
  \/ l = None
  \/ l \in StatsLoad /\ StatsFits(l)
  \/ l \in ListLoad /\ ListFits(l)

\* The types, with the calls as a function of the loads.
Typed ==
  /\ now \in 0..MaxTime
  /\ log \in Seq(Row) /\ Len(log) <= MaxRows
  /\ unannounced \subseteq Rows
  /\ stream \in Stream
  /\ view \in View
  /\ load = [i \in Loads |-> load[i]]
  /\ inputs \in 0..MaxInputs
  /\ sent \subseteq Rows
  /\ upTo \in 0..MaxRows
  /\ walk = None \/ walk \in [from : 0..MaxRows, seen : SUBSET Rows]
  /\ hasty \in BOOLEAN

ChartInv == Typed /\ \A i \in Loads : LoadFits(load[i])

\* The two kinds of call.
LEMMA LoadKinds ==
  ASSUME ChartInv, NEW i \in Loads, load[i] # None
  PROVE  /\ load[i].op = "stats" => load[i] \in StatsLoad /\ StatsFits(load[i])
         /\ load[i].op = "list" => load[i] \in ListLoad /\ ListFits(load[i])
         /\ load[i].op \in {"stats", "list"}
<1>1. \/ load[i] \in StatsLoad /\ StatsFits(load[i])
      \/ load[i] \in ListLoad /\ ListFits(load[i])
  BY DEF ChartInv, LoadFits
<1>2. \A l : /\ l \in StatsLoad => l.op = "stats"
             /\ l \in ListLoad => l.op = "list"
  BY DEF StatsLoad, ListLoad
<1> QED BY <1>1, <1>2

\* Calls that begin.
LEMMA NewLoads ==
  /\ \A r \in Ranges : LET l == NewStats(r) IN
       l \in StatsLoad /\ StatsFits(l) /\ l # None /\ l.op = "stats"
  /\ \A v \in View : LET l == NewList(v) IN
       l \in ListLoad /\ ListFits(l) /\ l # None /\ l.op = "list"
         /\ l.number = v.number /\ l.filter = v.filter /\ l.listed = None
<1>1. ASSUME NEW r \in Ranges, NEW l, l = NewStats(r)
      PROVE  l \in StatsLoad /\ StatsFits(l) /\ l # None /\ l.op = "stats"
  <2>1. l \in StatsLoad /\ l.step = "count" /\ l.op = "stats"
    BY <1>1 DEF NewStats, StatsLoad
  <2> QED BY <2>1, LiveUpdatesAssumption DEF StatsFits
<1>2. ASSUME NEW v \in View, NEW l, l = NewList(v)
      PROVE  /\ l \in ListLoad /\ ListFits(l) /\ l # None /\ l.op = "list"
             /\ l.number = v.number /\ l.filter = v.filter /\ l.listed = None
  <2>1. v.number \in Nat \ {0} /\ v.filter \in Filters
    BY DEF View
  <2>2. 0 \in 0..MaxRows
    BY LiveUpdatesAssumption
  <2>3. /\ l \in ListLoad /\ l.listed = None /\ l.counted = None /\ l.op = "list"
        /\ l.number = v.number /\ l.filter = v.filter
    BY <1>2, <2>1, <2>2 DEF NewList, ListLoad
  <2> QED BY <2>3, LiveUpdatesAssumption DEF ListFits
<1> QED BY <1>1, <1>2

\* Pages and streams as they are mounted.
LEMMA Mounted ==
  /\ Away \in View /\ Away.page = "away" /\ Away.number = 1 /\ Away.filter = None /\ Away.data = {}
  /\ \A n \in Filters : [Away EXCEPT !.filter = n] \in View
  /\ NoStream \in Stream
<1>1. Initially \in Ranges
  BY LiveUpdatesAssumption
<1>2. Away \in View /\ Away.page = "away" /\ Away.number = 1 /\ Away.filter = None /\ Away.data = {}
  BY <1>1 DEF Away, View, Filters
<1>3. \A n \in Filters : [Away EXCEPT !.filter = n] \in View
  <2> SUFFICES ASSUME NEW n \in Filters PROVE [Away EXCEPT !.filter = n] \in View
    OBVIOUS
  <2> QED BY <1>2 DEF View
<1>4. NoStream \in Stream
  BY DEF NoStream, Stream
<1> QED BY <1>2, <1>3, <1>4

\* The calls stay, end or begin.
Asks(v) ==
  /\ load' = [i \in Loads |-> load'[i]]
  /\ \A i \in Loads : \/ load'[i] = load[i]
                      \/ load'[i] = None
                      \/ \E r \in Ranges : load'[i] = NewStats(r)
                      \/ load'[i] = NewList(v)

\* Then what they were answered holds as it did.
LEMMA AsksFits ==
  ASSUME ChartInv, NEW v \in View, Asks(v), UNCHANGED log
  PROVE  \A i \in Loads : LoadFits(load[i])'
<1> SUFFICES ASSUME NEW i \in Loads PROVE LoadFits(load[i])'
  OBVIOUS
<1>1. LoadFits(load'[i])
  BY NewLoads DEF Asks, ChartInv, LoadFits
<1> QED BY <1>1 DEF LoadFits, StatsFits, ListFits, Charts, InSlot, Found

\* Inputs are bounded.
LEMMA InputType ==
  ASSUME Typed, Input
  PROVE  inputs' \in 0..MaxInputs
BY LiveUpdatesAssumption DEF Typed, Input

\* A call is begun where none is under way.
LEMMA FreeLoad ==
  ASSUME Free # {}
  PROVE  Min(Free) \in Loads /\ load[Min(Free)] = None
<1>1. Free \in SUBSET Nat
  BY LiveUpdatesAssumption DEF Free, Loads
<1> QED BY <1>1, MinIsIn DEF Free

\* Two calls are begun where none are.
LEMMA TwoFree ==
  ASSUME Cardinality(Free) >= 2, NEW i, i = Min(Free), NEW j, j = Min(Free \ {i})
  PROVE  /\ i \in Loads /\ load[i] = None
         /\ j \in Loads /\ load[j] = None /\ i # j
<1>1. Free \in SUBSET Nat
  BY LiveUpdatesAssumption DEF Free, Loads
<1>2. Free # {}
  BY FS_EmptySet
<1>3. Free \ {i} # {}
  <2>1. Free # {i}
    BY FS_Singleton
  <2> QED BY <1>2, <2>1
<1>4. j \in Free \ {i}
  <2> DEFINE T == Free \ {i}
  <2>1. T \in SUBSET Nat /\ T # {} /\ j = Min(T)
    BY <1>1, <1>3
  <2> HIDE DEF T
  <2>2. j \in T
    BY <2>1, MinIsIn
  <2> QED BY <2>2 DEF T
<1> QED BY <1>2, <1>4, FreeLoad DEF Free

\* The clock, the announcements and the stream.
LEMMA StreamChart ==
  ASSUME ChartInv,
         \/ Tick \/ OpenStream \/ Subscribed \/ DropStream \/ \E k \in unannounced : Publish(k)
  PROVE  ChartInv' /\ UNCHANGED <<log, view, load, walk, hasty>>
<1>1. Typed /\ stream \in Stream /\ view \in View
  BY DEF ChartInv, Typed
<1>2. UNCHANGED <<log, view, load, upTo, walk, hasty>>
  BY DEF Tick, OpenStream, Subscribed, DropStream, Publish, history, server
<1>3. now' \in 0..MaxTime /\ unannounced' \subseteq Rows /\ sent' \subseteq Rows
      /\ inputs' \in 0..MaxInputs
  <2>1. CASE Tick
    BY <1>1, <2>1, LiveUpdatesAssumption DEF Tick, Typed, history
  <2>2. CASE OpenStream \/ Subscribed
    BY <1>1, <2>2 DEF OpenStream, Subscribed, Typed, history, server
  <2>3. CASE DropStream
    BY <1>1, <2>3, InputType DEF DropStream, Typed, history, server
  <2>4. CASE \E k \in unannounced : Publish(k)
    <3>1. PICK k \in unannounced : Publish(k)
      BY <2>4
    <3>2. /\ unannounced' = unannounced \ {k} /\ UNCHANGED <<now, inputs>>
          /\ sent' = sent \/ sent' = sent \cup {k}
      BY <3>1 DEF Publish
    <3> QED BY <1>1, <3>2 DEF Typed
  <2> QED BY <2>1, <2>2, <2>3, <2>4
<1>4. stream' \in Stream
  <2>1. \A p \in {"none", "asked", "opening", "subscribed", "over"} :
          [stream EXCEPT !.phase = p] \in Stream /\ [NoStream EXCEPT !.phase = p] \in Stream
    BY <1>1, Mounted DEF Stream
  <2>2. \A w \in Seq(Chunk) : [stream EXCEPT !.wire = w] \in Stream
    BY <1>1 DEF Stream
  <2>3. Written(stream.wire) \subseteq Seq(Chunk)
    <3>1. stream.wire \in Seq(Chunk) /\ "event" \in Chunk /\ <<"head", "tail">> \in Seq(Chunk)
      BY <1>1 DEF Stream, Chunk
    <3> QED BY <3>1 DEF Written
  <2>4. CASE Tick
    BY <1>1, <2>4 DEF Tick
  <2>5. CASE OpenStream
    BY <2>1, <2>5 DEF OpenStream
  <2>6. CASE Subscribed
    BY <2>1, <2>6 DEF Subscribed
  <2>7. CASE DropStream
    BY <2>1, <2>7 DEF DropStream
  <2>8. CASE \E k \in unannounced : Publish(k)
    BY <1>1, <2>2, <2>3, <2>8 DEF Publish
  <2> QED BY <2>4, <2>5, <2>6, <2>7, <2>8
<1>5. Typed'
  BY <1>1, <1>2, <1>3, <1>4 DEF Typed
<1>6. \A i \in Loads : LoadFits(load[i])'
  <2>1. Asks(view)
    BY <1>1, <1>2 DEF Asks, Typed
  <2> QED BY <1>1, <1>2, <2>1, AsksFits
<1> QED BY <1>2, <1>5, <1>6 DEF ChartInv

\* A row is logged: what was counted stays what it was.
LEMMA LogChart ==
  ASSUME ChartInv, NEW n \in Names, LogSigningAction(n)
  PROVE  /\ ChartInv' /\ UNCHANGED <<view, load, walk, hasty>>
         /\ Len(log') = Len(log) + 1 /\ \A k \in 1..Len(log) : log'[k] = log[k]
         /\ \A f : \A m \in 0..Len(log) : Found(m, f)' = Found(m, f)
<1> DEFINE row == [name |-> n, time |-> now]
<1>1. /\ Len(log) < MaxRows /\ log' = Append(log, row)
      /\ unannounced' = unannounced \cup {Len(log')}
      /\ UNCHANGED <<now, stream, view, load, inputs, sent, upTo, walk, hasty>>
  BY DEF LogSigningAction, history
<1>2. Typed /\ log \in Seq(Row) /\ row \in Row /\ MaxRows \in Nat
  BY LiveUpdatesAssumption DEF ChartInv, Typed, Row
<1> HIDE DEF row
<1>3. /\ log' \in Seq(Row) /\ Len(log') = Len(log) + 1 /\ Len(log) \in Nat
      /\ \A k \in 1..Len(log) : log'[k] = log[k]
  BY <1>1, <1>2
<1>4. Len(log') <= MaxRows /\ Len(log') \in Rows
  BY <1>1, <1>2, <1>3 DEF Rows
<1>5. Typed'
  BY <1>1, <1>2, <1>3, <1>4 DEF Typed
<1>6. \A f : \A m \in 0..Len(log) : Found(m, f)' = Found(m, f)
  BY <1>3 DEF Found
<1>7. \A i \in Loads : LoadFits(load[i])'
  <2> SUFFICES ASSUME NEW i \in Loads PROVE LoadFits(load[i])'
    OBVIOUS
  <2>1. load' = load
    BY <1>1
  <2>2. CASE load[i] = None
    BY <2>1, <2>2 DEF LoadFits
  <2>3. CASE load[i] \in StatsLoad /\ StatsFits(load[i])
    <3> DEFINE s == load[i].answer
    <3>1. ASSUME Charts(s) PROVE Charts(s)'
      <4>1. s.seen \in Nat /\ s.seen <= Len(log) /\ s.seen <= Len(log')
        BY <1>3, <3>1 DEF Charts
      <4>2. \A b : InSlot(s.range, s.at, s.seen, b)' = InSlot(s.range, s.at, s.seen, b)
        <5>1. \A k \in 1..s.seen : log'[k] = log[k]
          BY <1>3, <4>1
        <5> QED BY <2>1, <5>1 DEF InSlot
      <4> QED BY <2>1, <3>1, <4>1, <4>2 DEF Charts
    <3> QED BY <2>1, <2>3, <3>1 DEF LoadFits, StatsFits
  <2>4. CASE load[i] \in ListLoad /\ ListFits(load[i])
    <3> DEFINE l == load[i]
    <3>1. /\ l.listed \in (0..MaxRows) \cup {None} /\ l.counted \in (0..MaxRows) \cup {None}
      BY <2>4 DEF ListLoad
    <3>2. l.listed # None => /\ l.listed <= Len(log')
                             /\ l.data = PageOf(Found(l.listed, l.filter)', l.number)
      BY <1>3, <1>6, <2>1, <2>4, <3>1 DEF ListFits
    <3>3. l.counted # None => /\ l.counted <= Len(log')
                              /\ l.total = Cardinality(Found(l.counted, l.filter)')
      BY <1>3, <1>6, <2>1, <2>4, <3>1 DEF ListFits
    <3>4. ListFits(l)'
      BY <2>1, <3>2, <3>3 DEF ListFits
    <3> QED BY <2>1, <2>4, <3>4 DEF LoadFits
  <2> QED BY <2>2, <2>3, <2>4 DEF ChartInv, LoadFits
<1> QED BY <1>1, <1>3, <1>5, <1>6, <1>7 DEF ChartInv

\* Rows that match, and their pages.
LEMMA FoundRows ==
  ASSUME Typed, NEW f, NEW n \in 0..MaxRows
  PROVE  /\ Found(n, f) \in SUBSET Rows /\ IsFiniteSet(Found(n, f))
         /\ Found(n, f) \in SUBSET Nat
         /\ Cardinality(Found(n, f)) \in 0..MaxRows
         /\ \A m : PageOf(Found(n, f), m) \subseteq Found(n, f)
         /\ Matching(log, f) = Found(Len(log), f) /\ Len(log) \in 0..MaxRows
<1> DEFINE F == Found(n, f)
<1>1. MaxRows \in Nat /\ F \in SUBSET Rows /\ F \in SUBSET Nat /\ Rows = 1..MaxRows
  BY LiveUpdatesAssumption DEF Found, Rows
<1>2. IsFiniteSet(Rows) /\ Cardinality(Rows) = MaxRows
  BY <1>1, FS_Interval
<1> HIDE DEF F
<1>3. IsFiniteSet(F) /\ Cardinality(F) <= MaxRows
  BY <1>1, <1>2, FS_Subset
<1>4. Cardinality(F) \in Nat
  BY <1>3, FS_CardinalityType
<1>5. log \in Seq(Row) /\ Len(log) <= MaxRows /\ Len(log) \in Nat /\ DOMAIN log = 1..Len(log)
  BY DEF Typed
<1>6. Matching(log, f) = Found(Len(log), f)
  BY <1>5 DEF Matching, Found
<1>7. \A m : PageOf(F, m) \subseteq F
  BY DEF PageOf
<1> QED BY <1>1, <1>3, <1>4, <1>5, <1>6, <1>7 DEF F

\* One call is answered by a step of the server, or fails.
LEMMA CallChart ==
  ASSUME ChartInv, NEW i \in Loads, load[i] # None, NEW l, l # None,
         load' = [load EXCEPT ![i] = l], LoadFits(l),
         inputs' \in 0..MaxInputs, UNCHANGED <<server, stream, view, history>>
  PROVE  ChartInv'
<1>1. UNCHANGED <<now, log, unannounced, stream, view, sent, upTo, walk, hasty>>
  BY DEF server, history
<1>2. \A j \in Loads : load'[j] = IF j = i THEN l ELSE load[j]
  BY DEF ChartInv, Typed
<1>3. \A j \in Loads : LoadFits(load'[j])
  BY <1>2 DEF ChartInv
<1>4. ASSUME NEW j \in Loads PROVE LoadFits(load[j])'
  <2>1. PICK x : x = load'[j] /\ LoadFits(x)
    BY <1>3
  <2>2. StatsFits(x) => StatsFits(x)'
    BY <1>1 DEF StatsFits, Charts, InSlot
  <2>3. ListFits(x) => ListFits(x)'
    BY <1>1 DEF ListFits, Found
  <2>4. x = None \/ (x \in StatsLoad /\ StatsFits(x)') \/ (x \in ListLoad /\ ListFits(x)')
    BY <2>1, <2>2, <2>3 DEF LoadFits
  <2> QED BY <2>1, <2>4 DEF LoadFits, StatsFits, ListFits
<1>5. Typed'
  BY <1>1 DEF ChartInv, Typed
<1> QED BY <1>4, <1>5 DEF ChartInv

\* The clock is read and the rows are counted.
LEMMA CountStatsChart ==
  ASSUME ChartInv, NEW i \in Loads, CountStats(i)
  PROVE  \E l : /\ l.op = "stats" /\ load' = [load EXCEPT ![i] = l] /\ l # None
                /\ LoadFits(l)
<1> DEFINE q == load[i]
           b == [k \in 1..SlotCount[q.range] |-> 0]
           a == [range |-> q.range, at |-> now, names |-> NamesIn(log), seen |-> 0, buckets |-> b]
           l == [[q EXCEPT !.step = "chart"] EXCEPT !.answer = a]
<1>1. q # None /\ q.op = "stats" /\ q \in StatsLoad
  BY LoadKinds DEF CountStats
<1>2. load' = [load EXCEPT ![i] = l]
  BY <1>1 DEF CountStats, StatsLoad
<1>3. q.range \in Ranges
  BY <1>1 DEF StatsLoad
<1>4. b \in Seq(Nat)
  <2>1. SlotCount[q.range] \in Nat
    BY <1>3, StatisticsAssumption
  <2> QED BY <2>1
<1>5. NamesIn(log) \in SUBSET Names
  <2>1. \A k \in DOMAIN log : log[k] \in Row
    BY DEF ChartInv, Typed
  <2> QED BY <2>1 DEF NamesIn, Row
<1>6. now \in 0..MaxTime /\ 0 \in 0..MaxRows
  BY LiveUpdatesAssumption DEF ChartInv, Typed
<1> HIDE DEF b
<1>7. a \in Stats /\ a.range = q.range
  BY <1>3, <1>4, <1>5, <1>6 DEF Stats
<1> HIDE DEF a
<1>8. l \in StatsLoad /\ l.step = "chart" /\ l.answer = a /\ l.range = q.range /\ l.op = "stats"
  BY <1>1, <1>7 DEF StatsLoad
<1> HIDE DEF l
<1>9. StatsFits(l) /\ l # None
  BY <1>7, <1>8, LiveUpdatesAssumption DEF StatsFits
<1> QED BY <1>2, <1>8, <1>9 DEF LoadFits

\* The chart is made.
LEMMA BuildChart ==
  ASSUME ChartInv, NEW i \in Loads, BuildActivityBuckets(i)
  PROVE  \E l : /\ l.op = "stats" /\ load' = [load EXCEPT ![i] = l] /\ l # None
                /\ LoadFits(l)
<1> DEFINE q == load[i]
           b == Buckets(q.range, q.answer.at, log)
           a == [[q.answer EXCEPT !.buckets = b] EXCEPT !.seen = Len(log)]
           l == [[q EXCEPT !.step = "answered"] EXCEPT !.answer = a]
<1>1. q # None /\ q.op = "stats" /\ q \in StatsLoad /\ StatsFits(q) /\ q.step = "chart"
  BY LoadKinds DEF BuildActivityBuckets
<1>2. /\ q.answer \in Stats /\ q.answer.range = q.range /\ q.range \in Ranges
      /\ q.answer.at \in 0..MaxTime
  BY <1>1 DEF StatsFits, StatsLoad, Stats
<1>3. load' = [load EXCEPT ![i] = l]
  BY <1>1, <1>2 DEF BuildActivityBuckets, StatsLoad, Stats
<1>4. log \in Seq(Row) /\ Len(log) \in 0..MaxRows /\ DOMAIN log = 1..Len(log)
  BY LiveUpdatesAssumption DEF ChartInv, Typed
<1>5. \A k \in 1..SlotCount[q.range] : b[k] = Cardinality(InSlot(q.range, q.answer.at, Len(log), k))
  BY <1>4 DEF Buckets, Since, InSlot
<1>6. b \in Seq(Nat)
  <2>1. SlotCount[q.range] \in Nat
    BY <1>2, StatisticsAssumption
  <2>2. ASSUME NEW k \in 1..SlotCount[q.range] PROVE b[k] \in Nat
    <3> DEFINE S == InSlot(q.range, q.answer.at, Len(log), k)
    <3>1. S \in SUBSET (1..Len(log)) /\ IsFiniteSet(1..Len(log))
      BY <1>4, FS_Interval DEF InSlot
    <3> HIDE DEF S
    <3>2. Cardinality(S) \in Nat
      BY <3>1, FS_Subset, FS_CardinalityType
    <3> QED BY <1>5, <3>2 DEF S
  <2>3. b = [k \in 1..SlotCount[q.range] |-> b[k]]
    BY DEF Buckets
  <2> HIDE DEF b
  <2>4. b \in [1..SlotCount[q.range] -> Nat]
    BY <2>2, <2>3
  <2> QED BY <2>1, <2>4
<1> HIDE DEF b
<1>7. a \in Stats /\ a.range = q.range /\ a.at = q.answer.at /\ a.seen = Len(log) /\ a.buckets = b
  BY <1>2, <1>4, <1>6 DEF Stats
<1> HIDE DEF a
<1>8. l \in StatsLoad /\ l.step = "answered" /\ l.answer = a /\ l.range = q.range /\ l.op = "stats"
  BY <1>1, <1>7 DEF StatsLoad
<1> HIDE DEF l
<1>9. Charts(a)
  BY <1>2, <1>4, <1>5, <1>7 DEF Charts
<1>10. StatsFits(l) /\ l # None
  BY <1>7, <1>8, <1>9, LiveUpdatesAssumption DEF StatsFits
<1> QED BY <1>3, <1>8, <1>10 DEF LoadFits

\* One of the two queries of a list runs.
LEMMA FindChart ==
  ASSUME ChartInv, NEW i \in Loads, FindRows(i)
  PROVE  \E l : /\ load' = [load EXCEPT ![i] = l] /\ l # None /\ LoadFits(l) /\ l.op = "list"
                /\ l.number = load[i].number /\ l.filter = load[i].filter
                /\ l.listed = load[i].listed \/ l.listed = Len(log)
<1> DEFINE q == load[i]
           F == Found(Len(log), q.filter)
           P == PageOf(F, q.number)
           n == Len(log)
           k == Cardinality(F)
           x == [[q EXCEPT !.listed = n] EXCEPT !.data = P]
           y == [[q EXCEPT !.counted = n] EXCEPT !.total = k]
<1>1. q # None /\ q.op = "list" /\ q \in ListLoad /\ ListFits(q)
  BY LoadKinds DEF FindRows
<1>2. /\ Typed /\ n \in 0..MaxRows /\ Matching(log, q.filter) = F /\ F \in SUBSET Rows
      /\ P \in SUBSET Rows /\ k \in 0..MaxRows /\ n <= Len(log)
  <2>1. Typed /\ n \in 0..MaxRows /\ Matching(log, q.filter) = F
    BY LiveUpdatesAssumption, FoundRows DEF ChartInv, Typed
  <2>2. F \in SUBSET Rows /\ P \subseteq F /\ k \in 0..MaxRows
    BY <2>1, FoundRows
  <2> HIDE DEF P, F, k
  <2> QED BY <2>1, <2>2 DEF ChartInv, Typed
<1>3. \/ load' = [load EXCEPT ![i] = x]
      \/ load' = [load EXCEPT ![i] = y]
  <2> HIDE DEF F
  <2> QED BY <1>1, <1>2 DEF FindRows, ListLoad
<1>4. P = PageOf(F, q.number) /\ k = Cardinality(F) /\ F = Found(n, q.filter)
  OBVIOUS
<1> HIDE DEF F, P, n, k
<1>5. /\ x \in ListLoad /\ x.op = "list" /\ x.number = q.number /\ x.filter = q.filter
      /\ x.listed = n /\ x.data = P /\ x.counted = q.counted /\ x.total = q.total
  BY <1>1, <1>2 DEF ListLoad
<1>6. /\ y \in ListLoad /\ y.op = "list" /\ y.number = q.number /\ y.filter = q.filter
      /\ y.listed = q.listed /\ y.data = q.data /\ y.counted = n /\ y.total = k
  BY <1>1, <1>2 DEF ListLoad
<1> HIDE DEF x, y
<1>7. x # None /\ ListFits(x)
  BY <1>1, <1>2, <1>4, <1>5, LiveUpdatesAssumption DEF ListFits
<1>8. y # None /\ ListFits(y)
  BY <1>1, <1>2, <1>4, <1>6, LiveUpdatesAssumption DEF ListFits
<1> QED BY <1>3, <1>5, <1>6, <1>7, <1>8 DEF LoadFits, n

\* A call is lost.
LEMMA LoseChart ==
  ASSUME ChartInv, NEW i \in Loads, LoseLoad(i)
  PROVE  \E l : /\ load' = [load EXCEPT ![i] = l] /\ l # None /\ LoadFits(l) /\ l.op = load[i].op
                /\ l.op = "list" => /\ l.number = load[i].number /\ l.filter = load[i].filter
                                    /\ l.listed = load[i].listed
<1> DEFINE q == load[i]
           l == [q EXCEPT !.step = "failed"]
<1>1. q # None /\ load' = [load EXCEPT ![i] = l] /\ q.op \in {"stats", "list"}
  BY LoadKinds DEF LoseLoad
<1>2. CASE q.op = "stats"
  <2>1. q \in StatsLoad
    BY <1>1, <1>2, LoadKinds
  <2>2. l \in StatsLoad /\ l.op = "stats" /\ l.step = "failed"
    BY <2>1 DEF StatsLoad
  <2> HIDE DEF l
  <2>3. l # None /\ LoadFits(l)
    BY <2>2, LiveUpdatesAssumption DEF StatsFits, LoadFits
  <2> QED BY <1>1, <1>2, <2>2, <2>3
<1>3. CASE q.op = "list"
  <2>1. q \in ListLoad /\ ListFits(q)
    BY <1>1, <1>3, LoadKinds
  <2>2. /\ l \in ListLoad /\ l.op = "list" /\ l.number = q.number /\ l.filter = q.filter
        /\ l.listed = q.listed /\ l.counted = q.counted /\ l.data = q.data /\ l.total = q.total
    BY <2>1 DEF ListLoad
  <2> HIDE DEF l
  <2>3. l # None /\ LoadFits(l)
    BY <2>1, <2>2, LiveUpdatesAssumption DEF ListFits, LoadFits
  <2> QED BY <1>1, <1>3, <2>2, <2>3
<1> QED BY <1>1, <1>2, <1>3

\* A step of the server, or a loss.
LEMMA ServeChart ==
  ASSUME ChartInv, NEW i \in Loads, Serve(i) \/ LoseLoad(i)
  PROVE  /\ ChartInv' /\ UNCHANGED <<log, view, walk, hasty>>
         /\ load[i] # None
         /\ \E l : /\ load' = [load EXCEPT ![i] = l] /\ l # None /\ l.op = load[i].op
                   /\ l.op = "list" => /\ l.number = load[i].number /\ l.filter = load[i].filter
                                       /\ l.listed = load[i].listed \/ l.listed = Len(log)
<1>1. /\ UNCHANGED <<server, stream, view, history>> /\ inputs' \in 0..MaxInputs
      /\ load[i] # None
  <2>1. Typed
    BY DEF ChartInv
  <2>2. CASE LoseLoad(i)
    BY <2>1, <2>2, InputType DEF LoseLoad
  <2>3. CASE Serve(i)
    BY <2>1, <2>3 DEF Serve, CountStats, BuildActivityBuckets, FindRows, Typed
  <2> QED BY <2>2, <2>3
<1>2. PICK l : /\ load' = [load EXCEPT ![i] = l] /\ l # None /\ LoadFits(l) /\ l.op = load[i].op
               /\ l.op = "list" => /\ l.number = load[i].number /\ l.filter = load[i].filter
                                   /\ l.listed = load[i].listed \/ l.listed = Len(log)
  <2>1. CASE CountStats(i)
    <3>1. PICK l : l.op = "stats" /\ load' = [load EXCEPT ![i] = l] /\ l # None /\ LoadFits(l)
      BY <2>1, CountStatsChart
    <3>2. load[i].op = "stats"
      BY <2>1 DEF CountStats
    <3> QED BY <3>1, <3>2
  <2>2. CASE BuildActivityBuckets(i)
    <3>1. PICK l : l.op = "stats" /\ load' = [load EXCEPT ![i] = l] /\ l # None /\ LoadFits(l)
      BY <2>2, BuildChart
    <3>2. load[i].op = "stats"
      BY <2>2 DEF BuildActivityBuckets
    <3> QED BY <3>1, <3>2
  <2>3. CASE FindRows(i)
    <3>1. load[i].op = "list"
      BY <2>3 DEF FindRows
    <3> QED BY <2>3, <3>1, FindChart
  <2>4. CASE LoseLoad(i)
    BY <2>4, LoseChart
  <2> QED BY <2>1, <2>2, <2>3, <2>4 DEF Serve
<1>3. ChartInv'
  BY <1>1, <1>2, CallChart
<1> QED BY <1>1, <1>2, <1>3 DEF server, history

\* What a page becomes.
LEMMA Turned ==
  ASSUME ChartInv
  PROVE  /\ view \in View /\ view.number \in Nat \ {0} /\ view.pages \in Nat /\ view.filter \in Filters
         /\ \A b \in BOOLEAN : [view EXCEPT !.loading = b] \in View
         /\ \A r \in Ranges : [view EXCEPT !.range = r] \in View
         /\ \A n \in Nat \ {0} : [view EXCEPT !.number = n] \in View
         /\ \A f \in Filters, n \in Nat \ {0} : [view EXCEPT !.filter = f, !.number = n] \in View
         /\ \A S \in SUBSET Names, b \in BOOLEAN : [view EXCEPT !.stats = S, !.loading = b] \in View
         /\ \A P \in SUBSET Rows : [view EXCEPT !.data = P] \in View
         /\ \A P \in SUBSET Rows, m \in Nat, b \in BOOLEAN :
              [view EXCEPT !.data = P, !.pages = m, !.loading = b] \in View
<1>1. view \in View
  BY DEF ChartInv, Typed
<1>2. /\ view.number \in Nat \ {0} /\ view.pages \in Nat /\ view.filter \in Filters
  BY <1>1 DEF View
<1>3. \A b \in BOOLEAN : [view EXCEPT !.loading = b] \in View
  BY <1>1 DEF View
<1>4. \A r \in Ranges : [view EXCEPT !.range = r] \in View
  BY <1>1 DEF View
<1>5. \A n \in Nat \ {0} : [view EXCEPT !.number = n] \in View
  BY <1>1 DEF View
<1>6. \A f \in Filters, n \in Nat \ {0} : [view EXCEPT !.filter = f, !.number = n] \in View
  BY <1>1 DEF View
<1>7. \A S \in SUBSET Names, b \in BOOLEAN : [view EXCEPT !.stats = S, !.loading = b] \in View
  BY <1>1 DEF View
<1>8. \A P \in SUBSET Rows : [view EXCEPT !.data = P] \in View
  BY <1>1 DEF View
<1>9. \A P \in SUBSET Rows, m \in Nat, b \in BOOLEAN :
        [view EXCEPT !.data = P, !.pages = m, !.loading = b] \in View
  BY <1>1 DEF View
<1> QED BY <1>1, <1>2, <1>3, <1>4, <1>5, <1>6, <1>7, <1>8, <1>9

\* An event has the page load all of it again.
LEMMA ReadChart ==
  ASSUME ChartInv, ReadStream
  PROVE  /\ ChartInv' /\ UNCHANGED <<log, walk, hasty>>
         /\ view' = view \/ view' = [view EXCEPT !.loading = TRUE]
         /\ \A i \in Loads : load'[i] # load[i] => load[i] = None
         /\ \E v \in View : Asks(v) /\ v.number = view.number /\ v.filter = view.filter
<1>1. /\ UNCHANGED <<now, log, unannounced, inputs, sent, upTo, walk, hasty>>
      /\ view \in View /\ stream \in Stream /\ stream.wire # <<>> /\ load = [i \in Loads |-> load[i]]
  BY DEF ReadStream, ChartInv, Typed, server, history
<1> DEFINE c == Head(stream.wire)
           s == [stream EXCEPT !.wire = Tail(stream.wire), !.buffer = (c = "head")]
<1>2. stream' = s
  BY DEF ReadStream
<1>3. s \in Stream
  <2>1. \A w \in Seq(Chunk), b \in BOOLEAN : [stream EXCEPT !.wire = w, !.buffer = b] \in Stream
    BY <1>1 DEF Stream
  <2>2. stream.wire \in Seq(Chunk)
    BY <1>1 DEF Stream
  <2>3. Tail(stream.wire) \in Seq(Chunk) /\ (c = "head") \in BOOLEAN
    BY <1>1, <2>2
  <2> HIDE DEF c
  <2> QED BY <2>1, <2>3
<1>4. /\ view' \in View
      /\ view' = view \/ view' = [view EXCEPT !.loading = TRUE]
      /\ \A i \in Loads : load'[i] # load[i] => load[i] = None
      /\ Asks(view)
  <2>1. CASE Completes(stream.buffer, c)
    <3>1. /\ BeginTwo(NewStats(view.range), NewList(view))
          /\ view' = [view EXCEPT !.loading = TRUE]
      BY <2>1 DEF ReadStream
    <3> DEFINE i == Min(Free)
               j == Min(Free \ {i})
    <3>2. Cardinality(Free) >= 2
          /\ load' = [load EXCEPT ![i] = NewStats(view.range), ![j] = NewList(view)]
      BY <3>1 DEF BeginTwo
    <3>3. i \in Loads /\ load[i] = None /\ j \in Loads /\ load[j] = None /\ i # j
      <4>1. i = Min(Free) /\ j = Min(Free \ {i})
        OBVIOUS
      <4> HIDE DEF i, j
      <4> QED BY <3>2, <4>1, TwoFree
    <3> HIDE DEF i, j
    <3>4. view' \in View /\ view.range \in Ranges
      BY <1>1, <3>1, Turned DEF View
    <3>5. /\ load' = [k \in Loads |-> load'[k]]
          /\ \A k \in Loads : load'[k] = IF k = j THEN NewList(view)
                                         ELSE IF k = i THEN NewStats(view.range) ELSE load[k]
      BY <1>1, <3>2, <3>3
    <3> QED BY <3>1, <3>3, <3>4, <3>5 DEF Asks
  <2>2. CASE ~ Completes(stream.buffer, c)
    <3>1. UNCHANGED <<view, load>>
      BY <2>2 DEF ReadStream
    <3> QED BY <1>1, <3>1 DEF Asks
  <2> QED BY <2>1, <2>2
<1>5. Typed'
  BY <1>1, <1>2, <1>3, <1>4 DEF ChartInv, Typed, Asks
<1>6. \A i \in Loads : LoadFits(load[i])'
  BY <1>1, <1>4, AsksFits
<1> QED BY <1>1, <1>4, <1>5, <1>6 DEF ChartInv

\* All calls are new.
Starts(v) ==
  /\ load' = [i \in Loads |-> load'[i]]
  /\ \A i \in Loads : \/ load'[i] = None
                      \/ \E r \in Ranges : load'[i] = NewStats(r)
                      \/ load'[i] = NewList(v)

\* A page is mounted, or left.
LEMMA MountChart ==
  ASSUME ChartInv, EnterDashboard \/ Leave \/ \E n \in Names : EnterLogs(n)
  PROVE  /\ ChartInv' /\ UNCHANGED log /\ walk' = None
         /\ \A i \in Loads : load'[i] # None /\ load'[i].op = "list" =>
              load'[i].number = view'.number /\ load'[i].filter = view'.filter
<1>1. Typed /\ UNCHANGED <<now, log, unannounced>> /\ inputs' \in 0..MaxInputs
  BY InputType DEF ChartInv, EnterDashboard, Leave, EnterLogs, server
<1>2. sent' \in SUBSET Rows /\ upTo' \in 0..MaxRows /\ walk' = None /\ hasty' = FALSE
  <2>1. Forgets
    BY DEF EnterDashboard, Leave, EnterLogs
  <2>2. 0 \in 0..MaxRows
    BY LiveUpdatesAssumption
  <2> QED BY <2>1, <2>2 DEF Forgets
<1>3. stream' \in Stream
  <2>1. [NoStream EXCEPT !.phase = "asked"] \in Stream
    BY Mounted DEF Stream
  <2> QED BY <1>1, <2>1, Mounted DEF Typed, EnterDashboard, Leave, EnterLogs
<1>4. /\ view' \in View
      /\ \E v \in View : Starts(v) /\ v.number = view'.number /\ v.filter = view'.filter
  <2>1. /\ Initially \in Ranges /\ \A i \in Loads : NoLoads[i] = None
        /\ NoLoads = [i \in Loads |-> NoLoads[i]] /\ Away \in View
    BY LiveUpdatesAssumption, Mounted DEF NoLoads
  <2>2. CASE EnterDashboard
    <3>1. /\ view' = [Away EXCEPT !.page = "dashboard"]
          /\ load' = [NoLoads EXCEPT ![1] = NewStats(Initially), ![2] = NewList(Away)]
      BY <2>2 DEF EnterDashboard
    <3>2. view' \in View /\ view'.number = Away.number /\ view'.filter = Away.filter
      BY <2>1, <3>1 DEF View
    <3>3. Starts(Away)
      BY <2>1, <3>1 DEF Starts
    <3> QED BY <2>1, <3>2, <3>3
  <2>3. CASE Leave
    <3>1. view' = Away /\ load' = NoLoads
      BY <2>3 DEF Leave
    <3>2. Starts(Away)
      BY <2>1, <3>1 DEF Starts
    <3> QED BY <2>1, <3>1, <3>2
  <2>4. CASE \E n \in Names : EnterLogs(n)
    <3>1. PICK n \in Filters : EnterLogs(n)
      BY <2>4 DEF Filters
    <3> DEFINE v == [Away EXCEPT !.filter = n]
    <3>2. v \in View /\ v.number = Away.number /\ v.filter = n
      BY <2>1, Mounted DEF View
    <3>3. view' = [[Away EXCEPT !.page = "logs"] EXCEPT !.filter = n]
      BY <2>1, <3>1 DEF EnterLogs, View
    <3>4. load' = [NoLoads EXCEPT ![1] = NewList(v)]
      BY <3>1 DEF EnterLogs
    <3>5. view' \in View /\ view'.number = Away.number /\ view'.filter = n
      BY <2>1, <3>3 DEF View
    <3> HIDE DEF v
    <3>6. Starts(v)
      BY <2>1, <3>4 DEF Starts
    <3> QED BY <3>2, <3>5, <3>6
  <2> QED BY <2>2, <2>3, <2>4
<1>5. PICK v \in View : Starts(v) /\ v.number = view'.number /\ v.filter = view'.filter
  BY <1>4
<1>6. ChartInv'
  <2>1. Typed'
    BY <1>1, <1>2, <1>3, <1>4, <1>5 DEF Typed, Starts
  <2>2. Asks(v)
    BY <1>5 DEF Starts, Asks
  <2> QED BY <1>1, <2>1, <2>2, AsksFits DEF ChartInv
<1>7. \A i \in Loads : load'[i] # None /\ load'[i].op = "list" =>
        load'[i].number = view'.number /\ load'[i].filter = view'.filter
  BY <1>5, NewLoads DEF Starts
<1> QED BY <1>1, <1>2, <1>6, <1>7

\* Another range, another filter, another page.
LEMMA TurnChart ==
  ASSUME ChartInv, NEW v \in View, NEW l, NEW w \in View,
         l = NewList(w) \/ \E r \in Ranges : l = NewStats(r),
         Free # {}, Begin(l), view' = v, inputs' \in 0..MaxInputs, hasty' \in BOOLEAN,
         walk' = walk \/ walk' = None, UNCHANGED <<server, stream, sent, upTo>>
  PROVE  /\ ChartInv' /\ UNCHANGED log
         /\ \E i \in Loads : /\ load[i] = None /\ load'[i] = l
                             /\ \A j \in Loads \ {i} : load'[j] = load[j]
<1> DEFINE i == Min(Free)
<1>1. load' = [load EXCEPT ![i] = l] /\ load = [k \in Loads |-> load[k]]
      /\ UNCHANGED <<now, log, unannounced, stream, sent, upTo>>
  BY DEF Begin, server, ChartInv, Typed
<1>2. i \in Loads /\ load[i] = None
  BY FreeLoad
<1> HIDE DEF i
<1>3. /\ load' = [k \in Loads |-> load'[k]]
      /\ \A k \in Loads : load'[k] = IF k = i THEN l ELSE load[k]
  BY <1>1, <1>2
<1>4. Asks(w)
  BY <1>3 DEF Asks
<1>5. Typed'
  BY <1>1, <1>3 DEF ChartInv, Typed
<1>6. \A k \in Loads : LoadFits(load[k])'
  BY <1>1, <1>4, AsksFits
<1> QED BY <1>1, <1>2, <1>3, <1>5, <1>6 DEF ChartInv

\* What each click does to the page and to what the reader has seen.
LEMMA ClickChart ==
  ASSUME ChartInv, \/ \E r \in Ranges : SelectRange(r)
                   \/ PrevPage \/ NextPage \/ \E f \in Filters : ApplyFilters(f)
  PROVE  /\ ChartInv' /\ UNCHANGED log
         /\ view'.page = view.page /\ view'.data = view.data /\ view'.pages = view.pages
         /\ \E i \in Loads : \E l :
              /\ load[i] = None /\ load'[i] = l /\ l # None
              /\ \A j \in Loads \ {i} : load'[j] = load[j]
              /\ \/ /\ l.op = "stats" /\ hasty' = hasty /\ walk' = walk
                    /\ view'.number = view.number /\ view'.filter = view.filter
                 \/ /\ l.op = "list" /\ hasty' = (hasty \/ Listing) /\ l.listed = None
                    /\ l.number = view'.number /\ l.filter = view'.filter
                    /\ \/ walk' = None
                       \/ /\ walk' = walk /\ view'.filter = view.filter
                          /\ view'.number \in {view.number - 1, view.number + 1}
<1>1. /\ Typed /\ view \in View /\ hasty \in BOOLEAN /\ Listing \in BOOLEAN
      /\ hasty \/ Listing \in BOOLEAN
  BY DEF ChartInv, Typed, Listing
<1>2. CASE \E r \in Ranges : SelectRange(r)
  <2>1. PICK r \in Ranges : SelectRange(r)
    BY <1>2
  <2> DEFINE v == [view EXCEPT !.range = r]
             l == NewStats(r)
  <2>2. /\ Free # {} /\ view' = v /\ Begin(l) /\ inputs' \in 0..MaxInputs
        /\ UNCHANGED <<server, stream, sent, upTo, walk, hasty>>
    BY <1>1, <2>1, InputType DEF SelectRange, history
  <2>3. /\ v \in View /\ v.page = view.page /\ v.data = view.data /\ v.pages = view.pages
        /\ v.number = view.number /\ v.filter = view.filter
    <3>1. v \in View
      BY Turned
    <3>2. /\ v.page = view.page /\ v.data = view.data /\ v.pages = view.pages
          /\ v.number = view.number /\ v.filter = view.filter
      BY <1>1 DEF View
    <3> QED BY <3>1, <3>2
  <2>4. l # None /\ l.op = "stats" /\ l = NewStats(r)
    BY NewLoads
  <2> HIDE DEF v, l
  <2>5. /\ ChartInv' /\ UNCHANGED log
        /\ \E i \in Loads : /\ load[i] = None /\ load'[i] = l
                            /\ \A j \in Loads \ {i} : load'[j] = load[j]
    BY <1>1, <2>2, <2>3, <2>4, TurnChart
  <2> QED BY <2>2, <2>3, <2>4, <2>5
<1>3. ASSUME NEW w \in View, Reload(w), UNCHANGED <<server, stream, sent, upTo>>,
             w.page = view.page, w.data = view.data, w.pages = view.pages,
             \/ walk' = None
             \/ /\ walk' = walk /\ w.filter = view.filter
                /\ w.number \in {view.number - 1, view.number + 1}
      PROVE  /\ ChartInv' /\ UNCHANGED log
             /\ view'.page = view.page /\ view'.data = view.data /\ view'.pages = view.pages
             /\ \E i \in Loads : \E l :
                  /\ load[i] = None /\ load'[i] = l /\ l # None
                  /\ \A j \in Loads \ {i} : load'[j] = load[j]
                  /\ l.op = "list" /\ hasty' = (hasty \/ Listing) /\ l.listed = None
                  /\ l.number = view'.number /\ l.filter = view'.filter
                  /\ \/ walk' = None
                     \/ /\ walk' = walk /\ view'.filter = view.filter
                        /\ view'.number \in {view.number - 1, view.number + 1}
  <2> DEFINE v == [w EXCEPT !.loading = w.page = "logs"]
             l == NewList(w)
  <2>1. /\ Free # {} /\ view' = v /\ Begin(l) /\ inputs' \in 0..MaxInputs
        /\ hasty' = (hasty \/ Listing)
    BY <1>1, <1>3, InputType DEF Reload
  <2>2. /\ v \in View /\ v.page = w.page /\ v.data = w.data /\ v.pages = w.pages
        /\ v.number = w.number /\ v.filter = w.filter
    <3>1. \A b \in BOOLEAN : LET x == [w EXCEPT !.loading = b] IN
            /\ x \in View /\ x.page = w.page /\ x.data = w.data /\ x.pages = w.pages
            /\ x.number = w.number /\ x.filter = w.filter
      BY DEF View
    <3>2. (w.page = "logs") \in BOOLEAN
      OBVIOUS
    <3> QED BY <3>1, <3>2
  <2>3. /\ l # None /\ l.op = "list" /\ l = NewList(w) /\ l.listed = None
        /\ l.number = w.number /\ l.filter = w.filter
    BY NewLoads
  <2> HIDE DEF v, l
  <2>4. hasty' \in BOOLEAN
    BY <1>1, <2>1
  <2>5. /\ ChartInv' /\ UNCHANGED log
        /\ \E i \in Loads : /\ load[i] = None /\ load'[i] = l
                            /\ \A j \in Loads \ {i} : load'[j] = load[j]
    BY <1>3, <2>1, <2>2, <2>3, <2>4, TurnChart
  <2> QED BY <1>3, <2>1, <2>2, <2>3, <2>5
<1>4. CASE PrevPage
  <2> DEFINE w == [view EXCEPT !.number = view.number - 1]
  <2>1. /\ view.number > 1 /\ Reload(w) /\ UNCHANGED <<server, stream, sent, upTo, walk>>
    BY <1>4 DEF PrevPage
  <2>2. view.number - 1 \in Nat \ {0}
    <3>1. view.number \in Nat
      BY Turned
    <3> QED BY <2>1, <3>1
  <2>3. /\ w \in View /\ w.page = view.page /\ w.data = view.data /\ w.pages = view.pages
        /\ w.filter = view.filter /\ w.number = view.number - 1
    <3>1. w \in View
      BY <2>2, Turned
    <3>2. /\ w.page = view.page /\ w.data = view.data /\ w.pages = view.pages
          /\ w.filter = view.filter /\ w.number = view.number - 1
      BY <1>1 DEF View
    <3> QED BY <3>1, <3>2
  <2> HIDE DEF w
  <2> QED BY <1>3, <2>1, <2>3
<1>5. CASE NextPage
  <2> DEFINE w == [view EXCEPT !.number = view.number + 1]
  <2>1. Reload(w) /\ UNCHANGED <<server, stream, sent, upTo, walk>>
    BY <1>5 DEF NextPage
  <2>2. view.number + 1 \in Nat \ {0}
    <3>1. \A n \in Nat : n + 1 \in Nat \ {0}
      OBVIOUS
    <3>2. view.number \in Nat
      BY Turned
    <3> QED BY <3>1, <3>2
  <2>3. /\ w \in View /\ w.page = view.page /\ w.data = view.data /\ w.pages = view.pages
        /\ w.filter = view.filter /\ w.number = view.number + 1
    <3>1. w \in View
      BY <2>2, Turned
    <3>2. /\ w.page = view.page /\ w.data = view.data /\ w.pages = view.pages
          /\ w.filter = view.filter /\ w.number = view.number + 1
      BY <1>1 DEF View
    <3> QED BY <3>1, <3>2
  <2> HIDE DEF w
  <2> QED BY <1>3, <2>1, <2>3
<1>6. CASE \E f \in Filters : ApplyFilters(f)
  <2>1. PICK f \in Filters : ApplyFilters(f)
    BY <1>6
  <2> DEFINE w == [view EXCEPT !.filter = f, !.number = 1]
  <2>2. Reload(w) /\ walk' = None /\ UNCHANGED <<server, stream, sent, upTo>>
    BY <2>1 DEF ApplyFilters
  <2>3. w \in View
    <3>1. 1 \in Nat \ {0} /\ f \in Filters
      OBVIOUS
    <3> HIDE DEF w
    <3>2. w = [view EXCEPT !.filter = f, !.number = 1]
      BY DEF w
    <3> QED BY <1>1, <3>1, <3>2 DEF View
  <2>4. w.page = view.page /\ w.data = view.data /\ w.pages = view.pages
    BY <1>1 DEF View
  <2> HIDE DEF w
  <2> QED BY <1>3, <2>2, <2>3, <2>4
<1> QED BY <1>2, <1>4, <1>5, <1>6

\* The calls stay or end, and the page is some other.
LEMMA EndChart ==
  ASSUME ChartInv, NEW i \in Loads, load' = [load EXCEPT ![i] = None],
         NEW v \in View, view' = v, UNCHANGED <<server, stream, inputs, hasty>>,
         sent' \subseteq Rows, upTo' \in 0..MaxRows,
         walk' = None \/ walk' \in [from : 0..MaxRows, seen : SUBSET Rows]
  PROVE  ChartInv' /\ \A j \in Loads : load'[j] = IF j = i THEN None ELSE load[j]
<1>1. UNCHANGED <<now, log, unannounced, stream, inputs, hasty>>
  BY DEF server
<1>2. /\ load' = [k \in Loads |-> load'[k]]
      /\ \A k \in Loads : load'[k] = IF k = i THEN None ELSE load[k]
  BY DEF ChartInv, Typed
<1>3. Typed'
  BY <1>1, <1>2 DEF ChartInv, Typed
<1>4. Asks(v)
  BY <1>2 DEF Asks
<1>5. \A k \in Loads : LoadFits(load[k])'
  BY <1>1, <1>4, AsksFits
<1> QED BY <1>2, <1>3, <1>5 DEF ChartInv

\* Two rows of the log, the later one.
LEMMA MaxOfTwo ==
  ASSUME NEW n \in Nat, NEW a \in 0..n, NEW b \in 0..n
  PROVE  /\ Max({a, b}) \in 0..n
         /\ Max({a, b}) >= a /\ Max({a, b}) >= b
<1>1. \E x \in {a, b} : \A y \in {a, b} : x >= y
  <2>1. a \in Int /\ b \in Int
    OBVIOUS
  <2>2. CASE a >= b
    BY <2>1, <2>2
  <2>3. CASE b >= a
    BY <2>1, <2>3
  <2> QED BY <2>1, <2>2, <2>3
<1>2. Max({a, b}) \in {a, b} /\ \A y \in {a, b} : Max({a, b}) >= y
  BY <1>1 DEF Max
<1> QED BY <1>2

\* How many pages there are.
LEMMA PagesCount ==
  ASSUME NEW c \in Nat
  PROVE  /\ TotalPages(c) \in Nat
         /\ \A n \in Nat \ {0} : n >= TotalPages(c) => c <= Skip(n) + PageSize
<1> DEFINE P == PageSize
           q == (c + P - 1) \div P
<1>1. P \in Nat \ {0}
  BY StatisticsAssumption
<1> HIDE DEF P
<1>2. q \in Int /\ q * P <= c + P - 1 /\ c + P - 1 < (q + 1) * P
  BY <1>1
<1> HIDE DEF q
<1>3. q >= 0
  <2> SUFFICES ASSUME q + 1 <= 0 PROVE FALSE
    BY <1>2
  <2>1. (q + 1) * P <= 0
    BY <1>1, <1>2
  <2> QED BY <1>1, <1>2, <2>1
<1>4. ASSUME NEW n \in Nat \ {0}, n >= q PROVE c <= (n - 1) * P + P
  <2>1. q * P <= n * P
    BY <1>1, <1>2, <1>4
  <2>2. (n - 1) * P + P = n * P /\ (q + 1) * P = q * P + P
    BY <1>1, <1>2
  <2>3. n * P \in Int /\ q * P \in Int
    BY <1>1, <1>2
  <2> QED BY <1>1, <1>2, <2>1, <2>2, <2>3
<1> QED BY <1>2, <1>3, <1>4 DEF TotalPages, Skip, P, q

\* An answer or a failure is taken.
LEMMA ShowChart ==
  ASSUME ChartInv, NEW i \in Loads, Show(i)
  PROVE  /\ ChartInv' /\ UNCHANGED <<log, hasty>> /\ load[i] # None
         /\ \A j \in Loads : load'[j] = IF j = i THEN None ELSE load[j]
         /\ view'.page = view.page /\ view'.number = view.number /\ view'.filter = view.filter
         /\ \/ /\ load[i].op = "stats" /\ walk' = walk
               /\ view'.data = view.data /\ view'.pages = view.pages
            \/ load[i].op = "list" /\ walk' = None
            \/ /\ load[i].op = "list" /\ load[i].listed # None
               /\ load[i].counted = load[i].listed /\ view'.data = load[i].data
               /\ view.page = "logs" \/ view'.pages = TotalPages(load[i].total)
               /\ \/ load[i].number = 1 /\ walk' = [from |-> load[i].listed, seen |-> load[i].data]
                  \/ /\ load[i].number # 1 /\ walk # None
                     /\ walk' = [walk EXCEPT !.seen = walk.seen \cup load[i].data]
<1> DEFINE q == load[i]
<1>1. /\ Typed /\ view \in View /\ q # None /\ UNCHANGED <<log, hasty>>
      /\ load' = [load EXCEPT ![i] = None]
      /\ UNCHANGED <<server, stream, inputs, hasty>>
  BY DEF ChartInv, Typed, Show, ShowStats, ShowPage, FailLoad, server, history
<1>2. /\ q.op = "stats" => q \in StatsLoad /\ StatsFits(q)
      /\ q.op = "list" => q \in ListLoad /\ ListFits(q)
      /\ q.op \in {"stats", "list"}
  BY <1>1, LoadKinds
<1>3. CASE ShowStats(i)
  <2> DEFINE v == [view EXCEPT !.stats = q.answer.names, !.loading = FALSE]
  <2>1. view' = v /\ q.op = "stats" /\ UNCHANGED history /\ q.step = "answered"
    BY <1>3 DEF ShowStats
  <2>2. q.answer.names \in SUBSET Names
    BY <1>2, <2>1 DEF StatsFits, Stats
  <2>3. /\ v \in View /\ v.page = view.page /\ v.number = view.number /\ v.filter = view.filter
        /\ v.data = view.data /\ v.pages = view.pages
    BY <1>1, <2>2 DEF View
  <2> HIDE DEF v
  <2>4. /\ sent' \subseteq Rows /\ upTo' \in 0..MaxRows /\ walk' = walk
        /\ walk' = None \/ walk' \in [from : 0..MaxRows, seen : SUBSET Rows]
    BY <1>1, <2>1 DEF Typed, history
  <2>5. ChartInv' /\ \A j \in Loads : load'[j] = IF j = i THEN None ELSE load[j]
    BY <1>1, <2>1, <2>3, <2>4, EndChart
  <2> QED BY <1>1, <2>1, <2>3, <2>4, <2>5
<1>4. CASE FailLoad(i)
  <2>1. /\ view' = IF q.op = "list" /\ view.page = "dashboard"
                   THEN [view EXCEPT !.data = {}] ELSE [view EXCEPT !.loading = FALSE]
        /\ IF q.op = "list" THEN walk' = None /\ sent' = {} ELSE UNCHANGED <<walk, sent>>
        /\ upTo' = upTo
    BY <1>4 DEF FailLoad
  <2>2. PICK v : v = IF q.op = "list" /\ view.page = "dashboard"
                     THEN [view EXCEPT !.data = {}] ELSE [view EXCEPT !.loading = FALSE]
    OBVIOUS
  <2>3. /\ v \in View /\ v.page = view.page /\ v.number = view.number /\ v.filter = view.filter
        /\ q.op # "list" => v.data = view.data /\ v.pages = view.pages
    BY <1>1, <2>2 DEF View
  <2>4. /\ sent' \subseteq Rows /\ upTo' \in 0..MaxRows
        /\ walk' = None \/ walk' \in [from : 0..MaxRows, seen : SUBSET Rows]
    BY <1>1, <2>1 DEF Typed
  <2>5. view' = v
    BY <2>1, <2>2
  <2>6. ChartInv' /\ \A j \in Loads : load'[j] = IF j = i THEN None ELSE load[j]
    BY <1>1, <2>3, <2>4, <2>5, EndChart
  <2> QED BY <1>1, <1>2, <2>1, <2>3, <2>5, <2>6
<1>5. CASE ShowPage(i)
  <2>1. PICK m : m = IF view.page = "logs" THEN view.pages ELSE TotalPages(q.total)
    OBVIOUS
  <2>2. PICK b : b = IF view.page = "logs" THEN FALSE ELSE view.loading
    OBVIOUS
  <2> DEFINE v == [view EXCEPT !.data = q.data, !.pages = m, !.loading = b]
  <2>3. /\ q.op = "list" /\ q.listed # None /\ q.counted # None
        /\ view' = v /\ upTo' = Max({upTo, q.listed}) /\ sent' = sent
    BY <1>1, <1>5, <2>1, <2>2 DEF ShowPage, View
  <2>4. /\ walk' = IF q.listed # q.counted THEN None
                   ELSE IF q.number = 1 THEN [from |-> q.listed, seen |-> q.data]
                   ELSE IF walk = None THEN None
                   ELSE [walk EXCEPT !.seen = walk.seen \cup q.data]
    BY <1>5 DEF ShowPage
  <2>5. /\ q.data \in SUBSET Rows /\ q.listed \in 0..MaxRows /\ q.total \in Nat
    BY <1>2, <2>3, LiveUpdatesAssumption DEF ListLoad
  <2>6. m \in Nat /\ b \in BOOLEAN
    BY <1>1, <2>1, <2>2, <2>5, PagesCount DEF View
  <2>7. /\ v \in View /\ v.page = view.page /\ v.number = view.number /\ v.filter = view.filter
        /\ v.data = q.data /\ v.pages = m
    BY <1>1, <2>5, <2>6 DEF View
  <2> HIDE DEF v
  <2>8. sent' \subseteq Rows
    BY <1>1, <2>3 DEF Typed
  <2>9. upTo' \in 0..MaxRows
    BY <1>1, <2>3, <2>5, MaxOfTwo, LiveUpdatesAssumption DEF Typed
  <2>10. walk' = None \/ walk' \in [from : 0..MaxRows, seen : SUBSET Rows]
    BY <1>1, <2>4, <2>5 DEF Typed
  <2>11. ChartInv' /\ \A j \in Loads : load'[j] = IF j = i THEN None ELSE load[j]
    BY <1>1, <2>3, <2>7, <2>8, <2>9, <2>10, EndChart
  <2>12. view.page = "logs" \/ view'.pages = TotalPages(q.total)
    BY <2>1, <2>3, <2>7
  <2> HIDE DEF q
  <2>13. /\ view'.page = view.page /\ view'.number = view.number /\ view'.filter = view.filter
         /\ view'.data = q.data
    BY <2>3, <2>7
  <2>14. \/ walk' = None
         \/ /\ q.counted = q.listed
            /\ \/ q.number = 1 /\ walk' = [from |-> q.listed, seen |-> q.data]
               \/ /\ q.number # 1 /\ walk # None
                  /\ walk' = [walk EXCEPT !.seen = walk.seen \cup q.data]
    BY <2>4
  <2> QED BY <1>1, <2>3, <2>11, <2>12, <2>13, <2>14 DEF q
<1> QED BY <1>3, <1>4, <1>5 DEF Show
-----------------------------------------------------------------------------
(* Readers who turn pages.                                                   *)

\* A call for a list.
IsList(l) == l # None /\ l.op = "list"

\* The reader has seen the rows that were at most m-th when the log had n rows.
Reached(n, m) ==
  \A k \in Found(walk.from, view.filter) :
    Rank(Found(n, view.filter), k) < m => k \in walk.seen

\* The page shows what it asked for, from a log of n rows.
Shown(n) ==
  /\ Reached(n, Skip(view.number) + PageSize)
  /\ view.data = PageOf(Found(n, view.filter), view.number)
  /\ view.page = "logs" \/ view.pages = TotalPages(Cardinality(Found(n, view.filter)))

\* Lists are for the page that is shown: whatever is listed for it, the rows before
\* it were seen.
WalkInv ==
  ~ hasty =>
    /\ \A i \in Loads : IsList(load[i]) =>
         load[i].number = view.number /\ load[i].filter = view.filter
    /\ walk # None =>
       /\ walk.from <= Len(log)
       /\ Reached(Len(log), Skip(view.number))
       /\ \A i \in Loads : IsList(load[i]) /\ view.number > 1 /\ load[i].listed # None =>
            walk.from <= load[i].listed /\ Reached(load[i].listed, Skip(view.number))
       /\ ~ Listing => \E n \in walk.from..Len(log) : Shown(n)

\* Rows of the log so far.
LEMMA FoundFinite ==
  ASSUME NEW n \in Nat, NEW S \in SUBSET (1..n)
  PROVE  S \in SUBSET Nat /\ IsFiniteSet(S)
<1> DEFINE T == 1..n
<1>1. T \in SUBSET Nat /\ IsFiniteSet(T) /\ S \in SUBSET T
  BY FS_Interval
<1> HIDE DEF T
<1> QED BY <1>1, FS_Subset

\* A row's rank is no less among more rows.
LEMMA RankGrows ==
  ASSUME NEW T \in SUBSET Nat, IsFiniteSet(T), NEW S \in SUBSET T, NEW k
  PROVE  Rank(S, k) \in Nat /\ Rank(T, k) \in Nat /\ Rank(S, k) <= Rank(T, k)
<1> DEFINE M == {j \in S : j > k}
           N == {j \in T : j > k}
<1>1. M \in SUBSET N /\ N \in SUBSET T
  OBVIOUS
<1>2. Rank(S, k) = Cardinality(M) /\ Rank(T, k) = Cardinality(N)
  BY DEF Rank
<1> HIDE DEF M, N
<1>3. IsFiniteSet(N)
  BY <1>1, FS_Subset
<1>4. IsFiniteSet(M) /\ Cardinality(M) <= Cardinality(N)
  BY <1>1, <1>3, FS_Subset
<1> QED BY <1>2, <1>3, <1>4, FS_CardinalityType

\* What is reached of one log is reached of a longer one.
LEMMA ReachedGrows ==
  ASSUME NEW n \in Nat, NEW m \in Nat, n <= m, NEW a \in Int, NEW b \in Int, a <= b,
         Reached(n, b)
  PROVE  Reached(m, a)
<1> SUFFICES ASSUME NEW k \in Found(walk.from, view.filter),
                    Rank(Found(m, view.filter), k) < a
             PROVE  k \in walk.seen
  BY DEF Reached
<1> DEFINE S == Found(n, view.filter)
           T == Found(m, view.filter)
<1>1. S \in SUBSET T /\ T \in SUBSET (1..m)
  <2>1. \A j \in 1..n : j \in 1..m
    OBVIOUS
  <2> QED BY <2>1 DEF Found
<1>2. Rank(T, k) < a /\ \A j \in Found(walk.from, view.filter) : Rank(S, j) < b => j \in walk.seen
  BY DEF Reached
<1> HIDE DEF S, T
<1>3. T \in SUBSET Nat /\ IsFiniteSet(T)
  BY <1>1, FoundFinite
<1>4. Rank(S, k) \in Nat /\ Rank(T, k) \in Nat /\ Rank(S, k) <= Rank(T, k)
  BY <1>1, <1>3, RankGrows
<1> QED BY <1>2, <1>4

\* Rows before a page, and before the next.
LEMMA Skips ==
  ASSUME NEW n \in Nat \ {0}
  PROVE  /\ Skip(n) \in Nat /\ Skip(n + 1) = Skip(n) + PageSize
         /\ Skip(n - 1) <= Skip(n) /\ Skip(n - 1) \in Int
         /\ Skip(1) = 0 /\ PageSize \in Nat \ {0}
<1> DEFINE P == PageSize
<1>1. P \in Nat \ {0}
  BY StatisticsAssumption
<1> HIDE DEF P
<1>2. (n + 1 - 1) * P = (n - 1) * P + P /\ (n - 1 - 1) * P = (n - 1) * P - P
  BY <1>1
<1>3. (n - 1) * P \in Nat
  BY <1>1
<1>4. (1 - 1) * P = 0
  BY <1>1
<1> QED BY <1>1, <1>2, <1>3, <1>4 DEF Skip, P

\* The view and the calls for lists of it stay what they were, but for those that
\* begin, are answered or end.
SamePages ==
  view'.page = view.page /\ view'.number = view.number /\ view'.filter = view.filter

\* How the calls for lists go on.
ListsFollow ==
  \A i \in Loads : IsList(load'[i]) =>
    \/ IsList(load[i]) /\ load'[i] = load[i]
    \/ /\ load'[i].number = view.number /\ load'[i].filter = view.filter
       /\ load'[i].listed = None
    \/ /\ IsList(load[i])
       /\ load'[i].number = load[i].number /\ load'[i].filter = load[i].filter
       /\ load'[i].listed \in {load[i].listed, Len(log)}

\* What has no part in a walk.
LEMMA KeepWalk ==
  ASSUME ChartInv, WalkInv, SamePages, ListsFollow, UNCHANGED <<log, walk, hasty>>,
         view'.data = view.data, view'.pages = view.pages,
         \A i \in Loads : IsList(load[i]) => IsList(load'[i])
  PROVE  WalkInv'
<1> SUFFICES ASSUME ~ hasty PROVE WalkInv'
  BY DEF WalkInv
<1>1. /\ \A i \in Loads : IsList(load[i]) =>
           load[i].number = view.number /\ load[i].filter = view.filter
      /\ walk # None =>
         /\ walk.from <= Len(log)
         /\ Reached(Len(log), Skip(view.number))
         /\ \A i \in Loads : IsList(load[i]) /\ view.number > 1 /\ load[i].listed # None =>
              walk.from <= load[i].listed /\ Reached(load[i].listed, Skip(view.number))
         /\ ~ Listing => \E n \in walk.from..Len(log) : Shown(n)
  BY DEF WalkInv
<1>2. \A i \in Loads : IsList(load'[i]) =>
        load'[i].number = view.number /\ load'[i].filter = view.filter
  BY <1>1 DEF ListsFollow
<1>3. \A n, m : Reached(n, m)' = Reached(n, m)
  BY DEF Reached, Found, SamePages
<1>4. ASSUME walk # None, NEW i \in Loads, IsList(load'[i]), view.number > 1, load'[i].listed # None
      PROVE  walk.from <= load'[i].listed /\ Reached(load'[i].listed, Skip(view.number))
  BY <1>1, <1>4 DEF ListsFollow
<1>5. ASSUME walk # None, ~ Listing' PROVE \E n \in walk.from..Len(log) : Shown(n)'
  <2>1. ~ Listing
    BY <1>5 DEF Listing, IsList
  <2>2. PICK n \in walk.from..Len(log) : Shown(n)
    BY <1>1, <1>5, <2>1
  <2>3. Shown(n)'
    BY <1>3, <2>2 DEF Shown, SamePages, Found
  <2> QED BY <2>3
<1> QED BY <1>1, <1>2, <1>3, <1>4, <1>5 DEF WalkInv, SamePages, IsList

\* A walk that ends.
LEMMA NoWalk ==
  ASSUME walk' = None,
         ~ hasty' => \A i \in Loads : IsList(load'[i]) =>
                       load'[i].number = view'.number /\ load'[i].filter = view'.filter
  PROVE  WalkInv'
BY DEF WalkInv, IsList

\* The clock, the announcements and the stream; what the server does.
LEMMA ServeWalk ==
  ASSUME ChartInv, WalkInv,
         \/ Tick \/ OpenStream \/ Subscribed \/ DropStream \/ ReadStream
         \/ \E k \in unannounced : Publish(k)
         \/ \E i \in Loads : Serve(i) \/ LoseLoad(i)
  PROVE  WalkInv'
<1>1. CASE \/ Tick \/ OpenStream \/ Subscribed \/ DropStream \/ \E k \in unannounced : Publish(k)
  <2>1. UNCHANGED <<log, view, load, walk, hasty>>
    BY <1>1, StreamChart
  <2>2. SamePages /\ ListsFollow
    BY <2>1 DEF SamePages, ListsFollow
  <2> QED BY <2>1, <2>2, KeepWalk
<1>2. CASE ReadStream
  <2>1. /\ UNCHANGED <<log, walk, hasty>>
        /\ view' = view \/ view' = [view EXCEPT !.loading = TRUE]
        /\ \A i \in Loads : load'[i] # load[i] => load[i] = None
    BY <1>2, ReadChart
  <2>2. PICK v \in View : Asks(v) /\ v.number = view.number /\ v.filter = view.filter
    BY <1>2, ReadChart
  <2>3. SamePages /\ view'.data = view.data /\ view'.pages = view.pages
    BY <2>1 DEF ChartInv, Typed, View, SamePages
  <2>4. ListsFollow
    <3> SUFFICES ASSUME NEW i \in Loads, IsList(load'[i]), load'[i] # load[i]
                 PROVE  /\ load'[i].number = view.number /\ load'[i].filter = view.filter
                        /\ load'[i].listed = None
      BY DEF ListsFollow
    <3>1. (\E r \in Ranges : load'[i] = NewStats(r)) \/ load'[i] = NewList(v)
      BY <2>2 DEF Asks, IsList
    <3> QED BY <2>2, <3>1, NewLoads DEF IsList, NewStats
  <2> QED BY <2>1, <2>3, <2>4, KeepWalk DEF IsList
<1>3. CASE \E i \in Loads : Serve(i) \/ LoseLoad(i)
  <2>1. PICK i \in Loads : Serve(i) \/ LoseLoad(i)
    BY <1>3
  <2>2. UNCHANGED <<log, view, walk, hasty>> /\ load[i] # None
    BY <2>1, ServeChart
  <2>3. PICK l : /\ load' = [load EXCEPT ![i] = l] /\ l # None /\ l.op = load[i].op
                 /\ l.op = "list" => /\ l.number = load[i].number /\ l.filter = load[i].filter
                                     /\ l.listed = load[i].listed \/ l.listed = Len(log)
    BY <2>1, ServeChart
  <2>4. \A j \in Loads : load'[j] = IF j = i THEN l ELSE load[j]
    BY <2>3 DEF ChartInv, Typed
  <2>5. SamePages /\ ListsFollow /\ \A j \in Loads : IsList(load[j]) => IsList(load'[j])
    BY <2>2, <2>3, <2>4 DEF SamePages, ListsFollow, IsList
  <2> QED BY <2>2, <2>5, KeepWalk
<1> QED BY <1>1, <1>2, <1>3

\* A row is logged: it is newer than all that was seen or is still to be.
LEMMA LogWalk ==
  ASSUME ChartInv, WalkInv, NEW name \in Names, LogSigningAction(name)
  PROVE  WalkInv'
<1> SUFFICES ASSUME ~ hasty PROVE WalkInv'
  BY LogChart DEF WalkInv
<1> DEFINE f == view.filter
           N == Len(log)
<1>1. /\ ChartInv' /\ UNCHANGED <<view, load, walk, hasty>>
      /\ Len(log') = N + 1 /\ \A m \in 0..N : Found(m, f)' = Found(m, f)
  BY LogChart
<1>2. /\ \A i \in Loads : IsList(load[i]) =>
           load[i].number = view.number /\ load[i].filter = view.filter
      /\ walk # None =>
         /\ walk.from <= N
         /\ Reached(N, Skip(view.number))
         /\ \A i \in Loads : IsList(load[i]) /\ view.number > 1 /\ load[i].listed # None =>
              walk.from <= load[i].listed /\ Reached(load[i].listed, Skip(view.number))
         /\ ~ Listing => \E n \in walk.from..N : Shown(n)
  BY DEF WalkInv
<1>3. N \in Nat /\ log' \in Seq(Row)
  BY <1>1 DEF ChartInv, Typed
<1>4. SUFFICES ASSUME walk # None PROVE WalkInv'
  <2>1. \A i \in Loads : IsList(load'[i]) =>
          load'[i].number = view'.number /\ load'[i].filter = view'.filter
    BY <1>1, <1>2
  <2> QED BY <1>1, <2>1 DEF WalkInv, IsList
<1>5. walk.from \in 0..N
  BY <1>2, <1>3, <1>4 DEF ChartInv, Typed
<1>6. \A n \in 0..N : \A m : Reached(n, m)' = Reached(n, m)
  BY <1>1, <1>5 DEF Reached
<1>7. Reached(Len(log), Skip(view.number))'
  <2>1. PICK w \in 0..N : w = walk.from
    BY <1>5
  <2>2. Found(w, f)' = Found(w, f)
    BY <1>1
  <2>3. SUFFICES ASSUME NEW k \in Found(walk.from, f),
                        Rank(Found(Len(log), f)', k) < Skip(view.number)
                 PROVE  k \in walk.seen
    BY <1>1, <2>1, <2>2 DEF Reached
  <2> DEFINE S == Found(N, f)
             T == Found(Len(log), f)'
  <2>4. S \in SUBSET T /\ T \in SUBSET (1..(N + 1)) /\ N + 1 \in Nat
    <3>1. \A j \in 1..N : log'[j] = log[j] /\ j \in 1..(N + 1)
      BY <1>3, LogChart
    <3>2. T = {j \in 1..(N + 1) : f = None \/ log'[j].name = f}
      BY <1>1 DEF Found
    <3> HIDE DEF T
    <3> QED BY <1>3, <3>1, <3>2 DEF Found
  <2>5. Skip(view.number) \in Nat
    <3>1. view.number \in Nat \ {0}
      BY Turned
    <3> QED BY <3>1, Skips
  <2>6. \A j \in Found(walk.from, f) : Rank(S, j) < Skip(view.number) => j \in walk.seen
    BY <1>2, <1>4 DEF Reached
  <2>7. Rank(T, k) < Skip(view.number)
    BY <2>3
  <2> HIDE DEF S, T
  <2>8. T \in SUBSET Nat /\ IsFiniteSet(T)
    BY <2>4, FoundFinite
  <2>9. Rank(S, k) \in Nat /\ Rank(T, k) \in Nat /\ Rank(S, k) <= Rank(T, k)
    BY <2>4, <2>8, RankGrows
  <2> QED BY <2>5, <2>6, <2>7, <2>9
<1>8. ASSUME NEW i \in Loads, IsList(load[i]), view.number > 1, load[i].listed # None
      PROVE  walk.from <= load[i].listed /\ Reached(load[i].listed, Skip(view.number))'
  <2>1. load[i].listed \in 0..MaxRows /\ load[i].listed <= N
    BY <1>8, LoadKinds DEF IsList, ListFits, ListLoad
  <2>2. load[i].listed \in 0..N
    BY <1>3, <2>1
  <2> HIDE DEF N
  <2>3. \A n \in 0..N : \A m : Reached(n, m) => Reached(n, m)'
    BY <1>6
  <2>4. PICK n : n = load[i].listed
    OBVIOUS
  <2>5. PICK m : m = Skip(view.number)
    OBVIOUS
  <2>6. Reached(n, m)'
    BY <1>2, <1>4, <1>8, <2>2, <2>3, <2>4, <2>5
  <2> QED BY <1>1, <1>2, <1>4, <1>8, <2>4, <2>5, <2>6
<1>9. ASSUME ~ Listing PROVE \E n \in walk.from..Len(log') : Shown(n)'
  <2>1. PICK n \in walk.from..N : Shown(n)
    BY <1>2, <1>4, <1>9
  <2>2. n \in 0..N /\ n \in walk.from..Len(log')
    BY <1>1, <1>3, <1>5
  <2>3. Found(n, f)' = Found(n, f) /\ \A m : Reached(n, m)' = Reached(n, m)
    BY <1>1, <1>6, <2>2
  <2>4. Shown(n)'
    BY <1>1, <2>1, <2>3 DEF Shown
  <2> QED BY <2>2, <2>4
<1>10. walk.from <= Len(log')
  BY <1>1, <1>3, <1>5
<1> QED BY <1>1, <1>2, <1>4, <1>7, <1>8, <1>9, <1>10 DEF WalkInv, Listing

\* A click: a reader who waited has seen the rows before the next page.
LEMMA ClickWalk ==
  ASSUME ChartInv, WalkInv, Click
  PROVE  ChartInv' /\ WalkInv'
<1>1. CASE EnterDashboard \/ Leave \/ \E n \in Names : EnterLogs(n)
  BY <1>1, MountChart, NoWalk DEF IsList
<1>2. CASE \/ \E r \in Ranges : SelectRange(r)
           \/ PrevPage \/ NextPage \/ \E f \in Filters : ApplyFilters(f)
  <2>1. /\ ChartInv' /\ UNCHANGED log
        /\ view'.page = view.page /\ view'.data = view.data /\ view'.pages = view.pages
    BY <1>2, ClickChart
  <2>2. PICK i \in Loads : \E l :
          /\ load[i] = None /\ load'[i] = l /\ l # None
          /\ \A j \in Loads \ {i} : load'[j] = load[j]
          /\ \/ /\ l.op = "stats" /\ hasty' = hasty /\ walk' = walk
                /\ view'.number = view.number /\ view'.filter = view.filter
             \/ /\ l.op = "list" /\ hasty' = (hasty \/ Listing) /\ l.listed = None
                /\ l.number = view'.number /\ l.filter = view'.filter
                /\ \/ walk' = None
                   \/ /\ walk' = walk /\ view'.filter = view.filter
                      /\ view'.number \in {view.number - 1, view.number + 1}
    BY <1>2, ClickChart
  <2>3. /\ load[i] = None /\ load'[i] # None
        /\ \A j \in Loads \ {i} : load'[j] = load[j]
    BY <2>2
  <2>4. CASE /\ load'[i].op = "stats" /\ hasty' = hasty /\ walk' = walk
             /\ view'.number = view.number /\ view'.filter = view.filter
    <3>1. SamePages /\ ListsFollow /\ \A j \in Loads : IsList(load[j]) => IsList(load'[j])
      BY <2>1, <2>3, <2>4 DEF SamePages, ListsFollow, IsList
    <3> QED BY <2>1, <2>4, <3>1, KeepWalk
  <2>5. CASE /\ load'[i].op = "list" /\ hasty' = (hasty \/ Listing) /\ load'[i].listed = None
             /\ load'[i].number = view'.number /\ load'[i].filter = view'.filter
             /\ \/ walk' = None
                \/ /\ walk' = walk /\ view'.filter = view.filter
                   /\ view'.number \in {view.number - 1, view.number + 1}
    <3>1. SUFFICES ASSUME ~ hasty' PROVE WalkInv'
      BY <2>1 DEF WalkInv
    <3>2. ~ hasty /\ ~ Listing /\ \A j \in Loads : ~ IsList(load[j])
      BY <2>5, <3>1 DEF Listing, IsList
    <3>3. \A j \in Loads : IsList(load'[j]) => j = i
      BY <2>3, <3>2
    <3>4. \A j \in Loads : IsList(load'[j]) =>
            load'[j].number = view'.number /\ load'[j].filter = view'.filter /\ load'[j].listed = None
      BY <2>5, <3>3
    <3>5. CASE walk' = None
      BY <3>4, <3>5, NoWalk
    <3>6. CASE walk' # None
      <4>1. /\ walk # None /\ walk' = walk /\ view'.filter = view.filter
            /\ view'.number \in {view.number - 1, view.number + 1}
        BY <2>5, <3>6
      <4>2. walk.from <= Len(log) /\ \E n \in walk.from..Len(log) : Shown(n)
        BY <3>2, <4>1 DEF WalkInv
      <4>3. PICK n \in walk.from..Len(log) : Shown(n)
        BY <4>2
      <4>4. n \in Nat /\ Len(log) \in Nat /\ n <= Len(log)
        <5>1. walk.from \in Nat /\ Len(log) \in Nat
          BY <4>1 DEF ChartInv, Typed
        <5> QED BY <5>1
      <4> DEFINE a == Skip(view'.number)
                 b == Skip(view.number) + PageSize
      <4>5. a \in Int /\ b \in Int /\ a <= b
        <5>1. view.number \in Nat \ {0}
          BY Turned
        <5>2. /\ Skip(view.number) \in Nat /\ Skip(view.number + 1) = Skip(view.number) + PageSize
              /\ Skip(view.number - 1) <= Skip(view.number) /\ Skip(view.number - 1) \in Int
              /\ PageSize \in Nat
          BY <5>1, Skips
        <5>3. CASE view'.number = view.number + 1
          BY <5>2, <5>3
        <5>4. CASE view'.number = view.number - 1
          BY <5>2, <5>4
        <5> QED BY <4>1, <5>3, <5>4
      <4>6. Reached(n, b)
        BY <4>3 DEF Shown
      <4>7. Reached(Len(log), a)
        <5> DEFINE m == Len(log)
        <5> HIDE DEF a, b, m
        <5>1. Reached(m, a)
          BY <4>4, <4>5, <4>6, ReachedGrows DEF m
        <5> QED BY <5>1 DEF m
      <4>8. Reached(Len(log), Skip(view.number))'
        BY <2>1, <4>1, <4>7 DEF Reached, Found
      <4>9. walk'.from <= Len(log')
        BY <2>1, <4>1, <4>2
      <4>10. Listing'
        BY <2>3, <2>5 DEF Listing
      <4> QED BY <3>4, <4>8, <4>9, <4>10 DEF WalkInv, IsList
    <3> QED BY <3>5, <3>6
  <2> QED BY <2>1, <2>2, <2>4, <2>5
<1> QED BY <1>1, <1>2 DEF Click

\* Of the rows up to the end of a page, those that are not before it are on it.
LEMMA PageSplits ==
  ASSUME NEW S \in SUBSET Nat, IsFiniteSet(S), NEW k \in S, NEW n \in Nat \ {0},
         Rank(S, k) < Skip(n) + PageSize, ~ (Rank(S, k) < Skip(n))
  PROVE  k \in PageOf(S, n)
<1>1. Rank(S, k) \in Nat
  BY Ranks
<1>2. Skip(n) \in Nat /\ PageSize \in Nat
  BY Skips
<1>3. Rank(S, k) \in Skip(n)..(Skip(n) + PageSize - 1)
  BY <1>1, <1>2
<1> QED BY <1>3 DEF PageOf, Rank

\* An answer: the rows of the page are seen with those before it.
LEMMA ShowWalk ==
  ASSUME ChartInv, WalkInv, NEW i \in Loads, Show(i)
  PROVE  WalkInv'
<1> DEFINE q == load[i]
<1>1. /\ ChartInv' /\ UNCHANGED <<log, hasty>> /\ q # None
      /\ \A j \in Loads : load'[j] = IF j = i THEN None ELSE load[j]
      /\ view'.page = view.page /\ view'.number = view.number /\ view'.filter = view.filter
  BY ShowChart
<1> SUFFICES ASSUME ~ hasty PROVE WalkInv'
  BY <1>1 DEF WalkInv
<1>2. /\ \A j \in Loads : IsList(load[j]) =>
           load[j].number = view.number /\ load[j].filter = view.filter
      /\ walk # None =>
         /\ walk.from <= Len(log)
         /\ Reached(Len(log), Skip(view.number))
         /\ \A j \in Loads : IsList(load[j]) /\ view.number > 1 /\ load[j].listed # None =>
              walk.from <= load[j].listed /\ Reached(load[j].listed, Skip(view.number))
  BY DEF WalkInv
<1>3. \A j \in Loads : IsList(load'[j]) => IsList(load[j]) /\ load'[j] = load[j]
  BY <1>1 DEF IsList
<1>4. SamePages /\ ListsFollow
  BY <1>1, <1>3 DEF SamePages, ListsFollow
<1>5. CASE /\ q.op = "stats" /\ walk' = walk
           /\ view'.data = view.data /\ view'.pages = view.pages
  <2>1. \A j \in Loads : IsList(load[j]) => IsList(load'[j])
    BY <1>1, <1>5 DEF IsList
  <2> QED BY <1>1, <1>4, <1>5, <2>1, KeepWalk
<1>6. CASE walk' = None
  BY <1>1, <1>2, <1>3, <1>6, NoWalk
<1>7. CASE /\ q.op = "list" /\ q.listed # None
           /\ q.counted = q.listed /\ view'.data = q.data
           /\ view.page = "logs" \/ view'.pages = TotalPages(q.total)
           /\ \/ q.number = 1 /\ walk' = [from |-> q.listed, seen |-> q.data]
              \/ /\ q.number # 1 /\ walk # None
                 /\ walk' = [walk EXCEPT !.seen = walk.seen \cup q.data]
  <2>1. PICK f, N, m : f = view.filter /\ N = Len(log) /\ m = view.number
    OBVIOUS
  <2>2. PICK n, a, b : n = q.listed /\ a = Skip(m) /\ b = Skip(m) + PageSize
    OBVIOUS
  <2>3. q \in ListLoad /\ ListFits(q) /\ q.number = m /\ q.filter = f
    BY <1>1, <1>2, <1>7, <2>1, LoadKinds DEF IsList
  <2>4. /\ n \in 0..MaxRows /\ n <= N /\ n \in Nat /\ N \in Nat
        /\ q.data = PageOf(Found(n, f), m) /\ q.total = Cardinality(Found(n, f))
    BY <1>7, <2>1, <2>2, <2>3 DEF ListLoad, ListFits, ChartInv, Typed
  <2>5. m \in Nat \ {0}
    BY <2>1, Turned
  <2>6. a \in Nat /\ PageSize \in Nat \ {0} /\ b = a + PageSize /\ (m = 1 => a = 0)
    BY <2>2, <2>5, Skips
  <2>7. \A c \in Nat : /\ Found(c, f) \in SUBSET Nat /\ IsFiniteSet(Found(c, f))
                       /\ \A k \in Found(c, f) : Rank(Found(c, f), k) \in Nat
    <3> SUFFICES ASSUME NEW c \in Nat, NEW S, S = Found(c, f)
                 PROVE  /\ S \in SUBSET Nat /\ IsFiniteSet(S)
                        /\ \A k : Rank(S, k) \in Nat
      OBVIOUS
    <3>1. S \in SUBSET Nat /\ IsFiniteSet(S)
      BY ZenonT(40), FoundFinite DEF Found
    <3> QED BY <3>1, RankGrows
  <2>8. \A c, d : /\ Reached(c, d)' <=> \A k \in Found(walk'.from, f) :
                                          Rank(Found(c, f), k) < d => k \in walk'.seen
                  /\ Reached(c, d) <=> \A k \in Found(walk.from, f) :
                                         Rank(Found(c, f), k) < d => k \in walk.seen
    BY <1>1, <2>1 DEF Reached, Found
  <2>9. \A k \in Found(n, f) : Rank(Found(n, f), k) < b /\ ~ (Rank(Found(n, f), k) < a) => k \in q.data
    <3> SUFFICES ASSUME NEW k \in Found(n, f), Rank(Found(n, f), k) < b,
                        ~ (Rank(Found(n, f), k) < a)
                 PROVE  k \in q.data
      OBVIOUS
    <3>1. PICK S : S = Found(n, f)
      OBVIOUS
    <3>2. k \in PageOf(S, m)
      BY <2>2, <2>4, <2>5, <2>7, <3>1, PageSplits
    <3> QED BY <2>4, <3>1, <3>2
  <2>10. /\ walk'.from \in 0..n /\ Reached(N, a)' /\ Reached(n, b)'
         /\ \A j \in Loads : IsList(load'[j]) /\ m > 1 /\ load'[j].listed # None =>
              walk'.from <= load'[j].listed /\ Reached(load[j].listed, a)'
    <3>1. CASE q.number = 1 /\ walk' = [from |-> n, seen |-> q.data]
      <4>1. m = 1 /\ a = 0 /\ walk'.from = n /\ walk'.seen = q.data
        BY <2>3, <2>6, <3>1
      <4>2. \A k \in Found(n, f) : Rank(Found(n, f), k) < b => k \in q.data
        BY <2>4, <2>7, <2>9, <4>1
      <4>3. Reached(n, b)'
        BY <2>8, <4>1, <4>2
      <4>4. \A k \in Found(n, f) : ~ (Rank(Found(N, f), k) < 0)
        <5>1. Found(n, f) \subseteq Found(N, f)
          BY <2>4 DEF Found
        <5> QED BY <2>4, <2>7, <5>1
      <4>5. Reached(N, a)'
        BY <2>8, <4>1, <4>4
      <4> QED BY <2>4, <4>1, <4>3, <4>5
    <3>2. CASE /\ q.number # 1 /\ walk # None
               /\ walk' = [walk EXCEPT !.seen = walk.seen \cup q.data]
      <4>1. walk \in [from : 0..MaxRows, seen : SUBSET Rows] /\ m > 1
        BY <2>3, <2>5, <3>2 DEF ChartInv, Typed
      <4>2. walk'.from = walk.from /\ walk'.seen = walk.seen \cup q.data
        BY <3>2, <4>1
      <4>3. walk.from <= n /\ Reached(n, a) /\ Reached(N, a)
        BY <1>1, <1>2, <1>7, <2>1, <2>2, <3>2, <4>1 DEF IsList
      <4>4. walk'.from \in 0..n
        BY <2>4, <4>1, <4>2, <4>3
      <4>5. \A c : Reached(c, a) => Reached(c, a)'
        BY <2>8, <4>2
      <4>6. Reached(n, b)'
        <5> SUFFICES ASSUME NEW k \in Found(walk'.from, f), Rank(Found(n, f), k) < b
                     PROVE  k \in walk'.seen
          BY <2>8
        <5>1. CASE Rank(Found(n, f), k) < a
          BY <2>8, <4>2, <4>3, <5>1
        <5>2. CASE ~ (Rank(Found(n, f), k) < a)
          <6>1. k \in Found(n, f)
            BY <2>4, <4>4 DEF Found
          <6> QED BY <2>9, <4>2, <5>2, <6>1
        <5> QED BY <5>1, <5>2
      <4>7. \A j \in Loads : IsList(load[j]) /\ m > 1 /\ load[j].listed # None =>
              walk'.from <= load[j].listed /\ Reached(load[j].listed, a)
        BY <1>2, <2>1, <2>2, <3>2, <4>2
      <4>8. ASSUME NEW j \in Loads, IsList(load'[j]), m > 1, load'[j].listed # None
            PROVE  walk'.from <= load'[j].listed /\ Reached(load[j].listed, a)'
        <5>1. PICK c : c = load[j].listed
          OBVIOUS
        <5>2. IsList(load[j]) /\ load'[j].listed = c
          BY <1>3, <4>8, <5>1
        <5>3. walk'.from <= c /\ Reached(c, a)
          BY <4>7, <4>8, <5>1, <5>2
        <5>4. Reached(c, a)'
          BY <4>5, <5>3
        <5>5. Reached(load[j].listed, a)'
          BY <5>2, <5>4
        <5> QED BY <5>2, <5>3, <5>5
      <4> QED BY <4>3, <4>4, <4>5, <4>6, <4>8
    <3> QED BY <1>7, <2>2, <3>1, <3>2
  <2>11. Shown(n)'
    <3>1. Reached(n, Skip(view.number) + PageSize)'
      BY <1>1, <2>1, <2>2, <2>10
    <3>2. view'.data = PageOf(Found(n, view.filter)', view'.number)
      BY <1>1, <1>7, <2>1, <2>4 DEF Found
    <3>3. view'.page = "logs" \/ view'.pages = TotalPages(Cardinality(Found(n, view.filter)'))
      BY <1>1, <1>7, <2>1, <2>4 DEF Found
    <3> QED BY <3>1, <3>2, <3>3 DEF Shown
  <2>12. walk'.from <= Len(log') /\ n \in walk'.from..Len(log')
    <3>1. walk'.from \in Nat /\ walk'.from <= n /\ Len(log') = N
      BY <1>1, <2>1, <2>4, <2>10
    <3> QED BY <2>4, <3>1
  <2> QED BY <1>1, <1>2, <1>3, <2>1, <2>2, <2>10, <2>11, <2>12 DEF WalkInv
<1> QED BY <1>1, <1>5, <1>6, <1>7, ShowChart

\* A page that is followed by a row is full.
LEMMA FullPage ==
  ASSUME NEW S \in SUBSET Nat, IsFiniteSet(S), NEW n \in Nat \ {0}, NEW k \in S,
         ~ (Rank(S, k) < Skip(n) + PageSize)
  PROVE  Cardinality(PageOf(S, n)) = PageSize
<1> DEFINE a == Skip(n)
           b == Skip(n) + PageSize
           A == Top(S, a)
           B == Top(S, b)
<1>1. a \in Nat /\ PageSize \in Nat \ {0} /\ b \in Nat /\ b = a + PageSize /\ ~ (Rank(S, k) < b)
  BY Skips
<1>2. \A j \in S : Rank(S, j) \in Nat /\ Rank(S, j) < Cardinality(S)
  BY Ranks
<1>3. Cardinality(S) \in Nat
  BY Ranks
<1> HIDE DEF a, b
<1>4. a <= Cardinality(S) /\ b <= Cardinality(S)
  BY <1>1, <1>2, <1>3
<1>5. Cardinality(A) = a /\ Cardinality(B) = b
  BY <1>1, <1>4, TopCount
<1>6. PageOf(S, n) = B \ A
  <2>1. PageOf(S, n) = {j \in S : Rank(S, j) \in a..(b - 1)}
    BY <1>1 DEF PageOf, Rank, a
  <2>2. \A j \in S : Rank(S, j) \in a..(b - 1) <=> Rank(S, j) < b /\ ~ (Rank(S, j) < a)
    BY <1>1, <1>2
  <2> QED BY <2>1, <2>2 DEF Top
<1>7. A \in SUBSET B /\ B \in SUBSET S
  <2>1. \A j \in S : Rank(S, j) < a => Rank(S, j) < b
    BY <1>1, <1>2
  <2> QED BY <2>1 DEF Top
<1> HIDE DEF A, B
<1>8. IsFiniteSet(B) /\ IsFiniteSet(A) /\ B \cap A = A
  BY <1>7, FS_Subset
<1>9. Cardinality(B \ A) = Cardinality(B) - Cardinality(A)
  BY <1>8, FS_Difference
<1> QED BY <1>1, <1>5, <1>6, <1>9

\* Pages are counted up: which one has the row of rank r, and that one follows another.
LEMMA PageOfRank ==
  ASSUME NEW c \in Nat
  PROVE  /\ \A r \in Nat : r < c =>
              \E n \in 1..TotalPages(c) : Skip(n) <= r /\ r < Skip(n) + PageSize
         /\ \A n \in Nat \ {0} : n < TotalPages(c) => Skip(n) + PageSize < c
         /\ \A m, n \in Nat \ {0} : m < n => Skip(m) + PageSize <= Skip(n)
<1> DEFINE P == PageSize
           t == (c + P - 1) \div P
<1>1. P \in Nat \ {0}
  BY StatisticsAssumption
<1> HIDE DEF P
<1>2. t \in Int /\ t * P <= c + P - 1 /\ c + P - 1 < t * P + P /\ t * P \in Int
  <2>1. t \in Int /\ t * P <= c + P - 1 /\ c + P - 1 < (t + 1) * P
    BY <1>1
  <2> HIDE DEF t
  <2>2. (t + 1) * P = t * P + P /\ t * P \in Int
    BY <1>1, <2>1
  <2> QED BY <2>1, <2>2
<1> HIDE DEF t
<1>3. \A a, b \in Int : /\ a * P \in Int /\ (a <= b => a * P <= b * P)
                        /\ (a + 1) * P = a * P + P /\ (a - 1) * P + P = a * P
  BY <1>1
<1>4. ASSUME NEW r \in Nat, r < c
      PROVE  \E n \in 1..t : (n - 1) * P <= r /\ r < (n - 1) * P + P
  <2> DEFINE q == r \div P
  <2>1. q \in Nat /\ q * P <= r /\ r < (q + 1) * P
    BY <1>1
  <2> HIDE DEF q
  <2>2. q < t
    <3>1. ~ (t <= q)
      <4> SUFFICES ASSUME t <= q PROVE FALSE
        OBVIOUS
      <4>1. t * P <= q * P /\ q * P \in Int
        BY <1>2, <1>3, <2>1
      <4> QED BY <1>1, <1>2, <1>4, <2>1, <4>1
    <3> QED BY <1>2, <2>1, <3>1
  <2>3. q + 1 \in 1..t /\ (q + 1) - 1 = q
    BY <1>2, <2>1, <2>2
  <2>4. (q + 1) * P = q * P + P
    BY <1>3, <2>1
  <2> QED BY <2>1, <2>3, <2>4
<1>5. ASSUME NEW n \in Nat \ {0}, n < t PROVE (n - 1) * P + P < c
  <2>1. n + 1 \in Int /\ n \in Int /\ n + 1 <= t
    BY <1>2, <1>5
  <2>2. (n + 1) * P <= t * P /\ (n + 1) * P = n * P + P /\ (n - 1) * P + P = n * P
    BY <1>2, <1>3, <2>1
  <2>3. n * P \in Int
    BY <1>3, <2>1
  <2> QED BY <1>1, <1>2, <2>2, <2>3
<1>6. ASSUME NEW m \in Nat \ {0}, NEW n \in Nat \ {0}, m < n
      PROVE  (m - 1) * P + P <= (n - 1) * P
  <2>1. m \in Int /\ n - 1 \in Int /\ m <= n - 1
    BY <1>6
  <2> QED BY <1>3, <2>1
<1> QED BY <1>2, <1>4, <1>5, <1>6 DEF TotalPages, Skip, P, t

\* Whoever waits for every page and comes to the last has seen all rows there were.
LEMMA WalkSees ==
  ASSUME ChartInv, WalkInv
  PROVE  NothingSkipped
<1> SUFFICES ASSUME walk # None, ~ hasty, ~ Listing,
                    IF view.page = "logs" THEN Cardinality(view.data) < PageSize
                    ELSE view.number >= view.pages,
                    NEW k \in Matching(log, view.filter) \cap 1..walk.from
             PROVE  k \in walk.seen
  BY DEF NothingSkipped
<1>1. PICK n \in walk.from..Len(log) : Shown(n)
  BY DEF WalkInv
<1>2. PICK f, m : f = view.filter /\ m = view.number
  OBVIOUS
<1>3. PICK F : F = Found(n, f)
  OBVIOUS
<1>4. walk.from \in Nat /\ Len(log) \in Nat /\ n \in Nat /\ walk.from <= n /\ n <= Len(log)
  <2>1. walk.from \in Nat /\ Len(log) \in Nat
    BY DEF ChartInv, Typed
  <2> QED BY <2>1
<1>5. F \in SUBSET Nat /\ IsFiniteSet(F)
  BY <1>3, <1>4, FoundFinite DEF Found
<1>6. k \in Found(walk.from, f) /\ k \in F
  BY <1>2, <1>3, <1>4 DEF Found, Matching
<1>7. m \in Nat \ {0}
  BY <1>2, Turned
<1>8. Rank(F, k) \in Nat /\ Rank(F, k) < Cardinality(F) /\ Cardinality(F) \in Nat
  BY <1>5, <1>6, Ranks
<1>9. Skip(m) \in Nat /\ PageSize \in Nat \ {0}
  BY <1>7, Skips
<1>10. Rank(F, k) < Skip(m) + PageSize
  <2>1. CASE view.page = "logs"
    <3>1. view.data = PageOf(F, m) /\ Cardinality(view.data) < PageSize
      BY <1>1, <1>2, <1>3, <2>1 DEF Shown
    <3>2. SUFFICES ASSUME ~ (Rank(F, k) < Skip(m) + PageSize) PROVE FALSE
      OBVIOUS
    <3>3. Cardinality(PageOf(F, m)) = PageSize
      BY <1>5, <1>6, <1>7, <3>2, FullPage
    <3> QED BY <1>9, <3>1, <3>3
  <2>2. CASE view.page # "logs"
    <3>1. PICK c : c = Cardinality(F)
      OBVIOUS
    <3>2. m >= TotalPages(c)
      BY <1>1, <1>2, <1>3, <2>2, <3>1 DEF Shown
    <3>3. c <= Skip(m) + PageSize
      BY <1>7, <1>8, <3>1, <3>2, PagesCount
    <3> QED BY <1>8, <1>9, <3>1, <3>3
  <2> QED BY <2>1, <2>2
<1> QED BY <1>1, <1>2, <1>3, <1>6, <1>10 DEF Shown, Reached
-----------------------------------------------------------------------------
(* What becomes of the events.                                               *)

\* An event is on its way: the head of one never arrives without its tail.
Coming == \E p \in DOMAIN stream.wire : stream.wire[p] \in {"event", "tail"}

\* A list call has yet to find its rows, found the k-th, or failed, which the page is told.
Promises(l, k) == IsList(l) /\ (l.step = "failed" \/ l.listed = None \/ l.listed >= k)

\* A row whose event went on the stream is reckoned with in a list that was shown, or
\* will be: an event is still to be read, or a call will find the row.
NoEventLost ==
  \A k \in sent : upTo >= k \/ Coming \/ \E i \in Loads : Promises(load[i], k)

\* Events are of rows there are, and the head of one is just before its tail.
EventInv ==
  /\ sent \cup unannounced \subseteq 1..Len(log)
  /\ \A p \in DOMAIN stream.wire : stream.wire[p] = "tail" =>
       (p = 1 /\ stream.buffer = TRUE) \/ (p > 1 /\ stream.wire[p - 1] = "head")
  /\ NoEventLost

\* No event is lost while the stream stays and calls keep what they promise.
LEMMA KeepEvents ==
  ASSUME ChartInv, EventInv, Len(log') >= Len(log), Len(log') \in Nat,
         sent' \cup unannounced' \subseteq sent \cup unannounced \cup 1..Len(log'),
         stream'.wire = stream.wire, stream'.buffer = stream.buffer,
         \A k \in sent' : /\ k \in sent
                          /\ upTo >= k => upTo' >= k
                          /\ \A i \in Loads : Promises(load[i], k) =>
                               upTo' >= k \/ Promises(load'[i], k)
  PROVE  EventInv'
<1>1. (sent \cup unannounced \subseteq 1..Len(log))'
  BY DEF EventInv, ChartInv, Typed
<1>2. Coming' <=> Coming
  BY DEF Coming
<1>3. NoEventLost'
  <2> SUFFICES ASSUME NEW k \in sent', ~ (upTo' >= k), ~ Coming'
               PROVE  \E i \in Loads : Promises(load'[i], k)
    BY DEF NoEventLost, Promises, IsList
  <2>1. upTo >= k \/ Coming \/ \E i \in Loads : Promises(load[i], k)
    BY DEF EventInv, NoEventLost
  <2> QED BY <1>2, <2>1
<1> QED BY <1>1, <1>3 DEF EventInv

\* A stream that ends, and a page that is mounted or left.
LEMMA EndEvents ==
  ASSUME ChartInv, EventInv,
         DropStream \/ EnterDashboard \/ Leave \/ \E n \in Names : EnterLogs(n)
  PROVE  EventInv'
<1>1. sent' = {} /\ UNCHANGED <<log, unannounced>>
  BY DEF DropStream, EnterDashboard, Leave, EnterLogs, Forgets, server
<1>2. CASE \E n \in Names : EnterLogs(n)
  <2>1. UNCHANGED stream
    BY <1>2 DEF EnterLogs
  <2> QED BY <1>1, <2>1 DEF EventInv, NoEventLost
<1>3. CASE DropStream \/ EnterDashboard \/ Leave
  <2>1. stream'.wire = <<>>
    BY <1>3 DEF DropStream, EnterDashboard, Leave, NoStream
  <2> QED BY <1>1, <2>1 DEF EventInv, NoEventLost
<1> QED BY <1>2, <1>3

\* An event is written whole, or its head and then its tail.
LEMMA PublishEvents ==
  ASSUME ChartInv, EventInv, NEW k \in unannounced, Publish(k)
  PROVE  EventInv'
<1>1. /\ unannounced' = unannounced \ {k} /\ UNCHANGED <<log, load, upTo>>
      /\ stream.wire \in Seq(Chunk) /\ Len(log) \in Nat
  BY DEF Publish, ChartInv, Typed, Stream
<1>2. CASE UNCHANGED <<stream, sent>>
  BY <1>1, <1>2, KeepEvents
<1>3. CASE /\ \E w \in Written(stream.wire) : stream' = [stream EXCEPT !.wire = w]
           /\ sent' = sent \cup {k}
  <2>1. PICK w \in Written(stream.wire) : stream' = [stream EXCEPT !.wire = w]
    BY <1>3
  <2>2. stream'.wire = w /\ stream'.buffer = stream.buffer
    BY <2>1 DEF ChartInv, Typed, Stream
  <2> DEFINE u == stream.wire
             n == Len(u)
  <2>3. u \in Seq(Chunk) /\ n \in Nat
    BY <1>1
  <2>4. /\ \A p \in 1..n : p \in DOMAIN w /\ w[p] = u[p]
        /\ \/ Len(w) = n + 1 /\ w[n + 1] = "event"
           \/ Len(w) = n + 2 /\ w[n + 1] = "head" /\ w[n + 2] = "tail"
        /\ DOMAIN w = 1..Len(w)
    <3> HIDE DEF u
    <3>1. CASE w = Append(u, "event")
      BY <2>3, <3>1
    <3>2. CASE w = u \o <<"head", "tail">>
      BY <2>3, <3>2
    <3> QED BY <2>1, <3>1, <3>2 DEF Written, u
  <2>5. Coming'
    <3>1. \E p \in DOMAIN w : w[p] \in {"event", "tail"}
      <4> HIDE DEF u, n
      <4>1. CASE Len(w) = n + 1 /\ w[n + 1] = "event"
        <5>1. n + 1 \in DOMAIN w
          BY <2>3, <2>4, <4>1
        <5> QED BY <4>1, <5>1
      <4>2. CASE Len(w) = n + 2 /\ w[n + 2] = "tail"
        <5>1. n + 2 \in DOMAIN w
          BY <2>3, <2>4, <4>2
        <5> QED BY <4>2, <5>1
      <4> QED BY <2>4, <4>1, <4>2
    <3> QED BY <2>2, <3>1 DEF Coming
  <2>6. ASSUME NEW p \in DOMAIN w, w[p] = "tail"
        PROVE  (p = 1 /\ stream.buffer = TRUE) \/ (p > 1 /\ w[p - 1] = "head")
    <3>1. \A q \in 1..n : u[q] = "tail" =>
            (q = 1 /\ stream.buffer = TRUE) \/ (q > 1 /\ u[q - 1] = "head")
      BY <2>3 DEF EventInv
    <3>2. PICK m \in Nat : m = n
      BY <2>3
    <3>3. \A q \in 1..m : w[q] = u[q]
      BY <2>4, <3>2
    <3>4. /\ p \in 1..Len(w)
          /\ \/ Len(w) = m + 1 /\ w[m + 1] = "event"
             \/ Len(w) = m + 2 /\ w[m + 1] = "head"
      BY <2>4, <3>2
    <3> HIDE DEF u, n
    <3>5. CASE p \in 1..m
      <4>1. u[p] = "tail" /\ p \in 1..n
        BY <2>6, <3>2, <3>3, <3>5
      <4>2. CASE p > 1 /\ u[p - 1] = "head"
        <5>1. p - 1 \in 1..m
          BY <3>5, <4>2
        <5> QED BY <3>3, <4>2, <5>1
      <4> QED BY <3>1, <4>1, <4>2
    <3>6. CASE p \notin 1..m
      <4>1. p = m + 1 \/ p = m + 2
        BY <3>4, <3>6
      <4>2. p # m + 1
        BY <2>6, <3>4
      <4>3. p = m + 2 /\ w[m + 1] = "head"
        BY <3>4, <4>1, <4>2
      <4>4. p > 1 /\ p - 1 = m + 1
        BY <4>3
      <4> QED BY <4>3, <4>4
    <3> QED BY <3>5, <3>6
  <2>7. (sent \cup unannounced \subseteq 1..Len(log))'
    BY <1>1, <1>3 DEF EventInv
  <2> QED BY <2>2, <2>5, <2>6, <2>7 DEF EventInv, NoEventLost
<1> QED BY <1>2, <1>3 DEF Publish

\* What completes an event has the list loaded; what does not leaves the event to come.
LEMMA ReadEvents ==
  ASSUME ChartInv, EventInv, ReadStream
  PROVE  EventInv'
<1> DEFINE u == stream.wire
           c == Head(u)
<1>1. /\ u \in Seq(Chunk) /\ u # <<>> /\ stream.buffer \in BOOLEAN
      /\ UNCHANGED <<log, unannounced, sent, upTo>>
  BY DEF ReadStream, ChartInv, Typed, Stream, server, history
<1>2. stream'.wire = Tail(u) /\ stream'.buffer = (c = "head")
  BY DEF ReadStream, ChartInv, Typed, Stream
<1>3. /\ c = u[1] /\ Len(u) \in Nat \ {0} /\ Len(Tail(u)) = Len(u) - 1
      /\ DOMAIN u = 1..Len(u) /\ DOMAIN Tail(u) = 1..Len(Tail(u))
      /\ \A p \in 1..(Len(u) - 1) : Tail(u)[p] = u[p + 1]
  <2> HIDE DEF u
  <2> QED BY <1>1
<1>4. \A p \in DOMAIN u : u[p] = "tail" =>
        (p = 1 /\ stream.buffer = TRUE) \/ (p > 1 /\ u[p - 1] = "head")
  BY DEF EventInv
<1>5. ASSUME NEW p \in DOMAIN Tail(u), Tail(u)[p] = "tail"
      PROVE  (p = 1 /\ (c = "head") = TRUE) \/ (p > 1 /\ Tail(u)[p - 1] = "head")
  <2> HIDE DEF u
  <2>1. p \in 1..(Len(u) - 1) /\ u[p + 1] = "tail" /\ p + 1 \in DOMAIN u
    BY <1>3, <1>5
  <2>2. u[p] = "head"
    <3>1. p + 1 # 1 /\ (p + 1) - 1 = p
      BY <1>3, <2>1
    <3> QED BY <1>4, <2>1, <3>1
  <2>3. CASE p = 1
    BY <1>3, <2>2, <2>3
  <2>4. CASE p # 1
    <3>1. p - 1 \in 1..(Len(u) - 1) /\ (p - 1) + 1 = p /\ p > 1
      BY <1>3, <2>1, <2>4
    <3> QED BY <1>3, <2>2, <3>1
  <2> QED BY <2>3, <2>4
<1>6. NoEventLost'
  <2>1. CASE Completes(stream.buffer, c)
    <3>1. BeginTwo(NewStats(view.range), NewList(view)) /\ view \in View
      BY <2>1 DEF ReadStream, ChartInv, Typed
    <3>2. PICK j \in Loads : load'[j] = NewList(view)
      <4> DEFINE i == Min(Free)
                 j == Min(Free \ {i})
      <4>1. Cardinality(Free) >= 2
            /\ load' = [load EXCEPT ![i] = NewStats(view.range), ![j] = NewList(view)]
        BY <3>1 DEF BeginTwo
      <4>2. j \in Loads
        <5>1. i = Min(Free) /\ j = Min(Free \ {i})
          OBVIOUS
        <5> HIDE DEF i, j
        <5> QED BY <4>1, <5>1, TwoFree
      <4> HIDE DEF i, j
      <4>3. load'[j] = NewList(view)
        BY <4>1, <4>2 DEF ChartInv, Typed
      <4> QED BY <4>2, <4>3
    <3>3. \A k : Promises(load'[j], k)
      BY <3>1, <3>2, NewLoads DEF Promises, IsList
    <3> QED BY <3>2, <3>3 DEF NoEventLost, Promises, IsList
  <2>2. CASE ~ Completes(stream.buffer, c)
    <3>1. UNCHANGED load
      BY <2>2 DEF ReadStream
    <3>2. c \notin {"event", "tail"}
      <4>1. 1 \in DOMAIN u /\ c = u[1]
        <5> HIDE DEF u
        <5> QED BY <1>3
      <4>2. c = "tail" => stream.buffer = TRUE
        BY <1>4, <4>1
      <4> HIDE DEF c
      <4> QED BY <2>2, <4>2 DEF Completes
    <3>3. Coming => Coming'
      <4> SUFFICES ASSUME NEW p \in DOMAIN u, u[p] \in {"event", "tail"}
                   PROVE  \E q \in DOMAIN Tail(u) : Tail(u)[q] \in {"event", "tail"}
        BY <1>2 DEF Coming
      <4> HIDE DEF u
      <4>1. p - 1 \in DOMAIN Tail(u) /\ Tail(u)[p - 1] = u[p]
        BY <1>3, <3>2
      <4> QED BY <4>1
    <3> QED BY <1>1, <3>1, <3>3 DEF EventInv, NoEventLost, Promises, IsList
  <2> QED BY <2>1, <2>2
<1> QED BY <1>1, <1>2, <1>5, <1>6 DEF EventInv

\* A call that finds rows finds all there are.
LEMMA ServeEvents ==
  ASSUME ChartInv, EventInv, NEW i \in Loads, Serve(i) \/ LoseLoad(i)
  PROVE  EventInv'
<1>1. /\ UNCHANGED <<log, unannounced, stream, sent, upTo>> /\ Len(log) \in Nat
      /\ sent \subseteq 1..Len(log) /\ load = [j \in Loads |-> load[j]]
  BY DEF Serve, CountStats, BuildActivityBuckets, FindRows, LoseLoad, server, history,
         ChartInv, Typed, EventInv
<1>2. ASSUME NEW k \in sent, NEW j \in Loads, Promises(load[j], k)
      PROVE  Promises(load'[j], k)
  <2>1. /\ load[j] \in ListLoad /\ load[j].op = "list"
        /\ load[j].step = "failed" \/ load[j].listed = None \/ load[j].listed >= k
    BY <1>2, LoadKinds DEF Promises, IsList
  <2>2. CASE j # i
    <3>1. load'[j] = load[j]
      BY <1>1, <2>2 DEF Serve, CountStats, BuildActivityBuckets, FindRows, LoseLoad
    <3> QED BY <1>2, <3>1
  <2>3. CASE j = i /\ FindRows(i)
    <3>1. \/ load' = [load EXCEPT ![i].listed = Len(log),
                        ![i].data = PageOf(Matching(log, load[i].filter), load[i].number)]
          \/ load' = [load EXCEPT ![i].counted = Len(log),
                        ![i].total = Cardinality(Matching(log, load[i].filter))]
      BY <2>3 DEF FindRows
    <3>2. /\ load'[j] = [op |-> "list", number |-> load'[j].number, filter |-> load'[j].filter,
                         step |-> load'[j].step, data |-> load'[j].data, total |-> load'[j].total,
                         listed |-> load'[j].listed, counted |-> load'[j].counted]
          /\ load'[j].step = load[j].step
          /\ load'[j].listed = load[j].listed \/ load'[j].listed = Len(log)
      BY <1>1, <2>1, <2>3, <3>1 DEF ListLoad
    <3>3. IsList(load'[j])
      BY <1>1, <1>2, <2>3, ServeChart DEF IsList, Promises
    <3> QED BY <1>1, <2>1, <3>2, <3>3 DEF Promises
  <2>4. CASE j = i /\ LoseLoad(i)
    <3>1. load'[j].step = "failed"
      BY <1>1, <2>1, <2>4 DEF LoseLoad, ListLoad
    <3>2. IsList(load'[j])
      BY <1>1, <1>2, <2>4, ServeChart DEF IsList, Promises
    <3> QED BY <3>1, <3>2 DEF Promises
  <2> QED BY <2>1, <2>2, <2>3, <2>4 DEF Serve, CountStats, BuildActivityBuckets
<1> QED BY <1>1, <1>2, KeepEvents

\* An answer that was shown is reckoned with; a failure has the page forget.
LEMMA ShowEvents ==
  ASSUME ChartInv, EventInv, NEW i \in Loads, Show(i)
  PROVE  EventInv'
<1>1. /\ UNCHANGED <<log, unannounced, stream>> /\ Len(log) \in Nat
      /\ \A j \in Loads : load'[j] = IF j = i THEN None ELSE load[j]
      /\ upTo \in 0..MaxRows /\ MaxRows \in Nat /\ sent \subseteq 1..Len(log)
  <2>1. UNCHANGED <<log, unannounced, stream>>
    BY DEF Show, ShowStats, ShowPage, FailLoad, server
  <2>2. \A j \in Loads : load'[j] = IF j = i THEN None ELSE load[j]
    BY ShowChart
  <2> QED BY <2>1, <2>2, LiveUpdatesAssumption DEF ChartInv, Typed, EventInv
<1>2. CASE ShowStats(i)
  <2>1. UNCHANGED <<sent, upTo>> /\ ~ IsList(load[i])
    BY <1>2 DEF ShowStats, history, IsList
  <2> QED BY <1>1, <2>1, KeepEvents DEF Promises
<1>3. CASE ShowPage(i)
  <2>1. /\ sent' = sent /\ upTo' = Max({upTo, load[i].listed})
        /\ load[i].step # "failed" /\ load[i].listed # None
    BY <1>3 DEF ShowPage
  <2>2. load[i].listed \in 0..MaxRows
    BY <1>3, <2>1, LoadKinds DEF ShowPage, ListLoad
  <2>3. upTo' >= upTo /\ upTo' >= load[i].listed /\ upTo' \in Nat
    <3>1. PICK b \in 0..MaxRows : b = load[i].listed
      BY <2>2
    <3>2. /\ Max({upTo, b}) \in 0..MaxRows
          /\ Max({upTo, b}) >= upTo /\ Max({upTo, b}) >= b
      BY <1>1, MaxOfTwo
    <3> QED BY <1>1, <2>1, <3>1, <3>2
  <2>4. ASSUME NEW k \in sent'
        PROVE  /\ k \in sent
               /\ upTo >= k => upTo' >= k
               /\ \A j \in Loads : Promises(load[j], k) => upTo' >= k \/ Promises(load'[j], k)
    <3>1. k \in sent /\ k \in Int /\ upTo \in Int /\ load[i].listed \in Int
      BY <1>1, <2>1, <2>2
    <3>2. upTo >= k => upTo' >= k
      BY <2>3, <3>1
    <3>3. Promises(load[i], k) => upTo' >= k
      BY <2>1, <2>3, <3>1 DEF Promises
    <3>4. \A j \in Loads \ {i} : load'[j] = load[j]
      BY <1>1
    <3> QED BY <3>1, <3>2, <3>3, <3>4
  <2>5. /\ Len(log') \in Nat /\ Len(log') >= Len(log)
        /\ stream'.wire = stream.wire /\ stream'.buffer = stream.buffer
        /\ sent' \cup unannounced' \subseteq sent \cup unannounced \cup 1..Len(log')
    BY <1>1, <2>1
  <2> QED BY <2>4, <2>5, KeepEvents
<1>4. CASE FailLoad(i)
  <2>1. CASE load[i].op = "list"
    <3>1. sent' = {}
      BY <1>4, <2>1 DEF FailLoad
    <3> QED BY <1>1, <3>1, KeepEvents
  <2>2. CASE load[i].op # "list"
    <3>1. UNCHANGED <<sent, upTo>> /\ ~ IsList(load[i])
      BY <1>4, <2>2 DEF FailLoad, IsList
    <3> QED BY <1>1, <3>1, KeepEvents DEF Promises
  <2> QED BY <2>1, <2>2
<1> QED BY <1>2, <1>3, <1>4 DEF Show

\* Every step keeps them.
LEMMA NextEvents ==
  ASSUME ChartInv, EventInv, [Next]_vars
  PROVE  EventInv'
<1>1. Len(log) \in Nat /\ Len(log) <= Len(log)
  BY DEF ChartInv, Typed
<1>2. CASE Tick \/ OpenStream \/ Subscribed \/ UNCHANGED vars
  <2>1. /\ UNCHANGED <<log, unannounced, load, sent, upTo>>
        /\ stream'.wire = stream.wire /\ stream'.buffer = stream.buffer
    BY <1>2 DEF Tick, OpenStream, Subscribed, vars, server, history, ChartInv, Typed, Stream
  <2> QED BY <1>1, <2>1, KeepEvents
<1>3. CASE DropStream \/ EnterDashboard \/ Leave \/ \E n \in Names : EnterLogs(n)
  BY <1>3, EndEvents
<1>4. CASE \/ \E r \in Ranges : SelectRange(r)
           \/ PrevPage \/ NextPage \/ \E f \in Filters : ApplyFilters(f)
  <2>1. UNCHANGED <<log, unannounced, stream, sent, upTo>>
    BY <1>4 DEF SelectRange, PrevPage, NextPage, ApplyFilters, server, history
  <2>2. PICK i \in Loads : load[i] = None /\ \A j \in Loads \ {i} : load'[j] = load[j]
    BY <1>4, ClickChart
  <2>3. \A j \in Loads : IsList(load[j]) => load'[j] = load[j]
    BY <2>2 DEF IsList
  <2> QED BY <1>1, <2>1, <2>3, KeepEvents DEF Promises
<1>5. CASE \E n \in Names : LogSigningAction(n)
  <2>1. PICK n \in Names : LogSigningAction(n)
    BY <1>5
  <2>2. /\ UNCHANGED <<stream, load, sent, upTo>> /\ Len(log') = Len(log) + 1
        /\ unannounced' = unannounced \cup {Len(log')}
    BY <2>1, LogChart DEF LogSigningAction, history
  <2> QED BY <1>1, <2>2, KeepEvents
<1>6. CASE \E k \in unannounced : Publish(k)
  BY <1>6, PublishEvents
<1>7. CASE ReadStream
  BY <1>7, ReadEvents
<1>8. CASE \E i \in Loads : Serve(i) \/ LoseLoad(i)
  BY <1>8, ServeEvents
<1>9. CASE \E i \in Loads : Show(i)
  BY <1>9, ShowEvents
<1> QED BY <1>2, <1>3, <1>4, <1>5, <1>6, <1>7, <1>8, <1>9 DEF Next, Click
-----------------------------------------------------------------------------
(* The theorems.                                                             *)

\* At the start nothing is shown and nothing is called.
LEMMA InitInv ==
  ASSUME Init
  PROVE  ChartInv /\ WalkInv
<1>1. Typed
  <2>1. /\ 0 \in 0..MaxTime /\ 0 \in 0..MaxInputs /\ 0 \in 0..MaxRows
        /\ Existing \in Seq(Row) /\ Len(Existing) <= MaxRows
    BY LiveUpdatesAssumption
  <2> QED BY <2>1, Mounted DEF Init, Typed, NoLoads
<1>2. \A i \in Loads : load[i] = None
  BY DEF Init, NoLoads
<1> QED BY <1>1, <1>2 DEF ChartInv, LoadFits, WalkInv, IsList, Init

\* Every step keeps both.
LEMMA NextInv ==
  ASSUME ChartInv, WalkInv, [Next]_vars
  PROVE  ChartInv' /\ WalkInv'
<1>1. CASE UNCHANGED vars
  <2>1. UNCHANGED <<now, log, unannounced, stream, view, load, inputs, sent, upTo, walk, hasty>>
    BY <1>1 DEF vars
  <2>2. Typed'
    BY <2>1 DEF ChartInv, Typed
  <2>3. Asks(view) /\ view \in View
    BY <2>1 DEF ChartInv, Typed, Asks
  <2>4. SamePages /\ ListsFollow
    BY <2>1 DEF SamePages, ListsFollow
  <2>5. \A i \in Loads : LoadFits(load[i])'
    BY <2>1, <2>3, AsksFits
  <2>6. WalkInv'
    BY <2>1, <2>4, KeepWalk
  <2> QED BY <2>2, <2>5, <2>6 DEF ChartInv
<1>2. CASE \/ Tick \/ OpenStream \/ Subscribed \/ DropStream
           \/ \E k \in unannounced : Publish(k)
  BY <1>2, StreamChart, ServeWalk
<1>3. CASE ReadStream
  BY <1>3, ReadChart, ServeWalk
<1>4. CASE Click
  BY <1>4, ClickWalk
<1>5. CASE \E n \in Names : LogSigningAction(n)
  BY <1>5, LogChart, LogWalk
<1>6. CASE \E i \in Loads : Serve(i) \/ LoseLoad(i)
  BY <1>6, ServeChart, ServeWalk
<1>7. CASE \E i \in Loads : Show(i)
  BY <1>7, ShowChart, ShowWalk
<1> QED BY <1>1, <1>2, <1>3, <1>4, <1>5, <1>6, <1>7 DEF Next

\* Both hold in every state.
LEMMA Invariant == Spec => [](ChartInv /\ WalkInv)
<1>1. Init => ChartInv /\ WalkInv
  BY InitInv
<1>2. ChartInv /\ WalkInv /\ [Next]_vars => (ChartInv /\ WalkInv)'
  BY NextInv
<1> QED BY <1>1, <1>2, PTL DEF Spec

\* What the pages, the calls and the stream are.
THEOREM TypeCorrect == Spec => []TypeOK
<1>1. ChartInv => TypeOK
  BY DEF ChartInv, Typed, LoadFits, TypeOK
<1> QED BY <1>1, Invariant, PTL

\* A chart, getDashboardStats read the clock for before it counted the rows, loses no
\* row that is younger than its range and counts none as younger than it is.
THEOREM ChartCountsAllAlways == Spec => []ChartCountsAll
<1>1. ChartInv => ChartCountsAll
  <2> SUFFICES ASSUME ChartInv, NEW i \in Loads, load[i] # None, load[i].op = "stats",
                      load[i].step = "answered"
               PROVE  ChartHolds(load[i].answer)
    BY DEF ChartCountsAll
  <2>1. Charts(load[i].answer) /\ log \in Seq(Row)
    BY LoadKinds DEF StatsFits, ChartInv, Typed
  <2> QED BY <2>1, ChartsHold
<1> QED BY <1>1, Invariant, PTL

\* Pages that are counted from the newest row skip none for a reader who waits for each:
\* rows that are logged meanwhile only move the others to later pages.
THEOREM NothingSkippedAlways == Spec => []NothingSkipped
<1>1. ChartInv /\ WalkInv => NothingSkipped
  BY WalkSees
<1> QED BY <1>1, Invariant, PTL

\* No event that went on the stream comes to nothing, however it is cut into chunks and
\* whatever the page is doing when it arrives: until a list that reckons with its row is
\* shown, an event is still to be read, or a list call is under way that will find it.
THEOREM NoEventLostAlways == Spec => []NoEventLost
<1>1. Init => EventInv
  BY DEF Init, EventInv, NoEventLost, NoStream
<1>2. ChartInv /\ EventInv /\ [Next]_vars => EventInv'
  BY NextEvents
<1>3. EventInv => NoEventLost
  BY DEF EventInv
<1> QED BY <1>1, <1>2, <1>3, Invariant, PTL DEF Spec

\* The pages there are for a list split it: every row is on one of them and on no other,
\* and all but the last are full.  The dashboard asks for the next page while there are
\* more, the log of a connection while the last one it saw is full.
THEOREM PagesSplitRows ==
  ASSUME NEW S \in SUBSET Nat, IsFiniteSet(S)
  PROVE  /\ \A k \in S : \E n \in 1..TotalPages(Cardinality(S)) : k \in PageOf(S, n)
         /\ \A m, n \in Nat \ {0} : m # n => PageOf(S, m) \cap PageOf(S, n) = {}
         /\ \A n \in Nat \ {0} : n < TotalPages(Cardinality(S)) =>
              Cardinality(PageOf(S, n)) = PageSize
<1> DEFINE c == Cardinality(S)
<1>1. c \in Nat /\ \A k \in S : Rank(S, k) \in Nat /\ Rank(S, k) < c
  BY Ranks
<1> HIDE DEF c
<1>2. TotalPages(c) \in Nat
  BY <1>1, PagesCount
<1>3. ASSUME NEW k \in S PROVE \E n \in 1..TotalPages(c) : k \in PageOf(S, n)
  <2>1. PICK n \in 1..TotalPages(c) : Skip(n) <= Rank(S, k) /\ Rank(S, k) < Skip(n) + PageSize
    BY <1>1, PageOfRank
  <2>2. n \in Nat \ {0}
    BY <1>2
  <2>3. ~ (Rank(S, k) < Skip(n))
    BY <1>1, <2>1, <2>2, Skips
  <2> QED BY <2>1, <2>2, <2>3, PageSplits
<1>4. ASSUME NEW m \in Nat \ {0}, NEW n \in Nat \ {0}, m < n
      PROVE  PageOf(S, m) \cap PageOf(S, n) = {}
  <2> SUFFICES ASSUME NEW k \in S, Rank(S, k) \in Skip(m)..(Skip(m) + PageSize - 1),
                      Rank(S, k) \in Skip(n)..(Skip(n) + PageSize - 1)
               PROVE  FALSE
    BY DEF PageOf, Rank
  <2>1. Skip(m) + PageSize <= Skip(n)
    BY <1>1, <1>4, PageOfRank
  <2>2. Skip(m) \in Nat /\ Skip(n) \in Nat /\ PageSize \in Nat
    BY Skips
  <2> QED BY <1>1, <2>1, <2>2
<1>5. ASSUME NEW n \in Nat \ {0}, n < TotalPages(c)
      PROVE  Cardinality(PageOf(S, n)) = PageSize
  <2> DEFINE b == Skip(n) + PageSize
  <2>1. b \in Nat /\ b < c
    BY <1>1, <1>5, PageOfRank, Skips
  <2>2. ~ \A k \in S : Rank(S, k) < b
    <3> SUFFICES ASSUME \A k \in S : Rank(S, k) < b PROVE FALSE
      OBVIOUS
    <3>1. Top(S, b) = S
      BY DEF Top
    <3> HIDE DEF b
    <3>2. b <= Cardinality(S)
      BY <1>1, <2>1 DEF c
    <3>3. Cardinality(Top(S, b)) = b
      BY <2>1, <3>2, TopCount
    <3> QED BY <1>1, <2>1, <3>1, <3>3 DEF c
  <2> QED BY <2>2, FullPage
<1>6. ASSUME NEW m \in Nat \ {0}, NEW n \in Nat \ {0}, m # n
      PROVE  PageOf(S, m) \cap PageOf(S, n) = {}
  <2>1. m < n \/ n < m
    BY <1>6
  <2> QED BY <1>4, <2>1
<1> QED BY <1>3, <1>5, <1>6 DEF c
==============================================================================
