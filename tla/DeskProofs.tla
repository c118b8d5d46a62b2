------------------------------ MODULE DeskProofs ------------------------------
(***************************************************************************)
(* What the work of the user keeps, for every number of reviews, requests,  *)
(* candidates, rows and pages: who owns the file and what the user's        *)
(* choices survive (Reviews), the order of matches (Matching), what a       *)
(* manual search remembers (ManualSearch), and the lists (Inbox, Activity). *)
(***************************************************************************)
EXTENDS Desk, FiniteSetTheorems, TLAPS

-----------------------------------------------------------------------------
(* Sets in an order.                                                        *)

\* The numbers have a least one in every set that is not empty.
LEMMA LeastNumber ==
    ASSUME NEW N \in SUBSET Nat, N # {}
    PROVE  \E n \in N : \A m \in N : n <= m
<1>1. PICK n \in N : \A m \in N : <<m, n>> \notin OpToRel(<, Nat)
    BY NatLessThanWellFounded, WFMin, Zenon
<1>2. \A m \in N : ~(m < n)
    BY <1>1 DEF OpToRel
<1>. QED
    BY <1>2

\* R puts the members of S in an order without ties.
Orders(R, S) ==
    /\ \A x \in S : <<x, x>> \notin R
    /\ \A x, y \in S : x # y => <<x, y>> \in R \/ <<y, x>> \in R
    /\ \A x, y, z \in S : <<x, y>> \in R /\ <<y, z>> \in R => <<x, z>> \in R

\* Who comes later has more ahead.
LEMMA AheadGrows ==
    ASSUME NEW S, IsFiniteSet(S), NEW R, Orders(R, S)
    PROVE  /\ \A x \in S : Ahead(S, R, x) \in 0..Cardinality(S) - 1
           /\ \A x, y \in S : <<x, y>> \in R => Ahead(S, R, x) < Ahead(S, R, y)
<1>. DEFINE below(x) == {y \in S : <<y, x>> \in R}
<1>1. \A x \in S : IsFiniteSet(below(x)) /\ Cardinality(below(x)) \in Nat /\ Cardinality(S) \in Nat
    BY FS_Subset, FS_CardinalityType
<1>2. ASSUME NEW x \in S PROVE Ahead(S, R, x) \in 0..Cardinality(S) - 1
  <2>1. below(x) \in SUBSET S /\ below(x) # S
    BY DEF Orders
  <2>2. Cardinality(below(x)) < Cardinality(S)
    <3>1. Cardinality(below(x)) <= Cardinality(S) /\ Cardinality(below(x)) # Cardinality(S)
      BY <2>1, FS_Subset
    <3>. HIDE DEF below
    <3>. QED
      BY <1>1, <3>1
  <2>. QED
    BY <1>1, <2>2 DEF Ahead
<1>3. ASSUME NEW x \in S, NEW y \in S, <<x, y>> \in R PROVE Ahead(S, R, x) < Ahead(S, R, y)
  <2>1. below(x) \in SUBSET below(y)
    BY <1>3 DEF Orders
  <2>2. x \in below(y) /\ x \notin below(x)
    BY <1>3 DEF Orders
  <2>3. Cardinality(below(x)) < Cardinality(below(y))
    <3>1. /\ Cardinality(below(x)) <= Cardinality(below(y))
          /\ Cardinality(below(x)) # Cardinality(below(y))
      BY <1>1, <2>1, <2>2, FS_Subset
    <3>. HIDE DEF below
    <3>. QED
      BY <1>1, <3>1
  <2>. QED
    BY <2>3 DEF Ahead
<1>. QED
    BY <1>2, <1>3

\* Every place is taken by one member, and the places follow the relation.
LEMMA ArrangeFacts ==
    ASSUME NEW S, IsFiniteSet(S), NEW R, Orders(R, S)
    PROVE  /\ Cardinality(S) \in Nat
           /\ Arrange(S, R) \in [1..Cardinality(S) -> S]
           /\ \A x \in S : \E k \in 1..Cardinality(S) : Arrange(S, R)[k] = x
           /\ \A k, l \in 1..Cardinality(S) :
                  k < l <=> <<Arrange(S, R)[k], Arrange(S, R)[l]>> \in R
<1>. DEFINE n == Cardinality(S)
            f == [x \in S |-> Ahead(S, R, x)]
<1>1. n \in Nat
    BY FS_CardinalityType
<1>2. f \in [S -> 0..n - 1] /\ \A x, y \in S : <<x, y>> \in R => f[x] < f[y]
    BY AheadGrows
<1>3. \A x, y \in S : f[x] = f[y] => x = y
  <2>. SUFFICES ASSUME NEW x \in S, NEW y \in S, f[x] = f[y], x # y PROVE FALSE
    OBVIOUS
  <2>1. f[x] < f[y] \/ f[y] < f[x]
    BY <1>2 DEF Orders
  <2>2. f[x] \in Int /\ f[y] \in Int
    BY <1>1, <1>2
  <2>. HIDE DEF f
  <2>. QED
    BY <2>1, <2>2
<1>4. f \in Surjection(S, 0..n - 1)
  <2>1. f \in Injection(S, 0..n - 1)
    BY <1>2, <1>3 DEF Injection, IsInjective
  <2>2. IsFiniteSet(0..n - 1) /\ Cardinality(0..n - 1) = n
    BY <1>1, FS_Interval
  <2>. QED
    BY <2>1, <2>2, FS_Injection
<1>5. \A k \in 1..n : \E x \in S : f[x] = k - 1
  <2>. HIDE DEF f
  <2>1. \A v \in 0..n - 1 : \E x \in S : f[x] = v
    BY <1>4 DEF Surjection
  <2>2. \A k \in 1..n : k - 1 \in 0..n - 1
    BY <1>1
  <2>. QED
    BY <2>1, <2>2
<1>6. \A k \in 1..n : Arrange(S, R)[k] \in S /\ f[Arrange(S, R)[k]] = k - 1
  <2>. SUFFICES ASSUME NEW k \in 1..n PROVE Arrange(S, R)[k] \in S /\ f[Arrange(S, R)[k]] = k - 1
    OBVIOUS
  <2>1. \E x \in S : Ahead(S, R, x) = k - 1
    BY <1>5
  <2>2. Arrange(S, R)[k] = CHOOSE x \in S : Ahead(S, R, x) = k - 1
    BY DEF Arrange
  <2>. QED
    BY <2>1, <2>2
<1>7. Arrange(S, R) \in [1..n -> S]
    BY <1>6 DEF Arrange
<1>8. \A x \in S : \E k \in 1..n : Arrange(S, R)[k] = x
  <2>. SUFFICES ASSUME NEW x \in S PROVE \E k \in 1..n : Arrange(S, R)[k] = x
    OBVIOUS
  <2>1. f[x] + 1 \in 1..n /\ (f[x] + 1) - 1 = f[x]
    BY <1>1, <1>2
  <2>. QED
    BY <1>3, <1>6, <2>1
<1>. HIDE DEF n, f
<1>9. \A k, l \in 1..n : k < l <=> <<Arrange(S, R)[k], Arrange(S, R)[l]>> \in R
  <2>. SUFFICES ASSUME NEW k \in 1..n, NEW l \in 1..n
                PROVE  k < l <=> <<Arrange(S, R)[k], Arrange(S, R)[l]>> \in R
    OBVIOUS
  <2>1. k \in Int /\ l \in Int
    BY <1>1
  <2>2. f[Arrange(S, R)[k]] = k - 1 /\ f[Arrange(S, R)[l]] = l - 1
    BY <1>6
  <2>3. Arrange(S, R)[k] \in S /\ Arrange(S, R)[l] \in S
    BY <1>6
  <2>4. <<Arrange(S, R)[k], Arrange(S, R)[l]>> \in R => k - 1 < l - 1
    BY <1>2, <2>2, <2>3
  <2>5. <<Arrange(S, R)[l], Arrange(S, R)[k]>> \in R => l - 1 < k - 1
    BY <1>2, <2>2, <2>3
  <2>6. k # l => Arrange(S, R)[k] # Arrange(S, R)[l]
    BY <2>1, <2>2
  <2>. QED
    BY <2>1, <2>3, <2>4, <2>5, <2>6 DEF Orders
<1>. QED
    BY <1>1, <1>7, <1>8, <1>9 DEF n

-----------------------------------------------------------------------------
(* Activity: the rows of four tables, and pages of them.                    *)

Rows == [source : Sources, at : 0..MaxTime]

\* There are finitely many rows, and the key tells them apart.
LEMMA RowsAreFinite == IsFiniteSet(Rows)
<1>1. IsFiniteSet(0..3) /\ IsFiniteSet(0..MaxTime)
  <2>1. 0 \in Int /\ 3 \in Int /\ MaxTime \in Int
    BY ActivityConstantsAssumption
  <2>. QED
    BY <2>1, FS_Interval
<1>2. IsFiniteSet(Sources)
    BY <1>1, ActivityConstantsAssumption, FS_Subset
<1>3. IsFiniteSet(Sources \X (0..MaxTime))
    BY <1>1, <1>2, FS_Product
<1>. DEFINE f == [p \in Sources \X (0..MaxTime) |-> [source |-> p[1], at |-> p[2]]]
<1>4. f \in Surjection(Sources \X (0..MaxTime), Rows)
  <2>1. f \in [Sources \X (0..MaxTime) -> Rows]
    BY DEF Rows
  <2>2. ASSUME NEW x \in Rows PROVE \E p \in Sources \X (0..MaxTime) : f[p] = x
    <3>1. <<x.source, x.at>> \in Sources \X (0..MaxTime) /\ x = [source |-> x.source, at |-> x.at]
      BY DEF Rows
    <3>. QED
      BY <3>1
  <2>. HIDE DEF f
  <2>. QED
    BY <2>1, <2>2 DEF Surjection
<1>. HIDE DEF f
<1>. QED
    BY <1>3, <1>4, FS_Surjection

\* The numbers of two rows are in the order of the rows, and no two rows share one.
LEMMA KeysDiffer ==
    /\ \A x \in Rows : Id(x) \in 0..(MaxTime * 10 + 3)
    /\ \A x, y \in Rows : Id(x) = Id(y) => x = y
    /\ \A x, y \in Rows : Older(x, y) <=> Id(x) < Id(y)
<1>1. \A x \in Rows : x.source \in 0..3 /\ x.at \in 0..MaxTime /\ x.at \in Int /\ x.source \in Int
  <2>1. \A x \in Rows : x.source \in Sources /\ x.at \in 0..MaxTime
    BY DEF Rows
  <2>2. (\A v \in Sources : v \in 0..3) /\ MaxTime \in Nat
    BY ActivityConstantsAssumption
  <2>3. \A x \in Rows : x.source \in 0..3
    BY <2>1, <2>2
  <2>. QED
    BY <2>1, <2>2, <2>3
<1>2. MaxTime \in Nat
    BY ActivityConstantsAssumption
<1>3. ASSUME NEW x \in Rows PROVE Id(x) \in 0..(MaxTime * 10 + 3)
  <2>. DEFINE a == x.at
              b == x.source
  <2>1. b \in 0..3 /\ a \in 0..MaxTime
    BY <1>1
  <2>2. Id(x) = a * 10 + b
    BY DEF Id
  <2>. HIDE DEF a, b
  <2>. QED
    BY <2>1, <2>2, <1>2
<1>4. ASSUME NEW x \in Rows, NEW y \in Rows, Id(x) = Id(y) PROVE x = y
  <2>1. x.source = y.source /\ x.at = y.at
    BY <1>1, <1>4 DEF Id
  <2>. QED
    BY <2>1 DEF Rows
<1>. QED
    BY <1>3, <1>4 DEF Older

\* A set of rows that is not empty has a newest.
LEMMA NewestRow ==
    ASSUME NEW S \in SUBSET Rows, S # {}
    PROVE  \E x \in S : \A y \in S : Id(y) <= Id(x)
<1>. DEFINE B == MaxTime * 10 + 3
            N == {B - Id(x) : x \in S}
<1>1. B \in Nat
    BY ActivityConstantsAssumption
<1>2. \A x \in S : Id(x) \in 0..B
    BY KeysDiffer
<1>. HIDE DEF B
<1>3. N \in SUBSET Nat /\ N # {}
    BY <1>1, <1>2
<1>4. PICK n \in N : \A m \in N : n <= m
    BY <1>3, LeastNumber
<1>5. PICK x \in S : n = B - Id(x)
    BY <1>4
<1>6. \A y \in S : B - Id(x) <= B - Id(y)
    BY <1>4, <1>5
<1>. QED
    BY <1>1, <1>2, <1>6

\* The least number of a set of rows is that of its oldest row.
LEMMA OldestRow ==
    ASSUME NEW S \in SUBSET Rows, S # {}
    PROVE  /\ \E x \in S : Min({Id(y) : y \in S}) = Id(x)
           /\ \A x \in S : Min({Id(y) : y \in S}) <= Id(x)
<1>. DEFINE N == {Id(x) : x \in S}
<1>1. N \in SUBSET Nat /\ N # {}
  <2>1. \A x \in S : Id(x) \in Nat
    BY KeysDiffer, ActivityConstantsAssumption
  <2>. QED
    BY <2>1
<1>2. \E n \in N : \A m \in N : n =< m
    BY <1>1, LeastNumber
<1>3. Min(N) \in N /\ \A m \in N : Min(N) =< m
  <2>. HIDE DEF N
  <2>. QED
    BY <1>2 DEF Min
<1>. QED
    BY <1>3

\* How many of S are newer than x.
Newer(S, x) == {y \in S : Older(x, y)}

\* The newest k of some rows are those with fewer than k newer ones among them.
LEMMA NewerCounts ==
    ASSUME NEW S \in SUBSET Rows
    PROVE  /\ IsFiniteSet(S) /\ Cardinality(S) \in Nat
           /\ \A x \in Rows : /\ IsFiniteSet(Newer(S, x)) /\ Cardinality(Newer(S, x)) \in Nat
                              /\ Newer(S, x) \subseteq S
           /\ \A T \in SUBSET S : IsFiniteSet(T) /\ Cardinality(T) \in Nat
                                  /\ Cardinality(T) <= Cardinality(S)
           /\ \A k : Newest(S, k) = {x \in S : Cardinality(Newer(S, x)) < k}
<1>1. IsFiniteSet(S)
    BY RowsAreFinite, FS_Subset
<1>2. \A T \in SUBSET S : /\ IsFiniteSet(T) /\ Cardinality(T) \in Nat
                          /\ Cardinality(T) <= Cardinality(S)
    BY <1>1, FS_Subset, FS_CardinalityType
<1>3. \A x \in Rows : Newer(S, x) \in SUBSET S
    BY DEF Newer
<1>. QED
    BY <1>1, <1>2, <1>3 DEF Newest, Newer

\* Every row that the k newest leave out has k newer ones among them.
LEMMA LeftOutIsOlder ==
    ASSUME NEW S \in SUBSET Rows, NEW k \in Nat, NEW x \in S, x \notin Newest(S, k)
    PROVE  \E T \in SUBSET Newest(S, k) : Cardinality(T) >= k /\ \A y \in T : Id(x) < Id(y)
<1>. DEFINE Out == S \ Newest(S, k)
<1>1. Out \in SUBSET Rows /\ Out # {}
    OBVIOUS
<1>2. PICK t \in Out : \A y \in Out : Id(y) <= Id(t)
    BY <1>1, NewestRow
<1>3. t \in S /\ t \in Rows /\ ~(Cardinality(Newer(S, t)) < k) /\ Cardinality(Newer(S, t)) \in Nat
    BY <1>2, NewerCounts
<1>4. \A y \in Newer(S, t) : y \in S /\ y \in Rows /\ Id(t) < Id(y)
    BY <1>3, KeysDiffer DEF Newer
<1>5. \A y \in Rows : Id(y) \in Int
    BY KeysDiffer
<1>6. \A y \in Newer(S, t) : y \in Newest(S, k)
    BY <1>2, <1>4, <1>5, <1>3
<1>7. \A y \in Newer(S, t) : Id(x) < Id(y)
    BY <1>2, <1>4, <1>5, <1>3
<1>8. Cardinality(Newer(S, t)) >= k
    BY <1>3
<1>. QED
    BY <1>6, <1>7, <1>8

\* A row listed leaves fewer than k newer ones.
LEMMA ListedIsNew ==
    ASSUME NEW S \in SUBSET Rows, NEW k \in Nat, NEW x \in Newest(S, k),
           NEW T \in SUBSET S, \A y \in T : Id(x) < Id(y)
    PROVE  Cardinality(T) < k /\ Cardinality(T) \in Nat
<1>1. x \in S /\ x \in Rows /\ Cardinality(Newer(S, x)) < k
    BY DEF Newest, Newer
<1>2. T \in SUBSET Newer(S, x)
    BY <1>1, KeysDiffer DEF Newer
<1>3. IsFiniteSet(Newer(S, x)) /\ Cardinality(Newer(S, x)) \in Nat
    BY <1>1, NewerCounts
<1>4. Cardinality(T) <= Cardinality(Newer(S, x)) /\ Cardinality(T) \in Nat
    BY <1>2, <1>3, FS_Subset, FS_CardinalityType
<1>. QED
    BY <1>1, <1>3, <1>4

\* The rows that a page may show.
Eligible(cursor) == {x \in recorded : cursor = NoCursor \/ Id(x) < cursor}

\* What the tables give together misses no row that is newer than Limit of those given.
LEMMA TablesGiveEnough ==
    ASSUME recorded \in SUBSET Rows, NEW cursor, NEW x \in Eligible(cursor),
           x \notin PerSource(cursor)
    PROVE  \E T \in SUBSET PerSource(cursor) :
               Cardinality(T) >= Limit + 1 /\ \A y \in T : Id(x) < Id(y)
<1>. DEFINE E(s) == {y \in recorded : y.source = s /\ (cursor = NoCursor \/ Id(y) < cursor)}
<1>1. x.source \in Sources /\ x \in E(x.source)
    BY DEF Eligible, Rows
<1>2. PerSource(cursor) = UNION {Newest(E(s), Limit + 1) : s \in Sources}
    BY DEF PerSource, Cut
<1>3. E(x.source) \in SUBSET Rows
    OBVIOUS
<1>4. Newest(E(x.source), Limit + 1) \subseteq PerSource(cursor)
  <2>. HIDE DEF E
  <2>. QED
    BY <1>1, <1>2
<1>5. Limit + 1 \in Nat
    BY ActivityConstantsAssumption
<1>6. x \notin Newest(E(x.source), Limit + 1)
    BY <1>4
<1>. HIDE DEF E
<1>7. \E T \in SUBSET Newest(E(x.source), Limit + 1) :
          Cardinality(T) >= Limit + 1 /\ \A y \in T : Id(x) < Id(y)
    BY <1>1, <1>3, <1>5, <1>6, LeftOutIsOlder
<1>. QED
    BY <1>4, <1>7

\* What the tables give the page are rows that are recorded and older than the cursor.
LEMMA TablesGiveRows ==
    ASSUME recorded \in SUBSET Rows, NEW cursor
    PROVE  PerSource(cursor) \subseteq Eligible(cursor) /\ Eligible(cursor) \in SUBSET Rows
<1>. QED
    BY DEF PerSource, Cut, Newest, Eligible

\* A page holds every row that may be shown and is not older than its oldest; there is none
\* after an empty page, or after one that no row was left out of.
LEMMA PageIsComplete ==
    ASSUME recorded \in SUBSET Rows, NEW cursor, NEW x \in Eligible(cursor)
    PROVE  LET found == PerSource(cursor)
               page  == Newest(found, Limit)
           IN /\ page # {} /\ Id(x) >= Min({Id(y) : y \in page}) => x \in page
              /\ page # {} /\ Cardinality(found) <= Limit => x \in page
              /\ page # {}
<1>. DEFINE found == PerSource(cursor)
            page  == Newest(found, Limit)
<1>1. found \in SUBSET Rows /\ x \in Rows /\ x \in recorded
    BY TablesGiveRows DEF Eligible
<1>2. Limit \in Nat /\ Limit > 0
    BY ActivityConstantsAssumption
<1>3. \A y \in Rows : Id(y) \in Int
    BY KeysDiffer
<1>4. IsFiniteSet(found) /\ Cardinality(found) \in Nat
    BY <1>1, NewerCounts
<1>5. page \in SUBSET found
    BY DEF Newest
<1>6. found # {}
  <2>1. CASE x \in found
    BY <2>1
  <2>2. CASE x \notin found
    <3>1. PICK T \in SUBSET found : Cardinality(T) >= Limit + 1
      BY <2>2, TablesGiveEnough
    <3>2. T # {}
      BY <3>1, <1>2, FS_EmptySet
    <3>. QED
      BY <3>2
  <2>. QED
    BY <2>1, <2>2
<1>7. page # {}
  <2>1. PICK t \in found : \A y \in found : Id(y) <= Id(t)
    BY <1>1, <1>6, NewestRow
  <2>. SUFFICES ASSUME t \notin page PROVE FALSE
    OBVIOUS
  <2>2. PICK T \in SUBSET page : Cardinality(T) >= Limit /\ \A y \in T : Id(t) < Id(y)
    BY <1>1, <1>2, LeftOutIsOlder
  <2>3. T # {}
    BY <2>2, <1>2, FS_EmptySet
  <2>4. PICK y \in T : TRUE
    BY <2>3
  <2>5. Id(t) < Id(y) /\ Id(y) <= Id(t) /\ Id(t) \in Int /\ Id(y) \in Int
    BY <2>1, <2>2, <2>4, <1>1, <1>3, <1>5
  <2>. QED
    BY <2>5
<1>8. ASSUME Id(x) >= Min({Id(y) : y \in page}) PROVE x \in page
  <2>1. PICK m \in page : Min({Id(y) : y \in page}) = Id(m)
    BY <1>1, <1>5, <1>7, OldestRow
  <2>2. Id(x) >= Id(m) /\ Id(x) \in Int /\ Id(m) \in Int /\ m \in Rows
    BY <1>8, <2>1, <1>1, <1>3, <1>5
  <2>. SUFFICES ASSUME x \notin page PROVE FALSE
    OBVIOUS
  <2>3. Id(x) > Id(m)
    BY <2>1, <2>2, <1>1, KeysDiffer
  <2>4. \E T \in SUBSET found : Cardinality(T) >= Limit /\ \A y \in T : Id(x) < Id(y)
    <3>1. CASE x \in found
      BY <3>1, <1>1, <1>2, <1>5, LeftOutIsOlder
    <3>2. CASE x \notin found
      <4>1. PICK T \in SUBSET found : Cardinality(T) >= Limit + 1 /\ \A y \in T : Id(x) < Id(y)
        BY <3>2, TablesGiveEnough
      <4>2. Cardinality(T) \in Nat
        BY <1>1, NewerCounts
      <4>3. Cardinality(T) >= Limit
        BY <4>1, <4>2, <1>2
      <4>. QED
        BY <4>1, <4>3
    <3>. QED
      BY <3>1, <3>2
  <2>5. PICK T \in SUBSET found : Cardinality(T) >= Limit /\ \A y \in T : Id(x) < Id(y)
    BY <2>4
  <2>6. \A y \in T : Id(m) < Id(y)
    BY <2>2, <2>3, <2>5, <1>1, <1>3
  <2>7. Cardinality(T) < Limit /\ Cardinality(T) \in Nat
    <3>. HIDE DEF found
    <3>. QED
      BY <2>1, <2>5, <2>6, <1>1, <1>2, ListedIsNew
  <2>. QED
    BY <2>5, <2>7, <1>2
<1>9. ASSUME Cardinality(found) <= Limit PROVE x \in page
  <2>1. x \in found
    <3>. SUFFICES ASSUME x \notin found PROVE FALSE
      OBVIOUS
    <3>1. PICK T \in SUBSET found : Cardinality(T) >= Limit + 1
      BY TablesGiveEnough
    <3>2. Cardinality(T) \in Nat /\ Cardinality(T) <= Cardinality(found)
      BY <1>1, NewerCounts
    <3>. HIDE DEF found
    <3>. QED
      BY <3>1, <3>2, <1>2, <1>4, <1>9
  <2>2. /\ Newer(found, x) \in SUBSET found /\ x \notin Newer(found, x)
        /\ Cardinality(Newer(found, x)) \in Nat
    <3>1. ~Older(x, x)
      BY <1>1, <1>3, KeysDiffer
    <3>. QED
      BY <3>1, <1>1, NewerCounts DEF Newer
  <2>3. /\ Cardinality(Newer(found, x)) <= Cardinality(found)
        /\ Cardinality(Newer(found, x)) # Cardinality(found)
    <3>1. Newer(found, x) # found
      BY <2>1, <2>2
    <3>. QED
      BY <3>1, <2>2, <1>4, FS_Subset
  <2>4. Cardinality(Newer(found, x)) < Limit
    <3>. HIDE DEF found
    <3>. QED
      BY <2>2, <2>3, <1>2, <1>4, <1>9
  <2>. QED
    BY <2>1, <2>4 DEF Newest, Newer
<1>. QED
    BY <1>7, <1>8, <1>9

-----------------------------------------------------------------------------
(* The walk through the pages of the activity, and what is told of a run.   *)

Running  == {"pending", "writing"}
Execs    == [state : {"pending", "writing", "done", "failed", "partly"},
             job : {"pending", "running", "cancelling", "succeeded", "failed", "cancelled"}]
Listings == [cursor : Int, listed : SUBSET Rows, twice : SUBSET Rows, there : SUBSET Rows,
             end : BOOLEAN]

\* A row that the walk has passed.
Passed(l, x) == l.cursor # NoCursor /\ Id(x) >= l.cursor

ActivityTyped ==
    /\ recorded \in SUBSET Rows /\ flushed \in SUBSET Rows /\ clock \in 0..MaxTime
    /\ listing \in Listings
    /\ execution \in Execs /\ ended \in {"no", "succeeded", "failed", "cancelled"}

\* What is listed was passed, and of the rows that were there all that was passed is listed.
WalkIsTrue ==
    /\ listing.listed \subseteq recorded /\ listing.there \subseteq recorded
    /\ \A x \in listing.listed : Passed(listing, x)
    /\ \A x \in listing.there : Passed(listing, x) => x \in listing.listed
    /\ listing.end => listing.there \subseteq listing.listed
    /\ listing.twice = {}

\* Nothing is told to be over that still runs, and success is told of what is done, alone.
ToldIsTrue ==
    /\ (execution.state \in Running =>
            ended = "no" /\ execution.job \in {"pending", "running", "cancelling"})
    /\ execution.job = "pending" => execution.state = "pending"
    /\ ended = "succeeded" <=> execution.state = "done"

ActivityInv == ActivityTyped /\ WalkIsTrue /\ ToldIsTrue

\* A walk that starts has listed nothing.
LEMMA StartIsTrue ==
    ASSUME recorded \in SUBSET Rows
    PROVE  /\ AtStart \in Listings /\ AtStart.there = recorded /\ AtStart.listed = {}
           /\ AtStart.cursor = NoCursor /\ AtStart.twice = {} /\ AtStart.end = FALSE
<1>. QED
    BY DEF AtStart, Listings, NoCursor

\* The page listed.
LEMMA ListKeeps ==
    ASSUME ActivityInv, ListActivity
    PROVE  ActivityInv'
<1>. DEFINE found == PerSource(listing.cursor)
            page  == Newest(found, Limit)
            end   == Cardinality(found) <= Limit
            next  == IF page = {} THEN listing.cursor ELSE Min({Id(x) : x \in page})
            eligible == Eligible(listing.cursor)
<1>1. /\ recorded \in SUBSET Rows /\ listing \in Listings
      /\ UNCHANGED <<recorded, flushed, clock, execution, ended>>
    BY DEF ActivityInv, ActivityTyped, ListActivity
<1>2. listing' = [listing EXCEPT !.listed = @ \cup page,
                                 !.twice  = @ \cup (listing.listed \cap page),
                                 !.end    = end, !.cursor = next]
    BY DEF ListActivity
<1>3. page \in SUBSET eligible /\ eligible \in SUBSET Rows /\ page \in SUBSET found
    BY <1>1, TablesGiveRows DEF Newest
<1>4. \A x \in recorded : x \in eligible <=> ~Passed(listing, x)
  <2>1. \A x \in recorded : Id(x) \in Int
    BY <1>1, KeysDiffer
  <2>2. listing.cursor \in Int
    BY <1>1 DEF Listings
  <2>. QED
    BY <2>1, <2>2 DEF Eligible, Passed
<1>5. \A x \in eligible : x \in recorded /\ page # {}
                          /\ (Id(x) >= next => x \in page) /\ (end => x \in page)
  <2>1. \A x \in eligible : x \in recorded
    BY DEF Eligible
  <2>. SUFFICES ASSUME NEW x \in eligible
                PROVE  page # {} /\ (Id(x) >= next => x \in page) /\ (end => x \in page)
    BY <2>1
  <2>. QED
    BY <1>1, PageIsComplete
<1>6. /\ page # {} => \A x \in page : next <= Id(x)
      /\ next \in Int
      /\ page # {} => next # NoCursor /\ (listing.cursor # NoCursor => next < listing.cursor)
  <2>1. listing.cursor \in Int
    BY <1>1 DEF Listings
  <2>2. CASE page # {}
    <3>1. next = Min({Id(x) : x \in page})
      BY <2>2
    <3>2. (\E x \in page : next = Id(x)) /\ \A x \in page : next <= Id(x)
      BY <2>2, <1>3, <3>1, OldestRow
    <3>3. \A x \in page : x \in Rows /\ (listing.cursor = NoCursor \/ Id(x) < listing.cursor)
      BY <1>3 DEF Eligible
    <3>4. \A x \in page : Id(x) \in Nat
      BY <3>3, KeysDiffer, ActivityConstantsAssumption
    <3>. HIDE DEF next, page
    <3>. QED
      BY <3>2, <3>3, <3>4, <2>2 DEF NoCursor
  <2>. QED
    BY <2>1, <2>2
<1>. HIDE DEF found, page, end, next, eligible
<1>7. end \in BOOLEAN
    BY DEF end
<1>8. /\ listing'.listed = listing.listed \cup page
      /\ listing'.twice = listing.twice \cup (listing.listed \cap page)
      /\ listing'.end = end /\ listing'.cursor = next /\ listing'.there = listing.there
      /\ listing' \in Listings
  <2>1. page \in SUBSET Rows
    BY <1>3
  <2>. QED
    BY <1>1, <1>2, <1>6, <1>7, <2>1 DEF Listings
<1>9. listing.listed \cap page = {}
    BY <1>3, <1>4 DEF ActivityInv, WalkIsTrue
<1>10. \A x \in Rows : Id(x) \in Int
    BY KeysDiffer
<1>11. listing.cursor \in Int
    BY <1>1 DEF Listings
<1>12. \A x \in listing'.listed : Passed(listing', x)
  <2>. SUFFICES ASSUME NEW x \in listing.listed \cup page PROVE next # NoCursor /\ Id(x) >= next
    BY <1>8 DEF Passed
  <2>1. CASE x \in page
    BY <2>1, <1>3, <1>6, <1>10
  <2>2. CASE x \in listing.listed
    <3>1. listing.cursor # NoCursor /\ Id(x) >= listing.cursor /\ x \in Rows
      BY <2>2, <1>1 DEF ActivityInv, WalkIsTrue, Passed
    <3>2. CASE page # {}
      <4>1. next # NoCursor /\ next < listing.cursor /\ Id(x) \in Int
        BY <3>1, <3>2, <1>6, <1>10
      <4>. QED
        BY <3>1, <4>1, <1>6, <1>11
    <3>3. CASE page = {}
      BY <3>1, <3>3 DEF next
    <3>. QED
      BY <3>2, <3>3
  <2>. QED
    BY <2>1, <2>2
<1>13. \A x \in listing.there : x \in recorded /\ (Passed(listing, x) => x \in listing.listed)
    BY DEF ActivityInv, WalkIsTrue
<1>14. \A x \in listing'.there : Passed(listing', x) => x \in listing'.listed
  <2>. SUFFICES ASSUME NEW x \in listing.there, Id(x) >= next
                PROVE  x \in listing.listed \cup page
    BY <1>8 DEF Passed
  <2>. QED
    BY <1>4, <1>5, <1>13
<1>15. listing'.end => listing'.there \subseteq listing'.listed
  <2>. SUFFICES ASSUME end, NEW x \in listing.there PROVE x \in listing.listed \cup page
    BY <1>8
  <2>. QED
    BY <1>4, <1>5, <1>13
<1>16. WalkIsTrue'
  <2>1. listing'.listed \subseteq recorded' /\ listing'.there \subseteq recorded'
    BY <1>1, <1>3, <1>5, <1>8, <1>13 DEF ActivityInv, WalkIsTrue
  <2>2. listing'.twice = {}
    BY <1>8, <1>9 DEF ActivityInv, WalkIsTrue
  <2>. QED
    BY <1>12, <1>14, <1>15, <2>1, <2>2 DEF WalkIsTrue
<1>. QED
    BY <1>1, <1>8, <1>16 DEF ActivityInv, ActivityTyped, ToldIsTrue

\* A row committed during a walk is none of those that were there.
LEMMA RowsAppear ==
    ASSUME ActivityInv, recorded \subseteq recorded', recorded' \in SUBSET Rows,
           flushed' \in SUBSET Rows, clock' \in 0..MaxTime, UNCHANGED <<listing, execution, ended>>
    PROVE  ActivityInv'
<1>1. WalkIsTrue'
    BY DEF ActivityInv, WalkIsTrue, Passed
<1>. QED
    BY <1>1 DEF ActivityInv, ActivityTyped, ToldIsTrue

\* What is told of a run when one of its two transactions is committed.
LEMMA ProceedKeeps ==
    ASSUME ActivityInv, Proceed
    PROVE  ActivityInv'
<1>1. execution \in Execs /\ ToldIsTrue /\ ended \in {"no", "succeeded", "failed", "cancelled"}
    BY DEF ActivityInv, ActivityTyped
<1>2. PICK r \in Execs : ExecutionStep(r) /\ execution' = r
    BY DEF Proceed, Execs
<1>3. ended' = IF ended = "no" /\ Told(r) \in {"succeeded", "failed", "cancelled"}
               THEN Told(r) ELSE ended
  <2>1. Told(execution') = Told(r)
    BY <1>2
  <2>. QED
    BY <2>1 DEF Proceed
<1>4. /\ r.state = "done" => Told(r) = "succeeded"
      /\ r.state # "done" => Told(r) # "succeeded"
      /\ r.state \in Running /\ r.job \in {"pending", "running", "cancelling"} =>
             Told(r) \in {"pending", "running", "cancelling"}
      /\ r.state \in Running \/ Told(r) \in {"succeeded", "failed", "cancelled", "cancelling"}
    BY DEF Told, Label, Running, Execs
<1>5. ended' \in {"no", "succeeded", "failed", "cancelled"}
    BY <1>1, <1>3
<1>6. \/ /\ r.state = execution.state
         /\ (r.state \in Running => r.job \in {"pending", "running", "cancelling"})
      \/ execution.state \in Running /\ r.state = "failed"
      \/ execution.state = "pending" /\ r.state = "writing" /\ r.job \in {"running", "cancelling"}
      \/ execution.state = "writing" /\ r.state \in {"done", "failed", "partly"}
    BY <1>1, <1>2 DEF ExecutionStep, Execs, Running, ToldIsTrue
<1>7. r.job = "pending" => r.state = "pending"
    BY <1>1, <1>2 DEF ExecutionStep, Execs, ToldIsTrue
<1>8. ToldIsTrue'
  <2>. SUFFICES
         /\ r.state \in Running => ended' = "no" /\ r.job \in {"pending", "running", "cancelling"}
         /\ ended' = "succeeded" <=> r.state = "done"
    BY <1>2, <1>7 DEF ToldIsTrue
  <2>. QED
    BY <1>1, <1>3, <1>4, <1>6 DEF ToldIsTrue, Running, Execs
<1>. QED
    BY <1>2, <1>5, <1>8 DEF ActivityInv, ActivityTyped, WalkIsTrue, Passed, Proceed, tables

\* Nothing has been recorded, told or left out.
LEMMA ActivityStarts == ActivityInit => ActivityInv
<1>. SUFFICES ASSUME ActivityInit PROVE ActivityInv
    OBVIOUS
<1>1. recorded = {} /\ flushed = {} /\ clock \in 0..MaxTime /\ listing = AtStart
    BY ActivityConstantsAssumption DEF ActivityInit
<1>2. execution \in Execs /\ ended = "no" /\ ToldIsTrue
    BY DEF ActivityInit, Execs, ToldIsTrue, Running
<1>. QED
    BY <1>1, <1>2, StartIsTrue DEF ActivityInv, ActivityTyped, WalkIsTrue

\* Every step of the activity keeps its inductive invariant.
LEMMA ActivityInductive == ActivityInv /\ [ActivityNext]_activityVars => ActivityInv'
<1>. SUFFICES ASSUME ActivityInv, [ActivityNext]_activityVars PROVE ActivityInv'
    OBVIOUS
<1>1. /\ recorded \in SUBSET Rows /\ flushed \in SUBSET Rows /\ clock \in 0..MaxTime
      /\ MaxTime \in Nat
    BY ActivityConstantsAssumption DEF ActivityInv, ActivityTyped
<1>2. CASE Reload
  <2>1. listing' = AtStart /\ UNCHANGED <<recorded, flushed, clock, execution, ended>>
    BY <1>2 DEF Reload
  <2>. QED
    <3>1. ActivityTyped'
      BY <2>1, <1>1, StartIsTrue DEF ActivityInv, ActivityTyped
    <3>2. WalkIsTrue'
      <4>1. \A x : ~Passed(AtStart, x)
        BY <1>1, StartIsTrue DEF Passed
      <4>. QED
        BY <2>1, <1>1, <4>1, StartIsTrue DEF WalkIsTrue
    <3>3. ToldIsTrue'
      BY <2>1 DEF ActivityInv, ToldIsTrue
    <3>. QED
      BY <3>1, <3>2, <3>3 DEF ActivityInv
<1>3. CASE Tick
  <2>1. clock' \in 0..MaxTime /\ UNCHANGED <<recorded, flushed, listing, execution, ended>>
    BY <1>1, <1>3 DEF Tick
  <2>. QED
    BY <1>1, <2>1, RowsAppear
<1>4. ASSUME NEW s \in Sources, Flush(s) PROVE ActivityInv'
  <2>1. [source |-> s, at |-> clock] \in Rows
    BY <1>1 DEF Rows
  <2>2. flushed' \in SUBSET Rows /\ UNCHANGED <<recorded, clock, listing, execution, ended>>
    BY <1>1, <1>4, <2>1 DEF Flush
  <2>. QED
    BY <1>1, <2>2, RowsAppear
<1>5. ASSUME NEW x \in flushed, CommitRow(x) PROVE ActivityInv'
  <2>1. /\ recorded \subseteq recorded' /\ recorded' \in SUBSET Rows /\ flushed' \in SUBSET Rows
        /\ UNCHANGED <<clock, listing, execution, ended>>
    BY <1>1, <1>5 DEF CommitRow
  <2>. QED
    BY <1>1, <2>1, RowsAppear
<1>6. CASE UNCHANGED activityVars
  <2>1. UNCHANGED <<recorded, flushed, clock, listing, execution, ended>>
    BY <1>6 DEF activityVars
  <2>. QED
    BY <1>1, <2>1, RowsAppear
<1>. QED
    BY <1>2, <1>3, <1>4, <1>5, <1>6, ListKeeps, ProceedKeeps DEF ActivityNext

\* So it always holds.
LEMMA ActivityInvariance == ActivitySpec => []ActivityInv
<1>. QED
    BY ActivityStarts, ActivityInductive, PTL DEF ActivitySpec

\* What the inductive invariant says of the listing and of what is told.
LEMMA ActivityFollows ==
    ASSUME ActivityInv
    PROVE  ActivityTypeOK /\ EveryRowListedOnce /\ SuccessStaysTold
<1>1. ActivityTypeOK
    BY DEF ActivityInv, ActivityTyped, WalkIsTrue, ActivityTypeOK, Rows
<1>2. EveryRowListedOnce
    BY DEF ActivityInv, WalkIsTrue, EveryRowListedOnce
<1>3. SuccessStaysTold
  <2>1. execution.state = "done" => Told(execution) = "succeeded"
    BY DEF Told, Label
  <2>. QED
    BY <2>1 DEF ActivityInv, ToldIsTrue, SuccessStaysTold
<1>. QED
    BY <1>1, <1>2, <1>3

-----------------------------------------------------------------------------
(* Inbox: the key of the list is an order.                                  *)

InboxStates  == DOMAIN StateRank
Issues  == {"none", "task", "review", "collision"}
Entries == [state : InboxStates, issue : Issues]
Keys    == Int \X Int \X Int

\* The ranks of the states; only the ended states have the last two.
LEMMA RanksTyped ==
    /\ \A s \in InboxStates : StateRank[s] \in 0..6
    /\ \A s \in InboxStates : StateRank[s] >= 5 <=> s \in {"applied", "discarded"}
    /\ InboxStates = {"needs_attention", "failed", "preparing", "ready", "applying",
                 "partially_applied", "applied", "discarded"}
<1>. QED
    BY DEF InboxStates, StateRank

\* Sort keys are in a strict total order.
LEMMA KeysAreOrdered ==
    /\ \A k \in Keys : ~KeyBefore(k, k)
    /\ \A k, l \in Keys : k # l => KeyBefore(k, l) \/ KeyBefore(l, k)
    /\ \A k, l, m \in Keys : KeyBefore(k, l) /\ KeyBefore(l, m) => KeyBefore(k, m)
<1>1. \A k \in Keys : k[1] \in Int /\ k[2] \in Int /\ k[3] \in Int
    BY DEF Keys
<1>2. ASSUME NEW k \in Keys, NEW l \in Keys
      PROVE  KeyBefore(k, l) <=> \/ k[1] < l[1]
                                 \/ k[1] = l[1] /\ k[2] < l[2]
                                 \/ k[1] = l[1] /\ k[2] = l[2] /\ k[3] < l[3]
    BY DEF KeyBefore
<1>3. \A k, l \in Keys : k # l => k[1] # l[1] \/ k[2] # l[2] \/ k[3] # l[3]
    BY DEF Keys
<1>. QED
    BY <1>1, <1>2, <1>3

\* Two reviews never share a sort key: its last part is the number of the review.
LEMMA SortKeysTyped ==
    ASSUME NEW e \in [Reviewed -> Entries]
    PROVE  /\ \A b \in Reviewed :
                  SortKey(e, b) \in Keys /\ SortKey(e, b) # <<>> /\ SortKey(e, b)[3] = b
           /\ \A a, b \in Reviewed : a # b => SortKey(e, a) # SortKey(e, b)
<1>1. ASSUME NEW b \in Reviewed
      PROVE  SortKey(e, b) \in Keys /\ SortKey(e, b) # <<>> /\ SortKey(e, b)[3] = b
  <2>1. IssueRank(e[b]) \in Int /\ StateRank[e[b].state] \in Int /\ b \in Int
    <3>1. e[b].state \in InboxStates
      BY DEF Entries
    <3>. QED
      BY <3>1, RanksTyped, InboxConstantsAssumption DEF IssueRank
  <2>. QED
    BY <2>1 DEF SortKey, Keys
<1>. QED
    BY <1>1

\* The list holds each of its reviews once, in the order of their sort keys.
LEMMA ListIsOrdered ==
    ASSUME NEW e \in [Reviewed -> Entries], NEW S \in SUBSET Reviewed
    PROVE  LET n == Cardinality(S)
               f == InOrder(e, S)
           IN /\ n \in Nat /\ f \in [1..n -> S] /\ f \in Seq(S) /\ Len(f) = n /\ DOMAIN f = 1..n
              /\ \A x \in S : \E k \in 1..n : f[k] = x
              /\ \A k, l \in 1..n : k < l <=> KeyBefore(SortKey(e, f[k]), SortKey(e, f[l]))
              /\ (n = 0 <=> S = {})
<1>. DEFINE n == Cardinality(S)
            f == InOrder(e, S)
<1>1. IsFiniteSet(S)
    BY InboxConstantsAssumption, FS_Subset
<1>2. \A a, b \in S : <<a, b>> \in ByKey(e, S) <=> KeyBefore(SortKey(e, a), SortKey(e, b))
    BY DEF ByKey
<1>3. Orders(ByKey(e, S), S)
  <2>. HIDE DEF n, f
  <2>1. \A x \in S : <<x, x>> \notin ByKey(e, S)
    BY <1>2, SortKeysTyped, KeysAreOrdered
  <2>2. \A x, y \in S : x # y => <<x, y>> \in ByKey(e, S) \/ <<y, x>> \in ByKey(e, S)
    BY <1>2, SortKeysTyped, KeysAreOrdered
  <2>3. \A x, y, z \in S :
            <<x, y>> \in ByKey(e, S) /\ <<y, z>> \in ByKey(e, S) => <<x, z>> \in ByKey(e, S)
    BY <1>2, SortKeysTyped, KeysAreOrdered
  <2>. QED
    BY <2>1, <2>2, <2>3 DEF Orders
<1>4. /\ n \in Nat /\ f \in [1..n -> S]
      /\ \A x \in S : \E k \in 1..n : f[k] = x
      /\ \A k, l \in 1..n : k < l <=> <<f[k], f[l]>> \in ByKey(e, S)
    BY <1>1, <1>3, ArrangeFacts DEF InOrder
<1>5. n = 0 <=> S = {}
    BY <1>1, FS_EmptySet
<1>. HIDE DEF n, f
<1>6. f \in Seq(S) /\ Len(f) = n /\ DOMAIN f = 1..n
    BY <1>4
<1>7. \A k, l \in 1..n : k < l <=> KeyBefore(SortKey(e, f[k]), SortKey(e, f[l]))
    BY <1>2, <1>4
<1>. QED
    BY <1>4, <1>5, <1>6, <1>7 DEF n, f

-----------------------------------------------------------------------------
(* Going from a review to its neighbours.                                   *)

\* The first and the last of a part of the list.
LEMMA EndsOfList ==
    ASSUME NEW e \in [Reviewed -> Entries], NEW S \in SUBSET Reviewed
    PROVE  /\ S = {} => FirstOf(e, S) = 0 /\ LastOf(e, S) = 0
           /\ S # {} => /\ FirstOf(e, S) \in S
                        /\ \A x \in S : ~KeyBefore(SortKey(e, x), SortKey(e, FirstOf(e, S)))
           /\ S # {} => /\ LastOf(e, S) \in S
                        /\ \A x \in S : ~KeyBefore(SortKey(e, LastOf(e, S)), SortKey(e, x))
<1>1. CASE S = {}
    BY <1>1 DEF FirstOf, LastOf
<1>2. CASE S # {}
  <2>. DEFINE n == Cardinality(S)
              f == InOrder(e, S)
  <2>1. /\ n \in Nat /\ f \in [1..n -> S] /\ Len(f) = n
        /\ \A x \in S : \E k \in 1..n : f[k] = x
        /\ \A k, l \in 1..n : k < l <=> KeyBefore(SortKey(e, f[k]), SortKey(e, f[l]))
        /\ n # 0
    BY <1>2, ListIsOrdered
  <2>2. FirstOf(e, S) = f[1] /\ LastOf(e, S) = f[Len(f)]
    BY <1>2 DEF FirstOf, LastOf, Last
  <2>. HIDE DEF n, f
  <2>3. 1 \in 1..n /\ n \in 1..n
    BY <2>1
  <2>4. ASSUME NEW x \in S
        PROVE  /\ ~KeyBefore(SortKey(e, x), SortKey(e, f[1]))
               /\ ~KeyBefore(SortKey(e, f[n]), SortKey(e, x))
    <3>1. PICK k \in 1..n : f[k] = x
      BY <2>1
    <3>2. ~(k < 1) /\ ~(n < k)
      BY <2>1
    <3>. QED
      BY <2>1, <2>3, <3>1, <3>2
  <2>. QED
    BY <1>2, <2>1, <2>2, <2>3, <2>4
<1>. QED
    BY <1>1, <1>2

\* The reviews told to be before and after one are its neighbors in the list.
LEMMA NeighborsFollow ==
    ASSUME entry \in [Reviewed -> Entries]
    PROVE  NeighborsFollowList
<1>. DEFINE S == Shown(entry)
            n == Cardinality(S)
            list == InOrder(entry, S)
            key(x) == SortKey(entry, x)
<1>1. S \in SUBSET Reviewed
    BY DEF Shown
<1>2. /\ n \in Nat /\ list \in [1..n -> S] /\ Len(list) = n /\ DOMAIN list = 1..n
      /\ \A x \in S : \E k \in 1..n : list[k] = x
      /\ \A k, l \in 1..n : k < l <=> KeyBefore(key(list[k]), key(list[l]))
    BY <1>1, ListIsOrdered
<1>. SUFFICES ASSUME NEW i \in 1..n
              PROVE  /\ ReviewNeighbors(entry, list[i]).next = (IF i = n THEN 0 ELSE list[i + 1])
                     /\ ReviewNeighbors(entry, list[i]).previous =
                             (IF i = 1 THEN 0 ELSE list[i - 1])
    BY <1>2 DEF NeighborsFollowList
<1>. DEFINE later   == Following(entry, key(list[i]))
            earlier == {a \in S : KeyBefore(key(a), key(list[i]))}
<1>3. ReviewNeighbors(entry, list[i]).next = FirstOf(entry, later)
      /\ ReviewNeighbors(entry, list[i]).previous = LastOf(entry, earlier)
    BY DEF ReviewNeighbors, Previous
<1>4. later = {a \in S : KeyBefore(key(list[i]), key(a))}
  <2>1. key(list[i]) # <<>>
    BY <1>1, <1>2, SortKeysTyped
  <2>. QED
    BY <2>1 DEF Following
<1>5. later \in SUBSET Reviewed /\ earlier \in SUBSET Reviewed
    BY <1>1, <1>4
<1>6. /\ \A k \in 1..n : list[k] \in later <=> i < k
      /\ \A k \in 1..n : list[k] \in earlier <=> k < i
    BY <1>2, <1>4
<1>7. /\ \A x \in later : \E k \in 1..n : list[k] = x
      /\ \A x \in earlier : \E k \in 1..n : list[k] = x
    BY <1>2, <1>4
<1>8. /\ later = {} => FirstOf(entry, later) = 0
      /\ later # {} => /\ FirstOf(entry, later) \in later
                       /\ \A x \in later : ~KeyBefore(key(x), key(FirstOf(entry, later)))
    BY <1>5, EndsOfList
<1>9. /\ earlier = {} => LastOf(entry, earlier) = 0
      /\ earlier # {} => /\ LastOf(entry, earlier) \in earlier
                         /\ \A x \in earlier : ~KeyBefore(key(LastOf(entry, earlier)), key(x))
    BY <1>5, EndsOfList
<1>. HIDE DEF S, n, list, key, later, earlier
<1>10. FirstOf(entry, later) = IF i = n THEN 0 ELSE list[i + 1]
  <2>1. CASE i = n
    <3>1. later = {}
      BY <1>2, <1>6, <1>7, <2>1
    <3>. QED
      BY <1>8, <2>1, <3>1
  <2>2. CASE i # n
    <3>1. i + 1 \in 1..n /\ i < i + 1
      BY <1>2, <2>2
    <3>2. list[i + 1] \in later
      BY <1>6, <3>1
    <3>3. PICK k \in 1..n : list[k] = FirstOf(entry, later)
      BY <1>7, <1>8, <3>2
    <3>4. i < k /\ ~(i + 1 < k)
      BY <1>2, <1>6, <1>8, <3>1, <3>2, <3>3
    <3>5. k = i + 1
      BY <1>2, <3>1, <3>4
    <3>. QED
      BY <2>2, <3>3, <3>5
  <2>. QED
    BY <2>1, <2>2
<1>11. LastOf(entry, earlier) = IF i = 1 THEN 0 ELSE list[i - 1]
  <2>1. CASE i = 1
    <3>1. earlier = {}
      BY <1>2, <1>6, <1>7, <2>1
    <3>. QED
      BY <1>9, <2>1, <3>1
  <2>2. CASE i # 1
    <3>1. i - 1 \in 1..n /\ i - 1 < i
      BY <1>2, <2>2
    <3>2. list[i - 1] \in earlier
      BY <1>6, <3>1
    <3>3. PICK k \in 1..n : list[k] = LastOf(entry, earlier)
      BY <1>7, <1>9, <3>2
    <3>4. k < i /\ ~(k < i - 1)
      BY <1>2, <1>6, <1>9, <3>1, <3>2, <3>3
    <3>5. k = i - 1
      BY <1>2, <3>1, <3>4
    <3>. QED
      BY <2>2, <3>3, <3>5
  <2>. QED
    BY <2>1, <2>2
<1>. QED
    BY <1>3, <1>10, <1>11

-----------------------------------------------------------------------------
(* The walk through the pages of the inbox.                                 *)

Tries  == Seq({"running", "succeeded", "failed"})
Errors == {"none", "apply", "skip", "task"}
Recs   == [state : InboxStates, error : Errors, tries : Tries, collision : BOOLEAN]
Copies == [b : Reviewed, copy : Recs]
Walks  == [after : {<<>>} \cup Keys, listed : [Reviewed -> Nat], moved : SUBSET Reviewed,
           end : BOOLEAN]

InboxTyped ==
    /\ bundle \in [Reviewed -> Recs] /\ entry \in [Reviewed -> Entries]
    /\ held \in [Sessions -> {Unloaded} \cup Copies]
    /\ walk \in Walks

\* A row that a walk has passed.
PassedBy(w, e, b) == w.after # <<>> /\ ~KeyBefore(w.after, SortKey(e, b))

\* Of the rows that stayed where they were, those passed are listed once and the others not.
ListedIsPassed ==
    /\ \A b \in Reviewed \ walk.moved :
           walk.listed[b] = IF b \in Shown(entry) /\ PassedBy(walk, entry, b) THEN 1 ELSE 0
    /\ walk.end => \A b \in Shown(entry) \ walk.moved : PassedBy(walk, entry, b)

InboxInv == InboxTyped /\ ListedIsPassed

\* A walk that starts over has listed nothing.
LEMMA TopIsTrue ==
    /\ AtTop \in Walks
    /\ AtTop.moved = {} /\ AtTop.end = FALSE /\ AtTop.after = <<>>
    /\ \A b \in Reviewed : AtTop.listed[b] = 0
<1>1. [b \in Reviewed |-> 0] \in [Reviewed -> Nat]
    OBVIOUS
<1>. QED
    BY <1>1 DEF AtTop, Walks

\* A page lists what follows the place the walk has reached, each review once.
LEMMA ListPageKeeps ==
    ASSUME InboxInv, ListPage
    PROVE  InboxInv'
<1>. DEFINE rest  == Following(entry, walk.after)
            n     == Cardinality(rest)
            found == InOrder(entry, rest)
            m     == IF Len(found) > PageSize THEN PageSize ELSE Len(found)
            page  == SubSeq(found, 1, m)
            shownNow == {found[k] : k \in 1..m}
            listed == [b \in Reviewed |-> IF b \in shownNow \ walk.moved THEN walk.listed[b] + 1
                                          ELSE walk.listed[b]]
            after == IF m = 0 THEN walk.after ELSE SortKey(entry, found[m])
            key(b) == SortKey(entry, b)
<1>1. entry \in [Reviewed -> Entries] /\ walk \in Walks /\ ListedIsPassed
    BY DEF InboxInv, InboxTyped
<1>2. rest \in SUBSET Reviewed
    BY DEF Following, Shown
<1>3. /\ n \in Nat /\ found \in [1..n -> rest] /\ found \in Seq(rest) /\ Len(found) = n
      /\ \A x \in rest : \E k \in 1..n : found[k] = x
      /\ \A k, l \in 1..n : k < l <=> KeyBefore(key(found[k]), key(found[l]))
    BY <1>1, <1>2, ListIsOrdered
<1>4. PageSize \in Nat \ {0}
    BY InboxConstantsAssumption
<1>5. \A b \in Reviewed : key(b) \in Keys /\ key(b) # <<>>
    BY <1>1, SortKeysTyped
<1>6. \A b \in Reviewed : b \in rest <=> b \in Shown(entry) /\ ~PassedBy(walk, entry, b)
    BY DEF Following, PassedBy, Shown
<1>7. /\ walk' = [walk EXCEPT
                     !.listed = [b \in Reviewed |->
                                    IF b \in ToSet(page) \ walk.moved THEN @[b] + 1 ELSE @[b]],
                     !.end    = Len(found) <= PageSize,
                     !.after  = IF page = <<>> THEN @ ELSE SortKey(entry, Last(page))]
      /\ UNCHANGED <<bundle, entry, held>>
    BY DEF ListPage
<1>. HIDE DEF rest, n, found
<1>8. m \in Nat /\ m <= n /\ (m < n <=> n > PageSize) /\ (m = 0 => n = 0)
    BY <1>3, <1>4
<1>. HIDE DEF m
<1>9. page \in Seq(rest) /\ Len(page) = m /\ \A k \in 1..m : page[k] = found[k]
    BY <1>3, <1>8
<1>10. (page = <<>> <=> m = 0) /\ (m # 0 => Last(page) = found[m])
  <2>2. Last(page) = page[Len(page)]
    BY DEF Last
  <2>3. m # 0 => m \in 1..m
    BY <1>8
  <2>. HIDE DEF page
  <2>1. page = <<>> <=> Len(page) = 0
    BY <1>9
  <2>. QED
    BY <1>9, <2>1, <2>2, <2>3
<1>11. ToSet(page) = shownNow
    BY <1>8, <1>9 DEF ToSet
<1>. HIDE DEF page
<1>12. walk' = [walk EXCEPT !.listed = listed, !.end = n <= PageSize, !.after = after]
  <2>1. [b \in Reviewed |-> IF b \in ToSet(page) \ walk.moved THEN walk.listed[b] + 1
                            ELSE walk.listed[b]] = listed
    BY <1>11
  <2>2. (IF page = <<>> THEN walk.after ELSE SortKey(entry, Last(page))) = after
    BY <1>10
  <2>. HIDE DEF listed, after, shownNow
  <2>. QED
    BY <1>3, <1>7, <2>1, <2>2
<1>13. /\ walk'.listed = listed /\ walk'.end = (n <= PageSize) /\ walk'.after = after
       /\ walk'.moved = walk.moved
  <2>. HIDE DEF listed, after, shownNow
  <2>. QED
    BY <1>1, <1>12 DEF Walks
<1>14. after \in {<<>>} \cup Keys
  <2>1. m # 0 => found[m] \in Reviewed
    BY <1>2, <1>3, <1>8
  <2>. QED
    BY <1>1, <1>5, <2>1 DEF Walks
<1>15. listed \in [Reviewed -> Nat]
  <2>1. \A b \in Reviewed : walk.listed[b] \in Nat
    BY <1>1 DEF Walks
  <2>. QED
    BY <2>1
<1>16. walk' \in Walks
  <2>1. (n <= PageSize) \in BOOLEAN
    OBVIOUS
  <2>. HIDE DEF listed, after, shownNow
  <2>. QED
    BY <1>1, <1>12, <1>14, <1>15, <2>1 DEF Walks
\* What the page passed.
<1>17. ASSUME NEW b \in rest PROVE (b \in shownNow <=> PassedBy(walk', entry, b))
                                   /\ (n <= PageSize => b \in shownNow)
  <2>1. PICK k \in 1..n : found[k] = b
    BY <1>3
  <2>2. \A j \in 1..n : found[j] = b => j = k
    <3>1. \A j \in 1..n : found[j] = b => ~(j < k) /\ ~(k < j)
      BY <1>2, <1>3, <1>1, <2>1, SortKeysTyped, KeysAreOrdered
    <3>. QED
      BY <1>3, <3>1
  <2>3. b \in shownNow <=> k <= m
    BY <1>3, <1>8, <2>1, <2>2
  <2>4. m # 0 /\ m \in 1..n
    BY <1>3, <1>8, <2>1
  <2>5. k <= m <=> ~KeyBefore(key(found[m]), key(b))
    BY <1>3, <1>8, <2>1, <2>4
  <2>6. after = key(found[m]) /\ after # <<>>
    BY <1>2, <1>3, <1>5, <2>4
  <2>7. PassedBy(walk', entry, b) <=> ~KeyBefore(after, key(b))
    BY <1>13, <2>6 DEF PassedBy
  <2>8. n <= PageSize => k <= m
    BY <1>3, <1>4, <1>8, <2>1
  <2>. HIDE DEF after, key, shownNow
  <2>. QED
    BY <2>3, <2>5, <2>6, <2>7, <2>8
<1>18. ASSUME NEW b \in Reviewed, PassedBy(walk, entry, b) PROVE PassedBy(walk', entry, b)
  <2>1. CASE m = 0
    BY <1>13, <1>18, <2>1 DEF PassedBy
  <2>2. CASE m # 0
    <3>1. found[m] \in rest /\ found[m] \in Reviewed
      BY <1>2, <1>3, <1>8, <2>2
    <3>2. walk.after # <<>> /\ walk.after \in Keys /\ KeyBefore(walk.after, key(found[m]))
      BY <1>1, <1>18, <3>1 DEF Following, PassedBy, Walks, rest
    <3>3. ~KeyBefore(key(found[m]), key(b))
      BY <1>5, <1>18, <3>1, <3>2, KeysAreOrdered DEF PassedBy
    <3>4. walk'.after = key(found[m]) /\ walk'.after # <<>>
      BY <1>5, <1>13, <2>2, <3>1
    <3>. QED
      BY <3>3, <3>4 DEF PassedBy
  <2>. QED
    BY <2>1, <2>2
<1>19. shownNow \in SUBSET rest
    BY <1>3, <1>8
<1>20. ASSUME NEW b \in Reviewed \ walk.moved
       PROVE  walk'.listed[b] = IF b \in Shown(entry) /\ PassedBy(walk', entry, b) THEN 1 ELSE 0
  <2>1. walk.listed[b] = IF b \in Shown(entry) /\ PassedBy(walk, entry, b) THEN 1 ELSE 0
    BY <1>1 DEF ListedIsPassed
  <2>2. walk'.listed[b] = IF b \in shownNow THEN walk.listed[b] + 1 ELSE walk.listed[b]
    BY <1>13
  <2>. HIDE DEF shownNow
  <2>. QED
    BY <1>6, <1>17, <1>18, <1>19, <2>1, <2>2
<1>21. walk'.end => \A b \in Shown(entry) \ walk.moved : PassedBy(walk', entry, b)
  <2>1. \A b \in Shown(entry) : b \in Reviewed
    BY DEF Shown
  <2>. HIDE DEF shownNow
  <2>. QED
    BY <1>6, <1>13, <1>17, <1>18, <2>1
<1>22. entry' = entry
    BY <1>7
<1>23. ListedIsPassed'
  <2>1. \A b \in Reviewed \ walk'.moved :
            walk'.listed[b] = IF b \in Shown(entry') /\ PassedBy(walk', entry', b) THEN 1 ELSE 0
    BY <1>13, <1>20, <1>22
  <2>2. walk'.end => \A b \in Shown(entry') \ walk'.moved : PassedBy(walk', entry', b)
    BY <1>13, <1>21, <1>22
  <2>. QED
    BY <2>1, <2>2 DEF ListedIsPassed
<1>. QED
    BY <1>7, <1>16, <1>23 DEF InboxInv, InboxTyped

\* A row that is written: either the review stays where it was, or the walk remembers.
LEMMA WriteKeeps ==
    ASSUME InboxInv, NEW b \in Reviewed, NEW r \in Entries, WriteEntry(b, r),
           bundle' \in [Reviewed -> Recs], held' \in [Sessions -> {Unloaded} \cup Copies]
    PROVE  InboxInv'
<1>1. entry \in [Reviewed -> Entries] /\ walk \in Walks /\ ListedIsPassed
    BY DEF InboxInv, InboxTyped
<1>2. entry' = [entry EXCEPT ![b] = r] /\ entry' \in [Reviewed -> Entries]
    BY <1>1 DEF WriteEntry
<1>3. \A a \in Reviewed : a # b => entry'[a] = entry[a]
    BY <1>1, <1>2
<1>4. \A a \in Reviewed : a # b => SortKey(entry', a) = SortKey(entry, a)
                                   /\ (a \in Shown(entry') <=> a \in Shown(entry))
    BY <1>3 DEF SortKey, Shown
<1>5. CASE SortKey(entry', b) = SortKey(entry, b)
  <2>1. walk' = walk
    BY <1>5 DEF WriteEntry
  <2>2. StateRank[entry'[b].state] = StateRank[entry[b].state]
    BY <1>5 DEF SortKey
  <2>3. entry'[b].state \in InboxStates /\ entry[b].state \in InboxStates
    BY <1>1, <1>2 DEF Entries
  <2>4. b \in Shown(entry') <=> b \in Shown(entry)
    BY <2>2, <2>3, RanksTyped DEF Shown
  <2>5. /\ \A a \in Reviewed : a \in Shown(entry') <=> a \in Shown(entry)
        /\ \A a \in Reviewed : PassedBy(walk', entry', a) <=> PassedBy(walk, entry, a)
        /\ Shown(entry') \in SUBSET Reviewed
    BY <1>4, <1>5, <2>1, <2>4 DEF PassedBy, Shown
  <2>6. ListedIsPassed'
    BY <1>1, <2>1, <2>5 DEF ListedIsPassed
  <2>. QED
    BY <1>1, <1>2, <2>1, <2>6 DEF InboxInv, InboxTyped
<1>6. CASE SortKey(entry', b) # SortKey(entry, b)
  <2>1. walk' = [walk EXCEPT !.moved = @ \cup {b}, !.listed[b] = 0]
    BY <1>6 DEF WriteEntry
  <2>2. /\ walk'.after = walk.after /\ walk'.end = walk.end /\ walk'.moved = walk.moved \cup {b}
        /\ walk'.listed = [walk.listed EXCEPT ![b] = 0] /\ walk' \in Walks
    BY <1>1, <2>1 DEF Walks
  <2>3. \A a \in Reviewed : a # b => walk'.listed[a] = walk.listed[a]
    BY <1>1, <2>2 DEF Walks
  <2>4. \A a \in Reviewed : a # b => (PassedBy(walk', entry', a) <=> PassedBy(walk, entry, a))
    BY <1>4, <2>2 DEF PassedBy
  <2>5. \A a \in Reviewed \ walk'.moved : a # b /\ a \in Reviewed \ walk.moved
    BY <2>2
  <2>6. Shown(entry') \in SUBSET Reviewed
    BY DEF Shown
  <2>7. ListedIsPassed'
    <3>1. ASSUME NEW a \in Reviewed \ walk'.moved
          PROVE  walk'.listed[a] =
                      IF a \in Shown(entry') /\ PassedBy(walk', entry', a) THEN 1 ELSE 0
      BY <1>1, <1>4, <2>3, <2>4, <2>5 DEF ListedIsPassed
    <3>2. ASSUME walk'.end, NEW a \in Shown(entry') \ walk'.moved PROVE PassedBy(walk', entry', a)
      <4>1. a \in Reviewed \ walk'.moved
        BY <2>6
      <4>. QED
        BY <1>1, <1>4, <2>2, <2>4, <2>5, <3>2, <4>1 DEF ListedIsPassed
    <3>. QED
      BY <3>1, <3>2 DEF ListedIsPassed
  <2>. QED
    BY <1>2, <2>2, <2>7 DEF InboxInv, InboxTyped
<1>. QED
    BY <1>5, <1>6

\* The issue of a review is one of those the list knows.
LEMMA IssueTyped == \A r : Issue(r) \in Issues
<1>. QED
    BY DEF Issue, Issues

\* What a write of a review puts into the list is an entry of it.
LEMMA ProjectionTyped ==
    \A r \in Recs : Projection(r) \in Entries /\ Synced(r) \in Entries
<1>. QED
    BY IssueTyped DEF Projection, Synced, Entries, Recs, Issues

\* A write that renews its copy first.
LEMMA ChangesKeep ==
    ASSUME InboxInv, NEW b \in Reviewed, NEW r \in Recs, Changes(b, r)
    PROVE  InboxInv'
<1>1. bundle' \in [Reviewed -> Recs] /\ WriteEntry(b, Projection(r))
      /\ held' \in [Sessions -> {Unloaded} \cup Copies]
    BY DEF Changes, InboxInv, InboxTyped
<1>. QED
    BY <1>1, ProjectionTyped, WriteKeeps

\* The row of a request that composes shows the review as its session holds it.
LEMMA ComposeKeeps ==
    ASSUME InboxInv, NEW s \in Sessions, NEW collision \in BOOLEAN, ComposeReview(s, collision)
    PROVE  InboxInv'
<1>. DEFINE b == held[s].b
            composed == [held[s].copy EXCEPT !.collision = collision, !.state = "ready"]
<1>1. held[s] \in Copies /\ bundle \in [Reviewed -> Recs]
      /\ held \in [Sessions -> {Unloaded} \cup Copies]
    BY DEF InboxInv, InboxTyped, ComposeReview
<1>2. b \in Reviewed /\ held[s].copy \in Recs
    BY <1>1 DEF Copies
<1>3. "ready" \in InboxStates
    BY RanksTyped
<1>4. composed \in Recs
    BY <1>2, <1>3 DEF Recs
<1>5. /\ bundle' = [bundle EXCEPT ![b].collision = collision,
              ![b].state = IF held[s].copy.state = "ready" THEN @ ELSE "ready"]
      /\ held' = [held EXCEPT ![s].copy = composed]
      /\ WriteEntry(b, Projection(composed))
    BY DEF ComposeReview
<1>6. held' \in [Sessions -> {Unloaded} \cup Copies]
  <2>. HIDE DEF composed
  <2>1. [held[s] EXCEPT !.copy = composed] \in Copies
    BY <1>1, <1>4 DEF Copies
  <2>. QED
    BY <1>1, <1>5, <2>1
<1>7. bundle' \in [Reviewed -> Recs]
  <2>. DEFINE moved == IF held[s].copy.state = "ready" THEN bundle[b].state ELSE "ready"
  <2>1. bundle[b] \in Recs
    BY <1>1, <1>2
  <2>2. moved \in InboxStates
    BY <1>3, <2>1 DEF Recs
  <2>3. bundle' = [bundle EXCEPT ![b] = [bundle[b] EXCEPT !.collision = collision, !.state = moved]]
    <3>. HIDE DEF b
    <3>. QED
      BY <1>1, <1>2, <1>5, <2>1 DEF Recs
  <2>. HIDE DEF moved, b
  <2>4. [bundle[b] EXCEPT !.collision = collision, !.state = moved] \in Recs
    BY <2>1, <2>2 DEF Recs
  <2>. QED
    BY <1>1, <1>2, <2>3, <2>4
<1>. HIDE DEF b, composed
<1>. QED
    BY <1>2, <1>4, <1>5, <1>6, <1>7, ProjectionTyped, WriteKeeps

\* A copy of a review with another state and another error.
LEMMA RecMoves ==
    ASSUME NEW r \in Recs, NEW moved \in InboxStates, NEW error \in Errors, NEW tries \in Tries
    PROVE  /\ [r EXCEPT !.state = moved, !.error = error] \in Recs
           /\ [r EXCEPT !.state = moved] \in Recs
           /\ [r EXCEPT !.tries = tries] \in Recs
<1>. QED
    BY DEF Recs

\* The end of a section changes the review and renews its copy.
LEMMA FinishKeeps ==
    ASSUME InboxInv, NEW b \in Reviewed, NEW outcome \in {"succeeded", "failed"},
           FinishSection(b, outcome)
    PROVE  InboxInv'
<1>. DEFINE done == [bundle[b] EXCEPT !.tries[Len(bundle[b].tries)] = outcome]
            r == IF done.state \notin OpenStates THEN done
                 ELSE IF FailedTry(done)
                 THEN [done EXCEPT !.state = "needs_attention", !.error = "task"]
                 ELSE [done EXCEPT !.state = "ready", !.error = "none"]
            tries == [bundle[b].tries EXCEPT ![Len(bundle[b].tries)] = outcome]
<1>1. bundle[b] \in Recs
    BY DEF InboxInv, InboxTyped
<1>2. tries \in Tries
  <2>1. bundle[b].tries \in Tries
    BY <1>1 DEF Recs
  <2>. DEFINE A == {"running", "succeeded", "failed"}
              n == Len(bundle[b].tries)
  <2>2. n \in Nat /\ bundle[b].tries \in [1..n -> A]
    BY <2>1 DEF Tries
  <2>3. tries \in [1..n -> A]
    BY <2>2
  <2>. HIDE DEF n, A, tries
  <2>4. tries \in Seq(A)
    BY <2>2, <2>3
  <2>. QED
    BY <2>4 DEF Tries, A
<1>3. done = [bundle[b] EXCEPT !.tries = tries]
    BY <1>1 DEF Recs
<1>. HIDE DEF tries
<1>4. /\ "ready" \in InboxStates /\ "needs_attention" \in InboxStates
      /\ {"none", "task"} \subseteq Errors
    BY RanksTyped DEF Errors
<1>5. done \in Recs
    BY <1>1, <1>2, <1>3, <1>4, RecMoves DEF Errors
<1>6. Changes(b, r)
    BY DEF FinishSection
<1>. HIDE DEF done
<1>7. r \in Recs
    BY <1>2, <1>4, <1>5, RecMoves
<1>. HIDE DEF r
<1>. QED
    BY <1>6, <1>7, ChangesKeep

\* The end of an Apply writes the entry from the copy its session holds.
LEMMA EndApplyKeeps ==
    ASSUME InboxInv, NEW b \in Reviewed, NEW outcome \in {"applied", "failed"}, EndApply(b, outcome)
    PROVE  InboxInv'
<1>. DEFINE error == IF outcome = "applied" THEN "none" ELSE "apply"
<1>1. bundle \in [Reviewed -> Recs] /\ bundle[b] \in Recs
      /\ held' \in [Sessions -> {Unloaded} \cup Copies]
    BY DEF InboxInv, InboxTyped, EndApply
<1>2. outcome \in InboxStates /\ error \in Errors
    BY RanksTyped DEF Errors
<1>3. bundle' = [bundle EXCEPT ![b] = [bundle[b] EXCEPT !.state = outcome, !.error = error]]
    BY <1>1 DEF EndApply, Recs
<1>. HIDE DEF error
<1>4. [bundle[b] EXCEPT !.state = outcome, !.error = error] \in Recs
    BY <1>1, <1>2 DEF Recs
<1>5. bundle' \in [Reviewed -> Recs] /\ bundle'[b] \in Recs
    BY <1>1, <1>3, <1>4
<1>6. WriteEntry(b, Synced(bundle'[b])) /\ Synced(bundle'[b]) \in Entries
    BY <1>5, ProjectionTyped DEF EndApply
<1>. QED
    BY <1>1, <1>5, <1>6, WriteKeeps

\* What the other operations write is a review again.
LEMMA OthersKeep ==
    ASSUME InboxInv, NEW b \in Reviewed,
           PlanSection(b) \/ SkipReview(b) \/ RejectAll(b) \/ Reopen(b) \/ StartApply(b)
    PROVE  InboxInv'
<1>1. bundle[b] \in Recs
    BY DEF InboxInv, InboxTyped
<1>2. /\ {"discarded", "needs_attention", "ready", "applying"} \subseteq InboxStates
      /\ "skip" \in Errors /\ "none" \in Errors /\ bundle[b].tries \in Tries
    BY <1>1, RanksTyped DEF Errors, Recs
<1>3. CASE PlanSection(b)
  <2>1. Append(bundle[b].tries, "running") \in Tries
    BY <1>2 DEF Tries
  <2>2. [bundle[b] EXCEPT !.tries = Append(@, "running")] \in Recs
    BY <1>1, <1>2, <2>1, RecMoves
  <2>. QED
    BY <1>3, <2>2, ChangesKeep DEF PlanSection
<1>4. CASE SkipReview(b)
  <2>1. [bundle[b] EXCEPT !.state = "discarded", !.error = "skip"] \in Recs
    BY <1>1, <1>2, RecMoves
  <2>. QED
    BY <1>4, <2>1, ChangesKeep DEF SkipReview
<1>5. CASE RejectAll(b)
  <2>1. [bundle[b] EXCEPT !.state = "discarded"] \in Recs
    BY <1>1, <1>2, RecMoves
  <2>. QED
    BY <1>5, <2>1, ChangesKeep DEF RejectAll
<1>6. CASE Reopen(b)
  <2>. DEFINE moved == IF FailedTry(bundle[b]) THEN "needs_attention" ELSE "ready"
  <2>1. moved \in InboxStates
    BY <1>2
  <2>2. Changes(b, [bundle[b] EXCEPT !.state = moved])
    BY <1>6 DEF Reopen
  <2>. HIDE DEF moved
  <2>3. [bundle[b] EXCEPT !.state = moved] \in Recs
    BY <1>1, <1>2, <2>1, RecMoves
  <2>. QED
    BY <2>2, <2>3, ChangesKeep
<1>7. CASE StartApply(b)
  <2>1. [bundle[b] EXCEPT !.state = "applying"] \in Recs
    BY <1>1, <1>2, RecMoves
  <2>. QED
    BY <1>7, <2>1, ChangesKeep DEF StartApply
<1>. QED
    BY <1>3, <1>4, <1>5, <1>6, <1>7

\* What a session loads or forgets, and a walk that starts again.
LEMMA SessionsKeep ==
    ASSUME InboxInv, UNCHANGED <<bundle, entry>>, walk' = walk \/ walk' = AtTop,
           held' \in [Sessions -> {Unloaded} \cup Copies]
    PROVE  InboxInv'
<1>1. walk' \in Walks
    BY TopIsTrue DEF InboxInv, InboxTyped
<1>2. ListedIsPassed'
  <2>1. CASE walk' = walk
    BY <2>1 DEF InboxInv, ListedIsPassed, PassedBy
  <2>2. CASE walk' = AtTop
    <3>1. \A b : ~PassedBy(AtTop, entry, b)
      BY TopIsTrue DEF PassedBy
    <3>. QED
      BY <2>2, <3>1, TopIsTrue DEF ListedIsPassed
  <2>. QED
    BY <2>1, <2>2
<1>. QED
    BY <1>1, <1>2 DEF InboxInv, InboxTyped

\* No review is listed.
LEMMA InboxStarts == InboxInit => InboxInv
<1>. SUFFICES ASSUME InboxInit PROVE InboxInv
    OBVIOUS
<1>1. NewReview \in Recs
  <2>1. <<>> \in Tries
    BY DEF Tries
  <2>. QED
    BY <2>1, RanksTyped DEF NewReview, Recs, Errors
<1>2. InboxTyped
  <2>1. Projection(NewReview) \in Entries
    BY <1>1, ProjectionTyped
  <2>. QED
    BY <1>1, <2>1, TopIsTrue DEF InboxInit, InboxTyped
<1>3. ListedIsPassed
  <2>1. walk = AtTop /\ \A b : ~PassedBy(AtTop, entry, b)
    BY TopIsTrue DEF InboxInit, PassedBy
  <2>. QED
    BY <2>1, TopIsTrue DEF ListedIsPassed
<1>. QED
    BY <1>2, <1>3 DEF InboxInv

\* Every step of the inbox keeps its inductive invariant.
LEMMA InboxInductive == InboxInv /\ [InboxNext]_inboxVars => InboxInv'
<1>. SUFFICES ASSUME InboxInv, [InboxNext]_inboxVars PROVE InboxInv'
    OBVIOUS
<1>1. bundle \in [Reviewed -> Recs] /\ held \in [Sessions -> {Unloaded} \cup Copies]
    BY DEF InboxInv, InboxTyped
<1>2. CASE Restart
    BY <1>1, <1>2, SessionsKeep DEF Restart
<1>3. ASSUME NEW s \in Sessions, NEW b \in Reviewed, LoadReview(s, b) PROVE InboxInv'
  <2>1. [b |-> b, copy |-> bundle[b]] \in Copies
    BY <1>1 DEF Copies
  <2>. QED
    BY <1>1, <1>3, <2>1, SessionsKeep DEF LoadReview
<1>4. ASSUME NEW s \in Sessions, CloseSession(s) PROVE InboxInv'
    BY <1>1, <1>4, SessionsKeep DEF CloseSession
<1>5. CASE UNCHANGED inboxVars
    BY <1>1, <1>5, SessionsKeep DEF inboxVars
<1>. QED
    BY <1>2, <1>3, <1>4, <1>5, ListPageKeeps, ComposeKeeps, FinishKeeps, EndApplyKeeps, OthersKeep
    DEF InboxNext

\* So it always holds.
LEMMA InboxInvariance == InboxSpec => []InboxInv
<1>. QED
    BY InboxStarts, InboxInductive, PTL DEF InboxSpec

\* What the inductive invariant says of the list.
LEMMA InboxFollows ==
    ASSUME InboxInv
    PROVE  InboxTypeOK /\ UnmovedListedOnce /\ NeighborsFollowList
<1>1. InboxTypeOK
  <2>1. \A b \in Reviewed : bundle[b].state \in InboxStates /\ entry[b].issue \in Issues
    BY DEF InboxInv, InboxTyped, Recs, Entries
  <2>2. \A s \in Sessions : held[s] # Unloaded => held[s] \in Copies
    BY DEF InboxInv, InboxTyped
  <2>3. walk.moved \subseteq Reviewed /\ walk.listed \in [Reviewed -> Nat]
    BY DEF InboxInv, InboxTyped, Walks
  <2>. QED
    BY <2>1, <2>2, <2>3 DEF InboxTypeOK, InboxStates, Issues, Copies
<1>2. UnmovedListedOnce
    BY DEF InboxInv, ListedIsPassed, UnmovedListedOnce
<1>3. NeighborsFollowList
    BY NeighborsFollow DEF InboxInv, InboxTyped
<1>. QED
    BY <1>1, <1>2, <1>3

-----------------------------------------------------------------------------
(* Matching: least numbers, sums and lists.                                 *)

LEMMA LeastOf ==
    ASSUME NEW N \in SUBSET Nat, N # {}
    PROVE  Min(N) \in N /\ \A m \in N : Min(N) <= m
<1>1. \E n \in N : \A m \in N : n =< m
    BY LeastNumber
<1>. QED
    BY <1>1 DEF Min

\* What is added of members: one of them, and what is added of the others.
AddsUp(g, F, D) ==
    g = [s \in D |-> IF s = {} THEN 0
                     ELSE F[CHOOSE t \in s : TRUE] + g[s \ {CHOOSE t \in s : TRUE}]]

\* There is such a sum for the subsets of a finite set.
LEMMA SumExists ==
    ASSUME NEW S, IsFiniteSet(S), NEW F
    PROVE  \E g : AddsUp(g, F, SUBSET S)
<1>. DEFINE D(n) == {s \in SUBSET S : Cardinality(s) <= n}
            Bad  == {n \in Nat : \A g : ~AddsUp(g, F, D(n))}
<1>1. \A s \in SUBSET S : /\ IsFiniteSet(s) /\ Cardinality(s) \in Nat
                          /\ Cardinality(s) <= Cardinality(S)
    BY FS_Subset, FS_CardinalityType
<1>2. \A s \in SUBSET S : s # {} =>
          /\ s \ {CHOOSE t \in s : TRUE} \in SUBSET S
          /\ Cardinality(s \ {CHOOSE t \in s : TRUE}) = Cardinality(s) - 1
    BY <1>1, FS_RemoveElement
<1>3. Bad = {}
  <2>. SUFFICES ASSUME Bad # {} PROVE FALSE
    OBVIOUS
  <2>1. PICK m \in Bad : \A n \in Bad : m <= n
    <3>1. Bad \in SUBSET Nat
      OBVIOUS
    <3>. QED
      BY <3>1, LeastNumber
  <2>2. CASE m = 0
    <3>1. \A s \in D(0) : s = {}
      BY <1>1, FS_EmptySet
    <3>2. AddsUp([s \in D(0) |-> 0], F, D(0))
      BY <3>1 DEF AddsUp
    <3>. QED
      BY <3>2, <2>2
  <2>3. CASE m # 0
    <3>1. m - 1 \in Nat /\ m - 1 \notin Bad
      BY <2>1, <2>3
    <3>2. PICK g : AddsUp(g, F, D(m - 1))
      BY <3>1
    <3>. DEFINE h == [s \in D(m) |-> IF s = {} THEN 0
                         ELSE F[CHOOSE t \in s : TRUE] + g[s \ {CHOOSE t \in s : TRUE}]]
    <3>3. \A s \in D(m) : s # {} => s \ {CHOOSE t \in s : TRUE} \in D(m - 1)
      BY <1>1, <1>2, <3>1
    <3>4. D(m - 1) \subseteq D(m)
      BY <1>1, <3>1
    <3>5. \A s \in D(m - 1) : h[s] = g[s]
      BY <3>2, <3>4 DEF AddsUp
    <3>6. \A s \in D(m) : s # {} => h[s \ {CHOOSE t \in s : TRUE}] = g[s \ {CHOOSE t \in s : TRUE}]
      BY <3>3, <3>5
    <3>7. h = [s \in D(m) |-> IF s = {} THEN 0
                   ELSE F[CHOOSE t \in s : TRUE] + h[s \ {CHOOSE t \in s : TRUE}]]
      <4>1. \A s \in D(m) : h[s] = IF s = {} THEN 0
                   ELSE F[CHOOSE t \in s : TRUE] + g[s \ {CHOOSE t \in s : TRUE}]
        OBVIOUS
      <4>2. h = [s \in D(m) |-> h[s]]
        OBVIOUS
      <4>. HIDE DEF h, D
      <4>3. \A s \in D(m) : h[s] = IF s = {} THEN 0
                   ELSE F[CHOOSE t \in s : TRUE] + h[s \ {CHOOSE t \in s : TRUE}]
        BY <3>6, <4>1, Zenon
      <4>. QED
        BY <4>2, <4>3, Zenon
    <3>. HIDE DEF h, D
    <3>8. AddsUp(h, F, D(m))
      BY <3>7, Zenon DEF AddsUp
    <3>. QED
      BY <3>8 DEF D
  <2>. QED
    BY <2>2, <2>3
<1>4. D(Cardinality(S)) = SUBSET S /\ Cardinality(S) \in Nat
    BY <1>1, FS_CardinalityType
<1>. QED
    BY <1>3, <1>4

\* The total of a set of tracks is such a sum.
LEMMA TotalAddsUp ==
    ASSUME NEW S, IsFiniteSet(S), NEW F
    PROVE  \E g : AddsUp(g, F, SUBSET S) /\ Total(F, S) = g[S]
<1>. DEFINE iter == CHOOSE g : AddsUp(g, F, SUBSET S)
<1>1. AddsUp(iter, F, SUBSET S)
    BY SumExists, Zenon
<1>2. Total(F, S) = iter[S]
    BY DEF Total, MapThenSumSet, MapThenFoldSet, AddsUp
<1>. QED
    BY <1>1, <1>2, Zenon

\* A set without one of its members.
LEMMA OneLess ==
    ASSUME NEW T, IsFiniteSet(T), NEW e \in T
    PROVE  Cardinality(T \ {e}) = Cardinality(T) - 1
BY FS_RemoveElement

\* What is added of numbers is a number, of integers an integer.
LEMMA TotalTyped ==
    ASSUME NEW S, IsFiniteSet(S), NEW F, \A t \in S : F[t] \in Int
    PROVE  /\ Total(F, S) \in Int
           /\ (\A t \in S : F[t] \in Nat) => Total(F, S) \in Nat
<1>1. PICK g : AddsUp(g, F, SUBSET S) /\ Total(F, S) = g[S]
    BY TotalAddsUp
<1>. DEFINE Holds(s) == g[s] \in Int /\ ((\A t \in S : F[t] \in Nat) => g[s] \in Nat)
            Bad == {n \in Nat : \E s \in SUBSET S : Cardinality(s) = n /\ ~Holds(s)}
<1>2. \A s \in SUBSET S : IsFiniteSet(s) /\ Cardinality(s) \in Nat
    BY FS_Subset, FS_CardinalityType
<1>3. Bad = {}
  <2>. SUFFICES ASSUME Bad # {} PROVE FALSE
    OBVIOUS
  <2>1. PICK m \in Bad : \A n \in Bad : m <= n
    <3>1. Bad \in SUBSET Nat
      OBVIOUS
    <3>. QED
      BY <3>1, LeastNumber
  <2>2. PICK s \in SUBSET S : Cardinality(s) = m /\ ~Holds(s)
    BY <2>1
  <2>3. CASE s = {}
    <3>1. g[s] = 0
      BY <1>1, <2>3 DEF AddsUp
    <3>. QED
      BY <2>2, <3>1
  <2>4. CASE s # {}
    <3>. DEFINE x == CHOOSE t \in s : TRUE
                r == s \ {x}
    <3>1. x \in s /\ r \in SUBSET S
      BY <2>4
    <3>2. Cardinality(r) = m - 1 /\ m - 1 \in Nat
      <4>1. IsFiniteSet(s) /\ Cardinality(s) = m /\ m \in Nat /\ m # 0
        BY <1>2, <2>2, <2>4, FS_EmptySet
      <4>. HIDE DEF x
      <4>2. Cardinality(s \ {x}) = Cardinality(s) - 1
        BY <3>1, <4>1, OneLess
      <4>. QED
        BY <4>1, <4>2
    <3>3. m - 1 \notin Bad
      BY <2>1, <3>2
    <3>4. Holds(r)
      BY <3>1, <3>2, <3>3
    <3>5. g[s] = F[x] + g[r]
      BY <1>1, <2>4, Zenon DEF AddsUp
    <3>6. F[x] \in Int /\ x \in S
      BY <3>1
    <3>. HIDE DEF x, r
    <3>. QED
      BY <2>2, <3>4, <3>5, <3>6
  <2>. QED
    BY <2>3, <2>4
<1>4. Holds(S)
    BY <1>2, <1>3
<1>. QED
    BY <1>1, <1>4

\* A function over the first numbers is a list.
LEMMA ListOf ==
    ASSUME NEW n \in Nat, NEW S, NEW f \in [1..n -> S]
    PROVE  f \in Seq(S) /\ Len(f) = n /\ DOMAIN f = 1..n
<1>. QED
    OBVIOUS

-----------------------------------------------------------------------------
(* Matching: distances are integers.                                        *)

LEMMA ClampTyped == \A d \in Int : Clamp(d) \in 0..1000 /\ Clamp(d) \in Nat
<1>. QED
    BY DEF Clamp

\* The weighted mean of some distances is a number.
LEMMA WeightedTyped ==
    ASSUME NEW distances, NEW weights, IsFiniteSet(DOMAIN distances),
           \A f \in DOMAIN distances : distances[f] \in Int /\ weights[f] \in Nat
    PROVE  Weighted(distances, weights) \in Int
<1>. DEFINE used  == {f \in DOMAIN distances : weights[f] > 0}
            F     == [f \in used |-> weights[f] * distances[f]]
            total == Total(weights, used)
<1>1. IsFiniteSet(used)
    BY FS_Subset
<1>2. total \in Nat
    BY <1>1, TotalTyped
<1>3. Total(F, used) \in Int
  <2>1. \A f \in used : F[f] \in Int
    OBVIOUS
  <2>. HIDE DEF F, used
  <2>. QED
    BY <1>1, <2>1, TotalTyped
<1>4. Weighted(distances, weights) = IF total = 0 THEN 1000 ELSE Total(F, used) \div total
    BY DEF Weighted
<1>. HIDE DEF used, F, total
<1>. QED
    BY <1>2, <1>3, <1>4

\* The weights of the tracks, configured or not.
IsWeights(weights) == \A f \in {"title", "length", "index"} : weights[f] \in Nat

\* Both tables of weights give every field a weight.
LEMMA WeightsTyped == IsWeights(TrackWeights) /\ IsWeights(DefaultTrackWeights)
<1>1. DOMAIN DefaultTrackWeights = {"title", "length", "index"}
    BY DEF DefaultTrackWeights
<1>2. IsWeights(TrackWeights)
    BY <1>1, MatchingConstantsAssumption DEF IsWeights
<1>3. IsWeights(DefaultTrackWeights)
    BY DEF IsWeights, DefaultTrackWeights
<1>. QED
    BY <1>2, <1>3

\* So the distance of a file and a track is a number.
LEMMA PairDistanceTyped ==
    ASSUME NEW file, NEW track, NEW weights, IsWeights(weights)
    PROVE  PairDistance(file, track, weights) \in Int
<1>. DEFINE known == {f \in Fields : BothKnown(file[f], track[f])}
            d == [f \in known \union {"index"} |->
                     IF f = "index" THEN 0 ELSE Difference(file[f], track[f])]
<1>1. known \union {"index"} \in SUBSET {"title", "length", "index"}
    BY DEF Fields
<1>2. IsFiniteSet({"title", "length", "index"})
  <2>1. IsFiniteSet({"title"} \cup {"length"})
    BY FS_Singleton, FS_AddElement
  <2>2. IsFiniteSet(({"title"} \cup {"length"}) \cup {"index"})
    BY <2>1, FS_AddElement
  <2>3. {"title", "length", "index"} = ({"title"} \cup {"length"}) \cup {"index"}
    OBVIOUS
  <2>. QED
    BY <2>2, <2>3
<1>3. IsFiniteSet(DOMAIN d)
    BY <1>1, <1>2, FS_Subset
<1>4. \A f \in DOMAIN d : d[f] \in Int /\ weights[f] \in Nat
    BY <1>1 DEF IsWeights, Difference
<1>5. PairDistance(file, track, weights) = Weighted(d, weights)
    BY DEF PairDistance
<1>. HIDE DEF d
<1>. QED
    BY <1>3, <1>4, <1>5, WeightedTyped

\* The cost of a pairing is not negative: it is cut off at the penalty.
LEMMA CostTyped ==
    ASSUME NEW files, IsSequence(files), NEW tracks, IsSequence(tracks),
           NEW weights, IsWeights(weights), NEW i \in 1..Len(files), NEW j \in Int
    PROVE  Cost(files, tracks, weights, i, j) \in Nat
<1>. DEFINE d == PairDistance(files[i], tracks[j], weights)
            n == Len(files)
            m == Len(tracks)
<1>1. d \in Int
    BY PairDistanceTyped
<1>2. n \in Nat /\ m \in Nat /\ i \in 1..n
    BY DEF IsSequence
<1>3. Cost(files, tracks, weights, i, j) = Clamp(d + (Sequential * Abs(i - j)) \div Larger(n, m))
    BY DEF Cost
<1>. HIDE DEF d, n, m
<1>4. Larger(n, m) \in Nat \ {0} /\ Abs(i - j) \in Int
    BY <1>2 DEF Larger, Abs
<1>5. d + (Sequential * Abs(i - j)) \div Larger(n, m) \in Int
    BY <1>1, <1>4 DEF Sequential
<1>. QED
    BY <1>3, <1>5, ClampTyped

\* There is a pairing of any number of files with any number of tracks, and one costs least.
LEMMA PairingExists ==
    ASSUME NEW n \in Nat, NEW m \in Nat
    PROVE  \E a : a \in Pairings(n, m)
<1>. DEFINE least == IF n < m THEN n ELSE m
            a == [i \in 1..n |-> IF i <= m THEN i ELSE 0]
<1>1. a \in [1..n -> 0..m]
    OBVIOUS
<1>2. \A i, j \in 1..n : i # j /\ a[i] # 0 => a[i] # a[j]
    OBVIOUS
<1>3. {i \in 1..n : a[i] # 0} = 1..least
    OBVIOUS
<1>4. least \in Nat
    OBVIOUS
<1>. HIDE DEF a
<1>5. Cardinality(1..least) = least
  <2>. HIDE DEF least
  <2>1. 1 \in Int /\ least \in Int
    BY <1>4
  <2>. QED
    BY <1>4, <2>1, FS_Interval
<1>6. a \in Pairings(n, m)
    BY <1>1, <1>2, <1>3, <1>5 DEF Pairings
<1>. QED
    BY <1>6

\* The cheapest alignment pairs a file with a track of the candidate or with none.
LEMMA AlignedTyped ==
    ASSUME NEW files, IsSequence(files), NEW tracks, IsSequence(tracks), NEW weights,
           IsWeights(weights)
    PROVE  Aligned(files, tracks, weights) \in [1..Len(files) -> 0..Len(tracks)]
<1>. DEFINE n == Len(files)
            m == Len(tracks)
            all == Pairings(n, m)
            price(a) == Price(files, tracks, weights, a)
            prices == {price(a) : a \in all}
<1>1. n \in Nat /\ m \in Nat
    BY DEF IsSequence
<1>2. ASSUME NEW a \in all PROVE price(a) \in Nat
  <2>. DEFINE F == [i \in DOMAIN a |-> IF a[i] = 0 THEN Missing
                                       ELSE Cost(files, tracks, weights, i, a[i])]
  <2>1. DOMAIN a = 1..n /\ \A i \in 1..n : a[i] \in Int
    BY <1>1 DEF Pairings
  <2>2. \A i \in DOMAIN a : F[i] \in Nat
    BY <2>1, CostTyped DEF Missing
  <2>3. IsFiniteSet(DOMAIN a)
    <3>1. 1 \in Int /\ n \in Int
      BY <1>1
    <3>. QED
      BY <2>1, <3>1, FS_Interval
  <2>4. price(a) = Total(F, DOMAIN a)
    BY DEF Price
  <2>. HIDE DEF F, price
  <2>5. \A i \in DOMAIN a : F[i] \in Int
    BY <2>2
  <2>. QED
    BY <2>2, <2>3, <2>4, <2>5, TotalTyped
<1>3. \E a : a \in all
    BY <1>1, PairingExists
<1>4. Min(prices) \in prices
  <2>1. prices \in SUBSET Nat /\ prices # {}
    BY <1>2, <1>3
  <2>. HIDE DEF prices
  <2>. QED
    BY <2>1, LeastOf
<1>5. \E a \in all : price(a) = Min(prices)
    BY <1>4
<1>6. Aligned(files, tracks, weights) \in all
  <2>1. Aligned(files, tracks, weights) = CHOOSE a \in all : price(a) = Min(prices)
    BY DEF Aligned
  <2>. HIDE DEF all, price, prices
  <2>. QED
    BY <1>5, <2>1
<1>. QED
    BY <1>6 DEF Pairings

\* The fields that are compared are finitely many.
LEMMA SmallSetsAreFinite ==
    /\ IsFiniteSet({"album", "year", "barcode", "tracks", "missing", "unmatched"})
    /\ IsFiniteSet({"title", "length", "isrc"})
<1>1. IsFiniteSet({"album", "year"}) /\ IsFiniteSet({"title", "length"})
  <2>1. /\ {"album", "year"} = {"album"} \cup {"year"}
        /\ {"title", "length"} = {"title"} \cup {"length"}
    OBVIOUS
  <2>2. IsFiniteSet({"album"} \cup {"year"}) /\ IsFiniteSet({"title"} \cup {"length"})
    BY FS_Singleton, FS_AddElement
  <2>. QED
    BY <2>1, <2>2
<1>2. IsFiniteSet({"album", "year", "barcode"}) /\ IsFiniteSet({"title", "length", "isrc"})
  <2>1. /\ {"album", "year", "barcode"} = {"album", "year"} \cup {"barcode"}
        /\ {"title", "length", "isrc"} = {"title", "length"} \cup {"isrc"}
    OBVIOUS
  <2>. QED
    BY <1>1, <2>1, FS_AddElement
<1>3. IsFiniteSet({"album", "year", "barcode", "tracks"})
  <2>1. {"album", "year", "barcode", "tracks"} = {"album", "year", "barcode"} \cup {"tracks"}
    OBVIOUS
  <2>. QED
    BY <1>2, <2>1, FS_AddElement
<1>4. IsFiniteSet({"album", "year", "barcode", "tracks", "missing"})
  <2>1. {"album", "year", "barcode", "tracks", "missing"}
            = {"album", "year", "barcode", "tracks"} \cup {"missing"}
    OBVIOUS
  <2>. QED
    BY <1>3, <2>1, FS_AddElement
<1>5. IsFiniteSet({"album", "year", "barcode", "tracks", "missing", "unmatched"})
  <2>1. {"album", "year", "barcode", "tracks", "missing", "unmatched"}
            = {"album", "year", "barcode", "tracks", "missing"} \cup {"unmatched"}
    OBVIOUS
  <2>. QED
    BY <1>4, <2>1, FS_AddElement
<1>. QED
    BY <1>2, <1>5

\* A local album or track with its files and candidates.
IsAsked(a) ==
    /\ IsSequence(a.files) /\ IsSequence(a.candidates)
    /\ \A i \in DOMAIN a.candidates : IsSequence(a.candidates[i].tracks) /\ HasYear(a.candidates[i])

\* So the distance of a candidate to an album is a number.
LEMMA AlbumScoreTyped ==
    ASSUME NEW local, IsAsked(local), HasYear(local), NEW i \in DOMAIN local.candidates
    PROVE  AlbumScore(local, local.candidates[i]).distance \in Int
<1>. DEFINE c == local.candidates[i]
            a == Aligned(local.files, c.tracks, TrackWeights)
            n == Len(local.files)
            m == Len(c.tracks)
            matched == {k \in 1..n : a[k] # 0}
            cost    == [k \in matched |-> Cost(local.files, c.tracks, TrackWeights, k, a[k])]
            known   == {f \in {"album", "year", "barcode"} : BothKnown(local[f], c[f])}
            field(f) == CASE f = "year" -> YearDistance(local.year, c.year)
                          [] f = "tracks" -> IF matched = {} THEN 1000
                                             ELSE Total(cost, matched) \div Cardinality(matched)
                          [] f = "missing" -> (1000 * (m - Cardinality(matched))) \div Larger(m, 1)
                          [] f = "unmatched" ->
                                 (1000 * (n - Cardinality(matched))) \div Larger(n, 1)
                          [] OTHER -> Difference(local[f], c[f])
            fields == known \union {"tracks", "missing", "unmatched"}
            distances == [f \in fields |-> field(f)]
<1>1. IsSequence(local.files) /\ IsSequence(c.tracks) /\ HasYear(c)
    BY DEF IsAsked
<1>2. AlbumScore(local, c).distance = Weighted(distances, AlbumWeights)
    BY DEF AlbumScore
<1>3. n \in Nat /\ m \in Nat
    BY <1>1 DEF IsSequence
<1>4. a \in [1..n -> 0..m]
    BY <1>1, WeightsTyped, AlignedTyped
<1>5. known \in SUBSET {"album", "year", "barcode"}
    OBVIOUS
<1>6. "year" \in known => local.year \in Int /\ c.year \in Int
    BY <1>1 DEF BothKnown, HasYear
<1>. HIDE DEF a, n, m, c
<1>7. IsFiniteSet(matched) /\ Cardinality(matched) \in Nat
  <2>1. IsFiniteSet(1..n)
    <3>1. 1 \in Int /\ n \in Int
      BY <1>3
    <3>. QED
      BY <3>1, FS_Interval
  <2>. QED
    BY <2>1, FS_Subset, FS_CardinalityType
<1>8. \A k \in matched : cost[k] \in Int
  <2>1. \A k \in matched : k \in 1..n /\ a[k] \in Int
    BY <1>3, <1>4
  <2>. QED
    BY <1>1, <2>1, WeightsTyped, CostTyped DEF n, c
<1>. HIDE DEF cost, known
<1>9. Total(cost, matched) \in Int
    BY <1>7, <1>8, TotalTyped
<1>10. matched # {} => Cardinality(matched) # 0
    BY <1>7, FS_EmptySet
<1>. HIDE DEF matched
<1>11. Larger(m, 1) \in Nat \ {0} /\ Larger(n, 1) \in Nat \ {0}
    BY <1>3 DEF Larger
<1>12. field("tracks") \in Int
    BY <1>7, <1>9, <1>10
<1>13. field("missing") \in Int /\ field("unmatched") \in Int
    BY <1>3, <1>7, <1>11
<1>14. "year" \in known => field("year") \in Int
    BY <1>6 DEF YearDistance, Clamp, Abs
<1>15. field("album") \in Int /\ field("barcode") \in Int
    BY DEF Difference
<1>16. \A f \in fields : distances[f] = field(f)
    OBVIOUS
<1>. HIDE DEF field
<1>17. \A f \in fields : distances[f] \in Int
    BY <1>5, <1>12, <1>13, <1>14, <1>15, <1>16
<1>18. fields \in SUBSET {"album", "year", "barcode", "tracks", "missing", "unmatched"}
    BY <1>5
<1>19. \A f \in fields : AlbumWeights[f] \in Nat
    BY <1>18 DEF AlbumWeights
<1>20. DOMAIN distances = fields /\ IsFiniteSet(fields)
    BY <1>18, SmallSetsAreFinite, FS_Subset
<1>. HIDE DEF distances, fields
<1>. QED
    BY <1>2, <1>17, <1>19, <1>20, WeightedTyped DEF c

\* So the distance of a candidate to a single track is a number.
LEMMA SingletonScoreTyped ==
    ASSUME NEW local, NEW c
    PROVE  SingletonScore(local, c).distance \in Int
<1>. DEFINE file  == Evidence(local.files[1])
            best  == Nearest(file, c.tracks, TrackWeights)
            track == IF best = 0 THEN [title |-> c.album, length |-> Unknown, isrc |-> Unknown]
                     ELSE c.tracks[best]
            known == {f \in Fields \union {"isrc"} : BothKnown(file[f], track[f])}
            field == [f \in known |-> Difference(file[f], track[f])]
<1>1. SingletonScore(local, c).distance = Weighted(field, SingletonWeights)
    BY DEF SingletonScore
<1>. HIDE DEF file, track
<1>2. known \in SUBSET {"title", "length", "isrc"}
    BY DEF Fields
<1>3. \A f \in known : field[f] \in Int /\ SingletonWeights[f] \in Nat
    BY <1>2 DEF Difference, SingletonWeights
<1>4. DOMAIN field = known /\ IsFiniteSet(known)
    BY <1>2, SmallSetsAreFinite, FS_Subset
<1>. HIDE DEF field, known
<1>. QED
    BY <1>1, <1>3, <1>4, WeightedTyped

-----------------------------------------------------------------------------
(* Matching: the order of the rows.                                         *)

\* Keys of two or of three integers.
IsKeys(K) == K = Int \X Int \/ K = Int \X Int \X Int

\* Both kinds of sort key are in a strict total order.
LEMMA LessIsOrder ==
    ASSUME NEW K, IsKeys(K)
    PROVE  /\ \A k \in K : ~Less(k, k)
           /\ \A k, l \in K : k # l => Less(k, l) \/ Less(l, k)
           /\ \A k, l, m \in K : Less(k, l) /\ Less(l, m) => Less(k, m)
           /\ \A k, l \in K : Less(k, l) => k[1] < l[1] \/ (k[1] = l[1] /\ k[2] <= l[2])
<1>1. CASE K = Int \X Int
  <2>1. ASSUME NEW k \in K, NEW l \in K
        PROVE  Less(k, l) <=> k[1] < l[1] \/ (k[1] = l[1] /\ k[2] < l[2])
    <3>1. DOMAIN k = {1, 2}
      BY <1>1
    <3>2. 1..1 - 1 = {} /\ 1..2 - 1 = {1}
      OBVIOUS
    <3>3. Less(k, l) <=> \E p \in {1, 2} : k[p] < l[p] /\ \A q \in 1..p - 1 : k[q] = l[q]
      BY <3>1 DEF Less
    <3>. QED
      BY <3>2, <3>3
  <2>2. \A k \in K : k[1] \in Int /\ k[2] \in Int
    BY <1>1
  <2>3. \A k, l \in K : k # l => k[1] # l[1] \/ k[2] # l[2]
    BY <1>1
  <2>4. \A k \in K : ~Less(k, k)
    BY <2>1, <2>2
  <2>5. \A k, l \in K : k # l => Less(k, l) \/ Less(l, k)
    BY <2>1, <2>2, <2>3
  <2>6. \A k, l, m \in K : Less(k, l) /\ Less(l, m) => Less(k, m)
    BY <2>1, <2>2
  <2>7. \A k, l \in K : Less(k, l) => k[1] < l[1] \/ (k[1] = l[1] /\ k[2] <= l[2])
    BY <2>1, <2>2
  <2>. QED
    BY <2>4, <2>5, <2>6, <2>7
<1>2. CASE K = Int \X Int \X Int
  <2>1. ASSUME NEW k \in K, NEW l \in K
        PROVE  Less(k, l) <=> \/ k[1] < l[1]
                              \/ k[1] = l[1] /\ k[2] < l[2]
                              \/ k[1] = l[1] /\ k[2] = l[2] /\ k[3] < l[3]
    <3>1. DOMAIN k = {1, 2, 3}
      BY <1>2
    <3>2. 1..1 - 1 = {} /\ 1..2 - 1 = {1} /\ 1..3 - 1 = {1, 2}
      OBVIOUS
    <3>3. Less(k, l) <=> \E p \in {1, 2, 3} : k[p] < l[p] /\ \A q \in 1..p - 1 : k[q] = l[q]
      BY <3>1 DEF Less
    <3>. QED
      BY <3>2, <3>3
  <2>2. \A k \in K : k[1] \in Int /\ k[2] \in Int /\ k[3] \in Int
    BY <1>2
  <2>3. \A k, l \in K : k # l => k[1] # l[1] \/ k[2] # l[2] \/ k[3] # l[3]
    BY <1>2
  <2>4. \A k \in K : ~Less(k, k)
    BY <2>1, <2>2
  <2>5. \A k, l \in K : k # l => Less(k, l) \/ Less(l, k)
    BY <2>1, <2>2, <2>3
  <2>6. \A k, l, m \in K : Less(k, l) /\ Less(l, m) => Less(k, m)
    BY <2>1, <2>2
  <2>7. \A k, l \in K : Less(k, l) => k[1] < l[1] \/ (k[1] = l[1] /\ k[2] <= l[2])
    BY <2>1, <2>2
  <2>. QED
    BY <2>4, <2>5, <2>6, <2>7
<1>. QED
    BY <1>1, <1>2 DEF IsKeys

\* A sort by such a key is a permutation in which no key is before the one that precedes it.
LEMMA SortedFacts ==
    ASSUME NEW n \in Nat, NEW K, IsKeys(K), NEW key \in [1..n -> K]
    PROVE  /\ Sorted(n, key) \in [1..n -> 1..n]
           /\ \A i \in 1..n : \E p \in 1..n : Sorted(n, key)[p] = i
           /\ \A p, q \in 1..n : p < q => ~Less(key[Sorted(n, key)[q]], key[Sorted(n, key)[p]])
<1>. DEFINE S == 1..n
            R == {p \in S \X S : \/ Less(key[p[1]], key[p[2]])
                                 \/ key[p[1]] = key[p[2]] /\ p[1] < p[2]}
            order == Arrange(S, R)
<1>1. Sorted(n, key) = order
    BY DEF Sorted
<1>2. IsFiniteSet(S) /\ Cardinality(S) = n
  <2>1. 1 \in Int /\ n \in Int
    OBVIOUS
  <2>. QED
    BY <2>1, FS_Interval
<1>3. \A i, j \in S : <<i, j>> \in R <=> Less(key[i], key[j]) \/ (key[i] = key[j] /\ i < j)
    OBVIOUS
<1>4. \A i \in S : key[i] \in K /\ i \in Int
    OBVIOUS
<1>. HIDE DEF R
<1>5. Orders(R, S)
  <2>1. \A x \in S : <<x, x>> \notin R
    BY <1>3, <1>4, LessIsOrder
  <2>2. \A x, y \in S : x # y => <<x, y>> \in R \/ <<y, x>> \in R
    BY <1>3, <1>4, LessIsOrder
  <2>3. ASSUME NEW x \in S, NEW y \in S, NEW z \in S, <<x, y>> \in R, <<y, z>> \in R
        PROVE  <<x, z>> \in R
    <3>1. Less(key[x], key[y]) \/ (key[x] = key[y] /\ x < y)
      BY <1>3, <2>3
    <3>2. Less(key[y], key[z]) \/ (key[y] = key[z] /\ y < z)
      BY <1>3, <2>3
    <3>3. Less(key[x], key[z]) \/ (key[x] = key[z] /\ x < z)
      <4>1. Less(key[x], key[y]) /\ Less(key[y], key[z]) => Less(key[x], key[z])
        BY <1>4, LessIsOrder
      <4>2. x \in Int /\ y \in Int /\ z \in Int
        OBVIOUS
      <4>. QED
        BY <3>1, <3>2, <4>1, <4>2
    <3>. QED
      BY <1>3, <3>3
  <2>. QED
    BY <2>1, <2>2, <2>3 DEF Orders
<1>6. /\ order \in [1..n -> S]
      /\ \A x \in S : \E k \in 1..n : order[k] = x
      /\ \A k, l \in 1..n : k < l <=> <<order[k], order[l]>> \in R
  <2>. HIDE DEF S
  <2>1. /\ order \in [1..Cardinality(S) -> S]
        /\ \A x \in S : \E k \in 1..Cardinality(S) : order[k] = x
        /\ \A k, l \in 1..Cardinality(S) : k < l <=> <<order[k], order[l]>> \in R
    BY <1>2, <1>5, ArrangeFacts
  <2>. HIDE DEF order
  <2>. QED
    BY <1>2, <2>1
<1>. HIDE DEF order
<1>7. ASSUME NEW p \in 1..n, NEW q \in 1..n, p < q PROVE ~Less(key[order[q]], key[order[p]])
  <2>1. order[p] \in S /\ order[q] \in S
    BY <1>6
  <2>2. <<order[p], order[q]>> \in R /\ <<order[q], order[p]>> \notin R
    BY <1>6, <1>7
  <2>. QED
    BY <1>3, <2>1, <2>2
<1>. QED
    BY <1>1, <1>6, <1>7

\* What the rows are made of.
RankedRows(n) == [of : 1..n, quality : Nat, taste : Int, dups : SUBSET (1..n), rejected : BOOLEAN]

\* A list of rows, the near ones first and those that are not near by their quality.
NearFirst(s) ==
    \E best \in Int :
        /\ \A p \in DOMAIN s : best <= s[p].quality
        /\ \A p, q \in DOMAIN s :
               p < q => s[p].quality <= best + Gap \/ s[p].quality <= s[q].quality

\* Rows put into another order have what they had, and name duplicates by new place.
LEMMA ReorderedTyped ==
    ASSUME NEW n \in Nat, NEW s \in [1..n -> RankedRows(n)], NEW order \in [1..n -> 1..n],
           \A i \in 1..n : \E p \in 1..n : order[p] = i
    PROVE  /\ Reordered(s, order) \in [1..n -> RankedRows(n)]
           /\ \A p \in 1..n : Reordered(s, order)[p].quality = s[order[p]].quality
<1>1. \A j \in 1..n : Place(order, j) \in 1..n
  <2>1. DOMAIN order = 1..n
    OBVIOUS
  <2>. QED
    BY <2>1 DEF Place
<1>2. ASSUME NEW p \in 1..n
      PROVE  /\ Reordered(s, order)[p] \in RankedRows(n)
             /\ Reordered(s, order)[p].quality = s[order[p]].quality
  <2>. DEFINE r == s[order[p]]
              d == {Place(order, j) : j \in r.dups}
  <2>1. r \in RankedRows(n)
    OBVIOUS
  <2>2. Reordered(s, order)[p] = [r EXCEPT !.dups = d]
    BY DEF Reordered
  <2>3. r.dups \in SUBSET (1..n)
    BY <2>1 DEF RankedRows
  <2>4. d \in SUBSET (1..n)
    BY <1>1, <2>3
  <2>5. r = s[order[p]]
    OBVIOUS
  <2>. HIDE DEF r, d
  <2>6. [r EXCEPT !.dups = d].quality = r.quality
    BY <2>1 DEF RankedRows
  <2>7. [r EXCEPT !.dups = d] \in RankedRows(n)
    BY <2>1, <2>4 DEF RankedRows
  <2>. QED
    BY <2>2, <2>5, <2>6, <2>7
<1>3. Reordered(s, order) = [p \in 1..n |-> Reordered(s, order)[p]]
    BY DEF Reordered
<1>. QED
    BY <1>2, <1>3

\* A key that has the near rows first, and the others by their quality.
KeyedByNearness(n, s, key, best) ==
    /\ \A i \in 1..n : best <= s[i].quality
    /\ \A i \in 1..n : s[i].quality - best <= Gap => key[i][1] = 0
    /\ \A i \in 1..n : s[i].quality - best > Gap => key[i][1] = 1 /\ key[i][2] = s[i].quality

\* The quality of a ranked row is a number.
LEMMA QualityTyped ==
    ASSUME NEW n \in Nat, NEW s \in [1..n -> RankedRows(n)]
    PROVE  \A i \in 1..n : s[i].quality \in Nat /\ s[i].quality \in Int
<1>1. \A i \in 1..n : s[i].quality \in Nat
    BY DEF RankedRows
<1>. QED
    BY <1>1

\* The gap and the penalty are numbers.
LEMMA GapTyped == Gap \in Nat /\ Penalty \in Nat
<1>1. Gap \in 0..1000 /\ Penalty \in 0..1000
    BY MatchingConstantsAssumption
<1>. QED
    BY <1>1

\* Rows sorted by a key that has the near ones first, and the others by their quality.
LEMMA SortedIsNearFirst ==
    ASSUME NEW n \in Nat, NEW s \in [1..n -> RankedRows(n)], NEW K, IsKeys(K),
           NEW key \in [1..n -> K], NEW best \in Int, KeyedByNearness(n, s, key, best)
    PROVE  /\ Reordered(s, Sorted(n, key)) \in [1..n -> RankedRows(n)]
           /\ NearFirst(Reordered(s, Sorted(n, key)))
<1>. DEFINE order == Sorted(n, key)
            t == Reordered(s, order)
<1>1. /\ order \in [1..n -> 1..n]
      /\ \A i \in 1..n : \E p \in 1..n : order[p] = i
      /\ \A p, q \in 1..n : p < q => ~Less(key[order[q]], key[order[p]])
    BY SortedFacts
<1>. HIDE DEF order
<1>2. t \in [1..n -> RankedRows(n)] /\ \A p \in 1..n : t[p].quality = s[order[p]].quality
    BY <1>1, ReorderedTyped
<1>3. \A i \in 1..n : s[i].quality \in Int
    BY QualityTyped
<1>4. Gap \in Int
    BY GapTyped
<1>. HIDE DEF t
<1>5. ASSUME NEW p \in 1..n, NEW q \in 1..n, p < q
      PROVE  t[p].quality <= best + Gap \/ t[p].quality <= t[q].quality
  <2>. DEFINE i == order[p]
              j == order[q]
  <2>1. i \in 1..n /\ j \in 1..n /\ ~Less(key[j], key[i])
    BY <1>1, <1>5
  <2>2. t[p].quality = s[i].quality /\ t[q].quality = s[j].quality
    BY <1>2
  <2>. HIDE DEF i, j
  <2>3. key[i] \in K /\ key[j] \in K
    BY <2>1
  <2>4. \/ key[i] = key[j]
        \/ key[i][1] < key[j][1]
        \/ key[i][1] = key[j][1] /\ key[i][2] <= key[j][2]
    BY <2>1, <2>3, LessIsOrder
  <2>5. s[i].quality \in Int /\ s[j].quality \in Int
    BY <1>3, <2>1
  <2>6. s[i].quality - best <= Gap \/ s[i].quality <= s[j].quality
    BY <2>1, <2>4, <2>5, <1>4 DEF KeyedByNearness
  <2>. QED
    BY <1>4, <2>2, <2>5, <2>6
<1>6. DOMAIN t = 1..n
    BY <1>2
<1>7. \A p \in DOMAIN t : best <= t[p].quality
    BY <1>1, <1>2, <1>6 DEF KeyedByNearness
<1>. QED
    BY <1>2, <1>5, <1>6, <1>7 DEF NearFirst, t, order

\* The rank of a source is a number, also of one that has no priority.
LEMMA RankTyped == ASSUME NEW source PROVE Rank(source) \in Int
<1>1. DOMAIN Priority \in SUBSET Int
    BY MatchingConstantsAssumption DEF IsSequence
<1>2. (\E p \in DOMAIN Priority : Priority[p] = source) =>
          (CHOOSE p \in DOMAIN Priority : Priority[p] = source) \in DOMAIN Priority
    OBVIOUS
<1>. QED
    BY <1>1, <1>2 DEF Rank

\* Corroboration and taste move no row out of its place among the near ones and the others.
LEMMA RankedNearFirst ==
    ASSUME NEW cands, IsSequence(cands), NEW score,
           \A i \in 1..Len(cands) : score[i].distance \in Int
    PROVE  /\ RankCandidates(cands, score) \in [1..Len(cands) -> RankedRows(Len(cands))]
           /\ NearFirst(RankCandidates(cands, score))
<1>. DEFINE n == Len(cands)
            dups(i)  == {j \in 1..n : j # i /\ Duplicate(cands[i], cands[j])}
            sources(i) == {cands[j].source : j \in dups(i)}
            quality  == [i \in 1..n |-> Clamp(score[i].distance - Bonus * Cardinality(sources(i)))]
            zone     == IF n = 0 THEN {} ELSE Zone(quality, Min({quality[i] : i \in 1..n}))
            taste(i) == IF i \in zone THEN Penalty * Rank(cands[i].source) ELSE 0
            row(i)   == [of |-> i, quality |-> quality[i], taste |-> taste(i), dups |-> dups(i),
                         rejected |-> ~score[i].related \/ quality[i] >= Reject]
            key      == [i \in 1..n |-> IF i \in zone THEN <<0, Clamp(quality[i] + taste(i))>>
                                        ELSE <<1, quality[i]>>]
            s        == [i \in 1..n |-> row(i)]
            best     == IF n = 0 THEN 0 ELSE Min({quality[i] : i \in 1..n})
<1>1. RankCandidates(cands, score) = Reordered(s, Sorted(n, key))
    BY DEF RankCandidates
<1>2. n \in Nat
    BY DEF IsSequence
<1>. HIDE DEF n
<1>3. \A i \in 1..n : dups(i) \in SUBSET (1..n)
    OBVIOUS
<1>4. ASSUME NEW i \in 1..n PROVE Cardinality(sources(i)) \in Int
  <2>1. IsFiniteSet(1..n)
    <3>1. 1 \in Int /\ n \in Int
      BY <1>2
    <3>. QED
      BY <3>1, FS_Interval
  <2>2. IsFiniteSet(dups(i))
    BY <1>3, <2>1, FS_Subset
  <2>. HIDE DEF dups
  <2>3. IsFiniteSet(sources(i))
    <3>. DEFINE f == [j \in dups(i) |-> cands[j].source]
    <3>1. f \in Surjection(dups(i), sources(i))
      BY DEF Surjection
    <3>. HIDE DEF f
    <3>. QED
      BY <2>2, <3>1, FS_Surjection
  <2>. HIDE DEF sources
  <2>4. Cardinality(sources(i)) \in Nat
    BY <2>3, FS_CardinalityType
  <2>. QED
    BY <2>4
<1>. HIDE DEF sources
<1>5. \A i \in 1..n : quality[i] \in Nat
  <2>1. ASSUME NEW i \in 1..n PROVE quality[i] \in Nat
    <3>. DEFINE raw == score[i].distance - Bonus * Cardinality(sources(i))
    <3>1. raw \in Int
      <4>1. score[i].distance \in Int
        BY DEF n
      <4>. QED
        BY <1>4, <4>1 DEF Bonus
    <3>2. quality[i] = Clamp(raw)
      OBVIOUS
    <3>. HIDE DEF quality, raw
    <3>. QED
      BY <3>1, <3>2, ClampTyped
  <2>. QED
    BY <2>1
<1>6. DOMAIN quality = 1..n
    OBVIOUS
<1>. HIDE DEF quality, dups
<1>7. best \in Int /\ \A i \in 1..n : best <= quality[i]
  <2>. DEFINE Q == {quality[i] : i \in 1..n}
  <2>1. n # 0 => Q # {} /\ Q \in SUBSET Nat
    BY <1>2, <1>5
  <2>2. n # 0 => Min(Q) \in Q /\ \A m \in Q : Min(Q) <= m
    <3>. HIDE DEF Q
    <3>. QED
      BY <2>1, LeastOf
  <2>3. \A i \in 1..n : quality[i] \in Q /\ n # 0
    BY <1>2
  <2>. HIDE DEF Q
  <2>4. best = IF n = 0 THEN 0 ELSE Min(Q)
    BY DEF Q
  <2>. HIDE DEF best
  <2>. QED
    BY <2>1, <2>2, <2>3, <2>4
<1>8. \A i \in 1..n : i \in zone <=> quality[i] - best <= Gap
    BY <1>2, <1>6 DEF Zone
<1>. HIDE DEF zone, best
<1>9. \A i \in 1..n : taste(i) \in Int
  <2>1. \A i \in 1..n : Rank(cands[i].source) \in Int
    BY RankTyped
  <2>2. Penalty \in Int
    BY GapTyped
  <2>. QED
    BY <2>1, <2>2
<1>. HIDE DEF taste
<1>10. s \in [1..n -> RankedRows(n)] /\ \A i \in 1..n : s[i].quality = quality[i]
  <2>1. \A i \in 1..n : row(i) \in RankedRows(n)
    BY <1>3, <1>5, <1>9 DEF RankedRows
  <2>2. \A i \in 1..n : row(i).quality = quality[i]
    OBVIOUS
  <2>. HIDE DEF row
  <2>. QED
    BY <2>1, <2>2
<1>11. key \in [1..n -> Int \X Int]
  <2>1. \A i \in 1..n : quality[i] \in Int /\ Clamp(quality[i] + taste(i)) \in Int
    <3>1. \A i \in 1..n : quality[i] + taste(i) \in Int
      BY <1>5, <1>9
    <3>2. \A d \in Int : Clamp(d) \in Int
      BY ClampTyped
    <3>3. \A i \in 1..n : Clamp(quality[i] + taste(i)) \in Int
      BY <3>1, <3>2, Zenon
    <3>. QED
      BY <1>5, <3>3
  <2>. QED
    BY <2>1
<1>12. \A i \in 1..n : IF i \in zone THEN key[i][1] = 0 ELSE key[i][1] = 1 /\ key[i][2] = quality[i]
    OBVIOUS
<1>. HIDE DEF s, key
<1>13. KeyedByNearness(n, s, key, best)
  <2>1. \A i \in 1..n : quality[i] \in Int
    BY <1>5
  <2>2. Gap \in Int
    BY GapTyped
  <2>. QED
    BY <1>7, <1>8, <1>10, <1>12, <2>1, <2>2 DEF KeyedByNearness
<1>. QED
  <2>1. IsKeys(Int \X Int)
    BY DEF IsKeys
  <2>2. s \in [1..n -> RankedRows(n)]
    BY <1>10
  <2>3. best \in Int
    BY <1>7
  <2>4. /\ Reordered(s, Sorted(n, key)) \in [1..n -> RankedRows(n)]
        /\ NearFirst(Reordered(s, Sorted(n, key)))
    BY <1>2, <1>11, <1>13, <2>1, <2>2, <2>3, SortedIsNearFirst
  <2>. QED
    BY <1>1, <2>4 DEF n

\* Nor does an early year.
LEMMA EarliestNearFirst ==
    ASSUME NEW cands, IsSequence(cands), \A i \in 1..Len(cands) : HasYear(cands[i]),
           NEW s \in [1..Len(cands) -> RankedRows(Len(cands))], NearFirst(s)
    PROVE  /\ Earliest(s, cands) \in [1..Len(cands) -> RankedRows(Len(cands))]
           /\ NearFirst(Earliest(s, cands))
<1>. DEFINE n == Len(cands)
            Q == {s[p].quality : p \in 1..n}
            best == Min(Q)
            year(p) == cands[s[p].of].year
            first(p) == IF s[p].quality - best <= Gap THEN 0 ELSE 1
            second(p) == IF s[p].quality - best <= Gap THEN Clamp(s[p].quality + s[p].taste)
                         ELSE s[p].quality
            third(p) == IF s[p].quality <= best + 20 /\ year(p) # Unknown THEN year(p) ELSE 9999
            key  == [p \in 1..n |-> <<first(p), second(p), third(p)>>]
<1>1. n \in Nat
    BY DEF IsSequence
<1>2. Len(s) = n
  <2>. HIDE DEF n
  <2>1. s \in [1..n -> RankedRows(n)]
    BY DEF n
  <2>. QED
    BY <1>1, <2>1, ListOf
<1>3. Earliest(s, cands) = IF n = 0 THEN s ELSE Reordered(s, Sorted(n, key))
    BY <1>2 DEF Earliest
<1>4. CASE n = 0
    BY <1>3, <1>4
<1>5. CASE n # 0
  <2>1. s \in [1..n -> RankedRows(n)] /\ \A i \in 1..n : HasYear(cands[i])
    OBVIOUS
  <2>. HIDE DEF n
  <2>2. \A p \in 1..n : s[p].quality \in Nat /\ s[p].taste \in Int /\ s[p].of \in 1..n
    BY <2>1 DEF RankedRows
  <2>3. Q \in SUBSET Nat /\ Q # {} /\ \A p \in 1..n : s[p].quality \in Q
    BY <1>1, <1>5, <2>2
  <2>. HIDE DEF Q
  <2>4. best \in Nat /\ \A p \in 1..n : best <= s[p].quality
    BY <2>3, LeastOf
  <2>5. \A p \in 1..n : year(p) # Unknown => year(p) \in Int
    BY <2>1, <2>2 DEF HasYear
  <2>. HIDE DEF best, year
  <2>6. \A p \in 1..n : first(p) \in Int
    OBVIOUS
  <2>7. \A p \in 1..n : second(p) \in Int
    <3>1. \A p \in 1..n : s[p].quality + s[p].taste \in Int /\ s[p].quality \in Int
      BY <2>2
    <3>2. \A d \in Int : Clamp(d) \in Int
      BY ClampTyped
    <3>3. \A p \in 1..n : Clamp(s[p].quality + s[p].taste) \in Int
      BY <3>1, <3>2, Zenon
    <3>. QED
      BY <3>1, <3>3
  <2>8. \A p \in 1..n : third(p) \in Int
    BY <2>5
  <2>9. /\ \A p \in 1..n : s[p].quality - best <= Gap => first(p) = 0
        /\ \A p \in 1..n : s[p].quality - best > Gap => first(p) = 1 /\ second(p) = s[p].quality
    <3>1. \A p \in 1..n : s[p].quality \in Int /\ best \in Int /\ Gap \in Int
      BY <2>2, <2>4, GapTyped
    <3>. QED
      BY <3>1
  <2>. HIDE DEF first, second, third
  <2>10. key \in [1..n -> Int \X Int \X Int]
    BY <2>6, <2>7, <2>8
  <2>11. \A p \in 1..n : key[p][1] = first(p) /\ key[p][2] = second(p)
    OBVIOUS
  <2>. HIDE DEF key
  <2>12. KeyedByNearness(n, s, key, best)
    BY <2>4, <2>9, <2>11 DEF KeyedByNearness
  <2>13. best \in Int
    BY <2>4
  <2>14. IsKeys(Int \X Int \X Int)
    BY DEF IsKeys
  <2>15. /\ Reordered(s, Sorted(n, key)) \in [1..n -> RankedRows(n)]
         /\ NearFirst(Reordered(s, Sorted(n, key)))
    BY <1>1, <2>1, <2>10, <2>12, <2>13, <2>14, SortedIsNearFirst
  <2>. QED
    BY <1>3, <1>5, <2>15 DEF n
<1>. QED
    BY <1>4, <1>5

-----------------------------------------------------------------------------
(* Matching: what a decision says of the rows.                              *)

\* Preference and years move rows among those near the best alone.
LEMMA PreferenceOnlyBreaksTies ==
    ASSUME NEW n \in Nat, NEW s \in [1..n -> RankedRows(n)], NearFirst(s)
    PROVE  \A p, q \in DOMAIN s : p < q => s[p].quality <= s[q].quality + Gap
<1>1. DOMAIN s = 1..n
    OBVIOUS
<1>2. PICK best \in Int : /\ \A p \in DOMAIN s : best <= s[p].quality
                          /\ \A p, q \in DOMAIN s : p < q => s[p].quality <= best + Gap
                                                             \/ s[p].quality <= s[q].quality
    BY DEF NearFirst
<1>3. \A p \in 1..n : s[p].quality \in Int
    BY QualityTyped
<1>. QED
    BY <1>1, <1>2, <1>3, GapTyped

\* A strong match has no row within the gap: the second is beyond it, so it is none of the near
\* ones, and those behind it are no nearer.
LEMMA StrongHasNoRival ==
    ASSUME NEW n \in Nat, NEW s \in [1..n -> RankedRows(n)], NearFirst(s), NEW strong,
           DecisionFor(s, strong) = "strong", Gap > 0
    PROVE  \A p, q \in Selectable(s) :
               p = Min(Selectable(s)) /\ q # p => s[q].quality > s[p].quality + Gap
<1>. DEFINE open == Selectable(s)
            first == Min(open)
            second == Min(open \ {first})
<1>1. DOMAIN s = 1..n
    OBVIOUS
<1>2. open \in SUBSET (1..n) /\ open \in SUBSET Nat
    BY <1>1 DEF Selectable
<1>3. \A p \in 1..n : s[p].quality \in Int
    BY QualityTyped
<1>. SUFFICES ASSUME NEW q \in open, q # first
              PROVE  s[q].quality > s[first].quality + Gap
    OBVIOUS
<1>4. DecisionFor(s, strong) =
          IF open = {} THEN "reject"
          ELSE IF /\ Gap > 0
                  /\ open # {first}
                  /\ Abs(s[second].quality - s[first].quality) <= Gap THEN "ambiguous"
          ELSE Band(s[first].quality, strong)
    BY DEF DecisionFor
<1>. HIDE DEF open
<1>5. first \in open /\ open # {first} /\ open # {}
    BY <1>2, LeastOf
<1>. HIDE DEF first
<1>6. second \in open /\ second # first /\ \A m \in open \ {first} : second <= m
  <2>1. open \ {first} \in SUBSET Nat /\ open \ {first} # {}
    BY <1>2
  <2>. QED
    BY <2>1, LeastOf
<1>. HIDE DEF second
<1>7. \A m \in open : first <= m
    BY <1>2, LeastOf DEF first
<1>8. ~(Abs(s[second].quality - s[first].quality) <= Gap)
    BY <1>4, <1>5
<1>9. PICK best \in Int : /\ \A p \in DOMAIN s : best <= s[p].quality
                          /\ \A p, q1 \in DOMAIN s : p < q1 => s[p].quality <= best + Gap
                                                              \/ s[p].quality <= s[q1].quality
    BY DEF NearFirst
<1>10. first \in 1..n /\ second \in 1..n /\ q \in 1..n /\ first < second /\ second <= q
    BY <1>2, <1>5, <1>6, <1>7
<1>. DEFINE a == s[first].quality
            b == s[second].quality
            c == s[q].quality
<1>11. a \in Int /\ b \in Int /\ c \in Int /\ Gap \in Nat
    BY <1>3, <1>10, GapTyped
<1>12. best <= a /\ (a <= best + Gap \/ a <= b) /\ best <= b
    BY <1>1, <1>9, <1>10
<1>13. second = q \/ b <= best + Gap \/ b <= c
  <2>1. second = q \/ second < q
    BY <1>10
  <2>. QED
    BY <1>1, <1>9, <1>10, <2>1
<1>14. second = q => b = c
    OBVIOUS
<1>15. ~(Abs(b - a) <= Gap)
    BY <1>8
<1>. HIDE DEF a, b, c
<1>16. c > a + Gap
    BY <1>11, <1>12, <1>13, <1>14, <1>15 DEF Abs
<1>. QED
    BY <1>16 DEF a, c

\* A decision is one of three.
LEMMA DecisionTyped ==
    ASSUME NEW s, NEW strong
    PROVE  DecisionFor(s, strong) \in {"strong", "ambiguous", "reject"}
<1>. QED
    BY DEF DecisionFor, Band

-----------------------------------------------------------------------------
(* Matching: its inductive invariant.                                       *)

Decided == {"strong", "ambiguous", "reject"}

\* What is asked; a decision with its rows, which are as many as the candidates; what is offered.
MatchingInv ==
    /\ \/ asked \in [kind : {"album"}, is : Albums]
       \/ asked \in [kind : {"singleton"}, is : Singletons]
    /\ ranked # Unknown => decision # "none"
    /\ decision # "none" =>
           /\ decision \in Decided
           /\ ranked \in [1..Len(asked.is.candidates) -> RankedRows(Len(asked.is.candidates))]
           /\ NearFirst(ranked)
           /\ decision = DecisionFor(ranked, Strong[asked.kind])
    /\ Len(rows) \in Nat /\ Len(rows) <= Len(asked.is.candidates)

\* What the engine is asked has files, candidates and their fields.
LEMMA AskedTyped ==
    ASSUME \/ asked \in [kind : {"album"}, is : Albums]
           \/ asked \in [kind : {"singleton"}, is : Singletons]
    PROVE  /\ IsAsked(asked.is) /\ IsSequence(asked.is.candidates)
           /\ Len(asked.is.candidates) \in Nat
           /\ DOMAIN asked.is.candidates = 1..Len(asked.is.candidates)
           /\ asked.kind = "album" => HasYear(asked.is)
           /\ \A i \in 1..Len(asked.is.candidates) : HasYear(asked.is.candidates[i])
<1>1. asked.is \in Albums \cup Singletons
    OBVIOUS
<1>2. asked.kind = "album" => asked.is \in Albums
    OBVIOUS
<1>3. IsAsked(asked.is)
    BY <1>1, MatchingConstantsAssumption DEF IsAsked
<1>4. asked.kind = "album" => HasYear(asked.is)
    BY <1>2, MatchingConstantsAssumption
<1>. DEFINE cands == asked.is.candidates
<1>5. IsSequence(cands)
    BY <1>3 DEF IsAsked
<1>. HIDE DEF cands
<1>6. Len(cands) \in Nat /\ DOMAIN cands = 1..Len(cands)
    BY <1>5 DEF IsSequence
<1>7. \A i \in 1..Len(cands) : HasYear(cands[i])
    BY <1>3, <1>6 DEF IsAsked, cands
<1>. QED
    BY <1>3, <1>4, <1>5, <1>6, <1>7 DEF cands

\* A ranking of all candidates and its decision.
LEMMA DecidedKeeps ==
    ASSUME MatchingInv, UNCHANGED <<asked, rows, edits>>,
           ranked' \in [1..Len(asked.is.candidates) -> RankedRows(Len(asked.is.candidates))],
           NearFirst(ranked'), decision' = DecisionFor(ranked', Strong[asked.kind])
    PROVE  MatchingInv'
<1>1. decision' \in Decided
    BY DecisionTyped DEF Decided
<1>2. decision' # "none"
    BY <1>1 DEF Decided
<1>. QED
    BY <1>1, <1>2 DEF MatchingInv

\* Matching an album ranks its candidates, the near ones first.
LEMMA MatchAlbumKeeps ==
    ASSUME MatchingInv, MatchAlbum
    PROVE  MatchingInv'
<1>. DEFINE cands == asked.is.candidates
            score == [i \in DOMAIN cands |-> AlbumScore(asked.is, cands[i])]
            s     == RankCandidates(cands, score)
<1>1. /\ IsAsked(asked.is) /\ IsSequence(cands) /\ HasYear(asked.is)
      /\ DOMAIN cands = 1..Len(cands)
    BY AskedTyped DEF MatchingInv, MatchAlbum
<1>2. \A i \in 1..Len(cands) : score[i].distance \in Int
  <2>1. \A i \in 1..Len(cands) : AlbumScore(asked.is, cands[i]).distance \in Int
    BY <1>1, AlbumScoreTyped
  <2>. QED
    BY <1>1, <2>1
<1>. HIDE DEF score
<1>3. s \in [1..Len(cands) -> RankedRows(Len(cands))] /\ NearFirst(s)
    BY <1>1, <1>2, RankedNearFirst
<1>4. ranked' = s /\ decision' = DecisionFor(s, Strong["album"]) /\ asked.kind = "album"
      /\ UNCHANGED <<asked, rows, edits>>
    BY DEF MatchAlbum, score
<1>. HIDE DEF s
<1>. QED
    BY <1>3, <1>4, DecidedKeeps

\* So does matching a single track, where the earlier release of equal ones leads.
LEMMA MatchSingletonKeeps ==
    ASSUME MatchingInv, MatchSingleton
    PROVE  MatchingInv'
<1>. DEFINE cands == asked.is.candidates
            score == [i \in DOMAIN cands |-> SingletonScore(asked.is, cands[i])]
            first == RankCandidates(cands, score)
            s     == Earliest(first, cands)
<1>1. /\ IsSequence(cands) /\ DOMAIN cands = 1..Len(cands)
      /\ \A i \in 1..Len(cands) : HasYear(cands[i])
    BY AskedTyped DEF MatchingInv
<1>2. \A i \in 1..Len(cands) : score[i].distance \in Int
  <2>1. \A i \in 1..Len(cands) : SingletonScore(asked.is, cands[i]).distance \in Int
    BY SingletonScoreTyped
  <2>. QED
    BY <1>1, <2>1
<1>3. ranked' = s /\ decision' = DecisionFor(s, Strong["singleton"]) /\ asked.kind = "singleton"
      /\ UNCHANGED <<asked, rows, edits>>
    BY DEF MatchSingleton
<1>. HIDE DEF score
<1>4. first \in [1..Len(cands) -> RankedRows(Len(cands))] /\ NearFirst(first)
    BY <1>1, <1>2, RankedNearFirst
<1>. HIDE DEF first
<1>5. s \in [1..Len(cands) -> RankedRows(Len(cands))] /\ NearFirst(s)
    BY <1>1, <1>4, EarliestNearFirst
<1>. HIDE DEF s
<1>. QED
    BY <1>3, <1>5, DecidedKeeps

\* The rows offered are no more than the candidates, and a page of them no more than they.
LEMMA OfferedTyped ==
    ASSUME NEW n \in Nat, ranked \in [1..n -> RankedRows(n)]
    PROVE  Offered \in Seq(RankedRows(n)) /\ Len(Offered) <= n
<1>. DEFINE S == Selectable(ranked)
            R == {p \in (1..n) \X (1..n) : p[1] < p[2]}
            m == Cardinality(S)
            order == Arrange(S, R)
<1>1. Len(ranked) = n /\ DOMAIN ranked = 1..n
    BY ListOf
<1>2. S \in SUBSET (1..n)
    BY <1>1 DEF Selectable
<1>3. IsFiniteSet(1..n) /\ Cardinality(1..n) = n
  <2>1. 1 \in Int /\ n \in Int
    OBVIOUS
  <2>. QED
    BY <2>1, FS_Interval
<1>4. IsFiniteSet(S) /\ m \in Nat /\ m <= n
    BY <1>2, <1>3, FS_Subset, FS_CardinalityType
<1>5. Offered = [p \in DOMAIN order |-> ranked[order[p]]]
    BY <1>1 DEF Offered
<1>6. Orders(R, S)
  <2>1. \A x, y \in S : <<x, y>> \in R <=> x < y
    BY <1>2
  <2>2. \A x \in S : x \in Int
    BY <1>2
  <2>. HIDE DEF R, S
  <2>. QED
    BY <2>1, <2>2 DEF Orders
<1>. HIDE DEF R, S
<1>7. order \in [1..m -> S]
    BY <1>4, <1>6, ArrangeFacts
<1>. HIDE DEF order, m
<1>8. Offered \in [1..m -> RankedRows(n)]
    BY <1>2, <1>5, <1>7
<1>. QED
    BY <1>4, <1>8, ListOf

\* A page has no more rows than what it is cut from.
LEMMA PageTyped ==
    ASSUME NEW T, NEW s \in Seq(T), NEW page \in 0..1
    PROVE  Len(Page(s, page)) \in Nat /\ Len(Page(s, page)) <= Len(s)
<1>. DEFINE start   == page * SearchPage
            end     == Min({start + SearchPage, Len(s)})
            visible == SubSeq(s, start + 1, end)
            shown(p) == [visible[p] EXCEPT
                            !.dups = {j - start : j \in @ \cap (start + 1 .. start + Len(visible))}]
<1>1. start \in Nat /\ Len(s) \in Nat
  <2>1. SearchPage \in Nat /\ (page = 0 \/ page = 1)
    BY MatchingConstantsAssumption
  <2>. QED
    BY <2>1
<1>2. end \in Nat /\ end <= Len(s)
  <2>. DEFINE N == {start + SearchPage, Len(s)}
  <2>1. N \in SUBSET Nat /\ N # {} /\ Len(s) \in N
    BY <1>1, MatchingConstantsAssumption
  <2>. HIDE DEF N
  <2>2. Min(N) \in N /\ \A k \in N : Min(N) <= k
    BY <2>1, LeastOf
  <2>3. end = Min(N)
    BY DEF N
  <2>. HIDE DEF end
  <2>. QED
    BY <2>1, <2>2, <2>3
<1>. HIDE DEF end, start
<1>3. \A k \in start + 1 .. end : s[k] \in T
    BY <1>1, <1>2
<1>4. visible \in Seq(T) /\ Len(visible) \in Nat /\ Len(visible) <= Len(s)
    BY <1>1, <1>2, <1>3
<1>5. Page(s, page) = [p \in DOMAIN visible |-> shown(p)]
    BY DEF Page, start, end
<1>6. DOMAIN visible = 1..Len(visible)
    BY <1>4
<1>. HIDE DEF visible
<1>7. Page(s, page) = [p \in 1..Len(visible) |-> shown(p)]
    BY <1>5, <1>6
<1>. HIDE DEF shown
<1>8. Page(s, page) \in [1..Len(visible) -> {shown(p) : p \in 1..Len(visible)}]
    BY <1>7
<1>9. Len(Page(s, page)) = Len(visible)
    BY <1>4, <1>8, ListOf
<1>. QED
    BY <1>4, <1>9

\* Showing the matches, or a page of them, leaves the ranking alone.
LEMMA ProposeKeeps ==
    ASSUME MatchingInv, Propose \/ \E page \in 0..1 : ShowPage(page)
    PROVE  MatchingInv'
<1>. DEFINE n == Len(asked.is.candidates)
<1>1. ranked # Unknown /\ UNCHANGED <<asked, ranked, decision, edits>>
    BY DEF Propose, ShowPage
<1>2. n \in Nat
    BY AskedTyped DEF MatchingInv
<1>3. Offered \in Seq(RankedRows(n)) /\ Len(Offered) <= n /\ Len(Offered) \in Nat
  <2>1. ranked \in [1..n -> RankedRows(n)]
    BY <1>1 DEF MatchingInv
  <2>. HIDE DEF n
  <2>. QED
    BY <1>2, <2>1, OfferedTyped
<1>4. Len(rows') \in Nat /\ Len(rows') <= n
  <2>. HIDE DEF n
  <2>1. CASE rows' = Offered
    BY <1>3, <2>1
  <2>2. ASSUME NEW page \in 0..1, rows' = Page(Offered, page)
        PROVE  Len(rows') \in Nat /\ Len(rows') <= n
    BY <1>2, <1>3, <2>2, PageTyped
  <2>. QED
    BY <2>1, <2>2 DEF Propose, ShowPage
<1>. QED
    BY <1>1, <1>4 DEF MatchingInv

\* Nothing has been ranked.
LEMMA MatchingStarts == MatchingInit => MatchingInv
<1>. SUFFICES ASSUME MatchingInit PROVE MatchingInv
    OBVIOUS
<1>1. /\ \/ asked \in [kind : {"album"}, is : Albums]
         \/ asked \in [kind : {"singleton"}, is : Singletons]
      /\ ranked = Unknown /\ decision = "none" /\ rows = <<>>
    BY DEF MatchingInit
<1>2. Len(asked.is.candidates) \in Nat
    BY <1>1, AskedTyped
<1>3. Len(rows) = 0
    BY <1>1
<1>. QED
    BY <1>1, <1>2, <1>3 DEF MatchingInv

\* Every step of the matching engine keeps its inductive invariant.
LEMMA MatchingInductive == MatchingInv /\ [MatchingNext]_matchingVars => MatchingInv'
<1>. SUFFICES ASSUME MatchingInv, [MatchingNext]_matchingVars PROVE MatchingInv'
    OBVIOUS
<1>1. ASSUME NEW p, Take(p) PROVE MatchingInv'
    BY <1>1 DEF Take, MatchingInv
<1>2. CASE UNCHANGED matchingVars
    BY <1>2 DEF matchingVars, MatchingInv
<1>. QED
    BY <1>1, <1>2, MatchAlbumKeeps, MatchSingletonKeeps, ProposeKeeps DEF MatchingNext

\* So it always holds.
LEMMA MatchingInvariance == MatchingSpec => []MatchingInv
<1>. QED
    BY MatchingStarts, MatchingInductive, PTL DEF MatchingSpec

\* What the inductive invariant says of decisions and rows.
LEMMA MatchingFollows ==
    ASSUME MatchingInv
    PROVE  MatchingTypeOK /\ StrongIsAlone /\ PreferenceBreaksTies
<1>. DEFINE n == Len(asked.is.candidates)
<1>1. n \in Nat
    BY AskedTyped DEF MatchingInv
<1>2. decision # "none" => /\ decision \in Decided /\ ranked \in [1..n -> RankedRows(n)]
                           /\ NearFirst(ranked)
                           /\ decision = DecisionFor(ranked, Strong[asked.kind])
    BY DEF MatchingInv
<1>3. (ranked # Unknown => decision # "none") /\ Len(rows) <= n
    BY DEF MatchingInv
<1>4. MatchingTypeOK
  <2>. HIDE DEF n
  <2>1. ranked # Unknown => Len(ranked) = n
    BY <1>1, <1>2, <1>3, ListOf
  <2>. QED
    BY <1>2, <1>3, <2>1 DEF MatchingTypeOK, Decided, n
<1>. HIDE DEF n
<1>5. StrongIsAlone
    BY <1>1, <1>2, StrongHasNoRival DEF StrongIsAlone
<1>6. PreferenceBreaksTies
    BY <1>1, <1>2, <1>3, PreferenceOnlyBreaksTies DEF PreferenceBreaksTies
<1>. QED
    BY <1>4, <1>5, <1>6

-----------------------------------------------------------------------------
(* Manual search: its inductive invariant.                                  *)

Chosen ==
    [no : 1..MaxRevisions, candidate : Candidates \cup {None}, by : {None, "user", "match"},
     manual : BOOLEAN]

Questions ==
    [step : {"fetching", "fetched", "observed", "answered"}, route : {"import", "url", "track"},
     want : Candidates, url : Urls \cup {None}, force : BOOLEAN, seen : Chosen,
     guarded : BOOLEAN,
     answer : {None, "current", "not_found", "failed", "stale_source", "selected", "refused"}]

SearchTyped ==
    /\ revision \in Chosen
    /\ reviewState \in {"preparing", "ready", "needs_attention", "applying"}
    /\ drifted \in BOOLEAN
    /\ alias \in SUBSET ((1..MaxRevisions) \X Urls)
    /\ request \in [Searches -> {Unasked} \cup Questions]

\* What a request asked for.
AsksTruly(q) == q.route = "url" => q.url \in Urls /\ q.want = Leads[q.url]

\* A number is given to one revision: what a request saw under the current number is the
\* current revision.
SeenIsRevision(q) ==
    q.seen.no <= revision.no /\ (q.seen.no = revision.no => q.seen = revision)

\* No URL is remembered of a revision to come, and of the current one it is true.
AliasIsOld ==
    \A n \in 1..MaxRevisions, u \in Urls : <<n, u>> \in alias =>
        n <= revision.no /\ (n = revision.no => revision.candidate = Leads[u])

\* The inductive invariant of a search by hand.
SearchInv ==
    /\ SearchTyped
    /\ \A r \in Searches :
           request[r] # Unasked => AsksTruly(request[r]) /\ SeenIsRevision(request[r])
    /\ AliasIsOld

\* What was never asked is no question.
LEMMA QuestionFacts ==
    /\ \A q \in Questions : q # Unasked /\ q.step # "idle"
    /\ Unasked.step = "idle"
BY DEF Questions, Unasked

\* A step of one request that keeps what it asked and saw, and touches nothing else.
LEMMA RequestMoves ==
    ASSUME SearchInv, NEW r \in Searches, NEW q \in {Unasked} \cup Questions,
           q # Unasked => AsksTruly(q) /\ SeenIsRevision(q),
           request' = [request EXCEPT ![r] = q],
           UNCHANGED <<revision, reviewState, drifted>>,
           alias' \in SUBSET ((1..MaxRevisions) \X Urls),
           \A n \in 1..MaxRevisions, u \in Urls : <<n, u>> \in alias' \ alias =>
               n <= revision.no /\ (n = revision.no => revision.candidate = Leads[u])
    PROVE  SearchInv'
<1>1. SearchTyped'
    BY DEF SearchInv, SearchTyped
<1>2. \A s \in Searches : request'[s] = IF s = r THEN q ELSE request[s]
    BY DEF SearchInv, SearchTyped
<1>3. ASSUME NEW s \in Searches, request'[s] # Unasked
      PROVE  AsksTruly(request'[s]) /\ SeenIsRevision(request'[s])
    BY <1>2, <1>3 DEF SearchInv
<1>4. \A s \in Searches : request'[s] # Unasked
          => AsksTruly(request[s])' /\ SeenIsRevision(request[s])'
    BY <1>3 DEF AsksTruly, SeenIsRevision
<1>5. AliasIsOld'
    BY DEF SearchInv, AliasIsOld
<1>. QED
    BY <1>1, <1>4, <1>5 DEF SearchInv, Unasked

\* A new revision has a new number, so nothing that was read of an older one or is
\* remembered of it speaks of it.
LEMMA RevisionMoves ==
    ASSUME SearchInv, NEW c \in Candidates \cup {None}, NEW by \in {"user", "match"},
           NEW manual \in BOOLEAN, Room
    PROVE  LET new == Composed(c, by, manual) IN
           /\ new \in Chosen /\ new.candidate = c /\ new.no >= revision.no
           /\ new = revision \/ new.no = revision.no + 1
<1>. DEFINE content == [no |-> revision.no, candidate |-> c, by |-> by, manual |-> manual]
<1>1. content \in Chosen /\ revision.no + 1 \in 1..MaxRevisions /\ revision.no \in Nat
    BY ManualSearchConstantsAssumption DEF SearchInv, SearchTyped, Chosen, Room
<1>2. [content EXCEPT !.no = @ + 1] = [content EXCEPT !.no = revision.no + 1]
    OBVIOUS
<1>3. [content EXCEPT !.no = revision.no + 1]
          = [no |-> revision.no + 1, candidate |-> c, by |-> by, manual |-> manual]
    OBVIOUS
<1>4. [no |-> revision.no + 1, candidate |-> c, by |-> by, manual |-> manual] \in Chosen
    BY <1>1 DEF Chosen
<1>. QED
    BY <1>1, <1>2, <1>3, <1>4 DEF Composed
\* A new revision is written, or the same one again: the questions that are out saw the
\* revision that was, and what is remembered is of it.
LEMMA NewRevisionKeeps ==
    ASSUME SearchInv, revision' \in Chosen,
           reviewState' \in {"preparing", "ready", "needs_attention", "applying"},
           UNCHANGED drifted, revision' = revision \/ revision'.no = revision.no + 1,
           request' \in [Searches -> {Unasked} \cup Questions],
           \A s \in Searches : request'[s] # Unasked =>
               /\ AsksTruly(request'[s])
               /\ request[s] # Unasked /\ request'[s].seen = request[s].seen,
           alias' \in SUBSET ((1..MaxRevisions) \X Urls),
           \A n \in 1..MaxRevisions, u \in Urls : <<n, u>> \in alias' \ alias =>
               n = revision'.no /\ revision'.candidate = Leads[u]
    PROVE  SearchInv'
<1>1. SearchTyped'
    BY DEF SearchInv, SearchTyped
<1>2. revision.no \in Int /\ revision'.no \in Int /\ revision'.no >= revision.no
      /\ (revision'.no = revision.no => revision' = revision)
    BY DEF SearchInv, SearchTyped, Chosen
<1>3. ASSUME NEW s \in Searches, request'[s] # Unasked
      PROVE  AsksTruly(request[s])' /\ SeenIsRevision(request[s])'
  <2>1. SeenIsRevision(request[s]) /\ request[s].seen.no \in Int
    BY <1>3, QuestionFacts DEF SearchInv, SearchTyped, Questions, Chosen
  <2>. QED
    BY <1>2, <1>3, <2>1 DEF SeenIsRevision, AsksTruly
<1>4. AliasIsOld'
  <2>. SUFFICES ASSUME NEW n \in 1..MaxRevisions, NEW u \in Urls, <<n, u>> \in alias'
                PROVE  n <= revision'.no /\ (n = revision'.no => revision'.candidate = Leads[u])
    BY DEF AliasIsOld
  <2>1. CASE <<n, u>> \in alias
    BY <1>2, <2>1, ManualSearchConstantsAssumption DEF SearchInv, AliasIsOld
  <2>2. CASE <<n, u>> \notin alias
    BY <1>2, <2>2
  <2>. QED
    BY <2>1, <2>2
<1>. QED
    BY <1>1, <1>3, <1>4 DEF SearchInv

\* A question that moves on stays a question about the same.
LEMMA QuestionMoves ==
    ASSUME NEW q \in Questions
    PROVE  /\ \A s \in {"fetching", "fetched", "observed", "answered"} :
                  LET p == [q EXCEPT !.step = s] IN
                  p \in Questions /\ p.seen = q.seen /\ (AsksTruly(q) => AsksTruly(p))
           /\ \A a \in {"current", "not_found", "failed", "stale_source", "selected", "refused"} :
                  LET p == [q EXCEPT !.step = "answered", !.answer = a] IN
                  p \in Questions /\ p.seen = q.seen /\ (AsksTruly(q) => AsksTruly(p))
           /\ LET p == [q EXCEPT !.step = "observed", !.guarded = TRUE] IN
              p \in Questions /\ p.seen = q.seen /\ (AsksTruly(q) => AsksTruly(p))
           /\ \A g \in BOOLEAN : LET p == [q EXCEPT !.guarded = g] IN
                  p \in Questions /\ p.seen = q.seen /\ (AsksTruly(q) => AsksTruly(p))
BY DEF Questions, AsksTruly

\* A request that is asked.
LEMMA AskKeeps ==
    ASSUME SearchInv, NEW r \in Searches, NEW c \in Candidates,
           NEW route \in {"import", "url", "track"}, NEW url \in Urls \cup {None},
           NEW force \in BOOLEAN, route = "url" => url \in Urls /\ c = Leads[url]
    PROVE  LET q == Opened(route, c, url, force) IN
           /\ q \in Questions /\ AsksTruly(q) /\ SeenIsRevision(q)
           /\ LET a == [q EXCEPT !.step = "answered", !.answer = "current"] IN
              a \in Questions /\ AsksTruly(a) /\ SeenIsRevision(a)
           /\ \A g \in BOOLEAN : LET a == [q EXCEPT !.guarded = g] IN
              a \in Questions /\ AsksTruly(a) /\ SeenIsRevision(a)
<1>1. revision \in Chosen /\ revision.no \in Int
    BY DEF SearchInv, SearchTyped, Chosen
<1>. DEFINE q == Opened(route, c, url, force)
<1>2. q \in Questions /\ AsksTruly(q) /\ SeenIsRevision(q)
    BY <1>1 DEF Opened, Questions, AsksTruly, SeenIsRevision
<1>. HIDE DEF q
<1>3. /\ LET a == [q EXCEPT !.step = "answered", !.answer = "current"] IN
         a \in Questions /\ a.seen = q.seen /\ (AsksTruly(q) => AsksTruly(a))
      /\ \A g \in BOOLEAN : LET a == [q EXCEPT !.guarded = g] IN
         a \in Questions /\ a.seen = q.seen /\ (AsksTruly(q) => AsksTruly(a))
    BY <1>2, QuestionMoves
<1>4. \A a : a.seen = q.seen => SeenIsRevision(a)
    BY <1>2 DEF SeenIsRevision
<1>5. /\ LET a == [q EXCEPT !.step = "answered", !.answer = "current"] IN
         a \in Questions /\ AsksTruly(a) /\ SeenIsRevision(a)
      /\ \A g \in BOOLEAN : LET a == [q EXCEPT !.guarded = g] IN
         a \in Questions /\ AsksTruly(a) /\ SeenIsRevision(a)
    BY <1>2, <1>3, <1>4
<1>. QED
    BY <1>2, <1>5 DEF q

\* No search has asked for anything.
LEMMA SearchInitially == SearchInit => SearchInv
<1>. SUFFICES ASSUME SearchInit PROVE SearchInv
    OBVIOUS
<1>1. Unchosen \in Chosen
    BY ManualSearchConstantsAssumption DEF Unchosen, Chosen
<1>2. SearchTyped
    BY <1>1 DEF SearchInit, SearchTyped
<1>3. \A r \in Searches : request[r] = Unasked
    BY DEF SearchInit
<1>4. AliasIsOld
    BY DEF SearchInit, AliasIsOld
<1>. QED
    BY <1>2, <1>3, <1>4 DEF SearchInv

\* Asking.
LEMMA AskImportKeeps ==
    ASSUME SearchInv, NEW r \in Searches, NEW c \in Candidates, NEW force \in BOOLEAN,
           AskImport(r, c, force)
    PROVE  SearchInv'
<1>. DEFINE q == IF revision.candidate = c
         THEN [Opened("import", c, None, force) EXCEPT !.step = "answered", !.answer = "current"]
         ELSE Opened("import", c, None, force)
<1>1. q \in Questions /\ AsksTruly(q) /\ SeenIsRevision(q)
    BY AskKeeps
<1>2. request' = [request EXCEPT ![r] = q]
    BY DEF AskImport
<1>. HIDE DEF q
<1>3. UNCHANGED <<revision, reviewState, drifted, alias>>
    BY DEF AskImport
<1>4. alias \in SUBSET ((1..MaxRevisions) \X Urls)
    BY DEF SearchInv, SearchTyped
<1>. QED
    BY <1>1, <1>2, <1>3, <1>4, RequestMoves

\* The choice of a candidate asks about the revision it is made on.
LEMMA AskTrackKeeps ==
    ASSUME SearchInv, NEW r \in Searches, NEW c \in Candidates, AskTrack(r, c)
    PROVE  SearchInv'
<1>. DEFINE q == [Opened("track", c, None, FALSE) EXCEPT !.guarded = IsInert]
<1>1. IsInert \in BOOLEAN
    BY DEF IsInert, SearchInv, SearchTyped, Chosen
<1>2. q \in Questions /\ AsksTruly(q) /\ SeenIsRevision(q)
    BY <1>1, AskKeeps
<1>3. request' = [request EXCEPT ![r] = q]
    BY DEF AskTrack
<1>. HIDE DEF q
<1>4. UNCHANGED <<revision, reviewState, drifted, alias>>
    BY DEF AskTrack
<1>5. alias \in SUBSET ((1..MaxRevisions) \X Urls)
    BY DEF SearchInv, SearchTyped
<1>. QED
    BY <1>2, <1>3, <1>4, <1>5, RequestMoves

\* A URL that was remembered, or that names the candidate, is remembered of the current
\* revision, whose candidate it leads to.
LEMMA AskUrlKeeps ==
    ASSUME SearchInv, NEW r \in Searches, NEW u \in Urls, NEW force \in BOOLEAN,
           AskUrl(r, u, force)
    PROVE  SearchInv'
<1>. DEFINE opened == Opened("url", Leads[u], u, force)
            closed == [opened EXCEPT !.step = "answered", !.answer = "current"]
            known  == \/ Remembers(revision.no, u)
                      \/ u \notin TrackUrls /\ revision.candidate = Leads[u]
<1>1. Leads[u] \in Candidates
    BY ManualSearchConstantsAssumption DEF AskUrl, Recognize
<1>2. /\ opened \in Questions /\ AsksTruly(opened) /\ SeenIsRevision(opened)
      /\ closed \in Questions /\ AsksTruly(closed) /\ SeenIsRevision(closed)
    BY <1>1, AskKeeps
<1>3. IF known THEN /\ request' = [request EXCEPT ![r] = closed]
                    /\ alias' = alias \cup {<<revision.no, u>>}
               ELSE request' = [request EXCEPT ![r] = opened] /\ alias' = alias
    BY DEF AskUrl
<1>. HIDE DEF opened, closed
<1>4. UNCHANGED <<revision, reviewState, drifted>>
    BY DEF AskUrl
<1>5. alias \in SUBSET ((1..MaxRevisions) \X Urls) /\ revision.no \in 1..MaxRevisions
    BY DEF SearchInv, SearchTyped, Chosen
<1>6. CASE known
  <2>1. revision.candidate = Leads[u]
    BY <1>5, <1>6 DEF Remembers, SearchInv, AliasIsOld
  <2>2. \A n \in 1..MaxRevisions, v \in Urls : <<n, v>> \in alias' \ alias =>
            n <= revision.no /\ (n = revision.no => revision.candidate = Leads[v])
    BY <1>3, <1>6, <2>1
  <2>. HIDE DEF known
  <2>3. alias' \in SUBSET ((1..MaxRevisions) \X Urls)
    BY <1>3, <1>5, <1>6
  <2>. QED
    BY <1>2, <1>3, <1>4, <1>6, <2>2, <2>3, RequestMoves
<1>7. CASE ~known
  <2>. HIDE DEF known
  <2>. QED
    BY <1>2, <1>3, <1>4, <1>5, <1>7, RequestMoves
<1>. QED
    BY <1>6, <1>7

\* The answer of the provider.
LEMMA AnswerKeeps ==
    ASSUME SearchInv, NEW r \in Searches, request[r] # Unasked,
           NEW q \in Questions, q.seen = request[r].seen, AsksTruly(q),
           request' = [request EXCEPT ![r] = q],
           UNCHANGED <<revision, reviewState, drifted, alias>>
    PROVE  SearchInv'
<1>1. SeenIsRevision(q)
    BY DEF SearchInv, SeenIsRevision
<1>2. alias \in SUBSET ((1..MaxRevisions) \X Urls)
    BY DEF SearchInv, SearchTyped
<1>. QED
    BY <1>1, <1>2, RequestMoves

\* A request that is under way is a question.
LEMMA IsQuestion ==
    ASSUME SearchInv, NEW r \in Searches, request[r].step # "idle" \/ request[r] # Unasked
    PROVE  request[r] # Unasked /\ request[r] \in Questions /\ AsksTruly(request[r])
           /\ SeenIsRevision(request[r])
BY QuestionFacts DEF SearchInv, SearchTyped

\* A failed fetch answers the question and leaves the revision alone.
LEMMA FetchFailsKeeps ==
    ASSUME SearchInv, NEW r \in Searches, NEW why \in {"not_found", "failed"}, FetchFails(r, why)
    PROVE  SearchInv'
<1>1. request[r] # Unasked /\ request[r] \in Questions /\ AsksTruly(request[r])
    BY IsQuestion DEF FetchFails
<1>. DEFINE q == [request[r] EXCEPT !.step = "answered", !.answer = why]
<1>2. q \in Questions /\ q.seen = request[r].seen /\ AsksTruly(q)
    BY <1>1, QuestionMoves
<1>3. request' = [request EXCEPT ![r] = q] /\ UNCHANGED <<revision, reviewState, drifted, alias>>
    BY DEF FetchFails, Answer
<1>. HIDE DEF q
<1>. QED
    BY <1>1, <1>2, <1>3, AnswerKeeps

\* The URL is remembered of the revision the request read, whose candidate it leads to.
LEMMA FetchedKeeps ==
    ASSUME SearchInv, NEW r \in Searches, Fetched(r)
    PROVE  SearchInv'
<1>1. request[r] # Unasked /\ request[r] \in Questions /\ AsksTruly(request[r])
      /\ SeenIsRevision(request[r])
    BY IsQuestion DEF Fetched
<1>2. UNCHANGED <<revision, reviewState, drifted>>
    BY DEF Fetched
<1>3. CASE request[r].route = "url" /\ request[r].seen.candidate = request[r].want
  <2>. DEFINE q == [request[r] EXCEPT !.step = "answered", !.answer = "current"]
  <2>1. q \in Questions /\ q.seen = request[r].seen /\ AsksTruly(q)
    BY <1>1, QuestionMoves
  <2>2. request' = [request EXCEPT ![r] = q] /\ alias' = alias \cup {Selected(r)}
    BY <1>3 DEF Fetched, Answer
  <2>. HIDE DEF q
  <2>3. SeenIsRevision(q)
    BY <1>1, <2>1 DEF SeenIsRevision
  <2>4. Selected(r) = <<request[r].seen.no, request[r].url>> /\ request[r].url \in Urls
        /\ request[r].want = Leads[request[r].url] /\ request[r].seen.no \in 1..MaxRevisions
    BY <1>1, <1>3 DEF Selected, AsksTruly, Questions, Chosen
  <2>5. alias' \in SUBSET ((1..MaxRevisions) \X Urls)
    BY <2>2, <2>4 DEF SearchInv, SearchTyped
  <2>6. \A n \in 1..MaxRevisions, u \in Urls : <<n, u>> \in alias' \ alias =>
            n <= revision.no /\ (n = revision.no => revision.candidate = Leads[u])
    BY <1>1, <1>3, <2>2, <2>4 DEF SeenIsRevision
  <2>. QED
    BY <1>2, <2>1, <2>2, <2>3, <2>5, <2>6, RequestMoves
<1>4. CASE ~(request[r].route = "url" /\ request[r].seen.candidate = request[r].want)
  <2>. DEFINE q == [request[r] EXCEPT
                        !.step = IF request[r].route = "track" THEN "observed" ELSE "fetched"]
  <2>1. q \in Questions /\ q.seen = request[r].seen /\ AsksTruly(q)
    BY <1>1, QuestionMoves
  <2>2. request' = [request EXCEPT ![r] = q] /\ UNCHANGED <<revision, reviewState, drifted, alias>>
    BY <1>4 DEF Fetched, StepTo
  <2>. HIDE DEF q
  <2>. QED
    BY <1>1, <2>1, <2>2, AnswerKeeps
<1>. QED
    BY <1>3, <1>4

\* Taking down what the review leads to, before a search changes it.
LEMMA CaptureKeeps ==
    ASSUME SearchInv, NEW r \in Searches, CaptureInitialSourceGuards(r)
    PROVE  SearchInv'
<1>1. request[r] # Unasked /\ request[r] \in Questions /\ AsksTruly(request[r])
    BY IsQuestion DEF CaptureInitialSourceGuards
<1>2. UNCHANGED <<revision, reviewState, drifted, alias>>
    BY DEF CaptureInitialSourceGuards
<1>3. CASE ~IsInert
  <2>. DEFINE q == [request[r] EXCEPT !.step = "observed"]
  <2>1. q \in Questions /\ q.seen = request[r].seen /\ AsksTruly(q)
    BY <1>1, QuestionMoves
  <2>2. request' = [request EXCEPT ![r] = q]
    BY <1>3 DEF CaptureInitialSourceGuards, StepTo
  <2>. HIDE DEF q
  <2>. QED
    BY <1>1, <1>2, <2>1, <2>2, AnswerKeeps
<1>4. CASE IsInert /\ drifted
  <2>. DEFINE q == [request[r] EXCEPT !.step = "answered", !.answer = "stale_source"]
  <2>1. q \in Questions /\ q.seen = request[r].seen /\ AsksTruly(q)
    BY <1>1, QuestionMoves
  <2>2. request' = [request EXCEPT ![r] = q]
    BY <1>4 DEF CaptureInitialSourceGuards, Answer
  <2>. HIDE DEF q
  <2>. QED
    BY <1>1, <1>2, <2>1, <2>2, AnswerKeeps
<1>5. CASE IsInert /\ ~drifted
  <2>. DEFINE q == [request[r] EXCEPT !.step = "observed", !.guarded = TRUE]
  <2>1. q \in Questions /\ q.seen = request[r].seen /\ AsksTruly(q)
    BY <1>1, QuestionMoves
  <2>2. request' = [request EXCEPT ![r] = q]
    BY <1>5 DEF CaptureInitialSourceGuards
  <2>. HIDE DEF q
  <2>. QED
    BY <1>1, <1>2, <2>1, <2>2, AnswerKeeps
<1>. QED
    BY <1>3, <1>4, <1>5

\* What is remembered of the revision that was selected leads to its candidate.
LEMMA ImportKeeps ==
    ASSUME SearchInv, NEW r \in Searches, ImportHydratedCandidate(r)
    PROVE  SearchInv'
<1>1. request[r] # Unasked /\ request[r] \in Questions /\ AsksTruly(request[r])
    BY IsQuestion DEF ImportHydratedCandidate
<1>. DEFINE q(a) == [request[r] EXCEPT !.step = "answered", !.answer = a]
<1>2. \A a \in {"selected", "refused"} :
          q(a) \in Questions /\ q(a).seen = request[r].seen /\ AsksTruly(q(a))
    BY <1>1, QuestionMoves
<1>3. UNCHANGED drifted
    BY DEF ImportHydratedCandidate
<1>4. CASE request' = [request EXCEPT ![r] = q("refused")]
           /\ UNCHANGED <<revision, reviewState, alias>>
  <2>. HIDE DEF q
  <2>. QED
    BY <1>1, <1>2, <1>3, <1>4, AnswerKeeps
<1>5. CASE /\ Room /\ revision' = Composed(request[r].want, "user", FALSE)
           /\ reviewState' = (IF IsOpen THEN "ready" ELSE reviewState)
           /\ alias' = alias \cup RememberedBy(r)
           /\ request' = [request EXCEPT ![r] = q("selected")]
  <2>1. request[r].want \in Candidates
    BY <1>1 DEF Questions
  <2>2. /\ revision' \in Chosen /\ revision'.candidate = request[r].want
        /\ revision' = revision \/ revision'.no = revision.no + 1
    BY <1>5, <2>1, RevisionMoves
  <2>. HIDE DEF q
  <2>3. request' \in [Searches -> {Unasked} \cup Questions]
    BY <1>2, <1>5 DEF SearchInv, SearchTyped
  <2>4. \A s \in Searches : request'[s] = IF s = r THEN q("selected") ELSE request[s]
    BY <1>5 DEF SearchInv, SearchTyped
  <2>5. ASSUME NEW s \in Searches, request'[s] # Unasked
        PROVE  AsksTruly(request'[s]) /\ request[s] # Unasked /\ request'[s].seen = request[s].seen
    BY <1>1, <1>2, <2>4, <2>5 DEF SearchInv
  <2>6. reviewState' \in {"preparing", "ready", "needs_attention", "applying"}
    BY <1>5 DEF SearchInv, SearchTyped
  <2>7. RememberedBy(r) \subseteq {<<revision'.no, request[r].url>>}
        /\ (request[r].route # "url" => RememberedBy(r) = {})
    BY DEF RememberedBy
  <2>8. request[r].route = "url" =>
            request[r].url \in Urls /\ revision'.candidate = Leads[request[r].url]
    BY <1>1, <2>2 DEF AsksTruly
  <2>9. revision'.no \in 1..MaxRevisions
    BY <2>2 DEF Chosen
  <2>10. alias' \in SUBSET ((1..MaxRevisions) \X Urls)
    <3>1. RememberedBy(r) \in SUBSET ((1..MaxRevisions) \X Urls)
      <4>1. CASE request[r].route = "url"
        <5>1. <<revision'.no, request[r].url>> \in (1..MaxRevisions) \X Urls
          BY <2>8, <2>9, <4>1
        <5>. QED
          BY <2>7, <5>1
      <4>2. CASE request[r].route # "url"
        BY <2>7, <4>2
      <4>. QED
        BY <4>1, <4>2
    <3>2. alias \in SUBSET ((1..MaxRevisions) \X Urls)
      BY DEF SearchInv, SearchTyped
    <3>. QED
      BY <1>5, <3>1, <3>2
  <2>11. \A n \in 1..MaxRevisions, u \in Urls : <<n, u>> \in alias' \ alias =>
             n = revision'.no /\ revision'.candidate = Leads[u]
    BY <1>5, <2>7, <2>8
  <2>. QED
    BY <1>3, <2>2, <2>3, <2>5, <2>6, <2>10, <2>11, NewRevisionKeeps
<1>. QED
    BY <1>4, <1>5 DEF ImportHydratedCandidate, Answer

\* A match or an edit writes a revision; no question moves.
LEMMA OthersWrite ==
    ASSUME SearchInv, Room, NEW c \in Candidates \cup {None}, NEW by \in {"user", "match"},
           NEW manual \in BOOLEAN, revision' = Composed(c, by, manual),
           reviewState' \in {"ready", "needs_attention"},
           UNCHANGED <<drifted, alias, request>>
    PROVE  SearchInv'
<1>1. revision' \in Chosen /\ (revision' = revision \/ revision'.no = revision.no + 1)
    BY RevisionMoves
<1>2. /\ request' \in [Searches -> {Unasked} \cup Questions]
      /\ alias' \in SUBSET ((1..MaxRevisions) \X Urls) /\ alias' \ alias = {}
    BY DEF SearchInv, SearchTyped
<1>3. \A s \in Searches : request'[s] # Unasked =>
          AsksTruly(request'[s]) /\ (request[s] # Unasked /\ request'[s].seen = request[s].seen)
    BY DEF SearchInv
<1>. QED
    BY <1>1, <1>2, <1>3, NewRevisionKeeps

\* The state of the review and of the file moves alone.
LEMMA StateMoves ==
    ASSUME SearchInv, UNCHANGED <<revision, alias, request>>,
           reviewState' \in {"preparing", "ready", "needs_attention", "applying"}, drifted' \in BOOLEAN
    PROVE  SearchInv'
BY DEF SearchInv, SearchTyped, AsksTruly, SeenIsRevision, AliasIsOld, Unasked

\* Every step keeps it.
LEMMA SearchInductive == SearchInv /\ [SearchNext]_searchVars => SearchInv'
<1>. SUFFICES ASSUME SearchInv, [SearchNext]_searchVars PROVE SearchInv'
    OBVIOUS
<1>0. reviewState \in {"preparing", "ready", "needs_attention", "applying"} /\ drifted \in BOOLEAN
    BY DEF SearchInv, SearchTyped
<1>1. ASSUME NEW r \in Searches, NEW c \in Candidates, NEW force \in BOOLEAN, AskImport(r, c, force)
      PROVE SearchInv'
    BY <1>1, AskImportKeeps
<1>2. ASSUME NEW r \in Searches, NEW u \in Urls, NEW force \in BOOLEAN, AskUrl(r, u, force)
      PROVE SearchInv'
    BY <1>2, AskUrlKeeps
<1>3. ASSUME NEW r \in Searches, NEW c \in Candidates, AskTrack(r, c) PROVE SearchInv'
    BY <1>3, AskTrackKeeps
<1>4. ASSUME NEW r \in Searches, NEW why \in {"not_found", "failed"}, FetchFails(r, why)
      PROVE SearchInv'
    BY <1>4, FetchFailsKeeps
<1>5. ASSUME NEW r \in Searches,
             Fetched(r) \/ CaptureInitialSourceGuards(r) \/ ImportHydratedCandidate(r)
      PROVE SearchInv'
    BY <1>5, FetchedKeeps, CaptureKeeps, ImportKeeps
<1>6. ASSUME NEW r \in Searches, Forget(r) PROVE SearchInv'
  <2>1. /\ request' = [request EXCEPT ![r] = Unasked]
        /\ UNCHANGED <<revision, reviewState, drifted, alias>>
    BY <1>6 DEF Forget
  <2>2. alias \in SUBSET ((1..MaxRevisions) \X Urls)
    BY DEF SearchInv, SearchTyped
  <2>. QED
    BY <2>1, <2>2, RequestMoves
<1>7. ASSUME NEW c \in Candidates, AutoMatch(c) PROVE SearchInv'
    BY <1>7, OthersWrite DEF AutoMatch
<1>8. CASE EditByHand \/ MatchUnsettled
    BY <1>8, OthersWrite DEF EditByHand, MatchUnsettled
<1>9. CASE ApplyChosen \/ ApplyFails \/ FileChanges \/ Rescan
    BY <1>0, <1>9, StateMoves DEF ApplyChosen, ApplyFails, FileChanges, Rescan
<1>10. CASE UNCHANGED searchVars
    BY <1>0, <1>10, StateMoves DEF searchVars
<1>. QED
    BY <1>1, <1>2, <1>3, <1>4, <1>5, <1>6, <1>7, <1>8, <1>9, <1>10 DEF SearchNext

\* It is an invariant.
LEMMA SearchInvariance == SearchSpec => []SearchInv
BY SearchInitially, SearchInductive, PTL DEF SearchSpec

\* It gives the types and the truth of what is remembered.
LEMMA SearchTypesFollow == SearchInv => SearchTypeOK /\ AliasIsTrue
<1>. SUFFICES ASSUME SearchInv PROVE SearchTypeOK /\ AliasIsTrue
    OBVIOUS
<1>1. \A r \in Searches : request[r] = Unasked \/ request[r].seen.no <= revision.no
    BY DEF SearchInv, SeenIsRevision
<1>2. AliasIsTrue
    BY DEF SearchInv, SearchTyped, AliasIsOld, AliasIsTrue, Remembers, Chosen
<1>. QED
    BY <1>1, <1>2 DEF SearchInv, SearchTyped, SearchTypeOK, Chosen

\* A step that takes a manual value away is the selection a request had confirmed, or a match
\* that selected nothing.
LEMMA ManualStays == SearchInv /\ [SearchNext]_searchVars => [KeepsManual]_searchVars
<1>. SUFFICES ASSUME SearchInv, SearchNext, revision.manual, ~revision'.manual, ~MatchUnsettled
              PROVE  \E r \in Searches : /\ request[r] # Unasked /\ request[r].force
                                         /\ request'[r].answer = "selected"
  <2>1. MatchUnsettled => KeepsManual
    <3>. SUFFICES ASSUME MatchUnsettled
                  PROVE  revision'.candidate = None /\ reviewState' = "needs_attention"
      BY DEF KeepsManual
    <3>1. Room /\ revision' = Composed(None, "match", FALSE)
      BY DEF MatchUnsettled
    <3>2. revision'.candidate = None
      BY <3>1 DEF Composed
    <3>. QED
      BY <3>2 DEF MatchUnsettled
  <2>. QED
    BY <2>1 DEF KeepsManual
<1>1. PICK r \in Searches : ImportHydratedCandidate(r)
    BY DEF SearchNext, AskImport, AskUrl, AskTrack, FetchFails, Fetched,
           CaptureInitialSourceGuards, Forget, AutoMatch, EditByHand, ApplyChosen, ApplyFails,
           FileChanges, Rescan
<1>2. request[r] # Unasked /\ request[r] \in Questions
    BY <1>1, IsQuestion DEF ImportHydratedCandidate
<1>3. Allows(r) /\ request' = [request EXCEPT ![r].step = "answered", ![r].answer = "selected"]
    BY <1>1 DEF ImportHydratedCandidate, Answer
<1>4. request[r].force
    BY <1>3 DEF Allows
<1>5. request'[r] = [request[r] EXCEPT !.step = "answered", !.answer = "selected"]
    BY <1>3 DEF SearchInv, SearchTyped
<1>6. request'[r].answer = "selected"
    BY <1>2, <1>5 DEF Questions
<1>. QED
    BY <1>2, <1>4, <1>6

-----------------------------------------------------------------------------
(* Reviews: the inductive invariant.                                        *)

\* The requests that read a revision before they write the next one.
Composing(r) == seen[r] # Nothing /\ seen[r].kind \in Kinds \cup {"found"}

\* A revision number stands for one set of sections: decisions change within a
\* revision, sections only with a new one.  This is what the check of the number
\* in put_revision is worth to a request that read long ago.
ReadsAreVersioned ==
    \A r \in Requests : Composing(r) =>
        /\ seen[r].no <= no[seen[r].b]
        /\ seen[r].no = no[seen[r].b] => DOMAIN seen[r].ops = DOMAIN rev[seen[r].b].ops

\* A review that was never opened has nothing to lose, and whoever read that
\* it was not there is about to open it.
AbsentIsEmpty ==
    \A b \in Bundles : state[b] = "absent" =>
        /\ rev[b] = Empty
        /\ task[b] = "idle" /\ run[b] = "none"
        /\ \A r \in Requests : Composing(r) /\ seen[r].b = b =>
               seen[r].state = "absent" /\ seen[r].kind \in {"match", "manual"}

IInv == TypeOK /\ OneWriter /\ ReadsAreVersioned /\ AbsentIsEmpty

-----------------------------------------------------------------------------
(* What is stored and what is read.                                         *)

\* A map of decisions on sections that the run knows is what a revision holds.
LEMMA OpsOfSections ==
    ASSUME NEW sections \in SUBSET Sections, NEW ops \in [sections -> Decisions]
    PROVE  ops \in Ops
BY DEF Ops

\* The decisions of a revision are those on some of the sections.
LEMMA OpsTyped ==
    ASSUME NEW ops \in Ops
    PROVE  DOMAIN ops \in SUBSET Sections /\ ops \in [DOMAIN ops -> Decisions]
<1>1. PICK sections \in SUBSET Sections : ops \in [sections -> Decisions]
    BY DEF Ops
<1> QED BY <1>1

\* Decisions carried over are decisions, on exactly the sections asked for.
LEMMA CarriedTyped ==
    ASSUME NEW old \in Ops, NEW sections \in SUBSET Sections, NEW fresh
    PROVE  /\ Carried(old, sections, fresh) \in Ops
           /\ DOMAIN Carried(old, sections, fresh) = sections
<1>1. old \in [DOMAIN old -> Decisions]
    BY OpsTyped
<1>2. Carried(old, sections, fresh) \in [sections -> Decisions]
    BY <1>1 DEF Carried, Decisions
<1>3. Carried(old, sections, fresh) \in Ops
    BY <1>2, OpsOfSections
<1> QED BY <1>2, <1>3

\* An empty revision is one.
LEMMA EmptyTyped == Empty \in Revisions /\ Empty.ops \in Ops /\ DOMAIN Empty.ops = {}
<1>1. Undecided({}) \in [{} -> Decisions]
    BY DEF Undecided, Decisions
<1>2. Undecided({}) \in Ops
    BY <1>1, OpsOfSections
<1> QED BY <1>1, <1>2 DEF Empty, Revisions

\* What a request that composes a revision has read.
LEMMA SeenTyped ==
    ASSUME TypeOK, NEW r \in Requests, Composing(r)
    PROVE  /\ seen[r] \in [kind : Kinds \cup {"found"}, b : Bundles, state : States,
                           no : Nat, ops : Ops]
           /\ seen[r].b \in Bundles /\ seen[r].state \in States
           /\ seen[r].no \in Nat /\ seen[r].ops \in Ops
<1>1. seen[r] \in Seen
    BY DEF TypeOK
<1>2. seen[r] \notin [kind : {"apply", "start"}, b : Bundles, state : States]
    BY DEF Composing, Kinds
<1>3. seen[r] # Nothing
    BY DEF Composing
<1>4. seen[r] \in [kind : Kinds \cup {"found"}, b : Bundles, state : States,
                   no : Nat, ops : Ops]
    BY <1>1, <1>2, <1>3 DEF Seen
<1> QED BY <1>4

\* What a request that starts an Apply has read.
LEMMA SeenStart ==
    ASSUME TypeOK, NEW r \in Requests, seen[r] # Nothing, seen[r].kind \in {"apply", "start"}
    PROVE  /\ seen[r] \in [kind : {"apply", "start"}, b : Bundles, state : States]
           /\ seen[r].b \in Bundles
<1>1. seen[r] \in Seen
    BY DEF TypeOK
<1>2. seen[r] \notin [kind : Kinds \cup {"found"}, b : Bundles, state : States,
                      no : Nat, ops : Ops]
    BY DEF Kinds
<1>3. seen[r] \in [kind : {"apply", "start"}, b : Bundles, state : States]
    BY <1>1, <1>2 DEF Seen
<1> QED BY <1>3

-----------------------------------------------------------------------------
(* What a step may do, whichever handler takes it.                          *)

\* A step about one review leaves the others alone.
Elsewhere(b) ==
    \A c \in Bundles \ {b} :
        /\ state'[c] = state[c] /\ no'[c] = no[c] /\ rev'[c] = rev[c]
        /\ task'[c] = task[c] /\ run'[c] = run[c]

\* Nobody has read anything new.
Forgets == \A r \in Requests : seen'[r] \in {seen[r], Nothing}

\* The review has been opened, and its sections change with its number only.
Alters(b) ==
    /\ Forgets
    /\ Elsewhere(b)
    /\ state'[b] # "absent"
    /\ \/ no'[b] > no[b]
       \/ no'[b] = no[b] /\ DOMAIN rev'[b].ops = DOMAIN rev[b].ops

\* The review is not about to be written to the file, and is not afterwards.
SameRuns(b) == run' = run /\ (state'[b] = "applying" <=> state[b] = "applying")

\* Such a step keeps what requests have read true.
LEMMA AltersKeepsReads ==
    ASSUME IInv, TypeOK', NEW b \in Bundles, Alters(b)
    PROVE  ReadsAreVersioned' /\ AbsentIsEmpty'
<1> USE DEF IInv, Alters
<1>1. ASSUME NEW r \in Requests, Composing(r)'
      PROVE  seen'[r] = seen[r] /\ Composing(r)
    BY <1>1 DEF Composing, Forgets
<1>2. ASSUME NEW r \in Requests, Composing(r)'
      PROVE  /\ seen'[r].no <= no'[seen'[r].b]
             /\ seen'[r].no = no'[seen'[r].b]
                    => DOMAIN seen'[r].ops = DOMAIN rev'[seen'[r].b].ops
    <2> DEFINE c == seen[r].b
    <2>1. seen'[r] = seen[r] /\ Composing(r) /\ c \in Bundles /\ seen[r].no \in Nat
        BY <1>1, <1>2, SeenTyped
    <2>2. /\ seen[r].no <= no[c]
          /\ seen[r].no = no[c] => DOMAIN seen[r].ops = DOMAIN rev[c].ops
        BY <2>1 DEF ReadsAreVersioned
    <2>3. no[c] \in Nat /\ no'[c] \in Nat
        BY <2>1 DEF TypeOK
    <2>4. CASE c = b
        BY <2>1, <2>2, <2>3, <2>4
    <2>5. CASE c # b
        BY <2>1, <2>2, <2>5 DEF Elsewhere
    <2> QED BY <2>4, <2>5
<1>3. ASSUME NEW c \in Bundles, state'[c] = "absent"
      PROVE  /\ rev'[c] = Empty
             /\ task'[c] = "idle" /\ run'[c] = "none"
             /\ \A r \in Requests : Composing(r)' /\ seen'[r].b = c =>
                    seen'[r].state = "absent" /\ seen'[r].kind \in {"match", "manual"}
    <2>1. /\ c # b /\ state[c] = "absent" /\ rev'[c] = rev[c]
          /\ task'[c] = task[c] /\ run'[c] = run[c]
        BY <1>3 DEF Elsewhere
    <2> QED BY <2>1, <1>1 DEF AbsentIsEmpty
<1>4. ReadsAreVersioned'
    BY <1>2 DEF ReadsAreVersioned
<1>5. AbsentIsEmpty'
    BY <1>3 DEF AbsentIsEmpty
<1> QED BY <1>4, <1>5

\* A step that does not touch the runs leaves the file to whoever writes it.
LEMMA SameRunsKeepsWriter ==
    ASSUME OneWriter, NEW b \in Bundles, Elsewhere(b), SameRuns(b)
    PROVE  OneWriter'
<1>1. Writers' = Writers
    BY DEF Writers, SameRuns
<1>2. \A c \in Bundles : state'[c] = "applying" <=> state[c] = "applying"
    BY DEF Elsewhere, SameRuns
<1>3. \A c \in Bundles : RunActive(c)' <=> RunActive(c)
    BY DEF RunActive, SameRuns
<1> QED BY <1>1, <1>2, <1>3 DEF OneWriter

-----------------------------------------------------------------------------
(* Requests that store a revision.                                          *)

\* An applied, failed or running review is not moved by a composition.
LEMMA MovesAre ==
    ASSUME NEW s \in States, NEW t \in Open \cup {"discarded"}, MayMove(s, t)
    PROVE  s \in Open \cup {"discarded"}
BY DEF MayMove, Edges, Open, States

\* Of an absent review a request that composes has read just that.
LEMMA AbsentRead ==
    ASSUME IInv, NEW r \in Requests, Composing(r), state[seen[r].b] = "absent"
    PROVE  seen[r].state = "absent" /\ seen[r].kind \in {"match", "manual"}
<1>1. seen[r].b \in Bundles
    BY SeenTyped DEF IInv
<1> QED BY <1>1 DEF IInv, AbsentIsEmpty

\* What put_revision amounts to together with the move of the bundle.
Stores(r, new, s, t) ==
    /\ Put(r, new)
    /\ state' = [state EXCEPT ![seen[r].b] = s]
    /\ task' = [task EXCEPT ![seen[r].b] = t]
    /\ Ends(r)
    /\ run' = run

\* A revision that is stored alters one review that nobody is applying, and
\* answers its request.
LEMMA StoresEffect ==
    ASSUME IInv, NEW r \in Requests, Composing(r), NEW new \in Revisions,
           NEW s \in Open \cup {"discarded"}, NEW t \in TaskStates, Stores(r, new, s, t)
    PROVE  /\ TypeOK' /\ Alters(seen[r].b) /\ SameRuns(seen[r].b)
           /\ seen'[r] = Nothing
           /\ state[seen[r].b] \in Open \cup {"absent"}
           /\ rev'[seen[r].b] = new
           /\ DOMAIN seen[r].ops = DOMAIN rev[seen[r].b].ops
           /\ \A c \in Bundles : c # seen[r].b => rev'[c] = rev[c] /\ state'[c] = state[c]
<1> DEFINE b == seen[r].b
<1> USE DEF IInv
<1>1. b \in Bundles
    BY SeenTyped
<1>2. /\ state \in [Bundles -> States] /\ no \in [Bundles -> Nat]
      /\ rev \in [Bundles -> Revisions] /\ task \in [Bundles -> TaskStates]
      /\ run \in [Bundles -> RunStates] /\ seen \in [Requests -> Seen]
      /\ MaxRevision \in [Bundles -> Nat]
    BY ReviewsConstantsAssumption DEF TypeOK
<1>3. /\ no[b] = seen[r].no /\ state[b] \in Open \cup {"absent"} /\ no[b] < MaxRevision[b]
      /\ no' = [no EXCEPT ![b] = @ + 1] /\ rev' = [rev EXCEPT ![b] = new]
    BY DEF Stores, Put
<1>4. /\ state' = [state EXCEPT ![b] = s] /\ task' = [task EXCEPT ![b] = t]
      /\ seen' = [seen EXCEPT ![r] = Nothing] /\ run' = run
    BY DEF Stores, Ends
<1>5. s \in States /\ s # "absent" /\ s # "applying" /\ Nothing \in Seen
    BY DEF States, Open, Seen
<1>6. /\ state'[b] = s /\ no'[b] = no[b] + 1 /\ rev'[b] = new /\ seen'[r] = Nothing
      /\ \A c \in Bundles : c # b =>
             state'[c] = state[c] /\ no'[c] = no[c] /\ rev'[c] = rev[c] /\ task'[c] = task[c]
      /\ \A q \in Requests : seen'[q] \in {seen[q], Nothing}
    BY <1>1, <1>2, <1>3, <1>4
<1>7. TypeOK'
    <2>1. state' \in [Bundles -> States]
        BY <1>2, <1>4, <1>5
    <2>2. no' \in [Bundles -> Nat]
        <3>1. no[b] + 1 \in Nat
            BY <1>1, <1>2
        <3> QED BY <3>1, <1>2, <1>3
    <2>3. \A c \in Bundles : no'[c] <= MaxRevision[c]
        <3> TAKE c \in Bundles
        <3>1. CASE c = b
            BY <3>1, <1>1, <1>2, <1>3, <1>6
        <3>2. CASE c # b
            BY <3>2, <1>6 DEF TypeOK
        <3> QED BY <3>1, <3>2
    <2>4. rev' \in [Bundles -> Revisions]
        BY <1>2, <1>3
    <2>5. task' \in [Bundles -> TaskStates]
        BY <1>2, <1>4
    <2>6. seen' \in [Requests -> Seen]
        BY <1>2, <1>4, <1>5
    <2>7. run' \in [Bundles -> RunStates]
        BY <1>2, <1>4
    <2> QED BY <2>1, <2>2, <2>3, <2>4, <2>5, <2>6, <2>7 DEF TypeOK
<1>8. Alters(b)
    <2>1. no'[b] > no[b]
        BY <1>1, <1>2, <1>6
    <2> QED BY <2>1, <1>4, <1>5, <1>6 DEF Alters, Forgets, Elsewhere
<1>9. SameRuns(b)
    BY <1>3, <1>4, <1>5, <1>6 DEF SameRuns, Open
<1>10. DOMAIN seen[r].ops = DOMAIN rev[b].ops
    BY <1>3 DEF ReadsAreVersioned
<1> QED BY <1>3, <1>6, <1>7, <1>8, <1>9, <1>10

\* A composition is such a step.
LEMMA ComposesStores ==
    ASSUME IInv, NEW r \in Requests, Composing(r), NEW sections, NEW fresh,
           NEW unresolved \in BOOLEAN, NEW target \in {"ready", "needs_attention", "discarded"},
           Composes(r, sections, fresh, unresolved, target)
    PROVE  \E s \in Open \cup {"discarded"}, new \in Revisions :
               /\ Stores(r, new, s, task[seen[r].b])
               /\ DOMAIN new.ops = sections \cap Sections
               /\ new.unresolved = unresolved
<1> DEFINE b   == seen[r].b
           new == [ops |-> Carried(seen[r].ops, sections \cap Sections, fresh),
                   unresolved |-> unresolved]
<1> USE DEF IInv
<1>1. b \in Bundles /\ seen[r].ops \in Ops
    BY SeenTyped
<1>2. /\ Carried(seen[r].ops, sections \cap Sections, fresh) \in Ops
      /\ DOMAIN Carried(seen[r].ops, sections \cap Sections, fresh) = sections \cap Sections
    <2>1. sections \cap Sections \in SUBSET Sections
        OBVIOUS
    <2> QED BY <1>1, <2>1, CarriedTyped
<1>3. new \in Revisions /\ DOMAIN new.ops = sections \cap Sections /\ new.unresolved = unresolved
    BY <1>2 DEF Revisions
<1>4. Put(r, new) /\ Moves(r, target) /\ Ends(r) /\ task' = task /\ run' = run
    BY DEF Composes
<1>5. /\ state \in [Bundles -> States] /\ task \in [Bundles -> TaskStates]
      /\ state[b] \in Open \cup {"absent"}
    BY <1>4 DEF TypeOK, Put
<1>6. task' = [task EXCEPT ![b] = task[b]]
    BY <1>4, <1>5
<1>7. PICK s \in Open \cup {"discarded"} : state' = [state EXCEPT ![b] = s]
    <2>1. CASE seen[r].state = target
        <3>1. state' = state
            BY <2>1, <1>4 DEF Moves
        <3>2. state[b] # "absent"
            BY <2>1, AbsentRead
        <3> QED BY <3>1, <3>2, <1>5
    <2>2. CASE seen[r].state # target
        BY <2>2, <1>4 DEF Moves, Open
    <2> QED BY <2>1, <2>2
<1>8. Stores(r, new, s, task[b])
    BY <1>4, <1>6, <1>7 DEF Stores
<1> QED BY <1>3, <1>7, <1>8


\* What every step has to keep: the invariant, and what the user decided.
StepKeeps == IInv' /\ KeepsDiscard /\ KeepsEdit

\* A revision may be stored that keeps the manual value, that belongs to an
\* unresolved match, or that the user chose instead.
MayReplace(r, new) ==
    \/ "edit" \in DOMAIN seen[r].ops => "edit" \in DOMAIN new.ops
    \/ new.unresolved
    \/ seen[r].kind \in {"choose", "skip"}

\* Storing a revision that drops no manual value keeps the invariant.
LEMMA StoresKeep ==
    ASSUME IInv, NEW r \in Requests, Composing(r), NEW new \in Revisions,
           NEW s \in Open \cup {"discarded"}, NEW t \in TaskStates, Stores(r, new, s, t),
           MayReplace(r, new)
    PROVE  StepKeeps
<1> DEFINE b == seen[r].b
<1>1. b \in Bundles
    BY SeenTyped DEF IInv
<1>2. /\ TypeOK' /\ Alters(b) /\ SameRuns(b)
      /\ seen'[r] = Nothing
      /\ state[b] \in Open \cup {"absent"}
      /\ rev'[b] = new
      /\ DOMAIN seen[r].ops = DOMAIN rev[b].ops
      /\ \A c \in Bundles : c # b => rev'[c] = rev[c] /\ state'[c] = state[c]
    BY StoresEffect
<1>3. ReadsAreVersioned' /\ AbsentIsEmpty'
    BY <1>1, <1>2, AltersKeepsReads
<1>4. OneWriter'
    BY <1>1, <1>2, SameRunsKeepsWriter DEF IInv, Alters
<1>5. KeepsDiscard
    BY <1>2 DEF KeepsDiscard, Open
<1>6. KeepsEdit
    <2>1. ASSUME NEW c \in Bundles, "edit" \in DOMAIN rev[c].ops \ DOMAIN rev'[c].ops
          PROVE  \/ \E q \in Requests : By(q, c, {"choose", "skip"})
                 \/ rev'[c].unresolved
        <3>1. c = b
            BY <2>1, <1>2
        <3>2. new.unresolved \/ seen[r].kind \in {"choose", "skip"}
            BY <3>1, <2>1, <1>2 DEF MayReplace
        <3> QED BY <3>1, <3>2, <1>2 DEF By, Composing
    <2> QED BY <2>1 DEF KeepsEdit
<1> QED BY <1>2, <1>3, <1>4, <1>5, <1>6 DEF StepKeeps, IInv

\* Composing a revision that keeps the user's section, or asks the user, keeps
\* the invariant.
LEMMA ComposesKeep ==
    ASSUME IInv, NEW r \in Requests, Composing(r), NEW sections, NEW fresh,
           NEW unresolved \in BOOLEAN, NEW target \in {"ready", "needs_attention", "discarded"},
           Composes(r, sections, fresh, unresolved, target),
           \/ "edit" \in DOMAIN seen[r].ops => "edit" \in sections
           \/ unresolved
           \/ seen[r].kind \in {"choose", "skip"}
    PROVE  StepKeeps
<1>1. PICK s \in Open \cup {"discarded"}, new \in Revisions :
          /\ Stores(r, new, s, task[seen[r].b])
          /\ DOMAIN new.ops = sections \cap Sections
          /\ new.unresolved = unresolved
    BY ComposesStores
<1>2. seen[r].ops \in Ops /\ seen[r].b \in Bundles
    BY SeenTyped DEF IInv
<1>3. DOMAIN seen[r].ops \in SUBSET Sections
    BY <1>2, OpsTyped
<1>4. MayReplace(r, new)
    BY <1>1, <1>3 DEF MayReplace
<1>5. task[seen[r].b] \in TaskStates
    BY <1>2 DEF IInv, TypeOK
<1> QED BY <1>1, <1>4, <1>5, StoresKeep

\* A revision with other sections of the current one, the review left where it
\* is: the request did not read that it was absent.
LEMMA RevisesKeep ==
    ASSUME IInv, NEW r \in Requests, Composing(r), seen[r].kind \notin {"match", "manual"},
           NEW ops \in Ops, Put(r, [rev[seen[r].b] EXCEPT !.ops = ops]),
           "edit" \in DOMAIN seen[r].ops => "edit" \in DOMAIN ops,
           Ends(r), UNCHANGED <<state, task, run>>
    PROVE  StepKeeps
<1> DEFINE b   == seen[r].b
           new == [rev[b] EXCEPT !.ops = ops]
<1>1. b \in Bundles
    BY SeenTyped DEF IInv
<1>2. /\ state \in [Bundles -> States] /\ task \in [Bundles -> TaskStates]
      /\ rev[b] \in Revisions
    BY <1>1 DEF IInv, TypeOK
<1>3. new \in Revisions /\ new.ops = ops
    BY <1>2 DEF Revisions
<1>4. state[b] \in Open \cup {"discarded"}
    <2>1. state[b] \in Open \cup {"absent"}
        BY DEF Put
    <2> QED BY <2>1, AbsentRead
<1>5. Stores(r, new, state[b], task[b])
    BY <1>2 DEF Stores
<1>6. MayReplace(r, new)
    BY <1>3 DEF MayReplace
<1>7. task[b] \in TaskStates
    BY <1>1, <1>2
<1> QED BY <1>3, <1>4, <1>5, <1>6, <1>7, StoresKeep

-----------------------------------------------------------------------------
(* Each request that writes keeps the invariant and what the user decided.   *)

\* The invariant, and the user's choices, survive a match that selects.
LEMMA MatchSelectsKeeps ==
    ASSUME IInv, NEW r \in Requests, seen[r] # Nothing, MatchSelects(r)
    PROVE  StepKeeps
<1>1. Composing(r)
    BY DEF MatchSelects, Composing, Kinds
<1> DEFINE sections == {"tags"} \cup EditsKept(r) \cup (Kept(r) \cap {"extra"})
<1>2. Composes(r, sections, {"tags"}, FALSE, "ready")
    BY DEF MatchSelects
<1>3. "edit" \in DOMAIN seen[r].ops => "edit" \in sections
    BY DEF EditsKept, Kept
<1> QED BY <1>1, <1>2, <1>3, ComposesKeep

\* The invariant, and the user's choices, survive a match that selects nothing.
LEMMA MatchUnresolvedKeeps ==
    ASSUME IInv, NEW r \in Requests, seen[r] # Nothing, MatchUnresolved(r)
    PROVE  StepKeeps
<1>1. Composing(r)
    BY DEF MatchUnresolved, Composing, Kinds
<1>2. Composes(r, {}, {}, TRUE, "needs_attention")
    BY DEF MatchUnresolved
<1> QED BY <1>1, <1>2, ComposesKeep

\* The invariant, and the user's choices, survive the user's choice of a
\* candidate.
LEMMA ChooseKeeps ==
    ASSUME IInv, NEW r \in Requests, seen[r] # Nothing, Choose(r)
    PROVE  StepKeeps
<1>1. Composing(r) /\ seen[r].kind = "choose"
    BY DEF Choose, Composing, Kinds
<1>2. PICK force \in BOOLEAN :
          Composes(r, {"tags"} \cup (Kept(r) \cap {"extra"})
                          \cup (IF force THEN {} ELSE EditsKept(r)), {"tags"}, FALSE, "ready")
    BY DEF Choose
<1> QED BY <1>1, <1>2, ComposesKeep

\* The invariant, and the user's choices, survive a manual search.
LEMMA ManualKeeps ==
    ASSUME IInv, NEW r \in Requests, seen[r] # Nothing, Manual(r)
    PROVE  StepKeeps
<1>1. Composing(r)
    BY DEF Manual, Composing, Kinds
<1>2. Composes(r, Kept(r) \cup {"edit"}, {"edit"}, FALSE, "ready")
    BY DEF Manual
<1> QED BY <1>1, <1>2, ComposesKeep

\* The invariant, and the user's choices, survive a skip.
LEMMA SkipKeeps ==
    ASSUME IInv, NEW r \in Requests, seen[r] # Nothing, Skip(r)
    PROVE  StepKeeps
<1>1. Composing(r) /\ seen[r].kind = "skip"
    BY DEF Skip, Composing, Kinds
<1>2. Composes(r, {}, {}, FALSE, "discarded")
    BY DEF Skip
<1> QED BY <1>1, <1>2, ComposesKeep

\* The invariant, and the user's choices, survive the choice of a cover.
LEMMA CoverKeeps ==
    ASSUME IInv, NEW r \in Requests, seen[r] # Nothing, Cover(r)
    PROVE  StepKeeps
<1>1. Composing(r) /\ seen[r].kind = "cover"
    BY DEF Cover, Composing, Kinds
<1>2. PICK extra \in SUBSET ({"extra"} \cap Sections) :
          Put(r, [rev[seen[r].b] EXCEPT
                      !.ops = Carried(seen[r].ops, (Kept(r) \ {"extra"}) \cup extra, {"extra"})])
    BY DEF Cover
<1> DEFINE sections == (Kept(r) \ {"extra"}) \cup extra
           ops      == Carried(seen[r].ops, sections, {"extra"})
<1>3. seen[r].ops \in Ops
    BY <1>1, SeenTyped DEF IInv
<1>4. sections \in SUBSET Sections
    BY <1>2, <1>3, OpsTyped DEF Kept
<1>5. ops \in Ops /\ DOMAIN ops = sections
    BY <1>3, <1>4, CarriedTyped
<1>6. "edit" \in DOMAIN seen[r].ops => "edit" \in DOMAIN ops
    BY <1>5 DEF Kept
<1>7. Ends(r) /\ UNCHANGED <<state, task, run>>
    BY DEF Cover
<1> QED BY <1>1, <1>2, <1>5, <1>6, <1>7, RevisesKeep

\* The invariant, and the user's choices, survive an edit.
LEMMA EditKeeps ==
    ASSUME IInv, NEW r \in Requests, seen[r] # Nothing, Edit(r)
    PROVE  StepKeeps
<1> DEFINE old         == seen[r].ops
           edited(o)   == IF o = "tags" THEN "edit" ELSE o
           sections(o) == (DOMAIN old \ {o}) \cup {edited(o)}
           ops(o)      == [Carried(old, sections(o), {edited(o)}) EXCEPT ![edited(o)] = "accepted"]
<1>1. Composing(r) /\ seen[r].kind = "edit"
    BY DEF Edit, Composing, Kinds
<1>2. PICK o \in DOMAIN old :
          edited(o) \in Sections /\ Put(r, [rev[seen[r].b] EXCEPT !.ops = ops(o)])
    BY DEF Edit
<1>3. old \in Ops
    BY <1>1, SeenTyped DEF IInv
<1>4. sections(o) \in SUBSET Sections
    BY <1>2, <1>3, OpsTyped
<1>5. /\ Carried(old, sections(o), {edited(o)}) \in Ops
      /\ DOMAIN Carried(old, sections(o), {edited(o)}) = sections(o)
    BY <1>3, <1>4, CarriedTyped
<1>6. ops(o) \in [sections(o) -> Decisions]
    <2>1. Carried(old, sections(o), {edited(o)}) \in [sections(o) -> Decisions]
        BY <1>5, OpsTyped
    <2> QED BY <2>1 DEF Decisions
<1>7. ops(o) \in Ops /\ DOMAIN ops(o) = sections(o)
    BY <1>4, <1>6, OpsOfSections
<1>8. "edit" \in DOMAIN old => "edit" \in DOMAIN ops(o)
    BY <1>7
<1>9. Ends(r) /\ UNCHANGED <<state, task, run>>
    BY DEF Edit
<1> QED BY <1>1, <1>2, <1>7, <1>8, <1>9, RevisesKeep

\* The invariant, and the user's choices, survive a revision that repeats the last.
LEMMA RefreshKeeps ==
    ASSUME IInv, NEW r \in Requests, seen[r] # Nothing, Refresh(r)
    PROVE  StepKeeps
<1> DEFINE b == seen[r].b
<1>1. Composing(r) /\ seen[r].kind = "refresh"
    BY DEF Refresh, Composing, Kinds
<1>2. b \in Bundles
    BY <1>1, SeenTyped DEF IInv
<1>3. rev[b] \in Revisions /\ rev[b].ops \in Ops
    BY <1>2 DEF IInv, TypeOK, Revisions
<1>4. [rev[b] EXCEPT !.ops = rev[b].ops] = rev[b]
    BY <1>3 DEF Revisions
<1>5. Put(r, rev[b]) /\ Ends(r) /\ UNCHANGED <<state, task, run>>
    BY DEF Refresh
<1>6. DOMAIN seen[r].ops = DOMAIN rev[b].ops
    BY <1>1, <1>5 DEF IInv, ReadsAreVersioned, Put
<1> QED BY <1>1, <1>3, <1>4, <1>5, <1>6, RevisesKeep


\* The invariant, and the user's choices, survive a decision.
LEMMA DecideKeeps ==
    ASSUME IInv, NEW r \in Requests, seen[r] # Nothing, Decide(r)
    PROVE  StepKeeps
<1> DEFINE b    == seen[r].b
           open == IF seen[r].state # "discarded" THEN state[b]
                   ELSE IF task[b] = "failed" THEN "needs_attention" ELSE "ready"
<1> USE DEF IInv
<1>1. Composing(r) /\ seen[r].kind = "decide"
    BY DEF Decide, Composing, Kinds
<1>2. b \in Bundles
    BY <1>1, SeenTyped
<1>3. /\ state \in [Bundles -> States] /\ rev \in [Bundles -> Revisions]
      /\ seen \in [Requests -> Seen]
    BY DEF TypeOK
<1>4. /\ MayMove(state[b], open) /\ open \in Open
      /\ seen' = [seen EXCEPT ![r] = Nothing]
      /\ no' = no /\ task' = task /\ run' = run
    BY DEF Decide, Ends
<1>5. state[b] \in Open \cup {"discarded"}
    BY <1>2, <1>3, <1>4, MovesAre
<1>6. PICK os \in SUBSET DOMAIN rev[b].ops, d \in Decisions :
          LET ops == [o \in DOMAIN rev[b].ops |-> IF o \in os THEN d ELSE rev[b].ops[o]] IN
          /\ rev' = [rev EXCEPT ![b].ops = ops]
          /\ state' = [state EXCEPT ![b] =
                 IF \A o \in DOMAIN ops : ops[o] = "rejected" THEN "discarded" ELSE open]
    BY DEF Decide
<1> DEFINE ops == [o \in DOMAIN rev[b].ops |-> IF o \in os THEN d ELSE rev[b].ops[o]]
           s   == IF \A o \in DOMAIN ops : ops[o] = "rejected" THEN "discarded" ELSE open
<1>7. rev[b] \in Revisions /\ rev[b].ops \in Ops
    BY <1>2, <1>3 DEF Revisions
<1>8. ops \in Ops /\ DOMAIN ops = DOMAIN rev[b].ops
    BY <1>7, OpsTyped, OpsOfSections
<1>9. s \in Open \cup {"discarded"}
    BY <1>4
<1>10. rev' = [rev EXCEPT ![b].ops = ops] /\ state' = [state EXCEPT ![b] = s]
    BY <1>6
<1> HIDE DEF ops, s
<1>11. /\ state'[b] = s /\ rev'[b].ops = ops /\ seen'[r] = Nothing
       /\ \A c \in Bundles : c # b => state'[c] = state[c] /\ rev'[c] = rev[c]
       /\ \A q \in Requests : seen'[q] \in {seen[q], Nothing}
    BY <1>2, <1>3, <1>4, <1>7, <1>10 DEF Revisions
<1>12. TypeOK'
    <2>1. state' \in [Bundles -> States]
        BY <1>3, <1>9, <1>10 DEF States
    <2>2. [rev[b] EXCEPT !.ops = ops] \in Revisions
        BY <1>7, <1>8 DEF Revisions
    <2>3. rev' \in [Bundles -> Revisions]
        BY <2>2, <1>3, <1>10
    <2>4. seen' \in [Requests -> Seen]
        BY <1>3, <1>4 DEF Seen
    <2> QED BY <2>1, <2>3, <2>4, <1>4 DEF TypeOK
<1>13. Alters(b)
    <2>1. no'[b] = no[b] /\ DOMAIN rev'[b].ops = DOMAIN rev[b].ops
        BY <1>4, <1>8, <1>11
    <2>2. state'[b] # "absent"
        BY <1>9, <1>11 DEF Open
    <2> QED BY <2>1, <2>2, <1>4, <1>11 DEF Alters, Forgets, Elsewhere
<1>14. SameRuns(b)
    BY <1>4, <1>5, <1>9, <1>11 DEF SameRuns, Open
<1>15. KeepsDiscard
    BY <1>1, <1>11 DEF KeepsDiscard, By
<1>16. KeepsEdit
    BY <1>8, <1>11 DEF KeepsEdit
<1> QED BY <1>2, <1>12, <1>13, <1>14, <1>15, <1>16, AltersKeepsReads, SameRunsKeepsWriter
        DEF StepKeeps, Alters

\* The outcome of a task moves a review that is open, or leaves it where it is.
LEMMA TaskStepKeeps ==
    ASSUME IInv, NEW b \in Bundles, TaskActive(b) \/ state[b] \in Open,
           NEW t \in TaskStates, task' = [task EXCEPT ![b] = t],
           NEW s \in States, state' = [state EXCEPT ![b] = s],
           \/ s = state[b]
           \/ state[b] \in Open /\ s \in Open
           \/ /\ state[b] = "discarded" /\ s \in Open
              /\ task[b] = "settling" /\ t \in {"failed", "idle"},
           UNCHANGED <<no, rev, run>>, seen' \in [Requests -> Seen], Forgets
    PROVE  StepKeeps
<1> USE DEF IInv
<1>1. state \in [Bundles -> States] /\ task \in [Bundles -> TaskStates]
    BY DEF TypeOK
<1>2. /\ state'[b] = s /\ task'[b] = t
      /\ \A c \in Bundles : c # b => state'[c] = state[c] /\ task'[c] = task[c]
    BY <1>1
<1>3. state[b] # "absent"
    BY DEF AbsentIsEmpty, TaskActive, Open
<1>4. TypeOK'
    <2>1. state' \in [Bundles -> States] /\ task' \in [Bundles -> TaskStates]
        BY <1>1
    <2> QED BY <2>1 DEF TypeOK
<1>5. Alters(b)
    BY <1>2, <1>3 DEF Alters, Elsewhere, Open
<1>6. SameRuns(b)
    BY <1>2 DEF SameRuns, Open
<1>7. KeepsDiscard
    BY <1>2 DEF KeepsDiscard, Open
<1>8. KeepsEdit
    BY DEF KeepsEdit
<1> QED BY <1>4, <1>5, <1>6, <1>7, <1>8, AltersKeepsReads, SameRunsKeepsWriter
        DEF StepKeeps, Alters

\* What a handler has read is one of the states of an attempt.
LEMMA TaskSeesTyped == \A b : TaskSees(b) \in TaskStates
BY DEF TaskSees, TaskStates

\* The invariant, and the user's choices, survive a section that was found.
LEMMA FoundKeeps ==
    ASSUME IInv, NEW r \in Requests, seen[r] # Nothing, Found(r)
    PROVE  StepKeeps
<1> DEFINE b == seen[r].b
<1> USE DEF IInv
<1>1. Composing(r) /\ seen[r].kind = "found"
    BY DEF Found, Composing, Kinds
<1>2. b \in Bundles /\ seen[r].ops \in Ops
    BY <1>1, SeenTyped
<1>3. /\ state \in [Bundles -> States] /\ state[b] \in States /\ rev[b] \in Revisions
      /\ seen \in [Requests -> Seen]
    BY <1>2 DEF TypeOK
<1>4. /\ task[b] = "running" /\ seen' = [seen EXCEPT ![r] = Nothing] /\ Ends(r)
      /\ run' = run
    BY DEF Found, Ends
<1>5. CASE task' = [task EXCEPT ![b] = TaskSees(b)] /\ UNCHANGED reviews
    <2>1. UNCHANGED <<no, rev, run>> /\ state' = [state EXCEPT ![b] = state[b]]
        BY <1>2, <1>3, <1>4, <1>5 DEF reviews
    <2>2. seen' \in [Requests -> Seen] /\ Forgets
        BY <1>3, <1>4 DEF Seen, Forgets
    <2>3. TaskActive(b)
        BY <1>4 DEF TaskActive
    <2> QED BY <2>1, <2>2, <2>3, <1>2, <1>3, <1>5, TaskSeesTyped, TaskStepKeeps
<1>6. ASSUME seen[r].state # "discarded"
      PROVE  StepKeeps
    <2> DEFINE sections == Kept(r) \cup ({"extra"} \cap Sections)
               ops      == Carried(seen[r].ops, sections, {"extra"})
               new      == [rev[b] EXCEPT !.ops = ops]
    <2>1. /\ Put(r, new) /\ task' = [task EXCEPT ![b] = "idle"]
          /\ state' = state \/ state' = [state EXCEPT ![b] = "ready"]
        BY <1>6 DEF Found
    <2>2. sections \in SUBSET Sections
        BY <1>2, OpsTyped DEF Kept
    <2>3. ops \in Ops /\ DOMAIN ops = sections
        BY <2>2, <1>2, CarriedTyped
    <2>4. new \in Revisions /\ new.ops = ops
        BY <2>3, <1>3 DEF Revisions
    <2>5. MayReplace(r, new)
        BY <2>3, <2>4 DEF MayReplace, Kept
    <2>6. state[b] \in Open
        <3>1. state[b] # "absent"
            BY <1>2, <1>4 DEF AbsentIsEmpty
        <3> QED BY <2>1, <3>1 DEF Put
    <2>7. PICK s \in Open : state' = [state EXCEPT ![b] = s]
        <3>1. CASE state' = state
            BY <3>1, <2>6, <1>3
        <3>2. CASE state' = [state EXCEPT ![b] = "ready"]
            BY <3>2 DEF Open
        <3> QED BY <2>1, <3>1, <3>2
    <2>8. Stores(r, new, s, "idle")
        BY <2>1, <2>7, <1>4 DEF Stores
    <2>9. "idle" \in TaskStates
        BY DEF TaskStates
    <2> QED BY <2>4, <2>5, <2>7, <2>8, <2>9, <1>1, StoresKeep
<1> QED BY <1>5, <1>6 DEF Found

-----------------------------------------------------------------------------
(* The worker's tasks.                                                      *)

\* The invariant, and the user's choices, survive that a handler reads a review.
LEMMA TaskReadsKeeps ==
    ASSUME IInv, NEW b \in Bundles, TaskReads(b)
    PROVE  StepKeeps
<1> USE DEF IInv
<1>1. /\ task[b] = "running" /\ task' = [task EXCEPT ![b] = TaskSees(b)]
      /\ UNCHANGED <<state, no, rev, run, seen>>
    BY DEF TaskReads, reviews
<1>2. state \in [Bundles -> States] /\ seen \in [Requests -> Seen]
    BY DEF TypeOK
<1>3. state[b] \in States /\ state' = [state EXCEPT ![b] = state[b]]
    BY <1>1, <1>2
<1>4. TaskActive(b) /\ Forgets
    BY <1>1 DEF TaskActive, Forgets
<1> QED BY <1>1, <1>2, <1>3, <1>4, TaskSeesTyped, TaskStepKeeps

\* The invariant, and the user's choices, survive that it settles its attempt:
\* a discarded review is moved only by one that had read it otherwise.
LEMMA TaskWritesKeeps ==
    ASSUME IInv, NEW b \in Bundles, TaskWrites(b)
    PROVE  StepKeeps
<1> USE DEF IInv
<1>1. PICK end \in {"failed", "idle"} :
          LET target == IF end = "failed" THEN "needs_attention" ELSE "ready" IN
          /\ task' = [task EXCEPT ![b] = end]
          /\ \/ UNCHANGED state
             \/ Settles(b) /\ MayMove(state[b], target) /\ state' = [state EXCEPT ![b] = target]
    BY DEF TaskWrites
<1>2. /\ task[b] \in {"settling", "archived"} /\ UNCHANGED <<no, rev, run, seen>>
      /\ state \in [Bundles -> States] /\ seen \in [Requests -> Seen] /\ state[b] \in States
    BY DEF TaskWrites, TypeOK
<1>3. TaskActive(b) /\ end \in TaskStates /\ Forgets
    BY <1>2 DEF TaskActive, TaskStates, Forgets
<1>4. CASE UNCHANGED state
    <2>1. state' = [state EXCEPT ![b] = state[b]]
        BY <1>2, <1>4
    <2> QED BY <1>1, <1>2, <1>3, <2>1, TaskStepKeeps
<1>5. ASSUME NEW target \in Open, Settles(b), MayMove(state[b], target),
             state' = [state EXCEPT ![b] = target]
      PROVE  StepKeeps
    <2>1. state[b] \in Open \cup {"discarded"} /\ target \in States
        BY <1>2, <1>5, MovesAre DEF States
    <2>2. task[b] = "settling"
        BY <1>5 DEF Settles
    <2> QED BY <1>1, <1>2, <1>3, <1>5, <2>1, <2>2, TaskStepKeeps
<1>6. "ready" \in Open /\ "needs_attention" \in Open
    BY DEF Open
<1> QED BY <1>1, <1>4, <1>5, <1>6

\* The invariant, and the user's choices, survive the end of a task's job.
LEMMA TaskJobEndsKeeps ==
    ASSUME IInv, NEW b \in Bundles, TaskJobEnds(b)
    PROVE  StepKeeps
<1> USE DEF IInv
<1>1. PICK end \in {"failed", "idle"} :
          /\ task' = [task EXCEPT ![b] = end]
          /\ state' = [state EXCEPT ![b] =
                 IF state[b] \notin Open THEN @
                 ELSE IF end = "idle" THEN "ready" ELSE "needs_attention"]
    BY DEF TaskJobEnds
<1> DEFINE s == IF state[b] \notin Open THEN state[b]
                ELSE IF end = "idle" THEN "ready" ELSE "needs_attention"
<1>2. state[b] \in States /\ seen \in [Requests -> Seen]
    BY DEF TypeOK
<1>3. state' = [state EXCEPT ![b] = s]
    BY <1>1
<1>4. s \in States /\ (s = state[b] \/ (state[b] \in Open /\ s \in Open))
    <2>1. CASE state[b] \notin Open
        BY <2>1, <1>2
    <2>2. CASE state[b] \in Open
        BY <2>2 DEF States, Open
    <2> QED BY <2>1, <2>2
<1>5. TaskActive(b) /\ end \in TaskStates /\ Forgets /\ UNCHANGED <<no, rev, run, seen>>
    BY DEF TaskJobEnds, TaskStates, Forgets
<1> HIDE DEF s
<1> QED BY <1>1, <1>2, <1>3, <1>4, <1>5, TaskStepKeeps


\* The invariant, and the user's choices, survive planning a task.
LEMMA PlanTaskKeeps ==
    ASSUME IInv, NEW b \in Bundles, PlanTask(b)
    PROVE  StepKeeps
<1>1. /\ state[b] \in Open /\ task' = [task EXCEPT ![b] = "pending"]
      /\ UNCHANGED <<state, no, rev, run, seen>>
    BY DEF PlanTask, reviews
<1>2. /\ state[b] \in States /\ state \in [Bundles -> States] /\ seen \in [Requests -> Seen]
      /\ "pending" \in TaskStates
    BY DEF IInv, TypeOK, TaskStates
<1>3. state' = [state EXCEPT ![b] = state[b]] /\ Forgets
    BY <1>1, <1>2 DEF Forgets
<1> QED BY <1>1, <1>2, <1>3, TaskStepKeeps

\* The invariant, and the user's choices, survive starting a task.
LEMMA StartTaskKeeps ==
    ASSUME IInv, NEW b \in Bundles, StartTask(b)
    PROVE  StepKeeps
<1>1. /\ state[b] \in Open /\ task' = [task EXCEPT ![b] = "running"]
      /\ UNCHANGED <<state, no, rev, run, seen>>
    BY DEF StartTask, reviews
<1>2. /\ state[b] \in States /\ state \in [Bundles -> States] /\ seen \in [Requests -> Seen]
      /\ "running" \in TaskStates
    BY DEF IInv, TypeOK, TaskStates
<1>3. state' = [state EXCEPT ![b] = state[b]] /\ Forgets
    BY <1>1, <1>2 DEF Forgets
<1> QED BY <1>1, <1>2, <1>3, TaskStepKeeps

-----------------------------------------------------------------------------
(* Reviews that are opened without a request that read them.                *)

\* Opening a review that was absent keeps the invariant.
LEMMA OpensKeep ==
    ASSUME IInv, NEW b \in Bundles, state[b] = "absent", no[b] < MaxRevision[b],
           NEW s \in Open, state' = [state EXCEPT ![b] = s],
           NEW new \in Revisions, rev' = [rev EXCEPT ![b] = new],
           no' = [no EXCEPT ![b] = @ + 1],
           UNCHANGED <<task, run, seen>>
    PROVE  StepKeeps
<1> USE DEF IInv
<1>1. /\ state \in [Bundles -> States] /\ no \in [Bundles -> Nat]
      /\ rev \in [Bundles -> Revisions] /\ MaxRevision \in [Bundles -> Nat]
    BY ReviewsConstantsAssumption DEF TypeOK
<1>2. no[b] + 1 \in Nat /\ no[b] + 1 <= MaxRevision[b] /\ no[b] + 1 > no[b]
    BY <1>1
<1>3. /\ state'[b] = s /\ no'[b] = no[b] + 1 /\ rev'[b] = new
      /\ \A c \in Bundles : c # b => state'[c] = state[c] /\ no'[c] = no[c] /\ rev'[c] = rev[c]
    BY <1>1
<1>4. TypeOK'
    <2>1. state' \in [Bundles -> States]
        BY <1>1 DEF States
    <2>2. no' \in [Bundles -> Nat]
        BY <1>1, <1>2
    <2>3. \A c \in Bundles : no'[c] <= MaxRevision[c]
        BY <1>2, <1>3 DEF TypeOK
    <2>4. rev' \in [Bundles -> Revisions]
        BY <1>1
    <2> QED BY <2>1, <2>2, <2>3, <2>4 DEF TypeOK
<1>5. Alters(b)
    BY <1>2, <1>3 DEF Alters, Forgets, Elsewhere, Open
<1>6. SameRuns(b)
    BY <1>3 DEF SameRuns, Open
<1>7. KeepsDiscard
    BY <1>3 DEF KeepsDiscard
<1>8. KeepsEdit
    BY <1>3, EmptyTyped DEF KeepsEdit, AbsentIsEmpty
<1> QED BY <1>4, <1>5, <1>6, <1>7, <1>8, AltersKeepsReads, SameRunsKeepsWriter
        DEF StepKeeps, Alters

\* The invariant, and the user's choices, survive opening a review.
LEMMA PrepareKeeps ==
    ASSUME IInv, NEW b \in Bundles, Prepare(b)
    PROVE  StepKeeps
<1>1. "preparing" \in Open
    BY DEF Open
<1> QED BY <1>1, EmptyTyped, OpensKeep DEF Prepare

\* The invariant, and the user's choices, survive opening a review of
\* corrections.
LEMMA GroupingKeeps ==
    ASSUME IInv, NEW b \in Bundles, Grouping(b)
    PROVE  StepKeeps
<1> DEFINE new == [Empty EXCEPT !.ops = Undecided({"extra"})]
<1>1. "needs_attention" \in Open
    BY DEF Open
<1>2. "extra" \in Sections
    BY DEF Grouping
<1>3. Undecided({"extra"}) \in [{"extra"} -> Decisions]
    BY DEF Undecided, Decisions
<1>4. Undecided({"extra"}) \in Ops
    BY <1>2, <1>3, OpsOfSections
<1>5. new \in Revisions
    BY <1>4, EmptyTyped DEF Revisions
<1>6. /\ state[b] = "absent" /\ no[b] < MaxRevision[b]
      /\ state' = [state EXCEPT ![b] = "needs_attention"]
      /\ no' = [no EXCEPT ![b] = @ + 1] /\ rev' = [rev EXCEPT ![b] = new]
      /\ UNCHANGED <<task, run, seen>>
    BY DEF Grouping
<1> QED BY <1>1, <1>5, <1>6, OpensKeep

-----------------------------------------------------------------------------
(* Applies and Undos.                                                       *)

\* A run moves together with its review, and past its checks only if no other
\* run of the file is.
LEMMA RunStepKeeps ==
    ASSUME IInv, NEW b \in Bundles,
           NEW x \in RunStates, run' = [run EXCEPT ![b] = x],
           NEW s \in States, state' = [state EXCEPT ![b] = s],
           s = state[b] \/ (state[b] \notin {"absent", "discarded"} /\ s # "absent"),
           run[b] # "none" \/ state[b] # "absent",
           s = "applying" <=> x \in {"pending", "applying", "writing"},
           x \in {"writing", "reverting"} => \A c \in Writers : c = b,
           UNCHANGED <<no, rev, task>>, seen' \in [Requests -> Seen], Forgets
    PROVE  StepKeeps
<1> USE DEF IInv
<1>1. state \in [Bundles -> States] /\ run \in [Bundles -> RunStates]
    BY DEF TypeOK
<1>2. /\ state'[b] = s /\ run'[b] = x
      /\ \A c \in Bundles : c # b => state'[c] = state[c] /\ run'[c] = run[c]
    BY <1>1
<1>3. state[b] # "absent"
    BY DEF AbsentIsEmpty
<1>4. TypeOK'
    <2>1. state' \in [Bundles -> States] /\ run' \in [Bundles -> RunStates]
        BY <1>1
    <2> QED BY <2>1 DEF TypeOK
<1>5. Alters(b)
    BY <1>2, <1>3 DEF Alters, Elsewhere
<1>6. OneWriter'
    <2>1. ASSUME NEW c \in Writers', NEW d \in Writers'
          PROVE  c = d
        <3>1. CASE x \in {"writing", "reverting"}
            BY <2>1, <3>1, <1>2 DEF Writers
        <3>2. CASE x \notin {"writing", "reverting"}
            BY <2>1, <3>2, <1>2 DEF Writers, OneWriter
        <3> QED BY <3>1, <3>2
    <2>2. ASSUME NEW c \in Bundles
          PROVE  state'[c] = "applying" <=> RunActive(c)'
        BY <2>2, <1>2 DEF OneWriter, RunActive
    <2> QED BY <2>1, <2>2 DEF OneWriter
<1>7. KeepsDiscard
    BY <1>2 DEF KeepsDiscard
<1>8. KeepsEdit
    BY DEF KeepsEdit
<1> QED BY <1>4, <1>5, <1>6, <1>7, <1>8, AltersKeepsReads DEF StepKeeps


\* A step of the worker's that leaves the review and the requests alone.
LEMMA QuietRunKeeps ==
    ASSUME IInv, NEW b \in Bundles,
           NEW x \in RunStates, RunTo(b, x), UNCHANGED <<reviews, task, seen>>,
           run[b] # "none",
           RunActive(b) <=> x \in {"pending", "applying", "writing"},
           x \in {"writing", "reverting"} => \A c \in Writers : c = b
    PROVE  StepKeeps
<1>1. /\ state[b] \in States /\ state \in [Bundles -> States] /\ seen \in [Requests -> Seen]
      /\ state[b] = "applying" <=> RunActive(b)
    BY DEF IInv, TypeOK, OneWriter
<1>2. /\ run' = [run EXCEPT ![b] = x] /\ state' = [state EXCEPT ![b] = state[b]]
      /\ UNCHANGED <<no, rev, task>> /\ seen' \in [Requests -> Seen] /\ Forgets
    BY <1>1 DEF RunTo, reviews, Forgets
<1> QED BY <1>1, <1>2, RunStepKeeps

\* Whoever is past its checks is an active run or Undo that others would see.
LEMMA WritersSeen ==
    ASSUME NEW c \in Writers
    PROVE  RunActive(c) \/ UndoActive(c)
BY DEF Writers, RunActive, UndoActive

\* The invariant, and the user's choices, survive a run that begins.
LEMMA BeginKeeps ==
    ASSUME IInv, NEW b \in Bundles, Begin(b)
    PROVE  StepKeeps
<1>1. "applying" \in RunStates
    BY DEF RunStates
<1> QED BY <1>1, QuietRunKeeps DEF Begin, RunActive

\* The invariant, and the user's choices, survive an accepted Apply.
LEMMA AcceptsKeeps ==
    ASSUME IInv, NEW b \in Bundles, Accepts(b)
    PROVE  StepKeeps
<1>1. "writing" \in RunStates
    BY DEF RunStates
<1>2. \A c \in Writers : c = b
    BY WritersSeen DEF Accepts, Conflicts, Others, Writers
<1>3. run[b] = "applying" /\ RunTo(b, "writing") /\ UNCHANGED <<reviews, task, seen>>
    BY DEF Accepts
<1> QED BY <1>1, <1>2, <1>3, QuietRunKeeps DEF RunActive

\* The invariant, and the user's choices, survive a request for an Undo.
LEMMA AskUndoKeeps ==
    ASSUME IInv, NEW b \in Bundles, AskUndo(b)
    PROVE  StepKeeps
<1>1. "undo_pending" \in RunStates
    BY DEF RunStates
<1> QED BY <1>1, QuietRunKeeps DEF AskUndo, RunActive

\* The invariant, and the user's choices, survive an Undo that begins.
LEMMA BeginUndoKeeps ==
    ASSUME IInv, NEW b \in Bundles, BeginUndo(b)
    PROVE  StepKeeps
<1>1. "undoing" \in RunStates
    BY DEF RunStates
<1> QED BY <1>1, QuietRunKeeps DEF BeginUndo, RunActive

\* The invariant, and the user's choices, survive an accepted Undo.
LEMMA AcceptsUndoKeeps ==
    ASSUME IInv, NEW b \in Bundles, AcceptsUndo(b)
    PROVE  StepKeeps
<1>1. "reverting" \in RunStates
    BY DEF RunStates
<1>2. \A c \in Writers : c = b
    BY WritersSeen DEF AcceptsUndo, UndoConflicts, Others, Writers
<1>3. run[b] = "undoing" /\ RunTo(b, "reverting") /\ UNCHANGED <<reviews, task, seen>>
    BY DEF AcceptsUndo
<1> QED BY <1>1, <1>2, <1>3, QuietRunKeeps DEF RunActive

\* The invariant, and the user's choices, survive a refused Undo.
LEMMA RefusesUndoKeeps ==
    ASSUME IInv, NEW b \in Bundles, RefusesUndo(b)
    PROVE  StepKeeps
<1>1. "applied" \in RunStates
    BY DEF RunStates
<1> QED BY <1>1, QuietRunKeeps DEF RefusesUndo, RunActive

\* The invariant, and the user's choices, survive the end of an Undo.
LEMMA UndoEndsKeeps ==
    ASSUME IInv, NEW b \in Bundles, UndoEnds(b)
    PROVE  StepKeeps
<1>1. PICK end \in {"undone", "applied", "recovery"} : RunTo(b, end)
    BY DEF UndoEnds
<1>2. end \in RunStates
    BY DEF RunStates
<1>3. run[b] = "reverting" /\ UNCHANGED <<reviews, task, seen>>
    BY DEF UndoEnds
<1> QED BY <1>1, <1>2, <1>3, QuietRunKeeps DEF RunActive

\* The invariant, and the user's choices, survive a refused Apply.
LEMMA RefusesKeeps ==
    ASSUME IInv, NEW b \in Bundles, Refuses(b)
    PROVE  StepKeeps
<1>1. /\ run[b] = "applying" /\ run' = [run EXCEPT ![b] = "failed"]
      /\ state' = [state EXCEPT ![b] = "failed"]
      /\ UNCHANGED <<no, rev, task, seen>>
    BY DEF Refuses, RunTo
<1>2. state[b] = "applying" /\ seen \in [Requests -> Seen]
    BY <1>1 DEF IInv, TypeOK, OneWriter, RunActive
<1>3. "failed" \in RunStates /\ "failed" \in States /\ Forgets
    BY <1>1 DEF RunStates, States, Forgets
<1> QED BY <1>1, <1>2, <1>3, RunStepKeeps

\* The invariant, and the user's choices, survive the end of an Apply.
LEMMA WriteEndsKeeps ==
    ASSUME IInv, NEW b \in Bundles, WriteEnds(b)
    PROVE  StepKeeps
<1> DEFINE outcome(end) == IF end = "applied" THEN "applied" ELSE "failed"
<1>1. PICK end \in {"applied", "failed", "recovery"} :
          RunTo(b, end) /\ state' = [state EXCEPT ![b] = outcome(end)]
    BY DEF WriteEnds
<1>2. run[b] = "writing" /\ run' = [run EXCEPT ![b] = end] /\ UNCHANGED <<no, rev, task, seen>>
    BY <1>1 DEF WriteEnds, RunTo
<1>3. state[b] = "applying" /\ seen \in [Requests -> Seen]
    BY <1>2 DEF IInv, TypeOK, OneWriter, RunActive
<1>4. outcome(end) \in {"applied", "failed"} /\ end \in RunStates /\ Forgets
    BY <1>2 DEF RunStates, Forgets
<1>5. outcome(end) \in States
    BY <1>4 DEF States
<1> HIDE DEF outcome
<1> QED BY <1>1, <1>2, <1>3, <1>4, <1>5, RunStepKeeps

\* The invariant, and the user's choices, survive a request for an Apply.
LEMMA StartKeeps ==
    ASSUME IInv, NEW r \in Requests, seen[r] # Nothing, Start(r)
    PROVE  StepKeeps
<1> DEFINE b == seen[r].b
<1>1. b \in Bundles
    BY SeenStart DEF IInv, Start
<1>2. /\ <<state[b], "applying">> \in Edges
      /\ run' = [run EXCEPT ![b] = "pending"] /\ state' = [state EXCEPT ![b] = "applying"]
      /\ seen' = [seen EXCEPT ![r] = Nothing] /\ UNCHANGED <<no, rev, task>>
    BY DEF Start, Ends
<1>3. state[b] \in {"ready", "needs_attention", "failed"}
    BY <1>2 DEF Edges
<1>4. seen \in [Requests -> Seen]
    BY DEF IInv, TypeOK
<1>5. seen' \in [Requests -> Seen] /\ Forgets
    BY <1>2, <1>4 DEF Seen, Forgets
<1>6. "pending" \in RunStates /\ "applying" \in States
    BY DEF RunStates, States
<1> QED BY <1>1, <1>2, <1>3, <1>5, <1>6, RunStepKeeps

-----------------------------------------------------------------------------
(* Requests that only read.                                                 *)

\* What a request reads is so; reading changes nothing else.
LEMMA ReadingKeeps ==
    ASSUME IInv, NEW r \in Requests, NEW what \in Seen, seen' = [seen EXCEPT ![r] = what],
           UNCHANGED <<reviews, task, run>>,
           \/ what = Nothing
           \/ what.kind \in {"apply", "start"}
           \/ /\ what.b \in Bundles
              /\ what.state = state[what.b] /\ what.no = no[what.b]
              /\ what.ops = rev[what.b].ops
              /\ state[what.b] = "absent" => what.kind \in {"match", "manual"}
    PROVE  StepKeeps
<1> USE DEF IInv
<1>1. seen \in [Requests -> Seen] /\ no \in [Bundles -> Nat]
    BY DEF TypeOK
<1>2. /\ state' = state /\ no' = no /\ rev' = rev /\ task' = task /\ run' = run
      /\ seen'[r] = what /\ \A q \in Requests : q # r => seen'[q] = seen[q]
    BY <1>1 DEF reviews
<1>3. TypeOK'
    <2>1. seen' \in [Requests -> Seen]
        BY <1>1
    <2> QED BY <2>1, <1>2 DEF TypeOK
<1>4. OneWriter'
    <2>1. Writers' = Writers
        BY <1>2 DEF Writers
    <2>2. \A c \in Bundles : RunActive(c)' <=> RunActive(c)
        BY <1>2 DEF RunActive
    <2> QED BY <2>1, <2>2, <1>2 DEF OneWriter
<1>5. ASSUME NEW q \in Requests, Composing(q)'
      PROVE  \/ seen'[q] = seen[q] /\ Composing(q)
             \/ /\ seen'[q] = what /\ what.b \in Bundles
                /\ what.state = state[what.b] /\ what.no = no[what.b]
                /\ what.ops = rev[what.b].ops
                /\ state[what.b] = "absent" => what.kind \in {"match", "manual"}
    BY <1>2, <1>5 DEF Composing, Kinds
<1>6. ReadsAreVersioned'
    <2>1. ASSUME NEW q \in Requests, Composing(q)'
          PROVE  /\ seen'[q].no <= no'[seen'[q].b]
                 /\ seen'[q].no = no'[seen'[q].b]
                        => DOMAIN seen'[q].ops = DOMAIN rev'[seen'[q].b].ops
        <3>1. CASE seen'[q] = seen[q] /\ Composing(q)
            BY <3>1, <1>2 DEF ReadsAreVersioned
        <3>2. CASE ~(seen'[q] = seen[q] /\ Composing(q))
            <4>1. /\ seen'[q] = what /\ what.b \in Bundles /\ what.no = no[what.b]
                  /\ what.ops = rev[what.b].ops
                BY <3>2, <2>1, <1>5
            <4>2. no[what.b] \in Nat
                BY <4>1, <1>1
            <4> QED BY <4>1, <4>2, <1>2
        <3> QED BY <3>1, <3>2
    <2> QED BY <2>1 DEF ReadsAreVersioned
<1>7. AbsentIsEmpty'
    <2>1. ASSUME NEW c \in Bundles, state'[c] = "absent"
          PROVE  /\ rev'[c] = Empty
                 /\ task'[c] = "idle" /\ run'[c] = "none"
                 /\ \A q \in Requests : Composing(q)' /\ seen'[q].b = c =>
                        seen'[q].state = "absent" /\ seen'[q].kind \in {"match", "manual"}
        BY <2>1, <1>2, <1>5 DEF AbsentIsEmpty
    <2> QED BY <2>1 DEF AbsentIsEmpty
<1>8. KeepsDiscard
    BY <1>2 DEF KeepsDiscard
<1>9. KeepsEdit
    BY <1>2 DEF KeepsEdit
<1> QED BY <1>3, <1>4, <1>6, <1>7, <1>8, <1>9 DEF StepKeeps


\* An absent review is read by those that can open it.
LEMMA AbsentAdmitted ==
    ASSUME NEW kind \in Kinds, "absent" \in Admitted(kind)
    PROVE  kind \in {"match", "manual"}
BY DEF Admitted, Kinds, Open

\* The invariant, and the user's choices, survive what a request reads.
LEMMA ReadKeeps ==
    ASSUME IInv, NEW r \in Requests, NEW b \in Bundles, NEW kind \in Kinds, Read(r, kind, b)
    PROVE  StepKeeps
<1> DEFINE what == [kind |-> kind, b |-> b, state |-> state[b], no |-> no[b],
                     ops |-> rev[b].ops]
<1>1. seen' = [seen EXCEPT ![r] = what] /\ UNCHANGED <<reviews, task, run>>
    BY DEF Read, Reads
<1>2. state[b] \in States /\ no[b] \in Nat /\ rev[b].ops \in Ops
    BY DEF IInv, TypeOK, Revisions
<1>3. what \in Seen
    BY <1>2 DEF Seen
<1>4. state[b] = "absent" => kind \in {"match", "manual"}
    BY AbsentAdmitted DEF Read
<1>5. /\ what.kind = kind /\ what.b = b /\ what.state = state[b] /\ what.no = no[b]
      /\ what.ops = rev[b].ops
    OBVIOUS
<1> HIDE DEF what
<1> QED BY <1>1, <1>3, <1>4, <1>5, ReadingKeeps

\* The invariant, and the user's choices, survive what a task that ends reads.
LEMMA FoundReadsKeeps ==
    ASSUME IInv, NEW r \in Requests, NEW b \in Bundles, FoundReads(r, b)
    PROVE  StepKeeps
<1> DEFINE what == [kind |-> "found", b |-> b, state |-> state[b], no |-> no[b],
                     ops |-> rev[b].ops]
<1>1. seen' = [seen EXCEPT ![r] = what] /\ UNCHANGED <<reviews, task, run>>
    BY DEF FoundReads, Reads
<1>2. state[b] \in States /\ no[b] \in Nat /\ rev[b].ops \in Ops
    BY DEF IInv, TypeOK, Revisions
<1>3. what \in Seen
    BY <1>2 DEF Seen
<1>4. state[b] # "absent"
    BY DEF FoundReads, IInv, AbsentIsEmpty
<1>5. /\ what.b = b /\ what.state = state[b] /\ what.no = no[b]
      /\ what.ops = rev[b].ops
    OBVIOUS
<1> HIDE DEF what
<1> QED BY <1>1, <1>3, <1>4, <1>5, ReadingKeeps

\* The invariant, and the user's choices, survive a refused request.
LEMMA RefusedKeeps ==
    ASSUME IInv, NEW r \in Requests, Refused(r)
    PROVE  StepKeeps
<1>1. Nothing \in Seen
    BY DEF Seen
<1>2. seen' = [seen EXCEPT ![r] = Nothing] /\ UNCHANGED <<reviews, task, run>>
    BY DEF Refused, Ends
<1> QED BY <1>1, <1>2, ReadingKeeps

\* The invariant, and the user's choices, survive a preflight.
LEMMA PreflightKeeps ==
    ASSUME IInv, NEW r \in Requests, NEW b \in Bundles, Preflight(r, b)
    PROVE  StepKeeps
<1> DEFINE what == [kind |-> "apply", b |-> b, state |-> state[b]]
<1>1. seen' = [seen EXCEPT ![r] = what] /\ UNCHANGED <<reviews, task, run>>
    BY DEF Preflight
<1>2. state[b] \in States
    BY DEF IInv, TypeOK
<1>3. what \in Seen /\ what.kind \in {"apply", "start"}
    BY <1>2 DEF Seen
<1> HIDE DEF what
<1> QED BY <1>1, <1>3, ReadingKeeps

\* The invariant, and the user's choices, survive what a request for an Apply
\* reads.
LEMMA StartReadsKeeps ==
    ASSUME IInv, NEW r \in Requests, seen[r] # Nothing, StartReads(r)
    PROVE  StepKeeps
<1> DEFINE what == [seen[r] EXCEPT !.kind = "start"]
<1>1. seen[r] \in [kind : {"apply", "start"}, b : Bundles, state : States]
    BY SeenStart DEF IInv, StartReads
<1>2. what \in [kind : {"apply", "start"}, b : Bundles, state : States]
    BY <1>1
<1>3. what \in Seen /\ what.kind \in {"apply", "start"}
    BY <1>2 DEF Seen
<1>4. seen \in [Requests -> Seen]
    BY DEF IInv, TypeOK
<1>5. seen' = [seen EXCEPT ![r] = what] /\ UNCHANGED <<reviews, task, run>>
    BY <1>4 DEF StartReads
<1> HIDE DEF what
<1> QED BY <1>3, <1>5, ReadingKeeps

-----------------------------------------------------------------------------
(* The theorems.                                                            *)

\* Without reviews the invariant holds.
LEMMA InitKeeps == Init => IInv
<1> SUFFICES ASSUME Init PROVE IInv
    OBVIOUS
<1> USE DEF Init
<1>1. TypeOK
    <2>1. "absent" \in States /\ "idle" \in TaskStates /\ "none" \in RunStates /\ Nothing \in Seen
        BY DEF States, TaskStates, RunStates, Seen
    <2>2. \A b \in Bundles : no[b] <= MaxRevision[b]
        <3> TAKE b \in Bundles
        <3>1. no[b] = 0
            OBVIOUS
        <3>2. MaxRevision[b] \in Nat
            BY ReviewsConstantsAssumption
        <3> QED BY <3>1, <3>2
    <2> QED BY <2>1, <2>2, EmptyTyped DEF TypeOK
<1>2. OneWriter
    BY DEF OneWriter, Writers, RunActive
<1>3. ReadsAreVersioned
    BY DEF ReadsAreVersioned, Composing
<1>4. AbsentIsEmpty
    BY DEF AbsentIsEmpty, Composing
<1> QED BY <1>1, <1>2, <1>3, <1>4 DEF IInv

\* The invariant is inductive, and no step drops a choice of the user.
LEMMA NextKeeps == IInv /\ [Next]_vars => StepKeeps
<1> SUFFICES ASSUME IInv, [Next]_vars PROVE StepKeeps
    OBVIOUS
<1>1. ASSUME NEW r \in Requests, NEW b \in Bundles, NEW kind \in Kinds, Read(r, kind, b)
      PROVE  StepKeeps
    BY <1>1, ReadKeeps
<1>2. ASSUME NEW r \in Requests, NEW b \in Bundles, Preflight(r, b) \/ FoundReads(r, b)
      PROVE  StepKeeps
    BY <1>2, PreflightKeeps, FoundReadsKeeps
<1>3. ASSUME NEW r \in Requests, seen[r] # Nothing, Writes(r)
      PROVE  StepKeeps
    BY <1>3, MatchSelectsKeeps, MatchUnresolvedKeeps, ChooseKeeps, ManualKeeps, SkipKeeps,
       CoverKeeps, EditKeeps, DecideKeeps, RefreshKeeps, StartReadsKeeps, StartKeeps, FoundKeeps
       DEF Writes
<1>4. ASSUME NEW r \in Requests, Refused(r)
      PROVE  StepKeeps
    BY <1>4, RefusedKeeps
<1>5. ASSUME NEW b \in Bundles,
             \/ Prepare(b) \/ Grouping(b)
             \/ Begin(b) \/ Accepts(b) \/ Refuses(b) \/ WriteEnds(b)
             \/ AskUndo(b) \/ BeginUndo(b) \/ AcceptsUndo(b) \/ RefusesUndo(b) \/ UndoEnds(b)
             \/ PlanTask(b) \/ StartTask(b) \/ TaskReads(b) \/ TaskWrites(b) \/ TaskJobEnds(b)
      PROVE  StepKeeps
    BY <1>5, PrepareKeeps, GroupingKeeps, BeginKeeps, AcceptsKeeps, RefusesKeeps, WriteEndsKeeps,
       AskUndoKeeps, BeginUndoKeeps, AcceptsUndoKeeps, RefusesUndoKeeps, UndoEndsKeeps,
       PlanTaskKeeps, StartTaskKeeps, TaskReadsKeeps, TaskWritesKeeps, TaskJobEndsKeeps
<1>6. CASE UNCHANGED vars
    <2>1. /\ state' = state /\ no' = no /\ rev' = rev /\ task' = task /\ run' = run
          /\ seen' = seen
        BY <1>6 DEF vars, reviews
    <2>2. TypeOK' /\ OneWriter'
        BY <2>1 DEF IInv, TypeOK, OneWriter, Writers, RunActive
    <2>3. ReadsAreVersioned' /\ AbsentIsEmpty'
        BY <2>1 DEF IInv, ReadsAreVersioned, AbsentIsEmpty, Composing
    <2>4. KeepsDiscard /\ KeepsEdit
        BY <2>1 DEF KeepsDiscard, KeepsEdit
    <2> QED BY <2>2, <2>3, <2>4 DEF StepKeeps, IInv
<1> QED BY <1>1, <1>2, <1>3, <1>4, <1>5, <1>6 DEF Next

-----------------------------------------------------------------------------
(* The theorems.                                                            *)

\* The reviews, tasks, runs and what every request has read stay what the
\* columns allow, and no review passes its bound of revisions.
THEOREM TypeCorrect == Spec => []TypeOK
<1>1. Init => IInv
    BY InitKeeps
<1>2. IInv /\ [Next]_vars => IInv'
    BY NextKeeps DEF StepKeeps
<1>3. IInv => TypeOK
    BY DEF IInv
<1> QED BY <1>1, <1>2, <1>3, PTL DEF Spec

\* However many reviews of a file there are and however their requests, tasks
\* and workers interleave, at most one Apply or Undo is past its checks, and a
\* review is 'applying' exactly while a run of it is active.
THEOREM SingleWriter == Spec => []OneWriter
<1>1. Init => IInv
    BY InitKeeps
<1>2. IInv /\ [Next]_vars => IInv'
    BY NextKeeps DEF StepKeeps
<1>3. IInv => OneWriter
    BY DEF IInv
<1> QED BY <1>1, <1>2, <1>3, PTL DEF Spec

\* However many handlers and requests there are, a discarded review leaves that
\* state by a decision of the user, or by the outcome of a task whose handler had
\* read it before it was discarded.
THEOREM LateOutcomeYields == Spec => DiscardStands
<1>1. Init => IInv
    BY InitKeeps
<1>2. IInv /\ [Next]_vars => IInv'
    BY NextKeeps DEF StepKeeps
<1>3. IInv /\ [Next]_vars => [KeepsDiscard]_vars
    BY NextKeeps DEF StepKeeps
<1> QED BY <1>1, <1>2, <1>3, PTL DEF Spec, DiscardStands

\* A manual value is never replaced silently, whatever a request that composes
\* a revision had read and however old it was.
THEOREM ManualValueKept == Spec => EditKept
<1>1. Init => IInv
    BY InitKeeps
<1>2. IInv /\ [Next]_vars => IInv'
    BY NextKeeps DEF StepKeeps
<1>3. IInv /\ [Next]_vars => [KeepsEdit]_vars
    BY NextKeeps DEF StepKeeps
<1> QED BY <1>1, <1>2, <1>3, PTL DEF Spec, EditKept

\* Reviews, rankings, manual searches, the inbox and the activity keep the types of what they
\* store; a ranking returns every candidate once, and offers no more rows than there are.
THEOREM DeskTypeCorrect ==
    Spec /\ MatchingSpec /\ SearchSpec /\ InboxSpec /\ ActivitySpec => []TypesOK
<1>1. Spec => []TypeOK
    BY TypeCorrect
<1>2. MatchingInv /\ SearchInv /\ InboxInv /\ ActivityInv
          => MatchingTypeOK /\ SearchTypeOK /\ InboxTypeOK /\ ActivityTypeOK
    BY MatchingFollows, SearchTypesFollow, InboxFollows, ActivityFollows
<1>3. TypeOK /\ MatchingTypeOK /\ SearchTypeOK /\ InboxTypeOK /\ ActivityTypeOK => TypesOK
    BY DEF TypesOK
<1>. QED
    BY <1>1, <1>2, <1>3, MatchingInvariance, SearchInvariance, InboxInvariance,
       ActivityInvariance, PTL

\* With any weights, thresholds, gap and provider order that the settings accept, and however
\* many candidates: no row is before one that is nearer by more than the gap, and with a gap a
\* strong match has no other row within it, although the decision reads two rows
\* (matching/engine.py); and a URL that is remembered leads to the release the review shows,
\* whatever was selected while its provider answered (services/manual_search.py).
THEOREM MatchesStayTrue == MatchingSpec /\ SearchSpec => []MatchesAreTrue
<1>1. MatchingInv /\ SearchInv => MatchesAreTrue
    BY MatchingFollows, SearchTypesFollow DEF MatchesAreTrue
<1>. QED
    BY <1>1, MatchingInvariance, SearchInvariance, PTL

\* However many reviews there are and wherever operations move them between two pages, a walk
\* through the inbox lists each that stayed where it was exactly once, and its neighbours are
\* those of the list (pipeline/reviews.py); whatever is committed between two pages, a walk
\* through the activity lists each row that was there once, and a success stays told
\* (services/activity.py).
THEOREM ListsStayComplete == InboxSpec /\ ActivitySpec => []ListsAreComplete
<1>1. InboxInv /\ ActivityInv => ListsAreComplete
    BY InboxFollows, ActivityFollows DEF ListsAreComplete
<1>. QED
    BY <1>1, InboxInvariance, ActivityInvariance, PTL

\* However many requests wait for their providers, and whatever they had read, a candidate takes
\* the place of a manual value only when a request that the user forced selects it; else it is
\* lost only to a match that selects nothing and asks for attention (pipeline/proposals.py).
THEOREM ManualNeverOverridden == SearchSpec => ManualKept
<1>. QED
    BY SearchInvariance, ManualStays, PTL DEF SearchSpec, ManualKept
=============================================================================
