--------------------------- MODULE LibraryProofs ---------------------------
(***************************************************************************)
(* What the modules of the library keep, for every catalog, every batch    *)
(* and any number of tracks, recordings and releases.                      *)
(***************************************************************************)
EXTENDS Library, BundleApplyProofs, FiniteSetTheorems, TLAPS

-----------------------------------------------------------------------------
(* Duplicates: sums and percentages.                                        *)

\* The numbers have a least one in every set that is not empty.
LEMMA LeastNumber ==
    ASSUME NEW N \in SUBSET Nat, N # {}
    PROVE  \E n \in N : \A m \in N : n <= m
<1>1. PICK n \in N : \A m \in N : <<m, n>> \notin OpToRel(<, Nat)
    BY NatLessThanWellFounded, WFMin, Zenon
<1>2. \A m \in N : ~(m < n)
    BY <1>1 DEF OpToRel
<1>. QED
    BY <1>2

\* What is added of a set of tracks: one of them, and what is added of the others.
AddsUp(g, F, D) ==
    g = [s \in D |-> IF s = {} THEN 0
                     ELSE F[CHOOSE t \in s : TRUE] + g[s \ {CHOOSE t \in s : TRUE}]]

\* There is such a sum for the subsets of a finite set.
LEMMA SumExists ==
    ASSUME NEW S, IsFiniteSet(S), NEW F
    PROVE  \E g : AddsUp(g, F, SUBSET S)
<1>. DEFINE D(n) == {s \in SUBSET S : Cardinality(s) <= n}
            Bad  == {n \in Nat : \A g : ~AddsUp(g, F, D(n))}
<1>1. \A s \in SUBSET S : /\ IsFiniteSet(s) /\ Cardinality(s) \in Nat
                          /\ Cardinality(s) <= Cardinality(S)
    BY FS_Subset, FS_CardinalityType
<1>2. \A s \in SUBSET S : s # {} =>
          /\ s \ {CHOOSE t \in s : TRUE} \in SUBSET S
          /\ Cardinality(s \ {CHOOSE t \in s : TRUE}) = Cardinality(s) - 1
    BY <1>1, FS_RemoveElement
<1>3. Bad = {}
  <2>. SUFFICES ASSUME Bad # {} PROVE FALSE
    OBVIOUS
  <2>1. PICK m \in Bad : \A n \in Bad : m <= n
    <3>1. Bad \in SUBSET Nat
      OBVIOUS
    <3>. QED
      BY <3>1, LeastNumber
  <2>2. CASE m = 0
    <3>1. \A s \in D(0) : s = {}
      BY <1>1, FS_EmptySet
    <3>2. AddsUp([s \in D(0) |-> 0], F, D(0))
      BY <3>1 DEF AddsUp
    <3>. QED
      BY <3>2, <2>2
  <2>3. CASE m # 0
    <3>1. m - 1 \in Nat /\ m - 1 \notin Bad
      BY <2>1, <2>3
    <3>2. PICK g : AddsUp(g, F, D(m - 1))
      BY <3>1
    <3>. DEFINE h == [s \in D(m) |-> IF s = {} THEN 0
                         ELSE F[CHOOSE t \in s : TRUE] + g[s \ {CHOOSE t \in s : TRUE}]]
    <3>3. \A s \in D(m) : s # {} => s \ {CHOOSE t \in s : TRUE} \in D(m - 1)
      BY <1>1, <1>2, <3>1
    <3>4. D(m - 1) \subseteq D(m)
      BY <1>1, <3>1
    <3>5. \A s \in D(m - 1) : h[s] = g[s]
      BY <3>2, <3>4 DEF AddsUp
    <3>6. \A s \in D(m) : s # {} => h[s \ {CHOOSE t \in s : TRUE}] = g[s \ {CHOOSE t \in s : TRUE}]
      BY <3>3, <3>5
    <3>7. h = [s \in D(m) |-> IF s = {} THEN 0
                   ELSE F[CHOOSE t \in s : TRUE] + h[s \ {CHOOSE t \in s : TRUE}]]
      <4>1. \A s \in D(m) : h[s] = IF s = {} THEN 0
                   ELSE F[CHOOSE t \in s : TRUE] + g[s \ {CHOOSE t \in s : TRUE}]
        OBVIOUS
      <4>2. h = [s \in D(m) |-> h[s]]
        OBVIOUS
      <4>. HIDE DEF h, D
      <4>3. \A s \in D(m) : h[s] = IF s = {} THEN 0
                   ELSE F[CHOOSE t \in s : TRUE] + h[s \ {CHOOSE t \in s : TRUE}]
        BY <3>6, <4>1, Zenon
      <4>. QED
        BY <4>2, <4>3, Zenon
    <3>. HIDE DEF h, D
    <3>8. AddsUp(h, F, D(m))
      BY <3>7, Zenon DEF AddsUp
    <3>. QED
      BY <3>8 DEF D
  <2>. QED
    BY <2>2, <2>3
<1>4. D(Cardinality(S)) = SUBSET S /\ Cardinality(S) \in Nat
    BY <1>1, FS_CardinalityType
<1>. QED
    BY <1>3, <1>4

\* The total of a set of tracks is such a sum.
LEMMA TotalAddsUp ==
    ASSUME NEW S, IsFiniteSet(S), NEW F
    PROVE  \E g : AddsUp(g, F, SUBSET S) /\ Total(F, S) = g[S]
<1>. DEFINE iter == CHOOSE g : AddsUp(g, F, SUBSET S)
<1>1. AddsUp(iter, F, SUBSET S)
    BY SumExists, Zenon
<1>2. Total(F, S) = iter[S]
    BY DEF Total, MapThenSumSet, MapThenFoldSet, AddsUp
<1>. QED
    BY <1>1, <1>2, Zenon

\* What is added of numbers is a number; of percentages it is at most their mean's
\* bound times their count, and of durations that are known it is not zero.
LEMMA TotalBounds ==
    ASSUME NEW S, IsFiniteSet(S), NEW F, \A t \in S : F[t] \in Nat
    PROVE  /\ Total(F, S) \in Nat
           /\ (\A t \in S : F[t] <= 100) => Total(F, S) <= 100 * Cardinality(S)
           /\ (\A t \in S : F[t] > 0) => Total(F, S) >= Cardinality(S)
<1>1. PICK g : AddsUp(g, F, SUBSET S) /\ Total(F, S) = g[S]
    BY TotalAddsUp
<1>. DEFINE Holds(s) == /\ g[s] \in Nat
                        /\ (\A t \in S : F[t] <= 100) => g[s] <= 100 * Cardinality(s)
                        /\ (\A t \in S : F[t] > 0) => g[s] >= Cardinality(s)
            Bad == {n \in Nat : \E s \in SUBSET S : Cardinality(s) = n /\ ~Holds(s)}
<1>2. \A s \in SUBSET S : IsFiniteSet(s) /\ Cardinality(s) \in Nat
    BY FS_Subset, FS_CardinalityType
<1>3. Bad = {}
  <2>. SUFFICES ASSUME Bad # {} PROVE FALSE
    OBVIOUS
  <2>1. PICK m \in Bad : \A n \in Bad : m <= n
    <3>1. Bad \in SUBSET Nat
      OBVIOUS
    <3>. QED
      BY <3>1, LeastNumber
  <2>2. PICK s \in SUBSET S : Cardinality(s) = m /\ ~Holds(s)
    BY <2>1
  <2>3. CASE s = {}
    <3>1. g[s] = 0 /\ Cardinality(s) = 0
      BY <1>1, <2>3, FS_EmptySet DEF AddsUp
    <3>. QED
      BY <2>2, <3>1
  <2>4. CASE s # {}
    <3>. DEFINE x == CHOOSE t \in s : TRUE
                r == s \ {x}
    <3>1. x \in s /\ r \in SUBSET S
      BY <2>4
    <3>2. Cardinality(r) = m - 1 /\ m - 1 \in Nat
      <4>1. IsFiniteSet(s) /\ Cardinality(s) = m /\ m \in Nat /\ m # 0
        BY <1>2, <2>2, <2>4, FS_EmptySet
      <4>2. Cardinality(s \ {x}) = m - 1
        BY <3>1, <4>1, FS_RemoveElement
      <4>. QED
        BY <4>1, <4>2
    <3>3. m - 1 \notin Bad
      BY <2>1, <3>2
    <3>4. Holds(r)
      BY <3>1, <3>2, <3>3
    <3>5. g[s] = F[x] + g[r]
      BY <1>1, <2>4, Zenon DEF AddsUp
    <3>6. F[x] \in Nat /\ x \in S
      BY <3>1
    <3>. HIDE DEF x, r
    <3>. QED
      BY <2>2, <3>2, <3>4, <3>5, <3>6
  <2>. QED
    BY <2>3, <2>4
<1>4. Holds(S)
    BY <1>2, <1>3
<1>. QED
    BY <1>1, <1>4

\* A finite set of numbers has a greatest.
LEMMA GreatestNumber ==
    ASSUME NEW N \in SUBSET Nat, IsFiniteSet(N), N # {}
    PROVE  \E n \in N : \A m \in N : n >= m
<1>. DEFINE Bad == {k \in Nat : \E M \in SUBSET N :
                        Cardinality(M) = k /\ M # {} /\ ~\E n \in M : \A m \in M : n >= m}
<1>1. \A M \in SUBSET N : IsFiniteSet(M) /\ Cardinality(M) \in Nat
    BY FS_Subset, FS_CardinalityType
<1>2. Bad = {}
  <2>. SUFFICES ASSUME Bad # {} PROVE FALSE
    OBVIOUS
  <2>1. PICK k \in Bad : \A l \in Bad : k <= l
    <3>1. Bad \in SUBSET Nat
      OBVIOUS
    <3>. QED
      BY <3>1, LeastNumber
  <2>2. PICK M \in SUBSET N : Cardinality(M) = k /\ M # {} /\ ~\E n \in M : \A m \in M : n >= m
    BY <2>1
  <2>3. PICK x : x \in M
    BY <2>2
  <2>4. /\ M \ {x} \in SUBSET N
        /\ Cardinality(M \ {x}) = k - 1 /\ k - 1 \in Nat
    <3>1. IsFiniteSet(M) /\ k \in Nat /\ k # 0
      BY <1>1, <2>2, <2>3, FS_EmptySet
    <3>2. Cardinality(M \ {x}) = k - 1
      BY <2>2, <2>3, <3>1, FS_RemoveElement
    <3>3. M \ {x} \in SUBSET N
      BY <2>2
    <3>4. k - 1 \in Nat
      BY <3>1
    <3>. QED
      BY <3>2, <3>3, <3>4
  <2>5. k - 1 \notin Bad
    BY <2>1, <2>4
  <2>6. M \ {x} # {}
    BY <2>2, <2>3
  <2>7. PICK n \in M \ {x} : \A m \in M \ {x} : n >= m
    BY <2>4, <2>5, <2>6
  <2>8. CASE n >= x
    BY <2>2, <2>7, <2>8
  <2>9. CASE ~(n >= x)
    <3>1. x \in Nat /\ n \in Nat /\ \A m \in M : m \in Nat
      BY <2>2, <2>3, <2>7
    <3>2. \A m \in M : x >= m
      BY <2>7, <2>9, <3>1
    <3>. QED
      BY <2>2, <2>3, <3>2
  <2>. QED
    BY <2>8, <2>9
<1>. QED
    BY <1>1, <1>2

\* A share of a hundred.
LEMMA PercentBounds ==
    ASSUME NEW a \in Nat, NEW d \in Nat, d # 0, a <= 100 * d
    PROVE  a \div d \in 0..100
<1>1. a \div d \in Int /\ d * (a \div d) <= a /\ a < d * (a \div d) + d
    BY SMT
<1>. DEFINE q == a \div d
<1>. HIDE DEF q
<1>2. q \in Int /\ d * q <= a /\ a < d * q + d
    BY <1>1 DEF q
<1>3. q >= 0
    BY <1>2
<1>4. q <= 100
    BY <1>2
<1>. QED
    BY <1>2, <1>3, <1>4 DEF q

\* The spread of durations is a number.
LEMMA SpreadTyped ==
    ASSUME NEW S \in SUBSET FileIds
    PROVE  Spread(S) \in Int
<1>. DEFINE known == {t \in S : Length[t] > 0}
            L     == {Length[t] : t \in known}
<1>1. CASE known = {}
    BY <1>1 DEF Spread
<1>2. CASE known # {}
  <2>1. /\ IsFiniteSet(known) /\ known \subseteq FileIds
        /\ Cardinality(known) \in Nat /\ Cardinality(known) # 0
    BY <1>2, DuplicatesConstantsAssumption, FS_Subset, FS_CardinalityType, FS_EmptySet
  <2>2. \A t \in known : Length[t] \in Nat /\ Length[t] > 0
    BY <2>1, DuplicatesConstantsAssumption
  <2>3. Total(Length, known) \in Nat /\ Total(Length, known) # 0
    <3>1. Total(Length, known) \in Nat /\ Total(Length, known) >= Cardinality(known)
      BY <2>1, <2>2, TotalBounds
    <3>. QED
      BY <2>1, <3>1
  <2>4. L \in SUBSET Nat /\ L # {} /\ IsFiniteSet(L)
    <3>1. IsFiniteSet(L)
      <4>1. [t \in known |-> Length[t]] \in Surjection(known, L)
        BY DEF Surjection
      <4>. QED
        BY <2>1, <4>1, FS_Surjection
    <3>. QED
      BY <1>2, <2>2, <3>1
  <2>5. Max(L) \in Nat /\ Min(L) \in Nat
    <3>1. \E n \in L : \A m \in L : n >= m
      BY <2>4, GreatestNumber
    <3>2. \E n \in L : \A m \in L : n <= m
      BY <2>4, LeastNumber
    <3>. HIDE DEF L
    <3>. QED
      BY <2>4, <3>1, <3>2 DEF Max, Min
  <2>6. Spread(S) = ((Max(L) - Min(L)) * 100 * Cardinality(known)) \div Total(Length, known)
    BY <1>2 DEF Spread
  <2>7. (Max(L) - Min(L)) * 100 * Cardinality(known) \in Int
    <3>. HIDE DEF L, known
    <3>. QED
      BY <2>1, <2>5
  <2>. HIDE DEF L, known
  <2>. QED
    BY <2>3, <2>6, <2>7
<1>. QED
    BY <1>1, <1>2

\* The confidence of a group is a percentage.
LEMMA ConfidenceTyped ==
    ASSUME NEW m, NEW S \in SUBSET FileIds, S # {}, \A t \in FileIds : m.best[t].score \in 0..100
    PROVE  Confidence(m, S) \in 0..100
<1>1. IsFiniteSet(S) /\ Cardinality(S) \in Nat /\ Cardinality(S) # 0
    BY DuplicatesConstantsAssumption, FS_Subset, FS_CardinalityType, FS_EmptySet
<1>2. \A t \in S : Score(m)[t] \in Nat /\ Score(m)[t] <= 100
    BY DEF Score
<1>3. Total(Score(m), S) \in Nat /\ Total(Score(m), S) <= 100 * Cardinality(S)
    BY <1>1, <1>2, TotalBounds
<1>4. Factor(Spread(S)) \in {30, 50, 80, 100}
    BY SpreadTyped DEF Factor
<1>. DEFINE sum == Total(Score(m), S)
            n   == Cardinality(S)
            f   == Factor(Spread(S))
<1>. HIDE DEF sum, n, f
<1>5. sum \in Nat /\ n \in Nat /\ n # 0 /\ f \in {30, 50, 80, 100} /\ sum <= 100 * n
    BY <1>1, <1>3, <1>4 DEF sum, n, f
<1>6. sum * f \in Nat /\ sum * f <= 100 * (100 * n) /\ 100 * n \in Nat /\ 100 * n # 0
    BY <1>5
<1>7. (sum * f) \div (100 * n) \in 0..100
    BY <1>6, PercentBounds
<1>. QED
    BY <1>7 DEF Confidence, sum, n, f

\* What a detection that reads m makes of a recording; and one that reads all now.
Detected(m, r) ==
    IF Cardinality(Sharing(m, r)) < 2 THEN NoDup ELSE Evidence(m, Sharing(m, r))
Now == [here |-> FileIds \ gone, best |-> best]

Groups == [members : SUBSET FileIds, dismissed : BOOLEAN, confidence : 0..100, doubt : BOOLEAN]
Matches == [FileIds -> [recording : Recordings \cup {"none"}, score : 0..100]]
Detections == [at : {"files", "groups"}, here : SUBSET FileIds, best : Matches,
               stored : [Recordings -> Groups]]

\* A detection during which nothing changes has read what is there; what it left is what
\* the recordings share.  What it read as dismissed is so still.
DuplicatesInv ==
    /\ best \in Matches /\ gone \in SUBSET FileIds /\ fresh \in BOOLEAN
    /\ dup \in [Recordings -> Groups]
    /\ seen = Unseen \/ seen \in Detections
    /\ seen # Unseen => \A r \in Recordings : seen.stored[r].dismissed => dup[r].dismissed
    /\ seen # Unseen /\ fresh => seen.here = Now.here /\ seen.best = Now.best
    /\ seen = Unseen /\ fresh => \A r \in Recordings : dup[r].dismissed \/ dup[r] = Detected(Now, r)

\* No detection runs, or one with its reads.
LEMMA SeenKinds == ASSUME NEW m \in Detections PROVE m # Unseen /\ m.at # "idle"
BY DEF Detections, Unseen

\* What a detection makes of a recording is a group.
LEMMA DetectedTyped ==
    ASSUME NEW m, m.here \in SUBSET FileIds, m.best \in Matches, NEW r \in Recordings
    PROVE  Detected(m, r) \in Groups /\ ~Detected(m, r).dismissed
<1>1. CASE Cardinality(Sharing(m, r)) < 2
    BY <1>1 DEF Detected, NoDup, Groups
<1>2. CASE ~(Cardinality(Sharing(m, r)) < 2)
  <2>1. Sharing(m, r) \in SUBSET FileIds
    BY DEF Sharing
  <2>2. Sharing(m, r) # {}
    BY <1>2, FS_EmptySet
  <2>3. Confidence(m, Sharing(m, r)) \in 0..100
    BY <2>1, <2>2, ConfidenceTyped DEF Matches
  <2>. QED
    BY <1>2, <2>1, <2>3 DEF Detected, Evidence, Groups
<1>. QED
    BY <1>1, <1>2

\* Only the tracks and the matches of a reading matter.
LEMMA DetectedAlike ==
    ASSUME NEW m, NEW n, m.here = n.here, m.best = n.best, NEW r
    PROVE  Detected(m, r) = Detected(n, r)
<1>1. Sharing(m, r) = Sharing(n, r) /\ Score(m) = Score(n)
    BY DEF Sharing, Score
<1>2. \A S : Confidence(m, S) = Confidence(n, S)
    BY <1>1 DEF Confidence
<1>. QED
    BY <1>1, <1>2 DEF Detected, Evidence

\* The mark of a group may be kept over new contents.
LEMMA MarkTyped ==
    ASSUME NEW g \in Groups, NEW b \in BOOLEAN
    PROVE  /\ [g EXCEPT !.dismissed = b] \in Groups /\ [g EXCEPT !.dismissed = b].dismissed = b
           /\ g.dismissed = b => [g EXCEPT !.dismissed = b] = g
BY DEF Groups

\* The initial state.
LEMMA DuplicatesInitially == DuplicatesInit => DuplicatesInv
<1>. SUFFICES ASSUME DuplicatesInit PROVE DuplicatesInv
    OBVIOUS
<1>1. NoDup \in Groups /\ NoMatch \in [recording : Recordings \cup {"none"}, score : 0..100]
    BY DEF NoDup, NoMatch, Groups
<1>2. /\ best \in Matches /\ dup \in [Recordings -> Groups] /\ gone \in SUBSET FileIds
      /\ ~fresh /\ fresh \in BOOLEAN /\ seen = Unseen
    BY <1>1 DEF DuplicatesInit, Matches
<1>. QED
    BY <1>2 DEF DuplicatesInv

\* What a detection writes of each recording.
LEMMA Detection ==
    ASSUME DuplicatesInv, DetectDuplicates, NEW r \in Recordings
    PROVE  /\ seen \in Detections /\ dup'[r] \in Groups
           /\ dup[r].dismissed => dup'[r].dismissed \/ dup'[r] = NoDup
           /\ seen.stored[r].dismissed => dup'[r] = dup[r]
           /\ dup'[r].dismissed \/ dup'[r] = Detected(seen, r)
<1>1. seen \in Detections /\ seen # Unseen
    BY DEF DetectDuplicates, DuplicatesInv, Unseen
<1>. DEFINE d == Detected(seen, r)
<1>2. d \in Groups /\ ~d.dismissed
    BY <1>1, DetectedTyped DEF Detections
<1>3. dup[r] \in Groups /\ dup[r].dismissed \in BOOLEAN
    BY DEF DuplicatesInv, Groups
<1>4. dup'[r] = Reconciled(seen, r)
    BY DEF DetectDuplicates
<1>5. CASE seen.stored[r].dismissed
    BY <1>1, <1>3, <1>4, <1>5 DEF Reconciled, DuplicatesInv
<1>6. CASE ~seen.stored[r].dismissed /\ Cardinality(Sharing(seen, r)) < 2
  <2>1. dup'[r] = NoDup /\ d = NoDup
    BY <1>4, <1>6 DEF Reconciled, Detected
  <2>. QED
    BY <1>1, <1>2, <1>6, <2>1
<1>7. CASE ~seen.stored[r].dismissed /\ ~(Cardinality(Sharing(seen, r)) < 2)
  <2>1. dup'[r] = [d EXCEPT !.dismissed = dup[r].dismissed]
    BY <1>4, <1>7 DEF Reconciled, Detected
  <2>. HIDE DEF d
  <2>2. PICK b \in BOOLEAN : b = dup[r].dismissed
    BY <1>3
  <2>3. dup'[r] \in Groups /\ dup'[r].dismissed = b
    BY <1>2, <2>1, <2>2, MarkTyped
  <2>4. ASSUME ~b PROVE dup'[r] = d
    <3>1. d.dismissed = b
      BY <1>2, <2>4 DEF Groups
    <3>. QED
      BY <1>2, <2>1, <2>2, <3>1, MarkTyped
  <2>5. dup'[r].dismissed \/ dup'[r] = Detected(seen, r)
    BY <2>3, <2>4 DEF d
  <2>. QED
    BY <1>1, <1>7, <2>2, <2>3, <2>5
<1>. QED
    BY <1>5, <1>6, <1>7, Zenon

\* Every step keeps it.
LEMMA DuplicatesInductive ==
    DuplicatesInv /\ [DuplicatesNext]_duplicatesVars => DuplicatesInv'
<1>. SUFFICES ASSUME DuplicatesInv, [DuplicatesNext]_duplicatesVars PROVE DuplicatesInv'
    OBVIOUS
<1>0. ASSUME UNCHANGED <<best, gone>> PROVE \A r : Detected(Now, r)' = Detected(Now, r)
    BY <1>0 DEF Detected, Sharing, Evidence, Confidence, Score, Now
<1>1. CASE DetectDuplicates
  <2>1. UNCHANGED <<best, gone, fresh>> /\ seen' = Unseen /\ seen # Unseen
    BY <1>1 DEF DetectDuplicates, Unseen
  <2>2. dup' \in [Recordings -> Groups]
    BY <1>1, Detection DEF DetectDuplicates
  <2>3. ASSUME fresh, NEW r \in Recordings PROVE dup'[r].dismissed \/ dup'[r] = Detected(Now, r)'
    <3>1. seen.here = Now.here /\ seen.best = Now.best
      BY <2>1, <2>3 DEF DuplicatesInv
    <3>2. Detected(seen, r) = Detected(Now, r)
      BY <3>1, DetectedAlike
    <3>. QED
      BY <1>0, <1>1, <2>1, <3>2, Detection
  <2>. QED
    BY <2>1, <2>2, <2>3 DEF DuplicatesInv
<1>2. ASSUME NEW r \in Recordings, Dismiss(r) PROVE DuplicatesInv'
  <2>1. \A q \in Recordings : Detected(Now, q)' = Detected(Now, q)
    BY <1>0, <1>2 DEF Dismiss
  <2>2. dup \in [Recordings -> Groups] /\ dup' = [dup EXCEPT ![r].dismissed = TRUE]
    BY <1>2 DEF Dismiss, DuplicatesInv
  <2>3. [dup[r] EXCEPT !.dismissed = TRUE] \in Groups
        /\ [dup[r] EXCEPT !.dismissed = TRUE].dismissed
    BY <2>2, MarkTyped
  <2>4. dup' \in [Recordings -> Groups]
    BY <2>2, <2>3
  <2>5. \A q \in Recordings : IF q = r THEN dup'[q].dismissed ELSE dup'[q] = dup[q]
    BY <2>2, <2>3
  <2>6. UNCHANGED <<best, gone, seen, fresh, Now>>
    BY <1>2 DEF Dismiss, Now
  <2>7. ASSUME seen = Unseen, fresh, NEW q \in Recordings
        PROVE  dup'[q].dismissed \/ dup'[q] = Detected(Now, q)'
    <3>1. dup[q].dismissed \/ dup[q] = Detected(Now, q)
      BY <2>7 DEF DuplicatesInv
    <3>. QED
      BY <2>1, <2>5, <3>1
  <2>8. ASSUME seen # Unseen, NEW q \in Recordings, seen.stored[q].dismissed
        PROVE  dup'[q].dismissed
    BY <2>5, <2>8 DEF DuplicatesInv
  <2>. QED
    BY <2>4, <2>6, <2>7, <2>8 DEF DuplicatesInv
<1>3. ASSUME NEW t \in FileIds, Fingerprint(t) PROVE DuplicatesInv'
  <2>1. PICK r \in Recordings, s \in Scores :
            best' = [best EXCEPT ![t] = [recording |-> r, score |-> s]]
    BY <1>3 DEF Fingerprint
  <2>2. best' \in Matches
    BY <2>1, DuplicatesConstantsAssumption DEF DuplicatesInv, Matches
  <2>. QED
    BY <1>3, <2>2 DEF Fingerprint, DuplicatesInv
<1>4. ASSUME NEW t \in FileIds, Rescan(t) PROVE DuplicatesInv'
  <2>1. best' \in Matches
    BY <1>4 DEF Rescan, DuplicatesInv, NoMatch, Matches
  <2>. QED
    BY <1>4, <2>1 DEF Rescan, DuplicatesInv
<1>5. CASE ReadsFiles
  <2>. DEFINE m == [at |-> "files", here |-> FileIds \ gone, best |-> best, stored |-> dup]
  <2>1. seen' = m /\ fresh' = TRUE /\ UNCHANGED <<best, gone, dup, Now>>
    BY <1>5 DEF ReadsFiles, Now
  <2>2. m \in Detections /\ m # Unseen
    BY SeenKinds DEF DuplicatesInv, Detections
  <2>3. m.here = Now.here /\ m.best = Now.best /\ m.stored = dup
    BY DEF Now
  <2>. HIDE DEF m
  <2>. QED
    BY <2>1, <2>2, <2>3 DEF DuplicatesInv
<1>6. CASE ReadsGroups
  <2>1. seen \in Detections
    BY <1>6 DEF ReadsGroups, DuplicatesInv, Unseen
  <2>. DEFINE m == [seen EXCEPT !.at = "groups", !.best = best, !.stored = dup]
  <2>2. seen' = m /\ UNCHANGED <<best, gone, dup, fresh, Now>>
    BY <1>6 DEF ReadsGroups, Now
  <2>3. /\ m \in Detections /\ m.here = seen.here /\ m.best = Now.best /\ m.stored = dup
    BY <2>1 DEF DuplicatesInv, Detections, Now
  <2>. HIDE DEF m
  <2>4. m # Unseen /\ seen # Unseen
    BY <2>1, <2>3, SeenKinds
  <2>. QED
    BY <2>2, <2>3, <2>4 DEF DuplicatesInv
<1>7. CASE UNCHANGED duplicatesVars
  <2>1. UNCHANGED <<best, gone, dup, seen, fresh, Now>>
    BY <1>7 DEF duplicatesVars, Now
  <2>2. \A q \in Recordings : Detected(Now, q)' = Detected(Now, q)
    BY <1>0, <2>1
  <2>. QED
    BY <2>1, <2>2 DEF DuplicatesInv
<1>. QED
    BY <1>1, <1>2, <1>3, <1>4, <1>5, <1>6, <1>7 DEF DuplicatesNext

\* The invariant holds.
LEMMA DuplicatesInvariance == DuplicatesSpec => []DuplicatesInv
BY DuplicatesInitially, DuplicatesInductive, PTL DEF DuplicatesSpec

\* What is offered is what the recordings share: no two share a track, the tracks
\* have their files, and a low confidence is a doubt.
LEMMA OffersFollow == DuplicatesInv => OffersAreTrue
<1>. SUFFICES ASSUME DuplicatesInv, fresh, seen = Unseen, NEW r \in Recordings,
                     dup[r] # NoDup, ~dup[r].dismissed
              PROVE  /\ Cardinality(dup[r].members) >= 2 /\ dup[r].members \cap gone = {}
                     /\ \A q \in Recordings \ {r} :
                            ~dup[q].dismissed => dup[q].members \cap dup[r].members = {}
                     /\ Label(dup[r].confidence) = "bassa" => dup[r].doubt
    BY DEF OffersAreTrue
<1>1. \A q \in Recordings : ~dup[q].dismissed => dup[q] = Detected(Now, q)
    BY DEF DuplicatesInv
<1>2. \A q \in Recordings : ~dup[q].dismissed => dup[q].members \subseteq Sharing(Now, q)
  <2>. SUFFICES ASSUME NEW q \in Recordings, ~dup[q].dismissed
                PROVE  dup[q].members \subseteq Sharing(Now, q)
    OBVIOUS
  <2>1. dup[q] = NoDup \/ dup[q] = Evidence(Now, Sharing(Now, q))
    BY <1>1 DEF Detected
  <2>2. NoDup.members = {} /\ Evidence(Now, Sharing(Now, q)).members = Sharing(Now, q)
    BY DEF NoDup, Evidence
  <2>. QED
    BY <2>1, <2>2
<1>3. dup[r] = Evidence(Now, Sharing(Now, r)) /\ ~(Cardinality(Sharing(Now, r)) < 2)
    BY <1>1 DEF Detected
<1>4. dup[r].members = Sharing(Now, r) /\ dup[r].members \cap gone = {}
    BY <1>3 DEF Evidence, Sharing, Now
<1>5. Cardinality(Sharing(Now, r)) >= 2
  <2>1. Sharing(Now, r) \in SUBSET FileIds
    BY DEF Sharing, Now
  <2>2. Cardinality(Sharing(Now, r)) \in Nat
    BY <2>1, DuplicatesConstantsAssumption, FS_Subset, FS_CardinalityType
  <2>. QED
    BY <1>3, <2>2
<1>6. \A q \in Recordings \ {r} : Sharing(Now, q) \cap Sharing(Now, r) = {}
    BY DEF Sharing
<1>7. Label(dup[r].confidence) = "bassa" => dup[r].doubt
  <2>1. dup[r].confidence \in 0..100
    BY DEF DuplicatesInv, Groups
  <2>2. dup[r].confidence < 50 => dup[r].doubt
    <3>1. Evidence(Now, Sharing(Now, r)).confidence = Confidence(Now, Sharing(Now, r))
      BY DEF Evidence
    <3>2. Evidence(Now, Sharing(Now, r)).doubt <=> Confidence(Now, Sharing(Now, r)) < 50 \/ Spread(Sharing(Now, r)) > 10
      BY DEF Evidence
    <3>. QED
      BY <1>3, <3>1, <3>2
  <2>. QED
    BY <2>1, <2>2 DEF Label
<1>. QED
    BY <1>2, <1>4, <1>5, <1>6, <1>7

\* No step offers a group that was dismissed; one that a detection has read as dismissed is left.
LEMMA DismissalsKept ==
    ASSUME DuplicatesInv, [DuplicatesNext]_duplicatesVars PROVE KeepsDismissals
<1>1. CASE DetectDuplicates
  <2>1. seen.at = "groups" /\ seen' = Unseen
    BY <1>1 DEF DetectDuplicates
  <2>. QED
    BY <1>1, <2>1, Detection DEF KeepsDismissals
<1>2. ASSUME NEW r \in Recordings, Dismiss(r) PROVE KeepsDismissals
    BY <1>2 DEF Dismiss, KeepsDismissals, DuplicatesInv
<1>3. ASSUME NEW t \in FileIds, Fingerprint(t) \/ Rescan(t) PROVE KeepsDismissals
    BY <1>3 DEF Fingerprint, Rescan, KeepsDismissals
<1>4. CASE ReadsFiles \/ ReadsGroups
    BY <1>4 DEF ReadsFiles, ReadsGroups, KeepsDismissals
<1>5. CASE UNCHANGED duplicatesVars
    BY <1>5 DEF duplicatesVars, KeepsDismissals
<1>. QED
    BY <1>1, <1>2, <1>3, <1>4, <1>5 DEF DuplicatesNext

-----------------------------------------------------------------------------
(* Grouping.                                                                *)

\* A unit as it is stored.
Units == [pinned : BOOLEAN, count : 0..Cardinality(Tracks), album : Albums \cup {"none"},
          kind : {"none", "singleton", "partial_album", "album"}]

\* What is known of a track, and what a cascade has read.
Facts == [release : Releases \cup {"none"}, barcode : {x.barcode : x \in Known},
          prints : SUBSET Releases, album : Albums, total : Nat, single : BOOLEAN]
Readings == [at : {"tracks", "pins", "units"}, scope : SUBSET Tracks, facts : [Tracks -> Facts],
             unit : [Tracks -> Keys \cup {Ungrouped}], here : SUBSET Tracks,
             pins : SUBSET Keys, stored : [Keys -> Units]]

\* What a cascade has read as confirmed is confirmed, in its later reads too.
ReadPinsHold(m) ==
    /\ m.at = "tracks" => m.pins = {}
    /\ \A k \in m.pins : group[k].pinned /\ (m.at = "units" => m.stored[k].pinned)

\* The inductive invariant of the units: what a user made of one track has no album.
GroupingInv ==
    /\ profile \in [Tracks -> Known] /\ \A t \in Tracks : profile[t] \in Profiles[t]
    /\ missing \in SUBSET Tracks
    /\ unit \in [Tracks -> Keys \cup {Ungrouped}]
    /\ group \in [Keys -> Units]
    /\ edits \in Nat
    /\ \A t \in Tracks : group[<<"manual", t>>].album = "none"
    /\ reads \in [Cascades -> {NoReads} \cup Readings]
    /\ \A c \in Cascades : reads[c] # NoReads => ReadPinsHold(reads[c])

\* A cascade that has read is not idle.
LEMMA ReadingKinds == ASSUME NEW m \in Readings PROVE m # NoReads /\ m.at # "idle"
BY DEF Readings, NoReads

\* A unit that a user made of one track has a key.
LEMMA ManualKeys == \A t \in Tracks : <<"manual", t>> \in Keys
BY DEF Keys

\* A count of tracks is in its bounds.
LEMMA CountTyped ==
    ASSUME NEW S \in SUBSET Tracks PROVE Cardinality(S) \in 0..Cardinality(Tracks)
BY GroupingConstantsAssumption, FS_Subset, FS_CardinalityType

\* What is known of the tracks.
LEMMA ProfileTyped == GroupingInv => profile \in [Tracks -> Facts]
<1>. SUFFICES ASSUME GroupingInv, NEW t \in Tracks PROVE profile[t] \in Facts
    BY DEF GroupingInv
<1>1. profile[t] \in Profiles[t] /\ profile[t] \in Known
    BY DEF GroupingInv
<1>2. profile[t] \in [release : Releases \cup {"none"}, barcode : {profile[t].barcode},
                      prints : SUBSET Releases, album : {profile[t].album},
                      total : Nat, single : BOOLEAN]
    BY <1>1, GroupingConstantsAssumption
<1>3. profile[t].album \in Albums /\ profile[t].barcode \in {x.barcode : x \in Known}
    BY <1>1 DEF Albums
<1>. QED
    BY <1>2, <1>3 DEF Facts

\* The first track of a proposal.
LEMMA EarliestTyped ==
    ASSUME NEW S \in SUBSET Tracks, S # {} PROVE Earliest(S) \in Tracks
<1>1. S \in SUBSET Nat
    BY GroupingConstantsAssumption
<1>2. \E t \in S : \A u \in S : t <= u
    BY <1>1, LeastNumber
<1>. QED
    BY <1>2 DEF Earliest

\* What a proposal is made of: a key of its own kind, and tracks.
IsProposal(p, T) ==
    /\ p.key \in Keys /\ p.key[1] # "manual"
    /\ p.members \subseteq T /\ p.members # {}

\* A set of more than one is not empty.
LEMMA MoreThanOne == \A S : Cardinality(S) > 1 => S # {}
BY FS_EmptySet

\* The units of the first stage.
LEMMA StrongTyped ==
    ASSUME NEW q \in [Tracks -> Facts], NEW T \in SUBSET Tracks, NEW p \in Strong(q, T)
    PROVE  IsProposal(p, T)
<1>1. p \in Identified(q, T) /\ p.members # {}
    BY MoreThanOne DEF Strong
<1>2. CASE p \in Bucket(q, T, "release")
  <2>1. PICK v \in {q[t]["release"] : t \in T} \ {"none"} :
            p = [key |-> <<"release", v>>, members |-> {t \in T : q[t]["release"] = v}]
    BY <1>2 DEF Bucket
  <2>2. v \in Releases
    BY <2>1 DEF Facts
  <2>3. <<"release", v>> \in Keys
    BY <2>2 DEF Keys
  <2>. QED
    BY <1>1, <2>1, <2>3 DEF IsProposal
<1>3. CASE p \in Bucket(q, {t \in T : q[t].release = "none"}, "barcode")
  <2>. DEFINE U == {t \in T : q[t].release = "none"}
  <2>1. PICK v \in {q[t]["barcode"] : t \in U} \ {"none"} :
            p = [key |-> <<"barcode", v>>, members |-> {t \in U : q[t]["barcode"] = v}]
    BY <1>3 DEF Bucket
  <2>2. v \in {x.barcode : x \in Known}
    BY <2>1 DEF Facts
  <2>3. <<"barcode", v>> \in Keys
    BY <2>2 DEF Keys
  <2>. QED
    BY <1>1, <2>1, <2>3 DEF IsProposal
<1>. QED
    BY <1>1, <1>2, <1>3 DEF Identified

\* All proposals: each has tracks of those that are grouped.
LEMMA ProposalsTyped ==
    ASSUME NEW q \in [Tracks -> Facts], NEW T \in SUBSET Tracks,
           NEW claim \in [Releases -> SUBSET Left(q, T)],
           NEW lead \in [Loose(q, Rest(q, T, claim)) -> Loose(q, Rest(q, T, claim))],
           NEW p \in Proposals(q, T, claim, lead)
    PROVE  IsProposal(p, T)
<1>1. /\ Left(q, T) \subseteq T /\ Loose(q, Rest(q, T, claim)) \subseteq T
      /\ Rest(q, T, claim) \subseteq T
    BY DEF Left, Rest, Loose
<1>2. CASE p \in Strong(q, T)
    BY <1>2, StrongTyped
<1>3. CASE p \in Consensus(claim)
  <2>1. PICK r \in Releases :
            claim[r] # {} /\ p = [key |-> <<"fingerprint", r>>, members |-> claim[r]]
    BY <1>3 DEF Consensus
  <2>2. <<"fingerprint", r>> \in Keys
    BY DEF Keys
  <2>. QED
    BY <1>1, <2>1, <2>2 DEF IsProposal
<1>4. CASE p \in Tagged(q, lead)
  <2>1. PICK l \in DOMAIN lead :
            /\ Cardinality(Cluster(lead, l)) > 1
            /\ p = [key |-> <<"tags", q[l].album>>, members |-> Cluster(lead, l)]
    BY <1>4 DEF Tagged
  <2>2. Cluster(lead, l) # {} /\ Cluster(lead, l) \subseteq T /\ l \in Tracks
    BY <1>1, <2>1, MoreThanOne DEF Cluster
  <2>3. q[l].album \in Albums
    BY <2>2 DEF Facts
  <2>4. <<"tags", q[l].album>> \in Keys
    BY <2>3 DEF Keys
  <2>. QED
    BY <2>1, <2>2, <2>4 DEF IsProposal
<1>5. CASE p \in {[key |-> <<"singleton", t>>, members |-> {t}] :
                     t \in Rest(q, T, claim) \ UNION {x.members : x \in Tagged(q, lead)}}
  <2>1. PICK t \in Rest(q, T, claim) : p = [key |-> <<"singleton", t>>, members |-> {t}]
    BY <1>5
  <2>2. t \in T /\ <<"singleton", t>> \in Keys
    BY <1>1, <2>1 DEF Keys
  <2>. QED
    BY <2>1, <2>2 DEF IsProposal
<1>. QED
    BY <1>2, <1>3, <1>4, <1>5 DEF Proposals

\* What a cascade that has read m writes: the proposals it keeps are of tracks that are
\* eligible, for units that it has not read as confirmed.
Regrouped(m, written) ==
    /\ \A p \in written : IsProposal(p, Eligible(m)) /\ ~m.stored[p.key].pinned
    /\ \A t \in Tracks :
           \/ unit'[t] = unit[t]
           \/ \E p \in written : t \in p.members /\ unit'[t] = p.key
    /\ \A k \in Keys :
           \/ group'[k] = group[k]
           \/ \E p \in written :
                  /\ p.key = k
                  /\ group'[k] = Updated(group[k], m.stored[k], Proposed(m, p))

\* Writing does.
LEMMA WritesRegroup ==
    ASSUME NEW m, NEW written, Writes(m, written),
           \A p \in written : IsProposal(p, Eligible(m)) /\ ~m.stored[p.key].pinned
    PROVE  Regrouped(m, written)
<1>1. ASSUME NEW t \in Tracks, unit'[t] # unit[t]
      PROVE  \E p \in written : t \in p.members /\ unit'[t] = p.key
  <2>. DEFINE p == CHOOSE p \in written : t \in p.members
  <2>1. unit'[t] = p.key /\ \E x \in written : t \in x.members
    BY <1>1 DEF Writes
  <2>2. p \in written /\ t \in p.members
    BY <2>1
  <2>. HIDE DEF p
  <2>. QED
    BY <2>1, <2>2
<1>2. ASSUME NEW k \in Keys, group'[k] # group[k]
      PROVE  \E p \in written :
                 /\ p.key = k
                 /\ group'[k] = Updated(group[k], m.stored[k], Proposed(m, p))
  <2>. DEFINE p == CHOOSE p \in written : p.key = k
  <2>1. /\ group'[k] = Updated(group[k], m.stored[k], Proposed(m, p))
        /\ \E x \in written : x.key = k
    BY <1>2 DEF Writes
  <2>2. p \in written /\ p.key = k
    BY <2>1
  <2>. HIDE DEF p
  <2>. QED
    BY <2>1, <2>2
<1>. QED
    BY <1>1, <1>2 DEF Regrouped

\* Every cascade ends in that way.
LEMMA CascadeRewrites ==
    ASSUME GroupingInv, NEW c \in Cascades, CascadeWrites(c)
    PROVE  /\ reads[c] \in Readings /\ reads[c].at = "units"
           /\ \E written : Regrouped(reads[c], written)
           /\ unit' = [t \in Tracks |-> unit'[t]] /\ group' = [k \in Keys |-> group'[k]]
           /\ reads' = [reads EXCEPT ![c] = NoReads] /\ UNCHANGED <<profile, missing, edits>>
<1>. DEFINE m == reads[c]
            q == m.facts
            T == Eligible(m)
            W(claim, lead) == {p \in Proposals(q, T, claim, lead) : ~m.stored[p.key].pinned}
            End(claim, lead) == IF Made(m, W(claim, lead)) THEN UNCHANGED <<unit, group>>
                                ELSE Writes(m, W(claim, lead))
<1>1. /\ m.at = "units" /\ reads' = [reads EXCEPT ![c] = NoReads]
      /\ UNCHANGED <<profile, missing, edits>>
    BY DEF CascadeWrites
<1>2. m \in Readings
    BY <1>1 DEF GroupingInv, NoReads
<1>3. q \in [Tracks -> Facts] /\ T \in SUBSET Tracks
    BY <1>2 DEF Readings, Eligible, Considered
<1>4. \E order \in Orders(q, Left(q, T)) : \E claim \in Claims(q, Left(q, T), order) :
      \E lead \in Leaders(q, Loose(q, Rest(q, T, claim)), Alone(q, T)) : End(claim, lead)
    BY Zenon DEF CascadeWrites
<1>. HIDE DEF m, q, T, W, End
<1>5. PICK order \in Orders(q, Left(q, T)) : \E claim \in Claims(q, Left(q, T), order) :
      \E lead \in Leaders(q, Loose(q, Rest(q, T, claim)), Alone(q, T)) : End(claim, lead)
    BY <1>4, Zenon
<1>6. PICK claim \in Claims(q, Left(q, T), order) :
      \E lead \in Leaders(q, Loose(q, Rest(q, T, claim)), Alone(q, T)) : End(claim, lead)
    BY <1>5, Zenon
<1>7. PICK lead \in Leaders(q, Loose(q, Rest(q, T, claim)), Alone(q, T)) : End(claim, lead)
    BY <1>6, Zenon
<1>8. \A p \in W(claim, lead) : IsProposal(p, T) /\ ~m.stored[p.key].pinned
  <2>1. claim \in [Releases -> SUBSET Left(q, T)]
    BY DEF Claims
  <2>2. lead \in [Loose(q, Rest(q, T, claim)) -> Loose(q, Rest(q, T, claim))]
    BY DEF Leaders
  <2>. QED
    BY <1>3, <2>1, <2>2, ProposalsTyped DEF W
<1>9. CASE Writes(m, W(claim, lead))
  <2>1. Regrouped(m, W(claim, lead))
    BY <1>8, <1>9, WritesRegroup DEF T
  <2>2. unit' = [t \in Tracks |-> unit'[t]] /\ group' = [k \in Keys |-> group'[k]]
    BY <1>9 DEF Writes
  <2>. QED
    BY <1>1, <1>2, <2>1, <2>2 DEF m
<1>10. CASE UNCHANGED <<unit, group>>
  <2>1. Regrouped(m, {})
    BY <1>10 DEF Regrouped
  <2>2. unit' = [t \in Tracks |-> unit'[t]] /\ group' = [k \in Keys |-> group'[k]]
    BY <1>10 DEF GroupingInv
  <2>. QED
    BY <1>1, <1>2, <2>1, <2>2 DEF m
<1>. QED
    BY <1>7, <1>9, <1>10 DEF End

\* A row that is updated is a unit, and its pin is left as it is.
LEMMA UpdatedTyped ==
    ASSUME NEW now \in Units, NEW loaded, NEW new \in Units
    PROVE  Updated(now, loaded, new) \in Units /\ Updated(now, loaded, new).pinned = now.pinned
BY DEF Updated, Units

\* What a cascade writes of a unit is a unit; it confirms none and none that was is not.
LEMMA CascadeUnits ==
    ASSUME GroupingInv, NEW c \in Cascades, CascadeWrites(c), NEW k \in Keys
    PROVE  /\ group'[k] \in Units /\ group'[k].pinned = group[k].pinned
           /\ k[1] = "manual" => group'[k] = group[k]
<1>. DEFINE m == reads[c]
<1>1. PICK written : Regrouped(m, written)
    BY CascadeRewrites
<1>2. m \in Readings /\ Eligible(m) \subseteq Tracks
    BY CascadeRewrites DEF Eligible, Considered, Readings
<1>. HIDE DEF m
<1>3. group[k] \in Units
    BY DEF GroupingInv
<1>4. CASE group'[k] = group[k]
    BY <1>3, <1>4
<1>5. ASSUME NEW p \in written, p.key = k,
             group'[k] = Updated(group[k], m.stored[k], Proposed(m, p))
      PROVE  group'[k] \in Units /\ group'[k].pinned = group[k].pinned /\ k[1] # "manual"
  <2>1. /\ p.key[1] # "manual" /\ p.members \in SUBSET Tracks /\ p.members # {}
    BY <1>1, <1>2 DEF Regrouped, IsProposal
  <2>2. Cardinality(p.members) \in 0..Cardinality(Tracks) /\ Earliest(p.members) \in Tracks
    BY <2>1, CountTyped, EarliestTyped
  <2>3. m.facts[Earliest(p.members)].album \in Albums
    BY <1>2, <2>2 DEF Readings, Facts
  <2>4. Kind(m.facts, p.members) \in {"none", "singleton", "partial_album", "album"}
    BY DEF Kind
  <2>5. Proposed(m, p) \in Units
    BY <2>2, <2>3, <2>4 DEF Proposed, Units
  <2>. QED
    BY <1>3, <1>5, <2>1, <2>5, UpdatedTyped
<1>. QED
    BY <1>1, <1>4, <1>5 DEF Regrouped

\* What a cascade writes keeps the invariant.
LEMMA CascadeKeeps ==
    ASSUME GroupingInv, NEW c \in Cascades, CascadeWrites(c)
    PROVE  GroupingInv'
<1>1. PICK written : Regrouped(reads[c], written)
    BY CascadeRewrites
<1>2. Eligible(reads[c]) \subseteq Tracks
    BY CascadeRewrites DEF Eligible, Considered, Readings
<1>3. \A p \in written : p.key \in Keys
    BY <1>1, <1>2 DEF Regrouped, IsProposal
<1>4. group' \in [Keys -> Units]
    BY CascadeUnits, CascadeRewrites
<1>5. \A t \in Tracks : unit'[t] \in Keys \cup {Ungrouped}
    BY <1>1, <1>3 DEF Regrouped, GroupingInv
<1>6. unit' \in [Tracks -> Keys \cup {Ungrouped}]
    BY <1>5, CascadeRewrites
<1>7. \A t \in Tracks : group'[<<"manual", t>>].album = "none"
    BY CascadeUnits, ManualKeys DEF GroupingInv
<1>8. UNCHANGED <<profile, missing, edits>> /\ reads' = [reads EXCEPT ![c] = NoReads]
    BY CascadeRewrites
<1>9. reads' \in [Cascades -> {NoReads} \cup Readings]
    BY <1>8 DEF GroupingInv
<1>10. ASSUME NEW d \in Cascades, reads'[d] # NoReads PROVE ReadPinsHold(reads[d])'
  <2>1. d # c /\ reads'[d] = reads[d]
    BY <1>8, <1>10 DEF GroupingInv
  <2>2. ReadPinsHold(reads[d]) /\ reads[d] \in Readings
    BY <1>10, <2>1 DEF GroupingInv
  <2>. QED
    BY <2>1, <2>2, CascadeUnits DEF ReadPinsHold, Readings
<1>. QED
    BY <1>4, <1>6, <1>7, <1>8, <1>9, <1>10 DEF GroupingInv

\* The reads of a cascade.
Reading(c) ==
    ReadsTracks(c, Tracks) \/ ReadsTracks(c, Directory) \/ ReadsPins(c) \/ ReadsUnits(c)

\* They keep the invariant, and leave the units alone.
LEMMA ReadingKeeps ==
    ASSUME GroupingInv, NEW c \in Cascades, Reading(c)
    PROVE  GroupingInv' /\ UNCHANGED <<unit, group>> /\ reads'[c] # NoReads
           /\ \A d \in Cascades \ {c} : reads'[d] = reads[d]
<1>1. UNCHANGED <<profile, missing, unit, group, edits>>
    BY DEF Reading, ReadsTracks, ReadsPins, ReadsUnits
<1>2. ASSUME NEW m \in Readings, reads' = [reads EXCEPT ![c] = m], ReadPinsHold(m)
      PROVE  GroupingInv' /\ reads'[c] # NoReads /\ \A d \in Cascades \ {c} : reads'[d] = reads[d]
  <2>1. reads' \in [Cascades -> {NoReads} \cup Readings]
    BY <1>2 DEF GroupingInv
  <2>2. \A d \in Cascades : reads'[d] = IF d = c THEN m ELSE reads[d]
    BY <1>2 DEF GroupingInv
  <2>3. ASSUME NEW d \in Cascades, reads'[d] # NoReads PROVE ReadPinsHold(reads[d])'
    <3>1. ReadPinsHold(reads'[d])
      BY <1>2, <2>2, <2>3 DEF GroupingInv
    <3>. QED
      BY <1>1, <3>1 DEF ReadPinsHold
  <2>. QED
    BY <1>1, <2>1, <2>2, <2>3, ReadingKinds DEF GroupingInv
<1>3. ASSUME NEW S \in SUBSET Tracks, ReadsTracks(c, S)
      PROVE  \E m \in Readings : reads' = [reads EXCEPT ![c] = m] /\ ReadPinsHold(m)
  <2>. DEFINE m == [at |-> "tracks", scope |-> S, facts |-> profile, unit |-> unit,
                    here |-> Tracks \ missing, pins |-> {}, stored |-> [k \in Keys |-> NoGroup]]
  <2>1. NoGroup \in Units
    <3>1. 0 \in 0..Cardinality(Tracks)
      BY GroupingConstantsAssumption, FS_CardinalityType
    <3>. QED
      BY <3>1 DEF NoGroup, Units
  <2>2. m \in Readings
    BY <2>1, ProfileTyped DEF Readings, GroupingInv
  <2>3. ReadPinsHold(m)
    BY DEF ReadPinsHold
  <2>. QED
    BY <1>3, <2>2, <2>3 DEF ReadsTracks
<1>4. ASSUME reads[c].at # "idle" PROVE reads[c] \in Readings /\ ReadPinsHold(reads[c])
    BY <1>4 DEF GroupingInv, NoReads
<1>5. ASSUME ReadsPins(c)
      PROVE  \E m \in Readings : reads' = [reads EXCEPT ![c] = m] /\ ReadPinsHold(m)
  <2>. DEFINE m == [reads[c] EXCEPT !.at = "pins", !.pins = {k \in Keys : group[k].pinned}]
  <2>1. reads[c] \in Readings
    BY <1>4, <1>5 DEF ReadsPins
  <2>2. m \in Readings /\ m.at = "pins" /\ m.pins = {k \in Keys : group[k].pinned}
    BY <2>1 DEF Readings
  <2>3. reads' = [reads EXCEPT ![c] = m]
    BY <1>5 DEF ReadsPins, GroupingInv
  <2>. HIDE DEF m
  <2>. QED
    BY <2>2, <2>3 DEF ReadPinsHold
<1>6. ASSUME ReadsUnits(c)
      PROVE  \E m \in Readings : reads' = [reads EXCEPT ![c] = m] /\ ReadPinsHold(m)
  <2>. DEFINE f == [t \in Tracks |-> [reads[c].facts[t] EXCEPT !.prints = profile[t].prints]]
              m == [reads[c] EXCEPT !.at = "units", !.stored = group, !.facts = f]
  <2>1. reads[c] \in Readings /\ ReadPinsHold(reads[c])
    BY <1>4, <1>6 DEF ReadsUnits
  <2>2. f \in [Tracks -> Facts]
    <3>. SUFFICES ASSUME NEW t \in Tracks
                  PROVE  [reads[c].facts[t] EXCEPT !.prints = profile[t].prints] \in Facts
      OBVIOUS
    <3>1. reads[c].facts[t] \in Facts /\ profile[t].prints \in SUBSET Releases
      BY <2>1, ProfileTyped DEF Readings, Facts
    <3>. QED
      BY <3>1 DEF Facts
  <2>. HIDE DEF f
  <2>3. m \in Readings /\ m.at = "units" /\ m.stored = group /\ m.pins = reads[c].pins
    BY <2>1, <2>2 DEF Readings, GroupingInv
  <2>4. reads' = [reads EXCEPT ![c] = m]
    BY <1>6 DEF ReadsUnits, GroupingInv, f
  <2>. HIDE DEF m
  <2>. QED
    BY <2>1, <2>3, <2>4 DEF ReadPinsHold
<1>7. \E m \in Readings : reads' = [reads EXCEPT ![c] = m] /\ ReadPinsHold(m)
    BY <1>3, <1>5, <1>6, GroupingConstantsAssumption DEF Reading
<1>. QED
    BY <1>1, <1>2, <1>7

\* A correction: the units are counted again, and are otherwise as they were given.
LEMMA CorrectsTyped ==
    ASSUME GroupingInv, NEW t \in Tracks, NEW k \in Keys, NEW g \in [Keys -> Units],
           Corrects(t, k, g)
    PROVE  /\ unit' \in [Tracks -> Keys \cup {Ungrouped}]
           /\ group' \in [Keys -> Units]
           /\ \A u \in Tracks : unit'[u] = IF u = t THEN k ELSE unit[u]
           /\ \A j \in Keys : group'[j].pinned = g[j].pinned /\ group'[j].album = g[j].album
           /\ UNCHANGED <<profile, missing, reads, edits>>
<1>1. /\ unit' = [unit EXCEPT ![t] = k] /\ group' = Recounted(g, unit')
      /\ UNCHANGED <<profile, missing, reads, edits>>
    BY DEF Corrects
<1>2. /\ unit' \in [Tracks -> Keys \cup {Ungrouped}]
      /\ \A u \in Tracks : unit'[u] = IF u = t THEN k ELSE unit[u]
    BY <1>1 DEF GroupingInv
<1>3. \A j \in Keys : g[j] = [pinned |-> g[j].pinned, count |-> g[j].count,
                             album |-> g[j].album, kind |-> g[j].kind] /\ g[j] \in Units
    BY DEF Units
<1>4. \A j \in Keys : Cardinality({u \in Tracks : unit'[u] = j}) \in 0..Cardinality(Tracks)
    BY CountTyped
<1>5. \A j \in Keys : group'[j] = IF g[j] = NoGroup THEN NoGroup
                      ELSE [g[j] EXCEPT !.count = Cardinality({u \in Tracks : unit'[u] = j})]
    BY <1>1 DEF Recounted
<1>6. \A j \in Keys : /\ group'[j] \in Units
                      /\ group'[j].pinned = g[j].pinned /\ group'[j].album = g[j].album
  <2>. SUFFICES ASSUME NEW j \in Keys
                PROVE  /\ group'[j] \in Units
                       /\ group'[j].pinned = g[j].pinned /\ group'[j].album = g[j].album
    OBVIOUS
  <2>1. CASE g[j] = NoGroup
    BY <1>3, <1>5, <2>1
  <2>2. CASE g[j] # NoGroup
    <3>. DEFINE n == Cardinality({u \in Tracks : unit'[u] = j})
    <3>1. group'[j] = [g[j] EXCEPT !.count = n] /\ n \in 0..Cardinality(Tracks)
      BY <1>4, <1>5, <2>2
    <3>. HIDE DEF n
    <3>. QED
      BY <1>3, <3>1 DEF Units
  <2>. QED
    BY <2>1, <2>2
<1>7. group' = [j \in Keys |-> group'[j]]
    BY <1>1 DEF Recounted
<1>8. group' \in [Keys -> Units]
    BY <1>6, <1>7
<1>. QED
    BY <1>1, <1>2, <1>6, <1>8

\* Each correction, as what it gives: a unit that is pinned.
Correction(t, k, g) ==
    /\ k \in Keys /\ g \in [Keys -> Units] /\ Corrects(t, k, g)
    /\ unit[t] \in Keys /\ ~group[unit[t]].pinned
    /\ \A j \in Keys \ {k} : g[j] = group[j]
    /\ g[k].pinned
    /\ g[k].album = group[k].album

\* Every reviewed correction is one of that form.
LEMMA CorrectionsKeep ==
    ASSUME GroupingInv, NEW t \in Tracks, Confirm(t) \/ TreatAsSingleton(t) \/ MoveToCollection(t)
    PROVE  \E k, g : Correction(t, k, g)
<1>1. unit[t] \in Keys /\ ~group[unit[t]].pinned
  <2>1. Correctable(t)
    BY DEF Confirm, TreatAsSingleton, MoveToCollection, Correctable
  <2>2. unit[t] # Ungrouped
    BY <2>1 DEF Correctable, Ungrouped
  <2>. QED
    BY <2>1, <2>2 DEF Correctable, GroupingInv
<1>2. \A k \in Keys : /\ [group EXCEPT ![k].pinned = TRUE] \in [Keys -> Units]
                      /\ [group EXCEPT ![k].pinned = TRUE][k].pinned
                      /\ [group EXCEPT ![k].pinned = TRUE][k].album = group[k].album
    BY DEF GroupingInv, Units
<1>3. \A k \in {"manual"} \X Tracks : k \in Keys /\ group[k].album = "none"
    BY ManualKeys DEF GroupingInv
<1>4. CASE Confirm(t)
  <2>. DEFINE g == [group EXCEPT ![unit[t]].pinned = TRUE]
  <2>1. Corrects(t, unit[t], g)
    BY <1>4 DEF Confirm
  <2>2. \A j \in Keys \ {unit[t]} : g[j] = group[j]
    BY DEF GroupingInv
  <2>3. Correction(t, unit[t], g)
    BY <1>1, <1>2, <1>3, <2>1, <2>2 DEF Correction
  <2>. HIDE DEF g
  <2>. QED
    BY <2>3
<1>5. CASE TreatAsSingleton(t)
  <2>. DEFINE k == <<"manual", t>>
              g == [group EXCEPT ![k] = Single]
  <2>1. Corrects(t, k, g)
    BY <1>5 DEF TreatAsSingleton
  <2>2. k \in Keys /\ k \in {"manual"} \X Tracks
    BY <1>3
  <2>3. Single \in Units
    <3>1. 0 \in 0..Cardinality(Tracks)
      BY GroupingConstantsAssumption, FS_CardinalityType
    <3>. QED
      BY <3>1 DEF Single, Units
  <2>4. /\ g \in [Keys -> Units] /\ g[k].pinned /\ g[k].album = "none"
        /\ \A j \in Keys \ {k} : g[j] = group[j]
    BY <2>2, <2>3 DEF GroupingInv, Single
  <2>. HIDE DEF k, g
  <2>5. Correction(t, k, g)
    BY <1>1, <1>3, <2>1, <2>2, <2>4 DEF Correction
  <2>. QED
    BY <2>5
<1>6. CASE MoveToCollection(t)
  <2>1. PICK k \in Keys \ {unit[t]} : Corrects(t, k, [group EXCEPT ![k].pinned = TRUE])
    BY <1>6 DEF MoveToCollection
  <2>. DEFINE g == [group EXCEPT ![k].pinned = TRUE]
  <2>2. \A j \in Keys \ {k} : g[j] = group[j]
    BY DEF GroupingInv
  <2>3. Correction(t, k, g)
    BY <1>1, <1>2, <1>3, <2>1, <2>2 DEF Correction
  <2>. HIDE DEF g
  <2>. QED
    BY <2>3
<1>. QED
    BY <1>4, <1>5, <1>6

\* The initial states.
LEMMA GroupingInitially == GroupingInit => GroupingInv
<1>. SUFFICES ASSUME GroupingInit PROVE GroupingInv
    OBVIOUS
<1>1. NoGroup \in Units
  <2>1. 0 \in 0..Cardinality(Tracks)
    BY GroupingConstantsAssumption, FS_CardinalityType
  <2>. QED
    BY <2>1 DEF NoGroup, Units
<1>2. group \in [Keys -> Units] /\ \A t \in Tracks : group[<<"manual", t>>].album = "none"
    BY <1>1, ManualKeys DEF GroupingInit, NoGroup
<1>3. unit \in [Tracks -> Keys \cup {Ungrouped}] /\ missing \in SUBSET Tracks /\ edits \in Nat
    BY DEF GroupingInit
<1>4. profile \in [Tracks -> Known] /\ \A t \in Tracks : profile[t] \in Profiles[t]
    BY DEF GroupingInit
<1>5. /\ reads \in [Cascades -> {NoReads} \cup Readings]
      /\ \A c \in Cascades : reads[c] = NoReads
    BY DEF GroupingInit
<1>. QED
    BY <1>2, <1>3, <1>4, <1>5 DEF GroupingInv

\* A step that leaves the reads and the pins that there are keeps what was read true.
LEMMA ReadsStand ==
    ASSUME GroupingInv, UNCHANGED reads, \A k \in Keys : group[k].pinned => group'[k].pinned
    PROVE  /\ (reads \in [Cascades -> {NoReads} \cup Readings])'
           /\ (\A c \in Cascades : reads[c] # NoReads => ReadPinsHold(reads[c]))'
<1>1. ASSUME NEW c \in Cascades, reads[c] # NoReads PROVE ReadPinsHold(reads[c])'
  <2>1. reads[c] \in Readings /\ ReadPinsHold(reads[c])
    BY <1>1 DEF GroupingInv
  <2>. QED
    BY <2>1 DEF ReadPinsHold, Readings
<1>. QED
    BY <1>1 DEF GroupingInv

\* What the catalog is told of tags and files.
LEMMA CatalogEdits ==
    ASSUME GroupingInv, NEW t \in Tracks, Retag(t) \/ Vanish(t)
    PROVE  GroupingInv' /\ UNCHANGED <<unit, group, reads>>
<1>1. CASE Retag(t)
  <2>1. PICK q \in Profiles[t] : profile' = [profile EXCEPT ![t] = q]
    BY <1>1 DEF Retag
  <2>2. q \in Known
    BY DEF Known
  <2>3. profile' \in [Tracks -> Known] /\ \A u \in Tracks : profile'[u] \in Profiles[u]
    BY <2>1, <2>2 DEF GroupingInv
  <2>4. edits' \in Nat /\ UNCHANGED <<missing, unit, group, reads>>
    BY <1>1 DEF Retag, Edit, GroupingInv
  <2>. QED
    BY <2>3, <2>4, ReadsStand DEF GroupingInv
<1>2. CASE Vanish(t)
  <2>1. missing' \in SUBSET Tracks /\ edits' \in Nat
    BY <1>2 DEF Vanish, Edit, GroupingInv
  <2>2. UNCHANGED <<profile, unit, group, reads>>
    BY <1>2 DEF Vanish
  <2>. QED
    BY <2>1, <2>2, ReadsStand DEF GroupingInv
<1>. QED
    BY <1>1, <1>2

\* The steps of the grouping by their kind.
LEMMA GroupingSteps ==
    ASSUME [GroupingNext]_groupingVars
    PROVE  \/ \E c \in Cascades : Reading(c)
           \/ \E c \in Cascades : CascadeWrites(c)
           \/ \E t \in Tracks : Confirm(t) \/ TreatAsSingleton(t) \/ MoveToCollection(t)
           \/ \E t \in Tracks : Retag(t) \/ Vanish(t)
           \/ UNCHANGED groupingVars
BY DEF GroupingNext, Cascade, Reading

\* A correction confirms what it gives, and takes no pin and no album away.
LEMMA CorrectionPins ==
    ASSUME GroupingInv, NEW u \in Tracks, NEW k, NEW g, Correction(u, k, g)
    PROVE  /\ unit' \in [Tracks -> Keys \cup {Ungrouped}] /\ group' \in [Keys -> Units]
           /\ \A t \in Tracks : unit'[t] = IF t = u THEN k ELSE unit[t]
           /\ \A j \in Keys : /\ group'[j].album = group[j].album
                              /\ group[j].pinned => group'[j].pinned
           /\ unit[u] \in Keys /\ ~group[unit[u]].pinned
           /\ UNCHANGED <<profile, missing, reads, edits>>
<1>1. /\ k \in Keys /\ g \in [Keys -> Units] /\ Corrects(u, k, g)
      /\ g[k].pinned /\ g[k].album = group[k].album /\ \A j \in Keys \ {k} : g[j] = group[j]
      /\ unit[u] \in Keys /\ ~group[unit[u]].pinned
    BY DEF Correction
<1>2. /\ unit' \in [Tracks -> Keys \cup {Ungrouped}] /\ group' \in [Keys -> Units]
      /\ \A t \in Tracks : unit'[t] = IF t = u THEN k ELSE unit[t]
      /\ \A j \in Keys : group'[j].pinned = g[j].pinned /\ group'[j].album = g[j].album
      /\ UNCHANGED <<profile, missing, reads, edits>>
    BY <1>1, CorrectsTyped
<1>. QED
    BY <1>1, <1>2

\* Every step keeps the invariant.
LEMMA GroupingInductive == GroupingInv /\ [GroupingNext]_groupingVars => GroupingInv'
<1>. SUFFICES ASSUME GroupingInv, [GroupingNext]_groupingVars PROVE GroupingInv'
    OBVIOUS
<1>1. ASSUME NEW c \in Cascades, Reading(c) \/ CascadeWrites(c) PROVE GroupingInv'
    BY <1>1, CascadeKeeps, ReadingKeeps
<1>2. ASSUME NEW t \in Tracks, Confirm(t) \/ TreatAsSingleton(t) \/ MoveToCollection(t)
      PROVE  GroupingInv'
  <2>1. PICK k, g : Correction(t, k, g)
    BY <1>2, CorrectionsKeep
  <2>2. /\ unit' \in [Tracks -> Keys \cup {Ungrouped}] /\ group' \in [Keys -> Units]
        /\ \A j \in Keys : /\ group'[j].album = group[j].album
                           /\ group[j].pinned => group'[j].pinned
        /\ UNCHANGED <<profile, missing, reads, edits>>
    BY <2>1, CorrectionPins
  <2>3. \A u \in Tracks : group'[<<"manual", u>>].album = "none"
    BY <2>2, ManualKeys DEF GroupingInv
  <2>4. /\ (reads \in [Cascades -> {NoReads} \cup Readings])'
        /\ (\A c \in Cascades : reads[c] # NoReads => ReadPinsHold(reads[c]))'
    BY <2>2, ReadsStand
  <2>. QED
    BY <2>2, <2>3, <2>4 DEF GroupingInv
<1>3. ASSUME NEW t \in Tracks, Retag(t) \/ Vanish(t) PROVE GroupingInv'
    BY <1>3, CatalogEdits
<1>4. CASE UNCHANGED groupingVars
  <2>1. UNCHANGED <<profile, missing, unit, group, reads, edits>>
    BY <1>4 DEF groupingVars
  <2>2. /\ (reads \in [Cascades -> {NoReads} \cup Readings])'
        /\ (\A c \in Cascades : reads[c] # NoReads => ReadPinsHold(reads[c]))'
    BY <2>1, ReadsStand
  <2>. QED
    BY <2>1, <2>2 DEF GroupingInv
<1>. QED
    BY <1>1, <1>2, <1>3, <1>4, GroupingSteps

\* The invariant holds.
LEMMA GroupingInvariance == GroupingSpec => []GroupingInv
BY GroupingInitially, GroupingInductive, PTL DEF GroupingSpec

\* A cascade that ends leaves a track of a unit it has read as confirmed there, and leaves
\* the unit as it is; what it moves is of its scope, and of a unit it has read to be within.
LEMMA CascadeLeaves ==
    ASSUME GroupingInv, NEW c \in Cascades, CascadeWrites(c), NEW t \in Tracks
    PROVE  /\ reads[c] # NoReads /\ \A d \in Cascades : d # c => reads'[d] = reads[d]
           /\ reads'[c] = NoReads
           /\ unit[t] \in reads[c].pins /\ unit[t] = reads[c].unit[t] =>
                  unit'[t] = unit[t] /\ group'[unit[t]] = group[unit[t]]
           /\ unit'[t] # unit[t] => /\ t \in reads[c].scope
                                    /\ reads[c].unit[t] \notin Mixed(reads[c])
<1>. DEFINE m == reads[c]
<1>1. /\ m \in Readings /\ m.at = "units" /\ reads' = [reads EXCEPT ![c] = NoReads]
    BY CascadeRewrites
<1>2. PICK written : Regrouped(m, written)
    BY CascadeRewrites
<1>3. m # NoReads /\ ReadPinsHold(m)
    BY <1>1, ReadingKinds DEF GroupingInv
<1>4. reads'[c] = NoReads /\ \A d \in Cascades : d # c => reads'[d] = reads[d]
    BY <1>1 DEF GroupingInv
<1>. HIDE DEF m
<1>5. ASSUME unit'[t] # unit[t] PROVE t \in Eligible(m)
    BY <1>2, <1>5 DEF Regrouped, IsProposal
<1>6. unit'[t] # unit[t] =>
          t \in m.scope /\ m.unit[t] \notin Mixed(m) /\ m.unit[t] \notin m.pins
    BY <1>5 DEF Eligible, Considered
<1>7. ASSUME unit[t] \in m.pins PROVE group'[unit[t]] = group[unit[t]]
  <2>1. m.stored[unit[t]].pinned /\ unit[t] \in Keys
    BY <1>1, <1>3, <1>7 DEF ReadPinsHold, Readings
  <2>2. \A p \in written : ~m.stored[p.key].pinned
    BY <1>2 DEF Regrouped
  <2>. QED
    BY <1>2, <2>1, <2>2 DEF Regrouped
<1>8. m # NoReads
    BY <1>3
<1>. QED
    BY <1>4, <1>6, <1>7, <1>8 DEF m

\* No step takes a track from a unit that is confirmed, or gives it another album, but for a
\* cascade that has not read so.
LEMMA PinsKept == ASSUME GroupingInv, [GroupingNext]_groupingVars PROVE KeepsPins
<1>1. ASSUME NEW c \in Cascades, Reading(c) PROVE KeepsPins
    BY <1>1, ReadingKeeps DEF KeepsPins
<1>2. ASSUME NEW c \in Cascades, CascadeWrites(c) PROVE KeepsPins
  <2>1. \A k \in Keys : group[k].pinned => group'[k].pinned
    BY <1>2, CascadeUnits
  <2>2. ASSUME NEW t \in Tracks, ~Missed(t)
        PROVE  unit'[t] = unit[t] /\ group'[unit[t]] = group[unit[t]]
    BY <1>2, <2>2, CascadeLeaves DEF Missed
  <2>. QED
    BY <2>1, <2>2 DEF KeepsPins
<1>3. ASSUME NEW u \in Tracks, Confirm(u) \/ TreatAsSingleton(u) \/ MoveToCollection(u)
      PROVE  KeepsPins
  <2>1. PICK k, g : Correction(u, k, g)
    BY <1>3, CorrectionsKeep
  <2>2. /\ \A t \in Tracks : unit'[t] = IF t = u THEN k ELSE unit[t]
        /\ \A j \in Keys : /\ group'[j].album = group[j].album
                           /\ group[j].pinned => group'[j].pinned
        /\ unit[u] \in Keys /\ ~group[unit[u]].pinned
    BY <2>1, CorrectionPins
  <2>3. \A t \in Tracks : unit[t] \in Keys \cup {Ungrouped}
    BY DEF GroupingInv
  <2>. QED
    BY <2>2, <2>3 DEF KeepsPins
<1>4. ASSUME NEW u \in Tracks, Retag(u) \/ Vanish(u) PROVE KeepsPins
    BY <1>4, CatalogEdits DEF KeepsPins
<1>5. CASE UNCHANGED groupingVars
    BY <1>5 DEF groupingVars, KeepsPins
<1>. QED
    BY <1>1, <1>2, <1>3, <1>4, <1>5, GroupingSteps

\* The cascade of a directory takes tracks of it only, and of units within it.
LEMMA ScopeKept == ASSUME GroupingInv, [GroupingNext]_groupingVars PROVE KeepsScope
<1>. SUFFICES ASSUME NEW c \in Cascades, reads[c] # NoReads, reads'[c] = NoReads,
                     NEW t \in Tracks, unit'[t] # unit[t]
              PROVE  t \in reads[c].scope /\ reads[c].unit[t] \notin Mixed(reads[c])
    BY DEF KeepsScope
<1>1. ASSUME NEW d \in Cascades, Reading(d) PROVE FALSE
    BY <1>1, ReadingKeeps
<1>2. ASSUME NEW d \in Cascades, CascadeWrites(d)
      PROVE  t \in reads[c].scope /\ reads[c].unit[t] \notin Mixed(reads[c])
  <2>1. d = c
    BY <1>2, CascadeLeaves
  <2>. QED
    BY <1>2, <2>1, CascadeLeaves
<1>3. ASSUME NEW u \in Tracks, Confirm(u) \/ TreatAsSingleton(u) \/ MoveToCollection(u)
      PROVE  FALSE
  <2>1. PICK k, g : Correction(u, k, g)
    BY <1>3, CorrectionsKeep
  <2>. QED
    BY <2>1, CorrectionPins
<1>4. ASSUME NEW u \in Tracks, Retag(u) \/ Vanish(u) PROVE FALSE
    BY <1>4, CatalogEdits
<1>5. CASE UNCHANGED groupingVars
    BY <1>5 DEF groupingVars
<1>. QED
    BY <1>1, <1>2, <1>3, <1>4, <1>5, GroupingSteps

-----------------------------------------------------------------------------
(* Catalog: what is what.                                                   *)

Versions == 0..MaxVersion

\* A row of a track that has one.
FileRows == [path : Paths, stamp : Versions, tags : Versions, error : BOOLEAN, missing : BOOLEAN]

\* What a scan holds: of the map, of the row it found, of a row it changes.
Mapped  == [track : TrackIds, path : Paths, stamp : Versions, missing : BOOLEAN]
Loaded  == [track : TrackIds, loaded : FileRows]
Changes == [track : TrackIds, path : Paths, loaded : FileRows, wanted : FileRows]

OnFile(t) == t \in TrackIds /\ row[t] \in FileRows

\* The files and the rows.
FilesTyped ==
    /\ file \in [Paths -> Versions] /\ version \in 1..MaxVersion
    /\ row \in [TrackIds -> FileRows \cup {NoRow}]
    /\ mixed \in SUBSET TrackIds

\* A scan; no row it knows goes, and it changes no path.
ScanTyped(s) ==
    /\ s \in [at : {"idle", "walk", "read", "missing", "done"}, scope : SUBSET Paths,
              known : SUBSET Mapped, walked : SUBSET Paths, seen : SUBSET Paths,
              new : SUBSET FileRows, changed : SUBSET Changes,
              path : Paths \cup {"none"}, stamp : Versions, found : Loaded \cup {Unknown},
              calm : BOOLEAN]
    /\ s.at = "read" => s.path \in Paths /\ s.stamp # 0
    /\ \A k \in s.known : OnFile(k.track)
    /\ s.found # Unknown => OnFile(s.found.track)
    /\ \A c \in s.changed : OnFile(c.track) /\ c.wanted.path = c.loaded.path

\* The two other jobs.
JobsTyped ==
    /\ reread \in [at : {"idle", "stat", "read", "commit"}, track : TrackIds \cup {0},
                   loaded : FileRows \cup {NoRow}, stamp : Versions, tags : Versions]
    /\ reread.at # "idle" => OnFile(reread.track) /\ reread.loaded \in FileRows
    /\ reread.at \in {"read", "commit"} => reread.stamp # 0
    /\ apply \in [at : {"idle", "commit"}, track : TrackIds \cup {0},
                  path : Paths \cup {"none"}, stamp : Versions, loaded : FileRows \cup {NoRow}]
    /\ apply.at = "commit" => /\ OnFile(apply.track) /\ apply.loaded \in FileRows
                              /\ apply.path \in Paths /\ apply.stamp # 0

\* Two rows have two paths.
PathsDistinct == \A t, u \in TrackIds : row[t] # NoRow /\ row[t].path = row[u].path => t = u

\* And so have two that are new: each file is walked once.
NewDistinct(s) == \A m, n \in s.new : m.path = n.path => m = n

WalkedOnce(s) ==
    /\ \A n \in s.new : n.path \in s.walked
    /\ s.at = "read" => s.path \in s.walked /\ \A n \in s.new : n.path # s.path
    /\ s.at \in {"missing", "done"} => s.new = {} /\ s.changed = {}

-----------------------------------------------------------------------------
(* What was read of the files.                                              *)

\* Some session, or a row that is not mixed, holds that the file at p was read as
\* version v with the tags g.
ReadAs(s, p, v, g) ==
    \/ \E t \in TrackIds \ mixed :
           /\ row[t].path = p /\ row[t].stamp = v /\ row[t].tags = g
           /\ ~row[t].missing /\ ~row[t].error
    \/ \E n \in s.new : n.path = p /\ n.stamp = v /\ n.tags = g /\ ~n.error
    \/ \E c \in s.changed :
           c.path = p /\ c.wanted.stamp = v /\ c.wanted.tags = g /\ ~c.wanted.error
    \/ reread.at = "commit" /\ reread.loaded.path = p /\ reread.stamp = v /\ reread.tags = g
    \/ apply.at = "commit" /\ apply.path = p /\ apply.stamp = v /\ g = v

\* The stat of a file that is being read.
StatOf(s, p, v) ==
    \/ s.at = "read" /\ s.path = p /\ s.stamp = v
    \/ reread.at = "read" /\ reread.loaded.path = p /\ reread.stamp = v

\* A version is at one path.
VersionsOnce ==
    /\ \A p, q \in Paths : file[p] # 0 /\ file[p] = file[q] => p = q
    /\ \A p \in Paths : file[p] <= version

\* What was met is a version that was made; and the file that an operation of Apply
\* has put at its path was met at no other.
Real(p, v) ==
    /\ v # 0 /\ v <= version
    /\ apply.at = "commit" /\ v = file[apply.path] => p = apply.path

MetBefore(s) ==
    \A p \in Paths, v \in Versions :
        /\ StatOf(s, p, v) => Real(p, v)
        /\ \A g \in Versions : ReadAs(s, p, v, g) => Real(p, v)

\* Tags that were read after their file had changed do not show its version.
ReadIsTrue(s) == \A p \in Paths, v, g \in Versions : ReadAs(s, p, v, g) /\ v = file[p] => g = v

-----------------------------------------------------------------------------
(* A scan during which nothing else moves.                                  *)

\* The row is what the file at p is.
Tells(r, p) == ~r.missing /\ r.stamp = file[p] /\ (r.error \/ r.tags = file[p])

Catalogued(p) == \E t \in RowAt(p) : t \in mixed \/ Tells(row[t], p)

Held(s, p) == (\E n \in s.new : n.path = p) \/ (\E c \in s.changed : c.path = p)

\* The map says what the rows are, of the paths that are not walked.
MapIsTrue(s) ==
    /\ \A k \in s.known : row[k.track].path = k.path
    /\ \A j, k \in s.known : j.path = k.path => j = k
    /\ \A k \in s.known :
           k.path \notin s.walked =>
               row[k.track].stamp = k.stamp /\ row[k.track].missing = k.missing
    /\ \A t \in Rows : row[t].path \in s.seen \/ \E k \in s.known : k.path = row[t].path

\* What is held back is what its files are, one row of each.
BatchIsTrue(s) ==
    /\ \A n \in s.new :
           /\ n.path \in s.seen /\ Tells(n, n.path)
           /\ RowAt(n.path) = {} /\ \A k \in s.known : k.path # n.path
    /\ \A c \in s.changed :
           /\ c.path \in s.seen /\ Tells(c.wanted, c.path)
           /\ c.loaded = row[c.track] /\ c.loaded.path = c.path
    /\ \A c, d \in s.changed : c.path = d.path => c = d

\* The file in hand is nowhere else.
ReadsOne(s) ==
    s.at = "read" =>
        /\ s.path \in s.seen /\ s.stamp = file[s.path] /\ ~Held(s, s.path)
        /\ s.found = Unknown => RowAt(s.path) = {} /\ \A k \in s.known : k.path # s.path
        /\ s.found # Unknown => s.found.loaded = row[s.found.track] /\ s.found.loaded.path = s.path

\* What was walked is seen if it is there, and it is in the catalog or held back.
WalkedIsCatalogued(s) ==
    /\ s.walked \subseteq s.scope
    /\ \A p \in Paths : p \in s.seen <=> p \in s.walked /\ file[p] # 0
    /\ \A p \in s.seen : (s.at = "read" /\ p = s.path) \/ Held(s, p) \/ Catalogued(p)
    /\ s.at \in {"missing", "done"} => s.walked = s.scope
    /\ s.at = "done" => \A t \in Rows : row[t].path \in s.scope \ s.seen => row[t].missing

CalmInv(s) ==
    s.at # "idle" /\ s.calm =>
        /\ reread.at = "idle" /\ apply.at = "idle"
        /\ MapIsTrue(s) /\ BatchIsTrue(s) /\ ReadsOne(s) /\ WalkedIsCatalogued(s)

\* What is to hold of a scan before its commit, and always.
ScanInv(s) == ScanTyped(s) /\ NewDistinct(s) /\ MetBefore(s) /\ ReadIsTrue(s) /\ CalmInv(s)

FileInv == FilesTyped /\ JobsTyped /\ PathsDistinct /\ VersionsOnce

\* The inductive invariant of the catalog.
CatalogInv == FileInv /\ ScanInv(scan) /\ WalkedOnce(scan)

-----------------------------------------------------------------------------
(* Rows.                                                                    *)

\* A row that is on file is one, and the others are none.
LEMMA RowFacts ==
    ASSUME FilesTyped
    PROVE  /\ NoRow \notin FileRows
           /\ \A t \in TrackIds : row[t] = NoRow \/ OnFile(t)
           /\ \A t \in TrackIds : OnFile(t) <=> row[t] # NoRow
           /\ \A t : t \in Rows <=> OnFile(t)
           /\ \A t \in TrackIds : row[t].path \in Paths => OnFile(t)
<1>1. NoRow \notin FileRows /\ NoRow.path \notin Paths
    BY CatalogConstantsAssumption DEF NoRow, FileRows
<1>. QED
    BY <1>1 DEF FilesTyped, OnFile, Rows

\* A flush: the row that was wanted where no other session wrote, and a row always.
LEMMA MergedFacts ==
    ASSUME NEW t, OnFile(t), NEW loaded \in FileRows, NEW wanted \in FileRows
    PROVE  /\ Merged(t, loaded, wanted) \in FileRows
           /\ row[t] = loaded => Merged(t, loaded, wanted) = wanted
           /\ wanted.path = loaded.path => Merged(t, loaded, wanted).path = row[t].path
           /\ Merged(t, loaded, wanted).path \in {wanted.path, row[t].path}
<1>. DEFINE now(c) == IF wanted[c] # loaded[c] THEN wanted[c] ELSE row[t][c]
            r == [path |-> now("path"), stamp |-> now("stamp"), tags |-> now("tags"),
                  error |-> now("error"), missing |-> now("missing")]
<1>1. Merged(t, loaded, wanted) = r
    BY DEF Merged
<1>2. /\ r.path = now("path") /\ r.stamp = now("stamp") /\ r.tags = now("tags")
      /\ r.error = now("error") /\ r.missing = now("missing")
    OBVIOUS
<1>3. /\ now("path") \in Paths /\ now("stamp") \in Versions /\ now("tags") \in Versions
      /\ now("error") \in BOOLEAN /\ now("missing") \in BOOLEAN
    BY DEF OnFile, FileRows
<1>4. r \in FileRows
    BY <1>3 DEF FileRows
<1>5. row[t] = loaded => r = wanted
  <2>. SUFFICES ASSUME row[t] = loaded PROVE r = wanted
    OBVIOUS
  <2>1. /\ now("path") = wanted.path /\ now("stamp") = wanted.stamp /\ now("tags") = wanted.tags
        /\ now("error") = wanted.error /\ now("missing") = wanted.missing
    OBVIOUS
  <2>2. wanted = [path |-> wanted.path, stamp |-> wanted.stamp, tags |-> wanted.tags,
                  error |-> wanted.error, missing |-> wanted.missing]
    BY DEF FileRows
  <2>. HIDE DEF now
  <2>. QED
    BY <2>1, <2>2
<1>6. r.path \in {wanted.path, row[t].path} /\ (wanted.path = loaded.path => r.path = row[t].path)
    BY <1>2
<1>. HIDE DEF r
<1>. QED
    BY <1>1, <1>4, <1>5, <1>6

-----------------------------------------------------------------------------
(* Readings.                                                                *)

\* A version that is on disk was made, and what Apply wrote is nowhere else.
LEMMA OnDiskIsReal ==
    ASSUME FilesTyped, JobsTyped, VersionsOnce, NEW p \in Paths, file[p] # 0
    PROVE  Real(p, file[p]) /\ file[p] \in Versions
BY DEF FilesTyped, JobsTyped, VersionsOnce, Real, Versions

\* A step that leaves the files alone keeps what was read true, if what it reads
\* is what is there, under a version it has met.
LEMMA ReadingsKept ==
    ASSUME NEW s, FilesTyped, JobsTyped, VersionsOnce, MetBefore(s), ReadIsTrue(s),
           UNCHANGED <<file, version>>, apply' = apply \/ apply'.at = "idle",
           \A p \in Paths, v \in Versions :
               StatOf(scan, p, v)' => StatOf(s, p, v) \/ (v = file[p] /\ v # 0),
           \A p \in Paths, v, g \in Versions :
               ReadAs(scan, p, v, g)' => ReadAs(s, p, v, g) \/ (StatOf(s, p, v) /\ g = file[p])
    PROVE  (MetBefore(scan) /\ ReadIsTrue(scan))'
<1>1. ASSUME NEW p \in Paths, NEW v \in Versions, Real(p, v)
      PROVE  Real(p, v)'
    BY <1>1 DEF Real
<1>2. ASSUME NEW p \in Paths, NEW v \in Versions, StatOf(scan, p, v)'
      PROVE  Real(p, v)'
    BY <1>1, <1>2, OnDiskIsReal DEF MetBefore
<1>3. ASSUME NEW p \in Paths, NEW v \in Versions, NEW g \in Versions, ReadAs(scan, p, v, g)'
      PROVE  Real(p, v)' /\ (v = file'[p] => g = v)
  <2>1. CASE ReadAs(s, p, v, g)
      BY <1>1, <2>1 DEF MetBefore, ReadIsTrue
  <2>2. CASE StatOf(s, p, v) /\ g = file[p]
      BY <1>1, <2>2 DEF MetBefore
  <2>. QED
      BY <1>3, <2>1, <2>2
<1>4. MetBefore(scan)'
    BY <1>2, <1>3 DEF MetBefore
<1>5. ReadIsTrue(scan)'
    BY <1>3 DEF ReadIsTrue
<1>. QED
    BY <1>4, <1>5

\* The same of a scan in one state.
LEMMA ReadingsOf ==
    ASSUME NEW r, NEW s, MetBefore(r), ReadIsTrue(r),
           \A p \in Paths, v \in Versions : StatOf(s, p, v) => StatOf(r, p, v),
           \A p \in Paths, v, g \in Versions :
               ReadAs(s, p, v, g) => ReadAs(r, p, v, g) \/ (StatOf(r, p, v) /\ g = file[p])
    PROVE  MetBefore(s) /\ ReadIsTrue(s)
<1>1. ASSUME NEW p \in Paths, NEW v \in Versions, NEW g \in Versions, ReadAs(s, p, v, g)
      PROVE  Real(p, v) /\ (v = file[p] => g = v)
    BY <1>1 DEF MetBefore, ReadIsTrue
<1>2. MetBefore(s)
    BY <1>1 DEF MetBefore
<1>3. ReadIsTrue(s)
    BY <1>1 DEF ReadIsTrue
<1>. QED
    BY <1>2, <1>3

\* What was met stays met, and true, if no file comes to have a version that was met
\* elsewhere: of a step that changes the files and reads none.
LEMMA ReadingsPass ==
    ASSUME MetBefore(scan), ReadIsTrue(scan),
           \A p \in Paths, v \in Versions : Real(p, v) => Real(p, v)',
           \A p \in Paths, v \in Versions : Real(p, v) /\ v = file'[p] => v = file[p],
           \A p \in Paths, v \in Versions : StatOf(scan, p, v)' => StatOf(scan, p, v),
           \A p \in Paths, v, g \in Versions :
               ReadAs(scan, p, v, g)' => ReadAs(scan, p, v, g) \/ (Real(p, v)' /\ g = v)
    PROVE  (MetBefore(scan) /\ ReadIsTrue(scan))'
<1>1. ASSUME NEW p \in Paths, NEW v \in Versions, StatOf(scan, p, v)'
      PROVE  Real(p, v)'
    BY <1>1 DEF MetBefore
<1>2. ASSUME NEW p \in Paths, NEW v \in Versions, NEW g \in Versions, ReadAs(scan, p, v, g)'
      PROVE  Real(p, v)' /\ (v = file'[p] => g = v)
    BY <1>2 DEF MetBefore, ReadIsTrue
<1>3. MetBefore(scan)'
    BY <1>1, <1>2 DEF MetBefore
<1>4. ReadIsTrue(scan)'
    BY <1>2 DEF ReadIsTrue
<1>. QED
    BY <1>3, <1>4

-----------------------------------------------------------------------------
(* Steps of the others.                                                     *)

\* A scan that nothing disturbs but a row that is written keeps its types, and one
\* that was calm is no longer.
LEMMA Disturbed ==
    ASSUME ScanTyped(scan), NewDistinct(scan), WalkedOnce(scan),
           \/ scan' = scan /\ (scan.at = "idle" \/ ~scan.calm)
           \/ scan' = [scan EXCEPT !.calm = FALSE],
           \A t \in TrackIds : OnFile(t) => OnFile(t)'
    PROVE  /\ (ScanTyped(scan) /\ NewDistinct(scan) /\ WalkedOnce(scan) /\ CalmInv(scan))'
           /\ scan'.at = scan.at /\ scan'.path = scan.path /\ scan'.stamp = scan.stamp
           /\ scan'.new = scan.new /\ scan'.changed = scan.changed
<1>1. /\ scan'.at = scan.at /\ scan'.path = scan.path /\ scan'.stamp = scan.stamp
      /\ scan'.new = scan.new /\ scan'.changed = scan.changed /\ scan'.known = scan.known
      /\ scan'.walked = scan.walked /\ scan'.found = scan.found
      /\ scan'.at = "idle" \/ ~scan'.calm
    BY DEF ScanTyped
<1>2. \A t : OnFile(t) => OnFile(t)'
    BY DEF OnFile
<1>3. ScanTyped(scan)'
    BY <1>1, <1>2 DEF ScanTyped
<1>4. NewDistinct(scan)'
    BY <1>1 DEF NewDistinct
<1>5. WalkedOnce(scan)'
    BY <1>1 DEF WalkedOnce
<1>6. CalmInv(scan)'
    BY <1>1 DEF CalmInv
<1>. QED
    BY <1>1, <1>3, <1>4, <1>5, <1>6

\* A reading of a scan that keeps what it holds back.
LEMMA SameReadings ==
    ASSUME scan'.at = scan.at, scan'.path = scan.path, scan'.stamp = scan.stamp,
           scan'.new = scan.new, scan'.changed = scan.changed,
           UNCHANGED <<row, reread, mixed>>
    PROVE  /\ \A p \in Paths, v \in Versions : StatOf(scan, p, v)' => StatOf(scan, p, v)
           /\ \A p \in Paths, v, g \in Versions :
                  ReadAs(scan, p, v, g)' =>
                      ReadAs(scan, p, v, g) \/ (apply'.at = "commit" /\ apply'.path = p
                                                /\ apply'.stamp = v /\ g = v
                                                /\ apply' # apply)
<1>1. ASSUME NEW p \in Paths, NEW v \in Versions, StatOf(scan, p, v)'
      PROVE  StatOf(scan, p, v)
    BY <1>1 DEF StatOf
<1>2. ASSUME NEW p \in Paths, NEW v \in Versions, NEW g \in Versions, ReadAs(scan, p, v, g)',
             ~(apply'.at = "commit" /\ apply'.path = p /\ apply'.stamp = v /\ g = v
               /\ apply' # apply)
      PROVE  ReadAs(scan, p, v, g)
  <2>1. CASE apply' = apply
      BY <1>2, <2>1 DEF ReadAs
  <2>2. CASE apply' # apply
      BY <1>2, <2>2 DEF ReadAs
  <2>. QED
      BY <2>1, <2>2
<1>. QED
    BY <1>1, <1>2

\* An edit or a removal of a file.
LEMMA KeptByTouch ==
    ASSUME CatalogInv, NEW q \in Paths, Touch(q)
    PROVE  CatalogInv'
<1>. USE DEF CatalogInv, FileInv, ScanInv
<1>1. /\ UNCHANGED <<row, reread, apply, mixed>>
      /\ version' \in {version, version + 1} /\ version' \in 1..MaxVersion
      /\ file' \in [Paths -> Versions]
      /\ \A p \in Paths : p # q => file'[p] = file[p]
      /\ file'[q] = 0 \/ (file'[q] = version' /\ version' = version + 1)
  <2>1. CASE version < MaxVersion /\ version' = version + 1 /\ file' = [file EXCEPT ![q] = version']
      BY <2>1, CatalogConstantsAssumption DEF Touch, FilesTyped, Versions
  <2>2. CASE file' = [file EXCEPT ![q] = 0] /\ UNCHANGED version
      BY <2>2, CatalogConstantsAssumption DEF Touch, FilesTyped, Versions
  <2>. QED
      BY <2>1, <2>2 DEF Touch
<1>2. \/ scan' = scan /\ scan.at = "idle"
      \/ scan' = [scan EXCEPT !.calm = FALSE]
    BY DEF Touch, Stirs
<1>3. \A t : OnFile(t) <=> OnFile(t)'
    BY <1>1 DEF OnFile
<1>4. /\ (ScanTyped(scan) /\ NewDistinct(scan) /\ WalkedOnce(scan) /\ CalmInv(scan))'
      /\ scan'.at = scan.at /\ scan'.path = scan.path /\ scan'.stamp = scan.stamp
      /\ scan'.new = scan.new /\ scan'.changed = scan.changed
    BY <1>2, <1>3, Disturbed
<1>5. FilesTyped' /\ JobsTyped' /\ PathsDistinct'
    BY <1>1, <1>3 DEF FilesTyped, JobsTyped, PathsDistinct
<1>6. VersionsOnce'
    BY <1>1 DEF VersionsOnce, FilesTyped, Versions
<1>7. \A p \in Paths, v \in Versions :
          /\ Real(p, v) => Real(p, v)'
          /\ Real(p, v) /\ v = file'[p] => v = file[p]
    BY <1>1 DEF Real, FilesTyped, JobsTyped, Versions
<1>8. (MetBefore(scan) /\ ReadIsTrue(scan))'
  <2>1. \A p \in Paths, v \in Versions : StatOf(scan, p, v)' => StatOf(scan, p, v)
      BY <1>1, <1>4, SameReadings
  <2>2. \A p \in Paths, v, g \in Versions : ReadAs(scan, p, v, g)' => ReadAs(scan, p, v, g)
      BY <1>1, <1>4, SameReadings
  <2>. QED
      BY <1>7, <2>1, <2>2, ReadingsPass
<1>. QED
    BY <1>4, <1>5, <1>6, <1>8

\* Apply writes a version of its own, at a path that is free.
LEMMA KeptByApplyWrites ==
    ASSUME CatalogInv, NEW t \in TrackIds, NEW q \in Paths, ApplyWrites(t, q)
    PROVE  CatalogInv'
<1>. USE DEF CatalogInv, FileInv, ScanInv
<1>. DEFINE p0 == row[t].path
<1>0. OnFile(t) /\ p0 \in Paths
    BY RowFacts DEF ApplyWrites, OnFile, FileRows
<1>1. /\ UNCHANGED <<row, reread, mixed>>
      /\ version' = version + 1 /\ version' \in 1..MaxVersion
      /\ file' = [file EXCEPT ![p0] = 0, ![q] = version']
      /\ apply.at = "idle" /\ (p0 = q \/ file[q] = 0)
    BY CatalogConstantsAssumption DEF ApplyWrites, FilesTyped
<1>2. /\ file' \in [Paths -> Versions]
      /\ \A p \in Paths : p # p0 /\ p # q => file'[p] = file[p]
      /\ file'[q] = version' /\ (p0 # q => file'[p0] = 0)
    BY <1>0, <1>1, CatalogConstantsAssumption DEF FilesTyped, Versions
<1>3. /\ apply' = [at |-> "commit", track |-> t, path |-> q, stamp |-> version',
                   loaded |-> row[t]]
    BY DEF ApplyWrites
<1>4. \/ scan' = scan /\ scan.at = "idle"
      \/ scan' = [scan EXCEPT !.calm = FALSE]
    BY DEF ApplyWrites, Stirs
<1>5. \A u : OnFile(u) <=> OnFile(u)'
    BY <1>1 DEF OnFile
<1>6. /\ (ScanTyped(scan) /\ NewDistinct(scan) /\ WalkedOnce(scan) /\ CalmInv(scan))'
      /\ scan'.at = scan.at /\ scan'.path = scan.path /\ scan'.stamp = scan.stamp
      /\ scan'.new = scan.new /\ scan'.changed = scan.changed
    BY <1>4, <1>5, Disturbed
<1>7. FilesTyped' /\ PathsDistinct'
    BY <1>1, <1>2 DEF FilesTyped, PathsDistinct
<1>8. JobsTyped'
    BY <1>0, <1>1, <1>3, <1>5 DEF JobsTyped, OnFile, Versions
<1>9. VersionsOnce'
    BY <1>0, <1>1, <1>2 DEF VersionsOnce, FilesTyped, Versions
<1>10. \A p \in Paths, v \in Versions :
          /\ Real(p, v) => Real(p, v)'
          /\ Real(p, v) /\ v = file'[p] => v = file[p]
    BY <1>0, <1>1, <1>2, <1>3 DEF Real, FilesTyped, Versions
<1>11. Real(q, version)'
    BY <1>1, <1>3 DEF Real, FilesTyped
<1>12. (MetBefore(scan) /\ ReadIsTrue(scan))'
  <2>1. \A p \in Paths, v \in Versions : StatOf(scan, p, v)' => StatOf(scan, p, v)
      BY <1>1, <1>6, SameReadings
  <2>2. \A p \in Paths, v, g \in Versions :
            ReadAs(scan, p, v, g)' => ReadAs(scan, p, v, g) \/ (Real(p, v)' /\ g = v)
    <3>1. \A p \in Paths, v, g \in Versions :
              ReadAs(scan, p, v, g)' =>
                  ReadAs(scan, p, v, g) \/ (apply'.path = p /\ apply'.stamp = v /\ g = v)
        BY <1>1, <1>6, SameReadings
    <3>2. apply'.path = q /\ apply'.stamp = version'
        BY <1>3
    <3>. QED
        BY <1>11, <3>1, <3>2
  <2>. QED
      BY <1>10, <2>1, <2>2, ReadingsPass
<1>. QED
    BY <1>6, <1>7, <1>8, <1>9, <1>12

\* Apply puts the file back: what was met of it was met where it is taken from.
LEMMA KeptByApplyRestores ==
    ASSUME CatalogInv, ApplyRestores
    PROVE  CatalogInv'
<1>. USE DEF CatalogInv, FileInv, ScanInv
<1>. DEFINE p0 == row[apply.track].path
            q  == apply.path
<1>0. /\ apply.at = "commit" /\ p0 \in Paths /\ q \in Paths
      /\ apply' = NoFile /\ apply'.at = "idle"
      /\ UNCHANGED <<version, row, reread, mixed>>
    BY DEF ApplyRestores, JobsTyped, OnFile, FileRows, NoFile
<1>1. file' = IF file[p0] = 0 THEN [file EXCEPT ![q] = 0, ![p0] = file[q]] ELSE file
    BY DEF ApplyRestores
<1>2. \/ file' = file
      \/ /\ file[p0] = 0 /\ file' \in [Paths -> Versions]
         /\ \A p \in Paths : p # p0 /\ p # q => file'[p] = file[p]
         /\ file'[p0] = file[q] /\ (p0 # q => file'[q] = 0)
    BY <1>0, <1>1 DEF FilesTyped, Versions
<1>3. \/ scan' = scan /\ scan.at = "idle"
      \/ scan' = [scan EXCEPT !.calm = FALSE]
    BY DEF ApplyRestores, Stirs
<1>4. \A u : OnFile(u) <=> OnFile(u)'
    BY <1>0 DEF OnFile
<1>5. /\ (ScanTyped(scan) /\ NewDistinct(scan) /\ WalkedOnce(scan) /\ CalmInv(scan))'
      /\ scan'.at = scan.at /\ scan'.path = scan.path /\ scan'.stamp = scan.stamp
      /\ scan'.new = scan.new /\ scan'.changed = scan.changed
    BY <1>3, <1>4, Disturbed
<1>6. FilesTyped' /\ PathsDistinct'
    BY <1>0, <1>2 DEF FilesTyped, PathsDistinct
<1>7. JobsTyped'
  <2>1. NoFile \in [at : {"idle", "commit"}, track : TrackIds \cup {0},
                    path : Paths \cup {"none"}, stamp : Versions, loaded : FileRows \cup {NoRow}]
      BY CatalogConstantsAssumption DEF NoFile, Versions
  <2>. QED
      BY <1>0, <1>4, <2>1 DEF JobsTyped
<1>8. VersionsOnce'
    BY <1>0, <1>2 DEF VersionsOnce, FilesTyped, Versions
<1>9. \A p \in Paths, v \in Versions :
          /\ Real(p, v) => Real(p, v)'
          /\ Real(p, v) /\ v = file'[p] => v = file[p]
    BY <1>0, <1>2 DEF Real, FilesTyped, Versions
<1>10. (MetBefore(scan) /\ ReadIsTrue(scan))'
  <2>1. \A p \in Paths, v \in Versions : StatOf(scan, p, v)' => StatOf(scan, p, v)
      BY <1>0, <1>5, SameReadings
  <2>2. \A p \in Paths, v, g \in Versions : ReadAs(scan, p, v, g)' => ReadAs(scan, p, v, g)
      BY <1>0, <1>5, SameReadings
  <2>. QED
      BY <1>9, <2>1, <2>2, ReadingsPass
<1>. QED
    BY <1>5, <1>6, <1>7, <1>8, <1>10

\* A session of one row commits: the row is what it read, or it is mixed.
LEMMA KeptByCommit ==
    ASSUME CatalogInv, NEW t \in TrackIds, OnFile(t),
           NEW loaded \in FileRows, NEW wanted \in FileRows,
           row' = [row EXCEPT ![t] = Merged(t, loaded, wanted)], mixed' = Mixes(t, loaded),
           UNCHANGED <<file, version>>, Stirs,
           reread' = reread \/ reread' = Asleep, apply' = apply \/ apply' = NoFile,
           wanted.path = loaded.path \/ RowAt(wanted.path) \subseteq {t},
           ~wanted.missing /\ ~wanted.error
               => ReadAs(scan, wanted.path, wanted.stamp, wanted.tags)
    PROVE  CatalogInv'
<1>. USE DEF CatalogInv, FileInv, ScanInv
<1>. DEFINE r == Merged(t, loaded, wanted)
<1>0. /\ r \in FileRows /\ (row[t] = loaded => r = wanted)
      /\ wanted.path = loaded.path => r.path = row[t].path
      /\ r.path \in {wanted.path, row[t].path}
    BY MergedFacts
<1>1. /\ row' \in [TrackIds -> FileRows \cup {NoRow}]
      /\ \A u \in TrackIds : u # t => row'[u] = row[u]
      /\ row'[t] = r
    BY <1>0 DEF FilesTyped
<1>2. /\ t \notin mixed' => row[t] = loaded
      /\ mixed' \subseteq TrackIds
      /\ \A u \in TrackIds : u # t => (u \in mixed' <=> u \in mixed)
    BY DEF Mixes, FilesTyped
<1>3. FilesTyped'
    BY <1>1, <1>2 DEF FilesTyped
<1>4. \A u : OnFile(u) => OnFile(u)'
    BY <1>0, <1>1 DEF OnFile
<1>5. JobsTyped'
  <2>1. /\ Asleep \in [at : {"idle", "stat", "read", "commit"}, track : TrackIds \cup {0},
                       loaded : FileRows \cup {NoRow}, stamp : Versions, tags : Versions]
        /\ Asleep.at = "idle"
      BY CatalogConstantsAssumption DEF Asleep, Versions
  <2>2. /\ NoFile \in [at : {"idle", "commit"}, track : TrackIds \cup {0},
                       path : Paths \cup {"none"}, stamp : Versions, loaded : FileRows \cup {NoRow}]
        /\ NoFile.at = "idle"
      BY CatalogConstantsAssumption DEF NoFile, Versions
  <2>3. reread' = Asleep \/ (reread' = reread /\ (reread.at # "idle" => OnFile(reread.track)'))
      BY <1>4 DEF JobsTyped
  <2>4. apply' = NoFile \/ (apply' = apply /\ (apply.at = "commit" => OnFile(apply.track)'))
      BY <1>4 DEF JobsTyped
  <2>. QED
      BY <2>1, <2>2, <2>3, <2>4 DEF JobsTyped
<1>6. PathsDistinct'
  <2>1. ASSUME NEW u \in TrackIds, u # t, row[u] # NoRow PROVE row[u].path # r.path
    <3>1. CASE r.path = row[t].path
        BY <2>1, <3>1 DEF PathsDistinct
    <3>2. CASE wanted.path # loaded.path /\ r.path = wanted.path
        BY <2>1, <3>2 DEF RowAt, Rows
    <3>. QED
        BY <1>0, <3>1, <3>2
  <2>2. r # NoRow /\ row[t] # NoRow
      BY <1>0, RowFacts DEF OnFile
  <2>3. ASSUME NEW u \in TrackIds, u # t PROVE row[u].path # r.path
      BY <2>1, <2>3, <1>0, RowFacts, CatalogConstantsAssumption DEF NoRow, FileRows
  <2>. QED
      BY <1>1, <2>1, <2>2, <2>3 DEF PathsDistinct
<1>7. VersionsOnce'
    BY DEF VersionsOnce
<1>8. /\ (ScanTyped(scan) /\ NewDistinct(scan) /\ WalkedOnce(scan) /\ CalmInv(scan))'
      /\ scan'.at = scan.at /\ scan'.path = scan.path /\ scan'.stamp = scan.stamp
      /\ scan'.new = scan.new /\ scan'.changed = scan.changed
    BY <1>4, Disturbed DEF Stirs
<1>9. Asleep.at = "idle" /\ NoFile.at = "idle"
    BY DEF Asleep, NoFile
<1>10. ASSUME NEW p \in Paths, NEW v \in Versions, StatOf(scan, p, v)'
       PROVE  StatOf(scan, p, v)
    BY <1>8, <1>9, <1>10 DEF StatOf
<1>11. ASSUME NEW p \in Paths, NEW v \in Versions, NEW g \in Versions, ReadAs(scan, p, v, g)'
       PROVE  ReadAs(scan, p, v, g)
  <2>1. ASSUME NEW u \in TrackIds, u \notin mixed',
               row'[u].path = p, row'[u].stamp = v, row'[u].tags = g,
               ~row'[u].missing, ~row'[u].error
        PROVE  ReadAs(scan, p, v, g)
    <3>1. CASE u = t
        BY <1>0, <1>1, <1>2, <2>1, <3>1
    <3>2. CASE u # t
        BY <1>1, <1>2, <2>1, <3>2 DEF ReadAs
    <3>. QED
        BY <3>1, <3>2
  <2>2. CASE \E n \in scan'.new : n.path = p /\ n.stamp = v /\ n.tags = g /\ ~n.error
      BY <1>8, <2>2 DEF ReadAs
  <2>3. CASE \E c \in scan'.changed :
                 c.path = p /\ c.wanted.stamp = v /\ c.wanted.tags = g /\ ~c.wanted.error
      BY <1>8, <2>3 DEF ReadAs
  <2>4. CASE /\ reread'.at = "commit" /\ reread'.loaded.path = p /\ reread'.stamp = v
             /\ reread'.tags = g
      BY <1>9, <2>4 DEF ReadAs
  <2>5. CASE apply'.at = "commit" /\ apply'.path = p /\ apply'.stamp = v /\ g = v
      BY <1>9, <2>5 DEF ReadAs
  <2>. QED
      BY <1>11, <2>1, <2>2, <2>3, <2>4, <2>5 DEF ReadAs
<1>12. (MetBefore(scan) /\ ReadIsTrue(scan))'
  <2>1. PICK s : s = scan
      OBVIOUS
  <2>2. /\ \A p \in Paths, v \in Versions : StatOf(scan, p, v)' => StatOf(s, p, v)
        /\ \A p \in Paths, v, g \in Versions : ReadAs(scan, p, v, g)' => ReadAs(s, p, v, g)
      BY <1>10, <1>11, <2>1
  <2>3. MetBefore(s) /\ ReadIsTrue(s)
      BY <2>1
  <2>4. apply' = apply \/ apply'.at = "idle"
      BY <1>9
  <2>. QED
      BY <2>2, <2>3, <2>4, ReadingsKept
<1>. QED
    BY <1>3, <1>5, <1>6, <1>7, <1>8, <1>12

\* Apply commits its row.
LEMMA KeptByApplyCommits ==
    ASSUME CatalogInv, ApplyCommits
    PROVE  CatalogInv'
<1>1. PICK t, loaded, wanted :
          /\ t = apply.track /\ loaded = apply.loaded
          /\ wanted = [apply.loaded EXCEPT !.path = apply.path, !.stamp = apply.stamp,
                                           !.tags = apply.stamp, !.missing = FALSE]
    OBVIOUS
<1>2. /\ OnFile(t) /\ t \in TrackIds /\ loaded \in FileRows /\ apply.path \in Paths
      /\ apply.stamp \in Versions /\ apply.at = "commit"
    BY <1>1 DEF ApplyCommits, CatalogInv, FileInv, JobsTyped, OnFile
<1>3. wanted \in FileRows
    BY <1>1, <1>2 DEF FileRows
<1>4. wanted.path = apply.path /\ wanted.stamp = apply.stamp /\ wanted.tags = apply.stamp
    BY <1>1, <1>2 DEF FileRows
<1>5. /\ row' = [row EXCEPT ![t] = Merged(t, loaded, wanted)] /\ mixed' = Mixes(t, loaded)
      /\ UNCHANGED <<file, version>> /\ Stirs /\ reread' = reread /\ apply' = NoFile
      /\ RowAt(wanted.path) \subseteq {t}
    BY <1>1, <1>4 DEF ApplyCommits
<1>6. ReadAs(scan, wanted.path, wanted.stamp, wanted.tags)
    BY <1>2, <1>4 DEF ReadAs
<1>. QED
    BY <1>2, <1>3, <1>5, <1>6, KeptByCommit

\* A reread commits its row, whatever it says of it.
LEMMA KeptByRereads ==
    ASSUME CatalogInv, NEW wanted \in FileRows, Rereads(wanted), reread.at # "idle",
           wanted.path = reread.loaded.path,
           ~wanted.missing /\ ~wanted.error
               => ReadAs(scan, wanted.path, wanted.stamp, wanted.tags)
    PROVE  CatalogInv'
<1>1. PICK t, loaded : t = reread.track /\ loaded = reread.loaded
    OBVIOUS
<1>2. OnFile(t) /\ t \in TrackIds /\ loaded \in FileRows
    BY <1>1 DEF CatalogInv, FileInv, JobsTyped, OnFile
<1>3. /\ row' = [row EXCEPT ![t] = Merged(t, loaded, wanted)] /\ mixed' = Mixes(t, loaded)
      /\ UNCHANGED <<file, version>> /\ Stirs /\ reread' = Asleep /\ apply' = apply
    BY <1>1 DEF Rereads
<1>4. wanted.path = loaded.path
    BY <1>1
<1>. QED
    BY <1>2, <1>3, <1>4, KeptByCommit

\* The file is gone, it cannot be read, or it was read.
LEMMA KeptByRereadEnds ==
    ASSUME CatalogInv, RereadMissing \/ RereadErrors \/ RereadCommits
    PROVE  CatalogInv'
<1>0. /\ reread.at # "idle" => reread.loaded \in FileRows
      /\ reread.stamp \in Versions /\ reread.tags \in Versions
    BY DEF CatalogInv, FileInv, JobsTyped
<1>1. CASE RereadMissing
  <2>1. PICK wanted : wanted = [reread.loaded EXCEPT !.missing = TRUE]
      OBVIOUS
  <2>2. reread.at # "idle" /\ Rereads(wanted)
      BY <1>1, <2>1 DEF RereadMissing
  <2>3. wanted \in FileRows /\ wanted.missing /\ wanted.path = reread.loaded.path
      BY <1>0, <2>1, <2>2 DEF FileRows
  <2>. QED
      BY <2>2, <2>3, KeptByRereads
<1>2. CASE RereadErrors
  <2>1. PICK wanted : wanted = [reread.loaded EXCEPT !.stamp = reread.stamp, !.error = TRUE,
                                                     !.missing = FALSE]
      OBVIOUS
  <2>2. reread.at # "idle" /\ Rereads(wanted)
      BY <1>2, <2>1 DEF RereadErrors
  <2>3. wanted \in FileRows /\ wanted.error /\ wanted.path = reread.loaded.path
      BY <1>0, <2>1, <2>2 DEF FileRows
  <2>. QED
      BY <2>2, <2>3, KeptByRereads
<1>3. CASE RereadCommits
  <2>1. PICK wanted : wanted = [reread.loaded EXCEPT !.stamp = reread.stamp,
                                    !.tags = reread.tags, !.error = FALSE, !.missing = FALSE]
      OBVIOUS
  <2>2. reread.at = "commit" /\ Rereads(wanted)
      BY <1>3, <2>1 DEF RereadCommits
  <2>3. /\ wanted \in FileRows /\ wanted.path = reread.loaded.path
        /\ wanted.stamp = reread.stamp /\ wanted.tags = reread.tags
      BY <1>0, <2>1, <2>2 DEF FileRows
  <2>4. ReadAs(scan, wanted.path, wanted.stamp, wanted.tags)
      BY <2>2, <2>3 DEF ReadAs
  <2>. QED
      BY <2>2, <2>3, <2>4, KeptByRereads
<1>. QED
    BY <1>1, <1>2, <1>3

\* A reread that goes on reads what is there, under the version it has met.
LEMMA KeptByReread ==
    ASSUME CatalogInv, UNCHANGED <<file, version, row, apply, mixed>>, JobsTyped',
           \/ scan' = scan /\ (scan.at = "idle" \/ ~scan.calm)
           \/ scan' = [scan EXCEPT !.calm = FALSE],
           \A p \in Paths, v \in Versions :
               reread'.at = "read" /\ reread'.loaded.path = p /\ reread'.stamp = v
                   => StatOf(scan, p, v) \/ (v = file[p] /\ v # 0),
           \A p \in Paths, v, g \in Versions :
               (reread'.at = "commit" /\ reread'.loaded.path = p
                    /\ reread'.stamp = v /\ reread'.tags = g)
                   => ReadAs(scan, p, v, g) \/ (StatOf(scan, p, v) /\ g = file[p])
    PROVE  CatalogInv'
<1>. USE DEF CatalogInv, FileInv, ScanInv
<1>1. \A u : OnFile(u) <=> OnFile(u)'
    BY DEF OnFile
<1>2. /\ (ScanTyped(scan) /\ NewDistinct(scan) /\ WalkedOnce(scan) /\ CalmInv(scan))'
      /\ scan'.at = scan.at /\ scan'.path = scan.path /\ scan'.stamp = scan.stamp
      /\ scan'.new = scan.new /\ scan'.changed = scan.changed
    BY <1>1, Disturbed
<1>3. FilesTyped' /\ PathsDistinct' /\ VersionsOnce'
    BY DEF FilesTyped, PathsDistinct, VersionsOnce
<1>4. ASSUME NEW p \in Paths, NEW v \in Versions, StatOf(scan, p, v)'
      PROVE  StatOf(scan, p, v) \/ (v = file[p] /\ v # 0)
  <2>1. CASE scan'.at = "read" /\ scan'.path = p /\ scan'.stamp = v
      BY <1>2, <2>1 DEF StatOf
  <2>2. CASE reread'.at = "read" /\ reread'.loaded.path = p /\ reread'.stamp = v
      BY <2>2
  <2>. QED
      BY <1>4, <2>1, <2>2 DEF StatOf
<1>5. ASSUME NEW p \in Paths, NEW v \in Versions, NEW g \in Versions, ReadAs(scan, p, v, g)'
      PROVE  ReadAs(scan, p, v, g) \/ (StatOf(scan, p, v) /\ g = file[p])
  <2>1. CASE /\ reread'.at = "commit" /\ reread'.loaded.path = p
             /\ reread'.stamp = v /\ reread'.tags = g
      BY <2>1
  <2>2. CASE ~(/\ reread'.at = "commit" /\ reread'.loaded.path = p
               /\ reread'.stamp = v /\ reread'.tags = g)
      BY <1>2, <1>5, <2>2 DEF ReadAs
  <2>. QED
      BY <2>1, <2>2
<1>6. (MetBefore(scan) /\ ReadIsTrue(scan))'
  <2>1. PICK s : s = scan
      OBVIOUS
  <2>2. /\ \A p \in Paths, v \in Versions :
               StatOf(scan, p, v)' => StatOf(s, p, v) \/ (v = file[p] /\ v # 0)
        /\ \A p \in Paths, v, g \in Versions :
               ReadAs(scan, p, v, g)' => ReadAs(s, p, v, g) \/ (StatOf(s, p, v) /\ g = file[p])
      BY <1>4, <1>5, <2>1
  <2>3. MetBefore(s) /\ ReadIsTrue(s)
      BY <2>1
  <2>. QED
      BY <2>2, <2>3, ReadingsKept
<1>. QED
    BY <1>2, <1>3, <1>6

\* A reread begins, stats its file, or reads its tags.
LEMMA KeptByRereadSteps ==
    ASSUME CatalogInv, \/ \E t \in TrackIds : RereadStart(t)
                       \/ RereadStat
                       \/ RereadRead
    PROVE  CatalogInv'
<1>. USE DEF CatalogInv, FileInv
<1>1. \A u : OnFile(u) /\ row' = row => OnFile(u)'
    BY DEF OnFile
<1>2. ASSUME NEW t \in TrackIds, RereadStart(t)
      PROVE  CatalogInv'
  <2>1. /\ reread' = [at |-> "stat", track |-> t, loaded |-> row[t], stamp |-> 0, tags |-> 0]
        /\ UNCHANGED <<file, version, row, apply, mixed>> /\ Stirs
      BY <1>2 DEF RereadStart, Asleep
  <2>2. OnFile(t)
      BY <1>2, RowFacts DEF RereadStart
  <2>3. JobsTyped'
      BY <1>1, <2>1, <2>2, CatalogConstantsAssumption DEF JobsTyped, Versions, OnFile
  <2>4. \/ scan' = scan /\ scan.at = "idle"
        \/ scan' = [scan EXCEPT !.calm = FALSE]
      BY <2>1 DEF Stirs
  <2>5. reread'.at = "stat"
      BY <2>1
  <2>. QED
      BY <2>1, <2>3, <2>4, <2>5, KeptByReread
<1>3. CASE RereadStat
  <2>1. /\ reread.at = "stat" /\ file[reread.loaded.path] # 0
        /\ UNCHANGED <<file, version, row, scan, apply, mixed>>
      BY <1>3 DEF RereadStat
  <2>0. reread' = [reread EXCEPT !.at = "read", !.stamp = file[reread.loaded.path]]
      BY <1>3 DEF RereadStat
  <2>2. reread.loaded \in FileRows /\ reread.loaded.path \in Paths
      BY <2>1 DEF JobsTyped, FileRows
  <2>3. JobsTyped'
      BY <1>1, <2>0, <2>1, <2>2 DEF JobsTyped, FilesTyped
  <2>4. scan.at = "idle" \/ ~scan.calm
      BY <2>1 DEF ScanInv, CalmInv
  <2>5. /\ reread'.at = "read" /\ reread'.loaded = reread.loaded
        /\ reread'.stamp = file[reread.loaded.path]
      BY <2>0 DEF JobsTyped
  <2>. QED
      BY <2>1, <2>3, <2>4, <2>5, KeptByReread
<1>4. CASE RereadRead
  <2>1. /\ reread.at = "read" /\ file[reread.loaded.path] # 0
        /\ UNCHANGED <<file, version, row, scan, apply, mixed>>
      BY <1>4 DEF RereadRead
  <2>0. reread' = [reread EXCEPT !.at = "commit", !.tags = file[reread.loaded.path]]
      BY <1>4 DEF RereadRead
  <2>2. reread.loaded \in FileRows /\ reread.loaded.path \in Paths
      BY <2>1 DEF JobsTyped, FileRows
  <2>3. JobsTyped'
      BY <1>1, <2>0, <2>1, <2>2 DEF JobsTyped, FilesTyped
  <2>4. scan.at = "idle" \/ ~scan.calm
      BY <2>1 DEF ScanInv, CalmInv
  <2>5. /\ reread'.at = "commit" /\ reread'.loaded = reread.loaded
        /\ reread'.stamp = reread.stamp /\ reread'.tags = file[reread.loaded.path]
      BY <2>0 DEF JobsTyped
  <2>6. \A p \in Paths, v, g \in Versions :
            (reread'.at = "commit" /\ reread'.loaded.path = p
                 /\ reread'.stamp = v /\ reread'.tags = g)
                => StatOf(scan, p, v) /\ g = file[p]
      BY <2>1, <2>5 DEF StatOf
  <2>. QED
      BY <2>1, <2>3, <2>4, <2>5, <2>6, KeptByReread
<1>. QED
    BY <1>2, <1>3, <1>4

-----------------------------------------------------------------------------
(* Steps of the scan that leave the catalog alone.                          *)

\* The scan is another; nothing else is.
LEMMA KeptByScanOnly ==
    ASSUME CatalogInv, UNCHANGED <<file, version, row, reread, apply, mixed>>,
           NEW s, scan' = s, ScanInv(s), WalkedOnce(s)
    PROVE  CatalogInv'
<1>1. FileInv'
  <2>1. FilesTyped' /\ PathsDistinct' /\ VersionsOnce'
      BY DEF CatalogInv, FileInv, FilesTyped, PathsDistinct, VersionsOnce
  <2>2. JobsTyped'
      BY DEF CatalogInv, FileInv, JobsTyped, OnFile
  <2>. QED
      BY <2>1, <2>2 DEF FileInv
<1>2. ScanTyped(scan)' /\ NewDistinct(scan)' /\ WalkedOnce(scan)'
    BY DEF ScanInv, ScanTyped, NewDistinct, WalkedOnce, OnFile
<1>3. MetBefore(scan)' /\ ReadIsTrue(scan)'
  <2>1. \A p, v : StatOf(scan, p, v)' <=> StatOf(s, p, v)
      BY DEF StatOf
  <2>2. \A p, v, g : ReadAs(scan, p, v, g)' <=> ReadAs(s, p, v, g)
      BY DEF ReadAs
  <2>3. \A p, v : Real(p, v)' <=> Real(p, v)
      BY DEF Real
  <2>. QED
      BY <2>1, <2>2, <2>3 DEF ScanInv, MetBefore, ReadIsTrue
<1>4. CalmInv(scan)'
  <2>. SUFFICES ASSUME (scan.at # "idle" /\ scan.calm)'
                PROVE  /\ (reread.at = "idle" /\ apply.at = "idle")'
                       /\ (MapIsTrue(scan) /\ BatchIsTrue(scan) /\ ReadsOne(scan)
                           /\ WalkedIsCatalogued(scan))'
      BY DEF CalmInv
  <2>1. /\ reread.at = "idle" /\ apply.at = "idle"
        /\ MapIsTrue(s) /\ BatchIsTrue(s) /\ ReadsOne(s) /\ WalkedIsCatalogued(s)
      BY DEF ScanInv, CalmInv
  <2>2. /\ Rows' = Rows
        /\ \A p : RowAt(p)' = RowAt(p)
        /\ \A r, p : Tells(r, p)' <=> Tells(r, p)
      BY DEF Rows, RowAt, Tells
  <2>3. \A p : Catalogued(p)' <=> Catalogued(p)
      BY <2>2 DEF Catalogued
  <2>4. \A p : Held(scan, p)' <=> Held(s, p)
      BY DEF Held
  <2>5. MapIsTrue(scan)'
      BY <2>1, <2>2 DEF MapIsTrue
  <2>6. BatchIsTrue(scan)'
      BY <2>1, <2>2 DEF BatchIsTrue
  <2>7. ReadsOne(scan)'
      BY <2>1, <2>2, <2>4 DEF ReadsOne
  <2>8. WalkedIsCatalogued(scan)'
      BY <2>1, <2>2, <2>3, <2>4 DEF WalkedIsCatalogued
  <2>. QED
      BY <2>1, <2>5, <2>6, <2>7, <2>8
<1>. QED
    BY <1>1, <1>2, <1>3, <1>4 DEF CatalogInv, ScanInv

\* No scan.
LEMMA NoScanHolds ==
    ASSUME CatalogInv
    PROVE  ScanInv(NoScan) /\ WalkedOnce(NoScan)
<1>1. /\ NoScan.at = "idle" /\ NoScan.known = {} /\ NoScan.new = {} /\ NoScan.changed = {}
      /\ NoScan.found = Unknown
    BY DEF NoScan
<1>2. ScanTyped(NoScan)
  <2>1. NoScan \in [at : {"idle", "walk", "read", "missing", "done"}, scope : SUBSET Paths,
                    known : SUBSET Mapped, walked : SUBSET Paths, seen : SUBSET Paths,
                    new : SUBSET FileRows, changed : SUBSET Changes,
                    path : Paths \cup {"none"}, stamp : Versions, found : Loaded \cup {Unknown},
                    calm : BOOLEAN]
      BY CatalogConstantsAssumption DEF NoScan, Versions
  <2>. QED
      BY <1>1, <2>1 DEF ScanTyped
<1>3. NewDistinct(NoScan) /\ WalkedOnce(NoScan)
    BY <1>1 DEF NewDistinct, WalkedOnce
<1>4. CalmInv(NoScan)
    BY <1>1 DEF CalmInv
<1>5. MetBefore(NoScan) /\ ReadIsTrue(NoScan)
  <2>1. \A p \in Paths, v \in Versions : StatOf(NoScan, p, v) => StatOf(scan, p, v)
      BY <1>1 DEF StatOf
  <2>2. \A p \in Paths, v, g \in Versions : ReadAs(NoScan, p, v, g) => ReadAs(scan, p, v, g)
      BY <1>1 DEF ReadAs
  <2>. QED
      BY <2>1, <2>2, ReadingsOf DEF CatalogInv, ScanInv
<1>. QED
    BY <1>2, <1>3, <1>4, <1>5 DEF ScanInv

\* A scan fails, or ends.
LEMMA KeptByScanEnds ==
    ASSUME CatalogInv, ScanFails \/ ScanDone
    PROVE  CatalogInv'
<1>1. PICK s : s = NoScan
    OBVIOUS
<1>2. ScanInv(s) /\ WalkedOnce(s)
    BY <1>1, NoScanHolds
<1>3. scan' = s /\ UNCHANGED <<file, version, row, reread, apply, mixed>>
    BY <1>1 DEF ScanFails, ScanDone
<1>. QED
    BY <1>2, <1>3, KeptByScanOnly

\* A scan starts with the rows as they are.
LEMMA KeptByScanStart ==
    ASSUME CatalogInv, ScanStart
    PROVE  CatalogInv'
<1>. DEFINE K == {[track |-> t, path |-> row[t].path, stamp |-> row[t].stamp,
                   missing |-> row[t].missing] : t \in Rows}
<1>1. PICK area \in SUBSET Paths :
          scan' = [NoScan EXCEPT !.at = "walk", !.scope = area, !.known = K,
                                 !.calm = reread.at = "idle" /\ apply.at = "idle"]
    BY DEF ScanStart
<1>0. ScanTyped(NoScan)
    BY NoScanHolds DEF ScanInv
<1>2. PICK s : s = [NoScan EXCEPT !.at = "walk", !.scope = area, !.known = K,
                                  !.calm = reread.at = "idle" /\ apply.at = "idle"]
    OBVIOUS
<1>3. scan' = s
    BY <1>1, <1>2
<1>4. /\ s.at = "walk" /\ s.known = K /\ s.walked = {} /\ s.seen = {} /\ s.new = {}
      /\ s.changed = {} /\ s.found = Unknown /\ s.scope = area
      /\ s.calm => reread.at = "idle" /\ apply.at = "idle"
  <2>1. /\ NoScan.walked = {} /\ NoScan.seen = {} /\ NoScan.new = {}
        /\ NoScan.changed = {} /\ NoScan.found = Unknown
      BY DEF NoScan
  <2>. HIDE DEF K
  <2>. QED
      BY <1>0, <1>2, <2>1 DEF ScanTyped
<1>5. \A t \in Rows : OnFile(t)
    BY RowFacts DEF CatalogInv, FileInv
<1>6. K \subseteq Mapped
    BY <1>5 DEF Mapped, OnFile, FileRows
<1>7. ScanTyped(s)
  <2>1. s \in [at : {"idle", "walk", "read", "missing", "done"}, scope : SUBSET Paths,
               known : SUBSET Mapped, walked : SUBSET Paths, seen : SUBSET Paths,
               new : SUBSET FileRows, changed : SUBSET Changes,
               path : Paths \cup {"none"}, stamp : Versions, found : Loaded \cup {Unknown},
               calm : BOOLEAN]
    <3>1. (reread.at = "idle" /\ apply.at = "idle") \in BOOLEAN
        OBVIOUS
    <3>. HIDE DEF K
    <3>. QED
        BY <1>0, <1>2, <1>6, <3>1 DEF ScanTyped
  <2>2. \A k \in K : OnFile(k.track)
      BY <1>5
  <2>. HIDE DEF K
  <2>. QED
      BY <1>4, <2>1, <2>2 DEF ScanTyped
<1>8. NewDistinct(s) /\ WalkedOnce(s)
    BY <1>4 DEF NewDistinct, WalkedOnce
<1>9. MetBefore(s) /\ ReadIsTrue(s)
  <2>1. \A p \in Paths, v \in Versions : StatOf(s, p, v) => StatOf(scan, p, v)
      BY <1>4 DEF StatOf
  <2>2. \A p \in Paths, v, g \in Versions : ReadAs(s, p, v, g) => ReadAs(scan, p, v, g)
      BY <1>4 DEF ReadAs
  <2>. QED
      BY <2>1, <2>2, ReadingsOf DEF CatalogInv, ScanInv
<1>10. CalmInv(s)
  <2>1. MapIsTrue(s)
    <3>1. \A k \in K : k.track \in Rows /\ row[k.track].path = k.path
                       /\ row[k.track].stamp = k.stamp /\ row[k.track].missing = k.missing
        OBVIOUS
    <3>2. ASSUME NEW j \in K, NEW k \in K, j.path = k.path PROVE j = k
      <4>1. j.track = k.track
          BY <3>1, <3>2 DEF CatalogInv, FileInv, PathsDistinct, Rows
      <4>. QED
          BY <4>1
    <3>3. ASSUME NEW t \in Rows PROVE \E k \in K : k.path = row[t].path
      <4>1. PICK k : k = [track |-> t, path |-> row[t].path, stamp |-> row[t].stamp,
                          missing |-> row[t].missing]
          OBVIOUS
      <4>2. k \in K /\ k.path = row[t].path
          BY <4>1
      <4>. QED
          BY <4>2
    <3>. HIDE DEF K
    <3>. QED
        BY <1>4, <3>1, <3>2, <3>3 DEF MapIsTrue
  <2>2. BatchIsTrue(s) /\ ReadsOne(s)
      BY <1>4 DEF BatchIsTrue, ReadsOne
  <2>3. WalkedIsCatalogued(s)
      BY <1>4 DEF WalkedIsCatalogued
  <2>. QED
      BY <1>4, <2>1, <2>2, <2>3 DEF CalmInv
<1>11. UNCHANGED <<file, version, row, reread, apply, mixed>>
    BY DEF ScanStart
<1>. QED
    BY <1>3, <1>7, <1>8, <1>9, <1>10, <1>11, KeptByScanOnly DEF ScanInv

\* What the walk finds: no file, the file its row is of, or one to read.
Found(s, q) ==
    \/ s.at = "walk" /\ s.seen = scan.seen /\ file[q] = 0
    \/ s.at = "walk" /\ s.seen = scan.seen \cup {q} /\ file[q] # 0 /\ Unchanged(q)
    \/ /\ s.at = "read" /\ s.seen = scan.seen \cup {q} /\ file[q] # 0
       /\ s.path = q /\ s.stamp = file[q] /\ s.found \in Existing(q)

\* A walk of one more file.
LEMMA WalkedOneMore ==
    ASSUME CatalogInv, NEW q \in Paths, ScanStat(q)
    PROVE  \E s : /\ ScanTyped(s) /\ scan' = s /\ Found(s, q)
                  /\ s.scope = scan.scope /\ s.known = scan.known /\ s.new = scan.new
                  /\ s.changed = scan.changed /\ s.calm = scan.calm
                  /\ s.walked = scan.walked \cup {q}
<1>. USE DEF CatalogInv, ScanInv
<1>0. scan.at = "walk" /\ ScanTyped(scan) /\ file[q] \in Versions
    BY DEF ScanStat, FileInv, FilesTyped
<1>1. CASE file[q] = 0
  <2>1. PICK s : s = [scan EXCEPT !.walked = @ \cup {q}]
      OBVIOUS
  <2>2. scan' = s
      BY <1>1, <2>1 DEF ScanStat
  <2>3. /\ s.at = "walk" /\ s.scope = scan.scope /\ s.known = scan.known /\ s.new = scan.new
        /\ s.changed = scan.changed /\ s.calm = scan.calm /\ s.seen = scan.seen
        /\ s.walked = scan.walked \cup {q} /\ s.found = scan.found
      BY <1>0, <2>1 DEF ScanTyped
  <2>4. ScanTyped(s)
      BY <1>0, <2>1, <2>3 DEF ScanTyped
  <2>. QED
      BY <1>1, <2>2, <2>3, <2>4 DEF Found
<1>2. CASE file[q] # 0 /\ Unchanged(q)
  <2>1. PICK s : s = [scan EXCEPT !.walked = @ \cup {q}, !.seen = @ \cup {q}]
      OBVIOUS
  <2>2. scan' = s
      BY <1>2, <2>1 DEF ScanStat
  <2>3. /\ s.at = "walk" /\ s.scope = scan.scope /\ s.known = scan.known /\ s.new = scan.new
        /\ s.changed = scan.changed /\ s.calm = scan.calm /\ s.seen = scan.seen \cup {q}
        /\ s.walked = scan.walked \cup {q} /\ s.found = scan.found
      BY <1>0, <2>1 DEF ScanTyped
  <2>4. ScanTyped(s)
      BY <1>0, <2>1, <2>3 DEF ScanTyped
  <2>. QED
      BY <1>2, <2>2, <2>3, <2>4 DEF Found
<1>3. CASE file[q] # 0 /\ ~Unchanged(q)
  <2>1. PICK found \in Existing(q) :
            scan' = [scan EXCEPT !.walked = @ \cup {q}, !.seen = @ \cup {q}, !.at = "read",
                                 !.path = q, !.stamp = file[q], !.found = found]
      BY <1>3 DEF ScanStat
  <2>2. found = Unknown \/ (found \in Loaded /\ OnFile(found.track))
    <3>1. CASE {k \in scan.known : k.path = q} = {}
        BY <2>1, <3>1 DEF Existing
    <3>2. CASE {k \in scan.known : k.path = q} # {}
      <4>1. PICK k \in scan.known : found = [track |-> k.track, loaded |-> row[k.track]]
          BY <2>1, <3>2 DEF Existing
      <4>2. OnFile(k.track)
          BY <1>0 DEF ScanTyped
      <4>. QED
          BY <4>1, <4>2 DEF Loaded, OnFile
    <3>. QED
        BY <3>1, <3>2
  <2>3. PICK s : s = [scan EXCEPT !.walked = @ \cup {q}, !.seen = @ \cup {q}, !.at = "read",
                                  !.path = q, !.stamp = file[q], !.found = found]
      OBVIOUS
  <2>4. scan' = s
      BY <2>1, <2>3
  <2>5. /\ s.at = "read" /\ s.scope = scan.scope /\ s.known = scan.known /\ s.new = scan.new
        /\ s.changed = scan.changed /\ s.calm = scan.calm /\ s.seen = scan.seen \cup {q}
        /\ s.walked = scan.walked \cup {q} /\ s.found = found /\ s.path = q /\ s.stamp = file[q]
      BY <1>0, <2>3 DEF ScanTyped
  <2>6. s \in [at : {"idle", "walk", "read", "missing", "done"}, scope : SUBSET Paths,
               known : SUBSET Mapped, walked : SUBSET Paths, seen : SUBSET Paths,
               new : SUBSET FileRows, changed : SUBSET Changes,
               path : Paths \cup {"none"}, stamp : Versions, found : Loaded \cup {Unknown},
               calm : BOOLEAN]
      BY <1>0, <2>2, <2>3 DEF ScanTyped
  <2>7. ScanTyped(s)
      BY <1>0, <1>3, <2>2, <2>5, <2>6 DEF ScanTyped
  <2>. QED
      BY <1>3, <2>1, <2>4, <2>5, <2>7 DEF Found
<1>. QED
    BY <1>1, <1>2, <1>3

\* The row of the map that a calm scan finds is the row of the path.
LEMMA FoundIsTrue ==
    ASSUME CatalogInv, scan.at = "walk", scan.calm, NEW q \in Paths, q \notin scan.walked
    PROVE  /\ Unchanged(q) /\ file[q] # 0 => Catalogued(q)
           /\ Unknown \in Existing(q) => RowAt(q) = {} /\ \A k \in scan.known : k.path # q
           /\ \A f \in Existing(q) :
                  f = Unknown \/ (f.loaded = row[f.track] /\ f.loaded.path = q)
<1>. USE DEF CatalogInv, ScanInv
<1>0. MapIsTrue(scan) /\ WalkedIsCatalogued(scan)
    BY DEF CalmInv
<1>1. \A k \in scan.known : OnFile(k.track) /\ k.track \in Rows /\ row[k.track].path = k.path
    BY <1>0, RowFacts DEF MapIsTrue, ScanTyped, FileInv
<1>2. ASSUME Unchanged(q), file[q] # 0 PROVE Catalogued(q)
  <2>1. PICK k \in scan.known : k.path = q /\ ~k.missing /\ k.stamp = file[q]
      BY <1>2 DEF Unchanged
  <2>2. /\ k.track \in RowAt(q) /\ OnFile(k.track)
        /\ row[k.track].path = q /\ row[k.track].stamp = file[q] /\ ~row[k.track].missing
      BY <1>0, <1>1, <2>1 DEF MapIsTrue, RowAt
  <2>3. CASE k.track \in mixed \/ row[k.track].error
      BY <2>2, <2>3 DEF Catalogued, Tells
  <2>4. CASE k.track \notin mixed /\ ~row[k.track].error
    <3>1. ReadAs(scan, q, file[q], row[k.track].tags)
        BY <2>2, <2>4 DEF ReadAs, OnFile
    <3>2. row[k.track].tags \in Versions /\ file[q] \in Versions
        BY <2>2 DEF OnFile, FileRows, FileInv, FilesTyped
    <3>3. row[k.track].tags = file[q]
        BY <3>1, <3>2 DEF ReadIsTrue
    <3>. QED
        BY <2>2, <3>3 DEF Catalogued, Tells
  <2>. QED
      BY <2>3, <2>4
<1>3. ASSUME NEW k \in scan.known, k.path = q
      PROVE  [track |-> k.track, loaded |-> row[k.track]] # Unknown
  <2>1. k.track # 0
      BY <1>1, CatalogConstantsAssumption DEF OnFile
  <2>. QED
      BY <2>1 DEF Unknown
<1>4. CASE \A k \in scan.known : k.path # q
  <2>1. Existing(q) = {Unknown}
      BY <1>4 DEF Existing
  <2>2. RowAt(q) = {}
      BY <1>0, <1>4 DEF MapIsTrue, WalkedIsCatalogued, RowAt
  <2>. QED
      BY <1>2, <1>4, <2>1, <2>2
<1>5. CASE \E k \in scan.known : k.path = q
  <2>1. Existing(q) = {[track |-> k.track, loaded |-> row[k.track]] :
                           k \in {k \in scan.known : k.path = q}}
      BY <1>5 DEF Existing
  <2>2. ASSUME NEW f \in Existing(q)
        PROVE  f # Unknown /\ f.loaded = row[f.track] /\ f.loaded.path = q
    <3>1. PICK k \in scan.known : k.path = q /\ f = [track |-> k.track, loaded |-> row[k.track]]
        BY <2>1, <2>2
    <3>. QED
        BY <1>1, <1>3, <3>1
  <2>. QED
      BY <1>2, <2>2
<1>. QED
    BY <1>4, <1>5

\* The walk meets a file, and stats it.
LEMMA KeptByScanStat ==
    ASSUME CatalogInv, NEW q \in Paths, ScanStat(q)
    PROVE  CatalogInv'
<1>. USE DEF CatalogInv, ScanInv
<1>0. /\ scan.at = "walk" /\ q \in scan.scope /\ q \notin scan.walked
      /\ UNCHANGED <<file, version, row, reread, apply, mixed>>
    BY DEF ScanStat
<1>1. PICK s : /\ ScanTyped(s) /\ scan' = s /\ Found(s, q)
               /\ s.scope = scan.scope /\ s.known = scan.known /\ s.new = scan.new
               /\ s.changed = scan.changed /\ s.calm = scan.calm
               /\ s.walked = scan.walked \cup {q}
    BY WalkedOneMore
<1>2. /\ s.at \in {"walk", "read"}
      /\ s.seen = (IF file[q] = 0 THEN scan.seen ELSE scan.seen \cup {q})
      /\ s.at = "read" => /\ s.path = q /\ s.stamp = file[q] /\ file[q] # 0
                          /\ s.found \in Existing(q)
      /\ s.at = "walk" => file[q] = 0 \/ Unchanged(q)
    BY <1>1 DEF Found
<1>3. NewDistinct(s) /\ WalkedOnce(s)
    BY <1>0, <1>1, <1>2 DEF NewDistinct, WalkedOnce
<1>4. MetBefore(s) /\ ReadIsTrue(s)
  <2>1. ASSUME NEW p \in Paths, NEW v \in Versions, NEW g \in Versions, ReadAs(s, p, v, g)
        PROVE  Real(p, v) /\ (v = file[p] => g = v)
    <3>1. ReadAs(scan, p, v, g)
        BY <1>1, <2>1 DEF ReadAs
    <3>. QED
        BY <3>1 DEF MetBefore, ReadIsTrue
  <2>2. ASSUME NEW p \in Paths, NEW v \in Versions, StatOf(s, p, v)
        PROVE  Real(p, v)
    <3>1. CASE StatOf(scan, p, v)
        BY <3>1 DEF MetBefore
    <3>2. CASE p = q /\ v = file[q] /\ file[q] # 0
        BY <3>2, OnDiskIsReal DEF FileInv
    <3>. QED
        BY <1>2, <2>2, <3>1, <3>2 DEF StatOf
  <2>. QED
      BY <2>1, <2>2 DEF MetBefore, ReadIsTrue
<1>5. CalmInv(s)
  <2>. SUFFICES ASSUME s.calm
                PROVE  /\ reread.at = "idle" /\ apply.at = "idle"
                       /\ MapIsTrue(s) /\ BatchIsTrue(s) /\ ReadsOne(s) /\ WalkedIsCatalogued(s)
      BY DEF CalmInv
  <2>1. /\ reread.at = "idle" /\ apply.at = "idle" /\ MapIsTrue(scan) /\ BatchIsTrue(scan)
        /\ WalkedIsCatalogued(scan)
      BY <1>0, <1>1 DEF CalmInv
  <2>2. MapIsTrue(s)
      BY <1>1, <1>2, <2>1 DEF MapIsTrue
  <2>3. BatchIsTrue(s)
      BY <1>1, <1>2, <2>1 DEF BatchIsTrue
  <2>4. ~Held(s, q)
      BY <1>0, <1>1, <2>1 DEF Held, BatchIsTrue, WalkedIsCatalogued
  <2>5. /\ Unchanged(q) /\ file[q] # 0 => Catalogued(q)
        /\ Unknown \in Existing(q) => RowAt(q) = {} /\ \A k \in scan.known : k.path # q
        /\ \A f \in Existing(q) : f = Unknown \/ (f.loaded = row[f.track] /\ f.loaded.path = q)
      BY <1>0, <1>1, FoundIsTrue
  <2>6. ReadsOne(s)
      BY <1>1, <1>2, <2>4, <2>5 DEF ReadsOne
  <2>7. WalkedIsCatalogued(s)
    <3>1. ASSUME NEW p \in s.seen
          PROVE  (s.at = "read" /\ p = s.path) \/ Held(s, p) \/ Catalogued(p)
      <4>1. CASE p = q
          BY <1>2, <2>5, <3>1, <4>1, <1>0, <2>1 DEF WalkedIsCatalogued
      <4>2. CASE p \in scan.seen
          BY <1>0, <1>1, <2>1, <4>2 DEF WalkedIsCatalogued, Held
      <4>. QED
          BY <1>2, <3>1, <4>1, <4>2
    <3>2. s.walked \subseteq s.scope
        BY <1>0, <1>1, <2>1 DEF WalkedIsCatalogued
    <3>3. \A p \in Paths : p \in s.seen <=> p \in s.walked /\ file[p] # 0
        BY <1>0, <1>1, <1>2, <2>1 DEF WalkedIsCatalogued
    <3>. QED
        BY <1>2, <3>1, <3>2, <3>3 DEF WalkedIsCatalogued
  <2>. QED
      BY <2>1, <2>2, <2>3, <2>6, <2>7
<1>. QED
    BY <1>0, <1>1, <1>3, <1>4, <1>5, KeptByScanOnly

-----------------------------------------------------------------------------
(* What a scan holds back.                                                  *)

\* A row as it was read: the facts of the stat, and the tags or the error.
LEMMA FieldsFacts ==
    ASSUME NEW r \in FileRows, NEW tags \in Versions, scan.stamp \in Versions
    PROVE  /\ Fields(r, tags) \in FileRows /\ Fields(r, tags).path = r.path
           /\ Fields(r, tags).stamp = scan.stamp /\ ~Fields(r, tags).missing
           /\ Fields(r, tags).error = (tags = 0)
           /\ tags # 0 => Fields(r, tags).tags = tags
<1>1. CASE tags = 0
  <2>1. PICK f : f = [r EXCEPT !.stamp = scan.stamp, !.error = TRUE, !.missing = FALSE]
      OBVIOUS
  <2>2. /\ f \in FileRows /\ f.path = r.path /\ f.stamp = scan.stamp /\ ~f.missing
        /\ f.error = TRUE
      BY <2>1 DEF FileRows
  <2>3. Fields(r, tags) = f
      BY <1>1, <2>1 DEF Fields
  <2>. QED
      BY <1>1, <2>2, <2>3
<1>2. CASE tags # 0
  <2>1. PICK f : f = [r EXCEPT !.stamp = scan.stamp, !.tags = tags, !.error = FALSE,
                               !.missing = FALSE]
      OBVIOUS
  <2>2. /\ f \in FileRows /\ f.path = r.path /\ f.stamp = scan.stamp /\ ~f.missing
        /\ f.error = FALSE /\ f.tags = tags
      BY <2>1 DEF FileRows
  <2>3. Fields(r, tags) = f
      BY <1>2, <2>1 DEF Fields
  <2>. QED
      BY <1>2, <2>2, <2>3
<1>. QED
    BY <1>1, <1>2

\* A row that is new starts with its path.
LEMMA NewFieldsFacts ==
    ASSUME scan.path \in Paths, scan.stamp \in Versions, NEW tags \in Versions
    PROVE  LET f == Fields([NoRow EXCEPT !.path = scan.path], tags)
           IN /\ f \in FileRows /\ f.path = scan.path /\ f.stamp = scan.stamp /\ ~f.missing
              /\ f.error = (tags = 0) /\ (tags # 0 => f.tags = tags)
<1>1. PICK r : r = [NoRow EXCEPT !.path = scan.path]
    OBVIOUS
<1>2. r = [path |-> scan.path, stamp |-> 0, tags |-> 0, error |-> FALSE, missing |-> FALSE]
    BY <1>1 DEF NoRow
<1>3. r \in FileRows /\ r.path = scan.path
    BY <1>2, CatalogConstantsAssumption DEF FileRows, Versions
<1>. QED
    BY <1>1, <1>3, FieldsFacts

\* What a read adds to what is held back.
Adds(s, tags) ==
    \/ /\ scan.found = Unknown /\ s.changed = scan.changed
       /\ \E n \in FileRows :
              /\ s.new = scan.new \cup {n}
              /\ n.path = scan.path /\ n.stamp = scan.stamp /\ ~n.missing
              /\ n.error = (tags = 0) /\ (tags # 0 => n.tags = tags)
    \/ /\ scan.found # Unknown /\ s.new = scan.new
       /\ \E c \in Changes :
              /\ s.changed = scan.changed \cup {c}
              /\ c.track = scan.found.track /\ c.path = scan.path
              /\ c.loaded = scan.found.loaded /\ c.wanted.path = c.loaded.path
              /\ c.wanted.stamp = scan.stamp /\ ~c.wanted.missing
              /\ c.wanted.error = (tags = 0) /\ (tags # 0 => c.wanted.tags = tags)

\* The scan after a read.
LEMMA UpsertFacts ==
    ASSUME CatalogInv, scan.at = "read", NEW tags \in Versions
    PROVE  \E s : /\ s = Upsert(tags) /\ ScanTyped(s) /\ Adds(s, tags)
                  /\ s.at = "walk" /\ s.scope = scan.scope /\ s.known = scan.known
                  /\ s.walked = scan.walked /\ s.seen = scan.seen /\ s.calm = scan.calm
<1>. USE DEF CatalogInv, ScanInv
<1>0. ScanTyped(scan) /\ scan.path \in Paths /\ scan.stamp \in Versions
    BY DEF ScanTyped
<1>1. PICK z : z = [scan EXCEPT !.at = "walk", !.path = "none", !.stamp = 0, !.found = Unknown]
    OBVIOUS
<1>2. /\ z.at = "walk" /\ z.scope = scan.scope /\ z.known = scan.known
      /\ z.walked = scan.walked /\ z.seen = scan.seen /\ z.calm = scan.calm
      /\ z.new = scan.new /\ z.changed = scan.changed /\ z.found = Unknown
    BY <1>0, <1>1 DEF ScanTyped
<1>3. z \in [at : {"idle", "walk", "read", "missing", "done"}, scope : SUBSET Paths,
             known : SUBSET Mapped, walked : SUBSET Paths, seen : SUBSET Paths,
             new : SUBSET FileRows, changed : SUBSET Changes,
             path : Paths \cup {"none"}, stamp : Versions, found : Loaded \cup {Unknown},
             calm : BOOLEAN]
  <2>1. 0 \in Versions
      BY CatalogConstantsAssumption DEF Versions
  <2>. QED
      BY <1>0, <1>1, <2>1 DEF ScanTyped
<1>4. CASE scan.found = Unknown
  <2>1. PICK n : n = Fields([NoRow EXCEPT !.path = scan.path], tags)
      OBVIOUS
  <2>2. /\ n \in FileRows /\ n.path = scan.path /\ n.stamp = scan.stamp /\ ~n.missing
        /\ n.error = (tags = 0) /\ (tags # 0 => n.tags = tags)
      BY <1>0, <2>1, NewFieldsFacts
  <2>3. PICK s : s = [z EXCEPT !.new = @ \cup {n}]
      OBVIOUS
  <2>4. s = Upsert(tags)
      BY <1>1, <1>4, <2>1, <2>3 DEF Upsert
  <2>5. /\ s.at = "walk" /\ s.scope = scan.scope /\ s.known = scan.known
        /\ s.walked = scan.walked /\ s.seen = scan.seen /\ s.calm = scan.calm
        /\ s.new = scan.new \cup {n} /\ s.changed = scan.changed /\ s.found = Unknown
      BY <1>2, <1>3, <2>3
  <2>6. s \in [at : {"idle", "walk", "read", "missing", "done"}, scope : SUBSET Paths,
               known : SUBSET Mapped, walked : SUBSET Paths, seen : SUBSET Paths,
               new : SUBSET FileRows, changed : SUBSET Changes,
               path : Paths \cup {"none"}, stamp : Versions, found : Loaded \cup {Unknown},
               calm : BOOLEAN]
      BY <1>3, <2>2, <2>3
  <2>7. ScanTyped(s)
      BY <1>0, <2>5, <2>6 DEF ScanTyped
  <2>8. Adds(s, tags)
      BY <1>4, <2>2, <2>5 DEF Adds
  <2>. QED
      BY <2>4, <2>5, <2>7, <2>8
<1>5. CASE scan.found # Unknown
  <2>1. /\ OnFile(scan.found.track) /\ scan.found.track \in TrackIds
        /\ scan.found.loaded \in FileRows
      BY <1>0, <1>5 DEF ScanTyped, Loaded, OnFile
  <2>2. PICK w : w = Fields(scan.found.loaded, tags)
      OBVIOUS
  <2>3. /\ w \in FileRows /\ w.path = scan.found.loaded.path /\ w.stamp = scan.stamp /\ ~w.missing
        /\ w.error = (tags = 0) /\ (tags # 0 => w.tags = tags)
      BY <1>0, <2>1, <2>2, FieldsFacts
  <2>4. PICK c : c = [track |-> scan.found.track, path |-> scan.path,
                      loaded |-> scan.found.loaded, wanted |-> w]
      OBVIOUS
  <2>5. /\ c \in Changes /\ c.track = scan.found.track /\ c.path = scan.path
        /\ c.loaded = scan.found.loaded /\ c.wanted = w
      BY <1>0, <2>1, <2>3, <2>4 DEF Changes
  <2>6. PICK s : s = [z EXCEPT !.changed = @ \cup {c}]
      OBVIOUS
  <2>7. s = Upsert(tags)
      BY <1>1, <1>5, <2>2, <2>4, <2>6 DEF Upsert
  <2>8. /\ s.at = "walk" /\ s.scope = scan.scope /\ s.known = scan.known
        /\ s.walked = scan.walked /\ s.seen = scan.seen /\ s.calm = scan.calm
        /\ s.new = scan.new /\ s.changed = scan.changed \cup {c} /\ s.found = Unknown
      BY <1>2, <1>3, <2>6
  <2>9. s \in [at : {"idle", "walk", "read", "missing", "done"}, scope : SUBSET Paths,
               known : SUBSET Mapped, walked : SUBSET Paths, seen : SUBSET Paths,
               new : SUBSET FileRows, changed : SUBSET Changes,
               path : Paths \cup {"none"}, stamp : Versions, found : Loaded \cup {Unknown},
               calm : BOOLEAN]
      BY <1>3, <2>5, <2>6
  <2>10. ScanTyped(s)
      BY <1>0, <2>1, <2>3, <2>5, <2>8, <2>9 DEF ScanTyped
  <2>11. Adds(s, tags)
      BY <1>5, <2>3, <2>5, <2>8 DEF Adds
  <2>. QED
      BY <2>7, <2>8, <2>10, <2>11
<1>. QED
    BY <1>4, <1>5

\* What is held back after a read is what the invariant says of it.
LEMMA UpsertHolds ==
    ASSUME CatalogInv, scan.at = "read", NEW tags \in Versions,
           tags # 0 => tags = file[scan.path]
    PROVE  \E s : s = Upsert(tags) /\ ScanInv(s) /\ WalkedOnce(s) /\ s.at = "walk"
<1>. USE DEF CatalogInv, ScanInv
<1>1. PICK s : /\ s = Upsert(tags) /\ ScanTyped(s) /\ Adds(s, tags)
               /\ s.at = "walk" /\ s.scope = scan.scope /\ s.known = scan.known
               /\ s.walked = scan.walked /\ s.seen = scan.seen /\ s.calm = scan.calm
    BY UpsertFacts
<1>2. scan.path \in Paths /\ scan.stamp \in Versions
    BY DEF ScanTyped
<1>3. CASE scan.found = Unknown
  <2>1. PICK n \in FileRows :
            /\ s.new = scan.new \cup {n}
            /\ n.path = scan.path /\ n.stamp = scan.stamp /\ ~n.missing
            /\ n.error = (tags = 0) /\ (tags # 0 => n.tags = tags)
      BY <1>1, <1>3 DEF Adds
  <2>2. s.changed = scan.changed
      BY <1>1, <1>3 DEF Adds
  <2>3. NewDistinct(s) /\ WalkedOnce(s)
      BY <1>1, <2>1 DEF NewDistinct, WalkedOnce
  <2>4. MetBefore(s) /\ ReadIsTrue(s)
    <3>1. \A p \in Paths, v \in Versions : StatOf(s, p, v) => StatOf(scan, p, v)
        BY <1>1 DEF StatOf
    <3>2. ASSUME NEW p \in Paths, NEW v \in Versions, NEW g \in Versions, ReadAs(s, p, v, g)
          PROVE  ReadAs(scan, p, v, g) \/ (StatOf(scan, p, v) /\ g = file[p])
      <4>1. CASE n.path = p /\ n.stamp = v /\ n.tags = g /\ ~n.error
          BY <2>1, <4>1 DEF StatOf
      <4>2. CASE ~(n.path = p /\ n.stamp = v /\ n.tags = g /\ ~n.error)
          BY <2>1, <2>2, <3>2, <4>2 DEF ReadAs
      <4>. QED
          BY <4>1, <4>2
    <3>3. MetBefore(scan) /\ ReadIsTrue(scan)
        OBVIOUS
    <3>. QED
        BY <3>1, <3>2, <3>3, ReadingsOf
  <2>5. CalmInv(s)
    <3>. SUFFICES ASSUME s.calm
                  PROVE  /\ reread.at = "idle" /\ apply.at = "idle"
                         /\ MapIsTrue(s) /\ BatchIsTrue(s) /\ ReadsOne(s) /\ WalkedIsCatalogued(s)
        BY DEF CalmInv
    <3>1. /\ reread.at = "idle" /\ apply.at = "idle"
          /\ MapIsTrue(scan) /\ BatchIsTrue(scan) /\ ReadsOne(scan) /\ WalkedIsCatalogued(scan)
        BY <1>1 DEF CalmInv
    <3>2. /\ scan.path \in scan.seen /\ scan.stamp = file[scan.path]
          /\ RowAt(scan.path) = {} /\ \A k \in scan.known : k.path # scan.path
        BY <1>3, <3>1 DEF ReadsOne
    <3>3. MapIsTrue(s)
        BY <1>1, <3>1 DEF MapIsTrue
    <3>4. BatchIsTrue(s)
      <4>1. Tells(n, n.path)
          BY <2>1, <3>2 DEF Tells
      <4>. QED
          BY <1>1, <2>1, <2>2, <3>1, <3>2, <4>1 DEF BatchIsTrue
    <3>5. ReadsOne(s)
        BY <1>1 DEF ReadsOne
    <3>6. WalkedIsCatalogued(s)
      <4>1. Held(s, scan.path) /\ \A p : Held(scan, p) => Held(s, p)
          BY <2>1, <2>2 DEF Held
      <4>. QED
          BY <1>1, <3>1, <4>1 DEF WalkedIsCatalogued
    <3>. QED
        BY <3>1, <3>3, <3>4, <3>5, <3>6
  <2>. QED
      BY <1>1, <2>3, <2>4, <2>5
<1>4. CASE scan.found # Unknown
  <2>1. PICK c \in Changes :
            /\ s.changed = scan.changed \cup {c}
            /\ c.track = scan.found.track /\ c.path = scan.path
            /\ c.loaded = scan.found.loaded /\ c.wanted.path = c.loaded.path
            /\ c.wanted.stamp = scan.stamp /\ ~c.wanted.missing
            /\ c.wanted.error = (tags = 0) /\ (tags # 0 => c.wanted.tags = tags)
      BY <1>1, <1>4 DEF Adds
  <2>2. s.new = scan.new
      BY <1>1, <1>4 DEF Adds
  <2>3. NewDistinct(s) /\ WalkedOnce(s)
      BY <1>1, <2>2 DEF NewDistinct, WalkedOnce
  <2>4. MetBefore(s) /\ ReadIsTrue(s)
    <3>1. \A p \in Paths, v \in Versions : StatOf(s, p, v) => StatOf(scan, p, v)
        BY <1>1 DEF StatOf
    <3>2. ASSUME NEW p \in Paths, NEW v \in Versions, NEW g \in Versions, ReadAs(s, p, v, g)
          PROVE  ReadAs(scan, p, v, g) \/ (StatOf(scan, p, v) /\ g = file[p])
      <4>1. CASE c.path = p /\ c.wanted.stamp = v /\ c.wanted.tags = g /\ ~c.wanted.error
          BY <2>1, <4>1 DEF StatOf
      <4>2. CASE ~(c.path = p /\ c.wanted.stamp = v /\ c.wanted.tags = g /\ ~c.wanted.error)
          BY <2>1, <2>2, <3>2, <4>2 DEF ReadAs
      <4>. QED
          BY <4>1, <4>2
    <3>3. MetBefore(scan) /\ ReadIsTrue(scan)
        OBVIOUS
    <3>. QED
        BY <3>1, <3>2, <3>3, ReadingsOf
  <2>5. CalmInv(s)
    <3>. SUFFICES ASSUME s.calm
                  PROVE  /\ reread.at = "idle" /\ apply.at = "idle"
                         /\ MapIsTrue(s) /\ BatchIsTrue(s) /\ ReadsOne(s) /\ WalkedIsCatalogued(s)
        BY DEF CalmInv
    <3>1. /\ reread.at = "idle" /\ apply.at = "idle"
          /\ MapIsTrue(scan) /\ BatchIsTrue(scan) /\ ReadsOne(scan) /\ WalkedIsCatalogued(scan)
        BY <1>1 DEF CalmInv
    <3>2. /\ scan.path \in scan.seen /\ scan.stamp = file[scan.path] /\ ~Held(scan, scan.path)
          /\ c.loaded = row[c.track] /\ c.loaded.path = c.path
        BY <1>4, <2>1, <3>1 DEF ReadsOne
    <3>3. MapIsTrue(s)
        BY <1>1, <3>1 DEF MapIsTrue
    <3>4. BatchIsTrue(s)
      <4>1. Tells(c.wanted, c.path) /\ c.path \in s.seen
          BY <1>1, <2>1, <3>2 DEF Tells
      <4>2. \A d \in scan.changed : d.path # c.path
          BY <2>1, <3>2 DEF Held
      <4>. QED
          BY <1>1, <2>1, <2>2, <3>1, <3>2, <4>1, <4>2 DEF BatchIsTrue
    <3>5. ReadsOne(s)
        BY <1>1 DEF ReadsOne
    <3>6. WalkedIsCatalogued(s)
      <4>1. Held(s, scan.path) /\ \A p : Held(scan, p) => Held(s, p)
          BY <2>1, <2>2 DEF Held
      <4>. QED
          BY <1>1, <3>1, <4>1 DEF WalkedIsCatalogued
    <3>. QED
        BY <3>1, <3>3, <3>4, <3>5, <3>6
  <2>. QED
      BY <1>1, <2>3, <2>4, <2>5
<1>. QED
    BY <1>3, <1>4

-----------------------------------------------------------------------------
(* A commit of what is held back.                                           *)

\* Where a flush puts what is held back, and what it leaves.
FlushedAs(s, id) ==
    /\ \A n \in s.new : id[n] \in TrackIds /\ row[id[n]] = NoRow /\ row'[id[n]] = n
    /\ \A t \in TrackIds :
           (\A n \in s.new : id[n] # t) =>
               \/ (\A c \in s.changed : c.track # t) /\ row'[t] = row[t]
               \/ \E c \in s.changed : c.track = t /\ row'[t] = Merged(t, c.loaded, c.wanted)

\* A flush is that, and marks the rows it crosses.
LEMMA FlushFacts ==
    ASSUME FileInv, NEW s, ScanTyped(s), Commits(s), \A n \in s.new : RowAt(n.path) = {}
    PROVE  /\ \E id : FlushedAs(s, id)
           /\ row' = [t \in TrackIds |-> row'[t]]
           /\ mixed' = {t \in mixed : \A c \in s.changed : c.track # t}
                           \cup {c.track : c \in {d \in s.changed : Crossed(d)}}
           /\ scan' = [s EXCEPT !.new = {}, !.changed = {}]
<1>1. PICK id \in [s.new -> {t \in TrackIds \ Rows :
                                 t <= Cardinality(Rows) + Cardinality(s.new)}] :
          /\ \A m, n \in s.new : id[m] = id[n] => m = n
          /\ row' = [t \in TrackIds |->
                   CASE \E n \in s.new : id[n] = t -> CHOOSE n \in s.new : id[n] = t
                     [] \E c \in s.changed : c.track = t ->
                            LET c == CHOOSE c \in s.changed : c.track = t
                            IN Merged(t, c.loaded, c.wanted)
                     [] OTHER -> row[t]]
          /\ mixed' = {t \in mixed : \A c \in s.changed : c.track # t}
                             \cup {c.track : c \in {d \in s.changed : Crossed(d)}}
          /\ scan' = [s EXCEPT !.new = {}, !.changed = {}]
    BY DEF Commits
<1>2. \A n \in s.new : id[n] \in TrackIds /\ row[id[n]] = NoRow
    BY <1>1 DEF Rows
<1>3. \A c \in s.changed : \A n \in s.new : id[n] # c.track
    BY <1>2, RowFacts DEF ScanTyped, FileInv
<1>4. ASSUME NEW n \in s.new PROVE row'[id[n]] = n
  <2>1. row'[id[n]] = CHOOSE m \in s.new : id[m] = id[n]
      BY <1>1, <1>2, <1>3
  <2>2. (CHOOSE m \in s.new : id[m] = id[n]) = n
      BY <1>1
  <2>. QED
      BY <2>1, <2>2
<1>5. ASSUME NEW t \in TrackIds, \A n \in s.new : id[n] # t
      PROVE  \/ (\A c \in s.changed : c.track # t) /\ row'[t] = row[t]
             \/ \E c \in s.changed : c.track = t /\ row'[t] = Merged(t, c.loaded, c.wanted)
  <2>1. CASE \A c \in s.changed : c.track # t
      BY <1>1, <1>5, <2>1
  <2>2. CASE \E c \in s.changed : c.track = t
    <3>1. PICK c : c = CHOOSE d \in s.changed : d.track = t
        OBVIOUS
    <3>2. c \in s.changed /\ c.track = t
        BY <2>2, <3>1
    <3>3. row'[t] = Merged(t, c.loaded, c.wanted)
        BY <1>1, <1>5, <2>2, <3>1
    <3>. QED
        BY <3>2, <3>3
  <2>. QED
      BY <2>1, <2>2
<1>6. FlushedAs(s, id)
    BY <1>2, <1>4, <1>5 DEF FlushedAs
<1>7. row' = [t \in TrackIds |-> row'[t]]
    BY <1>1
<1>. QED
    BY <1>1, <1>6, <1>7

\* A row keeps its path, and what has none is none or new.
LEMMA FlushedRows ==
    ASSUME FileInv, NEW s, ScanTyped(s), NEW id, FlushedAs(s, id),
           row' = [t \in TrackIds |-> row'[t]]
    PROVE  /\ row' \in [TrackIds -> FileRows \cup {NoRow}]
           /\ \A t : OnFile(t) => /\ OnFile(t)' /\ row'[t].path = row[t].path
                                  /\ \A n \in s.new : id[n] # t
           /\ \A t \in TrackIds :
                  row[t] = NoRow => row'[t] = NoRow \/ \E n \in s.new : id[n] = t /\ row'[t] = n
<1>. USE RowFacts DEF FileInv
<1>0. NoRow \notin FileRows
    OBVIOUS
<1>1. ASSUME NEW t \in TrackIds, row[t] = NoRow
      PROVE  /\ row'[t] \in FileRows \cup {NoRow}
             /\ row'[t] = NoRow \/ \E n \in s.new : id[n] = t /\ row'[t] = n
  <2>1. \A c \in s.changed : c.track # t
      BY <1>0, <1>1 DEF ScanTyped, OnFile
  <2>2. CASE \E n \in s.new : id[n] = t
      BY <2>2 DEF FlushedAs, ScanTyped
  <2>3. CASE \A n \in s.new : id[n] # t
      BY <1>1, <2>1, <2>3 DEF FlushedAs
  <2>. QED
      BY <2>2, <2>3
<1>2. ASSUME NEW t, OnFile(t)
      PROVE  /\ OnFile(t)' /\ row'[t] \in FileRows /\ row'[t].path = row[t].path
             /\ \A n \in s.new : id[n] # t
  <2>0. t \in TrackIds /\ row[t] \in FileRows
      BY <1>2 DEF OnFile
  <2>1. \A n \in s.new : id[n] # t
      BY <1>0, <2>0 DEF FlushedAs
  <2>2. CASE row'[t] = row[t]
      BY <2>0, <2>1, <2>2 DEF OnFile
  <2>3. ASSUME NEW c \in s.changed, c.track = t, row'[t] = Merged(t, c.loaded, c.wanted)
        PROVE  row'[t] \in FileRows /\ row'[t].path = row[t].path
    <3>1. c.loaded \in FileRows /\ c.wanted \in FileRows /\ c.wanted.path = c.loaded.path
        BY DEF ScanTyped, Changes
    <3>. QED
        BY <1>2, <2>3, <3>1, MergedFacts
  <2>4. row'[t] \in FileRows /\ row'[t].path = row[t].path
      BY <2>0, <2>1, <2>2, <2>3 DEF FlushedAs
  <2>. QED
      BY <2>0, <2>1, <2>4 DEF OnFile
<1>3. \A t \in TrackIds : row'[t] \in FileRows \cup {NoRow}
    BY <1>1, <1>2
<1>4. row' \in [TrackIds -> FileRows \cup {NoRow}]
    BY <1>3
<1>. QED
    BY <1>1, <1>2, <1>4

\* The scan and the rows after a flush.
Flushes(s, id) ==
    /\ FlushedAs(s, id)
    /\ row' \in [TrackIds -> FileRows \cup {NoRow}]
    /\ \A t : OnFile(t) => /\ OnFile(t)' /\ row'[t].path = row[t].path
                           /\ \A n \in s.new : id[n] # t
    /\ \A t \in TrackIds :
           row[t] = NoRow => row'[t] = NoRow \/ \E n \in s.new : id[n] = t /\ row'[t] = n
    /\ mixed' = {t \in mixed : \A c \in s.changed : c.track # t}
                    \cup {c.track : c \in {d \in s.changed : Crossed(d)}}
    /\ scan' = [s EXCEPT !.new = {}, !.changed = {}]

\* The files and the jobs after a flush.
LEMMA FlushKeepsFiles ==
    ASSUME FileInv, NEW s, ScanTyped(s), NewDistinct(s), NEW id, Flushes(s, id),
           \A n \in s.new : RowAt(n.path) = {},
           UNCHANGED <<file, version, reread, apply>>
    PROVE  FileInv'
<1>. USE DEF FileInv, Flushes
<1>1. FilesTyped'
  <2>1. mixed' \subseteq TrackIds
      BY DEF FilesTyped, ScanTyped, Changes
  <2>. QED
      BY <2>1 DEF FilesTyped
<1>2. JobsTyped'
    BY DEF JobsTyped
<1>3. VersionsOnce'
    BY DEF VersionsOnce
<1>4. PathsDistinct'
  <2>1. ASSUME NEW n \in s.new, NEW t \in TrackIds, OnFile(t) PROVE row'[t].path # n.path
    <3>1. row'[t].path = row[t].path /\ t \in Rows
        BY <2>1, RowFacts
    <3>. QED
        BY <3>1 DEF RowAt
  <2>2. ASSUME NEW t \in TrackIds, NEW u \in TrackIds, row'[t] # NoRow,
               row'[t].path = row'[u].path
        PROVE  t = u
    <3>1. row'[t].path \in Paths
        BY <2>2 DEF FileRows
    <3>2. row'[u] # NoRow
        BY <2>2, <3>1, CatalogConstantsAssumption DEF NoRow
    <3>3. CASE OnFile(t) /\ OnFile(u)
        BY <2>2, <3>3, RowFacts DEF PathsDistinct
    <3>4. CASE OnFile(t) /\ ~OnFile(u)
        BY <2>1, <2>2, <3>2, <3>4, RowFacts
    <3>5. CASE ~OnFile(t) /\ OnFile(u)
        BY <2>1, <2>2, <3>5, RowFacts
    <3>6. CASE ~OnFile(t) /\ ~OnFile(u)
      <4>1. PICK m \in s.new : id[m] = t /\ row'[t] = m
          BY <2>2, <3>6, RowFacts
      <4>2. PICK n \in s.new : id[n] = u /\ row'[u] = n
          BY <3>2, <3>6, RowFacts
      <4>3. m = n
          BY <2>2, <4>1, <4>2 DEF NewDistinct
      <4>. QED
          BY <4>1, <4>2, <4>3
    <3>. QED
        BY <3>3, <3>4, <3>5, <3>6
  <2>. QED
      BY <2>2 DEF PathsDistinct
<1>. QED
    BY <1>1, <1>2, <1>3, <1>4

\* A flush reads nothing: a row that is not mixed is what was held back, or as it was.
LEMMA FlushReads ==
    ASSUME FileInv, NEW s, ScanTyped(s), NEW id, Flushes(s, id), s.at # "read",
           UNCHANGED <<file, version, reread, apply>>
    PROVE  /\ \A p \in Paths, v \in Versions : StatOf(scan, p, v)' => StatOf(s, p, v)
           /\ \A p \in Paths, v, g \in Versions : ReadAs(scan, p, v, g)' => ReadAs(s, p, v, g)
<1>1. scan'.at = s.at /\ scan'.new = {} /\ scan'.changed = {}
    BY DEF Flushes, ScanTyped
<1>2. \A p \in Paths, v \in Versions : StatOf(scan, p, v)' => StatOf(s, p, v)
    BY <1>1 DEF StatOf
<1>3. ASSUME NEW p \in Paths, NEW v \in Versions, NEW g \in Versions, NEW u \in TrackIds,
             u \notin mixed', row'[u].path = p, row'[u].stamp = v, row'[u].tags = g,
             ~row'[u].missing, ~row'[u].error
      PROVE  ReadAs(s, p, v, g)
  <2>1. CASE \E n \in s.new : id[n] = u
      BY <1>3, <2>1 DEF ReadAs, Flushes, FlushedAs
  <2>2. CASE (\A c \in s.changed : c.track # u) /\ row'[u] = row[u]
    <3>1. u \notin mixed
        BY <1>3, <2>2 DEF Flushes
    <3>. QED
        BY <1>3, <2>2, <3>1 DEF ReadAs
  <2>3. ASSUME NEW c \in s.changed, c.track = u, row'[u] = Merged(u, c.loaded, c.wanted)
        PROVE  ReadAs(s, p, v, g)
    <3>1. /\ c.loaded \in FileRows /\ c.wanted \in FileRows /\ c.wanted.path = c.loaded.path
          /\ OnFile(u)
        BY <2>3 DEF ScanTyped, Changes
    <3>2. ~Crossed(c)
        BY <1>3, <2>3 DEF Flushes
    <3>3. row'[u] = c.wanted /\ c.wanted.path = c.path
        BY <2>3, <3>1, <3>2, MergedFacts DEF Crossed
    <3>. QED
        BY <1>3, <3>3 DEF ReadAs
  <2>. QED
      BY <2>1, <2>2, <2>3 DEF Flushes, FlushedAs
<1>4. ASSUME NEW p \in Paths, NEW v \in Versions, NEW g \in Versions, ReadAs(scan, p, v, g)'
      PROVE  ReadAs(s, p, v, g)
  <2>1. CASE \E u \in TrackIds \ mixed' :
                 /\ row'[u].path = p /\ row'[u].stamp = v /\ row'[u].tags = g
                 /\ ~row'[u].missing /\ ~row'[u].error
      BY <1>3, <2>1
  <2>2. CASE \/ /\ reread'.at = "commit" /\ reread'.loaded.path = p /\ reread'.stamp = v
                /\ reread'.tags = g
             \/ apply'.at = "commit" /\ apply'.path = p /\ apply'.stamp = v /\ g = v
      BY <2>2 DEF ReadAs
  <2>. QED
      BY <1>1, <1>4, <2>1, <2>2 DEF ReadAs
<1>. QED
    BY <1>2, <1>4

\* A flush of a calm scan leaves the catalog as it held it.
LEMMA FlushIsCalm ==
    ASSUME FileInv, NEW s, ScanInv(s), NEW id, Flushes(s, id), s.at \in {"idle", "walk", "missing"},
           UNCHANGED <<file, version, reread, apply>>
    PROVE  CalmInv(scan)'
<1>. USE DEF FileInv, ScanInv
<1>1. /\ scan'.at = s.at /\ scan'.new = {} /\ scan'.changed = {} /\ scan'.known = s.known
      /\ scan'.walked = s.walked /\ scan'.seen = s.seen /\ scan'.scope = s.scope
      /\ scan'.calm = s.calm
    BY DEF Flushes, ScanTyped
<1>. SUFFICES ASSUME s.at # "idle", s.calm
              PROVE  /\ (reread.at = "idle" /\ apply.at = "idle")'
                     /\ (MapIsTrue(scan) /\ BatchIsTrue(scan) /\ ReadsOne(scan)
                         /\ WalkedIsCatalogued(scan))'
    BY <1>1 DEF CalmInv
<1>2. /\ reread.at = "idle" /\ apply.at = "idle"
      /\ MapIsTrue(s) /\ BatchIsTrue(s) /\ ReadsOne(s) /\ WalkedIsCatalogued(s)
    BY DEF CalmInv
<1>3. \A t : OnFile(t) <=> t \in Rows
    BY RowFacts
<1>4. \A t : t \in Rows' => (t \in Rows /\ row'[t].path = row[t].path)
                            \/ \E n \in s.new : row'[t] = n
    BY <1>3, RowFacts DEF Rows, Flushes, OnFile
<1>5. \A c \in s.changed :
          /\ OnFile(c.track) /\ c.loaded = row[c.track] /\ c.loaded.path = c.path
          /\ c.wanted.path = c.path /\ Tells(c.wanted, c.path) /\ c.path \in s.seen
          /\ c.loaded \in FileRows /\ c.wanted \in FileRows
    BY <1>2 DEF BatchIsTrue, ScanTyped, Changes
<1>6. \A r, p : Tells(r, p)' <=> Tells(r, p)
    BY DEF Tells
<1>7. ASSUME NEW t \in Rows
      PROVE  \/ (\A c \in s.changed : c.track # t) /\ row'[t] = row[t]
             \/ \E c \in s.changed : c.track = t /\ row'[t] = c.wanted
  <2>1. OnFile(t) /\ t \in TrackIds /\ \A n \in s.new : id[n] # t
      BY <1>3 DEF Flushes, OnFile
  <2>2. ASSUME NEW c \in s.changed, c.track = t, row'[t] = Merged(t, c.loaded, c.wanted)
        PROVE  row'[t] = c.wanted
      BY <1>5, <2>1, <2>2, MergedFacts
  <2>. QED
      BY <2>1, <2>2 DEF Flushes, FlushedAs
<1>8. MapIsTrue(scan)'
  <2>1. ASSUME NEW k \in s.known
        PROVE  /\ row'[k.track].path = k.path
               /\ k.path \notin s.walked => /\ row'[k.track].stamp = k.stamp
                                            /\ row'[k.track].missing = k.missing
    <3>1. OnFile(k.track) /\ k.track \in Rows /\ row[k.track].path = k.path
        BY <1>2, <1>3 DEF ScanTyped, MapIsTrue
    <3>2. row'[k.track].path = k.path
        BY <3>1 DEF Flushes
    <3>3. ASSUME k.path \notin s.walked PROVE row'[k.track] = row[k.track]
      <4>1. \A c \in s.changed : c.track # k.track
          BY <1>2, <1>5, <3>1, <3>3 DEF WalkedIsCatalogued, ScanTyped
      <4>. QED
          BY <1>7, <3>1, <4>1
    <3>. QED
        BY <1>2, <3>2, <3>3 DEF MapIsTrue
  <2>2. ASSUME NEW t \in Rows'
        PROVE  row'[t].path \in s.seen \/ \E k \in s.known : k.path = row'[t].path
      BY <1>2, <1>4, <2>2 DEF MapIsTrue, BatchIsTrue
  <2>. QED
      BY <1>1, <1>2, <2>1, <2>2 DEF MapIsTrue
<1>9. BatchIsTrue(scan)' /\ ReadsOne(scan)'
    BY <1>1 DEF BatchIsTrue, ReadsOne
<1>10. ASSUME NEW p \in s.seen PROVE Catalogued(p)'
  <2>1. ASSUME NEW t \in RowAt(p)', Tells(row'[t], p) PROVE Catalogued(p)'
      BY <1>6, <2>1 DEF Catalogued
  <2>2. CASE \E n \in s.new : n.path = p
    <3>1. PICK n \in s.new : n.path = p
        BY <2>2
    <3>2. /\ id[n] \in TrackIds /\ row'[id[n]] = n /\ n # NoRow /\ Tells(n, p)
        BY <1>2, <3>1, RowFacts DEF Flushes, FlushedAs, BatchIsTrue, ScanTyped
    <3>3. id[n] \in RowAt(p)'
        BY <3>1, <3>2 DEF RowAt, Rows
    <3>. QED
        BY <2>1, <3>2, <3>3
  <2>3. ASSUME NEW c \in s.changed, c.path = p PROVE Catalogued(p)'
    <3>1. c.track \in Rows /\ c.track \in TrackIds
        BY <1>3, <1>5 DEF OnFile
    <3>2. PICK d \in s.changed : d.track = c.track /\ row'[c.track] = d.wanted
        BY <1>7, <3>1
    <3>3. d.path = c.path
        BY <1>5, <3>2
    <3>4. row'[c.track].path = p /\ Tells(row'[c.track], p) /\ OnFile(c.track)'
        BY <1>5, <2>3, <3>2, <3>3 DEF Flushes
    <3>5. row'[c.track] # NoRow
        BY <1>5, <3>2, RowFacts
    <3>6. c.track \in RowAt(p)'
        BY <3>1, <3>4, <3>5 DEF RowAt, Rows
    <3>. QED
        BY <2>1, <3>4, <3>6
  <2>4. CASE Catalogued(p)
    <3>1. PICK t \in RowAt(p) : t \in mixed \/ Tells(row[t], p)
        BY <2>4 DEF Catalogued
    <3>2. t \in Rows /\ t \in TrackIds /\ row[t].path = p
        BY DEF RowAt, Rows
    <3>3. CASE (\A c \in s.changed : c.track # t) /\ row'[t] = row[t]
      <4>1. t \in RowAt(p)'
          BY <3>2, <3>3 DEF RowAt, Rows
      <4>2. t \in mixed => t \in mixed'
          BY <3>3 DEF Flushes
      <4>. QED
          BY <1>6, <3>1, <3>3, <4>1, <4>2 DEF Catalogued
    <3>4. ASSUME NEW c \in s.changed, c.track = t PROVE Catalogued(p)'
        BY <1>5, <2>3, <3>2, <3>4
    <3>. QED
        BY <1>7, <3>2, <3>3, <3>4
  <2>. QED
      BY <1>2, <2>2, <2>3, <2>4 DEF WalkedIsCatalogued, Held
<1>11. WalkedIsCatalogued(scan)'
    BY <1>1, <1>2, <1>10 DEF WalkedIsCatalogued
<1>. QED
    BY <1>2, <1>8, <1>9, <1>11

\* A commit, of a batch that is full, after the walk, or after a cancel.
LEMMA KeptByCommits ==
    ASSUME CatalogInv, NEW s, ScanInv(s), s.at \in {"idle", "walk", "missing"}, Commits(s),
           UNCHANGED <<file, version, reread, apply>>
    PROVE  CatalogInv'
<1>1. CASE \E n \in s.new : RowAt(n.path) # {}
  <2>1. PICK z : z = NoScan
      OBVIOUS
  <2>2. scan' = z /\ UNCHANGED <<row, mixed>>
      BY <1>1, <2>1 DEF Commits
  <2>3. ScanInv(z) /\ WalkedOnce(z)
      BY <2>1, NoScanHolds
  <2>. QED
      BY <2>2, <2>3, KeptByScanOnly
<1>2. CASE \A n \in s.new : RowAt(n.path) = {}
  <2>0. FileInv /\ ScanTyped(s) /\ NewDistinct(s) /\ MetBefore(s) /\ ReadIsTrue(s)
      BY DEF CatalogInv, ScanInv
  <2>1. PICK id : FlushedAs(s, id)
      BY <1>2, <2>0, FlushFacts
  <2>2. Flushes(s, id)
    <3>1. /\ row' = [t \in TrackIds |-> row'[t]]
          /\ mixed' = {t \in mixed : \A c \in s.changed : c.track # t}
                          \cup {c.track : c \in {d \in s.changed : Crossed(d)}}
          /\ scan' = [s EXCEPT !.new = {}, !.changed = {}]
        BY <1>2, <2>0, FlushFacts
    <3>2. /\ row' \in [TrackIds -> FileRows \cup {NoRow}]
          /\ \A t : OnFile(t) => /\ OnFile(t)' /\ row'[t].path = row[t].path
                                 /\ \A n \in s.new : id[n] # t
          /\ \A t \in TrackIds :
                 row[t] = NoRow => row'[t] = NoRow \/ \E n \in s.new : id[n] = t /\ row'[t] = n
        BY <2>0, <2>1, <3>1, FlushedRows
    <3>. QED
        BY <2>1, <3>1, <3>2 DEF Flushes
  <2>3. FileInv'
      BY <1>2, <2>0, <2>2, FlushKeepsFiles
  <2>4. CalmInv(scan)'
      BY <2>0, <2>2, FlushIsCalm
  <2>5. (MetBefore(scan) /\ ReadIsTrue(scan))'
    <3>1. /\ \A p \in Paths, v \in Versions : StatOf(scan, p, v)' => StatOf(s, p, v)
          /\ \A p \in Paths, v, g \in Versions : ReadAs(scan, p, v, g)' => ReadAs(s, p, v, g)
      <4>1. s.at # "read"
          OBVIOUS
      <4>. QED
          BY <2>0, <2>2, <4>1, FlushReads
    <3>2. FilesTyped /\ JobsTyped /\ VersionsOnce /\ apply' = apply /\ UNCHANGED <<file, version>>
        BY <2>0 DEF FileInv
    <3>. QED
        BY <2>0, <3>1, <3>2, ReadingsKept
  <2>6. /\ scan'.at = s.at /\ scan'.new = {} /\ scan'.changed = {} /\ scan'.known = s.known
        /\ scan'.found = s.found
      BY <2>0, <2>2 DEF Flushes, ScanTyped
  <2>7. NewDistinct(scan)' /\ WalkedOnce(scan)'
      BY <2>6 DEF NewDistinct, WalkedOnce
  <2>8. ScanTyped(scan)'
    <3>1. scan' \in [at : {"idle", "walk", "read", "missing", "done"}, scope : SUBSET Paths,
                     known : SUBSET Mapped, walked : SUBSET Paths, seen : SUBSET Paths,
                     new : SUBSET FileRows, changed : SUBSET Changes,
                     path : Paths \cup {"none"}, stamp : Versions, found : Loaded \cup {Unknown},
                     calm : BOOLEAN]
        BY <2>0, <2>2 DEF ScanTyped, Flushes
    <3>2. \A t : OnFile(t) => OnFile(t)'
        BY <2>2 DEF Flushes
    <3>. QED
        BY <2>0, <2>6, <3>1, <3>2 DEF ScanTyped
  <2>. QED
      BY <2>3, <2>4, <2>5, <2>7, <2>8 DEF CatalogInv, ScanInv
<1>. QED
    BY <1>1, <1>2

-----------------------------------------------------------------------------
(* Steps of the scan that may write rows.                                   *)

\* The tags are read, or cannot be.
LEMMA KeptByScanRead ==
    ASSUME CatalogInv, ScanRead
    PROVE  CatalogInv'
<1>1. PICK tags \in Versions : Batches(Upsert(tags)) /\ (tags # 0 => tags = file[scan.path])
  <2>1. 0 \in Versions
      BY CatalogConstantsAssumption DEF Versions
  <2>2. scan.path \in Paths /\ file[scan.path] \in Versions
      BY DEF ScanRead, CatalogInv, FileInv, FilesTyped, ScanInv, ScanTyped
  <2>. QED
      BY <2>1, <2>2 DEF ScanRead
<1>2. scan.at = "read" /\ UNCHANGED <<file, version, reread, apply>>
    BY DEF ScanRead
<1>3. PICK s : s = Upsert(tags) /\ ScanInv(s) /\ WalkedOnce(s) /\ s.at = "walk"
    BY <1>1, <1>2, UpsertHolds
<1>4. Batches(s)
    BY <1>1, <1>3
<1>5. CASE Commits(s)
    BY <1>2, <1>3, <1>5, KeptByCommits
<1>6. CASE scan' = s /\ UNCHANGED <<row, mixed>>
    BY <1>2, <1>3, <1>6, KeptByScanOnly
<1>. QED
    BY <1>4, <1>5, <1>6 DEF Batches

\* The walk is over: what is held back is committed.
LEMMA KeptByScanWalked ==
    ASSUME CatalogInv, ScanWalked
    PROVE  CatalogInv'
<1>. USE DEF CatalogInv, ScanInv
<1>1. PICK s : s = [scan EXCEPT !.at = "missing"]
    OBVIOUS
<1>2. /\ Commits(s) /\ UNCHANGED <<file, version, reread, apply>>
      /\ scan.at = "walk" /\ scan.walked = scan.scope
    BY <1>1 DEF ScanWalked
<1>3. /\ s.at = "missing" /\ s.scope = scan.scope /\ s.known = scan.known /\ s.new = scan.new
      /\ s.changed = scan.changed /\ s.calm = scan.calm /\ s.seen = scan.seen
      /\ s.walked = scan.walked /\ s.found = scan.found
    BY <1>1 DEF ScanTyped
<1>4. ScanTyped(s)
    BY <1>1, <1>3 DEF ScanTyped
<1>5. NewDistinct(s)
    BY <1>3 DEF NewDistinct
<1>6. MetBefore(s) /\ ReadIsTrue(s)
  <2>1. \A p \in Paths, v \in Versions : StatOf(s, p, v) => StatOf(scan, p, v)
      BY <1>3 DEF StatOf
  <2>2. \A p \in Paths, v, g \in Versions : ReadAs(s, p, v, g) => ReadAs(scan, p, v, g)
      BY <1>3 DEF ReadAs
  <2>. QED
      BY <2>1, <2>2, ReadingsOf
<1>7. CalmInv(s)
  <2>. SUFFICES ASSUME s.calm
                PROVE  /\ reread.at = "idle" /\ apply.at = "idle"
                       /\ MapIsTrue(s) /\ BatchIsTrue(s) /\ ReadsOne(s) /\ WalkedIsCatalogued(s)
      BY DEF CalmInv
  <2>1. /\ reread.at = "idle" /\ apply.at = "idle"
        /\ MapIsTrue(scan) /\ BatchIsTrue(scan) /\ WalkedIsCatalogued(scan)
      BY <1>2, <1>3 DEF CalmInv
  <2>2. MapIsTrue(s) /\ BatchIsTrue(s) /\ ReadsOne(s)
      BY <1>3, <2>1 DEF MapIsTrue, BatchIsTrue, ReadsOne
  <2>3. \A p : Held(scan, p) => Held(s, p)
      BY <1>3 DEF Held
  <2>4. WalkedIsCatalogued(s)
      BY <1>2, <1>3, <2>1, <2>3 DEF WalkedIsCatalogued
  <2>. QED
      BY <2>1, <2>2, <2>4
<1>. QED
    BY <1>2, <1>3, <1>4, <1>5, <1>6, <1>7, KeptByCommits

\* A scan that is cancelled commits what it read.
LEMMA KeptByScanCancel ==
    ASSUME CatalogInv, ScanCancel
    PROVE  CatalogInv'
<1>. USE DEF CatalogInv, ScanInv
<1>1. PICK s : s = [NoScan EXCEPT !.new = scan.new, !.changed = scan.changed]
    OBVIOUS
<1>2. Commits(s) /\ UNCHANGED <<file, version, reread, apply>>
    BY <1>1 DEF ScanCancel
<1>3. ScanTyped(NoScan)
    BY NoScanHolds
<1>4. /\ s.at = "idle" /\ s.known = {} /\ s.new = scan.new /\ s.changed = scan.changed
      /\ s.found = Unknown
  <2>1. NoScan.at = "idle" /\ NoScan.known = {} /\ NoScan.found = Unknown
      BY DEF NoScan
  <2>. QED
      BY <1>1, <1>3, <2>1 DEF ScanTyped
<1>5. ScanTyped(s)
  <2>1. s \in [at : {"idle", "walk", "read", "missing", "done"}, scope : SUBSET Paths,
               known : SUBSET Mapped, walked : SUBSET Paths, seen : SUBSET Paths,
               new : SUBSET FileRows, changed : SUBSET Changes,
               path : Paths \cup {"none"}, stamp : Versions, found : Loaded \cup {Unknown},
               calm : BOOLEAN]
      BY <1>1, <1>3 DEF ScanTyped
  <2>. QED
      BY <1>4, <2>1 DEF ScanTyped
<1>6. NewDistinct(s) /\ CalmInv(s)
    BY <1>4 DEF NewDistinct, CalmInv
<1>7. MetBefore(s) /\ ReadIsTrue(s)
  <2>1. \A p \in Paths, v \in Versions : StatOf(s, p, v) => StatOf(scan, p, v)
      BY <1>4 DEF StatOf
  <2>2. \A p \in Paths, v, g \in Versions : ReadAs(s, p, v, g) => ReadAs(scan, p, v, g)
      BY <1>4 DEF ReadAs
  <2>. QED
      BY <2>1, <2>2, ReadingsOf
<1>. QED
    BY <1>2, <1>4, <1>5, <1>6, <1>7, KeptByCommits

\* The rows of files that were not seen are missing: no path changes, and nothing is read.
LEMMA KeptByScanMissing ==
    ASSUME CatalogInv, ScanMissing
    PROVE  CatalogInv'
<1>. USE DEF CatalogInv, FileInv, ScanInv
<1>1. /\ scan.at = "missing" /\ UNCHANGED <<file, version, reread, apply, mixed>>
      /\ row' = [t \in TrackIds |-> IF row[t].path \in Vanished
                                    THEN [row[t] EXCEPT !.missing = TRUE] ELSE row[t]]
      /\ scan' = [scan EXCEPT !.at = "done"]
    BY DEF ScanMissing
<1>2. Vanished \subseteq Paths
    BY DEF Vanished, ScanTyped
<1>3. ASSUME NEW t \in TrackIds
      PROVE  /\ row'[t] \in FileRows \cup {NoRow} /\ row'[t].path = row[t].path
             /\ (row'[t] = NoRow <=> row[t] = NoRow)
             /\ row[t].path \in Vanished => row'[t].missing = TRUE
             /\ row'[t] = row[t] \/ (row[t].path \in Vanished /\ row'[t].missing = TRUE)
             /\ row'[t].stamp = row[t].stamp
  <2>1. CASE row[t].path \in Vanished
    <3>1. row[t] \in FileRows
        BY <1>2, <2>1, RowFacts DEF OnFile
    <3>2. row'[t] = [row[t] EXCEPT !.missing = TRUE]
        BY <1>1, <2>1
    <3>3. /\ row'[t] \in FileRows /\ row'[t].path = row[t].path /\ row'[t].missing = TRUE
          /\ row'[t].stamp = row[t].stamp
        BY <3>1, <3>2 DEF FileRows
    <3>. QED
        BY <2>1, <3>1, <3>3, RowFacts
  <2>2. CASE row[t].path \notin Vanished
      BY <1>1, <2>2 DEF FilesTyped
  <2>. QED
      BY <2>1, <2>2
<1>4. /\ scan'.at = "done" /\ scan'.scope = scan.scope /\ scan'.known = scan.known
      /\ scan'.new = scan.new /\ scan'.changed = scan.changed /\ scan'.calm = scan.calm
      /\ scan'.seen = scan.seen /\ scan'.walked = scan.walked /\ scan'.found = scan.found
    BY <1>1 DEF ScanTyped
<1>5. \A t : OnFile(t) => OnFile(t)'
    BY <1>3, RowFacts DEF OnFile
<1>6. FilesTyped' /\ JobsTyped' /\ VersionsOnce' /\ PathsDistinct'
  <2>1. FilesTyped'
      BY <1>1, <1>3 DEF FilesTyped
  <2>2. JobsTyped'
      BY <1>1, <1>5 DEF JobsTyped
  <2>3. VersionsOnce'
      BY <1>1 DEF VersionsOnce
  <2>4. PathsDistinct'
      BY <1>3 DEF PathsDistinct
  <2>. QED
      BY <2>1, <2>2, <2>3, <2>4
<1>7. ScanTyped(scan)'
    BY <1>1, <1>4, <1>5 DEF ScanTyped
<1>8. NewDistinct(scan)' /\ WalkedOnce(scan)'
    BY <1>1, <1>4 DEF NewDistinct, WalkedOnce
<1>9. (MetBefore(scan) /\ ReadIsTrue(scan))'
  <2>1. PICK s : s = scan
      OBVIOUS
  <2>2. \A p \in Paths, v \in Versions : StatOf(scan, p, v)' => StatOf(s, p, v)
      BY <1>1, <1>4, <2>1 DEF StatOf
  <2>3. ASSUME NEW p \in Paths, NEW v \in Versions, NEW g \in Versions, ReadAs(scan, p, v, g)'
        PROVE  ReadAs(s, p, v, g)
    <3>1. ASSUME NEW u \in TrackIds, u \notin mixed', row'[u].path = p, row'[u].stamp = v,
                 row'[u].tags = g, ~row'[u].missing, ~row'[u].error
          PROVE  ReadAs(s, p, v, g)
      <4>1. row'[u] = row[u] /\ u \notin mixed
          BY <1>1, <1>3, <3>1
      <4>. QED
          BY <3>1, <4>1 DEF ReadAs
    <3>. QED
        BY <1>1, <1>4, <2>1, <2>3, <3>1 DEF ReadAs
  <2>4. MetBefore(s) /\ ReadIsTrue(s)
      BY <2>1
  <2>. QED
      BY <1>1, <2>2, <2>3, <2>4, ReadingsKept
<1>10. CalmInv(scan)'
  <2>. SUFFICES ASSUME scan.calm
                PROVE  /\ (reread.at = "idle" /\ apply.at = "idle")'
                       /\ (MapIsTrue(scan) /\ BatchIsTrue(scan) /\ ReadsOne(scan)
                           /\ WalkedIsCatalogued(scan))'
      BY <1>4 DEF CalmInv
  <2>1. /\ reread.at = "idle" /\ apply.at = "idle"
        /\ MapIsTrue(scan) /\ BatchIsTrue(scan) /\ WalkedIsCatalogued(scan)
      BY <1>1 DEF CalmInv
  <2>2. scan.walked = scan.scope /\ scan.new = {} /\ scan.changed = {}
      BY <1>1, <2>1 DEF WalkedIsCatalogued, WalkedOnce
  <2>3. \A t : t \in Rows' <=> t \in Rows
      BY <1>3 DEF Rows
  <2>4. \A t \in Rows : t \in TrackIds
      BY DEF Rows
  <2>5. MapIsTrue(scan)'
    <3>1. ASSUME NEW k \in scan.known
          PROVE  /\ row'[k.track].path = k.path
                 /\ k.path \notin scan.walked => /\ row'[k.track].stamp = k.stamp
                                                 /\ row'[k.track].missing = k.missing
      <4>1. k.track \in TrackIds /\ row[k.track].path = k.path
          BY <2>1 DEF MapIsTrue, ScanTyped, OnFile
      <4>2. ASSUME k.path \notin scan.walked PROVE row'[k.track] = row[k.track]
          BY <1>3, <2>2, <4>1, <4>2 DEF Vanished
      <4>3. row'[k.track].path = k.path
          BY <1>3, <4>1
      <4>4. k.path \notin scan.walked => row[k.track].stamp = k.stamp
                                          /\ row[k.track].missing = k.missing
          BY <2>1 DEF MapIsTrue
      <4>. QED
          BY <4>2, <4>3, <4>4
    <3>2. ASSUME NEW t \in Rows'
          PROVE  row'[t].path \in scan.seen \/ \E k \in scan.known : k.path = row'[t].path
      <4>1. t \in Rows /\ t \in TrackIds
          BY <2>3, <2>4, <3>2
      <4>2. row'[t].path = row[t].path
          BY <1>3, <4>1
      <4>. QED
          BY <2>1, <4>1, <4>2 DEF MapIsTrue
    <3>. QED
        BY <1>4, <2>1, <3>1, <3>2 DEF MapIsTrue
  <2>6. BatchIsTrue(scan)' /\ ReadsOne(scan)'
      BY <1>4, <2>2 DEF BatchIsTrue, ReadsOne
  <2>7. ASSUME NEW p \in scan.seen PROVE Catalogued(p)'
    <3>1. Catalogued(p)
        BY <1>1, <2>1, <2>2 DEF WalkedIsCatalogued, Held
    <3>2. PICK t \in RowAt(p) : t \in mixed \/ Tells(row[t], p)
        BY <3>1 DEF Catalogued
    <3>3. t \in TrackIds /\ t \in Rows /\ row[t].path = p /\ p \notin Vanished
        BY DEF RowAt, Rows, Vanished
    <3>4. row'[t] = row[t] /\ t \in RowAt(p)'
        BY <1>3, <2>3, <3>3 DEF RowAt
    <3>. QED
        BY <1>1, <3>2, <3>4 DEF Catalogued, Tells
  <2>8. ASSUME NEW t \in Rows', row'[t].path \in scan.scope \ scan.seen PROVE row'[t].missing
    <3>1. t \in TrackIds /\ t \in Rows /\ row'[t].path = row[t].path
        BY <1>3, <2>3, <2>4
    <3>2. PICK k \in scan.known : k.path = row[t].path
        BY <2>1, <2>8, <3>1 DEF MapIsTrue
    <3>3. row[t].path \in Vanished
        BY <2>8, <3>1, <3>2 DEF Vanished
    <3>. QED
        BY <1>3, <3>1, <3>3
  <2>9. WalkedIsCatalogued(scan)'
      BY <1>1, <1>4, <2>1, <2>2, <2>7, <2>8 DEF WalkedIsCatalogued
  <2>. QED
      BY <1>1, <2>1, <2>5, <2>6, <2>9
<1>. QED
    BY <1>6, <1>7, <1>8, <1>9, <1>10

-----------------------------------------------------------------------------
(* The catalog.                                                             *)

\* One file on disk, and no row.
LEMMA CatalogInitially ==
    ASSUME CatalogInit
    PROVE  CatalogInv
<1>1. PICK q \in Paths : file = [p \in Paths |-> IF p = q THEN 1 ELSE 0]
    BY DEF CatalogInit
<1>2. /\ version = 1 /\ row = [t \in TrackIds |-> NoRow] /\ scan = NoScan /\ reread = Asleep
      /\ apply = NoFile /\ mixed = {}
    BY DEF CatalogInit
<1>3. 0 \in Versions /\ 1 \in Versions /\ 1 \in 1..MaxVersion
    BY CatalogConstantsAssumption DEF Versions
<1>4. FilesTyped
    BY <1>1, <1>2, <1>3 DEF FilesTyped
<1>5. JobsTyped
    BY <1>2, <1>3 DEF JobsTyped, Asleep, NoFile
<1>6. PathsDistinct /\ VersionsOnce
    BY <1>1, <1>2 DEF PathsDistinct, VersionsOnce
<1>7. NoScan.at = "idle" /\ NoScan.known = {} /\ NoScan.new = {} /\ NoScan.changed = {}
      /\ NoScan.found = Unknown
    BY DEF NoScan
<1>8. ScanTyped(scan)
  <2>1. NoScan \in [at : {"idle", "walk", "read", "missing", "done"}, scope : SUBSET Paths,
                    known : SUBSET Mapped, walked : SUBSET Paths, seen : SUBSET Paths,
                    new : SUBSET FileRows, changed : SUBSET Changes,
                    path : Paths \cup {"none"}, stamp : Versions, found : Loaded \cup {Unknown},
                    calm : BOOLEAN]
      BY <1>3 DEF NoScan
  <2>. QED
      BY <1>2, <1>7, <2>1 DEF ScanTyped
<1>9. NewDistinct(scan) /\ WalkedOnce(scan) /\ CalmInv(scan)
    BY <1>2, <1>7 DEF NewDistinct, WalkedOnce, CalmInv
<1>10. \A p \in Paths, v \in Versions : ~StatOf(scan, p, v)
    BY <1>2, <1>7 DEF StatOf, Asleep
<1>11. \A p \in Paths, v, g \in Versions : ~ReadAs(scan, p, v, g)
    BY <1>2, <1>7, CatalogConstantsAssumption DEF ReadAs, Asleep, NoFile, NoRow
<1>. QED
    BY <1>4, <1>5, <1>6, <1>8, <1>9, <1>10, <1>11
    DEF CatalogInv, FileInv, ScanInv, MetBefore, ReadIsTrue

\* Every step keeps it.
LEMMA CatalogInductive ==
    ASSUME CatalogInv, [CatalogNext]_catalogVars
    PROVE  CatalogInv'
<1>1. ASSUME NEW p \in Paths, Touch(p) \/ ScanStat(p)
      PROVE  CatalogInv'
    BY <1>1, KeptByTouch, KeptByScanStat
<1>2. ASSUME NEW t \in TrackIds, RereadStart(t) \/ \E q \in Paths : ApplyWrites(t, q)
      PROVE  CatalogInv'
    BY <1>2, KeptByRereadSteps, KeptByApplyWrites
<1>3. CASE ApplyCommits \/ ApplyRestores
    BY <1>3, KeptByApplyCommits, KeptByApplyRestores
<1>4. CASE ScanStart \/ ScanRead \/ ScanFails \/ ScanCancel
    BY <1>4, KeptByScanStart, KeptByScanRead, KeptByScanEnds, KeptByScanCancel
<1>5. CASE ScanWalked \/ ScanMissing \/ ScanDone
    BY <1>5, KeptByScanWalked, KeptByScanMissing, KeptByScanEnds
<1>6. CASE RereadStat \/ RereadRead
    BY <1>6, KeptByRereadSteps
<1>7. CASE RereadMissing \/ RereadErrors \/ RereadCommits
    BY <1>7, KeptByRereadEnds
<1>8. CASE UNCHANGED catalogVars
  <2>1. PICK s : s = scan
      OBVIOUS
  <2>2. /\ scan' = s /\ UNCHANGED <<file, version, row, reread, apply, mixed>>
        /\ ScanInv(s) /\ WalkedOnce(s)
      BY <1>8, <2>1 DEF catalogVars, CatalogInv
  <2>. QED
      BY <2>2, KeptByScanOnly
<1>. QED
    BY <1>1, <1>2, <1>3, <1>4, <1>5, <1>6, <1>7, <1>8 DEF CatalogNext

\* The invariant of the catalog.
LEMMA CatalogInvariance == CatalogSpec => []CatalogInv
<1>1. CatalogInit => CatalogInv
    BY CatalogInitially
<1>2. CatalogInv /\ [CatalogNext]_catalogVars => CatalogInv'
    BY CatalogInductive
<1>. QED
    BY <1>1, <1>2, PTL DEF CatalogSpec

\* What the scan will skip was read.
LEMMA SkippedWasRead ==
    ASSUME CatalogInv
    PROVE  SkippedIsRead
<1>. SUFFICES ASSUME NEW t \in Rows \ mixed, ~row[t].missing, ~row[t].error,
                     row[t].stamp # 0, row[t].stamp = file[row[t].path]
              PROVE  row[t].tags = row[t].stamp
    BY DEF SkippedIsRead
<1>1. OnFile(t)
    BY RowFacts DEF CatalogInv, FileInv
<1>2. /\ t \in TrackIds /\ row[t].path \in Paths /\ row[t].stamp \in Versions
      /\ row[t].tags \in Versions
    BY <1>1 DEF OnFile, FileRows
<1>3. ReadAs(scan, row[t].path, row[t].stamp, row[t].tags)
    BY <1>2 DEF ReadAs
<1>. QED
    BY <1>2, <1>3 DEF CatalogInv, ScanInv, ReadIsTrue

\* A calm scan that is done has made the catalog of its scope what its files are.
LEMMA ScanHasConverged ==
    ASSUME CatalogInv
    PROVE  ScanConverges
<1>. SUFFICES ASSUME scan.at = "done", scan.calm, NEW p \in scan.scope,
                     RowAt(p) \cap mixed = {}
              PROVE  IF file[p] # 0
                     THEN \E t \in RowAt(p) : /\ ~row[t].missing /\ row[t].stamp = file[p]
                                              /\ row[t].error \/ row[t].tags = file[p]
                     ELSE \A t \in RowAt(p) : row[t].missing
    BY DEF ScanConverges
<1>1. /\ WalkedIsCatalogued(scan) /\ scan.new = {} /\ scan.changed = {} /\ p \in Paths
    BY DEF CatalogInv, ScanInv, CalmInv, WalkedOnce, ScanTyped
<1>2. CASE file[p] # 0
  <2>1. Catalogued(p)
      BY <1>1, <1>2 DEF WalkedIsCatalogued, Held
  <2>. QED
      BY <1>2, <2>1 DEF Catalogued, Tells
<1>3. CASE file[p] = 0
    BY <1>1, <1>3 DEF WalkedIsCatalogued, RowAt
<1>. QED
    BY <1>2, <1>3

-----------------------------------------------------------------------------
(* Theorems.                                                                *)

\* The types of the three components follow from their invariants.
LEMMA TypesFollow ==
    /\ CatalogInv => CatalogTypeOK
    /\ GroupingInv => GroupingTypeOK
    /\ DuplicatesInv => DuplicatesTypeOK
<1>1. ASSUME CatalogInv PROVE CatalogTypeOK
  <2>1. \A t \in TrackIds : row[t].path \in Paths \cup {"none"} /\ row[t].stamp \in Versions
    <3>1. NoRow.path = "none" /\ NoRow.stamp = 0 /\ 0 \in Versions
        BY CatalogConstantsAssumption DEF NoRow, Versions
    <3>. QED
        BY <1>1, <3>1 DEF CatalogInv, FileInv, FilesTyped, FileRows
  <2>2. /\ scan.at \in {"idle", "walk", "read", "missing", "done"}
        /\ reread.at \in {"idle", "stat", "read", "commit"} /\ apply.at \in {"idle", "commit"}
      BY <1>1 DEF CatalogInv, FileInv, ScanInv, ScanTyped, JobsTyped
  <2>. QED
      BY <1>1, <2>1, <2>2 DEF CatalogTypeOK, CatalogInv, FileInv, FilesTyped, Versions
<1>2. ASSUME GroupingInv PROVE GroupingTypeOK
  <2>1. \A c \in Cascades : reads[c] = NoReads \/ reads[c] \in Readings
    BY <1>2 DEF GroupingInv
  <2>2. \A c \in Cascades : reads[c].at \in {"idle", "tracks", "pins", "units"}
    BY <2>1 DEF NoReads, Readings
  <2>. QED
    BY <1>2, <2>2 DEF GroupingInv, GroupingTypeOK, Units
<1>3. ASSUME DuplicatesInv PROVE DuplicatesTypeOK
  <2>1. seen.at \in {"idle", "files", "groups"}
    BY <1>3 DEF DuplicatesInv, Unseen, Detections
  <2>. QED
    BY <1>3, <2>1 DEF DuplicatesInv, DuplicatesTypeOK, Groups, Matches
<1>. QED
    BY <1>1, <1>2, <1>3

\* Whatever is scanned, reread, applied, grouped or detected, in whatever order,
\* every variable keeps its type (pipeline/scan.py, pipeline/grouping.py,
\* pipeline/duplicates.py).
THEOREM LibraryTypeCorrect ==
    Spec /\ CatalogSpec /\ GroupingSpec /\ DuplicatesSpec => []TypesOK
<1>1. TypeOK /\ CatalogInv /\ GroupingInv /\ DuplicatesInv => TypesOK
    BY TypesFollow DEF TypesOK
<1>. QED
    BY <1>1, TypeCorrect, CatalogInvariance, GroupingInvariance, DuplicatesInvariance, PTL

\* scan_directory skips a file by size and mtime: a row that it will skip has the
\* tags of its file, save one over which a flush wrote that another session had
\* written or moved (pipeline/scan.py).
THEOREM SkipsWhatWasRead == CatalogSpec => []SkippedIsRead
<1>1. CatalogInv => SkippedIsRead
    BY SkippedWasRead
<1>. QED
    BY <1>1, CatalogInvariance, PTL

\* A scan during which nothing else moves ends with the catalog of its scope as
\* its files are, whatever the batches, the reads that fail and the rows it found
\* (pipeline/scan.py).
THEOREM CalmScansConverge == CatalogSpec => []ScanConverges
<1>1. CatalogInv => ScanConverges
    BY ScanHasConverged
<1>. QED
    BY <1>1, CatalogInvariance, PTL

\* detect_duplicates: between two detections, and after whatever was dismissed, the
\* groups that are offered have two tracks with a file, share none, and say their
\* doubt (pipeline/duplicates.py).
THEOREM OffersStayTrue == DuplicatesSpec => []OffersAreTrue
<1>1. DuplicatesInv => OffersAreTrue
    BY OffersFollow
<1>. QED
    BY <1>1, DuplicatesInvariance, PTL

\* What the catalog says is true of the files, and of the duplicates it offers.
THEOREM CatalogStaysTrue == CatalogSpec /\ DuplicatesSpec => []CatalogIsTrue
<1>1. CatalogInv /\ DuplicatesInv => CatalogIsTrue
    BY SkippedWasRead, ScanHasConverged, OffersFollow DEF CatalogIsTrue
<1>. QED
    BY <1>1, CatalogInvariance, DuplicatesInvariance, PTL

\* run_grouping_cascade: no order of cascades, edits and corrections takes a track from
\* a unit that a cascade has read as confirmed, nor takes a pin away, nor does the import
\* of a directory reach outside it, for any number of cascades that run at a time and any
\* commit between their reads and their writes (pipeline/grouping.py).
THEOREM PinsStay == GroupingSpec => [][KeepsPins /\ KeepsScope]_groupingVars
<1>1. GroupingInv /\ [GroupingNext]_groupingVars => [KeepsPins /\ KeepsScope]_groupingVars
    BY PinsKept, ScopeKept
<1>. QED
    BY <1>1, GroupingInvariance, PTL DEF GroupingSpec

\* What the user confirmed or dismissed stays, in the units and in the duplicates, when it
\* was so as the cascade or the detection read it (pipeline/grouping.py,
\* pipeline/duplicates.py).
THEOREM DecisionsKept == GroupingSpec /\ DuplicatesSpec => DecisionsStay
<1>1. /\ GroupingInv /\ [GroupingNext]_groupingVars
      /\ DuplicatesInv /\ [DuplicatesNext]_duplicatesVars
      => [KeepsPins /\ KeepsScope /\ KeepsDismissals]_<<groupingVars, duplicatesVars>>
    BY PinsKept, ScopeKept, DismissalsKept
<1>. QED
    BY <1>1, GroupingInvariance, DuplicatesInvariance, PTL
    DEF GroupingSpec, DuplicatesSpec, DecisionsStay

=============================================================================
