------------------------------- MODULE Matching -------------------------------
(***************************************************************************)
(* How hydrated candidates are judged and what a chosen one writes         *)
(* (matching/distance.py, track_align.py, candidates.py: rank_candidates,  *)
(* engine.py; pipeline/matching.py).  A candidate gets a distance from the *)
(* fields known on both sides, corroboration by other providers brings it  *)
(* closer, the provider order breaks near ties, the rest is rejected.  The *)
(* rows that are not rejected become the proposal; the edits of the chosen *)
(* row pair its tracks with the files once more.                           *)
(*                                                                         *)
(* Distances are in thousandths.  Two texts are equal or have nothing in   *)
(* common; scipy's assignment is its specification: a pairing of least     *)
(* cost, the same one for the same matrix.                                 *)
(***************************************************************************)
EXTENDS Integers, Sequences, FiniteSets, FiniteSetsExt, Orders

CONSTANTS
    Priority,       \* matching.provider_order
    TrackWeights,   \* matching.track_weights, as configured
    Gap,            \* matching.min_gap
    Penalty,        \* matching.source_penalty
    Strong,         \* the strong threshold by kind, "album" and "singleton"
    Reject,         \* the reject threshold
    Albums,         \* what is asked: local albums with their candidates
    Singletons,     \* what is asked: local tracks with their candidates
    SearchPage,       \* ManualSearchQuery.page_size
    Unknown         \* a field without data

Fields == {"title", "length"}
DefaultTrackWeights  == [title |-> 30, length |-> 20, index |-> 10]
AlbumWeights == [album |-> 30, year |-> 5, barcode |-> 20, tracks |-> 20,
                 missing |-> 9, unmatched |-> 6]
SingletonWeights == [title |-> 30, length |-> 25, isrc |-> 40]
Bonus == 50         \* CORROBORATION_BONUS_PER_SOURCE
Missing == 850      \* MISSING_COST
Sequential == 150   \* SEQUENTIAL_PRIOR_WEIGHT

\* MatchingConfig._validate_thresholds and _validate_weights; a candidate, like an album,
\* has a year or none, and what is asked comes with its files and candidates in an order.
IsSequence(s) == s \in Seq({s[i] : i \in DOMAIN s})
HasYear(x)    == x.year = Unknown \/ x.year \in Int

ASSUME MatchingConstantsAssumption ==
    /\ \A k \in {"album", "singleton"} :
           /\ Strong[k] \in Int /\ Reject \in Int /\ 0 <= Strong[k] /\ Strong[k] < Reject
    /\ {Gap, Penalty} \subseteq 0..1000
    /\ SearchPage \in Nat \ {0}
    /\ \A f \in DOMAIN DefaultTrackWeights : TrackWeights[f] \in Nat
    /\ IsSequence(Priority)
    /\ \A a \in Albums \cup Singletons :
           /\ IsSequence(a.files) /\ IsSequence(a.candidates)
           /\ \A i \in DOMAIN a.candidates :
                  IsSequence(a.candidates[i].tracks) /\ HasYear(a.candidates[i])
    /\ \A a \in Albums : HasYear(a)

VARIABLES
    asked,     \* the local side and its candidates
    ranked,    \* what rank_candidates returned, as positions of candidates
    decision,  \* MatchDecision of the first row
    rows,      \* the proposal: the rows a user may choose from
    edits      \* the chosen row, and the track of its release each file gets

matchingVars == <<asked, ranked, decision, rows, edits>>

Clamp(d) == IF d < 0 THEN 0 ELSE IF d > 1000 THEN 1000 ELSE d
Abs(n)   == IF n < 0 THEN -n ELSE n

\* Sum of what F gives the members of S.
Total(F, S) == MapThenSumSet(LAMBDA t : F[t], S)

-----------------------------------------------------------------------------
(* Distances.                                                               *)

\* weighted_distance: fields without a signal weigh nothing; none is no match.
Weighted(distances, weights) ==
    LET used  == {f \in DOMAIN distances : weights[f] > 0}
        total == Total(weights, used)
    IN  IF total = 0 THEN 1000
        ELSE Total([f \in used |-> weights[f] * distances[f]], used) \div total

BothKnown(x, y)      == x # Unknown /\ y # Unknown
Difference(x, y) == IF x = y THEN 0 ELSE 1000

YearDistance(x, y) == Clamp(Abs(x - y) * 500)

\* track_pair_distance.
PairDistance(file, track, weights) ==
    LET known == {f \in Fields : BothKnown(file[f], track[f])}
    IN  Weighted([f \in known \union {"index"} |->
                     IF f = "index" THEN 0 ELSE Difference(file[f], track[f])], weights)

Larger(m, n) == IF m > n THEN m ELSE n

\* One entry of the matrix of _align_flat.
Cost(files, tracks, weights, i, j) ==
    Clamp(PairDistance(files[i], tracks[j], weights)
             + (Sequential * Abs(i - j)) \div Larger(Len(files), Len(tracks)))

\* A pairing gives each file a track or none, 0; as many pairs as fit.
Pairings(n, m) ==
    {a \in [1..n -> 0..m] :
        /\ \A i, j \in 1..n : i # j /\ a[i] # 0 => a[i] # a[j]
        /\ Cardinality({i \in 1..n : a[i] # 0}) = (IF n < m THEN n ELSE m)}

\* What a pairing costs.
Price(files, tracks, weights, a) ==
    Total([i \in DOMAIN a |-> IF a[i] = 0 THEN Missing
                              ELSE Cost(files, tracks, weights, i, a[i])], DOMAIN a)

\* align_tracks: a pairing of least cost.
Aligned(files, tracks, weights) ==
    LET all   == Pairings(Len(files), Len(tracks))
        least == Min({Price(files, tracks, weights, a) : a \in all})
    IN  CHOOSE a \in all : Price(files, tracks, weights, a) = least

\* _album_candidate_score.
AlbumScore(local, c) ==
    LET a       == Aligned(local.files, c.tracks, TrackWeights)
        n       == Len(local.files)
        m       == Len(c.tracks)
        matched == {i \in 1..n : a[i] # 0}
        cost    == [i \in matched |-> Cost(local.files, c.tracks, TrackWeights, i, a[i])]
        known   == {f \in {"album", "year", "barcode"} : BothKnown(local[f], c[f])}
        field(f) == CASE f = "year" -> YearDistance(local.year, c.year)
                      [] f = "tracks" -> IF matched = {} THEN 1000
                                         ELSE Total(cost, matched) \div Cardinality(matched)
                      [] f = "missing" -> (1000 * (m - Cardinality(matched))) \div Larger(m, 1)
                      [] f = "unmatched" -> (1000 * (n - Cardinality(matched))) \div Larger(n, 1)
                      [] OTHER -> Difference(local[f], c[f])
    IN  [distance |-> Weighted([f \in known \union {"tracks", "missing", "unmatched"} |-> field(f)],
                               AlbumWeights),
         related  |-> \/ BothKnown(local.album, c.album) /\ local.album = c.album
                      \/ \E i \in matched : cost[i] < 450]

\* The track of a release nearest to a file, the first of equals, 0 without any.
Nearest(file, tracks, weights) ==
    IF tracks = <<>> THEN 0
    ELSE CHOOSE j \in DOMAIN tracks : \A k \in DOMAIN tracks :
             \/ PairDistance(file, tracks[j], weights) < PairDistance(file, tracks[k], weights)
             \/ /\ PairDistance(file, tracks[j], weights) = PairDistance(file, tracks[k], weights)
                /\ j <= k

\* _track_to_match_meta: the file name speaks where the tags are silent.
Evidence(file) == [file EXCEPT !.title = IF @ = Unknown THEN file.name ELSE @]

\* _singleton_candidate_score.
SingletonScore(local, c) ==
    LET file  == Evidence(local.files[1])
        best  == Nearest(file, c.tracks, TrackWeights)
        track == IF best = 0 THEN [title |-> c.album, length |-> Unknown, isrc |-> Unknown]
                 ELSE c.tracks[best]
        known == {f \in Fields \union {"isrc"} : BothKnown(file[f], track[f])}
        field == [f \in known |-> Difference(file[f], track[f])]
    IN  [distance |-> Weighted(field, SingletonWeights),
         related  |-> \E f \in known \ {"length"} : field[f] = 0]

-----------------------------------------------------------------------------
(* Ranking.                                                                 *)

\* _is_duplicate_pair: two providers describe the same release.
Duplicate(c, d) ==
    /\ c.source # d.source
    /\ \/ BothKnown(c.barcode, d.barcode) /\ c.barcode = d.barcode
       \/ /\ Len(c.tracks) = Len(d.tracks) /\ c.tracks # <<>>
          /\ (BothKnown(c.year, d.year) => Abs(c.year - d.year) <= 1)
          /\ c.album = d.album

Rank(source) ==
    IF \E p \in DOMAIN Priority : Priority[p] = source
    THEN (CHOOSE p \in DOMAIN Priority : Priority[p] = source) - 1 ELSE 0

\* Stable sort of the indices of s by a key; keys are compared left to right.
Less(k, l) == \E p \in DOMAIN k : k[p] < l[p] /\ \A q \in 1..p - 1 : k[q] = l[q]
Sorted(n, key) ==
    Arrange(1..n, {p \in (1..n) \X (1..n) : \/ Less(key[p[1]], key[p[2]])
                                            \/ key[p[1]] = key[p[2]] /\ p[1] < p[2]})

Place(order, i) == CHOOSE p \in DOMAIN order : order[p] = i

\* The rows in a new order; what they name as duplicates moves with them.
Reordered(s, order) ==
    [p \in DOMAIN order |->
        [s[order[p]] EXCEPT !.dups = {Place(order, j) : j \in @}]]

\* Mutant: the provider order counts whatever the distance.
ZoneOfAll(qualities, best) == DOMAIN qualities

Zone(qualities, best) == {i \in DOMAIN qualities : qualities[i] - best <= Gap}

\* rank_candidates.  Preference moves a candidate only inside the zone.
RankCandidates(cands, score) ==
    LET n        == Len(cands)
        dups(i)  == {j \in 1..n : j # i /\ Duplicate(cands[i], cands[j])}
        quality  == [i \in 1..n |-> Clamp(score[i].distance
                        - Bonus * Cardinality({cands[j].source : j \in dups(i)}))]
        zone     == IF n = 0 THEN {} ELSE Zone(quality, Min({quality[i] : i \in 1..n}))
        taste(i) == IF i \in zone THEN Penalty * Rank(cands[i].source) ELSE 0
        row(i)   == [of |-> i, quality |-> quality[i], taste |-> taste(i), dups |-> dups(i),
                     rejected |-> ~score[i].related \/ quality[i] >= Reject]
        key      == [i \in 1..n |-> IF i \in zone THEN <<0, Clamp(quality[i] + taste(i))>>
                                    ELSE <<1, quality[i]>>]
    IN  Reordered([i \in 1..n |-> row(i)], Sorted(n, key))

\* propose_for_singleton: of equals, the earliest release comes first.
Earliest(s, cands) ==
    LET n    == Len(s)
        best == Min({s[p].quality : p \in 1..n})
        year(p) == cands[s[p].of].year
        key  == [p \in 1..n |->
                    LET near == s[p].quality - best <= Gap
                    IN  << IF near THEN 0 ELSE 1,
                           IF near THEN Clamp(s[p].quality + s[p].taste) ELSE s[p].quality,
                           IF s[p].quality <= best + 20 /\ year(p) # Unknown
                           THEN year(p) ELSE 9999 >>]
    IN  IF n = 0 THEN s ELSE Reordered(s, Sorted(n, key))

Selectable(s) == {p \in DOMAIN s : ~s[p].rejected}

Band(quality, strong) ==
    IF quality >= Reject THEN "reject" ELSE IF quality < strong THEN "strong" ELSE "ambiguous"

\* _decision_for_ranked: of the first two rows that are not rejected, the gap
\* decides between a strong match and an ambiguous one.
DecisionFor(s, strong) ==
    LET open   == Selectable(s)
        first  == Min(open)
        second == Min(open \ {first})
    IN  IF open = {} THEN "reject"
        ELSE IF /\ Gap > 0
                /\ open # {first}
                /\ Abs(s[second].quality - s[first].quality) <= Gap THEN "ambiguous"
        ELSE Band(s[first].quality, strong)

-----------------------------------------------------------------------------

MatchingInit ==
    /\ \/ asked \in [kind : {"album"}, is : Albums]
       \/ asked \in [kind : {"singleton"}, is : Singletons]
    /\ ranked = Unknown
    /\ decision = "none"
    /\ rows = <<>>
    /\ edits = Unknown

\* score_group_candidates.
MatchAlbum ==
    /\ ranked = Unknown
    /\ asked.kind = "album"
    /\ LET cands == asked.is.candidates
           s == RankCandidates(cands, [i \in DOMAIN cands |-> AlbumScore(asked.is, cands[i])])
       IN  ranked' = s /\ decision' = DecisionFor(s, Strong["album"])
    /\ UNCHANGED <<asked, rows, edits>>

\* score_track_candidates.
MatchSingleton ==
    /\ ranked = Unknown
    /\ asked.kind = "singleton"
    /\ LET cands == asked.is.candidates
           s == Earliest(RankCandidates(cands,
                    [i \in DOMAIN cands |-> SingletonScore(asked.is, cands[i])]), cands)
       IN  ranked' = s /\ decision' = DecisionFor(s, Strong["singleton"])
    /\ UNCHANGED <<asked, rows, edits>>

\* The rows that are not rejected, in their order.
Offered ==
    LET n == Len(ranked)
        order == Arrange(Selectable(ranked), {p \in (1..n) \X (1..n) : p[1] < p[2]})
    IN  [p \in DOMAIN order |-> ranked[order[p]]]

Page(s, page) ==
    LET start   == page * SearchPage
        visible == SubSeq(s, start + 1, Min({start + SearchPage, Len(s)}))
    IN  [p \in DOMAIN visible |->
            [visible[p] EXCEPT
                !.dups = {j - start : j \in @ \cap (start + 1 .. start + Len(visible))}]]

\* search_group_candidates, search_track_candidates: rejected rows are left out.
Propose ==
    /\ ranked # Unknown
    /\ rows = <<>>
    /\ Selectable(ranked) # {}
    /\ rows' = Offered
    /\ UNCHANGED <<asked, ranked, decision, edits>>

\* services/manual_search.search: one page of them, whose hints stay on the page.
ShowPage(page) ==
    /\ ranked # Unknown
    /\ rows = <<>>
    /\ Page(Offered, page) # <<>>
    /\ rows' = Page(Offered, page)
    /\ UNCHANGED <<asked, ranked, decision, edits>>

\* candidate_edits_for_group and candidate_edits_for_track: the tags of the
\* files and the default weights, whatever the ranking used.
Written(files, tracks) ==
    IF asked.kind = "album" THEN Aligned(files, tracks, DefaultTrackWeights)
    ELSE <<Nearest(files[1], tracks, DefaultTrackWeights)>>

\* The first row of a strong match, or the row a user takes.
Take(p) ==
    /\ edits = Unknown
    /\ edits' = [row |-> p, gives |-> Written(asked.is.files,
                                              asked.is.candidates[rows[p].of].tracks)]
    /\ UNCHANGED <<asked, ranked, decision, rows>>

MatchingNext ==
    \/ MatchAlbum
    \/ MatchSingleton
    \/ Propose
    \/ \E page \in 0..1 : ShowPage(page)
    \/ \E p \in DOMAIN rows : Take(p)

MatchingSpec == MatchingInit /\ [][MatchingNext]_matchingVars

-----------------------------------------------------------------------------

MatchingTypeOK ==
    /\ decision \in {"none", "strong", "ambiguous", "reject"}
    /\ ranked # Unknown => Len(ranked) = Len(asked.is.candidates)
    /\ Len(rows) <= Len(asked.is.candidates)

\* A match is strong only when nothing else the user could choose is as near:
\* _decision_for_ranked reads two rows, and a preferred provider or an early
\* release may have moved a nearer candidate behind them.  Without a gap nothing
\* is compared, and two equal rows are a strong match.
StrongIsAlone ==
    decision = "strong" /\ Gap > 0 =>
        \A p, q \in Selectable(ranked) :
            p = Min(Selectable(ranked)) /\ q # p => ranked[q].quality > ranked[p].quality + Gap

\* docs/product-spec.md:143: provider preference breaks ties, it cannot make a
\* clearly worse candidate come before a materially better one.
PreferenceBreaksTies ==
    ranked # Unknown =>
        \A p, q \in DOMAIN ranked : p < q => ranked[p].quality <= ranked[q].quality + Gap

\* matching/candidates.py:79: is_duplicate_of are indices into the list, and
\* symmetric: what a row of the proposal points at is its duplicate there.
HintsPointHome ==
    \A p \in DOMAIN rows : \A q \in rows[p].dups :
        q \in DOMAIN rows => Duplicate(asked.is.candidates[rows[p].of],
                                       asked.is.candidates[rows[q].of])

\* pipeline/matching.py:424: a singleton gets the track it was ranked by.
EditsFollowRanking ==
    edits # Unknown /\ asked.kind = "singleton" =>
        edits.gives[1] = Nearest(Evidence(asked.is.files[1]),
                                 asked.is.candidates[rows[edits.row].of].tracks, TrackWeights)
=============================================================================
