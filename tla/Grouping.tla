------------------------------ MODULE Grouping ------------------------------
(***************************************************************************)
(* Inference of albums (pipeline/grouping.py): the cascade of four stages  *)
(* over the whole catalog or one directory, the pins that a reviewed       *)
(* correction leaves.                                                      *)
(*                                                                         *)
(* A cascade reads the tracks, then the pins, then the fingerprints and    *)
(* the units, each without a transaction, and writes by id what differs    *)
(* from what it has read, in the one transaction its first flush opens.    *)
(* Other workers commit in between: corrections, scans, other cascades.    *)
(*                                                                         *)
(* What the stages compare of a track are its facts; confidence, labels    *)
(* and the other fields copied to a unit are left out.                     *)
(***************************************************************************)
EXTENDS Naturals, FiniteSets

CONSTANTS
    Tracks,      \* ids, as naturals: the order of the catalog
    Profiles,    \* what may be known of each track
    Releases,    \* release ids
    Near,        \* pairs of albums within _TAG_CLUSTER_THRESHOLD
    Directory,   \* the tracks of the directory that may be imported alone
    Cascades,    \* group jobs that may run at a time
    MaxEdits     \* bound: changes of the catalog

ASSUME GroupingConstantsAssumption ==
    /\ Tracks \subseteq Nat /\ IsFiniteSet(Tracks) /\ Directory \subseteq Tracks
    /\ \A t \in Tracks : \A q \in Profiles[t] :
           q \in [release : Releases \cup {"none"}, barcode : {q.barcode},
                  prints : SUBSET Releases, album : {q.album}, total : Nat, single : BOOLEAN]
    /\ MaxEdits \in Nat

VARIABLES
    profile,  \* of each track
    missing,  \* tracks without a file
    unit,     \* key of the work unit of each track
    group,    \* the work units by key
    reads,    \* what each cascade under way has read
    edits     \* changes of the catalog so far

groupingVars == <<profile, missing, unit, group, reads, edits>>

Ungrouped == <<"none", 0>>
NoGroup == [pinned |-> FALSE, count |-> 0, album |-> "none", kind |-> "none"]
NoReads == [at |-> "idle"]

Known  == UNION {Profiles[t] : t \in Tracks}
Albums == {q.album : q \in Known}
Keys ==
    ({"release", "fingerprint"} \X Releases) \cup ({"barcode"} \X {q.barcode : q \in Known})
        \cup ({"tags"} \X Albums) \cup ({"singleton", "manual"} \X Tracks)

Earliest(S) == CHOOSE t \in S : \A u \in S : t <= u

-----------------------------------------------------------------------------
(* The stages, of tracks T of which the facts q are known.                  *)

Bucket(q, T, field) ==
    {[key |-> <<field, v>>, members |-> {t \in T : q[t][field] = v}] :
        v \in {q[t][field] : t \in T} \ {"none"}}

\* Stage 1: the release id, and for tracks without one the barcode.  A bucket of
\* one track keeps it from the next identifier, but groups nothing.
Identified(q, T) ==
    Bucket(q, T, "release") \cup Bucket(q, {t \in T : q[t].release = "none"}, "barcode")

Strong(q, T) == {p \in Identified(q, T) : Cardinality(p.members) > 1}
Alone(q, T)  == UNION {p.members : p \in Identified(q, T) \ Strong(q, T)}
Left(q, T)   == T \ UNION {p.members : p \in Strong(q, T)}

\* Stage 2.
Fingerprinted(q, T) == {t \in T : q[t].prints # {}}
Voters(q, T, r)     == {t \in Fingerprinted(q, T) : r \in q[t].prints}
Threshold(q, T) ==
    LET n == Cardinality(Fingerprinted(q, T))
        t == IF n \div 2 > 3 THEN n \div 2 ELSE 3
    IN IF n > 0 /\ n < t THEN n ELSE t

Corroborated(q, T, available, r) ==
    /\ \/ Cardinality(available) >= Threshold(q, T) /\ Cardinality(available) >= 3
       \/ 2 * Cardinality(available) >= Cardinality(Voters(q, T, r))
    /\ Cardinality(available) >= 2

\* The releases in an order of their votes.
Orders(q, T) ==
    {o \in [Releases -> 1..Cardinality(Releases)] :
        \A r, s \in Releases :
            /\ o[r] = o[s] => r = s
            /\ o[r] < o[s] => Cardinality(Voters(q, T, r)) >= Cardinality(Voters(q, T, s))}

\* The most corroborated release claims its tracks first; what each one claims.
Claims(q, T, order) ==
    {c \in [Releases -> SUBSET T] :
        \A r \in Releases :
            LET claimed   == UNION {c[s] : s \in {s \in Releases : order[s] < order[r]}}
                available == Voters(q, T, r) \ claimed
            IN c[r] = IF Corroborated(q, T, available, r) THEN available ELSE {}}

Consensus(claim) ==
    {[key |-> <<"fingerprint", r>>, members |-> claim[r]] :
        r \in {r \in Releases : claim[r] # {}}}

\* Stage 3: a track joins the first cluster whose first track is near enough.  The
\* tracks that are alone with an identifier come last.
Close(q, t, u) == \/ q[t].album = q[u].album
                  \/ <<q[t].album, q[u].album>> \in Near

Precedes(t, u, last) ==
    \/ t \notin last /\ u \in last
    \/ (t \in last <=> u \in last) /\ t < u

\* The first track of the cluster each track is in.
Leaders(q, S, last) ==
    {lead \in [S -> S] :
        \A t \in S :
            LET near == {u \in S : lead[u] = u /\ Precedes(u, t, last) /\ Close(q, t, u)}
            IN IF near = {} THEN lead[t] = t
               ELSE lead[t] \in near /\ \A u \in near \ {lead[t]} : Precedes(lead[t], u, last)}

Cluster(lead, l) == {t \in DOMAIN lead : lead[t] = l}

Tagged(q, lead) ==
    {[key |-> <<"tags", q[l].album>>, members |-> Cluster(lead, l)] :
        l \in {l \in DOMAIN lead : Cardinality(Cluster(lead, l)) > 1}}

\* What the second stage leaves, of which singles are not clustered.
Rest(q, T, claim) == Left(q, T) \ UNION {claim[r] : r \in Releases}
Loose(q, S)       == {t \in S : ~q[t].single}

\* Stage 4, and all proposals together.
Proposals(q, T, claim, lead) ==
    LET grouped == Strong(q, T) \cup Consensus(claim) \cup Tagged(q, lead)
    IN grouped \cup {[key |-> <<"singleton", t>>, members |-> {t}] :
                         t \in Rest(q, T, claim) \ UNION {p.members : p \in Tagged(q, lead)}}

Kind(q, members) ==
    LET totals == {q[t].total : t \in members} \ {0} IN
    IF Cardinality(members) = 1 THEN "singleton"
    ELSE IF Cardinality(totals) = 1 /\ \E n \in totals : n > Cardinality(members)
         THEN "partial_album" ELSE "album"

-----------------------------------------------------------------------------
(* The cascade, of which m is what it has read.                             *)

ReadsTracks(c, S) ==
    /\ reads[c] = NoReads
    /\ reads' = [reads EXCEPT ![c] =
                    [at |-> "tracks", scope |-> S, facts |-> profile, unit |-> unit,
                     here |-> Tracks \ missing, pins |-> {}, stored |-> [k \in Keys |-> NoGroup]]]
    /\ UNCHANGED <<profile, missing, unit, group, edits>>

ReadsPins(c) ==
    /\ reads[c].at = "tracks"
    /\ reads' = [reads EXCEPT ![c].at = "pins", ![c].pins = {k \in Keys : group[k].pinned}]
    /\ UNCHANGED <<profile, missing, unit, group, edits>>

\* The tags are known since the tracks were read, the fingerprints are of now.
ReadsUnits(c) ==
    /\ reads[c].at = "pins"
    /\ reads' = [reads EXCEPT ![c].at = "units", ![c].stored = group,
                    ![c].facts = [t \in Tracks |-> [@[t] EXCEPT !.prints = profile[t].prints]]]
    /\ UNCHANGED <<profile, missing, unit, group, edits>>

\* A directory is grouped without the units that reach outside it.
Mixed(m) == {k \in Keys : \E t, u \in m.here : /\ m.unit[t] = k /\ m.unit[u] = k
                                               /\ t \in m.scope /\ u \notin m.scope}

Considered(m) == {t \in m.here \cap m.scope : m.unit[t] \notin Mixed(m)}

\* Mutant: a pinned unit is inferred again.
EligibleAll(m) == Considered(m)

Eligible(m) == {t \in Considered(m) : m.unit[t] \notin m.pins}

Proposed(m, p) ==
    [pinned |-> FALSE, count |-> Cardinality(p.members),
     album |-> m.facts[Earliest(p.members)].album, kind |-> Kind(m.facts, p.members)]

\* An update of a row writes the fields that differ from what was read.
Updated(now, loaded, new) ==
    [pinned |-> now.pinned,
     count |-> IF new.count = loaded.count THEN now.count ELSE new.count,
     album |-> IF new.album = loaded.album THEN now.album ELSE new.album,
     kind |-> IF new.kind = loaded.kind THEN now.kind ELSE new.kind]

\* Each proposal makes its unit, or writes over it, and takes the tracks that it has
\* not read to be there.
Writes(m, written) ==
    /\ unit' = [t \in Tracks |->
                   IF \E p \in written : t \in p.members /\ p.key # m.unit[t]
                   THEN (CHOOSE p \in written : t \in p.members).key ELSE unit[t]]
    /\ group' = [k \in Keys |->
                   IF \E p \in written : p.key = k
                   THEN Updated(group[k], m.stored[k], Proposed(m, CHOOSE p \in written : p.key = k))
                   ELSE group[k]]

\* A unit that another cascade made since is made again: the key is unique, the job
\* fails and its transaction is rolled back.
Made(m, written) == \E p \in written : m.stored[p.key] = NoGroup /\ group[p.key] # NoGroup

CascadeWrites(c) ==
    LET m == reads[c]
        q == m.facts
        T == Eligible(m)
    IN  /\ m.at = "units"
        /\ \E order \in Orders(q, Left(q, T)) : \E claim \in Claims(q, Left(q, T), order) :
           \E lead \in Leaders(q, Loose(q, Rest(q, T, claim)), Alone(q, T)) :
               LET written == {p \in Proposals(q, T, claim, lead) : ~m.stored[p.key].pinned}
               IN IF Made(m, written) THEN UNCHANGED <<unit, group>> ELSE Writes(m, written)
        /\ reads' = [reads EXCEPT ![c] = NoReads]
        /\ UNCHANGED <<profile, missing, edits>>

Cascade(c) ==
    \/ ReadsTracks(c, Tracks) \/ ReadsTracks(c, Directory) \/ ReadsPins(c) \/ ReadsUnits(c)
    \/ CascadeWrites(c)

-----------------------------------------------------------------------------
(* Reviewed corrections, as Apply makes them.                               *)

Recounted(g, u) ==
    [k \in Keys |-> IF g[k] = NoGroup THEN NoGroup
                    ELSE [g[k] EXCEPT !.count = Cardinality({t \in Tracks : u[t] = k})]]

Corrects(t, k, g) ==
    /\ unit' = [unit EXCEPT ![t] = k]
    /\ group' = Recounted(g, unit')
    /\ UNCHANGED <<profile, missing, reads, edits>>

Correctable(t) == unit[t][1] = "tags" /\ ~group[unit[t]].pinned

Confirm(t) ==
    /\ Correctable(t)
    /\ Corrects(t, unit[t], [group EXCEPT ![unit[t]].pinned = TRUE])

Single == [pinned |-> TRUE, count |-> 0, album |-> "none", kind |-> "singleton"]

TreatAsSingleton(t) ==
    /\ Correctable(t)
    /\ LET k == <<"manual", t>> IN
       Corrects(t, k, [group EXCEPT ![k] = Single])

MoveToCollection(t) ==
    /\ Correctable(t)
    /\ \E k \in Keys \ {unit[t]} :
           /\ group[k].count > 0 /\ group[k].album = profile[t].album /\ group[k].album # "none"
           /\ Corrects(t, k, [group EXCEPT ![k].pinned = TRUE])

-----------------------------------------------------------------------------
(* The catalog changes: tags, fingerprints, files.                          *)

Edit == edits < MaxEdits /\ edits' = edits + 1

Retag(t) ==
    /\ Edit
    /\ \E q \in Profiles[t] : profile' = [profile EXCEPT ![t] = q]
    /\ UNCHANGED <<missing, unit, group, reads>>

Vanish(t) ==
    /\ Edit
    /\ missing' = IF t \in missing THEN missing \ {t} ELSE missing \cup {t}
    /\ UNCHANGED <<profile, unit, group, reads>>

-----------------------------------------------------------------------------

GroupingInit ==
    /\ profile \in {f \in [Tracks -> Known] : \A t \in Tracks : f[t] \in Profiles[t]}
    /\ missing = {}
    /\ unit = [t \in Tracks |-> Ungrouped]
    /\ group = [k \in Keys |-> NoGroup]
    /\ reads = [c \in Cascades |-> NoReads]
    /\ edits = 0

GroupingNext ==
    \/ \E c \in Cascades : Cascade(c)
    \/ \E t \in Tracks :
           Confirm(t) \/ TreatAsSingleton(t) \/ MoveToCollection(t) \/ Retag(t) \/ Vanish(t)

GroupingSpec == GroupingInit /\ [][GroupingNext]_groupingVars

-----------------------------------------------------------------------------
(* Properties.                                                              *)

GroupingTypeOK ==
    /\ profile \in {f \in [Tracks -> Known] : \A t \in Tracks : f[t] \in Profiles[t]}
    /\ missing \subseteq Tracks
    /\ unit \in [Tracks -> Keys \cup {Ungrouped}]
    /\ \A k \in Keys : group[k].pinned \in BOOLEAN /\ group[k].count \in 0..Cardinality(Tracks)
    /\ \A c \in Cascades : reads[c].at \in {"idle", "tracks", "pins", "units"}

\* A cascade that ends here writes over what was confirmed since it read: the pins, or
\* the unit of the track.
Missed(t) ==
    \E c \in Cascades : /\ reads[c] # NoReads /\ reads'[c] = NoReads
                        /\ unit[t] \notin reads[c].pins \/ unit[t] # reads[c].unit[t]

\* What was confirmed is confirmed for good.  A track never leaves a unit that a user
\* confirmed, and what was confirmed is not described anew, however its tags, the other
\* tracks and the scopes of later imports change; but for a cascade that was under way
\* when it was confirmed.
KeepsPins ==
    /\ \A k \in Keys : group[k].pinned => group'[k].pinned
    /\ \A t \in Tracks :
           unit[t] # Ungrouped /\ group[unit[t]].pinned /\ ~Missed(t) =>
               unit'[t] = unit[t] /\ group'[unit[t]].album = group[unit[t]].album

\* The import of a directory moves no track outside it, and no track of a unit that
\* it has read to reach outside it.
KeepsScope ==
    \A c \in Cascades :
        reads[c] # NoReads /\ reads'[c] = NoReads =>
            \A t \in Tracks : unit'[t] # unit[t] =>
                t \in reads[c].scope /\ reads[c].unit[t] \notin Mixed(reads[c])
=============================================================================
