----------------------------- MODULE Duplicates -----------------------------
(***************************************************************************)
(* Duplicate detection (pipeline/duplicates.py): tracks whose best AcoustID *)
(* match is one recording form a group with evidence; a detection           *)
(* reconciles every group that exists; a user dismisses a group.            *)
(*                                                                         *)
(* A detection reads the tracks, then the matches and the groups, without a *)
(* transaction, and writes all in its one flush at the end; fingerprints,   *)
(* scans and the user come in between.  One detection runs at a time.       *)
(*                                                                         *)
(* Scores and durations are percentages of a nominal value; the quality     *)
(* facts of the evidence are left out.                                      *)
(***************************************************************************)
EXTENDS Integers, FiniteSetsExt

CONSTANTS
    FileIds,     \* ids of tracks
    Recordings,
    Scores,      \* scores of a best match
    Length,      \* duration of each track, 0 when unknown
    Losable      \* tracks that may lose their file

ASSUME DuplicatesConstantsAssumption ==
    /\ IsFiniteSet(FileIds) /\ Length \in [FileIds -> Nat]
    /\ Scores \subseteq 0..100 /\ "none" \notin Recordings

VARIABLES
    best,   \* of each track: recording and score of its best match
    gone,   \* tracks without a file
    dup,    \* the group of each recording
    seen,   \* what the detection that runs has read
    fresh   \* no fingerprint and no file changed since a detection began

duplicatesVars == <<best, gone, dup, seen, fresh>>

NoDup == [members |-> {}, dismissed |-> FALSE, confidence |-> 0, doubt |-> FALSE]
NoMatch == [recording |-> "none", score |-> 0]
Unseen == [at |-> "idle"]

\* Of what m is read.
Sharing(m, r) == {t \in m.here : m.best[t].recording = r}

\* Sum of what F gives the tracks of S.
Total(F, S) == MapThenSumSet(LAMBDA t : F[t], S)

\* Spread of the known durations, in percent of their mean; -1 when none is known.
Spread(S) ==
    LET known == {t \in S : Length[t] > 0}
        L     == {Length[t] : t \in known}
    IN IF known = {} THEN -1
       ELSE ((Max(L) - Min(L)) * 100 * Cardinality(known)) \div Total(Length, known)

Factor(delta) ==
    CASE delta < 0 -> 80
      [] delta \in 0..5 -> 100
      [] delta \in 6..10 -> 80
      [] delta \in 11..20 -> 50
      [] delta > 20 -> 30

Score(m) == [t \in FileIds |-> m.best[t].score]

\* Mutant: the sum of the scores is taken for their mean.
ConfidenceSummed(m, S) == (Total(Score(m), S) * Factor(Spread(S))) \div 100

Confidence(m, S) ==
    (Total(Score(m), S) * Factor(Spread(S))) \div (100 * Cardinality(S))

Label(confidence) ==
    IF confidence >= 75 THEN "alta" ELSE IF confidence >= 50 THEN "media" ELSE "bassa"

Evidence(m, S) ==
    [members |-> S, dismissed |-> FALSE, confidence |-> Confidence(m, S),
     doubt |-> Confidence(m, S) < 50 \/ Spread(S) > 10]

ReadsFiles ==
    /\ seen = Unseen
    /\ seen' = [at |-> "files", here |-> FileIds \ gone, best |-> best, stored |-> dup]
    /\ fresh' = TRUE
    /\ UNCHANGED <<best, gone, dup>>

ReadsGroups ==
    /\ seen.at = "files"
    /\ seen' = [seen EXCEPT !.at = "groups", !.best = best, !.stored = dup]
    /\ UNCHANGED <<best, gone, dup, fresh>>

\* A group read as dismissed is left; another is deleted, or its row gets the evidence and
\* the members and keeps its mark.
Reconciled(m, r) ==
    IF m.stored[r].dismissed THEN dup[r]
    ELSE IF Cardinality(Sharing(m, r)) < 2 THEN NoDup
    ELSE [Evidence(m, Sharing(m, r)) EXCEPT !.dismissed = dup[r].dismissed]

DetectDuplicates ==
    /\ seen.at = "groups"
    /\ dup' = [r \in Recordings |-> Reconciled(seen, r)]
    /\ seen' = Unseen
    /\ UNCHANGED <<best, gone, fresh>>

Dismiss(r) ==
    /\ dup[r] # NoDup /\ ~dup[r].dismissed
    /\ dup' = [dup EXCEPT ![r].dismissed = TRUE]
    /\ UNCHANGED <<best, gone, seen, fresh>>

Fingerprint(t) ==
    /\ \E r \in Recordings, s \in Scores :
           best' = [best EXCEPT ![t] = [recording |-> r, score |-> s]]
    /\ fresh' = FALSE
    /\ UNCHANGED <<gone, dup, seen>>

Rescan(t) ==
    /\ best' = [best EXCEPT ![t] = NoMatch]
    /\ gone' \in {gone \ {t}, gone \cup ({t} \cap Losable)}
    /\ fresh' = FALSE
    /\ UNCHANGED <<dup, seen>>

DuplicatesInit ==
    /\ best = [t \in FileIds |-> NoMatch] /\ gone = {}
    /\ dup = [r \in Recordings |-> NoDup]
    /\ seen = Unseen /\ fresh = FALSE

DuplicatesNext ==
    \/ ReadsFiles \/ ReadsGroups \/ DetectDuplicates
    \/ \E r \in Recordings : Dismiss(r)
    \/ \E t \in FileIds : Fingerprint(t) \/ Rescan(t)

DuplicatesSpec == DuplicatesInit /\ [][DuplicatesNext]_duplicatesVars

-----------------------------------------------------------------------------
(* Properties.                                                              *)

DuplicatesTypeOK ==
    /\ \A t \in FileIds : best[t].recording \in Recordings \cup {"none"}
    /\ gone \subseteq FileIds /\ seen.at \in {"idle", "files", "groups"}
    /\ \A r \in Recordings : dup[r].members \subseteq FileIds /\ dup[r].confidence \in 0..100

\* The groups offered to the user do not overlap, whatever fingerprints changed
\* between two detections and whatever was dismissed; they show tracks with a file,
\* and no doubt is left out.  Nothing is said while a detection runs, or when a
\* fingerprint or a file changed since it began.
OffersAreTrue ==
    fresh /\ seen = Unseen =>
        \A r \in Recordings :
            dup[r] # NoDup /\ ~dup[r].dismissed =>
                /\ Cardinality(dup[r].members) >= 2 /\ dup[r].members \cap gone = {}
                /\ \A q \in Recordings \ {r} :
                       ~dup[q].dismissed => dup[q].members \cap dup[r].members = {}
                /\ Label(dup[r].confidence) = "bassa" => dup[r].doubt

\* A dismissal is not undone by a later detection, nor are its tracks offered again as
\* duplicates by that recording.  A detection that had read the group before it was
\* dismissed does not offer it again either; it may change it or delete it.
KeepsDismissals ==
    \A r \in Recordings : dup[r].dismissed =>
        \/ dup'[r] = dup[r]
        \/ /\ seen.at = "groups" /\ seen' = Unseen /\ ~seen.stored[r].dismissed
           /\ dup'[r] = NoDup \/ dup'[r].dismissed
=============================================================================
