------------------------------- MODULE Gateway -------------------------------
(***************************************************************************)
(* The cached calls to a provider (providers/cache.py, cached_get_release   *)
(* and its four siblings): a fresh row answers at once, an offline process  *)
(* only reads rows, an answer is cached, a failure falls back to a stale    *)
(* row.  One question is asked of each operation, by several callers.       *)
(*                                                                         *)
(* A cached payload holds a value, an empty answer, or something the        *)
(* decoder of the operation refuses.                                        *)
(***************************************************************************)
EXTENDS Naturals

CONSTANTS Callers

VARIABLES
    cached,   \* the provider_cache row of each operation
    calling,  \* what each caller does
    detached

gateway == <<cached, calling, detached>>

\* What distinguishes the five calls: whether an empty answer is put in the cache, and
\* whether an empty payload read from it is an answer.
GetRelease == [keeps |-> FALSE, reads |-> FALSE]
GetTrack   == [keeps |-> FALSE, reads |-> FALSE]
GetArt     == [keeps |-> TRUE,  reads |-> TRUE]
GetLyrics  == [keeps |-> TRUE,  reads |-> FALSE]
Lookup     == [keeps |-> TRUE,  reads |-> TRUE]

Ops == {"get_release", "get_track", "get_art", "get_lyrics", "fingerprint_lookup"}

Empty(op) ==
    CASE op = "get_release" -> GetRelease
      [] op = "get_track"   -> GetTrack
      [] op = "get_art"     -> GetArt
      [] op = "get_lyrics"  -> GetLyrics
      [] OTHER              -> Lookup

NoEntry == [age |-> "absent", payload |-> "none"]
NoQuestion == [op |-> "none", step |-> "idle", refresh |-> FALSE, got |-> "none", said |-> "none"]

Decodes(op, payload) == payload = "value" \/ (payload = "empty" /\ Empty(op).reads)

FreshEntry(op) == cached[op].age = "fresh" /\ Decodes(op, cached[op].payload)
UsableEntry(op) == cached[op].age # "absent" /\ Decodes(op, cached[op].payload)

\* What an answer leaves in the cache.
Kept(op, payload) ==
    IF payload = "empty" /\ ~Empty(op).keeps THEN cached[op]
    ELSE [age |-> "fresh", payload |-> payload]

Returns(c, got, said) ==
    calling' = [calling EXCEPT ![c] = [@ EXCEPT !.step = "ended", !.got = got, !.said = said]]

-----------------------------------------------------------------------------

AskFor(c, op) ==
    /\ calling[c].step \in {"idle", "ended"}
    /\ \E refresh \in BOOLEAN :
           calling' = [calling EXCEPT ![c] =
                          [NoQuestion EXCEPT !.op = op, !.step = "asked", !.refresh = refresh]]
    /\ UNCHANGED <<cached, detached>>

FromCache(c) ==
    /\ calling[c].step = "asked"
    /\ ~calling[c].refresh /\ ~detached /\ FreshEntry(calling[c].op)
    /\ Returns(c, cached[calling[c].op].payload, "unasked")
    /\ UNCHANGED <<cached, detached>>

Offline(c) ==
    /\ calling[c].step = "asked" /\ detached
    /\ Returns(c, IF UsableEntry(calling[c].op) THEN cached[calling[c].op].payload ELSE "empty",
                  "offline")
    /\ UNCHANGED <<cached, detached>>

ToNetwork(c) ==
    /\ calling[c].step = "asked" /\ ~detached
    /\ calling[c].refresh \/ ~FreshEntry(calling[c].op)
    /\ calling' = [calling EXCEPT ![c].step = "waiting"]
    /\ UNCHANGED <<cached, detached>>

NetworkAnswers(c) ==
    /\ calling[c].step = "waiting"
    /\ \E payload \in {"value", "empty"} :
           /\ cached' = [cached EXCEPT ![calling[c].op] = Kept(calling[c].op, payload)]
           /\ Returns(c, payload, "answered")
    /\ UNCHANGED detached

Fails(c) ==
    /\ calling[c].step = "waiting"
    /\ Returns(c, IF UsableEntry(calling[c].op) THEN cached[calling[c].op].payload ELSE "error",
                  "failed")
    /\ UNCHANGED <<cached, detached>>

\* Time passes; the retention sweep deletes rows past their grace.
Age(op) ==
    /\ cached[op].age # "absent"
    /\ cached' = [cached EXCEPT ![op] =
                      IF @.age = "fresh" THEN [@ EXCEPT !.age = "stale"] ELSE NoEntry]
    /\ UNCHANGED <<calling, detached>>

GatewayInit ==
    /\ cached \in [Ops -> {NoEntry, [age |-> "stale", payload |-> "broken"]}]
    /\ \A op \in Ops \ {"get_release", "get_track"} : cached[op] = NoEntry
    /\ calling = [c \in Callers |-> NoQuestion]
    /\ detached \in BOOLEAN

GatewayNext ==
    \/ \E c \in Callers :
           \/ \E op \in Ops : AskFor(c, op)
           \/ FromCache(c) \/ Offline(c) \/ ToNetwork(c) \/ NetworkAnswers(c) \/ Fails(c)
    \/ \E op \in Ops : Age(op)

GatewaySpec == GatewayInit /\ [][GatewayNext]_gateway

-----------------------------------------------------------------------------

GatewayTypeOK ==
    /\ cached \in [Ops -> [age : {"absent", "fresh", "stale"},
                           payload : {"none", "value", "empty", "broken"}]]
    /\ calling \in [Callers -> [op : Ops \cup {"none"},
                               step : {"idle", "asked", "waiting", "ended"},
                               refresh : BOOLEAN, got : {"none", "value", "empty", "error"},
                               said : {"none", "unasked", "offline", "answered", "failed"}]]

Collapsed(ops) ==
    {c \in Callers : /\ calling[c].op \in ops
                     /\ calling[c].said = "failed" /\ calling[c].got = "empty"}

\* A failed provider is not reported as one that has nothing, for a release, a track
\* or lyrics: an old answer may stand in for it, an old absence may not.
FailureIsNotAbsence == Collapsed({"get_release", "get_track", "get_lyrics"}) = {}

\* The same of covers and fingerprints (docs/product-spec.md:141-143).
FailureIsNeverAbsence == Collapsed(Ops) = {}
=============================================================================
