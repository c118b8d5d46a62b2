------------------------------ MODULE Catalog ------------------------------
(***************************************************************************)
(* The catalog of the files of the library (pipeline/scan.py and its job   *)
(* handlers): a scan walks a directory while files change, jobs reread one *)
(* track, and Apply moves and rewrites files of its own.                   *)
(*                                                                         *)
(* A version of a file stands for its tags and its audio.  Size and mtime  *)
(* differ between versions: a tool that restores both is not seen by any   *)
(* scan, and is left out.  A read may fail at any time (TagReadError).     *)
(***************************************************************************)
EXTENDS Naturals, FiniteSets

CONSTANTS
    Paths,       \* audio files the walk may meet
    TrackIds,    \* ids of rows, 1..n
    Batch,       \* _BATCH_SIZE
    MaxVersion   \* bound: versions of files

ASSUME CatalogConstantsAssumption ==
    /\ "none" \notin Paths /\ TrackIds \subseteq Nat \ {0}
    /\ Batch \in Nat /\ MaxVersion \in Nat \ {0}

VARIABLES
    file,     \* the version at each path, 0 where there is no file
    version,  \* the last version made
    row,      \* the row of each track, as committed
    scan,     \* the scan job, and what it holds in memory
    reread,   \* the rescan_track job
    apply,    \* a file operation of Apply, between the disk and its commit
    mixed     \* history: rows with columns of two sessions

catalogVars == <<file, version, row, scan, reread, apply, mixed>>

NoRow   == [path |-> "none", stamp |-> 0, tags |-> 0, error |-> FALSE, missing |-> FALSE]
Unknown == [track |-> 0, loaded |-> NoRow]
NoScan  == [at |-> "idle", scope |-> {}, known |-> {}, walked |-> {}, seen |-> {}, new |-> {},
            changed |-> {}, path |-> "none", stamp |-> 0, found |-> Unknown, calm |-> TRUE]
Asleep  == [at |-> "idle", track |-> 0, loaded |-> NoRow, stamp |-> 0, tags |-> 0]
NoFile  == [at |-> "idle", track |-> 0, path |-> "none", stamp |-> 0, loaded |-> NoRow]

Rows      == {t \in TrackIds : row[t] # NoRow}
RowAt(p)  == {t \in Rows : row[t].path = p}

\* A flush writes the columns of a row that differ from those the session loaded,
\* over whatever row is there by then.
Merged(t, loaded, wanted) ==
    LET now(c) == IF wanted[c] # loaded[c] THEN wanted[c] ELSE row[t][c]
    IN [path |-> now("path"), stamp |-> now("stamp"), tags |-> now("tags"),
        error |-> now("error"), missing |-> now("missing")]

Mixes(t, loaded) == IF row[t] = loaded THEN mixed \ {t} ELSE mixed \cup {t}

\* History: something else moves during the scan.
Stirs == scan' = IF scan.at = "idle" THEN scan ELSE [scan EXCEPT !.calm = FALSE]

-----------------------------------------------------------------------------
(* Everything that is not a catalog job.                                    *)

\* A file is written, or removed, behind the application's back.
Touch(p) ==
    /\ \/ version < MaxVersion /\ version' = version + 1 /\ file' = [file EXCEPT ![p] = version']
       \/ file[p] # 0 /\ file' = [file EXCEPT ![p] = 0] /\ UNCHANGED version
    /\ Stirs
    /\ UNCHANGED <<row, reread, apply, mixed>>

\* Apply writes new tags, or moves the file to a path where there is none ...
ApplyWrites(t, q) ==
    LET p == row[t].path IN
    /\ apply.at = "idle" /\ t \in Rows /\ file[p] # 0 /\ version < MaxVersion
    /\ p = q \/ file[q] = 0
    /\ version' = version + 1
    /\ file' = [file EXCEPT ![p] = 0, ![q] = version']
    /\ apply' = [at |-> "commit", track |-> t, path |-> q, stamp |-> version',
                 loaded |-> row[t]]
    /\ Stirs
    /\ UNCHANGED <<row, reread, mixed>>

\* ... and commits the row; where another row has the path, it puts the file back.
ApplyCommits ==
    /\ apply.at = "commit"
    /\ RowAt(apply.path) \subseteq {apply.track}
    /\ row' = [row EXCEPT ![apply.track] = Merged(apply.track, apply.loaded,
                  [apply.loaded EXCEPT !.path = apply.path, !.stamp = apply.stamp,
                                       !.tags = apply.stamp, !.missing = FALSE])]
    /\ mixed' = Mixes(apply.track, apply.loaded)
    /\ apply' = NoFile
    /\ Stirs
    /\ UNCHANGED <<file, version, reread>>

ApplyRestores ==
    LET p == row[apply.track].path IN
    /\ apply.at = "commit" /\ ~ (RowAt(apply.path) \subseteq {apply.track})
    /\ file' = IF file[p] # 0 THEN file
               ELSE [file EXCEPT ![apply.path] = 0, ![p] = file[apply.path]]
    /\ apply' = NoFile
    /\ Stirs
    /\ UNCHANGED <<version, row, reread, mixed>>

-----------------------------------------------------------------------------
(* A scan.                                                                  *)

\* The map of rows is loaded once, before the walk.
ScanStart ==
    /\ scan.at = "idle"
    /\ \E scope \in SUBSET Paths \ {{}} :
           scan' = [NoScan EXCEPT
               !.at = "walk", !.scope = scope,
               !.known = {[track |-> t, path |-> row[t].path, stamp |-> row[t].stamp,
                           missing |-> row[t].missing] : t \in Rows},
               !.calm = reread.at = "idle" /\ apply.at = "idle"]
    /\ UNCHANGED <<file, version, row, reread, apply, mixed>>

Unchanged(p) ==
    \E k \in scan.known : k.path = p /\ ~k.missing /\ k.stamp = file[p]

\* The row of a path in the map, as the session gets it now.
Existing(p) ==
    LET known == {k \in scan.known : k.path = p} IN
    IF known = {} THEN {Unknown} ELSE {[track |-> k.track, loaded |-> row[k.track]] : k \in known}

\* The walk yields a file; a file whose size and mtime are those of its row is skipped.
ScanStat(p) ==
    /\ scan.at = "walk" /\ p \in scan.scope \ scan.walked
    /\ IF file[p] = 0 THEN scan' = [scan EXCEPT !.walked = @ \cup {p}]
       ELSE IF Unchanged(p)
       THEN scan' = [scan EXCEPT !.walked = @ \cup {p}, !.seen = @ \cup {p}]
       ELSE \E found \in Existing(p) :
                scan' = [scan EXCEPT !.walked = @ \cup {p}, !.seen = @ \cup {p}, !.at = "read",
                                     !.path = p, !.stamp = file[p], !.found = found]
    /\ UNCHANGED <<file, version, row, reread, apply, mixed>>

\* A row with what was read, or with the error of a read that failed.
Fields(r, tags) ==
    IF tags = 0 THEN [r EXCEPT !.stamp = scan.stamp, !.error = TRUE, !.missing = FALSE]
    ELSE [r EXCEPT !.stamp = scan.stamp, !.tags = tags, !.error = FALSE, !.missing = FALSE]

\* The row that was found is changed, or there is a new one.
Upsert(tags) ==
    LET resumed == [scan EXCEPT !.at = "walk", !.path = "none", !.stamp = 0, !.found = Unknown]
        loaded  == scan.found.loaded
    IN IF scan.found = Unknown
       THEN [resumed EXCEPT !.new = @ \cup {Fields([NoRow EXCEPT !.path = scan.path], tags)}]
       ELSE [resumed EXCEPT !.changed = @ \cup
                {[track |-> scan.found.track, path |-> scan.path, loaded |-> loaded,
                  wanted |-> Fields(loaded, tags)]}]

\* Another session wrote the row since it was loaded, or had moved it already.
Crossed(c) == row[c.track] # c.loaded \/ c.loaded.path # c.path

\* A commit writes the whole batch, unless another session has a row at one of
\* its new paths: then the scan fails, and the batch is lost.
Commits(s) ==
    IF \E n \in s.new : RowAt(n.path) # {}
    THEN scan' = NoScan /\ UNCHANGED <<row, mixed>>
    ELSE \E id \in [s.new -> {t \in TrackIds \ Rows :
                                  t <= Cardinality(Rows) + Cardinality(s.new)}] :
             /\ \A m, n \in s.new : id[m] = id[n] => m = n
             /\ row' = [t \in TrackIds |->
                   CASE \E n \in s.new : id[n] = t -> CHOOSE n \in s.new : id[n] = t
                     [] \E c \in s.changed : c.track = t ->
                            LET c == CHOOSE c \in s.changed : c.track = t
                            IN Merged(t, c.loaded, c.wanted)
                     [] OTHER -> row[t]]
             /\ mixed' = {t \in mixed : \A c \in s.changed : c.track # t}
                             \cup {c.track : c \in {d \in s.changed : Crossed(d)}}
             /\ scan' = [s EXCEPT !.new = {}, !.changed = {}]

Pending(s) == Cardinality(s.new) + Cardinality(s.changed)

Batches(s) == IF Pending(s) >= Batch THEN Commits(s) ELSE scan' = s /\ UNCHANGED <<row, mixed>>

\* read_track, after the stat: it may fail, and then only the facts of the stat
\* and the error are kept.
ScanRead ==
    /\ scan.at = "read"
    /\ \/ file[scan.path] # 0 /\ Batches(Upsert(file[scan.path]))
       \/ Batches(Upsert(0))
    /\ UNCHANGED <<file, version, reread, apply>>

\* The file goes between its tags and its hash: the scan fails.
ScanFails ==
    /\ scan.at = "read" /\ file[scan.path] = 0
    /\ scan' = NoScan
    /\ UNCHANGED <<file, version, row, reread, apply, mixed>>

\* A cancel is seen at the next file: what was read is kept.
ScanCancel ==
    /\ scan.at = "walk"
    /\ Commits([NoScan EXCEPT !.new = scan.new, !.changed = scan.changed])
    /\ UNCHANGED <<file, version, reread, apply>>

ScanWalked ==
    /\ scan.at = "walk" /\ scan.walked = scan.scope
    /\ Commits([scan EXCEPT !.at = "missing"])
    /\ UNCHANGED <<file, version, reread, apply>>

Vanished == ({k.path : k \in scan.known} \cap scan.scope) \ scan.seen

ScanMissing ==
    /\ scan.at = "missing"
    /\ row' = [t \in TrackIds |->
                  IF row[t].path \in Vanished THEN [row[t] EXCEPT !.missing = TRUE] ELSE row[t]]
    /\ scan' = [scan EXCEPT !.at = "done"]
    /\ UNCHANGED <<file, version, reread, apply, mixed>>

ScanDone ==
    /\ scan.at = "done"
    /\ scan' = NoScan
    /\ UNCHANGED <<file, version, row, reread, apply, mixed>>

-----------------------------------------------------------------------------
(* rescan_track.                                                            *)

Rereads(wanted) ==
    /\ row' = [row EXCEPT ![reread.track] = Merged(reread.track, reread.loaded, wanted)]
    /\ mixed' = Mixes(reread.track, reread.loaded)
    /\ reread' = Asleep
    /\ Stirs
    /\ UNCHANGED <<file, version, apply>>

RereadStart(t) ==
    /\ reread.at = "idle" /\ t \in Rows
    /\ reread' = [Asleep EXCEPT !.at = "stat", !.track = t, !.loaded = row[t]]
    /\ Stirs
    /\ UNCHANGED <<file, version, row, apply, mixed>>

RereadStat ==
    /\ reread.at = "stat" /\ file[reread.loaded.path] # 0
    /\ reread' = [reread EXCEPT !.at = "read", !.stamp = file[reread.loaded.path]]
    /\ UNCHANGED <<file, version, row, scan, apply, mixed>>

\* Mutant: the size and mtime are those after the read.
RereadReadLate ==
    /\ reread.at = "read" /\ file[reread.loaded.path] # 0
    /\ reread' = [reread EXCEPT !.at = "commit", !.tags = reread.stamp,
                                !.stamp = file[reread.loaded.path]]
    /\ UNCHANGED <<file, version, row, scan, apply, mixed>>

RereadRead ==
    /\ reread.at = "read" /\ file[reread.loaded.path] # 0
    /\ reread' = [reread EXCEPT !.at = "commit", !.tags = file[reread.loaded.path]]
    /\ UNCHANGED <<file, version, row, scan, apply, mixed>>

\* The file is gone, before the tags or with them.
RereadMissing ==
    /\ reread.at \in {"stat", "read", "commit"} /\ file[reread.loaded.path] = 0
    /\ Rereads([reread.loaded EXCEPT !.missing = TRUE])

RereadErrors ==
    /\ reread.at = "read" /\ file[reread.loaded.path] # 0
    /\ Rereads([reread.loaded EXCEPT !.stamp = reread.stamp, !.error = TRUE, !.missing = FALSE])

RereadCommits ==
    /\ reread.at = "commit"
    /\ Rereads([reread.loaded EXCEPT !.stamp = reread.stamp, !.tags = reread.tags,
                                     !.error = FALSE, !.missing = FALSE])

-----------------------------------------------------------------------------

CatalogInit ==
    /\ version = 1
    /\ file \in {[p \in Paths |-> IF p = q THEN 1 ELSE 0] : q \in Paths}
    /\ row = [t \in TrackIds |-> NoRow]
    /\ scan = NoScan /\ reread = Asleep /\ apply = NoFile /\ mixed = {}

CatalogNext ==
    \/ \E p \in Paths : Touch(p) \/ ScanStat(p)
    \/ \E t \in TrackIds : RereadStart(t) \/ \E q \in Paths : ApplyWrites(t, q)
    \/ ApplyCommits \/ ApplyRestores
    \/ ScanStart \/ ScanRead \/ ScanFails \/ ScanCancel \/ ScanWalked \/ ScanMissing \/ ScanDone
    \/ RereadStat \/ RereadRead \/ RereadMissing \/ RereadErrors \/ RereadCommits

CatalogSpec == CatalogInit /\ [][CatalogNext]_catalogVars

-----------------------------------------------------------------------------
(* Properties.                                                              *)

CatalogTypeOK ==
    /\ file \in [Paths -> 0..MaxVersion] /\ version \in 1..MaxVersion
    /\ \A t \in TrackIds : row[t].path \in Paths \cup {"none"} /\ row[t].stamp \in 0..MaxVersion
    /\ scan.at \in {"idle", "walk", "read", "missing", "done"}
    /\ reread.at \in {"idle", "stat", "read", "commit"} /\ apply.at \in {"idle", "commit"}

\* A row that the next scan will skip as unchanged has the tags of its file: no
\* order of scan, reread, Apply and edits leaves old tags behind a new mtime,
\* save a flush over a row that another session wrote or moved since the map or
\* the row itself was loaded.
SkippedIsRead ==
    \A t \in Rows \ mixed :
        ~row[t].missing /\ ~row[t].error /\ row[t].stamp # 0 /\ row[t].stamp = file[row[t].path]
            => row[t].tags = row[t].stamp

\* A whole scan during which nothing else moved leaves the catalog of its scope
\* as the files are: each file in a row, the tags read or the error said, and
\* each row without a file missing.
ScanConverges ==
    scan.at = "done" /\ scan.calm =>
        \A p \in scan.scope :
            IF RowAt(p) \cap mixed # {} THEN TRUE
            ELSE IF file[p] # 0
            THEN \E t \in RowAt(p) : /\ ~row[t].missing /\ row[t].stamp = file[p]
                                     /\ row[t].error \/ row[t].tags = file[p]
            ELSE \A t \in RowAt(p) : row[t].missing

\* A file that cannot be read is reported for that file, and does not abort the
\* rest of the scan (docs/product-spec.md:76-77).
ScanContinues == [][scan.at = "read" => scan'.at \in {"read", "walk"}]_catalogVars
=============================================================================
