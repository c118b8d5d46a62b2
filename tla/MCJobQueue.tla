----------------------------- MODULE MCJobQueue -----------------------------
(***************************************************************************)
(* Instances of JobQueue for TLC: two processes (the API server and a      *)
(* stand-alone worker) with one worker loop each.                          *)
(***************************************************************************)
EXTENDS JobQueue

CONSTANTS p1, p2, w1, w2

TwoProcs     == {p1, p2}
TwoWorkers   == {w1, w2}
OneEach      == [w \in TwoWorkers |-> IF w = w1 THEN p1 ELSE p2]
OneWorker    == {w1}
FirstOnly    == [w \in OneWorker |-> p1]

OneJob      == 1..1
OneTask     == <<"task">>
OnePriority == <<0>>

TwoJobs        == 1..2
UnknownAndFile == <<"unknown", "file">>
FileFirst      == <<0, 5>>

=============================================================================
