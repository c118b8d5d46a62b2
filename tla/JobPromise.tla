----------------------------- MODULE JobPromise -----------------------------
(***************************************************************************)
(* What the job queue promises whoever enqueues a job, with workers,       *)
(* leases, locks, crashes and recovery abstracted away.  A job waits, is   *)
(* worked on and ends once.  Interrupted work starts over, except work on  *)
(* files (Apply and Undo): that begins at most once, and once its effect   *)
(* is committed the job can only end as succeeded.                         *)
(***************************************************************************)
CONSTANTS Jobs, FileJobs

VARIABLES
    phase,   \* "absent" | "waiting" | "working" | an outcome
    effect   \* whether a file job's effect is durably committed

vars == <<phase, effect>>

Outcomes == {"succeeded", "failed", "cancelled"}

Move(j, from, to) ==
    /\ phase[j] = from
    /\ phase' = [phase EXCEPT ![j] = to]
    /\ UNCHANGED effect

Submit(j)  == Move(j, "absent", "waiting")
Begin(j)   == Move(j, "waiting", "working")
Refuse(j)  == Move(j, "waiting", "cancelled")
Restart(j) == j \notin FileJobs /\ Move(j, "working", "waiting")

CommitEffect(j) ==
    /\ j \in FileJobs
    /\ phase[j] = "working"
    /\ effect' = [effect EXCEPT ![j] = TRUE]
    /\ UNCHANGED phase

End(j) ==
    \E outcome \in Outcomes :
        /\ effect[j] => outcome = "succeeded"
        /\ Move(j, "working", outcome)

Init ==
    /\ phase = [j \in Jobs |-> "absent"]
    /\ effect = [j \in Jobs |-> FALSE]

Next ==
    \E j \in Jobs :
        \/ Submit(j) \/ Begin(j) \/ Refuse(j) \/ Restart(j)
        \/ CommitEffect(j) \/ End(j)

Spec == Init /\ [][Next]_vars

=============================================================================
