------------------------- MODULE BundleApplyProofs -------------------------
(***************************************************************************)
(* Proofs about BundleApply for any bundle, any number of runs and of      *)
(* foreign acts: no change without a journal, no half applied outcome, and *)
(* a rollback that goes backwards.                                         *)
(***************************************************************************)
EXTENDS BundleApply, SequenceTheorems, TLAPS

-----------------------------------------------------------------------------
(* The inductive invariant.                                                 *)

\* The journals that stand for a step in effect, or perhaps in effect.
Live(f) == In(f, "done") \cup In(f, "writing")

\* The handler is inside the file cur.
InFile == pc \in {"check", "write", "written", "commit"}

\* A handler works for a run that is being applied, and only a settled run
\* tells anything.
Control ==
    /\ pc # "idle" => run = "applying" /\ job = "running"
    /\ recovery => run = "failed"
    /\ run \notin Settled => \A f \in Files : told[f] = "none" /\ entry[f] # "rolled_back"

\* The locals of the handler that its next lines start from.
Locals ==
    /\ pc \in {"idle", "preflight", "loop", "check", "write", "written"} => failing = 0
    /\ pc \notin {"settle", "rollback", "conclude"} => ~cancelled
    /\ pc \notin {"rollback", "conclude"} => ~unresolved /\ ~lost /\ todo = {}
    /\ pc \in {"idle", "preflight"} => cur = 1 /\ applied = {}
    /\ pc # "rollback" => undone = {}
    /\ pc = "rollback" => ~lost /\ Failed
    /\ pc = "conclude" /\ ~lost => todo = {}
    /\ failing # 0 => failing = cur
    /\ \A f \in applied : f < cur
    /\ todo \subseteq applied \cup {failing}

\* The step in hand is one of the file's; a correction is a single step, and
\* the file is complete when no step is left.
InPlan ==
    /\ InFile => cur \in Files
    /\ pc \in {"check", "write", "written"} => step \in DOMAIN plan[cur]
    /\ pc \in {"write", "written"} => ~Grouping(cur)
    /\ pc = "commit" => IF failing = 0 THEN step = Len(plan[cur]) + 1 /\ ~Grouping(cur)
                                       ELSE step \in DOMAIN plan[cur]

\* Journals, credits and effects are those of accepted steps, in their order.
OfPlan ==
    \A f \in Files :
        /\ \A i \in DOMAIN log[f] : log[f][i].phase \in Steps(f)
        /\ \E n \in 1..(Len(plan[f]) + 1) : credited[f] = Before(f, n)
        /\ disk[f] \subseteq Steps(f)

\* The step being written has its journal, the last one of the file.
IntentOnRecord ==
    pc \in {"write", "written"} =>
        /\ log[cur] # <<>>
        /\ log[cur][Len(log[cur])] = [phase |-> phase, state |-> "writing"]

\* A correction is made at most once in a run: its journal and its credit are
\* one transaction.
Corrections ==
    \A f \in Files : Grouping(f) =>
        /\ \A i, j \in Live(f) : i = j
        /\ run # "failed" /\ Live(f) # {} => credited[f] = {"grouping"}
        /\ pc = "check" /\ cur = f => credited[f] = {}
        /\ pc = "commit" /\ cur = f => Live(f) = {}

\* A file that the loop does not work on is what its credits say.
Quiet(f) == disk[f] = credited[f] /\ credited[f] \subseteq Done(f)

\* The loop has credited what it has passed.
Passed ==
    /\ pc = "loop" \/ InFile => \A f \in Files : f < cur => credited[f] = Steps(f)
    /\ pc \in {"settle", "conclude"} /\ ~Failed => \A f \in Files : credited[f] = Steps(f)

\* Between two files the library is what the credits say, and inside one it is
\* what the steps before the one in hand have left.
InLoop == Uninterrupted =>
    /\ pc = "loop" => \A f \in Files : Quiet(f)
    /\ InFile => \A f \in Files : f # cur => Quiet(f)
    /\ pc \in {"check", "write"} => disk[cur] = Before(cur, step)
    /\ pc \in {"check", "write", "written"} => Before(cur, step) \subseteq Done(cur)
    /\ pc = "written" => disk[cur] = Before(cur, step + 1)
    /\ pc = "commit" /\ failing = 0 => disk[cur] = Steps(cur) /\ Steps(cur) \subseteq Done(cur)
    /\ pc = "settle" => \A f \in Files : f # failing => Quiet(f)
    /\ pc = "conclude" /\ ~Failed => \A f \in Files : Quiet(f) /\ In(f, "writing") = {}

\* What the rollback has passed is undone, and what it has not is in its
\* journals.
RolledBack == Uninterrupted /\ pc \in {"rollback", "conclude"} /\ ~lost =>
    /\ ~unresolved => \A f \in Files : In(f, "writing") = {}
    /\ \A f \in todo \cap applied : disk[f] \subseteq Done(f)
    /\ Failed => \A f \in applied \ todo : disk[f] = {}
    /\ ~unresolved /\ failing # 0 /\ failing \notin todo => disk[failing] = {}

\* The inverses that are flushed are the newest of the file in hand.
Flushed == pc = "rollback" =>
    \A f \in todo : Last(f) =>
        /\ undone \subseteq Undoable(f)
        /\ \A k \in undone, j \in Undoable(f) \ undone : j < k
        /\ \A k \in undone : log[f][k].phase \in disk[f] => log[f][k].phase = "grouping"

\* Without exceptions no execution finds anything of an earlier one.
Untouched(f) == log[f] = <<>> /\ credited[f] = {} /\ disk[f] = {}

FirstExecution == aborts = 0 =>
    /\ run \notin Settled /\ pc \in {"idle", "preflight"} /\ job # "dead" =>
           \A f \in Files : Untouched(f)
    /\ pc # "idle" => \A f \in Files :
           \/ f \in applied \/ f = failing
           \/ InFile /\ f = cur
           \/ Untouched(f)
    /\ pc = "rollback" => \A f \in Files \ todo : In(f, "done") = {}

IInv ==
    /\ TypeOK /\ Control /\ Locals /\ InPlan /\ OfPlan /\ IntentOnRecord /\ Corrections /\ Passed
    /\ InLoop /\ RolledBack /\ Flushed /\ FirstExecution /\ WriteAhead /\ OutcomeIsTrue

-----------------------------------------------------------------------------
(* The plan of a file.                                                      *)

\* The plan of a file is one of four, of one or two different steps.
LEMMA PlanFacts ==
    ASSUME plan \in Manifests, NEW f \in Files
    PROVE  /\ plan[f] \in Plans
           /\ Len(plan[f]) \in {1, 2} /\ DOMAIN plan[f] = 1..Len(plan[f])
           /\ DOMAIN plan[f] \subseteq 1..2
           /\ \A n \in DOMAIN plan[f] :
                 plan[f][n] \in Phases /\ plan[f][n] \in Steps(f) /\ n \in Nat
           /\ Steps(f) \subseteq Phases
<1>1. plan[f] \in Plans
    BY ConstantsAssumption
<1>2. CASE plan[f] = <<"tags">>
    BY <1>2 DEF Plans, Steps, Phases
<1>3. CASE plan[f] = <<"move">>
    BY <1>3 DEF Plans, Steps, Phases
<1>4. CASE plan[f] = <<"tags", "move">>
    BY <1>4 DEF Plans, Steps, Phases
<1>5. CASE plan[f] = <<"grouping">>
    BY <1>5 DEF Plans, Steps, Phases
<1> QED BY <1>1, <1>2, <1>3, <1>4, <1>5 DEF Plans

\* The steps before each of a plan, up to all of them.
LEMMA BeforeFacts ==
    ASSUME plan \in Manifests, NEW f \in Files
    PROVE  /\ Before(f, 1) = {} /\ Before(f, Len(plan[f]) + 1) = Steps(f)
           /\ \A n \in DOMAIN plan[f] : /\ Before(f, n + 1) = Before(f, n) \cup {plan[f][n]}
                                        /\ plan[f][n] \notin Before(f, n)
           /\ \A n \in 1..(Len(plan[f]) + 1) : Before(f, n) \subseteq Steps(f)
<1>1. plan[f] \in Plans
    BY ConstantsAssumption
<1>2. CASE plan[f] = <<"tags">>
    BY <1>2 DEF Plans, Steps, Before
<1>3. CASE plan[f] = <<"move">>
    BY <1>3 DEF Plans, Steps, Before
<1>4. CASE plan[f] = <<"tags", "move">>
    BY <1>4 DEF Plans, Steps, Before
<1>5. CASE plan[f] = <<"grouping">>
    BY <1>5 DEF Plans, Steps, Before
<1> QED BY <1>1, <1>2, <1>3, <1>4, <1>5 DEF Plans

\* A correction of a collection stands alone, in a bundle of corrections.
LEMMA CorrectionPlan ==
    ASSUME plan \in Manifests, NEW f \in Files
    PROVE  /\ Grouping(f) => Len(plan[f]) = 1 /\ Steps(f) = {"grouping"} /\ plan[f][1] = "grouping"
           /\ ~Grouping(f) => "grouping" \notin Steps(f)
           /\ Grouping(f) => \A g \in Files : Grouping(g)
<1>1. plan[f] \in Plans /\ (Grouping(f) => \A g \in Files : Grouping(g))
    BY ConstantsAssumption DEF Grouping
<1>2. CASE plan[f] = <<"tags">>
    BY <1>1, <1>2 DEF Plans, Steps, Grouping
<1>3. CASE plan[f] = <<"move">>
    BY <1>1, <1>3 DEF Plans, Steps, Grouping
<1>4. CASE plan[f] = <<"tags", "move">>
    BY <1>1, <1>4 DEF Plans, Steps, Grouping
<1>5. CASE plan[f] = <<"grouping">>
    BY <1>1, <1>5 DEF Plans, Steps, Grouping
<1> QED BY <1>1, <1>2, <1>3, <1>4, <1>5 DEF Plans

-----------------------------------------------------------------------------
(* The journals of a file.                                                  *)

Row == [phase : Phases, state : JournalStates]

\* A journal is added.
LEMMA JournalFacts ==
    ASSUME TypeOK, cur \in Files, step \in DOMAIN plan[cur], NEW state \in JournalStates,
           log' = Journal(state)
    PROVE  /\ log' \in [Files -> Seq(Row)]
           /\ \A f \in Files : f # cur => log'[f] = log[f]
           /\ Len(log'[cur]) = Len(log[cur]) + 1
           /\ DOMAIN log'[cur] = DOMAIN log[cur] \cup {Len(log[cur]) + 1}
           /\ \A i \in DOMAIN log[cur] : i \in Nat /\ i < Len(log[cur]) + 1 /\ log'[cur][i] = log[cur][i]
           /\ log'[cur][Len(log[cur]) + 1] = [phase |-> phase, state |-> state]
<1> DEFINE row == [phase |-> phase, state |-> state]
<1>1. log[cur] \in Seq(Row) /\ row \in Row
    BY PlanFacts DEF TypeOK, Row, phase
<1>2. log'[cur] = Append(log[cur], row) /\ \A f \in Files : f # cur => log'[f] = log[f]
    BY DEF Journal, TypeOK
<1>3. Append(log[cur], row) \in Seq(Row)
    BY <1>1
<1>4. log' \in [Files -> Seq(Row)]
    BY <1>2, <1>3 DEF Journal, TypeOK, Row
<1> HIDE DEF row
<1>5. /\ Len(log'[cur]) = Len(log[cur]) + 1
      /\ DOMAIN log'[cur] = 1..(Len(log[cur]) + 1)
      /\ DOMAIN log[cur] = 1..Len(log[cur]) /\ Len(log[cur]) \in Nat
      /\ \A i \in 1..Len(log[cur]) : log'[cur][i] = log[cur][i]
      /\ log'[cur][Len(log[cur]) + 1] = row
    BY <1>1, <1>2
<1> QED BY <1>2, <1>4, <1>5 DEF row

\* The state of a journal changes, its phase stays.
LEMMA EndsFacts ==
    ASSUME TypeOK, cur \in Files, log[cur] # <<>>, NEW state \in JournalStates,
           log' = JournalEnds(state)
    PROVE  /\ log' \in [Files -> Seq(Row)]
           /\ \A f \in Files : f # cur => log'[f] = log[f]
           /\ Len(log'[cur]) = Len(log[cur]) /\ DOMAIN log'[cur] = DOMAIN log[cur]
           /\ Len(log[cur]) \in DOMAIN log[cur]
           /\ \A i \in DOMAIN log[cur] : i # Len(log[cur]) => log'[cur][i] = log[cur][i]
           /\ \A i \in DOMAIN log[cur] : log'[cur][i].phase = log[cur][i].phase
           /\ log'[cur][Len(log[cur])].state = state
<1> DEFINE n == Len(log[cur])
           row == [log[cur][n] EXCEPT !.state = state]
<1>0. log[cur] \in Seq(Row)
    BY DEF TypeOK, Row
<1>1. log[cur] \in Seq(Row) /\ n \in DOMAIN log[cur]
    BY <1>0, EmptySeq, LenProperties
<1>2. log[cur][n] \in Row
    BY <1>1
<1>3. row \in Row /\ row.phase = log[cur][n].phase /\ row.state = state
    BY <1>2 DEF Row
<1>4. log'[cur] = [log[cur] EXCEPT ![n] = row] /\ \A f \in Files : f # cur => log'[f] = log[f]
    BY DEF JournalEnds, TypeOK
<1> HIDE DEF row
<1>5. [log[cur] EXCEPT ![n] = row] \in Seq(Row)
    BY <1>1, <1>3
<1>6. log' \in [Files -> Seq(Row)]
    BY <1>4, <1>5 DEF JournalEnds, TypeOK, Row
<1>7. Len(log'[cur]) = n /\ DOMAIN log'[cur] = DOMAIN log[cur]
    BY <1>1, <1>4
<1> QED BY <1>1, <1>3, <1>4, <1>6, <1>7

\* Journals of one file are marked as rolled back.
LEMMA MarkedFacts ==
    ASSUME TypeOK, NEW f \in Files, NEW js, NEW state \in JournalStates
    PROVE  LET new == Marked(f, js, state)
           IN  /\ new \in [Files -> Seq(Row)]
               /\ \A g \in Files : g # f => new[g] = log[g]
               /\ Len(new[f]) = Len(log[f]) /\ DOMAIN new[f] = DOMAIN log[f]
               /\ \A i \in DOMAIN log[f] : /\ new[f][i].phase = log[f][i].phase
                                           /\ i \in js => new[f][i].state = state
                                           /\ i \notin js => new[f][i] = log[f][i]
<1> DEFINE new == Marked(f, js, state)
           rows == [i \in DOMAIN log[f] |-> IF i \in js THEN [log[f][i] EXCEPT !.state = state]
                                                        ELSE log[f][i]]
<1>1. log[f] \in Seq(Row)
    BY DEF TypeOK, Row
<1>2. \A i \in DOMAIN log[f] : log[f][i] \in Row
    BY <1>1
<1>3. \A i \in DOMAIN log[f] :
         /\ rows[i] \in Row /\ rows[i].phase = log[f][i].phase
         /\ i \in js => rows[i].state = state
         /\ i \notin js => rows[i] = log[f][i]
    BY <1>2 DEF Row
<1>4. DOMAIN rows = 1..Len(log[f]) /\ DOMAIN log[f] = 1..Len(log[f]) /\ Len(log[f]) \in Nat
    BY <1>1
<1>5. new[f] = rows /\ \A g \in Files : g # f => new[g] = log[g]
    BY DEF Marked, TypeOK
<1> HIDE DEF rows
<1>6. rows \in Seq(Row) /\ Len(rows) = Len(log[f])
  <2>1. rows \in [1..Len(log[f]) -> Row]
    BY <1>3, <1>4 DEF rows
  <2> QED BY <2>1, <1>4
<1>7. new \in [Files -> Seq(Row)]
    BY <1>5, <1>6 DEF Marked, TypeOK, Row
<1> QED BY <1>3, <1>4, <1>5, <1>6, <1>7

\* A restoration that fails leaves its own journal open.
LEMMA FailedFacts ==
    ASSUME TypeOK, NEW f \in Files, NEW flushed, NEW i \in DOMAIN log[f],
           log' = [Marked(f, flushed, "rolled_back") EXCEPT ![f][i].state = "writing"]
    PROVE  /\ log' \in [Files -> Seq(Row)]
           /\ \A g \in Files : g # f => log'[g] = log[g]
           /\ Len(log'[f]) = Len(log[f]) /\ DOMAIN log'[f] = DOMAIN log[f]
           /\ log'[f][i].state = "writing"
           /\ \A j \in DOMAIN log[f] :
                 /\ log'[f][j].phase = log[f][j].phase
                 /\ j # i /\ j \in flushed => log'[f][j].state = "rolled_back"
                 /\ j # i /\ j \notin flushed => log'[f][j] = log[f][j]
<1> DEFINE new == Marked(f, flushed, "rolled_back")
           row == [new[f][i] EXCEPT !.state = "writing"]
<1>1. /\ new \in [Files -> Seq(Row)]
      /\ \A g \in Files : g # f => new[g] = log[g]
      /\ Len(new[f]) = Len(log[f]) /\ DOMAIN new[f] = DOMAIN log[f]
      /\ \A j \in DOMAIN log[f] : /\ new[f][j].phase = log[f][j].phase
                                  /\ j \in flushed => new[f][j].state = "rolled_back"
                                  /\ j \notin flushed => new[f][j] = log[f][j]
    BY MarkedFacts DEF JournalStates
<1> HIDE DEF new
<1>2. new[f] \in Seq(Row) /\ new[f][i] \in Row
    BY <1>1
<1>3. row \in Row /\ row.phase = log[f][i].phase /\ row.state = "writing"
    BY <1>1, <1>2 DEF Row, JournalStates
<1>4. log'[f] = [new[f] EXCEPT ![i] = row] /\ \A g \in Files : g # f => log'[g] = new[g]
    BY <1>1 DEF new
<1> HIDE DEF row
<1>5. [new[f] EXCEPT ![i] = row] \in Seq(Row)
    BY <1>1, <1>2, <1>3
<1>6. log' \in [Files -> Seq(Row)]
    BY <1>1, <1>4, <1>5 DEF new, row
<1>7. Len(log'[f]) = Len(log[f]) /\ DOMAIN log'[f] = DOMAIN log[f]
  <2>1. i \in 1..Len(new[f])
    BY <1>1, <1>2, LenProperties
  <2>2. Len([new[f] EXCEPT ![i] = row]) = Len(new[f])
    BY <1>2, <1>3, <2>1, ExceptSeq
  <2> QED BY <1>1, <1>4, <2>2
<1> QED BY ZenonT(40), <1>1, <1>3, <1>4, <1>6, <1>7

-----------------------------------------------------------------------------
(* Types.                                                                   *)

\* A handler that has returned leaves nothing behind.
LEMMA IdleTyped ==
    ASSUME Idle
    PROVE  /\ pc' = "idle" /\ cur' \in 1..(NFiles + 1) /\ step' \in 1..3
           /\ applied' = {} /\ todo' = {} /\ undone' = {} /\ failing' = 0
           /\ {cancelled', unresolved', lost'} \subseteq BOOLEAN
<1>1. 1 \in 1..(NFiles + 1)
    BY ConstantsAssumption
<1>2. {cancelled', unresolved', lost'} \subseteq BOOLEAN
    BY DEF Idle
<1> QED BY <1>1, <1>2 DEF Idle

\* Requests, the job and other programs keep the types.
LEMMA RequestsTyped == TypeOK /\ (Requests \/ Job \/ \E f \in Files : Foreign(f)) => TypeOK'
<1> SUFFICES ASSUME TypeOK, Requests \/ Job \/ \E f \in Files : Foreign(f) PROVE TypeOK'
    OBVIOUS
<1> USE DEF TypeOK, outcome, books, locals, history, Settled, EntryStates
<1>1. CASE Resume
    BY <1>1 DEF Resume
<1>2. CASE NewRun
    BY <1>2 DEF NewRun
<1>3. CASE RequestCancel
    BY <1>3 DEF RequestCancel
<1>4. CASE Begin
    BY <1>4 DEF Begin
<1>5. CASE JobEnds
    BY <1>5 DEF JobEnds
<1>6. CASE Abort
  <2>1. aborts' \in Nat
    BY <1>6 DEF Abort
  <2> QED BY <1>6, <2>1, IdleTyped DEF Abort
<1>7. CASE Crash
    BY <1>7, IdleTyped DEF Crash
<1>8. CASE Recover
    BY <1>8 DEF Recover
<1>9. CASE \E f \in Files : Foreign(f)
  <2>1. foreigners' \in Nat /\ drift' \subseteq Files
    BY <1>9 DEF Foreign
  <2> QED BY ZenonT(40), <1>9, <2>1 DEF Foreign
<1> QED BY <1>1, <1>2, <1>3, <1>4, <1>5, <1>6, <1>7, <1>8, <1>9 DEF Requests, Job

\* The loop over the files keeps the types.
LEMMA LoopTyped == TypeOK /\ InPlan /\ IntentOnRecord /\ Loop => TypeOK'
<1> SUFFICES ASSUME TypeOK, InPlan, IntentOnRecord, Loop PROVE TypeOK'
    OBVIOUS
<1> USE DEF outcome, books, locals, history
<1>1. CASE Refuse
    BY <1>1, IdleTyped DEF Refuse, TypeOK, Settled, EntryStates
<1>2. CASE Accept
    BY <1>2 DEF Accept, TypeOK
<1>3. CASE CancelSeen
    BY <1>3 DEF CancelSeen, TypeOK, EntryStates
<1>4. CASE Skip
  <2>1. cur \in Files /\ cur + 1 \in 1..(NFiles + 1)
    BY <1>4, ConstantsAssumption DEF Skip, TypeOK, Files
  <2>2. entry' \in [Files -> EntryStates] /\ applied' \subseteq Files
    BY <1>4, <2>1 DEF Skip, TypeOK, EntryStates
  <2> QED BY <1>4, <2>1, <2>2 DEF Skip, TypeOK
<1>5. CASE StartFile
  <2>1. cur \in Files
    BY <1>5, ConstantsAssumption DEF StartFile, TypeOK, Files
  <2>2. DOMAIN plan[cur] \subseteq 1..3
    BY <2>1, PlanFacts DEF TypeOK
  <2> QED BY <1>5, <2>2 DEF StartFile, TypeOK
<1>6. CASE LoopEnds
    BY <1>6 DEF LoopEnds, TypeOK
<1>7. CASE CheckFails
  <2>1. cur \in Files /\ step \in DOMAIN plan[cur]
    BY <1>7 DEF CheckFails, InPlan, InFile
  <2>2. log' \in [Files -> Seq(Row)]
    BY <1>7, <2>1, JournalFacts DEF CheckFails, TypeOK, Row, JournalStates
  <2> QED BY <1>7, <2>1, <2>2 DEF CheckFails, TypeOK, Row
<1>8. CASE Intent
  <2>1. cur \in Files /\ step \in DOMAIN plan[cur]
    BY <1>8 DEF Intent, InPlan, InFile
  <2>2. log' \in [Files -> Seq(Row)]
    BY <1>8, <2>1, JournalFacts DEF Intent, JournalStates
  <2>3. Before(cur, step) \subseteq Phases
    BY <2>1, PlanFacts DEF TypeOK, Before
  <2> QED BY <1>8, <2>1, <2>2, <2>3 DEF Intent, TypeOK, Row
<1>9. CASE Write
  <2>1. cur \in Files /\ phase \in Phases
    BY <1>9, PlanFacts DEF Write, InPlan, InFile, phase, TypeOK
  <2> QED BY <1>9, <2>1 DEF Write, TypeOK
<1>10. CASE WriteFails
  <2>1. cur \in Files /\ log' \in [Files -> Seq(Row)]
    BY <1>10, EndsFacts DEF WriteFails, InPlan, InFile, IntentOnRecord, JournalStates
  <2> QED BY <1>10, <2>1 DEF WriteFails, TypeOK, Row
<1>11. CASE WriteUncertain
  <2>1. cur \in Files /\ phase \in Phases
    BY <1>11, PlanFacts DEF WriteUncertain, InPlan, InFile, phase, TypeOK
  <2> QED BY ZenonT(40), <1>11, <2>1 DEF WriteUncertain, TypeOK
<1>12. CASE Written
  <2>1. cur \in Files /\ step \in DOMAIN plan[cur] /\ log' \in [Files -> Seq(Row)]
    BY <1>12, EndsFacts DEF Written, InPlan, InFile, IntentOnRecord, JournalStates
  <2>2. step + 1 \in 1..3
    <3>1. DOMAIN plan[cur] \subseteq 1..2
      BY <2>1, PlanFacts DEF TypeOK
    <3>2. step \in 1..2
      BY <2>1, <3>1
    <3> QED BY <3>2
  <2> QED BY <1>12, <2>1, <2>2 DEF Written, TypeOK, Row
<1>13. CASE Group
  <2>1. cur \in Files /\ step \in DOMAIN plan[cur]
    BY <1>13 DEF Group, InPlan, InFile
  <2>2. log' \in [Files -> Seq(Row)]
    BY <1>13, <2>1, JournalFacts DEF Group, JournalStates
  <2>3. cur + 1 \in 1..(NFiles + 1)
    BY <2>1, ConstantsAssumption DEF Files
  <2> QED BY <1>13, <2>1, <2>2, <2>3 DEF Group, TypeOK, Row, Phases, EntryStates
<1>14. CASE FileCommit
  <2>1. cur \in Files /\ cur + 1 \in 1..(NFiles + 1)
    BY <1>14, ConstantsAssumption DEF FileCommit, InPlan, InFile, Files
  <2>2. Before(cur, step) \subseteq Phases
    BY <2>1, PlanFacts DEF TypeOK, Before
  <2> QED BY <1>14, <2>1, <2>2 DEF FileCommit, TypeOK, EntryStates
<1> QED BY <1>1, <1>2, <1>3, <1>4, <1>5, <1>6, <1>7, <1>8, <1>9, <1>10, <1>11, <1>12, <1>13,
           <1>14 DEF Loop

\* The outcome and the rollback keep the types.
LEMMA OutcomeTyped == TypeOK /\ Outcome => TypeOK'
<1> SUFFICES ASSUME TypeOK, Outcome PROVE TypeOK'
    OBVIOUS
<1> USE DEF outcome, books, locals, history
<1>1. CASE Settle
    BY <1>1 DEF Settle, TypeOK
<1>2. CASE Restore
  <2>0. PICK f \in todo : \E i \in DOMAIN log[f] :
            /\ disk' = [disk EXCEPT ![f] = @ \ ({log[f][i].phase} \ {"grouping"})]
            /\ \/ log' = Marked(f, undone, "rolled_back") /\ undone' = {i}
               \/ undone' = undone \cup {i} /\ UNCHANGED log
    BY <1>2 DEF Restore, Undoable
  <2>1. PICK i \in DOMAIN log[f] :
            /\ disk' = [disk EXCEPT ![f] = @ \ ({log[f][i].phase} \ {"grouping"})]
            /\ \/ log' = Marked(f, undone, "rolled_back") /\ undone' = {i}
               \/ undone' = undone \cup {i} /\ UNCHANGED log
    BY <2>0
  <2>2. f \in Files /\ i \in DOMAIN log[f] /\ i \in Nat
    BY <2>1 DEF TypeOK
  <2>3. log' \in [Files -> Seq(Row)]
    <3>1. Marked(f, undone, "rolled_back") \in [Files -> Seq(Row)]
      BY <2>2, MarkedFacts DEF JournalStates
    <3> QED BY <2>1, <3>1 DEF TypeOK, Row
  <2> QED BY <1>2, <2>1, <2>2, <2>3 DEF Restore, TypeOK, Row
<1>3. CASE MoveRestored
  <2>1. PICK f \in todo : log' = Marked(f, undone, "rolled_back")
    BY <1>3 DEF MoveRestored
  <2>2. log' \in [Files -> Seq(Row)]
    BY <2>1, MarkedFacts DEF TypeOK, JournalStates
  <2> QED BY <1>3, <2>2 DEF MoveRestored, TypeOK, Row
<1>4. CASE RestoreFails
  <2>0. PICK f \in todo : \E i \in DOMAIN log[f] :
            \/ /\ disk' \in {disk, [disk EXCEPT ![f] = @ \ ({log[f][i].phase} \ {"grouping"})]}
               /\ \E flushed \in {{}, undone} :
                     log' = [Marked(f, flushed, "rolled_back") EXCEPT ![f][i].state = "writing"]
            \/ log' = Marked(f, undone, "rolled_back") /\ UNCHANGED disk
    BY <1>4 DEF RestoreFails, Undoable
  <2>1. PICK i \in DOMAIN log[f] :
            \/ /\ disk' \in {disk, [disk EXCEPT ![f] = @ \ ({log[f][i].phase} \ {"grouping"})]}
               /\ \E flushed \in {{}, undone} :
                     log' = [Marked(f, flushed, "rolled_back") EXCEPT ![f][i].state = "writing"]
            \/ log' = Marked(f, undone, "rolled_back") /\ UNCHANGED disk
    BY <2>0
  <2>2. f \in Files /\ i \in DOMAIN log[f]
    BY <2>1 DEF TypeOK
  <2>3. log' \in [Files -> Seq(Row)]
    <3>1. Marked(f, undone, "rolled_back") \in [Files -> Seq(Row)]
      BY <2>2, MarkedFacts DEF JournalStates
    <3>2. \A flushed : log' = [Marked(f, flushed, "rolled_back") EXCEPT ![f][i].state = "writing"]
                          => log' \in [Files -> Seq(Row)]
      BY <2>2, FailedFacts
    <3> QED BY <2>1, <3>1, <3>2
  <2>4. disk' \in [Files -> SUBSET Phases]
    BY ZenonT(40), <2>1, <2>2 DEF TypeOK
  <2> QED BY <1>4, <2>3, <2>4 DEF RestoreFails, TypeOK, Row
<1>5. CASE RestoreCommit
  <2>1. PICK f \in todo : /\ log' = Marked(f, undone, "rolled_back")
                          /\ disk' = [disk EXCEPT ![f] = @ \ {log[f][i].phase : i \in undone}]
                          /\ todo' = todo \ {f}
    BY <1>5 DEF RestoreCommit
  <2>2. log' \in [Files -> Seq(Row)]
    BY <2>1, MarkedFacts DEF TypeOK, JournalStates
  <2> QED BY <1>5, <2>1, <2>2 DEF RestoreCommit, TypeOK, Row
<1>6. CASE Conclude
  <2>1. entry' \in [Files -> EntryStates] /\ credited' \in [Files -> SUBSET Phases]
    BY <1>6 DEF Conclude, EntryAtEnd, TypeOK, EntryStates
  <2>2. recovery' \in BOOLEAN /\ run' \in {"pending", "applying"} \cup Settled
    BY <1>6 DEF Conclude, TypeOK, Settled
  <2>3. told' \in [Files -> EntryStates \cup {"none"}]
    BY <1>6, <2>1 DEF Conclude
  <2> QED BY <1>6, <2>1, <2>2, <2>3, IdleTyped DEF Conclude, TypeOK
<1> QED BY <1>1, <1>2, <1>3, <1>4, <1>5, <1>6 DEF Outcome


-----------------------------------------------------------------------------
(* The handler, its run and its locals.                                     *)

\* A handler works for a run that is being applied.
LEMMA ControlKept ==
    ASSUME TypeOK, Control, Locals, Next
    PROVE  Control'
<1> USE DEF outcome, books, locals, history, Control, TypeOK
<1>1. CASE Resume
    BY <1>1 DEF Resume
<1>2. CASE NewRun
    BY <1>2 DEF NewRun, Settled
<1>3. CASE RequestCancel
    BY <1>3 DEF RequestCancel
<1>4. CASE Begin
    BY <1>4 DEF Begin, Settled, Locals
<1>5. CASE JobEnds
    BY <1>5 DEF JobEnds
<1>6. CASE Abort
    BY <1>6 DEF Abort, Idle
<1>7. CASE Crash
    BY <1>7 DEF Crash, Idle
<1>8. CASE Recover
    BY <1>8 DEF Recover, Settled
<1>9. CASE \E f \in Files : Foreign(f)
    BY <1>9 DEF Foreign
<1>10. CASE Refuse
    BY <1>10 DEF Refuse, Idle, Settled
<1>11. CASE Accept
    BY <1>11 DEF Accept
<1>12. CASE CancelSeen
    BY <1>12 DEF CancelSeen
<1>13. CASE Skip
    BY <1>13 DEF Skip
<1>14. CASE StartFile
    BY <1>14 DEF StartFile
<1>15. CASE LoopEnds
    BY <1>15 DEF LoopEnds
<1>16. CASE CheckFails
    BY <1>16 DEF CheckFails
<1>17. CASE Intent
    BY <1>17 DEF Intent
<1>18. CASE Write
    BY <1>18 DEF Write
<1>19. CASE WriteFails
    BY <1>19 DEF WriteFails
<1>20. CASE WriteUncertain
    BY <1>20 DEF WriteUncertain
<1>21. CASE Written
    BY <1>21 DEF Written
<1>22. CASE Group
    BY <1>22 DEF Group
<1>23. CASE FileCommit
    BY <1>23 DEF FileCommit
<1>24. CASE Settle
    BY <1>24 DEF Settle
<1>25. CASE Restore
    BY <1>25 DEF Restore
<1>26. CASE MoveRestored
    BY <1>26 DEF MoveRestored
<1>27. CASE RestoreFails
    BY <1>27 DEF RestoreFails
<1>28. CASE RestoreCommit
    BY <1>28 DEF RestoreCommit
<1>29. CASE Conclude
    BY <1>29 DEF Conclude, Idle, Settled
<1> QED BY <1>1, <1>2, <1>3, <1>4, <1>5, <1>6, <1>7, <1>8, <1>9, <1>10, <1>11, <1>12, <1>13,
           <1>14, <1>15, <1>16, <1>17, <1>18, <1>19, <1>20, <1>21, <1>22, <1>23, <1>24,
           <1>25, <1>26, <1>27, <1>28, <1>29 DEF Next, Requests, Job, Loop, Outcome

\* The locals of the handler agree with where it stands.
LEMMA LocalsKept ==
    ASSUME TypeOK, Control, Locals, InPlan, Next
    PROVE  Locals'
<1> USE DEF outcome, books, locals, history, Locals, Failed
<1>1. CASE Resume
    BY <1>1 DEF Resume
<1>2. CASE NewRun
    BY <1>2 DEF NewRun
<1>3. CASE RequestCancel
    BY <1>3 DEF RequestCancel
<1>4. CASE Begin
    BY <1>4 DEF Begin, Control
<1>5. CASE JobEnds
    BY <1>5 DEF JobEnds
<1>6. CASE Abort
    BY <1>6 DEF Abort, Idle
<1>7. CASE Crash
    BY <1>7 DEF Crash, Idle
<1>8. CASE Recover
    BY <1>8 DEF Recover
<1>9. CASE \E f \in Files : Foreign(f)
    BY <1>9 DEF Foreign
<1>10. CASE Refuse
    BY <1>10 DEF Refuse, Idle
<1>11. CASE Accept
    BY <1>11 DEF Accept
<1>12. CASE CancelSeen
    BY <1>12 DEF CancelSeen
<1>13. CASE Skip
    BY <1>13 DEF Skip, TypeOK, Files
<1>14. CASE StartFile
    BY <1>14 DEF StartFile
<1>15. CASE LoopEnds
    BY <1>15 DEF LoopEnds
<1>16. CASE CheckFails
    BY <1>16 DEF CheckFails, InPlan, InFile
<1>17. CASE Intent
    BY <1>17 DEF Intent
<1>18. CASE Write
    BY <1>18 DEF Write
<1>19. CASE WriteFails
    BY <1>19 DEF WriteFails, InPlan, InFile
<1>20. CASE WriteUncertain
    BY <1>20 DEF WriteUncertain
<1>21. CASE Written
    BY <1>21 DEF Written
<1>22. CASE Group
    BY <1>22 DEF Group, InPlan, InFile, TypeOK, Files
<1>23. CASE FileCommit
  <2>1. cur \in Nat /\ applied \subseteq Nat /\ cur \in Files
    BY <1>23 DEF FileCommit, InPlan, InFile, Files, TypeOK
  <2>2. CASE failing = 0
    <3>1. applied' = applied \cup {cur} /\ cur' = cur + 1
      BY <1>23, <2>2 DEF FileCommit
    <3>2. \A f \in applied : f \in Nat /\ f < cur
      BY <2>1
    <3>3. \A f \in applied' : f < cur'
      BY <2>1, <3>1, <3>2
    <3> QED BY <1>23, <2>2, <3>1, <3>3 DEF FileCommit
  <2>3. CASE failing # 0
    BY <1>23, <2>1, <2>3 DEF FileCommit
  <2> QED BY <2>2, <2>3
<1>24. CASE Settle
    BY <1>24 DEF Settle, TypeOK
<1>25. CASE Restore
    BY <1>25 DEF Restore, TypeOK
<1>26. CASE MoveRestored
    BY <1>26 DEF MoveRestored
<1>27. CASE RestoreFails
    BY <1>27 DEF RestoreFails
<1>28. CASE RestoreCommit
    BY <1>28 DEF RestoreCommit
<1>29. CASE Conclude
    BY <1>29 DEF Conclude, Idle
<1> QED BY <1>1, <1>2, <1>3, <1>4, <1>5, <1>6, <1>7, <1>8, <1>9, <1>10, <1>11, <1>12, <1>13,
           <1>14, <1>15, <1>16, <1>17, <1>18, <1>19, <1>20, <1>21, <1>22, <1>23, <1>24,
           <1>25, <1>26, <1>27, <1>28, <1>29 DEF Next, Requests, Job, Loop, Outcome

\* The handler works on an accepted step.
LEMMA InPlanKept ==
    ASSUME TypeOK, Locals, InPlan, Next
    PROVE  InPlan'
<1> USE DEF outcome, books, locals, history, InPlan, InFile, Grouping
<1>1. CASE Resume
    BY <1>1 DEF Resume
<1>2. CASE NewRun
    BY <1>2 DEF NewRun
<1>3. CASE RequestCancel
    BY <1>3 DEF RequestCancel
<1>4. CASE Begin
    BY <1>4 DEF Begin
<1>5. CASE JobEnds
    BY <1>5 DEF JobEnds
<1>6. CASE Abort
    BY <1>6 DEF Abort, Idle
<1>7. CASE Crash
    BY <1>7 DEF Crash, Idle
<1>8. CASE Recover
    BY <1>8 DEF Recover
<1>9. CASE \E f \in Files : Foreign(f)
    BY <1>9 DEF Foreign
<1>10. CASE Refuse
    BY <1>10 DEF Refuse, Idle
<1>11. CASE Accept
    BY <1>11 DEF Accept
<1>12. CASE CancelSeen
    BY <1>12 DEF CancelSeen
<1>13. CASE Skip
    BY <1>13 DEF Skip
<1>14. CASE StartFile
  <2>1. cur \in Files
    BY <1>14, ConstantsAssumption DEF StartFile, TypeOK, Files
  <2> QED BY <1>14, <2>1 DEF StartFile, Locals
<1>15. CASE LoopEnds
    BY <1>15 DEF LoopEnds
<1>16. CASE CheckFails
    BY <1>16 DEF CheckFails, Locals, TypeOK
<1>17. CASE Intent
    BY <1>17 DEF Intent
<1>18. CASE Write
    BY <1>18 DEF Write
<1>19. CASE WriteFails
    BY <1>19 DEF WriteFails, Locals, TypeOK
<1>20. CASE WriteUncertain
    BY <1>20 DEF WriteUncertain, Locals,TypeOK
<1>21. CASE Written
  <2>1. DOMAIN plan[cur] = 1..Len(plan[cur]) /\ DOMAIN plan[cur] \subseteq 1..2
    BY <1>21, PlanFacts DEF Written, TypeOK
  <2> QED BY <1>21, <2>1 DEF Written, Locals
<1>22. CASE Group
    BY <1>22 DEF Group
<1>23. CASE FileCommit
    BY <1>23 DEF FileCommit
<1>24. CASE Settle
    BY <1>24 DEF Settle
<1>25. CASE Restore
    BY <1>25 DEF Restore
<1>26. CASE MoveRestored
    BY <1>26 DEF MoveRestored
<1>27. CASE RestoreFails
    BY <1>27 DEF RestoreFails
<1>28. CASE RestoreCommit
    BY <1>28 DEF RestoreCommit
<1>29. CASE Conclude
    BY <1>29 DEF Conclude, Idle
<1> QED BY <1>1, <1>2, <1>3, <1>4, <1>5, <1>6, <1>7, <1>8, <1>9, <1>10, <1>11, <1>12, <1>13,
           <1>14, <1>15, <1>16, <1>17, <1>18, <1>19, <1>20, <1>21, <1>22, <1>23, <1>24,
           <1>25, <1>26, <1>27, <1>28, <1>29 DEF Next, Requests, Job, Loop, Outcome


-----------------------------------------------------------------------------
(* What the steps of a rollback change.                                     *)

\* The journals of f but those in js keep their state; all keep their phase.
Rewrites(f, js) ==
    /\ \A g \in Files : g # f => log'[g] = log[g]
    /\ DOMAIN log'[f] = DOMAIN log[f]
    /\ \A i \in DOMAIN log[f] : /\ log'[f][i].phase = log[f][i].phase
                                /\ i \notin js => log'[f][i] = log[f][i]

\* Only f changes on disk, and it loses exactly those steps.
Loses(f, steps) ==
    disk'[f] = disk[f] \ steps /\ \A g \in Files : g # f => disk'[g] = disk[g]

\* One inverse: the step it takes off the disk, the journals it marks.
LEMMA RestoreFacts ==
    ASSUME TypeOK, Restore
    PROVE  \E f \in todo : \E i \in Undoable(f) :
              /\ f \in Files /\ NextToUndo(f, i) /\ i \in DOMAIN log[f]
              /\ Loses(f, {log[f][i].phase} \ {"grouping"})
              /\ \/ /\ log[f][i].phase = "tags" /\ undone' = {i}
                    /\ Rewrites(f, undone)
                    /\ \A j \in undone \cap DOMAIN log[f] : log'[f][j].state = "rolled_back"
                 \/ undone' = undone \cup {i} /\ log' = log
<1>1. PICK f \in todo : \E i \in Undoable(f) :
         /\ NextToUndo(f, i)
         /\ disk' = [disk EXCEPT ![f] = @ \ ({log[f][i].phase} \ {"grouping"})]
         /\ IF log[f][i].phase = "tags"
            THEN log' = Marked(f, undone, "rolled_back") /\ undone' = {i}
            ELSE undone' = undone \cup {i} /\ UNCHANGED log
    BY DEF Restore
<1>2. PICK i \in Undoable(f) :
         /\ NextToUndo(f, i)
         /\ disk' = [disk EXCEPT ![f] = @ \ ({log[f][i].phase} \ {"grouping"})]
         /\ IF log[f][i].phase = "tags"
            THEN log' = Marked(f, undone, "rolled_back") /\ undone' = {i}
            ELSE undone' = undone \cup {i} /\ UNCHANGED log
    BY <1>1
<1>3. f \in Files /\ i \in DOMAIN log[f]
    BY <1>2 DEF TypeOK, Undoable
<1>4. Loses(f, {log[f][i].phase} \ {"grouping"})
    BY <1>2, <1>3 DEF Loses, TypeOK
<1>5. log' = Marked(f, undone, "rolled_back") =>
          Rewrites(f, undone) /\ \A j \in undone \cap DOMAIN log[f] : log'[f][j].state = "rolled_back"
    BY <1>3, MarkedFacts DEF Rewrites, JournalStates
<1> QED BY <1>2, <1>3, <1>4, <1>5

\* The commit of a restored move marks what was flushed.
LEMMA MoveRestoredFacts ==
    ASSUME TypeOK, MoveRestored
    PROVE  \E f \in todo :
              /\ f \in Files /\ Last(f) /\ Rewrites(f, undone) /\ disk' = disk
              /\ \E i \in undone : Moved(f, i)
              /\ \A j \in undone \cap DOMAIN log[f] : log'[f][j].state = "rolled_back"
<1>1. PICK f \in todo : /\ Last(f) /\ log' = Marked(f, undone, "rolled_back")
                       /\ \E i \in undone : Moved(f, i)
    BY DEF MoveRestored
<1>2. f \in Files /\ disk' = disk
    BY DEF TypeOK, MoveRestored
<1>3. Rewrites(f, undone) /\ \A j \in undone \cap DOMAIN log[f] : log'[f][j].state = "rolled_back"
    BY <1>1, <1>2, MarkedFacts DEF Rewrites, JournalStates
<1> QED BY <1>1, <1>2, <1>3

\* A failed inverse leaves its own journal as it was, or open.
LEMMA RestoreFailsFacts ==
    ASSUME TypeOK, RestoreFails
    PROVE  \E f \in todo : \E i \in Undoable(f) : \E flushed \in {{}, undone} :
              /\ f \in Files /\ NextToUndo(f, i) /\ i \in DOMAIN log[f]
              /\ Rewrites(f, flushed \cup {i})
              /\ \A j \in (flushed \ {i}) \cap DOMAIN log[f] : log'[f][j].state = "rolled_back"
              /\ disk' = disk \/ Loses(f, {log[f][i].phase} \ {"grouping"})
              /\ log'[f][i].state = "writing" \/ log'[f][i] = log[f][i]
<1>1. PICK f \in todo : \E i \in Undoable(f) :
         /\ NextToUndo(f, i)
         /\ \/ /\ disk' \in {disk, [disk EXCEPT ![f] = @ \ ({log[f][i].phase} \ {"grouping"})]}
               /\ \E flushed \in {{}, undone} :
                     log' = [Marked(f, flushed, "rolled_back") EXCEPT ![f][i].state = "writing"]
            \/ log' = Marked(f, undone, "rolled_back") /\ UNCHANGED disk
    BY DEF RestoreFails
<1>2. PICK i \in Undoable(f) :
         /\ NextToUndo(f, i)
         /\ \/ /\ disk' \in {disk, [disk EXCEPT ![f] = @ \ ({log[f][i].phase} \ {"grouping"})]}
               /\ \E flushed \in {{}, undone} :
                     log' = [Marked(f, flushed, "rolled_back") EXCEPT ![f][i].state = "writing"]
            \/ log' = Marked(f, undone, "rolled_back") /\ UNCHANGED disk
    BY <1>1
<1>3. f \in Files /\ i \in DOMAIN log[f]
    BY <1>2 DEF TypeOK, Undoable
<1>4. disk' = disk \/ Loses(f, {log[f][i].phase} \ {"grouping"})
    BY <1>2, <1>3 DEF Loses, TypeOK
<1>5. CASE log' = Marked(f, undone, "rolled_back")
  <2>1. /\ Rewrites(f, undone)
        /\ \A j \in undone \cap DOMAIN log[f] : log'[f][j].state = "rolled_back"
    BY <1>3, <1>5, MarkedFacts DEF Rewrites, JournalStates
  <2>2. i \notin undone
    BY <1>2 DEF NextToUndo
  <2>3. log'[f][i] = log[f][i] /\ Rewrites(f, undone \cup {i})
    BY <1>3, <2>1, <2>2 DEF Rewrites
  <2> QED BY <1>2, <1>3, <1>4, <2>1, <2>3
<1>6. ASSUME NEW flushed \in {{}, undone},
             log' = [Marked(f, flushed, "rolled_back") EXCEPT ![f][i].state = "writing"]
      PROVE  /\ Rewrites(f, flushed \cup {i}) /\ log'[f][i].state = "writing"
             /\ \A j \in (flushed \ {i}) \cap DOMAIN log[f] : log'[f][j].state = "rolled_back"
    BY <1>3, <1>6, FailedFacts DEF Rewrites
<1>7. CASE \E flushed \in {{}, undone} :
              log' = [Marked(f, flushed, "rolled_back") EXCEPT ![f][i].state = "writing"]
    BY <1>2, <1>3, <1>4, <1>6, <1>7
<1> QED BY <1>2, <1>5, <1>7

\* The commit of a restored file takes it off the list.
LEMMA RestoreCommitFacts ==
    ASSUME TypeOK, RestoreCommit
    PROVE  \E f \in todo :
              /\ f \in Files /\ Last(f) /\ Undoable(f) \subseteq undone /\ todo' = todo \ {f}
              /\ Rewrites(f, undone) /\ Loses(f, {log[f][i].phase : i \in undone})
              /\ \A j \in undone \cap DOMAIN log[f] : log'[f][j].state = "rolled_back"
<1>1. PICK f \in todo :
         /\ Last(f) /\ Undoable(f) \subseteq undone
         /\ log' = Marked(f, undone, "rolled_back")
         /\ disk' = [disk EXCEPT ![f] = @ \ {log[f][i].phase : i \in undone}]
         /\ todo' = todo \ {f}
    BY DEF RestoreCommit
<1>2. f \in Files
    BY DEF TypeOK
<1>3. Rewrites(f, undone) /\ \A j \in undone \cap DOMAIN log[f] : log'[f][j].state = "rolled_back"
    BY <1>1, <1>2, MarkedFacts DEF Rewrites, JournalStates
<1>4. Loses(f, {log[f][i].phase : i \in undone})
    BY <1>1, <1>2 DEF Loses, TypeOK
<1> QED BY <1>1, <1>2, <1>3, <1>4

\* What the user accepted does not change.
LEMMA PlanStays ==
    ASSUME Next
    PROVE  /\ plan' = plan
           /\ \A f : Steps(f)' = Steps(f) /\ Grouping(f)' = Grouping(f)
           /\ \A f, n : Before(f, n)' = Before(f, n)
<1>1. plan' = plan
    BY DEF Next, Requests, Job, Loop, Outcome, Resume, NewRun, RequestCancel, Begin, JobEnds,
           Abort, Crash, Recover, Foreign, Refuse, Accept, CancelSeen, Skip, StartFile, LoopEnds,
           CheckFails, Intent, Write, WriteFails, WriteUncertain, Written, Group, FileCommit,
           Settle, Restore, MoveRestored, RestoreFails, RestoreCommit, Conclude
<1> QED BY <1>1 DEF Steps, Grouping, Before


-----------------------------------------------------------------------------
(* Journals, credits and effects.                                           *)

\* A new journal is of an accepted step.
LEMMA JournalPhases ==
    ASSUME TypeOK, OfPlan, cur \in Files, step \in DOMAIN plan[cur], NEW state \in JournalStates,
           log' = Journal(state)
    PROVE  \A f \in Files : \A i \in DOMAIN log'[f] : log'[f][i].phase \in Steps(f)
<1>1. phase \in Steps(cur)
    BY PlanFacts DEF TypeOK, phase
<1>0. /\ \A f \in Files : f # cur => log'[f] = log[f]
      /\ DOMAIN log'[cur] = DOMAIN log[cur] \cup {Len(log[cur]) + 1}
      /\ \A i \in DOMAIN log[cur] : log'[cur][i] = log[cur][i]
      /\ log'[cur][Len(log[cur]) + 1] = [phase |-> phase, state |-> state]
    BY JournalFacts
<1> SUFFICES ASSUME NEW f \in Files, NEW i \in DOMAIN log'[f]
             PROVE  log'[f][i].phase \in Steps(f)
    OBVIOUS
<1>2. CASE f # cur
    BY <1>0, <1>2 DEF OfPlan
<1>3. CASE f = cur /\ i \in DOMAIN log[cur]
    BY <1>0, <1>3 DEF OfPlan
<1>4. CASE f = cur /\ i = Len(log[cur]) + 1
    BY <1>0, <1>1, <1>4
<1> QED BY <1>0, <1>2, <1>3, <1>4

\* Accepted steps only, credited in their order.
LEMMA OfPlanKept ==
    ASSUME TypeOK, InPlan, OfPlan, IntentOnRecord, Next
    PROVE  OfPlan'
<1> USE DEF outcome, books, locals, history
<1>p. /\ plan' = plan
      /\ \A f : Steps(f)' = Steps(f) /\ Grouping(f)' = Grouping(f)
      /\ \A f, n : Before(f, n)' = Before(f, n)
    BY PlanStays
<1>1. CASE Resume
    BY <1>1, <1>p DEF Resume, OfPlan
<1>2. CASE NewRun
  <2>1. \A f \in Files : 1 \in 1..(Len(plan[f]) + 1) /\ Before(f, 1) = {}
    BY BeforeFacts, PlanFacts DEF TypeOK
  <2>2. \A f \in Files : DOMAIN log'[f] = {} /\ credited'[f] = {} /\ disk' = disk
    BY <1>2 DEF NewRun
  <2> QED BY <1>p, <2>1, <2>2 DEF OfPlan
<1>3. CASE RequestCancel
    BY <1>3, <1>p DEF RequestCancel, OfPlan
<1>4. CASE Begin
    BY <1>4, <1>p DEF Begin, OfPlan
<1>5. CASE JobEnds
    BY <1>5, <1>p DEF JobEnds, OfPlan
<1>6. CASE Abort
    BY <1>6, <1>p DEF Abort, Idle, OfPlan
<1>7. CASE Crash
    BY <1>7, <1>p DEF Crash, Idle, OfPlan
<1>8. CASE Recover
    BY <1>8, <1>p DEF Recover, OfPlan
<1>9. CASE \E f \in Files : Foreign(f)
    BY <1>9, <1>p DEF Foreign, OfPlan
<1>10. CASE Refuse
  <2>1. \A f \in Files : 1 \in 1..(Len(plan[f]) + 1) /\ Before(f, 1) = {}
    BY BeforeFacts, PlanFacts DEF TypeOK
  <2>2. \A f \in Files : log' = log /\ credited'[f] = {} /\ disk' = disk
    BY <1>10 DEF Refuse
  <2> QED BY <1>p, <2>1, <2>2 DEF OfPlan
<1>11. CASE Accept
    BY <1>11, <1>p DEF Accept, OfPlan
<1>12. CASE CancelSeen
    BY <1>12, <1>p DEF CancelSeen, OfPlan
<1>13. CASE Skip
    BY <1>13, <1>p DEF Skip, OfPlan
<1>14. CASE StartFile
    BY <1>14, <1>p DEF StartFile, OfPlan
<1>15. CASE LoopEnds
    BY <1>15, <1>p DEF LoopEnds, OfPlan
<1>16. CASE CheckFails
  <2>1. cur \in Files /\ step \in DOMAIN plan[cur] /\ phase \in Steps(cur)
    BY <1>16, PlanFacts DEF CheckFails, InPlan, InFile, TypeOK, phase
  <2>2. CASE log' = log
    BY <1>16, <1>p, <2>2 DEF CheckFails, OfPlan
  <2>3. CASE log' = Journal("failed")
    <3>1. \A f \in Files : \A i \in DOMAIN log'[f] : log'[f][i].phase \in Steps(f)
      BY <2>1, <2>3, JournalPhases DEF JournalStates
    <3> QED BY <1>16, <1>p, <3>1 DEF CheckFails, OfPlan
  <2> QED BY <1>16, <2>2, <2>3 DEF CheckFails
<1>17. CASE Intent
  <2>1. cur \in Files /\ step \in DOMAIN plan[cur] /\ phase \in Steps(cur)
    BY <1>17, PlanFacts DEF Intent, InPlan, InFile, TypeOK, phase
  <2>2. \A f \in Files : \A i \in DOMAIN log'[f] : log'[f][i].phase \in Steps(f)
    BY <1>17, <2>1, JournalPhases DEF Intent, JournalStates
  <2>3. step \in 1..(Len(plan[cur]) + 1)
    BY <2>1, PlanFacts DEF TypeOK
  <2>4. \A f \in Files : credited'[f] = IF f = cur THEN Before(cur, step) ELSE credited[f]
    BY <1>17 DEF Intent, TypeOK
  <2> QED BY <1>17, <1>p, <2>2, <2>3, <2>4 DEF Intent, OfPlan
<1>18. CASE Write
  <2>1. cur \in Files /\ phase \in Steps(cur)
    BY <1>18, PlanFacts DEF Write, InPlan, InFile, TypeOK, phase
  <2>2. \A f \in Files : disk'[f] = IF f = cur THEN disk[f] \cup {phase} ELSE disk[f]
    BY <1>18 DEF Write, TypeOK
  <2> QED BY <1>18, <1>p, <2>1, <2>2 DEF Write, OfPlan
<1>19. CASE WriteFails
  <2>1. cur \in Files
    BY <1>19 DEF WriteFails, InPlan, InFile
  <2>2. \A f \in Files : \A i \in DOMAIN log'[f] : log'[f][i].phase \in Steps(f)
    BY ZenonT(40), <1>19, <2>1, EndsFacts DEF WriteFails, OfPlan, JournalStates, IntentOnRecord
  <2> QED BY <1>19, <1>p, <2>2 DEF WriteFails, OfPlan
<1>20. CASE WriteUncertain
  <2>1. cur \in Files /\ phase \in Steps(cur)
    BY <1>20, PlanFacts DEF WriteUncertain, InPlan, InFile, TypeOK, phase
  <2>2. \A f \in Files : disk'[f] \subseteq IF f = cur THEN disk[f] \cup {phase} ELSE disk[f]
    BY <1>20 DEF WriteUncertain, TypeOK
  <2> QED BY <1>20, <1>p, <2>1, <2>2 DEF WriteUncertain, OfPlan
<1>21. CASE Written
  <2>1. cur \in Files
    BY <1>21 DEF Written, InPlan, InFile
  <2>2. \A f \in Files : \A i \in DOMAIN log'[f] : log'[f][i].phase \in Steps(f)
    BY ZenonT(40), <1>21, <2>1, EndsFacts DEF Written, OfPlan, JournalStates, IntentOnRecord
  <2> QED BY <1>21, <1>p, <2>2 DEF Written, OfPlan
<1>22. CASE Group
  <2>1. cur \in Files /\ step \in DOMAIN plan[cur] /\ phase \in Steps(cur)
    BY <1>22, PlanFacts DEF Group, InPlan, InFile, TypeOK, phase
  <2>2. \A f \in Files : \A i \in DOMAIN log'[f] : log'[f][i].phase \in Steps(f)
    BY <1>22, <2>1, JournalPhases DEF Group, JournalStates
  <2>3. Steps(cur) = {"grouping"} /\ Before(cur, 2) = Steps(cur) /\ 2 \in 1..(Len(plan[cur]) + 1)
    <3>1. Len(plan[cur]) = 1 /\ Steps(cur) = {"grouping"}
      BY <1>22, <2>1, CorrectionPlan DEF Group, TypeOK
    <3>2. Before(cur, Len(plan[cur]) + 1) = Steps(cur)
      BY <2>1, BeforeFacts DEF TypeOK
    <3>3. Len(plan[cur]) + 1 = 2
      BY <3>1
    <3> QED BY <3>1, <3>2, <3>3
  <2>4. \A f \in Files : /\ credited'[f] = IF f = cur THEN {"grouping"} ELSE credited[f]
                         /\ disk'[f] = IF f = cur THEN {"grouping"} ELSE disk[f]
    BY <1>22 DEF Group, TypeOK
  <2>5. \A f \in Files : /\ \E n \in 1..(Len(plan[f]) + 1) : credited'[f] = Before(f, n)
                         /\ disk'[f] \subseteq Steps(f)
    <3>1. ASSUME NEW f \in Files, f # cur
          PROVE  /\ \E n \in 1..(Len(plan[f]) + 1) : credited'[f] = Before(f, n)
                 /\ disk'[f] \subseteq Steps(f)
      BY <2>4, <3>1 DEF OfPlan
    <3>2. credited'[cur] = Before(cur, 2) /\ disk'[cur] = Steps(cur)
      BY <2>1, <2>3, <2>4
    <3> QED BY <2>3, <3>1, <3>2
  <2> QED BY <1>p, <2>2, <2>5 DEF OfPlan
<1>23. CASE FileCommit
  <2>1. cur \in Files
    BY <1>23 DEF FileCommit, InPlan, InFile
  <2>2. step \in 1..(Len(plan[cur]) + 1)
    <3>1. CASE failing = 0
      BY <1>23, <2>1, <3>1, PlanFacts DEF FileCommit, InPlan, TypeOK
    <3>2. CASE failing # 0
      BY <1>23, <2>1, <3>2, PlanFacts DEF FileCommit, InPlan, TypeOK
    <3> QED BY <3>1, <3>2
  <2>3. \A f \in Files : credited'[f] = IF f = cur THEN Before(cur, step) ELSE credited[f]
    BY <1>23 DEF FileCommit, TypeOK
  <2> QED BY <1>23, <1>p, <2>2, <2>3 DEF FileCommit, OfPlan
<1>24. CASE Settle
    BY <1>24, <1>p DEF Settle, OfPlan
<1>25. CASE Restore
  <2>1. PICK f \in Files : /\ Rewrites(f, undone) \/ log' = log
                         /\ \E steps : Loses(f, steps)
    BY <1>25, RestoreFacts
  <2> QED BY <1>25, <1>p, <2>1 DEF Restore, Rewrites, Loses, OfPlan
<1>26. CASE MoveRestored
  <2>1. PICK f \in Files : Rewrites(f, undone) /\ disk' = disk
    BY <1>26, MoveRestoredFacts
  <2> QED BY <1>26, <1>p, <2>1 DEF MoveRestored, Rewrites, OfPlan
<1>27. CASE RestoreFails
  <2>1. PICK f \in Files : \E i, flushed : /\ Rewrites(f, flushed \cup {i})
                                           /\ disk' = disk \/ \E steps : Loses(f, steps)
    BY <1>27, RestoreFailsFacts
  <2>2. \A g \in Files : disk'[g] \subseteq disk[g]
    BY <2>1 DEF Loses
  <2>3. \A g \in Files : \A i \in DOMAIN log'[g] : log'[g][i].phase \in Steps(g)
    BY <2>1 DEF Rewrites, OfPlan
  <2> QED BY <1>27, <1>p, <2>2, <2>3 DEF RestoreFails, OfPlan
<1>28. CASE RestoreCommit
  <2>1. PICK f \in Files : Rewrites(f, undone) /\ \E steps : Loses(f, steps)
    BY <1>28, RestoreCommitFacts
  <2> QED BY <1>28, <1>p, <2>1 DEF RestoreCommit, Rewrites, Loses, OfPlan
<1>29. CASE Conclude
  <2>1. \A f \in Files : 1 \in 1..(Len(plan[f]) + 1) /\ Before(f, 1) = {}
    BY BeforeFacts, PlanFacts DEF TypeOK
  <2>2. \A f \in Files : /\ log' = log /\ disk' = disk
                         /\ credited'[f] = credited[f] \/ credited'[f] = {}
    BY <1>29 DEF Conclude
  <2> QED BY <1>p, <2>1, <2>2 DEF OfPlan
<1> QED BY <1>1, <1>2, <1>3, <1>4, <1>5, <1>6, <1>7, <1>8, <1>9, <1>10, <1>11, <1>12, <1>13,
           <1>14, <1>15, <1>16, <1>17, <1>18, <1>19, <1>20, <1>21, <1>22, <1>23, <1>24,
           <1>25, <1>26, <1>27, <1>28, <1>29 DEF Next, Requests, Job, Loop, Outcome

\* The journal that an intent has written stays the last one, and open.
LEMMA IntentOnRecordKept ==
    ASSUME TypeOK, Control, InPlan, IntentOnRecord, Next
    PROVE  IntentOnRecord'
<1> USE DEF outcome, books, locals, history, IntentOnRecord, phase
<1>1. CASE Resume
    BY <1>1 DEF Resume
<1>2. CASE NewRun
    BY <1>2 DEF NewRun, Control
<1>3. CASE RequestCancel
    BY <1>3 DEF RequestCancel
<1>4. CASE Begin
    BY <1>4 DEF Begin, Control
<1>5. CASE JobEnds
    BY <1>5 DEF JobEnds
<1>6. CASE Abort
    BY <1>6 DEF Abort, Idle
<1>7. CASE Crash
    BY <1>7 DEF Crash, Idle
<1>8. CASE Recover
    BY <1>8 DEF Recover
<1>9. CASE \E f \in Files : Foreign(f)
    BY <1>9 DEF Foreign
<1>10. CASE Refuse
    BY <1>10 DEF Refuse, Idle
<1>11. CASE Accept
    BY <1>11 DEF Accept
<1>12. CASE CancelSeen
    BY <1>12 DEF CancelSeen
<1>13. CASE Skip
    BY <1>13 DEF Skip
<1>14. CASE StartFile
    BY <1>14 DEF StartFile
<1>15. CASE LoopEnds
    BY <1>15 DEF LoopEnds
<1>16. CASE CheckFails
    BY <1>16 DEF CheckFails
<1>17. CASE Intent
  <2>1. cur \in Files /\ step \in DOMAIN plan[cur]
    BY <1>17 DEF Intent, InPlan, InFile
  <2>2. /\ Len(log'[cur]) = Len(log[cur]) + 1
        /\ DOMAIN log'[cur] = DOMAIN log[cur] \cup {Len(log[cur]) + 1}
        /\ log'[cur][Len(log[cur]) + 1] = [phase |-> phase, state |-> "writing"]
    BY <1>17, <2>1, JournalFacts DEF Intent, JournalStates, phase
  <2>3. log'[cur] # <<>> /\ phase' = phase /\ cur' = cur
    BY <1>17, <2>2 DEF Intent, phase
  <2> QED BY <2>2, <2>3
<1>18. CASE Write
    BY <1>18 DEF Write, phase
<1>19. CASE WriteFails
    BY <1>19 DEF WriteFails
<1>20. CASE WriteUncertain
    BY <1>20 DEF WriteUncertain
<1>21. CASE Written
    BY <1>21 DEF Written
<1>22. CASE Group
    BY <1>22 DEF Group
<1>23. CASE FileCommit
    BY <1>23 DEF FileCommit
<1>24. CASE Settle
    BY <1>24 DEF Settle
<1>25. CASE Restore
    BY <1>25 DEF Restore
<1>26. CASE MoveRestored
    BY <1>26 DEF MoveRestored
<1>27. CASE RestoreFails
    BY <1>27 DEF RestoreFails
<1>28. CASE RestoreCommit
    BY <1>28 DEF RestoreCommit
<1>29. CASE Conclude
    BY <1>29 DEF Conclude, Idle
<1> QED BY <1>1, <1>2, <1>3, <1>4, <1>5, <1>6, <1>7, <1>8, <1>9, <1>10, <1>11, <1>12, <1>13,
           <1>14, <1>15, <1>16, <1>17, <1>18, <1>19, <1>20, <1>21, <1>22, <1>23, <1>24,
           <1>25, <1>26, <1>27, <1>28, <1>29 DEF Next, Requests, Job, Loop, Outcome


-----------------------------------------------------------------------------
(* The sets of journals a step leaves.                                      *)

\* A file whose journals stay has the same sets of them.
LEMMA SameLog ==
    ASSUME NEW f, log'[f] = log[f]
    PROVE  /\ \A s : In(f, s)' = In(f, s)
           /\ Live(f)' = Live(f) /\ Done(f)' = Done(f) /\ Undoable(f)' = Undoable(f)
BY DEF In, Live, Done, Undoable

\* A rollback opens no journal that was closed, and finishes none.
LEMMA RollbackLive ==
    ASSUME TypeOK, Restore \/ MoveRestored \/ RestoreFails \/ RestoreCommit
    PROVE  \A f \in Files : Live(f)' \subseteq Live(f) /\ In(f, "done")' \subseteq In(f, "done")
<1>1. ASSUME NEW f \in Files, NEW js, Rewrites(f, js),
             \A i \in js \cap DOMAIN log[f] : log'[f][i].state = "rolled_back"
      PROVE  \A g \in Files : Live(g)' \subseteq Live(g) /\ In(g, "done")' \subseteq In(g, "done")
  <2>1. \A g \in Files : g # f => Live(g)' = Live(g) /\ In(g, "done")' = In(g, "done")
    BY <1>1, SameLog DEF Rewrites
  <2>2. Live(f)' \subseteq Live(f) /\ In(f, "done")' \subseteq In(f, "done")
    BY <1>1 DEF Rewrites, Live, In
  <2> QED BY <2>1, <2>2
<1>2. CASE Restore
  <2>1. PICK f \in Files :
            \/ /\ Rewrites(f, undone)
               /\ \A j \in undone \cap DOMAIN log[f] : log'[f][j].state = "rolled_back"
            \/ log' = log
    BY <1>2, RestoreFacts
  <2> QED BY <1>1, <2>1, SameLog
<1>3. CASE MoveRestored
    BY <1>1, <1>3, MoveRestoredFacts
<1>4. CASE RestoreFails
  <2>1. PICK f \in todo : \E i \in Undoable(f) : \E flushed \in {{}, undone} :
              /\ f \in Files /\ i \in DOMAIN log[f]
              /\ Rewrites(f, flushed \cup {i})
              /\ \A j \in (flushed \ {i}) \cap DOMAIN log[f] : log'[f][j].state = "rolled_back"
              /\ log'[f][i].state = "writing" \/ log'[f][i] = log[f][i]
    BY <1>4, RestoreFailsFacts
  <2>2. PICK i \in Undoable(f), flushed \in {{}, undone} :
              /\ f \in Files /\ i \in DOMAIN log[f]
              /\ Rewrites(f, flushed \cup {i})
              /\ \A j \in (flushed \ {i}) \cap DOMAIN log[f] : log'[f][j].state = "rolled_back"
              /\ log'[f][i].state = "writing" \/ log'[f][i] = log[f][i]
    BY <2>1
  <2>3. \A g \in Files : g # f => Live(g)' = Live(g) /\ In(g, "done")' = In(g, "done")
    BY <2>2, SameLog DEF Rewrites
  <2>4. i \in Live(f)
    BY <2>2 DEF Undoable, Live, In
  <2>5. Live(f)' \subseteq Live(f) /\ In(f, "done")' \subseteq In(f, "done")
    BY <2>2, <2>4 DEF Rewrites, Live, In
  <2> QED BY <2>3, <2>5
<1>5. CASE RestoreCommit
    BY <1>1, <1>5, RestoreCommitFacts
<1> QED BY <1>2, <1>3, <1>4, <1>5

\* Unless a restoration fails it leaves no journal open that was not.
LEMMA RollbackOpensNone ==
    ASSUME TypeOK, Restore \/ MoveRestored \/ RestoreCommit
    PROVE  \A f \in Files : In(f, "writing")' \subseteq In(f, "writing")
<1>1. ASSUME NEW f \in Files, NEW js, Rewrites(f, js),
             \A i \in js \cap DOMAIN log[f] : log'[f][i].state = "rolled_back"
      PROVE  \A g \in Files : In(g, "writing")' \subseteq In(g, "writing")
  <2>1. \A g \in Files : g # f => In(g, "writing")' = In(g, "writing")
    BY <1>1, SameLog DEF Rewrites
  <2>2. In(f, "writing")' \subseteq In(f, "writing")
    BY <1>1 DEF Rewrites, In
  <2> QED BY <2>1, <2>2
<1>2. CASE Restore
  <2>1. PICK f \in Files :
            \/ /\ Rewrites(f, undone)
               /\ \A j \in undone \cap DOMAIN log[f] : log'[f][j].state = "rolled_back"
            \/ log' = log
    BY <1>2, RestoreFacts
  <2> QED BY <1>1, <2>1, SameLog
<1>3. CASE MoveRestored
    BY <1>1, <1>3, MoveRestoredFacts
<1>4. CASE RestoreCommit
    BY <1>1, <1>4, RestoreCommitFacts
<1> QED BY <1>2, <1>3, <1>4

\* Among the files left to roll back the one in hand is the last.
LEMMA LastIsOne ==
    ASSUME TypeOK, NEW f \in todo, NEW g \in todo, Last(f), Last(g)
    PROVE  f = g
<1>1. f \in Nat /\ g \in Nat /\ f <= g /\ g <= f
    BY ConstantsAssumption DEF TypeOK, Files, Last
<1> QED BY <1>1

\* What was uninterrupted at the end of a step was so before it, and where
\* collections are corrected that means no exception at all.
LEMMA UninterruptedFacts ==
    ASSUME TypeOK, Next
    PROVE  /\ aborts' = 0 => aborts = 0
           /\ Uninterrupted' => Uninterrupted
           /\ Uninterrupted => \A f \in Files : Grouping(f) => aborts = 0
<1>1. aborts' = aborts \/ aborts' = aborts + 1
    BY DEF Next, Requests, Job, Loop, Outcome, Resume, NewRun, RequestCancel, Begin, JobEnds,
           Abort, Crash, Recover, Foreign, Refuse, Accept, CancelSeen, Skip, StartFile, LoopEnds,
           CheckFails, Intent, Write, WriteFails, WriteUncertain, Written, Group, FileCommit,
           Settle, Restore, MoveRestored, RestoreFails, RestoreCommit, Conclude, history
<1>2. aborts' = 0 => aborts = 0
    BY <1>1 DEF TypeOK
<1> QED BY <1>2, PlanStays DEF Uninterrupted

\* Credits that hold all before a step, and not the step, are what comes
\* before it.
LEMMA BeforeExact ==
    ASSUME plan \in Manifests, NEW f \in Files, NEW n \in 1..(Len(plan[f]) + 1),
           NEW m \in DOMAIN plan[f], plan[f][m] \notin Before(f, n), Before(f, m) \subseteq Before(f, n)
    PROVE  Before(f, n) = Before(f, m)
<1>1. plan[f] \in Plans
    BY ConstantsAssumption
<1>2. CASE plan[f] = <<"tags">>
    BY <1>2 DEF Before
<1>3. CASE plan[f] = <<"move">>
    BY <1>3 DEF Before
<1>4. CASE plan[f] = <<"tags", "move">>
    BY <1>4 DEF Before
<1>5. CASE plan[f] = <<"grouping">>
    BY <1>5 DEF Before
<1> QED BY <1>1, <1>2, <1>3, <1>4, <1>5 DEF Plans

-----------------------------------------------------------------------------
(* What the loop has passed; corrections.                                   *)

\* The loop leaves a file behind with all of its steps credited.
LEMMA PassedKept ==
    ASSUME TypeOK, Control, Locals, InPlan, Passed, Next
    PROVE  Passed'
<1> USE DEF outcome, books, locals, history
<1>p. /\ plan' = plan
      /\ \A f : Steps(f)' = Steps(f) /\ Grouping(f)' = Grouping(f)
      /\ \A f, n : Before(f, n)' = Before(f, n)
    BY PlanStays
<1>1. CASE Resume
    BY <1>1, <1>p DEF Resume, Passed, InFile, Failed
<1>2. CASE NewRun
    BY <1>2, <1>p DEF NewRun, Passed, Control, InFile
<1>3. CASE RequestCancel
    BY <1>3, <1>p DEF RequestCancel, Passed, InFile, Failed
<1>4. CASE Begin
    BY <1>4, <1>p DEF Begin, Passed, Control, InFile
<1>5. CASE JobEnds
    BY <1>5, <1>p DEF JobEnds, Passed, InFile, Failed
<1>6. CASE Abort
    BY <1>6, <1>p DEF Abort, Idle, Passed, InFile, Failed
<1>7. CASE Crash
    BY <1>7, <1>p DEF Crash, Idle, Passed, InFile, Failed
<1>8. CASE Recover
    BY <1>8, <1>p DEF Recover, Passed, InFile, Failed
<1>9. CASE \E f \in Files : Foreign(f)
    BY <1>9, <1>p DEF Foreign, Passed, InFile, Failed
<1>10. CASE Refuse
    BY <1>10, <1>p DEF Refuse, Idle, Passed, InFile, Failed
<1>11. CASE Accept
  <2>1. \A f \in Files : ~(f < 1)
    BY ConstantsAssumption DEF Files
  <2> QED BY <1>11, <1>p, <2>1 DEF Accept, Locals, Passed, InFile
<1>12. CASE CancelSeen
    BY <1>12, <1>p DEF CancelSeen, Passed, Failed, InFile
<1>13. CASE Skip
  <2>1. cur \in Nat /\ Files \subseteq Nat /\ \A f \in Files : f < cur => credited[f] = Steps(f)
    BY <1>13, ConstantsAssumption DEF Skip, Passed, TypeOK, Files
  <2>2. \A f \in Files : f < cur + 1 => credited[f] = Steps(f)
    BY <1>13, <2>1 DEF Skip
  <2> QED BY <1>13, <1>p, <2>2 DEF Skip, Passed, InFile
<1>14. CASE StartFile
    BY <1>14, <1>p DEF StartFile, Passed, InFile, Failed
<1>15. CASE LoopEnds
  <2>1. \A f \in Files : f < cur
    BY <1>15, ConstantsAssumption DEF LoopEnds, Files, TypeOK
  <2> QED BY <1>15, <1>p, <2>1 DEF LoopEnds, Passed, InFile
<1>16. CASE CheckFails
    BY <1>16, <1>p DEF CheckFails, Passed, InFile, Failed
<1>17. CASE Intent
  <2>1. \A f \in Files : f # cur => credited'[f] = credited[f]
    BY <1>17 DEF Intent, TypeOK
  <2>2. \A f \in Files : f < cur => f # cur
    BY ConstantsAssumption DEF TypeOK, Files
  <2> QED BY <1>17, <1>p, <2>1, <2>2 DEF Intent, Passed, InFile
<1>18. CASE Write
    BY <1>18, <1>p DEF Write, Passed, InFile, Failed
<1>19. CASE WriteFails
    BY <1>19, <1>p DEF WriteFails, Passed, InFile, Failed
<1>20. CASE WriteUncertain
    BY <1>20, <1>p DEF WriteUncertain, Passed, InFile, Failed
<1>21. CASE Written
    BY <1>21, <1>p DEF Written, Passed, InFile, Failed
<1>22. CASE Group
  <2>1. cur \in Files /\ Files \subseteq Nat /\ \A f \in Files : f < cur => credited[f] = Steps(f)
    BY <1>22, ConstantsAssumption DEF Group, Passed, InPlan, InFile, Files
  <2>2. Steps(cur) = {"grouping"}
    BY <1>22, <2>1, CorrectionPlan DEF Group, TypeOK
  <2>3. \A f \in Files : credited'[f] = IF f = cur THEN {"grouping"} ELSE credited[f]
    BY <1>22 DEF Group, TypeOK
  <2>4. \A f \in Files : f < cur + 1 => credited'[f] = Steps(f)
    BY <2>1, <2>2, <2>3
  <2> QED BY <1>22, <1>p, <2>4 DEF Group, Passed, InFile
<1>23. CASE FileCommit
  <2>1. cur \in Files /\ Files \subseteq Nat /\ \A f \in Files : f < cur => credited[f] = Steps(f)
    BY <1>23, ConstantsAssumption DEF FileCommit, Passed, InPlan, InFile, Files
  <2>2. \A f \in Files : credited'[f] = IF f = cur THEN Before(cur, step) ELSE credited[f]
    BY <1>23 DEF FileCommit, TypeOK
  <2>3. CASE failing = 0
    <3>1. Before(cur, step) = Steps(cur)
      BY <1>23, <2>1, <2>3, BeforeFacts DEF FileCommit, InPlan, TypeOK
    <3>2. \A f \in Files : f < cur + 1 => credited'[f] = Steps(f)
      BY <2>1, <2>2, <3>1
    <3> QED BY <1>23, <1>p, <2>3, <3>2 DEF FileCommit, Passed, InFile
  <2>4. CASE failing # 0
    BY <1>23, <1>p, <2>4 DEF FileCommit, Passed, InFile, Failed
  <2> QED BY <2>3, <2>4
<1>24. CASE Settle
    BY <1>24, <1>p DEF Settle, Passed, InFile, Failed, Locals
<1>25. CASE Restore
    BY <1>25, <1>p DEF Restore, Passed, InFile, Failed
<1>26. CASE MoveRestored
    BY <1>26, <1>p DEF MoveRestored, Passed, InFile, Failed
<1>27. CASE RestoreFails
    BY <1>27, <1>p DEF RestoreFails, Passed, InFile, Failed
<1>28. CASE RestoreCommit
    BY <1>28, <1>p DEF RestoreCommit, Passed, InFile, Failed, Locals
<1>29. CASE Conclude
    BY <1>29, <1>p DEF Conclude, Idle, Passed, InFile, Failed
<1> QED BY <1>1, <1>2, <1>3, <1>4, <1>5, <1>6, <1>7, <1>8, <1>9, <1>10, <1>11, <1>12, <1>13,
           <1>14, <1>15, <1>16, <1>17, <1>18, <1>19, <1>20, <1>21, <1>22, <1>23, <1>24,
           <1>25, <1>26, <1>27, <1>28, <1>29 DEF Next, Requests, Job, Loop, Outcome

\* A correction is on record once, with its credit.
LEMMA CorrectionsKept ==
    ASSUME TypeOK, Control, Locals, InPlan, OfPlan, IntentOnRecord, Corrections, Next
    PROVE  Corrections'
<1> USE DEF outcome, books, locals, history
<1>p. /\ plan' = plan
      /\ \A f : Steps(f)' = Steps(f) /\ Grouping(f)' = Grouping(f)
      /\ \A f, n : Before(f, n)' = Before(f, n)
    BY PlanStays
<1>1. CASE Resume
  <2>1. \A f \in Files : Live(f)' = Live(f)
    BY <1>1, SameLog DEF Resume
  <2> QED BY <1>1, <1>p, <2>1 DEF Resume, Corrections
<1>2. CASE NewRun
  <2>1. \A f \in Files : Live(f)' = {}
    BY <1>2 DEF NewRun, Live, In
  <2> QED BY <1>2, <1>p, <2>1 DEF NewRun, Corrections, Control
<1>3. CASE RequestCancel
  <2>1. \A f \in Files : Live(f)' = Live(f)
    BY <1>3, SameLog DEF RequestCancel
  <2> QED BY <1>3, <1>p, <2>1 DEF RequestCancel, Corrections
<1>4. CASE Begin
  <2>1. \A f \in Files : Live(f)' = Live(f)
    BY <1>4, SameLog DEF Begin
  <2> QED BY <1>4, <1>p, <2>1 DEF Begin, Corrections, Control, Settled
<1>5. CASE JobEnds
  <2>1. \A f \in Files : Live(f)' = Live(f)
    BY <1>5, SameLog DEF JobEnds
  <2> QED BY <1>5, <1>p, <2>1 DEF JobEnds, Corrections
<1>6. CASE Abort
  <2>1. \A f \in Files : Live(f)' = Live(f)
    BY <1>6, SameLog DEF Abort
  <2> QED BY <1>6, <1>p, <2>1 DEF Abort, Corrections, Idle
<1>7. CASE Crash
  <2>1. \A f \in Files : Live(f)' = Live(f)
    BY <1>7, SameLog DEF Crash
  <2> QED BY <1>7, <1>p, <2>1 DEF Crash, Corrections, Idle
<1>8. CASE Recover
  <2>1. \A f \in Files : Live(f)' = Live(f)
    BY <1>8, SameLog DEF Recover
  <2> QED BY <1>8, <1>p, <2>1 DEF Recover, Corrections
<1>9. CASE \E f \in Files : Foreign(f)
  <2>1. \A f \in Files : Live(f)' = Live(f)
    BY <1>9, SameLog DEF Foreign
  <2> QED BY <1>9, <1>p, <2>1 DEF Foreign, Corrections
<1>10. CASE Refuse
  <2>1. \A f \in Files : Live(f)' = Live(f)
    BY <1>10, SameLog DEF Refuse
  <2> QED BY <1>10, <1>p, <2>1 DEF Refuse, Corrections, Idle
<1>11. CASE Accept
  <2>1. \A f \in Files : Live(f)' = Live(f)
    BY <1>11, SameLog DEF Accept
  <2> QED BY <1>11, <1>p, <2>1 DEF Accept, Corrections
<1>12. CASE CancelSeen
  <2>1. \A f \in Files : Live(f)' = Live(f)
    BY <1>12, SameLog DEF CancelSeen
  <2> QED BY <1>12, <1>p, <2>1 DEF CancelSeen, Corrections
<1>13. CASE Skip
  <2>1. \A f \in Files : Live(f)' = Live(f)
    BY <1>13, SameLog DEF Skip
  <2> QED BY <1>13, <1>p, <2>1 DEF Skip, Corrections
<1>14. CASE StartFile
  <2>1. \A f \in Files : Live(f)' = Live(f)
    BY <1>14, SameLog DEF StartFile
  <2>2. cur \in Files
    BY <1>14, ConstantsAssumption DEF StartFile, TypeOK, Files
  <2>3. Grouping(cur) => credited[cur] = {}
    <3>1. SUFFICES ASSUME Grouping(cur) PROVE credited[cur] = {}
      OBVIOUS
    <3>2. Len(plan[cur]) = 1 /\ Steps(cur) = {"grouping"} /\ plan[cur][1] = "grouping"
      BY <2>2, <3>1, CorrectionPlan DEF TypeOK
    <3>3. DOMAIN plan[cur] = 1..1
      BY <2>2, <3>2, PlanFacts DEF TypeOK
    <3>4. "grouping" \notin credited[cur]
      BY <1>14, <3>2, <3>3 DEF StartFile
    <3>5. credited[cur] \subseteq Steps(cur)
      BY <2>2, BeforeFacts DEF OfPlan, TypeOK
    <3> QED BY <3>2, <3>4, <3>5
  <2> QED BY <1>14, <1>p, <2>1, <2>3 DEF StartFile, Corrections
<1>15. CASE LoopEnds
  <2>1. \A f \in Files : Live(f)' = Live(f)
    BY <1>15, SameLog DEF LoopEnds
  <2> QED BY <1>15, <1>p, <2>1 DEF LoopEnds, Corrections
<1>16. CASE CheckFails
  <2>1. cur \in Files /\ step \in DOMAIN plan[cur] /\ run # "failed"
    BY <1>16 DEF CheckFails, InPlan, InFile, Control
  <2>2. \A f \in Files : f # cur => Live(f)' = Live(f)
    BY <1>16, <2>1, JournalFacts, SameLog DEF CheckFails, JournalStates
  <2>3. Grouping(cur) => Live(cur) = {}
    BY <1>16, <2>1 DEF CheckFails, Corrections
  <2>4. \A f \in Files : f = cur => Live(f)' = Live(f)
    <3>1. CASE log' = log
      BY <3>1, SameLog
    <3>2. CASE log' = Journal("failed")
      <4>1. /\ DOMAIN log'[cur] = DOMAIN log[cur] \cup {Len(log[cur]) + 1}
            /\ \A i \in DOMAIN log[cur] : i < Len(log[cur]) + 1 /\ log'[cur][i] = log[cur][i]
            /\ log'[cur][Len(log[cur]) + 1] = [phase |-> phase, state |-> "failed"]
        BY <2>1, <3>2, JournalFacts DEF JournalStates
      <4> QED BY <4>1 DEF Live, In
    <3> QED BY <1>16, <3>1, <3>2 DEF CheckFails
  <2>5. \A f \in Files : Live(f)' = Live(f) /\ (f = cur /\ Grouping(f) => Live(f)' = {})
    BY <2>2, <2>3, <2>4
  <2>6. pc' = "commit" /\ cur' = cur /\ credited' = credited /\ run' = run
    BY <1>16 DEF CheckFails
  <2> SUFFICES ASSUME NEW f \in Files, Grouping(f)
               PROVE  /\ \A i, j \in Live(f)' : i = j
                      /\ run' # "failed" /\ Live(f)' # {} => credited'[f] = {"grouping"}
                      /\ pc' = "commit" /\ cur' = f => Live(f)' = {}
    BY <1>p, <2>6 DEF Corrections
  <2> QED BY <2>5, <2>6 DEF Corrections
<1>17. CASE Intent
  <2>1. cur \in Files /\ step \in DOMAIN plan[cur] /\ ~Grouping(cur)
    BY <1>17 DEF Intent, InPlan, InFile, Grouping
  <2>2. \A f \in Files : f # cur => log'[f] = log[f]
    BY <1>17, <2>1, JournalFacts DEF Intent, JournalStates, IntentOnRecord
  <2>3. \A f \in Files : f # cur => Live(f)' = Live(f)
    BY <2>2, SameLog
  <2>4. cur' = cur /\ run' = run /\ \A f \in Files : f # cur => credited'[f] = credited[f]
    BY <1>17 DEF Intent, TypeOK
  <2> QED BY <1>p, <2>1, <2>3, <2>4 DEF Corrections
<1>18. CASE Write
  <2>1. \A f \in Files : Live(f)' = Live(f)
    BY <1>18, SameLog DEF Write
  <2> QED BY <1>18, <1>p, <2>1 DEF Write, Corrections
<1>19. CASE WriteFails
  <2>1. cur \in Files /\ step \in DOMAIN plan[cur] /\ ~Grouping(cur)
    BY <1>19 DEF WriteFails, InPlan, InFile, Grouping
  <2>2. \A f \in Files : f # cur => log'[f] = log[f]
    BY <1>19, <2>1, EndsFacts DEF WriteFails, JournalStates, IntentOnRecord
  <2>3. \A f \in Files : f # cur => Live(f)' = Live(f)
    BY <2>2, SameLog
  <2>4. cur' = cur /\ run' = run /\ \A f \in Files : f # cur => credited'[f] = credited[f]
    BY <1>19 DEF WriteFails, TypeOK
  <2> QED BY <1>p, <2>1, <2>3, <2>4 DEF Corrections
<1>20. CASE WriteUncertain
  <2>1. \A f \in Files : Live(f)' = Live(f)
    BY <1>20, SameLog DEF WriteUncertain
  <2> QED BY <1>20, <1>p, <2>1 DEF WriteUncertain, Corrections, InPlan
<1>21. CASE Written
  <2>1. cur \in Files /\ step \in DOMAIN plan[cur] /\ ~Grouping(cur)
    BY <1>21 DEF Written, InPlan, InFile, Grouping
  <2>2. \A f \in Files : f # cur => log'[f] = log[f]
    BY <1>21, <2>1, EndsFacts DEF Written, JournalStates, IntentOnRecord
  <2>3. \A f \in Files : f # cur => Live(f)' = Live(f)
    BY <2>2, SameLog
  <2>4. cur' = cur /\ run' = run /\ \A f \in Files : f # cur => credited'[f] = credited[f]
    BY <1>21 DEF Written, TypeOK
  <2> QED BY <1>p, <2>1, <2>3, <2>4 DEF Corrections
<1>22. CASE Group
  <2>1. cur \in Files /\ step \in DOMAIN plan[cur] /\ run # "failed"
    BY <1>22 DEF Group, InPlan, InFile, Control
  <2>2. \A f \in Files : f # cur => Live(f)' = Live(f)
    BY <1>22, <2>1, JournalFacts, SameLog DEF Group, JournalStates
  <2>3. Live(cur) = {}
    BY <1>22, <2>1 DEF Group, Corrections
  <2>4. \A f \in Files : f = cur => Live(f)' = {Len(log[cur]) + 1}
    <3>1. /\ DOMAIN log'[cur] = DOMAIN log[cur] \cup {Len(log[cur]) + 1}
          /\ \A i \in DOMAIN log[cur] : i < Len(log[cur]) + 1 /\ log'[cur][i] = log[cur][i]
          /\ log'[cur][Len(log[cur]) + 1] = [phase |-> phase, state |-> "done"]
      BY <1>22, <2>1, JournalFacts DEF Group, JournalStates
    <3> QED BY <2>3, <3>1 DEF Live, In
  <2>5. \A f \in Files : credited'[f] = IF f = cur THEN {"grouping"} ELSE credited[f]
    BY <1>22 DEF Group, TypeOK
  <2> QED BY <1>22, <1>p, <2>2, <2>4, <2>5 DEF Group, Corrections
<1>23. CASE FileCommit
  <2>1. \A f \in Files : Live(f)' = Live(f)
    BY <1>23, SameLog DEF FileCommit
  <2>2. \A f \in Files : f # cur => credited'[f] = credited[f]
    BY <1>23 DEF FileCommit, TypeOK
  <2> QED BY <1>23, <1>p, <2>1, <2>2 DEF FileCommit, Corrections, Locals, Control
<1>24. CASE Settle
  <2>1. \A f \in Files : Live(f)' = Live(f)
    BY <1>24, SameLog DEF Settle
  <2> QED BY <1>24, <1>p, <2>1 DEF Settle, Corrections
<1>25. CASE Restore
  <2>1. \A f \in Files : Live(f)' \subseteq Live(f)
    BY <1>25, RollbackLive
  <2> QED BY <1>25, <1>p, <2>1 DEF Restore, Corrections
<1>26. CASE MoveRestored
  <2>1. \A f \in Files : Live(f)' \subseteq Live(f)
    BY <1>26, RollbackLive
  <2> QED BY <1>26, <1>p, <2>1 DEF MoveRestored, Corrections
<1>27. CASE RestoreFails
  <2>1. \A f \in Files : Live(f)' \subseteq Live(f)
    BY <1>27, RollbackLive
  <2> QED BY <1>27, <1>p, <2>1 DEF RestoreFails, Corrections
<1>28. CASE RestoreCommit
  <2>1. \A f \in Files : Live(f)' \subseteq Live(f)
    BY <1>28, RollbackLive
  <2> QED BY <1>28, <1>p, <2>1 DEF RestoreCommit, Corrections
<1>29. CASE Conclude
  <2>1. \A f \in Files : Live(f)' = Live(f)
    BY <1>29, SameLog DEF Conclude
  <2> QED BY <1>29, <1>p, <2>1 DEF Conclude, Corrections, Idle, Control
<1> QED BY <1>1, <1>2, <1>3, <1>4, <1>5, <1>6, <1>7, <1>8, <1>9, <1>10, <1>11, <1>12, <1>13,
           <1>14, <1>15, <1>16, <1>17, <1>18, <1>19, <1>20, <1>21, <1>22, <1>23, <1>24,
           <1>25, <1>26, <1>27, <1>28, <1>29 DEF Next, Requests, Job, Loop, Outcome


-----------------------------------------------------------------------------
(* No change without a journal.                                             *)

\* These steps touch neither a file nor its journals nor its credits.
Calm == \/ Resume \/ RequestCancel \/ Begin \/ JobEnds \/ Abort \/ Crash \/ Recover
        \/ (\E f \in Files : Foreign(f))
        \/ Accept \/ CancelSeen \/ Skip \/ StartFile \/ LoopEnds \/ Settle

\* These steps change nothing that a change of the library is judged by.
LEMMA CalmFacts ==
    ASSUME Calm
    PROVE  log' = log /\ disk' = disk /\ credited' = credited
BY DEF Calm, Resume, RequestCancel, Begin, JobEnds, Abort, Crash, Recover, Foreign, Accept,
       CancelSeen, Skip, StartFile, LoopEnds, Settle, books

\* A live journal of f says p.
OnRecord(f, p) == \E i \in Live(f) : log[f][i].phase = p

\* WriteAhead in terms of the journals that are live.
LEMMA WriteAheadRecords ==
    WriteAhead <=> (Uninterrupted => \A f \in Files : \A p \in disk[f] : OnRecord(f, p))
BY DEF WriteAhead, OnRecord, Live, In

\* Every effect has its journal: written before, rolled back after.
LEMMA WriteAheadKept ==
    ASSUME IInv, Next
    PROVE  WriteAhead'
<1> USE DEF IInv
<1>s. \A f \in Files : \A p : log'[f] = log[f] /\ OnRecord(f, p) => OnRecord(f, p)'
    BY SameLog DEF OnRecord
<1> SUFFICES ASSUME Uninterrupted', NEW f \in Files, NEW p \in disk'[f]
             PROVE  OnRecord(f, p)'
    BY DEF WriteAhead, OnRecord, Live, In
<1>0. Uninterrupted /\ (Grouping(f) => aborts = 0)
    BY UninterruptedFacts
<1>1. p \in disk[f] => OnRecord(f, p)
    BY <1>0, WriteAheadRecords
<1>2. CASE Calm \/ Refuse \/ FileCommit \/ Conclude
  <2>1. log' = log /\ disk' = disk
    BY <1>2, CalmFacts DEF Refuse, FileCommit, Conclude
  <2> QED BY <1>s, <1>1, <2>1
<1>3. CASE NewRun
  <2>1. disk' = disk /\ run = "failed" /\ ~recovery /\ (~Grouping(f) => disk[f] = {})
    BY <1>3 DEF NewRun
  <2>2. Grouping(f) => disk[f] = {}
    BY <1>0, <2>1 DEF OutcomeIsTrue, FailedIsRestored
  <2> QED BY <2>1, <2>2
<1>4. CASE CheckFails
  <2>1. cur \in Files /\ step \in DOMAIN plan[cur] /\ disk' = disk
    BY <1>4 DEF CheckFails, InPlan, InFile
  <2>2. CASE log' = log
    BY <1>s, <1>1, <2>1, <2>2
  <2>3. CASE log' = Journal("failed")
    <3>1. /\ \A g \in Files : g # cur => log'[g] = log[g]
          /\ DOMAIN log'[cur] = DOMAIN log[cur] \cup {Len(log[cur]) + 1}
          /\ \A i \in DOMAIN log[cur] : log'[cur][i] = log[cur][i]
      BY <2>1, <2>3, JournalFacts DEF JournalStates
    <3> QED BY <1>1, <2>1, <3>1 DEF OnRecord, Live, In
  <2> QED BY <1>4, <2>2, <2>3 DEF CheckFails
<1>5. CASE Intent
  <2>1. cur \in Files /\ step \in DOMAIN plan[cur] /\ disk' = disk
    BY <1>5 DEF Intent, InPlan, InFile
  <2>2. /\ \A g \in Files : g # cur => log'[g] = log[g]
        /\ DOMAIN log'[cur] = DOMAIN log[cur] \cup {Len(log[cur]) + 1}
        /\ \A i \in DOMAIN log[cur] : log'[cur][i] = log[cur][i]
    BY <1>5, <2>1, JournalFacts DEF Intent, JournalStates
  <2> QED BY <1>1, <2>1, <2>2 DEF OnRecord, Live, In
<1>6. CASE Write \/ WriteUncertain
  <2>1. cur \in Files /\ log' = log /\ pc \in {"write", "written"}
    BY <1>6 DEF Write, WriteUncertain, InPlan, InFile
  <2>2. p \in disk[f] \/ (f = cur /\ p = phase)
    BY <1>6, <2>1 DEF Write, WriteUncertain, TypeOK
  <2>3. log[cur] \in Seq(Row) /\ log[cur] # <<>>
    BY <2>1 DEF TypeOK, Row, IntentOnRecord
  <2>4. Len(log[cur]) \in DOMAIN log[cur]
    BY <2>3, EmptySeq, LenProperties
  <2>5. OnRecord(cur, phase)
    BY <2>1, <2>4 DEF IntentOnRecord, OnRecord, Live, In
  <2> QED BY <1>s, <1>1, <2>1, <2>2, <2>5
<1>7. CASE WriteFails
  <2>1. cur \in Files /\ log[cur] # <<>> /\ pc = "write" /\ disk' = disk /\ step \in DOMAIN plan[cur]
    BY <1>7 DEF WriteFails, InPlan, InFile, IntentOnRecord
  <2>2. /\ \A g \in Files : g # cur => log'[g] = log[g]
        /\ DOMAIN log'[cur] = DOMAIN log[cur]
        /\ \A i \in DOMAIN log[cur] : i # Len(log[cur]) => log'[cur][i] = log[cur][i]
    BY <1>7, <2>1, EndsFacts DEF WriteFails, JournalStates
  <2>3. phase \notin disk[cur]
    BY <1>0, <2>1, BeforeFacts DEF InLoop, phase, TypeOK
  <2>4. log[cur][Len(log[cur])].phase = phase
    BY <2>1 DEF IntentOnRecord
  <2> QED BY <1>1, <2>1, <2>2, <2>3, <2>4 DEF OnRecord, Live, In
<1>8. CASE Written
  <2>1. cur \in Files /\ log[cur] # <<>> /\ disk' = disk
    BY <1>8 DEF Written, InPlan, InFile, IntentOnRecord
  <2>2. /\ \A g \in Files : g # cur => log'[g] = log[g]
        /\ DOMAIN log'[cur] = DOMAIN log[cur]
        /\ \A i \in DOMAIN log[cur] : log'[cur][i].phase = log[cur][i].phase
        /\ \A i \in DOMAIN log[cur] : i # Len(log[cur]) => log'[cur][i] = log[cur][i]
        /\ log'[cur][Len(log[cur])].state = "done"
    BY <1>8, <2>1, EndsFacts DEF Written, JournalStates
  <2> QED BY <1>1, <2>1, <2>2 DEF OnRecord, Live, In
<1>9. CASE Group
  <2>1. cur \in Files /\ step \in DOMAIN plan[cur] /\ phase = "grouping"
    <3>1. cur \in Files /\ step \in DOMAIN plan[cur] /\ Grouping(cur)
      BY <1>9 DEF Group, InPlan, InFile
    <3>2. phase \in Steps(cur) /\ Steps(cur) = {"grouping"}
      BY <3>1, PlanFacts, CorrectionPlan DEF TypeOK, phase
    <3> QED BY <3>1, <3>2
  <2>2. /\ \A g \in Files : g # cur => log'[g] = log[g]
        /\ DOMAIN log'[cur] = DOMAIN log[cur] \cup {Len(log[cur]) + 1}
        /\ log'[cur][Len(log[cur]) + 1] = [phase |-> phase, state |-> "done"]
    BY <1>9, <2>1, JournalFacts DEF Group, JournalStates
  <2>3. disk'[f] = IF f = cur THEN {"grouping"} ELSE disk[f]
    BY <1>9 DEF Group, TypeOK
  <2>4. CASE f = cur
    BY <2>1, <2>2, <2>3, <2>4 DEF OnRecord, Live, In
  <2>5. CASE f # cur
    BY <1>s, <1>1, <2>2, <2>3, <2>5
  <2> QED BY <2>4, <2>5
<1>10. CASE Restore
  <2>0. PICK g \in todo : \E i \in Undoable(g) :
            /\ g \in Files /\ NextToUndo(g, i) /\ i \in DOMAIN log[g]
            /\ Loses(g, {log[g][i].phase} \ {"grouping"})
            /\ \/ log[g][i].phase = "tags" /\ Rewrites(g, undone)
               \/ log' = log
    BY <1>10, RestoreFacts
  <2>1. PICK i \in Undoable(g) :
            /\ g \in Files /\ NextToUndo(g, i) /\ i \in DOMAIN log[g]
            /\ Loses(g, {log[g][i].phase} \ {"grouping"})
            /\ \/ log[g][i].phase = "tags" /\ Rewrites(g, undone)
               \/ log' = log
    BY <2>0
  <2>2. p \in disk[f] /\ OnRecord(f, p)
    BY <1>1, <2>1 DEF Loses
  <2>3. CASE log' = log \/ f # g
    BY <1>s, <2>1, <2>2, <2>3 DEF Rewrites
  <2>4. CASE log[g][i].phase = "tags" /\ Rewrites(g, undone) /\ f = g
    <3>1. ~Grouping(g) /\ p # "grouping"
      BY <2>1, <2>2, <2>4, CorrectionPlan DEF OfPlan, TypeOK
    <3>2. \A k \in undone : log[f][k].phase # p
      BY <1>10, <2>1, <2>2, <2>4, <3>1 DEF Flushed, Restore, NextToUndo
    <3> QED BY <2>2, <2>4, <3>2 DEF OnRecord, Live, In, Rewrites
  <2> QED BY <2>1, <2>3, <2>4
<1>11. CASE MoveRestored
  <2>1. PICK g \in todo : /\ g \in Files /\ Last(g) /\ Rewrites(g, undone) /\ disk' = disk
                          /\ \E i \in undone : Moved(g, i)
    BY <1>11, MoveRestoredFacts
  <2>2. p \in disk[f] /\ OnRecord(f, p)
    BY <1>1, <2>1
  <2>3. CASE f # g
    BY <1>s, <2>1, <2>2, <2>3 DEF Rewrites
  <2>4. CASE f = g
    <3>1. PICK i \in undone : log[g][i].phase = "move" /\ i \in Undoable(g)
      BY <1>11, <2>1 DEF Moved, Flushed, MoveRestored
    <3>2. "move" \in Steps(g)
      BY <2>1, <3>1 DEF OfPlan, Undoable
    <3>3. ~Grouping(g) /\ p # "grouping"
      BY <2>1, <2>2, <2>4, <3>2, CorrectionPlan DEF OfPlan, TypeOK
    <3>4. \A k \in undone : log[f][k].phase # p
      BY <1>11, <2>1, <2>2, <2>4, <3>3 DEF Flushed, MoveRestored
    <3> QED BY <2>1, <2>2, <2>4, <3>4 DEF OnRecord, Live, In, Rewrites
  <2> QED BY <2>3, <2>4
<1>12. CASE RestoreFails
  <2>0. PICK g \in todo : \E i \in Undoable(g) : \E flushed \in {{}, undone} :
            /\ g \in Files /\ NextToUndo(g, i) /\ i \in DOMAIN log[g]
            /\ Rewrites(g, flushed \cup {i})
            /\ disk' = disk \/ Loses(g, {log[g][i].phase} \ {"grouping"})
            /\ log'[g][i].state = "writing" \/ log'[g][i] = log[g][i]
    BY <1>12, RestoreFailsFacts
  <2>1. PICK i \in Undoable(g), flushed \in {{}, undone} :
            /\ g \in Files /\ NextToUndo(g, i) /\ i \in DOMAIN log[g]
            /\ Rewrites(g, flushed \cup {i})
            /\ disk' = disk \/ Loses(g, {log[g][i].phase} \ {"grouping"})
            /\ log'[g][i].state = "writing" \/ log'[g][i] = log[g][i]
    BY <2>0
  <2>2. p \in disk[f] /\ OnRecord(f, p)
    BY <1>1, <2>1 DEF Loses
  <2>3. CASE f # g
    BY <1>s, <2>1, <2>2, <2>3 DEF Rewrites
  <2>4. CASE f = g
    <3>1. PICK k \in Live(g) : log[g][k].phase = p
      BY <2>2, <2>4 DEF OnRecord
    <3>2. i \in Live(g) /\ i \in Live(g)'
      BY <2>1 DEF Undoable, Live, In, Rewrites
    <3>3. k \in undone => k = i
      <4>1. k \in undone => p = "grouping"
        BY <1>12, <2>1, <2>2, <2>4, <3>1 DEF Flushed, RestoreFails, NextToUndo
      <4>2. p = "grouping" => Grouping(g)
        BY <2>1, <2>2, <2>4, CorrectionPlan DEF OfPlan, TypeOK
      <4> QED BY <2>1, <3>1, <3>2, <4>1, <4>2 DEF Corrections
    <3>4. k # i => k \in Live(g)'
      BY <2>1, <3>1, <3>3 DEF Live, In, Rewrites
    <3>5. k \in Live(g)' /\ log'[g][k].phase = p
      BY <2>1, <3>1, <3>2, <3>4 DEF Live, In, Rewrites
    <3> QED BY <2>4, <3>5 DEF OnRecord
  <2> QED BY <2>3, <2>4
<1>13. CASE RestoreCommit
  <2>1. PICK g \in todo : /\ g \in Files /\ Rewrites(g, undone)
                          /\ Loses(g, {log[g][i].phase : i \in undone})
    BY <1>13, RestoreCommitFacts
  <2>2. p \in disk[f] /\ OnRecord(f, p)
    BY <1>1, <2>1 DEF Loses
  <2>3. CASE f # g
    BY <1>s, <2>1, <2>2, <2>3 DEF Rewrites
  <2>4. CASE f = g
    <3>1. \A k \in undone : log[g][k].phase # p
      BY <2>1, <2>4 DEF Loses
    <3> QED BY <2>1, <2>2, <2>4, <3>1 DEF OnRecord, Live, In, Rewrites
  <2> QED BY <2>3, <2>4
<1> QED BY <1>2, <1>3, <1>4, <1>5, <1>6, <1>7, <1>8, <1>9, <1>10, <1>11, <1>12, <1>13
        DEF Next, Requests, Job, Loop, Outcome, Calm


-----------------------------------------------------------------------------
(* The rollback.                                                            *)

\* What is no step of the handler leaves it where it stands, or where it
\* starts.
Outside == Requests \/ Job \/ \E f \in Files : Foreign(f)

\* Such a step ends the handler, starts it, or leaves all of it alone.
LEMMA OutsideFacts ==
    ASSUME Control, Outside
    PROVE  \/ pc' \in {"idle", "preflight"}
           \/ UNCHANGED <<log, disk, credited, pc, cur, step, applied, failing, cancelled,
                          unresolved, todo, undone, lost, run, aborts>>
<1> USE DEF Control, outcome, books, locals, history
<1>1. CASE Resume \/ NewRun \/ Begin \/ JobEnds \/ Recover
    BY <1>1 DEF Resume, NewRun, Begin, JobEnds, Recover
<1>2. CASE Abort \/ Crash
    BY <1>2 DEF Abort, Crash, Idle
<1>3. CASE RequestCancel \/ \E f \in Files : Foreign(f)
    BY <1>3 DEF RequestCancel, Foreign
<1> QED BY <1>1, <1>2, <1>3 DEF Outside, Requests, Job

\* What is flushed stays the newest of the file in hand.
LEMMA FlushedKept ==
    ASSUME IInv, Next
    PROVE  Flushed'
<1> USE DEF IInv
<1>0. undone' = {} => Flushed'
    BY DEF Flushed
<1>1. CASE Outside
  <2>1. CASE pc' \in {"idle", "preflight"}
    BY <2>1 DEF Flushed
  <2>2. CASE UNCHANGED <<log, disk, pc, todo, undone>>
    BY <2>2 DEF Flushed, Last, Undoable
  <2> QED BY <1>1, <2>1, <2>2, OutsideFacts
<1>2. CASE Loop \/ Conclude \/ RestoreFails
  <2>1. pc' # "rollback"
    BY <1>2 DEF Loop, Refuse, Accept, CancelSeen, Skip, StartFile, LoopEnds, CheckFails, Intent,
                Write, WriteFails, WriteUncertain, Written, Group, FileCommit, Conclude,
                RestoreFails, Idle
  <2> QED BY <2>1 DEF Flushed
<1>3. CASE Settle \/ MoveRestored \/ RestoreCommit
  <2>1. undone' = {}
    BY <1>3 DEF Settle, MoveRestored, RestoreCommit, Locals
  <2> QED BY <1>0, <2>1
<1>4. CASE Restore
  <2>0. PICK g \in todo : \E i \in Undoable(g) :
            /\ g \in Files /\ NextToUndo(g, i) /\ i \in DOMAIN log[g]
            /\ Loses(g, {log[g][i].phase} \ {"grouping"})
            /\ \/ /\ log[g][i].phase = "tags" /\ undone' = {i}
                  /\ Rewrites(g, undone)
                  /\ \A j \in undone \cap DOMAIN log[g] : log'[g][j].state = "rolled_back"
               \/ undone' = undone \cup {i} /\ log' = log
    BY <1>4, RestoreFacts
  <2>1. PICK i \in Undoable(g) :
            /\ g \in Files /\ NextToUndo(g, i) /\ i \in DOMAIN log[g]
            /\ Loses(g, {log[g][i].phase} \ {"grouping"})
            /\ \/ /\ log[g][i].phase = "tags" /\ undone' = {i}
                  /\ Rewrites(g, undone)
                  /\ \A j \in undone \cap DOMAIN log[g] : log'[g][j].state = "rolled_back"
               \/ undone' = undone \cup {i} /\ log' = log
    BY <2>0
  <2>2. pc = "rollback" /\ todo' = todo
    BY <1>4 DEF Restore
  <2>3. /\ Last(g) /\ i \notin undone
        /\ \A j \in Undoable(g) \ undone : j <= i
        /\ undone \subseteq Undoable(g)
        /\ \A k \in undone, j \in Undoable(g) \ undone : j < k
        /\ \A k \in undone : log[g][k].phase \in disk[g] => log[g][k].phase = "grouping"
    BY <2>1, <2>2 DEF Flushed, NextToUndo
  <2>4. Undoable(g) \subseteq Nat
    <3>1. log[g] \in Seq(Row)
      BY <2>1 DEF TypeOK, Row
    <3>2. DOMAIN log[g] \subseteq Nat
      BY <3>1
    <3> QED BY <3>2 DEF Undoable
  <2>5. \A f \in todo : Last(f)' => f = g
    BY <2>2, <2>3, LastIsOne DEF Last
  <2>6. disk'[g] = disk[g] \ ({log[g][i].phase} \ {"grouping"})
    BY <2>1 DEF Loses
  <2>7. /\ undone' \subseteq Undoable(g)'
        /\ \A k \in undone', j \in Undoable(g)' \ undone' : j < k
        /\ \A k \in undone' : log'[g][k].phase \in disk'[g] => log'[g][k].phase = "grouping"
    <3>1. CASE log' = log /\ undone' = undone \cup {i}
      <4>1. Undoable(g)' = Undoable(g)
        BY <3>1, SameLog
      <4>2. \A j \in Undoable(g) \ undone' : j < i
        BY <2>1, <2>3, <2>4, <3>1
      <4> QED BY <2>1, <2>3, <2>6, <3>1, <4>1, <4>2
    <3>2. CASE /\ Rewrites(g, undone) /\ undone' = {i}
               /\ \A j \in undone \cap DOMAIN log[g] : log'[g][j].state = "rolled_back"
      <4>1. log'[g][i] = log[g][i] /\ i \in Undoable(g)'
        BY <2>1, <2>3, <3>2 DEF Rewrites, Undoable
      <4>2. Undoable(g)' \subseteq Undoable(g) \ undone
        BY <3>2 DEF Rewrites, Undoable
      <4>3. \A j \in Undoable(g)' \ {i} : j < i
        BY <2>1, <2>3, <2>4, <4>2
      <4> QED BY <2>6, <3>2, <4>1, <4>3
    <3> QED BY <2>1, <3>1, <3>2
  <2> QED BY <2>2, <2>5, <2>7 DEF Flushed
<1> QED BY <1>1, <1>2, <1>3, <1>4 DEF Next, Outside, Outcome

\* What is still in effect on a file keeps its finished journal.
LEMMA DoneKept ==
    ASSUME IInv, Restore \/ MoveRestored
    PROVE  \A f \in Files : disk[f] \subseteq Done(f) => disk'[f] \subseteq Done(f)'
<1> USE DEF IInv
<1>0. pc = "rollback"
    BY DEF Restore, MoveRestored
<1>1. ASSUME NEW g \in Files, g \in todo, Last(g), ~Grouping(g), Rewrites(g, undone),
             \A f \in Files : disk'[f] \subseteq disk[f]
      PROVE  \A f \in Files : disk[f] \subseteq Done(f) => disk'[f] \subseteq Done(f)'
  <2> SUFFICES ASSUME NEW f \in Files, disk[f] \subseteq Done(f), NEW p \in disk'[f]
               PROVE  p \in Done(f)'
    OBVIOUS
  <2>1. CASE f # g
    BY <1>1, <2>1, SameLog DEF Rewrites
  <2>2. CASE f = g
    <3>1. PICK i \in In(g, "done") : log[g][i].phase = p
      BY <1>1, <2>2 DEF Done
    <3>2. p \in disk[g] /\ p # "grouping"
      BY <1>1, <2>2, CorrectionPlan DEF OfPlan, TypeOK
    <3>3. i \notin undone
      BY <1>0, <1>1, <3>1, <3>2 DEF Flushed
    <3> QED BY <1>1, <2>2, <3>1, <3>3 DEF Done, In, Rewrites
  <2> QED BY <2>1, <2>2
<1>2. CASE Restore
  <2>0. PICK g \in todo : \E i \in Undoable(g) :
            /\ g \in Files /\ NextToUndo(g, i) /\ i \in DOMAIN log[g]
            /\ Loses(g, {log[g][i].phase} \ {"grouping"})
            /\ \/ log[g][i].phase = "tags" /\ Rewrites(g, undone)
               \/ log' = log
    BY <1>2, RestoreFacts
  <2>1. PICK i \in Undoable(g) :
            /\ g \in Files /\ NextToUndo(g, i) /\ i \in DOMAIN log[g]
            /\ Loses(g, {log[g][i].phase} \ {"grouping"})
            /\ \/ log[g][i].phase = "tags" /\ Rewrites(g, undone)
               \/ log' = log
    BY <2>0
  <2>2. \A f \in Files : disk'[f] \subseteq disk[f]
    BY <2>1 DEF Loses
  <2>3. CASE log' = log
    BY <2>2, <2>3, SameLog
  <2>4. CASE log[g][i].phase = "tags" /\ Rewrites(g, undone)
    <3>1. ~Grouping(g)
      BY <2>1, <2>4, CorrectionPlan DEF OfPlan, TypeOK
    <3> QED BY <1>1, <2>1, <2>2, <2>4, <3>1 DEF NextToUndo
  <2> QED BY <2>1, <2>3, <2>4
<1>3. CASE MoveRestored
  <2>1. PICK g \in todo : /\ g \in Files /\ Last(g) /\ Rewrites(g, undone) /\ disk' = disk
                          /\ \E i \in undone : Moved(g, i)
    BY <1>3, MoveRestoredFacts
  <2>2. PICK i \in undone : log[g][i].phase = "move" /\ i \in Undoable(g)
    BY <1>0, <2>1 DEF Moved, Flushed
  <2>3. "move" \in Steps(g)
    BY <2>1, <2>2 DEF OfPlan, Undoable
  <2>4. ~Grouping(g)
    BY <2>1, <2>3, CorrectionPlan DEF TypeOK
  <2> QED BY <1>1, <2>1, <2>4
<1> QED BY <1>2, <1>3

\* The rollback leaves nothing of a file it has passed.
LEMMA RolledBackKept ==
    ASSUME IInv, Next
    PROVE  RolledBack'
<1> USE DEF IInv
<1>u. Uninterrupted' => Uninterrupted
    BY UninterruptedFacts
<1>1. CASE Outside
  <2>1. CASE pc' \in {"idle", "preflight"}
    BY <2>1 DEF RolledBack
  <2>2. CASE UNCHANGED <<log, disk, pc, applied, failing, cancelled, unresolved, todo, lost>>
    BY <1>u, <2>2 DEF RolledBack, In, Done, Failed
  <2> QED BY <1>1, <2>1, <2>2, OutsideFacts
<1>2. CASE Loop \/ Conclude
  <2>1. pc' \notin {"rollback", "conclude"}
    BY <1>2 DEF Loop, Refuse, Accept, CancelSeen, Skip, StartFile, LoopEnds, CheckFails, Intent,
                Write, WriteFails, WriteUncertain, Written, Group, FileCommit, Conclude, Idle
  <2> QED BY <2>1 DEF RolledBack
<1>3. CASE RestoreFails
    BY <1>3 DEF RestoreFails, RolledBack
<1>4. CASE Settle
  <2> SUFFICES ASSUME Uninterrupted'
               PROVE  /\ ~unresolved' => \A f \in Files : In(f, "writing")' = {}
                      /\ \A f \in todo' \cap applied' : disk'[f] \subseteq Done(f)'
                      /\ Failed' => applied' \subseteq todo'
                      /\ ~unresolved' /\ failing' # 0 /\ failing' \notin todo' => disk'[failing'] = {}
    BY DEF RolledBack
  <2>1. /\ pc = "settle" /\ log' = log /\ disk' = disk /\ applied' = applied /\ failing' = failing
        /\ cancelled' = cancelled /\ lost' = lost
        /\ unresolved' = \E f \in Files : In(f, "writing") # {}
        /\ todo' = IF cancelled \/ failing # 0 \/ unresolved'
                   THEN applied \cup {f \in {failing} \ {0} : Undoable(f) # {}}
                   ELSE {}
    BY <1>4 DEF Settle
  <2>2. Uninterrupted
    BY <1>u
  <2>3. ~unresolved' => \A f \in Files : In(f, "writing")' = {}
    BY <2>1, SameLog
  <2>4. \A f \in applied : f \in Files /\ f # failing
    BY ConstantsAssumption DEF Locals, TypeOK, Files
  <2>5. \A f \in todo' \cap applied' : disk'[f] \subseteq Done(f)'
    BY <2>1, <2>2, <2>4, SameLog DEF InLoop, Quiet
  <2>6. Failed' => applied' \subseteq todo'
    BY <2>1 DEF Failed, Locals
  <2>7. ~unresolved' /\ failing' # 0 /\ failing' \notin todo' => disk'[failing'] = {}
    <3>1. SUFFICES ASSUME ~unresolved', failing # 0, failing \notin todo' PROVE disk[failing] = {}
      BY <2>1
    <3>2. failing \in Files /\ Undoable(failing) = {} /\ In(failing, "writing") = {}
      BY <2>1, <3>1 DEF TypeOK
    <3>3. Live(failing) = {}
      BY <3>2 DEF Undoable, Live, In
    <3> QED BY <2>2, <3>2, <3>3, WriteAheadRecords DEF OnRecord
  <2> QED BY <2>3, <2>5, <2>6, <2>7
<1>5. CASE Restore \/ MoveRestored
  <2>1. /\ pc = "rollback" /\ applied' = applied /\ failing' = failing /\ cancelled' = cancelled
        /\ unresolved' = unresolved /\ todo' = todo /\ lost' = lost
    BY <1>5 DEF Restore, MoveRestored
  <2>2. \A f \in Files : In(f, "writing")' \subseteq In(f, "writing")
    BY <1>5, RollbackOpensNone
  <2>3. \A f \in Files : disk'[f] \subseteq disk[f]
    BY <1>5, RestoreFacts, MoveRestoredFacts DEF Loses
  <2>4. \A f \in Files : disk[f] \subseteq Done(f) => disk'[f] \subseteq Done(f)'
    BY <1>5, DoneKept
  <2>5. applied \subseteq Files /\ (failing # 0 => failing \in Files)
    BY DEF TypeOK
  <2>6. Failed' <=> Failed
    BY <2>1 DEF Failed
  <2> SUFFICES ASSUME Uninterrupted', ~lost
               PROVE  /\ ~unresolved => \A f \in Files : In(f, "writing")' = {}
                      /\ \A f \in todo \cap applied : disk'[f] \subseteq Done(f)'
                      /\ Failed => \A f \in applied \ todo : disk'[f] = {}
                      /\ ~unresolved /\ failing # 0 /\ failing \notin todo => disk'[failing] = {}
    BY <2>1, <2>6 DEF RolledBack
  <2>7. /\ ~unresolved => \A f \in Files : In(f, "writing") = {}
        /\ \A f \in todo \cap applied : disk[f] \subseteq Done(f)
        /\ Failed => \A f \in applied \ todo : disk[f] = {}
        /\ ~unresolved /\ failing # 0 /\ failing \notin todo => disk[failing] = {}
    BY <1>u, <2>1 DEF RolledBack
  <2>8. ~unresolved => \A f \in Files : In(f, "writing")' = {}
    BY <2>2, <2>7
  <2>9. \A f \in todo \cap applied : disk'[f] \subseteq Done(f)'
    BY <2>4, <2>5, <2>7
  <2>10. Failed => \A f \in applied \ todo : disk'[f] = {}
    BY <2>3, <2>5, <2>7
  <2>11. ~unresolved /\ failing # 0 /\ failing \notin todo => disk'[failing] = {}
    BY <2>3, <2>5, <2>7
  <2> QED BY <2>8, <2>9, <2>10, <2>11
<1>6. CASE RestoreCommit
  <2>1. /\ pc = "rollback" /\ applied' = applied /\ failing' = failing /\ cancelled' = cancelled
        /\ unresolved' = unresolved /\ lost' = lost
    BY <1>6 DEF RestoreCommit
  <2>2. PICK g \in todo :
            /\ g \in Files /\ Undoable(g) \subseteq undone /\ todo' = todo \ {g}
            /\ Rewrites(g, undone) /\ Loses(g, {log[g][i].phase : i \in undone})
    BY <1>6, RestoreCommitFacts
  <2>3. \A f \in Files : In(f, "writing")' \subseteq In(f, "writing")
    BY <1>6, RollbackOpensNone
  <2>4. Done(g) \subseteq {log[g][i].phase : i \in undone}
    BY <2>2 DEF Done, In, Undoable
  <2>5. disk[g] \subseteq Done(g) => disk'[g] = {}
    BY <2>2, <2>4 DEF Loses
  <2>6. applied \subseteq Files /\ (failing # 0 => failing \in Files)
    BY DEF TypeOK
  <2>7. Failed' <=> Failed
    BY <2>1 DEF Failed
  <2> SUFFICES ASSUME Uninterrupted', ~lost
               PROVE  /\ ~unresolved => \A f \in Files : In(f, "writing")' = {}
                      /\ \A f \in todo' \cap applied : disk'[f] \subseteq Done(f)'
                      /\ Failed => \A f \in applied \ todo' : disk'[f] = {}
                      /\ ~unresolved /\ failing # 0 /\ failing \notin todo' => disk'[failing] = {}
    BY <2>1, <2>7 DEF RolledBack
  <2>8. /\ ~unresolved => \A f \in Files : In(f, "writing") = {}
        /\ \A f \in todo \cap applied : disk[f] \subseteq Done(f)
        /\ Failed => \A f \in applied \ todo : disk[f] = {}
        /\ ~unresolved /\ failing # 0 /\ failing \notin todo => disk[failing] = {}
    BY <1>u, <2>1 DEF RolledBack
  <2>9. ~unresolved => disk[g] \subseteq Done(g)
    <3>1. ~unresolved => Live(g) = In(g, "done")
      BY <2>2, <2>8 DEF Live
    <3> QED BY <1>u, <2>2, <3>1, WriteAheadRecords DEF OnRecord, Done
  <2>10. ~unresolved => \A f \in Files : In(f, "writing")' = {}
    BY <2>3, <2>8
  <2>11. \A f \in todo' \cap applied : disk'[f] \subseteq Done(f)'
    BY <2>2, <2>6, <2>8, SameLog DEF Rewrites, Loses
  <2>12. Failed => \A f \in applied \ todo' : disk'[f] = {}
    <3>1. Failed => \A f \in applied \ todo : f # g /\ disk'[f] = {}
      BY <2>2, <2>6, <2>8 DEF Loses
    <3>2. g \in applied => disk'[g] = {}
      BY <2>2, <2>5, <2>8
    <3> QED BY <2>2, <3>1, <3>2
  <2>13. ~unresolved /\ failing # 0 /\ failing \notin todo' => disk'[failing] = {}
    <3>1. CASE failing = g
      BY <2>5, <2>9, <3>1
    <3>2. CASE failing # g
      BY <2>2, <2>6, <2>8, <3>2 DEF Loses
    <3> QED BY <3>1, <3>2
  <2> QED BY <2>10, <2>11, <2>12, <2>13
<1> QED BY <1>1, <1>2, <1>3, <1>4, <1>5, <1>6 DEF Next, Outside, Outcome


-----------------------------------------------------------------------------
(* The loop.                                                                *)

\* A file whose journals, credits and steps stay is as quiet as before.
LEMMA StaysQuiet ==
    ASSUME NEW f, log'[f] = log[f], credited'[f] = credited[f], disk'[f] = disk[f]
    PROVE  Quiet(f)' = Quiet(f) /\ Done(f)' = Done(f)
BY SameLog DEF Quiet

\* In an accepted run every file is what its credits say.
LEMMA AcceptedIsQuiet ==
    ASSUME IInv, Accept, Uninterrupted, NEW f \in Files
    PROVE  Quiet(f)
<1> USE DEF IInv
<1>1. CASE ~Grouping(f)
    BY <1>1 DEF Accept, SourcesVerified, SourceVerified, Quiet
<1>2. CASE Grouping(f)
  <2>1. aborts = 0 /\ pc = "preflight" /\ run = "applying" /\ job = "running"
    BY <1>2 DEF Accept, Uninterrupted, Control
  <2>2. Untouched(f)
    BY <2>1 DEF FirstExecution, Settled
  <2> QED BY <2>2 DEF Untouched, Quiet
<1> QED BY <1>1, <1>2

\* The loop keeps the library in step with the credits.
LEMMA InLoopKept ==
    ASSUME IInv, Next
    PROVE  InLoop'
<1> USE DEF IInv
<1>p. /\ plan' = plan
      /\ \A f : Steps(f)' = Steps(f) /\ Grouping(f)' = Grouping(f)
      /\ \A f, n : Before(f, n)' = Before(f, n)
    BY PlanStays
<1>u. Uninterrupted' => Uninterrupted
    BY UninterruptedFacts
<1>c. cur \in Files => cur # 0
    BY DEF Files
<1>1. CASE Outside
  <2>1. CASE pc' \in {"idle", "preflight"}
    BY <2>1 DEF InLoop, InFile
  <2>2. CASE UNCHANGED <<log, disk, credited, pc, cur, step, failing, cancelled, unresolved, lost>>
    <3>1. \A f : Quiet(f)' = Quiet(f) /\ Done(f)' = Done(f) /\ In(f, "writing")' = In(f, "writing")
      BY <2>2, StaysQuiet, SameLog
    <3> QED BY <1>p, <1>u, <2>2, <3>1 DEF InLoop, InFile, Failed
  <2> QED BY <1>1, <2>1, <2>2, OutsideFacts
<1>2. CASE Refuse \/ Conclude
    BY <1>2 DEF Refuse, Conclude, Idle, InLoop, InFile
<1>3. CASE Restore \/ MoveRestored
    BY <1>3 DEF Restore, MoveRestored, InLoop, InFile
<1>4. CASE RestoreFails
    BY <1>4 DEF RestoreFails, InLoop, InFile, Failed
<1>5. CASE RestoreCommit
    BY <1>5 DEF RestoreCommit, InLoop, InFile, Failed, Locals
<1>6. CASE Accept
  <2>1. pc' = "loop" /\ log' = log /\ disk' = disk /\ credited' = credited
    BY <1>6 DEF Accept, books
  <2>2. Uninterrupted => \A f \in Files : Quiet(f)
    BY <1>6, AcceptedIsQuiet
  <2>3. \A f \in Files : Quiet(f)' = Quiet(f)
    BY <2>1, StaysQuiet
  <2> QED BY <1>u, <2>1, <2>2, <2>3 DEF InLoop, InFile
<1>7. CASE CancelSeen \/ LoopEnds \/ Skip
  <2>1. pc = "loop" /\ pc' \in {"loop", "settle"} /\ log' = log /\ disk' = disk /\ credited' = credited
    BY <1>7 DEF CancelSeen, LoopEnds, Skip, books
  <2>2. \A f \in Files : Quiet(f)' = Quiet(f)
    BY <2>1, StaysQuiet
  <2> QED BY <1>u, <2>1, <2>2 DEF InLoop, InFile
<1>8. CASE StartFile
  <2>1. /\ pc = "loop" /\ pc' = "check" /\ cur' = cur /\ log' = log /\ disk' = disk
        /\ credited' = credited
    BY <1>8 DEF StartFile, books
  <2>2. cur \in Files
    BY <1>8, ConstantsAssumption DEF StartFile, TypeOK, Files
  <2>3. /\ step' \in DOMAIN plan[cur] /\ plan[cur][step'] \notin credited[cur]
        /\ Before(cur, step') \subseteq credited[cur]
    BY <1>8 DEF StartFile
  <2>4. credited[cur] = Before(cur, step')
    <3>1. PICK n \in 1..(Len(plan[cur]) + 1) : credited[cur] = Before(cur, n)
      BY <2>2 DEF OfPlan
    <3> QED BY <2>2, <2>3, <3>1, BeforeExact DEF TypeOK
  <2>5. \A f \in Files : Quiet(f)' = Quiet(f) /\ Done(f)' = Done(f)
    BY <2>1, StaysQuiet
  <2>6. \A n : Before(cur, n)' = Before(cur, n)
    BY <1>p, <2>1
  <2>7. Uninterrupted => (\A f \in Files : Quiet(f))
    BY <2>1 DEF InLoop
  <2>8. Uninterrupted => disk[cur] = Before(cur, step') /\ Before(cur, step') \subseteq Done(cur)
    BY <2>2, <2>4, <2>7 DEF Quiet
  <2>9. (\A f \in Files : f = cur => Done(f)' = Done(f)) => Done(cur)' = Done(cur)
    BY <2>1, <2>2
  <2> QED BY <1>u, <2>1, <2>5, <2>6, <2>7, <2>8, <2>9 DEF InLoop, InFile
<1>9. CASE CheckFails \/ WriteFails \/ WriteUncertain
  <2>1. cur \in Files /\ InFile /\ pc # "commit"
    BY <1>9 DEF CheckFails, WriteFails, WriteUncertain, InPlan, InFile
  <2>2. pc' = "commit" /\ failing' = cur /\ cur' = cur /\ credited' = credited
    BY <1>9 DEF CheckFails, WriteFails, WriteUncertain, books
  <2>3. \A f \in Files : f # cur => disk'[f] = disk[f]
    BY <1>9, <2>1 DEF CheckFails, WriteFails, WriteUncertain, TypeOK
  <2>4. \A f \in Files : f # cur => log'[f] = log[f]
    <3>1. CASE CheckFails
      BY <3>1, <2>1, JournalFacts DEF CheckFails, InPlan, JournalStates
    <3>2. CASE WriteFails
      BY <3>2, <2>1, EndsFacts DEF WriteFails, IntentOnRecord, JournalStates
    <3>3. CASE WriteUncertain
      BY <3>3 DEF WriteUncertain
    <3> QED BY <1>9, <3>1, <3>2, <3>3
  <2>5. \A f \in Files : f # cur => Quiet(f)' = Quiet(f)
    BY <2>2, <2>3, <2>4, StaysQuiet
  <2> QED BY <1>c, <1>u, <2>1, <2>2, <2>5 DEF InLoop, InFile
<1>10. CASE Intent
  <2>1. cur \in Files /\ step \in DOMAIN plan[cur] /\ pc = "check" /\ pc' = "write"
    BY <1>10 DEF Intent, InPlan, InFile
  <2>2. /\ \A f \in Files : f # cur => log'[f] = log[f]
        /\ DOMAIN log'[cur] = DOMAIN log[cur] \cup {Len(log[cur]) + 1}
        /\ \A i \in DOMAIN log[cur] : log'[cur][i] = log[cur][i]
    BY <1>10, <2>1, JournalFacts DEF Intent, JournalStates
  <2>3. /\ cur' = cur /\ step' = step /\ disk' = disk
        /\ \A f \in Files : f # cur => credited'[f] = credited[f]
    BY <1>10 DEF Intent, locals, TypeOK
  <2>4. \A f \in Files : f # cur => Quiet(f)' = Quiet(f)
    BY <2>2, <2>3, StaysQuiet
  <2>5. \A f \in Files : f = cur => Done(f) \subseteq Done(f)'
    BY <2>2 DEF Done, In
  <2>6. Done(cur) \subseteq Done(cur)' /\ Before(cur, step)' = Before(cur, step)
    BY <1>p, <2>1, <2>3, <2>5
  <2> QED BY <1>u, <2>1, <2>3, <2>4, <2>6 DEF InLoop, InFile
<1>11. CASE Write
  <2>1. cur \in Files /\ step \in DOMAIN plan[cur] /\ pc = "write" /\ pc' = "written"
    BY <1>11 DEF Write, InPlan, InFile
  <2>2. /\ cur' = cur /\ step' = step /\ log' = log /\ credited' = credited
        /\ \A f \in Files : f # cur => disk'[f] = disk[f]
        /\ disk'[cur] = disk[cur] \cup {phase}
    BY <1>11, <2>1 DEF Write, books, locals, TypeOK
  <2>3. \A f \in Files : f # cur => Quiet(f)' = Quiet(f)
    BY <2>2, StaysQuiet
  <2>4. \A f \in Files : Done(f)' = Done(f)
    BY <2>2, SameLog
  <2>5. Done(cur)' = Done(cur) /\ \A n : Before(cur, n)' = Before(cur, n)
    BY <1>p, <2>1, <2>2, <2>4
  <2>6. Before(cur, step + 1) = Before(cur, step) \cup {phase}
    BY <2>1, BeforeFacts DEF TypeOK, phase
  <2> QED BY <1>u, <2>1, <2>2, <2>3, <2>5, <2>6 DEF InLoop, InFile
<1>12. CASE Written
  <2>1. /\ cur \in Files /\ step \in DOMAIN plan[cur] /\ log[cur] # <<>> /\ pc = "written"
        /\ log[cur][Len(log[cur])] = [phase |-> phase, state |-> "writing"]
    BY <1>12 DEF Written, InPlan, InFile, IntentOnRecord
  <2>2. /\ \A f \in Files : f # cur => log'[f] = log[f]
        /\ DOMAIN log'[cur] = DOMAIN log[cur] /\ Len(log[cur]) \in DOMAIN log[cur]
        /\ \A i \in DOMAIN log[cur] : i # Len(log[cur]) => log'[cur][i] = log[cur][i]
        /\ \A i \in DOMAIN log[cur] : log'[cur][i].phase = log[cur][i].phase
        /\ log'[cur][Len(log[cur])].state = "done"
    BY <1>12, <2>1, EndsFacts DEF Written, JournalStates
  <2>3. /\ cur' = cur /\ step' = step + 1 /\ disk' = disk /\ credited' = credited
        /\ failing' = failing
        /\ pc' = IF step < Len(plan[cur]) THEN "check" ELSE "commit"
    BY <1>12 DEF Written, books
  <2>4. \A f \in Files : f # cur => Quiet(f)' = Quiet(f)
    BY <2>2, <2>3, StaysQuiet
  <2>5. \A f \in Files : f = cur => Done(f) \cup {phase} \subseteq Done(f)'
    <3>1. \A i \in In(cur, "done") : i # Len(log[cur])
      BY <2>1 DEF In
    <3> QED BY <2>1, <2>2, <3>1 DEF Done, In
  <2>6. Done(cur) \cup {phase} \subseteq Done(cur)' /\ \A n : Before(cur, n)' = Before(cur, n)
    BY <1>p, <2>1, <2>3, <2>5
  <2>7. Before(cur, step + 1) = Before(cur, step) \cup {phase}
    BY <2>1, BeforeFacts DEF TypeOK, phase
  <2>8. ~(step < Len(plan[cur])) => Before(cur, step + 1) = Steps(cur)
    <3>1. ~(step < Len(plan[cur])) => step = Len(plan[cur])
      BY <2>1, PlanFacts DEF TypeOK
    <3> QED BY <2>1, <3>1, BeforeFacts DEF TypeOK
  <2>9. Steps(cur)' = Steps(cur)
    BY <1>p, <2>3
  <2> SUFFICES ASSUME Uninterrupted'
               PROVE  /\ \A f \in Files : f # cur => Quiet(f)'
                      /\ disk'[cur] = Before(cur, step + 1)
                      /\ Before(cur, step + 1) \subseteq Done(cur)'
    BY <2>3, <2>6, <2>8, <2>9 DEF InLoop, InFile
  <2> QED BY <1>u, <2>1, <2>3, <2>4, <2>6, <2>7 DEF InLoop, InFile
<1>13. CASE Group
  <2>1. cur \in Files /\ step \in DOMAIN plan[cur] /\ pc = "check" /\ pc' = "loop" /\ Grouping(cur)
    BY <1>13 DEF Group, InPlan, InFile
  <2>2. phase = "grouping"
    <3>1. phase \in Steps(cur) /\ Steps(cur) = {"grouping"}
      BY <2>1, PlanFacts, CorrectionPlan DEF TypeOK, phase
    <3> QED BY <3>1
  <2>3. /\ \A f \in Files : f # cur => log'[f] = log[f]
        /\ DOMAIN log'[cur] = DOMAIN log[cur] \cup {Len(log[cur]) + 1}
        /\ log'[cur][Len(log[cur]) + 1] = [phase |-> "grouping", state |-> "done"]
    BY <1>13, <2>1, <2>2, JournalFacts DEF Group, JournalStates
  <2>4. \A f \in Files : /\ credited'[f] = IF f = cur THEN {"grouping"} ELSE credited[f]
                         /\ disk'[f] = IF f = cur THEN {"grouping"} ELSE disk[f]
    BY <1>13 DEF Group, TypeOK
  <2>5. \A f \in Files : f # cur => Quiet(f)' = Quiet(f)
    BY <2>3, <2>4, StaysQuiet
  <2>6. \A f \in Files : f = cur => "grouping" \in Done(f)'
    BY <2>3 DEF Done, In
  <2>7. \A f \in Files : f = cur => Quiet(f)'
    BY <2>4, <2>6 DEF Quiet
  <2>8. Uninterrupted => \A f \in Files : f # cur => Quiet(f)
    BY <2>1 DEF InLoop, InFile
  <2> QED BY <1>u, <2>1, <2>5, <2>7, <2>8 DEF InLoop, InFile
<1>14. CASE FileCommit
  <2>1. cur \in Files /\ pc = "commit" /\ log' = log /\ disk' = disk /\ failing' = failing
    BY <1>14 DEF FileCommit, InPlan, InFile
  <2>2. \A f \in Files : credited'[f] = IF f = cur THEN Before(cur, step) ELSE credited[f]
    BY <1>14 DEF FileCommit, TypeOK
  <2>3. \A f \in Files : f # cur => Quiet(f)' = Quiet(f)
    BY <2>1, <2>2, StaysQuiet
  <2>4. Uninterrupted => \A f \in Files : f # cur => Quiet(f)
    BY <2>1 DEF InLoop, InFile
  <2>5. CASE failing = 0
    <3>1. Before(cur, step) = Steps(cur)
      BY <2>1, <2>5, BeforeFacts DEF InPlan, TypeOK
    <3>2. Uninterrupted => disk[cur] = Steps(cur) /\ Steps(cur) \subseteq Done(cur)
      BY <2>1, <2>5 DEF InLoop
    <3>3. \A f \in Files : f = cur => Done(f)' = Done(f)
      BY <2>1, SameLog
    <3>4. Uninterrupted => \A f \in Files : f = cur => Quiet(f)'
      BY <2>1, <2>2, <3>1, <3>2, <3>3 DEF Quiet
    <3>5. pc' = "loop"
      BY <1>14, <2>5 DEF FileCommit
    <3> QED BY <1>u, <2>3, <2>4, <3>4, <3>5 DEF InLoop, InFile
  <2>6. CASE failing # 0
    <3>1. pc' = "settle" /\ failing = cur
      BY <1>14, <2>6 DEF FileCommit, Locals
    <3> QED BY <1>u, <2>1, <2>3, <2>4, <3>1 DEF InLoop, InFile
  <2> QED BY <2>5, <2>6
<1>15. CASE Settle
  <2>1. /\ pc = "settle" /\ log' = log /\ disk' = disk /\ credited' = credited
        /\ failing' = failing /\ pc' \in {"conclude", "rollback"}
        /\ unresolved' = \E f \in Files : In(f, "writing") # {}
    BY <1>15 DEF Settle, books
  <2>2. \A f \in Files : Quiet(f)' = Quiet(f) /\ In(f, "writing")' = In(f, "writing")
    BY <2>1, StaysQuiet, SameLog
  <2>3. Uninterrupted => \A f \in Files : f # failing => Quiet(f)
    BY <2>1 DEF InLoop
  <2>4. ~Failed' => failing = 0 /\ \A f \in Files : In(f, "writing") = {}
    BY <2>1 DEF Failed
  <2>5. \A f \in Files : f # 0
    BY DEF Files
  <2> QED BY <1>u, <2>1, <2>2, <2>3, <2>4, <2>5 DEF InLoop, InFile
<1> QED BY <1>1, <1>2, <1>3, <1>4, <1>5, <1>6, <1>7, <1>8, <1>9, <1>10, <1>11, <1>12, <1>13,
           <1>14, <1>15 DEF Next, Outside, Loop, Outcome


-----------------------------------------------------------------------------
(* The first execution, and what a run tells.                               *)

\* A file that no step touched is as untouched as before.
LEMMA StaysUntouched ==
    ASSUME NEW f, log'[f] = log[f], credited'[f] = credited[f], disk'[f] = disk[f]
    PROVE  Untouched(f)' = Untouched(f)
BY DEF Untouched

\* A file that the rollback touches is one the loop has been at.
LEMMA RollbackFile ==
    ASSUME TypeOK, Restore \/ MoveRestored \/ RestoreFails \/ RestoreCommit
    PROVE  \E g \in todo : \A f \in Files : f # g => log'[f] = log[f] /\ disk'[f] = disk[f]
<1>1. CASE Restore
    BY <1>1, RestoreFacts DEF Rewrites, Loses
<1>2. CASE MoveRestored
    BY <1>2, MoveRestoredFacts DEF Rewrites
<1>3. CASE RestoreFails
    BY <1>3, RestoreFailsFacts DEF Rewrites, Loses
<1>4. CASE RestoreCommit
    BY <1>4, RestoreCommitFacts DEF Rewrites, Loses
<1> QED BY <1>1, <1>2, <1>3, <1>4

\* Without exceptions a run has one execution.
LEMMA FirstExecutionKept ==
    ASSUME IInv, Next
    PROVE  FirstExecution'
<1> USE DEF IInv
<1>a. aborts' = 0 => aborts = 0
    BY UninterruptedFacts
<1> SUFFICES ASSUME aborts' = 0, aborts = 0 PROVE FirstExecution'
    BY <1>a DEF FirstExecution
<1>x. run \notin Settled /\ pc \in {"idle", "preflight"} /\ job # "dead" =>
          \A f \in Files : Untouched(f)
    BY DEF FirstExecution
<1>y. pc # "idle" => \A f \in Files :
          f \in applied \/ f = failing \/ (InFile /\ f = cur) \/ Untouched(f)
    BY DEF FirstExecution
<1>z. pc = "rollback" => \A f \in Files \ todo : In(f, "done") = {}
    BY DEF FirstExecution
<1>0. \A f \in Files : f # 0
    BY DEF Files
<1>1. CASE Resume \/ JobEnds \/ RequestCancel \/ \E f \in Files : Foreign(f)
  <2>1. /\ log' = log /\ disk' = disk /\ credited' = credited /\ pc' = pc /\ run' = run
        /\ cur' = cur /\ applied' = applied /\ failing' = failing /\ todo' = todo
        /\ job' # "dead" => job # "dead"
    BY <1>1 DEF Resume, JobEnds, RequestCancel, Foreign, outcome, books, locals
  <2>2. \A f \in Files : Untouched(f)' = Untouched(f) /\ In(f, "done")' = In(f, "done")
    BY <2>1, StaysUntouched, SameLog
  <2> QED BY <1>x, <1>y, <1>z, <2>1, <2>2 DEF FirstExecution, InFile
<1>2. CASE NewRun
  <2>1. /\ run = "failed" /\ ~recovery /\ disk' = disk /\ pc' = pc /\ pc = "idle"
        /\ \A f \in Files : log'[f] = <<>> /\ credited'[f] = {}
    BY <1>2 DEF NewRun, Control
  <2>2. \A f \in Files : disk[f] = {}
    BY <2>1 DEF OutcomeIsTrue, FailedIsRestored
  <2>3. \A f \in Files : Untouched(f)'
    BY <2>1, <2>2 DEF Untouched
  <2> QED BY <2>1, <2>3 DEF FirstExecution
<1>3. CASE Begin
  <2>1. pc = "idle" /\ job = "queued" /\ log' = log /\ disk' = disk /\ credited' = credited
    BY <1>3 DEF Begin, Control, books
  <2>2. \A f \in Files : Untouched(f)' = Untouched(f)
    BY <2>1, StaysUntouched
  <2>3. \/ run \in Settled /\ run' = run /\ pc' = pc
        \/ run \notin Settled /\ pc' = "preflight"
    BY <1>3 DEF Begin
  <2> QED BY <1>x, <2>1, <2>2, <2>3 DEF FirstExecution
<1>4. CASE Abort
    BY <1>4 DEF Abort, TypeOK
<1>5. CASE Crash
    BY <1>5 DEF Crash, Idle, FirstExecution
<1>6. CASE Recover
    BY <1>6 DEF Recover, outcome, locals, Control, FirstExecution, Settled
<1>7. CASE Refuse \/ Conclude
    BY <1>7 DEF Refuse, Conclude, Idle, FirstExecution, Settled
<1>8. CASE Accept
  <2>1. \A f \in Files : Untouched(f)
    BY <1>8, <1>x DEF Accept, Control, Settled
  <2>2. pc' = "loop" /\ log' = log /\ disk' = disk /\ credited' = credited
    BY <1>8 DEF Accept, books
  <2>3. \A f \in Files : Untouched(f)'
    BY <2>1, <2>2, StaysUntouched
  <2> QED BY <2>2, <2>3 DEF FirstExecution
<1>9. CASE CancelSeen \/ Skip \/ StartFile \/ LoopEnds
  <2>1. /\ pc = "loop" /\ pc' \in {"loop", "settle", "check"}
        /\ log' = log /\ disk' = disk /\ credited' = credited
        /\ applied \subseteq applied' /\ failing' = failing
    BY <1>9 DEF CancelSeen, Skip, StartFile, LoopEnds, books, locals
  <2>2. \A f \in Files : Untouched(f)' = Untouched(f)
    BY <2>1, StaysUntouched
  <2> QED BY <1>y, <2>1, <2>2 DEF FirstExecution, InFile
<1>10. CASE CheckFails \/ Intent \/ Write \/ WriteFails \/ WriteUncertain \/ Written
  <2>1. /\ pc \in {"check", "write", "written"} /\ InFile /\ cur \in Files
        /\ pc' \in {"check", "write", "written", "commit"}
        /\ cur' = cur /\ applied' = applied
        /\ failing = 0
    BY <1>10 DEF CheckFails, Intent, Write, WriteFails, WriteUncertain, Written, InPlan, InFile,
                 Locals, locals
  <2>2. \A f \in Files : f # cur => log'[f] = log[f]
    <3>1. CASE CheckFails \/ Intent
      BY <2>1, <3>1, JournalFacts DEF CheckFails, Intent, InPlan, JournalStates
    <3>2. CASE WriteFails \/ Written
      BY <2>1, <3>2, EndsFacts DEF WriteFails, Written, IntentOnRecord, JournalStates
    <3>3. CASE Write \/ WriteUncertain
      BY <3>3 DEF Write, WriteUncertain
    <3> QED BY <1>10, <3>1, <3>2, <3>3
  <2>3. \A f \in Files : f # cur => credited'[f] = credited[f] /\ disk'[f] = disk[f]
    BY <1>10, <2>1 DEF CheckFails, Intent, Write, WriteFails, WriteUncertain, Written, books, TypeOK
  <2>4. \A f \in Files : f # cur => Untouched(f)' = Untouched(f)
    BY <2>2, <2>3, StaysUntouched
  <2> QED BY <1>0, <1>y, <2>1, <2>4 DEF FirstExecution, InFile
<1>11. CASE Group
  <2>1. cur \in Files /\ step \in DOMAIN plan[cur] /\ pc = "check"
    BY <1>11 DEF Group, InPlan, InFile
  <2>2. \A f \in Files : f # cur => log'[f] = log[f]
    BY <1>11, <2>1, JournalFacts DEF Group, JournalStates
  <2>3. \A f \in Files : f # cur => credited'[f] = credited[f] /\ disk'[f] = disk[f]
    BY <1>11 DEF Group, TypeOK
  <2>4. \A f \in Files : f # cur => Untouched(f)' = Untouched(f)
    BY <2>2, <2>3, StaysUntouched
  <2>5. pc' = "loop" /\ applied' = applied \cup {cur} /\ failing' = failing
    BY <1>11 DEF Group
  <2> QED BY <1>y, <2>1, <2>4, <2>5 DEF FirstExecution
<1>12. CASE FileCommit
  <2>1. cur \in Files /\ pc = "commit" /\ log' = log /\ disk' = disk /\ failing' = failing
    BY <1>12 DEF FileCommit, InPlan, InFile
  <2>2. \A f \in Files : f # cur => credited'[f] = credited[f]
    BY <1>12 DEF FileCommit, TypeOK
  <2>3. \A f \in Files : f # cur => Untouched(f)' = Untouched(f)
    BY <2>1, <2>2, StaysUntouched
  <2>4. pc' \in {"loop", "settle"} /\ applied \subseteq applied' /\ (cur \in applied' \/ failing = cur)
    BY <1>12 DEF FileCommit, Locals
  <2> QED BY <1>y, <2>1, <2>3, <2>4 DEF FirstExecution
<1>13. CASE Settle
  <2>1. /\ pc = "settle" /\ pc' \in {"conclude", "rollback"}
        /\ log' = log /\ disk' = disk /\ credited' = credited
        /\ applied' = applied /\ failing' = failing
        /\ pc' = IF todo' = {} THEN "conclude" ELSE "rollback"
        /\ todo' \in {{}, applied \cup {f \in {failing} \ {0} : Undoable(f) # {}}}
    BY <1>13 DEF Settle, books
  <2>2. \A f \in Files : Untouched(f)' = Untouched(f) /\ In(f, "done")' = In(f, "done")
    BY <2>1, StaysUntouched, SameLog
  <2>3. \A f \in Files : Undoable(f) = {} => In(f, "done") = {}
    BY DEF Undoable, In
  <2>4. \A f \in Files : Untouched(f) => In(f, "done") = {}
    BY DEF Untouched, In
  <2>5. \A f \in Files : f \in applied \/ f = failing \/ Untouched(f)
    BY <1>y, <2>1 DEF InFile
  <2>6. pc' = "rollback" => \A f \in Files \ todo' : In(f, "done") = {}
    BY <1>0, <2>1, <2>3, <2>4, <2>5
  <2> QED BY <2>1, <2>2, <2>5, <2>6 DEF FirstExecution
<1>14. CASE Restore \/ MoveRestored \/ RestoreFails \/ RestoreCommit
  <2>1. /\ pc = "rollback" /\ pc' \in {"rollback", "conclude"} /\ credited' = credited
        /\ applied' = applied /\ failing' = failing /\ cur' = cur
    BY <1>14 DEF Restore, MoveRestored, RestoreFails, RestoreCommit, books
  <2>2. PICK g \in todo : \A f \in Files : f # g => log'[f] = log[f] /\ disk'[f] = disk[f]
    BY <1>14, RollbackFile
  <2>3. g \in applied \/ g = failing
    BY DEF Locals
  <2>4. \A f \in Files : f # g => Untouched(f)' = Untouched(f)
    BY <2>1, <2>2, StaysUntouched
  <2>5. \A f \in Files : f \in applied' \/ f = failing' \/ Untouched(f)'
    BY <1>y, <2>1, <2>3, <2>4 DEF InFile
  <2>6. \A f \in Files : In(f, "done")' \subseteq In(f, "done")
    BY <1>14, RollbackLive
  <2>7. pc' = "rollback" => \A f \in Files \ todo' : In(f, "done")' = {}
    <3>1. CASE ~RestoreCommit
      BY <1>14, <1>z, <2>1, <2>6, <3>1 DEF Restore, MoveRestored, RestoreFails
    <3>2. CASE RestoreCommit
      <4>1. PICK h \in todo :
                /\ h \in Files /\ Undoable(h) \subseteq undone /\ todo' = todo \ {h}
                /\ Rewrites(h, undone)
                /\ \A j \in undone \cap DOMAIN log[h] : log'[h][j].state = "rolled_back"
        BY <3>2, RestoreCommitFacts
      <4>2. In(h, "done")' = {}
        <5>1. In(h, "done") \subseteq undone
          BY <4>1 DEF Undoable, In
        <5>2. \A j \in In(h, "done")' : j \in In(h, "done") /\ log'[h][j].state = "done"
          BY <2>6, <4>1 DEF In
        <5>3. \A j \in In(h, "done") : j \in DOMAIN log[h]
          BY DEF In
        <5> QED BY <4>1, <5>1, <5>2, <5>3
      <4> QED BY <1>z, <2>1, <2>6, <4>1, <4>2
    <3> QED BY <3>1, <3>2
  <2> QED BY <2>1, <2>5, <2>7 DEF FirstExecution
<1> QED BY <1>1, <1>2, <1>3, <1>4, <1>5, <1>6, <1>7, <1>8, <1>9, <1>10, <1>11, <1>12, <1>13, <1>14
        DEF Next, Requests, Job, Loop, Outcome

\* A run without a failure has everything in effect when it concludes.
LEMMA ConcludesWhole ==
    ASSUME IInv, pc = "conclude", ~Failed
    PROVE  (\A f \in Files : credited[f] = Steps(f)) /\ (Uninterrupted => Whole)
<1> USE DEF IInv
<1>1. \A f \in Files : credited[f] = Steps(f)
    BY DEF Passed
<1>2. \A f \in Files : Done(f) \subseteq Steps(f)
    BY DEF OfPlan, Done, In
<1>3. Uninterrupted => \A f \in Files : Quiet(f) /\ In(f, "writing") = {}
    BY DEF InLoop
<1> QED BY <1>1, <1>2, <1>3 DEF Whole, Quiet

\* A run that failed without an exception, and rolled back, leaves nothing.
LEMMA ConcludesRestored ==
    ASSUME IInv, pc = "conclude", Failed, ~unresolved, ~lost, aborts = 0, NEW f \in Files
    PROVE  disk[f] = {}
<1> USE DEF IInv
<1>1. Uninterrupted /\ todo = {}
    BY DEF Uninterrupted, Locals
<1>2. /\ \A g \in applied \ todo : disk[g] = {}
      /\ failing # 0 /\ failing \notin todo => disk[failing] = {}
    BY <1>1 DEF RolledBack
<1>3. f \in applied \/ f = failing \/ Untouched(f)
    BY DEF FirstExecution, InFile
<1>4. f # 0
    BY DEF Files
<1> QED BY <1>1, <1>2, <1>3, <1>4 DEF Untouched

\* What a run says when it is settled, and later, the library shows.
LEMMA OutcomeKept ==
    ASSUME IInv, Next
    PROVE  OutcomeIsTrue'
<1> USE DEF IInv
<1>a. (aborts' = 0 => aborts = 0) /\ (Uninterrupted' => Uninterrupted)
    BY UninterruptedFacts
<1>p. \A f : Steps(f)' = Steps(f)
    BY PlanStays
<1>0. run' = "applying" /\ (\A f \in Files : told'[f] = "none") => OutcomeIsTrue'
    BY DEF OutcomeIsTrue, AppliedIsWhole, FailedIsRestored, RolledBackIsTrue
<1>1. CASE UNCHANGED <<log, disk, run, recovery, told>>
  <2>1. Whole' = Whole
    BY <1>1, <1>p, SameLog DEF Whole
  <2> QED BY <1>1, <1>a, <2>1 DEF OutcomeIsTrue, AppliedIsWhole, FailedIsRestored, RolledBackIsTrue
<1>2. CASE pc # "idle" /\ UNCHANGED <<run, told>>
  <2>1. run' = "applying" /\ \A f \in Files : told'[f] = "none"
    BY <1>2 DEF Control, Settled
  <2> QED BY <1>0, <2>1
<1>3. CASE NewRun
    BY <1>3 DEF NewRun, OutcomeIsTrue, AppliedIsWhole, FailedIsRestored, RolledBackIsTrue
<1>4. CASE Begin
  <2>1. CASE run \in Settled
    BY <1>1, <1>4, <2>1 DEF Begin
  <2>2. CASE run \notin Settled
    BY <1>0, <1>4, <2>2 DEF Begin, Control
  <2> QED BY <2>1, <2>2
<1>5. CASE Recover
  <2>1. CASE run \in Settled
    BY <1>1, <1>5, <2>1 DEF Recover, outcome
  <2>2. CASE run \notin Settled
    BY <1>5, <2>2 DEF Recover, Control, OutcomeIsTrue, AppliedIsWhole, FailedIsRestored,
                      RolledBackIsTrue
  <2> QED BY <2>1, <2>2
<1>6. CASE Resume \/ RequestCancel \/ JobEnds \/ Crash \/ Abort \/ \E f \in Files : Foreign(f)
    BY <1>1, <1>6 DEF Resume, RequestCancel, JobEnds, Crash, Abort, Foreign, outcome
<1>7. CASE Refuse
  <2>1. pc = "preflight" /\ run' = "failed" /\ disk' = disk /\ \A f \in Files : told'[f] = "failed"
    BY <1>7 DEF Refuse
  <2>2. aborts = 0 => \A f \in Files : disk[f] = {}
    BY <2>1 DEF FirstExecution, Control, Settled, Untouched
  <2> QED BY <1>a, <2>1, <2>2 DEF OutcomeIsTrue, AppliedIsWhole, FailedIsRestored, RolledBackIsTrue
<1>8. CASE Conclude
  <2>1. pc = "conclude" /\ log' = log /\ disk' = disk /\ told' = entry'
    BY <1>8 DEF Conclude
  <2>2. \A f \in Files : entry[f] # "rolled_back"
    BY <2>1 DEF Control, Settled
  <2>3. CASE ~Failed
    <3>1. run' = "applied" /\ told' = entry
      BY <1>8, <2>3, <2>1, ConcludesWhole DEF Conclude, books
    <3>2. Whole' = Whole
      BY <1>p, <2>1, SameLog DEF Whole
    <3>3. Uninterrupted => Whole
      BY <2>1, <2>3, ConcludesWhole
    <3> QED BY <1>a, <2>2, <3>1, <3>2, <3>3
            DEF OutcomeIsTrue, AppliedIsWhole, FailedIsRestored, RolledBackIsTrue
  <2>4. CASE Failed
    <3>1. /\ run' = "failed" /\ recovery' = (unresolved \/ lost)
          /\ \A f \in Files : told'[f] = EntryAtEnd(f)
      BY <1>8, <2>4 DEF Conclude
    <3>2. FailedIsRestored'
      BY <1>a, <2>1, <2>4, <3>1, ConcludesRestored DEF FailedIsRestored
    <3>3. \A f \in Files : told'[f] = "rolled_back" => ~lost /\ f \in applied
      BY <2>2, <3>1 DEF EntryAtEnd
    <3>4. Uninterrupted /\ ~lost => \A f \in applied : disk[f] = {}
      <4>1. ~lost => todo = {}
        BY <2>1 DEF Locals
      <4> QED BY <2>1, <2>4, <4>1 DEF RolledBack
    <3>5. RolledBackIsTrue'
      BY <1>a, <2>1, <3>3, <3>4 DEF RolledBackIsTrue
    <3> QED BY <3>1, <3>2, <3>5 DEF OutcomeIsTrue, AppliedIsWhole
  <2> QED BY <2>3, <2>4
<1>9. CASE \/ Accept \/ CancelSeen \/ Skip \/ StartFile \/ LoopEnds \/ CheckFails \/ Intent \/ Write
           \/ WriteFails \/ WriteUncertain \/ Written \/ Group \/ FileCommit \/ Settle
           \/ Restore \/ MoveRestored \/ RestoreFails \/ RestoreCommit
  <2>1. pc # "idle" /\ run' = run /\ told' = told
    BY <1>9 DEF Accept, CancelSeen, Skip, StartFile, LoopEnds, CheckFails, Intent, Write, WriteFails,
       WriteUncertain, Written, Group, FileCommit, Settle, Restore, MoveRestored, RestoreFails,
       RestoreCommit, outcome
  <2> QED BY <1>2, <2>1
<1> QED BY <1>3, <1>4, <1>5, <1>6, <1>7, <1>8, <1>9 DEF Next, Requests, Job, Loop, Outcome


-----------------------------------------------------------------------------
(* The rollback goes backwards.                                             *)

\* No other step rolls a journal back.
LEMMA OnlyRollback ==
    ASSUME IInv, Next, ~(Restore \/ MoveRestored \/ RestoreFails \/ RestoreCommit), NEW f \in Files
    PROVE  In(f, "rolled_back")' \subseteq In(f, "rolled_back")
<1> USE DEF IInv
<1>1. CASE Calm \/ Refuse \/ Write \/ WriteUncertain \/ FileCommit \/ Conclude
  <2>1. log' = log
    BY <1>1, CalmFacts DEF Refuse, Write, WriteUncertain, FileCommit, Conclude
  <2> QED BY <2>1, SameLog
<1>2. CASE NewRun
    BY <1>2 DEF NewRun, In
<1>3. CASE CheckFails \/ Intent \/ Group
  <2>1. cur \in Files /\ step \in DOMAIN plan[cur]
    BY <1>3 DEF CheckFails, Intent, Group, InPlan, InFile
  <2>2. CASE log' = log
    BY <2>2, SameLog
  <2>3. ASSUME NEW state \in {"failed", "writing", "done"}, log' = Journal(state)
        PROVE  In(f, "rolled_back")' \subseteq In(f, "rolled_back")
    <3>1. /\ \A g \in Files : g # cur => log'[g] = log[g]
          /\ DOMAIN log'[cur] = DOMAIN log[cur] \cup {Len(log[cur]) + 1}
          /\ \A i \in DOMAIN log[cur] : log'[cur][i] = log[cur][i]
          /\ log'[cur][Len(log[cur]) + 1] = [phase |-> phase, state |-> state]
      BY <2>1, <2>3, JournalFacts DEF JournalStates
    <3> QED BY <2>3, <3>1 DEF In
  <2> QED BY <1>3, <2>2, <2>3 DEF CheckFails, Intent, Group
<1>4. CASE WriteFails \/ Written
  <2>1. cur \in Files /\ log[cur] # <<>>
    BY <1>4 DEF WriteFails, Written, InPlan, InFile, IntentOnRecord
  <2>2. ASSUME NEW state \in {"failed", "done"}, log' = JournalEnds(state)
        PROVE  In(f, "rolled_back")' \subseteq In(f, "rolled_back")
    <3>1. /\ \A g \in Files : g # cur => log'[g] = log[g]
          /\ DOMAIN log'[cur] = DOMAIN log[cur]
          /\ \A i \in DOMAIN log[cur] : i # Len(log[cur]) => log'[cur][i] = log[cur][i]
          /\ log'[cur][Len(log[cur])].state = state
      BY <2>1, <2>2, EndsFacts DEF JournalStates
    <3> QED BY <2>2, <3>1 DEF In
  <2> QED BY <1>4, <2>2 DEF WriteFails, Written
<1> QED BY <1>1, <1>2, <1>3, <1>4 DEF Next, Requests, Job, Loop, Outcome, Calm

\* Marking all that was flushed of the last file left marks its newest
\* journals.
LEMMA MarksInReverse ==
    ASSUME IInv, pc = "rollback", aborts = 0, NEW g \in todo, Last(g),
           \A f \in Files : f # g => log'[f] = log[f],
           DOMAIN log'[g] = DOMAIN log[g],
           \A f \in Files : In(f, "done")' \subseteq In(f, "done"),
           \A i \in DOMAIN log[g] : i \notin undone => \/ log'[g][i] = log[g][i]
                                                       \/ log'[g][i].state # "rolled_back",
           \/ \A i \in undone : log'[g][i].state # "done"
           \/ \A i \in undone : log'[g][i] = log[g][i]
    PROVE  UndoneInReverse
<1> USE DEF IInv
<1> SUFFICES ASSUME NEW f \in Files, NEW i \in In(f, "rolled_back")' \ In(f, "rolled_back")
             PROVE  /\ \A j \in In(f, "done")' : j < i
                    /\ \A h \in Files : (h > f) => (In(h, "done")' = {})
    BY DEF UndoneInReverse
<1>0. g \in Files
    BY DEF TypeOK
<1>1. f = g
    BY SameLog
<1>2. i \in undone /\ i \in DOMAIN log[g]
    BY <1>1 DEF In
<1>3. \A j \in undone : log'[g][j].state # "done"
    BY <1>1, <1>2 DEF In
<1>4. \A j \in In(g, "done")' : j \in Undoable(g) \ undone
  <2> SUFFICES ASSUME NEW j \in In(g, "done")' PROVE j \in Undoable(g) /\ j \notin undone
    OBVIOUS
  <2>1. j \in In(g, "done") /\ log'[g][j].state = "done"
    BY <1>0 DEF In
  <2> QED BY <1>3, <2>1 DEF In, Undoable
<1>5. \A j \in In(f, "done")' : j < i
    BY <1>1, <1>2, <1>4 DEF Flushed
<1>6. \A h \in Files : h > f => h \notin todo
    BY <1>1, ConstantsAssumption DEF Last, Files
<1>7. \A h \in Files : (h > f) => (In(h, "done")' = {})
    BY <1>6 DEF FirstExecution
<1> QED BY <1>5, <1>7

\* Every step of a rollback undoes the newest journals first.
LEMMA StepInReverse ==
    ASSUME IInv, Next, aborts = 0
    PROVE  UndoneInReverse
<1> USE DEF IInv
<1>1. CASE ~(Restore \/ MoveRestored \/ RestoreFails \/ RestoreCommit)
    BY <1>1, OnlyRollback DEF UndoneInReverse
<1>2. CASE Restore \/ MoveRestored \/ RestoreFails \/ RestoreCommit
  <2>1. pc = "rollback" /\ \A f \in Files : In(f, "done")' \subseteq In(f, "done")
    BY <1>2, RollbackLive DEF Restore, MoveRestored, RestoreFails, RestoreCommit
  <2>2. \A g \in todo : Last(g) => undone \subseteq DOMAIN log[g]
    BY <2>1 DEF Flushed, Undoable
  <2>3. CASE Restore
    <3>1. PICK g \in todo :
              /\ g \in Files /\ Last(g)
              /\ \/ /\ Rewrites(g, undone)
                    /\ \A j \in undone \cap DOMAIN log[g] : log'[g][j].state = "rolled_back"
                 \/ log' = log
      BY <2>3, RestoreFacts DEF NextToUndo
    <3>2. CASE log' = log
      BY <3>2, SameLog DEF UndoneInReverse
    <3>3. CASE /\ Rewrites(g, undone)
               /\ \A j \in undone \cap DOMAIN log[g] : log'[g][j].state = "rolled_back"
      BY <2>1, <2>2, <3>1, <3>3, MarksInReverse DEF Rewrites
    <3> QED BY <3>1, <3>2, <3>3
  <2>4. CASE MoveRestored
    <3>1. PICK g \in todo : /\ g \in Files /\ Last(g) /\ Rewrites(g, undone)
                            /\ \A j \in undone \cap DOMAIN log[g] : log'[g][j].state = "rolled_back"
      BY <2>4, MoveRestoredFacts
    <3> QED BY <2>1, <2>2, <3>1, MarksInReverse DEF Rewrites
  <2>5. CASE RestoreCommit
    <3>1. PICK g \in todo : /\ g \in Files /\ Last(g) /\ Rewrites(g, undone)
                            /\ \A j \in undone \cap DOMAIN log[g] : log'[g][j].state = "rolled_back"
      BY <2>5, RestoreCommitFacts
    <3> QED BY <2>1, <2>2, <3>1, MarksInReverse DEF Rewrites
  <2>6. CASE RestoreFails
    <3>0. PICK g \in todo : \E i \in Undoable(g) : \E flushed \in {{}, undone} :
              /\ g \in Files /\ Last(g) /\ i \notin undone /\ i \in DOMAIN log[g]
              /\ Rewrites(g, flushed \cup {i})
              /\ \A j \in (flushed \ {i}) \cap DOMAIN log[g] : log'[g][j].state = "rolled_back"
              /\ log'[g][i].state = "writing" \/ log'[g][i] = log[g][i]
      BY <2>6, RestoreFailsFacts DEF NextToUndo
    <3>1. PICK i \in Undoable(g), flushed \in {{}, undone} :
              /\ g \in Files /\ Last(g) /\ i \notin undone /\ i \in DOMAIN log[g]
              /\ Rewrites(g, flushed \cup {i})
              /\ \A j \in (flushed \ {i}) \cap DOMAIN log[g] : log'[g][j].state = "rolled_back"
              /\ log'[g][i].state = "writing" \/ log'[g][i] = log[g][i]
      BY <3>0
    <3>2. /\ \A f \in Files : f # g => log'[f] = log[f]
          /\ DOMAIN log'[g] = DOMAIN log[g]
          /\ \A j \in DOMAIN log[g] : j \notin undone => \/ log'[g][j] = log[g][j]
                                                         \/ log'[g][j].state # "rolled_back"
      BY <3>1 DEF Rewrites
    <3>3. \/ \A j \in undone : log'[g][j].state # "done"
          \/ \A j \in undone : log'[g][j] = log[g][j]
      <4>1. CASE flushed = undone
        BY <2>2, <3>1, <4>1
      <4>2. CASE flushed = {}
        BY <2>2, <3>1, <4>2 DEF Rewrites
      <4> QED BY <4>1, <4>2
    <3> QED BY <2>1, <3>1, <3>2, <3>3, MarksInReverse
  <2> QED BY <1>2, <2>3, <2>4, <2>5, <2>6
<1> QED BY <1>1, <1>2

-----------------------------------------------------------------------------
(* The theorems.                                                            *)

\* A run that was just asked for.
LEMMA InitHolds == Init => IInv
<1> SUFFICES ASSUME Init PROVE IInv
    OBVIOUS
<1> USE DEF Init
<1>1. /\ pc = "idle" /\ run = "pending" /\ plan \in Manifests
      /\ \A f \in Files : /\ log[f] = <<>> /\ DOMAIN log[f] = {} /\ credited[f] = {}
                          /\ disk[f] = {} /\ told[f] = "none" /\ entry[f] = "pending"
    OBVIOUS
<1>2. TypeOK
  <2>1. cur \in 1..(NFiles + 1)
    BY ConstantsAssumption
  <2>2. log \in [Files -> Seq([phase : Phases, state : JournalStates])]
    BY EmptySeq
  <2>3. /\ told \in [Files -> EntryStates \cup {"none"}]
        /\ entry \in [Files -> EntryStates]
        /\ credited \in [Files -> SUBSET Phases]
        /\ disk \in [Files -> SUBSET Phases]
    BY DEF EntryStates
  <2>4. drift = {} /\ applied = {} /\ todo = {} /\ undone = {} /\ replaced = {}
    OBVIOUS
  <2>6. cancelled = FALSE /\ unresolved = FALSE /\ lost = FALSE /\ recovery = FALSE /\ cancelReq = FALSE
    BY Zenon
  <2>7. {cancelled, unresolved, lost} \subseteq BOOLEAN /\ recovery \in BOOLEAN /\ cancelReq \in BOOLEAN
    BY <2>6
  <2>8. runs = 1 /\ foreigners = 0 /\ aborts = 0 /\ failing = 0 /\ step = 1
    BY Zenon
  <2>9. {runs, foreigners, aborts} \subseteq Nat /\ step \in 1..3 /\ failing = 0
    BY <2>8
  <2>5. run = "pending" /\ job = "queued" /\ pc = "idle" /\ plan \in Manifests
    OBVIOUS
  <2> QED BY <2>1, <2>2, <2>3, <2>4, <2>5, <2>7, <2>9 DEF TypeOK
<1>3. Control
    BY <1>1 DEF Control, Settled
<1>4. Locals /\ InPlan
    BY DEF Locals, InPlan, InFile
<1>5. OfPlan
  <2>1. \A f \in Files : 1 \in 1..(Len(plan[f]) + 1) /\ Before(f, 1) = {}
    BY <1>1, BeforeFacts, PlanFacts
  <2> QED BY <1>1, <2>1 DEF OfPlan
<1>6. IntentOnRecord /\ Passed
    BY <1>1 DEF IntentOnRecord, Passed, InFile
<1>7. \A f \in Files : Live(f) = {} /\ Untouched(f)
    BY <1>1 DEF Live, In, Untouched
<1>8. Corrections
    BY <1>1, <1>7 DEF Corrections
<1>9. InLoop /\ RolledBack /\ Flushed
    BY <1>1 DEF InLoop, InFile, RolledBack, Flushed
<1>10. FirstExecution
    BY <1>1, <1>7 DEF FirstExecution
<1>11. WriteAhead
    BY <1>1 DEF WriteAhead
<1>12. OutcomeIsTrue
    BY <1>1 DEF OutcomeIsTrue, AppliedIsWhole, FailedIsRestored, RolledBackIsTrue
<1> QED BY <1>2, <1>3, <1>4, <1>5, <1>6, <1>8, <1>9, <1>10, <1>11, <1>12 DEF IInv

\* Every step keeps the types.
LEMMA StepTyped ==
    ASSUME IInv, Next
    PROVE  TypeOK'
BY RequestsTyped, LoopTyped, OutcomeTyped DEF IInv, Next

\* Nothing changes, and the invariant stays.
LEMMA StutterHolds ==
    ASSUME IInv, UNCHANGED vars
    PROVE  IInv'
<1> USE DEF vars, outcome, books, locals, history
<1>0. \A f : /\ Steps(f)' = Steps(f) /\ Grouping(f)' = Grouping(f) /\ Quiet(f)' = Quiet(f)
             /\ Untouched(f)' = Untouched(f) /\ Live(f)' = Live(f) /\ Last(f)' = Last(f)
             /\ Undoable(f)' = Undoable(f) /\ Done(f)' = Done(f)
             /\ \A s : In(f, s)' = In(f, s)
             /\ \A n : Before(f, n)' = Before(f, n)
    BY DEF Steps, Grouping, Quiet, Untouched, Live, Last, Undoable, Done, In, Before
<1>1. Uninterrupted' = Uninterrupted /\ Failed' = Failed /\ InFile' = InFile
    BY DEF Uninterrupted, Failed, InFile, Grouping
<1>2. TypeOK'
    BY ZenonT(40) DEF IInv, TypeOK
<1>3. Control' /\ Locals'
    BY <1>1 DEF IInv, Control, Locals
<1>4. InPlan'
    BY <1>1 DEF IInv, InPlan, Grouping
<1>5. OfPlan'
    BY <1>0 DEF IInv, OfPlan
<1>6. IntentOnRecord'
    BY DEF IInv, IntentOnRecord, phase
<1>7. Corrections'
    BY <1>0 DEF IInv, Corrections
<1>8. Passed'
    BY <1>0, <1>1 DEF IInv, Passed
<1>9. InLoop'
  <2>1. Done(cur)' = Done(cur) /\ Steps(cur)' = Steps(cur) /\ \A n : Before(cur, n)' = Before(cur, n)
    BY DEF Done, In, Steps, Before
  <2>2. step' = step /\ Before(cur, step)' = Before(cur, step)
          /\ Before(cur, step + 1)' = Before(cur, step + 1)
    BY DEF Before
  <2> QED BY <1>0, <1>1, <2>1, <2>2 DEF IInv, InLoop
<1>10. RolledBack'
    BY <1>0, <1>1 DEF IInv, RolledBack
<1>11. Flushed'
    BY <1>0 DEF IInv, Flushed
<1>12. FirstExecution'
    BY <1>0, <1>1 DEF IInv, FirstExecution
<1>13. WriteAhead'
    BY <1>1 DEF IInv, WriteAhead
<1>14. OutcomeIsTrue'
  <2>1. Whole' = Whole
    BY <1>0 DEF Whole
  <2> QED BY <1>1, <2>1 DEF IInv, OutcomeIsTrue, AppliedIsWhole, FailedIsRestored, RolledBackIsTrue
<1> QED BY <1>2, <1>3, <1>4, <1>5, <1>6, <1>7, <1>8, <1>9, <1>10, <1>11, <1>12, <1>13, <1>14 DEF IInv

\* The invariant is inductive.
LEMMA StepHolds == IInv /\ [Next]_vars => IInv'
<1> SUFFICES ASSUME IInv, [Next]_vars PROVE IInv'
    OBVIOUS
<1>1. CASE Next
  <2>1. TypeOK' /\ Control' /\ Locals' /\ InPlan'
    BY <1>1, StepTyped, ControlKept, LocalsKept, InPlanKept DEF IInv
  <2>2. OfPlan' /\ IntentOnRecord' /\ Corrections' /\ Passed'
    BY <1>1, OfPlanKept, IntentOnRecordKept, CorrectionsKept, PassedKept DEF IInv
  <2>3. InLoop' /\ RolledBack' /\ Flushed' /\ FirstExecution'
    BY <1>1, InLoopKept, RolledBackKept, FlushedKept, FirstExecutionKept
  <2>4. WriteAhead' /\ OutcomeIsTrue'
    BY <1>1, WriteAheadKept, OutcomeKept
  <2> QED BY <2>1, <2>2, <2>3, <2>4 DEF IInv
<1>2. CASE UNCHANGED vars
    BY <1>2, StutterHolds
<1> QED BY <1>1, <1>2

\* Every reachable state satisfies the inductive invariant.
THEOREM IInvHolds == Spec => []IInv
BY InitHolds, StepHolds, PTL DEF Spec

\* The states of a bundle, of its run and of the handler are well typed,
\* whatever the manifest and however often it is interrupted.
THEOREM TypeCorrect == Spec => []TypeOK
<1>1. IInv => TypeOK
    BY DEF IInv
<1> QED BY <1>1, IInvHolds, PTL

\* _apply_write, _apply_move and _persist_file_journal_failure: whatever a run
\* has in effect on a file has a journal that says it was or may have been
\* written, after any crash, error and number of executions.
THEOREM ChangesOnRecord == Spec => []WriteAhead
<1>1. IInv => WriteAhead
    BY DEF IInv
<1> QED BY <1>1, IInvHolds, PTL

\* apply_review_run and _rollback_applied_files: a run that says "applied" is
\* in effect as a whole, one that says "failed" without asking for recovery
\* has nothing in effect, and so has a file reported as rolled back.
THEOREM OutcomeTold == Spec => []OutcomeIsTrue
<1>1. IInv => OutcomeIsTrue
    BY DEF IInv
<1> QED BY <1>1, IInvHolds, PTL

\* _rollback_applied_files: without exceptions every journal that is rolled
\* back is newer than all the journals of its file that stay, and belongs to
\* the last file that has any.
THEOREM RollbackInReverse == Spec => RestoresInReverse
<1>1. IInv /\ [Next]_vars => [aborts = 0 => UndoneInReverse]_vars
    BY StepInReverse
<1> QED BY <1>1, IInvHolds, PTL DEF Spec, RestoresInReverse

=============================================================================
