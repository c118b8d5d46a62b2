# A verification project for muzilla

muzilla is a self-hosted manager of music metadata: a FastAPI server, a command
line and background workers share one SQLite database (WAL mode) and one music
library on disk. Scans, matching and enrichment run as jobs; what they propose
is collected in review bundles; a user's decision to Apply or Undo a bundle is
again a job, and the only kind that changes files of the library. This
directory holds TLA+ models of that machinery, TLC configurations that check
them on small instances and TLAPS proofs that hold for every instance. Paths
below are relative to `src/src/muzilla` unless they begin with `docs` or `src`.

## The system: inventory

Every entry names the state a component keeps, its operations, what makes it
hard, and what makes it correct.

**Job queue** (`jobs/queue.py`, `services/jobs.py`). State: rows of `jobs`
(state, worker_id, lease_until, attempts, cancel_requested, priority),
`job_events`, `system_state.maintenance_mode`. Operations: enqueue, lease by
compare-and-swap, heartbeat, three terminal transitions, cancellation, events,
recovery of expired leases. Hard: several processes interleave at the grain of
SQLite transactions; a SELECT opens no transaction, so what was read may be
stale when it is used; processes die. Correct: an execution is exclusive and
keeps its row; an outcome is final; a cancellation is not lost; a committed file
operation is reported as a success; no TaskAttempt is left behind; every job
ends.

**Worker** (`jobs/worker.py`, `jobs/execution_lock.py`, `jobs/cancellation.py`).
State: the asyncio tasks of one execution (handler, heartbeat, stop), a `flock`
per job. Hard: timeouts, shutdown, cancelled callers and handler completion
race. Correct: the lock outlives the lease, the durable result wins over the
handler's response.

**Job events** (`append_event`, `jobs/progress.py`, the event stream of
`api/routers/jobs.py`). State: `job_events(job_id, seq)`, the last seq of each
subscribed client. Correct: a client that replays from its last seq misses
nothing that `seq` promises.

**File replacement** (`changes/writer.py`). State: the public name of a file, a
private directory with the staged, held and withdrawn copies, a guard and a
transition checkpoint in the journal. Hard: every step can be the last one before
a crash, and foreign programs replace the file at any time. Correct: at no point
is the user's original or a foreign file lost; recovery ends with the original or
the new file in place, or reports `recovery_required` and touches nothing.

**Bundle Apply** (`changes/bundle_applier.py`) and **Bundle Undo**
(`changes/bundle_undo.py`, `services/review_undo.py`). State: the run, its
attempts, a journal row per step and file, a frozen manifest with checkpoints.
Operations: preflight, per-file write, cancellation between files, rollback in
reverse; request, inverse after inverse, reconciliation, retry. Correct: all or
nothing, else `recovery_required`; no journal is restored twice; a retry
continues where the checkpoints say.

**Review lifecycle** (`pipeline/reviews.py`, `pipeline/proposals.py`,
`services/review_apply.py`). State: bundles, revisions with one current per
bundle, decisions, task attempts. Hard: every request reads, checks and writes
in separate statements; partial unique indexes and triggers are the only
arbiters. Correct: one run writes a file at a time, a bundle is "applying"
exactly while a run is, user decisions are not undone by late tasks.

**Renames** (`pipeline/paths.py`, `paths/`): the destinations a revision
proposes, recomputed with every edit; collisions at preview and at Apply.
**Artwork** (`changes/blobstore.py`, `pipeline/cover_assets.py`): bytes under
their digest, a row, a reference count, fsync and crashes.

**Reset and maintenance** (`services/reset.py`, `api/middleware.py`, `api/app.py`,
the pool controller of `services/jobs.py`). The gate of mutating requests, the
persistent lock, worker quiescence, the phases of the cleanup and their
resumption at startup.

**Scan, grouping, duplicates** (`pipeline/scan.py`, `grouping.py`,
`duplicates.py`): the catalog against files that change, a cascade of four stages
that must respect pins and scopes, offers that respect dismissals; a cascade and a
detection read long before they write. **Imports**
(`services/imports.py`, `jobs/handlers/import_session.py`, `match.py`,
`fingerprint.py`): a session of four stages driven by jobs that are cancelled,
fail, die and are resumed, the next perhaps before the last has ended.

**Matching** (`matching/`, `pipeline/matching.py`): pure functions from candidates
to a ranking, a band and edits. **Retrieval** (`matching/candidates.py`) and the
**provider cache** (`providers/cache.py`): concurrent searches, stale answers,
offline operation. **Manual search** (`services/manual_search.py`), **Enrichment**
(`jobs/handlers/enrich_*.py`, `pipeline/enrichment.py`): what is read before a
network call and written after it.

**Provider runtime and settings** (`providers/runtime.py`, `providers/status.py`,
`services/settings.py`, `services/secrets.py`): a credential lives in a row, a
file and a set of clients, which change one after the other. **Inbox**
(`ReviewInboxEntry`) and **Activity** (`services/activity.py`): listings by
cursor while rows appear and move.

**Retention** (`pipeline/retention.py`) prunes journals Undo may need and rows of
the provider cache.

Interactions: the API and the CLI call enqueue and request_cancel; workers call
the handlers; the Apply and Undo handlers drive the bundle code, which drives
file replacement and the blob store; recovery reads the run rows the handlers
commit; reset waits for the workers to be quiescent; the import drives scan,
grouping, fingerprints and matching, whose reviews feed the inbox.

## Modules

| Module | Component | Detail it leaves to |
| --- | --- | --- |
| `JobQueue`, `JobPromise`, `JobQueueProofs` | queue, worker, locks, recovery; what a caller may rely on; proofs | handlers are reduced to their commits |
| `JobEvents`, `JobEventsProofs` | events of one job and the client that streams them; proofs | the job's transitions: `JobQueue` |
| `Replacement`, `ReplacementProofs` | one file and its journal row; proofs | |
| `BundleApply`, `BundleApplyProofs` | one bundle's Applies, over steps of files; proofs | a step: `Replacement` |
| `BundleUndo` | one Undo, its retries, recovery, retention | a step: `Replacement` |
| `Blobs` | artwork store, covers in reviews, artwork in inverses | |
| `Renames` | preview, move drafts, checks of Apply | execution of a move: `BundleApply` |
| `Changes`, `ChangesProofs` | the types of `Replacement` and the three above together; proofs of the three | |
| `Reviews` | bundles, revisions, tasks, Apply and Undo requests | execution: the three above |
| `Matching` | distances, ranking, bands, edits, pages | |
| `ManualSearch` | a user's choice of a candidate | composition: `Reviews` |
| `Inbox`, `Activity` | the two listings | |
| `Orders` | a finite set in the order of a relation, for `Matching` and `Inbox` | |
| `Desk`, `DeskProofs` | the properties of `Reviews`, `Matching`, `ManualSearch`, `Inbox` and `Activity` together; proofs | |
| `Catalog` | scan, reread, flushes over other sessions' rows | |
| `Grouping` | cascades in their reads and their write, corrections | |
| `Duplicates` | a detection in its reads and its write, dismissal | |
| `Library`, `LibraryProofs` | the properties of `BundleApply` and the three above together; proofs of the three | |
| `Maintenance` | gate, reset, pool, startup | |
| `Imports` | session, stages, items, jobs that overlap | scan and grouping: above |
| `Retrieval`, `Gateway` | search and hydration; cached calls | |
| `Enrichment` | covers, lyrics, ReplayGain | jobs: `JobQueue` |
| `Credentials` | the credential of a provider, its clients and status | |
| `Preferences` | overridden settings | |
| `Services`, `ServicesProofs` | the properties of the seven above together; proofs | |

`MCJobQueue`, `MCBundleUndo` and `MCReviews` give constants to one module.
`MCChanges`, `MCReviewDesk`, `MCLibrary` and `MCServices` are families: a
variable `part` selects one component, which then runs while the others stay in an
initial state, so a behaviour is one of a single component. They extend `Changes`,
`Desk`, `Library` and `Services`, which extend the components and state what is said of
several at once; so the runs check the very definitions the theorems are about.
Components are not composed with each other in these modules; where one relies on
another, the interface is modelled on both sides (the commits of `JobQueue`'s file
handlers and `BundleApply`, for instance), and the table says which module has the
detail. A property a family defines is a conjunction of properties that the components'
modules state and explain one by one.

An action is one database transaction, one statement where SELECTs open no
transaction, one rename, one fsync or one flock call: the grain at which the
program's processes, threads and coroutines interleave. What crosses an `await`
is split into the part that reads and the part that writes, and so is what reads
before its transaction begins: a session of this program opens one with its first
flush, not with its first SELECT, and writes by id the attributes that differ from
what it had read. Where consecutive SELECTs are joined, the module says so.

## Runs

| Run | Instance | Shows |
| --- | --- | --- |
| `queue_task` | 1 task job, 2 workers in 2 processes, 1 fault, 1 maintenance window, fairness | exclusive execution, ownership, settled TaskAttempts, no lost cancel; every job ends |
| `queue_two` | an unknown-type job and a file job of higher priority, 1 worker, 2 recovering processes, 2 faults | committed work is reported; the inductive invariant; the refinement of `JobPromise` across jobs |
| `events` | 2 executions of up to 2 updates, 1 busy retry, 1 lost connection, fairness | replay is in commit order; who is told "done" has seen every transition; the last update survives coalescing; streams end |
| `changes` | see below, fairness | replacement of a file, Undo, artwork, renames: nothing lost, reports true, no file under another, Undo ends |
| `desk` | see below | reviews, matching, manual search, listings |
| `library` | see below | Apply: on record, whole or given back, rolled back in reverse; catalog, grouping, duplicates |
| `services` | see below | reset, imports, retrieval and cache, enrichment, credentials, preferences |
| `queue_cancel`, `undo_pruned`, `reviews_overridden`, `blobs_evicted`, `renames_shown` | the smallest instances | counterexamples, see Findings |

Bounds, and why they are enough:

- `changes`. *Replacement*: 4 operations (an Apply and three inverses, so that a
  recovery meets the directory of an earlier, recovered Undo), 3 foreign acts, 3
  crashes (a recovery, and the recovery after it, can die), 1 refused checkpoint.
  *Undo*: 3 files with tags, a move and a case-only move, cancellation, retries,
  sweeps, drift and crashes without a bound. *Blobs*: 2 pictures, 2 tracks, 2
  reviews, 3 writes: one picture can be shared, replaced and restored. *Renames*:
  2 of 3 tracks, 3 names in 2 spellings, 1 edit.
- `desk`. *Reviews*: 1 bundle of 2 revisions and 2 requests of any kind at any
  step, in one of the two orders of the names of the requests (`OneReview`); while the
  outcome of a task is between its read and its flush, 1 request, which is what a
  discard in between takes; or 2 bundles of one file, since a conflict needs two, with
  a request each and no task (`TwoReviews`, where `rivals`). The theorems have none of
  these bounds. *Matching*: 2 files, every pair of
  candidates over two providers, and triples that differ in what decides. *Search*: 1 request against the automatic match, with
  and without a selection, edits, Apply and drift, 3 revisions. *Inbox*: 2 reviews, one of them edited by a session, a page
  of 1. *Activity*: 2 tables, a page of 1, 2 moments.
- `library`. *Apply*: 3 files with every list of steps a file can have, or 3
  corrections of collections, 3 runs, 1 foreign act and 1 exception that leaves the
  handler: a rollback can succeed on the last file, fail on the second and leave the
  first, a second run starts where it ended, and a run whose handler died is resumed.
  *Catalog*: 2 paths, 2 rows, batches of 2, 2 versions: two flushes can
  meet on one row and two paths in one batch. *Grouping*: 3 tracks of which two
  are in a directory that is imported alone, 2 releases, 2 edits of the catalog: three
  tracks are the least of which two releases can claim a common one. Corrections are not
  bounded, and come at any point of a cascade. A second cascade begins beside a first
  that has read an empty catalog of units, and then runs against it alone, without edits
  and pins (`SecondCascade`): what two do to each other, that they make the same unit or
  take each other's tracks, happens there. The last edit is made between cascades and
  with one pin at most (`LastEdit`). *Duplicates*: 3 files and 2 recordings, which
  overlap in one, and are alike (symmetry); one detection at a time, and one fingerprint
  that changes after it was read (`LateFingerprint`); the low score is the first
  track's (`LowScore`).
- `services`. *Maintenance*: 1 request, 1 reset with a key of either kind, 2 jobs.
  *Imports*: 2 jobs, one after the other or at once, 1 track, 2 groups, which are alike
  (symmetry), 2 cancellations or crashes (`MaxStops`): enough to end a job in each of its
  places, continue it, and end that one too. *Retrieval*: 2 providers, 2 ids,
  an answer with a repetition, a shortlist of 2. *Gateway*: 1 caller of each operation.
  *Enrichment*: 2 reviews, 2 providers, 3 jobs. *Credentials*: 2 references, 3 sets
  of clients, 1 request and 1 health check. *Preferences*: 2 fields of 4 values.
- `queue_*`: jobs interact only through a worker's choice of candidate, so one job
  with several workers and two jobs with one worker cover the interleavings; a
  second fault lets a recovery itself be interrupted.

The constants that bound are named in each module with a comment that begins
with "bound". Deadlock is not checked: an idle queue, a settled run, a discarded
review and a series of jobs at its bound stop.

**Fairness.** `JobQueue!Fairness`: weak fairness of the loops (they poll with
bounded sleeps), of the supervisor, of the end of a handler (timeouts and
cancellation points), of lease expiry (time passes), of a client's insert and of
the end of maintenance (a reset completes or is resumed at startup). `JobEvents!
FairSpec`: worker, recovery and client go on. `MCChanges!FairSpec`: weak fairness
of the Undo's handler, which a worker runs, and of the recovery of its job, which
a loop calls. Crashes, aborts, cancels, heartbeats, updates, requests, sweeps and
lost connections are never assumed to happen; nothing else has a liveness
property.

## How state and actions correspond to the code

`map` in `PROJECT.json` gives the lines of every definition. The correspondences
worth knowing before reading a module:

**JobQueue.** `state`, `owner`, `lease`, `attempts`, `cancelReq` are columns of
`jobs` (a lease is "none", "live" or "expired"); `run` is the state of the ApplyRun
or ReviewUndoRun of a file job; `task` the TaskAttempts of a job as one value;
`pc`, `job`, `att`, `early`, `hout`, `verdict` the locals of `run_one` and `_execute`;
`rpc`, `rjob`, `rseen` those of `recover_stuck_jobs`. `RecoverRead` and
`RecoverCommit` are two actions because the row is read by a SELECT that opens no
transaction; `Decide` and `Mark` are two for the same reason. `JobPromise` is what a
caller may rely on: a job waits, is worked on and ends once; interrupted work
restarts except work on files; a committed effect ends as a success. `PromiseKept`
instantiates it with a refinement mapping.

**JobEvents.** A transition inserts its state event in its own transaction
(`AppendStateEvent`); `append_event` reads the highest number in one statement and
inserts in another (`AppendRead`, `AppendInsert`, `AppendBusy`). The reporter
coalesces in `pending`. The client polls as `_job_events_stream` does.

**Replacement.** `public` is the entry at the track's path, `dirs[o]` the private
directory of the o-th operation, `transition` the checkpoint in the journal row.
Each rename, checkpoint and verification is an action. A file is one value,
identity and content together, the evidence the code compares: an edit in place
by another program is a foreign file; an edit through a descriptor opened before
the displacement is not modelled, nor are checks of the directories' own identity.
An interrupted Apply is not rolled back by recovery (`recover_apply_runs` has no
caller in a job); it stays under `recovery_required`, as `RecoverApply` says.

**BundleApply.** `entry` and `credited` are the manifest's state of a file and the
steps whose attempts are "applied"; `log` the journal rows of a file in the order of
their ids; `disk` the steps in effect, `drift` the files another program touched.
`undone` is the part of a rollback the session has flushed and not committed.
`Refuse` may fire in any state: the preflight has objections this module does not
hold. Steps that change nothing leave no journal and are left out.

**BundleUndo.** `frozen`, `completed` and `active` are the manifest's steps, the
checkpoints and the intent; `kept` the journals retention has left. `noted` says that
the journal has a checkpoint of what is in hand. A case-only
move goes through an intermediate name (`mid`), so a crash can find the file
under a third name. An inverse of tags is staged (`StageTags`) and then published
(`RestoreTags`). Between its intent and the first checkpoint of its staging the journal
still names Apply's completed replacement, whose private directory went when Apply was
done with it; recovery of a process that died there cannot open the directory
(`Traceable`), and the run is closed for recovery by hand. A track has one journal for each phase it went through, so the
phases of a file are distinct; `IsNext` is the order of the inverse steps, a later
file first and of one file its later phase, which `Intent` takes from what remains.

**Reviews.** A request is `seen[r]`, what it read, until it writes; a write is
checked against what is there only by what the code leaves to constraints and
triggers. A revision has sections with a decision each. Every other check may
refuse at any time. A task that failed or found nothing settles its review in two steps:
`TaskReads` is the SELECT of `_refresh_bundle_task_state`, for which no transaction is
open, and `TaskWrites` the flush, which updates by id. `task` is "settling" between them
if the review was open when it was read, "archived" if it was discarded.

**Manual search.** A match selects a candidate (`AutoMatch`), which a manual value
prevents, or nothing (`MatchUnsettled`), which nothing prevents: the revision it writes
proposes nothing, and the review asks for attention.

**Renames.** A path is a name and a spelling. Moves are computed from the proposed
tags, whatever is decided about them, so decisions kept are those on moves. The
preview compares a destination with those of the review and with the known paths of
tracks outside it, so `CleanPreviewIsDistinct` is about pairs of which one track is in
the review: of two tracks outside it a preview says nothing.

**Blobs.** A publication is volatile until file and directories are synced; a crash
loses it or not, and loses the open transaction. `row` is the reference count, or
`NoRow`, which is no number a count can be.

**Matching.** Distances are integers in thousandths; texts are equal or have nothing
in common; the assignment of scipy is its specification, a pairing of least cost,
deterministic for a matrix.

**Catalog.** A version stands for tags and audio; size and mtime differ between
versions. `mixed` marks rows over which two sessions flushed: a session writes only
the attributes it changed, so such a row is a mixture; `Crossed` says when a write makes
one: the row is no longer as it was loaded, or it was not of the path that was read.
`CatalogInit`, `CatalogNext` and `CatalogSpec` are its specification, and so with the
prefixes `Grouping` and `Duplicates`.

**Grouping.** `profile` is what the stages compare of a track; similarity of album
names is a constant relation. A stage is a map from a track to what it makes of it:
`Claims` the release that takes it, `Leaders` the track whose cluster it joins. A
cascade is `reads[c]`, what it has read: the tracks and their units, then the pins, then
the fingerprints and all units; `CascadeWrites` is its one transaction, which writes what
differs from that. (Of the last two the code reads the fingerprints in batches of 500
tracks first; they are joined.) A cascade that would make a unit another has made since
fails on the unique key. **Duplicates.** Scores and durations are percentages. A detection
reads the tracks (`ReadsFiles`), then the fingerprints and the groups (`ReadsGroups`, which
joins two SELECTs), and reconciles the groups in one transaction (`DetectDuplicates`).

**Maintenance.** Middleware, handler and reset are coroutines of one event loop,
workers are threads, the lock is a row: `resetting` is the gate's flag, `lock` the
row, `phase` the operation. `Outside` holds clients that do not pass the gate; it is
empty in `services`.

**Imports.** A handler works on rows its session read earlier (`seen`); they are read again
only after the stages that expire them. `importDraft` is what a session has changed and not
committed. A resume asks for no end of the job before, and a cancelled job that is still
pending tells the session itself in a second transaction, so two can work on one session;
`overlapped` remembers that they did, `finished` which stages were done at some time.
A worker leases a job after the request that made it has ended, its second
transaction included: a bound, named in `ImportLease`.

**Retrieval, Gateway.** All providers are searched at once; `waits` are the requests
that are out. The shortlist takes the candidates by the index at which their provider
names them and then by provider, for any order of the providers. A row of the cache is
fresh, stale or absent; a payload holds a value, an empty answer or something the decoder
refuses.

**Enrichment.** `at` is where the job is in an item, `asked` what each provider said,
`draft` what the session has not committed. A result is stored in the transaction that has
seen the review (`StoresAtOnce`) or, where nothing was written before the SELECT, after
it: `PromotionReads` is the read of `add_operations`, `OutcomeReads` that of
`_refresh_bundle_task_state`, and `StoresAsRead` the flush of what they decided.

**Credentials.** A reference names a file and stands for its token. The event loop
runs one settings call at a time; a crash or a failure comes between its steps. When the
clients it replaced are in nobody's hands, the call lets the loop go while they are closed,
and schedules the check of the new ones afterwards (`closing`, `SchedulesChecks`).

**Preferences.** `strong` and `reject` stand for fields a validator relates. `pinned`
are fields set by the environment.

**Inbox, Activity.** A session keeps what it loaded. A cursor is a key; rows appear
and move while the pages are walked.

## Proofs

The theorems hold for every value of the constants that satisfies the named
assumptions: any number of workers, files, requests, crashes. Where a bound appears
in a model (`MaxCrashes`, `MaxRuns`, ...) it is an arbitrary natural number in the
proof. Each proof has the same shape: an inductive invariant `IInv`, checked with TLC
before it was proved, lemmas about the operators, one lemma per action, and a short
temporal argument at the end.

| Module | Theorems | Assumptions |
| --- | --- | --- |
| `JobQueueProofs` | `TypeCorrect`, `Invariance`, `MutualExclusion`, `OwnershipKept`, `CommittedReported`, `NoTaskLeftBehind`, `CancelKept`, `Implements` | `ConstantsAssumption` of `JobQueue` |
| `JobEventsProofs` | `TypeCorrect`, `ReplayKeepsOrder`, `ClientSeesTransitions`, `LatestUpdateWritten` | bounds are naturals |
| `ReplacementProofs` | `TypeCorrect`, `NoFileIsLost`, `RunTellsOutcome` | bounds are naturals; the last two: a held file is released without an I/O error |
| `BundleApplyProofs` | `IInvHolds`, `TypeCorrect`, `ChangesOnRecord`, `OutcomeTold`, `RollbackInReverse` | a manifest gives each file one of four plans and does not mix corrections with other steps |
| `DeskProofs` | `TypeCorrect`, `SingleWriter`, `LateOutcomeYields`, `ManualValueKept` of `Reviews` | `ReviewsConstantsAssumption` |
| | `DeskTypeCorrect`, `MatchesStayTrue`, `ListsStayComplete`, `ManualNeverOverridden`: the properties of `desk` | that, and `MatchingConstantsAssumption`: what the validators of the settings accept; `ManualSearchConstantsAssumption`: a URL that names a candidate leads to one; `InboxConstantsAssumption`, `ActivityConstantsAssumption`: finitely many reviews with numbers, at most four tables, a page has a row |
| `LibraryProofs` | `LibraryTypeCorrect`, `SkipsWhatWasRead`, `CalmScansConverge`, `OffersStayTrue`, `PinsStay`; `CatalogStaysTrue`, `DecisionsKept`: the properties of `library` | that of `BundleApply`; `CatalogConstantsAssumption`, `GroupingConstantsAssumption`, `DuplicatesConstantsAssumption`: track ids are positive numbers, tracks are finite in number |
| `ChangesProofs` | `UndoTypeCorrect`, `UndoIsTold`, `RetryStartsClean`, `CrashLeavesCheckpoints`; `MovesTypeCorrect`, `MovesKeptSafe`; `ArtTypeCorrect`, `ArtIsKept`; `ChangesTypeCorrect`: the types of `changes` | that of `Replacement`; `UndoConstantsAssumption`, `RenamesConstantsAssumption`, `BlobsConstantsAssumption` |
| `ServicesProofs` | `MaintenanceTypeCorrect`, `LockHasOwner`, `ResetStaysClean` | `KeysAreNames`; the last: every client passes the gate |
| | `CredentialsTypeCorrect`, `CredentialIsKept`, `NoPlaintextServed`, `ClientsAreHeld`, `StatusIsCurrent` | `CredentialsConstants`: finitely many holders, each a request or a check |
| | `PreferencesTypeCorrect`, `ThresholdsStayOrdered`; `EnrichmentTypeCorrect`; `ImportsTypeCorrect`; `ZeroWasAnswered`, `EachIsHeard`; `AbsenceWasAnswered` | `EnrichmentConstantsAssumption`, `ImportsConstantsAssumption`, `RetrievalConstantsAssumption` |
| | `ServicesTypeCorrect`, `SettingsStay`, `FailuresStayTold`, `WorkSettles`, `OutcomesStay`: the properties of `services` | those above |

**Queue.** `LocksHeld` says a worker holds its job's flock from the probe to the
close and so does a recovery, so the two never act on one job together
(`Exclusive`). `RowMoves` then lists the seven ways a step can move a row and
`WorkerMoves` the ways it can move a worker; each conjunct of `IInv` follows by
cases of these. `CommittedWins` is not inductive alone: it needs `VerdictSound`
(the branch taken knows whether the run is committed), which needs
`ExecutionOwnsRow` (nobody else moves the run meanwhile), which needs
`LocksHeld`. `Implements` maps each of these moves to a step of `JobPromise` or to
none.

**Events.** A number can be given twice, and the order of replay survives it for one
reason (`ReadIsRecent`): between the two statements of `append_event` the worker
holds the job, so the only event that another transaction can insert is that of a
cancellation, and only one. `StateEventsAbove` says what follows for a client that
asks for numbers above its cursor: a transition's number is above all before it, so
no cursor passes a transition that was not delivered (`CursorIsTrue`,
`BatchIsTrue`). `LatestIsKept` is the coalescing: the last update waits or is the
newest row.

**Replacement.** What is owed is never in two hands: `HeldInProgress` says an owed
file is held only by the operation at work or the one to recover, `NewFiles` that
what an operation publishes is nowhere else before, `OwedByJournal` that the debt
follows the journal's state, `ApplyReleased` that Undo never finds Apply's directory
together with the applied file. `Control` and `DirInStep` tie rows and directory to
the step. `ApplyReleased` is what fails when the release of a held file meets an I/O
error (`FinalizeMayFail`): then a recovery of Undo can read Apply's completed
transition as an interrupted one. This is the case `AppliedRemains` below shows, and
the reason for the hypothesis of the two theorems.

**Apply.** In the loop, every file but the one in hand is what its credits say
(`Quiet`), and the file in hand what the steps before the present one have left
(`InLoop`), of which each has a finished journal; the step being written has an open
one, the last of its file (`IntentOnRecord`). So `WriteAhead` holds wherever a crash
comes. In the rollback, what is passed is undone and what is not passed is in its
journals (`RolledBack`); the inverses that are flushed and not committed are the
newest of their file (`Flushed`), from which `RollbackInReverse` follows with the
order of `todo`. `Passed` gives the whole manifest at the end of the loop.
`Uninterrupted` (no exception ended a handler, or no collection is corrected) and, for
a run that failed, `aborts = 0` are hypotheses of the properties themselves: a run
that is resumed after an exception does not hold what they say (`FinalIsWhole`
below), and the model reaches such runs. `FirstExecution` says why no execution
finds anything of an earlier one where no exception ended one.

**Reviews.** `OneWriter` rests on what the writes are checked against, the
unique indexes. `DiscardStands` says what the code does keep: an outcome that had read the
review as open before the user discarded it reopens it, against the comment beside the
read (see below), and nothing else but the user does. `EditKept` and `DiscardStands` are about requests that read long
before they write, so they need what a number is worth (`ReadsAreVersioned`): if the
revision's number is still the one that was read, so are its sections. A review that
was never opened has nothing to lose, and who read that it was not there opens it
(`AbsentIsEmpty`).

**Matching.** Two things are kept of a ranking (`NearFirst`): no row is nearer than some
best distance, and a row that is followed by a nearer one is within the gap of the best.
Both sorts establish it, whatever the provider order and the years, for any distances:
`KeyedByNearness` is what their keys have in common, `ArrangeFacts` (`Orders`) that a
sort by a strict order gives each member one place. `StrongIsAlone` follows although
`_decision_for_ranked` compares the first selectable row with the second alone: a third
that is within the gap of the first would be before the second or leave the second within
it. The attempt at a proof found the case that the property leaves out: with a gap of 0,
which the settings accept, nothing is compared, and two equal rows are a strong match. That a
distance is a number needs that a fold over a finite set of numbers is one
(`TotalTyped`, by the least cardinality of a set for which it is not).

**Manual search.** What a request saw under the current number is the current revision
(`SeenIsRevision`), because a number is given once; so a request that compares numbers
does not overwrite what it did not see. `ManualKept` has two ways for a manual value to go,
a selection that the user forced and a match that selects nothing; the second is no choice
of the user, and is in the table below. No URL is remembered for a revision to come, and
for the current one it is true (`AliasIsOld`).

**Inbox.** The walk is a key, and keys are in a strict total order whose last part is the
review (`KeysAreOrdered`, `SortKeysTyped`). Of the reviews that did not move, those whose
key the walk has passed are listed once and the others not at all (`ListedIsPassed`):
a page passes what it lists and no more, and a write either leaves the key of its row or
makes the row one that moved. **Activity.** A page is merged from one page per table,
each cut after `Limit` + 1 rows: what a table leaves out is older than the page
(`LeftOutIsOlder`), so the cursor passes nothing that was there and was not listed
(`WalkIsTrue`), while rows that are committed later may be passed. `ToldIsTrue` says that
an execution which is told to have succeeded is done, and stays so.

**Undo.** A checkpoint is written after the file, so what the manifest says of a file
and what the file is differ by the step in hand and no other: `JournalsMatch` ties the
journals to the execution record, `LibraryMatches` the files to the manifest and the
active intent, `Ordered` says that what is completed is later than what remains.
`CrashLeavesCheckpoints` has one exception (`DiedUnstaged`): a process that died after the
intent of an inverse of tags and before its staging leaves an Undo that recovery closes;
also there the library is what the checkpoints say, since nothing was moved. `AtRest`
names where nothing is in hand, and `Owes` where the journals may still be read: there the
manifest holds what retention has left, from which `RetryIsSafe` follows. `Told` is what a
report rests on, and `UndoControl` relates the handler, its run and its job.

**Renames.** Moves are the preview of the proposed values in the library as it is known
(`MovesInv`); so a move without a flag goes to a path nobody known has, and the checks of
Apply stand between the preview and what has changed since. The attempt at a proof found
`CleanPreviewIsDistinct` false as it was stated first, for two tracks outside the review,
of which a preview says nothing; it now speaks of pairs of which one is in the review.

**Artwork.** `Counted` says that a row counts every track that shows its picture and every
inverse that keeps it; it may count more (a put that failed), never less. `PutIsSafe` is the
race of two requests: a put that did not find the picture, while another stored it, meets
a reference that no restore takes back. `BytesFollow` says that a row has durable bytes
but for the one whose release is under way, and `WriteHasJournal` that the journal of a
write is there before the write is. `Bounded` keeps the counts away from `NoRow`.

**Catalog.** Two things are kept of whatever a session holds or a row that is not mixed
says (`ReadAs`): the version was on disk once (`MetBefore`), and if it is there now the tags
that were read with it are its own (`ReadIsTrue`). Versions are never used twice, so no later
change of the file can make old tags true of it, and `SkippedIsRead` follows. It needs the
second way a row becomes mixed, which the attempt at a proof found: a scan whose map is stale
writes what it read of one path over a row that an Apply has moved to another; when a
restore brings that version there, the row would say that it was read. `ScanConverges` is
about a scan during which nothing else moves: its map is true of the paths it has not walked
(`MapIsTrue`), its batch of those it has (`BatchIsTrue`), and what is walked is catalogued or
in the batch (`WalkedIsCatalogued`). These are said of a scan as a value, so that they
can be said of the scan before its commit and of the one after it. TLC checked `CatalogInv` for
2 paths, 2 rows and 2 versions before it was proved.

**Grouping.** What a cascade has read was so when it read it, and of a track whose unit it
read as pinned the unit is still that one, because pins are never taken away
(`GroupingInv`). That a unit made by hand has no album is what keeps the
stages from writing over it; the rest of `KeepsPins` and `KeepsScope` is what the
stages select. `KeepsPins` excepts a track whose pin, or whose unit, the cascade that ends
had not read (`Missed`): the code ignores a confirmation that is committed between its
reads and its write. **Duplicates.** As long as nothing changed since a detection began, what
is offered when it has ended is what a recording shares (`DuplicatesInv`); a dismissal
that a detection had not read stays a dismissal, or goes with its group; a confidence is a percentage because
sums are bounded (`TotalBounds`).

**Maintenance.** Who holds the gate is alone (`GateIsHeld`) and has seen the last
mutation leave (`HeldIsDrained`); whoever tested the lock before it was taken has
inserted its job before the cleanup (`LockStopsInserts`). Hence a database that was
cleaned stays clean until the lock is given back. With clients that do not pass the
gate (`Outside`) `LockStopsInserts` is false, and so is the theorem: `ResetIsClean` is
in the table below. `LockHasOwner` needs no such hypothesis.

**Credentials.** `Secrets` says a call that is under way has not yet removed what the
row names: the new secret has a reference above all that were used, what is to be
removed is not what the row names, and a reset empties the row before it touches a
file. `PlaintextIsKnown` says that wherever a token in plain text may be left, the row
makes the next startup empty the log. For the clients, `CountsLeases` is what makes the
reference count true: a count is the number of leases of a set until a reset revokes it,
and zero from then on, when the leases that are left count for nothing. `Checks` carries
the status: it is of the newest set that was probed, and the current set is probed,
scheduled to be, about to be scheduled, or was. `SettingsAreKept` of `services` is the last four theorems together
with `WritesStayOrdered` of `Preferences`.

**Preferences.** The base is valid when it is loaded, and a row that was written over the
base in use was validated together with it (`PreferencesInv`).

**Imports.** A review that a job has prepared and not committed is of a work unit that is
not matched (`DraftsAreUnmatched`, in `VisibleInv`), so what is matched is in a review that
is committed, however many jobs there are. Whatever a job holds as done was done at some
time (`DoneWasDone`), and it is in a stage that it does not hold as done (`InStage`); so it
goes on to review only when it holds all stages as done, and they all were. Until two have
worked at once, what is held is what is committed (`HoldsCurrent`), so then they all are,
and none is turned back. Two at once do turn one back, which the properties say
(`KeepsDone`, `ReviewingIsComplete`) and the table below reports; by whom is part of the
property: one that had read the stage before it was done.

**Enrichment.** An item is in work only while its job runs, and between two items the
session holds nothing (`ItemInWork`); the lyrics handler has its one answer when it holds
the writer (`LyricsAnswered`). What is stored at once was seen in the same transaction, so
only a flush of what was read before can change a review that was discarded since
(`KeepsRejection`), and it changes its state and not its proposal.

**Retrieval, Gateway.** An empty list was answered in this retrieval and a failure left an
error or an older list (`HeardTruly`); an empty list is never cached, and an outcome
follows from what was heard (`OutcomesFollow`). That each provider which found something is
in the shortlist needs that a set of indices has a least one (`Least`). In the gateway
`FailureIsNotAbsence` is inductive once a caller that asked has a question
(`GatewayInv`).

What stays with TLC:

- Liveness (`EveryJobFinishes`, `StreamEnds`, the second part of `UndoSettles`):
  the prover has no rules for fairness and ENABLED.
- What the folds compute beyond a type: that `Aligned` of `Matching` is the cheapest
  pairing, and what a distance is for given evidence. Its definition says the first; the
  second takes induction over the data.
- `NothingLost` and `OutcomeTold` where `FinalizeMayFail`, `MaintenanceIsSafe` where
  `Outside` is not empty, the
  outcome of an Apply after an exception: they do not hold.


## Findings

`queue_cancel`: a cancellation committed between recovery's read of an expired
row and its compare-and-swap is overwritten; the job goes from cancelling back
to pending and its handler starts once more before the cancel is honoured. The
filter of the UPDATE (`jobs/queue.py:495-505`) does not repeat the columns the
decision was made from.

`undo_pruned`: the age sweep deletes journals one by one, so that of a file whose
tags and move were journaled at different times only the younger may remain; an
Undo then freezes that one, restores it and reports success.

`reviews_overridden`: a request that read a revision before the user rejected an
operation carries the decisions it read into the next revision (`put_revision`,
`pipeline/reviews.py:1692-1717`), and the operation is accepted again without a
decision of the user.

`blobs_evicted`: reference counts do not count reviews. When the last track that
shows a picture loses it, the bytes go, although an open review proposes them.

`renames_shown`: the preview leaves the present paths of the tracks of the review
out of what it compares with, and Apply refuses any destination that exists: two
tracks that exchange names show no conflict and can never be applied.

### Other statements the models refute

These statements of a doc, a comment or a docstring are stated in the modules and
checked by no run of the list. TLC refutes each with a configuration that selects
the component and names the property, for the constants of the family or those
given in parentheses.

| Property | Statement | What the code does |
| --- | --- | --- |
| `JobEvents!NoEventMissed` | "the sequence lets clients replay missed events" (`db/models.py:956-957`) | `append_event` gives an event the number of a state event committed since its read, and the index is not unique; a client that has the one asks for higher numbers |
| `Replacement!AppliedRemains` (`FinalizeMayFail` TRUE) | when Undo fails closed "the applied file changes remain" (`src/README.md:314-317`) | an Undo that dies before its first checkpoint leaves Apply's completed transition in the row; if its directory is still there, recovery undoes the publication and deletes the applied file |
| `Replacement!ForeignDetected` | "external file changes must be detected" (`docs/product-spec.md:21-22`) | a recovery moves the file away before it looks at it (`changes/writer.py:1485,1516-1521`); a crash then leaves a foreign file in the withdrawn slot while the Undo is retried and reported as done |
| `BundleApply!AppliedIsTrue` | "the persistent result still identifies per-file committed, rolled-back, failed, and skipped operations" (`docs/product-spec.md:267-268`) | the rollback commits file by file; when it restores the last and fails on an earlier one, the run asks for recovery but reports the restored file as applied |
| `BundleApply!FinalIsWhole` | "never silently leaves a partially applied bundle" (`docs/product-spec.md:269`) | an exception after a commit leaves the run resumable; the resumed execution can be refused or cancelled before the committed file, and the run ends as failed with changes in place. A rollback commits file by file (`bundle_applier.py:1280`), so an exception in it leaves corrections of collections that are undone and credited; the resumed run counts them as applied |
| `BundleUndo!NoRunIsStranded` | the only final outcomes are applied, restored or a recovery state (`docs/production-readiness.md:176-178`) | cancelling a queued Undo ends its job and leaves its run pending (`services/jobs.py:331-378`); it can be neither retried nor asked for again |
| `Reviews!UnresolvedBlocks` | Apply is disabled while an item is unresolved (`docs/product-spec.md:198-200`) | an unresolved item counts only while the bundle is "needs_attention" (`services/review_apply.py:225-236`), and a task that ends, or a decision on a discarded bundle, makes it "ready" again (`pipeline/reviews.py:1032-1042,1508-1530`) |
| `Credentials!ClearIsRetryable` | "Clear remains retryable" (`services/settings.py:371`) | the row that names no file is committed before the deletion fails, so the second clear has nothing to delete and succeeds |
| `ManualSearch!ReselectIsIdempotent` | "Re-selecting the same candidate is idempotent" (`docs/product-spec.md:158-160`) | a revision is repeated only if its author is the same too: a match composes the candidate the user selected as a new revision |
| `ManualSearch!RejectedNeverSelected` | "Rejected candidates must never be selectable" (`services/manual_search.py:565`) | the route of a track's page composes without asking the ranking (`services/matching.py:27`) |
| `Matching!EditsFollowRanking` | a singleton is mapped "using the ranking alignment" (`pipeline/matching.py:424`) | the edits are aligned with other evidence and the default weights |
| `Matching!HintsPointHome` | duplicates are "indices into the returned ranked list" (`matching/candidates.py:79`) | rejected rows are removed afterwards and the indices stay |
| `Inbox!InboxNeverStale` | "the inbox never presents a stale candidate/state" (`pipeline/reviews.py:538`) | the row is written from the bundle as the session loaded it, perhaps before another session's commit |
| `Inbox!IssueIsCurrent` (a section, `MaxTries` 2) | the same, of the issue of a row | every failed attempt is an issue, also one that was repeated with success |
| `Preferences!EffectiveIsValid` | "Corrupt stored values fall back to base" (`pipeline/effective_settings.py:136`) | `model_copy(update=...)` does not validate, so the fallback is never taken; fields that were valid together are overridden one by one by the environment |
| `Maintenance!PoolReturns` | a reset restarts the worker (`src/README.md:182-183`) | a reset whose key was refused before stops the pool and is then refused again, without a restart |
| `Maintenance!ResetIsClean` (`Outside` not empty) | the same with the command line at work | a CLI enqueue that read before the lock can insert after the cleanup |
| `Catalog!ScanContinues` | an unreadable file "does not abort the rest of the scan" (`docs/product-spec.md:76-77`) | a file that goes between its tags and its content hash (`pipeline/scan.py:482`), and a new path that another session has inserted since, end the whole scan |
| `Imports!FailedLookupIsRetried` | temporary failure and "no result" stay distinct (`docs/product-spec.md:141-143`) | the fingerprint is stored together with the failure of its lookup; the resumed stage selects the tracks without a fingerprint (`jobs/handlers/fingerprint.py:44`), so it is done and that track was never looked up |
| `Imports!CancelledSessionSettles` | a caller does not see a cancelled job with an inconsistent session (`services/jobs.py:334-339`) | a cancel seen between two stages ends the job and leaves the session as it was |
| `Imports!ProposalsAreEnriched` | a session under review has planned the enrichment of its proposals | the list of what was matched is a local of the handler: a resumed match plans only what it matched itself |
| `Imports!OneOrchestrator` | "One import Job orchestrates the whole session" (`db/models.py:982-984`) | `resume_import` (`services/imports.py:116-137`) does not ask whether a job of the session is active, and two workers run both |
| `Retrieval!ReservationIsShort`, `Enrichment!SectionReservationIsShort` | the writer's reservation is not held "across filesystem or other slow I/O" (`db/transactions.py:9-15`) | an early commit of the cache leaves a transaction open while other providers are awaited; ReplayGain and covers flush "running" and compute or ask before they commit |
| `Enrichment!LossIsReported`, `Gateway!FailureIsNeverAbsence` | a failure does not collapse into "no result" (`docs/product-spec.md:141-143`) | a picture whose download fails is "not found"; a cover's call falls back to an old empty answer |

Some promises hold but for what was read too early. The property that a run checks, and
that is proved, states what is left, with its exceptions; without the exceptions TLC
refutes it, with the constants of the run.

| Property, and its exception | Statement | What the code does |
| --- | --- | --- |
| `Reviews!KeepsDiscard`: a task that is "settling"; `Enrichment!KeepsRejection`: a section at "settles" | "A user archive is authoritative over late optional-task outcomes" (`pipeline/reviews.py:1511-1513`) | the state is read with no transaction open (`reviews.py:1509`) and the flush at 1554 updates by id only: a discard committed in between is overwritten with "needs_attention" or "ready" |
| `ManualSearch!KeepsManual`: an unresolved match | "If the user has manually changed a value in a review, a later provider refresh asks for confirmation before replacing that value" (`docs/product-spec.md:137-139`) | a match that selects nothing (`jobs/handlers/match.py:253-278,311-336`) replaces the revision, manual values included (`pipeline/proposals.py:487-497`) |
| `Grouping!KeepsPins`: `Missed` | "pins are sticky across rescans" (`pipeline/grouping.py:386-387`) | tracks and pins are read at 395-426 with no transaction open, units at 478, and written from 504: a confirmation committed in between is overwritten |
| `Duplicates!KeepsDismissals`: a detection that had read the group before | "Existing dismissed groups left untouched — a dismissal must not be silently undone by the next detection run" (`pipeline/duplicates.py:34-35`) | the groups are read before the transaction of the write: a group dismissed in between gets new members, or is deleted and its dismissal with it |
| `BundleUndo!CrashRecovers`: `DiedUnstaged` | "injected crashes before and after file/DB checkpoints reconcile deterministically" (`docs/production-readiness.md:183`) | between the intent (`bundle_undo.py:845-849`) and the first staging checkpoint the journal names Apply's finished replacement; `recover_publication_transition` cannot open its directory, and the run is closed as not retryable (`jobs/queue.py:640-643`) |
| `Imports!KeepsDone`, `ReviewingIsComplete`: `overlapped` | the "skip-if-done logic picks up wherever the previous run (or crash) left off" (`services/imports.py:125-126`) | a job that runs while its session is resumed writes the rows it read before: a stage that is done is turned back, and the session can be shown for review with a stage that is not done |

### Observed while modelling

No property is about these; they are worth a reader's time.

- A scan and a reread of one track can each flush part of a row: `SkippedIsRead`
  and `ScanConverges` hold only for rows that are not `mixed`.
- A transient read error is recorded with the stat of the file, so the next scan
  skips it. A scan keeps the fingerprint matches of a changed file, a reread
  deletes them.
- The import of a directory can change a unit that reaches outside it when they
  share a release id, and it overwrites the unit's track count.
- The retention loop of a pool that was started during maintenance ends for good;
  `MutationGate.reset` cancelled while it drains leaves the gate closed.
- Two concurrent puts of the same bytes end in a UNIQUE conflict of one; `release`
  unlinks before its transaction commits.
- A second retry of an Apply that fails before it rewrites a file leaves no
  `rolled_back` journal, and a third is refused. A new run keeps the error text of
  an older one.
- Offline with an empty cache, a provider's search reads as "zero results" and a
  cover as "not found".
- Two calls of `retry_review_task` at the same time can plan two attempts.
- "Three votes, or half of the tracks with fingerprint data" (`pipeline/grouping.py:173-175`):
  the second condition compares the votes that are left with all votes for the same
  release, so two are always enough.
- A rejected tag still shapes the proposed move of its track.
- A decision on an edited operation of a discarded bundle ends in a trigger's abort,
  not in an answer.
- Answers to ordinary requests through clients that were replaced may overwrite the
  status of the new ones; only probes carry a generation.

## Not modelled

See `components` in `PROJECT.json` for each part. In short:

- Code without a caller in the program: `recover_apply_runs`,
  `recover_atomic_bundles`, `mark_recovery_required_for_stuck_apply_runs`; and
  `_freeze_legacy_manifest`, which serves runs of an older version.
- `changes/backup.py`: optional copies, off by default, which nothing reads.
- Authentication, sessions, file permissions, encryption and path checks against
  hostile input: a security boundary.
- Conversions without state: tag containers, artwork decoding, the lexer, parser
  and functions of path templates, provider clients' JSON, API schemas, CLI output.
- Reads: catalog browsing, facets, dashboard, metrics.
- `services/analyze.py` and the analyze handler, which chain a scan and a
  fingerprint of one file; `services/import_scope.py`.
- The frontend, the scripts, the migrations and the tools under `src/.agents`.
- In `JobQueue`: wording, the exact clock, retries on a busy database (a retried
  transaction is the transaction), pruning and listing of jobs. In `Replacement`:
  directory identities; case-only renames are in `BundleUndo`.

## Plan

Done: the queue with its promise; everything that changes files; the review
lifecycle; library, services and settings; proofs of the queue, of the events, of
the replacement of a file, of Apply and of Undo, of renames and artwork, of what the user
works with, of the library and of the seven services. Every safety property that a passing
run checks is a theorem; the three liveness properties are not.

Left, in this order:

1. `BundleApply` over instances of `Replacement`, as a refinement of its abstract
   steps; an Undo's job as `JobQueue` sees it.
2. Retention of job rows; two detections of duplicates at once.
