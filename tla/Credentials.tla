---------------------------- MODULE Credentials ----------------------------
(***************************************************************************)
(* The credential of one provider (services/settings.py, secrets.py), the  *)
(* provider clients built from it (providers/set.py, runtime.py) and the   *)
(* status their health checks record (providers/status.py).                *)
(*                                                                         *)
(* A secret file is named by its reference and stands for the token it     *)
(* holds; reference 1 is the stable one the migration uses.  The event     *)
(* loop runs one call at a time: a call that is not idle holds it until it *)
(* has published, so only a crash or a failure comes between its steps.    *)
(* It lets the loop go again while the clients it replaced are closed, and *)
(* schedules the check of the new ones after that.                         *)
(***************************************************************************)
EXTENDS Naturals, FiniteSets

CONSTANTS
    Readers,  \* requests and jobs that hold a lease
    Probes,   \* health checks of a snapshot
    MaxRef,   \* bound: references made
    MaxSet    \* bound: sets published by one process

\* A holder is a request or a health check, and there are finitely many.
ASSUME CredentialsConstants ==
    /\ IsFiniteSet(Readers \cup Probes) /\ Readers \cap Probes = {}
    /\ {MaxRef, MaxSet} \subseteq Nat \ {0}

VARIABLES
    setting,            \* Setting "providers.<name>": present, enabled, secret_ref, plaintext token
    files,                                 \* references whose file is in the store
    used,                                  \* references made so far
    plain,              \* where SQLite still holds a plaintext token: "row", "wal" or "none"
    server,                                \* "down", the steps of the lifespan, "up"
    call,                                  \* the PUT in progress
    owed,                                  \* files a failed clear was to remove
    wipe,                                  \* the factory reset in progress
    current, made, open, retiring, count,  \* ProviderSetRuntime
    revoked,                               \* the newest set a reset has revoked
    lease,                                 \* the set each holder has pinned, 0 for none
    probing,                               \* where each probe is
    scheduled,                             \* checks created and not begun
    closing,            \* publications that wait for the clients they replaced to close
    status                                 \* the _MutableStatus of the provider

store   == <<setting, files, used, plain>>
client  == <<current, made, open, retiring, count, revoked, lease>>
checks  == <<probing, scheduled, closing, status>>
request == <<call, owed>>
credentialsVars    == <<store, server, request, wipe, client, checks>>

NoRef   == 0
Stable  == 1
Sets    == 1 .. MaxSet
Holders == Readers \cup Probes
NoSetting  == [present |-> FALSE, enabled |-> TRUE, ref |-> NoRef, legacy |-> FALSE]
NoCall  == [at |-> "idle", kind |-> "none", new |-> NoRef, prev |-> NoRef]
UnknownStatus == [of |-> 0, by |-> "none", probe |-> 0]

\* EffectiveConfigResolver.resolve: a missing file is no token.
Resolved == IF setting.ref \in files THEN setting.ref ELSE NoRef

\* build_provider_set leaves out a provider that needs a token and has none.
Built == IF setting.enabled THEN Resolved ELSE NoRef

\* _new_provider_secret_reference
FreshRef == used + 1

-----------------------------------------------------------------------------
(* ProviderSetRuntime.                                                      *)

\* A retired set is closed at once when nobody has a lease on it.
RetiredAtOnce(s, counts) == {s}
Retired(s, counts) == IF counts[s] = 0 THEN {s} ELSE {}

Swap(token) ==
    /\ current < MaxSet
    /\ current' = current + 1
    /\ made' = [made EXCEPT ![current + 1] = token]
    /\ open' = (open \ Retired(current, count)) \cup {current + 1}
    /\ retiring' = (retiring \cup {current}) \ Retired(current, count)
    /\ UNCHANGED <<count, revoked, lease>>

Acquire(h) ==
    /\ count' = [count EXCEPT ![current] = @ + 1]
    /\ lease' = [lease EXCEPT ![h] = current]
    /\ UNCHANGED <<current, made, open, retiring, revoked>>

\* _release: the last lease closes a set that is retiring.
Release(h) ==
    LET s == lease[h]
        last == count[s] <= 1
    IN  /\ count' = [count EXCEPT ![s] = IF last THEN 0 ELSE @ - 1]
        /\ open' = IF last /\ s \in retiring THEN open \ {s} ELSE open
        /\ retiring' = IF last THEN retiring \ {s} ELSE retiring
        /\ lease' = [lease EXCEPT ![h] = 0]
        /\ UNCHANGED <<current, made, revoked>>

\* Every set is closed, leased or not, and an empty one published.
Revoke ==
    /\ current < MaxSet
    /\ current' = current + 1
    /\ made' = [made EXCEPT ![current + 1] = NoRef]
    /\ open' = {current + 1}
    /\ retiring' = {}
    /\ count' = [s \in Sets |-> 0]
    /\ revoked' = current
    /\ UNCHANGED lease

\* Clients are published; their check is scheduled at once, or after the await of
\* those they replace.
Publishes ==
    /\ Swap(Built)
    /\ IF Retired(current, count) = {}
       THEN scheduled' = scheduled + 1 /\ UNCHANGED closing
       ELSE closing' = closing + 1 /\ UNCHANGED scheduled

-----------------------------------------------------------------------------
(* update_provider_setting and its route.                                   *)

Loop == server = "up" /\ call.at = "idle"

CallEnds == call' = NoCall

\* The new secret is durable before the row names it.
BeginUpdate(kind) ==
    /\ Loop /\ wipe = "none"
    /\ LET fresh == IF kind = "token" THEN FreshRef ELSE NoRef
       IN  /\ fresh <= MaxRef
           /\ files' = IF fresh = NoRef THEN files ELSE files \cup {fresh}
           /\ used' = IF fresh > used THEN fresh ELSE used
           /\ call' = [at |-> "written", kind |-> kind, new |-> fresh, prev |-> setting.ref]
    /\ UNCHANGED <<setting, plain, server, owed, wipe, client, checks>>

\* SecretStore.set fails, before or after its rename.
WriteFails ==
    /\ Loop /\ wipe = "none" /\ FreshRef <= MaxRef
    /\ used' = FreshRef
    /\ files' \in {files, files \cup {FreshRef}}
    /\ UNCHANGED <<setting, plain, server, call, owed, wipe, client, checks>>

Named(kind, old, fresh) ==
    CASE kind = "token" -> [old EXCEPT !.present = TRUE, !.ref = fresh]
      [] kind = "clear" -> [old EXCEPT !.present = TRUE, !.ref = NoRef]
      [] OTHER          -> [old EXCEPT !.present = TRUE, !.enabled = ~@]

\* What a committed call has still to remove.
Outdated(c) == c.prev # NoRef /\ (c.new # NoRef \/ c.kind = "clear")

CommitSetting ==
    /\ call.at = "written"
    /\ setting' = Named(call.kind, setting, call.new)
    /\ call' = [call EXCEPT !.at = IF Outdated(call) THEN "committed" ELSE "settled"]
    /\ UNCHANGED <<files, used, plain, server, owed, wipe, client, checks>>

\* _upsert fails: the secret written for it is removed, unless that fails too.
CommitSettingFails ==
    /\ call.at = "written"
    /\ files' \in {files, files \ {call.new}}
    /\ CallEnds
    /\ UNCHANGED <<setting, used, plain, server, owed, wipe, client, checks>>

RemoveOld ==
    /\ call.at = "committed"
    /\ files' = files \ {call.prev}
    /\ call' = [call EXCEPT !.at = "settled"]
    /\ UNCHANGED <<setting, used, plain, server, owed, wipe, client, checks>>

\* A retired value that stays does not fail a save; it fails a clear.
RemoveOldFails ==
    /\ call.at = "committed"
    /\ files' \in {files, files \ {call.prev}}
    /\ IF call.kind = "clear"
       THEN CallEnds /\ owed' = owed \cup {call.prev}
       ELSE call' = [call EXCEPT !.at = "settled"] /\ UNCHANGED owed
    /\ UNCHANGED <<setting, used, plain, server, wipe, client, checks>>

\* resolve, build_provider_set, swap, _schedule_provider_checks.
Publish ==
    /\ call.at = "settled"
    /\ Publishes
    /\ CallEnds
    /\ UNCHANGED <<store, server, owed, wipe, probing, status>>

\* A secret file that cannot be read: the old clients stay.
PublishFails ==
    /\ call.at = "settled"
    /\ CallEnds
    /\ UNCHANGED <<store, server, owed, wipe, client, checks>>

-----------------------------------------------------------------------------
(* Factory reset: the rows, then the secrets, then the clients.             *)

ResetRows ==
    /\ Loop /\ wipe = "none" /\ closing = 0
    /\ setting' = NoSetting
    /\ wipe' = "rows"
    /\ UNCHANGED <<files, used, plain, server, request, client, checks>>

\* clear stops at the entry it cannot remove; the reset is retried.
ResetFiles ==
    /\ Loop /\ wipe = "rows"
    /\ files' \in SUBSET files
    /\ wipe' = IF files' = {} THEN "files" ELSE "rows"
    /\ UNCHANGED <<setting, used, plain, server, request, client, checks>>

ResetRevokes ==
    /\ Loop /\ wipe = "files"
    /\ Revoke
    /\ wipe' = "revoked"
    /\ UNCHANGED <<store, server, request, checks>>

\* The refresh fails: a retry revokes again.
ResetStalls ==
    /\ Loop /\ wipe = "revoked"
    /\ wipe' = "files"
    /\ UNCHANGED <<store, server, request, client, checks>>

ResetPublishes ==
    /\ Loop /\ wipe = "revoked"
    /\ Publishes
    /\ wipe' = IF closing' > closing THEN "published" ELSE "none"
    /\ UNCHANGED <<store, server, request, probing, status>>

\* The replaced clients are closed: _schedule_provider_checks, of a PUT or a reset.
SchedulesChecks ==
    /\ Loop /\ closing > 0
    /\ closing' = closing - 1
    /\ scheduled' = scheduled + 1
    /\ wipe' = IF wipe = "published" THEN "none" ELSE wipe
    /\ UNCHANGED <<store, server, request, client, probing, status>>

-----------------------------------------------------------------------------
(* Leases, ordinary traffic and health checks.                              *)

ReaderBegins(r) ==
    /\ Loop /\ lease[r] = 0
    /\ Acquire(r)
    /\ UNCHANGED <<store, server, request, wipe, checks>>

\* record_response of ordinary traffic carries no generation.
ReaderHears(r) ==
    /\ Loop /\ lease[r] \in open /\ made[lease[r]] # NoRef
    /\ status' = [status EXCEPT !.of = lease[r], !.by = "traffic"]
    /\ UNCHANGED <<store, server, request, wipe, client, probing, scheduled, closing>>

ReaderEnds(r) ==
    /\ Loop /\ lease[r] # 0
    /\ Release(r)
    /\ UNCHANGED <<store, server, request, wipe, checks>>

\* _accept_generation
Accepts(generation, result) ==
    IF result THEN status.probe = generation ELSE generation >= status.probe

Recorded(generation, result) ==
    IF Accepts(generation, result)
    THEN [of |-> generation, by |-> "probe", probe |-> generation]
    ELSE status

ProbeAcquires(p) ==
    /\ Loop /\ scheduled > 0 /\ probing[p] = "idle"
    /\ scheduled' = scheduled - 1
    /\ IF made[current] = NoRef
       THEN UNCHANGED <<client, probing>>
       ELSE Acquire(p) /\ probing' = [probing EXCEPT ![p] = "acquired"]
    /\ UNCHANGED <<store, server, request, wipe, closing, status>>

\* record_checking
ProbeChecks(p) ==
    /\ Loop /\ probing[p] = "acquired"
    /\ probing' = [probing EXCEPT ![p] = "waiting"]
    /\ status' = Recorded(lease[p], FALSE)
    /\ UNCHANGED <<store, server, request, wipe, client, scheduled, closing>>

\* The response hook runs in the context of the probe.
ProbeHears(p) ==
    /\ Loop /\ probing[p] = "waiting" /\ lease[p] \in open
    /\ status' = Recorded(lease[p], FALSE)
    /\ UNCHANGED <<store, server, request, wipe, client, probing, scheduled, closing>>

\* record_check_result, of an answer, a timeout or an error
ProbeEnds(p) ==
    /\ Loop /\ probing[p] = "waiting"
    /\ probing' = [probing EXCEPT ![p] = "idle"]
    /\ status' = Recorded(lease[p], TRUE)
    /\ Release(p)
    /\ UNCHANGED <<store, server, request, wipe, scheduled, closing>>

-----------------------------------------------------------------------------
(* The life of the process.                                                 *)

NoClients ==
    /\ current' = 1 /\ made' = [s \in Sets |-> NoRef] /\ open' = {}
    /\ retiring' = {} /\ count' = [s \in Sets |-> 0] /\ revoked' = 0
    /\ lease' = [h \in Holders |-> 0]

ServerDies ==
    /\ server # "down"
    /\ server' = "down"
    /\ call' = NoCall
    /\ NoClients
    /\ probing' = [p \in Probes |-> "idle"] /\ scheduled' = 0 /\ closing' = 0
    /\ status' = UnknownStatus
    /\ UNCHANGED <<store, owed, wipe>>

\* recover_interrupted_reset finishes the reset a crash has cut.
Recover ==
    /\ server = "down"
    /\ server' = "recovered"
    /\ IF wipe = "none"
       THEN UNCHANGED <<files, wipe>>
       ELSE files' = {} /\ wipe' = "none"
    /\ UNCHANGED <<setting, used, plain, request, client, checks>>

\* migrate_legacy_provider_tokens: the secret, the commit, the checkpoint.
MigrateWrites ==
    /\ server = "recovered"
    /\ files' = IF setting.legacy THEN files \cup {Stable} ELSE files
    /\ server' = "written"
    /\ UNCHANGED <<setting, used, plain, request, wipe, client, checks>>

MigrateCommits ==
    /\ server = "written"
    /\ IF setting.legacy
       THEN setting' = [setting EXCEPT !.legacy = FALSE, !.ref = Stable] /\ plain' = "wal"
       ELSE UNCHANGED <<setting, plain>>
    /\ server' = IF setting.legacy THEN "moved" ELSE "migrated"
    /\ UNCHANGED <<files, used, request, wipe, client, checks>>

\* A checkpoint that fails ends the startup: see Crash.
Truncates == setting.ref # NoRef \/ server = "moved"

Checkpoint ==
    /\ server \in {"moved", "migrated"}
    /\ plain' = IF Truncates THEN "none" ELSE plain
    /\ server' = "checkpointed"
    /\ UNCHANGED <<setting, files, used, request, wipe, client, checks>>

Boot ==
    /\ server = "checkpointed"
    /\ server' = "up"
    /\ made' = [made EXCEPT ![1] = Built] /\ open' = {1}
    /\ scheduled' = 1
    /\ UNCHANGED <<store, request, wipe, current, retiring, count, revoked, lease,
                   probing, closing, status>>

CredentialsInit ==
    /\ \/ setting = NoSetting /\ files = {} /\ plain = "none"
       \/ /\ setting = [NoSetting EXCEPT !.present = TRUE, !.legacy = TRUE]
          /\ files = {} /\ plain = "row"
    /\ used = Stable
    /\ server = "down"
    /\ call = NoCall /\ owed = {}
    /\ wipe = "none"
    /\ current = 1 /\ made = [s \in Sets |-> NoRef] /\ open = {} /\ retiring = {}
    /\ count = [s \in Sets |-> 0] /\ revoked = 0
    /\ lease = [h \in Holders |-> 0]
    /\ probing = [p \in Probes |-> "idle"] /\ scheduled = 0 /\ closing = 0
    /\ status = UnknownStatus

CredentialsNext ==
    \/ \E kind \in {"token", "clear", "toggle"} : BeginUpdate(kind)
    \/ WriteFails \/ CommitSetting \/ CommitSettingFails \/ RemoveOld \/ RemoveOldFails
    \/ Publish \/ PublishFails
    \/ ResetRows \/ ResetFiles \/ ResetRevokes \/ ResetStalls \/ ResetPublishes
    \/ SchedulesChecks
    \/ \E r \in Readers : ReaderBegins(r) \/ ReaderHears(r) \/ ReaderEnds(r)
    \/ \E p \in Probes : ProbeAcquires(p) \/ ProbeChecks(p) \/ ProbeHears(p) \/ ProbeEnds(p)
    \/ ServerDies \/ Recover \/ MigrateWrites \/ MigrateCommits \/ Checkpoint \/ Boot

CredentialsSpec == CredentialsInit /\ [][CredentialsNext]_credentialsVars

-----------------------------------------------------------------------------
CredentialsTypeOK ==
    /\ setting \in [present : BOOLEAN, enabled : BOOLEAN, ref : 0 .. MaxRef, legacy : BOOLEAN]
    /\ files \subseteq 1 .. MaxRef /\ used \in 1 .. MaxRef
    /\ plain \in {"row", "wal", "none"}
    /\ server \in {"down", "recovered", "written", "moved", "migrated", "checkpointed", "up"}
    /\ call.at \in {"idle", "written", "committed", "settled"}
    /\ owed \subseteq 1 .. MaxRef
    /\ wipe \in {"none", "rows", "files", "revoked", "published"}
    /\ current \in Sets /\ made \in [Sets -> 0 .. MaxRef]
    /\ open \subseteq Sets /\ retiring \subseteq open \ {current}
    /\ count \in [Sets -> 0 .. Cardinality(Holders)]
    /\ lease \in [Holders -> 0 .. MaxSet]
    /\ probing \in [Probes -> {"idle", "acquired", "waiting"}]
    /\ status \in [of : 0 .. MaxSet, by : {"none", "probe", "traffic"}, probe : 0 .. MaxSet]

\* Whatever fails and wherever the process dies, a row of the database never
\* names a credential whose file was lost (settings.py: write first, commit,
\* then delete; the migration and the reset keep the same order).
ReferenceHasSecret == setting.ref # NoRef => setting.ref \in files

\* While the server runs, the clients that are open are those of the current
\* snapshot and of the snapshots a holder has pinned and no reset has revoked:
\* no request loses its clients, no retired client leaks (ProviderSetRuntime).
OpenIsHeld ==
    server = "up" => open = {current} \cup {lease[h] : h \in {g \in Holders : lease[g] > revoked}}

\* Once no check is pending or about to be, a status a check has left is the one of the clients
\* in use: the late result of a replaced client is not shown for the new one.
QuietStatusIsCurrent ==
    server = "up" /\ scheduled = 0 /\ closing = 0 /\ (\A p \in Probes : probing[p] = "idle")
        /\ made[current] # NoRef /\ status.by = "probe"
        => status.of = current

\* The server does not run while SQLite may still hold a plaintext token.
PlaintextIsGone == server = "up" => plain = "none"

\* settings.py: "Clear remains retryable".  A clear that is answered with
\* success has removed the value an earlier clear failed to remove.
ClearIsRetryable ==
    [][call.kind = "clear" /\ call.at = "settled" /\ Publish
           => owed \cap files = {}]_credentialsVars
=============================================================================
