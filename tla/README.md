# Lariska: TLA+ models and proofs

Lariska (`src/src`, Rust) is an endpoint agent: it collects the software
inventory of a host, delivers it durably to a server, keeps itself registered
by heartbeats, obeys managed settings, and installs signed updates through a
separate privileged supervisor. This directory holds TLA+ models of the parts
whose correctness depends on interleavings, crashes, retries, lost messages and
stale data, the TLC configurations that check them, and TLAPS proofs.

## Inventory of the system

All loops of the agent process are branches of one `tokio::select!`
(`app.rs` `run_async`), so they interleave only at awaits; a stop drops their
futures wherever they are. The update supervisor is another process; the two
share a mailbox directory. Collectors run in a task of their own and may panic
without ending the agent.

| Component | Source | State | Operations | Hard behaviour | Properties that make it correct | Module |
| --- | --- | --- | --- | --- | --- | --- |
| Inventory delivery | `delivery/` | spool files ordered by modification time, quarantine, accepted-state file; `last_accepted`, `last_enqueued_digest`, `wake_delivery` | `enqueue_if_needed`, `drain_spool`, `submit_one`, `run_loop`, `new`, eviction | producer and worker at awaits, crash between file operations, failing files, lost and late answers, capacity | nothing lost silently; queue order; the server converges to the host's state and does not regress | `Delivery` |
| Update supervisor | `native_update.rs` | private journal (active, pending, consumed), package cache, the installed package | `supervise`, `accept_request`, `recover_or_ack`, `rollback`, `seed` | crash between any two writes, restart of the agent, health deadline against a late acknowledgement | one transaction at a time; every transaction ends healthy or rolled back; no request installed twice; journal, ledger and installed package agree | `NativeUpdate` |
| Signed update queue and ledger | `update.rs` | ledger (floor, pending, history), mailbox, incoming requests | `queue_update`, `commit_pending`, `arm_health`, `ack_health`, `finish_update`, `reap_consumed_request` | two processes on one directory, interrupted download | floor never falls; health only from the version and transaction that is pending | `NativeUpdate` |
| Registration and heartbeat | `heartbeat.rs`, `app.rs` | ticker, applied revision, declined offer, schema version | `register_with_retry`, `run_loop`, `try_update` | lost answers, an offer repeated at every beat | a refused offer is not fetched again, another one is | `Managed` |
| Managed settings | `managed.rs` | runtime intervals (watch channel), last unversioned settings | `apply_settings`, `apply_update` | repeated, reordered and invalid policies | no partial application; acknowledged means in force | `Managed` |
| Scheduling | `app.rs` | next inventory time, one collection task, schema read before it | `inventory_loop`, `collect_and_submit` | a policy or a withdrawn schema during a collection | schedule bounded; partial results only as schema 2 | `Managed`, `Collect` |
| mTLS enrolment | `mtls.rs` | key, certificate, pending enrolment on disk and in memory | `load`, `ensure`, `enroll`, `recover` | answer lost after the server issued a certificate, failing directory sync | one certificate for a key, the newest key is never lost, requests succeed again | `Enrollment` |
| Token authentication | `auth.rs` | cached token under a lock | `token`, `force_refresh` | two callers refresh at once | bounded exchanges | `Enrollment` |
| API client | `api.rs` | client with certificate | `post_json`, `recover_certificate`, `classify_response` | nested repetition after a refused certificate and a refused token | bounded repetition | `Enrollment`, `Delivery` |
| Collection and cache | `inventory/` | stored result per collector with fingerprint, history of complete sources | `collect_all_cached`, `reconcile_last_complete`, the collectors of four platforms | the source changes while it is read; failing, unreadable and expired stores; a task that panics | a complete source lists everything; nothing is removed by a failure; evidence is recent | `Collectors`, `Collect` |
| Inventory model | `model.rs` | none | `compare_versions`, `normalize`, `deduplicate_software`, `into_v1`, `diff`, `validate` | order, ties, versions that no integer holds | the newest survives, no installation is hidden, resending changes nothing | `Snapshot` |
| Identity, instance lock, service, crash reports | `identity.rs`, `service.rs`, `crash.rs` | identity file, lock file, report file | `load_or_create`, `acquire`, `wait_for_shutdown_signal`, `check_and_report_previous_crash` | kill and power loss during creation, two instances | one identity, kept once it is registered; a report is logged before it is moved aside | `Startup` |
| Configuration | `config.rs` | none after start | `from_file_and_env`, `validate` | precedence of environment and file | only a valid configuration runs | `Startup` |
| Quality of service, telemetry, CLI, packaging | `qos.rs`, `telemetry.rs`, `main.rs`, `packaging/` | none | | | | not modelled |

`PROJECT.json` lists the hazards of these components, each at the line where it
bites, with the properties that would catch it.

## Modules

| Module | What it is |
| --- | --- |
| `SnapshotCustody` | Contract: a published snapshot stays pending until the server holds it, it is put aside, or it is dropped while another stays; endings are final. |
| `Delivery` | Detailed model of `delivery/`. |
| `DeliveryProofs` | Theorems: types, accounting and refinement for all constants; queue order when clock and files behave. |
| `UpdateTransaction` | Contract of the updater: one transaction at a time, installed at most once, endings that are final and true. |
| `NativeUpdate` | Detailed model of `native_update.rs` and the transaction half of `update.rs`. |
| `Managed` | Registration, heartbeat loop, managed settings and the collection schedule against a server whose policies, offers and capability change. |
| `Enrollment` | Token, certificate and the request layer of two loops that share them, against a server that issues, revokes, forgets and answers late. |
| `Snapshot` | The algorithms of `model.rs` as operators, and the snapshots they build from any list in any order. |
| `Collectors` | What each collector reports of a host in each state of its places (operators only). |
| `Collect` | The cached collection cycle, the history of complete sources, and what becomes of the server's inventory. |
| `Startup` | Two processes on one state directory from configuration to running and back, with kills, panics and power losses. |
| `UpdateProofs`, `UpdateContractProofs` | Theorems: types, invariants and refinement of the updater. |
| `SnapshotProofs` | Theorems: the order of versions, and what a snapshot and a difference keep of any list. |
| `ManagedProofs`, `EnrollmentProofs`, `StartupProofs`, `CollectProofs` | Theorems: types and safety properties of these modules for all constants. |
| `MC...` | Instances for TLC: releases, settings, rows, hosts, configurations. |

Each detailed module ends with its properties. A definition whose comment says
"Variant" or "A plausible bug", or whose name extends another one's
(`reconciled_Anew`), is not part of the specification: it is a bug the
properties were tried against.

### Delivery

`spool` is the set of `<id>.json.zst` files with the digest of their content and
their modification time, `quarantine` the identities under `spool/quarantine`,
`accFile` the digest in `delivery-state-v1.json`. `lastAccepted`, `queued` and
`permit` are the fields `last_accepted`, `last_enqueued_digest` and the stored
permit of `wake_delivery`. Whether an accepted state is old enough for a full
refresh is the flag `expired`, set by `Expire`; it also stands for an acceptance
time in the future.

| Code | Actions |
| --- | --- |
| `enqueue_if_needed` | `Collect` (the inventory loop calls it), `CheckDue` (first lock), `Suppress` / `WriteFails` / `WriteUnsynced` / `WriteEntry` (second lock, `Spool::write`), `EvictOldest` per deletion of `enforce_limit`, `Publish` |
| `drain_spool` | `ListPending`, `ReadPending` / `QuarantineUnreadable` / `ReadFails`, `RemoveAccepted` / `RemoveFails`, `StoreAccepted`, `RememberAccepted`, `DrainDone`, `ClearQueued` |
| `submit_one`, `post`, `retry.rs` | `SendSnapshot`, `TokenUnavailable`, `Acknowledged`, `Unauthorized`, `Refused`, `TransientFailure`, `BackoffElapsed`, `GiveUp` |
| `run_loop`, `has_pending` | `Rest`, `Wake`, `RetryTimer` |
| `DeliveryClient::new` | `Boot` (`LoadAccepted`, `LoadQueued`) |
| process, host, server | `Crash`, `Expire`, `HostChange`, `ServerApply` |

*Atomicity.* `WorkerYields` names the awaits of the worker; the producer moves
only there, and the worker never moves while the producer is between the rename
and the notification (`pPc = "limit"`), which holds the second lock without an
await. A crash may come between any two file operations of either. The model
covers the death of the process, not of the machine: a completed rename stays.

*Server.* `net` is a set of requests under way; a repetition of the same
snapshot merges with the first copy, which is all the server can tell apart,
since `post` sends the identity as idempotency key. `ServerApply` may come long
after the agent gave up. An answer of any kind may be lost. A 2xx answer is
possible only for an applied snapshot.

*Files.* With `DiskFaults` any file operation may fail before or after its
effect, and any entry may be unreadable; quarantining may fail, with or without
the rename having happened.

### NativeUpdate

`ledger` is `update-state.json`, `journal` is `native-journal.json`, `cache` the
package directories of the supervisor; `pendHealth`, `health` and `result` are
the mailbox files, `incoming` the request directories. A request is named by its
nonce, and `offers` remembers which release it is for. `jmem` is the journal the
supervisor works on and `examined` its set of requests already tried; both are
lost when it ends. `installed` is what the package manager has, `running` what
the agent process is.

| Code | Actions |
| --- | --- |
| `ack_health` | `ReadAnnouncement`, `WriteHealth` |
| `queue_update`, `reap_consumed_request` | `TakeOffer`, `ReapResult`, `Stage`, `Download` |
| `recover_or_ack_with` | `ReadState`, `RememberInterrupted` / `RememberCompleted` / `RememberPending`, `Judge`, `CheckDeadline`, `FinishInterrupted` / `FinishHealthy`, `Settle`, `Prune` |
| `rollback_with` | `RollbackInstall`, `RollbackRestart`, `FinishRolledBack`, `Settle`, `Prune` |
| `finish_update` | `Finish`, `ClearAnnouncement`, `ClearHealth` |
| `supervise`, `incoming_requests` | `NothingToDo`, `Examine`, `AnswerRefused` |
| `accept_request_with` | `Admit` / `TurnDown`, `Reserve`, `Commit`, `RemoveAck`, `Announce`, `WriteJournal`, `AnswerAccepted`, `Install`, `Arm`, `RestartInstalled`, `DropCopy` |
| `remember_consumed_nonce` | `Kept`, `CanRemember`, `Remember` |
| `seed` | `SeedBegin`, `SeedRemember`, `SeedCopy`, `SeedFloor`, `SeedJournal`, `SeedPrune` |
| service managers, clock, failures | `Start`, `AgentRestart`, `Tick`, `Crash`, `Fail` |

*Atomicity.* An action is one file, package or service operation, so the agent,
the clock, a crash or a failure can come between any two; the supervisor's lock
keeps `update-seed` and the supervisor apart. `Fail` stands for an operation
that fails without effect; one that fails after its effect is the operation
followed by a failure of the next, and where the code tells the two apart (the
sync of the journal) there is an alternative of its own. The second journal
write after `arm_health` only stores a time nobody reads and is left out.

*Abstractions.* Paths, owners, signatures, expiry and digests decide only
whether a request is refused, which `TurnDown` allows for every request. The
clock moves while a window is open and never backwards. `Init` is the state
after the first `update-seed`, before which every request is refused.

### Managed

`policy`, `offer` and `capability` are what the server repeats in every answer,
`published` remembers the settings each revision stands for and `reported` the
revision the last heartbeat acknowledged. `runtime` is the watch channel, with
one "changed" flag per loop (`hChanged`, `iChanged`); `level` the filter in
force; `applied` and `declined` are locals of `run_loop`, and `unversioned` is
`last_unversioned_settings`. `iSchema` is the schema version `inventory_loop`
read before it began to collect.

| Code | Actions |
| --- | --- |
| `run_async`, `register_with_retry` | `Start`, `RegisterAccepted`, `RegisterFails`, `Stop` |
| `heartbeat::run_loop` | `HeartbeatDue` and `Beat`, `BeatFails`, `Receive` (with `ApplySettings`), `Tried` (`try_update`), `RebuildTicker` |
| `inventory_loop` | `InventoryDue`, `CollectBegin`, `CollectEnd`, `Reschedule` |
| server, operator, clock | `ServerAnswers`, `Publish`, `Offer`, `ChangeCapability`, `Tick` |

The sending of a heartbeat, the server's answer and its handling are three
steps, so settings, offers and schema change while an answer is under way, and
any answer can be lost. Log levels are compared after trimming; an update
attempt ends as queued, refused or failed, which the loop treats alike. The
health acknowledgement a heartbeat triggers is in `NativeUpdate`.

### Enrollment

`dPending` and `dBundle` are the files of the pending key and of the identity,
`pending` and `bundle` their copies in `mtls::State`; `holder` is the loop that
holds the lock of that state. A certificate is its key, age and revocation.
`token` is the cached token and `due` whether it is near its refresh.
`req[c]` is the request of loop `c`: where it stands in `post_json`, whether the
token was refreshed and the certificate recovered, and how often it was sent.

| Code | Actions |
| --- | --- |
| `AuthClient::token`, `force_refresh` | `Begin`, `Exchange`, `Exchanged`, `RefreshOnce` |
| `State::ensure` | `EnsureCurrent`, `EnrollFails`, `BackoffEnds` |
| `State::enroll` | `Enroll`, `EnrollUnwritten`, `RecoverAbsent`, `NoIssuer`, `RequestRefused`, `Publish`, `Finish`, `FinishFails` |
| `post_json`, `recover_certificate`, `classify_response` | `Send`, `RecoverCertificate`, `Complete`, `Drop` |
| process | `Restart` |
| server and operators | `ServerAnswers`, `LateIssue`, `Age`, `Revoke`, `Unlock`, `RevokeTokens`, `TokenDue`, `Upgrade` |

A request can be lost before the server sees it, its answer can be lost
afterwards (`Drop`), and the server can process it long after the agent gave up
(`LateIssue`). Writing a file takes no time beside other steps of the process,
which holds the lock over it, and may fail.

### Snapshot, Collectors, Collect

`Snapshot` translates the pure part of `model.rs`. A version is a sequence of
runs of one character class; a run has a value, if it is digits, and the rank of
its text as written, leading zeros included. Digit runs beyond `WideRun`
(`u128`) are compared as text, as in the code. `Lower` lists the words that are
not in lower case; the key of a product compares name, publisher and
architecture in lower case. A hash is the tuple that is hashed, and so is the
key, which the code joins with `|`: that a name or a publisher containing `|`
could give two products one key is left out. A behaviour lists rows one by one, in every order,
takes a snapshot and compares it with the one before.

`Collectors` says what a collector returns (entries, completeness, a record per
source) for a host whose packages are good, unreadable or gone and whose places
are open, absent or closed. `Collect` runs the cached collectors one after the
other: fingerprint and lookup (`Lookup`), collection (`Collect`), storing
(`Store`), then reconciliation with the history and hand-over (`Finish`).
`Panic` and `PlatformPanic` end a part of the cycle; packages, places, clock,
schema, agent version and the stored files change in between
(`ChangePackage`, `ChangeArea`, `StepClock`, `Negotiate`, `Restart`,
`Corrupt`). The server replaces its inventory as the contract of the schema says.

Observations explain what the properties excuse: `lapsed` (a package could
really not be found for a while), `blurred` (a package changed where no
fingerprint of the code can notice: relocated databases, a change of
permissions), `spoilt` (the clock was stepped, the history was lost) and
`Overlooked` (collectors pass over these silently: Mac applications in
unsearchable directories, hives of signed-out users).

### Startup

Two slots, the Windows or Unix service and a second start by hand, go through
`config`, `look` and `archive` (crash report), `lock`, `identity`, `rename`,
`sync`, `register` and `run`. `agent_id` is the identity file as processes see
it, `durable` what a power loss would leave, `temps` the temporary files left
by killed processes. Whether the machine is a Windows machine is chosen at the
start: there the directory is not synced.

| Code | Actions |
| --- | --- |
| `run_internal`, `Config` | `ReadConfig`, `Lock`, `Released`, `Exit` |
| `check_and_report_previous_crash`, panic hook | `Look`, `Archive`, `Panic` |
| `load_or_create`, `persist_atomically` | `LoadIdentity`, `NewIdentity`, `Rename`, `Sync`, `DiskFails` |
| `register_with_retry`, `run_async` | `Registers`, `RegisterFails`, `Stops` |
| service manager, operator, machine | `Launch`, `AskToStop` (`Notify`), `StartAgain`, `Reconfigure`, `Killed`, `PowerLoss` |

The code syncs the directory before it registers, but a start that is cut short
between the rename and the sync leaves an identity that the next start loads and
registers without syncing it (`identity.rs:25`, `exposed`). A registered
identity can therefore go in a power loss; that, a power loss on Windows, and a
file that cannot be examined and is taken for missing, are what `lost` records
and what `OneIdentity` and `RegisteredIsKept` leave out. The other properties
leave out `missed` (reports that cannot be read, or that arrive while another
start moves one aside) and `Hindered` (refused configuration, stopped service, a
temporary file in the way).

## Runs

Ten runs pass, two show a violation. Deadlock is checked except in `collect`,
`snapshot` and `startup`, whose bounded clocks, lists and identities run out.

| Run | Question | Bounds and environment |
| --- | --- | --- |
| `custody` | Are all snapshots accounted for, and is the contract implemented? `NoSilentLoss`, `CustodyKept` | two publications, spool of one entry (so eviction during a submission happens), one crash, faulty files, refusals, jumping clock |
| `order` | Does the queue stay in order, does the server only move forward, and is suppression based on what it has? `QueuedIsNewest`, `NewestRetained`, `BaselineUnlessCrashed`, `ServerNeverRegresses` | three publications, two entries or four bytes, two attempts and a token refresh, crash, expiry, refusals |
| `refresh` | Does the server converge, is a full refresh delivered, does every snapshot leave the spool? `Convergence`, `RefreshHappens`, `EverythingSettles` | fair; one host change, one expiry, answers lost |
| `update` | Do records and contract survive every interleaving, and is every request answered? `NoRepairNeeded`, `ReceiptsKept`, `ActiveUnlessInterrupted`, `FloorIsProven`, `ImplementsTransaction`, `RequestAnswered` | fair; two requests, history of one, two receipts, a window of one tick, one crash or failing operation |
| `ends` | Does every transaction end, with at most one installation and its rollback package at hand? `TransactionEnds`, `NeverReplayed`, `RollbackPossible` | fair; one request, one `update-seed`, two crashes or failures; emergency exception for the failing release |
| `managed` | Is what the agent acknowledges in force, and does the last policy get there? `AcknowledgedInForce`, `NextScanBounded`, `OneTryPerOffer`, `PartialOnlyAsV2`, `PolicyConverges` | fair; two policies out of three (one valid only in part), one offer, one change of schema, intervals 1 to 4, restarts and lost answers without bound |
| `enrollment` | Is a key certified once and never lost, and does the agent recover? `OneCertPerKey`, `NewestKeyKept`, `SendBudget`, `Recovers` | fair; two loops, any two of: expiry, revocation, loss, late request, restart, failing file, refused tokens, upgrade |
| `snapshot` | What survives normalisation and what does a difference say? `NewestSurvives`, `NoInstallationHidden`, `ResendKeepsIdentity`, `OrderIrrelevant`, `DiffRebuilds` | lists of up to three of eleven rows in every order, pairs of snapshots of up to two |
| `collect` | Can anything but a real removal remove? `CompleteListsAll`, `EvidenceIsCurrent`, `LastCompleteKept`, `NoManufacturedRemoval` | four machines (Linux, Linux with relocated databases, Mac, Windows), any two changes or faults, a cycle of one tick and a stored result that lives one |
| `startup` | One identity that stays, reports logged before they are moved aside, and running in the end? `OneIdentity`, `RegisteredIsKept`, `ReportsAreLogged`, `AgentRuns` | fair; two processes, two troubles, two panics, Windows or not; five configurations: good, spoilt by the environment, repaired by it with a relative directory, a value that does not parse, a missing key |
| `rollback_crash` | finding: violates `ActiveIsInstalled` | one crash or failure |
| `locked_out` | finding: violates `Recovers` | fair; one failing directory sync |

*Why these bounds.* Delivery: three publications are enough for an entry to be
evicted while another is under way and a third becomes pending; two contents are
enough for equal and different neighbours and for the return to an accepted
state; two sizes make the byte limit bite before the entry limit; one crash
reaches every position of a half-done operation, since recovery starts from the
files alone. `MaxId` is the disk: a write after it fails, as on a full disk.

Updater: two requests are enough for one to be replayed, repeated under another
nonce or judged by what its predecessor left in the mailbox, and for a receipt
to be pruned while another is added. A window of one tick has an instant before,
at and after its deadline. Histories of one and receipts of two reach their
limits (`history_limit`, `MAX_REQUESTS`).

Settings: two revisions are one to be in force and one to be refused, repeated
or overtaken by a lost answer; the settings differ in every field. Intervals of
1 to 4 with a battery factor of 4 and a jitter reach the daily maximum.
Enrolment: two troubles are a loss and the crash, expiry or revocation that meets
its consequences; two callers are the agent's two users of the client. Rows:
between them the eleven differ in every way the keys tell apart or do not
(spelling of the version and the architecture, case of the name and the
publisher, package, scope, place, width); three rows make transitivity and
ties visible. Collection: a change during the collection and a change back is
two events, as is a failing source and a withdrawn schema. Startup: a kill
between the rename and the sync and a power loss after the registration are two
troubles.

*Fairness.* Every loop is polled by `select!` and waits for nothing but the
actions enabled here: `WF` of `Producer`, `Worker`, `Heartbeat`, `InventoryLoop`
and of the steps of a process in `Startup`. `WF(Boot)`, `WF(Start)`,
`WF(Launch)` and, for the supervisor, `WF(Supervisor)`: service managers restart
what ends. Nothing is assumed of the agent in `NativeUpdate`, which may never
acknowledge. `SF` of the success of a step that is retried for ever (a token, an
answer, a registration): it may fail any number of times, only not always. The
lock of `mtls::State` is tokio's, which is handed out in order of request, hence
`SF(Locking)`. In `Enrollment` operators unlock what a revocation locked, in the
end.

### Findings

* `rollback_crash`: `recover_or_ack_with` reads the acknowledgement before it
  knows that a rollback has begun (`native_update.rs:374`). An acknowledgement
  written after that look, and a rollback that ends between the reinstallation
  and `finish_update`, make the restarted supervisor record the removed release
  as healthy and active, while the previous one is installed. Afterwards the
  release cannot be requested again ("the requested version is already
  installed", line 244). With an emergency exception this state also lets an
  agent acknowledge a transaction before its installation, a step the contract
  forbids, which is why `update` runs without one.
* `locked_out`: when the directory cannot be synced after the pending key was
  removed, `enroll` returns before it clears its copy in memory
  (`mtls.rs:174`). Every later enrolment publishes the identity and then fails
  to remove a file that is not there; protected requests stay blocked until a
  restart.

Seen while modelling, and excused or excluded where a property meets them:

* Eviction follows file modification times (`spool.rs:184`), so a clock step
  makes the newest entry the victim; `wiki/Operations.md:78` says the newest
  entry is retained (`NewestRetained` with `ClockMonotonic = FALSE`).
* The entry is removed before the accepted digest is stored (`mod.rs:172`,
  `mod.rs:182`); `wiki/Architecture.md:69-70` gives the opposite order. After a
  crash in between, content equal to an older accepted state is suppressed until
  the next full refresh (`BaselineUnlessCrashed` leaves the crash out).
* Settings without a revision are compared with the last unstamped ones, not
  with what is in force (`managed.rs:169`): repeated after a stamped policy
  they are skipped (`Unstamped = TRUE`, not in the run).
* Each change of the intervals restarts the pending timer, the startup jitter
  included (`app.rs:266`).
* An agent killed during a download leaves a directory that blocks later offers
  (`update.rs:430`), a refusal that cannot be reported is not retried
  (`native_update.rs:168`), and an answer can be lost when the supervisor
  replaces it while the agent removes the previous one (`update.rs:383`).
* Heartbeat download URLs carry `?package_kind=...` according to
  `docs/SIGNED_UPDATES.md:53`; `queue_update` rejects a URL with a query
  (`update.rs:413`). What a URL contains is not modelled.
* A payload the server refuses is published, refused and quarantined again in
  every cycle (`mod.rs:191`); quarantine has no limit.
* `usable` is read before the renewal and the certificate's validity again
  afterwards (`mtls.rs:107`): one that expires while its renewal fails lets the
  request leave without any.
* With package databases away from their standard place the fingerprint does
  not change (`cache.rs:419`); a history that cannot be read is taken for empty
  and written back (`cache.rs:246`); the software of a signed-out user counts as
  removed under schema 1 (`windows.rs:107`, `wiki/Collectors.md:110`); a Mac
  application in an unsearchable directory is passed over (`macos.rs:63`), and a
  JDK that becomes unsearchable is taken for an unrelated product
  (`java.rs:29`).
* An identity is loaded without syncing its directory, so that one whose creation
  was cut short can be registered and then lost with the power
  (`identity.rs:25`), and an identity file that cannot be examined is replaced
  (`identity.rs:24`); Windows never syncs
  (`identity.rs:83`); a temporary file with the same process id blocks every
  start (`identity.rs:54`).
* The limit of a crash report is counted in characters and cut in bytes
  (`crash.rs:106`).

## Proofs

Every safety property the passing runs check is also proved for all values of
the constants. The assumptions are the named
`ASSUME`s of the modules: types and order of the constants, distinct names for
absent values, in `Collectors` and `Collect` that packages have a known
source and hosts are in a possible state, and in `Snapshot` what a listed row
is (see below). Where a theorem needs more, the
hypothesis is part of its statement:

| Hypothesis | Theorems | Why it is needed |
| --- | --- | --- |
| `Orderly` (clock not stepped back, files working) | `QueuedDigestIsNewest`, `NewestIsRetained`, `ServerKeepsNewest`, `BaselineIsCurrent` | Eviction and queue follow file times; see the findings. |
| `Emergency = {}` | `ImplementsContract` | See below. |
| `MaxSeeds = 0` | `FloorOfProvenReleases` | `update-seed` sets the floor to a release that never proved itself. |
| `MaxSeeds = 0 \/ OneReleasePerVersion` | `ActiveWhenNothingFails` | `update-seed` compares versions only. |
| `Unstamped = FALSE` | `AcknowledgedObeyed` | A repeated unstamped policy is skipped; see the findings. |
| `OneManager` of every host | `NothingManufactured` | See below. |

Each hypothesis holds in the run that checks the same property.

*Delivery.* `TypeOK` is inductive as it stands. `NoSilentLoss` is not, because
`RemoveAccepted` trusts what an earlier step saw: `CustodyInv` adds that
identities are unique and in one place each (`Accounted`) and that everything
the worker and the network hold was published, an entry about to be removed
being applied (`WorkKnown`). Six lemmas say what admission, setting aside,
dropping, discharge, application and stuttering do to the accounting;
`CustodyStep` has one case per action, and the same lemmas give the refinement
of `SnapshotCustody` (`ImplementsCustody`). `OrderInv` says that file times
follow identities, that the worker holds the older end of the spool in order
(`InOrder`), and that the newest snapshot is the last to leave and the one
`queued` describes (`NewestStays`); from it follow `QueuedDigestIsNewest` and
`NewestIsRetained`. For `ServerKeepsNewest` and `BaselineIsCurrent`, `ServedInv`
adds that the server has everything older than what it has or is being sent
(`ServerOK`), that snapshots leave the spool in order (`LeavesInOrder`), and
that the last acceptance remembered is that of the last entry that left
(`BaselineOK`).

*Update supervisor.* `UpdateInv` says which records exist in which phase
(`PhaseOK`, which contains `NoRepairNeeded`), that every record is of a request
that was really made (`GenuineOK`), which packages are cached (`CacheOK`), that
a used request has a receipt or is below the floor (`ReceiptsOK`), and that a
request is used once (`OnceOK`). A receipt may be pruned while its request is
still in the directory; that it cannot be installed again needs the receipt or
the floor, so `InstalledOnce` rests on `ReceiptsOK`. `FloorOK` and `InstalledOK`
are inductive relative to these and say where the floor is and, as long as
nothing has failed, what is installed. `ImplementsContract` adds in `ContractInv` that the floor is the
version of the active release, and that an acknowledgement of an open
transaction comes from the release it installed. The refinement splits the
steps into minor ones, which leave the contract's variables alone, and one lemma
per major step.

The contract fails with an emergency exception: a rollback is interrupted after
the reinstallation, a late acknowledgement makes the removed release active
(finding `rollback_crash`), and an emergency request for the release that runs
is then acknowledged before it is installed.

*Managed settings, enrolment, startup.* `ManagedInv`: directives on the way are
policies as published, what is acknowledged is in force (`AppliedOK`), a try
counts against the offer that caused it (`TriesOK`). `EnrollmentInv`: the lock
is held from recovery to publication, a key is submitted only when no
certificate of it is live (`SubmitOK`), a key that may be certified is that of
the identity on disk, an older one, or pending on disk (`KeysOK`), and what each
flag of a request has cost (`BudgetOK`). `StartupInv`: the holder of the lock
alone works on the identity, its writer has not registered it, and whatever else
was registered is that of the file or lost (`LockOK`, `IdentityOK`, with
`GeneratedOK`: a new identity is new); on Unix the file is durable, except while
its writer syncs it and after a start that was cut short there (`DurableOK`);
and a report is moved aside after it was read or counted as missed
(`ArchiveOK`). A power loss therefore takes back only what is not registered or
lost (`PowerLossKeeps`).

*Collection.* `CollectInv` has to say what a fingerprint is worth. `Vouches`: if
the fingerprint a result was stored with is still that of the host, the result
lists every package that is there, except the blurred ones. It is kept by every
change of the host because a change either alters the fingerprint or removes
packages or blurs them (`HostStepFacts`), and established by a collector that
runs while nothing blurs what it reads (`PrintInv`). `PartsInv` says the same of
the parts of the running cycle for what was visible throughout it, `LapsedInv`
that everything else has lapsed, and `CoverInv` that every collector of the host
has spoken by the end of a cycle whose parts are all complete. The lemmas named
`...Faithful` prove for each collector that it lists what it calls complete.

`NothingManufactured` needs that a host whose package databases are elsewhere
has one package manager. With two, the command of one can disappear: its source
is then "not applicable", the other is still probed, the pass counts as
complete, and a schema 1 snapshot removes the packages of the first
(`linux.rs:19-75`). The run has a relocated host with one manager.

An attempt to prove `LastCompleteKept` showed that an earlier form of it was too
strong: after a cycle that found a source complete but could not submit, the
report at the server is still that of the cycle before. A report is now held to
what was known when it was made (`known`).

*Snapshot.* `SnapshotProofs` is about lists of any length of any rows. It
assumes of a row that it is a `SoftwareEntry` with no identity yet
(`RowsAssumption`), that what is in lower case stays as it is
(`LowerAssumption`), and that an instance a collector
names is not the one that is derived for another row of its source
(`IdentityAssumption`; every collector calls `with_instance` for all its rows,
`linux.rs:165`, `macos.rs:136`, `windows.rs:343`, `java.rs:80`).
`VersionsAreOrdered`: `compare_versions` is irreflexive and transitive, and
versions it does not separate compare alike with every third one; a comparison
is decided at the first chunk that differs (`DecidedAt`), so two decisions
combine at the smaller place. It follows that of two rows of one key one beats
the other, transitively (`BeatsOrder`), and hence that of every key a row
survives that no row of the key is above (`SurvivorExists`, by the least place
up to which this fails; `DedupFacts`). `Identified` and `Legacy` describe the
rows of a schema 2 and of a schema 1 snapshot: they are left alone by `normalize`
(`IdentityIsStable`, `LegacyOfIdentified`), the identity determines product,
package, scope and place (`OneIdentity`), and one product of schema 2 stays one product of
schema 1 (`LegacyKey`). `IsSnapshot`, one such row for each key, is what `Taken`
establishes (`SnapshotTwo`, `SnapshotOne`) and the invariant `SnapshotInv` keeps
of `previous`. From it follow `NewestIsSent` (with `NewerIsGreater`: what a
reader calls newer is above), `InstallationsKept` and `ResendIsStable`.
`OrderDoesNotMatter`: a snapshot is a function of the set of listed rows
(`TakenFromSet`) unless two different rows of one installation compare equal
(their versions are spelled in two ways, or their names or publishers differ in
case only: the first listed survives), and a permutation leaves that set alone. `DifferenceRebuilds`:
the key names the source (`KeyNamesSource`), so a row of another source can
neither replace one nor be replaced, and what is reported is exactly what is in
one snapshot only or in another version (`DiffRows`, `Rebuilt`).

*Only model-checked.* Liveness (`RequestAnswered`, `TransactionEnds`,
`PolicyConverges`, `Recovers`, `AgentRuns`, `RefreshHappens`, `Convergence`,
`EverythingSettles`), since fairness and `ENABLED` are outside the prover's
reach; and what the two violated runs show. The
inductive invariants were checked with TLC on the bounds of the runs before they
were proved. Where a proof needs induction over a number (the greatest key of a
set), it uses that a set of natural numbers has a least element
(`LeastNatural`).

## Not modelled

Data formats (JSON, zstd, TOML, package databases, registry), the contents of
keys, signatures and manifests (whether a request passes them is
nondeterministic), logging and telemetry, process priorities, the command line
and the installers. Of modelled components: `submit_if_needed` (which
only tests call), the `--once` mode of the supervisor (one
pass of its loop), the labels and hardware identifiers a registration sends, the
warnings about dropped duplicates, length limits of text fields,
`startup-error.log` and the service status.
