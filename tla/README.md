# SpxOpDaily: a TLA+ verification project

SpxOpDaily watches SPX options for one operator. Python services collect quotes
from Schwab and IBKR, detect setups and write notifications; Rust services
mirror the quotes, keep the decision and notification ledger, write half-hourly
reports and deliver messages to phones and chat. It places no orders. What can
go wrong, then, is what the operator *sees*: an alert sent twice, lost, sent
after it was withdrawn, a card against the rules of the desk, a screen that shows
a dead feed as live, or a trading day that can no longer be replayed. This
project models the parts that decide that.

- [Inventory](#inventory): the parts, their state, their interactions
- [Modules](#modules): how each module corresponds to the code
- [Runs](#runs): what TLC checks, with which bounds
- [Fairness](#fairness)
- [Proofs](#proofs)
- [Findings](#findings)
- [What is not modelled](#what-is-not-modelled)
- [Plan](#plan)

Check a run with `tlc -config X.cfg M`, the proofs with `tlapm M.tla` for each of
`DeliveryLedgerProofs`, `DeliverySafetyProofs`, `BridgeIngressProofs`,
`NotificationQueueProofs`, `QuoteLakeProofs`, `SessionFinalizeProofs`,
`StrategyDeskProofs` and `ProviderFailoverProofs`.

## Inventory

Paths are relative to the repository. Rust crates are under `rust/crates/`,
Python packages under `src/spx_spark/`.

### Components with protocol state

| Component | State | Operations | What makes it hard | Correct when |
|---|---|---|---|---|
| **spx-ledger** (`ownership`, `delivery`, `settlement`, `receipt`, `operator`, `ingress_decision`, `schema`) | SQLite: role leases, events, cancellations, targets, attempts, receipts | acquire/refresh/release a lease, persist an event, cancel, recover stale claims, claim, begin transport, reject, settle, acknowledge, replay | two workers around a lease takeover; late settlement; cancellation between claim and send; budget and expiry boundaries | a recipient gets a message at most once per replay; what arrived is never retried; every ended attempt leaves evidence |
| **spx-delivery** (`worker`, `transport`) | one claim in memory | a cycle of recover, claim, begin, HTTP, settle | dies between any two steps; unknown transport outcomes | as above, and urgent messages go first |
| **spx-bridge** (`runtime`, `state`, `client`, `health`, `mapper`) | a JSON state file: boot, cursors per provider, pending frame, source failure; connection | tick: retry pending, read source and health, sync or fence each provider; boot, connect | lost answers, restarts of either side, late frames, source failing halfway | a READY bridge's Core shows what the source says; the bridge's own state is never refused |
| **spx-core** (`engine`, `quote_book`, `server`, `readiness`) | quote book in memory; ingress identities in the ledger | apply a frame, publish, record, answer | failure after the book changed; restart with an empty book; frames of abandoned connections | exact retries are duplicates, nothing stale is applied |
| **spx-core advisory stores** (`desk_map_projection`, `strategy_distribution_projection`, `research_projection`) | latest projection on disk and in memory | apply, publish, reload | expiry, equal times with different content | a newer projection is never replaced by an older one |
| **spx-core raw log and archive** (`raw_log`, `frame_archive`) | NDJSON segments, archives with manifests, directory and date locks | append, rotate, archive a day, prune | partial removal, pruning against appending | nothing is deleted that was not archived as it is |
| **spx-report** (`service`, `client`, `source`) | Report lease, backoff in memory | tick: find the slot, read the projection, generate, persist | slot and projection are read before a slow model call | one report per slot, never from an expired projection |
| **Python notification queue** (`infrastructure/notifications.py`, `jobs.py`, `notifier/unified_delivery.py`, `dispatcher.py`) | SQLite rows and attempts, cancellation fences, Huey tasks | enqueue, schedule, cancel, begin_attempt, mark_transport_started, settle, recover | reads outside transactions; jobs that deliver inline next to the worker; tasks lost with a process | as for spx-delivery, and accepted rows are resolved |
| **Trade intent and candidate lifecycles** (`application/market_features/*_runtime.py`) | JSON state files with pending cancellations | advance, persist, cancel, enqueue | crash between persist, cancel and enqueue | no message of a finished candidate |
| **Operational ledger** (`infrastructure/operational_db.py`) | decisions, outcomes, events | insert or verify, archive history | select, archive and delete are separate | nothing referenced is deleted |
| **IBKR stream** (`ibkr/stream/`) | connection and subscription plans | supervise, replan, pin, flush | quota of market-data lines, reconnects | never over quota, pins survive a replan |
| **Schwab collector** (`schwab/`) | quota mode, OAuth tokens | request lanes, throttle, refresh | throttling answers, token rotation | no bursts while throttled |
| **Trade-card admission** (`application/order_map/delivery.py`, `strategy_select.py`, `strategy_ranker.py`, `market_features/service.py`) | selected decisions in the operational database, ":ready" events in the outbox | select, commit, admit (lock, cooldown, quota), enqueue | quota and locks are counted from decisions that precede their cards and are repeated every cycle; failed reads | no more cards than the quota, none within the cooldown, none against the locked direction |
| **Provider failover** (`provider_failover*.py`) | a control file: mode, streaks, last transition, context | evaluate both providers, gate new entries | unreadable state, session boundaries, flapping | entries only while a provider is healthy; no silent return to the primary |
| **Provider incident alerts** (`alert_engine/rules_system.py`, `cli.py`, `application/realtime/`, `core_main.py`) | an incident file: candidate, recovery, alerted id | a tick of the realtime engine, a cycle of the alert engine | two tasks over one file; delays against stale controls | what is announced has lasted; what is recorded as alerted was told |
| **Quote lake** (`storage.py`, `data_platform/lake/`) | raw JSONL files, Parquet, manifests, deletion audit, locks | append, compact, verify, quarantine, delete | deletion against appending collectors; a crash between any two file operations | a row that was accepted can always be read; a deletion is authorized and recorded |
| **Session finalizer** (`session_finalize.py`, `data_platform/replay_artifact.py`) | replay artifacts, the finalizer lock | prepare the hours of a day, publish, clean up, review; pressure check | four ways into the clean-up; nested locks; crashes | the finalizer does to the lake only what the lake allows; every run ends |
| **Deployment** (`scripts/deploy-release.py`) | release links, units, migration | install, roll back | failure between two links | both halves run the same release |

### Components without it

Candidate construction, analytics, options maps, features, research, replay, price
alert rules, settings, calendars and web views compute over a snapshot; what they emit enters
the system through the producers above. `PROJECT.json` lists all of them.

### How they interact

```
collectors --snapshot file--> spx-bridge --frames/acks over a Unix socket--> spx-core
                                                                        |
Python producers --operator notifications over the same socket----------+
                                                                        v
spx-report --persist (Report lease)------------------------------> spx-ledger (SQLite)
                                                                        ^
spx-delivery worker(s) --claim/begin/settle (Delivery lease)------------+--> phones, chat

Python producers --enqueue--> notification_events --Huey task--> spx-worker --> phones, chat
one-shot jobs (morning map, post-close, maintenance) --enqueue and deliver inline------^

market_features worker --decision--> operational_db --card, if admitted--> notification_events

provider_failover task --control file--> realtime_engine task --alert--> notification_events
                                    \--> alert_engine task <--> incident file

collectors --append--> raw files --compact--> Parquet + manifest <--- session finalizer
                            ^--------------- delete, with an audit ---------/
```

All processes of a host share its wall clock. systemd restarts the services
after a failure (`systemd/*.service`, `rust/systemd/`), so every crash is followed
by a start on the same files.

The `hazards` of `PROJECT.json` list, at its line, what a test of this code would
hardly reach. The properties below are aimed at them.

## Modules

### OwnerLease, DeliveryLedger (spx-ledger and spx-delivery)

Variables are the tables: `owner` (`runtime_owners` of the Delivery role),
`event`, `cancelled`, `row` (`notification_targets`), `attempts`, `receipts`;
`worker[w]` is a delivery process with its program counter, its lease and its
claim; `now` is the clock; `received` records which attempts reached the
recipient, which no process can see. A ledger function is one action, because it
is one `BEGIN IMMEDIATE` transaction. A worker's cycle is
`RefreshOwner`, `RecoverStaleClaims`, `ClaimNext`, `BeginTransport` or
`RejectBeforeTransport`, `Send`, `Settle`, with everything else free to happen
in between. `ClockReads(w)` lets a worker use a time it read earlier than `now`:
the code reads the clock once per stage.

`OwnerLease` has the rules of a role lease (who may acquire it, who owns it, what
a refresh does), shared by every role.

Storing an event has three forms, as in `ingress_decision.rs`: a decision intent,
a scheduled report (one per slot) and an operator notification, which supersedes
or is suppressed by others of its opportunity. The operator acknowledges or
replays a failed target.

Abstractions: a claim token is fresh, so (target, lease sequence) stands for it;
the same pair identifies an attempt; a NULL time is 0. Payloads are left out.

### OutboxContract

What the outbox promises about one target, without leases, claims or clocks:
messages move between a few phases, and a copy arrives only while one is allowed.
`DeliveryLedger` implements it under the mapping of `PhaseOf`, checked as
`ImplementsContract`.

### QuoteBook, BridgeIngress (spx-bridge and spx-core)

`QuoteBook` holds Core's admission rules as operators: how a batch compares with
the last one of its provider (generation, then sequence), when it is a duplicate,
stale or a collision, what is shown as live. `BridgeIngress` has the bridge's
persisted `state`, the process `bridge` with the pc of its loop, `core` with its
book, `recorded` (the durable ingress identities), `wire` (frames a Core thread
holds) and `reply`. A frame left behind on an abandoned connection stays on
`wire` as *late* and may be processed at any later time.

A tick is `RetryPending` or `ReadSource`, then `ReadHealth`, one `SyncProvider`
or `FenceProvider` per provider with `Send` and an answer for each, and
`CompleteDocument` or `FenceComplete`. Core's `Process` refuses, recognises or
applies a frame; applying has the outcome "book changed, then an error", which
the code has between the book and `record_ingress_once`. `Apply` leaves open
whether earlier batch identities have aged out of the book's memory.

`state` is one variable although the process works on a copy: every change is
either persisted in the same step or lost with the process, which a crash before
the step already covers. A failed persist ends the process and is a crash.

### NotificationQueue (Python)

Variables are the tables `row` and `attempts`, the `fence` rows, Huey's `tasks`
(how many copies of each task are queued), and the processes: `producer` and `canceller` per event, `consumer` for
the Huey worker and for every job that delivers inline.

The steps follow what SQLite really makes atomic. `engine.begin()` opens a
SQLAlchemy transaction, but pysqlite in its legacy transaction mode (the default
in the Python this project requires) sends `BEGIN` only before the first INSERT,
UPDATE or DELETE. A SELECT before it is a read of its own, and the write that follows does not
notice what changed since. So `begin_attempt` is three steps (`ReadRow`,
`CountAttempts`, `BeginAttempt`); the first `cancel` selects the rows after the
INSERT of its fence and is one step (`Cancel`), while a repeated one finds the
fence, inserts nothing and selects the rows before its first write, which makes
it two (`CancelAgain`, `MarkAgain`). `recover_incomplete_attempts` selects before its
first UPDATE and is two steps too (`RecoverReads`, `RecoverWrites`); `Reschedule` is
what `recover_notification_tasks` does with its result.

Faults are a crash of a producer or consumer and a database call that raises.
A Huey task that raises is put back with one retry less; Huey itself is external
and modelled from how `jobs.py` configures and calls it.

`SentOnce`, `ReceivedRemembered` and `CancelStopsRetries` speak of `WorkerRow`,
the rows that only the worker delivers. They do not hold of a row that a job
delivers inline: a worker that starts meanwhile takes the job's open attempt for
an interrupted one and sends the row again (see Findings). `StatusBacked` holds of
every row. `ResentOnlyRetaken` says of every row that this is the only way to a
second copy: one of the row's attempts was closed by recovery as having sent
nothing, which the field `retaken` of an attempt remembers.

### QuoteLake (storage and data_platform/lake)

The lake of one or more hours. A raw file is an inode: `files` holds the content
of every inode, `raw[h]` which of them the landing name of an hour points to,
`quarantine[h]` those that a deletion has renamed. A collector takes the path
lock of a file, opens it (`WriterOpen`), writes and returns (`WriterFlush`).
`compact_one` takes the lake-wide compact lock and no path lock. It looks at the
file and its manifest (`CompactStarts`), takes its snapshot (`CompactSnapshot`),
reads (`MarkEmpty` or `Normalize`), compares the file with the snapshot once more
(`CheckSource`), replaces the Parquet file (`ReplaceParquet`) and writes the
manifest (`WriteManifest`): rows may arrive between any two of these. A deletion starts
with a manifest its caller read earlier (`RequestDelete`), then takes the compact
lock and the path lock, checks its evidence again, and is
`Authorize`, `QuarantineRaw`, `VerifyQuarantine`, `UnlinkQuarantine`,
`FinalAudit`. `job` is the process that holds the compact lock. A crash
(`JobStops`, `RequestStops`, `WriterCrash`) frees the locks and leaves the files
as they are; a failed system call (`DeleteFails`) does what the code does about it.

Rows of an hour are numbered; a digest, a size or a row count is the set of rows.
`acked` counts the rows for which `write_quotes` has returned.

### SessionFinalize (session_finalize and replay_artifact)

`SessionFinalize` EXTENDS `QuoteLake` and adds the process under
`.session-finalize.lock` (`fin`), the published `artifacts` of one trading date
and its `reviews`. The finalizer compacts and verifies the hours of its window
(`PrepareCompact`, `PrepareVerify`), publishes an artifact, deletes what is old
enough and sends the review after it has released the lock; the pressure check
goes straight to the clean-up. The compactions are those of `QuoteLake`, taken
with the finalizer as owner; the hourly job is the other owner. An artifact is the
set of evidence of its sources; its revision is their lineage. The review that
also enters the revision digest is taken to be a function of the sources.

`LakeImplemented` says that the composition implements the lake's own
specification: every step is a step of `LakeNext` or leaves the lake alone. It is
proved (`LakeRefined`), so that what is shown of the lake holds of the composition.

`AuditComplete` has two parts. Whatever died or failed, an hour whose raw file is
gone has an authorization under its own name for exactly the rows of its manifest.
The final entry, without which `verify_replay_artifact` refuses the artifact, is
promised only while nothing has failed: the code does not repair it.
`ReviewPerRevision` counts the reviews sent or owed against the revisions published.

### StrategyDesk (trade-card admission)

One cycle of the market-features worker: `Select` (or `SelectUnread`, when the
accepted cards could not be read), `Persist`, `Admit`, `Enqueue`. `decisions` are
the selected decisions of the session, `cards` the ":ready" events in the outbox.
Both selection and flood control derive the *accepted* cards from these two: the
latest decision of each opportunity that has a ":ready" event. The order of
candidates is left open: any may win, so that the properties do not depend on the
ranking.

`OppositeWaits` lets a card follow one of the opposite direction in two cases. The
stick has passed, counted from a selection of the first direction after which no
accepted opportunity of another direction was selected before the first card
(`StickPassed`); or an accepted opportunity of another direction was selected
between the two cards and took the lock over (`Superseded`).

### ProviderFailover (failover controller and its alerts)

Three periodic tasks of Core share two files. `EvaluateAndPersist` is a run of
the controller over market data loaded at some time `at`; whether each provider
passed its health gate is an input. `control` is the control file with its mode,
streaks and last transition, and its condition: *readable*, *invalid* (JSON with a
context but no valid state), *corrupt* or *missing*. `ControlLost` takes it from the
first to any of the others, and any to *missing*; each is loaded as
`load_failover_state` and `load_failover_control` do. `seen` records what the
controller has observed, whatever becomes of the file; the observations that
`EntriesBacked` counts start again where the controller itself starts from nothing,
after a missing file and after an invalid one at a change of context. The
realtime engine's tick (`TickStarts`, `TickEvaluates`, `TickFails`) hands due
alerts to the outbox; the alert engine's cycle (`CycleEvaluates`,
`CycleNotifies`, `CyclePersists`, ...) keeps the incident file and notifies by
itself when direct delivery is configured. `Evaluation` is the debounce both use.

A transition's id is its time; the sequence number in it is left out, since a
controller makes one evaluation per time. The control's mode and context are read
by two calls one after the other and taken as one read.

## Runs

Every passing run explores its whole state space.

| Run | Instance | Shows |
|---|---|---|
| `delivery_fencing` | two workers, one target, two attempts, three lease generations, one replay, clock to 4; symmetric workers | around lease takeovers, crashes, late settlements, cancellation and replay: at most one copy per replay, nothing that arrived is retried or forgotten, evidence is complete, and the contract holds |
| `operator_lifecycle` | setup, trade-ready and exit of one opportunity | a superseded notification waits only where a transport had started before or an operator replayed it |
| `report_lane` | an intent, two rival reports of one slot, a target without adapter | one report per slot, urgent before routine |
| `bridge_restart` | two documents, two health files, a failing source, two boots, two Core runs, one change, one fault, halting at the first refusal | the saved state is always valid, nothing is stale or colliding, READY means mirrored and acknowledged on this connection |
| `bridge_liveness` | two changes of the source, one boot, two Core runs, one fault, no health file, fair | a failed source is fenced, also when it recovers and fails again; a pending frame is resolved and the bridge catches up |
| `queue_worker` | one row, budget 3, two task retries, two enqueues, two cancellations, three faults, the worker only, fair | one copy, what arrived is remembered, a cancelled row begins at most one more attempt, and while nothing fails an accepted row is resolved |
| `queue_inline` | one row delivered by a job next to the starting worker, one task retry, two faults | whatever both settle, a status is backed by an attempt; a second copy comes only from an attempt that recovery took over |
| `queue_lost_task` | small, fair | violation: see Findings |
| `session_finalize` | one hour, two rows, two raw files, clock to 4, two finalizer runs, one fault, fair | rows are kept, deletions authorized, recorded and backed by a copy; one review per revision; closed hours are copied and runs end |
| `strategy_desk` | six opportunities (two interchangeable) around the change from GTH to RTH, quota 2, stick 2, cooldown 1, clock to 4, one fault | quota, cooldown and direction lock hold for the cards that are really sent |
| `provider_failover` | a closed market, GTH, the gap, RTH; thresholds 2, 2, 3, 2; both ways of delivery; clock to 9, one fault | entries only on evidence of health, recoveries earned unless the control file was removed, announcements of what has lasted |
| `silent_incident` | the same calendar to 7, outbox delivery, no faults, fair | violation: see Findings |

Why the bounds are enough. *Delivery*: the hazards need an attempt, a lapse of
the lease, a second owner and a third (the first again), a settlement that comes
late and one replay; `MaxTime` 4 with `OwnerTerm` 2 lets a lease lapse twice, and
`ClaimTerm` 1 lets a claim go stale under a live lease. The smallest terms
allowed by `ConstantsAssumption` put the boundaries (expiry equal to now, budget
used up) within reach. *Bridge*: a frame can be
in doubt in one place only (the bridge has at most one pending), so two boots
and two Core runs with one further fault give every combination of who forgot
what; documents that agree for one provider and differ for the other make the
skip rule matter. The limit on refusals is reached in `bridge_restart` only, where it
is 1; in `bridge_liveness` it is 2 and a frame is refused at most once, so that
`PendingResolved` shows a retry after a refusal and not the halt after the last
one (two faults there exceed what TLC explores in five minutes). *Queue*: a race has one reader and one writer of a row, so one
row is enough for safety; budget 3 lets a retry follow a recovered attempt.
*Lake*: two rows and two files let a late collector write to a file that is being
compacted, renamed or already replaced; the clock reaches the grace with room for
a late batch and a second run. Hours meet only in the two lake-wide locks; the
proofs cover any number of them. *Desk*: quota 2 with three opportunities of one
direction lets the quota be reached, a stick of 2 within a clock of 4 lets a lock
begin, be challenged and lapse, on either side of the session change.
*Failover*: each threshold, the ages and both delays fit into the five time units
of RTH, with a boundary before them; TLC reaches every mode and every kind of
alert.

Runs with `CHECK_DEADLOCK FALSE` may stop because the bounds on faults, changes
and starts are used up. The delivery runs check deadlock.

Each property has a mutant in `PROJECT.json`, a plausible bug in a definition
that TLC must find through that property. The mutated operators stand just
before the definition they replace.

## Fairness

- `BridgeIngress!Fairness`: the bridge's loop has no wait without a timeout, Core
  serves a connection while it runs, and both units have `Restart=on-failure`,
  hence weak fairness of `BridgeStep`, `Process`, `Boot` and `CoreStart`. Faults,
  crashes and changes of the files have none. The number of starts is bounded in
  the model; both properties say what holds until that supply is used up
  (`OutOfRestarts`).
- `NotificationQueue!Fairness`: the worker's thread loops, and systemd restarts
  it (`spx-worker.service`), hence weak fairness of `WorkerStep`; a producer that
  stored its rows runs on to schedule them. Producers, cancellers, inline jobs,
  crashes and the passing of time have none. `ResolvedWithoutFaults` claims
  nothing once a fault has happened.
- `SessionFinalize!Fairness`: a collector that opened a file flushes and closes
  it, the process that holds a lock goes on, the hourly timer
  (`systemd/*.timer`) finds every hour that is due. When a finalizer or a pressure
  check starts is left open, and no crash is required.
- `ProviderFailover!Fairness`: `core_main._run_periodic` runs each of the three
  tasks again after an interval. A run of the alert engine that fails is followed
  by the next; `provider_failover` and `realtime_engine` are critical, a failed run
  ends the process, and they run again because systemd restarts it. Used by
  `silent_incident` only, which has no faults.

`DeliveryLedger` and `StrategyDesk` make no liveness claim.

## Proofs

Every invariant and every safety property of steps that a run checks, but for
`ResentOnlyRetaken`, and both refinements are also theorems: for any sets of workers, rows, documents, hours
or opportunities and any delays and bounds that satisfy the named assumptions of
the module. Each rests on an inductive invariant that TLC checked first, on the
run's instance.

| Module | Inductive invariant | Theorems |
|---|---|---|
| `DeliveryLedgerProofs` | `TypeOK` | `TypeCorrect` |
| `DeliverySafetyProofs` | `DeliveryInv` | `ChecksNeverFail`, `SeenOncePerRound`, `NothingForgotten`, `EvidenceKept`, `ProvenanceKept`, `OneReportSent`, `NothingSupersededFresh`; of steps `UrgentFirstHolds`; the refinement `Implements` |
| `BridgeIngressProofs` | `BridgeInv`, `MirrorInv` | `TypeCorrect`, `StateAlwaysValid`, `NoStaleAnswer`, `ReadyIsMirrored`, `FenceStands` |
| `NotificationQueueProofs` | `QueueInv` | `QueueTypes`, `StatusIsBacked`, `RecipientSeesOnce`, `NothingSentIsLost`, `OneLateAttempt` |
| `QuoteLakeProofs` | `LakeInv` | `LakeTypeCorrect`, `RowsAlwaysKept`, `DeletionsAlwaysAuthorized`, `DeletedAlwaysInLake` |
| `SessionFinalizeProofs` | `FinalizeInv` | the refinement `LakeRefined`; `FinalizeKeepsLake`, `FinalizeTypeCorrect`, `ReviewedOnce`, `AuditAlwaysComplete` |
| `StrategyDeskProofs` | `DeskInv` | `DeskTypes`, `QuotaKept`, `CooldownHolds`, `DirectionHeld` |
| `ProviderFailoverProofs` | `FailoverInv`, `AnnounceInv` | `FailoverTypeCorrect`, `EntriesAlwaysBacked`; of steps `RecoveryAlwaysEarned`, `AnnouncedAlwaysLasted` |

**Delivery ledger.** `TypeOK` is inductive as it stands because it contains
`WorkersOK`: a worker in a stage that handles a claim has a target, without which
neither the row updates of `BeginTransport` and `Settle` nor the new receipts can
be typed. The safety properties are not inductive: a worker that lost its lease
still holds a claim, and what it does later is judged by the key (target, lease
sequence) alone. `DeliveryInv` adds what such a key identifies: at most one busy
worker and one attempt (`Keys`, `Started`); that a transport's result is true
(`Truthful`); that within a round between two replays only the last attempt can
have arrived or still arrive, and none once the row may be claimed again
(`Rounds`); and how an in-flight row, its attempt and the receipts belong together
(`InFlight`, `Evidence`, `OneReportPerSlot`, `Clocks`, `Entered`). Steps are sorted
by what they do to a target: those that leave attempts and messages alone
(`Calm`), a claim, a start, a send; there is one lemma per kind and one per action
that shows its kind. The refinement of `OutboxContract` uses the same kinds: a
`Calm` step moves or keeps a target's phase, a send is an arrival, and `Rounds` is
why an arrival is allowed.

**Bridge and Core.** `StateValid` is not inductive: whether a fence frame
belongs to the recorded failure is decided when the loop composes it, from what
the loop read several steps (and a whole exchange with Core) earlier. `BridgeInv`
adds `LoopOK`: between reading and completing, nothing is pending while a frame is
composed; a synchronising loop reads a document, a fencing one reads exactly the
recorded failure, also across the exchange it will return from (`after`).
`MirrorInv` then relates the bridge to Core. Frames are numbered so that none on
the wire or on record is newer than the bridge's cursors (`Numbered`), the book's
cursor of a provider is not older than anything recorded (`Cursors`), a connection
carries one frame at a time and every other is late (`Connection`), a frame
composed on it is new to Core (`NewFrame`). From these: the book shows what the
bridge had acknowledged and no late frame can replace it (`Shown`), or nothing live
at all (`Dark`); `Synchronising`, `Synchronised` and `Fencing` say for which
providers, at each point of the two loops. `NothingAssumption` (an absent value is
neither a frame nor an answer) is all it needs besides `BridgeAssumption`.

**Notification queue.** What `begin_attempt` read is stale when it writes, so no
property of a row is inductive without what the worker *knows* of the row it is
busy with (`Knows`): until it sends, nothing of this row was received, and unless a
canceller marked it meanwhile the row is still as it was read. This is true only
because the worker is a single thread and a restart passes through
`recover_incomplete_attempts`; it fails for rows that a job delivers beside it,
hence `WorkerRow`. For the same reason what recovery has read of such a row is still
true when it writes (`Recalls`). `Visible`, `OneOpen` and `OneLate` say what the tables show: a
message that arrived is visible in the row's status or in its one open attempt,
and one attempt at most began after a cancellation. `Backed` holds of every row,
inline jobs included.

**Lake and finalizer.** `GraceAssumption` says that a collector opens an hour's
file no later than `MaxLag` after the hour, and `MaxLag < Grace`. `LakeInv` says
where each row is at each stage: which rows a job has read and which file it read
them from, that a manifest's rows are in the Parquet file, that a quarantined or
authorized file's rows are covered, and that after the grace nobody opens a file
of the hour any more. The last part is why the assumption is needed: without it a
late batch in a new file is compacted over the Parquet file of the deleted one.
The finalizer refines the lake by step simulation: each of its actions is a lake
action or leaves the lake's variables alone. `FinalizeInv` ties its program
counter to the lake's job and request. For the audit, `AuditInv` says that an hour is
authorized before its file moves (`Exact`) and stays so (`Traced`). For the reviews,
`Owing` also counts the one a run that has published is about to owe.

**Trade cards.** Quota, cooldown and lock are decided from decisions and have to
hold of cards. `DeskInv` relates the two: every card is a decision's and the only
one of its opportunity (`Backed`), each opportunity has a last decision, never
older than its card (`Rows`, `Lasts`), and what admission found stays true until
the card is written (`Cleared`). The lock is computed from last decisions only,
`OppositeWaits` speaks of all: a decision of another direction since the start of
the streak would have a last one that breaks the streak (`StandingRow`). `DeskAssumption` has one assumption about
opportunities: one that may be a condor is only that, and has no direction
(`iron_condor.py` builds no other).

**Failover.** `ThresholdAssumption` is `SchwabUnhealthy <= 2`, the shipped value.
The controller decides by streaks, the properties speak of observations, and a
corrupt file loses the streaks: `StreaksBacked` says how much the streaks on
file still know. Nothing is proved of the step that follows a removed file
(`RecoveryEarned` leaves it out) and of an outage from before it (`EntriesBacked`
counts from there on). The proof shows where the threshold enters. After a corrupt
file the controller starts from `recovery_pending` with empty streaks; a session
boundary one observation later derives the primary mode from a streak of one. With
a threshold of 2 that next observation completes it. With 3, TLC finds entries
allowed in an outage that has lasted through the boundary. `AnnounceInv` says that
the one transition on file leads into the mode on file (`Latest`) and that every
alert, told or about to be, had waited its delay under a control still usable
(`Due`); a later mode carries a later time.

Only model-checked: the liveness properties `PendingResolved`, `CatchesUp`,
`ResolvedWithoutFaults`, `CopiedEventually` and `RunsEnd`, since liveness under
fairness and `ENABLED` are out of the prover's reach, and `ResentOnlyRetaken`, which
would need of every inline job what `Knows` says of the worker. `AcceptedResolved` and
`AlertedIsTold` are refuted by their runs. No proof needs induction over data; where
one needs a maximum or a minimum, it comes from well-foundedness of `<` on `Nat`.

## Findings

1. `queue_lost_task` (code): Huey removes a task from its queue when it hands it
   out. A worker that dies before `begin_attempt` leaves an accepted row pending
   for good; startup recovery looks at processing rows only.
2. `silent_incident` (code): with direct delivery off, which is the shipped
   setting, the alert engine notifies nobody and still records a provider outage
   as alerted (`alert_engine/cli.py:99`). If its cycle is the first one after the
   notification delay, the realtime engine, whose alerts feed the outbox, finds
   the incident alerted and says nothing. In the shortest behaviour IBKR takes over
   from Schwab, the delay passes, the alert engine's cycle runs, and no later tick
   mentions it.

Observed while modelling, without a run of their own:

- The ledger moves a claimed target straight to `dead_letter` when no adapter fits
  it; the closed list of legal transitions in `rust/docs/STATE_MACHINES.md` does
  not have that move.
- `begin_attempt` may overwrite a cancellation committed between its read and its
  write: `cancel()` then counts as cancelled a row that is sent.
  `CancelStopsRetries` shows that it costs at most one attempt.
- When `spx-worker` starts while a job delivers inline, recovery takes the job's
  open attempt for an interrupted one and schedules the row again.
  `ResentOnlyRetaken` shows that nothing else sends a row twice.
- A control file that is removed during an outage restores the primary mode at the
  next evaluation (`provider_failover_controller.py:180`, pinned by
  `tests/test_provider_failover_controller.py:512`); the comment at line 451 names a
  silent return to the primary as what a lost file must not do. Entries are then
  allowed until the streaks have grown again.
- The pressure check deletes by compaction manifest alone, also before the day's
  artifact exists, while `docs/runtime-configuration.md:136` asks for the
  completed-day artifact.
- `session_direction_lock` says that reprints of a winner do not extend its lock
  (`strategy_ranker.py:98`, `strategy_regime.py:135`). The rows it is given keep
  only the latest decision of each opportunity (`strategy_ranker.py:204`), so a
  winner that is selected again moves its own lock.
- An RTH condor's card ends the lock of the direction before it.
- A finalizer that runs again after some raw files are gone may publish a smaller
  revision of the artifact and send a second review
  (`docs/headless-deployment.md:590`).
- A run that dies after publishing never sends its review: the next one finds the
  artifact and skips it.
- `persist_system_event_state` reads the control again: a control newer than the
  cycle's time is ignored there, so that a directly delivered alert is repeated,
  and one that became usable in between is marked without having been sent.
- A recovery that ends in a short `recovery_pending` is never announced.
- From the primary mode one healthy IBKR observation is enough for the fallback;
  the text of `ibkr_recovery_observations` asks for a streak.

## What is not modelled

- Wall clocks that step back; two hosts.
- In the ledger: the Core and Report leases, source fences, decision contents.
- In the bridge: the advisory lanes except as a failed send, quote ageing in
  Core's book, entry limits, two Cores on one socket. `ReadyMirrors` says nothing
  about a Core that restarted since the bridge connected: the bridge learns of it
  at its next write.
- In the queue: rows of the `alert_pipeline` channel, forwarding of a cancellation
  to Rust, `consume_pending_notifications` (used by tests only), two concurrent
  producers of one event.
- In the lake: unreadable manifests, forced and dry runs, torn lines, the tables of
  `normalize.py`; in the finalizer: the backlog of several dates, the review's
  content.
- In the desk: ranking, pricing, the pin watch card, images.
- In the failover: how health follows from quotes, the dual-source telemetry, the
  IBKR stream control; of the alert engine everything but provider incidents.
- Most of the repository's lines are numerical: notebooks and research scripts,
  pricing, features, option maps, candidate construction, calibration. They compute
  floating-point results from a snapshot and keep no protocol state; a TLA+ model
  could only restate them. The coverage of the source by the map is small for that
  reason. Of the files with protocol state that the modules name, about a quarter
  of the lines is mapped.
- Message texts, HTTP, numerical code, configuration.

## Plan

Done, in this order: (1) `OwnerLease`, `DeliveryLedger`, `OutboxContract`,
`DeliveryLedgerProofs`; (2) `QuoteBook`, `BridgeIngress`, `BridgeIngressProofs`;
(3) `NotificationQueue`; (4) `QuoteLake`, `SessionFinalize` and their proofs;
(5) `StrategyDesk`; (6) `ProviderFailover` and its proofs; then
`DeliverySafetyProofs`, `StrategyDeskProofs`, `NotificationQueueProofs`, the mirror
in `BridgeIngressProofs` and the announcements in `ProviderFailoverProofs`.

Next, most important first, with the hazards that wait for them:

7. `AdvisoryLanes`: the bridge's fingerprints and the projection stores, composed
   with restarts of either side; abstract specification: a register whose time
   never goes back. With it a clock in `BridgeIngress`: quotes whose content does
   not change age out of Core's book (`quote_book.rs:214`), and an unchanged
   snapshot is reported READY without asking Core (`runtime.rs:687`).
8. `ReportService`: ticks, backoff, slow generation (the slot is read before a
   model call, `service.rs:408`), recovery reports, on top of the ledger's slot rule.
9. `RawLog`: append, rotation, archive barrier and pruning with partial failure
   (`raw_log.rs:659`); abstract specification: what was appended is in a segment
   or in an archive.
10. Further Python machines: the trade intent lifecycle over `NotificationQueue`
    (a crash between persisting, cancelling and enqueueing,
    `trade_intent_runtime.py:254`), `alert_pipeline` rows
    (`unified_delivery.py:655`), the operational archive (`operational_db.py:76`),
    the Schwab quota machine (`quota_machine.py:34`), IBKR replanning, release
    rollback (`deploy-release.py:285`).

Each new module comes with its proofs: the lanes' register and the raw log as
refinements, the report service's slot rule from the ledger's `OneReportPerSlot`.
