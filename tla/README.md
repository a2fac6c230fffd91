# OptiVox: formal model and proofs

OptiVox is a local security and attendance system. One Python process, the
*edge runtime* (`main.py`, `core/`), reads a camera, recognises people, decides
attendance and queues minimised events. A second process, the *backend*
(`backend/`, FastAPI), serves the dashboard, owns the operator's actions and can
act as the control plane that edge devices synchronise with. Both share one
SQLite database and a directory of JSON files (`runtime/`).

This directory holds TLA+ modules translated from that code, TLC configurations
that check them on small instances, and proofs checked by TLAPS.

## 1. The system and what makes it hard

| Component | State it keeps | Operations | What is hard |
|---|---|---|---|
| Edge synchronisation: `core/edge_sync.py`, `core/sync_transport.py`, `backend/services/sync_service.py` | event log, acknowledged ids and metadata (three files); device row, event rows and receipts (three tables) | enqueue, verify, pending, checkpoint, send, acknowledge; ingest, set device status | two writes of one operation separated by a crash, unlocked readers, lost, late and repeated calls, revocation between deliveries |
| Database outbox: `backend/services/outbox_service.py` | table `platform_outbox` | enqueue in the caller's transaction, claim, acknowledge, fail, recover, requeue, purge | leases against slow workers, retries, time compared as text, deduplication against changing records |
| Command bridge: `backend/services/command_service.py`, `main.py` 8470-8846, 9939-10038 | `commands.json`, `command_results.json`, `command_idempotency` | create command, read pending, run, write result, mark completed | read-modify-write of one file by two processes, one temporary file name, truncation, repeated keys |
| Attendance: `main.py` 2184-2545, 6797-7034, `backend/services/attendance_service.py` | table `attendance`, the manager's cache of today | clock in, touch, clock out, close stale, correct, day rollover | engine and backend write the same row, decisions taken before the write lock, rollover that fails half way |
| Frame pipeline: `runtime_performance.py`, `main.py` 9640-9788 | one-slot frame buffer, latest inference result | capture, publish, wait, infer, close | frames replaced or too old, exceptions in a round, a close while somebody waits |
| Operations worker: `main.py` 9791-9897 | two bounded queues | submit, take, work off, stop | critical tasks overtake earlier ones, full queues drop, the end of the loop against the last submission |
| Presence sessions: `main.py` 1818-1997 | table `presence_sessions` | upsert, close, close stale, close all | updates in any order, written by several threads, joins that give up |
| Correlation and identity: `core/correlation.py`, `core/entities.py`, `core/observations.py` | entities, votes, generations | update tracks, attach, refresh, exclusivity, attendance gate | one name on two entities, votes from before a doubt, gates asked in the middle of an update |
| Liveness challenge and center attendance: `core/liveness.py`, `main.py` 10249-10713 | challenges by entity, the mode's state, table `liveness_challenges` | update, time out, abandon, clock in, toggle | a result that is older than the reducer, a deadline against completion, rows held over interruptions |
| Enrollment: `main.py` 5035-5553 | the open enrollment, embeddings on disk | begin, collect, finish, confirm, cancel | half-written identity across disk, model and database |
| Incidents: `backend/services/incident_service.py`, `main.py` 8964-9097 | `incidents`, `incident_events`, `incident_evidence`, `incident_alerts` | materialise, review, reconcile evidence | two processes group the same events |
| Sessions and audit: `backend/services/auth_service.py`, `audit_service.py`, `schema_migrations.py` | users, sessions, audit chain, checkpoints | login, logout, resolve; append, verify | chain append under concurrent writers |
| Backup and retention: `backend/services/storage_service.py`, `backup_scheduler.py`, `retention_service.py` | backup files and manifests | back up, verify, restore, purge | crash between file and manifest, retention floor |
| Alerts, zones, vehicles, policy, models: `main.py` 2621-2900, `core/security.py`, `core/vehicle_intelligence.py`, `core/policy_engine.py`, `core/model_registry.py` | cooldowns, dwell timers, tracks, policy versions | evaluate per frame | debounce and cooldown edges |
| Dashboard and legacy programs: `frontend/`, `optivox-web/`, `optivox_improved.py`, `moretesting.py`, `idk.py`, `vision.py` | none shared with the above | | not modelled: views, and earlier versions that the runtime does not load |

For each component the properties that make it correct:

- *Edge synchronisation*: the control plane holds a prefix of the edge's queue,
  in order and once; the edge never drops what was not stored; a device that is
  not active changes nothing; a backlog drains.
- *Database outbox*: one owner per live lease, only the owner settles, no retry
  early, every event settles, every change has an event.
- *Command bridge*: completed means executed and answered; no command is lost
  between the two processes; order of first execution; a key names one command.
- *Attendance*: intervals in order and on their day, the first clock-in and a
  recorded clock-out kept, nobody left open.
- *Frame pipeline and operations worker*: a shutdown works off the queues, and
  leaves at most the one result that was in inference's hand.
- *Presence sessions*: at most one open session per entity, which never claims a
  presence that was not observed; rows only move forward; a clean exit leaves
  none open.
- *Correlation*: a name is eligible on one track; a confirmed name has its votes
  since it was last in doubt.
- *Liveness and center attendance*: who is clocked in has shown the four poses
  without a break; a finished row is history, an unfinished one is not forgotten.
- *Enrollment*: disk, model and database agree after every failure.
- *Incidents*: an event belongs to one incident.
- *Sessions and audit*: lockout after the limit; the chain verifies after any
  interleaving of appends.
- *Backup and retention*: a listed backup verifies, the floor is kept.

## 2. What is modelled

| Module | Models | Composes / extends |
|---|---|---|
| `OrderedDelivery` | abstract specification: a queue of distinct events, and a receiver that holds a growing prefix of it | |
| `EdgeSync` | edge outbox, sender thread, network, receiver | implements `OrderedDelivery` by refinement mapping |
| `MCEdgeSync` | instances, the backlog start, one documented statement that fails | extends `EdgeSync` |
| `EdgeSyncProofs` | 7 theorems | extends `EdgeSync`, `TLAPS` |
| `LeasedQueue` | abstract specification: the life of each event of a queue with leases | |
| `PlatformOutbox`, `MCPlatformOutbox`, `PlatformOutboxProofs` | the table `platform_outbox` and its senders; instances; 6 theorems | implements `LeasedQueue` |
| `PlatformDrainProofs` | 2 theorems: why the drain may be checked on a finite clock | extends `MCPlatformOutbox`, `PlatformOutboxProofs` |
| `CommandBridge`, `MCCommandBridge`, `CommandBridgeProofs` | `commands.json` and its neighbours, both processes; instances; 6 theorems | |
| `Attendance`, `MCAttendance`, `AttendanceProofs` | attendance rows, engine threads and backend; instances; 6 theorems | |
| `PresenceSessions` | table `presence_sessions`, its four operations as functions on the table | used by `EdgeRuntime` |
| `EntityStore` | `update_tracks` and `attach`: the life of the entities behind the tracks and the instant they were last observed, as functions | used by `EdgeRuntime` |
| `PresenceLog` | abstract specification: a log of visits, of what was observed and only that | |
| `EdgeRuntime`, `MCEdgeRuntime`, `EdgeRuntimeProofs` | camera, inference, operations and main thread between the camera and the table; instances; 10 theorems | composes `EntityStore` and `PresenceSessions`; implements `PresenceLog` |
| `LivenessChallenge` | the turn challenge as functions on a challenge | used by `CenterMode` |
| `CenterMode`, `MCCenterMode`, `CenterModeProofs` | the main loop of center attendance against the reducer; instances; 5 theorems | composes `LivenessChallenge` with the rows, the mode and the gate |
| `Correlation`, `MCCorrelation`, `CorrelationProofs` | identity, liveness, exclusivity and the gate of the entities; instances; 4 theorems | |

A comment `Mutant` or `(mutant)` marks an operator that no specification uses:
it is a plausible bug, kept next to the definition it would replace, to show
that a property notices it.

### 2.1 EdgeSync

State: the three files of the edge (`log` with `torn` and `unreadable`, `acks`,
`meta`), the thread that enqueues (`enqPc`, `enqMeta`), the thread that sends
(`syncPc`, `batch`, `reply`), the bodies ever sent (`requests`), and the
receiver's tables (`status`, `devSequence`, `devHash`, `received`, `receipts`).

| Action | Code |
|---|---|
| `EnqueueAppend`, `EnqueueTears`, `EnqueueWriteMeta` and its failure | `EdgeEventOutbox.enqueue`: append a line, then write the metadata; a crash or an `OSError` may fall on either |
| the steps of `SyncStep` | `EdgeSyncClient.sync_once`: verify the chain, read pending, read the checkpoint, send, acknowledge (ids, then metadata) |
| `IngestNew`, `IngestRepeat` | `ingest_batch`, one transaction; any body ever sent may arrive now, so calls are lost, late, repeated and reordered |
| status changes | `set_device_status` |

The record hash is the position of the record, so a chain comparison is a
comparison of positions; signatures are valid. The readers that take no lock
are steps of their own.

### 2.2 PlatformOutbox

State: the clock, the local records, the table, and what each worker was given
and has not answered. One action per transaction of `outbox_service.py`:
`Change` (the mutation with `enqueue_in_connection`), `Claim`, `Acknowledge`,
`Fail`, recovery, requeue, `purge_sent`. Workers are external: the repository
has the claim protocol and not the sender. Times are ticks with a format bit
(`dueIso`), because SQLite compares `T...` and blank-separated text.

`Queued` maps a row to the life of its event in `LeasedQueue`: waiting from an
instant, leased to a worker since an instant, sent, dead, or unknown. It forgets
the lock columns of what was sent, the attempts of a dead letter and the format
of a time. A `Claim` is a `Take` of every event it hands out and an `Expire` of
the other stale ones; a late answer is a stutter.

### 2.3 CommandBridge

State: `commands.json` and the one temporary file, the ranks of the results, the
idempotency table, what each process has open and in memory, and three history
variables. `create_command` and the engine's pass are split at every file
operation; each may crash or fail there. The variable `host` separates POSIX
(a renamed or removed file is written on) from Windows (`PermissionError`).

### 2.4 Attendance

State: the wall clock, one row per person and day, the manager's cache and
`_date`, the process, and for every thread its operation, place, target, chosen
day and time, and the rows still to close. The history variable `witnessed` is
the latest presence a row ever recorded: `last_seen_at` itself may be taken back,
by a clock-in whose time was chosen before another thread wrote a later one
(`main.py` 2318).

The code reads the clock twice wherever it needs a day and a time, and the model
does the same. `local.at` holds the instant of a thread's last step, so a reading
made since then is any instant from there to now (`Readings`), and the day may be
that of an earlier reading than the time. The close by hand reads its time in a
step of its own (`Stamp`), after the row was read. The backend reads both before
its transaction waits for the write lock, at most `LockWait` instants. The
history variable `straddled` remembers the rows into which a time was decided on
the other side of a midnight than the day.

| Action | Code |
|---|---|
| `Begin`, `Collect`, `Rollover` | `_maybe_rollover` at the start of `handle_recognition`, `clock_in_verified` and `reconcile`: the day is read, the open rows of earlier days are selected, then closed (`close_open_attendance_before`); a close refused by the trigger ends the loop and the day still counts as reconciled |
| `Observe` | `touch_attendance_presence` for a task of any earlier time |
| `Touch` | the same by `handle_recognition`, with the present time, and the look into the cache |
| `Look`, `Insert` / `ClockInRefused`, `Remember` | `attendance_clock_in`: day, time and row are read, in this order, and the row is written later; the manager's cache |
| `List`, `Read`, `Stamp`, `Update` / `UpdateFindsClosed` / `UpdateAborts`, `Forget` | `close_stale_attendance`, `close_open_attendance_for_shutdown` and `manual_clock_out` through `attendance_clock_out`, split between listing, reading, the time of a close by hand, and the write |
| `Shutdown`, `CloseForShutdown`, `Crash`, `Start` | `main()`'s `finally` block and a new runtime |
| `ClockIn`, `ClockOut`, `Correct` | the backend's transactions |

`attendance_lock` is `LockFree`: automatic and centre-mode clock-ins and the
close at shutdown exclude each other, `reconcile` and manual operations take
nothing. Schedule, calendar and provenance checks are one refusal. A correction
gives times of the day it corrects and not of the future; the code does not
check that, so `IntervalOnItsDay` holds for operators who do so. The fall-back
of `close_stale_attendance` to the presence session's time is left out.

### 2.5 EdgeRuntime, EntityStore, PresenceSessions

State: the clock; the one slot of the frame buffer; `inference` (place and time
of its round); `store`, the entities; the two queues; `ops`, the task in hand
with the entities still to write; the manager's `_date`; `main`, as far as it
starts and stops; the table. `clean` remembers that a shutdown saw its writers
end. In `PresenceLog` a row is a visit, `running` says that there is a process,
and `seen` is what its entity store has observed; threads, queues and tasks do
not appear.

| Action | Code |
|---|---|
| `Capture`, `TakeFrame` | `LatestFrameBuffer.publish` and `wait_for_latest`; a frame older than the limit is dropped by `InferenceWorker.run` |
| `Process`, `ProcessFails` | a round of inference: `update_tracks` on any frame, the compact result and `submit`; or an exception after the update |
| `TakeTask`, `UpsertEntity`, `Sweep` | `OperationalWorker.run` and the presence part of `_process_runtime_side_effects`, one transaction at a time |
| `Rollover` | `_maybe_rollover`; a refused close of an attendance row keeps the sessions from being closed |
| `StopWorkers`, `StopOperations`, `CloseForShutdown`, `Exit` | the `finally` block of `main()`, flag by flag; a `join` may give up. The joins and the close are one step: a thread that writes between them might have written before its join gave up |
| `Crash`, `Start` | the process ends anywhere; the next one closes what is open |

An entity of `store` has the instant of its last track (`seen`) and that of its
last observation (`wall`), which is what its session is written with. Tracked and
observed are not the same: `attach` rejects an observation that is older than its
350 to 500 ms (`entities.py` 682), so of the entities a frame tracks only those in
`fresh` get its instant, and a new entity may have none (`Never`). For such a one
`_process_runtime_side_effects` falls back to `completed_at` (`main.py` 9172),
which inference gives as a number of seconds and `_parse_timestamp` does not take
for a date: `ObservedAt` writes `Seconds`. A comparison with it fails, so `Later`
leaves the row as it is, and the sweep closes it (`Stale`). The security signals
of a frame are attached after the task was copied (`late`): they reach the store
and not this task. A task carries an instant for each of its entities.

Not in the model: `TakeTask` looks at both queues in one step, where the code may
take a regular task although a critical one was put between the two looks
(`main.py` 9870-9873), which is one more way for a task to be handled in another
order than its frame. Errors of the database in one step of a task, which the code logs and
passes over, are left out; so are the eviction beyond 128 entities and more than
one camera.

### 2.6 LivenessChallenge, CenterMode

State: `live`, what the reducer holds of the track in the guide; `result`, the
last result; `center`, the dictionary `ui["center_attendance"]`; the challenges
by entity; the rows of `liveness_challenges`; `deciding`, the person between the
challenge and the gate; two history variables.

| Action | Code |
|---|---|
| `Correlate`, `Publish` | the inference thread: the reducer changes, a result replaces the last one |
| `StepAway`, `Ignore`, `Advance` | `update_center_attendance` for a result without one face alone, one that changes nothing, and one that advances the challenge |
| `Refuse`, `ClockIn` | the gate asked of the track *as it is now*, and `clock_in_verified` |
| `Toggle`, `Restart` | the operator's switch, the end of the engine |

Time enters as two facts of an update: the deadline has passed, the pose was
held long enough. The required number of stable frames adds nothing to a passed
challenge, which takes at least eight updates.

### 2.7 Correlation

State: the entity of every track (identity state, name, window of votes,
freshness, liveness, eligibility), the place of the inference thread in
`update`, and who is eligible in the published result. `Track`, `AttachFace`,
`Enforce` and `Publish` are the parts of one update; `Ask` is `attendance_gate`
from any thread at any moment, which refreshes the entity. Ages are four classes,
scores only choose the winner of a collision, recognition gives any answer. The
history field `votes` counts the fresh observations of a name since the entity
was last in doubt. `Ask` is one step although `attendance_gate` takes no lock: it
refreshes one entity by the clock and then only reads it.

## 3. What the runs check and show

| Run | Shows |
|---|---|
| `edge_sync` | under crashes, failed and torn writes, lost, late and repeated calls, and revocation: the receiver holds an ordered prefix of the log; acknowledged implies received; the checkpoint is never ahead; an inactive device is blocked; refinement of `OrderedDelivery` |
| `edge_backlog` | a backlog queued before an endpoint was configured drains to its end, although answers get lost |
| `edge_consumed` (violated) | finding 1 |
| `platform_outbox` | one live claim per item, only its owner ends a claim, no retry before its time; refinement of `LeasedQueue`: nothing that was sent is leased again, attempts lead to the dead letter |
| `platform_drain` | every queued event is sent or becomes a dead letter |
| `bridge` | what is shown as completed was executed and answered; first executions in order while nothing fails; a key leads to the last command; a pending command that stays in the file is answered |
| `bridge_lost` (violated) | finding 2 |
| `attendance` | intervals in order on their day, unless a writer read day and time on two sides of a midnight; a clock-in moved by corrections only; a clock-out never moved by the engine; an automatic clock-out claims no presence that was not recorded; the absent do not stay open |
| `edge_runtime` | one open session per entity, none of a presence nobody saw, none without a date that outlives its task, rows that only move forward; a shutdown works off the queues, leaves one task at most, and no open session when its writers have ended; from its first flag on every step of the operations thread leaves less work; refinement of `PresenceLog` |
| `center_mode` | a clock-in is earned by the four poses of that entity under that name; a finished row is not written again; only the switch and the end of the engine leave a row in progress |
| `center_failed` (violated) | finding 3 |
| `correlation` | a published result makes a name eligible on one track; a confirmed name has its votes since the last doubt; windows keep their bound |

Bounds, and why the interesting cases fit in them:

- `edge_sync`: three events with batches of two need two batches, so a batch may
  be repeated after its successor; two faults allow a torn line followed by a
  crash between two writes. `edge_backlog` starts from every possible backlog of
  three events.
- `platform_outbox`: two workers and a lease of one tick let a claim expire while
  its holder works; two attempts reach the dead letter; six ticks with days of
  three pass two midnights, which the text comparison needs; one crash.
- `bridge`: four commands with a window and a result list of one make both
  overflow; one fault; both hosts are initial states. `ExecutedInOrder` is about
  behaviours without a fault: with one, five commands are needed to break the
  order (section 4), which this bound would hide.
- `attendance`: one person, two threads, three instants over two days, and a
  backend that waits for the write lock for one of them: every pair of writers,
  and a midnight before, between and after the two readings of the clock. With
  corrections at every instant the model is too large for a run, so there are two
  starts (`MCSpec`). `BeforeMidnight`: an instant and a midnight are still to
  pass, observations may be an instant old, and no correction is left.
  `AfterMidnight`: a shutdown has begun, the sweep is about to close a row of
  yesterday that it read before midnight, and one correction of either day may
  fall between any read and write, in this runtime and the next. That more than
  one correction, or a correction and a midnight, come between one read and its
  write is left to the proofs, which hold for any number of both. Rows of
  different people meet only in the loops that close them, which the proofs cover
  for any number of people.
- `edge_runtime`: two entities, queues of one task, two frames from each of two
  starts (`MCSpec`), both of them states the first two frames may have led to.
  From the first, nothing seen, an instant and a midnight pass: a critical task
  overtakes a queued one, a second task finds the queue full, a track jumps to
  somebody new, an entity is timed out. From the second somebody is tracked and
  the task is queued with an observation of two instants ago: the session is
  swept at once, or the person is missed by one frame and back in the next, which
  takes three frames; midnight has passed unnoticed. The process may crash and
  start at every step, and a restart from the second start is the first one with
  no time left.
- `center_mode`: two names (interchangeable), three generations and three rows
  let a challenge be interrupted twice; two attempts reach the failure.
  `center_failed` needs one entity and three attempts.
- `correlation`: two tracks and two names (both interchangeable) collide; two of
  three votes confirm, so that a vote may be pushed out of the window; two faces
  may be nearest to one track. The configuration of the program, three of five,
  differs in numbers only.

`CHECK_DEADLOCK FALSE` where the system may stop: a runtime that is down at the
last instant, a bridge with all its commands made, an edge runtime whose clock
and frames have reached their bounds.

### Fairness

- `EdgeSync!Fairness`: the `EdgeSyncWorker` thread loops for ever, `enqueue` runs
  to its end, and a call that is repeated for ever is answered some day (strong
  fairness of `Answered`); `sync_once` has a timeout, so it never waits for ever.
  `BacklogDrains` supposes a device that is active from some time on.
- `DrainSpec`: time passes, workers claim again and again and answer within their
  lease or die. `Rebase` keeps time finite by writing all times a day smaller
  when the clock reaches its bound, which must lie two days and a lease and a day
  ahead (`RebaseAssumption`); `RebaseLosesNothing` (section 5) shows that no step
  of an endless clock is lost by it.
- `CommandBridge!FairSpec`: `RuntimeWorker` makes a pass every half second
  whatever the last one raised, and a request is served to its end.
- `Attendance!Fairness`: the operations thread goes on with an operation it has
  begun; its loop calls `reconcile` once a second before it takes a task, so
  `Reconcile` is taken although other operations keep interrupting it (strong
  fairness). Nothing is fair about the other threads, the clock, the operators,
  or starting again after a crash.
- `EdgeRuntime!Fairness`: the operations thread is scheduled, and a main thread
  that has set the first flag of a shutdown sets the others. Nothing makes the
  camera deliver, inference finish, a join wait, or a dead process start.

## 4. Findings

1. *The checkpoint is forgotten* (`core/edge_sync.py` 279). `enqueue` writes
   metadata without the acknowledged checkpoint. After an acknowledgement and
   one more `enqueue` every batch is refused as `non_contiguous_batch`, with no
   fault at all. README of the repository: a queue that a connector "can consume".
2. *A command is lost* (`main.py` 8509): the engine's mark overwrites a command
   created after it read the file.
3. *A failed challenge clocks in* (`core/liveness.py` 199). The deadline is tested
   before the phase, so a challenge that has passed while the gate is closed
   times out as well; the last timeout declares it FAILED and leaves `passed`,
   the only thing center attendance looks at. The message of the failed
   challenge says "Restart the attendance flow to retry".

Further behaviours the models have, without a run of their own.

*Outbox.* `next_attempt_at` is written in ISO format and compared as text with
`datetime('now')`, so a retry waits for the next day (README of the repository,
820: "retryable with exponential backoff"). Event ids of activation changes name
only the new state: disable, enable, disable queues two events (817: "a
committed record cannot be silently lost"). `purge_sent` deletes up to a day
early. Two workers hold an item after a lease has ended; a recovered claim does
not count as an attempt.

*Edge synchronisation and bridge.* A crash between the append to the log and the
write of the metadata breaks the chain for good. Two processes may tear
`commands.json` through the shared temporary name. Once a process has crashed or
a write has failed, an older command may be executed after newer ones: a
temporary file that was left behind, or a copy made before, brings back a
command that the window or a torn list had dropped. A create that was answered
507 and is retried may give a key two commands.

*Attendance.* Rows left open by a crash are not closed by a runtime started on a
later day, which takes that day's date (`main.py` 6807; 2484 says "Reconcile rows
left open by a previous runtime/day"). A rollover whose close is refused by the
trigger leaves the other rows, and the presence sessions, open. A person clocked
in by centre mode across a rollover stays in the cache of the new day. The
backend's `clock_out` overwrites an earlier one and leaves `work_minutes`; a
correction without a clock-in clears it. A clock-in of a row that exists takes
`last_seen_at` back when its observation is the older one (`main.py` 2318). A
midnight between the reading of the day and that of the time writes a time of the
new day into the row of the old one (`main.py` 2189-2190, 2383 and 2388;
`attendance_service.py` 338-339 and 387-388), and the new day's row has nothing of it.

*Edge runtime.* A person who is tracked but not yet observed, as in a slow first
round whose observations expire before they are attached, gets a session with a
number of seconds for `started_at` and `last_seen_at` (`main.py` 9170-9174,
`entities.py` 682). The sweep at the end of the same task cannot read it and
closes it, so each such task leaves a closed session without a date. The closing transition of the last entity is in a result without
entities, which `submit` does not queue: its session waits for a later sweep,
although the comment at `main.py` 9141 has it closed by the transition. A regular
task that was overtaken by the one with the closing transition opens the session
of a closed entity again. A thread that outlives its join writes sessions after
the shutdown has closed them.

*Center attendance.* A person who steps away after completion turns the PASSED
row into FAILED. Switching the mode leaves a row in progress. After the last
timeout further rows are opened for the failed challenge. Results that the main
loop skips are not seen, so an interruption of one result may go unnoticed.

*Correlation.* Between the attachment of faces and the exclusivity pass another
thread's gate may find one name eligible on two tracks. A track lost and found
within a second is eligible on the evidence from before. A single blurred frame
without a valid hold contradicts a confirmed track.

## 5. What is proved

All theorems are for every value of the constants that satisfies the named
assumptions of the modules (`BatchSize` and `MaxAttempts` positive, `DayLength`
positive, null values outside their sets, bounds natural numbers).

- **EdgeSync.** `IInv` adds to the safety properties what they rest on: event ids
  in the log are distinct, every body ever sent cuts the log (begins and ends at
  its ends and leaves out acknowledged records only), and what a receipt or an
  answer confirms is stored. Without "every body cuts the log" a late body could
  skip records. From it follow `TypeCorrect`, `ReceivedIsLogPrefixHolds`,
  `AcknowledgedIsReceivedHolds`, `CheckpointNotAheadHolds`,
  `InactiveIsBlockedHolds`, and `Refinement`: `Spec` implements
  `OrderedDelivery`, an ingest being a `Deliver` or a stutter.
- **PlatformOutbox.** `IInv`: what a worker holds is locked for it since it was
  claimed, or its lease is over. `OneLiveClaimHolds` and `SettledByOwnerHolds`
  follow for any number of workers and items. `NeverEarlyHolds` needs that a
  later day is a later time (`DivMonotone`). `KeepsALeasedQueue` is the
  refinement of `LeasedQueue`: one lemma per transaction shows that it takes each
  event one step of its life or none. Three facts of `IInv` carry it: an item
  that is processed is locked by a worker, and is below the limit of attempts,
  so the answer that reaches the limit is the one that makes it dead.
- **The finite clock** (`PlatformDrainProofs`). `View` is the module
  instantiated with all times a day smaller and none below 0.
  `RebaseLosesNothing`: from `MaxTime` on, every step of the table on a clock
  without bound is the same step of its view, and the view satisfies `IInv`, so a
  day may be taken off again and again. A time that is floored belongs to a lease
  that is over and to a day that is past, on both sides; the view of a worker's
  hand has as many items as the hand because it holds an event once.
  `DrainInvariance`: the drain itself keeps `IInv`. The theorems are about
  steps: that `DrainSpec`'s fairness is that of the endless clock is not proved
  (it is about `ENABLED`).
- **CommandBridge.** `IInv`: in *every copy* of the list, on disk or in either
  process, what is completed is answered. The property about the file alone is
  not inductive, because a stale copy may come back. `OrderIInv` is the invariant
  behind `ExecutedInOrderHolds`: as long as nothing fails, each list that an order
  is taken from (the file, the engine's copy, its pass, what was executed) has
  every older unexecuted command of the lists that may replace it (`Keeps`), and
  a temporary file that can be moved holds one of the two copies in flight
  (`TmpKnown`). The lemmas `Ordering...` show this for any sets, one for each way
  in which a list changes.
- **Attendance.** `IInv`: what a thread has decided to write is a past time that
  fits the day it chose, and no row has a time of the future; a time is of a
  later day than its row only if the row is in `straddled`, which grows only
  where a writer reads the day before a midnight and the time after it. The proof
  needs that the day is monotonic in the time (`DayMonotone`): the time is read
  after the day, so it is never of an earlier one. `IntervalHolds`,
  `FirstClockInKeptHolds` and `ClosedStaysClosedHolds` follow. The proof showed
  that `IntervalOnItsDay` cannot speak of rows whose clock-in was cleared: a
  rollover that read such a row before may still write a clock-out of an earlier
  time into it. `NotStretchedHolds` needs `Witnessed`, which is about rows *and*
  about what threads have listed to close: a bound by `last_seen_at` is not
  inductive, since a clock-in may move it back behind a close that was decided
  before. A close listed before a midnight may be written into the row of the
  next day, so the presence that backs it is that of the row or of an earlier day
  (`Backed`).

- **EdgeRuntime.** `IInv` adds four facts. *Observed tasks*: what a queued task,
  or the one in work, says of an entity the store has observed, or it has no
  instant for it, so an upsert that was overtaken cannot stretch a session
  (`NeverSeenLaterHolds`). *Tracked first*: an observation is not later than the
  track it belongs to, so the instant on record only grows (`Grown`). *Empty
  ends*: the operations thread ends only in a shutdown with empty queues, and
  inference, which sees the flag after its round, has one task left
  (`AtMostOneLeftBehindHolds`, for queues of any size). *Clean is ended*: a
  shutdown is clean when its writers are gone (`CleanExitClosesAllHolds`).
  Lemmas on the table show that every operation `Follows` the table before it,
  whoever calls it; `OneOpenSessionHolds` and `SessionsMoveForwardHolds` rest on
  them. `KeepsALog` is the refinement of `PresenceLog`, an upsert being a visit
  that opens or is extended to what *was observed*, which is where the observed
  tasks come in, or a visit that opens without a date, which nothing extends. `WorksDownHolds` is the safety half of `ShutdownDrains`, with
  `Work` as its variant: while the runtime stops, no step of any thread
  increases it and each step of the operations thread makes it smaller.
  `WorkBounded` bounds it by the sizes of the queues, so a shutdown ends after
  that many steps of the thread; that it takes them is fairness, and stays with
  the model checker.
- **CenterMode.** `IInv`: there is one challenge, of the entity and name of the
  face that is shown, and the steps it has behind it, a pose that is held
  included, are no more than the poses that face has shown without a break. It
  speaks of the challenge as it is, so a challenge that failed after it had
  passed keeps its four steps. A row that is held is of the entity in the key and
  not finished, which gives `OutcomeFinalHolds` and `NothingOpenBehindHolds`;
  whoever is about to be decided has four poses behind, which gives
  `CenterEarnedHolds` although the gate is asked about the track as it is now.
- **Correlation.** `IInv`: as long as the window of an entity counts, every name
  in it has as many counted votes as hits (or the needed number), and a confirmed
  name has its votes; the lemmas on windows (`HitsAppend`, `HitsTail`,
  `OneMoreVote`) show it for any size of the window. After the exclusivity pass
  a name has one holder, and refreshes from other threads only take away
  (`Within`), so the snapshot publishes it once (`OneTrackPerNameHolds`,
  `ConfirmedByVotesHolds`).

Only model-checked: the liveness properties (`BacklogDrains`,
`EveryEventSettles`, `PendingIsServed`, `AbsentIsClosed`, `ShutdownDrains`),
which are out of the prover's reach. The inductive invariants are not invariants
of a run of their own: the runs check the safety properties, the proofs show the
rest.

## 6. What is not modelled, and why

Per-frame computer vision (floating point and external libraries), notification
and speech (I/O), dashboards (views), evaluation tools, and earlier versions of
the program (`optivox_improved.py`, `moretesting.py`, `idk.py`, `vision.py`),
which are a large part of the repository's lines and which the runtime does not
load. Single-transaction services whose only shared state is the outbox table.
`retention_service.py` deletes old rows of the tables of the control plane too;
`EdgeSync` has a receiver that keeps what it stored.

Not yet: enrollment, incidents, sign-in, audit chain, backup and retention. What
a model of them should be about: engine and backend both look for an incident to
join and create one when there is none, each in its own transaction
(`main.py` 8978); the failed sign-ins are counted from a value read before the
transaction; a process that dies between a backup file and its manifest leaves a
file that verification and retention treat differently
(`storage_service.py` 371).

Payloads, signatures, permissions and formatting are abstracted in the modules
there are. `PROJECT.json` has the reason for each component.

## 7. Plan

`Incidents`, `SignIn`, `AuditChain`, `BackupRetention`, `Enrollment`, in this
order, each with the invariant that makes it correct. Every safety property and
every refinement of the present runs is proved; liveness stays with the model
checker. To prove next: variants for the other liveness properties, as `Work` is
for the shutdown (the backlog of `EdgeSync`, the attempts left in the outbox),
and what a command's life is in `CommandBridge`, as an abstract specification.
