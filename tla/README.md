# peerless-server: TLA+ models, model checking and proofs

peerless-server accepts requests for music (from a Telegram bot and from a web
client), rips the tracks one after the other, publishes them to a Telegram
"dump" channel that serves as storage, remembers them in a database, delivers
them to the chat that asked, and streams them back over HTTP. This directory
models the concurrent core of that program in TLA+, checks it with TLC on small
instances and proves part of it with TLAPS for every instance.

## 1. Inventory

| part (crate) | state | operations | what is hard |
|---|---|---|---|
| download queue (`engine/src/queue.rs`, `orchestrator/priority.rs`) | deque of items, active item, `is_working`, position counter | submit, abort, clear, worker loop | the worker gives up while a submitter pushes; abort looks in two places under two locks; callbacks run outside the lock |
| job orchestration (`orchestrator/mod.rs`, `inflight.rs`, `events.rs`) | job table, in-flight targets, per-job cancellation and terminal state | start, wait for a duplicate, cancel, settle | lost wake-ups, cancellation that lands after the run, one terminal event |
| lanes of a job (`dispatch.rs`, `rip_lane.rs`, `cached_lane.rs`, `upload_lane.rs`, `finalize.rs`) | bounded channel, dispatcher buffer, upload lane, pending counter, workspace | rip, dispatch in order, re-rip, upload, finalize | waiting in a circle, a finalizer that misses its notification, panicking tasks |
| upload of a track (`upload_lane.rs`) | dump messages, cache rows, sequencer, delivery lock, counters | publish with retries, save, roll back, deliver in order | failure or cancellation between publication and save; drained by whoever comes first |
| album archives (`finalize.rs`, `zip_state.rs`, `job_run.rs`, `db/src/albums.rs`) | album rows, ledger of uncommitted parts, expectation read at the start | reuse, build, publish, copy, replace, retract | two jobs on one album, partial failure over several parts, stale rows |
| streaming (`stream`, `engine/src/streaming`, `server/src/streaming.rs`) | worker leases, quarantines, chunk cache, pipes | fetch with budget, fallback, prefetch, refresh | quarantine races, budgets, location refresh by one of two prefetches |
| server tasks (`server/src/task_registry.rs`, `rip_task_rpc.rs`, subscriber in `bot/src/main.rs`) | task registry, tokens, throttles | reserve, cancel, attach a job to a task, dismiss | cancellation before the job is attached, tasks that linger |
| playback rooms (`server/src/playback_sync.rs`) | devices, connections, active device, broadcast | hello, transfer, disconnect | overlapping connections of one device |
| sessions (`db/src/session.rs`, `server/src/auth.rs`) | codes, sessions, identity cache | exchange, verify, revoke | cached identities |
| dashboards (`bot/src/event_bridge.rs`, `dashboard.rs`, `dashboard_map.rs`) | bounded event channel, contexts, dashboards | bridge, open, refresh, page | dropped and overtaken events, edits outside the lock |
| uploads (`bot/src/telegram_sink.rs`, leases in `stream/src/worker_pool.rs`) | slots, leased sessions, transfers | upload, watch, retry, fall back to the bot's own session | stalls, lost answers, everybody waiting for one session |
| cache administration (`handlers/index.rs`, `delete.rs`, `backup.rs`, `db/src/tracks.rs`, `dump.rs`) | dump messages, rows, pending confirmations | scan, prune, confirm, export, import | a rip that publishes meanwhile |
| settings (`db/src/settings.rs`, `core/src/settings.rs`) | row, cached copy, endpoint handle | toggle, set, reload | three copies, no lock across the write |
| reports (`handlers/report.rs`) | registry, index by track, rate limits | report, dismiss, delete | handlers that interleave between awaits |
| playlists (`db/src/playlists.rs`) | lists and their tracks | create, import, replace, delete | transactions at read committed |
| ripper and acquisition (`engine/src/ripper.rs`, `apple/src/acquisition.rs`, `mirror_policy.rs`) | temporary files, reserved names, endpoint cache, circuit | rip with retries, choose a source, report absence | files of overlapping rips, technical failure taken for absence, a circuit all rips share |
| native engine (`apple/src/wrapper`) | playlists, keys, fragments | choose a variant, fetch keys, decrypt, rewrite boxes | keys that change inside a playlist, offsets written for another layout |
| other tables, media, music, core | rows; none | queries; conversions | byte formats |

How they interact: a bot handler or an RPC calls `start_task`; the orchestrator
claims the job's targets, runs `run_job`, which resolves tracks, reads the
cache and submits lane one to the download queue; lane one rips and sends
results over a bounded channel to the dispatcher, which starts upload and
cached-delivery tasks on the shared upload lane; the last task is the finalizer,
which waits for the uploads, builds the album archive and reports the summary;
`start_task` then settles the job and emits its terminal event to the
subscribers (the bot's event bridge and the server's task registry).

`PROJECT.json` lists every component with its status, the hazards with the line
where each bites, and for every definition the source lines it models.

## 2. Modules

| module | models | composes / refines |
|---|---|---|
| `RipService` | what the download queue promises: every accepted request is answered at most once, after at most one start, one at a time | abstract |
| `RipQueue` | the queue at lock granularity: `SubmitCheck`, `SubmitPush`, `SubmitSpawn`, the abort watcher, `clear`, the worker, the position callbacks, aging | implements `RipService` (`ImplementsService`) |
| `RipJobs` | `start_task` and `cancel_task`: create, look up, claim or wait, run, unlink, notify, settle, remove | - |
| `JobPipeline` | one job: lane one, channel, dispatcher with its buffer, cached delivery and re-rip, upload lane, finalizer | queue and uploads by their outcomes |
| `TrackUpload` | `upload_one` and `deliver_sequenced` for several uploads of several jobs | - |
| `AlbumArchive` | the album cache as `run_job` reads it, the fast path for a cached album, `finalize_zip` and `replace_albums` for several jobs on one album | lanes by their outcome |
| `StreamPool` | `fetch_chunk_with_budget`: slot, pick, lock, request, answer, retry or quarantine, last try with the primary session | - |
| `StreamPipe` | opening a stream, its range, the prefetch, the shared chunk cache, the refresh of file references | a fetch of `StreamPool` by its lock and its outcome |
| `ServerTasks` | `create_task` and `cancel_task` of the RPC, the runner and the event subscriber of `bot/src/main.rs` | jobs (`RipJobs`) by their events |
| `PlaybackRoom` | the devices of a room and the feed of task events of each connection | the registry of `ServerTasks` by its changes |
| `Sessions` | login codes, sliding sessions, the token cache, logout | - |
| `Playlists` | create, import, replace and delete as transactions | PostgreSQL by what the statements and keys need |
| `Dashboard` | the event bridge, its contexts, the dashboards and the handlers that use them | jobs by their events |
| `TelegramSink` | uploads: slots, leases, attempts, the stall watcher, the bot's own session | the lease side of the pool |
| `CacheAdmin` | `/index`, `/delete`, a report's Delete, `/export`, `/import` beside a rip | the publication of `TrackUpload` by its two steps |
| `SettingsStore` | row, cache and endpoint under commands and reloads | - |
| `Reports` | the registry of reports, its index, the rate limit and the buttons | - |
| `RipTrack` | the ripper's retries and files, the choice of a source, the mirror's endpoint cache and circuit | one request of `AppleStream` by its outcome |
| `AppleStream` | one attempt of the native engine: variant, media playlist, keys, download, decryption | one fragment of `Fragments` by its outcome |
| `Fragments` | which bytes are decrypted, and how boxes, sizes, offsets and times are rewritten | - |
| `MC*` | values for the constants; `MCServer`, `MCBot` and `MCRip` put several components into one run | extend or instantiate the modules above |
| `RipQueueProofs`, `RipJobsProofs`, `TrackUploadProofs`, `AlbumArchiveProofs`, `JobPipelineProofs`, `RipTrackProofs` | theorems | each extends the module it is named after |
| `ServerProofs` | theorems about `StreamPool`, `ServerTasks`, `Playlists` and `Sessions` | extends the four |
| `BotProofs` | theorems about `PlaybackRoom`, `SettingsStore`, `TelegramSink`, `Dashboard` and `CacheAdmin` | extends the five |

Every action is one stretch of code between two awaits or two lock regions, and
models all of it: a trailing renumbering, notification or save is inside. Names
of variables and actions follow the code. Calls to Telegram, to the database
and to the rippers succeed or fail by choice. Payloads, captions and progress
values are left out; a message, a row or an item is a model value or a small
record.

Ghost state, that the code does not have: `RipJobs.events` and `accepted` (what
subscribers and callers saw), `TrackUpload.residue` and `AlbumArchive.residue`
(messages left by an external call that failed), `tally`, `sent` and `chat`
(what was counted and delivered), `JobPipeline.dispatched` and `outcome`, and the
variables and fields whose declaration says "history" (for example
`PlaybackRoom.claim`, `puts` and `hidden`, `Reports.given`, `Sessions.grant` and
`gone`, `TelegramSink.lost`).

Definitions named "Mutant" are wrong variants of the action that follows them.
No specification uses them; they document which mistake each property catches
(`PROJECT.json`, "mutants").

## 3. Runs

| run | instance | shows |
|---|---|---|
| `RipQueue_races` | 3 items of 3 classes, one cancellable, one tick of 3000 s | downloads are serial; no item is stranded when the worker gives up; a submission is in one place; cancelling one job cancels no other; aging bounds overtaking; the queue implements `RipService` |
| `RipQueue_progress` | 3 equal items, one cancellable, fair scheduling | every item is answered if tasks return; a cancelled one even if none does |
| `RipQueue_positions` | 3 equal items | **violated**: a stale position can be the last one delivered |
| `RipJobs_safety` | 3 jobs, 2 overlapping targets | in-flight entries are live; an accepted cancellation wins; one terminal event that matches the run; an accepted cancellation settles the job |
| `RipJobs_wakeup` | 2 jobs, fair scheduling | **violated**: a duplicate can miss the only notification |
| `TrackUpload_playlist` | 3 uploads of 2 jobs sharing a cached track, 2 at a time, 1 retry; the first job's two uploads are two tracks, or two renditions in one place (`shape`) | delivery in track order; of two renditions in one place at most one is copied, and once (`OnePlaceServedOnce`); each track counted once; no orphan message, no row without its message, a row for what is counted as ripped, and one drainer (`DumpAndRowsAgree`) |
| `TrackUpload_blocked` | 1 upload behind a cached track | **violated**: the sequencer waits for an index nobody deposits |
| `JobPipeline_lanes` | 3 items, 2 of them cached, 2 concurrent uploads | the summary is complete but for an item whose panic is not yet recorded; the workspace outlives the uploads; items are dispatched in order and the buffer suffices (`LanesSound`); the job reports unless its finalizer missed the notification |
| `AlbumArchive_replace` | 2 jobs (one delivering primary and atmos, one forced, cache-only), archives of 2 and 1 parts, an empty, whole or mixed cache | committed rows are one whole archive; the cache never names a retracted part, no part leaks, a complete archive is cached (`PartsAccounted`); a successful job delivered one whole archive |
| `Server_parts` | see below | `SessionLifeHolds`, `FetchKeepsItsBounds`, `StreamIsWhole`, `TasksAreAccounted`, `PlaylistsKept` |
| `Bot_parts` | see below | `RoomAgrees`, `DashboardsFollowJobs`, `SinkIsExact`, `CacheAdminIsExact`, `SettingsKept`, `ReportsKept` |
| `Rip_parts` | see below | `RipIsClean`, `StreamAsAsked`, `FragmentIntact`, and under fairness `EveryRipEnds`, `EveryOperationEnds` |

The last three runs hold several components. A behaviour is one of a single
component: the variable `part`, chosen in the first state, says which, and the
others stay in an initial state (the components that `MCServer`, `MCBot` and
`MCRip` extend, because theorems state their properties too) or have variables
that are 0 (those that are instantiated: `StreamPipe`, `Reports`, and in `MCRip`
all but `RipTrack`); so a run is the disjoint union of the state spaces of its
parts. Setting `Parts` to one name in the cfg explores that part alone. Each
property is the conjunction of the type invariant and of the named
parts defined just above it in the component's module:

| part | instance | property, and what it says |
|---|---|---|
| `sessions` | 2 sessions, 2 texts of codes and 2 requests (texts and sessions are symmetric; so are the fetches, streams and commands of the parts below), a cache that keeps a token for 2 ticks; time to outlive a session of 3 | `SessionLifeHolds`: a session that is over is accepted for at most the cache's time to live; one in use does not run out |
| `pool` | 2 fetches, a pool of 1 worker and one of 2 workers and the primary session, 2 attempts, deadline of 2 ticks, flood waits | `FetchKeepsItsBounds`: a fetch ends by its deadline, within its attempts, with at most one request to the primary unless it is pinned to it, and returns slot, lock and load counter on every path |
| `pipe` | 2 streams over 3 chunks, the last one short, one expiry, one eviction, a client that stops reading | `StreamIsWhole`: the body is the asked range without gap or repetition; one expired file reference is survived; who waits for a chunk waits for a live owner |
| `faulty` | 2 streams over 2 chunks, three expiries, failing fetches | the same |
| `tasks` | a request and 2 Telegram commands, all of one user for one album | `TasksAreAccounted`: no task stays registered without a runner, a live job or a removal timer, save the one that uploads a job left behind register after its end |
| `lists` | a create, 2 imports of one source, a replacement, room for 1 list | `PlaylistsKept`: the limit and the unique source hold; a playlist holds the tracks of one request |
| `room` | 2 connections, 2 device ids, no task | `RoomAgrees`: a device is listed exactly while its last connection is open |
| `feed` | 1 connection, 1 task registered up to 3 times, a feed of 2 events | `RoomAgrees`: a client that has read its feed shows the registered tasks, however many events it lost, save one that was registered again and whose earlier removal was broadcast last |
| `jobs` | 2 jobs in a chat, a channel of 1, a Telegram that may refuse, late progress, and of jobs, progress events and requests of the user three together | `DashboardsFollowJobs`: no context outlives its job, save that of a job whose uploads report progress after its end; a chat has one dashboard |
| `sink` | 2 operations, 1 worker and the bot's own session, 2 attempts | `SinkIsExact`: one transfer per session; unexplained messages in the dump are lost answers, or the one being sent when the job was cancelled; only a transfer without acknowledgement is dropped as stalled |
| `admin` | 2 codecs of a track and a part of an archive, 2 messages at first and up to 4, batches of 2, a confirmation | `CacheAdminIsExact`: an undisturbed `/index` leaves the tables as the channel is; a confirmation deletes only what was shown |
| `settings` | 2 commands at a time, 3 in all, a switch and 2 URLs, imported rows that do not decode | `SettingsKept`: nothing is served that no stored row decodes to; commands that do not overlap leave row, cache and endpoint equal |
| `reports` | a user and the owner, 2 requests, 2 tracks, a clock of 1 ms, limit 1 in a window of 1 | `ReportsKept`: a track turned away as under review has an open report of its own, unless its id was given twice; nobody exceeds the limit in any window |
| `pair` | an Atmos and a stereo rip that want one file name, with the native wrapper or none, without a mirror override, and of retries and further rounds one together (`MaxTogether`) | `RipIsClean`: a rip leaves its one whole file or nothing; "rendition unavailable" is never a hidden technical failure; Atmos is Atmos |
| `atmos`, `stereo` | one rip alone, 1 retry, 2 rounds, every kind of wrapper, with and without a mirror override | the same, and `EveryRipEnds`: the rip ends, or stays in the body of an error answer |
| `variants`, `lines` | 2 variants with 3 tries for a key; media playlists of 4 lines | `StreamAsAsked`: the best variant the request admits, whole and in order, every segment with the key that precedes it |
| `fragment` | fragments of FairPlay and Widevine streams with up to 2 runs, init segments, two gaps | `FragmentIntact`: boxes have the sizes they state (not `stsd` behind a group that was cut), lead to the same samples, all decrypted, on the same timeline |
| `sink` (Rip) | 2 operations, fairness | `EveryOperationEnds` |

Bounds. The hazards are races of two or three actors, so three items, jobs or
uploads are enough for each pair to meet in the presence of a third; two targets
allow overlap without equality; one clock tick of 3000 s is worth more than two
classes of priority, so both overtaking and its end occur; one retry exercises
first, retried and last attempt; a lane capacity below the number of items makes
the channel fill. `TickSecs`, `MaxTicks`, `MaxRetries`, `Capacity`, `LaneCap`,
`Concurrency` and `Parts` are the bounds, all constants. In the components of the last three runs
two actors meet in every pair of steps; a capacity or limit of one is reached at
once; `MaxRef`, `MaxEvict`, `MaxNow`, `MaxPuts`, `MaxCommands`, `MaxReports`, `MaxMessages`,
`MaxProgress`, `MaxRequests`, `MaxInputs`, `MaxId`, `MaxAcks`, `MaxLines` and
`MaxVariants` bound what the environment may do.

`CHECK_DEADLOCK FALSE` is set everywhere because every model ends: all jobs
returned, nothing left to do.

Fairness. Weak fairness of each spawned task: the runtime polls every task that
can run. `RipQueue_progress` also assumes for `EveryItemAnswered` that a started
task returns (the rip has timeouts), not for `CancelledItemAnswered`.
`JobPipeline` assumes that rips, uploads and deliveries return. Users, in
particular cancellation, are never assumed to act. `Rip_parts` assumes that a
rip keeps stepping, because each of its requests has a timeout and each delay
ends, except while it reads the body of an error answer (`reading`), which has
neither timeout nor token (`collect_body`, stream_transport.rs:209); and the same
of an upload: Telegram answers or the stall watcher drops the
transfer, and a freed permit goes to the next in the queue (tokio's semaphore is
fair).

## 4. Findings

* `RipQueue_positions`: `submit` calls the position callback after unlocking
  (queue.rs:193), so it may come after the worker renumbered or started the item;
  the comment at queue.rs:299 says positions stay correct.
* `RipJobs_wakeup`: the duplicate registers with `notified()` (mod.rs:374) after
  the lookup's lock is released; `notify_waiters` (inflight.rs:56) keeps no
  permit. The duplicate waits until it is cancelled, which
  `AcceptedCancelSettles` shows always works.
* `TrackUpload_blocked`: the sequencer starts at index 1 and only `upload_one`
  advances it; a track that is delivered from the cache or fails to rip leaves a
  gap, and the tracks after it are published but never delivered in sequence. The
  second rendition of a track fares the same: it has the index of the first
  (job_run.rs:503-519, upload_lane.rs:406), and replaces it or comes too late.

The following are stated as properties in the modules and are violated when they
are added to the run named (one run for each would repeat its state space):

* `JobPipeline.EveryJobReports` (`JobPipeline_lanes`): `finalize_job` reads the
  counter, then registers (finalize.rs:183-189); the last upload can notify in
  between. `JobReports` exempts exactly that state, `MissedWakeUp`.
* `JobPipeline.PanicFailsJob` (`JobPipeline_lanes`): a panicking upload drops its
  guard while it unwinds and its failure is recorded afterwards
  (upload_lane.rs:14, 155-163, 217-229), so a concurrent finalizer can report
  success; the test at crates/engine/tests/orchestrator.rs:1907 says "a track
  upload panic must fail rather than complete".
* `StreamPipe.PauseHarmsNobodyElse` (part `pipe`): a pipe that waits for its
  client (pipe.rs:201) does not poll its prefetches, which may hold the worker's
  lock or own a shared fill; other streams run into their deadline.
* `ServerTasks.CancelReachesJob` (`tasks`): a cancellation between the runner's
  check and the Created event removes the task, and the job runs on under a new
  one (rip_task_rpc.rs:313, main.rs). README.md:181 describes cancelling as
  sending the task id.
* `ServerTasks.NoForeignCancel` (`tasks`): a Cancelled event whose task is gone
  adopts the owner's new task for the same track (main.rs:499-511) and cancels it.
* `ServerTasks.TasksAreInFlight` (`tasks`): `emit_progress` (events.rs:87) does not
  look at the terminal state; the uploads of a cancelled job, or of one whose lane
  one panicked (job_run.rs:1078-1085), report after its end, and the subscriber
  registers a task for them that nothing removes (main.rs:519-561, 585).
* `PlaybackRoom.TaskFeedExact` (`feed`): `cancel_task` sends Dismissed after it let
  go of the registry (rip_task_rpc.rs:291-312); when the task is registered again
  in between, the clients hide a registered task.
* `Dashboard.NoStaleContext` (`jobs`): late progress makes the bridge remember a
  finished job again (event_bridge.rs:244-247), for good.
* `Reports.UnderReview` (`reports`): a track is turned away as "currently under
  review by the administrator" (report.rs:364) although its card could not be sent
  (report.rs:281-284) or its id was given to another report (report.rs:90-91).
* `Fragments.StsdSizeAgrees` (`fragment`): the size of `stsd` is written at the
  offset it had before boxes in front of it were drained (decryptor.rs:232,
  291-317).
* `MCRip.NoRipHangs` (`atmos`, `stereo`): a source that answers with an error
  status and never ends the body holds the rip for good, also a cancelled one
  (stream_transport.rs:155-157), and with it the serial queue.
* `Dashboard.NoDeadJobShown` (`jobs`): an edit that fails or is
  overtaken leaves a finished job on display (dashboard.rs:456-463), which
  README.md:354 calls live.
* `CacheAdmin.OnlyGhostsPruned` (`admin`): `/index` prunes rows that a rip saved
  behind its scan (index.rs:284).
* `RipTrack.CancelIsNoMirrorFailure` (`pair`): a cancelled request opens the
  circuit for all (mirror_policy.rs:182-189), although the test at
  crates/apple/tests/acquisition.rs:600 says "cancellation is not a mirror
  failure".

Where the text disagrees with the code without a property: README.md:57
(quarantine "on FloodWait or network drops"; worker_pool.rs:808 only retries a
network error), README.md:180 (a cache hit answers "a null `task`";
playback_sync.rs:516 sends a completed snapshot), README.md:196 (a single upload
lane; rip_tasks.rs:115 has a list), and the message at backup.rs:370, which also
appears when only the reload after a committed restore failed.

## 5. Proofs

TLAPS proves the following for every value of the constants that satisfies the
named assumptions. Those say what types the constants have and that the "none"
values are none of the others (`PoolAssumption`, `TasksAssumption`,
`ListsAssumption`, `SettingsAssumption`, `SinkAssumption`, `DashAssumption`,
`AdminAssumption` and `RipAssumption` among them: pools are finite, ids of bot
tasks differ from job ids, keys differ from parts, batches are not empty, an
acquisition has a round, as `total_attempts.max(1)` in acquisition.rs:162 sees
to), with three that say more:

* `PlaceAssumption` (`TrackUpload`): a job takes every track once in each rendition
  and numbers all its tracks or none. `run_job` drops repeated tracks, numbers what
  is left, and gives the renditions of a track its number (job_run.rs:265-269,
  497-521); they differ in codec and count as different tracks of the cache. Only
  `InTrackOrderAlways` uses it.
* `PipelineAssumption` (`JobPipeline`): the channel of slots has room for every
  item and the end marker, which is how `ordered_slot_capacity` is computed.
* `RoomAssumption` (`PlaybackRoom`): the broadcast channel holds an event (256 in
  lib.rs:89).

TLC evaluates them on the instances of the runs, and each inductive invariant
below was checked with TLC on those instances before it was proved.

* `RipQueueProofs` - `QueueInvariant`: `QueueInv` is inductive. Beside the types
  it holds the worker part (`processing` is true exactly while some worker is
  claimed, only one is, and it was spawned once: `SerialDownloads`,
  `NoStrandedItem`, `SpawnedOnce`), the places part (an item is queued at most
  once and is queued, held or answered: `Places`) and the token part
  (`CancelInv`). `SerialDownloads` alone is not inductive: a second worker is
  excluded only because the flag is set whenever one exists. From the invariant
  follow `QueueTypeCorrect`, `QueueSerialDownloads`, `QueueNoStrandedItem`,
  `QueueOnePlace` and `QueueCancelIsolated`; the action property
  `QueueOvertakingIsBounded` from the choice in `IsNext`; and
  `QueueImplementsService`, the refinement: `Init` maps to `Init` and every step
  to a step of `RipService` or a stutter.
* `RipJobsProofs` - `JobsInvariant`: `JobsInv` adds to the four checked
  invariants that a cancelled token belongs to an accepted cancellation, that a
  job read as cancelled was (`CancelRecorded`), and that a job past its run has a
  result (`RunRecorded`): without them the settlement steps are not inductive.
  From it follow `JobsTypeCorrect`, `JobsEntriesAreLive`,
  `JobsAcceptedCancelWins`, `JobsOneTerminalEvent` and `JobsOutcomeMatchesRun`.
* `TrackUploadProofs` - `UploadsInvariant`: `UploadInv`. What an upload may have
  left behind depends on where `upload_one` is: `StoreInv` says it for the dump
  channel and the rows, `TallyInv` for the counters, `RowInv` for the row of an
  upload past its save, `SequencerInv` for the arguments and the index of
  `deliver_sequenced`. `NoOrphanMessage` alone is not inductive, because whether
  a failing step may forget a message depends on which row names it. From it
  follow `DumpAndRowsAgreeAlways` and `CountedOnceAlways`.
  `InTrackOrderAlways` needs `OrderInv` on top: a waiting message belongs to an
  upload of that place, and what was sent lies before `next`, so that a second
  rendition of a place is not copied after the first.
* `AlbumArchiveProofs` - `ArchiveInvariant`: `ArchiveInv` ties a job's ledger and
  records to its position in `finalize_zip_inner` (`PlaceInv`, `RecordInv`,
  `LedgerInv`, `CacheInv`), and says that the cache names, and a replacement
  displaces, only messages of renditions their job has closed (`RowsClosed`,
  `DisplacedClosed`). The last is what makes a retraction safe: a job retracts
  messages of the rendition it still packs. From it follow
  `PartsAccountedAlways` and `ArchiveIsWholeAlways`.
* `JobPipelineProofs` - `PipelineInvariant`: `PipeInv` says that slots, buffer and
  dispatcher hold items in increasing order (`AheadInv`), hence what enters the
  lane does (`DispatchInv`); that lane tasks are distinct and the end marker is
  the last (`LaneInv`); that `pending_uploads` is the number of uploads between
  the dispatcher and their end (`CountInv`), by a cardinality argument; and that,
  while nothing went wrong, an item without an outcome is in one of the places of
  the pipeline (`AccountInv`). A panic counts down before it is recorded; that a
  serial lane starts no task, hence no finalizer, in between is `SerialInv`. From it follow `LanesSoundAlways`,
  `SummaryIsCompleteAlways` and `WorkspaceOutlivesUploadsAlways`.
* `ServerProofs`, the pool - `PoolInvariant`: `PoolInv` says of each fetch alone
  that while it runs its deadline is ahead and its attempts are below the limit,
  that its timer ends by the deadline, and that it asked the primary session at
  most once unless it is pinned to it, which the flag `tried` remembers (`Own`);
  and of all together that free slots, locks and load counters are the
  cardinalities of the sets of fetches that hold them (`ResourcesReturned`). The
  bound on requests to the primary is not inductive without that flag. From it
  follows `FetchKeepsItsBoundsAlways`, for any number of fetches and any pool.
* `ServerProofs`, the tasks - `TasksInvariant`: a task that names no job waits for
  its runner, at most one task names a job, a call that is not reserved is known
  to nobody, a token is the task's own or unwatched, and whoever could cancel a
  registered call has given it a job; a task under the id of a job that left its
  uploads behind may be one that late progress registered (`LateTask`). From it follows `TasksAreAccountedAlways`.
* `ServerProofs`, the playlists - `ListsInvariant`: the count that the holder of
  the user's lock read still stands, the rows of a playlist come from one
  request, what a replacement deletes is all there was, and two requests never
  touch one playlist between a delete and an insert. From it follows
  `PlaylistsKeptAlways`, although a replacement takes no lock of its own: the
  unique key of list and position makes the second insert wait.
* `ServerProofs`, the sessions - `SessionInvariant`: `SessionInv`. The bound on a revoked
  session rests on `CacheInv` (an entry ends at most `CacheTtl` after its session)
  and on `RequestInv` (a session a request has verified was valid in the same
  instant, since time does not pass inside a request); that a session in use
  lasts, on the entry's end and the row's expiry having been set together. From
  it follows `SessionLifeHoldsAlways`.
* `BotProofs`, the room - `RoomInvariant`: `RoomInv`. That no device is a ghost
  needs `ClaimInv` (the owner of a listed device is its last claimant), so that
  the guard of `remove_device_connection` neither removes too much nor too
  little. That a feed converges needs `FeedInv` (what a view lacks or has too
  much is announced by an event not yet read, unless the receiver knows that it
  lagged), `PutInv` (a registered task was put at least once) and `LateInv` (a removal of an earlier registration does not have the last
  word, unless the task is `hidden`). From it follows `RoomAgreesAlways`.
* `BotProofs`, the settings - `SettingsInvariant`: `SavedInv` says that what is
  served, or about to be, is what a stored row decodes to (`from_row`); `SteadyInv` that while commands do not
  overlap the place of the one that runs says which of row, cache and endpoint
  are up to date. `set_setting` and `reload` bring the copies up to date in
  different orders, so neither agreement is inductive without the place. From it
  follows `SettingsKeptAlways`, for any number of commands.
* `BotProofs`, the uploads - `SinkInvariant`: the tasks of each queue wait at its
  stage, each once; what an operation left in the dump is bounded by where it is,
  its attempts, its lost answers and the send it may have been dropped from
  (`SentRule`); and of the stall timeout, what
  the watcher has left and how long nothing was acknowledged make up the whole,
  unless an acknowledgement is still to be seen (`TransferRule`), which is why
  the last look before giving up is needed. From it follows `SinkIsExactAlways`.
* `BotProofs`, the dashboards - `DashInvariant`: a terminal event is the last of
  its job in the channel, in the list of the bridge and across the two
  (`OrderInv`); a job the bridge speaks of is not over, or its terminal event is
  waiting for room, in the channel or in the list (`EndInv`), both but for jobs
  that reported progress after their end; and a message is in
  an entry, with an actor that deletes it, or was left behind, and in one of them
  only (`MessageInv`). From it follows `DashboardsFollowJobsAlways`, for any size
  of the channel.
* `BotProofs`, the cache - `AdminInvariant`: while nobody else wrote, `/index` has
  met the track of every message above the end of its batch, save those it has
  still to read, and the rows of the keys it met are of messages that hold them
  (`CalmInv`); a part's row names a message that holds the part or is gone, also
  in the exported archive (`TableInv`); what a batch says was true when it was
  fetched (`BatchInv`); a token stands for the message it was issued for
  (`TokenInv`). From it follows `CacheAdminIsExactAlways`, for any batch size and
  any contents of the channel.
* `RipTrackProofs` - `RipInvariant`: `RipInv`. What a finished rip leaves depends
  on who owned what before: `OwnerInv` says that a file on disk is the one its
  owner reserved and has yet to remove or to hand over, and that such a file is
  there; `NameInv` that a collision id names no file before it is given out;
  `PlaceInv` where a rip has a name, a directory, a raw download or a result;
  `SourceInv` that a technical failure of the round is remembered by the flag the
  candidates carry. `CleanDisk` alone is not inductive: the removal at the end of
  `rip_once` is safe only because the name is the rip's own. From it follows
  `RipIsCleanAlways`, for any number of rips, names, retries and rounds.

Model-checked only:

* liveness (`EveryItemAnswered`, `CancelledItemAnswered`,
  `AcceptedCancelSettles`, `JobReports`, `EveryRipEnds`, `EveryOperationEnds`),
  which is out of the prover's reach;
* `DeliveredWhole` of `AlbumArchive`: it speaks of `SelectSeq` over what was sent,
  and what a recursive definition returns for every sequence takes an induction
  the provers cannot do;
* `StreamIsWhole` of `StreamPipe`: its queues are filtered with `SelectSeq`, for
  the same reason, and the ranges are products of chunk numbers and sizes, which
  the arithmetic of the SMT backend does not decide;
* `ReportsKept` of `Reports`: ids are an exclusive or of clock and counter, and the
  module that defines it cannot be used in a proof;
* `StreamAsAsked` and `FragmentIntact` of `MCRip`: they speak of functions over all
  playlists and fragments of a bounded size, whose general form takes an
  induction over data.

## 6. Exemptions worth knowing

* `CountedOnce` exempts a track whose caption was replaced in the last attempt:
  the loop ends without an outcome (upload_lane.rs:670).
* `OneExpirySurvived` (in `StreamIsWhole`) is stated per fill and exempts one that
  was led back to an older reference: a slow `load_track_media` stores what it
  read over what a refresh has read since (engine.rs:181), and the next refresh
  hands that out as news. Streams that share a fill also share its failure.
* `SettingsAgree` (in `SettingsKept`) is stated for commands that do not overlap:
  `toggle` is a read-modify-write without a lock, so of two at once one is lost.
* `IndexPointsToReport` (in `ReportsKept`) exempts a track whose id was given to two
  reports: an exclusive or of milliseconds and a counter repeats (report.rs:90-91).
* `SummaryIsComplete` exempts, when `Concurrency` > 1, an item whose upload panicked
  and whose failure is not yet recorded.
* `NoOrphanTask` exempts `LateTask`, `ContextsAreOfActiveJobs` the jobs in `Tardy`,
  and `TaskFeedConverges` the tasks in `hidden`: what progress after the end of a
  job leaves. It comes from uploads the job did not wait for (`Deserted`,
  `MayReport`): those of a cancelled job and of one whose lane one panicked. Every
  other job waits for its uploads before its terminal event.
* `StrayMessagesAreLostAnswers` allows one message of a send that was dropped.
* `SizesAgree` (in `FragmentIntact`) exempts the size of `stsd` in an init segment
  with a `seam` or `seig` group before it (`GroupFirst`).
* `EveryRipEnds` exempts a rip that reads the body of an error answer for good.
* `SettingsStore.from_row` models what rows decode to; the older keys it still
  accepts are left out.
* `Fragments.OddRuns` and `AppleStream.OddPlaylists` admit inputs Apple is not
  known to send (a run without a data-offset field, encryption turned off again,
  Widevine streams in several files); the code does not handle all of them, and
  the runs leave them out.
* `NoOrphanMessage` and `RippedIsCached` are stated for a track only one upload
  publishes; two jobs are deduplicated by target, not by track.
* `WorkspaceOutlivesUploads` and `SummaryIsComplete` exempt cancelled jobs: the
  finalizer leaves at once and removes the workspace under running uploads.
* `DeliveredWhole` allows a job whose fast path failed to have shown some parts
  before: it goes to the queue with the same rows marked reusable, and success
  means that the whole archive followed.
* A database error is taken to mean that the transaction did not happen.
* `AlbumCacheError::Conflict` (finalize.rs:886-939) is not modelled: the
  repository never returns it, a replacement that lost the race is `Stale`.

## 7. Not modelled, and the plan

Left out for good: media containers and tags, ciphers and the license exchange,
captions, file names and page layout (byte and text formats without a second
actor); the catalogue, link parsing and request handlers that only query and
answer; metrics; splitting an archive by size (one pass over a list). Renaming a
playlist changes one column, and `remove_playlist_track` has no caller. Target
expansion in `job_run.rs` and its fast path for single cached tracks are
sequential reads.

The invariants that no theorem states are the ones at the end of section 5, out of
the provers' reach for the reasons given there.
