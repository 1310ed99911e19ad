# HQPTuner: specification, model checking and proofs

HQPTuner (`src/hqptuner`, 18,000 lines of Python and a browser front end) configures
Signalyst's HQPlayer Embedded daemon.  It talks to the daemon over two ports: 4321, a
control connection that carries XML commands one at a time, and 8088, a web interface
whose forms and backup/restore archives hold the persistent configuration.  The two
ports come and go separately, the daemon restarts itself on every adopted restore, and
HQPTuner's tasks run on one asyncio event loop with a single lock (the control client's):
between any two awaits any other coroutine may run.  Routes that await nothing are plain
functions, which the web framework runs in threads beside the loop and beside each other.

That is what this directory is about: what holds across those awaits, restarts, lost
answers and overlapping requests, stated as TLA+ modules, checked with TLC on small
instances, and for the safety properties that matter most proved with TLAPS for every
value of the constants.

Contents: 1 inventory, 2 the modules, 3 the runs, 4 what is proved, 5 known limits,
6 abstractions, not modelled, 7 the plan, 8 running it.

## 1. Inventory

### Components

| Component | Source (under `src/hqptuner`) | State it keeps | Operations | Modelled by |
|---|---|---|---|---|
| Supervisor loop | `core/manager.py`, `core/loader.py` | `_client`, `reachable`, `connected`, `changed`, `_wake`, `connects`, `drops`, `drops_at_connect`, `readings` | `run`, connect and poll bodies, `_drop`, `restarting`, `retarget`, `stop` | `Supervisor`, `ControlLink` (partly) |
| Restart wait | `lanes/settle.py` | a lane's `Mark` | `mark_connect`, `restore`, `await_ready`, `resync_engine_state`, `await_http_ready` | `Supervisor` (partly) |
| Control channel, live writer | `engine/control.py`, `lanes/writer.py` | streams, lock, deadline | `connect`, `request`, `close`; setter then readback | `ControlChannel` (partly) |
| Staged apply, restore lane, hardware card | `api/routes/{pending,apply}.py`, `core/applyops.py`, `lanes/http/{restore,engineattrs}.py`, `lanes/presetfields.py`, `presets/store/filterpark.py` | pending buffer, parked uploads, pre-apply backup; per request: pass, archive, verdict | stage, park, discard, apply, verify, retry | `StagedApply` (partly) |
| Connection settings | `core/connection.py`, `api/routes/connection.py`, `static/store/setup.js` | host, credentials, record on disk; the panel's verdict and what it waits for | submit, save, retarget, refresh, judge | `Connection` (partly), `Supervisor` |
| Web forms, device capability | `lanes/http/forms.py`, `core/engineread.py` | three forms and their errors, `credentials_ok`, capability cache | refresh, capability read | `Connection` (partly), `Supervisor` |
| Live lane, routing, chain memory | `lanes/live/*`, `core/loader.py` | enumerations, State, remembered settings per chain | `apply_now`, `apply_preset`, hold, re-assert, heartbeat | `LiveLane` (partly) |
| Device rescan | `lanes/rescan.py` | snapshot, outcome | rescan, wait, replay | `LiveLane` |
| Preset store and lane | `presets/presetlane.py`, `presets/presetops.py`, `presets/store/presets.py` | preset files, active pointer, auto-save flag | save, load, delete, auto-save, mirror, migrate | `PresetLane` (partly) |
| Side stores | `presets/store/*` | JSON files | read, replace | auto-pilot's flag in `PresetLane`, live presets in `LiveLane` |
| Metering reader, meter feed | `engine/metering.py`, `engine/meterfeed.py` | aggregate, stride, subscriber queues | gate, connect, read with its tick, pause; subscribe, fold, send | `Metering`, `MeterFeed` (partly) |
| Junk filter detector | `engine/junkrun.py`, `junkadvisor.py`, `blockstats.py`, ... | run, window, held tone | observe, decide, classify | the run, the hold and what counts as treated, in `Metering` |
| Auto-pilot, calibration | `core/autopilotops.py`, `core/junkcal.py` | flag on disk, capture file | tick | auto-pilot in `LiveLane` and `Metering` |
| Matrix, configuration files | `lanes/matrixlane.py`, `conf/*` | none | parse and edit documents | not modelled: pure functions |
| API shell, lifespan | `api/*` | the tasks it spawned | start, shutdown, routes | not modelled, see 7 |
| Audit, voltrace, logs; discovery, desktop; metadata | `audit*.py`, `voltrace.py`, `engine/discovery.py`, `desktop.py`, `metadata*.py` | append-only or static | | not modelled: nothing decides on them |
| Browser front end | `static/` | staged edits, mirrors, preview, questions | edit, pick, discard, apply, poll | the editing page in `Editor`, the METER page in `MeterFeed` |

### How they interact

* **One event loop, no serialisation.**  The supervisor loop, the metering reader, auto-pilot,
  the calibration capture and the HTTP routes that talk to the daemon are coroutines on one
  loop.  The only lock is `ControlClient._lock`, one command wide.  Nothing serialises two
  applies, or an apply with a live write.
* **Threads.**  `stage`, `pending`, `discard` and `set_autosave` (`api/routes/pending.py`), `set_autopilot`
  (`api/routes/autopilot.py`) and the routes that only read, `GET /api/config`, `/health` and `/state` among
  them, are plain functions in the framework's threadpool.  Two of them overlap statement by statement, with
  each other and with the loop, and nothing keeps the order in which a browser sent them.
* **Shared objects.**  `ConnectionManager` is read and written by all of them: `readings` is
  assigned by the poll, the routes, the resync and the rescan; the client is replaced by
  the loop and taken down by `restarting` and `retarget`.
* **Events.**  Lanes sleep on `changed`; the loop idles on `_wake`.  Both are level flags
  cleared by whoever wakes.
* **The daemon.**  A restore is adopted before, after or without an answer to its POST; the
  daemon then goes away and its two ports come back in either order.  It may ignore a
  field, or hold an endpoint that is no longer there.  A live setting is in the engine
  and never in the file the daemon restarts on.

### What is hard, and what makes each part correct

* *Supervisor and restart wait*: a wait must not be answered by the connection its restart
  is about to kill, must not sleep through the one it waits for, and neither a half-made
  connect nor a teardown that still awaits its close may be taken for a connection.
* *Control channel*: answers carry no request number.  An answer must reach the command it
  answers across timeouts, failed transports, closes from outside the lock and
  cancellation; a verified setting must really have been held; nobody queues for good.
* *Staged apply*: nothing staged or uploaded may be let go of before the daemon has it,
  nothing else may change, what is playing must survive the restart, the settings from
  before must be recoverable, and an apply must come to an answer.
* *Live lane*: a setter takes a list index, and the list changes with the loaded chain: a value
  reported as set must be the one named; a filter is half of a pair, and the other half
  stays; a dormant chain's settings come back when it is entered; what was set by hand is
  not undone by a decision taken before; a rescan that loses a setting says so.
* *Presets*: an auto-save writes into the preset that is loaded and never into another; the
  pointer is at a preset that exists; what is stored is what is heard, restart or not; a
  preset that is gone stays gone.
* *Metering*: the evidence is one unbroken stream and all of it; the socket is let go when the
  engine stops and taken up again when it plays; a page that keeps up never draws a frame
  on the bars of another layout.
* *Connection*: a refresh writes through the client it began with, whoever is in force when it ends; the
  panel must say what is true of the daemon it was pointed at, and come to say something.
* *Editor*: the calls of a page run in threads in any order, and echoes and polls replace the page's
  mirror whenever they arrive; no change the user made may be lost to them, none that is undone may
  stay staged, and no volume pin goes out that nobody said yes to.

`PROJECT.json` lists the hazards at the lines where they bite, with the properties that cover
each, or a note saying why none does.

## 2. The modules

A step of a coroutine is the code between two awaits: what the event loop runs without
giving another coroutine a turn is one action, and an await is a value of a location
variable (`pc`, `at`, `phase`).  A step of a route that runs in a thread is what it does to one
shared object (`Editor`'s `Merge` and `Drop`, `PresetLane`'s `SwitchPilot` and `StampPilot`); section 6 says
where such a route is one step instead.  History variables are marked as such where they are declared;
no action's guard reads one, with one exception stated in section 6.

### `Supervisor`: the loop, the restart wait and a change of address

| Model | Code |
|---|---|
| `pc`, `conn`, `target` | where `run` awaits: the dial, the handshake (`shake`), the web forms and the archive of a connect (`forms`, `files`), a poll's control half and web half (`poll`, `pollForms`, `pollCaps`), the close inside its own `_drop` (`closing`), `_idle` after a poll or a failure (`idle`, `retry`) |
| `client`, `reachable`, `connected`, `connects`, `drops`, `dropsAtConnect`, `wake` | the manager's fields of those names |
| `configOk`, `httpOk` | `readings.config_error is None`, `readings.http_ok` |
| `phase[l]`, `mark[l]` | a write lane from `mark_connect` to the verdict of `await_ready`; `closing` is the close inside `restarting` |
| `route`, `host` | `POST /api/connection` inside the close of `retarget` or inside its own refresh, and the configured address |
| `ctl`, `web`, `epoch`, `adopted` | per daemon: port 4321 open, port 8088, restarts so far, a restore adopted whose restart is due |
| `served`, `muddied` | history: which daemon instance took a lane's restore, and which lanes had a counted drop ahead of that restart |

`CountedDrop` and `OwnDrop` are `_drop` with `counts` true and false up to its `await self._client.close()`:
the flags are cleared and the waits woken with the client still attached.  `LoopClosed`, `LaneClosed` and
`RouteClosed` are what each of its three callers does when that await is over, the first of which is
to forget whatever client is attached by then; `Closing` says that somebody is inside it.  A client
that is not there, or that a failed request has closed already, is let go of without an await (`ConnectFails`,
`PollFails(FALSE)`).  Tasks that await one close are resumed in one pass of the event loop, so no dial begun
by the first of them is answered before the last is through (`DialAnswered`).  `ConnectFails` and `PollBroken`
are the two `except _WIRE_FAULTS` of `run`; `ArchiveUnreadable` is its `except Exception`, which
leaves the connection as it is.  `Restarting` takes down only a whole connection.

### `ControlLink`: what the loop promises its readers

The abstract life of a control connection: attached as half a link to the instance that runs,
completed to a whole one, given up (`torn`, while it closes), lost, and attached anew only after it was
lost.  A torn link is never half or whole again.  The promise has one flaw in it, because the code has:
a connect that ends on a link given up under it reads as ready (`overtaken`) until the poll finds out.
`Supervisor!Link` is the refinement mapping and `KeepsPromise` the claim.

### `ControlChannel`: one socket, one lock, many tasks

| Model | Code |
|---|---|
| `streams[c]`, `current` | `_reader`/`_writer` of one `ControlClient`: not dialled, open, transport closed, forgotten; the manager's client |
| `holder[c]`, `waiting[c]` | the owner and FIFO queue of `_lock` |
| `inbox[c]`, `outbox[c]`, `severed` | what is on the wire each way; connections whose daemon closed its end |
| `at[t]`, `on[t]`, `job[t]`, `step[t]`, `asked[t]`, `verdict[t]` | a coroutine: where it awaits, the client it captured, the value it writes, setter or readback, commands sent, outcome |
| `held` | history: writers whose value the daemon held at some time since they began |

`Grant` reads the writer under the lock, as `request` does; `GiveUp`, `Closed` are its `except` branch,
whose close is itself awaited; `DropBegins`, `DropEnds` are `_drop`'s close from outside the lock;
`Cancel` is a task cancelled inside a command, which no `except` of `request` catches.

### `StagedApply`: the buffer and the two lanes that restart the daemon

| Model | Code |
|---|---|
| `staged`, `parked` | `PendingStore.http`, `FilterPark` |
| `at[r]`, `kind[r]`, `tries[r]` | an apply: waiting for the web port, about to post, verifying, waiting out the restart; staged lane or hardware card; passes left |
| `merged[r]`, `base[r]`, `carried[r]` | the edits with the live settings that ride along, the backup its archive is built on, the uploads in it |
| `verdict[r]`, `result[r]` | the last judged pass; the answer the route gives |
| `archive` | `pre-apply-settings.zip` |
| `known`, `form` | the manager's live readings and its snapshot of the endpoint list |
| `file`, `engine`, `up`, `offered`, `shipped` | the daemon: configuration file, live values, serving, endpoints, filter files |
| `landed`, `chosen`, `before` | history: values the file has held, the live values the user settled on, the file when the apply began |

`Fetch` is `_restore_once` up to the POST; `Post`, `PostUnanswered`, `WireFails` are the POST that is
answered, adopted but not answered, and lost; `Converges` and `Diverges` are `verify` with
`_unfixable_device`; `Finish` is `_outcome`, `after_restore` and the route's `store.clear()`.

### `LiveLane`: settings written to the running engine

| Model | Code |
|---|---|
| `engine` | the engine's mode, source chain, playback, filter pair and high-frequency filter, as list indices |
| `readings.state`, `.rate`, `.lists`, `.memory` | `Readings.state`, the family of `status.active_rate`, the chain whose enumerations were read, `LiveMemory` |
| `queue`, `up` | the order `ControlClient._lock` serves in, and its connection |
| `task[t].at` | where a coroutine awaits: a setter (`set`), its readback (`check`), State (`refresh`, `reread`), the lists (`lists`), the heartbeat's State and Status (`state`, `status`), a probe (`fetch`), the rescan (`reload`, `away`) |
| `task[t].edits`, `.named`, `.held`, `.rest`, `.snap` | the setters to send, the fields they came from, those held for the other chain, the part of the batch behind a mode, the snapshot of a rescan |
| `byHand`, `outcome` | history: the high-frequency filter set by hand, or who is about to send it; the answer of the last replay |

`Started` is `resolve_live` with `split_live`: a field of the chain that is not loaded is held, every
other becomes a setter or refuses the batch; `FilterPair` is `_complete_filter_pair`, which fills the half
nobody names from the last State; `Routed` is `apply_preset`, a mode first and alone.  `Set`, `Check`,
`Refresh`, `ListsRead`, `Reread` are one batch from its first setter to `_bookkeep` and the re-assert of what
the entered chain remembers.  `Beat`, `StateRead`, `StatusRead` are the heartbeat of `core/loader.py`, whose
State is published an await after it was read; `Rescan`, `Reload`, `Probe`, `Unreachable` and `Replays` are
`lanes/rescan.py`.  Every request is the head of `queue`, so any other task's request may come in between.

### `PresetLane`: whole configurations, and the pointer at the active one

| Model | Code |
|---|---|
| `disk.store`, `.active`, `.autosave` | `PresetStore`: the files, `active.json`, the auto-save flag |
| `disk.pilot`, `.carried` | `AutopilotStore.enabled` and `for_preset` |
| `daemon.file`, `.named`, `.cfgs`, `.plays`, `.phase` | the daemon's working file, the profile it runs under, its mirrors in `data/cfgs`, what it plays, and serving / adopted with the restart due / down |
| `memory.live` | State as last read |
| `memory.import`, `.hint`, `.snapshots` | `PresetOps.migrate_once`: not asked yet, awaiting its archive, holding it, done; the name the daemon ran under at the handshake; the snapshots in the archive |
| `memory.flips` | `set_autopilot` in a thread between the switch and the stamp |
| `route[t]` | a request between two awaits: the backup, the POST, the wait for the restart, the resync, the mirror's removal |
| `kept` | history: per preset, where the user was told auto-pilot stands with it, if nothing has moved it unrecorded since |
| `deleted` | history: what the user deleted, and whether its mirror is gone too, before or after the import read it |

`Backup` is the second half of a load, a save, an auto-save or an apply, whose first half read the store
an await before.  `Post` adopts the archive and moves the pointer; `PostLost` adopts and loses the answer;
`Settles` puts auto-pilot back and lets the auto-save ride.  `Handshake`, `MigrateReads` and `Migrate` are the
import of the daemon's own snapshots at the first connect: the name, an await later the archive, an await later
the store.  `SwitchPilot` and `StampPilot` are `set_autopilot`; `LiveWrite` moves the switch as well, unstamped, as
`_stand_autopilot_down` and the `_restore_autopilot` of a live snapshot do, and `StandsDown` is such a write refused.
A configuration carries whose it is (`of`),
which no file says: `PresetsKeepTheirOwn` is stated in it.

### `Metering` and `MeterFeed`: the stream, what is decided on it, and the METER page

| Model | Code |
|---|---|
| `reader` | where `MeteringReader.run` is: the gate, the check before a frame, the read, the pause, ended |
| `agg`, `held`, `levels` | `SpectralAggregate` with its window, open block and `JunkRun`; `SpurHolder`; whether `BandRing` has a readout |
| `context`, `engine` | what the last poll said; what plays, the filters, auto-pilot's switch, the daemon's socket |
| `heard` | history: what each block since the evidence began was read as |
| `feed`, `queue[p]`, `arriving` | `MeterFeed`'s geometry and partial stride, a subscriber's queue, the stream it is fed from |
| `page[p]`, `overran` | the page's bars and the frames of its last event; history: whether its queue dropped one |

`Observe` is `JunkRun.observe`, `Decide` the spur's hysteresis, `Treats` what counts as treated, `Classify` the
choice between the two corners.  A block is reduced to what the rules ask of it: whether there is
anything above the fold, how steep its step is, whether the shape vetoes it, how far a tone stands out.
`Ingest` is one frame, and with `closes` the block it completes.

### `Connection`: moving to another daemon

| Model | Code |
|---|---|
| `pair`, `clients`, `current` | `cfg` with host and credentials, every `HttpConfigClient` built so far with its `credentials_ok`, and `manager.http_client` |
| `readings` | `credentials_ok`, `config_error`, and through which client `config_form` was read |
| `link`, `severed`, `connected`, `httpOk` | `manager._client` by the host it is attached to, the daemon's end closed, `connected`, `http_ok` |
| `loop` | where `run` awaits: the dial (`dial`), the release page (`about`), the forms of a connect and the rest of it (`load`, `loadRest`), a heartbeat's control half, its forms and the rest (`poll`, `forms`, `caps`), `_idle`; and the address it dials |
| `pass[r]` | a walk through `forms.refresh`: its client, the next form, whether all came |
| `post[p]` | a save in `write_connection`: sent, inside `retarget`'s close, inside its refresh, answered with its `lane` |
| `page`, `health` | `verdict`, `awaitingVerdict`, `savedLane`, whether `GRACE_MS` have passed since `savedAt`; the last health reading |
| `ctl`, `web` | whose control port and whose web port answers |
| `laid`, `overtaken`, `turned` | history: the last save pressed is in force, something older was still writing as it was laid, a port moved since it was pressed |

`GetsForm` is one turn of the loop in `forms.refresh`, for the poll and the route alike; `Lay` is
`write_connection` and `_drop` up to its await; `Attach` to `Complete` are the connect body; `JudgedSave` is
`judgeSave`, `HealthLands` the watch that calls it, `Answered` the rest of `submitConnection`.

### `Editor`: one browser page over the server's buffer

| Model | Code |
|---|---|
| `page.staged`, `.config`, `.active`, `.preview` | the signals of `static/store` of those names |
| `page.acknowledged`, `.question`, `.applying` | the yes given to a hazard, the one open dialog and what awaits it, the apply in flight |
| `server` | `PendingStore`, the running form, the active preset |
| `calls[l]` | a call under way: what it is, and how far the server or the network has come with it |
| `owed`, `raced` | history: changes no apply, discard, other page or failure has taken; the settings last edited while another call under way had still to touch them |
| `stale`, `said` | history: whether an edit was judged on a configuration that was not running; whether the pin was said yes to |

`Edit` is `edit()` up to its question, `Stage` the rest of it with the coupling and the drop list; `Received` is
every place an answer replaces a mirror, `Following` what the page asks next.  Nothing orders the calls: each has a
thread of the server's, and a line of its own here.  A stage goes through `Merge`, `Drop` and the snapshot it is answered
with, a discard through `Discard` and that snapshot, an apply through `ApplyBegins`, which reads the buffer, and
`ApplyLands`, which clears it as it stands by then; answers are received in any order, and `CallFails` is a call that
never gets there or whose answer is lost.  A stage call carries, for the properties only, the configuration it was
judged on (`on`).  `OtherStages`, `OtherDiscards` and `OtherApplies` are another page.

### `MC*` and `*Proofs`

The `MC*` modules add model values, the sets of inputs and symmetry.  Symmetry is declared over lanes,
over tasks and over preset names, which the specifications treat alike, and only in runs without
liveness.  The `*Proofs` modules hold the theorems.

## 3. The runs

Sizes are distinct states.  Every property of a run is broken by a plausible bug in the code it is
about (`PROJECT.json`, "mutants"; the mutated definitions stand in the modules, marked as mutants,
and nothing else uses them).

| Run | Bounds | Properties, and what they say |
|---|---|---|
| `supervisor_one_lane` (1.2 M) | one daemon, one lane, a crash besides the restore's restart, one fault, one retarget, backups that are no archive | `LoopAgrees`: flags, client and the place of the loop agree. `WaitIsHonest`: a wait is answered by the restart it is about. `NoSleepThrough`: none sleeps through it. `BodyKeepsItsClient`: no client is replaced under a running body. `KeepsPromise`: the loop implements `ControlLink`, teardowns half way included |
| `supervisor_live` (30 k) | one lane, a fault, fair | `Recovers`: the manager ends up ready. `WaitsReturn`: a sleeping wait is answered |
| `control_channel` (0.3 M) | two tasks, two successive clients, two values, one command each with its readback, either task cancelled, fair | `AnswersItsCommand`: no answer is read as another command's. `VerifiedMeansHeld`: a verified value was held. `CommandsReturn`: every command returns |
| `staged_apply` (0.6 M) | an endpoint and a live field, two passes, an upload, one lost write, one ignored field, one endpoint change, one live write | `NothingDropped`, `UploadsShip`: no edit or upload is let go of before the daemon has it. `UntouchedSurvives`: nothing else in the file moves |
| `staged_apply_hardware` (0.2 M) | a hardware field besides, fair | `PlaysAsChosen`: the restart comes back on the live settings the file never learnt. `AppliesReturn` |
| `live_lane` (1.6 M) | one writer's two batches or presets and a resync beside heartbeat and auto-pilot, playback starting or stopping once | `NamedIsPlayed`: what is reported verified plays as named. `SiblingKept`: a write of one filter half leaves the other. `HeldIsPlayed`: what LIVE remembers for the loaded chain plays. `HandChoiceStands`: auto-pilot does not undo a choice by hand |
| `live_replay` (36 k) | a rescan and a batch, one lost connection, one setter that does not take, one flip of the source, fair | `NoSilentLoss`: no rescan reports a success that lost a setting. `ListsFollow`: lists end up the loaded chain's. `TasksReturn` |
| `preset_lane` (3.5 M) | two presets, three calls, one lost answer, one wait given up, one failure, one death of daemon or application, one import that points at a name the daemon no longer runs under (`MaxStale`) | `PresetsKeepTheirOwn`: no preset gets the configuration of another. `ActiveExists`: the pointer is at a preset. `GoneStaysGone`: a preset gone from store, mirrors and import stays gone. `SavedIsHeard`: what is stored is what plays. `RideLeavesPreset`: the auto-save behind a load changes nothing. `PilotComesBack`: a load brings auto-pilot back to where the user was told it stands with that preset |
| `metering` (0.2 M) | window and gap of one block, three blocks, a turn of the engine, a break, a stop, fair | `RunStandsOnBlocks`: the run is engaged exactly when the blocks of the one stream say so. `LetGo`, `Listens`: the socket follows the engine |
| `meter_feed` (0.5 M) | two pages, strides of two and one, a queue of three, two connections | `OneStream`: an event is consecutive frames of one connection and layout. `GeometryAhead`: a page that keeps up draws them on the right bars |
| `connection` (0.5 M) | two daemons, one save with right, wrong or kept credentials, one port moving, one record that cannot be written, fair | `SavedIsTrue`: "saved" is said of a link to the address saved and of a page read with the credentials saved. `VerdictComesTrue`: a panel that waits comes to a verdict that is true. `ReadingsFollow`: the readings end up the new pair's |
| `editor` (0.6 M) | two presets, one setting edited here both ways (`Choices`), another page's fixed volume (`Others`), three moves of the user (`MaxMoves`: edits, picks, applies and discards together), one event of another page or a failure (`MaxEvents`), two calls at once (`Lines`), fair | `NoChangeLost`: what the user changed is in the buffer, or on its way there, at the value chosen last until something takes it, unless another call under way touched the setting when it was edited. `NothingIdle`: what is no change is not there, but for what a call is about to drop. `PinIsConfirmed`: no pin the page showed goes out unless the user has said yes to one. `PageFollows`: the page ends up with what the server holds |

**Why these bounds.**  *Restarts and drops* matter to a wait only relative to its mark, so two
instances of a daemon already give "before" and "after", and a third the restart of
somebody else.  *Lanes* share one event and one counter; a second is in `SupervisorTwoLanes.cfg`
(2.9 M states, the same properties), a third could only be a second "other".  *Tasks*: a pairing
error needs a victim and a culprit, which the channel has with two; queue order needs a third,
which `ControlChannelThree.cfg` has, and a second command of each is in `ControlChannelAsks.cfg`.  *Passes*: with two there are a first, a last and a next one; the source's
three add another middle.  *Fields*: an endpoint, a live field and, for the hardware card, a plain
one are the three kinds the code distinguishes.  *Lists*: two filters a chain, one ID in both at
different indices, is the least in which an index can mean the wrong filter and an ID can be missing.
*Batches*: one to make a reading stale and one to use it.  *Presets*: with two there is one to load and
one to be overwritten by mistake; three calls are a load, a change and a load back.  *Blocks*: the run
compares two blocks across a gap, and three with a gap of one are before, at and beyond it.
*Strides*: two and one frames are a stride that can be partial and one that cannot; a queue of three
overruns within five frames.  *Moves*: a field staged and staged back over a preview; two calls under way are one to
be overtaken and one to overtake it, merge and drop of either in any order with the other's.  With `MCBoth`
for `Choices` and `Others`, either page editing both settings, `Editor.cfg` has 1.9 M states and passes too.
*Saves*: one is laid over the pair the process started with, which is an old and a new; two are in
`ConnectionTwice.cfg`.  *Forms*: two, `/config` being one kind and the last, which leaves the verdict, the other.  `MaxRefusals` bounds only
repeated refusals with nothing in between.

**Fairness.**  `Supervisor`: weak fairness of the loop's own steps and of a lane's, because every
await in them has a deadline and the event loop starves no ready task; of a daemon's restart
and of its ports coming up, because it runs under a service manager.  No fairness for users,
faults, crashes, or the expiry of a wait.  `OutageIsMet` says that a restart outlasts the loop's next
attempt on the port: a restart takes 3.4 s (profile load) to 5.6 s (restore) by
`docs/protocol.md:80,88`, and the loop retries every second (`RECONNECT_FAST`).  It is set in the fair
runs only; without it a daemon could be back between two attempts every time, which the safety runs
do allow.  `ControlChannel`: the event loop grants a free lock, a read has its deadline, a closing
transport closes.  `StagedApply`: the steps of an apply, each of which waits with a deadline, and the
daemon coming up.  `LiveLane`: the lock is FIFO and its head is answered or its connection cut, the poll
beats again and again (its period is a timer), a lost connection is dialled again (`run`), a rescan's
wait probes until its deadline.  `Metering`: the reader's own task, whose read is bounded by a tick and
whose pause ends; whether a frame ever comes is nobody's promise.  `Connection`: the loop, the route and the
timeouts of its requests, the page's health timer and its clock.  `Editor`: the poll's timer, each call
going on until it is served and answered, an apply that ends (`AppliesReturn` is why).  Nothing is assumed about
answers being right or prompt, and nothing about users.

**Deadlock** is checked except in `Metering.cfg` and `MeterFeed.cfg`: a reader told to stop ends for
good, and a feed whose bounded frames, connections and visits are used up has nothing left to do.
In every other run something can always move.

**Configurations beside the runs.**  `SupervisorTwoLanes.cfg`, `ConnectionTwice.cfg` (two saves, 7.5 M states),
`ControlChannelThree.cfg` (three tasks, with `LockIsHolders` and `QueueAgrees`) and `ControlChannelAsks.cfg` (two
commands a task) are larger instances that pass.  The other fifteen show the limits of section 5, each with
the smallest constants that show it.

## 4. What is proved

15,734 obligations, for any hosts, lanes, tasks, fields, values, blocks, strides and bounds.

**`SupervisorProofs`.**  The invariants support each other, so one induction carries them:
`IInv` is the conjunction of `TypeOK`, `LinkAgrees`, `LoopAgrees`, `ClosingAgrees`, `OvertakenAgrees`, `NoSleepThrough`,
`RecordsAgree` and `EvidenceIsOfTheRestart`.
`NoSleepThrough` alone is not inductive: that no unannounced step makes a sleeper's condition
true needs `LinkAgrees` (a connection that stands was completed after all drops counted) and the
place of the loop (`LoopAgrees`).  Other tasks run while a dropped client closes: nobody is still closing an older client once a dial was answered,
and no lane closes the one a connect body works on (`ClosingAgrees`); a body without a standing client, or a
`connected` without one, is the work of a change of address (`OvertakenAgrees`).  `EvidenceIsOfTheRestart` needs `RecordsAgree`: a lane
has an instance on record only once it has posted to it.  The argument is that a drop counted
after the mark is either ahead of the restart, and then the lane is in `muddied`, or proof
that the restart happened.  From `IInv`: `TypeCorrect`, `LinkAlwaysAgrees`, `LoopAlwaysAgrees`,
`NobodySleepsThrough`, `EvidenceIsReal`; the action properties `WaitsAreHonest` and
`BodyIsUndisturbed`; and `Implements`, the refinement: every step is a step of `ControlLink` or a stutter.

**`ControlChannelProofs`.**  `LockAlwaysIsHolders`, `AnswersAlwaysPaired` and `VerifiedAlwaysHeld` hold for all
constants, the last two up to the first cancellation inside a command (`Until`, `GoneStays`), which the code
needs too; `TypeCorrect` assumes that there is none.  The induction: a task inside a command keeps the connection it captured (`Captured`), a
connection with nobody reading on it carries nothing (`Quiet`), and on one with a reader travels
that reader's last command or its answer, one document at most (`Pairing`).  `Quiet` is what
closing the connection with every answer given up buys, and what a cancelled reader breaks.

**`StagedApplyProofs`.**  `TypeCorrect` holds for any number of concurrent applies (`TInv` adds that a
request about to post has a backup under it).  `BackupAlwaysCurrent` and `UntouchedAlwaysSurvives`
assume `Alone`, one apply at a time: the archive was built on the file as it is (`Based`).
`UploadsAlwaysShip` and `NothingEverDropped` assume also that nobody stages during the apply:
`Kept` follows an edit from the buffer into the archive (`Holding`), an upload into the archive
and onto the daemon (`Carrying`), and a verified value into the file (`Landing`).
`PlaysAlwaysAsChosen` assumes `Alone` and no live write during the apply, and holds as long as the daemon takes
what the hardware card posts (`Obeyed`): that card verifies its own attribute and nothing that rides along, where a
staged apply verifies all of it.  Its invariant `Heeded` follows a live setting around the restart: readings
are forgotten only where the engine plays the file (`Forgotten`), what a request was given is what was
chosen or the file says so already (`Given`, `Riding`), and a verdict stands on what then plays
(`Playing`).  These assumptions are real limits of the code, not of the proof: section 5 and 6 show what
happens without them.

**`MeteringProofs`.**  `RunStandsOnBlocks` compares one bit, whether the run is engaged, with a rule over
the whole history of readings.  It is not inductive: the next block's effect depends on how long ago
the last junk block was, which the code keeps in `pending`.  `RunIs` says what `pending` is in terms of that
history (the distance to its last junk block, where nothing real came since and the distance is
within the gap), one lemma per reading takes it across `Observe`, and `Ingest` and `Drop` carry it through
streams and layouts.  `NothingEverOutlivesEvidence` and `PilotAlwaysQuietsNote` rest on the types: the
first on what `Drop` takes along, the second on `Treats`, for every corner and filter.

The feed's theorems are in the same module.  `OneStream` and `GeometryAhead` are about what a page draws, and what it draws was
queued, folded and announced before.  `Piece` follows a stride from its first frame (`StrideRuns`: it ends
with the frame that arrived last) into a queue and onto the page.  `InForce` says which geometry a page will
have at a position of its queue: the last one queued before it, or else the bars it has.  The
invariant is that every queued frame finds its own layout in force and that behind the whole queue
the feed's geometry is (`Announced`), unless the queue dropped an event; lemmas take `InForce` over an
event added behind (`ForceKept`, `ForceNext`) and the one taken in front (`ForceTaken`).

**`ConnectionProofs`.**  `SavedAlwaysTrue` needs the way of a save through everything that writes the readings.
Once a save is in force and nothing older was writing as it was laid (`Fresh`), the link and the connect
under way are to its address (`Onward`), what is still to be read of the forms goes through its client
(`Through`), and what a completed connect has read and stamped came from there (`Own`, with `Loaded` for a
connect that has asked for `/config`).  `Walks` is what makes a new start of it: no refresh walks the forms except
where its refresher awaits it, so a save laid with nobody awaiting meets no older walk.  `TypeCorrect` takes one
lemma for each group of variables.  The constants' assumptions say that `None` is no address, password or verdict.

**`PresetLaneProofs`.**  `TypeCorrect` holds for any number of requests at once.  The others assume
`Alone`, one request at a time, which the code needs (section 5); the import, the poll and any number of flips of
auto-pilot's switch go on beside it.  `ActiveAlwaysExists` needs that a load has its preset
and an auto-save is for the active one while they await (`Existing`), `GoneAlwaysStaysGone` that no archive under way
and no snapshot the import holds has a preset that is gone (`Vanished`).  `PilotAlwaysComesBack` compares what is on disk with
what the user was told, which moves at other steps: what was said of a preset is what its copy holds, and of the active one
what the switch is at, except between a load's POST and its settling, when the pointer is ahead of the switch (`PilotAll`).  `PresetsAlwaysKeepTheirOwn` follows whose every configuration is, through the
store, the mirrors, the daemon's file and the archive in hand (`OwnAll`), as long as no answer was lost and no process
died; `SavedAlwaysHeard` and `RideAlwaysLeavesPreset` follow the live setting in the same way (`HeardAll`).  One lemma
for each action says what it does to the state (`...Does`), and the invariants' steps cite those.

**`EditorProofs`.**  For any presets and any number of calls, edits, previews, applies and steps of another page.
`NothingStaysIdle` needs that a drop list is right about the fields its own call sets (`Judged`), `PinsAreConfirmed`
that every apply under way and every yes remembered is behind a yes (`Asked`).  `NoChangeEverLost` is about a setting at a
time.  Its invariant `Kept` says more than the property does: what is owed is in the buffer or carried by a stage call still
to be merged, and every other call under way spares it (`Spares`): a stage call that has the setting has it at that value, none has
it in its drop list, and no discard is still to be served.  That is all a merge or a drop in any order can disturb.  It holds of a
new edit because `raced` takes in the settings that a call under way still touches, and of a later one because a page's own
drop list takes out of `owed` what it takes out of the buffer.  One lemma says what every group of steps does
(`StepsAre`), whoever takes it and on whichever line.

**`LiveLaneProofs`.**  Every step is one to three of five moves of a task's record (`Goes`, `Bookkeeps`, `Queued`...), and the
lock's queue is a sequence without repetitions whose head is always a task that waits for it; `TypeCorrect` is the
induction over them.  `HandChoiceKept` follows the filter a user's write is about to send (`byHand`) past a write of auto-pilot:
the invariant is that auto-pilot's task sends nothing but a filter (`OneSetter`), that auto-pilot is off since the choice, and
that what it still had to send when the listener chose is ahead of the listener's setter in the lock's queue (`Chosen`).
`NamedAlwaysPlayed` assumes `Alone`, one batch at a time, `NoSource` and `NoRescan`: without the first two the property
fails; with rescans it is only model-checked, beside the runs: `LiveLane.cfg` with `MaxRescans = 1`,
`MaxMoves = MaxResyncs = 0` and `MaxLosses = MaxIgnored = 1` passes (4.5 M states).  Everything a batch is resolved against, the lists and the mode in
State, must be of the chain that is loaded whenever no switch is under way.  A heartbeat that began before a
switch still carries readings from before it, and what keeps it from publishing them after the switch is the
fair lock: the switch has more requests to send (`Owed`) than the heartbeat (`Due`), and the two take turns.
`Led` says so for each reading and each enumeration under way, with `Lead` for whose turn it is; one lemma for each action of
the writer, the poll and the environment takes it along.

`SiblingAlwaysKept` and `HeldAlwaysPlays` assume the same, and speak of the time while playback stands still and nothing is
resynced (`Unmoved`, a condition of the properties).  The half a batch does not name is filled from State, so State must name the
pair the engine has, not only its mode, whenever a batch starts (`PairKnown`, `Completed`).  A heartbeat publishes a State it read
an await or a whole enumeration ago: what is proved is that it does so only where the pair is unchanged since, or the writer has
still to read State itself (`Published`, `Compared`), and that the poll enumerates or sends anything only within a switch
(`Within`).  `Steady` is the conjunction.  `Kept` is about memory: each field remembered for the loaded chain is on the engine, or
about to be sent, or about to be replaced by what was sent in its place, or a switch is under way whose re-assert comes (`Stands`);
what is remembered for a chain is of its fields (`Own`), and a batch holds fields of the other chain only, next to no mode and
no filter (`Batch`).  An ignored setter ends `Kept`, as the property says.  TLC checked both on three instances before the proof,
with two batches, with three, and with a loss and an ignored setter.

**Only model-checked.**  Liveness (`Recovers`, `WaitsReturn`, `CommandsReturn`, `AppliesReturn`, `TasksReturn`,
`LetGo`, `Listens`, `PageFollows`, `VerdictComesTrue`, `ReadingsFollow`) is beyond the prover.  `QueueAgrees` counts occurrences in a queue, which is
an induction over sequences.  Of `LiveLane`, `NoSilentLoss` is model-checked: it is about rescans,
which the induction leaves out.

## 5. Known limits

What does not hold of the code, or holds only under a condition, as the models show it.  The first
fifteen each have a configuration under which TLC prints the counterexample.

| Configuration | Property | What happens |
|---|---|---|
| `SupervisorOwnDrop` | `WaitIsHonestAlways` | `restarting` drops without counting so that its own drop is no evidence of a restart.  A poll's request in flight on the client it closes fails, and `run` drops again, counted; the loop reconnects to the daemon that has not restarted yet and `await_ready` answers true.  `WaitIsHonest`, proved, says that a counted drop ahead of the restart is the only way |
| `SupervisorGarbled` | `Recovers` | `UnreadableArchiveError` passes every `except` of the connect body after the client was attached and before `connected` is set; the loop polls from then on, and nothing sets `connected` until the connection drops |
| `SupervisorTorn` | `WaitFindsItStanding` | the address is posted again while a connect reads the archive: `retarget` clears the flags and awaits the close, the connect ends meanwhile over the client still attached, publishes `connected` (`core/loader.py:66`), and `await_ready` answers true on a connection that is being closed.  The poll that follows finds it out |
| `SupervisorRetarget` | `RetargetLands` | the address changes during a dial: there is no client to drop, and the one being dialled to the old address is attached afterwards and kept |
| `StagedApplyDropped` | `NothingDropped` with edits during an apply | the buffer is cleared as it stands after the apply, not by what was applied |
| `StagedApplyBackup` | `BackupPredatesApply` | each pass overwrites the pre-apply backup with the configuration the previous pass left |
| `LiveLaneSibling` | `SiblingKeptAlways` | a heartbeat reads State, re-enumerates because playback started or stopped, and publishes the State it had over the one a live write published meanwhile; the next write of one filter half fills the other from it and sets it back (`core/loader.py:166`, `lanes/live/routing.py:130`) |
| `PresetDeleted` | `DeletedStaysDeleted` | a delete whose removal of the daemon's mirror fails says nothing, and the next process imports the mirror as a preset |
| `PresetOvertaken` | `OvertakenStaysGone` | the import awaits its archive and the preset is deleted, here and on the daemon, before it is written to the store: `import_missing` brings it back (`presets/presetlane.py:370`) |
| `PresetHint` | `KeepThroughImport` | the import's pointer is the name the daemon ran under at the handshake; a restore meanwhile has taken the daemon off it, and the next auto-save folds another configuration into that preset |
| `PresetPilot` | `ArmedCarries` | with auto-save armed the active preset carries auto-pilot's switch (`api/routes/autopilot.py:59`), but not where the import put the pointer there, where auto-save was armed after the flip, where a write by hand stood auto-pilot down and was refused, or where a live snapshot brought the switch |
| `ConnectionSaved` | `SavedIsTrueAlways` | the answer to a save is judged with the reading in hand (`static/store/setup.js:281`), which may be from before it: "saved", though nothing answers at the new address |
| `ConnectionLate` | `NeverLeftConnecting` | a panel closed and opened while its POST is under way: the answer writes "connecting" over a panel that waits for nothing, and no reading judges it again |
| `EditorEcho` | `DropsAreCurrent` | `edit()` adopts every echo (`static/store/actions.js:182`), an older one too, where `stageHttp()` adopts only that of its newest call.  The user previews a preset, sets a field to its value and away again; the echo of the first edit sets the mirror back to a value that reads as no change, and the drop list of an edit elsewhere names the field, which the second has changed |
| `EditorOvertaken` | `NoEditOvertaken` | a setting is edited twice with the first call still under way: the calls run in threads of their own (`api/routes/pending.py:116`), the older is merged last, or its drop falls behind the newer merge, and the buffer keeps the older value or none.  `NoChangeLost`, proved, says that only settings another call under way touched are exposed |

Others appear when a constant is changed or a condition of a property is dropped; the code promises
nothing for them:

* *Two at once.*  With two `Requests`, `UntouchedSurvives` and `BackupIsCurrent` fail: two archives built on
  one backup.  With two `Writers`, `NamedIsPlayed` fails: a batch resolves its indices, another switches the
  mode, and the index names a filter of the other list.  With two `Routes`, `PresetsKeepTheirOwn` fails.
* *Cancellation.*  Without its condition `Uncancelled`, `AnswersItsCommand` fails: a reader cancelled at
  shutdown leaves its answer on the socket.
* *Edits and live writes during an apply.*  `UploadsShip` fails as `NothingDropped` does; with `LiveMeanwhile`,
  `PlaysAsChosen` fails, because the settings that ride along were read before.  It fails too where the daemon
  ignores a live setting that rides with the hardware card, which does not look.
* *`[source]` mode.*  With "auto" in `Modes`, `ListsFollow` and `NamedIsPlayed` fail when the track changes kind
  between the reads of one heartbeat: Status may name the family the poll already believed in while the
  lists were read under the other.
* *Rescan.*  `NoSilentLoss` fails where playback moves, a resync or a second batch falls into the rescan.
  `NamedIsPlayed` fails where the rescan falls into an enumeration of the heartbeat, begun because playback moved
  or a resync published a State: the heartbeat publishes, after the probe has read the engine, the State it read before
  the restart, and the replay takes the chain in that State to be loaded.
* *Resync.*  A heartbeat that begins while a resync has forgotten State has nothing to compare with, and enumerates
  once the resync has published one (`core/loader.py:150`); it then publishes the State it read before over that
  of a write, as when playback moves, and `SiblingKept` and `HeldIsPlayed` fail.
* *Fields of both chains.*  A verified setter of the loaded chain's filter vouches for every filter field of the batch,
  those held for the other chain included (`lanes/live/lane.py:112`), and `lane.py:224` records them under the chain
  loaded, where a re-assert would send them.  No client sends such a batch: the LIVE view posts one field, and what a
  preset or a rescan's snapshot holds is of one chain (`PresetsAssumption`).
* *Presets.*  A load whose answer is lost leaves the daemon on the loaded preset with the pointer at the one
  before, and the next auto-save folds the one into the other.  A process that starts points at the
  daemon's own profile name even if the user had unloaded it.  After a death the pointer exists and may still be
  at a preset the daemon does not run.  A flip of auto-pilot's switch that overlaps the end of a load can be undone by it,
  and is then answered with the switch as the load left it.
* *METER.*  A page that stalls can lose the geometry with its oldest event, and draws what follows on old bars;
  `engine/meterfeed.py:8` has it that the geometry "always goes ahead".
* *Connection.*  A save laid while the loop is inside a connect body: the body ends by setting `connected` with no
  client under it, and a reading then says ready of nothing.  A save whose own attempt fails on the wire is
  answered `refused` while a refusal of the previous pair stands on record (`lanes/http/forms.py:116`), where
  `api/routes/connection.py:133` has it that `lane` is there to tell the two apart.  An older client's refresh
  records its verdict over the new one's until the next poll.
* *Editor.*  A stage call that fails is not reported: the mirror keeps the edit until the next poll reverts it.  What is
  merged while an apply is under way is cleared with the buffer, as in `StagedApplyDropped`.  A drop list judged on a stale mirror can undo another page's edit, and that of another page, judged on the
  running configuration, one made under a preview.  A staged fixed-volume mode and
  a switch to a preset with the other leave both on.  A yes given to a hazard is remembered when the
  hazard leaves by a preview or a poll and after the apply it was given for, and covers it when it comes back.

## 6. Abstractions, not modelled

* **Time** is enabledness: a deadline may pass whenever its wait is open.  The alarm clock and the
  choice of retry delay, which change only how soon a step comes, are left out.
* **`Supervisor`**: shutdown is left out; web credentials are configured; what the forms say is reduced to whether `/config` answered.  A mark is
  taken before a POST and one lane posts once.  `unmet`, which exists for `OutageIsMet`, is the one
  bookkeeping variable that guards read: it delays the daemon's port and, with it, bounds the
  refusals.
* **`ControlChannel`**: taking a free lock does not yield in the code and is a step of its own here, and
  a command is written and drained at once; the first adds interleavings, the second removes none that
  a reader could tell.  A reply that does not parse is a reply given up on.  One setting stands for
  all of them, compared exactly.
* **`StagedApply`**: `stage` and `discard`, which run in threads, are one step each (`Editor` takes them apart); batches that go fully live, preset switches, the live part of the buffer, the constant
  `FORCED_CONFIG`, adoption of a matrix profile, the auto-save mirror and carried fields taken from the
  store (no preset is active) are left out.  The daemon adopts within the POST or after losing its
  answer; it may ignore any fields, as often as `MaxDeaf`.  A field naming an endpoint that is not
  offered stays as it was.  `chosen` is unclear (`None`) where readings lag a failed apply's restart.
  The restart that `Finish` waits out is `Supervisor`'s subject; the two are not composed.
* **`LiveLane`**: the shaper, which goes the way of a filter without a second half, and volume and rates are
  left out; the five requests of an enumeration are `ListReads`; the reads of a handshake are one step;
  auto-save is on; the list of modes does not change.
* **`PresetLane`**: what a configuration says is one persistent and one live setting.  Left out: interfaces
  kept across a load, the copy persisted before it, a death inside a delete (between the unlink
  and the pointer) or inside the write of the pointer, and `POST /api/restore` (`api/routes/config.py:315`), which posts
  an archive of the user's: it replaces the daemon's file under whatever pointer there is, and its mirrors can be
  imported as presets.  The junk advisor is taken to be on, so that the switch may be flipped.  `AutopilotStore` reads
  and rewrites its file in one step: in the code a flip, in a thread, can overlap another writer inside it.
* **`Metering`**: levels, spectra and the spectral rules are numbers; a block is what the rules say of it, and
  the ramp rule, which fires beside the run, is left out.  Auto-pilot's write is one step here, because
  its interleaving with others is `LiveLane`'s subject.
* **`Connection`**: the loop's `_drop` is one step with its close (`Supervisor` takes it apart), a save's is not; a health
  reading, which a thread takes field by field, is one step; the record on disk, a start from it and pinned variables, discovery, the empty address, the
  panel that opens by itself and the one that Save closes are left out; the capability read behind a
  refresh is part of its last step; a health call is served and received in one step; credentials are one
  value, and which are right does not change.  From reading the part left out: a connect with refused
  credentials still sets `connected`, so a page loaded after it never opens the panel
  (`static/store/setup.js:152,157`), and one opened by hand and closed can be opened by the poll
  (`autoOpened` is set only there), which `setup.js:80` rules out.
* **`Editor`**: a call fails before it is served or after it is answered, not between two of its steps; a drop list is
  taken out of the buffer at once, and a buffer read or merged at once, where a thread goes field by field; an apply reads
  the buffer once; the other page sees the server as it is and does what it does in one step;
  the poll's gate on the server's readiness and the fast poll after an apply are left out, and so are the
  LIVE view, knob overrides while dragging, the buffer-time hazard, the Bauer coupling and the save
  targets.  The fixed level is -3 dB.
* `drops_at_connect > mark.drops` implies `connects > mark.connects` whenever the connection stands, so of
  `await_ready`'s clauses one is redundant while `connected` holds; both are modelled.

Not modelled, and why: matrix and speaker documents, configuration files, forms and archives are
functions of their input (what a lane does with one is modelled where the lane is); the spectral rules
under the junk detector are floating-point numerics; discovery, the desktop window, logs and the audit
are I/O nothing decides on; the metadata catalogue is static.

## 7. The plan

1. **`Connection`**: the record on disk with a restart of HQPTuner over it and pinned variables, and the panel that
   opens by itself.
2. **`Lifespan`**: the order of shutdown over `ControlChannel`, with the cancellations it performs.
3. **Composition**: `StagedApply`'s settling over `Supervisor`'s wait, several posts under one mark
   (`lanes/http/restore.py:215`); matrix profile adoption and the preset switch in `StagedApply`; two routes in
   `PresetLane` with the properties that survive them.
4. **The LIVE view**: overlapping writes and knob overrides of the page over `LiveLane`.
5. **Proofs**: `NoSilentLoss` of `LiveLane`, and its other properties with rescans.

## 8. Running it

    tlc -workers 2 -config SupervisorOneLane.cfg MCSupervisor
    tlc -workers 2 -config ControlChannel.cfg MCControlChannel
    tlc -workers 2 -config StagedApply.cfg MCStagedApply
    tlapm SupervisorProofs.tla

Each run's module and configuration are in `PROJECT.json`, with the map from every definition
to the lines it models.  The longest run takes two minutes on two workers; the proofs
about twenty minutes together.
