# Lapsora in TLA+

Lapsora captures frames from cameras on a schedule, renders them to timelapse
videos with ffmpeg, and, with the PrusaLink integration, films 3D prints from
start to end. The backend (`src/backend/app`) is one FastAPI process: an asyncio
event loop runs the scheduler's jobs, the generation worker and the `async def`
handlers; `def` handlers run in a thread pool; all of them share one SQLite
database, the scheduler's jobs in memory, and the media tree on disk.

What is hard in it is not any one function but that several actors write the
same row, job or file, each in more than one step. This project models those
steps, checks them with TLC on small instances, and proves with TLAPS, for every
instance, each safety property that the passing runs check.

## 1. Inventory

| Component | State it keeps | Operations | Interacts with |
|---|---|---|---|
| PrusaLink poller (`services/prusalink.py`) | open `print_jobs` row, the managed profile, `_unreachable_since` | `poll_printer`, `_reconcile`, `_handle_unreachable` | scheduler jobs, generation queue, event bus |
| Settings request (`routers/settings.py`) | `settings` rows | `update_prusalink_settings` | poll job, managed profile, open print |
| Stream health monitor (`services/health.py`) | `health_status`, `consecutive_failures`, `auto_disabled` | `check_all_streams` | profiles, capture jobs, event bus |
| Streams (`routers/streams.py`) | `streams` rows | create, update, delete, preview | cascades to profiles, captures, prints; media tree |
| Profiles (`routers/profiles.py`) | `profiles` rows | create, update, delete, enable, disable | capture jobs, health monitor, media tree |
| Scheduler and boot (`services/scheduler.py`, `main.py`) | APScheduler jobs, in memory | add, remove, restore | everything that runs on a timer |
| Frame capture (`services/capture.py`) | `captures` rows, JPEG files | `capture_frame` | profile, camera, gap alert |
| Generation queue (`services/generation_queue.py`) | `_queue`, `_pending_jobs`, `_cancel_events`, `_current_job`, `_active_ffmpeg_proc` | enqueue, cancel, `_worker`, start, stop | rendering, cancel endpoint |
| Rendering (`services/timelapse.py`) | output file, `timelapses` row, progress tracker, processes | `generate_timelapse` | database, media tree, event bus |
| Timelapse and print requests (`routers/timelapses.py`, `routers/print_jobs.py`) | rows and files | delete one, many, print with timelapse | a render under way |
| Retention (`services/retention.py`, `routers/captures.py`) | rows and files | `run_profile_cleanup`, deletion of frames | captures, renders |
| Schedules (`routers/timelapse_schedules.py`, `routers/cleanup_schedules.py`, `cron_utils.py`, `services/render_boundary.py`) | schedule rows, cron jobs | create, update, realign, delete, trigger | scheduler, generation queue, retention |
| HTTP sources (`services/http_source.py`) | the buffer of one fetch | `grab_snapshot`, `grab_mjpeg_frame` | frame capture |
| Gap alerts (`services/capture_gap.py`) | `_alerted`, `_window_open_since` | check, clear | captures |
| Storage watchdog (`services/storage_watchdog.py`) | `_consecutive_failures` | probe, exit | container |
| Reachability cache (`services/health_status.py`) | `_cache` | read, invalidate | settings requests |
| Migrations (`migrations/runner.py`) | `_migrations`, the schema | run at boot | crash in the middle |
| Notifications (`services/notifications.py`, `services/events.py`) | rows, SSE queues | `emit` | suspends its caller when external delivery is on |

Integrations over HTTP, image processing, statistics, diagnostics and the web
frontend are listed in `PROJECT.json` and not modelled: they keep no state the
rest depends on.

What makes each of them correct:

* **poller, settings, health, deletion**: never two open prints; no capture
  without a print and no print without capture, also across camera failures and
  restarts; scheduler and table agree; switched off means closed; a print is
  rendered once; a closed print stays closed; a dead printer is given up.
* **queue and rendering**: one encoder at a time, the one a cancellation would
  kill; the list shows what will run; a cancellation is honoured; no output
  without an owner and no row without its output; reports are true; every
  request ends.
* **profiles**: an enabled profile has its job; the user's last word wins over
  the health monitor. **Capture and retention**: a row has its file, a file its
  row. **Gap alerts**: one alert per gap, none lost. **Cache**: no answer from
  before a save. **Migrations**: a replayed prefix converges to the same schema.
  **Watchdog**: exit only after three failures in a row, and then the volume
  comes back. **Schedules**: an enabled schedule has the job its row describes, on
  the days its expression means. **Motion blur**: originals only.

## 2. Plan

Done, in this order:

1. `PrintCapture`, `PrintCaptureProofs` and `PrintFilmingProofs`.
2. `GenerationQueue`, with `RenderRequests` as the abstract specification it
   implements; `GenerationQueueProofs` for its invariants and the refinement.
3. `ProfileLifecycle`: one ordinary profile under its requests (threads), the
   health monitor (loop) and restarts.
4. `CaptureFiles`, `CaptureFilesProofs`: a capture from fetch to row, cleanup,
   deletions, crashes and an inaccessible media tree.
5. `Schedules`: rows, cron jobs, the requests that change both and the realignment
   of a camera's schedules.
6. `Migrations`, `CaptureGap`, `HealthCache`, `StorageWatchdog`, each with a
   part in `MonitorsProofs`; `RowsAndJobsProofs` for 3 and 5.
7. Algorithms, each with the state that makes it hard: `CaptureClock` (start
   dates and active windows over restarts), `CronDays`, `MotionBlur`,
   `MjpegReader`, all with their parts in `AlgorithmProofs`.

`MCServices` puts the modules of 3 to 7 side by side. They share no variables,
and what one needs of another (a profile that is deleted, a window that opens) is
an action of its own surroundings.

`ServicesProofs` proves that this composition changes nothing for any of them.

Left: `get_period_range`, `_resolve_fps` and `compute_interval` against reference
definitions; the stored notifications and the SSE fan-out; a clock with daylight
saving time.

## 3. How the modules correspond to the code

### PrintCapture

| Variable | Code |
|---|---|
| `cfg` | the `prusalink_config` setting, cut to `enabled` and `stream_id` |
| `streams`, `health` | rows of `streams`; `health_status` and `consecutive_failures` |
| `profile`, `lastProfile` | the managed profile's row (id 0: none) and its AUTOINCREMENT |
| `prints`, `lastPrint` | rows of `print_jobs` with status, job id, stream, estimate |
| `renders` | calls of `enqueue_generation` for a print |
| `capJobs`, `pollJob` | scheduler jobs `capture_<id>` and `prusalink_poll` |
| `poll`, `put`, `check`, `deletion` | where `poll_printer`, `update_prusalink_settings`, `check_all_streams` and `delete_stream` stand, with the locals they carry over |
| `unreachable` | `_unreachable_since`: no entry, a fresh one, one past the grace period |

The first three handlers are coroutines of one event loop. A step runs from one
suspension to the next, and is cut in two at a commit that is followed by more
work without an await (`opened`, `closed`, `saved`): there only a thread or a
crash comes in between, which is what `LoopFree` in the guards of the loop's
other steps says. `delete_stream` is a thread: read, commit and job removal are
three steps that interleave with everything. Whether `emit()` suspends depends
on the configured notification URLs and is the constant `Notify`.

Abstractions: the second await of a poll (the G-code name) is merged with the
first, since nothing shared is read between them; the event at the very end of a
poll is skipped, since nothing follows it; times are reduced to what is compared
(an estimate is there or not, the grace period has passed or not); the health
monitor is restricted to the streams as they concern the managed profile, and the
failure counter saturates at the threshold. `DeletePrint` is one step: the row
is deleted in one commit and only a timelapse's files follow.

Bounds: `MaxPrints` rows and `MaxRestarts` restarts. `rebind` in `Env` lets a
request choose another camera while a print is open; without it that choice is
made between prints only.

### GenerationQueue and RenderRequests

| Variable | Code |
|---|---|
| `queue`, `pending`, `events` | `_queue`, `_pending_jobs`, `_cancel_events` |
| `current`, `active` | `_current_job`, `_active_ffmpeg_proc` |
| `render` | where `generate_timelapse` is suspended, and the thread stages left |
| `ffmpeg` | encoder processes by job |
| `tracked` | `_active_generations` |
| `files`, `rows`, `prints` | outputs on disk, rows of `timelapses`, prints and their link |
| `profile`, `deletion` | the jobs' profile; a deletion between its commit and its unlinking |
| `reported`, `answered` | the last event of a job; when its owner was told "cancelled" |

`Dequeue` is one turn of `_worker` up to the first suspension of the render; each
following step is one suspension of `generate_timelapse` returning, with every
way it can go on: the next stage, a cancellation noticed, an exception. The ends
of the render (`EndsWith`) remove the output, forget the job in the tracker and
report it; `WorkerFinishes` is the worker's `finally`. Requests and cancellations
are loop steps; deletions are threads: their commit, then their unlinking.

`RenderRequests` is the promise: requests wait in order, one runs at a time, each
ends once, and one that was withdrawn while waiting never runs. `Renders` checks
that `GenerationQueue` implements it, with `pending` as the waiting requests; a
restart maps to the loss of all of them.

Abstractions: the thumbnail shares the fate of its video; the images of the
stages and the processes of ffprobe and the thumbnail are left out, their
timeouts and failures are swallowed by the code; an output is named by its job;
all jobs render one profile; one deletion is under way at a time; the output file
exists from the start of the encoder.

### ProfileLifecycle

`row`, `job` and `camera` are the profile's row, its job `capture_<id>` and the
stream's row; `request` and `monitor` are where the requests and
`check_all_streams` stand, with what they read. A request is a thread in four
steps: `RequestReads`, the commit (`RequestWrites`, `ProfileCreated`,
`ProfileDeleted`), `RequestRefreshes` and `RequestSchedules`. The monitor turns
the stream's health and calls the scheduler in one step (`Turns`) and commits
after the notification in another. What a commit writes is the difference to what
was read (`Merged`), as the ORM does it. `late`, `fresh` and `wish` are records:
whether a write or a scheduler call came from a row another actor had changed, and
the user's last toggle. A profile's other attributes and the other profiles of the
stream are left out.

### Schedules

`schedule` and `cronjob` are the rows and the arguments their jobs were added
with, `handler` the requests, in the same four steps. An update may change whether a
schedule is enabled, its preset and its cron expression in one request (`PutTimelapse`).
A realignment reads the schedules of a camera one after another and collects those it
moves (`Realign`), commits all of them at once (`Puts`), and then takes them one by one
through the second reading and the scheduler call (`Rereads`, `Reschedules`), in any
order; a row deleted after the commit ends that loop, and `stranded` records the
schedules that were still to come. `astray` records those whose job was made from a
row that had been overtaken, or lost in a deletion that failed. Of a cron expression only
its place in the day is kept and of a profile's window likewise, since that is
what `realign_cron` compares. The rows of a deleted profile cascade and their jobs stay
for good (`Cascades`). A job that fires reads its row and gives up if that is gone or
disabled; neither it nor a render ordered by hand writes a schedule, so both are
left to the modules they start (`GenerationQueue`, `CaptureFiles`).

### CaptureFiles

A frame is the number of its capture. `files` and `rows` are what is on disk and
in `captures`; `capture`, `cleanup` and `removal` are where `capture_frame`,
`_run_profile_cleanup_sync` and a deletion of frames stand; `dated` says whether
the directory the capture made is still there; `access` whether the media tree can
be read. What a frame shows and what a source delivers are choices. The sweep's
guard counts rows (`MinRows`, in the code 5). One profile, one capture at a time
(APScheduler runs one instance of a job), one deletion of frames at a time.

### CaptureGap, HealthCache, StorageWatchdog, Migrations

`CaptureGap`: `alerted` and `openSince` are the two dictionaries, `check` the run
of `check_capture_gaps` with what it read at its start; times are reduced to
whether three intervals have passed. `HealthCache`: one key; `entry` is dated when
its probe began, as in the code, and a save is a commit and an invalidation with
anything in between; `ProbeLimit` takes the longest probe for one number, while httpx
applies its 3 seconds to connecting, writing and reading each, so that its real
value is a multiple of them, still far below the time to live of a minute. `StorageWatchdog`: the probe in its thread, the counter, the
pool (`poisoned`) and the process; `refusals` records the failed probes by cause.
`Migrations`: a database is what is recorded and how often each statement took
effect, `durable` after a crash and `view` on the connection; a statement that
defines an object takes effect at once unless a transaction is open, the first one
that writes rows opens it.

### CaptureClock, CronDays, MotionBlur, MjpegReader

`CaptureClock` counts time in slots: `nextRun` is computed by
`_compute_start_date` whenever the job is added, `frames` are the times of the
frames taken in the window. Any interval is allowed; the code's grid starts anew at
every full hour, or at every opening of a manual window, so it is one grid only for an
interval that divides the hour, or the day (`Steady`). Sun windows are the same every
day, and there is no daylight saving time. `CronDays` translates a stored field token by token.
`MotionBlur` keeps an image as the set of originals it was made from.
`MjpegReader` keeps the bytes of the two markers and one other byte.

## 4. What the runs show

| Run | Distinct states | What it shows |
|---|---|---|
| `PrintRequests` | 364,208 | two cameras, settings requests, deletion of a camera, restarts: one open print; capture exactly while one is open; scheduler and table agree; off means closed |
| `PrintFlaps` | 413,464 | the same state while the camera fails and recovers, with late estimates, a second job id, crashes at any step: capture exactly while a print is open, scheduler and table agree; of two prints between two polls the first is closed and rendered once and stays closed |
| `PrintNotified` | 1,396,990 | one camera with notifications on: the health monitor commits late, after a poll, a job-id change, a request, a failed commit, a deletion or a crash came in between, and a print in flight is filmed all the same |
| `PrintPowerOff` | 62,360 | a printer that never answers again is given up (liveness) |
| `Renders` | 662,706 | three requests, a print among them: one encoder, an honest list, events while alive, honoured cancellations, owned outputs, rows with outputs, true reports, and the refinement of `RenderRequests` |
| `RendersEnd` | 47,038 | every request ends, whichever encoder hangs, stage fails or restart comes in between (liveness) |
| `Services` | 410,004 | eleven services, one at a time: see below |
| `PrintStaleConfig`, `PrintMarkerLeft`, `PrintLateRecovery`, `RenderLateCancel`, `RenderLinkRace` | | five of the disagreements of section 6 |

`Services` picks one of eleven services (`subject`), which then takes all the
steps, so that its states are the sum of their instances and not the product.

| Service | Properties | What they show |
|---|---|---|
| media | `MediaAccounted`, `HiddenTreeKeepsRows`, `DanglingRowsGo` | without faults no frame is leaked and no row left behind; a tree that cannot be read from the start of a sweep to its end costs no row; after a fault the rows without files go |
| profile | `JobsFollowRows`, `UserToggleStands` | job and row agree once all have finished, unless somebody acted on an outdated row; what the user disabled while nothing else was about to write the row stays so |
| schedules | `SchedulesFollowRows` | a settled schedule has a job exactly if it is enabled, and the job of its row unless a realignment was cut short before its turn |
| gap | `OneAlertPerOutage` | at most one alert between two frames |
| health | `StaleNoLongerThanTTL` | an answer about a replaced configuration is shown for less than one time to live |
| watchdog | `ExitNeedsRefusals`, `OwnershipHeals` | an exit takes three failed probes, of which old connections cost one per outage; a volume that lost its owner gets it back (liveness) |
| migrations | `RecordedIsComplete`, `BootConverges` | recorded means executed in full and once; a database left halfway comes up (liveness) |
| clock | `FramesOnTheGrid` | for an interval that divides the hour (the day, for a manual window) restarts lose, double and shift no frame, the rest of an overnight window after midnight excepted; for any interval the next run is at most one interval, or today's opening, away |
| cron | `DaysOfWeekKept` | the days of a field of names or of numbers are those of cron, with ranges that wrap and both numbers of Sunday, `0-7` excepted |
| blur | `BlurReadsOriginals` | averages of originals, with a cache no larger than a window |
| reader | `FirstImageReturned` | the first whole image, wherever the stream is cut |

Bounds. Two prints and two job ids are what a job-id change needs (an old print
and a new one); one restart separates a before from an after; two cameras let the
profile move; a threshold of two lets a failure be counted before it condemns.
In the queue three requests give a head, a middle and a tail beside the running
job; one thread stage after deflickering gives a check of the cancel event
between two stages; one print gives every kind of job. In `Services`: two frames and
a guard at two rows let the guard apply to all of them and not apply to one; two
requests cross each other and the monitor; two requests on two timelapse schedules
and a cleanup schedule cross each other, or one deletes what the other realigns, and
one schedule is left behind by another, where two of the three are there from the start,
made from a preset at midnight, and the third is yet to be made; two profiles, one windowed, give the gap
check one to notify and one behind it; three outages and a threshold of three let
streaks be broken and completed; three boots may be cut off while four files hold
every order of objects and rows; two days of eight slots hold windows by day, over
midnight and of one slot, and intervals of one to four slots those that divide the hour
of two, those that do not and those that exceed it; five images exceed the window of a blend of three and
reach that of five; six bytes hold an image, its markers cut anywhere, and a limit
of four. `PrintRequests` and
`PrintFlaps` split the surroundings because their product is too large: requests
and deletion in one, camera failures and crashes in the other; `PrintNotified` has
both, for one camera and one property.

Where a property is not checked because the code does not have it, the run's
surroundings say so: `PrintFlaps` sets `Notify` to FALSE, as with notifications
on the health monitor commits late (`PrintLateRecovery`); `PrintRequests` has one job
id, as a job-id change meets a stale configuration (`PrintStaleConfig`), and restarts
at an await only, as a crash between the two commits of the settings request
leaves an open print behind; neither moves the profile during a print, and
`PrintNotified` has one camera to choose from, as with two a late verdict meets a
profile that was moved; `Renders`
has no `delete_print` and no `db_error`, as either lets `_link_print_job` raise
after the commit (`RenderLinkRace`). `OutputHasOwner` is stated up to the first
restart: a restart kills the encoder and nothing sweeps what it wrote.

`CHECK_DEADLOCK FALSE` is set in the runs of `GenerationQueue`: every id is
requested at most once, so that an instance comes to rest when all have ended; and
in `Services`, where a migration, a translation, a blur or a fetch comes to an end and
the requests on schedules are numbered.

## 5. Fairness

`FairSpec` of `PrintCapture`. The steps that hold the loop (`PollAddsJob`,
`PollClosed`, the second half of the settings request) are weakly fair: nothing
disables them but their own execution or a restart. The steps that wait for the
loop (`PollStart`, the answer of a poll that timed out, the second reconcile, the
monitor's commit) are strongly fair: other coroutines hold the loop now and then,
and asyncio serves its ready queue in order. The interval trigger fires again and
again; a request times out; time passes (`GraceExpires`). Nothing is assumed of
the user, the cameras, deletions or of a printer that may still answer.

`FairSpec` of `GenerationQueue` is weak fairness of the worker: threads end,
processes end or are timed out by `wait_for`, and the loop resumes the coroutine.
A deletion may stop halfway, an encoder need never end by itself.

`ServicesFairness` has three parts. A service's own process goes on (`JobStep`):
the watchdog's job is due every three minutes and its thread runs, a boot runs to
its end unless it is cut off, and cleanup is due again by its schedule. What passes
by itself passes (`FaultPasses`): a hung mount, a read-only spell and lost
permissions, the faults `storage_watchdog.py` and `retention.py` describe as
transient; foreign ownership does not pass by itself. And a container that exited
is started again (`ContainerStarts`), which is the restart policy the watchdog
relies on. Faults are bounded, so that in the end one probe or one boot is left
alone; nothing is assumed of users, cameras, captures or connections.

## 6. Where the code and its comments disagree

* `PrintStaleConfig`: the second reconcile of a job-id change runs on the
  configuration from before the notification; a request that switched the
  integration off meanwhile leaves an open print (`prusalink.py:418`).
* `PrintMarkerLeft`: switching the integration off while the camera is down keeps
  the auto-disable marker; the recovery then captures without a print
  (`settings.py:422`, against `prusalink.py:468-470`).
* `PrintLateRecovery`: with notifications on, the health monitor commits the
  marker after the close of the print cleared it; the next recovery captures
  without a print (`health.py:97`, against the same comment).
* `RenderLateCancel`: a cancellation during ffprobe or the thumbnail is answered
  "cancelled" and the timelapse appears (`timelapse.py:880-883`).
* `RenderLinkRace`: the failure handler removes the file of a committed row when
  its print is deleted while being linked (`timelapse.py:971`).

Five more, in the services, each a property that the module states and that TLC finds
violated in the configuration named (`tlc -config GapMarkLeft.cfg CaptureGap`). They are
kept beside the runs of section 4, which check the part that holds.

| Configuration | Module | Property | The part that holds |
|---|---|---|---|
| `RealignStranded` | `MCSchedules` | `RealignedFiresThere` | `SchedulesFollowRows` |
| `GapMarkLeft` | `CaptureGap` | `MarkClearedByFrame` | `OneAlertPerOutage` |
| `ToggleOverridden` | `ProfileLifecycle` | `ToggleNeverOverridden` | `UserToggleStands` |
| `CronMixed` | `CronDays` | `MixedFieldsKept` | `DaysOfWeekKept` |
| `SweepHalfHidden` | `CaptureFiles` | `SweepSparesFiles` | `HiddenTreeKeepsRows` |

* `RealignStranded`: a realignment commits all rows and then reschedules them one by
  one; one that is deleted in between ends the loop, and those after it go on firing at
  the time "this no longer fires at" (`timelapse_schedules.py:233`, against line 224).
* `GapMarkLeft`: the mark of a gap alert is set after the notification was awaited, over
  a frame that came meanwhile, so that the next outage is silent
  (`capture_gap.py:113`, against "cleared on successful capture", line 13).
* `ToggleOverridden`: a user disables a profile while the health monitor waits for its
  notification; the late commit leaves the marker, or the recovery, over the toggle
  (`health.py:97`, against `profiles.py:84-85`, "health recovery can't silently override
  it"). Without that moment the toggle stands (`UserToggleStands`).
* `CronMixed`: a field that mixes numbers and names is passed on as it stands, its
  numbers off by a day (`cron_utils.py:31`, against line 48, "so '0,sun' collapses
  cleanly").
* `SweepHalfHidden`: the guard of the orphan sweep asks for all rows to be missing;
  access that is lost after the first file was seen costs the rows of all the others
  (`retention.py:72`, against lines 61-62, "an implausibly large share").

### Known limits of the code

What the properties above except, found while modelling, where no line of the code's
comments or documentation promises otherwise.

* Reachability cache: two page loads that miss at once both probe, and a probe
  under way during a save stores its old answer after the invalidation; it then
  lasts for the rest of its time to live (`health_status.py:24-25`).
* Gap check: the last frames are read once, so a frame that arrives while another
  profile's alert is sent is followed by a false alarm; the
  window marker of a profile that is disabled is kept, and its grace period is over
  when it is enabled in a later window.
* Watchdog: a probe on a mount that hangs for good never returns, and the process
  is not restarted (`storage_watchdog.py:97-99`).
* Profiles: two requests of which one read the row before the other committed, or a
  request between the monitor's scheduler call and its commit, leave an enabled
  profile without a job or the reverse until the next restart or request
  (`profiles.py:164`, `health.py:97`); `JobsFollowRows` excepts them (`late`).
* Capture files: cleanup may remove a directory a capture has just made, and the
  capture fails (`retention.py:234-235`); a profile with fewer than five rows loses
  the rows of files that cannot be read (`retention.py:31`); a file left by a crash
  between a commit and its unlinking stays, since the sweep goes from rows to disk
  only (`captures.py:113-116` calls it recoverable).
* Schedules: the range `0-7` is taken for Sunday alone (`cron_utils.py:43`); a failed
  commit of a deletion leaves the row without its job, and a request that schedules from
  a row another one has changed since makes an outdated one, both until the next restart
  or request on the schedule (`timelapse_schedules.py:249-251`, `186-191`); these are
  what `SchedulesFollowRows` excepts (`astray`).
* Capture clock: an overnight window loses the rest of its night when the job is
  added after midnight (`scheduler.py:41-44`). For an interval that does not divide the
  hour, which the schema allows and `compute_interval` produces, a restart begins a new
  grid at the last full hour; one longer than an hour is put off again by every
  restart within the hour.

## 7. What is proved

Every safety property that a passing run checks, invariants and action properties,
is also a theorem, for every value of the constants: any set of cameras, job ids,
requests, rows or files, any bounds, and any surroundings but those a theorem
names. The assumptions are those of the modules (`PrintCaptureAssumption` and so on:
which constants are sets, numbers or flags, that the "none" values are not members,
that an hour divides the day), which TLC evaluates on the instances of the runs.

### The print in flight

`PrintCaptureProofs` proves in all surroundings `TypeCorrect`, `OnePrintAtATime`,
`NoSecondRender` and `ClosedForGood`. Neither `AtMostOneOpen` nor
`RenderedOnce` is inductive alone: a rising edge writes to a row the invariant
must know to be blank, and a poll that closed a print asks for its render after a
commit that a deletion may follow. The invariant adds what these steps rely on.
`RowsInOrder`: rows beyond the last id are blank, so a new print never overwrites
an old one. `PollCarries`: a poll between its close and the rest carries a status
and a row. `RenderNotBeforeClose`: a print that is not over has no render, and the
one a poll has just closed is over and not yet rendered. `DeletionNamesStream`: a
deletion under way names a stream, so its cascade spares the rows without one.
`ClosedStaysClosed` follows step by step from the same invariant.

`PrintFilmingProofs` ties the print to the managed profile, the job and the switch.
These properties hold in some surroundings only, and each theorem has its own as a
hypothesis on the constants:

| Theorem | Property | Hypothesis |
|---|---|---|
| `OneCameraFilms` | `OpenPrintIsFilmed` | there is one camera |
| `PrintsAreFilmed` | `OpenPrintIsFilmed` | `Uninterrupted`, `Bound` |
| `JobsMatchRows` | `JobMatchesRow` | these, and no commit of the poller fails |
| `OffEndsPrints` | `OffMeansNoOpenPrint` | nobody switches off; or `Uninterrupted`, `Bound` and no crash |
| `NoStrayCapture` | `NoCaptureWithoutPrint` | `Uninterrupted`; `Bound` or no camera is deleted; nobody switches off or no camera fails |

`Uninterrupted`: nothing is awaited in the middle of a change of the profile, that
is, notifications are off, or no camera fails and there is one job id.
`Bound`: no other camera is chosen during a print or a deletion. Between them the
hypotheses hold of every run that checks the property. They are needed: the runs of
section 6 show what awaiting does (`PrintLateRecovery`, `PrintStaleConfig`) and what
switching off a marked profile does (`PrintMarkerLeft`); a crash between the two
commits of the settings request leaves a print open; and a failed commit of the
poller leaves an enabled profile without its job. With two cameras and
notifications on, TLC finds a print that is not filmed: a verdict about the old
camera is committed after the profile moved to the new one.

The invariant has layers, each of which the next relies on. `Base`, in all
surroundings: row ids are never used again, and a handler remembers ids that were in
use and a configuration that was running. `LoopKept`, from `Uninterrupted`: no verdict is held
back, and the second half of a poll finds the configuration it began with. `FilmInv`:
a print in flight has its profile, on the print's camera and on the configured one,
enabled or marked by a monitor that found this camera down; a deletion that read the
profile's id knows its camera. `OpenedFilmed`, `JobInv`: between the commit of a
rising edge and its scheduler call the profile is still on and the print open, so
that the call is right. `OnInv`, `OffInv`: an open print has a running configuration,
or a request that has yet to close it. `CaptureInv`: whatever would make the profile
capture, now, after a recovery or after a restart, goes with an open print.

`OneCameraFilms` needs none of these but `Base`. Its invariant, `OneCameraInv`, is
about verdicts that wait for their notification while prints end and begin
(`VerdictStands`): such a verdict writes both columns or none, its profile is still
the managed one unless the camera is gone with all its prints, and one that finds
the camera healthy leaves no marked profile behind. That a marked profile is
disabled (`MarkerOnDisabled`) is what makes the monitor write both columns.

### The generation queue

`GenerationQueueProofs`: `TypeCorrect`, `EventsMatchJobs`, `OnlyOneEncoder`,
`CancellationsHold`, `OutputsOwned` and `ListIsTheQueue` in all surroundings, and
`RowsHaveOutput`, `ReportsAreTrue` in surroundings without deleted prints and failing
commits (`Calm`), where they hold. The invariant is built in layers. `QueueInOrder`:
the queue and the list hold no id twice, an id that waits was requested, is not
running and has no row; it needs the lemmas on `Append`, `Tail` and `RemoveAt`
of sequences without repetition (`AppendOnce`, `TailOnce`, `RemoveOnce`).
`CancelWillBeSeen`: the event of whoever was told "cancelled" is still set where
the worker or the render will look for it, which is what makes `CancelHonoured`
inductive. `OwnerInv`: an idle deletion claims nothing. `RowsKept`: what a
deletion is about to unlink has no row and is not being rendered, except past the
commit, and a job that reported is over.

`QueueKeepsPromise` is the refinement: in all surroundings, every step of
`GenerationQueue` is a step of `RenderRequests` or leaves its variables alone,
under the mapping of `KeepsPromise`. Apart from the invariants above it needs that the list shows
the queue without the withdrawn (`ListedAsQueued`), so that the request the worker
takes is the first one waiting, and `EndsInOrder`: what has ended waits no more, and
the running request has ended exactly while its outcome is being reported. Each
action of the queue is one lemma that names the abstract step, or none.

### The services

Each theorem is about the service's own specification (`WatchdogSpec`,
`HealthSpec`, ...) and names no surroundings.

* `MonitorsProofs`. The watchdog (`WatchdogTypes`, `ExitsForGoodReason`):
  `CountsRefusals` ties the counter to the recorded refusals, up to the failure that
  is yet to be counted; `PoolWithinOutages` says that while the volume is bad or an
  old connection waits for a probe, one outage has not been charged yet. The
  reachability cache (`StaleAnswersExpire`): every stamp in the cache or in a page
  load is dated no later than the replacement of its configuration (`DatedInTime`),
  and a probe ends within its limit, which is below the time to live. The gap check
  (`AlertedOnce`): a profile that was alerted bears the mark, or the check is
  suspended in its notification (`AlertLeavesMark`). Migrations
  (`RecordedFilesComplete`): the database is consistent twice, as a crash would leave
  it and as the connection sees it (`Consistent`); the two agree while no transaction
  is open, and then the file under way has executed nothing but definitions.
* `RowsAndJobsProofs`. Schedules (`ScheduleTypesKept`, `SchedulesKeepTheirJobs`): a
  row that no request owes a scheduler call or a commit has its job (`JobsAgree`), but
  for one that a realignment left behind, whose job is still there exactly if the row is
  enabled; since a request whose second reading was not overtaken holds the row as it is
  (`FreshReading`), only a realignment has several rows to reschedule, and it leaves
  each of them enabled or disabled as it was (`HandlersInOrder`). Profiles
  (`ProfilesKeepTheirJob`, `DisabledStaysDisabled`): the same for requests and the
  monitor (`Knows`, `MonitorKnows`), through the three lives of a profile, before it
  is stored (`Unborn`), while it exists (`JobKept`) and once it is deleted
  (`GoneForGood`); what the user switched off bears no marker and the monitor holds
  no verdict on it (`OffKept`).
* `CaptureFilesProofs` (`FramesAccounted`): `FrameApart`: the frame in the making
  has a number no row, cleanup or deletion knows; `FrameOnDisk`: its file is there
  from its fetch to its row, unless the profile was removed; with faults only the
  types are kept, and faults stay. `HiddenTreeSpared`, with faults: while the tree has
  been hidden since the sweep began, what it looked at is missing and the rest is
  still to be looked at (`HiddenMissesAll`), so at the commit all rows are missing.
* `AlgorithmProofs`. The capture clock (`RestartsKeepTheGrid`): the next run lies
  ahead, at most one interval away or at today's opening, whatever the interval is; where
  the grid is one, it is a tick, and every tick in between is outside the window or known
  to be skipped (`RunIsNext`); the lemmas are about division, where the library has none:
  what `_compute_start_date` returns is on the grid, lies ahead and passes over no
  tick (`StartsOnTheGrid`). Days (`DaysAreThoseMeant`): the days so far are those of
  the tokens translated so far (`UnderWay`); a token's days are cron's by cases
  (`WordsMeanTheSame`, `NumbersAreTranslated`). The reader (`FirstImageFound`): the
  buffer is the stream from a place before which no image starts (`HeldFrom`), and
  no image has been passed over (`NoneMissed`); that a set of places has a least one
  comes from the well-foundedness of the natural numbers (`LeastExists`). Motion blur
  (`OriginalsBlended`): what lies ahead on disk and what is in the cache is original,
  and the cache is exactly the window of the last image; the bound on the cache is the
  cardinality of an interval.
* `ServicesProofs`. `ServicesAreApart`: a run of the composition is, for each of the
  eleven services, a run of its own specification, as each step of the composition is
  the service's own or leaves its variables alone. From it, `ServicesTypeCorrect`
  and `ServicesKeepTheirPromises`: what was proved of the services holds of what
  the run checks.

### Only model-checked

Liveness needs fairness, which the prover's temporal backend does not reason about,
and with it `PowerOffClosesPrint`, `EveryRequestEnds`, `DanglingRowsGo`,
`OwnershipHeals` and `BootConverges` stay with TLC. So do the violations of section 6,
which are counterexamples. Of the properties that need a hypothesis nothing is claimed
outside it.

## 8. What is not modelled

* The cleanup of timelapses and their thumbnails runs through the same steps as that
  of frames and is not modelled a second time; its races with a render are not.
* `get_period_range`, `_resolve_fps`, `compute_interval` and `format_print_name`:
  pure functions of dates and numbers, left in the plan.
* Creating, updating and previewing a stream, templates, and settings other than the
  printer's, go2rtc's and the gap check's: each writes rows nothing else writes.
* Notifications in the database and the SSE queues of the browsers: `emit` appears
  as a suspension only.
* Pixel arithmetic (corruption, infrared, deflicker, heatmaps, overlays), the HTTP
  clients, read-only reports and the web frontend: they keep no state that anything
  here depends on.
