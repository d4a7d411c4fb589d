# A verification project for PuvuCraft Radio

PuvuCraft Radio is a multi-channel internet radio on one machine: a FastAPI
backend that owns a SQLite database and supervises FFmpeg processes, a Vue web
client and an Android client. The modules in this directory model the parts of
the backend whose correctness depends on the order of events, and state and
check what they promise. Paths below are relative to the repository; in
`PROJECT.json` they carry the prefix `src/`.

`tlc -config <cfg> <module>` runs a check, `tlapm <module>Proofs.tla` the proofs
(`ChannelProofs.tla` holds those of both `ChannelRuntime` and `Timeline`).

## 1. The system

| part | state | operations | talks to |
| --- | --- | --- | --- |
| external player connections (`services/audio_streams.py` registry, `routers/player.py`, `services/player_tokens.py`) | leases by key generation, one request each with a subscription, a watcher and a timer | resolve, open, activate, attach, stream, supersede, force-cancel, release; revoke an account; regenerate a key | playback manager (opens streams), accounts (revoke), fanouts |
| audio fanouts (`services/audio_streams.py`) | subscriber queues, FLAC join window | subscribe, publish, consume, close | supervisor (publishes), connections |
| playback manager (`services/playback.py`) | supervisors, a lock per channel, demand and refresh times, routes, snapshots | reconcile, remove, command, monitor, idle refresh | administration, listeners, supervisors, timeline |
| channel supervisor (`services/playback.py`) | a task, decoder, AAC and FLAC encoders, commands, the status column | start, stop, play, begin a track, checkpoint, back off | timeline, FFmpeg, fanouts |
| logical timeline (`services/timeline.py`) | `playback_state`: current item, position, anchor, status, shuffled order and cursor | recover, select next, force an item | manager, supervisor, playlist edits |
| upload queue (`services/uploads.py`, `routers/uploads.py`) | `upload_jobs`, temporary files, request and worker tasks | reserve, heartbeat, schedule, receive, process, cancel, close, recover | import, the web page |
| import and storage (`services/media.py`, `services/storage.py`) | tracks, files at several locations, digest locks, space reservations | import, place, delete, scan | upload queue, track administration |
| accounts and sessions (`security.py`, `routers/auth.py`, `routers/admin.py`) | users, sessions, authorization cache, bootstrap token, rate limits | register, approve, log in and out, revoke, first administrator | everything that authorizes |
| administration (`routers/admin.py`) | channels, playlists, libraries, tracks | create, update, delete, reorder, skip, play now | manager, timeline, storage |
| routes, HLS authorization, events, listeners (`routers/channels.py`, `services/events.py`, `services/listeners.py`) | route index, per-user listening state, subscriber queues | authorize, touch, count, publish | manager, sessions |
| web client (`frontend/src`) and Android client (`app/`) | player, session, upload page | load, retry, log out | the API |

Three kinds of concurrency meet: coroutines on one event loop, which interleave
only at an `await`; request handlers and workers in threads, which interleave
anywhere and share rows without a lock; and FFmpeg processes. Threads reach the
loop through `call_soon_threadsafe`, so what they order runs later.

### What must hold, part by part

* connections: one undisturbed stream per key; the registry is exact; the limit
  is kept; a displaced or revoked stream ends although its client does nothing.
* manager and supervisor: one supervisor per channel; status, slug and process
  agree with the row once nothing is under way; disabled and unwatched channels
  stop.
* timeline: recovery neither moves the music nor fails; shuffled rounds are
  permutations.
* uploads: no file and no place is left without an owner; the queue keeps its
  limit; jobs that nobody waits for leave and those that wait advance.
* storage: equal content is stored once; a row and its file appear and go
  together; a copy never exceeds the space that was promised to it.
* fanouts: whatever encoder comes and goes, a listener hears one stream that can be
  decoded; a slow one harms nobody else.
* FLAC encoder: one process at a time, only while somebody listens, and nobody who
  waits for it waits for ever.
* routes and events: slugs lead where the rows say, and a browser shows the row, once
  the threads and the loop are done.
* accounts: a revoked session is refused after the cache's lifetime; an
  administrator remains; the first administrator is created once.

The hazards behind these are listed in `PROJECT.json`, each at its line.

## 2. Plan

Order and state of the modules; the most important behaviour comes first.

1. `PlayerStreams`, with the abstract `ConnectionTakeover`: done, proved.
2. `ChannelRuntime`, with the demand monitor's death, checkpoints that outlive
   their task, and the manager's shutdown: done, its safety proved.
3. `LosslessEncoder`, the FLAC half of the supervisor: done, its safety proved.
4. `AudioFanout`: done, proved.
5. `ChannelRoutes`: done, proved.
6. `Timeline`: done, proved.
7. `UploadQueue`: done, its safety proved.
8. `Accounts`, from the setup of the first administrator on: done, proved.
9. `MediaLibrary`, with the abstract `ContentStore`: done, proved.
10. `SupervisorLoop`: what is left of the supervisor's loop, which is the decoder,
    the backoff, the commands inside `_play()` and the HLS files; it refines the task
    steps of `ChannelRuntime`.
11. `LiveAudio`: the generation guards of the web player and of the session store.
12. Composition of `ChannelRuntime` with `Timeline`: `RefreshRaises` stands for it so
    far. The two can be used together (`ChannelProofs` does), as no name of one is
    a name of the other.

## 3. Modules

Each module names the code in its comments, and `PROJECT.json` maps every
definition to its lines. Operators marked *Mutant* are plausible bugs, one per
checked property; no action uses them. A run with the mutant in place of the
original refutes the property, which shows that the property can fail.

### PlayerStreams, ConnectionTakeover

A *connection* is one request on `/listen`. `pc` follows it from the account
look-up in a worker thread (`resolving`), the wait for the encoder (`opening`)
and for the first chunk (`joining`), the lease it got (`activated`) and the body
generator (`sending` while the client takes a chunk, `receiving` while it waits
for the next) to the `finally` block (`closing`). `registry` is
`_connections`; keys are pairs of an account and a generation, so an old
generation is another key. `superseded`, `timer` and `dropped` are the events
and the timer of a lease and its subscription. The registry's lock is held over
no `await`, so each of its methods is one step. The account row is changed by
other threads. A change is committed (`Commits`) by a request that then refreshes its row
(`refreshing` counts such requests) and only behind that orders a revocation
(`OrderRevocation`); `RefreshFails` is the request that ends without one. A deletion
refreshes nothing, so its revocation is certain to come (`deletion`). An ordered
revocation (`revokes`) runs later. `MaxPending` bounds what one account has under way.
`missed` remembers the connections that a revocation did not reach: it ran between
the check of their key and their lease, or the refresh failed.

`ConnectionTakeover` says what it promises: a key has at most one current
connection, a newer one displaces it, a displaced one drains and is never current
again, and draining ends. The refinement maps `registry` to `current` and the
superseded leases to `draining`; the liveness part of the abstraction is checked
as well.

### ChannelRuntime

One channel: its row, the jobs that hold or wait for its `asyncio.Lock` in order
(`queue`), the supervisor that the first job is stopping (`busy`), the
supervisor in the map (`mapped`) and for each supervisor object what its task
does and whether it has an encoder. A request commits the row (`SaveChannel`, `DeleteChannel`) and schedules its job in a
later step (`SaveReconciles`, `DeleteRemoves`), so that jobs may be queued in another order
than the rows were written; `saving` and `removing` count the requests in between. A
request whose `db.refresh()` fails schedules nothing (`SaveRefreshFails`), and a removal
may come when another channel has got the deleted one's id. A job that does not stop a
supervisor has no `await` under the lock and is one step; one that stops is two, and
everything else happens in between. The monitor's decision is a job that looks at its
conditions again. The supervisor's loop is what it does to its encoder and to the
status column. `idle` and `offline` are one status (`resting`), and `starting`, `live` and
`degraded` another (`running`). `AlwaysOn` is the setting; `MaxJobs` bounds the jobs in
the queue and the requests on their way to it when one is added (a crash adds one more).

A checkpoint writes the status in a thread: `writing` are the supervisors whose task
waits for one, and `late` tells that a thread has outlived its supervisor. The monitor
ends when an idle refresh raises (`MonitorDies`). A reconcile may raise in the same place,
or before it has read the row (`ReconcileFails`), and any job when the last write of a
`stop()` does (`StopRaises`). `neglected` remembers that such a failure, a late removal or a late
checkpoint came after the last reconcile that looked at the row; the next one
makes up for it. `closing` follows `stop()` of the manager: it cancels the monitor,
which may leave a supervisor that ends on its own (phase `cut`), waits for the jobs,
and stops the supervisor that is left (phase `closing`).

### LosslessEncoder

One supervisor and everybody who touches its FLAC encoder: requests that wait for the
AAC encoder (`waits`), are woken, queue for `_lossless_lock` and become subscribers;
the monitor, which stops an encoder without listeners; the supervisor's task, which
starts the AAC encoder, writes to both, and may crash; and `stop()`. `lock` holds
whoever has the lock and those behind him, `held` the process whose end he waits
for. A process is followed from its start over a closed stdin and its exit to the
moment when its return code is known; its output task (`pumps`) ends later. `lost`
and `late` remember what a cancellation or a crash lets go of. It is assumed
that starting a process takes longer than the output task of the stopped one needs to
end, since both only wait for the event loop.

### AudioFanout

One fanout, AAC or FLAC, over successive encoders. A byte is the pair of its encoder
and its position, so that a stream with a gap, a missing header or a mixture of two
encoders can be told from a good one. A fanout closes when its encoder stops, and the
old output task may still publish then (`drains`). `published` holds the times from
which the age limit counts. Where FLAC frames begin is left open: the window
handed to a later listener begins at any byte behind the header.

### ChannelRoutes

Channels, the index of their slugs, and a browser that follows one of them. Each
request is a thread: it loads a row, commits an insert, an update or a deletion, reads
the row back, writes the index, and publishes an event and a reconcile. The reading back
may fail (`RefreshFails`), and then nothing is published and nothing reconciled. A reconcile
reads the row in a thread, which may fail too (`ReconcileFails`), and writes the index
afterwards. The history variables name the crossings and failures under which the code does
not keep its promise: an id that SQLite gave out again, a slug that more than one channel
had, a deletion that overtook a reconcile, a row whose last change no reconcile has read
since a refresh or a reconcile failed (`missed`), a row that no request has read back
since it was written (`unread`), two publications in the wrong order, an event pushed out
of a full queue.

### Timeline

The persisted timeline of one channel in whole seconds. `recover_timeline()` is
one transaction, but its loop is modelled pass by pass, as `Recover`, `WalkOn`,
`Arrive` and `Raise` on local copies, since the interesting failure lies in the
loop; nothing interleaves with it. `elapsed` is the time since the anchor, 0
where the code clamps a clock that went back. Random choices are
nondeterministic. Playlist edits bump the version (`fresh` becomes false), a
track that goes missing does not. The statuses that count time are one value,
`running`, with `idle` for `idle` and `offline`; only `stopped` differs in the
recovery, and only a running supervisor moves the position when it stops. `Playlist` is
a sequence without duplicates, since its elements are ids of rows. `Kept` is the
comprehension of `_available()`, and `Ends` lays the playable tracks end to end.

### UploadQueue

Each transaction is a step that reads rows and one that commits, because pysqlite
begins no transaction for a SELECT, and an UPDATE by primary key does not look
whether the row changed. Four kinds of actors interleave: administrators'
requests (`admin`), the scheduler's thread (`scan`), one worker per job, and the
event loop, which is in at most one transaction (`loop`) since `receive()` runs
its transactions without an `await`. `request` and `worker` are the tasks,
`part` the temporary files, `cancelling` the cancellations ordered with
`call_soon_threadsafe`. Every transaction may fail; so may the handling of a
failure, whose own transaction comes before the removal of the file. A job that this or a
failing removal happens to is `astray`, and for the jobs of `Fallible` only: a bound that
`uploads` sets to all jobs, `upload_progress` to the first and `upload_lost_update` to none. A request
that ends without taking its entry out of `_upload_tasks` (`services/uploads.py:451`,
`490`) has the value `leaked`. A crash drops all tasks; `Restart` is the recovery at the
next start. Clocks appear as `seen` (a recent heartbeat) and `leased`, which may
end at any time. `verifying`, `normalizing` and `placing` are one status;
`rejected` is like `completed`; `failed`, `cancelled` and `expired` are `ended`.

### Accounts

The service starts with a token and without accounts. `create_first_admin()` looks for
an administrator and at the token under a lock (`setup`), commits (`created`) and removes
the file; `token` tells whether the file has served (`spent`), because a failure between the
commit and the removal leaves it. `Restart` runs `synchronize()`. The
configuration admits no service without the token (`config.py:338`). Handlers run in worker threads, so a handler is cut wherever it touches the
database or the cache. `live` are the sessions whose rows are neither revoked nor
expired; a slot of `Sessions` takes the next session when nothing refers to the
last one. A login reads and selects the sessions that it will revoke (`reading`),
commits (`committed`) and tells the cache; a logout does the same in two steps
(`loggingOut`). An administrator's request is authorized, reads its target and
counts the other administrators, commits, and tells the cache. An HLS request
misses, reads, and stores its result if no invalidation came in between:
`current` holds the readers that missed under the present generation of the
cache, and every invalidation empties it.

Two facts of SQLite matter and are modelled. Without AUTOINCREMENT the id of the
deleted newest account is given to the next one. An audit row refers to its
author, so a request of a deleted administrator fails when it commits, unless the
id lives on in another account. The statuses `pending`, `rejected` and `disabled`
are one; which of an account's sessions are its newest is left open.

### MediaLibrary

Rows and files are two stores that no transaction covers together, so every
handler is cut between its work on one and on the other. A *file* is a pair of
`storage_id` and `storage_name`; it is absent, a hidden `.part`, published, or `stuck`,
which is a published file that no row names and whose removal failed. Every removal may
fail (`Removal`) for the files of `Fallible`, a bound; when that of a
`.part` does, the space stays promised as well. An
import is followed from the staged file through its digest lock, the first look
at the rows (`looked`), the promise of space and the copy (`copying`, `copied`,
`published`, `placed`), the second look (`rechecked`) and the commit of a repair
(`replaced`) or of a new row (`inserted`). Deletions remember the file that the
row named; the supervisor's marks and the scan's verdicts go to the row by its
id, which SQLite may have given to another track by then. `MountChanges` takes a
location away and brings it back. `Restart` may happen anywhere and removes the
`.part` files it can reach, up to the first that it cannot remove.

Every file has size 1, and each location is on a disk of its own: two locations
on one disk do not see each other's reservations in the code. One scan runs at a
time, up to its commit; the imports that follow it are imports. The playing item
stands for its track. The handler of an `IntegrityError` is not modelled, because
`UniqueIndexNeverHit` shows that one process never raises it.

`ContentStore` says what it promises: a content has one name and a name one content,
a file is complete before it is named, what is named is not discarded, and a
restart loses none of it. The one exception is named: an insert whose `refresh()`
fails takes the file back although its row is committed (`Withdraw`). The
mapping takes the pairs of digest and file in the rows for what is held, the published
files that are not stuck for what is stored, and the files of committed inserts that have not been answered
for what is settling. A repair goes by the row's id, which may belong to another track
by then, so the store does not say that a file contains what it is named for.
A removal that fails discards the file as well as one that succeeds, since nothing looks
after it any more. Promises, staging, locks, marks and scans are stutters.

## 4. Runs

| run | shows | bounds |
| --- | --- | --- |
| `player` | registry exact, a replaced key silent but for the known race and the failing refresh, superseded and revoked streams end, implements the takeover | 1 account, 2 keys one after another, 1 change of the account under way, 2 connection slots, capacity 1: a takeover, a stale generation, a full registry and a change without a revocation all occur; a slot is reused without limit. Two changes at once are too many states for a run; the theorems hold for any number |
| `runtime` | one supervisor, status and slug at rest, stops of disabled and unwatched channels, nothing starts during a shutdown | 2 supervisor objects (one may be stopping while another could start), 2 slugs, 2 jobs or requests, so that any pair of them overtakes and overlaps, with a shutdown at any moment |
| `timeline` | phase kept, sequential recovery succeeds, rounds are permutations without repeats | tracks of 3, 1 and 1 seconds, up to 3 seconds between two anchors; position and elapsed time reach more than a round |
| `timeline_shuffle_recovery` | **violation** of "recovery succeeds" | same |
| `uploads` | every file and every place has an owner, but those of a job astray | 2 jobs of a page, 1 upload place: a waiting job and an active one; cancellation of each job or of both; error handling and removals of both may fail |
| `upload_progress` | jobs of silent pages end, waiting jobs advance, unless a dead place holds them up | same, without cancel requests, and with failing error handling for the first job only, so that the second is the one that it harms (liveness over all of them is too large) |
| `upload_lost_update` | **violation** of the queue limit | 2 jobs, limit 1 |
| `accounts` | setup gives one administrator, no session that the database refuses is in the cache once its handler has answered, what it takes to lose the last administrator | 2 accounts, 2 sessions, 1 kept per account, 2 requests of setup or of administrators at once, 1 HLS request: setup, promotion, deletion and an id given out again |
| `media` | limits kept by concurrent copies, unique index never hit, named files stay, what may leave a file behind | 3 files at 2 locations (near is preferred and takes one file, so the second copy goes to far and a third has no place), 2 contents, 1 row, 2 imports, 1 deletion, 1 supervisor: an id is reused, a repair meets a deletion, copies compete for the last place; the removal of the file at the second location may fail, the first one may be unmounted |
| `routes` | index and browser agree with the rows at rest, but for named crossings and failures | 2 ids of which one has a row at first, 2 slugs, 3 requests, a browser's queue of 1: a slug changes hands, an id is given out again, an event is pushed out |
| `fanout` | one decodable stream each, queues within bytes and age, slow ones alone | 2 listeners, 2 encoders of 5 bytes, header and window of 2, buffer of 4, age 2, time to 3: a queue reaches each limit, also with a header in front, and a second encoder follows |
| `lossless` | one process, one voice, stops by the owner only, nothing remains, everybody is served | 2 listeners, 3 processes: one replaces another while a third actor still looks at the first |

Deadlock is not checked where the system or its bound really ends: `player` and `runtime`
(shutdown), `lossless` (a supervisor that is gone, the last process), `fanout` (the
last byte and second).

### The violations

Two runs refute what a document says of the code; `PROJECT.json` quotes it.

* **Shuffled recovery may raise** (`services/timeline.py:168-178`). For tracks of
  3, 1 and 1 seconds, standing at the second, four seconds late: the order ends,
  a new round begins with the two short ones, and three passes do not reach the
  offset. The exception ends the demand monitor, or the start of the service.
* **A cancelled upload may come back** (`services/uploads.py:706`): the scheduler
  overwrites the cancellation with its promotion, and more jobs than the limit
  are in the queue.

### Known deviations

Other properties hold because they name the one way in which the code departs from
what one would expect. These are the departures:

* **A replaced key may keep playing** (`routers/player.py:258`, against `SPEC.md:108`).
  The key is looked up before the encoder is awaited; a revocation in between finds no
  lease. And a key is replaced, or an account disabled, before `db.refresh()`, and its
connections are revoked behind it (`routers/player.py:109-111`, `routers/admin.py:212-218`); if the
refresh fails, nothing is revoked. `ReplacedKeyIsSilent` shows that these are the only ways.
* **A committed change may have no effect** (`routers/admin.py:346` and `386`). If
  `db.refresh(channel)` fails behind the commit, or a reconcile before it has read the row
  (`services/playback.py:350`), the channel is neither entered in the index nor announced to browsers
  nor started or stopped, until another reconcile. `DisabledChannelStops`,
  `RestMatchesRow`, `NoGhostRoute`, `EnabledIsReachable` and `BrowserShowsRow` name this.
* **A new channel may be stopped for a deleted one** (`routers/admin.py:424`). The removal is
  scheduled after the deletion's commit; SQLite may have given the id to a new channel by then,
  whose supervisor the removal stops and leaves with the status `stopped` until the next reconcile.
* **An encoder may be lost** (`services/playback.py:1270` and `1301`). The handle is taken
  before the wait for the process, and a cancellation of that wait leaves a process that
  nobody knows. `lost` in `LosslessEncoder`; for the AAC encoder `ChannelRuntime` lets
  `proc` become `none`.
* **A disabled channel may stay idle or live** (`services/playback.py:355-373`, `443-450`): a
  reconcile without a supervisor writes no status, a command writes one without a look
  at the row, and at shutdown the supervisor of a channel disabled just before writes
  `idle`. So its timeline goes on. `RestMatchesRow` is about enabled channels.
* **A checkpoint may write `live` after the stop** (`services/playback.py:1441`).
* **The monitor may end** by an exception (`services/playback.py:270`), for all channels.
* **The index may differ from the rows** (`ChannelRoutes`): a late publication enters an old
  slug or takes a slug away from the channel that has it now, a reconcile enters a channel
  that was deleted, an id given out twice carries its old route; a browser misses a
  change when its queue was full (`services/events.py:27`).
* **A failed upload may stay in the queue** (`services/uploads.py:477-492`, `520-528`). `_fail()` and
  `_expire_upload()` commit before the file is removed. If that transaction fails, the file
  and the row stay; if the row is in processing, its place is occupied until the
  service restarts. The same holds for a directory that cannot be made
  (`services/uploads.py:451`), whose entry in `_upload_tasks` stays as well. `NoOrphanedSlot` and
  `PartHasOwner` show that there is no other way; `AbandonedJobEnds` that an uploading
  row still goes when its page does.
* **A failed write may stop the wrong FLAC encoder** (`services/playback.py:1038`): the one that
  a request has put in place of the one that failed. **A request may start one
  on a crashed supervisor** (`services/playback.py:1145`).
* **The setup token may survive its use** (`routers/auth.py:96`), when `refresh()` fails after
  the commit. It serves again only if no administrator is left.

`LastAdminStays` and `AdminRowStays` hold and state the exception the code leaves.
Two administrators who disable each other at the same time both count the other
one, both commit, and no approved administrator is left. The last row of an
administrator goes only if the id of a deleted administrator was reused while a
request of his was under way.

`NamedFilesStay` and `LeftoverCauses` name their exceptions in the same way. An
import whose `refresh()` fails after the insert has committed removes the file of
the new row (`services/media.py:542-549`). Files stay behind when the service stops
between publication and commit, when the directory cannot be synchronized after
`os.replace` (`services/storage.py:144-148`), when their location is away at the
moment of the removal, when the removal itself fails (`routers/admin.py:54-58` logs it,
`services/media.py:497` suppresses it, `services/storage.py:152` raises it and keeps the space
promised), and when a deletion or a repair goes by a path that was read before
another repair (`routers/admin.py:870`). Nothing else in the modelled handlers leaves one. A published file
is not collected later; a `.part` is, by the next start.

### Fairness

* `PlayerStreams`: the event loop runs ordered revocations, armed timers, started
  or finishing generators and `receive()` with its timeout. A client that takes no
  chunk is never assumed to.
* `ChannelRuntime`: jobs run, a request that has committed goes on or fails, the monitor wakes every second while it lives, clocks
  advance, a crashed task runs its `finally` block, a shutdown goes on when the jobs are
  done, and waits for an exit are bounded by their timeouts. Nothing else is fair: no
  encoder needs to start or to fail. `UnwatchedChannelStops` assumes that the monitor
  does not die.
* `LosslessEncoder`: a task that can run does, a process whose end is waited for exits (it
  is killed after a timeout), and the output of an exited process ends. Nobody has to
  ask, to leave or to fail. That a wait for the encoder gives up is the code's own timeout.
* `UploadQueue`: a transaction that is begun ends, committed or not; the scheduler wakes every
  second, and of its transactions, which it tries over and over, some succeed; no
  other handler is obliged to succeed; leases run out; an import ends after finitely many stages. A worker and a
  cancelled request compete for the event loop with requests that may be refused
  without end, hence strong fairness. Clients need not send, so
  `WaitingJobAdvances` assumes that no request lasts for ever: the code puts no
  limit on a slow upload whose page keeps its heartbeat.
* `Timeline`, `Accounts`, `MediaLibrary`, `ChannelRoutes` and `AudioFanout` state safety only
  and assume none.

## 5. Proofs

Eight modules prove every safety property of the passing runs, invariants and action
properties, for all values of the constants under the named assumptions of the
modules: `PlayerStreamsProofs`, `ChannelProofs` (runtime and timeline of one channel),
`ChannelRoutesProofs`, `AudioFanoutProofs`, `LosslessEncoderProofs`, `UploadQueueProofs`,
`AccountsProofs` and `MediaLibraryProofs`. The assumptions say that limits are
positive, that sets of ids are finite where they are counted and apart from their null
values, that a playlist has no id twice, and that a FLAC header with the join window,
or a chunk, fits into a listener's buffer, as the constants of the code do. The bounds of the runs
are constants, so that the theorems hold for every bound.

`TypeCorrect` is in each (`RuntimeTypeCorrect` and `TimelineTypeCorrect` in
`ChannelProofs`). Where a run spends its properties on other questions, the type
invariant is proved only.

### Connections

* `RegistryAlwaysExact`, from `IInv`: `RegistryIsExact` with the facts it needs
  about lifetimes, that a timer, a superseded mark or a closed subscription
  belongs to a connection that has a lease (or, for the subscription, one). Each
  action that touches the registry is one of three helpers (`Supersede`,
  `Released`, `Refused`), with a lemma each. `AtMostOneStream` follows.
* `CapacityAlwaysKept`, by the cardinality of the held keys: an activation adds a
  key only below the limit, everything else removes or replaces.
* `ImplementsTakeoverSafely`: initial states map to initial states and every step
  to one of the abstract steps or a stutter, by cases on the actions.
* `ReplacedKeyAlwaysSilent`, from `CheckedKeys`: a connection past the check of its key
  has a key that is not outdated, or the change is not past its refresh, or a revocation is
  on its way, or it was `missed`.

### The channel: runtime

`AtMostOneSupervisor`, `RestAlwaysMatchesRow` and `ShutdownAlwaysFinal` follow from
`IInv == TypeOK /\ Ownership /\ Ending` and `Pending`. `Ownership` names who owns a
supervisor at each moment: the map, the job that is stopping it, its own end, or the
shutdown. `Ending` says what is over when the manager stops. `Pending`: while the manager
is up, whenever the row and the supervisor disagree, a job that repairs it is in
the queue behind the one that runs, or a request will schedule one, or the channel is
`neglected`. The invariant is about queues, so it comes with
lemmas for appending, finishing the first job and weakening.

### The channel: timeline

All follow from `Timed`. Its part `Orderly` says that neither the playlist nor a shuffled
order, stored or in the hands of a recovery, has an item twice: without it a kept
order would not be a round. Its part `OnItsWay` says that a recovery under way stands on
a playable item and, in a sequence, that the seconds left are fewer than those of the
passes left, `Rest(i, k)`, the k tracks from the i-th around the end of the list.

* `SequentialRecoverySucceeds`: no pass left means no second left. The step is
  `RestIs`: k tracks in a row are the first one and the k - 1 behind it.
* `RecoveryStaysInPhase`: each pass takes a track's length from the offset and adds it
  to the beginning, modulo a round (`RemainderAdd`, `RemainderSum`).
* `NoTrackFollowsItself` and `EveryRoundIsWhole`: `SelectNextIs` collects what
  `_normalize_shuffle()`, `_new_shuffle()` and the step in the list return.
* The lemmas below them are about the operators: what `Kept` keeps (`KeptIs`), that an
  order of a set has its elements once (`OrderIs`), that `NextAround` finds a
  playable item (`NextAroundIs`), where tracks end (`EndsAre`), and remainders.

### Routes

`NeverTwoSlugs`: each writer of the index takes the channel's old slug out before it
enters the new one, in one locked step, so the index and its inverse agree whoever
writes. The other three follow from `Settled`, in which whatever differs from the
row has somebody who will set it right:

* `StaleIsFollowed`: a reconcile that carries an old row is followed by another one, or
  a deletion has overtaken it, or the change is `missed` (the named exceptions).
* `EntryIsFollowed` and `RowIsFollowed`: an index entry that is not as the row says,
  or a row without its entry, has a request or a reconcile that is still to write. They
  give `SettledIndexIsRight` and `SettledIndexIsComplete`.
* `ShowIsFollowed`: the browser shows the row, or its last event about the channel does,
  or a publication is on its way, or the row is `unread`; this gives `BrowserIsRight`.
* `Held` is what makes the exceptions stable: who ever had a slug is recorded
  before anything of it can be published.

### Audio

`AudioFanoutProofs` proves `OneStreamIsHeard`, `QueuesStayWithin` and `NoOtherIsClosed` from
`Fanout`. `Prefix` says what the FLAC fanout keeps: the bytes up to now while the header
is not complete, then the header and the last bytes. `Served` says of a subscriber that its
account is exact (`Accounted`) and that what it has received, followed by what is queued,
is one stream up to the byte published last (`Follows`); `NotServed` says
that anybody else has the sentinel alone in its queue and has heard one stream. The
queue must be in the invariant since the property is about what is taken out of it later,
and the header since a later listener is given it.

`LosslessEncoderProofs` rests on `Encoding`. `Processes`: at most one process is neither ended nor lost,
that of the handle or the one whose end the holder of the lock waits for. `Fanout`:
listeners follow such a process, and who publishes is one. `Queue`: the task and `stop()`
wait for the lock once at most, and no request is behind `stop()`, which is why
nothing is started afterwards (`Ending`). `Blame` and `Stopper`: the process whose write
failed is not younger than the handle's, and whoever ends a process with listeners still has the lock.
They give `OneEncoderRuns`, `OneVoiceIsHeard`, `OnlyTheSupervisorStops` and
`StopLeavesNothing`.

### Uploads

`NoFileIsLeft` and `NoSlotIsOrphaned` follow from `Types` and `Tasks`. A row alone says too
little, because a transaction may overwrite it with a status that it read before. So
`TaskOf(j)` ties a job's row, file, request and worker to each other and to the transaction
that is about the job (`LoopOf`): whatever it will write, the task that frees
the place is there. Where it says that a task is there it excepts a job that is `astray`,
and only the failing steps (`ReceiveStarts`, `CloseFails`, `EndFails`, the removals) make a job so. While the service is down
nothing runs, which is what recovery finds.

### Accounts and files

* `SetupAlwaysOnce`, from `OneSetup`: one request at a time is past the lock, it has seen a
  token, and while the token has not served there never was an administrator, so that
  no request of one is under way either.
* `CacheAlwaysHonest`, from `IInv`: a login that has read selects sessions of its
  own account only (`EvictsItsOwn`), and a reader that is still `current` and has
  read holds a session that is usable or about which the cache is yet to be told
  (`ReadersAreHonest`). The last is what the comparison of generations preserves.
* `LastAdminAlwaysStays` and `AdminRowAlwaysStays`, from what a request's checks
  leave true until it commits (`Checked`): nobody deletes himself, and whoever
  disables or deletes an administrator that he counted has counted another one.
* `UniqueIndexIsNeverHit`, from `LockHeld`: no two imports of one content are
  between their first look and their end.
* `NamedFilesAlwaysStay`, from `NInv`: rows name different files, a file that an
  import has placed is nobody else's, and what a repair or a deletion is about to
  remove is named by no row any more. `LeftoversHaveCauses` needs types only: it
  follows the owner of a file through each step.
* `SpaceIsAlwaysKept`, from `SInv`: at least as much is promised as the copies need (more,
  after a copy whose removal failed), and the files on a disk together with those that
  promises cover fit. Only a step that
  promises can enlarge that set, and it has looked at both.
* `StoreIsImplemented`: the rows, files and imports implement `ContentStore`, by one
  lemma for each kind of step that is not a stutter (`InsertAdds`, `RepairReplaces`,
  `DeletionRemoves`, `PublicationStores`, `InsertWithdraws`, ...). It needs `CInv`, which
  adds to `NInv` that imports write different files and that a copy is complete from
  its publication until a row names it: so a name is only given to a stored file.
* `TracksStayApart`: no two rows have the same content or file. It is shown for the
  abstract store (`StoreIsOneToOne`) and carried over by the refinement.

### Induction over data

The library states induction and recursion over an operator, which the provers cannot
instantiate. With a set in its place, and the least element of a nonempty set of
numbers (`WFMin` with the well-foundedness of `<`), the lemmas `Induction`, `Least` and
`Recursion` do the same. So what `FlattenSeq` makes of a queue (`AudioFanoutProofs`) and
what `Kept` and `Ends` make of a playlist (`ChannelProofs`) is proved for every length.

### Only model-checked

Liveness, since fairness and ENABLED are out of the prover's reach: `SupersededEnds`,
`RevokedUserIsCutOff`, the liveness of the takeover specification in `ImplementsTakeover`,
`DisabledChannelStops`, `UnwatchedChannelStops`, `AbandonedJobEnds`, `WaitingJobAdvances` and
`EveryoneIsServed`. `ImplementsStore` is the other way round: it is proved, and
not a property of a run, because it would make `media` half as long again. The two refuted
properties have counterexamples.

## 6. Not modelled

Planned: the rest of the supervisor's loop, the web player and its session, the Android
client. Left out for good: what FFmpeg does with audio, HTML and styles, deployment
files, schema migrations, the wording of errors and logs, and Starlette's and
SQLAlchemy's own code beyond how this code uses them.

In the modelled parts: the graceful `stop()` of the upload queue (a crash covers what it
leaves), similar-name checks and progress figures, rate limits, passwords and CSRF tokens,
covers, what normalization does to a file, library administration, snapshots of the
player, and the second cancellation of a supervisor's `stop()` after its grace period.
Two playlist edits at once are serialized by a unique constraint on the positions; the
version that both may write as the same number is harmless because the order is
compared as a set as well.
