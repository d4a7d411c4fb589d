---------------------------- MODULE ChannelRuntime ----------------------------
(***************************************************************************)
(* The playback manager's side of one channel: the row in the database,    *)
(* the jobs that take the channel's lock, the supervisor that owns its     *)
(* encoder, the monitor that stops a channel nobody listens to, and the    *)
(* manager's own end.                                                      *)
(*                                                                         *)
(* Jobs take an asyncio lock, which is granted in the order it is asked    *)
(* for, and suspend only while they stop a supervisor: every other job is  *)
(* one step.  The row is committed by request threads, which schedule      *)
(* their job when they are past the refresh of their row.  What the        *)
(* supervisor's loop plays is abstracted to what it does to its encoder    *)
(* and to the status column; a checkpoint writes that column from a        *)
(* thread, which nobody can cancel.                                        *)
(***************************************************************************)
EXTENDS Naturals, Sequences

CONSTANTS
  Sups,        \* supervisor objects: one that is free can be created again
  NoSup,
  Slugs,
  NoSlug,
  AlwaysOn,    \* settings.streaming.always_on
  MaxJobs      \* bound: jobs queued, and requests between commit and job, when one is added

ASSUME NoSupNew == NoSup \notin Sups
ASSUME NoSlugNew == NoSlug \notin Slugs
ASSUME AlwaysOnIsBoolean == AlwaysOn \in BOOLEAN
ASSUME MaxJobsPositive == MaxJobs \in Nat \ {0}

VARIABLES
  row,         \* [state, slug, status]: the channel and its playback_state
  queue,       \* jobs holding or waiting for the channel's lock
  busy,        \* the supervisor the first job is stopping, or NoSup
  restartAs,   \* the slug the first job read before a stop it restarts after
  mapped,      \* _supervisors[channel], or NoSup
  phase,       \* supervisor -> what its task does
  slugOf,      \* supervisor -> the slug it was created with, NoSlug when free
  proc,        \* supervisor -> its encoder: none, up, or closing in _run
  tapped,      \* supervisors with an external player on their fanout
  writing,     \* supervisors whose task waits for the thread of a checkpoint
  late,        \* the thread of a checkpoint has outlived its supervisor
  watched,     \* the listener registry counts someone on the channel
  demand,      \* _demand_at: none, fresh, or old enough to stop the channel
  refreshDue,  \* _idle_refresh_at holds the channel
  monitor,     \* _monitor_demand() runs
  saving,      \* requests that committed a channel's row and have not scheduled a reconcile
  removing,    \* requests that deleted the row and have not scheduled the removal
  neglected,   \* history: since a reconcile last looked at the row, a failure kept one from its
               \*   work, a late removal stopped a channel with a reused id, or a late
               \*   checkpoint wrote a status
  closing      \* stop() of the manager: "no", "begun", "stopping" or "done"

lockVars == <<queue, busy, restartAs>>
supVars == <<mapped, phase, slugOf, proc, tapped>>
threadVars == <<writing, late>>
loopVars == <<watched, demand, refreshDue>>
requestVars == <<saving, removing>>
hostVars == <<monitor, saving, removing, neglected, closing>>
vars == <<row, lockVars, supVars, threadVars, loopVars, hostVars>>

\* What the code writes as idle or offline is resting here, and starting, live or degraded is running.
Statuses == {"resting", "running", "stopped"}
Rows == [state : {"enabled", "disabled", "absent"}, slug : Slugs, status : Statuses]
ReconcileKinds == {"reconcile", "force", "command"}
Jobs == [kind : ReconcileKinds \union {"remove"}, sup : {NoSup}]
        \union [kind : {"deactivate"}, sup : Sups]

TypeOK ==
  /\ row \in Rows
  /\ restartAs \in Slugs \union {NoSlug}
  /\ queue \in Seq(Jobs)
  /\ busy \in Sups \union {NoSup} /\ mapped \in Sups \union {NoSup}
  /\ phase \in [Sups -> {"free", "running", "ending", "stopping", "closing", "cut"}]
  /\ slugOf \in [Sups -> Slugs \union {NoSlug}]
  /\ proc \in [Sups -> {"none", "up", "closing"}]
  /\ tapped \subseteq Sups
  /\ writing \subseteq Sups /\ late \in BOOLEAN
  /\ watched \in BOOLEAN /\ refreshDue \in BOOLEAN
  /\ demand \in {"none", "fresh", "old"}
  /\ monitor \in BOOLEAN /\ neglected \in BOOLEAN
  /\ saving \in Nat /\ removing \in Nat
  /\ closing \in {"no", "begun", "stopping", "done"}

-----------------------------------------------------------------------------
NoSupervisor == mapped = NoSup /\ busy = NoSup

Job(kind) == [kind |-> kind, sup |-> NoSup]
Up == closing = "no"

\* Requests are over when the services stop.
Room == Up /\ Len(queue) + saving + removing < MaxJobs
Enqueue(kind) == queue' = Append(queue, Job(kind))

\* _schedule(): a manager that is stopping takes no job.
Schedule(kind) == IF Up THEN Enqueue(kind) ELSE UNCHANGED queue

\* Mutant: a job runs although the first one is still stopping a supervisor.
BeginsUnlocked(kinds) == queue # <<>> /\ Head(queue).kind \in kinds

\* The first job has the lock and is about to run.
Begins(kinds) == busy = NoSup /\ queue # <<>> /\ Head(queue).kind \in kinds
JobDone == queue' = Tail(queue) /\ busy' = NoSup /\ restartAs' = NoSlug

Enabled(r) == r.state = "enabled"
WithStatus(s) ==
  [state |-> row.state, slug |-> row.slug,
   status |-> IF row.state = "absent" THEN row.status ELSE s]

\* should_run when there is no supervisor.
ShouldRun == AlwaysOn \/ Head(queue).kind = "force" \/ watched

\* _refresh_idle_timeline() without a supervisor: an enabled channel becomes idle,
\* or offline when nothing can be played, and the next refresh is planned.
RefreshIdle(otherwise) ==
  IF Enabled(row)
  THEN /\ row' = WithStatus("resting")
       /\ refreshDue' \in BOOLEAN
  ELSE row' = otherwise /\ refreshDue' = FALSE

\* It raises: the database is busy, or recover_timeline() does as Timeline shows.
RefreshRaises(otherwise) == row' = otherwise /\ UNCHANGED refreshDue

\* _apply_idle_command() writes a status without asking whether the channel is enabled,
\* or raises before.
IdleCommand(otherwise) ==
  \/ row' = otherwise
  \/ Head(queue).kind = "command" /\ row' = WithStatus("resting")

\* An object that is free and that no job of the monitor remembers.
IsUnused(s) == phase[s] = "free" /\ \A i \in DOMAIN queue : queue[i].sup # s

\* A new supervisor is entered and its task is started.  Which object it is does not matter.
Start(s, slug) ==
  /\ IsUnused(s) /\ s = CHOOSE t \in Sups : IsUnused(t)
  /\ mapped' = s
  /\ phase' = [phase EXCEPT ![s] = "running"]
  /\ slugOf' = [slugOf EXCEPT ![s] = slug]
  /\ demand' = IF demand = "none" THEN "fresh" ELSE demand
  /\ refreshDue' = FALSE

\* The job takes the supervisor out of the map and calls stop(): the task is
\* cancelled.  If the task is inside its own _stop_encoder(), the cancellation ends
\* the wait and with it the only reference to the process.
BeginStop(again) ==
  /\ busy' = mapped
  /\ restartAs' = again
  /\ mapped' = NoSup
  /\ phase' = [phase EXCEPT ![mapped] = "stopping"]
  /\ proc' = IF proc[mapped] = "closing" THEN [proc EXCEPT ![mapped] = "none"] ELSE proc
  /\ UNCHANGED <<queue, slugOf, tapped, threadVars, monitor, requestVars, closing>>

\* The thread of a checkpoint outlives the supervisor.
LetThreadGo(s) ==
  /\ writing' = writing \ {s}
  /\ late' = (late \/ s \in writing)

\* stop() returned: the encoder it held is reaped and its subscriptions are closed.
Stopped ==
  /\ busy # NoSup
  /\ proc' = [proc EXCEPT ![busy] = "none"]
  /\ tapped' = tapped \ {busy}
  /\ LetThreadGo(busy)

-----------------------------------------------------------------------------
Init ==
  /\ row \in {r \in Rows : \/ Enabled(r) /\ r.status = "resting"
                           \/ r.state = "disabled" /\ r.status = "stopped"}
  /\ queue = IF AlwaysOn /\ Enabled(row) THEN <<Job("force")>> ELSE <<>>
  /\ busy = NoSup /\ mapped = NoSup /\ restartAs = NoSlug
  /\ phase = [s \in Sups |-> "free"]
  /\ slugOf = [s \in Sups |-> NoSlug]
  /\ proc = [s \in Sups |-> "none"]
  /\ tapped = {} /\ writing = {} /\ late = FALSE
  /\ watched = FALSE
  /\ demand = "none"
  /\ refreshDue \in {b \in BOOLEAN : b => Enabled(row) /\ ~AlwaysOn}
  /\ saving = 0 /\ removing = 0
  /\ monitor = TRUE /\ neglected = FALSE /\ closing = "no"

\* ----- administration: commit, then schedule -----

\* create_channel() or update_channel() of enabled and slug.  A channel created after a
\* deletion may get the deleted one's id.
SaveChannel(state, slug) ==
  /\ Room
  /\ state \in {"enabled", "disabled"}
  /\ row' = [state |-> state, slug |-> slug,
             status |-> IF row.state # "absent" THEN row.status
                        ELSE IF state = "enabled" THEN "running" ELSE "stopped"]
  /\ saving' = saving + 1
  /\ UNCHANGED <<lockVars, supVars, threadVars, loopVars, monitor, removing, neglected, closing>>

\* Mutant: the request ends without scheduling anything.
SaveForgets ==
  /\ saving > 0 /\ row.state # "absent"
  /\ saving' = saving - 1
  /\ UNCHANGED <<row, lockVars, supVars, threadVars, loopVars, monitor, removing, neglected,
                 closing>>

\* db.refresh() found the row; the change is published and a reconcile is scheduled.
SaveReconciles ==
  /\ saving > 0 /\ row.state # "absent"
  /\ saving' = saving - 1
  /\ Schedule("reconcile")
  /\ UNCHANGED <<row, busy, restartAs, supVars, threadVars, loopVars, monitor, removing,
                 neglected, closing>>

\* db.refresh() raises: no connection in time, or the row is gone.  Nothing is scheduled.
SaveRefreshFails ==
  /\ saving > 0
  /\ saving' = saving - 1
  /\ neglected' = (neglected \/ row.state # "absent")
  /\ UNCHANGED <<row, lockVars, supVars, threadVars, loopVars, monitor, removing, closing>>

DeleteChannel ==
  /\ Room /\ row.state # "absent"
  /\ row' = [state |-> "absent", slug |-> row.slug, status |-> "stopped"]
  /\ removing' = removing + 1
  /\ neglected' = FALSE
  /\ UNCHANGED <<lockVars, supVars, threadVars, loopVars, monitor, saving, closing>>

\* remove(), whatever has the id by now.
DeleteRemoves ==
  /\ removing > 0
  /\ removing' = removing - 1
  /\ Schedule("remove")
  /\ UNCHANGED <<row, busy, restartAs, supVars, threadVars, loopVars, monitor, saving,
                 neglected, closing>>

\* skip_channel() and play_now() refuse a disabled channel, remove_playlist_item()
\* of the current item does not; all three send a command.
SendCommand ==
  /\ Room /\ row.state # "absent"
  /\ Enqueue("command")
  /\ UNCHANGED <<row, busy, restartAs, supVars, threadVars, loopVars, hostVars>>

\* ----- listeners -----

\* ensure_hls_stream() or open_audio_stream(); the route index that admitted the
\* request may be older than the row.
Demand ==
  /\ Up /\ demand' = "fresh"
  /\ IF mapped = NoSup THEN Room /\ Enqueue("force") ELSE UNCHANGED queue
  /\ UNCHANGED <<row, busy, restartAs, supVars, threadVars, watched, refreshDue, hostVars>>

\* A request that found a manifest registers its listener, even if the channel was
\* stopped or disabled since the request was admitted.
ListenerArrives ==
  /\ Up /\ \E s \in Sups : phase[s] # "free" /\ proc[s] # "none"
  /\ watched' = TRUE
  /\ demand' = "fresh"
  /\ UNCHANGED <<row, lockVars, supVars, threadVars, refreshDue, hostVars>>

ListenersLeave ==
  /\ watched
  /\ watched' = FALSE
  /\ UNCHANGED <<row, lockVars, supVars, threadVars, demand, refreshDue, hostVars>>

\* An external player subscribes to a running encoder, or ends its subscription.
Tap(s) ==
  /\ Up /\ phase[s] \in {"running", "ending"} /\ proc[s] = "up" /\ s \notin tapped
  /\ tapped' = tapped \union {s}
  /\ UNCHANGED <<row, lockVars, mapped, phase, slugOf, proc, threadVars, loopVars, hostVars>>

Untap(s) ==
  /\ s \in tapped
  /\ tapped' = tapped \ {s}
  /\ UNCHANGED <<row, lockVars, mapped, phase, slugOf, proc, threadVars, loopVars, hostVars>>

DemandCools ==
  /\ demand = "fresh"
  /\ demand' = "old"
  /\ UNCHANGED <<row, lockVars, supVars, threadVars, watched, refreshDue, hostVars>>

\* ----- _monitor_demand(), which waits for the job it asked for -----

MonitorAwake == \A i \in DOMAIN queue : queue[i].kind # "deactivate"
Unwatched(s) == ~watched /\ s \notin tapped

\* Mutant: a channel that was asked for once is never picked.
MonitorPicksForgotten ==
  /\ monitor /\ MonitorAwake /\ ~AlwaysOn
  /\ mapped # NoSup /\ Unwatched(mapped) /\ demand = "none"
  /\ queue' = Append(queue, [kind |-> "deactivate", sup |-> mapped])
  /\ UNCHANGED <<row, busy, restartAs, supVars, threadVars, loopVars, hostVars>>

MonitorPicks ==
  /\ monitor /\ MonitorAwake /\ ~AlwaysOn
  /\ mapped # NoSup /\ Unwatched(mapped) /\ demand = "old"
  /\ queue' = Append(queue, [kind |-> "deactivate", sup |-> mapped])
  /\ UNCHANGED <<row, busy, restartAs, supVars, threadVars, loopVars, hostVars>>

MonitorRefreshes ==
  /\ monitor /\ MonitorAwake /\ refreshDue
  /\ IF mapped = NoSup THEN RefreshIdle(row) ELSE refreshDue' = FALSE /\ row' = row
  /\ UNCHANGED <<lockVars, supVars, threadVars, watched, demand, hostVars>>

\* Nothing catches an exception in the monitor, and nothing starts it again.
MonitorDies ==
  /\ monitor /\ MonitorAwake /\ refreshDue /\ mapped = NoSup
  /\ RefreshRaises(row)
  /\ monitor' = FALSE
  /\ UNCHANGED <<lockVars, supVars, threadVars, watched, demand, requestVars, neglected, closing>>

\* ----- _reconcile(), alone or as the first half of a command -----

\* A reconcile of a manager that is stopping does nothing.
ReconcileReturns ==
  /\ Begins(ReconcileKinds) /\ ~Up
  /\ IF mapped = NoSup THEN IdleCommand(row) ELSE row' = row
  /\ JobDone
  /\ UNCHANGED <<supVars, threadVars, loopVars, hostVars>>

\* The row cannot be read.
ReconcileFails ==
  /\ Begins(ReconcileKinds) /\ Up
  /\ neglected' = TRUE
  /\ JobDone
  /\ UNCHANGED <<row, supVars, threadVars, loopVars, monitor, requestVars, closing>>

\* It can, and what was neglected is made up for.
Looks == neglected' = FALSE /\ UNCHANGED <<monitor, requestVars, closing>>

\* The channel is disabled or gone.
ForgetListeners == watched' = FALSE /\ demand' = "none" /\ refreshDue' = FALSE

ReconcileDisabled ==
  /\ Begins(ReconcileKinds) /\ Up /\ ~Enabled(row) /\ mapped = NoSup
  /\ ForgetListeners
  /\ IdleCommand(row)
  /\ JobDone /\ Looks
  /\ UNCHANGED <<supVars, threadVars>>

ReconcileDisabledStops ==
  /\ Begins(ReconcileKinds) /\ Up /\ ~Enabled(row) /\ mapped # NoSup
  /\ ForgetListeners
  /\ BeginStop(NoSlug) /\ Looks
  /\ UNCHANGED row

ReconcileRenames ==
  /\ Begins(ReconcileKinds) /\ Up /\ Enabled(row)
  /\ mapped # NoSup /\ slugOf[mapped] # row.slug
  /\ BeginStop(row.slug) /\ Looks
  /\ UNCHANGED <<row, loopVars>>

\* Mutant: a running supervisor is kept without looking at its slug.
ReconcileKeepsAny ==
  /\ Begins(ReconcileKinds) /\ Up /\ Enabled(row)
  /\ mapped # NoSup
  /\ JobDone /\ Looks
  /\ UNCHANGED <<row, supVars, threadVars, loopVars>>

\* The supervisor stays and is told to refresh, or is left alone.
ReconcileKeeps ==
  /\ Begins(ReconcileKinds) /\ Up /\ Enabled(row)
  /\ mapped # NoSup /\ slugOf[mapped] = row.slug
  /\ JobDone /\ Looks
  /\ UNCHANGED <<row, supVars, threadVars, loopVars>>

ReconcileIdles ==
  /\ Begins(ReconcileKinds) /\ Up /\ Enabled(row) /\ mapped = NoSup /\ ~ShouldRun
  /\ \/ RefreshIdle(row) /\ neglected' = FALSE
     \/ RefreshRaises(row) /\ neglected' = TRUE
  /\ JobDone
  /\ UNCHANGED <<supVars, threadVars, watched, demand, monitor, requestVars, closing>>

ReconcileStarts ==
  /\ Begins(ReconcileKinds) /\ Up /\ Enabled(row) /\ mapped = NoSup /\ ShouldRun
  /\ \E s \in Sups : Start(s, row.slug)
  /\ JobDone /\ Looks
  /\ UNCHANGED <<row, proc, tapped, threadVars, watched>>

\* ----- _remove() and _deactivate_if_idle() -----

RemoveNothing ==
  /\ Begins({"remove"}) /\ mapped = NoSup
  /\ watched' = FALSE /\ refreshDue' = FALSE
  /\ JobDone
  /\ UNCHANGED <<row, supVars, threadVars, demand, hostVars>>

RemoveStops ==
  /\ Begins({"remove"}) /\ mapped # NoSup
  /\ watched' = FALSE /\ refreshDue' = FALSE
  /\ BeginStop(NoSlug)
  /\ UNCHANGED <<row, demand, neglected>>

\* The conditions the monitor saw are looked at again under the lock.  If the monitor was
\* cancelled while it waited for the lock, its job is no more.
DeactivateGivesUp ==
  /\ Begins({"deactivate"})
  /\ mapped # Head(queue).sup \/ ~Unwatched(mapped) \/ ~monitor
  /\ JobDone
  /\ UNCHANGED <<row, supVars, threadVars, loopVars, hostVars>>

DeactivateStops ==
  /\ Begins({"deactivate"}) /\ monitor
  /\ mapped = Head(queue).sup /\ Unwatched(mapped)
  /\ BeginStop(NoSlug)
  /\ UNCHANGED <<row, loopVars, neglected>>

\* ----- stop() returned and the job goes on -----

Freed(s) ==
  /\ phase' = [phase EXCEPT ![s] = "free"]
  /\ slugOf' = [slugOf EXCEPT ![s] = NoSlug]
  /\ mapped' = NoSup

\* The last write of stop() raises, and with it the job, or the monitor.
StopRaises ==
  /\ Stopped /\ Freed(busy)
  /\ monitor' = (monitor /\ Head(queue).kind # "deactivate")
  /\ neglected' = TRUE
  /\ JobDone
  /\ UNCHANGED <<row, loopVars, requestVars, closing>>

\* A removal that comes late may have stopped the supervisor of a channel created since.
StoppedForGood ==
  /\ Stopped /\ Freed(busy)
  /\ \/ Head(queue).kind = "remove" /\ neglected' = (neglected \/ row.state # "absent")
     \/ Head(queue).kind \in ReconcileKinds /\ restartAs = NoSlug /\ UNCHANGED neglected
  /\ IdleCommand(WithStatus("stopped"))
  /\ JobDone
  /\ UNCHANGED <<loopVars, monitor, requestVars, closing>>

\* The monitor stops the channel, and ends if the refresh raises.
StoppedIdle ==
  /\ Stopped /\ Freed(busy)
  /\ Head(queue).kind = "deactivate"
  /\ demand' = "none"
  /\ \/ RefreshIdle(WithStatus("resting")) /\ UNCHANGED monitor
     \/ RefreshRaises(WithStatus("resting")) /\ monitor' = FALSE
  /\ JobDone
  /\ UNCHANGED <<watched, requestVars, neglected, closing>>

\* Mutant: nobody asks again whether the manager is stopping.
StoppedToRestartAnyway ==
  /\ Stopped
  /\ restartAs # NoSlug /\ ShouldRun
  /\ mapped' = busy
  /\ phase' = [phase EXCEPT ![busy] = "running"]
  /\ slugOf' = [slugOf EXCEPT ![busy] = restartAs]
  /\ demand' = IF demand = "none" THEN "fresh" ELSE demand
  /\ refreshDue' = FALSE
  /\ row' = WithStatus("resting")
  /\ JobDone
  /\ UNCHANGED <<watched, hostVars>>

\* The slug changed.  The new supervisor gets the slug read before the stop.
StoppedToRestart ==
  /\ Stopped
  /\ restartAs # NoSlug /\ Up /\ ShouldRun
  /\ mapped' = busy
  /\ phase' = [phase EXCEPT ![busy] = "running"]
  /\ slugOf' = [slugOf EXCEPT ![busy] = restartAs]
  /\ demand' = IF demand = "none" THEN "fresh" ELSE demand
  /\ refreshDue' = FALSE
  /\ row' = WithStatus("resting")
  /\ JobDone
  /\ UNCHANGED <<watched, hostVars>>

StoppedToIdle ==
  /\ Stopped /\ Freed(busy)
  /\ restartAs # NoSlug /\ Up /\ ~ShouldRun
  /\ IF Head(queue).kind = "command" /\ ~Enabled(row)
     THEN IdleCommand(WithStatus("resting")) /\ refreshDue' = FALSE
     ELSE RefreshIdle(WithStatus("resting")) \/ RefreshRaises(WithStatus("resting"))
  /\ JobDone
  /\ UNCHANGED <<watched, demand, hostVars>>

\* The manager began to stop during the stop.
StoppedToReturn ==
  /\ Stopped /\ Freed(busy)
  /\ restartAs # NoSlug /\ ~Up
  /\ IdleCommand(WithStatus("resting"))
  /\ JobDone
  /\ UNCHANGED <<loopVars, hostVars>>

\* ----- the supervisor's task -----

\* _ensure_encoder(): needs the playback_state row.
EncoderUp(s) ==
  /\ phase[s] = "running" /\ proc[s] = "none" /\ row.state # "absent"
  /\ proc' = [proc EXCEPT ![s] = "up"]
  /\ row' = WithStatus("running")
  /\ UNCHANGED <<lockVars, mapped, phase, slugOf, tapped, threadVars, loopVars, hostVars>>

\* _begin_track() writes on the event loop.
GoLive(s) ==
  /\ phase[s] = "running" /\ proc[s] = "up" /\ s \notin writing /\ row.state # "absent"
  /\ row' = WithStatus("running")
  /\ UNCHANGED <<lockVars, supVars, threadVars, loopVars, hostVars>>

\* _checkpoint() waits for a thread.  Bound: one thread at a time outlives its supervisor.
CheckpointBegins(s) ==
  /\ phase[s] = "running" /\ proc[s] = "up" /\ s \notin writing /\ ~late
  /\ writing' = writing \union {s}
  /\ UNCHANGED <<row, lockVars, supVars, late, loopVars, hostVars>>

CheckpointEnds(s) ==
  /\ s \in writing
  /\ writing' = writing \ {s}
  /\ row' = WithStatus("running")
  /\ UNCHANGED <<lockVars, supVars, late, loopVars, hostVars>>

LateCheckpoint ==
  /\ late
  /\ late' = FALSE
  /\ row' = WithStatus("running")
  /\ neglected' = (neglected \/ NoSupervisor)
  /\ UNCHANGED <<lockVars, supVars, writing, loopVars, monitor, requestVars, closing>>

\* A failure, or nothing to play: the loop takes the handle and waits for the exit.
RunStopsEncoder(s) ==
  /\ phase[s] \in {"running", "ending"} /\ proc[s] = "up" /\ s \notin writing
  /\ proc' = [proc EXCEPT ![s] = "closing"]
  /\ \/ row' = row
     \/ phase[s] = "running" /\ \E e \in {"running", "resting"} : row' = WithStatus(e)
  /\ UNCHANGED <<lockVars, mapped, phase, slugOf, tapped, threadVars, loopVars, hostVars>>

EncoderReaped(s) ==
  /\ proc[s] = "closing"
  /\ proc' = [proc EXCEPT ![s] = "none"]
  /\ tapped' = tapped \ {s}
  /\ row' \in {row, IF phase[s] = "running" THEN WithStatus("resting") ELSE row}
  /\ UNCHANGED <<lockVars, mapped, phase, slugOf, threadVars, loopVars, hostVars>>

\* An exception leaves the loop; the finally block still stops the encoder.
Crash(s) ==
  /\ phase[s] = "running" /\ s \notin writing
  /\ phase' = [phase EXCEPT ![s] = "ending"]
  /\ UNCHANGED <<row, lockVars, mapped, slugOf, proc, tapped, threadVars, loopVars, hostVars>>

\* Mutant: a supervisor that ended is forgotten and nothing is reconciled.
TaskEndsQuietly(s) ==
  /\ phase[s] = "ending" /\ proc[s] = "none"
  /\ Freed(s)
  /\ UNCHANGED <<row, lockVars, proc, tapped, threadVars, loopVars, hostVars>>

\* supervisor_finished()
TaskEnds(s) ==
  /\ phase[s] = "ending" /\ proc[s] = "none"
  /\ Freed(s)
  /\ Schedule("reconcile")
  /\ UNCHANGED <<row, busy, restartAs, proc, tapped, threadVars, loopVars, hostVars>>

\* ----- stop() of the manager -----

\* The monitor is cancelled.  If it was stopping a supervisor, that stop() is cut short, and the
\* supervisor's task, which it had cancelled, ends by itself.
ShutdownBegins ==
  /\ Up /\ saving = 0 /\ removing = 0 /\ \A i \in DOMAIN queue : queue[i].kind # "force"
  /\ closing' = "begun" /\ monitor' = FALSE
  /\ IF busy # NoSup /\ Head(queue).kind = "deactivate"
     THEN phase' = [phase EXCEPT ![busy] = "cut"] /\ JobDone
     ELSE UNCHANGED <<phase, lockVars>>
  /\ UNCHANGED <<row, mapped, slugOf, proc, tapped, threadVars, loopVars, requestVars, neglected>>

CutEnds(s) ==
  /\ phase[s] = "cut"
  /\ phase' = [phase EXCEPT ![s] = "free"] /\ slugOf' = [slugOf EXCEPT ![s] = NoSlug]
  /\ proc' = [proc EXCEPT ![s] = "none"] /\ tapped' = tapped \ {s}
  /\ LetThreadGo(s)
  /\ UNCHANGED <<row, lockVars, mapped, loopVars, hostVars>>

\* When the jobs are done, the supervisor that is left is taken out of the map and stopped.
ShutdownStops ==
  /\ closing = "begun" /\ queue = <<>>
  /\ closing' = "stopping"
  /\ mapped' = NoSup
  /\ phase' = [s \in Sups |-> IF s = mapped THEN "closing" ELSE phase[s]]
  /\ proc' = [s \in Sups |-> IF s = mapped /\ proc[s] = "closing" THEN "none" ELSE proc[s]]
  /\ UNCHANGED <<row, lockVars, slugOf, tapped, threadVars, loopVars, monitor, requestVars,
                 neglected>>

ShutdownEnds ==
  /\ closing = "stopping" /\ closing' = "done"
  /\ IF \E s \in Sups : phase[s] = "closing"
     THEN \E s \in Sups :
            /\ phase[s] = "closing"
            /\ phase' = [phase EXCEPT ![s] = "free"] /\ slugOf' = [slugOf EXCEPT ![s] = NoSlug]
            /\ proc' = [proc EXCEPT ![s] = "none"] /\ tapped' = tapped \ {s}
            /\ LetThreadGo(s)
            /\ row' \in {row, WithStatus("resting")}
     ELSE UNCHANGED <<row, phase, slugOf, proc, tapped, threadVars>>
  /\ UNCHANGED <<lockVars, mapped, loopVars, monitor, requestVars, neglected>>

-----------------------------------------------------------------------------
AdminStep ==
  \/ \E state \in {"enabled", "disabled"}, slug \in Slugs : SaveChannel(state, slug)
  \/ SaveReconciles \/ SaveRefreshFails \/ DeleteChannel \/ DeleteRemoves \/ SendCommand

ListenerStep ==
  \/ Demand \/ ListenerArrives \/ ListenersLeave \/ DemandCools
  \/ \E s \in Sups : Tap(s) \/ Untap(s)

JobStep ==
  \/ ReconcileReturns \/ ReconcileFails \/ ReconcileDisabled \/ ReconcileDisabledStops \/ ReconcileRenames
  \/ ReconcileKeeps \/ ReconcileIdles \/ ReconcileStarts
  \/ RemoveNothing \/ RemoveStops \/ DeactivateGivesUp \/ DeactivateStops
  \/ StopRaises \/ StoppedForGood \/ StoppedIdle \/ StoppedToRestart \/ StoppedToIdle \/ StoppedToReturn

TaskStep(s) ==
  \/ EncoderUp(s) \/ GoLive(s) \/ CheckpointBegins(s) \/ CheckpointEnds(s)
  \/ RunStopsEncoder(s) \/ EncoderReaped(s) \/ Crash(s) \/ TaskEnds(s) \/ CutEnds(s)

ShutdownStep == ShutdownBegins \/ ShutdownStops \/ ShutdownEnds

Next ==
  \/ AdminStep \/ ListenerStep \/ MonitorPicks \/ MonitorRefreshes \/ MonitorDies \/ JobStep
  \/ (\E s \in Sups : TaskStep(s)) \/ LateCheckpoint \/ ShutdownStep

\* The event loop runs its jobs, a request's thread goes on, the monitor wakes every second and clocks advance.
\* A stop is bounded by its timeouts, and so is the wait for an encoder's exit.
Fairness ==
  /\ WF_vars(JobStep)
  /\ WF_vars(SaveReconciles \/ SaveRefreshFails)
  /\ WF_vars(DeleteRemoves)
  /\ WF_vars(MonitorPicks)
  /\ WF_vars(DemandCools)
  /\ WF_vars(ShutdownStops)
  /\ \A s \in Sups :
       /\ WF_vars(phase[s] = "ending" /\ RunStopsEncoder(s))
       /\ WF_vars(EncoderReaped(s))
       /\ WF_vars(TaskEnds(s))

Safety == Init /\ [][Next]_vars
Spec == Safety /\ Fairness

-----------------------------------------------------------------------------
\* At most one supervisor of the channel has a task: a new one is started only when
\* the previous one's stop() has returned, however jobs, crashes and the monitor
\* interleave.
OneSupervisorPerChannel ==
  \A s, t \in Sups : phase[s] # "free" /\ phase[t] # "free" => s = t

\* When every job and every request is done, the supervisor serves an enabled channel under the
\* slug the channel has now, although a restart uses a slug read before a long stop; and an
\* enabled channel without a supervisor is idle or offline: no stop, crash, rename or
\* re-enabling leaves another status behind.  The exceptions are the failures that nothing makes
\* up for until the next reconcile (admin.py:386, playback.py:349, 388 and 723), a channel
\* stopped by the late removal of an older one with its id (admin.py:424), and a checkpoint's
\* thread that wrote "live" after the stop (playback.py:1441).
RestMatchesRow ==
  queue = <<>> /\ saving = 0 /\ removing = 0 /\ Up /\ ~neglected =>
    /\ mapped # NoSup => Enabled(row) /\ slugOf[mapped] = row.slug
    /\ NoSupervisor /\ Enabled(row) => row.status = "resting"

\* Disabling or deleting a channel ends its supervisor (SPEC 5.1), unless the request or the
\* reconcile that should do it fails: no channel stays disabled with its supervisor for ever.
DisabledChannelStops ==
  []<>(Enabled(row) \/ NoSupervisor \/ neglected)

\* A channel that nobody listens to and nobody asks for is stopped for good, as long as no
\* exception ends the monitor (playback.py:270).
UnwatchedChannelStops ==
  <>[](monitor /\ ~watched /\ tapped = {}) /\ <>[][~Demand]_vars => <>[]NoSupervisor

\* From the moment the manager begins to stop no supervisor is started, not even by a rename that
\* was waiting for the old one to stop (playback.py:376); and when it has stopped, none is left
\* but the one that the monitor was stopping just then, whose task ends alone (playback.py:146).
ShutdownIsFinal ==
  /\ [](closing = "done" => NoSupervisor /\ \A s \in Sups : phase[s] \in {"free", "cut"})
  /\ [][~Up => mapped' \in {mapped, NoSup}]_vars
=============================================================================
