--------------------------- MODULE LosslessEncoder ---------------------------
(***************************************************************************)
(* The FLAC encoder that a channel has only while someone listens to it    *)
(* (open_audio_stream(), stop_lossless_if_idle(), stop(), _run(), _play()  *)
(* and _ensure_lossless_encoder() of ChannelSupervisor in                  *)
(* services/playback.py).                                                  *)
(*                                                                         *)
(* Four kinds of actors start and stop it under one asyncio lock, which is *)
(* granted in the order it is asked for: requests of listeners, the        *)
(* monitor, the supervisor's own task, and whoever stops the supervisor.   *)
(* Stopping a process takes the handle first and then waits for its end;   *)
(* a cancellation may end that wait.  AudioFanout says what a listener     *)
(* hears of one encoder; here it matters which encoder that is.            *)
(***************************************************************************)
EXTENDS Naturals, Sequences

CONSTANTS
  Clients,     \* slots for the requests of listeners
  MaxEncoders  \* bound: FLAC processes started

ASSUME SomeEncoders == MaxEncoders \in Nat \ {0}
ASSUME ClientsAreRequests == Clients \intersect {"monitor", "task", "stop"} = {}

Encoders == 1..MaxEncoders
NoEncoder == 0
Actors == Clients \union {"monitor", "task", "stop"}

VARIABLES
  lock,     \* _lossless_lock: its holder and those who wait for it, in order
  handle,   \* _lossless_encoder
  held,     \* the process whose end the holder waits for
  process,  \* "none", "up", "shut" (stdin closed), "exited", or "reaped": returncode known
  pumps,    \* output tasks that run
  ready,    \* _encoder_ready: the AAC encoder is up
  mapped,   \* the manager has this supervisor
  task,     \* what _run() does
  failed,   \* the process that _play() writes to or could not write to
  stop,     \* where stop() is
  watching, \* the monitor runs
  client,   \* listener -> where its request is
  follows,  \* listener -> the encoder it was subscribed to
  lost,     \* history: processes whose end was waited for until a cancellation
  late      \* history: processes started when the task had done its last stop

lockVars == <<lock, handle, held>>
processVars == <<process, pumps>>
listenerVars == <<client, follows>>
supervisorVars == <<ready, mapped, task, failed, stop, watching>>
history == <<lost, late>>
vars == <<lockVars, processVars, supervisorVars, listenerVars, history>>

Running(e) == process[e] \in {"up", "shut"}
Open == {c \in Clients : client[c] = "open"}
Stopping == stop # "no"

TypeOK ==
  /\ lock \in Seq(Actors)
  /\ handle \in Encoders \union {NoEncoder} /\ held \in Encoders \union {NoEncoder}
  /\ process \in [Encoders -> {"none", "up", "shut", "exited", "reaped"}]
  /\ pumps \subseteq Encoders
  /\ ready \in BOOLEAN /\ mapped \in BOOLEAN /\ watching \in BOOLEAN
  /\ lost \subseteq Encoders /\ late \subseteq Encoders
  /\ task \in {"rest", "play", "write", "blame", "recover", "final", "ends", "done"}
  /\ failed \in Encoders \union {NoEncoder}
  /\ stop \in {"no", "task", "lossless", "outputs", "done", "cut"}
  /\ client \in [Clients -> {"away", "waits", "woken", "queued", "open"}]
  /\ follows \in [Clients -> Encoders \union {NoEncoder}]

Init ==
  /\ lock = <<>> /\ handle = NoEncoder /\ held = NoEncoder
  /\ process = [e \in Encoders |-> "none"] /\ pumps = {}
  /\ ready = FALSE /\ mapped = TRUE /\ task = "rest" /\ failed = NoEncoder /\ stop = "no"
  /\ watching = TRUE
  /\ client = [c \in Clients |-> "away"] /\ follows = [c \in Clients |-> NoEncoder]
  /\ lost = {} /\ late = {}

(***************************************************************************)
(* The lock and the two operations under it.                               *)
(***************************************************************************)
Asks(a) == lock' = Append(lock, a)
Place(a) == CHOOSE i \in DOMAIN lock : lock[i] = a
Without(a) ==
  IF \A i \in DOMAIN lock : lock[i] # a THEN lock
  ELSE [i \in 1..(Len(lock) - 1) |-> lock[IF i < Place(a) THEN i ELSE i + 1]]
Holds(a) == lock # <<>> /\ Head(lock) = a
Releases == lock' = Tail(lock)

\* A cancellation lets go of the lock, and of the process that the holder waits for.
Cancelled(a) ==
  /\ held' = IF Holds(a) THEN NoEncoder ELSE held
  /\ lost' = IF Holds(a) THEN lost \union ({held} \ {NoEncoder}) ELSE lost

\* fanout.close()
FanoutCloses ==
  /\ client' = [c \in Clients |-> IF c \in Open THEN "away" ELSE client[c]]
  /\ follows' = [c \in Clients |-> NoEncoder]

\* Mutant: nobody ends the process.
TakeHandleOnly(a) ==
  /\ Holds(a) /\ held = NoEncoder /\ handle # NoEncoder
  /\ held' = handle /\ handle' = NoEncoder
  /\ UNCHANGED <<lock, processVars, listenerVars, history>>

\* _stop_lossless_encoder_locked() up to the wait.
TakeHandle(a) ==
  /\ Holds(a) /\ held = NoEncoder /\ handle # NoEncoder
  /\ held' = handle /\ handle' = NoEncoder
  /\ process' = [process EXCEPT ![handle] = IF @ = "up" THEN "shut" ELSE @]
  /\ UNCHANGED <<lock, pumps, listenerVars, history>>

\* Mutants: nobody waits for the process; or the fanout is left to the output task.
SeeItEndEarly(a) ==
  /\ Holds(a) /\ held # NoEncoder
  /\ held' = NoEncoder /\ FanoutCloses
  /\ UNCHANGED <<handle, processVars, history>>

SeeItEndSilently(a) ==
  /\ Holds(a) /\ held # NoEncoder /\ process[held] = "reaped"
  /\ held' = NoEncoder
  /\ UNCHANGED <<handle, processVars, listenerVars, history>>

\* The rest of it.
SeeItEnd(a) ==
  /\ Holds(a) /\ held # NoEncoder /\ process[held] = "reaped"
  /\ held' = NoEncoder /\ FanoutCloses
  /\ UNCHANGED <<handle, processVars, history>>

\* With no handle there is nothing to stop, and the fanout is left as it is.
NothingToStop(a) ==
  /\ Holds(a) /\ held = NoEncoder /\ handle = NoEncoder
  /\ UNCHANGED <<handle, held, processVars, listenerVars, history>>

\* The actor is done with _stop_lossless_encoder() and has released the lock.
StopReturns(a) == (SeeItEnd(a) \/ NothingToStop(a)) /\ Releases

(***************************************************************************)
(* Listeners.                                                              *)
(***************************************************************************)
\* open_audio_stream() of the manager finds the supervisor.
Ask(c) ==
  /\ client[c] = "away" /\ mapped
  /\ client' = [client EXCEPT ![c] = "waits"]
  /\ UNCHANGED <<lockVars, processVars, supervisorVars, follows, history>>

Wake(c) ==
  /\ client[c] = "waits" /\ ready
  /\ client' = [client EXCEPT ![c] = "woken"]
  /\ UNCHANGED <<lockVars, processVars, supervisorVars, follows, history>>

\* Nothing but the timeout ends the wait if the encoder does not come.
WaitTimesOut(c) ==
  /\ client[c] = "waits"
  /\ client' = [client EXCEPT ![c] = "away"]
  /\ UNCHANGED <<lockVars, processVars, supervisorVars, follows, history>>

\* Mutant: the supervisor's state is not looked at again.
PassStopping(c) ==
  /\ client[c] = "woken"
  /\ client' = [client EXCEPT ![c] = "queued"] /\ Asks(c)
  /\ UNCHANGED <<handle, held, processVars, supervisorVars, follows, history>>

Pass(c) ==
  /\ client[c] = "woken"
  /\ IF Stopping
     THEN client' = [client EXCEPT ![c] = "away"] /\ UNCHANGED lock
     ELSE client' = [client EXCEPT ![c] = "queued"] /\ Asks(c)
  /\ UNCHANGED <<handle, held, processVars, supervisorVars, follows, history>>

\* subscribe() follows the release of the lock without a suspension.
Subscribed(c, e) ==
  /\ Releases
  /\ client' = [client EXCEPT ![c] = "open"] /\ follows' = [follows EXCEPT ![c] = e]

EnsureFinds(c) ==
  /\ Holds(c) /\ held = NoEncoder /\ handle # NoEncoder /\ process[handle] # "reaped"
  /\ Subscribed(c, handle)
  /\ UNCHANGED <<handle, held, processVars, supervisorVars, history>>

EnsureStopsDead(c) ==
  /\ handle # NoEncoder /\ process[handle] = "reaped"
  /\ TakeHandle(c) /\ UNCHANGED supervisorVars

EnsureSeesEnd(c) == SeeItEnd(c) /\ UNCHANGED <<lock, supervisorVars>>

\* Starting a process takes longer than an output task takes to find that its process has ended.
EnsureCreates(c, e) ==
  /\ Holds(c) /\ held = NoEncoder /\ handle = NoEncoder
  /\ process[e] = "none" /\ \A d \in 1..(e - 1) : process[d] # "none"
  /\ \A d \in pumps : process[d] # "reaped"
  /\ handle' = e /\ process' = [process EXCEPT ![e] = "up"] /\ pumps' = pumps \union {e}
  /\ Subscribed(c, e)
  /\ late' = IF task \in {"ends", "done"} THEN late \union {e} ELSE late
  /\ UNCHANGED <<held, supervisorVars, lost>>

\* There is no FFmpeg, or it cannot be started.
EnsureFails(c) ==
  /\ Holds(c) /\ held = NoEncoder /\ handle = NoEncoder
  /\ Releases /\ client' = [client EXCEPT ![c] = "away"]
  /\ UNCHANGED <<handle, held, processVars, supervisorVars, follows, history>>

\* The listener leaves, or waits too long for a chunk.
Unsubscribe(c) ==
  /\ client[c] = "open"
  /\ client' = [client EXCEPT ![c] = "away"] /\ follows' = [follows EXCEPT ![c] = NoEncoder]
  /\ UNCHANGED <<lockVars, processVars, supervisorVars, history>>

(***************************************************************************)
(* Processes and their output tasks.                                       *)
(***************************************************************************)
Exit(e) ==
  /\ Running(e)
  /\ process' = [process EXCEPT ![e] = "exited"]
  /\ UNCHANGED <<lockVars, pumps, supervisorVars, listenerVars, history>>

Reap(e) ==
  /\ process[e] = "exited"
  /\ process' = [process EXCEPT ![e] = "reaped"]
  /\ UNCHANGED <<lockVars, pumps, supervisorVars, listenerVars, history>>

OutputEnds(e) ==
  /\ e \in pumps /\ ~Running(e)
  /\ pumps' = pumps \ {e} /\ FanoutCloses
  /\ UNCHANGED <<lockVars, process, supervisorVars, history>>

(***************************************************************************)
(* The monitor.                                                            *)
(***************************************************************************)
MonitorAsks ==
  /\ mapped /\ watching /\ \A i \in DOMAIN lock : lock[i] # "monitor"
  /\ Asks("monitor")
  /\ UNCHANGED <<handle, held, processVars, supervisorVars, listenerVars, history>>

\* Somebody listens, there is no encoder, or it was asked for not long ago.
MonitorLeaves ==
  /\ Holds("monitor") /\ held = NoEncoder
  /\ Releases
  /\ UNCHANGED <<handle, held, processVars, supervisorVars, listenerVars, history>>

\* Mutant: nobody asks whether there are listeners.
MonitorStopsAny == TakeHandle("monitor") /\ UNCHANGED supervisorVars

MonitorStops == Open = {} /\ TakeHandle("monitor") /\ UNCHANGED supervisorVars

MonitorSeesEnd == SeeItEnd("monitor") /\ Releases /\ UNCHANGED supervisorVars

(***************************************************************************)
(* The supervisor's task.                                                  *)
(***************************************************************************)
TaskKeeps == UNCHANGED <<mapped, stop, watching>>

\* _ensure_encoder() and the first item.
TaskStarts ==
  /\ task = "rest" /\ task' = "play" /\ ready' = TRUE
  /\ UNCHANGED <<lockVars, processVars, mapped, failed, stop, watching, listenerVars, history>>

TaskWrites ==
  /\ task = "play" /\ handle # NoEncoder /\ process[handle] # "reaped"
  /\ task' = "write" /\ failed' = handle
  /\ UNCHANGED <<lockVars, processVars, ready, mapped, stop, watching, listenerVars, history>>

WriteEnds ==
  /\ task = "write" /\ task' = "play" /\ failed' = NoEncoder
  /\ UNCHANGED <<lockVars, processVars, ready, mapped, stop, watching, listenerVars, history>>

\* The encoder stops accepting audio, or has ended.
WriteFails ==
  /\ task = "write" /\ task' = "blame" /\ Asks("task")
  /\ UNCHANGED <<handle, held, processVars, ready, mapped, failed, stop, watching, listenerVars, history>>

\* The playlist runs out, the AAC encoder or the decoder fails.
TaskFails ==
  /\ task = "play" /\ task' = "recover" /\ Asks("task")
  /\ UNCHANGED <<handle, held, processVars, ready, mapped, failed, stop, watching, listenerVars, history>>

\* An exception in a handler of _run() leaves only the finally block.
TaskCrashes ==
  /\ task \in {"rest", "play"} /\ task' = "final" /\ Asks("task")
  /\ UNCHANGED <<handle, held, processVars, ready, mapped, failed, stop, watching, listenerVars, history>>

TaskTakesHandle == TakeHandle("task") /\ UNCHANGED supervisorVars

\* After a failed write the item plays on; otherwise _stop_encoder() begins, and clears "ready".
TaskStopped ==
  /\ StopReturns("task") /\ failed' = NoEncoder /\ TaskKeeps
  /\ \/ task = "blame" /\ task' = "play" /\ UNCHANGED ready
     \/ task = "recover" /\ task' = "rest" /\ ready' = FALSE
     \/ task = "final" /\ task' = "ends" /\ ready' = FALSE

\* supervisor_finished()
TaskEnds ==
  /\ task = "ends" /\ task' = "done" /\ mapped' = FALSE
  /\ UNCHANGED <<lockVars, processVars, ready, failed, stop, watching, listenerVars, history>>

\* task.cancel(): the finally block begins, or is left if it has begun.
CancelTask ==
  /\ Cancelled("task") /\ failed' = NoEncoder
  /\ IF task \in {"final", "ends", "done"}
     THEN task' = "done" /\ lock' = Without("task")
     ELSE task' = "final" /\ lock' = Append(Without("task"), "task")

(***************************************************************************)
(* stop() of the supervisor.                                               *)
(***************************************************************************)
\* The manager has taken the supervisor out of its map.
StopBegins ==
  /\ mapped /\ stop = "no"
  /\ stop' = "task" /\ mapped' = FALSE
  /\ CancelTask
  /\ UNCHANGED <<handle, processVars, ready, watching, listenerVars, late>>

\* The task has ended, or its time is up.
StopGoesOn ==
  /\ stop = "task" /\ stop' = "lossless" /\ Asks("stop")
  /\ UNCHANGED <<handle, held, processVars, ready, mapped, task, failed, watching, listenerVars, history>>

StopTakesHandle == TakeHandle("stop") /\ UNCHANGED supervisorVars

StopStopped ==
  /\ StopReturns("stop") /\ stop' = "outputs" /\ ready' = FALSE
  /\ UNCHANGED <<mapped, task, failed, watching>>

\* Output tasks that still run are cancelled, which closes the fanout, and a task that has not
\* ended is cancelled again.
StopFinishes ==
  /\ stop = "outputs" /\ stop' = "done"
  /\ pumps' = {} /\ IF pumps # {} THEN FanoutCloses ELSE UNCHANGED listenerVars
  /\ IF task # "done" THEN CancelTask ELSE UNCHANGED <<lock, held, lost, failed, task>>
  /\ UNCHANGED <<handle, process, ready, mapped, watching, late>>

\* stop() of the manager cancels the monitor, which may be about to stop an idle encoder, or be
\* in the stop() of an idle channel.
MonitorIsCut ==
  /\ watching /\ watching' = FALSE
  /\ \E a \in {"monitor", "stop"} :
       /\ Cancelled(a) /\ lock' = Without(a)
       /\ stop' = IF a = "stop" /\ stop \in {"task", "lossless", "outputs"} THEN "cut" ELSE stop
  /\ UNCHANGED <<handle, processVars, ready, mapped, task, failed, listenerVars, late>>

\* What the event loop and the timeouts bring about by themselves.
ClientStep(c) ==
  \/ Wake(c) \/ Pass(c) \/ WaitTimesOut(c) \/ EnsureFinds(c) \/ EnsureStopsDead(c)
  \/ EnsureSeesEnd(c) \/ EnsureFails(c) \/ \E e \in Encoders : EnsureCreates(c, e)
MonitorStep == MonitorLeaves \/ MonitorStops \/ MonitorSeesEnd
TaskStep == TaskTakesHandle \/ TaskStopped \/ TaskEnds
StopStep == StopGoesOn \/ StopTakesHandle \/ StopStopped \/ StopFinishes

Next ==
  \/ \E c \in Clients : ClientStep(c) \/ Ask(c) \/ Unsubscribe(c)
  \/ \E e \in Encoders : Exit(e) \/ Reap(e) \/ OutputEnds(e)
  \/ MonitorStep \/ MonitorAsks
  \/ TaskStep \/ TaskStarts \/ TaskWrites \/ WriteEnds \/ WriteFails \/ TaskFails \/ TaskCrashes
  \/ StopStep \/ StopBegins \/ MonitorIsCut

\* Each task that can run does, a process whose end is waited for is killed if need be, and its
\* output ends.  Nobody has to ask, to leave or to fail.
Fairness ==
  /\ \A c \in Clients : WF_vars(ClientStep(c))
  /\ \A e \in Encoders :
       WF_vars(process[e] = "shut" /\ Exit(e)) /\ WF_vars(Reap(e)) /\ WF_vars(OutputEnds(e))
  /\ WF_vars(MonitorStep) /\ WF_vars(TaskStep) /\ WF_vars(StopStep)

Spec == Init /\ [][Next]_vars /\ Fairness

(***************************************************************************)
(* Properties.                                                             *)
(***************************************************************************)
\* A channel has one FLAC process at most (SPEC.md:161), unless a cancellation ended the wait
\* for the end of another one (playback.py:1270).
OneEncoder == \A d, e \in Encoders \ lost : Running(d) /\ Running(e) => d = e

\* What a listener hears comes from the encoder that it was subscribed to: no other output task
\* publishes into the same fanout, unless its process was lost in that way (playback.py:1232).
OneVoice == \A c \in Open : follows[c] \in lost \/ pumps \ lost \subseteq {follows[c]}

\* While somebody listens to an encoder, only the supervisor itself stops it: never the monitor,
\* nor a request for another listener (playback.py:687).  When its task does so because a write
\* has failed, that was a write to this encoder, or to one that has ended (or was lost) and that
\* a request replaced while the task waited for the lock (playback.py:1038).
StoppedByItsSupervisor ==
  \A c \in Open : process[follows[c]] = "shut" =>
    \/ held = follows[c] /\ Holds("stop")
    \/ held = follows[c] /\ Holds("task")
         /\ (task = "blame" /\ failed # held =>
               failed < held /\ (process[failed] = "reaped" \/ failed \in lost))
    \/ follows[c] \in lost

\* Nobody has the supervisor any more and nothing of it is about to run.
Gone == ~mapped /\ task = "done" /\ stop \in {"no", "done"} /\ lock = <<>>

Remaining == {e \in Encoders : Running(e) \/ handle = e \/ \E c \in Open : follows[c] = e}

\* stop() leaves no encoder and no listener, whatever requests were on their way: each of them
\* either sees that it stops or is in the lock before it (playback.py:672).  A supervisor whose
\* task crashed leaves only what a request started behind the task's back (playback.py:1145);
\* in both cases apart from a process that a cancellation lost.
NothingRemains ==
  Gone => Remaining \subseteq lost \union (IF stop = "done" THEN {} ELSE late)

\* No request waits forever for the encoder or for the lock, and stop() ends: those who hold the
\* lock let go of it, and those who wait for an encoder that does not come give up.
EveryoneIsServed ==
  /\ \A c \in Clients : client[c] \in {"waits", "queued"} ~> client[c] \notin {"waits", "queued"}
  /\ stop = "task" ~> stop \in {"done", "cut"}
=============================================================================
