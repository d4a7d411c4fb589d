----------------------------- MODULE ChannelProofs -----------------------------
(***************************************************************************)
(* Safety of one channel: of its runtime, for any number of supervisors,   *)
(* slugs and queued jobs, and of its timeline, for any playlist, any       *)
(* durations and any time between two anchors.                             *)
(***************************************************************************)
EXTENDS ChannelRuntime, Timeline, FiniteSetTheorems, SequenceTheorems, WellFoundedInduction, TLAPS

(***************************************************************************)
(* Part one: the runtime.                                                  *)
(***************************************************************************)
\* Who owns what.  A supervisor with a running task is the mapped one, a supervisor
\* being stopped is the one the first job waits for, and there is never both.
Ownership ==
  /\ \A s \in Sups : phase[s] \in {"running", "ending"} <=> mapped = s
  /\ \A s \in Sups : phase[s] = "stopping" <=> busy = s
  /\ mapped = NoSup \/ busy = NoSup
  /\ busy # NoSup => queue # <<>>
  /\ \A s \in writing : phase[s] \in {"running", "stopping", "closing", "cut"}

Left == {s \in Sups : phase[s] \in {"closing", "cut"}}

\* What the manager's end leaves: one supervisor at most, and no job once the jobs are done.
Ending ==
  /\ monitor => Up
  /\ Left # {} => NoSupervisor /\ ~Up
  /\ \A s, t \in Left : s = t
  /\ \A s \in Sups : phase[s] = "closing" => closing = "stopping"
  /\ closing \in {"stopping", "done"} => queue = <<>> /\ NoSupervisor

IInv == TypeOK /\ Ownership /\ Ending

\* A job of one of these kinds comes after the first i jobs of q.
After(q, i, kinds) == \E j \in DOMAIN q : j > i /\ q[j].kind \in kinds

\* The status that an enabled channel has at rest.
Settled == row.status = "resting"

\* A job of one of these kinds comes after the first i, or the request that saved the row has
\* not scheduled its own yet, or something is known to be neglected.
Due(i, kinds) ==
  After(queue, i, kinds) \/ (saving > 0 /\ row.state # "absent") \/ neglected

\* Whatever does not match the row yet is followed by the job that will set it right, or by the
\* request that will schedule it: the supervisor or the restart of another slug, the status a
\* stop leaves on a channel that was enabled meanwhile.
Repaired ==
  /\ mapped # NoSup /\ ~(Enabled(row) /\ slugOf[mapped] = row.slug)
     => Due(0, ReconcileKinds \union {"remove"}) \/ removing > 0
  /\ busy # NoSup /\ restartAs # NoSlug /\ ~(Enabled(row) /\ restartAs = row.slug)
     => Due(1, ReconcileKinds \union {"remove"}) \/ removing > 0
  /\ NoSupervisor /\ Enabled(row) /\ ~Settled => Due(0, ReconcileKinds)
  /\ busy # NoSup /\ restartAs = NoSlug /\ Enabled(row) /\ Head(queue).kind \in ReconcileKinds
     => Due(1, ReconcileKinds)
  /\ restartAs # NoSlug => busy # NoSup /\ Head(queue).kind \in ReconcileKinds

\* Until the manager begins to stop.
Pending == Up => Repaired

\* What the queue is after a job is added or is done.
LEMMA QueueFacts ==
  ASSUME queue \in Seq(Jobs)
  PROVE  /\ \A j \in Jobs : Append(queue, j) \in Seq(Jobs) /\ Append(queue, j) # <<>>
         /\ queue # <<>> => Tail(queue) \in Seq(Jobs) /\ Head(queue) \in Jobs
BY AppendProperties, HeadTailProperties

\* A job record of a known kind is a job.
LEMMA JobsAreJobs ==
  /\ \A k \in {"reconcile", "force", "command", "remove"} : Job(k) \in Jobs
  /\ \A s \in Sups : [kind |-> "deactivate", sup |-> s] \in Jobs
BY DEF Job, Jobs, ReconcileKinds

\* A row with another status is a row.
LEMMA RowsAreRows ==
  ASSUME row \in Rows
  PROVE  /\ \A s \in Statuses : WithStatus(s) \in Rows
         /\ \A s \in Statuses : WithStatus(s).state = row.state /\ WithStatus(s).slug = row.slug
         /\ \A s \in Statuses : WithStatus(s).status \in {s, row.status}
BY DEF Rows, Statuses, WithStatus

\* Every step keeps the variables in their types.
LEMMA TypeStep ==
  ASSUME TypeOK, Ownership, [Next]_vars
  PROVE  TypeOK'
<1> USE NoSupNew, NoSlugNew, JobsAreJobs, RowsAreRows
<1>1. CASE AdminStep
  <2>1. row' \in Rows
    <3>1. row \in Rows
      BY DEF TypeOK
    <3>2. CASE \E state \in {"enabled", "disabled"}, slug \in Slugs : SaveChannel(state, slug)
      BY <3>1, <3>2 DEF SaveChannel, Rows, Statuses
    <3>3. CASE DeleteChannel
      BY <3>1, <3>3 DEF DeleteChannel, Rows, Statuses
    <3>4. CASE SaveReconciles \/ SaveRefreshFails \/ DeleteRemoves \/ SendCommand
      BY <3>1, <3>4 DEF SaveReconciles, SaveRefreshFails, DeleteRemoves, SendCommand
    <3> QED BY <1>1, <3>2, <3>3, <3>4 DEF AdminStep
  <2>2. queue' \in Seq(Jobs)
    <3>1. queue' = queue \/ \E k \in {"reconcile", "remove", "command"} : queue' = Append(queue, Job(k))
      BY <1>1 DEF AdminStep, SaveChannel, SaveReconciles, SaveRefreshFails,
        DeleteChannel, DeleteRemoves, SendCommand, Schedule, Enqueue, lockVars
    <3> QED BY <3>1, QueueFacts DEF TypeOK
  <2>3. saving' \in Nat /\ removing' \in Nat /\ neglected' \in BOOLEAN
    <3>1. /\ saving' = saving \/ saving' = saving + 1 \/ (saving > 0 /\ saving' = saving - 1)
          /\ removing' = removing \/ removing' = removing + 1 \/ (removing > 0 /\ removing' = removing - 1)
      BY <1>1 DEF AdminStep, SaveChannel, SaveReconciles, SaveRefreshFails,
        DeleteChannel, DeleteRemoves, SendCommand, hostVars
    <3>2. neglected' \in {neglected, FALSE, neglected \/ row.state # "absent"}
      BY <1>1 DEF AdminStep, SaveChannel, SaveReconciles, SaveRefreshFails,
        DeleteChannel, DeleteRemoves, SendCommand, hostVars
    <3>3. saving \in Nat /\ removing \in Nat /\ neglected \in BOOLEAN
      BY DEF TypeOK
    <3>4. saving' \in Nat
      BY <3>1, <3>3
    <3>5. removing' \in Nat
      BY <3>1, <3>3
    <3>6. neglected' \in BOOLEAN
      BY <3>2, <3>3
    <3> QED BY <3>4, <3>5, <3>6
  <2>4. UNCHANGED <<busy, restartAs, supVars, threadVars, loopVars, monitor, closing>>
    BY <1>1 DEF AdminStep, SaveChannel, SaveReconciles, SaveRefreshFails, DeleteChannel,
      DeleteRemoves, SendCommand, hostVars, lockVars
  <2> QED
    BY <2>1, <2>2, <2>3, <2>4 DEF TypeOK, supVars, loopVars, threadVars
<1>2. CASE ListenerStep
  <2>1. queue' \in Seq(Jobs)
    BY <1>2, QueueFacts DEF TypeOK, ListenerStep, Demand, ListenerArrives, ListenersLeave,
      DemandCools, Tap, Untap, Schedule, Enqueue, lockVars
  <2>2. tapped' \subseteq Sups
    BY <1>2 DEF TypeOK, ListenerStep, Demand, ListenerArrives, ListenersLeave,
      DemandCools, Tap, Untap, supVars
  <2>3. watched' \in BOOLEAN /\ demand' \in {"none", "fresh", "old"} /\ refreshDue' \in BOOLEAN
    BY <1>2 DEF TypeOK, ListenerStep, Demand, ListenerArrives, ListenersLeave,
      DemandCools, Tap, Untap, loopVars
  <2>4. UNCHANGED <<row, busy, restartAs, mapped, phase, slugOf, proc, threadVars, hostVars>>
    BY <1>2 DEF ListenerStep, Demand, ListenerArrives, ListenersLeave, DemandCools, Tap, Untap,
      supVars, lockVars
  <2> QED
    BY <2>1, <2>2, <2>3, <2>4 DEF TypeOK, threadVars, hostVars
<1>3. CASE MonitorPicks
  <2>1. mapped \in Sups /\ queue' = Append(queue, [kind |-> "deactivate", sup |-> mapped])
    BY <1>3 DEF TypeOK, MonitorPicks
  <2>2. queue \in Seq(Jobs)
    BY DEF TypeOK
  <2>3. [kind |-> "deactivate", sup |-> mapped] \in Jobs
    BY <2>1
  <2>4. queue' \in Seq(Jobs)
    BY <2>1, <2>2, <2>3, QueueFacts
  <2>5. UNCHANGED <<row, busy, restartAs, supVars, threadVars, loopVars, hostVars>>
    BY <1>3 DEF MonitorPicks
  <2> QED BY <2>4, <2>5 DEF TypeOK, supVars, loopVars, threadVars, hostVars
<1>4. CASE MonitorRefreshes \/ MonitorDies
  <2>1. row' \in Rows
    BY <1>4 DEF TypeOK, MonitorRefreshes, MonitorDies, RefreshIdle, RefreshRaises, Statuses
  <2>2. refreshDue' \in BOOLEAN /\ monitor' \in BOOLEAN
    BY <1>4 DEF TypeOK, MonitorRefreshes, MonitorDies, RefreshIdle, RefreshRaises, hostVars
  <2>3. UNCHANGED <<lockVars, supVars, threadVars, watched, demand, requestVars, neglected, closing>>
    BY <1>4 DEF MonitorRefreshes, MonitorDies, hostVars, requestVars
  <2> QED BY <2>1, <2>2, <2>3 DEF TypeOK, lockVars, supVars, threadVars, requestVars
<1>5. CASE JobStep
  <2>1. CASE \/ ReconcileReturns \/ ReconcileFails \/ ReconcileDisabled \/ ReconcileKeeps
             \/ ReconcileIdles \/ RemoveNothing \/ DeactivateGivesUp
    <3>a. JobDone /\ queue # <<>>
      BY <2>1 DEF ReconcileReturns, ReconcileFails, ReconcileDisabled, ReconcileKeeps, ReconcileIdles,
        RemoveNothing, DeactivateGivesUp, Begins
    <3>b. queue \in Seq(Jobs)
      BY DEF TypeOK
    <3>1. queue' \in Seq(Jobs) /\ busy' = NoSup /\ restartAs' = NoSlug
      BY <3>a, <3>b, QueueFacts DEF JobDone
    <3>c. /\ \/ row' = row
             \/ \E s \in Statuses : row' = WithStatus(s)
          /\ refreshDue' \in BOOLEAN \/ refreshDue' = refreshDue
      BY <2>1 DEF ReconcileReturns, ReconcileFails, ReconcileDisabled, ReconcileKeeps,
        ReconcileIdles, RemoveNothing, DeactivateGivesUp, ForgetListeners, IdleCommand, RefreshIdle,
        RefreshRaises, Statuses, loopVars
    <3>d. neglected' = neglected \/ neglected' \in BOOLEAN
      BY <2>1 DEF ReconcileReturns, ReconcileFails, ReconcileDisabled, ReconcileKeeps,
        ReconcileIdles, RemoveNothing, DeactivateGivesUp, Looks, hostVars
    <3>2. row' \in Rows /\ refreshDue' \in BOOLEAN /\ neglected' \in BOOLEAN
      BY <3>c, <3>d DEF TypeOK
    <3>3. /\ UNCHANGED <<supVars, threadVars, monitor, requestVars, closing>>
          /\ watched' \in {watched, FALSE} /\ demand' \in {demand, "none"}
      BY <2>1 DEF ReconcileReturns, ReconcileFails, Looks, requestVars, ReconcileDisabled, ReconcileKeeps, ReconcileIdles,
        RemoveNothing, DeactivateGivesUp, ForgetListeners, loopVars, hostVars
    <3> QED BY <3>1, <3>2, <3>3 DEF TypeOK, supVars, threadVars, requestVars
  <2>2. CASE ReconcileStarts
    <3>a. JobDone /\ queue # <<>> /\ queue \in Seq(Jobs)
      BY <2>2 DEF ReconcileStarts, Begins, TypeOK
    <3>1. queue' \in Seq(Jobs) /\ busy' = NoSup /\ restartAs' = NoSlug
      BY <3>a, QueueFacts DEF JobDone
    <3>2. PICK s \in Sups : Start(s, row.slug)
      BY <2>2 DEF ReconcileStarts
    <3>3. row.slug \in Slugs
      BY DEF TypeOK, Rows
    <3>4. /\ mapped' \in Sups /\ refreshDue' = FALSE /\ demand' \in {"none", "fresh", "old"}
          /\ phase' \in [Sups -> {"free", "running", "ending", "stopping", "closing", "cut"}]
          /\ slugOf' \in [Sups -> Slugs \union {NoSlug}]
      BY <3>2, <3>3 DEF Start, TypeOK
    <3>5. UNCHANGED <<row, proc, tapped, threadVars, watched, monitor, saving, removing, closing>>
          /\ neglected' = FALSE
      BY <2>2 DEF ReconcileStarts, Looks, requestVars
    <3> QED BY <3>1, <3>4, <3>5 DEF TypeOK, threadVars
  <2>3. CASE ReconcileDisabledStops \/ ReconcileRenames \/ RemoveStops \/ DeactivateStops
    <3>1. PICK again \in {NoSlug, row.slug} : BeginStop(again)
      BY <2>3 DEF ReconcileDisabledStops, ReconcileRenames, RemoveStops, DeactivateStops
    <3>2. row.slug \in Slugs
      BY DEF TypeOK, Rows
    <3>3. /\ busy' \in Sups \union {NoSup} /\ restartAs' \in Slugs \union {NoSlug} /\ mapped' = NoSup
          /\ UNCHANGED <<queue, slugOf, tapped, threadVars, monitor, saving, removing, closing>>
      BY <3>1, <3>2 DEF BeginStop, TypeOK, requestVars
    <3>4. phase' \in [Sups -> {"free", "running", "ending", "stopping", "closing", "cut"}]
      BY <3>1 DEF BeginStop, TypeOK
    <3>5. proc' \in [Sups -> {"none", "up", "closing"}]
      BY <3>1 DEF BeginStop, TypeOK
    <3>6. row' = row /\ watched' \in {watched, FALSE} /\ demand' \in {demand, "none"}
          /\ refreshDue' \in {refreshDue, FALSE}
      BY <2>3 DEF ReconcileDisabledStops, ReconcileRenames, RemoveStops, DeactivateStops,
        ForgetListeners, loopVars
    <3>7. row' \in Rows /\ queue' \in Seq(Jobs) /\ tapped' \subseteq Sups
          /\ slugOf' \in [Sups -> Slugs \union {NoSlug}]
      BY <3>3, <3>6 DEF TypeOK
    <3>8. watched' \in BOOLEAN /\ demand' \in {"none", "fresh", "old"} /\ refreshDue' \in BOOLEAN
      BY <3>6 DEF TypeOK
    <3>9. neglected' = neglected \/ neglected' = FALSE
      BY <2>3 DEF ReconcileDisabledStops, ReconcileRenames, RemoveStops, DeactivateStops, Looks
    <3> QED BY <3>3, <3>4, <3>5, <3>7, <3>8, <3>9 DEF TypeOK, threadVars
  <2>4. CASE StopRaises \/ StoppedForGood \/ StoppedIdle \/ StoppedToIdle \/ StoppedToReturn
    <3>a. row' = row \/ \E s \in Statuses : row' = WithStatus(s)
      BY <2>4 DEF StopRaises, StoppedForGood, StoppedIdle, StoppedToIdle, StoppedToReturn, IdleCommand,
        RefreshIdle, RefreshRaises, Statuses
    <3>b. refreshDue' \in BOOLEAN \/ refreshDue' = refreshDue
      BY <2>4 DEF StopRaises, StoppedForGood, StoppedIdle, StoppedToIdle, StoppedToReturn,
        RefreshIdle, RefreshRaises, loopVars
    <3>1. row' \in Rows /\ refreshDue' \in BOOLEAN
      BY <3>a, <3>b DEF TypeOK
    <3>2. /\ watched' = watched /\ demand' \in {demand, "none"} /\ monitor' \in {monitor, FALSE}
          /\ UNCHANGED <<saving, removing, closing>> /\ Stopped /\ Freed(busy) /\ JobDone
          /\ neglected' = neglected \/ neglected' \in BOOLEAN
      BY <2>4 DEF TypeOK, StopRaises, StoppedForGood, StoppedIdle, StoppedToIdle, StoppedToReturn,
        loopVars, hostVars, requestVars
    <3>3. queue' \in Seq(Jobs)
      BY <3>2, QueueFacts DEF TypeOK, Ownership, Stopped, JobDone
    <3> QED
      BY <3>1, <3>2, <3>3 DEF TypeOK, Stopped, LetThreadGo, Freed, JobDone
  <2>5. CASE StoppedToRestart
    BY <2>5, QueueFacts DEF TypeOK, Ownership, StoppedToRestart, Stopped, LetThreadGo, JobDone,
      Statuses, hostVars
  <2> QED BY <1>5, <2>1, <2>2, <2>3, <2>4, <2>5 DEF JobStep
<1>6. ASSUME NEW s \in Sups, TaskStep(s)
      PROVE  TypeOK'
  <2> USE <1>6
  <2>1. row' \in Rows
    BY DEF TypeOK, TaskStep, EncoderUp, GoLive, CheckpointBegins, CheckpointEnds, RunStopsEncoder,
      EncoderReaped, Crash, TaskEnds, CutEnds, Statuses
  <2>2. queue' \in Seq(Jobs) /\ UNCHANGED <<busy, restartAs, loopVars, hostVars>>
    BY QueueFacts DEF TypeOK, TaskStep, EncoderUp, GoLive, CheckpointBegins, CheckpointEnds,
      RunStopsEncoder, EncoderReaped, Crash, TaskEnds, CutEnds, Schedule, Enqueue, lockVars
  <2>3. /\ mapped' \in {mapped, NoSup} /\ tapped' \subseteq Sups /\ writing' \subseteq Sups
        /\ late' \in BOOLEAN
    BY DEF TypeOK, TaskStep, EncoderUp, GoLive, CheckpointBegins, CheckpointEnds,
      RunStopsEncoder, EncoderReaped, Crash, TaskEnds, CutEnds, Freed, LetThreadGo, supVars, threadVars
  <2>4. /\ phase' \in [Sups -> {"free", "running", "ending", "stopping", "closing", "cut"}]
        /\ slugOf' \in [Sups -> Slugs \union {NoSlug}]
        /\ proc' \in [Sups -> {"none", "up", "closing"}]
    BY DEF TypeOK, TaskStep, EncoderUp, GoLive, CheckpointBegins, CheckpointEnds,
      RunStopsEncoder, EncoderReaped, Crash, TaskEnds, CutEnds, Freed, supVars
  <2> QED
    BY <2>1, <2>2, <2>3, <2>4 DEF TypeOK, loopVars, hostVars
<1>7. CASE LateCheckpoint
  <2>1. row' \in Rows
    BY <1>7 DEF TypeOK, LateCheckpoint, Statuses
  <2>2. neglected' \in BOOLEAN /\ late' \in BOOLEAN
    BY <1>7 DEF TypeOK, LateCheckpoint
  <2> QED BY <1>7, <2>1, <2>2 DEF TypeOK, LateCheckpoint, lockVars, supVars, loopVars, requestVars
<1>8. CASE ShutdownStep
  <2>1. CASE ShutdownBegins
    BY <2>1, QueueFacts DEF TypeOK, Ownership, ShutdownBegins, JobDone, lockVars, threadVars,
      loopVars, requestVars
  <2>2. CASE ShutdownStops
    BY <2>2 DEF TypeOK, ShutdownStops, lockVars, threadVars, loopVars, requestVars
  <2>3. CASE ShutdownEnds
    <3>1. row' \in Rows
      BY <2>3 DEF TypeOK, ShutdownEnds, Statuses
    <3>2. /\ phase' \in [Sups -> {"free", "running", "ending", "stopping", "closing", "cut"}]
          /\ slugOf' \in [Sups -> Slugs \union {NoSlug}]
          /\ proc' \in [Sups -> {"none", "up", "closing"}]
      BY <2>3 DEF TypeOK, ShutdownEnds
    <3>3. tapped' \subseteq Sups /\ writing' \subseteq Sups /\ late' \in BOOLEAN
      BY <2>3 DEF TypeOK, ShutdownEnds, LetThreadGo, threadVars
    <3> QED
      BY <2>3, <3>1, <3>2, <3>3 DEF TypeOK, ShutdownEnds, lockVars, loopVars, requestVars
  <2> QED BY <1>8, <2>1, <2>2, <2>3 DEF ShutdownStep
<1>9. CASE UNCHANGED vars
  BY <1>9 DEF TypeOK, vars, lockVars, supVars, threadVars, loopVars, hostVars
<1> QED BY <1>1, <1>2, <1>3, <1>4, <1>5, <1>6, <1>7, <1>8, <1>9 DEF Next

\* What a step does to the owners: nothing, a start, a stop, or the end of one.
Moves(s, to) == phase' = [phase EXCEPT ![s] = to]

\* No step gives the channel a second owner.
LEMMA OwnershipStep ==
  ASSUME IInv, [Next]_vars
  PROVE  Ownership' /\ Ending'
<1> USE NoSupNew, NoSlugNew DEF IInv, Ownership, Ending, NoSupervisor, Left, Up
<1>1. ASSUME UNCHANGED <<busy, mapped, phase, closing>>, monitor' => monitor,
             queue' = queue \/ (queue' # <<>> /\ Up),
             \A s \in writing' : s \in writing \/ phase[s] = "running"
      PROVE  Ownership' /\ Ending'
  BY <1>1
<1>2. ASSUME UNCHANGED <<mapped, phase, closing, writing>>, monitor' => monitor,
             queue # <<>>, busy = NoSup, busy' = NoSup
      PROVE  Ownership' /\ Ending'
  BY <1>2
<1>3. CASE AdminStep
  <2>1. queue' # <<>> \/ queue' = queue
    BY <1>3, QueueFacts, JobsAreJobs DEF AdminStep, SaveChannel, SaveReconciles, SaveRefreshFails,
      DeleteChannel, DeleteRemoves, SendCommand, Schedule, Enqueue, TypeOK, lockVars
  <2>2. queue' = queue \/ Up
    BY <1>3 DEF AdminStep, SaveChannel, SaveReconciles, SaveRefreshFails, DeleteChannel,
      DeleteRemoves, SendCommand, Schedule, lockVars, Room
  <2>3. UNCHANGED <<busy, mapped, phase, closing, monitor, writing>>
    BY <1>3 DEF AdminStep, SaveChannel, SaveReconciles, SaveRefreshFails, DeleteChannel,
      DeleteRemoves, SendCommand, lockVars, supVars, hostVars, threadVars
  <2> QED
    BY <1>1, <2>1, <2>2, <2>3
<1>4. CASE ListenerStep
  <2>1. queue' = queue \/ (queue' # <<>> /\ Up)
    BY <1>4, QueueFacts, JobsAreJobs DEF ListenerStep, Demand, ListenerArrives,
      ListenersLeave, DemandCools, Tap, Untap, Schedule, Enqueue, lockVars, Room, TypeOK
  <2>2. UNCHANGED <<busy, mapped, phase, closing, monitor, writing>>
    BY <1>4 DEF ListenerStep, Demand, ListenerArrives, ListenersLeave, DemandCools, Tap,
      Untap, lockVars, supVars, hostVars, threadVars
  <2> QED BY <1>1, <2>1, <2>2
<1>5. CASE MonitorPicks
  <2>1. queue' # <<>>
    BY <1>5, QueueFacts, JobsAreJobs DEF MonitorPicks, TypeOK
  <2> QED BY <1>1, <1>5, <2>1 DEF MonitorPicks, supVars, hostVars, threadVars
<1>6. CASE MonitorRefreshes \/ MonitorDies
  BY <1>1, <1>6 DEF MonitorRefreshes, MonitorDies, lockVars, supVars, hostVars, threadVars
<1>7. CASE JobStep
  <2>1. CASE \/ ReconcileReturns \/ ReconcileFails \/ ReconcileDisabled \/ ReconcileKeeps
             \/ ReconcileIdles \/ RemoveNothing \/ DeactivateGivesUp
    BY <1>2, <2>1 DEF ReconcileReturns, ReconcileFails, Looks, ReconcileDisabled, ReconcileKeeps, ReconcileIdles,
      RemoveNothing, DeactivateGivesUp, Begins, JobDone, supVars, hostVars, threadVars
  <2>2. CASE ReconcileStarts
    <3>1. PICK s \in Sups : Start(s, row.slug)
      BY <2>2 DEF ReconcileStarts
    <3>2. /\ mapped = NoSup /\ busy = NoSup /\ busy' = NoSup /\ mapped' = s /\ Up
          /\ phase[s] = "free" /\ Moves(s, "running")
          /\ UNCHANGED <<monitor, closing, writing>>
      BY <2>2, <3>1 DEF ReconcileStarts, Looks, Start, IsUnused, Begins, JobDone, threadVars, Moves
    <3> QED BY <3>2 DEF TypeOK, Moves
  <2>3. CASE ReconcileDisabledStops \/ ReconcileRenames \/ RemoveStops \/ DeactivateStops
    <3>1. /\ mapped \in Sups /\ busy = NoSup /\ queue # <<>> /\ queue' = queue
          /\ busy' = mapped /\ mapped' = NoSup /\ Moves(mapped, "stopping")
          /\ UNCHANGED <<monitor, closing, writing>>
      BY <2>3, QueueFacts DEF ReconcileDisabledStops, ReconcileRenames, RemoveStops,
        DeactivateStops, Begins, BeginStop, Jobs, ReconcileKinds, TypeOK, threadVars, Moves
    <3> QED BY <3>1 DEF TypeOK, Moves
  <2>4. CASE StopRaises \/ StoppedForGood \/ StoppedIdle \/ StoppedToIdle \/ StoppedToReturn
    <3>1. /\ busy \in Sups /\ busy' = NoSup /\ mapped' = NoSup /\ Moves(busy, "free")
          /\ closing' = closing /\ (monitor' => monitor) /\ writing' = writing \ {busy}
      BY <2>4 DEF StopRaises, StoppedForGood, StoppedIdle, StoppedToIdle, StoppedToReturn, Stopped,
        Freed, LetThreadGo, JobDone, TypeOK, hostVars, Moves
    <3> QED BY <3>1 DEF TypeOK, Moves
  <2>5. CASE StoppedToRestart
    <3>1. /\ busy \in Sups /\ busy' = NoSup /\ mapped' = busy /\ Moves(busy, "running") /\ Up
          /\ UNCHANGED <<monitor, closing>> /\ writing' = writing \ {busy}
      BY <2>5 DEF StoppedToRestart, Stopped, LetThreadGo, JobDone, TypeOK, hostVars, Moves
    <3> QED BY <3>1 DEF TypeOK, Moves
  <2> QED BY <1>7, <2>1, <2>2, <2>3, <2>4, <2>5 DEF JobStep
<1>8. ASSUME NEW s \in Sups, TaskStep(s)
      PROVE  Ownership' /\ Ending'
  <2>1. CASE \/ EncoderUp(s) \/ GoLive(s) \/ CheckpointBegins(s) \/ CheckpointEnds(s)
             \/ RunStopsEncoder(s) \/ EncoderReaped(s)
    BY <1>1, <2>1 DEF EncoderUp, GoLive, CheckpointBegins, CheckpointEnds, RunStopsEncoder,
      EncoderReaped, lockVars, supVars, hostVars, threadVars
  <2>2. CASE Crash(s)
    <3>1. /\ phase[s] = "running" /\ Moves(s, "ending") /\ s \notin writing
          /\ UNCHANGED <<queue, busy, mapped, monitor, closing, writing>>
      BY <2>2 DEF Crash, lockVars, hostVars, threadVars, Moves
    <3> QED BY <3>1 DEF TypeOK, Moves
  <2>3. CASE TaskEnds(s)
    <3>1. queue' = queue \/ (queue' # <<>> /\ Up)
      BY <2>3, QueueFacts, JobsAreJobs DEF TaskEnds, Schedule, Enqueue, TypeOK
    <3>2. /\ phase[s] = "ending" /\ Moves(s, "free") /\ mapped' = NoSup
          /\ UNCHANGED <<busy, monitor, closing, writing>>
      BY <2>3 DEF TaskEnds, Freed, hostVars, threadVars, Moves
    <3> QED BY <3>1, <3>2 DEF TypeOK, Moves
  <2>4. CASE CutEnds(s)
    <3>1. /\ phase[s] = "cut" /\ Moves(s, "free")
          /\ UNCHANGED <<queue, busy, mapped, monitor, closing>> /\ writing' = writing \ {s}
      BY <2>4 DEF CutEnds, LetThreadGo, lockVars, hostVars, Moves
    <3> QED BY <3>1 DEF TypeOK, Moves
  <2> QED BY <1>8, <2>1, <2>2, <2>3, <2>4 DEF TaskStep
<1>9. CASE LateCheckpoint
  BY <1>1, <1>9 DEF LateCheckpoint, lockVars, supVars
<1>10. CASE ShutdownStep
  <2>1. CASE ShutdownBegins
    <3>1. CASE busy # NoSup /\ Head(queue).kind = "deactivate"
      <4>1. /\ busy \in Sups /\ busy' = NoSup /\ mapped' = mapped /\ Moves(busy, "cut")
            /\ closing' = "begun" /\ monitor' = FALSE /\ Up /\ writing' = writing
        BY <2>1, <3>1 DEF ShutdownBegins, JobDone, TypeOK, threadVars, Moves
      <4> QED BY <4>1 DEF TypeOK, Moves
    <3>2. CASE ~(busy # NoSup /\ Head(queue).kind = "deactivate")
      <4>1. /\ UNCHANGED <<queue, busy, mapped, phase>> /\ Up
            /\ closing' = "begun" /\ monitor' = FALSE /\ writing' = writing
        BY <2>1, <3>2 DEF ShutdownBegins, lockVars, threadVars
      <4> QED BY <4>1 DEF TypeOK
    <3> QED BY <3>1, <3>2
  <2>2. CASE ShutdownStops
    <3>1. /\ queue = <<>> /\ UNCHANGED <<queue, busy, monitor>> /\ closing = "begun"
          /\ closing' = "stopping" /\ mapped' = NoSup /\ writing' = writing
          /\ phase' = [s \in Sups |-> IF s = mapped THEN "closing" ELSE phase[s]]
      BY <2>2 DEF ShutdownStops, lockVars, threadVars
    <3>2. busy = NoSup
      BY <3>1
    <3> QED BY <3>1, <3>2 DEF TypeOK
  <2>3. CASE ShutdownEnds
    <3>1. /\ closing = "stopping" /\ closing' = "done" /\ UNCHANGED <<queue, busy, mapped, monitor>>
          /\ \/ UNCHANGED <<phase, writing>> /\ \A s \in Sups : phase[s] # "closing"
             \/ \E s \in Sups : phase[s] = "closing" /\ Moves(s, "free") /\ writing' = writing \ {s}
      BY <2>3 DEF ShutdownEnds, LetThreadGo, lockVars, threadVars, Moves
    <3> QED BY <3>1 DEF TypeOK, Moves
  <2> QED BY <1>10, <2>1, <2>2, <2>3 DEF ShutdownStep
<1>11. CASE UNCHANGED vars
  BY <1>1, <1>11 DEF vars, lockVars, supVars, hostVars, threadVars
<1> QED BY <1>3, <1>4, <1>5, <1>6, <1>7, <1>8, <1>9, <1>10, <1>11 DEF Next

\* A job added at the end comes after every other one, and none is lost.
LEMMA AfterAppend ==
  ASSUME queue \in Seq(Jobs), NEW j \in Jobs, queue' = Append(queue, j)
  PROVE  /\ \A i \in Nat, K \in SUBSET {"reconcile", "force", "command", "remove"} :
              /\ After(queue, i, K) => After(queue', i, K)
              /\ i <= Len(queue) /\ j.kind \in K => After(queue', i, K)
         /\ Len(queue') = Len(queue) + 1
         /\ \A i \in DOMAIN queue : queue'[i] = queue[i]
         /\ queue'[Len(queue) + 1] = j
         /\ queue # <<>> => Head(queue') = Head(queue)
BY AppendProperties DEF After

\* When the first job is done every other one moves up.
LEMMA AfterTail ==
  ASSUME queue \in Seq(Jobs), queue # <<>>, queue' = Tail(queue)
  PROVE  /\ \A i \in Nat, K \in SUBSET {"reconcile", "force", "command", "remove"} :
              After(queue, i + 1, K) => After(queue', i, K)
         /\ \A i \in DOMAIN queue' : i + 1 \in DOMAIN queue /\ queue'[i] = queue[i + 1]
         /\ Head(queue) = queue[1] /\ 1 \in DOMAIN queue
<1>1. /\ Tail(queue) \in Seq(Jobs) /\ Len(Tail(queue)) = Len(queue) - 1
      /\ \A i \in 1..Len(Tail(queue)) : Tail(queue)[i] = queue[i + 1]
      /\ Len(queue) > 0
  BY HeadTailProperties
<1>2. ASSUME NEW i \in Nat, NEW K, After(queue, i + 1, K)
      PROVE  After(queue', i, K)
  <2>1. PICK j \in DOMAIN queue : j > i + 1 /\ queue[j].kind \in K
    BY <1>2 DEF After
  <2>2. j - 1 \in DOMAIN queue' /\ j - 1 > i /\ queue'[j - 1].kind \in K
    BY <1>1, <2>1
  <2> QED BY <2>2 DEF After
<1> QED BY <1>1, <1>2

\* A later position and a smaller set of kinds say more.
LEMMA AfterWeaken ==
  /\ \A i \in Nat : After(queue, i, ReconcileKinds) => After(queue, i, ReconcileKinds \union {"remove"})
  /\ \A K : queue \in Seq(Jobs) /\ After(queue, 1, K) => After(queue, 0, K)
BY DEF After

\* What comes after a first job of another kind comes after the first job.
LEMMA AfterHead ==
  ASSUME queue \in Seq(Jobs), queue # <<>>
  PROVE  /\ Head(queue) = queue[1] /\ 1 \in DOMAIN queue
         /\ \A K : After(queue, 0, K) /\ Head(queue).kind \notin K => After(queue, 1, K)
<1>1. Head(queue) = queue[1] /\ 1 \in DOMAIN queue
  BY HeadTailProperties
<1> QED BY <1>1 DEF After

\* Every step that makes something not match leaves the job that repairs it.
LEMMA PendingStep ==
  ASSUME IInv, Ownership', Repaired, Up, Up', [Next]_vars
  PROVE  Repaired'
<1> DEFINE Repairs == ReconcileKinds \union {"remove"}
<1>0. /\ Repairs \in SUBSET {"reconcile", "force", "command", "remove"}
      /\ ReconcileKinds \in SUBSET {"reconcile", "force", "command", "remove"}
      /\ queue \in Seq(Jobs) /\ (queue # <<>> => Len(queue) >= 1)
  BY DEF ReconcileKinds, IInv, TypeOK
<1> USE NoSupNew, NoSlugNew DEF IInv, NoSupervisor
<1>1. ASSUME NEW j \in Jobs, queue' = Append(queue, j),
             UNCHANGED <<row, busy, restartAs, mapped, slugOf, neglected>>,
             saving' = saving \/ j.kind \in ReconcileKinds,
             removing' = removing \/ j.kind \in Repairs
      PROVE  Repaired'
  <2>1. /\ After(queue, 0, Repairs) => After(queue', 0, Repairs)
        /\ After(queue, 1, Repairs) => After(queue', 1, Repairs)
        /\ After(queue, 0, ReconcileKinds) => After(queue', 0, ReconcileKinds)
        /\ After(queue, 1, ReconcileKinds) => After(queue', 1, ReconcileKinds)
    BY <1>0, <1>1, AfterAppend
  <2>2. ASSUME NEW K \in {Repairs, ReconcileKinds}, j.kind \in K
        PROVE  After(queue', 0, K) /\ (busy # NoSup => After(queue', 1, K))
    BY <1>0, <1>1, <2>2, AfterAppend DEF Ownership
  <2>3. busy # NoSup => Head(queue') = Head(queue)
    BY <1>0, <1>1, AfterAppend DEF Ownership
  <2>4. ASSUME NEW K \in {Repairs, ReconcileKinds}
        PROVE  /\ Due(0, K) => Due(0, K)'
               /\ busy # NoSup /\ Due(1, K) => Due(1, K)'
    <3>1. CASE saving' = saving
      BY <1>1, <2>1, <2>4, <3>1 DEF Due
    <3>2. CASE j.kind \in ReconcileKinds
      BY <1>1, <2>2, <2>4, <3>2 DEF Due
    <3> QED BY <1>1, <3>1, <3>2
  <2>5. /\ removing > 0 => Due(0, Repairs)' \/ removing' > 0
        /\ busy # NoSup /\ removing > 0 => Due(1, Repairs)' \/ removing' > 0
    BY <1>1, <2>2 DEF Due
  <2>6. /\ NoSupervisor' <=> NoSupervisor
        /\ Enabled(row)' <=> Enabled(row)
        /\ Settled' <=> Settled
    BY <1>1 DEF Enabled, Settled
  <2> HIDE DEF IInv, NoSupervisor
  <2>7. /\ Due(0, Repairs) => Due(0, Repairs)'
        /\ busy # NoSup /\ Due(1, Repairs) => Due(1, Repairs)'
        /\ Due(0, ReconcileKinds) => Due(0, ReconcileKinds)'
        /\ busy # NoSup /\ Due(1, ReconcileKinds) => Due(1, ReconcileKinds)'
    BY <2>4
  <2> HIDE DEF Due
  <2> QED BY <1>1, <2>3, <2>5, <2>6, <2>7 DEF Repaired
<1>2. CASE AdminStep
  <2>1. ASSUME NEW state \in {"enabled", "disabled"}, NEW slug \in Slugs,
               SaveChannel(state, slug)
        PROVE  Repaired'
    <3>1. saving' > 0 /\ row'.state # "absent" /\ UNCHANGED <<queue, busy, restartAs>>
      BY <2>1 DEF SaveChannel, TypeOK, lockVars
    <3> QED BY <3>1 DEF Repaired, Due
  <2>2. CASE SaveReconciles \/ DeleteRemoves \/ SendCommand
    <3>1. PICK k \in {"reconcile", "remove", "command"} :
            /\ queue' = Append(queue, Job(k))
            /\ saving' = saving \/ k = "reconcile"
            /\ removing' = removing \/ k = "remove"
      BY <2>2 DEF SaveReconciles, DeleteRemoves, SendCommand, Schedule, Enqueue, hostVars
    <3>2. Job(k) \in Jobs /\ Job(k).kind = k
      BY JobsAreJobs DEF Job
    <3>3. UNCHANGED <<row, busy, restartAs, mapped, slugOf, neglected>>
      BY <2>2 DEF SaveReconciles, DeleteRemoves, SendCommand, supVars, hostVars
    <3> QED BY <1>1, <3>1, <3>2, <3>3 DEF ReconcileKinds
  <2>3. CASE SaveRefreshFails
    <3>1. UNCHANGED <<row, queue, busy, restartAs, mapped, slugOf, removing>>
      BY <2>3 DEF SaveRefreshFails, lockVars, supVars
    <3>2. CASE row.state # "absent"
      BY <2>3, <3>1, <3>2 DEF SaveRefreshFails, Repaired, Due
    <3>3. CASE row.state = "absent"
      <4>1. neglected' = neglected
        BY <2>3, <3>3 DEF SaveRefreshFails, TypeOK
      <4>2. \A i, K : Due(i, K)' <=> Due(i, K)
        BY <3>1, <3>3, <4>1 DEF Due, After
      <4> HIDE DEF Due
      <4> QED BY <3>1, <3>3, <4>2 DEF Repaired, Enabled
    <3> QED BY <3>2, <3>3
  <2>4. CASE DeleteChannel
    <3>1. removing' > 0 /\ row'.state = "absent" /\ UNCHANGED <<queue, busy, restartAs>>
      BY <2>4 DEF DeleteChannel, TypeOK, lockVars
    <3> QED BY <3>1 DEF Repaired, Enabled
  <2> QED BY <1>2, <2>1, <2>2, <2>3, <2>4 DEF AdminStep
<1>3. ASSUME UNCHANGED <<queue, busy, restartAs, mapped, slugOf, saving, removing>>,
             neglected => neglected',
             NoSupervisor /\ Enabled(row) /\ Settled => Settled' \/ neglected',
             row'.state = row.state, row'.slug = row.slug
      PROVE  Repaired'
  <2>1. \A i, K : Due(i, K) => Due(i, K)'
    BY <1>3 DEF Due, After
  <2>2. neglected' => \A i, K : Due(i, K)'
    BY DEF Due
  <2> HIDE DEF Due
  <2> QED BY <1>3, <2>1, <2>2 DEF Repaired, Ownership, Enabled
<1>4. CASE ListenerStep
  <2>1. UNCHANGED <<row, busy, restartAs, mapped, slugOf, saving, removing, neglected>>
    BY <1>4 DEF ListenerStep, Demand, ListenerArrives, ListenersLeave, DemandCools, Tap, Untap,
      lockVars, supVars, hostVars
  <2>2. queue' = queue \/ queue' = Append(queue, Job("force"))
    BY <1>4 DEF ListenerStep, Demand, ListenerArrives, ListenersLeave, DemandCools, Tap, Untap,
      Enqueue, lockVars
  <2>3. Settled => Settled'
    BY <2>1 DEF Settled
  <2> QED BY <1>1, <1>3, <2>1, <2>2, <2>3, JobsAreJobs DEF Job
<1>5. CASE MonitorPicks
  <2>1. [kind |-> "deactivate", sup |-> mapped] \in Jobs
    BY <1>5, JobsAreJobs DEF MonitorPicks, TypeOK
  <2> QED BY <1>1, <1>5, <2>1 DEF MonitorPicks, supVars, hostVars
<1>6. CASE MonitorRefreshes \/ MonitorDies
  <2>1. row' = row \/ (Enabled(row) /\ row' = WithStatus("resting"))
    BY <1>6 DEF MonitorRefreshes, MonitorDies, RefreshIdle, RefreshRaises
  <2>2. /\ row' = row \/ row'.status = "resting"
        /\ row'.state = row.state /\ row'.slug = row.slug
    BY <2>1 DEF WithStatus, Enabled
  <2>3. UNCHANGED <<queue, busy, restartAs, mapped, slugOf, saving, removing, neglected>>
    BY <1>6 DEF MonitorRefreshes, MonitorDies, lockVars, supVars, hostVars, requestVars
  <2>4. Settled => Settled'
    BY <2>2, <2>3 DEF Settled
  <2> QED BY <1>3, <2>2, <2>3, <2>4
<1>7. CASE JobStep
  <2>1. CASE ReconcileDisabledStops \/ ReconcileRenames \/ RemoveStops \/ DeactivateStops
    <3>1. /\ busy = NoSup /\ queue # <<>> /\ queue' = queue /\ row' = row
          /\ mapped' = NoSup /\ busy' = mapped /\ mapped # NoSup
      BY <2>1 DEF ReconcileDisabledStops, ReconcileRenames, RemoveStops, DeactivateStops,
        Begins, BeginStop, Jobs, ReconcileKinds, TypeOK
    <3>2. CASE ReconcileDisabledStops
      BY <3>1, <3>2 DEF ReconcileDisabledStops, BeginStop, Repaired, Enabled
    <3>3. CASE ReconcileRenames
      BY <3>1, <3>3 DEF ReconcileRenames, BeginStop, Repaired, Enabled, Begins, TypeOK, Rows
    <3>4. CASE RemoveStops \/ DeactivateStops
      <4>1. restartAs' = NoSlug /\ Head(queue).kind \notin ReconcileKinds
        BY <3>4 DEF RemoveStops, DeactivateStops, BeginStop, Begins, ReconcileKinds
      <4> QED BY <3>1, <4>1 DEF Repaired
    <3> QED BY <2>1, <3>2, <3>3, <3>4
  <2>2. ASSUME queue # <<>>, queue' = Tail(queue), busy' = NoSup, restartAs' = NoSlug,
               row'.state = row.state, row'.slug = row.slug, UNCHANGED <<saving, removing>>,
               (mapped' # NoSup /\ ~(Enabled(row) /\ slugOf'[mapped'] = row.slug))
                 => ((Due(1, Repairs) \/ removing > 0) /\ neglected' = neglected),
               (mapped' = NoSup /\ Enabled(row) /\ ~Settled')
                 => (neglected' \/ (Due(1, ReconcileKinds) /\ neglected' = neglected))
        PROVE  Repaired'
    <3>1. ASSUME NEW K \in {Repairs, ReconcileKinds}, neglected' = neglected, Due(1, K)
          PROVE  Due(0, K)'
      <4>1. After(queue, 1, K) => After(queue', 0, K)
        <5>1. After(queue, 0 + 1, K) => After(queue', 0, K)
          BY <1>0, <2>2, AfterTail
        <5> QED BY <5>1
      <4>2. row'.state # "absent" <=> row.state # "absent"
        BY <2>2
      <4>3. saving' = saving
        BY <2>2
      <4> QED BY <3>1, <4>1, <4>2, <4>3 DEF Due
    <3>2. neglected' => Due(0, ReconcileKinds)'
      BY DEF Due
    <3>3. Enabled(row') <=> Enabled(row)
      BY <2>2 DEF Enabled
    <3>4. mapped' # NoSup /\ ~(Enabled(row') /\ slugOf'[mapped'] = row'.slug)
          => (Due(0, Repairs) \/ removing > 0)'
      <4>1. CASE mapped' # NoSup /\ ~(Enabled(row') /\ slugOf'[mapped'] = row'.slug)
        <5>1. ~(Enabled(row) /\ slugOf'[mapped'] = row.slug)
          BY <2>2, <3>3, <4>1
        <5>2. (Due(1, Repairs) \/ removing > 0) /\ neglected' = neglected
          BY <2>2, <4>1, <5>1
        <5>3. removing' = removing
          BY <2>2
        <5> QED BY <3>1, <5>2, <5>3
      <4> QED BY <4>1
    <3>5. mapped' = NoSup /\ Enabled(row') /\ ~Settled' => Due(0, ReconcileKinds)'
      BY <2>2, <3>1, <3>2, <3>3
    <3> QED BY <2>2, <3>4, <3>5 DEF Repaired
  <2>3. CASE ReconcileReturns \/ StoppedToReturn
    BY <2>3 DEF ReconcileReturns, StoppedToReturn
  <2>4. ASSUME queue # <<>>, queue' = Tail(queue), busy' = NoSup, restartAs' = NoSlug, neglected'
        PROVE  Repaired'
    BY <2>4 DEF Repaired, Due
  <2>5. CASE ReconcileFails \/ StopRaises
    BY <2>4, <2>5 DEF ReconcileFails, StopRaises, Stopped, Begins, JobDone, Ownership
  <2>6. CASE ReconcileDisabled \/ ReconcileKeeps \/ ReconcileIdles
    <3>1. /\ queue # <<>> /\ busy = NoSup /\ JobDone /\ UNCHANGED <<mapped, slugOf>>
          /\ row'.state = row.state /\ row'.slug = row.slug
          /\ UNCHANGED <<saving, removing>>
      BY <2>6 DEF ReconcileDisabled, ReconcileKeeps, ReconcileIdles, Begins, IdleCommand,
        RefreshIdle, RefreshRaises, WithStatus, supVars, Looks, requestVars
    <3>2. mapped # NoSup \/ ~Enabled(row) \/ Settled' \/ neglected'
      BY <2>6 DEF ReconcileDisabled, ReconcileKeeps, ReconcileIdles, RefreshIdle, RefreshRaises,
        WithStatus, Enabled, Settled
    <3>3. mapped # NoSup => Enabled(row) /\ slugOf[mapped] = row.slug
      BY <2>6 DEF ReconcileDisabled, ReconcileKeeps, ReconcileIdles
    <3> QED BY <3>1, <3>2, <3>3 DEF JobDone, Repaired, Due, Enabled
  <2>7. CASE RemoveNothing \/ DeactivateGivesUp
    <3>1. /\ queue # <<>> /\ busy = NoSup /\ JobDone
          /\ UNCHANGED <<row, mapped, slugOf, saving, removing, neglected>>
      BY <2>7 DEF RemoveNothing, DeactivateGivesUp, Begins, supVars, hostVars
    <3>2. CASE RemoveNothing
      <4>1. mapped = NoSup /\ Head(queue).kind \notin ReconcileKinds
        BY <3>2 DEF RemoveNothing, Begins, ReconcileKinds
      <4>2. Due(0, ReconcileKinds) => Due(1, ReconcileKinds)
        BY <1>0, <3>1, <4>1, AfterHead DEF Due
      <4>3. Settled' <=> Settled
        BY <3>1 DEF Settled
      <4> HIDE DEF Due
      <4> QED BY <2>2, <3>1, <4>1, <4>2, <4>3 DEF JobDone, Repaired
    <3>3. CASE DeactivateGivesUp
      <4>1. Head(queue).kind \notin Repairs
        BY <3>3 DEF DeactivateGivesUp, Begins, ReconcileKinds
      <4>2. /\ Due(0, ReconcileKinds) => Due(1, ReconcileKinds)
            /\ Due(0, Repairs) => Due(1, Repairs)
        BY <1>0, <3>1, <4>1, AfterHead DEF Due
      <4>3. Settled' <=> Settled
        BY <3>1 DEF Settled
      <4> HIDE DEF Due
      <4> QED BY <2>2, <3>1, <4>2, <4>3 DEF JobDone, Repaired
    <3> QED BY <2>7, <3>2, <3>3
  <2>8. CASE ReconcileStarts
    <3>1. mapped' # NoSup /\ slugOf'[mapped'] = row.slug
      BY <2>8 DEF ReconcileStarts, Start, TypeOK
    <3>2. /\ queue # <<>> /\ JobDone /\ Enabled(row) /\ row' = row
          /\ UNCHANGED <<saving, removing>>
      BY <2>8 DEF ReconcileStarts, Begins, Looks, requestVars
    <3> QED BY <3>1, <3>2 DEF JobDone, Repaired
  <2>9. CASE StoppedForGood
    <3>1. /\ queue # <<>> /\ JobDone /\ mapped' = NoSup /\ busy # NoSup
          /\ row'.state = row.state /\ row'.slug = row.slug
          /\ UNCHANGED <<saving, removing>>
      BY <2>9 DEF StoppedForGood, Stopped, Freed, IdleCommand, WithStatus, requestVars, Ownership
    <3>2. Enabled(row) => neglected' \/ (Due(1, ReconcileKinds) /\ neglected' = neglected)
      BY <2>9, <3>1 DEF StoppedForGood, Repaired, Enabled
    <3> HIDE DEF Due
    <3> QED BY <2>2, <3>1, <3>2 DEF JobDone
  <2>10. CASE StoppedIdle \/ StoppedToIdle
    <3>1. /\ row'.state = row.state /\ row'.slug = row.slug
          /\ Enabled(row) => Settled'
      BY <2>10 DEF StoppedIdle, StoppedToIdle, IdleCommand, RefreshIdle, RefreshRaises, WithStatus,
        Enabled, Settled
    <3>2. queue # <<>> /\ JobDone /\ mapped' = NoSup /\ UNCHANGED <<saving, removing, neglected>>
      BY <2>10 DEF StoppedIdle, StoppedToIdle, Stopped, Freed, Ownership, hostVars, requestVars
    <3> QED
      BY <2>2, <3>1, <3>2 DEF JobDone
  <2>11. CASE StoppedToRestart
    <3>1. mapped' = busy /\ slugOf'[mapped'] = restartAs /\ busy # NoSup
      BY <2>11 DEF StoppedToRestart, Stopped, TypeOK
    <3>2. ~(Enabled(row) /\ restartAs = row.slug) => Due(1, Repairs) \/ removing > 0
      BY <2>11 DEF StoppedToRestart, Stopped, Repaired
    <3>3. /\ queue # <<>> /\ JobDone /\ UNCHANGED <<saving, removing, neglected>>
          /\ row'.state = row.state /\ row'.slug = row.slug
      BY <2>11 DEF StoppedToRestart, Stopped, Ownership, WithStatus, hostVars
    <3> HIDE DEF Due
    <3> QED
      BY <2>2, <3>1, <3>2, <3>3 DEF JobDone
  <2> QED BY <1>7, <2>1, <2>3, <2>5, <2>6, <2>7, <2>8, <2>9, <2>10, <2>11 DEF JobStep
<1>8. ASSUME NEW s \in Sups, TaskStep(s)
      PROVE  Repaired'
  <2>1. CASE \/ EncoderUp(s) \/ GoLive(s) \/ CheckpointBegins(s) \/ CheckpointEnds(s)
             \/ RunStopsEncoder(s) \/ EncoderReaped(s) \/ Crash(s)
    <3>1. row' = row \/ ~NoSupervisor
      BY <2>1 DEF EncoderUp, GoLive, CheckpointBegins, CheckpointEnds, RunStopsEncoder,
        EncoderReaped, Crash, Ownership, Ending, Left, TypeOK
    <3>2. row'.state = row.state /\ row'.slug = row.slug
      BY <2>1 DEF EncoderUp, GoLive, CheckpointBegins, CheckpointEnds, RunStopsEncoder,
        EncoderReaped, Crash, WithStatus
    <3>3. UNCHANGED <<queue, busy, restartAs, mapped, slugOf, saving, removing, neglected>>
      BY <2>1 DEF EncoderUp, GoLive, CheckpointBegins, CheckpointEnds, RunStopsEncoder,
        EncoderReaped, Crash, lockVars, supVars, hostVars
    <3>4. NoSupervisor /\ Settled => Settled'
      BY <3>1, <3>3 DEF Settled
    <3> QED BY <1>3, <3>2, <3>3, <3>4
  <2>2. CASE TaskEnds(s)
    <3>1. mapped' = NoSup /\ busy = NoSup /\ busy' = NoSup /\ UNCHANGED <<row, restartAs>>
      BY <2>2 DEF TaskEnds, Freed, Ownership
    <3>2. queue' = Append(queue, Job("reconcile")) /\ Job("reconcile") \in Jobs
          /\ Job("reconcile").kind \in ReconcileKinds
      BY <2>2, JobsAreJobs DEF TaskEnds, Schedule, Enqueue, Job, ReconcileKinds
    <3>3. After(queue', 0, ReconcileKinds)
      BY <1>0, <3>2, AfterAppend
    <3> QED BY <3>1, <3>3 DEF Repaired, Due
  <2>3. CASE CutEnds(s)
    BY <2>3 DEF CutEnds, Ending, Left
  <2> QED BY <1>8, <2>1, <2>2, <2>3 DEF TaskStep
<1>9. CASE LateCheckpoint
  <2>1. row'.state = row.state /\ row'.slug = row.slug
    BY <1>9 DEF LateCheckpoint, WithStatus
  <2>2. UNCHANGED <<queue, busy, restartAs, mapped, slugOf, saving, removing>>
    BY <1>9 DEF LateCheckpoint, lockVars, supVars, requestVars
  <2>3. (neglected => neglected') /\ (NoSupervisor => neglected')
    BY <1>9 DEF LateCheckpoint
  <2> QED BY <1>3, <2>1, <2>2, <2>3
<1>10. CASE ShutdownStep
  BY <1>10 DEF ShutdownStep, ShutdownBegins, ShutdownStops, ShutdownEnds, Up
<1>11. CASE UNCHANGED vars
  <2>1. Settled => Settled'
    BY <1>11 DEF vars, Settled
  <2> QED BY <1>3, <1>11, <2>1 DEF vars, lockVars, supVars, hostVars
<1> QED BY <1>2, <1>4, <1>5, <1>6, <1>7, <1>8, <1>9, <1>10, <1>11 DEF Next

\* A manager that stops never runs again, and starts no supervisor.
LEMMA UpStep ==
  ASSUME [Next]_vars
  PROVE  ~Up => ~Up' /\ mapped' \in {mapped, NoSup}
<1> SUFFICES ASSUME ~Up
             PROVE  ~Up' /\ mapped' \in {mapped, NoSup}
  OBVIOUS
<1>1. CASE AdminStep \/ ListenerStep \/ MonitorPicks \/ MonitorRefreshes \/ MonitorDies
  BY <1>1 DEF AdminStep, SaveChannel, SaveReconciles, SaveRefreshFails, DeleteChannel,
    DeleteRemoves, SendCommand, ListenerStep, Demand,
    ListenerArrives, ListenersLeave, DemandCools, Tap, Untap, MonitorPicks, MonitorRefreshes,
    MonitorDies, supVars, hostVars, Up
<1>2. CASE JobStep
  <2>1. CASE \/ ReconcileReturns \/ ReconcileFails \/ ReconcileDisabled
             \/ ReconcileDisabledStops \/ ReconcileRenames \/ ReconcileKeeps \/ ReconcileIdles \/ ReconcileStarts
             \/ RemoveNothing \/ RemoveStops \/ DeactivateGivesUp \/ DeactivateStops
    BY <2>1 DEF ReconcileReturns, ReconcileFails, Looks, ReconcileDisabled, ReconcileDisabledStops,
      ReconcileRenames,
      ReconcileKeeps, ReconcileIdles, ReconcileStarts, RemoveNothing, RemoveStops,
      DeactivateGivesUp, DeactivateStops, BeginStop, supVars, hostVars, Up
  <2>2. CASE \/ StopRaises \/ StoppedForGood \/ StoppedIdle \/ StoppedToRestart \/ StoppedToIdle
             \/ StoppedToReturn
    BY <2>2 DEF StopRaises, StoppedForGood, StoppedIdle, StoppedToRestart, StoppedToIdle, StoppedToReturn,
      Freed, hostVars, Up
  <2> QED BY <1>2, <2>1, <2>2 DEF JobStep
<1>3. ASSUME NEW s \in Sups, TaskStep(s)
      PROVE  ~Up' /\ mapped' \in {mapped, NoSup}
  BY <1>3 DEF TaskStep, EncoderUp, GoLive, CheckpointBegins, CheckpointEnds, RunStopsEncoder,
    EncoderReaped, Crash, TaskEnds, CutEnds, Freed, supVars, hostVars, Up
<1>4. CASE LateCheckpoint \/ ShutdownStep \/ UNCHANGED vars
  BY <1>4 DEF LateCheckpoint, ShutdownStep, ShutdownBegins, ShutdownStops, ShutdownEnds, vars,
    supVars, hostVars, Up
<1> QED BY <1>1, <1>2, <1>3, <1>4 DEF Next

\* The invariant holds at the start.
LEMMA InitIInv ==
  ASSUME Init
  PROVE  IInv /\ Pending
<1> USE NoSupNew, NoSlugNew, AlwaysOnIsBoolean
<1>1. queue \in Seq(Jobs)
  BY JobsAreJobs DEF Init
<1>2. TypeOK
  BY <1>1 DEF Init, TypeOK, Rows, Statuses
<1>3. Ownership /\ Ending
  BY DEF Init, Ownership, Ending, Left, NoSupervisor, Up
<1>4. \A i \in DOMAIN queue : queue[i].kind # "remove"
  BY DEF Init, Job
<1>5. Pending
  BY <1>4 DEF Init, Pending, Repaired, NoSupervisor, Enabled, Settled
<1> QED BY <1>2, <1>3, <1>5 DEF IInv

\* The inductive invariant of the runtime.
THEOREM Inductive == Safety => [](IInv /\ Pending)
<1>1. Init => IInv /\ Pending
  BY InitIInv
<1>2. (IInv /\ Pending) /\ [Next]_vars => (IInv /\ Pending)'
  <2> SUFFICES ASSUME IInv, Pending, [Next]_vars
               PROVE  IInv' /\ Pending'
    OBVIOUS
  <2>1. TypeOK'
    BY TypeStep DEF IInv
  <2>2. Ownership' /\ Ending'
    BY OwnershipStep
  <2>3. Up' => Repaired'
    BY <2>2, UpStep, PendingStep DEF Pending
  <2> QED BY <2>1, <2>2, <2>3 DEF IInv, Pending
<1> QED BY <1>1, <1>2, PTL DEF Safety

\* Every variable keeps its type.
THEOREM RuntimeTypeCorrect == Safety => []TypeOK
<1>1. IInv => TypeOK
  BY DEF IInv
<1> QED BY <1>1, Inductive, PTL

\* _reconcile(), _remove(), _deactivate_if_idle() and supervisor_finished() never
\* leave two supervisors of the channel with a task, nor does the manager's end.
THEOREM AtMostOneSupervisor == Safety => []OneSupervisorPerChannel
<1>1. IInv => OneSupervisorPerChannel
  <2> SUFFICES ASSUME IInv, NEW s \in Sups, NEW t \in Sups, phase[s] # "free", phase[t] # "free"
               PROVE  s = t
    BY DEF OneSupervisorPerChannel
  <2>1. \A u \in Sups : phase[u] # "free" => mapped = u \/ busy = u \/ u \in Left
    BY DEF IInv, TypeOK, Ownership, Left
  <2>2. s \in Left \/ t \in Left => mapped = NoSup /\ busy = NoSup
    BY DEF IInv, Ending, NoSupervisor
  <2> QED BY <2>1, <2>2, NoSupNew DEF IInv, Ownership, Ending
<1> QED BY <1>1, Inductive, PTL

\* A channel at rest is served as its row says: whichever order the commits, the jobs they
\* schedule, stops and restarts came in, the last reconciliation has seen the last row, unless
\* a failure kept it from its work or a late removal met a reused id.
THEOREM RestAlwaysMatchesRow == Safety => []RestMatchesRow
<1>1. IInv /\ Pending => RestMatchesRow
  <2> SUFFICES ASSUME Repaired, queue = <<>>, saving = 0, removing = 0, ~neglected
               PROVE  RestMatchesRow
    BY DEF RestMatchesRow, Pending
  <2>1. \A K : ~Due(0, K)
    BY DEF Due, After
  <2> QED BY <2>1 DEF Repaired, RestMatchesRow, Settled
<1> QED BY <1>1, Inductive, PTL

\* The end of the manager is final: it starts no supervisor again and leaves none but one
\* whose stop it has cut short.
THEOREM ShutdownAlwaysFinal == Safety => ShutdownIsFinal
<1>1. IInv => (closing = "done" => NoSupervisor /\ \A s \in Sups : phase[s] \in {"free", "cut"})
  BY NoSupNew DEF IInv, TypeOK, Ownership, Ending, NoSupervisor
<1>2. [Next]_vars => [~Up => mapped' \in {mapped, NoSup}]_vars
  BY UpStep
<1> QED BY <1>1, <1>2, Inductive, PTL DEF Safety, ShutdownIsFinal

-----------------------------------------------------------------------------
(***************************************************************************)
(* Part two: the timeline.                                                 *)
(***************************************************************************)
(***************************************************************************)
(* Recursion and induction over numbers.  The library's theorems about     *)
(* them have an operator as their parameter; a function and a set in its   *)
(* place do the same.                                                      *)
(***************************************************************************)
\* A set that has 0, and with every number the next one, has all numbers.
LEMMA Induction ==
  ASSUME NEW S, 0 \in S, \A n \in Nat : n \in S => n + 1 \in S
  PROVE  Nat \subseteq S
<1> DEFINE Missing == {n \in Nat : n \notin S}
<1> SUFFICES ASSUME Missing # {} PROVE FALSE
  OBVIOUS
<1>1. PICK m \in Missing : \A k \in Missing : <<k, m>> \notin OpToRel(<, Nat)
  BY WFMin, NatLessThanWellFounded
<1>2. m # 0 /\ m - 1 \in Nat /\ m - 1 < m
  OBVIOUS
<1>3. ASSUME NEW k \in Nat, NEW n \in Nat, k < n PROVE <<k, n>> \in OpToRel(<, Nat)
  BY <1>3, Zenon DEF OpToRel
<1>4. m - 1 \notin Missing
  BY <1>1, <1>2, <1>3
<1> QED BY <1>2, <1>4

\* A set of numbers that is not empty has a least one.
LEMMA Least ==
  ASSUME NEW S, NEW n \in Nat, n \in S
  PROVE  \E m \in Nat : m \in S /\ m <= n /\ \A k \in Nat : k < m => k \notin S
<1> DEFINE T == {k \in Nat : k \in S}
<1>1. PICK m \in T : \A k \in T : <<k, m>> \notin OpToRel(<, Nat)
  BY WFMin, NatLessThanWellFounded
<1>2. ASSUME NEW i \in Nat, NEW k \in Nat, i < k PROVE <<i, k>> \in OpToRel(<, Nat)
  BY <1>2, Zenon DEF OpToRel
<1>3. \A k \in Nat : k < m => k \notin S
  BY <1>1, <1>2
<1>4. m <= n
  BY <1>3
<1> QED BY <1>3, <1>4

\* A function that is defined by recursion up to n.
Recursive(f, n, base, step) ==
  f = [i \in 0..n |-> IF i = 0 THEN base ELSE step[i][f[i - 1]]]

\* There is one when its steps stay in a set.
LEMMA Recursion ==
  ASSUME NEW n \in Nat, NEW V, NEW base \in V, NEW step \in [Nat -> [V -> V]]
  PROVE  \E f : Recursive(f, n, base, step) /\ \A i \in 0..n : f[i] \in V
<1> DEFINE Upto(m) == \E f : f = [i \in 0..m |-> IF i = 0 THEN base ELSE step[i][f[i - 1]]]
                             /\ \A i \in 0..m : f[i] \in V
           S == {m \in Nat : Upto(m)}
<1>1. 0 \in S
  <2> DEFINE f == [i \in 0..0 |-> base]
  <2>1. f = [i \in 0..0 |-> IF i = 0 THEN base ELSE step[i][f[i - 1]]]
    OBVIOUS
  <2>2. Upto(0)
    BY <2>1
  <2> QED BY <2>2
<1>2. ASSUME NEW m \in Nat, m \in S PROVE m + 1 \in S
  <2>1. PICK f : f = [i \in 0..m |-> IF i = 0 THEN base ELSE step[i][f[i - 1]]]
                 /\ \A i \in 0..m : f[i] \in V
    BY <1>2
  <2> DEFINE g == [i \in 0..(m + 1) |-> IF i <= m THEN f[i] ELSE step[i][f[i - 1]]]
  <2>2. \A i \in 0..(m + 1) : g[i] = IF i <= m THEN f[i] ELSE step[i][f[i - 1]]
    OBVIOUS
  <2>3. g = [i \in 0..(m + 1) |-> g[i]]
    OBVIOUS
  <2> HIDE DEF g
  <2>4. ASSUME NEW i \in 0..(m + 1)
        PROVE  g[i] = (IF i = 0 THEN base ELSE step[i][g[i - 1]]) /\ g[i] \in V
    <3>1. CASE i = 0
      <4>1. 0 \in 0..m /\ 0 \in 0..(m + 1) /\ 0 <= m
        OBVIOUS
      <4>2. g[0] = f[0] /\ f[0] = base
        BY <2>1, <2>2, <4>1
      <4> QED BY <3>1, <4>2
    <3>2. CASE i # 0 /\ i <= m
      <4>1. i \in 0..m /\ i - 1 \in 0..m /\ i - 1 \in 0..(m + 1) /\ i - 1 <= m
        BY <3>2
      <4>2. g[i] = f[i] /\ g[i - 1] = f[i - 1]
        BY <2>2, <3>2, <4>1
      <4> QED BY <2>1, <3>2, <4>1, <4>2
    <3>3. CASE i = m + 1
      <4>1. i # 0 /\ ~(i <= m) /\ i - 1 \in 0..m /\ i - 1 \in 0..(m + 1) /\ i - 1 <= m /\ i \in Nat
        BY <3>3
      <4>2. g[i] = step[i][f[i - 1]] /\ g[i - 1] = f[i - 1] /\ f[i - 1] \in V
        BY <2>1, <2>2, <4>1
      <4> QED BY <4>1, <4>2
    <3> QED BY <3>1, <3>2, <3>3
  <2>5. Upto(m + 1)
    BY <2>3, <2>4
  <2> HIDE DEF Upto
  <2> QED BY <2>5
<1>3. n \in S
  BY <1>1, <1>2, Induction
<1> QED BY <1>3 DEF Recursive

(***************************************************************************)
(* Sequences without duplicates, and what is kept of them.                 *)
(***************************************************************************)
Distinct(s) == \A i, j \in 1..Len(s) : s[i] = s[j] => i = j

\* What InSeq means, with 1..Len(s) for the domain.
LEMMA InSeqIs ==
  ASSUME NEW T, NEW s \in Seq(T)
  PROVE  /\ \A x : x \in InSeq(s) <=> \E i \in 1..Len(s) : s[i] = x
         /\ Len(s) \in Nat /\ InSeq(s) \subseteq T
  BY DEF InSeq

\* An appended sequence, element by element.
LEMMA AppendIs ==
  ASSUME NEW T, NEW s \in Seq(T), NEW x \in T
  PROVE  /\ Append(s, x) \in Seq(T) /\ Len(s) \in Nat /\ Len(Append(s, x)) = Len(s) + 1
         /\ Append(s, x)[Len(s) + 1] = x /\ \A i \in 1..Len(s) : Append(s, x)[i] = s[i]
  OBVIOUS

\* Appending adds one element, and no duplicate if it is new.
LEMMA AppendDistinct ==
  ASSUME NEW T, NEW s \in Seq(T), NEW x \in T
  PROVE  /\ \A y : y \in InSeq(Append(s, x)) <=> y \in InSeq(s) \/ y = x
         /\ Distinct(s) /\ x \notin InSeq(s) => Distinct(Append(s, x))
<1>1. /\ Append(s, x) \in Seq(T) /\ Len(s) \in Nat /\ Len(Append(s, x)) = Len(s) + 1
      /\ Append(s, x)[Len(s) + 1] = x /\ \A i \in 1..Len(s) : Append(s, x)[i] = s[i]
  BY AppendIs
<1>2. PICK t \in Seq(T) : t = Append(s, x)
  BY <1>1
<1>3. Len(t) = Len(s) + 1 /\ t[Len(s) + 1] = x /\ \A i \in 1..Len(s) : t[i] = s[i]
  BY <1>1, <1>2
<1>4. \A i \in 1..(Len(s) + 1) : i \in 1..Len(s) \/ i = Len(s) + 1
  BY <1>1
<1>5. \A i \in 1..Len(s) : i \in 1..(Len(s) + 1)
  BY <1>1
<1>6. Len(s) + 1 \in 1..(Len(s) + 1)
  BY <1>1
<1>7. \A y : y \in InSeq(t) <=> \E i \in 1..Len(t) : t[i] = y
  BY InSeqIs
<1>8. \A y : y \in InSeq(s) <=> \E i \in 1..Len(s) : s[i] = y
  BY InSeqIs
<1>9. \A y : y \in InSeq(t) <=> y \in InSeq(s) \/ y = x
  BY <1>3, <1>4, <1>5, <1>6, <1>7, <1>8
<1>10. ASSUME Distinct(s), x \notin InSeq(s) PROVE Distinct(t)
  <2> SUFFICES ASSUME NEW i \in 1..(Len(s) + 1), NEW j \in 1..(Len(s) + 1), t[i] = t[j] PROVE i = j
    BY <1>3 DEF Distinct
  <2> QED BY <1>3, <1>4, <1>8, <1>10 DEF Distinct
<1> QED BY <1>2, <1>9, <1>10

\* The recursive function in Kept exists and does what its definition says.
LEMMA KeptRecursion ==
  ASSUME NEW T, NEW s \in Seq(T), NEW S
  PROVE  \E k : /\ Kept(s, S) = k[Len(s)] /\ k[0] = <<>>
                /\ \A i \in 0..Len(s) : k[i] \in Seq(T)
                /\ \A i \in 1..Len(s) :
                     k[i] = IF s[i] \in S THEN Append(k[i - 1], s[i]) ELSE k[i - 1]
<1> DEFINE Is(k) == k = [i \in 0..Len(s) |-> IF i = 0 THEN <<>>
                          ELSE IF s[i] \in S THEN Append(k[i - 1], s[i]) ELSE k[i - 1]]
           step == [i \in Nat |-> [v \in Seq(T) |->
                     IF i \in 1..Len(s) /\ s[i] \in S THEN Append(v, s[i]) ELSE v]]
<1>a. Len(s) \in Nat /\ \A i \in 1..Len(s) : s[i] \in T
  OBVIOUS
<1>0. <<>> \in Seq(T)
  OBVIOUS
<1>1. step \in [Nat -> [Seq(T) -> Seq(T)]]
  <2>1. ASSUME NEW i \in Nat, NEW v \in Seq(T)
        PROVE  (IF i \in 1..Len(s) /\ s[i] \in S THEN Append(v, s[i]) ELSE v) \in Seq(T)
    BY <1>a, AppendIs
  <2> QED BY <2>1
<1>2. \A i \in Nat : \A v \in Seq(T) :
        step[i][v] = IF i \in 1..Len(s) /\ s[i] \in S THEN Append(v, s[i]) ELSE v
  OBVIOUS
<1> HIDE DEF step
<1>b. PICK f : Recursive(f, Len(s), <<>>, step) /\ \A i \in 0..Len(s) : f[i] \in Seq(T)
  BY <1>a, <1>0, <1>1, Recursion
<1>3. f = [i \in 0..Len(s) |-> IF i = 0 THEN <<>> ELSE step[i][f[i - 1]]]
      /\ \A i \in 0..Len(s) : f[i] \in Seq(T)
  BY <1>b DEF Recursive
<1>4. ASSUME NEW i \in 1..Len(s)
      PROVE  /\ i \in 0..Len(s) /\ i # 0
             /\ step[i][f[i - 1]] = IF s[i] \in S THEN Append(f[i - 1], s[i]) ELSE f[i - 1]
  <2>1. i \in Nat /\ i - 1 \in 0..Len(s) /\ i \in 0..Len(s) /\ i # 0
    BY <1>a
  <2>2. f[i - 1] \in Seq(T)
    BY <1>3, <2>1
  <2> QED BY <1>2, <2>1, <2>2
<1>5. Is(f)
  <2>1. \A i \in 0..Len(s) : i = 0 \/ i \in 1..Len(s)
    BY <1>a
  <2>2. \A i \in 0..Len(s) : (IF i = 0 THEN <<>> ELSE step[i][f[i - 1]]) =
          IF i = 0 THEN <<>> ELSE IF s[i] \in S THEN Append(f[i - 1], s[i]) ELSE f[i - 1]
    BY <1>4, <2>1
  <2> QED BY <1>3, <2>2
<1> DEFINE k == CHOOSE k : Is(k)
<1>6. Is(k)
  BY <1>5
<1>7. Kept(s, S) = k[Len(s)]
  BY DEF Kept
<1> HIDE DEF k
<1>8. k[0] = <<>> /\ \A i \in 1..Len(s) :
        k[i] = IF s[i] \in S THEN Append(k[i - 1], s[i]) ELSE k[i - 1]
  <2>1. 0 \in 0..Len(s) /\ \A i \in 1..Len(s) : i \in 0..Len(s) /\ i # 0
    BY <1>a
  <2> QED BY <1>6, <2>1
<1>9. \A i \in 0..Len(s) : k[i] \in Seq(T)
  <2> DEFINE N == {n \in Nat : n \in 0..Len(s) => k[n] \in Seq(T)}
  <2>1. 0 \in N
    BY <1>0, <1>8
  <2>2. ASSUME NEW n \in Nat, n \in N PROVE n + 1 \in N
    <3> SUFFICES ASSUME n + 1 \in 0..Len(s) PROVE k[n + 1] \in Seq(T)
      OBVIOUS
    <3>1. n \in 0..Len(s) /\ n + 1 \in 1..Len(s) /\ n + 1 - 1 = n
      BY <1>a
    <3>2. k[n] \in Seq(T) /\ k[n + 1] = IF s[n + 1] \in S THEN Append(k[n], s[n + 1]) ELSE k[n]
      BY <1>8, <2>2, <3>1
    <3> QED BY <1>a, <3>1, <3>2, AppendIs
  <2>3. Nat \subseteq N
    BY <2>1, <2>2, Induction
  <2> QED BY <2>3
<1> QED BY <1>7, <1>8, <1>9

\* What is kept is what was there and is to be kept, once if it was there once.
LEMMA KeptIs ==
  ASSUME NEW T, NEW s \in Seq(T), NEW S
  PROVE  /\ Kept(s, S) \in Seq(T)
         /\ \A x : x \in InSeq(Kept(s, S)) <=> x \in InSeq(s) /\ x \in S
         /\ Distinct(s) => Distinct(Kept(s, S))
<1>1. PICK k : /\ Kept(s, S) = k[Len(s)] /\ k[0] = <<>>
               /\ \A i \in 0..Len(s) : k[i] \in Seq(T)
               /\ \A i \in 1..Len(s) :
                    k[i] = IF s[i] \in S THEN Append(k[i - 1], s[i]) ELSE k[i - 1]
  BY KeptRecursion
<1>a. Len(s) \in Nat /\ \A i \in 1..Len(s) : s[i] \in T
  OBVIOUS
<1> DEFINE Here(n) == \A x : x \in InSeq(k[n]) <=> x \in S /\ \E i \in 1..n : s[i] = x
           Once(n) == Distinct(s) => Distinct(k[n])
           N == {n \in Nat : n \in 0..Len(s) => Here(n) /\ Once(n)}
<1>2. 0 \in N
  <2>1. InSeq(<<>>) = {} /\ Distinct(<<>>)
    BY DEF InSeq, Distinct
  <2> QED BY <1>1, <2>1
<1>3. ASSUME NEW n \in Nat, n \in N PROVE n + 1 \in N
  <2> SUFFICES ASSUME n + 1 \in 0..Len(s) PROVE Here(n + 1) /\ Once(n + 1)
    OBVIOUS
  <2>1. n \in 0..Len(s) /\ n + 1 \in 1..Len(s) /\ n + 1 - 1 = n /\ \A i \in 1..n : i \in 1..Len(s) /\ i # n + 1
    BY <1>a
  <2>2. k[n] \in Seq(T) /\ k[n + 1] = (IF s[n + 1] \in S THEN Append(k[n], s[n + 1]) ELSE k[n])
        /\ s[n + 1] \in T
    BY <1>1, <1>a, <2>1
  <2>3. Here(n) /\ Once(n)
    BY <1>3, <2>1
  <2>4. \A x : (\E i \in 1..(n + 1) : s[i] = x) <=> (\E i \in 1..n : s[i] = x) \/ x = s[n + 1]
    <3>1. \A i \in 1..(n + 1) : i \in 1..n \/ i = n + 1
      OBVIOUS
    <3>2. n + 1 \in 1..(n + 1) /\ \A i \in 1..n : i \in 1..(n + 1)
      OBVIOUS
    <3> QED BY <3>1, <3>2
  <2>5. CASE s[n + 1] \in S
    <3>1. k[n + 1] = Append(k[n], s[n + 1])
      BY <2>2, <2>5
    <3>2. \A y : y \in InSeq(k[n + 1]) <=> y \in InSeq(k[n]) \/ y = s[n + 1]
      BY <2>2, <3>1, AppendDistinct
    <3>3. Here(n + 1)
      BY <2>3, <2>4, <2>5, <3>2
    <3>4. ASSUME Distinct(s) PROVE Distinct(k[n + 1])
      <4>1. s[n + 1] \notin InSeq(k[n])
        BY <2>1, <2>3, <3>4 DEF Distinct
      <4> QED BY <2>2, <2>3, <3>1, <3>4, <4>1, AppendDistinct
    <3> QED BY <3>3, <3>4
  <2>6. CASE s[n + 1] \notin S
    <3>1. k[n + 1] = k[n]
      BY <2>2, <2>6
    <3> QED BY <2>3, <2>4, <2>6, <3>1
  <2> QED BY <2>5, <2>6
<1> HIDE DEF N
<1>4. Nat \subseteq N
  BY <1>2, <1>3, Induction
<1>5. Len(s) \in N /\ Len(s) \in 0..Len(s)
  BY <1>a, <1>4
<1>6. Here(Len(s)) /\ Once(Len(s)) /\ k[Len(s)] \in Seq(T)
  BY <1>1, <1>5 DEF N
<1>7. \A x : x \in InSeq(s) <=> \E i \in 1..Len(s) : s[i] = x
  BY InSeqIs
<1> QED BY <1>1, <1>6, <1>7

\* A sequence without duplicates is as long as its elements are many.
LEMMA DistinctCount ==
  ASSUME NEW T, NEW s \in Seq(T), Distinct(s)
  PROVE  IsFiniteSet(InSeq(s)) /\ Cardinality(InSeq(s)) = Len(s)
<1>1. Len(s) \in Nat /\ \A x : x \in InSeq(s) <=> \E i \in 1..Len(s) : s[i] = x
  BY InSeqIs
<1> DEFINE R == InSeq(s)
           f == [i \in 1..Len(s) |-> s[i]]
<1>2. f \in [1..Len(s) -> R] /\ \A i \in 1..Len(s) : f[i] = s[i]
  BY <1>1
<1> HIDE DEF f
<1>3. f \in Bijection(1..Len(s), R)
  <2>1. \A i, j \in 1..Len(s) : f[i] = f[j] => i = j
    BY <1>2 DEF Distinct
  <2>2. \A x \in R : \E i \in 1..Len(s) : f[i] = x
    BY <1>1, <1>2
  <2>3. f \in [1..Len(s) -> R]
    BY <1>2
  <2> HIDE DEF R
  <2>4. f \in Injection(1..Len(s), R)
    BY <2>1, <2>3 DEF Injection, IsInjective
  <2>5. f \in Surjection(1..Len(s), R)
    BY <2>2, <2>3, Zenon DEF Surjection
  <2> QED BY <2>4, <2>5, Zenon DEF Bijection
<1>4. ExistsBijection(1..Len(s), R)
  BY <1>3 DEF ExistsBijection
<1>5. IsFiniteSet(R)
  BY <1>1, <1>4, FS_NatBijection
<1>6. Cardinality(R) = Len(s)
  BY <1>1, <1>4, FS_CountingElements
<1> QED BY <1>5, <1>6

\* An order of a finite set has each of its elements once.
LEMMA OrderIs ==
  ASSUME NEW S, IsFiniteSet(S), NEW f \in Orders(S)
  PROVE  /\ Len(f) = Cardinality(S) /\ Cardinality(S) \in Nat
         /\ f \in Seq(S) /\ InSeq(f) = S /\ Distinct(f)
<1>1. Cardinality(S) \in Nat
  BY FS_CardinalityType
<1>2. PICK n \in Nat : n = Cardinality(S)
  BY <1>1
<1>3. f \in [1..n -> S] /\ InSeq(f) = S
  BY <1>2 DEF Orders
<1>4. f \in Seq(S) /\ Len(f) = n
  BY <1>3
<1>5. \A x : x \in InSeq(f) <=> \E i \in 1..n : f[i] = x
  BY <1>4, InSeqIs
<1>6. f \in Surjection(1..n, S)
  BY <1>3, <1>5 DEF Surjection
<1>7. IsFiniteSet(1..n) /\ Cardinality(1..n) = n
  BY FS_Interval
<1>8. f \in Injection(1..n, S)
  BY <1>2, <1>6, <1>7, FS_SurjSameCardinalityImpliesInj
<1>9. Distinct(f)
  <2>1. \A i, j \in 1..n : f[i] = f[j] => i = j
    BY <1>6, <1>8 DEF Injection, IsInjective, Surjection
  <2> QED BY <1>4, <2>1 DEF Distinct
<1> QED BY <1>1, <1>2, <1>3, <1>4, <1>9

\* An item followed by an order of the others is an order of all.
LEMMA ConsOrder ==
  ASSUME NEW S, IsFiniteSet(S), NEW x \in S, NEW f \in Orders(S \ {x}), NEW t, t = <<x>> \o f
  PROVE  t \in Seq(S) /\ InSeq(t) = S /\ Distinct(t) /\ t # <<>>
<1>1. IsFiniteSet(S \ {x})
  BY FS_RemoveElement
<1>2. f \in Seq(S \ {x}) /\ InSeq(f) = S \ {x} /\ Distinct(f) /\ Len(f) \in Nat
  BY <1>1, OrderIs
<1>3. f \in Seq(S) /\ <<x>> \in Seq(S)
  BY <1>2
<1>4. t \in Seq(S) /\ Len(t) = Len(f) + 1 /\ t[1] = x
  BY <1>3
<1>5. \A i \in 1..Len(f) : t[i + 1] = f[i]
  BY <1>2, <1>3
<1>6. \A y : y \in InSeq(t) <=> \E i \in 1..(Len(f) + 1) : t[i] = y
  BY <1>4, InSeqIs
<1>7. \A y : y \in InSeq(f) <=> \E i \in 1..Len(f) : f[i] = y
  BY <1>2, InSeqIs
<1>8. \A i \in 1..(Len(f) + 1) : i = 1 \/ \E j \in 1..Len(f) : i = j + 1
  <2> SUFFICES ASSUME NEW i \in 1..(Len(f) + 1), i # 1 PROVE \E j \in 1..Len(f) : i = j + 1
    OBVIOUS
  <2>1. i - 1 \in 1..Len(f) /\ i = (i - 1) + 1
    BY <1>2
  <2> QED BY <2>1
<1>9. 1 \in 1..(Len(f) + 1) /\ \A j \in 1..Len(f) : j + 1 \in 1..(Len(f) + 1)
  BY <1>2
<1>10. InSeq(t) = S
  <2>1. ASSUME NEW y PROVE y \in InSeq(t) <=> y = x \/ y \in InSeq(f)
    BY <1>4, <1>5, <1>6, <1>7, <1>8, <1>9
  <2> QED BY <1>2, <2>1
<1>11. Distinct(t)
  <2> SUFFICES ASSUME NEW i \in 1..(Len(f) + 1), NEW j \in 1..(Len(f) + 1), t[i] = t[j] PROVE i = j
    BY <1>4 DEF Distinct
  <2>1. \A k \in 1..Len(f) : f[k] # x
    BY <1>2, <1>7
  <2>2. CASE i = 1
    BY <1>4, <1>5, <1>8, <2>1, <2>2
  <2>3. CASE j = 1
    BY <1>4, <1>5, <1>8, <2>1, <2>3
  <2>4. CASE i # 1 /\ j # 1
    <3>1. PICK k \in 1..Len(f) : i = k + 1
      BY <1>8, <2>4
    <3>2. PICK l \in 1..Len(f) : j = l + 1
      BY <1>8, <2>4
    <3>3. f[k] = f[l]
      BY <1>5, <3>1, <3>2
    <3>4. k = l
      BY <1>2, <3>3 DEF Distinct
    <3> QED BY <3>1, <3>2, <3>4
  <2> QED BY <2>2, <2>3, <2>4
<1> QED BY <1>2, <1>4, <1>10, <1>11

(***************************************************************************)
(* Remainders.                                                             *)
(***************************************************************************)
\* A number is a multiple of another one and its remainder.
LEMMA Remainder ==
  ASSUME NEW a \in Nat, NEW c \in Nat \ {0}
  PROVE  a % c \in Nat /\ a % c < c /\ \E q \in Nat : a = c * q + (a % c)
<1>1. a % c \in Nat /\ a % c < c
  OBVIOUS
<1>2. a = c * (a \div c) + (a % c) /\ a \div c \in Nat
  OBVIOUS
<1>3. \E q \in Nat : a = c * q + (a % c)
  <2> WITNESS a \div c \in Nat
  <2> QED BY <1>2, Zenon
<1> QED BY <1>1, <1>3

\* There is one such remainder.
LEMMA RemainderUnique ==
  ASSUME NEW c \in Nat \ {0}, NEW q \in Nat, NEW r \in Nat, r < c
  PROVE  (c * q + r) % c = r
<1>0. c * q + r \in Nat
  OBVIOUS
<1>1. PICK a \in Nat : a = c * q + r
  BY <1>0
<1>2. PICK p \in Nat : a = c * p + (a % c)
  BY Remainder
<1>3. PICK m \in Nat : m = a % c /\ m < c
  BY Remainder
<1>4. ASSUME NEW x \in Nat, NEW y \in Nat, NEW u \in Nat, NEW v \in Nat,
             u < c, v < c, c * x + u = c * y + v
      PROVE  ~(x > y)
  <2> SUFFICES ASSUME x > y PROVE FALSE
    OBVIOUS
  <2>1. PICK d \in Nat \ {0} : x = y + d
    <3>1. x - y \in Nat \ {0} /\ x = y + (x - y)
      OBVIOUS
    <3> QED BY <3>1
  <2>2. c * x = c * y + c * d
    BY <2>1
  <2>3. c * d >= c
    OBVIOUS
  <2>4. c * x \in Nat /\ c * y \in Nat /\ c * d \in Nat
    OBVIOUS
  <2> QED BY <1>4, <2>2, <2>3, <2>4
<1>5. PICK x \in Nat, y \in Nat : x = c * p /\ y = c * q
  OBVIOUS
<1>6. x + m = y + r
  <2>1. a = x + m
    BY <1>2, <1>3, <1>5, Zenon
  <2>2. a = y + r
    BY <1>1, <1>5
  <2> QED BY <2>1, <2>2
<1>7. p = q
  <2>1. c * p + m = c * q + r
    BY <1>5, <1>6
  <2>2. ~(p > q)
    BY <1>3, <1>4, <2>1
  <2>3. ~(q > p)
    BY <1>3, <1>4, <2>1
  <2> QED BY <2>2, <2>3
<1>8. x = y
  BY <1>5, <1>7
<1>9. m = r
  BY <1>6, <1>8
<1> QED BY <1>1, <1>3, <1>9

\* Whole rounds do not change a remainder.
LEMMA RemainderAdd ==
  ASSUME NEW a \in Nat, NEW c \in Nat \ {0}, NEW k \in Nat
  PROVE  (c * k + a) % c = a % c
<1>1. PICK q \in Nat, r \in Nat : a = c * q + r /\ r = a % c /\ r < c
  BY Remainder
<1>2. c * k + a = c * (k + q) + r
  BY <1>1
<1>3. (c * (k + q) + r) % c = r
  BY <1>1, RemainderUnique
<1> QED BY <1>1, <1>2, <1>3

\* A remainder may be taken before an addition.
LEMMA RemainderSum ==
  ASSUME NEW a \in Nat, NEW b \in Nat, NEW c \in Nat \ {0}
  PROVE  (a + (b % c)) % c = (a + b) % c
<1>1. PICK q \in Nat, r \in Nat : b = c * q + r /\ r = b % c /\ r < c
  BY Remainder
<1>2. a + b = c * q + (a + r)
  BY <1>1
<1>3. PICK s \in Nat : s = a + r
  BY <1>1
<1>4. (c * q + s) % c = s % c
  BY <1>1, RemainderAdd
<1> QED BY <1>1, <1>2, <1>3, <1>4

(***************************************************************************)
(* The playable items laid end to end.                                     *)
(***************************************************************************)
\* What is known of the playlist in every state.
Listed == list \in Seq(Items) /\ Distinct(list) /\ available \subseteq Items

\* The playable items: those of the playlist that are available, once each.
LEMMA PlayableIs ==
  ASSUME Listed
  PROVE  /\ Playable \in Seq(Items) /\ Distinct(Playable) /\ Len(Playable) \in Nat
         /\ Ids \subseteq Items /\ IsFiniteSet(Ids) /\ Cardinality(Ids) = Len(Playable)
         /\ \A x : x \in Ids <=> x \in InSeq(list) /\ x \in available
         /\ \A x : x \in Ids <=> \E i \in 1..Len(Playable) : Playable[i] = x
<1>1. Playable \in Seq(Items) /\ Distinct(Playable)
      /\ \A x : x \in InSeq(Playable) <=> x \in InSeq(list) /\ x \in available
  BY KeptIs DEF Playable, Listed
<1>2. PICK p \in Seq(Items) : p = Playable
  BY <1>1
<1>3. IsFiniteSet(InSeq(p)) /\ Cardinality(InSeq(p)) = Len(p)
  BY <1>1, <1>2, DistinctCount
<1>4. /\ \A x : x \in InSeq(p) <=> \E i \in 1..Len(p) : p[i] = x
      /\ Len(p) \in Nat /\ InSeq(p) \subseteq Items
  BY InSeqIs
<1> QED BY <1>1, <1>2, <1>3, <1>4 DEF Ids

\* Each item ends its duration after the one before it.
LEMMA EndsAre ==
  ASSUME Listed
  PROVE  /\ Ends[0] = 0
         /\ \A i \in 1..Len(Playable) : Ends[i] = Ends[i - 1] + Duration[Playable[i]]
         /\ \A i \in 0..Len(Playable) : Ends[i] \in Nat
<1>1. PICK p \in Seq(Items) : p = Playable
  BY PlayableIs
<1>2. Len(p) \in Nat /\ \A i \in 1..Len(p) : Duration[p[i]] \in Nat
  BY DurationsPositive
<1> DEFINE Is(f) == f = [i \in 0..Len(p) |-> IF i = 0 THEN 0 ELSE f[i - 1] + Duration[p[i]]]
           step == [i \in Nat |-> [v \in Nat |->
                     IF i \in 1..Len(p) THEN v + Duration[p[i]] ELSE v]]
<1>3. step \in [Nat -> [Nat -> Nat]]
  BY <1>2
<1>4. \A i \in Nat : \A v \in Nat : step[i][v] = IF i \in 1..Len(p) THEN v + Duration[p[i]] ELSE v
  OBVIOUS
<1> HIDE DEF step
<1>5. PICK f : Recursive(f, Len(p), 0, step) /\ \A i \in 0..Len(p) : f[i] \in Nat
  BY <1>2, <1>3, Recursion
<1>6. f = [i \in 0..Len(p) |-> IF i = 0 THEN 0 ELSE step[i][f[i - 1]]]
  BY <1>5 DEF Recursive
<1>7. ASSUME NEW i \in 1..Len(p)
      PROVE  i \in 0..Len(p) /\ i # 0 /\ step[i][f[i - 1]] = f[i - 1] + Duration[p[i]]
  <2>1. i \in Nat /\ i - 1 \in 0..Len(p) /\ i \in 0..Len(p) /\ i # 0
    BY <1>2
  <2>2. f[i - 1] \in Nat
    BY <1>5, <2>1
  <2> QED BY <1>4, <2>1, <2>2
<1>8. Is(f)
  <2>1. \A i \in 0..Len(p) : i = 0 \/ i \in 1..Len(p)
    BY <1>2
  <2>2. \A i \in 0..Len(p) : (IF i = 0 THEN 0 ELSE step[i][f[i - 1]]) =
          IF i = 0 THEN 0 ELSE f[i - 1] + Duration[p[i]]
    BY <1>7, <2>1
  <2> QED BY <1>6, <2>2
<1>9. Is(CHOOSE g : Is(g))
  BY <1>8
<1>10. Ends = CHOOSE g : Is(g)
  BY <1>1 DEF Ends
<1>11. PICK e : e = Ends /\ Is(e)
  BY <1>9, <1>10
<1>12. e[0] = 0 /\ \A i \in 1..Len(p) : e[i] = e[i - 1] + Duration[p[i]]
  BY <1>2, <1>11
<1>13. \A i \in 0..Len(p) : e[i] \in Nat
  <2> DEFINE N == {n \in Nat : n \in 0..Len(p) => e[n] \in Nat}
  <2>1. 0 \in N
    BY <1>12
  <2>2. ASSUME NEW n \in Nat, n \in N PROVE n + 1 \in N
    BY <1>2, <1>12, <2>2
  <2> HIDE DEF N
  <2>3. Nat \subseteq N
    BY <2>1, <2>2, Induction
  <2> QED BY <2>3 DEF N
<1> QED BY <1>1, <1>11, <1>12, <1>13

\* A round has a length, and no item ends after it.
LEMMA RoundIs ==
  ASSUME Listed, Ids # {}
  PROVE  /\ CycleLength \in Nat \ {0} /\ Len(Playable) \in Nat \ {0}
         /\ \A i \in 0..Len(Playable) : Ends[i] <= CycleLength
<1>1. PICK n \in Nat, p \in Seq(Items) : p = Playable /\ n = Len(p)
  BY PlayableIs
<1>2. n # 0
  BY <1>1, PlayableIs
<1>3. \A i \in 1..n : Duration[p[i]] \in Nat /\ Duration[p[i]] > 0
  BY <1>1, DurationsPositive
<1>4. PICK e : e = Ends
  OBVIOUS
<1>5. /\ e[0] = 0 /\ \A i \in 1..n : e[i] = e[i - 1] + Duration[p[i]]
      /\ \A i \in 0..n : e[i] \in Nat
  BY <1>1, <1>4, EndsAre
<1>6. e[n] > 0
  BY <1>2, <1>3, <1>5
<1> DEFINE N == {k \in Nat : k <= n => e[n - k] <= e[n]}
<1>7. 0 \in N
  BY <1>5
<1>8. ASSUME NEW k \in Nat, k \in N PROVE k + 1 \in N
  <2> SUFFICES ASSUME k + 1 <= n PROVE e[n - (k + 1)] <= e[n]
    OBVIOUS
  <2>1. PICK i \in 1..n : i = n - k /\ i - 1 = n - (k + 1)
    <3>1. n - k \in 1..n /\ (n - k) - 1 = n - (k + 1)
      OBVIOUS
    <3> QED BY <3>1
  <2>2. e[i] <= e[n]
    BY <1>8, <2>1
  <2>3. e[i] = e[i - 1] + Duration[p[i]] /\ e[i] \in Nat /\ e[i - 1] \in Nat /\ e[n] \in Nat
    BY <1>5
  <2>4. e[i - 1] <= e[n]
    BY <1>3, <2>2, <2>3
  <2> QED BY <2>1, <2>4
<1> HIDE DEF N
<1>9. Nat \subseteq N
  BY <1>7, <1>8, Induction
<1>10. ASSUME NEW i \in 0..n PROVE e[i] <= e[n]
  <2>1. n - i \in Nat /\ n - i <= n /\ n - (n - i) = i
    OBVIOUS
  <2>2. n - i \in N
    BY <1>9, <2>1
  <2> QED BY <2>1, <2>2 DEF N
<1> QED BY <1>1, <1>2, <1>4, <1>5, <1>6, <1>10 DEF CycleLength

(***************************************************************************)
(* Choosing an item.                                                       *)
(***************************************************************************)
\* A shuffled round: every playable item once, and a place in it.
Round(o, c) ==
  /\ o \in Seq(Items) /\ Distinct(o) /\ InSeq(o) = Ids
  /\ Len(o) = Cardinality(Ids) /\ c \in 1..Len(o)

\* An element of a sequence stands at its index.
LEMMA IndexIs ==
  ASSUME NEW T, NEW s \in Seq(T), NEW x \in InSeq(s)
  PROVE  IndexOf(s, x) \in 1..Len(s) /\ s[IndexOf(s, x)] = x
<1>1. \E i \in 1..Len(s) : s[i] = x
  BY InSeqIs
<1>2. DOMAIN s = 1..Len(s)
  OBVIOUS
<1> QED BY <1>1, <1>2 DEF IndexOf

\* Any order of the playable items is a round.
LEMMA OrderIsRound ==
  ASSUME Listed, Ids # {}, NEW f \in Orders(Ids)
  PROVE  Round(f, 1) /\ f[1] \in Ids
<1>1. Ids \subseteq Items /\ IsFiniteSet(Ids) /\ Cardinality(Ids) \in Nat
  BY PlayableIs
<1>2. /\ Len(f) = Cardinality(Ids) /\ f \in Seq(Ids) /\ InSeq(f) = Ids /\ Distinct(f)
  BY <1>1, OrderIs
<1>3. f \in Seq(Items) /\ Len(f) \in Nat
  BY <1>1, <1>2
<1>4. \A x : x \in Ids <=> \E i \in 1..Len(f) : f[i] = x
  BY <1>2, <1>3, InSeqIs
<1>5. 1 \in 1..Len(f)
  BY <1>3, <1>4
<1> QED BY <1>2, <1>3, <1>4, <1>5 DEF Round

\* _normalize_shuffle() leaves a round, whatever order it was given.
LEMMA NormalizedIs ==
  ASSUME Listed, Ids # {}, NEW o \in Seq(Items), Distinct(o), NEW c \in Nat \ {0},
         NEW current, NEW isFresh, NEW n \in Normalized(o, c, current, isFresh)
  PROVE  Round(n.order, n.cursor) /\ n.order[1] \in Ids
<1>0. Ids \subseteq Items /\ IsFiniteSet(Ids) /\ Cardinality(Ids) \in Nat
  BY PlayableIs
<1>1. ASSUME NEW k \in Seq(Items), NEW d \in Nat, Distinct(k), InSeq(k) = Ids
      PROVE  Len(k) = Cardinality(Ids) /\ Len(k) \in Nat \ {0} /\ k[1] \in Ids
             /\ (d \in 1..Len(k) => Round(k, d))
  <2>1. Len(k) = Cardinality(Ids) /\ Len(k) \in Nat
    BY <1>1, DistinctCount
  <2>2. \A x : x \in Ids <=> \E i \in 1..Len(k) : k[i] = x
    BY <1>1, InSeqIs
  <2>3. Len(k) # 0 /\ k[1] \in Ids
    BY <2>1, <2>2
  <2> QED BY <1>1, <2>1, <2>3 DEF Round
<1>2. CASE isFresh /\ InSeq(Kept(o, Ids)) = Ids
  <2>1. PICK k \in Seq(Items) : k = Kept(o, Ids) /\ Distinct(k) /\ InSeq(k) = Ids
    BY <1>2, KeptIs
  <2>2. n = [order |-> k, cursor |-> IF c < Len(k) THEN c ELSE Len(k)]
    BY <1>2, <2>1 DEF Normalized
  <2>3. PICK d : d = IF c < Len(k) THEN c ELSE Len(k)
    OBVIOUS
  <2>4. Len(k) \in Nat \ {0} /\ k[1] \in Ids
    BY <1>1, <2>1
  <2>5. d \in Nat /\ d \in 1..Len(k)
    BY <2>3, <2>4
  <2>6. Round(k, d)
    BY <1>1, <2>1, <2>5
  <2>7. n.order = k /\ n.cursor = d
    BY <2>2, <2>3
  <2> QED BY <2>4, <2>6, <2>7
<1>3. CASE ~(isFresh /\ InSeq(Kept(o, Ids)) = Ids) /\ current \in Ids
  <2>1. PICK f \in Orders(Ids \ {current}) : n = [order |-> <<current>> \o f, cursor |-> 1]
    BY <1>3 DEF Normalized
  <2>2. PICK t : t = <<current>> \o f
    OBVIOUS
  <2>3. t \in Seq(Ids) /\ InSeq(t) = Ids /\ Distinct(t)
    BY <1>0, <1>3, <2>2, ConsOrder
  <2>4. t \in Seq(Items)
    BY <1>0, <2>3
  <2>5. Len(t) \in Nat \ {0} /\ t[1] \in Ids
    BY <1>1, <2>3, <2>4
  <2>6. 1 \in 1..Len(t)
    BY <2>5
  <2>7. Round(t, 1)
    BY <1>1, <2>3, <2>4, <2>6
  <2>8. n.order = t /\ n.cursor = 1
    BY <2>1, <2>2
  <2> QED BY <2>5, <2>7, <2>8
<1>4. CASE ~(isFresh /\ InSeq(Kept(o, Ids)) = Ids) /\ current \notin Ids
  <2>1. PICK f \in Orders(Ids) : n = [order |-> f, cursor |-> 1]
    BY <1>4 DEF Normalized
  <2>2. n.order = f /\ n.cursor = 1
    BY <2>1
  <2> QED BY <2>2, OrderIsRound
<1> QED BY <1>2, <1>3, <1>4

\* What is chosen is playable, stands at the cursor of a round when there is one, and
\* is another than the item before it when there is another.
LEMMA FollowingIs ==
  ASSUME Listed, Ids # {}, NEW n, Round(n.order, n.cursor), NEW current,
         NEW m \in Following(n, current)
  PROVE  /\ Round(m.order, m.cursor) /\ m.item \in Ids /\ m.order[m.cursor] = m.item
         /\ Cardinality(Ids) > 1 => m.item # current
<1>1. PICK o \in Seq(Items), c \in Nat : o = n.order /\ c = n.cursor /\ c \in 1..Len(o)
  BY DEF Round
<1>2. Round(o, c) /\ Distinct(o) /\ InSeq(o) = Ids /\ Len(o) \in Nat
  BY <1>1 DEF Round
<1>3. PICK at : at = IF current \in InSeq(o) THEN IndexOf(o, current) ELSE c
  OBVIOUS
<1>4. at \in 1..Len(o) /\ (current \in Ids => o[at] = current)
  BY <1>1, <1>2, <1>3, IndexIs
<1>5. CASE at < Len(o)
  <2>1. m = [item |-> o[at + 1], order |-> o, cursor |-> at + 1]
    BY <1>1, <1>3, <1>5 DEF Following
  <2>2. PICK k \in 1..Len(o) : k = at + 1 /\ k # at
    BY <1>2, <1>4, <1>5
  <2>3. m.item = o[k] /\ m.order = o /\ m.cursor = k
    BY <2>1, <2>2
  <2>4. o[k] \in Ids
    BY <1>1, <1>2, InSeqIs
  <2>5. Round(o, k)
    BY <1>2 DEF Round
  <2>6. o[k] # current
    BY <1>2, <1>4, <2>2, <2>4 DEF Distinct
  <2> QED BY <2>3, <2>4, <2>5, <2>6
<1>6. CASE ~(at < Len(o))
  <2>1. PICK f \in NewShuffle(Ids, current) : m = [item |-> f[1], order |-> f, cursor |-> 1]
    BY <1>1, <1>3, <1>6 DEF Following
  <2>2. f \in Orders(Ids) /\ (Cardinality(Ids) > 1 => f[1] # current)
    BY <2>1 DEF NewShuffle
  <2>3. m.item = f[1] /\ m.order = f /\ m.cursor = 1
    BY <2>1
  <2> QED BY <2>2, <2>3, OrderIsRound
<1> QED BY <1>5, <1>6

\* The item after a playable one stands at the next place, and is another one.
LEMMA NextInListIs ==
  ASSUME Listed, Ids # {}, NEW current
  PROVE  /\ NextInList(current) \in Ids
         /\ Cardinality(Ids) > 1 => NextInList(current) # current
         /\ current \in Ids =>
              NextInList(current) =
                Playable[IF IndexOf(Playable, current) < Len(Playable)
                         THEN IndexOf(Playable, current) + 1 ELSE 1]
<1>1. PICK n \in Nat, p \in Seq(Items) : p = Playable /\ n = Len(p) /\ Distinct(p)
  BY PlayableIs
<1>2. n # 0 /\ n = Cardinality(Ids) /\ \A x : x \in Ids <=> \E i \in 1..n : p[i] = x
  BY <1>1, PlayableIs
<1>3. PICK at : at = IF current \in Ids THEN IndexOf(p, current) ELSE 0
  OBVIOUS
<1>4. at \in 0..n /\ (current \in Ids => at \in 1..n /\ p[at] = current)
  <2>1. ASSUME current \in Ids PROVE at \in 1..n /\ p[at] = current
    <3>1. current \in InSeq(p)
      BY <1>1, <2>1 DEF Ids
    <3> QED BY <1>1, <1>3, <2>1, <3>1, IndexIs
  <2>2. current \notin Ids => at = 0
    BY <1>3
  <2> QED BY <1>1, <2>1, <2>2
<1>5. PICK next : next = (at % n) + 1
  OBVIOUS
<1>6. next \in 1..n /\ next = IF at < n THEN at + 1 ELSE 1
  <2>1. at < n => at % n = at
    BY <1>2, <1>4
  <2>2. at = n => at % n = 0
    BY <1>2, <1>4
  <2> QED BY <1>2, <1>4, <1>5, <2>1, <2>2
<1>7. NextInList(current) = p[next]
  BY <1>1, <1>3, <1>5 DEF NextInList
<1>8. ASSUME n > 1 PROVE p[next] # current
  <2> SUFFICES ASSUME current \in Ids PROVE p[next] # p[at]
    BY <1>2, <1>4, <1>6
  <2>1. next # at
    BY <1>4, <1>6, <1>8
  <2> QED BY <1>1, <1>4, <1>6, <2>1 DEF Distinct
<1> QED BY <1>1, <1>2, <1>3, <1>6, <1>7, <1>8

\* The same of select_next(), which chooses in either mode.
LEMMA SelectNextIs ==
  ASSUME Listed, Ids # {}, NEW o \in Seq(Items), Distinct(o), NEW c \in Nat \ {0},
         NEW current, NEW isFresh, NEW m \in SelectNext(o, c, current, isFresh)
  PROVE  /\ m.item \in Ids
         /\ m.order \in Seq(Items) /\ Distinct(m.order) /\ m.cursor \in Nat \ {0}
         /\ mode = "shuffle" => Round(m.order, m.cursor) /\ m.order[m.cursor] = m.item
         /\ mode # "shuffle" => m.item = NextInList(current)
         /\ Cardinality(Ids) > 1 => m.item # current
<1>1. CASE mode = "shuffle"
  <2>1. PICK n \in Normalized(o, c, current, isFresh) : m \in Following(n, current)
    BY <1>1 DEF SelectNext
  <2>2. Round(n.order, n.cursor)
    BY NormalizedIs
  <2>3. /\ Round(m.order, m.cursor) /\ m.item \in Ids /\ m.order[m.cursor] = m.item
        /\ Cardinality(Ids) > 1 => m.item # current
    BY <2>1, <2>2, FollowingIs
  <2>4. m.order \in Seq(Items) /\ Distinct(m.order) /\ m.cursor \in Nat \ {0}
    BY <2>3 DEF Round
  <2> QED BY <1>1, <2>3, <2>4
<1>2. CASE mode # "shuffle"
  <2>1. m = [item |-> NextInList(current), order |-> o, cursor |-> c]
    BY <1>2 DEF SelectNext
  <2>2. m.item = NextInList(current) /\ m.order = o /\ m.cursor = c
    BY <2>1
  <2> QED BY <1>2, <2>2, NextInListIs
<1> QED BY <1>1, <1>2

\* Looking all around a stale item finds a playable one if there is one.
LEMMA NextAroundIs ==
  ASSUME NEW s \in Seq(Items), NEW stale \in InSeq(s), Ids \intersect InSeq(s) # {}
  PROVE  NextAround(s, stale) \in Ids
<1>1. PICK n \in Nat, start \in Nat : n = Len(s) /\ start = IndexOf(s, stale) /\ start \in 1..n
  BY IndexIs
<1>2. PICK j \in 1..n : s[j] \in Ids
  BY <1>1, InSeqIs
<1> DEFINE At(k) == s[((start - 1 + k) % n) + 1]
           S == {k \in 1..n : At(k) \in Ids}
<1>3. PICK k \in 1..n : (start - 1 + k) % n = j - 1
  <2>1. CASE j > start
    <3>1. j - start \in 1..n /\ start - 1 + (j - start) = j - 1
      BY <2>1
    <3>2. (j - 1) % n = j - 1
      OBVIOUS
    <3> QED BY <3>1, <3>2
  <2>2. CASE ~(j > start)
    <3>1. j - start + n \in 1..n
      BY <1>1, <2>2
    <3>4. start - 1 + (j - start + n) = n * 1 + (j - 1)
      OBVIOUS
    <3>2. (j - 1) % n = j - 1 /\ j - 1 \in Nat /\ n \in Nat \ {0}
      OBVIOUS
    <3>3. (n * 1 + (j - 1)) % n = j - 1
      BY <3>2, RemainderAdd
    <3> QED BY <3>1, <3>3, <3>4
  <2> QED BY <2>1, <2>2
<1>4. k \in S
  BY <1>2, <1>3
<1>5. PICK m \in Nat : m \in S /\ \A i \in Nat : i < m => i \notin S
  <2>1. k \in Nat
    OBVIOUS
  <2> HIDE DEF S
  <2> QED BY <1>4, <2>1, Least
<1>6. m \in 1..n /\ At(m) \in Ids /\ \A i \in 1..(m - 1) : At(i) \notin Ids
  <2>1. m \in 1..n /\ At(m) \in Ids
    BY <1>5
  <2>2. ASSUME NEW i \in 1..(m - 1) PROVE At(i) \notin Ids
    <3>1. i \in Nat /\ i < m /\ i \in 1..n
      BY <2>1
    <3> QED BY <1>5, <3>1
  <2> QED BY <2>1, <2>2
<1> DEFINE c == CHOOSE i \in 1..n : At(i) \in Ids /\ \A l \in 1..(i - 1) : At(l) \notin Ids
<1>7. NextAround(s, stale) = At(c)
  BY <1>1 DEF NextAround
<1> HIDE DEF At
<1>8. At(c) \in Ids
  BY <1>6
<1> QED BY <1>7, <1>8

\* The seconds of k playable items in a row from the i-th, around the end of the list.
Rest(i, k) ==
  IF i + k <= Len(Playable) + 1 THEN Ends[i + k - 1] - Ends[i - 1]
  ELSE CycleLength - Ends[i - 1] + Ends[i + k - 1 - Len(Playable)]

NextPlace(i) == IF i < Len(Playable) THEN i + 1 ELSE 1

\* None, all, and one followed by the others.
LEMMA RestIs ==
  ASSUME Listed, NEW i \in 1..Len(Playable)
  PROVE  /\ \A k \in 0..Len(Playable) : Rest(i, k) \in Int
         /\ Rest(i, 0) = 0 /\ Rest(i, Len(Playable)) = CycleLength
         /\ \A k \in 1..Len(Playable) :
              Rest(i, k) = Duration[Playable[i]] + Rest(NextPlace(i), k - 1)
<1>a. PICK e : e = Ends
  OBVIOUS
<1>b. PICK d : d = Duration[Playable[i]]
  OBVIOUS
<1>1. PICK n \in Nat : n = Len(Playable) /\ e = Ends /\ d = Duration[Playable[i]]
  BY <1>a, <1>b, PlayableIs
<1>2. /\ e[0] = 0 /\ e[i] = e[i - 1] + d /\ i \in 1..n
      /\ \A j \in 0..n : e[j] \in Nat
  BY <1>1, EndsAre
<1>3. e[i] \in Nat /\ e[i - 1] \in Nat /\ e[n] \in Nat
  BY <1>2
<1>4. d \in Int /\ CycleLength = e[n]
  <2>1. Playable[i] \in Items
    BY <1>1, PlayableIs
  <2> QED BY <1>1, <2>1, DurationsPositive DEF CycleLength
<1>5. \A j, k : Rest(j, k) = IF j + k <= n + 1 THEN e[j + k - 1] - e[j - 1]
                             ELSE e[n] - e[j - 1] + e[j + k - 1 - n]
  BY <1>1, <1>4 DEF Rest
<1>6. Rest(i, 0) = 0
  <2>1. i + 0 <= n + 1 /\ i + 0 - 1 = i - 1
    BY <1>2
  <2> QED BY <1>3, <1>5, <2>1
<1>7. Rest(i, n) = e[n]
  <2>1. CASE i = 1
    <3>1. 1 + n <= n + 1 /\ 1 + n - 1 = n /\ 1 - 1 = 0
      OBVIOUS
    <3> QED BY <1>2, <1>3, <1>5, <2>1, <3>1
  <2>2. CASE i # 1
    <3>1. ~(i + n <= n + 1) /\ i + n - 1 - n = i - 1
      BY <1>2, <2>2
    <3>2. Rest(i, n) = e[n] - e[i - 1] + e[i - 1]
      BY <1>5, <3>1
    <3> QED BY <1>3, <3>2
  <2> QED BY <2>1, <2>2
<1>8. ASSUME NEW k \in 1..n PROVE Rest(i, k) = d + Rest(NextPlace(i), k - 1)
  <2>1. CASE i < n
    <3>1. NextPlace(i) = i + 1 /\ (i + 1) + (k - 1) = i + k /\ i + 1 - 1 = i
          /\ (i + 1) + (k - 1) - 1 = i + k - 1
          /\ (i + 1) + (k - 1) - 1 - n = i + k - 1 - n
      BY <1>1, <1>2, <2>1 DEF NextPlace
    <3>2. CASE i + k <= n + 1
      <4>4. Rest(i, k) = e[i + k - 1] - e[i - 1]
        BY <1>5, <3>2
      <4>5. (i + 1) + (k - 1) <= n + 1
        BY <1>2, <3>2
      <4>6. PICK j \in Int, l \in Int : j = i + 1 /\ l = k - 1
        BY <1>2
      <4>7. Rest(j, l) = e[j + l - 1] - e[j - 1]
        BY <1>5, <4>5, <4>6
      <4>8. j + l - 1 = i + k - 1 /\ j - 1 = i
        BY <1>2, <4>6
      <4>1. Rest(i, k) = e[i + k - 1] - e[i - 1] /\ Rest(i + 1, k - 1) = e[i + k - 1] - e[i]
        BY <4>4, <4>6, <4>7, <4>8
      <4>2. i + k - 1 \in 0..n
        BY <1>2, <3>2
      <4>3. e[i + k - 1] \in Nat
        BY <1>2, <4>2
      <4>9. PICK x \in Nat : x = e[i + k - 1]
        BY <4>3
      <4>10. Rest(i, k) = x - e[i - 1] /\ Rest(i + 1, k - 1) = x - e[i]
        BY <4>1, <4>9
      <4>11. x - e[i - 1] = d + (x - e[i])
        BY <1>2, <1>3, <1>4
      <4> QED BY <3>1, <4>10, <4>11
    <3>3. CASE ~(i + k <= n + 1)
      <4>1. Rest(i, k) = e[n] - e[i - 1] + e[i + k - 1 - n]
            /\ Rest(i + 1, k - 1) = e[n] - e[i] + e[i + k - 1 - n]
        BY <1>5, <3>1, <3>3
      <4>2. i + k - 1 - n \in 0..n
        BY <1>2, <3>3
      <4>3. e[i + k - 1 - n] \in Nat
        BY <1>2, <4>2
      <4>4. PICK x \in Nat : x = e[i + k - 1 - n]
        BY <4>3
      <4>5. Rest(i, k) = e[n] - e[i - 1] + x /\ Rest(i + 1, k - 1) = e[n] - e[i] + x
        BY <4>1, <4>4
      <4>7. PICK y \in Nat, z \in Nat : y = e[i - 1] /\ z = e[n]
        BY <1>3
      <4>8. z - y + x = d + (z - (y + d) + x)
        BY <1>4
      <4>9. e[i] = y + d
        BY <1>2, <4>7
      <4>6. e[n] - e[i - 1] + x = d + (e[n] - e[i] + x)
        BY <4>7, <4>8, <4>9
      <4> QED BY <3>1, <4>5, <4>6
    <3> QED BY <3>2, <3>3
  <2>2. CASE ~(i < n)
    <3>1. i = n /\ NextPlace(i) = 1 /\ 1 + (k - 1) <= n + 1 /\ 1 + (k - 1) - 1 = k - 1 /\ 1 - 1 = 0
      BY <1>1, <1>2, <2>2 DEF NextPlace
    <3>2. Rest(1, k - 1) = e[k - 1] - e[0]
      BY <1>5, <3>1
    <3>3. e[k - 1] \in Nat
      BY <1>2
    <3>4. CASE k = 1
      <4>1. i + k <= n + 1 /\ i + k - 1 = n
        BY <3>1, <3>4
      <4>2. Rest(i, k) = e[n] - e[i - 1]
        BY <1>5, <4>1
      <4>3. e[k - 1] = 0
        BY <1>2, <3>4
      <4> QED BY <1>2, <1>3, <1>4, <3>1, <3>2, <4>2, <4>3
    <3>5. CASE k # 1
      <4>1. ~(i + k <= n + 1) /\ i + k - 1 - n = k - 1
        BY <3>1, <3>5
      <4>2. Rest(i, k) = e[n] - e[i - 1] + e[k - 1]
        BY <1>5, <4>1
      <4>3. e[n] = e[i - 1] + d /\ e[0] = 0
        BY <1>2, <3>1
      <4>4. PICK x \in Nat : x = e[k - 1]
        BY <3>3
      <4>5. PICK y \in Nat : y = e[i - 1]
        BY <1>3
      <4>6. PICK z \in Nat : z = e[n]
        BY <1>3
      <4>7. Rest(i, k) = z - y + x /\ Rest(1, k - 1) = x - 0
        BY <3>2, <4>2, <4>3, <4>4, <4>5, <4>6
      <4>8. z = y + d
        BY <4>3, <4>5, <4>6
      <4>9. z - y + x = d + (x - 0)
        BY <1>4, <4>8
      <4> QED BY <3>1, <4>7, <4>9
    <3> QED BY <3>4, <3>5
  <2> QED BY <2>1, <2>2
<1>9. ASSUME NEW k \in 0..n PROVE Rest(i, k) \in Int
  <2>1. CASE i + k <= n + 1
    <3>1. i + k - 1 \in 0..n
      BY <1>2, <2>1
    <3>2. e[i + k - 1] \in Nat
      BY <1>2, <3>1
    <3>3. Rest(i, k) = e[i + k - 1] - e[i - 1]
      BY <1>5, <2>1
    <3> QED BY <1>3, <3>2, <3>3
  <2>2. CASE ~(i + k <= n + 1)
    <3>1. i + k - 1 - n \in 0..n
      BY <1>2, <2>2
    <3>2. e[i + k - 1 - n] \in Nat
      BY <1>2, <3>1
    <3>3. Rest(i, k) = e[n] - e[i - 1] + e[i + k - 1 - n]
      BY <1>5, <2>2
    <3> QED BY <1>3, <3>2, <3>3
  <2> QED BY <2>1, <2>2
<1> QED BY <1>1, <1>4, <1>6, <1>7, <1>8, <1>9

(***************************************************************************)
(* The invariant.  Neither the playlist nor a shuffled order has an item   *)
(* twice; a recovery under way stands on a playable item, and in a         *)
(* sequence the seconds that are left fit into the passes that are left.   *)
(***************************************************************************)
Orderly == TimelineTypeOK /\ Listed /\ Distinct(order) /\ Distinct(walk.order)

OnItsWay ==
  Walking =>
    /\ Ids # {} /\ walk.at \in Ids
    /\ mode = "sequential" =>
         /\ walk.left \in 0..Len(Playable)
         /\ walk.off < Rest(IndexOf(Playable, walk.at), walk.left)

Timed == Orderly /\ OnItsWay

LEMMA EmptyIs == InSeq(<<>>) = {} /\ Distinct(<<>>)
  BY DEF InSeq, Distinct

\* No recovery under way has the type of one.
LEMMA NoWalkIs ==
  /\ NoWalk \in [at : Items \union {NoItem}, off : Nat, left : Nat, order : Seq(Items),
                 cursor : Nat \ {0}, fresh : BOOLEAN]
  /\ NoWalk.order = <<>> /\ NoWalk.at = NoItem
  BY DEF NoWalk

\* A recovery that begins or goes on at a playable item is under way.
LEMMA WalkIs ==
  ASSUME Listed, NEW at \in Ids, NEW off \in Nat, NEW left \in Nat, NEW o \in Seq(Items),
         Distinct(o), NEW c \in Nat \ {0}, NEW f \in BOOLEAN, NEW w,
         w = [at |-> at, off |-> off, left |-> left, order |-> o, cursor |-> c, fresh |-> f]
  PROVE  /\ w \in [at : Items \union {NoItem}, off : Nat, left : Nat, order : Seq(Items),
                   cursor : Nat \ {0}, fresh : BOOLEAN]
         /\ w # NoWalk /\ Distinct(w.order) /\ w.at = at /\ w.off = off /\ w.left = left
<1>1. at \in Items
  BY PlayableIs
<1>2. at # NoItem
  BY <1>1, NoItemNew
<1> QED BY <1>1, <1>2, NoWalkIs

\* The initial states are timed.
LEMMA InitTimed == TimelineInit => Timed
<1> SUFFICES ASSUME TimelineInit PROVE Timed
  OBVIOUS
<1>1. Playlist \in Seq(Items) /\ Distinct(Playlist)
  <2>1. DOMAIN Playlist = 1..Len(Playlist)
    BY PlaylistOfItems
  <2> QED BY <2>1, PlaylistOfItems DEF Distinct
<1>2. Listed
  BY <1>1 DEF TimelineInit, Listed
<1>3. Distinct(order) /\ Distinct(walk.order)
  BY EmptyIs, NoWalkIs DEF TimelineInit
<1>4. TimelineTypeOK
  <2>1. /\ mode \in {"sequential", "shuffle"} /\ list \in Seq(Items) /\ order \in Seq(Items)
        /\ available \subseteq Items /\ cur \in Items \union {NoItem}
    BY <1>1 DEF TimelineInit
  <2>2. /\ pos \in Nat /\ elapsed \in 0..MaxElapsed /\ cursor \in Nat \ {0}
        /\ clock \in {"running", "idle", "stopped"} /\ fresh \in BOOLEAN
    <3>1. 0 \in Nat /\ 0 \in 0..MaxElapsed /\ 1 \in Nat \ {0}
      BY ElapsedBound
    <3>2. pos = 0 /\ elapsed = 0 /\ cursor = 1 /\ clock = "idle" /\ fresh = FALSE
      BY DEF TimelineInit
    <3> QED BY <3>1, <3>2
  <2>3. walk \in [at : Items \union {NoItem}, off : Nat, left : Nat, order : Seq(Items),
                 cursor : Nat \ {0}, fresh : BOOLEAN]
    BY NoWalkIs DEF TimelineInit
  <2> QED BY <2>1, <2>2, <2>3 DEF TimelineTypeOK
<1>5. OnItsWay
  BY DEF TimelineInit, OnItsWay, Walking
<1> QED BY <1>2, <1>3, <1>4, <1>5 DEF Timed, Orderly

\* What the playable items are is a matter of the playlist and the files alone.
LEMMA SamePlayable ==
  ASSUME UNCHANGED editVars
  PROVE  /\ Playable' = Playable /\ Ids' = Ids /\ Ends' = Ends /\ CycleLength' = CycleLength
         /\ mode' = mode /\ list' = list /\ available' = available
<1>1. mode' = mode /\ list' = list /\ available' = available
  BY DEF editVars
<1>2. Playable' = Playable
  BY <1>1 DEF Playable
<1>3. Ids' = Ids
  BY <1>2 DEF Ids
<1>4. Ends' = Ends
  BY <1>2 DEF Ends
<1>5. CycleLength' = CycleLength
  BY <1>2, <1>4 DEF CycleLength
<1> QED BY <1>1, <1>2, <1>3, <1>4, <1>5

LEMMA SameRest ==
  ASSUME UNCHANGED editVars, NEW i, NEW k
  PROVE  Rest(i, k)' = Rest(i, k)
BY SamePlayable DEF Rest

\* How a recovery begins, for an item and a number of seconds inside the round.
SetsOut(item, off) ==
  \E o \in Seq(Items), c \in Nat \ {0}, f \in BOOLEAN :
    /\ Distinct(o)
    /\ walk' = [at |-> item, off |-> off, left |-> Len(Playable), order |-> o,
                cursor |-> c, fresh |-> f]

\* The seconds a recovery starts with.
Late == pos + (IF clock = "stopped" THEN 0 ELSE elapsed)

LEMMA RecoverIs ==
  ASSUME Orderly, Recover
  PROVE  /\ \E item \in Ids, off \in Nat : off < CycleLength /\ SetsOut(item, off)
         /\ cur \in Ids /\ mode = "sequential" => SetsOut(cur, Late % CycleLength)
<1> DEFINE seq == IF mode = "shuffle" THEN order ELSE list
           From(item, off, o, c, f) ==
             walk' = [at |-> item, off |-> off, left |-> Len(Playable), order |-> o,
                      cursor |-> c, fresh |-> f]
<1>1. Listed /\ Ids # {} /\ order \in Seq(Items) /\ Distinct(order) /\ cursor \in Nat \ {0}
      /\ fresh \in BOOLEAN /\ list \in Seq(Items)
  BY DEF Recover, Orderly, TimelineTypeOK
<1>2. Late \in Nat /\ CycleLength \in Nat \ {0} /\ \A x : x \in Ids => x \in InSeq(list)
  <2>1. pos \in Nat /\ elapsed \in Nat
    BY ElapsedBound DEF Orderly, TimelineTypeOK
  <2> QED BY <1>1, <2>1, RoundIs, PlayableIs DEF Late
<1>3. PICK due \in Nat, l \in Nat : due = Late /\ l = Late % CycleLength /\ l < CycleLength
  BY <1>2, Remainder
<1>4. \/ cur \in Ids /\ From(cur, l, order, cursor, fresh)
      \/ /\ cur \in Ids /\ mode = "shuffle"
         /\ \E f \in NewShuffle(Ids, cur) : From(cur, l, f, IndexOf(f, cur), fresh)
      \/ /\ cur \notin Ids /\ cur \in InSeq(seq) /\ Ids \intersect InSeq(seq) # {}
         /\ From(NextAround(seq, cur), 0, order, cursor, fresh)
      \/ /\ cur \notin InSeq(list) /\ From(Playable[1], 0, order, cursor, fresh)
      \/ /\ cur \notin Ids
         /\ \E n \in Normalized(order, cursor, NoItem, fresh) :
              From(n.order[1], 0, n.order, 1, TRUE)
  BY <1>3, Zenon DEF Recover, Late
<1>5. ASSUME NEW item, NEW off, NEW o \in Seq(Items), NEW c \in Nat \ {0}, NEW f \in BOOLEAN,
             Distinct(o), From(item, off, o, c, f)
      PROVE  SetsOut(item, off)
  BY <1>5 DEF SetsOut
<1> HIDE DEF From
<1>6. CASE cur \in Ids /\ From(cur, l, order, cursor, fresh)
  <2>1. SetsOut(cur, l)
    BY <1>1, <1>5, <1>6
  <2> QED BY <1>3, <1>6, <2>1
<1>7. CASE /\ cur \in Ids /\ mode = "shuffle"
           /\ \E f \in NewShuffle(Ids, cur) : From(cur, l, f, IndexOf(f, cur), fresh)
  <2>1. PICK f \in Orders(Ids) : From(cur, l, f, IndexOf(f, cur), fresh)
    BY <1>7 DEF NewShuffle
  <2>2. f \in Seq(Items) /\ Distinct(f) /\ InSeq(f) = Ids /\ Len(f) \in Nat
    BY <1>1, OrderIsRound DEF Round
  <2>3. IndexOf(f, cur) \in 1..Len(f)
    BY <1>7, <2>2, IndexIs
  <2>4. IndexOf(f, cur) \in Nat \ {0}
    BY <2>2, <2>3
  <2>5. SetsOut(cur, l)
    BY <1>1, <1>5, <2>1, <2>2, <2>4
  <2> QED BY <1>3, <1>7, <2>5
<1>8. CASE /\ cur \notin Ids /\ cur \in InSeq(seq) /\ Ids \intersect InSeq(seq) # {}
           /\ From(NextAround(seq, cur), 0, order, cursor, fresh)
  <2>1. PICK s \in Seq(Items) : s = seq
    BY <1>1
  <2>2. NextAround(s, cur) \in Ids
    BY <1>8, <2>1, NextAroundIs
  <2>3. SetsOut(NextAround(s, cur), 0)
    BY <1>1, <1>5, <1>8, <2>1
  <2> QED BY <1>2, <1>8, <2>2, <2>3
<1>9. CASE cur \notin InSeq(list) /\ From(Playable[1], 0, order, cursor, fresh)
  <2>1. Playable[1] \in Ids /\ cur \notin Ids
    <3>1. 1 \in 1..Len(Playable)
      BY <1>1, RoundIs
    <3> QED BY <1>1, <1>2, <1>9, <3>1, PlayableIs
  <2>2. SetsOut(Playable[1], 0)
    BY <1>1, <1>5, <1>9
  <2> QED BY <1>2, <2>1, <2>2
<1>10. CASE /\ cur \notin Ids
            /\ \E n \in Normalized(order, cursor, NoItem, fresh) :
                 From(n.order[1], 0, n.order, 1, TRUE)
  <2>1. PICK n \in Normalized(order, cursor, NoItem, fresh) : From(n.order[1], 0, n.order, 1, TRUE)
    BY <1>10
  <2>2. Round(n.order, n.cursor) /\ n.order[1] \in Ids
    BY <1>1, NormalizedIs
  <2>3. n.order \in Seq(Items) /\ Distinct(n.order)
    BY <2>2 DEF Round
  <2>4. SetsOut(n.order[1], 0)
    <3>1. 1 \in Nat \ {0} /\ TRUE \in BOOLEAN
      OBVIOUS
    <3> QED BY <1>5, <2>1, <2>3, <3>1
  <2> QED BY <1>2, <1>10, <2>2, <2>4
<1> QED BY <1>4, <1>6, <1>7, <1>8, <1>9, <1>10

\* What every step of a recovery leaves alone.
LEMMA OthersStay ==
  ASSUME Orderly, UNCHANGED <<editVars, cur, pos, elapsed, clock, order, cursor, fresh>>,
         walk' \in [at : Items \union {NoItem}, off : Nat, left : Nat, order : Seq(Items),
                    cursor : Nat \ {0}, fresh : BOOLEAN],
         Distinct(walk.order)'
  PROVE  Orderly'
<1>1. UNCHANGED <<mode, list, available, cur, pos, elapsed, clock, order, cursor, fresh>>
  BY DEF editVars
<1>2. TimelineTypeOK'
  BY <1>1 DEF Orderly, TimelineTypeOK
<1>3. Listed'
  BY <1>1 DEF Orderly, Listed, Distinct
<1>4. Distinct(order)'
  BY <1>1 DEF Orderly, Distinct
<1> QED BY <1>2, <1>3, <1>4 DEF Orderly

\* Every step keeps the timeline timed.
LEMMA RecoverTimed == Timed /\ Recover => Timed'
<1> SUFFICES ASSUME Timed, Recover PROVE Timed'
  OBVIOUS
<1>1. Orderly /\ Listed /\ Ids # {} /\ UNCHANGED editVars
      /\ UNCHANGED <<editVars, cur, pos, elapsed, clock, order, cursor, fresh>>
  BY DEF Timed, Orderly, Recover
<1>2. PICK item \in Ids, off \in Nat : off < CycleLength /\ SetsOut(item, off)
  BY <1>1, RecoverIs
<1>3. PICK n \in Nat, i \in Nat : n = Len(Playable) /\ i = IndexOf(Playable, item) /\ i \in 1..n
  BY <1>1, PlayableIs, IndexIs DEF Ids
<1>4. /\ walk' \in [at : Items \union {NoItem}, off : Nat, left : Nat, order : Seq(Items),
                    cursor : Nat \ {0}, fresh : BOOLEAN]
      /\ Distinct(walk'.order) /\ walk'.at = item /\ walk'.off = off /\ walk'.left = n
  <2>1. PICK o \in Seq(Items), c \in Nat \ {0}, f \in BOOLEAN :
          /\ Distinct(o)
          /\ walk' = [at |-> item, off |-> off, left |-> n, order |-> o, cursor |-> c, fresh |-> f]
    BY <1>2, <1>3 DEF SetsOut
  <2> QED BY <1>1, <1>3, <2>1, WalkIs
<1>5. Orderly'
  <2>1. Distinct(walk.order)'
    BY <1>4 DEF Distinct
  <2> QED BY <1>1, <1>4, <2>1, OthersStay
<1>6. Ids' = Ids /\ Playable' = Playable /\ Rest(i, n)' = Rest(i, n)
  BY <1>1, SamePlayable, SameRest
<1>7. Rest(i, n) = CycleLength
  BY <1>1, <1>3, RestIs
<1>8. OnItsWay'
  <2>1. (Ids # {} /\ walk.at \in Ids)'
    BY <1>1, <1>4, <1>6
  <2>2. (walk.left \in 0..Len(Playable))'
    BY <1>3, <1>4, <1>6
  <2>3. (walk.off < Rest(IndexOf(Playable, walk.at), walk.left))'
    <3>1. IndexOf(Playable, walk.at)' = i
      BY <1>3, <1>4, <1>6 DEF IndexOf
    <3>2. Rest(IndexOf(Playable, walk.at), walk.left)' = Rest(i, n)'
      BY <1>4, <3>1 DEF Rest
    <3> QED BY <1>2, <1>4, <1>6, <1>7, <3>2
  <2> QED BY <2>1, <2>2, <2>3 DEF OnItsWay
<1> QED BY <1>5, <1>8 DEF Timed

\* One pass of the loop goes to another item, and in a sequence to the next one.
LEMMA WalkOnIs ==
  ASSUME Timed, WalkOn
  PROVE  /\ walk'.at \in Ids /\ (Cardinality(Ids) > 1 => walk'.at # walk.at)
         /\ mode = "sequential" => walk'.at = NextInList(walk.at)
         /\ walk'.off = walk.off - Duration[walk.at] /\ walk'.left = walk.left - 1
         /\ walk'.off \in Nat /\ walk'.left \in Nat /\ Distinct(walk'.order) /\ walk' # NoWalk
         /\ walk' \in [at : Items \union {NoItem}, off : Nat, left : Nat, order : Seq(Items),
                       cursor : Nat \ {0}, fresh : BOOLEAN]
<1>1. Orderly /\ Listed /\ Walking /\ Ids # {} /\ walk.at \in Ids
  BY DEF Timed, Orderly, OnItsWay, WalkOn
<1>2. /\ walk.order \in Seq(Items) /\ Distinct(walk.order) /\ walk.cursor \in Nat \ {0}
      /\ walk.off \in Nat /\ walk.left \in Nat /\ walk.fresh \in BOOLEAN
      /\ mode \in {"sequential", "shuffle"}
  BY <1>1 DEF Orderly, TimelineTypeOK
<1>3. Duration[walk.at] \in Nat
  BY <1>1, PlayableIs, DurationsPositive
<1>4. PICK off \in Nat, left \in Nat, f \in BOOLEAN :
        /\ off = walk.off - Duration[walk.at] /\ left = walk.left - 1
        /\ f = (walk.fresh \/ mode = "shuffle")
  <2>1. walk.off - Duration[walk.at] \in Nat /\ walk.left - 1 \in Nat
    BY <1>2, <1>3 DEF WalkOn
  <2> QED BY <2>1
<1>5. PICK m \in SelectNext(walk.order, walk.cursor, walk.at, walk.fresh) :
        walk' = [at |-> m.item, off |-> walk.off - Duration[walk.at], left |-> walk.left - 1,
                 order |-> m.order, cursor |-> m.cursor, fresh |-> walk.fresh \/ mode = "shuffle"]
  BY DEF WalkOn
<1>6. walk' = [at |-> m.item, off |-> off, left |-> left, order |-> m.order,
               cursor |-> m.cursor, fresh |-> f]
  BY <1>4, <1>5
<1>7. /\ m.item \in Ids /\ m.order \in Seq(Items) /\ Distinct(m.order) /\ m.cursor \in Nat \ {0}
      /\ mode # "shuffle" => m.item = NextInList(walk.at)
      /\ Cardinality(Ids) > 1 => m.item # walk.at
  BY <1>1, <1>2, SelectNextIs
<1>8. /\ walk' \in [at : Items \union {NoItem}, off : Nat, left : Nat, order : Seq(Items),
                    cursor : Nat \ {0}, fresh : BOOLEAN]
      /\ walk' # NoWalk /\ Distinct(walk'.order) /\ walk'.at = m.item
      /\ walk'.off = off /\ walk'.left = left
  BY <1>1, <1>6, <1>7, WalkIs
<1> QED BY <1>4, <1>7, <1>8

LEMMA WalkOnTimed == Timed /\ WalkOn => Timed'
<1> SUFFICES ASSUME Timed, WalkOn PROVE Timed'
  OBVIOUS
<1>1. /\ Orderly /\ Listed /\ Walking /\ Ids # {} /\ walk.at \in Ids /\ UNCHANGED editVars
      /\ UNCHANGED <<editVars, cur, pos, elapsed, clock, order, cursor, fresh>>
      /\ walk.left > 0
  BY DEF Timed, Orderly, OnItsWay, WalkOn
<1>2. Ids' = Ids /\ Playable' = Playable /\ mode' = mode
  BY <1>1, SamePlayable
<1>3. Orderly'
  <2>1. Distinct(walk.order)'
    BY WalkOnIs DEF Distinct
  <2> QED BY <1>1, <2>1, WalkOnIs, OthersStay
<1>4. (Ids # {} /\ walk.at \in Ids)'
  BY <1>1, <1>2, WalkOnIs
<1>5. ASSUME mode = "sequential"
      PROVE  (/\ walk.left \in 0..Len(Playable)
              /\ walk.off < Rest(IndexOf(Playable, walk.at), walk.left))'
  <2>1. PICK n \in Nat, i \in Nat : n = Len(Playable) /\ i = IndexOf(Playable, walk.at) /\ i \in 1..n
                                    /\ Playable[i] = walk.at
    BY <1>1, PlayableIs, IndexIs DEF Ids
  <2>2. PICK k \in Nat, d \in Nat : k = walk.left /\ d = Duration[walk.at] /\ k \in 1..n
    <3>1. walk.left \in 0..Len(Playable)
      BY <1>1, <1>5 DEF Timed, OnItsWay
    <3>2. Duration[walk.at] \in Nat
      BY <1>1, PlayableIs, DurationsPositive
    <3> QED BY <1>1, <2>1, <3>1, <3>2
  <2>3. walk.off < Rest(i, k) /\ walk.off \in Nat
    BY <1>1, <1>5, <2>1, <2>2 DEF Timed, OnItsWay, Orderly, TimelineTypeOK
  <2>4. PICK j \in 1..n : j = NextPlace(i) /\ walk'.at = Playable[j]
    <3>1. walk'.at = NextInList(walk.at)
      BY <1>5, WalkOnIs
    <3> QED BY <1>1, <2>1, <3>1, NextInListIs DEF NextPlace
  <2>5. IndexOf(Playable, walk'.at) = j
    <3>1. PICK l : l = IndexOf(Playable, walk'.at) /\ l \in 1..n /\ Playable[l] = walk'.at
      BY <1>1, <2>1, PlayableIs, IndexIs, WalkOnIs DEF Ids
    <3> QED BY <1>1, <2>1, <2>4, <3>1, PlayableIs DEF Distinct
  <2>6. PICK m \in 0..n : m = k - 1 /\ walk'.left = m /\ walk'.off = walk.off - d
    BY <2>2, WalkOnIs
  <2>7. Rest(i, k) = d + Rest(j, m) /\ Rest(j, m) \in Int
    BY <1>1, <2>1, <2>2, <2>4, <2>6, RestIs
  <2>8. walk'.off < Rest(j, m)
    BY <2>2, <2>3, <2>6, <2>7
  <2>9. Rest(j, m)' = Rest(j, m)
    BY <1>1, SameRest
  <2>10. Rest(IndexOf(Playable, walk.at), walk.left)' = Rest(j, m)'
    <3>1. IndexOf(Playable, walk.at)' = j
      BY <1>2, <2>5 DEF IndexOf
    <3> QED BY <2>6, <3>1 DEF Rest
  <2>11. (walk.left \in 0..Len(Playable))'
    BY <1>2, <2>1, <2>6
  <2>12. (walk.off < Rest(IndexOf(Playable, walk.at), walk.left))'
    BY <2>8, <2>9, <2>10
  <2> QED BY <2>11, <2>12
<1>6. OnItsWay'
  BY <1>2, <1>4, <1>5 DEF OnItsWay
<1> QED BY <1>3, <1>6 DEF Timed

\* A step that leaves no recovery under way.
LEMMA AtRestIs ==
  ASSUME walk' = NoWalk
  PROVE  OnItsWay' /\ Distinct(walk.order)'
         /\ walk' \in [at : Items \union {NoItem}, off : Nat, left : Nat, order : Seq(Items),
                       cursor : Nat \ {0}, fresh : BOOLEAN]
BY NoWalkIs, EmptyIs DEF OnItsWay, Walking, Distinct

LEMMA ArriveTimed == Timed /\ Arrive => Timed'
<1> SUFFICES ASSUME Timed, Arrive PROVE Timed'
  OBVIOUS
<1>1. /\ Orderly /\ walk.at \in Ids /\ Listed /\ walk' = NoWalk /\ UNCHANGED editVars
      /\ TimelineTypeOK
  BY DEF Timed, Orderly, OnItsWay, Arrive
<1>2. UNCHANGED <<mode, list, available>>
  BY <1>1 DEF editVars
<1>3. /\ walk.at \in Items /\ walk.off \in Nat /\ walk.order \in Seq(Items)
      /\ walk.cursor \in Nat \ {0} /\ Distinct(walk.order)
  BY <1>1, PlayableIs DEF Orderly, TimelineTypeOK
<1>4. /\ cur' \in Items \union {NoItem} /\ pos' \in Nat /\ elapsed' \in 0..MaxElapsed
      /\ cursor' \in Nat \ {0} /\ clock' \in {"running", "idle", "stopped"} /\ fresh' \in BOOLEAN
      /\ order' \in Seq(Items)
  <2>1. 0 \in 0..MaxElapsed
    BY ElapsedBound
  <2> QED BY <1>3, <2>1 DEF Arrive
<1>5. TimelineTypeOK'
  BY <1>1, <1>2, <1>4, AtRestIs DEF TimelineTypeOK
<1>6. Distinct(order)'
  BY <1>3 DEF Arrive, Distinct
<1>7. Listed'
  BY <1>1, <1>2 DEF Listed, Distinct
<1> QED BY <1>1, <1>5, <1>6, <1>7, AtRestIs DEF Timed, Orderly

LEMMA RaiseTimed == Timed /\ Raise => Timed'
<1> SUFFICES ASSUME Timed, Raise PROVE Timed'
  OBVIOUS
<1>1. Orderly /\ UNCHANGED <<editVars, cur, pos, elapsed, clock, order, cursor, fresh>>
      /\ walk' = NoWalk
  BY DEF Timed, Raise
<1> QED BY <1>1, AtRestIs, OthersStay DEF Timed

\* At rest, with the playlist as it is, whatever item, order and position are put down.
LEMMA PutDown ==
  ASSUME Timed, ~Walking, UNCHANGED <<editVars, walk>>,
         cur' \in Items \union {NoItem}, pos' \in Nat, elapsed' \in 0..MaxElapsed,
         cursor' \in Nat \ {0}, clock' \in {"running", "idle", "stopped"}, fresh' \in BOOLEAN,
         order' \in Seq(Items), Distinct(order)'
  PROVE  Timed'
<1>1. walk' = NoWalk /\ UNCHANGED <<mode, list, available>>
  BY DEF Walking, editVars
<1>2. TimelineTypeOK'
  BY <1>1, AtRestIs DEF Timed, Orderly, TimelineTypeOK
<1>3. Listed'
  BY <1>1 DEF Timed, Orderly, Listed, Distinct
<1> QED BY <1>1, <1>2, <1>3, AtRestIs DEF Timed, Orderly

\* At rest, with the timeline as it is but for the current item, whatever playlist is made.
LEMMA Edit ==
  ASSUME Timed, ~Walking, UNCHANGED <<pos, elapsed, clock, order, cursor, walk>>,
         cur' \in Items \union {NoItem}, fresh' \in BOOLEAN,
         mode' \in {"sequential", "shuffle"}, list' \in Seq(Items), Distinct(list)',
         available' \subseteq Items
  PROVE  Timed'
<1>1. walk' = NoWalk
  BY DEF Walking
<1>2. TimelineTypeOK'
  BY <1>1, AtRestIs DEF Timed, Orderly, TimelineTypeOK
<1>3. Listed' /\ Distinct(order)'
  BY DEF Timed, Orderly, Listed, Distinct
<1> QED BY <1>1, <1>2, <1>3, AtRestIs DEF Timed, Orderly

\* What a finished or skipped track is followed by.
LEMMA AdvanceIs ==
  ASSUME Timed, Advance
  PROVE  /\ cur' \in Ids /\ (Cardinality(Ids) > 1 => cur' # cur)
         /\ order' \in Seq(Items) /\ Distinct(order') /\ cursor' \in Nat \ {0}
         /\ mode = "shuffle" => Round(order', cursor') /\ order'[cursor'] = cur'
<1>1. /\ Listed /\ Ids # {} /\ order \in Seq(Items) /\ Distinct(order) /\ cursor \in Nat \ {0}
  BY DEF Timed, Orderly, TimelineTypeOK, Advance
<1>2. PICK n \in SelectNext(order, cursor, cur, fresh) :
        cur' = n.item /\ order' = n.order /\ cursor' = n.cursor
  BY DEF Advance
<1> QED BY <1>1, <1>2, SelectNextIs

LEMMA AdvanceTimed == Timed /\ Advance => Timed'
<1> SUFFICES ASSUME Timed, Advance PROVE Timed'
  OBVIOUS
<1>1. ~Walking /\ UNCHANGED <<editVars, clock, walk>> /\ pos' = 0 /\ elapsed' = 0 /\ fresh' = TRUE
  BY DEF Advance
<1>2. cur' \in Ids /\ order' \in Seq(Items) /\ Distinct(order') /\ cursor' \in Nat \ {0}
  BY AdvanceIs
<1>3. Ids \subseteq Items /\ clock \in {"running", "idle", "stopped"}
  BY PlayableIs DEF Timed, Orderly, TimelineTypeOK
<1>4. 0 \in 0..MaxElapsed
  BY ElapsedBound
<1>5. cur' \in Items \union {NoItem} /\ pos' \in Nat /\ elapsed' \in 0..MaxElapsed
      /\ clock' \in {"running", "idle", "stopped"} /\ fresh' \in BOOLEAN
  BY <1>1, <1>2, <1>3, <1>4
<1>6. Distinct(order)'
  BY <1>2 DEF Distinct
<1> QED BY <1>1, <1>2, <1>5, <1>6, PutDown

LEMMA PlayNowTimed == ASSUME NEW i PROVE Timed /\ PlayNow(i) => Timed'
<1> SUFFICES ASSUME Timed, PlayNow(i) PROVE Timed'
  OBVIOUS
<1>1. /\ Listed /\ i \in Ids /\ order \in Seq(Items) /\ Distinct(order) /\ cursor \in Nat \ {0}
      /\ clock \in {"running", "idle", "stopped"}
  BY DEF Timed, Orderly, TimelineTypeOK, PlayNow
<1>2. ~Walking /\ UNCHANGED <<editVars, clock, walk>> /\ cur' = i /\ pos' = 0 /\ elapsed' = 0
      /\ fresh' = TRUE
  BY DEF PlayNow, ForceItem
<1>3. order' \in Seq(Items) /\ Distinct(order') /\ cursor' \in Nat \ {0}
  <2>1. CASE mode = "shuffle"
    <3>1. PICK n \in Normalized(order, cursor, i, fresh) : order' = n.order /\ cursor' = n.cursor
      BY <2>1 DEF PlayNow, ForceItem
    <3>2. Round(n.order, n.cursor)
      BY <1>1, NormalizedIs
    <3>3. n.cursor \in Nat \ {0}
      BY <3>2 DEF Round
    <3> QED BY <3>1, <3>2, <3>3 DEF Round
  <2>2. CASE mode # "shuffle"
    <3>1. order' = order /\ cursor' = cursor
      BY <2>2 DEF PlayNow, ForceItem
    <3> QED BY <1>1, <3>1
  <2> QED BY <2>1, <2>2
<1>4. 0 \in 0..MaxElapsed /\ i \in Items
  BY <1>1, ElapsedBound, PlayableIs
<1>5. cur' \in Items \union {NoItem} /\ pos' \in Nat /\ elapsed' \in 0..MaxElapsed
      /\ clock' \in {"running", "idle", "stopped"} /\ fresh' \in BOOLEAN
  BY <1>1, <1>2, <1>4
<1>6. Distinct(order)'
  BY <1>3 DEF Distinct
<1> QED BY <1>2, <1>3, <1>5, <1>6, PutDown

\* Edits, which happen at rest only.
LEMMA EditStepTimed == Timed /\ EditStep => Timed'
<1> SUFFICES ASSUME Timed, EditStep PROVE Timed'
  OBVIOUS
<1>1. /\ mode \in {"sequential", "shuffle"} /\ list \in Seq(Items) /\ Distinct(list)
      /\ available \subseteq Items /\ cur \in Items \union {NoItem} /\ fresh \in BOOLEAN
  BY DEF Timed, Orderly, Listed, TimelineTypeOK
<1>2. ASSUME UNCHANGED list PROVE list' \in Seq(Items) /\ Distinct(list)'
  BY <1>1, <1>2 DEF Distinct
<1>3. CASE SwitchMode
  <2>1. /\ ~Walking /\ UNCHANGED <<pos, elapsed, clock, order, cursor, walk>>
        /\ UNCHANGED list /\ available' = available /\ cur' = cur /\ fresh' = FALSE
        /\ mode' \in {"sequential", "shuffle"}
    BY <1>3 DEF SwitchMode
  <2> QED BY <1>1, <1>2, <2>1, Edit
<1>4. CASE \E i \in Items : SetAvailable(i)
  <2>1. /\ ~Walking /\ UNCHANGED <<pos, elapsed, clock, order, cursor, walk>>
        /\ UNCHANGED list /\ available' \subseteq Items /\ cur' = cur /\ fresh' = fresh
        /\ mode' = mode
    BY <1>1, <1>4 DEF SetAvailable
  <2> QED BY <1>1, <1>2, <2>1, Edit
<1>5. ASSUME NEW i \in Items, RemoveItem(i) PROVE Timed'
  <2>1. /\ ~Walking /\ UNCHANGED <<pos, elapsed, clock, order, cursor, walk>>
        /\ available' = available /\ cur' \in Items \union {NoItem} /\ fresh' = FALSE
        /\ mode' = mode /\ list' = Kept(list, Items \ {i})
    BY <1>1, <1>5 DEF RemoveItem
  <2>2. list' \in Seq(Items) /\ Distinct(list')
    BY <1>1, <2>1, KeptIs
  <2>3. Distinct(list)'
    BY <2>2 DEF Distinct
  <2> QED BY <1>1, <2>1, <2>2, <2>3, Edit
<1>6. ASSUME NEW i \in Items, AddItem(i) PROVE Timed'
  <2>1. /\ ~Walking /\ UNCHANGED <<pos, elapsed, clock, order, cursor, walk>>
        /\ available' = available /\ cur' = cur /\ fresh' = FALSE
        /\ mode' = mode /\ list' = Append(list, i) /\ i \notin InSeq(list)
    BY <1>6 DEF AddItem
  <2>2. list' \in Seq(Items) /\ Distinct(list')
    BY <1>1, <2>1, AppendIs, AppendDistinct
  <2>3. Distinct(list)'
    BY <2>2 DEF Distinct
  <2> QED BY <1>1, <2>1, <2>2, <2>3, Edit
<1> QED BY <1>3, <1>4, <1>5, <1>6, ItemsFinite DEF EditStep

\* A stutter.
LEMMA StillTimed == Timed /\ UNCHANGED timelineVars => Timed'
<1> SUFFICES ASSUME Timed, UNCHANGED timelineVars PROVE Timed'
  OBVIOUS
<1>1. UNCHANGED <<mode, list, available, cur, pos, elapsed, clock, order, cursor, fresh, walk>>
  BY DEF timelineVars
<1>2. UNCHANGED editVars
  BY <1>1 DEF editVars
<1>3. Orderly'
  <2>1. /\ walk' \in [at : Items \union {NoItem}, off : Nat, left : Nat, order : Seq(Items),
                      cursor : Nat \ {0}, fresh : BOOLEAN]
        /\ Distinct(walk.order)'
    BY <1>1 DEF Timed, Orderly, TimelineTypeOK, Distinct
  <2> QED BY <1>1, <1>2, <2>1, OthersStay DEF Timed
<1>4. Playable' = Playable /\ Ids' = Ids /\ Ends' = Ends /\ CycleLength' = CycleLength
  BY <1>2, SamePlayable
<1>5. Walking' = Walking /\ IndexOf(Playable, walk.at)' = IndexOf(Playable, walk.at)
  BY <1>1, <1>4 DEF Walking, IndexOf
<1>6. Rest(IndexOf(Playable, walk.at), walk.left)' = Rest(IndexOf(Playable, walk.at), walk.left)
  BY <1>1, <1>4, <1>5 DEF Rest
<1>7. OnItsWay'
  BY <1>1, <1>4, <1>5, <1>6 DEF Timed, OnItsWay
<1> QED BY <1>3, <1>7 DEF Timed

LEMMA StepTimed == Timed /\ [TimelineNext]_timelineVars => Timed'
<1> SUFFICES ASSUME Timed, TimelineNext PROVE Timed'
  BY StillTimed
<1>1. /\ clock \in {"running", "idle", "stopped"} /\ cur \in Items \union {NoItem} /\ pos \in Nat
      /\ elapsed \in 0..MaxElapsed /\ order \in Seq(Items) /\ Distinct(order)
      /\ cursor \in Nat \ {0} /\ fresh \in BOOLEAN
  BY DEF Timed, Orderly, TimelineTypeOK
<1>2. 0 \in 0..MaxElapsed /\ 0 \in Nat /\ \A n \in 0..MaxElapsed : n \in Nat
  BY ElapsedBound
<1>3. ASSUME order' = order PROVE order' \in Seq(Items) /\ Distinct(order)'
  BY <1>1, <1>3 DEF Distinct
<1>4. CASE Recover
  BY <1>4, RecoverTimed
<1>5. CASE WalkOn
  BY <1>5, WalkOnTimed
<1>6. CASE Arrive
  BY <1>6, ArriveTimed
<1>7. CASE Raise
  BY <1>7, RaiseTimed
<1>8. CASE Advance
  BY <1>8, AdvanceTimed
<1>9. CASE AdvanceToNothing
  <2>1. /\ ~Walking /\ UNCHANGED <<editVars, walk>> /\ cur' = NoItem /\ pos' = 0 /\ elapsed' = 0
        /\ cursor' = cursor /\ clock' = clock /\ fresh' = fresh /\ order' = order
    BY <1>9 DEF AdvanceToNothing
  <2>2. /\ cur' \in Items \union {NoItem} /\ pos' \in Nat /\ elapsed' \in 0..MaxElapsed
        /\ cursor' \in Nat \ {0} /\ clock' \in {"running", "idle", "stopped"} /\ fresh' \in BOOLEAN
    BY <1>1, <1>2, <2>1
  <2> QED BY <1>3, <2>1, <2>2, PutDown
<1>10. CASE Checkpoint
  <2>1. /\ ~Walking /\ UNCHANGED <<editVars, walk>> /\ cur' = cur /\ pos' = pos + elapsed
        /\ elapsed' = 0 /\ cursor' = cursor /\ clock' = clock /\ fresh' = fresh /\ order' = order
    BY <1>10 DEF Checkpoint
  <2>2. /\ cur' \in Items \union {NoItem} /\ pos' \in Nat /\ elapsed' \in 0..MaxElapsed
        /\ cursor' \in Nat \ {0} /\ clock' \in {"running", "idle", "stopped"} /\ fresh' \in BOOLEAN
    BY <1>1, <1>2, <2>1
  <2> QED BY <1>3, <2>1, <2>2, PutDown
<1>11. CASE SetIdle
  <2>1. /\ ~Walking /\ UNCHANGED <<editVars, walk>> /\ cur' = cur /\ elapsed' = 0
        /\ pos' = IF clock = "running" THEN pos + elapsed ELSE pos
        /\ cursor' = cursor /\ clock' = "idle" /\ fresh' = fresh /\ order' = order
    BY <1>11 DEF SetIdle
  <2>2. /\ cur' \in Items \union {NoItem} /\ pos' \in Nat /\ elapsed' \in 0..MaxElapsed
        /\ cursor' \in Nat \ {0} /\ clock' \in {"running", "idle", "stopped"} /\ fresh' \in BOOLEAN
    BY <1>1, <1>2, <2>1
  <2> QED BY <1>3, <2>1, <2>2, PutDown
<1>12. CASE Tick
  <2>1. /\ ~Walking /\ UNCHANGED <<editVars, walk>> /\ cur' = cur /\ pos' = pos
        /\ elapsed < MaxElapsed /\ elapsed' = elapsed + 1
        /\ cursor' = cursor /\ clock' = clock /\ fresh' = fresh /\ order' = order
    BY <1>12 DEF Tick
  <2>2. elapsed' \in 0..MaxElapsed
    BY <1>1, <2>1, ElapsedBound
  <2> QED BY <1>1, <1>3, <2>1, <2>2, PutDown
<1>13. CASE EditStep
  BY <1>13, EditStepTimed
<1>14. ASSUME NEW i \in Items, PlayNow(i) PROVE Timed'
  BY <1>14, PlayNowTimed
<1>15. ASSUME NEW to \in {"running", "idle", "stopped"}, SetStatus(to) PROVE Timed'
  <2>1. /\ ~Walking /\ UNCHANGED <<editVars, walk>> /\ cur' = cur /\ pos' = pos
        /\ elapsed' = 0 /\ cursor' = cursor /\ clock' = to /\ fresh' = fresh /\ order' = order
    BY <1>15 DEF SetStatus
  <2> QED BY <1>1, <1>2, <1>3, <2>1, PutDown
<1> QED BY <1>4, <1>5, <1>6, <1>7, <1>8, <1>9, <1>10, <1>11, <1>12, <1>13, <1>14, <1>15
        DEF TimelineNext, RecoverStep

\* The invariant.
LEMMA AlwaysTimed == TimelineSpec => []Timed
<1>1. TimelineInit => Timed
  BY InitTimed
<1>2. Timed /\ [TimelineNext]_timelineVars => Timed'
  BY StepTimed
<1> QED BY <1>1, <1>2, PTL DEF TimelineSpec

\* In every reachable state the variables have their types.
THEOREM TimelineTypeCorrect == TimelineSpec => []TimelineTypeOK
<1>1. Timed => TimelineTypeOK
  BY DEF Timed, Orderly
<1> QED BY <1>1, AlwaysTimed, PTL

\* A sequential recovery never runs out of passes.
LEMMA RaiseIsShuffled == Timed /\ Raise => mode = "shuffle"
<1> SUFFICES ASSUME Timed, Raise, mode # "shuffle" PROVE FALSE
  OBVIOUS
<1>1. /\ Listed /\ Walking /\ walk.at \in Ids /\ walk.left = 0 /\ walk.off \in Nat
      /\ walk.off < Rest(IndexOf(Playable, walk.at), walk.left)
  BY DEF Timed, Orderly, OnItsWay, TimelineTypeOK, Raise
<1>2. PICK i \in 1..Len(Playable) : i = IndexOf(Playable, walk.at)
  BY <1>1, PlayableIs, IndexIs DEF Ids
<1>3. Rest(i, 0) = 0
  BY <1>1, <1>2, RestIs
<1> QED BY <1>1, <1>2, <1>3

\* Whatever the playlist and the durations are, a sequential recovery always lands
\* inside a track, over any number of rounds: recover_timeline() does not raise.
THEOREM SequentialRecoverySucceeds == TimelineSpec => SequentialNeverRaises
<1>1. Timed /\ [TimelineNext]_timelineVars => [Raise => mode = "shuffle"]_timelineVars
  BY RaiseIsShuffled
<1> QED BY <1>1, AlwaysTimed, PTL DEF TimelineSpec, SequentialNeverRaises

\* With more than one playable item no choice of select_next(), in a sequence or in a
\* shuffled round or between two of them, is the item it comes after.
THEOREM NoTrackFollowsItself == TimelineSpec => NoTrackTwiceInARow
<1>1. Timed => [/\ WalkOn /\ Cardinality(Ids) > 1 => walk'.at # walk.at
                /\ Advance /\ Cardinality(Ids) > 1 => cur' # cur]_timelineVars
  BY WalkOnIs, AdvanceIs
<1> QED BY <1>1, AlwaysTimed, PTL DEF TimelineSpec, NoTrackTwiceInARow

\* After any edits a chosen item stands at the cursor of a round that holds every
\* playable item once.
THEOREM EveryRoundIsWhole == TimelineSpec => RoundIsAPermutation
<1>1. Timed => [Advance /\ mode = "shuffle" =>
                  /\ Len(order') = Cardinality(Ids) /\ InSeq(order') = Ids
                  /\ order'[cursor'] = cur']_timelineVars
  BY AdvanceIs DEF Round
<1> QED BY <1>1, AlwaysTimed, PTL DEF TimelineSpec, RoundIsAPermutation

\* A recovery sets out where the clock has brought the item.
LEMMA SetsOutInPhase ==
  ASSUME Timed, Recover, mode = "sequential", cur \in Ids
  PROVE  Phase' = Phase
<1>1. Listed /\ Ids # {} /\ ~Walking /\ UNCHANGED editVars /\ Late \in Nat
  <2>1. pos \in Nat /\ elapsed \in Nat
    BY ElapsedBound DEF Timed, Orderly, TimelineTypeOK
  <2> QED BY <2>1 DEF Timed, Orderly, Recover, Late
<1>2. PICK n \in Nat, i \in Nat : n = Len(Playable) /\ i = IndexOf(Playable, cur) /\ i \in 1..n
  BY <1>1, PlayableIs, IndexIs DEF Ids
<1>3. PICK e \in Nat, c \in Nat \ {0}, due \in Nat, l \in Nat :
        e = Ends[i - 1] /\ c = CycleLength /\ due = Late /\ l = due % c
  <2>1. i - 1 \in 0..n
    BY <1>2
  <2>2. Ends[i - 1] \in Nat /\ CycleLength \in Nat \ {0}
    BY <1>1, <1>2, <2>1, EndsAre, RoundIs
  <2>3. Late % CycleLength \in Nat
    BY <1>1, <2>2, Remainder
  <2> QED BY <1>1, <2>2, <2>3
<1>4. SetsOut(cur, l)
  BY <1>3, RecoverIs DEF Timed
<1>5. PICK o \in Seq(Items), d \in Nat \ {0}, f \in BOOLEAN :
        /\ Distinct(o)
        /\ walk' = [at |-> cur, off |-> l, left |-> n, order |-> o, cursor |-> d, fresh |-> f]
  BY <1>2, <1>4 DEF SetsOut
<1>6. walk' # NoWalk /\ walk'.at = cur /\ walk'.off = l
  BY <1>1, <1>2, <1>5, WalkIs
<1>7. Playable' = Playable /\ Ends' = Ends /\ CycleLength' = CycleLength
  BY <1>1, SamePlayable
<1>8. Phase = (e + due) % c
  BY <1>1, <1>2, <1>3 DEF Phase, Late
<1>9. Phase' = (e + l) % c
  <2>1. Walking'
    BY <1>6 DEF Walking
  <2>2. IndexOf(Playable, walk.at)' = i
    BY <1>2, <1>6, <1>7 DEF IndexOf
  <2> QED BY <1>3, <1>6, <1>7, <2>1, <2>2 DEF Phase, IndexOf
<1>10. (e + (due % c)) % c = (e + due) % c
  BY RemainderSum
<1> QED BY <1>3, <1>8, <1>9, <1>10

\* A pass goes on where the last one stopped, also into the next round.
LEMMA WalksInPhase ==
  ASSUME Timed, WalkOn, mode = "sequential"
  PROVE  Phase' = Phase
<1>1. /\ Listed /\ Ids # {} /\ Walking /\ walk.at \in Ids /\ UNCHANGED editVars
      /\ walk.off \in Nat /\ walk.off >= Duration[walk.at]
  BY DEF Timed, Orderly, OnItsWay, TimelineTypeOK, WalkOn
<1>2. PICK n \in Nat, i \in Nat : n = Len(Playable) /\ i = IndexOf(Playable, walk.at) /\ i \in 1..n
                                  /\ Playable[i] = walk.at
  BY <1>1, PlayableIs, IndexIs DEF Ids
<1>0. PICK e : e = Ends
  OBVIOUS
<1>3. PICK c \in Nat \ {0} : e = Ends /\ c = CycleLength
  BY <1>0, <1>1, RoundIs
<1>4. PICK d \in Nat, off \in Nat, rest \in Nat :
        d = Duration[walk.at] /\ off = walk.off /\ rest = off - d
  <2>1. Duration[walk.at] \in Nat
    BY <1>1, PlayableIs, DurationsPositive
  <2>2. walk.off - Duration[walk.at] \in Nat
    BY <1>1, <2>1
  <2> QED BY <1>1, <2>1, <2>2
<1>5. e[0] = 0 /\ e[n] = c /\ e[i] = e[i - 1] + d /\ e[i] \in Nat /\ e[i - 1] \in Nat
  <2>1. i \in 0..n /\ i - 1 \in 0..n
    BY <1>2
  <2> QED BY <1>1, <1>2, <1>3, <1>4, <2>1, EndsAre DEF CycleLength
<1>6. PICK j \in 1..n : j = NextPlace(i) /\ walk'.at = Playable[j]
  <2>1. walk'.at = NextInList(walk.at)
    BY WalkOnIs
  <2> QED BY <1>1, <1>2, <2>1, NextInListIs DEF NextPlace
<1>7. IndexOf(Playable, walk'.at) = j
  <2>1. PICK l : l = IndexOf(Playable, walk'.at) /\ l \in 1..n /\ Playable[l] = walk'.at
    BY <1>1, <1>2, PlayableIs, IndexIs, WalkOnIs DEF Ids
  <2> QED BY <1>1, <1>2, <1>6, <2>1, PlayableIs DEF Distinct
<1>8. Playable' = Playable /\ Ends' = e /\ CycleLength' = c
  BY <1>1, <1>3, SamePlayable
<1>9. Phase = (e[i - 1] + off) % c
  BY <1>1, <1>2, <1>3, <1>4 DEF Phase
<1>10. Phase' = (e[j - 1] + rest) % c
  <2>1. Walking' /\ walk'.off = rest
    BY <1>4, WalkOnIs DEF Walking
  <2>2. IndexOf(Playable, walk.at)' = j
    BY <1>7, <1>8 DEF IndexOf
  <2> QED BY <1>8, <2>1, <2>2 DEF Phase, IndexOf
<1>11. CASE i < n
  <2>1. j - 1 = i
    BY <1>2, <1>6, <1>11 DEF NextPlace
  <2>2. e[i] + rest = e[i - 1] + off
    BY <1>4, <1>5
  <2> QED BY <1>9, <1>10, <2>1, <2>2
<1>12. CASE ~(i < n)
  <2>1. j - 1 = 0 /\ i = n
    BY <1>2, <1>6, <1>12 DEF NextPlace
  <2>2. e[i - 1] + off = c * 1 + rest
    BY <1>4, <1>5, <2>1
  <2>3. (c * 1 + rest) % c = rest % c
    BY RemainderAdd
  <2>4. e[j - 1] + rest = rest
    BY <1>5, <2>1
  <2> QED BY <1>9, <1>10, <2>2, <2>3, <2>4
<1> QED BY <1>11, <1>12

\* A step that moves seconds between the position and the anchor.
LEMMA StaysInPhase ==
  ASSUME UNCHANGED editVars, ~Walking', NEW item, NEW off,
         item = (IF Walking THEN walk.at ELSE cur), cur' = item,
         off = (IF Walking THEN walk.off ELSE Late), pos' = off, off \in Nat, elapsed' = 0
  PROVE  Phase' = Phase
<1>1. Playable' = Playable /\ Ends' = Ends /\ CycleLength' = CycleLength
  BY SamePlayable
<1>2. IndexOf(Playable, cur)' = IndexOf(Playable, item)
  BY <1>1 DEF IndexOf
<1>3. Late' = off
  BY DEF Late
<1>4. Phase = (Ends[IndexOf(Playable, item) - 1] + off) % CycleLength
  BY DEF Phase, Late
<1>5. Phase' = (Ends[IndexOf(Playable, item) - 1] + off) % CycleLength
  BY <1>1, <1>2, <1>3 DEF Phase, Late, IndexOf
<1> QED BY <1>4, <1>5

\* Whatever the playlist, the durations and the time that passed are, recovering a
\* sequential timeline, checkpointing it and setting it to idle leave it where the wall
\* clock had brought it.
THEOREM RecoveryStaysInPhase == TimelineSpec => RecoveryKeepsPhase
<1> DEFINE Kind == RecoverStep \/ Checkpoint \/ (clock = "running" /\ SetIdle)
<1>1. ASSUME Timed, mode = "sequential", cur \in Ids, Kind PROVE Phase' = Phase
  <2>1. walk.off \in Nat /\ pos \in Nat /\ elapsed \in Nat
    BY <1>1, ElapsedBound DEF Timed, Orderly, TimelineTypeOK
  <2>2. Late \in Nat
    BY <2>1 DEF Late
  <2>3. CASE Recover
    BY <1>1, <2>3, SetsOutInPhase
  <2>4. CASE WalkOn
    BY <1>1, <2>4, WalksInPhase
  <2>5. CASE Arrive
    <3>1. /\ UNCHANGED editVars /\ ~Walking' /\ Walking /\ cur' = walk.at /\ pos' = walk.off
          /\ elapsed' = 0
      BY <2>5 DEF Arrive, Walking
    <3> QED BY <2>1, <3>1, StaysInPhase
  <2>6. CASE Raise
    BY <1>1, <2>6, RaiseIsShuffled
  <2>7. CASE Checkpoint \/ (clock = "running" /\ SetIdle)
    <3>1. /\ UNCHANGED editVars /\ ~Walking /\ ~Walking' /\ cur' = cur /\ clock = "running"
          /\ pos' = pos + elapsed /\ elapsed' = 0
      BY <2>7 DEF Checkpoint, SetIdle, Walking
    <3>2. pos' = Late
      BY <3>1 DEF Late
    <3> QED BY <2>2, <3>1, <3>2, StaysInPhase
  <2> QED BY <1>1, <2>3, <2>4, <2>5, <2>6, <2>7 DEF RecoverStep
<1>2. Timed => [/\ mode = "sequential" /\ cur \in Ids
                /\ RecoverStep \/ Checkpoint \/ (clock = "running" /\ SetIdle)
                => Phase' = Phase]_timelineVars
  BY <1>1
<1> QED BY <1>2, AlwaysTimed, PTL DEF TimelineSpec, RecoveryKeepsPhase
=============================================================================
