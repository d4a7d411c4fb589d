-------------------------- MODULE UploadQueueProofs --------------------------
(***************************************************************************)
(* Theorems about UploadQueue for every number of jobs, every assignment   *)
(* of jobs to pages, every set of cancellations and every limit.           *)
(***************************************************************************)
EXTENDS UploadQueue, TLAPS

\* A transaction of the event loop is about a job.
LoopNamesAJob == loop.op # "none" => loop.job \in Jobs

Types == TypeOK /\ LoopNamesAJob

LEMMA TypesInit == Init => Types
  BY DEF Init, Types, TypeOK, LoopNamesAJob, NoAdmin, NoScan, NoLoop, Capacity, ClientBound, Terminal

LEMMA TypesNext == Types /\ [Next]_vars => Types'
<1> USE DEF Capacity, ClientBound, Terminal
<1> SUFFICES ASSUME Types, [Next]_vars PROVE Types'
  OBVIOUS
<1> USE DEF Types, TypeOK, LoopNamesAJob, Set, InStatus
<1>1. ASSUME NEW J \in Cancels, AdminReads(J) PROVE Types'
  BY <1>1 DEF AdminReads, fileVars
<1>2. CASE AdminCommits \/ AdminAborts
  BY <1>2 DEF AdminCommits, AdminAborts, NoAdmin, fileVars
<1>3. CASE AdminFollowsUp
  BY <1>3 DEF AdminFollowsUp, NoAdmin
<1>4. CASE SchedulerReads
  <2>1. PICK promote \in SUBSET Jobs :
          scan' = [at |-> "read", expire |-> Stale \union Late, hit |-> {},
                   files |-> (Stale \union Late) \intersect InStatus({"uploading"}),
                   promote |-> promote]
    BY <1>4 DEF SchedulerReads, Plans
  <2>2. scan' \in [at : {"none", "read", "decided"}, expire : SUBSET Jobs,
                   promote : SUBSET Jobs, hit : SUBSET Jobs, files : SUBSET Jobs]
    BY <2>1 DEF Stale, Late
  <2>3. UNCHANGED <<status, seen, leased, fileVars, admin, loop, up>>
    BY <1>4 DEF SchedulerReads, Plans
  <2> QED BY <2>2, <2>3 DEF fileVars
<1>5. CASE SchedulerDecides
  BY <1>5 DEF SchedulerDecides
<1>6. CASE SchedulerCommits \/ SchedulerAborts
  BY <1>6 DEF SchedulerCommits, SchedulerAborts, NoScan, fileVars
<1>7. CASE ReceiveRefuses \/ ReceiveStarts
  <2>1. CASE ReceiveRefuses
    BY <2>1 DEF ReceiveRefuses, LoopDone, NoLoop
  <2>2. CASE ReceiveStarts
    <3>1. loop.job \in Jobs \union {0} /\ loop' = NoLoop
      BY <2>2 DEF ReceiveStarts, LoopDone
    <3>2. request' \in [Jobs -> {"none", "starting", "streaming", "ending", "leaked"}]
      BY <2>2 DEF ReceiveStarts
    <3>3. status' \in [Jobs -> Capacity \union Terminal \union {"none"}] /\ leased' \subseteq Jobs
      BY <2>2 DEF ReceiveStarts
    <3>4. part' \subseteq Jobs /\ astray' \subseteq Jobs
      BY <2>2 DEF ReceiveStarts, InLoop
    <3> QED BY <2>2, <3>1, <3>2, <3>3, <3>4 DEF ReceiveStarts, NoLoop
  <2> QED BY <1>7, <2>1, <2>2
<1>8. CASE VerifyCommits \/ CloseFails
  <2>1. loop.job \in Jobs \union {0} /\ loop' = NoLoop
    BY <1>8 DEF VerifyCommits, CloseFails, LoopDone
  <2>2. status' \in [Jobs -> Capacity \union Terminal \union {"none"}]
    BY <1>8 DEF VerifyCommits, CloseFails
  <2>3. request' \in [Jobs -> {"none", "starting", "streaming", "ending", "leaked"}]
    BY <1>8 DEF VerifyCommits, CloseFails
  <2>4. worker' \in [Jobs -> {"none", "new", "importing", "staging", "recording", "failing",
                             "cleanup"}]
    BY <1>8 DEF VerifyCommits, CloseFails
  <2>5. seen' \subseteq Jobs /\ cancelling' \subseteq Jobs /\ astray' \subseteq Jobs
        /\ UNCHANGED <<leased, part, admin, scan, up>>
    BY <1>8, FallibleAreJobs DEF VerifyCommits, CloseFails
  <2> QED BY <2>1, <2>2, <2>3, <2>4, <2>5 DEF NoLoop
<1>9. CASE EndCommits \/ EndFails \/ VerifyFails
  <2>1. CASE VerifyFails
    BY <2>1 DEF VerifyFails, InLoop, fileVars
  <2>2. CASE EndCommits \/ EndFails
    <3>1. loop.job \in Jobs \union {0} /\ loop' = NoLoop
      BY <2>2 DEF EndCommits, EndFails, LoopDone
    <3>2. status' \in [Jobs -> Capacity \union Terminal \union {"none"}]
      BY <2>2 DEF EndCommits, EndFails
    <3>3. request' \in [Jobs -> {"none", "starting", "streaming", "ending", "leaked"}]
      BY <2>2 DEF EndCommits, EndFails, RequestEnds
    <3>4. worker' \in [Jobs -> {"none", "new", "importing", "staging", "recording", "failing",
                               "cleanup"}]
      BY <2>2 DEF EndCommits, EndFails
    <3>5. part' \subseteq Jobs /\ cancelling' \subseteq Jobs
      BY <2>2 DEF EndCommits, EndFails, RequestEnds
    <3>6. astray' \subseteq Jobs
      BY <2>2, FallibleAreJobs DEF EndCommits, EndFails
    <3>7. UNCHANGED <<seen, leased, admin, scan, up>>
      BY <2>2 DEF EndCommits, EndFails
    <3> QED BY <3>1, <3>2, <3>3, <3>4, <3>5, <3>6, <3>7 DEF NoLoop
  <2> QED BY <1>9, <2>1, <2>2
<1>10. CASE Crash \/ Restart
  <2>1. CASE Crash
    BY <2>1 DEF Crash, NoAdmin, NoScan, NoLoop
  <2>2. CASE Restart
    BY <2>2 DEF Restart, Occupied, txVars
  <2> QED BY <1>10, <2>1, <2>2
<1>11. ASSUME NEW p \in Pages, Heartbeat(p) \/ HeartbeatLost(p) PROVE Types'
  BY <1>11 DEF Heartbeat, HeartbeatLost, fileVars, txVars
<1>12. ASSUME NEW j \in Jobs, Reserve(j) \/ LeaseEnds(j) PROVE Types'
  BY <1>12 DEF Reserve, LeaseEnds, fileVars, txVars
<1>13. ASSUME NEW j \in Jobs, ReceiveReads(j) PROVE Types'
  BY <1>13 DEF ReceiveReads
<1>14. ASSUME NEW j \in Jobs, BodyComplete(j) \/ BodyFails(j) \/ BodyStops(j) \/ WorkerFails(j)
       PROVE  Types'
  <2>1. PICK op \in {"verify", "fail", "expire"}, S \in SUBSET (Capacity \union Terminal) :
          Begin(op, j, S) /\ UNCHANGED request
    BY <1>14 DEF BodyComplete, BodyFails, BodyStops, WorkerFails
  <2> QED BY <2>1 DEF Begin
<1>15. ASSUME NEW j \in Jobs, StageReads(j) \/ StageCommits(j) PROVE Types'
  BY <1>15 DEF StageReads, StageCommits, WorkerGoes, txVars
<1>16. ASSUME NEW j \in Jobs,
              \/ WorkerStarts(j) \/ ImportSucceeds(j) \/ ImportFails(j)
              \/ WorkerRecords(j) \/ RecordFails(j) \/ WorkerCleansUp(j)
       PROVE  Types'
  BY <1>16 DEF WorkerStarts, ImportSucceeds, ImportFails, WorkerRecords, RecordFails,
     WorkerCleansUp, WorkerGoes, txVars
<1>17. CASE UNCHANGED vars
  BY <1>17 DEF vars
<1> QED
  BY <1>1, <1>2, <1>3, <1>4, <1>5, <1>6, <1>7, <1>8, <1>9, <1>10, <1>11, <1>12, <1>13, <1>14,
     <1>15, <1>16, <1>17
     DEF Next, AdminStep, SchedulerStep, LoopCommits, JobStep, WorkerStep

\* Every variable keeps to its type.
THEOREM TypeCorrect == Safety => []TypeOK
  BY TypesInit, TypesNext, PTL DEF Safety, Types

-----------------------------------------------------------------------------
(***************************************************************************)
(* Who works for a job.  Rows are overwritten by transactions that read    *)
(* them earlier, so neither property is kept by the status alone: what is  *)
(* kept is which task may exist at which status, and what the transaction  *)
(* of the event loop knows of its own job, which no other thread gives a   *)
(* new task in the meantime.                                               *)
(***************************************************************************)

\* What is true of every job while the service runs.  A job that waits, or that the scheduler is
\* about to promote, has no task; a promotion that lost its race overwrites an end only.  Where
\* a handler failed the job may have lost its task, and that is all that is given up.
TaskOf(j) ==
  /\ (status[j] \in {"none", "queued", "ready"} \/ j \in scan.promote)
       => worker[j] = "none" /\ request[j] \in {"none", "starting"}
  /\ j \in scan.promote => status[j] \in {"queued", "ended"}
  /\ request[j] \in {"streaming", "ending"}
       => worker[j] = "none" /\ status[j] \in {"uploading", "ended"}
  /\ status[j] = "uploading" => request[j] \in {"streaming", "ending"} \/ j \in astray
  /\ status[j] = "processing" => worker[j] # "none" \/ j \in astray
  /\ worker[j] = "cleanup" => status[j] # "processing" \/ j \in astray
  /\ j \in part => request[j] \in {"streaming", "ending"} \/ worker[j] # "none" \/ j \in astray

\* What the event loop's transaction may still rely on about its job j when it commits.
LoopOf(j) ==
  /\ loop.op = "receive"
       => /\ request[j] = "starting" /\ (status[j] # "uploading" \/ j \in astray)
          /\ loop.applies
               => status[j] \in {"ready", "ended"} /\ worker[j] = "none" /\ j \notin scan.promote
  /\ loop.op \in {"verify", "expire"}
       => request[j] = "streaming" /\ (~loop.applies => status[j] # "uploading")
  /\ loop.op = "fail"
       => /\ request[j] \in {"streaming", "ending"} \/ worker[j] = "failing"
          /\ ~loop.applies => status[j] \notin {"uploading", "processing"}

\* Nothing of the service survives its crash.
Down ==
  /\ request = [j \in Jobs |-> "none"] /\ worker = [j \in Jobs |-> "none"]
  /\ scan = NoScan /\ loop = NoLoop

Running == (\A j \in Jobs : TaskOf(j)) /\ (loop.op # "none" => LoopOf(loop.job))

Tasks == (up => Running) /\ (~up => Down)

LEMMA TasksInit == Init => Tasks
  BY DEF Init, Tasks, Running, TaskOf, NoScan, NoLoop

\* A step of the service while it runs.
LEMMA RunningNext ==
  ASSUME Types, Types', up, up', Running, Next
  PROVE  Running'
<1> USE DEF Running, TaskOf, LoopOf
<1> USE DEF Types, TypeOK, LoopNamesAJob, Set, InStatus, NoLoop, NoScan, Capacity, ClientBound,
        Terminal
<1>1. ASSUME NEW J \in Cancels, AdminReads(J) PROVE Running'
  BY <1>1 DEF AdminReads, fileVars
<1>2. CASE AdminCommits \/ AdminAborts
  BY <1>2 DEF AdminCommits, AdminAborts, fileVars
<1>3. CASE AdminFollowsUp
  BY <1>3 DEF AdminFollowsUp
<1>4. CASE SchedulerReads
  <2>1. scan'.promote \subseteq InStatus({"queued"}) /\ scan.promote \subseteq Jobs
    BY <1>4 DEF SchedulerReads, Plans
  <2>2. UNCHANGED <<status, fileVars, loop>>
    BY <1>4 DEF SchedulerReads, Plans
  <2> QED BY <2>1, <2>2 DEF fileVars
<1>5. CASE SchedulerDecides
  BY <1>5 DEF SchedulerDecides
<1>6. CASE SchedulerCommits \/ SchedulerAborts
  BY <1>6 DEF SchedulerCommits, SchedulerAborts, fileVars
<1>7. CASE ReceiveRefuses
  BY <1>7 DEF ReceiveRefuses, LoopDone, InLoop
<1>8. CASE ReceiveStarts
  BY <1>8 DEF ReceiveStarts, LoopDone, InLoop
<1>9. CASE VerifyCommits \/ CloseFails \/ VerifyFails
  <2>1. CASE VerifyCommits
    BY <2>1 DEF VerifyCommits, LoopDone, InLoop
  <2>2. CASE CloseFails
    BY <2>2 DEF CloseFails, LoopDone, InLoop
  <2>3. CASE VerifyFails
    BY <2>3 DEF VerifyFails, InLoop, fileVars
  <2> QED BY <1>9, <2>1, <2>2, <2>3
<1>10. CASE EndCommits \/ EndFails
  <2>1. CASE EndCommits
    BY <2>1 DEF EndCommits, RequestEnds, LoopDone, InLoop
  <2>2. CASE EndFails
    BY <2>2 DEF EndFails, RequestEnds, LoopDone, InLoop
  <2> QED BY <1>10, <2>1, <2>2
<1>11. ASSUME NEW p \in Pages, Heartbeat(p) \/ HeartbeatLost(p) PROVE Running'
  BY <1>11 DEF Heartbeat, HeartbeatLost, fileVars, txVars
<1>12. ASSUME NEW j \in Jobs, Reserve(j) \/ LeaseEnds(j) PROVE Running'
  BY <1>12 DEF Reserve, LeaseEnds, fileVars, txVars
<1>13. ASSUME NEW j \in Jobs, ReceiveReads(j) PROVE Running'
  <2>1. \A i \in Jobs : TaskOf(i)'
    BY <1>13 DEF ReceiveReads
  <2>2. loop'.op = "receive" /\ loop'.job = j /\ loop'.applies = (status[j] = "ready" /\ j \in leased)
    BY <1>13 DEF ReceiveReads
  <2>3. request'[j] = "starting" /\ UNCHANGED <<status, worker, scan, astray>> /\ request[j] = "none"
    BY <1>13 DEF ReceiveReads
  <2>4. /\ status[j] # "uploading" \/ j \in astray
        /\ status[j] = "ready" => worker[j] = "none" /\ j \notin scan.promote
    BY <2>3
  <2>5. LoopOf(loop.job)'
    BY <2>2, <2>3, <2>4
  <2> QED BY <2>1, <2>5
<1>14. ASSUME NEW j \in Jobs, BodyComplete(j) \/ BodyFails(j) \/ BodyStops(j) \/ WorkerFails(j)
       PROVE  Running'
  BY <1>14 DEF BodyComplete, BodyFails, BodyStops, WorkerFails, Begin, LoopFree
<1>15. ASSUME NEW j \in Jobs, StageReads(j) \/ StageCommits(j) PROVE Running'
  BY <1>15 DEF StageReads, StageCommits, WorkerGoes, txVars
<1>16. ASSUME NEW j \in Jobs,
              \/ WorkerStarts(j) \/ ImportSucceeds(j) \/ ImportFails(j)
              \/ WorkerRecords(j) \/ RecordFails(j) \/ WorkerCleansUp(j)
       PROVE  Running'
  BY <1>16 DEF WorkerStarts, ImportSucceeds, ImportFails, WorkerRecords, RecordFails,
     WorkerCleansUp, WorkerGoes, txVars
<1> QED
  BY <1>1, <1>2, <1>3, <1>4, <1>5, <1>6, <1>7, <1>8, <1>9, <1>10, <1>11, <1>12, <1>13, <1>14,
     <1>15, <1>16
     DEF Next, AdminStep, SchedulerStep, LoopCommits, JobStep, WorkerStep, Crash, Restart

LEMMA TasksNext == Types /\ Types' /\ Tasks /\ [Next]_vars => Tasks'
<1> SUFFICES ASSUME Types, Types', Tasks, [Next]_vars PROVE Tasks'
  OBVIOUS
<1>1. CASE UNCHANGED vars
  BY <1>1 DEF vars, Tasks, Running, Down, TaskOf, LoopOf, NoScan, NoLoop
<1>2. CASE Next /\ up /\ up'
  BY <1>2, RunningNext DEF Tasks
<1>3. CASE Crash
  BY <1>3 DEF Crash, Tasks, Down
<1>4. CASE Restart
  <2>1. Down /\ UNCHANGED <<request, worker, scan, loop>> /\ part' = {} /\ up'
    BY <1>4 DEF Restart, txVars, Tasks
  <2>2. \A j \in Jobs : status'[j] \in {"none", "completed", "ended"}
    BY <1>4 DEF Restart, Occupied, InStatus, Set, Types, TypeOK, Capacity, ClientBound, Terminal
  <2>3. \A j \in Jobs : TaskOf(j)'
    BY <2>1, <2>2 DEF Down, TaskOf, NoScan
  <2> QED BY <2>1, <2>3 DEF Down, Tasks, Running, NoLoop
<1>5. CASE Next /\ ~Crash /\ ~Restart
  <2>1. up' = up
    BY <1>5 DEF Next, AdminStep, SchedulerStep, LoopCommits, JobStep, WorkerStep, AdminReads,
       AdminCommits, AdminAborts, AdminFollowsUp, SchedulerReads, Plans, SchedulerDecides,
       SchedulerCommits, SchedulerAborts, ReceiveRefuses, ReceiveStarts, VerifyCommits, VerifyFails,
       CloseFails, EndCommits, EndFails, Heartbeat, HeartbeatLost, Reserve, LeaseEnds,
       ReceiveReads, BodyComplete, BodyFails, BodyStops, WorkerFails, Begin, StageReads,
       StageCommits, WorkerStarts, ImportSucceeds, ImportFails, WorkerRecords, RecordFails,
       WorkerCleansUp
  <2>2. CASE ~up
    <3>1. \/ AdminCommits \/ AdminAborts \/ AdminFollowsUp
          \/ \E p \in Pages : HeartbeatLost(p)
          \/ \E j \in Jobs : LeaseEnds(j)
      <4>1. scan.at = "none" /\ loop.op = "none"
        BY <2>2 DEF Tasks, Down, NoScan, NoLoop
      <4>2. ~SchedulerStep
        BY <4>1, <2>2 DEF SchedulerStep, SchedulerReads, Plans, SchedulerDecides,
           SchedulerCommits, SchedulerAborts
      <4>3. ~LoopCommits
        BY <4>1 DEF LoopCommits, InLoop, ReceiveRefuses, ReceiveStarts, VerifyCommits,
           VerifyFails, CloseFails, EndCommits, EndFails
      <4>4. \A j \in Jobs : ~WorkerStep(j)
        BY <2>2 DEF WorkerStep, WorkerGoes, WorkerStarts, ImportSucceeds, ImportFails,
           WorkerRecords, RecordFails, WorkerCleansUp, WorkerFails, Begin, LoopFree
      <4>5. \A j \in Jobs : JobStep(j) => LeaseEnds(j)
        BY <2>2, <4>4 DEF JobStep, Reserve, ReceiveReads, LoopFree, BodyComplete, BodyFails,
           BodyStops, Begin, StageReads, StageCommits, WorkerGoes
      <4>6. ~\E J \in Cancels : AdminReads(J)
        BY <2>2 DEF AdminReads
      <4>7. \A p \in Pages : ~Heartbeat(p)
        BY <2>2 DEF Heartbeat
      <4> QED BY <1>5, <4>2, <4>3, <4>5, <4>6, <4>7 DEF Next, AdminStep
    <3>2. UNCHANGED <<request, worker, scan, loop>>
      BY <3>1 DEF AdminCommits, AdminAborts, AdminFollowsUp, HeartbeatLost, LeaseEnds, fileVars,
         txVars
    <3> QED BY <2>1, <2>2, <3>2 DEF Tasks, Down, NoScan, NoLoop
  <2> QED BY <1>2, <1>5, <2>1, <2>2
<1> QED BY <1>1, <1>3, <1>4, <1>5

\* What holds in every reachable state: the types and the tasks together.
LEMMA TasksAlways == Safety => [](Types /\ Tasks)
  BY TypesInit, TypesNext, TasksInit, TasksNext, PTL DEF Safety

\* A temporary file always belongs to a request that receives it or a worker that processes it,
\* whatever cancellations, expiries and failures interleave, and after every crash, unless the
\* error handling or the removal of its job failed itself.
THEOREM NoFileIsLeft == Safety => []PartHasOwner
<1>1. Types /\ Tasks => PartHasOwner
  BY DEF Tasks, Running, TaskOf, PartHasOwner, Types, TypeOK
<1> QED BY <1>1, TasksAlways, PTL

\* A job whose row occupies an upload place always has the request or the worker that will free
\* it, although rows are overwritten by transactions that read them before, unless the error
\* handling of that job failed itself.
THEOREM NoSlotIsOrphaned == Safety => []NoOrphanedSlot
<1>1. Types /\ Tasks => NoOrphanedSlot
  BY DEF Tasks, Running, TaskOf, NoOrphanedSlot
<1> QED BY <1>1, TasksAlways, PTL

=============================================================================
