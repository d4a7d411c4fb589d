----------------------------- MODULE UploadQueue -----------------------------
(***************************************************************************)
(* The persistent public upload queue: reservations, the scheduler, the    *)
(* request that receives a file, its processing, cancellation, closed      *)
(* pages, lost heartbeats, and a crash with the recovery after it.         *)
(*                                                                         *)
(* A transaction reads its rows, decides, and writes them when it commits; *)
(* nothing locks the rows in between, so each one is a step that reads and *)
(* a step that writes.  Transactions of different threads interleave: a    *)
(* request thread, the scheduler's thread, one worker per job, and the     *)
(* event loop, which does nothing else while it is in one.                 *)
(***************************************************************************)
EXTENDS Integers, FiniteSets

CONSTANTS
  NumJobs,        \* bound: jobs, numbered in the order they are reserved
  Page,           \* job -> the page that uploads it
  Cancels,        \* bound: the sets of jobs that one cancel or close request names
  Fallible,       \* bound: the jobs whose error handling and removals may fail
  QueueLimit,     \* settings.uploads.queue_limit
  MaxConcurrent   \* settings.uploads.max_concurrent

Jobs == 1..NumJobs

ASSUME NumJobsPositive == NumJobs \in Nat \ {0}
ASSUME PageDomain == DOMAIN Page = Jobs
ASSUME CancelsAreJobs == Cancels \subseteq SUBSET Jobs
ASSUME FallibleAreJobs == Fallible \subseteq Jobs
ASSUME Limits == QueueLimit \in Nat \ {0} /\ MaxConcurrent \in Nat \ {0}

VARIABLES
  status,      \* job -> UploadJob.status; none before the reservation
  seen,        \* jobs whose client_seen_at is recent, as long as it may be read
  leased,      \* ready jobs whose lease has not expired
  part,        \* jobs whose temporary file exists
  request,     \* job -> the request that receives it
  cancelling,  \* jobs whose request was asked to cancel
  worker,      \* job -> its processing task
  astray,      \* history: the jobs whose error handling or cleanup failed itself
  admin,       \* the transaction of a cancel or close request
  scan,        \* the transaction of the scheduler
  loop,        \* the transaction the event loop is in
  up           \* the service runs

vars == <<status, seen, leased, part, request, cancelling, worker, astray, admin, scan, loop, up>>
fileVars == <<part, request, cancelling, worker, astray>>
txVars == <<admin, scan, loop>>

-----------------------------------------------------------------------------
\* verifying, normalizing and placing are processing; rejected is like completed; failed,
\* cancelled and expired are ended.
ClientBound == {"queued", "ready", "uploading"}
Active == {"ready", "uploading", "processing"}
Capacity == ClientBound \union {"processing"}
Terminal == {"completed", "ended"}

InStatus(S) == {j \in Jobs : status[j] \in S}
Occupied == InStatus(Capacity)

NoAdmin == [at |-> "none", jobs |-> {}, files |-> {}]
NoScan == [at |-> "none", expire |-> {}, promote |-> {}, hit |-> {}, files |-> {}]
NoLoop == [op |-> "none", job |-> 0, applies |-> FALSE]
LoopFree == up /\ loop = NoLoop

TypeOK ==
  /\ status \in [Jobs -> Capacity \union Terminal \union {"none"}]
  /\ seen \subseteq Jobs /\ leased \subseteq Jobs
  /\ part \subseteq Jobs /\ cancelling \subseteq Jobs /\ astray \subseteq Jobs
  /\ request \in [Jobs -> {"none", "starting", "streaming", "ending", "leaked"}]
  /\ worker \in [Jobs -> {"none", "new", "importing", "staging", "recording", "failing",
                          "cleanup"}]
  /\ up \in BOOLEAN
  /\ admin \in [at : {"none", "read", "committed"}, jobs : SUBSET Jobs,
                files : SUBSET Jobs]
  /\ scan \in [at : {"none", "read", "decided"}, expire : SUBSET Jobs,
               promote : SUBSET Jobs, hit : SUBSET Jobs, files : SUBSET Jobs]
  /\ loop \in [op : {"none", "receive", "verify", "fail", "expire"}, job : Jobs \union {0},
               applies : BOOLEAN]

Set(S, to) == status' = [j \in Jobs |-> IF j \in S THEN to ELSE status[j]]

-----------------------------------------------------------------------------
Init ==
  /\ status = [j \in Jobs |-> "none"]
  /\ seen = {} /\ leased = {} /\ part = {}
  /\ request = [j \in Jobs |-> "none"]
  /\ cancelling = {} /\ astray = {}
  /\ worker = [j \in Jobs |-> "none"]
  /\ admin = NoAdmin /\ scan = NoScan /\ loop = NoLoop
  /\ up = TRUE

\* ----- reserve(), under its lock -----

\* Only a reservation adds jobs and the lock orders them, so the count is one step
\* with the insertion.
Reserve(j) ==
  /\ up
  /\ status[j] = "none" /\ \A i \in 1..(j - 1) : status[i] # "none"
  /\ Cardinality(Occupied) < QueueLimit
  /\ Set({j}, "queued")
  /\ seen' = seen \union {j}
  /\ UNCHANGED <<leased, fileVars, txVars, up>>

\* ----- the page: heartbeat(), or none for too long; the start lease -----

Heartbeat(p) ==
  /\ up
  /\ seen' = seen \union {j \in InStatus(ClientBound) : Page[j] = p}
  /\ UNCHANGED <<status, leased, fileVars, txVars, up>>

HeartbeatLost(p) ==
  /\ seen' = {j \in seen : Page[j] # p}
  /\ UNCHANGED <<status, leased, fileVars, txVars, up>>

LeaseEnds(j) ==
  /\ j \in leased /\ status[j] = "ready"
  /\ leased' = leased \ {j}
  /\ UNCHANGED <<status, seen, fileVars, txVars, up>>

\* ----- cancel() of one job and expire_client() of a page's jobs -----

\* cancel() refuses a job in processing and ignores one that ended, so both requests
\* change jobs that are bound to a client.  A row has a file name once it says uploading.
AdminReads(J) ==
  /\ up /\ admin.at = "none"
  /\ J \intersect InStatus(ClientBound) # {}
  /\ admin' = [at |-> "read", jobs |-> J \intersect InStatus(ClientBound),
               files |-> J \intersect InStatus({"uploading"})]
  /\ UNCHANGED <<status, seen, leased, fileVars, scan, loop, up>>

AdminCommits ==
  /\ admin.at = "read"
  /\ Set(admin.jobs, "ended")
  /\ leased' = leased \ admin.jobs
  /\ admin' = [admin EXCEPT !.at = "committed"]
  /\ UNCHANGED <<seen, fileVars, scan, loop, up>>

\* The transaction fails and the administrator or the page hears of it.
AdminAborts ==
  /\ admin.at = "read"
  /\ admin' = NoAdmin
  /\ UNCHANGED <<status, seen, leased, fileVars, scan, loop, up>>

\* The entry of a request in _upload_tasks; one that leaked names a request that is over.
Registered == {j \in Jobs : request[j] # "none"}

\* A registered request is asked to cancel; without one the file goes.  A removal that
\* fails ends the call, and the jobs behind it are not looked at.
AdminFollowsUp ==
  LET files == admin.files \ Registered
  IN  /\ admin.at = "committed"
      /\ \E done \in SUBSET admin.jobs :
           /\ done = admin.jobs \/ files \ done # {}
           /\ files \ done \subseteq Fallible
           /\ cancelling' = cancelling \union (done \intersect Registered)
           /\ part' = part \ (files \intersect done)
           /\ astray' = astray \union (files \ done)
      /\ admin' = NoAdmin
      /\ UNCHANGED <<status, seen, leased, request, worker, scan, loop, up>>

\* ----- _schedule_once_sync() -----

\* The places that expiring jobs leave go to the queued jobs, oldest first.
Plans(expire) ==
  LET free == MaxConcurrent - Cardinality(InStatus(Active) \ expire)
      waiting == InStatus({"queued"}) \ expire
  IN  /\ up /\ scan.at = "none"
      /\ scan' = [at |-> "read", expire |-> expire, hit |-> {},
                  files |-> expire \intersect InStatus({"uploading"}),
                  promote |-> {j \in waiting : Cardinality({i \in waiting : i < j}) < free}]
      /\ UNCHANGED <<status, seen, leased, fileVars, admin, loop, up>>

Stale == InStatus(ClientBound) \ seen
Late == InStatus({"ready"}) \ leased

\* Mutant: a lease that expired is not looked at.
SchedulerReadsNoLease == Plans(Stale)

\* Mutant: a job of a silent page does not expire.
SchedulerReadsNoPage == Plans(Late)

SchedulerReads == Plans(Stale \union Late)

\* Requests of expired jobs are asked to cancel before the commit.
SchedulerDecides ==
  LET registered == scan.expire \intersect Registered
  IN  /\ scan.at = "read"
      /\ scan' = [scan EXCEPT !.at = "decided", !.hit = registered]
      /\ cancelling' = cancelling \union registered
      /\ UNCHANGED <<status, seen, leased, part, request, worker, astray, admin,
                     loop, up>>

\* The transaction fails; _scheduler() logs it and the next tick tries again.
SchedulerAborts ==
  /\ scan.at = "decided"
  /\ scan' = NoScan
  /\ UNCHANGED <<status, seen, leased, fileVars, admin, loop, up>>

\* Rows are written first; the removal of a file that nobody receives may fail after that.
SchedulerCommits ==
  /\ scan.at = "decided"
  /\ status' = [j \in Jobs |-> IF j \in scan.expire THEN "ended"
                               ELSE IF j \in scan.promote THEN "ready" ELSE status[j]]
  /\ leased' = (leased \ scan.expire) \union scan.promote
  /\ \E left \in SUBSET ((scan.files \ scan.hit) \intersect Fallible) :
       /\ part' = part \ ((scan.files \ scan.hit) \ left)
       /\ astray' = astray \union left
  /\ scan' = NoScan
  /\ UNCHANGED <<seen, request, cancelling, worker, admin, loop, up>>

\* ----- receive(): the event loop -----

\* The request registers itself and reads the row.
ReceiveReads(j) ==
  /\ LoopFree /\ request[j] = "none"
  /\ status[j] # "none"
  /\ request' = [request EXCEPT ![j] = "starting"]
  /\ loop' = [op |-> "receive", job |-> j, applies |-> status[j] = "ready" /\ j \in leased]
  /\ UNCHANGED <<status, seen, leased, part, cancelling, worker, astray, admin,
                 scan, up>>

InLoop(op) == loop.op = op
LoopDone == loop' = NoLoop

\* The row does not allow it, or its transaction fails.
ReceiveRefuses ==
  /\ InLoop("receive")
  /\ request' = [request EXCEPT ![loop.job] = "none"]
  /\ cancelling' = cancelling \ {loop.job}
  /\ LoopDone
  /\ UNCHANGED <<status, seen, leased, part, worker, astray, admin, scan, up>>

\* The row says uploading and the file is created; or it cannot be, or the announced
\* length is wrong, and the request fails without a file; or its directory cannot be
\* made, which nothing handles, so that row and entry stay.
ReceiveStarts ==
  /\ InLoop("receive") /\ loop.applies
  /\ Set({loop.job}, "uploading")
  /\ leased' = leased \ {loop.job}
  /\ LoopDone
  /\ \/ /\ part' = part \union {loop.job}
        /\ request' = [request EXCEPT ![loop.job] = "streaming"]
        /\ UNCHANGED astray
     \/ /\ request' = [request EXCEPT ![loop.job] = "ending"]
        /\ UNCHANGED <<part, astray>>
     \/ /\ loop.job \in Fallible
        /\ request' = [request EXCEPT ![loop.job] = "leaked"]
        /\ astray' = astray \union {loop.job}
        /\ UNCHANGED part
  /\ UNCHANGED <<seen, cancelling, worker, admin, scan, up>>

Begin(op, j, S) ==
  /\ LoopFree
  /\ loop' = [op |-> op, job |-> j, applies |-> status[j] \in S]
  /\ UNCHANGED <<status, seen, leased, part, cancelling, worker, astray, admin,
                 scan, up>>

\* The whole file arrived.
BodyComplete(j) ==
  /\ request[j] = "streaming"
  /\ Begin("verify", j, {"uploading", "processing"})
  /\ UNCHANGED request

\* Too many bytes, too few, or a write error; or the request that could not start.
BodyFails(j) ==
  /\ request[j] \in {"streaming", "ending"}
  /\ Begin("fail", j, Capacity)
  /\ UNCHANGED request

\* The client disconnected, or the cancellation arrives at an await.
BodyStops(j) ==
  /\ request[j] = "streaming"
  /\ Begin("expire", j, {"uploading"})
  /\ UNCHANGED request

\* A worker's exception is stored by _process() on the event loop.
WorkerFails(j) ==
  /\ worker[j] = "failing"
  /\ Begin("fail", j, Capacity)
  /\ UNCHANGED request

\* _set_stage() commits and the processing task is created.
VerifyCommits ==
  /\ InLoop("verify")
  /\ IF loop.applies THEN Set({loop.job}, "processing") ELSE UNCHANGED status
  /\ request' = [request EXCEPT ![loop.job] = "none"]
  /\ cancelling' = cancelling \ {loop.job}
  /\ worker' = [worker EXCEPT ![loop.job] = "new"]
  /\ seen' = seen \ {loop.job}
  /\ LoopDone
  /\ UNCHANGED <<leased, part, astray, admin, scan, up>>

\* Its transaction fails, and the request goes on to _fail().
VerifyFails ==
  /\ InLoop("verify")
  /\ loop' = [op |-> "fail", job |-> loop.job, applies |-> status[loop.job] \in Capacity]
  /\ UNCHANGED <<status, seen, leased, fileVars, admin, scan, up>>

\* The row is written, but closing the file fails: no processing task is created.
CloseFails ==
  /\ InLoop("verify") /\ loop.job \in Fallible
  /\ IF loop.applies THEN Set({loop.job}, "processing") ELSE UNCHANGED status
  /\ request' = [request EXCEPT ![loop.job] = "leaked"]
  /\ cancelling' = cancelling \ {loop.job}
  /\ astray' = astray \union {loop.job}
  /\ seen' = seen \ {loop.job}
  /\ LoopDone
  /\ UNCHANGED <<leased, part, worker, admin, scan, up>>

\* A request is over: its finally closes the file and takes its entry out, unless
\* there is no such handler or closing fails.
RequestEnds(entries) ==
  /\ \E e \in entries : request' = [request EXCEPT ![loop.job] = e]
  /\ cancelling' = cancelling \ {loop.job}

\* _fail() and _expire_upload() commit; the caller removes the file.
EndCommits ==
  /\ InLoop("fail") \/ InLoop("expire")
  /\ IF loop.applies THEN Set({loop.job}, "ended") ELSE UNCHANGED status
  /\ LoopDone
  /\ IF worker[loop.job] = "failing"
     THEN /\ worker' = [worker EXCEPT ![loop.job] = "cleanup"]
          /\ UNCHANGED <<request, cancelling, part>>
     ELSE /\ RequestEnds(IF request[loop.job] = "streaming" /\ loop.job \in Fallible
                         THEN {"none", "leaked"} ELSE {"none"})
          /\ part' = part \ {loop.job}
          /\ UNCHANGED worker
  /\ UNCHANGED <<seen, leased, astray, admin, scan, up>>

\* Their transaction fails and the row stays, or the removal of the file behind it does:
\* the rest of the handler is skipped and only the finally blocks run.
EndFails ==
  /\ InLoop("fail") \/ InLoop("expire")
  /\ loop.job \in Fallible
  /\ UNCHANGED status \/ (loop.applies /\ Set({loop.job}, "ended"))
  /\ LoopDone
  /\ IF worker[loop.job] = "failing"
     THEN /\ worker' = [worker EXCEPT ![loop.job] = "cleanup"]
          /\ UNCHANGED <<request, cancelling>>
     ELSE /\ RequestEnds(IF request[loop.job] = "ending" THEN {"leaked"} ELSE {"none", "leaked"})
          /\ UNCHANGED worker
  /\ astray' = astray \union {loop.job}
  /\ UNCHANGED <<seen, leased, part, admin, scan, up>>

\* ----- _process(): a worker thread -----

WorkerGoes(j, from, to) ==
  /\ up
  /\ worker[j] = from
  /\ worker' = [worker EXCEPT ![j] = to]

\* The file is synced, unless that fails, and _process_sync() looks at the row once.
WorkerStarts(j) ==
  /\ \/ WorkerGoes(j, "new", "failing")
     \/ /\ j \in part
        /\ WorkerGoes(j, "new", IF status[j] = "processing" THEN "importing" ELSE "cleanup")
  /\ UNCHANGED <<status, seen, leased, part, request, cancelling, astray, txVars, up>>

\* status_callback: _set_stage() of normalizing or placing reads the row, then writes it.
StageReads(j) ==
  /\ status[j] = "processing"
  /\ WorkerGoes(j, "importing", "staging")
  /\ UNCHANGED <<status, seen, leased, part, request, cancelling, astray, txVars, up>>

StageCommits(j) ==
  /\ WorkerGoes(j, "staging", "importing")
  /\ Set({j}, "processing")
  /\ UNCHANGED <<seen, leased, part, request, cancelling, astray, txVars, up>>

\* import_staged() added the track or found it, and removed the staged file.
ImportSucceeds(j) ==
  /\ j \in part
  /\ WorkerGoes(j, "importing", "recording")
  /\ part' = part \ {j}
  /\ UNCHANGED <<status, seen, leased, request, cancelling, astray, txVars, up>>

\* Its finally removes the staged file, which may be what fails.
ImportFails(j) ==
  /\ \E from \in {"importing", "staging"} : WorkerGoes(j, from, "failing")
  /\ part' \in {part, part \ {j}}
  /\ UNCHANGED <<status, seen, leased, request, cancelling, astray, txVars, up>>

\* The result is written without looking at the status again.
WorkerRecords(j) ==
  /\ WorkerGoes(j, "recording", "cleanup")
  /\ Set({j}, "completed")
  /\ UNCHANGED <<seen, leased, part, request, cancelling, astray, txVars, up>>

RecordFails(j) ==
  /\ WorkerGoes(j, "recording", "failing")
  /\ UNCHANGED <<status, seen, leased, part, request, cancelling, astray, txVars, up>>

\* Mutant: the file of a job that is not processed any more stays.
WorkerEndsOnly(j) ==
  /\ WorkerGoes(j, "cleanup", "none")
  /\ UNCHANGED <<status, seen, leased, part, request, cancelling, astray, txVars, up>>

\* The last removal of the file, which may fail like the ones before it.
WorkerCleansUp(j) ==
  /\ WorkerGoes(j, "cleanup", "none")
  /\ \/ part' = part \ {j} /\ UNCHANGED astray
     \/ j \in Fallible /\ astray' = astray \union {j} /\ UNCHANGED part
  /\ UNCHANGED <<status, seen, leased, request, cancelling, txVars, up>>

\* ----- a crash, and _recover_interrupted_jobs() at the next start -----

\* What is not committed is lost; the rows and the files stay.
Crash ==
  /\ up
  /\ up' = FALSE
  /\ request' = [j \in Jobs |-> "none"]
  /\ cancelling' = {} /\ astray' = {}
  /\ worker' = [j \in Jobs |-> "none"]
  /\ admin' = NoAdmin /\ scan' = NoScan /\ loop' = NoLoop
  /\ UNCHANGED <<status, seen, leased, part>>

\* Mutant: only the jobs that wait for their page are expired.
RestartClientBoundOnly ==
  /\ ~up
  /\ up' = TRUE
  /\ Set(InStatus(ClientBound), "ended")
  /\ part' = {} /\ seen' = {} /\ leased' = {}
  /\ UNCHANGED <<request, cancelling, worker, astray, txVars>>

\* Every unfinished job expires and the temporary directories are emptied.
Restart ==
  /\ ~up
  /\ up' = TRUE
  /\ Set(Occupied, "ended")
  /\ part' = {} /\ seen' = {} /\ leased' = {}
  /\ UNCHANGED <<request, cancelling, worker, astray, txVars>>

-----------------------------------------------------------------------------
Pages == {Page[j] : j \in Jobs}

AdminStep ==
  \/ \E J \in Cancels : AdminReads(J)
  \/ AdminCommits \/ AdminAborts \/ AdminFollowsUp

SchedulerStep == SchedulerReads \/ SchedulerDecides \/ SchedulerCommits \/ SchedulerAborts

\* What the event loop does once it is inside a transaction.
LoopCommits ==
  \/ ReceiveRefuses \/ ReceiveStarts
  \/ VerifyCommits \/ VerifyFails \/ CloseFails
  \/ EndCommits \/ EndFails

WorkerStep(j) ==
  \/ WorkerStarts(j)
  \/ ImportSucceeds(j) \/ ImportFails(j) \/ WorkerRecords(j) \/ RecordFails(j)
  \/ WorkerFails(j) \/ WorkerCleansUp(j)

JobStep(j) ==
  \/ Reserve(j) \/ LeaseEnds(j) \/ ReceiveReads(j)
  \/ BodyComplete(j) \/ BodyFails(j) \/ BodyStops(j)
  \/ StageReads(j) \/ StageCommits(j) \/ WorkerStep(j)

Next ==
  \/ AdminStep \/ SchedulerStep \/ LoopCommits \/ Crash \/ Restart
  \/ \E p \in Pages : Heartbeat(p) \/ HeartbeatLost(p)
  \/ \E j \in Jobs : JobStep(j)

\* Threads and the event loop run what they are in.  The scheduler wakes every second, and
\* of its transactions, tried over and over, some succeed; clocks advance; an import reports
\* finitely many stages.  A cancelled request stops, and so does one that could not start.
\* Nothing obliges a client to send its file, and no handler is obliged to succeed.
Fairness ==
  /\ WF_vars(SchedulerReads \/ SchedulerDecides) /\ SF_vars(SchedulerCommits)
  /\ WF_vars(LoopCommits)
  /\ WF_vars(AdminCommits \/ AdminAborts \/ AdminFollowsUp)
  /\ \A j \in Jobs :
       /\ WF_vars(LeaseEnds(j)) /\ WF_vars(StageCommits(j))
       /\ SF_vars(WorkerStep(j))
       /\ SF_vars((j \in cancelling /\ BodyStops(j)) \/ (request[j] = "ending" /\ BodyFails(j)))

Safety == Init /\ [][Next]_vars
Spec == Safety /\ Fairness

-----------------------------------------------------------------------------
\* A temporary file belongs to a request that receives it or a worker that processes it:
\* no cancellation, expiry or failure leaves one behind while the service runs, except
\* where the error handling or the removal of that job failed itself (uploads.py:477-488, 526).
PartHasOwner ==
  up => \A j \in part \ astray :
          request[j] \in {"streaming", "ending"} \/ worker[j] # "none"

\* A job that occupies an upload place has the task that will free it, also when another
\* thread overwrote its row in between; a job without one is a job whose directory or
\* error handling failed (uploads.py:451, 482, 490, 521).
NoOrphanedSlot ==
  up => \A j \in Jobs \ astray :
    /\ status[j] = "uploading" => request[j] \in {"streaming", "ending"}
    /\ status[j] = "processing" => worker[j] # "none"

\* A place that a failed error handler left occupied, with no task to free it.
DeadPlace(j) == j \in astray /\ status[j] = "processing" /\ worker[j] = "none"

\* A job whose page is gone leaves the queue for good, also when its entry leaked or its
\* error handling failed while it was uploading; only a processed one may stay.
AbandonedJobEnds ==
  \A j \in Jobs :
    <>[]up /\ <>[](j \notin seen)
      => <>[](status[j] \in Terminal \union {"none"} \/ DeadPlace(j))

\* A waiting job does not wait for ever as long as no client stalls in its upload and no
\* failed error handler keeps a place occupied.
WaitingJobAdvances ==
  \A j \in Jobs :
    <>[]up
    /\ (\A i \in Jobs : []<>(request[i] \in {"none", "leaked"}
                             /\ ~(i \in astray /\ status[i] \in {"uploading", "processing"})))
      => (status[j] = "queued" ~> status[j] # "queued")

\* The public queue holds at most queue_limit unfinished jobs (SPEC 8).
QueueLimitKept == Cardinality(Occupied) <= QueueLimit
=============================================================================
