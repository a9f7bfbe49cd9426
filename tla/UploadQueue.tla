----------------------------- MODULE UploadQueue -----------------------------
(***************************************************************************)
(* The persistent upload queue of the recorder worker                      *)
(* (recorder/src/broker/UploadQueue.cpp): the jobs in memory, the state    *)
(* file they are saved to, the upload thread, the archive of recordings it *)
(* may evict from, and crashes and restarts of the worker.  An action is a *)
(* critical section of mutex_, or what the thread does between two of      *)
(* them.  BrokerUploader::upload is one step here, that may return what it *)
(* can return; module UploadPipeline opens it up.                          *)
(***************************************************************************)
EXTENDS Integers, Sequences, SequencesExt, FiniteSetsExt

CONSTANTS
  Files,        \* the recordings a run may see
  Size,         \* Size[f]: their sizes
  Limit,        \* archive_limit_gb, in the same unit
  MaxAttempts,  \* 7 in the source
  RetrySeconds, \* settings.retry_seconds, in ticks of the clock
  MaxBackoff,   \* 3600 seconds in the source, in ticks
  MaxStops,     \* bound: how often a run may crash or stop the worker
  None          \* no job, no recording

ASSUME QueueAssumption ==
  /\ \A f \in Files : Size[f] \in Nat
  /\ Limit \in Nat /\ MaxAttempts \in Nat /\ MaxStops \in Nat
  /\ RetrySeconds \in Nat /\ MaxBackoff \in Nat
  /\ None \notin Files

VARIABLES
  worker,    \* the worker process: "up", "stopping" (stop requested) or "down"
  jobs,      \* jobs_: the queue in memory
  disk,      \* the jobs in upload-queue.json
  active,    \* the thread's copy of the job it uploads, with the result once it has one
  archive,   \* the .mp4 files
  written,   \* their last_write_time, as a rank
  keep,      \* the recording whose record_stop has not yet enforced the limit
  outcome,   \* history: what became of each recording
  published, \* history: the recordings with a video at YouTube
  spared,    \* history: files the last eviction did not find, or could not remove
  stops      \* history: crashes and stops so far

queueVars ==
  <<worker, jobs, disk, active, archive, written, keep, outcome, published, spared, stops>>

-----------------------------------------------------------------------------
\* wait is next_attempt - unix_now(), 0 when the job is due.
Job == [file: Files, attempts: 0..MaxAttempts, wait: 0..MaxBackoff]
Result == {"success", "rejected", "retryable"}

FilesOf(queue) == {queue[i].file : i \in DOMAIN queue}
SizeOf(files) == MapThenSumSet(LAMBDA f : Size[f], files)

TypeOK ==
  /\ worker \in {"up", "stopping", "down"}
  /\ jobs \in Seq(Job) /\ disk \in Seq(Job)
  /\ active \in [job: Job, result: {"running"} \cup Result] \cup {None}
  /\ archive \subseteq Files
  /\ written \in [Files -> Nat]
  /\ keep \in Files \cup {None}
  /\ outcome \in [Files -> {"none", "local", "queued", "uploaded", "dropped"}]
  /\ published \subseteq Files
  /\ spared \in [missed: SUBSET Files, stuck: SUBSET Files]
  /\ stops \in 0..MaxStops

NoneSpared == [missed |-> {}, stuck |-> {}]

QueueInit ==
  /\ worker = "up"
  /\ jobs = <<>> /\ disk = <<>>
  /\ active = None /\ keep = None
  /\ archive = {} /\ written = [f \in Files |-> 0]
  /\ outcome = [f \in Files |-> "none"]
  /\ published = {}
  /\ spared = NoneSpared
  /\ stops = 0

-----------------------------------------------------------------------------
(* The IPC thread: record_stop *)

\* The recording is finished; it is enqueued when an upload was asked for and is enabled.
\* enqueue pushes the job, due now, and saves the file, in one critical section.
RecordStop(f) ==
  /\ worker = "up" /\ keep = None
  /\ outcome[f] = "none"
  /\ archive' = archive \cup {f}
  /\ written' = [written EXCEPT ![f] = 1 + Cardinality({g \in Files : outcome[g] # "none"})]
  /\ keep' = f
  /\ \/ /\ jobs' = Append(jobs, [file |-> f, attempts |-> 0, wait |-> 0])
        /\ disk' = jobs'
        /\ outcome' = [outcome EXCEPT ![f] = "queued"]
     \/ /\ outcome' = [outcome EXCEPT ![f] = "local"]
        /\ UNCHANGED <<jobs, disk>>
  /\ spared' = NoneSpared
  /\ UNCHANGED <<worker, active, published, stops>>

\* Variant: only the recording that was just made is protected.
ProtectedJustKept(f) == f = keep

Protected(f) == f = keep \/ f \in FilesOf(jobs)

\* The files that go before f, if any go.
Before(files, stuck, f) ==
  {g \in files \ stuck : written[g] < written[f] /\ ~Protected(g)}

\* Its turn comes when those before it have not made room.
Above(files, stuck, f) == SizeOf(files) - SizeOf(Before(files, stuck, f)) > Limit

\* Variant: stops at the first file it may not remove.
WithinLimitUntilProtected(files, stuck) ==
  {f \in files : \/ \E g \in files : Protected(g) /\ written[g] <= written[f]
                 \/ f \in stuck \/ ~Above(files, stuck, f)}

\* The files that stay: from the oldest on, a file goes while the total is above the
\* limit, unless it is protected or stuck, that is, its removal fails.
WithinLimit(files, stuck) ==
  {f \in files : Protected(f) \/ f \in stuck \/ ~Above(files, stuck, f)}

\* A file that cannot be looked at is passed over, and all are when the directory is not
\* found.
EnforceArchiveLimit ==
  /\ worker = "up" /\ keep # None
  /\ \E listed \in SUBSET archive : \E stuck \in SUBSET listed :
       /\ \A f \in stuck : ~Protected(f) /\ Above(listed, stuck, f)
       /\ archive' = (archive \ listed) \cup WithinLimit(listed, stuck)
       /\ spared' = [missed |-> archive \ listed, stuck |-> stuck]
  /\ keep' = None
  /\ UNCHANGED <<worker, jobs, disk, active, written, outcome, published, stops>>

-----------------------------------------------------------------------------
(* The upload thread *)

Due(i) == jobs[i].wait = 0

\* Variant: the job is erased before it is known how the upload ended.
PickErasing ==
  /\ worker = "up" /\ active = None
  /\ \E i \in DOMAIN jobs :
       /\ Due(i) /\ \A j \in 1..(i - 1) : ~Due(j)
       /\ active' = [job |-> jobs[i], result |-> "running"]
       /\ jobs' = RemoveAt(jobs, i)
  /\ disk' = jobs'
  /\ UNCHANGED <<worker, archive, written, keep, outcome, published, spared, stops>>

\* Copies the first job that is due.
Pick ==
  /\ worker = "up" /\ active = None
  /\ \E i \in DOMAIN jobs :
       /\ Due(i) /\ \A j \in 1..(i - 1) : ~Due(j)
       /\ active' = [job |-> jobs[i], result |-> "running"]
  /\ UNCHANGED <<worker, jobs, disk, archive, written, keep, outcome, published, spared, stops>>

\* upload() returns, without the lock.  Success means that the video exists; another
\* result does not mean that it does not.  A file that is gone is rejected.
UploadReturns ==
  /\ worker # "down" /\ active # None /\ active.result = "running"
  /\ \E result \in Result :
       /\ active.job.file \notin archive => result = "rejected"
       /\ active' = [active EXCEPT !.result = result]
       /\ \/ published' = published \cup {active.job.file}
          \/ result # "success" /\ UNCHANGED published
  /\ UNCHANGED <<worker, jobs, disk, archive, written, keep, outcome, spared, stops>>

\* min(3600, retry_seconds * 2^min(attempts, 6))
Backoff(attempts) == Min({MaxBackoff, RetrySeconds * 2^Min({attempts, 6})})

\* Variant: the attempt is not counted.
RetriedUncounted(job) == [job EXCEPT !.wait = Backoff(job.attempts + 1)]

Retried(job) == [job EXCEPT !.attempts = @ + 1, !.wait = Backoff(job.attempts + 1)]

GivesUp(job) == job.attempts >= MaxAttempts

\* Variant: the file is saved only when a job is erased.
CommitSavingLess ==
  /\ worker # "down" /\ active # None /\ active.result \in Result
  /\ \E i \in DOMAIN jobs :
       /\ jobs[i].file = active.job.file
       /\ IF active.result = "retryable" /\ ~GivesUp(jobs[i])
          THEN /\ jobs' = [jobs EXCEPT ![i] = Retried(jobs[i])]
               /\ UNCHANGED <<outcome, disk>>
          ELSE /\ jobs' = RemoveAt(jobs, i)
               /\ disk' = jobs'
               /\ outcome' = [outcome EXCEPT ![active.job.file] =
                                IF active.result = "success" THEN "uploaded" ELSE "dropped"]
  /\ active' = None
  /\ UNCHANGED <<worker, archive, written, keep, published, spared, stops>>

\* The result is recorded: the job is erased when it succeeded, cannot succeed or was
\* tried too often, else it waits for its next attempt.  The file is saved in any case.
Commit ==
  /\ worker # "down" /\ active # None /\ active.result \in Result
  /\ \E i \in DOMAIN jobs :
       /\ jobs[i].file = active.job.file
       /\ LET retried == active.result = "retryable" /\ ~GivesUp(jobs[i])
              success == active.result = "success"
          IN IF retried
             THEN /\ jobs' = [jobs EXCEPT ![i] = Retried(jobs[i])]
                  /\ UNCHANGED outcome
             ELSE /\ jobs' = RemoveAt(jobs, i)
                  /\ outcome' = [outcome EXCEPT ![active.job.file] =
                                   IF success THEN "uploaded" ELSE "dropped"]
  /\ disk' = jobs'
  /\ active' = None
  /\ UNCHANGED <<worker, archive, written, keep, published, spared, stops>>

-----------------------------------------------------------------------------
(* The process and the clock *)

\* ~Application stops the IPC server first, then the queue: the thread ends its upload.
RequestStop ==
  /\ worker = "up" /\ keep = None /\ stops < MaxStops
  /\ worker' = "stopping"
  /\ stops' = stops + 1
  /\ UNCHANGED <<jobs, disk, active, archive, written, keep, outcome, published, spared>>

Exit ==
  /\ worker = "stopping" /\ active = None
  /\ worker' = "down"
  /\ jobs' = <<>>
  /\ UNCHANGED <<disk, active, archive, written, keep, outcome, published, spared, stops>>

Crash ==
  /\ worker # "down" /\ stops < MaxStops
  /\ worker' = "down"
  /\ jobs' = <<>> /\ active' = None /\ keep' = None
  /\ stops' = stops + 1
  /\ UNCHANGED <<disk, archive, written, outcome, published, spared>>

\* start() loads the file.
Start ==
  /\ worker = "down"
  /\ worker' = "up"
  /\ jobs' = disk
  /\ UNCHANGED <<disk, active, archive, written, keep, outcome, published, spared, stops>>

Later(queue) == [i \in DOMAIN queue |-> [queue[i] EXCEPT !.wait = IF @ = 0 THEN 0 ELSE @ - 1]]

Tick ==
  /\ \E i \in DOMAIN disk : disk[i].wait > 0
  /\ jobs' = Later(jobs) /\ disk' = Later(disk)
  /\ UNCHANGED <<worker, active, archive, written, keep, outcome, published, spared, stops>>

Next ==
  \/ \E f \in Files : RecordStop(f)
  \/ EnforceArchiveLimit
  \/ Pick \/ UploadReturns \/ Commit
  \/ RequestStop \/ Exit \/ Crash \/ Start \/ Tick

\* Every thread runs, an upload ends (every request has a timeout), time passes and the
\* game, which launches the worker, is started again.
Fairness ==
  /\ WF_queueVars(EnforceArchiveLimit) /\ WF_queueVars(Pick)
  /\ WF_queueVars(UploadReturns) /\ WF_queueVars(Commit)
  /\ WF_queueVars(Exit) /\ WF_queueVars(Start) /\ WF_queueVars(Tick)

Spec == QueueInit /\ [][Next]_queueVars /\ Fairness

-----------------------------------------------------------------------------
(* Properties *)

\* Whenever mutex_ is free, a crash would lose nothing: the file holds the queue
\* (UploadQueue.cpp:39-42, 75), and the job being uploaded is still in it, so that
\* jobs_.size() - 1 in status() (line 45) does not wrap around.
SavedWhenUnlocked ==
  worker # "down" => /\ disk = jobs
                     /\ active # None => active.job.file \in FilesOf(jobs)

\* The recording of a queued job is never evicted, whichever record_stop enforces the
\* limit and however often the worker was restarted (UploadQueue.cpp:51-67).
QueuedFilesKept == FilesOf(disk) \subseteq archive

\* After the limit was enforced, the files it has found are within it, or those that stay
\* are protected or could not be removed: neither a protected file nor one that is stuck
\* keeps others from going, and one that is stuck still counts (UploadQueue.cpp:54-66).
LimitEnforced ==
  [][keep # None /\ keep' = None /\ worker' = worker =>
       LET found == archive' \ spared'.missed
       IN \/ SizeOf(found) <= Limit
          \/ \A f \in found : Protected(f) \/ f \in spared'.stuck]_queueVars

\* Every job leaves the queue at last (UploadQueue.cpp:68-78).
QueueDrains == \A f \in Files : f \in FilesOf(disk) ~> f \notin FilesOf(disk)

\* The queue implements the ledger: a job is queued as long as the file holds it.
LedgerStatus ==
  [f \in Files |-> IF f \in FilesOf(disk) THEN "queued"
                   ELSE IF outcome[f] \in {"uploaded", "dropped"} THEN outcome[f]
                   ELSE "none"]

Ledger == INSTANCE UploadLedger WITH status <- LedgerStatus

LedgerSpec == Ledger!Spec
=============================================================================
