-------------------------- MODULE UploadQueueProofs --------------------------
(***************************************************************************)
(* Proofs about the upload queue of the worker, for any number of          *)
(* recordings, attempts, crashes and stops, any times, sizes and limit.    *)
(***************************************************************************)
EXTENDS UploadQueue, SequenceTheorems, FiniteSetTheorems, WellFoundedInduction, TLAPS

Active == [job: Job, result: {"running"} \cup Result]

\* The types of everything but the archive, which comes with the limit.
Types ==
  /\ worker \in {"up", "stopping", "down"}
  /\ jobs \in Seq(Job) /\ disk \in Seq(Job)
  /\ active \in Active \cup {None}
  /\ keep \in Files \cup {None}
  /\ outcome \in [Files -> {"none", "local", "queued", "uploaded", "dropped"}]
  /\ published \subseteq Files
  /\ stops \in 0..MaxStops

\* A recording has one job at most.
Distinct(queue) == \A i, j \in DOMAIN queue : queue[i].file = queue[j].file => i = j

\* What became of a recording is told by the file, and a success by YouTube.
Accounted ==
  /\ \A f \in Files : outcome[f] = "queued" <=> f \in FilesOf(disk)
  /\ active # None /\ active.result = "success" => active.job.file \in published

\* The inductive invariant.
QueueSafe ==
  /\ Types /\ SavedWhenUnlocked /\ Distinct(disk) /\ Accounted /\ QueuedFilesKept
  /\ worker = "down" => active = None

-----------------------------------------------------------------------------
(* Queues *)

LEMMA AppendFiles ==
  ASSUME NEW queue \in Seq(Job), NEW job \in Job
  PROVE  /\ Append(queue, job) \in Seq(Job)
         /\ FilesOf(Append(queue, job)) = FilesOf(queue) \cup {job.file}
         /\ Distinct(queue) /\ job.file \notin FilesOf(queue) => Distinct(Append(queue, job))
<1>1. /\ Append(queue, job) \in Seq(Job) /\ Len(Append(queue, job)) = Len(queue) + 1
      /\ \A i \in 1..Len(queue) : Append(queue, job)[i] = queue[i]
      /\ Append(queue, job)[Len(queue) + 1] = job
  BY AppendProperties
<1>2. /\ DOMAIN Append(queue, job) = 1..(Len(queue) + 1) /\ DOMAIN queue = 1..Len(queue)
      /\ Len(queue) \in Nat
  BY <1>1
<1> QED
  BY <1>1, <1>2 DEF FilesOf, Distinct

LEMMA RemoveElements ==
  ASSUME NEW queue \in Seq(Job), NEW i \in DOMAIN queue
  PROVE  /\ RemoveAt(queue, i) \in Seq(Job)
         /\ DOMAIN RemoveAt(queue, i) = 1..(Len(queue) - 1)
         /\ \A k \in 1..(Len(queue) - 1) :
              RemoveAt(queue, i)[k] = queue[IF k < i THEN k ELSE k + 1]
<1> DEFINE front == SubSeq(queue, 1, i - 1)
           back == SubSeq(queue, i + 1, Len(queue))
<1>1. Len(queue) \in Nat /\ i \in 1..Len(queue)
  OBVIOUS
<1>2. front \in Seq(Job) /\ Len(front) = i - 1 /\ \A k \in 1..(i - 1) : front[k] = queue[k]
  BY <1>1
<1>3. /\ back \in Seq(Job) /\ Len(back) = Len(queue) - i
      /\ \A k \in 1..(Len(queue) - i) : back[k] = queue[i + k]
  BY <1>1
<1>4. RemoveAt(queue, i) = front \o back
  BY DEF RemoveAt
<1> HIDE DEF front, back
<1>5. /\ front \o back \in Seq(Job) /\ Len(front \o back) = Len(queue) - 1
      /\ \A k \in 1..(Len(queue) - 1) :
           (front \o back)[k] = IF k <= i - 1 THEN front[k] ELSE back[k - (i - 1)]
  <2>1. /\ front \o back \in Seq(Job) /\ Len(front \o back) = Len(front) + Len(back)
        /\ \A k \in 1..(Len(front) + Len(back)) :
             (front \o back)[k] = IF k <= Len(front) THEN front[k] ELSE back[k - Len(front)]
    BY <1>2, <1>3, ConcatProperties
  <2>2. Len(front) = i - 1 /\ Len(front) + Len(back) = Len(queue) - 1
    BY <1>1, <1>2, <1>3
  <2> QED
    BY <2>1, <2>2
<1>6. ASSUME NEW k \in 1..(Len(queue) - 1)
      PROVE  (front \o back)[k] = queue[IF k < i THEN k ELSE k + 1]
  <2>1. k \in Int /\ i \in Int /\ Len(queue) \in Int /\ 1 <= k /\ k <= Len(queue) - 1
    BY <1>1, <1>6
  <2>2. CASE k < i
    <3>1. (front \o back)[k] = front[k] /\ k \in 1..(i - 1)
      BY <1>5, <1>6, <2>1, <2>2
    <3> QED
      BY <1>2, <2>2, <3>1
  <2>3. CASE ~(k < i)
    <3>1. (front \o back)[k] = back[k - (i - 1)] /\ k - (i - 1) \in 1..(Len(queue) - i)
      BY <1>5, <1>6, <2>1, <2>3
    <3>2. back[k - (i - 1)] = queue[i + (k - (i - 1))]
      BY <1>3, <3>1
    <3>3. i + (k - (i - 1)) = k + 1
      BY <2>1
    <3> QED
      BY <2>3, <3>1, <3>2, <3>3
  <2> QED
    BY <2>2, <2>3
<1> QED
  BY <1>1, <1>4, <1>5, <1>6

LEMMA RemoveFiles ==
  ASSUME NEW queue \in Seq(Job), NEW i \in DOMAIN queue, Distinct(queue)
  PROVE  /\ FilesOf(RemoveAt(queue, i)) = FilesOf(queue) \ {queue[i].file}
         /\ Distinct(RemoveAt(queue, i))
<1> DEFINE rest == RemoveAt(queue, i)
           old(k) == IF k < i THEN k ELSE k + 1
<1>1. /\ DOMAIN rest = 1..(Len(queue) - 1)
      /\ \A k \in DOMAIN rest : rest[k] = queue[old(k)]
  BY RemoveElements
<1>2. Len(queue) \in Nat /\ DOMAIN queue = 1..Len(queue) /\ i \in 1..Len(queue)
  OBVIOUS
<1>3. \A k \in DOMAIN rest : old(k) \in DOMAIN queue /\ old(k) # i
  BY <1>1, <1>2
<1>4. \A k \in DOMAIN queue : k # i => \E m \in DOMAIN rest : old(m) = k
  <2> SUFFICES ASSUME NEW k \in DOMAIN queue, k # i
               PROVE  \E m \in DOMAIN rest : old(m) = k
    OBVIOUS
  <2>1. CASE k < i
    BY <1>1, <1>2, <2>1
  <2>2. CASE k > i
    <3>1. k - 1 \in DOMAIN rest /\ old(k - 1) = k
      BY <1>1, <1>2, <2>2
    <3> QED
      BY <3>1
  <2> QED
    BY <1>2, <2>1, <2>2
<1>5. \A k, m \in DOMAIN rest : old(k) = old(m) => k = m
  BY <1>1, <1>2
<1> HIDE DEF rest, old
<1>6. Distinct(rest)
  BY <1>1, <1>3, <1>5 DEF Distinct
<1>7. FilesOf(rest) = FilesOf(queue) \ {queue[i].file}
  BY <1>1, <1>3, <1>4 DEF FilesOf, Distinct
<1> QED
  BY <1>6, <1>7 DEF rest

\* A job that stays with its file, wherever it is changed.
LEMMA SameFiles ==
  ASSUME NEW queue \in Seq(Job), NEW other,
         DOMAIN other = DOMAIN queue,
         \A i \in DOMAIN queue : other[i].file = queue[i].file
  PROVE  FilesOf(other) = FilesOf(queue) /\ (Distinct(queue) => Distinct(other))
BY DEF FilesOf, Distinct

-----------------------------------------------------------------------------
(* Waiting *)

LEMMA PowerOfTwo == \A n \in Nat : 2^n \in Nat
<1> SUFFICES ASSUME NEW n \in Nat PROVE 2^n \in Nat
  OBVIOUS
<1>1. IsFiniteSet(1..n) /\ Cardinality(1..n) = n
  BY FS_Interval
<1>2. IsFiniteSet(SUBSET (1..n)) /\ Cardinality(SUBSET (1..n)) = 2^n
  BY <1>1, FS_SUBSET
<1> QED
  BY <1>2, FS_CardinalityType

LEMMA MinOfTwo ==
  ASSUME NEW a \in Nat, NEW b \in Nat
  PROVE  Min({a, b}) \in Nat /\ Min({a, b}) <= a
<1>1. \E x \in {a, b} : \A y \in {a, b} : x =< y
  <2>1. CASE a <= b
    BY <2>1
  <2>2. CASE b <= a
    BY <2>2
  <2> QED
    BY <2>1, <2>2
<1>2. Min({a, b}) \in {a, b} /\ \A y \in {a, b} : Min({a, b}) =< y
  BY <1>1 DEF Min
<1> QED
  BY <1>2

LEMMA BackoffType ==
  ASSUME NEW attempts \in Nat
  PROVE  Backoff(attempts) \in 0..MaxBackoff
<1>1. 2^Min({attempts, 6}) \in Nat
  BY PowerOfTwo, MinOfTwo
<1>2. RetrySeconds * 2^Min({attempts, 6}) \in Nat
  BY <1>1, QueueAssumption
<1> DEFINE wait == RetrySeconds * 2^Min({attempts, 6})
<1>3. Backoff(attempts) = Min({MaxBackoff, wait})
  BY DEF Backoff
<1> HIDE DEF wait
<1>4. wait \in Nat /\ MaxBackoff \in Nat
  BY <1>2, QueueAssumption DEF wait
<1> QED
  BY <1>3, <1>4, MinOfTwo

LEMMA RetriedType ==
  ASSUME NEW job \in Job, ~GivesUp(job)
  PROVE  Retried(job) \in Job /\ Retried(job).file = job.file
<1>1. job.attempts \in Nat /\ job.attempts + 1 \in 0..MaxAttempts
  BY QueueAssumption DEF Job, GivesUp
<1>2. Backoff(job.attempts + 1) \in 0..MaxBackoff
  BY <1>1, BackoffType
<1> QED
  BY <1>1, <1>2 DEF Retried, Job

LEMMA LaterType ==
  ASSUME NEW queue \in Seq(Job)
  PROVE  /\ Later(queue) \in Seq(Job)
         /\ DOMAIN Later(queue) = DOMAIN queue
         /\ \A i \in DOMAIN queue : Later(queue)[i].file = queue[i].file
<1> DEFINE later(i) == [queue[i] EXCEPT !.wait = IF @ = 0 THEN 0 ELSE @ - 1]
<1>1. ASSUME NEW i \in DOMAIN queue
      PROVE  later(i) \in Job /\ later(i).file = queue[i].file
  <2>1. queue[i] \in Job
    OBVIOUS
  <2>2. (IF queue[i].wait = 0 THEN 0 ELSE queue[i].wait - 1) \in 0..MaxBackoff
    BY <2>1, QueueAssumption DEF Job
  <2> QED
    BY <2>1, <2>2 DEF Job
<1>2. Later(queue) = [i \in DOMAIN queue |-> later(i)]
  BY DEF Later
<1> HIDE DEF later
<1>3. Len(queue) \in Nat /\ DOMAIN queue = 1..Len(queue)
  OBVIOUS
<1>4. Later(queue) \in [1..Len(queue) -> Job]
  BY <1>1, <1>2, <1>3
<1> QED
  BY <1>1, <1>2, <1>3, <1>4

-----------------------------------------------------------------------------
(* The invariant *)

LEMMA InitSafe == QueueInit => QueueSafe
<1> SUFFICES ASSUME QueueInit PROVE QueueSafe
  OBVIOUS
<1>1. Types
  BY QueueAssumption DEF QueueInit, Types
<1>2. FilesOf(disk) = {}
  BY DEF QueueInit, FilesOf
<1>3. SavedWhenUnlocked /\ Distinct(disk) /\ Accounted /\ QueuedFilesKept
  BY <1>2 DEF QueueInit, SavedWhenUnlocked, Distinct, Accounted, QueuedFilesKept
<1> QED
  BY <1>1, <1>3 DEF QueueInit, QueueSafe

LEMMA RecordStopSafe ==
  ASSUME QueueSafe, NEW f \in Files, RecordStop(f)
  PROVE  QueueSafe' /\ (LedgerStatus' = LedgerStatus \/ Ledger!Enqueue(f))
<1> DEFINE job == [file |-> f, attempts |-> 0, wait |-> 0]
<1>0. /\ worker = "up" /\ worker' = worker /\ active' = active /\ published' = published
      /\ stops' = stops /\ keep' = f /\ outcome[f] = "none" /\ disk = jobs
      /\ archive' = archive \cup {f}
  BY DEF RecordStop, QueueSafe, SavedWhenUnlocked
<1>1. f \notin FilesOf(disk) /\ disk \in Seq(Job)
  BY <1>0 DEF QueueSafe, Types, Accounted
<1>2. CASE jobs' = Append(jobs, job) /\ disk' = jobs'
           /\ outcome' = [outcome EXCEPT ![f] = "queued"]
  <2>1. job \in Job /\ job.file = f
    BY QueueAssumption DEF Job
  <2> HIDE DEF job
  <2>2. /\ disk' \in Seq(Job) /\ FilesOf(disk') = FilesOf(disk) \cup {f}
        /\ Distinct(disk') /\ jobs' = disk'
    BY <1>0, <1>1, <1>2, <2>1, AppendFiles DEF QueueSafe
  <2>3. FilesOf(jobs) \subseteq FilesOf(jobs')
    BY <1>0, <2>2
  <2>4. Types'
    BY <1>0, <1>2, <2>2 DEF QueueSafe, Types
  <2>5. SavedWhenUnlocked' /\ Accounted' /\ QueuedFilesKept'
    BY <1>0, <1>2, <2>2, <2>3
       DEF QueueSafe, Types, SavedWhenUnlocked, Accounted, QueuedFilesKept
  <2>6. Ledger!Enqueue(f)
    BY <1>0, <1>1, <1>2, <2>2 DEF Ledger!Enqueue, LedgerStatus, QueueSafe, Types
  <2> QED
    BY <1>0, <2>2, <2>4, <2>5, <2>6 DEF QueueSafe
<1>3. CASE outcome' = [outcome EXCEPT ![f] = "local"] /\ UNCHANGED <<jobs, disk>>
  <2>1. Types' /\ SavedWhenUnlocked' /\ Distinct(disk)' /\ Accounted'
    BY <1>0, <1>1, <1>3 DEF QueueSafe, Types, SavedWhenUnlocked, Distinct, Accounted
  <2>3. QueuedFilesKept'
    BY <1>0, <1>3 DEF QueueSafe, QueuedFilesKept, FilesOf
  <2>2. LedgerStatus' = LedgerStatus
    BY <1>0, <1>3 DEF LedgerStatus, QueueSafe, Types
  <2> QED
    BY <1>0, <2>1, <2>2, <2>3 DEF QueueSafe
<1> QED
  BY <1>2, <1>3 DEF RecordStop

\* The result of a job: it stays with its file and waits, or leaves the queue.
LEMMA CommitSafe ==
  ASSUME QueueSafe, Commit
  PROVE  QueueSafe' /\ (LedgerStatus' = LedgerStatus \/ \E f \in Files : Ledger!Settle(f))
<1>0. /\ worker # "down" /\ worker' = worker /\ active # None /\ active' = None
      /\ published' = published /\ stops' = stops /\ keep' = keep /\ disk' = jobs'
      /\ disk = jobs /\ disk \in Seq(Job) /\ Distinct(disk) /\ archive' = archive
  BY DEF Commit, QueueSafe, Types, SavedWhenUnlocked
<1>1. PICK i \in DOMAIN jobs :
        /\ jobs[i].file = active.job.file
        /\ \/ /\ active.result = "retryable" /\ ~GivesUp(jobs[i])
              /\ jobs' = [jobs EXCEPT ![i] = Retried(jobs[i])]
              /\ outcome' = outcome
           \/ /\ jobs' = RemoveAt(jobs, i)
              /\ outcome' = [outcome EXCEPT ![active.job.file] =
                               IF active.result = "success" THEN "uploaded" ELSE "dropped"]
  BY DEF Commit
<1>2. jobs[i] \in Job /\ active.job.file \in Files /\ active.job.file \in FilesOf(disk)
  <2>1. jobs \in Seq(Job)
    BY <1>0
  <2>2. jobs[i] \in Job
    BY <2>1
  <2>3. active.job.file \in Files
    BY <1>1, <2>2 DEF Job
  <2>4. active.job.file \in FilesOf(disk)
    BY <1>0, <1>1 DEF FilesOf
  <2> QED
    BY <2>2, <2>3, <2>4
<1>3. CASE jobs' = [jobs EXCEPT ![i] = Retried(jobs[i])] /\ ~GivesUp(jobs[i])
           /\ outcome' = outcome
  <2>1. /\ jobs' \in Seq(Job) /\ DOMAIN jobs' = DOMAIN jobs
        /\ \A k \in DOMAIN jobs : jobs'[k].file = jobs[k].file
    BY <1>0, <1>2, <1>3, RetriedType
  <2>2. FilesOf(disk') = FilesOf(disk) /\ Distinct(disk')
    BY <1>0, <2>1, SameFiles
  <2>3. Types' /\ SavedWhenUnlocked' /\ Accounted' /\ QueuedFilesKept'
    BY <1>0, <1>3, <2>1, <2>2
       DEF QueueSafe, Types, SavedWhenUnlocked, Accounted, QueuedFilesKept
  <2>4. LedgerStatus' = LedgerStatus
    BY <1>3, <2>2 DEF LedgerStatus
  <2> QED
    BY <1>0, <2>2, <2>3, <2>4 DEF QueueSafe
<1>4. CASE jobs' = RemoveAt(jobs, i)
           /\ outcome' = [outcome EXCEPT ![active.job.file] =
                            IF active.result = "success" THEN "uploaded" ELSE "dropped"]
  <2> DEFINE f == active.job.file
  <2>1. /\ jobs' \in Seq(Job) /\ FilesOf(disk') = FilesOf(disk) \ {f} /\ Distinct(disk')
    BY <1>0, <1>1, <1>4, RemoveElements, RemoveFiles
  <2>2. /\ outcome' \in [Files -> {"none", "local", "queued", "uploaded", "dropped"}]
        /\ \A g \in Files : g # f => outcome'[g] = outcome[g]
        /\ outcome'[f] = IF active.result = "success" THEN "uploaded" ELSE "dropped"
    BY <1>2, <1>4 DEF QueueSafe, Types
  <2>3. active.result = "success" => f \in published
    BY <1>0 DEF QueueSafe, Accounted
  <2>4. Types' /\ SavedWhenUnlocked' /\ QueuedFilesKept'
    BY <1>0, <2>1, <2>2 DEF QueueSafe, Types, SavedWhenUnlocked, QueuedFilesKept
  <2>5. Accounted'
    BY <1>0, <2>1, <2>2 DEF QueueSafe, Accounted
  <2>6. Ledger!Settle(f)
    <3>1. LedgerStatus[f] = "queued"
      BY <1>2 DEF LedgerStatus
    <3>2. LedgerStatus' = [LedgerStatus EXCEPT ![f] = outcome'[f]]
      BY <1>2, <2>1, <2>2 DEF LedgerStatus
    <3> QED
      BY <1>0, <2>2, <2>3, <3>1, <3>2 DEF Ledger!Settle
  <2> QED
    BY <1>0, <1>2, <2>1, <2>4, <2>5, <2>6 DEF QueueSafe
<1> QED
  BY <1>1, <1>3, <1>4

LEMMA UploadReturnsSafe ==
  ASSUME QueueSafe, UploadReturns
  PROVE  /\ QueueSafe' /\ LedgerStatus' = LedgerStatus
         /\ published' = published \/ \E f \in Files : Ledger!Publish(f)
<1>0. /\ worker # "down" /\ active # None /\ active \in Active
      /\ active.job.file \in Files /\ active.job.file \in FilesOf(disk)
      /\ UNCHANGED <<worker, jobs, disk, archive, keep, outcome, stops>>
  BY DEF UploadReturns, QueueSafe, Types, SavedWhenUnlocked, Active, Job
<1>1. PICK result \in Result :
        /\ active' = [active EXCEPT !.result = result]
        /\ \/ published' = published \cup {active.job.file}
           \/ result # "success" /\ published' = published
  BY DEF UploadReturns
<1>2. active' \in Active /\ active'.job = active.job /\ active'.result = result
  BY <1>0, <1>1 DEF Active
<1>3. Types'
  BY <1>0, <1>1, <1>2 DEF QueueSafe, Types
<1>4. SavedWhenUnlocked' /\ Distinct(disk)' /\ Accounted' /\ QueuedFilesKept'
  BY <1>0, <1>1, <1>2
     DEF QueueSafe, SavedWhenUnlocked, Distinct, Accounted, FilesOf, QueuedFilesKept
<1>5. LedgerStatus' = LedgerStatus
  BY <1>0 DEF LedgerStatus, FilesOf
<1>6. published' = published \/ Ledger!Publish(active.job.file)
  BY <1>0, <1>1, <1>5 DEF Ledger!Publish, LedgerStatus
<1> QED
  BY <1>0, <1>3, <1>4, <1>5, <1>6 DEF QueueSafe

\* The other steps do not show in the ledger.
LEMMA OtherSafe ==
  ASSUME QueueSafe,
         \/ EnforceArchiveLimit \/ Pick \/ RequestStop \/ Exit \/ Crash \/ Start \/ Tick
         \/ UNCHANGED queueVars
  PROVE  QueueSafe' /\ LedgerStatus' = LedgerStatus /\ published' = published
<1>0. published' = published /\ outcome' = outcome
  BY DEF EnforceArchiveLimit, Pick, RequestStop, Exit, Crash, Start, Tick, queueVars
<1>1. CASE Tick
  <2>1. /\ disk' \in Seq(Job) /\ jobs' \in Seq(Job)
        /\ DOMAIN disk' = DOMAIN disk
        /\ \A i \in DOMAIN disk : disk'[i].file = disk[i].file
        /\ DOMAIN jobs' = DOMAIN jobs
        /\ \A i \in DOMAIN jobs : jobs'[i].file = jobs[i].file
    BY <1>1, LaterType DEF Tick, QueueSafe, Types
  <2>2. /\ FilesOf(disk') = FilesOf(disk) /\ FilesOf(jobs') = FilesOf(jobs)
        /\ Distinct(disk')
    BY <2>1, SameFiles DEF QueueSafe, Types
  <2>3. UNCHANGED <<worker, active, archive, keep, stops>> /\ (disk = jobs => disk' = jobs')
    BY <1>1 DEF Tick
  <2>4. Types' /\ SavedWhenUnlocked' /\ Accounted' /\ QueuedFilesKept'
    BY <1>0, <2>1, <2>2, <2>3
       DEF QueueSafe, Types, SavedWhenUnlocked, Accounted, QueuedFilesKept
  <2>5. LedgerStatus' = LedgerStatus
    BY <1>0, <2>2 DEF LedgerStatus
  <2> QED
    BY <1>0, <2>2, <2>3, <2>4, <2>5 DEF QueueSafe
<1>2. CASE Pick
  <2>1. PICK i \in DOMAIN jobs : active' = [job |-> jobs[i], result |-> "running"]
    BY <1>2 DEF Pick
  <2>2. jobs[i] \in Job /\ jobs[i].file \in FilesOf(jobs)
    BY DEF QueueSafe, Types, FilesOf
  <2>3. /\ active' \in Active /\ active'.result # "success"
        /\ active'.job.file \in FilesOf(jobs)
    BY <2>1, <2>2 DEF Active
  <2>4. UNCHANGED <<worker, jobs, disk, archive, keep, stops>> /\ worker = "up"
    BY <1>2 DEF Pick
  <2>5. Types' /\ SavedWhenUnlocked' /\ Distinct(disk)' /\ Accounted' /\ QueuedFilesKept'
    BY <1>0, <2>3, <2>4
       DEF QueueSafe, Types, SavedWhenUnlocked, Distinct, Accounted, FilesOf, QueuedFilesKept
  <2> QED
    BY <1>0, <2>4, <2>5 DEF QueueSafe, LedgerStatus, FilesOf
<1>3. CASE EnforceArchiveLimit \/ RequestStop \/ Exit \/ Crash \/ Start \/ UNCHANGED queueVars
  <2>1. disk' = disk
    BY <1>3 DEF EnforceArchiveLimit, RequestStop, Exit, Crash, Start, queueVars
  <2>2. stops' \in 0..MaxStops
    BY <1>3, QueueAssumption
       DEF EnforceArchiveLimit, RequestStop, Exit, Crash, Start, queueVars, QueueSafe, Types
  <2>3. Types'
    <3>1. worker' \in {"up", "stopping", "down"} /\ keep' \in Files \cup {None}
      BY <1>3 DEF EnforceArchiveLimit, RequestStop, Exit, Crash, Start, queueVars,
                  QueueSafe, Types
    <3>2. jobs' = jobs \/ jobs' = <<>> \/ jobs' = disk
      BY <1>3 DEF EnforceArchiveLimit, RequestStop, Exit, Crash, Start, queueVars
    <3>3. <<>> \in Seq(Job)
      OBVIOUS
    <3>4. jobs \in Seq(Job) /\ disk \in Seq(Job)
      BY DEF QueueSafe, Types
    <3>5. jobs' \in Seq(Job)
      BY <3>2, <3>3, <3>4
    <3>6. active' = active \/ active' = None
      BY <1>3 DEF EnforceArchiveLimit, RequestStop, Exit, Crash, Start, queueVars
    <3> QED
      BY <1>0, <2>1, <2>2, <3>1, <3>5, <3>6 DEF QueueSafe, Types
  <2>4. SavedWhenUnlocked' /\ (worker' = "down" => active' = None)
    BY <1>3
       DEF EnforceArchiveLimit, RequestStop, Exit, Crash, Start, queueVars, QueueSafe, Types,
           SavedWhenUnlocked, FilesOf
  <2>5. active' = active \/ active' = None
    BY <1>3 DEF EnforceArchiveLimit, RequestStop, Exit, Crash, Start, queueVars
  <2>6. Distinct(disk)' /\ Accounted'
    BY <1>0, <2>1, <2>5 DEF QueueSafe, Distinct, Accounted, FilesOf
  <2>7. QueuedFilesKept'
    <3>1. CASE EnforceArchiveLimit
      <4>1. /\ \E listed \in SUBSET archive, stuck \in SUBSET archive :
                  archive' = (archive \ listed) \cup WithinLimit(listed, stuck)
            /\ FilesOf(disk) \subseteq FilesOf(jobs)
        BY <3>1 DEF EnforceArchiveLimit, QueueSafe, SavedWhenUnlocked
      <4>2. \A f \in FilesOf(disk) : f \in archive /\ Protected(f)
        BY <4>1 DEF QueueSafe, QueuedFilesKept, Protected
      <4> QED
        BY <2>1, <4>1, <4>2 DEF QueuedFilesKept, WithinLimit, FilesOf
    <3>2. CASE RequestStop \/ Exit \/ Crash \/ Start \/ UNCHANGED queueVars
      BY <2>1, <3>2
         DEF RequestStop, Exit, Crash, Start, queueVars, QueueSafe, QueuedFilesKept, FilesOf
    <3> QED
      BY <1>3, <3>1, <3>2
  <2> QED
    BY <1>0, <2>1, <2>3, <2>4, <2>6, <2>7 DEF QueueSafe, LedgerStatus, FilesOf
<1> QED
  BY <1>1, <1>2, <1>3

LEMMA NextSafe == QueueSafe /\ [Next]_queueVars => QueueSafe'
BY RecordStopSafe, CommitSafe, UploadReturnsSafe, OtherSafe DEF Next

\* Whenever mutex_ is free the file holds the queue and the job that is uploaded, through
\* any number of crashes, stops and retries (UploadQueue.cpp:39-45, 75).
THEOREM FileHoldsQueue == Spec => []SavedWhenUnlocked
<1>1. QueueSafe => SavedWhenUnlocked
  BY DEF QueueSafe
<1> QED
  BY <1>1, InitSafe, NextSafe, PTL DEF Spec

\* The recording of a queued job is never evicted from the archive, whatever the limit,
\* whichever record_stop enforces it and however often the worker was restarted
\* (UploadQueue.cpp:51-67).
THEOREM QueuedRecordingsAreKept == Spec => []QueuedFilesKept
<1>1. QueueSafe => QueuedFilesKept
  BY DEF QueueSafe
<1> QED
  BY <1>1, InitSafe, NextSafe, PTL DEF Spec

\* The queue implements the ledger: no crash, stop, retry or change of the archive loses
\* a queued recording or settles it twice, and none is settled as uploaded without a
\* video (UploadQueue.cpp:20-42, 68-78).
THEOREM QueueImplementsLedger == Spec => LedgerSpec
<1>1. QueueInit => Ledger!Init
  BY DEF QueueInit, Ledger!Init, LedgerStatus, FilesOf
<1>2. QueueSafe /\ [Next]_queueVars => [Ledger!Next]_<<LedgerStatus, published>>
  <2> SUFFICES ASSUME QueueSafe, [Next]_queueVars
               PROVE  [Ledger!Next]_<<LedgerStatus, published>>
    OBVIOUS
  <2>1. ASSUME NEW f \in Files, RecordStop(f)
        PROVE  [Ledger!Next]_<<LedgerStatus, published>>
    BY <2>1, RecordStopSafe DEF RecordStop, Ledger!Next
  <2>2. CASE Commit
    BY <2>2, CommitSafe DEF Commit, Ledger!Next
  <2>3. CASE UploadReturns
    BY <2>3, UploadReturnsSafe DEF Ledger!Next
  <2> QED
    BY <2>1, <2>2, <2>3, OtherSafe DEF Next
<1> QED
  BY <1>1, <1>2, InitSafe, NextSafe, PTL DEF Spec, LedgerSpec, Ledger!Spec

-----------------------------------------------------------------------------
(* The size of a set of files *)

\* A set of natural numbers has a least element.
LEMMA LeastNatural ==
  ASSUME NEW T \in SUBSET Nat, T # {}
  PROVE  \E x \in T : \A y \in T : x <= y
<1>1. SUFFICES ASSUME NEW Less, Less = {pair \in Nat \X Nat : pair[1] < pair[2]},
                      IsWellFoundedOn(Less, Nat)
               PROVE  \E x \in T : \A y \in T : x <= y
  <2>1. OpToRel(<, Nat) = {pair \in Nat \X Nat : pair[1] < pair[2]}
    BY DEF OpToRel
  <2> QED
    BY <2>1, <1>1, NatLessThanWellFounded
<1>2. PICK x \in T : \A y \in T : ~(<<y, x>> \in Less)
  BY <1>1, WFMin
<1>3. \A y \in T : ~(y < x)
  BY <1>1, <1>2
<1> QED
  BY <1>3

\* A total over the subsets of files, added up in the order of CHOOSE as MapThenSumSet does.
One(files) == CHOOSE f \in files : TRUE
AddsUp(total, files) ==
  total = [s \in SUBSET files |-> IF s = {} THEN 0 ELSE Size[One(s)] + total[s \ {One(s)}]]

LEMMA SizeIsTotal ==
  ASSUME NEW files
  PROVE  SizeOf(files) = (CHOOSE total : AddsUp(total, files))[files]
  BY DEF SizeOf, MapThenSumSet, MapThenFoldSet, AddsUp, One

\* There is such a total: it is defined for larger and larger subsets.
LEMMA TotalExists ==
  ASSUME NEW files \in SUBSET Files, IsFiniteSet(files)
  PROVE  \E total \in [SUBSET files -> Nat] : AddsUp(total, files)
<1> DEFINE Sum(total, s) == IF s = {} THEN 0 ELSE Size[One(s)] + total[s \ {One(s)}]
           Upto(n) == \E total \in [SUBSET files -> Nat] :
                        \A s \in SUBSET files : Cardinality(s) <= n => total[s] = Sum(total, s)
           wrong == {n \in Nat : ~Upto(n)}
<1>1. ASSUME NEW s \in SUBSET files
      PROVE  /\ IsFiniteSet(s) /\ Cardinality(s) \in Nat /\ (Cardinality(s) = 0 <=> s = {})
             /\ s # {} => /\ One(s) \in s /\ Size[One(s)] \in Nat
                          /\ s \ {One(s)} \in SUBSET files
                          /\ Cardinality(s \ {One(s)}) = Cardinality(s) - 1
  <2>1. IsFiniteSet(s) /\ Cardinality(s) \in Nat /\ (Cardinality(s) = 0 <=> s = {})
    BY FS_Subset, FS_CardinalityType, FS_EmptySet
  <2>2. ASSUME s # {}
        PROVE  One(s) \in s
    BY <2>2, Zenon DEF One
  <2>3. ASSUME s # {}
        PROVE  Cardinality(s \ {One(s)}) = Cardinality(s) - 1
    BY <2>1, <2>2, <2>3, FS_RemoveElement
  <2> QED
    BY <2>1, <2>2, <2>3, QueueAssumption
<1>2. ASSUME NEW total \in [SUBSET files -> Nat], NEW s \in SUBSET files
      PROVE  Sum(total, s) \in Nat
  <2>1. CASE s = {}
    BY <2>1
  <2>2. CASE s # {}
    <3>1. Size[One(s)] \in Nat /\ s \ {One(s)} \in SUBSET files
      BY <1>1, <2>2
    <3>2. total[s \ {One(s)}] \in Nat
      BY <3>1
    <3>3. Sum(total, s) = Size[One(s)] + total[s \ {One(s)}]
      BY <2>2
    <3> HIDE DEF Sum
    <3> QED
      BY <3>1, <3>2, <3>3
  <2> QED
    BY <2>1, <2>2
<1>3. wrong = {}
  <2>1. SUFFICES ASSUME wrong # {} PROVE FALSE
    OBVIOUS
  <2>2. wrong \in SUBSET Nat
    OBVIOUS
  <2>3. PICK n \in wrong : \A m \in wrong : n <= m
    <3> HIDE DEF wrong
    <3> QED
      BY <2>1, <2>2, LeastNatural
  <2>4. n \in Nat /\ ~Upto(n)
    OBVIOUS
  <2>5. Upto(0)
    <3> DEFINE zero == [s \in SUBSET files |-> 0]
    <3>1. zero \in [SUBSET files -> Nat]
      OBVIOUS
    <3>2. ASSUME NEW s \in SUBSET files, Cardinality(s) <= 0
          PROVE  zero[s] = Sum(zero, s)
      <4>1. s = {}
        <5>1. Cardinality(s) \in Nat /\ (Cardinality(s) = 0 <=> s = {})
          BY <1>1
        <5> QED
          BY <3>2, <5>1
      <4> QED
        BY <4>1
    <3> QED
      BY <3>1, <3>2
  <2>6. n - 1 \in Nat /\ Upto(n - 1)
    <3>1. n # 0
      BY <2>4, <2>5
    <3>2. n - 1 \in Nat /\ ~(n <= n - 1)
      BY <2>4, <3>1
    <3>3. n - 1 \notin wrong
      BY <2>3, <3>2
    <3> HIDE DEF Upto
    <3> QED
      BY <3>2, <3>3
  <2>7. PICK total \in [SUBSET files -> Nat] :
          \A s \in SUBSET files : Cardinality(s) <= n - 1 => total[s] = Sum(total, s)
    BY <2>6
  <2> DEFINE more == [s \in SUBSET files |->
                        IF Cardinality(s) <= n - 1 THEN total[s] ELSE Sum(total, s)]
  <2>8. more \in [SUBSET files -> Nat]
    <3> HIDE DEF Sum
    <3> QED
      BY <1>2
  <2>9. ASSUME NEW s \in SUBSET files, Cardinality(s) <= n
        PROVE  more[s] = Sum(more, s)
    <3>1. CASE s = {}
      <4>1. Cardinality(s) <= n - 1
        <5>1. Cardinality(s) = 0
          BY <3>1, FS_EmptySet
        <5> QED
          BY <2>6, <5>1
      <4> QED
        BY <2>7, <3>1, <4>1
    <3>2. CASE s # {}
      <4>1. /\ s \ {One(s)} \in SUBSET files
            /\ Cardinality(s \ {One(s)}) <= n - 1
        BY <1>1, <2>4, <2>9, <3>2
      <4>2. more[s \ {One(s)}] = total[s \ {One(s)}]
        BY <4>1
      <4>3. more[s] = Sum(total, s)
        <5> HIDE DEF Sum
        <5> QED
          BY <2>7
      <4> HIDE DEF more
      <4> QED
        BY <3>2, <4>2, <4>3
    <3> QED
      BY <3>1, <3>2
  <2>10. Upto(n)
    <3> HIDE DEF more, Sum
    <3> QED
      BY <2>8, <2>9
  <2> QED
    BY <2>4, <2>10
<1>4. Cardinality(files) \in Nat
  BY FS_CardinalityType
<1>5. Upto(Cardinality(files))
  <2> HIDE DEF Upto
  <2> QED
    BY <1>3, <1>4
<1>6. PICK total \in [SUBSET files -> Nat] :
        \A s \in SUBSET files : Cardinality(s) <= Cardinality(files) => total[s] = Sum(total, s)
  BY <1>5
<1>7. ASSUME NEW s \in SUBSET files
      PROVE  total[s] = Sum(total, s)
  <2>1. Cardinality(s) <= Cardinality(files)
    BY FS_Subset
  <2> HIDE DEF Sum
  <2> QED
    BY <1>6, <2>1
<1>8. total = [s \in SUBSET files |-> Sum(total, s)]
  <2> HIDE DEF Sum
  <2> QED
    BY <1>7
<1>9. AddsUp(total, files)
  BY <1>8 DEF AddsUp
<1> QED
  BY <1>9

\* What a total adds up for a set of files.
LEMMA TotalIs ==
  ASSUME NEW files, NEW total, AddsUp(total, files), NEW s \in SUBSET files
  PROVE  total[s] = IF s = {} THEN 0 ELSE Size[One(s)] + total[s \ {One(s)}]
<1> DEFINE Sum(u) == IF u = {} THEN 0 ELSE Size[One(u)] + total[u \ {One(u)}]
<1>1. total = [u \in SUBSET files |-> Sum(u)]
  BY DEF AddsUp
<1>2. total[s] = Sum(s)
  <2> HIDE DEF Sum
  <2> QED
    BY <1>1
<1> QED
  BY <1>2

\* All totals are the same, over whichever sets.
LEMMA TotalsAgree ==
  ASSUME NEW files \in SUBSET Files, IsFiniteSet(files), NEW more, files \subseteq more,
         NEW a, AddsUp(a, files), NEW b, AddsUp(b, more)
  PROVE  \A s \in SUBSET files : a[s] = b[s]
<1> DEFINE wrong == {s \in SUBSET files : a[s] # b[s]}
           counts == {Cardinality(s) : s \in wrong}
<1>1. SUFFICES ASSUME wrong # {} PROVE FALSE
  OBVIOUS
<1>2. \A s \in SUBSET files : IsFiniteSet(s) /\ Cardinality(s) \in Nat
  BY FS_Subset, FS_CardinalityType
<1>3. PICK n \in counts : \A m \in counts : n <= m
  <2>1. counts \in SUBSET Nat /\ counts # {}
    BY <1>1, <1>2
  <2> HIDE DEF counts
  <2> QED
    BY <2>1, LeastNatural
<1>4. PICK s \in wrong : n = Cardinality(s)
  OBVIOUS
<1>5. s \in SUBSET files /\ s \in SUBSET more /\ a[s] # b[s]
  OBVIOUS
<1>6. /\ a[s] = IF s = {} THEN 0 ELSE Size[One(s)] + a[s \ {One(s)}]
      /\ b[s] = IF s = {} THEN 0 ELSE Size[One(s)] + b[s \ {One(s)}]
  <2> HIDE DEF wrong
  <2>1. a[s] = IF s = {} THEN 0 ELSE Size[One(s)] + a[s \ {One(s)}]
    <3>1. AddsUp(a, files) /\ s \in SUBSET files
      BY <1>5
    <3> QED
      BY <3>1, TotalIs
  <2>2. b[s] = IF s = {} THEN 0 ELSE Size[One(s)] + b[s \ {One(s)}]
    BY <1>5, TotalIs
  <2> QED
    BY <2>1, <2>2
<1>7. CASE s = {}
  BY <1>5, <1>6, <1>7
<1>8. CASE s # {}
  <2> DEFINE rest == s \ {One(s)}
  <2>1. One(s) \in s
    BY <1>8, Zenon DEF One
  <2>2. Cardinality(rest) = Cardinality(s) - 1 /\ Cardinality(s) \in Nat
    BY <1>2, <1>5, <2>1, FS_RemoveElement
  <2>3. rest \in SUBSET files
    BY <1>5
  <2>4. rest \notin wrong
    <3>1. ~(n <= Cardinality(rest))
      BY <1>4, <2>2
    <3>2. Cardinality(rest) \notin counts
      BY <1>3, <3>1
    <3> QED
      BY <3>2
  <2>5. a[rest] = b[rest]
    BY <2>3, <2>4
  <2> QED
    BY <1>5, <1>6, <1>8, <2>5
<1> QED
  BY <1>7, <1>8

\* The size of a set of files is that of the file CHOOSE takes first and of the others.
LEMMA SizeOfFirst ==
  ASSUME NEW files \in SUBSET Files, IsFiniteSet(files)
  PROVE  /\ SizeOf(files) \in Nat
         /\ files = {} => SizeOf(files) = 0
         /\ files # {} => /\ One(files) \in files
                          /\ SizeOf(files) = Size[One(files)] + SizeOf(files \ {One(files)})
<1> DEFINE total == CHOOSE t : AddsUp(t, files)
           rest == files \ {One(files)}
           other == CHOOSE t : AddsUp(t, rest)
<1>1. AddsUp(total, files) /\ SizeOf(files) = total[files]
  BY TotalExists, SizeIsTotal, Zenon
<1>2. rest \in SUBSET Files /\ rest \subseteq files /\ IsFiniteSet(rest)
  BY FS_RemoveElement
<1>3. AddsUp(other, rest) /\ SizeOf(rest) = other[rest]
  <2>1. \E t : AddsUp(t, rest)
    <3> HIDE DEF rest
    <3> QED
      BY <1>2, TotalExists
  <2>2. AddsUp(other, rest)
    <3> HIDE DEF rest
    <3> QED
      BY <2>1, Zenon
  <2> HIDE DEF rest
  <2> QED
    BY <2>2, SizeIsTotal
<1>4. PICK some \in [SUBSET files -> Nat] : AddsUp(some, files)
  BY TotalExists
<1> HIDE DEF total, other
<1>5. \A s \in SUBSET files : total[s] = some[s]
  BY <1>1, <1>4, TotalsAgree
<1>6. SizeOf(files) \in Nat
  <2>1. files \in SUBSET files
    OBVIOUS
  <2> QED
    BY <1>1, <1>4, <1>5, <2>1
<1>7. total[rest] = other[rest]
  <2> HIDE DEF rest
  <2>1. \A s \in SUBSET rest : other[s] = total[s]
    BY <1>1, <1>2, <1>3, TotalsAgree
  <2> QED
    BY <2>1
<1>8. total[files] = IF files = {} THEN 0 ELSE Size[One(files)] + total[rest]
  BY <1>1, TotalIs
<1>9. files # {} => One(files) \in files
  BY Zenon DEF One
<1> QED
  BY <1>1, <1>3, <1>6, <1>7, <1>8, <1>9

\* Whichever file is taken out, the size is its and that of the others.
LEMMA SizeOfOthers ==
  ASSUME NEW files \in SUBSET Files, IsFiniteSet(files)
  PROVE  \A f \in files : SizeOf(files) = Size[f] + SizeOf(files \ {f})
<1> DEFINE Right(s) == \A f \in s : SizeOf(s) = Size[f] + SizeOf(s \ {f})
           wrong == {s \in SUBSET files : ~Right(s)}
           counts == {Cardinality(s) : s \in wrong}
<1>1. SUFFICES ASSUME wrong # {} PROVE FALSE
  <2>1. wrong = {} => Right(files)
    <3> HIDE DEF Right
    <3> QED
      OBVIOUS
  <2> QED
    BY <2>1
<1>2. \A s \in SUBSET files : IsFiniteSet(s) /\ Cardinality(s) \in Nat
  BY FS_Subset, FS_CardinalityType
<1>3. PICK n \in counts : \A m \in counts : n <= m
  <2>1. counts \in SUBSET Nat /\ counts # {}
    <3> HIDE DEF Right
    <3> QED
      BY <1>1, <1>2
  <2> HIDE DEF counts
  <2> QED
    BY <2>1, LeastNatural
<1>4. PICK s \in wrong : n = Cardinality(s)
  <2> HIDE DEF wrong
  <2> QED
    OBVIOUS
<1>5. s \in SUBSET files /\ ~Right(s)
  <2> HIDE DEF Right
  <2> QED
    OBVIOUS
<1>6. PICK f \in s : SizeOf(s) # Size[f] + SizeOf(s \ {f})
  BY <1>5
<1>7. ASSUME NEW t \in SUBSET files, Cardinality(t) = Cardinality(s) - 1
      PROVE  Right(t)
  <2> HIDE DEF Right
  <2>1. Cardinality(t) \in Nat /\ Cardinality(s) \in Nat
    BY <1>2, <1>5
  <2>2. ~(n <= Cardinality(t))
    BY <1>4, <1>7, <2>1
  <2>3. Cardinality(t) \notin counts
    BY <1>3, <2>2
  <2> QED
    BY <2>3
<1> DEFINE g == One(s)
<1>8. /\ g \in s /\ SizeOf(s) = Size[g] + SizeOf(s \ {g})
      /\ IsFiniteSet(s) /\ s \in SUBSET Files
  <2>1. IsFiniteSet(s) /\ s \in SUBSET Files /\ s # {}
    BY <1>2, <1>5, <1>6
  <2> QED
    BY <2>1, SizeOfFirst
<1> HIDE DEF g, wrong, counts
<1>9. f # g
  BY <1>6, <1>8
<1>10. /\ s \ {f} \in SUBSET files /\ Cardinality(s \ {f}) = Cardinality(s) - 1
       /\ s \ {g} \in SUBSET files /\ Cardinality(s \ {g}) = Cardinality(s) - 1
  BY <1>5, <1>6, <1>8, FS_RemoveElement
<1>11. SizeOf(s \ {g}) = Size[f] + SizeOf((s \ {g}) \ {f})
  <2>1. Right(s \ {g})
    BY <1>7, <1>10
  <2>2. f \in s \ {g}
    BY <1>6, <1>9
  <2> QED
    BY <2>1, <2>2
<1>12. SizeOf(s \ {f}) = Size[g] + SizeOf((s \ {f}) \ {g})
  <2>1. Right(s \ {f})
    BY <1>7, <1>10
  <2>2. g \in s \ {f}
    BY <1>8, <1>9
  <2> QED
    BY <2>1, <2>2
<1>13. (s \ {f}) \ {g} = (s \ {g}) \ {f}
  OBVIOUS
<1>14. /\ Size[f] \in Nat /\ Size[g] \in Nat
       /\ SizeOf((s \ {g}) \ {f}) \in Nat
  <2>1. f \in Files /\ g \in Files
    BY <1>6, <1>8
  <2>2. (s \ {g}) \ {f} \in SUBSET Files /\ IsFiniteSet((s \ {g}) \ {f})
    BY <1>8, FS_RemoveElement
  <2> QED
    BY <2>1, <2>2, SizeOfFirst, QueueAssumption
<1>15. SizeOf(s \ {f}) = Size[g] + SizeOf((s \ {g}) \ {f})
  BY <1>12, <1>13
<1> HIDE DEF Right
<1>16. \A a, b, c \in Nat : b + (a + c) = a + (b + c)
  OBVIOUS
<1>17. Size[g] + (Size[f] + SizeOf((s \ {g}) \ {f})) = Size[f] + (Size[g] + SizeOf((s \ {g}) \ {f}))
  BY <1>14, <1>16
<1> QED
  BY <1>6, <1>8, <1>11, <1>15, <1>17

\* The size of a set is that of a part and that of the rest.
LEMMA SizeOfParts ==
  ASSUME NEW files \in SUBSET Files, IsFiniteSet(files), NEW part \in SUBSET files
  PROVE  SizeOf(files) = SizeOf(part) + SizeOf(files \ part)
<1> DEFINE Right(s) == SizeOf(files) = SizeOf(s) + SizeOf(files \ s)
           wrong == {s \in SUBSET files : ~Right(s)}
           counts == {Cardinality(s) : s \in wrong}
<1>1. SUFFICES ASSUME wrong # {} PROVE FALSE
  OBVIOUS
<1>2. \A s \in SUBSET files : /\ IsFiniteSet(s) /\ Cardinality(s) \in Nat
                              /\ s \in SUBSET Files /\ SizeOf(s) \in Nat
  BY FS_Subset, FS_CardinalityType, SizeOfFirst
<1>3. PICK n \in counts : \A m \in counts : n <= m
  <2>1. counts \in SUBSET Nat /\ counts # {}
    <3> HIDE DEF Right
    <3> QED
      BY <1>1, <1>2
  <2> HIDE DEF counts
  <2> QED
    BY <2>1, LeastNatural
<1>4. PICK s \in wrong : n = Cardinality(s)
  <2> HIDE DEF wrong
  <2> QED
    OBVIOUS
<1>5. s \in SUBSET files /\ ~Right(s)
  <2> HIDE DEF Right
  <2> QED
    OBVIOUS
<1>6. s # {}
  <2>1. SUFFICES ASSUME s = {} PROVE FALSE
    OBVIOUS
  <2>2. files \ s = files /\ SizeOf(s) = 0
    BY <2>1, SizeOfFirst, FS_EmptySet
  <2>3. SizeOf(files) \in Nat
    BY SizeOfFirst
  <2> QED
    BY <1>5, <2>2, <2>3
<1>7. PICK f \in s : TRUE
  BY <1>6
<1> DEFINE less == s \ {f}
<1>8. less \in SUBSET files /\ Cardinality(less) = Cardinality(s) - 1
  BY <1>2, <1>5, <1>7, FS_RemoveElement
<1>9. Right(less)
  <2> HIDE DEF Right, less
  <2>1. Cardinality(less) \in Nat /\ Cardinality(s) \in Nat
    BY <1>2, <1>5, <1>8
  <2>2. ~(n <= Cardinality(less))
    BY <1>4, <1>8, <2>1
  <2>3. Cardinality(less) \notin counts
    BY <1>3, <2>2
  <2> QED
    BY <1>8, <2>3
<1>10. SizeOf(s) = Size[f] + SizeOf(less)
  BY <1>2, <1>5, <1>7, SizeOfOthers
<1>11. SizeOf(files \ less) = Size[f] + SizeOf(files \ s)
  <2>1. f \in files \ less /\ (files \ less) \ {f} = files \ s
    BY <1>5, <1>7
  <2>2. files \ less \in SUBSET Files /\ IsFiniteSet(files \ less)
    BY <1>2
  <2>3. SizeOf(files \ less) = Size[f] + SizeOf((files \ less) \ {f})
    <3> DEFINE others == files \ less
    <3> HIDE DEF others
    <3>1. ASSUME f \in others, others \in SUBSET Files, IsFiniteSet(others)
          PROVE  SizeOf(others) = Size[f] + SizeOf(others \ {f})
      BY <3>1, SizeOfOthers
    <3> QED
      BY <2>1, <2>2, <3>1 DEF others
  <2> QED
    BY <2>1, <2>3
<1>12. /\ Size[f] \in Nat /\ SizeOf(less) \in Nat /\ SizeOf(files \ s) \in Nat
  <2>1. f \in Files
    BY <1>5, <1>7
  <2> QED
    BY <1>2, <1>8, <2>1, QueueAssumption
<1> HIDE DEF less, wrong, counts
<1> QED
  BY <1>5, <1>9, <1>10, <1>11, <1>12

-----------------------------------------------------------------------------
(* The limit *)

\* The files and the recordings so far are finitely many: what their sizes add up to, and the
\* rank of the next one, are numbers.
ArchiveOK ==
  /\ archive \subseteq Files /\ IsFiniteSet(archive)
  /\ written \in [Files -> Nat]
  /\ spared \in [missed: SUBSET Files, stuck: SUBSET Files]
  /\ IsFiniteSet({f \in Files : outcome[f] # "none"})

LEMMA ArchiveStep == Types /\ ArchiveOK /\ [Next]_queueVars => ArchiveOK'
<1> SUFFICES ASSUME Types, ArchiveOK, [Next]_queueVars PROVE ArchiveOK'
  OBVIOUS
<1> DEFINE known == {f \in Files : outcome[f] # "none"}
<1>1. /\ archive \subseteq Files /\ IsFiniteSet(archive) /\ written \in [Files -> Nat]
      /\ IsFiniteSet(known) /\ spared \in [missed: SUBSET Files, stuck: SUBSET Files]
      /\ outcome \in [Files -> {"none", "local", "queued", "uploaded", "dropped"}]
  BY DEF ArchiveOK, Types
<1>2. ASSUME NEW f \in Files, RecordStop(f)
      PROVE  ArchiveOK'
  <2>1. archive' = archive \cup {f} /\ IsFiniteSet(archive \cup {f})
    BY <1>1, <1>2, FS_AddElement DEF RecordStop
  <2>2. 1 + Cardinality(known) \in Nat
    BY <1>1, FS_CardinalityType
  <2>3. written' = [written EXCEPT ![f] = 1 + Cardinality(known)]
    BY <1>2 DEF RecordStop
  <2>4. written' \in [Files -> Nat]
    <3> HIDE DEF known
    <3> QED
      BY <1>1, <2>2, <2>3
  <2>5. known' = known \cup {f}
    <3>1. PICK o \in {"queued", "local"} : outcome' = [outcome EXCEPT ![f] = o]
      BY <1>2 DEF RecordStop
    <3> QED
      BY <1>1, <3>1
  <2>6. IsFiniteSet(known')
    <3> HIDE DEF known
    <3> QED
      BY <1>1, <2>5, FS_AddElement
  <2>7. spared' \in [missed: SUBSET Files, stuck: SUBSET Files]
    BY <1>2 DEF RecordStop, NoneSpared
  <2> QED
    BY <1>1, <2>1, <2>4, <2>6, <2>7 DEF ArchiveOK
<1>3. CASE Commit
  <2>1. archive' = archive /\ written' = written /\ spared' = spared
    BY <1>3 DEF Commit
  <2>2. \/ outcome' = outcome
        \/ \E o \in {"uploaded", "dropped"} : outcome' = [outcome EXCEPT ![active.job.file] = o]
    BY <1>3 DEF Commit
  <2>3. active # None
    BY <1>3 DEF Commit
  <2>4. active.job.file \in Files
    BY <2>3 DEF Types, Active, Job
  <2>5. known' \subseteq known \cup {active.job.file}
    BY <1>1, <2>2, <2>4
  <2>6. IsFiniteSet(known \cup {active.job.file})
    <3> HIDE DEF known
    <3> QED
      BY <1>1, FS_AddElement
  <2>7. IsFiniteSet(known')
    <3> HIDE DEF known
    <3> QED
      BY <2>5, <2>6, FS_Subset
  <2> QED
    BY <1>1, <2>1, <2>7 DEF ArchiveOK
<1>4. CASE EnforceArchiveLimit
  <2>0. PICK listed \in SUBSET archive, stuck \in SUBSET archive :
          /\ archive' = (archive \ listed) \cup WithinLimit(listed, stuck)
          /\ spared' = [missed |-> archive \ listed, stuck |-> stuck]
    BY <1>4 DEF EnforceArchiveLimit
  <2>1. archive' \subseteq archive /\ written' = written /\ outcome' = outcome
    BY <1>4, <2>0 DEF EnforceArchiveLimit, WithinLimit
  <2>2. IsFiniteSet(archive')
    BY <1>1, <2>1, FS_Subset
  <2>3. spared' \in [missed: SUBSET Files, stuck: SUBSET Files]
    BY <1>1, <2>0
  <2> QED
    BY <1>1, <2>1, <2>2, <2>3 DEF ArchiveOK
<1>5. CASE Pick \/ UploadReturns \/ RequestStop \/ Exit \/ Crash \/ Start \/ Tick
             \/ UNCHANGED queueVars
  <2>1. UNCHANGED <<archive, written, spared, outcome>>
    BY <1>5 DEF Pick, UploadReturns, RequestStop, Exit, Crash, Start, Tick, queueVars
  <2> QED
    BY <2>1 DEF ArchiveOK
<1> QED
  BY <1>2, <1>3, <1>4, <1>5 DEF Next

LEMMA ArchiveInit == QueueInit => ArchiveOK
<1> SUFFICES ASSUME QueueInit PROVE ArchiveOK
  OBVIOUS
<1>1. {f \in Files : outcome[f] # "none"} = {}
  BY DEF QueueInit
<1> QED
  BY <1>1, FS_EmptySet DEF QueueInit, NoneSpared, ArchiveOK

\* A smaller set of files has a smaller size.
LEMMA SizeOfPart ==
  ASSUME NEW files \in SUBSET Files, IsFiniteSet(files), NEW part \in SUBSET files
  PROVE  SizeOf(part) <= SizeOf(files)
<1>1. SizeOf(files) = SizeOf(part) + SizeOf(files \ part)
  BY SizeOfParts
<1>2. /\ part \in SUBSET Files /\ IsFiniteSet(part)
      /\ files \ part \in SUBSET Files /\ IsFiniteSet(files \ part)
  BY FS_Subset
<1>3. SizeOf(part) \in Nat /\ SizeOf(files \ part) \in Nat
  BY <1>2, SizeOfFirst
<1> QED
  BY <1>1, <1>3

\* What stays of the files that were found is within the limit, unless only files stay that
\* are protected or stuck: those before the oldest other one that stays have all gone, and
\* with them what was above the limit.
LEMMA LimitKept ==
  ASSUME ArchiveOK, NEW files \in SUBSET archive, NEW stuck
  PROVE  \/ SizeOf(WithinLimit(files, stuck)) <= Limit
         \/ \A f \in WithinLimit(files, stuck) : Protected(f) \/ f \in stuck
<1> DEFINE left == WithinLimit(files, stuck)
           stay == {f \in left : ~Protected(f) /\ f \notin stuck}
           times == {written[f] : f \in stay}
<1>1. SUFFICES ASSUME stay # {} PROVE SizeOf(left) <= Limit
  OBVIOUS
<1>2. /\ files \in SUBSET Files /\ IsFiniteSet(files)
      /\ \A f \in files : written[f] \in Nat
  BY FS_Subset DEF ArchiveOK
<1>3. /\ left \subseteq files
      /\ \A f \in stay : f \in files /\ ~Protected(f) /\ f \notin stuck /\ ~Above(files, stuck, f)
  BY DEF WithinLimit
<1> HIDE DEF left
<1>4. PICK f \in stay : \A g \in stay : written[f] <= written[g]
  <2>1. times \in SUBSET Nat /\ times # {}
    <3> HIDE DEF stay
    <3> QED
      BY <1>1, <1>2, <1>3
  <2>2. PICK t \in times : \A u \in times : t <= u
    <3> HIDE DEF times
    <3> QED
      BY <2>1, LeastNatural
  <2> HIDE DEF stay
  <2>3. PICK f \in stay : t = written[f]
    OBVIOUS
  <2>4. \A g \in stay : written[f] <= written[g]
    BY <2>2, <2>3
  <2> QED
    BY <2>4
<1> DEFINE gone == Before(files, stuck, f)
<1>5. gone \in SUBSET files /\ f \in files
  BY <1>3 DEF Before
<1>6. left \subseteq files \ gone
  <2>1. ASSUME NEW g \in left, g \in gone
        PROVE  FALSE
    <3>1. g \in files /\ g \notin stuck /\ written[g] < written[f] /\ ~Protected(g)
      BY <2>1 DEF Before
    <3>2. g \in stay
      BY <2>1, <3>1
    <3>3. written[f] <= written[g]
      BY <1>4, <3>2
    <3>4. written[f] \in Nat /\ written[g] \in Nat
      BY <1>2, <1>5, <3>1
    <3> QED
      BY <3>1, <3>3, <3>4
  <2> HIDE DEF gone
  <2> QED
    BY <1>3, <2>1
<1>7. SizeOf(files) = SizeOf(gone) + SizeOf(files \ gone)
  <2> HIDE DEF gone
  <2> QED
    BY <1>2, <1>5, SizeOfParts
<1>8. /\ IsFiniteSet(gone) /\ gone \in SUBSET Files
      /\ IsFiniteSet(files \ gone) /\ files \ gone \in SUBSET Files
  <2> HIDE DEF gone
  <2> QED
    BY <1>2, <1>5, FS_Subset
<1>9. /\ SizeOf(gone) \in Nat /\ SizeOf(files \ gone) \in Nat /\ Limit \in Nat
      /\ SizeOf(files) \in Nat
  <2> HIDE DEF gone
  <2> QED
    BY <1>2, <1>8, SizeOfFirst, QueueAssumption
<1>10. SizeOf(left) <= SizeOf(files \ gone)
  <2> HIDE DEF gone
  <2>1. left \in SUBSET (files \ gone)
    BY <1>6
  <2> QED
    BY <1>8, <2>1, SizeOfPart
<1>11. SizeOf(left) \in Nat
  <2>1. left \in SUBSET Files /\ IsFiniteSet(left)
    BY <1>2, <1>3, FS_Subset
  <2> QED
    BY <2>1, SizeOfFirst
<1>12. ~(SizeOf(files) - SizeOf(gone) > Limit)
  BY <1>3, <1>4 DEF Above
<1> HIDE DEF gone
<1> QED
  BY <1>7, <1>9, <1>10, <1>11, <1>12

\* The queue, the file and the archive are well formed, and an attempt or a wait is never more
\* than the source allows (UploadQueue.cpp:20-78).
THEOREM QueueTypeCorrect == Spec => []TypeOK
<1>1. QueueInit => QueueSafe /\ ArchiveOK
  BY InitSafe, ArchiveInit
<1>2. QueueSafe /\ ArchiveOK /\ [Next]_queueVars => (QueueSafe /\ ArchiveOK)'
  BY NextSafe, ArchiveStep DEF QueueSafe
<1>3. QueueSafe /\ ArchiveOK => TypeOK
  BY DEF QueueSafe, Types, ArchiveOK, TypeOK, Active
<1> QED
  BY <1>1, <1>2, <1>3, PTL DEF Spec

\* Once a record_stop has enforced the limit, the files it has found are within it, or those
\* that stay are protected or could not be removed, for any sizes, limit, order of the
\* recordings and failures of the file system (UploadQueue.cpp:54-66).
THEOREM LimitIsEnforced == Spec => LimitEnforced
<1>1. QueueInit => QueueSafe /\ ArchiveOK
  BY InitSafe, ArchiveInit
<1>2. QueueSafe /\ ArchiveOK /\ [Next]_queueVars => (QueueSafe /\ ArchiveOK)'
  BY NextSafe, ArchiveStep DEF QueueSafe
<1> DEFINE Goal ==
             LET found == archive' \ spared'.missed
             IN \/ SizeOf(found) <= Limit
                \/ \A f \in found : Protected(f) \/ f \in spared'.stuck
<1>3. ASSUME QueueSafe, ArchiveOK, [Next]_queueVars
      PROVE  [keep # None /\ keep' = None /\ worker' = worker => Goal]_queueVars
  <2>1. SUFFICES ASSUME Next, keep # None, keep' = None, worker' = worker
                 PROVE  Goal
    BY <1>3
  <2>2. EnforceArchiveLimit
    <3>1. ASSUME NEW f \in Files
          PROVE  ~RecordStop(f)
      BY <2>1, QueueAssumption DEF RecordStop
    <3>2. ~Crash
      BY <2>1 DEF Crash
    <3> QED
      BY <2>1, <3>1, <3>2 DEF Next, Pick, UploadReturns, Commit, RequestStop, Exit, Start, Tick
  <2>3. PICK listed \in SUBSET archive, stuck \in SUBSET archive :
          /\ archive' = (archive \ listed) \cup WithinLimit(listed, stuck)
          /\ spared' = [missed |-> archive \ listed, stuck |-> stuck]
    BY <2>2 DEF EnforceArchiveLimit
  <2>4. /\ spared'.missed = archive \ listed /\ spared'.stuck = stuck
        /\ archive' \ spared'.missed = WithinLimit(listed, stuck)
    BY <2>3 DEF WithinLimit
  <2>5. \/ SizeOf(WithinLimit(listed, stuck)) <= Limit
        \/ \A f \in WithinLimit(listed, stuck) : Protected(f) \/ f \in stuck
    BY <1>3, <2>3, LimitKept
  <2> QED
    BY <2>4, <2>5
<1> QED
  BY <1>1, <1>2, <1>3, PTL DEF Spec, LimitEnforced
=============================================================================
